---------------------------- MODULE MCAuditChain ----------------------------
(* Instances of AuditChain for TLC, and the mutated forms of its           *)
(* definitions that its properties must refuse.                            *)
EXTENDS AuditChain, TLC

AppenderSymmetry == Permutations(Appenders)
=============================================================================
