-------------------------- MODULE MCDetonationSeam --------------------------
(* Instances of DetonationSeam for TLC.                                    *)
EXTENDS DetonationSeam, TLC

Symmetry == Permutations(Workers) \cup Permutations(Requests)
=============================================================================
