--------------------------- MODULE MCJobLifecycle ---------------------------
(* Instances of JobLifecycle for TLC.                                      *)
EXTENDS JobLifecycle, TLC

Symmetry == Permutations(Threads) \cup Permutations(Requests)
=============================================================================
