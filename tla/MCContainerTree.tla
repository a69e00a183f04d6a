--------------------------- MODULE MCContainerTree --------------------------
(* A container 1 with a nested container 2, whose member is 3, and a       *)
(* member 4.  One may score low and be suspicious, one high and be clean.   *)
EXTENDS ContainerTree, TLC

MCJobs == 1..4
MCParent == <<0, 1, 2, 1>>
MCBelow == <<{2, 3, 4}, {3}, {}, {}>>
Loud == [score |-> 2, rank |-> 0]
Quiet == [score |-> 1, rank |-> 1]
MCGrades == [j \in MCJobs |-> CASE j = 3 -> {Unremarkable, Quiet}
                                [] j = 4 -> {Unremarkable, Loud}
                                [] OTHER -> {Unremarkable}]

Symmetry == Permutations(Sessions)
=============================================================================
