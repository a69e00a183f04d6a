---------------------------- MODULE MCRetention -----------------------------
(* Instances of Retention.  Either the scheduler sweeps alone, and there    *)
(* are an archive, a member of it and an upload of the member's content; or*)
(* there are two uploads of one content, and an administrator sweeps too.  *)
EXTENDS Retention

MCJobs == 1..4
MCSha == <<"a", "b", "b", "b">>
MCParent == <<0, 1, 0, 0>>

Tree == 1..3
Twins == 3..4

Submitted(j) == row[j] # New \/ j \in stored

Only(S) == \A j \in Jobs \ S : ~Submitted(j)

(* The twins differ in nothing but their order.                            *)
Focus == \/ Only(Tree) /\ \A s \in Requests : sweep[s] = Idle
         \/ Only(Twins) /\ (Submitted(4) => Submitted(3))

(* No step that fairness asks for leaves the focus.                        *)
MCNext == Next /\ Focus'

MCSpec == Init /\ [][MCNext]_vars /\ Fairness
=============================================================================
