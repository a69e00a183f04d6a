----------------------------- MODULE Detonation -----------------------------
(***************************************************************************)
(* What the seam with the detonation workers promises of each job, without *)
(* queue, workers, sessions or columns: it is owed a detonation until the  *)
(* answer is on its row - it ran, or it was refused - and the answer is    *)
(* final.  A job whose bytes retention has removed is owed nothing more,   *)
(* but a worker that has fetched them may still answer.                    *)
(***************************************************************************)
CONSTANTS Jobs,      \* jobs of a detonable family
          Doomed     \* those that crash the engine whenever they are run

VARIABLE outcome     \* outcome[j]: what the row of j says of its detonation

Outcomes == {"owed", "lapsed", "ran", "refused"}

Init == outcome = [j \in Jobs |-> "owed"]

Answer(j, answer) ==
    /\ outcome[j] \in {"owed", "lapsed"}
    /\ answer = "ran" => j \notin Doomed
    /\ outcome' = [outcome EXCEPT ![j] = answer]

Lapse(j) ==
    /\ outcome[j] = "owed"
    /\ outcome' = [outcome EXCEPT ![j] = "lapsed"]

Settle(j) == Lapse(j) \/ \E answer \in {"ran", "refused"} : Answer(j, answer)

Next == \E j \in Jobs : Settle(j)

(* Only a sample that crashes every engine may be owed its answer forever. *)
Fairness == \A j \in Jobs \ Doomed : WF_outcome(outcome[j] = "owed" /\ Settle(j))

(* What may happen to the outcomes, whether or not anything has to.        *)
Orderly == Init /\ [][Next]_outcome

Spec == Orderly /\ Fairness
=============================================================================
