------------------------------- MODULE Intake -------------------------------
(***************************************************************************)
(* A submission from the request to the rows of everything that lies in it:*)
(* a file that is uploaded, or a URL whose content is fetched first        *)
(* (Fetch), and the archive that it may be, unpacked and analysed          *)
(* (Archive).  What is handed over is the stored file: the locals of       *)
(* fetch() are gone when it returns.                                       *)
(***************************************************************************)
EXTENDS Fetch, Archive

vars == <<fetchVars, archiveVars>>

Init == FetchInit /\ ArchiveInit

(* POST /api/analyze: the same, with nothing fetched.                      *)
Upload ==
    /\ call.pc = "gate"
    /\ call' = Answered(201)
    /\ \E f \in Uploads : Submit(f)
    /\ UNCHANGED <<egress, partial, elapsed>> /\ History

(* fetch() has returned: the row of what it stored.                        *)
HandOver ==
    /\ call.answer = 201
    /\ \E f \in Uploads : Submit(f)
    /\ call' = [NewCall EXCEPT !.pc = "answered", !.answer = 201]
    /\ elapsed' = 0 /\ contacted' = {} /\ opened' = 0 /\ overdue' = 0
    /\ UNCHANGED <<egress, partial>>

Next == \/ FetchNext /\ UNCHANGED archiveVars
        \/ Upload
        \/ HandOver
        \/ /\ Open \/ Promote \/ Leave \/ Rate \/ Raise
              \/ \E j \in Jobs : \E pw \in {"none", "wrong", "right"} : Reanalyse(j, pw)
           /\ UNCHANGED fetchVars

Spec == Init /\ [][Next]_vars

-----------------------------------------------------------------------------
(* The request, the runs and the rows keep their types (a run's depth is   *)
(* its place in the recursion), and every cap holds whatever fails: on the *)
(* connections of a fetch and the time it may be overdue, on what one run  *)
(* writes to the quarantine, and on how deep an archive is followed.       *)
Bounded == FetchTypeOK /\ ArchiveTypeOK /\ EffortBounded /\ SpendingBounded

=============================================================================
