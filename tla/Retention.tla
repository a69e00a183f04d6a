----------------------------- MODULE Retention ------------------------------
(***************************************************************************)
(* The quarantine and its rows: engine/storage.py keeps one file per       *)
(* content, retention.py deletes files and rows by two clocks, and         *)
(* submissions and archive members arrive meanwhile.                       *)
(*                                                                         *)
(* A file appears when it is stored and goes when it is unlinked; what is  *)
(* said about it appears and goes with a commit.  A SELECT is one step,    *)
(* and a session does not refresh a row that it has read.                  *)
(***************************************************************************)
EXTENDS Naturals, FiniteSets

CONSTANTS Jobs,        \* rows, numbered as their ids are
          Hashes,      \* contents
          Sha,         \* Sha[j]: the content of j's sample
          Parent,      \* the archive a job is a member of, or 0
          Scheduler,   \* the thread of start_scheduler
          Requests,    \* requests of an administrator that sweep at once
          SampleDays, ReportDays,   \* the policy; 0 is keep
          MaxTime,     \* bound: days that pass
          MaxFaults    \* bound: steps that fail

ASSUME JobsAssumption == /\ Jobs \subseteq Nat \ {0}
                         /\ Sha \in [Jobs -> Hashes]
                         /\ Parent \in [Jobs -> Jobs \cup {0}]
                         /\ \A j \in Jobs : Parent[j] < j
ASSUME SchedulerAssumption == Scheduler \notin Requests
ASSUME PolicyAssumption == {SampleDays, ReportDays, MaxTime, MaxFaults} \subseteq Nat

Sweepers == {Scheduler} \cup Requests

VARIABLES now,       \* today
          file,      \* contents that have a file in the quarantine
          row,       \* row[j]: the committed row
          stored,    \* jobs whose bytes are stored and whose row is not committed
          sweep,     \* sweep[s]: where a sweep stands
          late,      \* history: jobs submitted while a sweep was at work
          lost,      \* history: contents a failed step left behind
          passed,    \* history: contents of members that were passed over
          faults     \* counter for the bound

vars == <<now, file, row, stored, sweep, late, lost, passed, faults>>

(* "new": not submitted yet; "held" and "purged" by sample_deleted_at;     *)
(* "gone": deleted, or never committed.                                    *)
New == [is |-> "new", created |-> 0]
Gone == [is |-> "gone", created |-> 0]

Idle == [pc |-> "idle", today |-> 0, read |-> {}, todo |-> {}, marked |-> {},
         doomed |-> {}, needed |-> {}]

Init == /\ now = 0
        /\ file = {}
        /\ row = [j \in Jobs |-> New]
        /\ stored = {}
        /\ sweep = [s \in Sweepers |-> Idle]
        /\ late = {}
        /\ lost = {}
        /\ passed = {}
        /\ faults = 0

Held == {j \in Jobs : row[j].is = "held"}
Rows == Held \cup {j \in Jobs : row[j].is = "purged"}
Members(j) == {k \in Jobs : Parent[k] = j}

Fault == faults < MaxFaults /\ faults' = faults + 1

Sweeping == \E s \in Sweepers : sweep[s].pc # "idle"

-----------------------------------------------------------------------------
(* Submissions.                                                            *)

(* store_stream, of an upload or of a member being unpacked by the run of  *)
(* its archive: a file that exists already is used as it is.               *)
Store(j) ==
    /\ row[j] = New
    /\ j \notin stored
    /\ Parent[j] # 0 => Parent[j] \in Held /\ Sha[Parent[j]] \in file
    /\ file' = file \cup {Sha[j]}
    /\ stored' = stored \cup {j}
    /\ late' = IF Sweeping THEN late \cup {j} ELSE late
    /\ UNCHANGED <<now, row, sweep, lost, passed, faults>>

(* new_job and its commit; a member's is that of its archive's run.        *)
Record(j) ==
    /\ j \in stored
    /\ row' = [row EXCEPT ![j] = [is |-> "held", created |-> now]]
    /\ stored' = stored \ {j}
    /\ UNCHANGED <<now, file, sweep, late, lost, passed, faults>>

(* The request, or the run of the archive, ends before its commit: nothing *)
(* takes the file back.                                                    *)
Abandon(j) ==
    /\ Fault
    /\ j \in stored
    /\ stored' = stored \ {j}
    /\ row' = [row EXCEPT ![j] = Gone]
    /\ lost' = lost \cup {Sha[j]}
    /\ UNCHANGED <<now, file, sweep, late, passed>>

(* The run of an archive ends, and no step of it fails, without a row for a*)
(* member that was stored: past MAX_CHILD_JOBS or the budget of the        *)
(* submission, at MAX_DEPTH, or because the members after it ask for a     *)
(* password.  Which members these are is Archive's; a run that follows may *)
(* get to them.                                                            *)
PassOver(j) ==
    /\ j \in stored
    /\ Parent[j] # 0
    /\ stored' = stored \ {j}
    /\ passed' = passed \cup {Sha[j]}
    /\ UNCHANGED <<now, file, row, sweep, late, lost, faults>>

Tick == /\ now < MaxTime
        /\ now' = now + 1
        /\ UNCHANGED <<file, row, stored, sweep, late, lost, passed, faults>>

-----------------------------------------------------------------------------
(* The sweep of the samples.                                               *)

Past(j, days, today) == row[j].created + days < today

(* Mutated: one job past its window is enough.                             *)
ExpiredAny(read, today) ==
    {h \in Hashes : \E j \in read : Sha[j] = h /\ Past(j, SampleDays, today)}

(* The contents every job of which, as read, is past its window.           *)
Expired(read, today) ==
    {h \in Hashes : /\ \E j \in read : Sha[j] = h
                    /\ \A j \in read : Sha[j] = h => Past(j, SampleDays, today)}

Begin(s) ==
    /\ sweep[s].pc = "idle"
    /\ SampleDays > 0 \/ ReportDays > 0
    /\ LET samples == SampleDays > 0
       IN sweep' = [sweep EXCEPT ![s] =
            [Idle EXCEPT !.pc = IF samples THEN "samples" ELSE "doom", !.today = now,
                         !.read = IF samples THEN Held ELSE {},
                         !.todo = IF samples THEN Expired(Held, now) ELSE {}]]
    /\ late' = late \cup stored
    /\ UNCHANGED <<now, file, row, stored, lost, passed, faults>>

OfContent(S, h) == {j \in S : Sha[j] = h}

(* OSError: noted, and the next content is tried.                          *)
KeepSample(s) ==
    /\ Fault
    /\ sweep[s].pc = "samples"
    /\ \E h \in sweep[s].todo : sweep' = [sweep EXCEPT ![s].todo = @ \ {h}]
    /\ UNCHANGED <<now, file, row, stored, late, lost, passed>>

(* A run holds the row of its archive from its first flush to its commit.  *)
Unlocked(S) == \A j \in S : Members(j) \cap stored = {}

(* Mutated: the rows are marked only if a file was there to unlink.        *)
PurgeSampleUnmarked(s) ==
    /\ sweep[s].pc = "samples"
    /\ \E h \in sweep[s].todo :
          /\ file' = file \ {h}
          /\ sweep' = [sweep EXCEPT ![s].todo = @ \ {h},
                         ![s].marked = IF h \in file THEN @ \cup OfContent(sweep[s].read, h) ELSE @]
    /\ UNCHANGED <<now, row, stored, late, lost, passed, faults>>

(* _unlink, and the marks, which the commit will show.                     *)
PurgeSample(s) ==
    /\ sweep[s].pc = "samples"
    /\ \E h \in sweep[s].todo :
          /\ file' = file \ {h}
          /\ sweep' = [sweep EXCEPT ![s].todo = @ \ {h},
                         ![s].marked = @ \cup OfContent(sweep[s].read, h)]
    /\ UNCHANGED <<now, row, stored, late, lost, passed, faults>>

(* An UPDATE of a row that another sweep has deleted matches nothing, and  *)
(* the session raises.                                                     *)
CommitSamples(s) ==
    /\ sweep[s].pc = "samples"
    /\ sweep[s].todo = {}
    /\ Unlocked(sweep[s].marked)
    /\ sweep[s].marked \subseteq Rows
    /\ row' = [j \in Jobs |-> IF j \in sweep[s].marked THEN [row[j] EXCEPT !.is = "purged"]
                              ELSE row[j]]
    /\ sweep' = IF ReportDays > 0 THEN [sweep EXCEPT ![s].pc = "doom"]
                ELSE [sweep EXCEPT ![s] = Idle]
    /\ UNCHANGED <<now, file, stored, late, lost, passed, faults>>

-----------------------------------------------------------------------------
(* The sweep of the reports.                                               *)

Doom(s) ==
    /\ sweep[s].pc = "doom"
    /\ sweep' = [sweep EXCEPT ![s].pc = "need",
                   ![s].doomed = {j \in Rows : Past(j, ReportDays, sweep[s].today)}]
    /\ UNCHANGED <<now, file, row, stored, late, lost, passed, faults>>

(* What the session knows of j: the row as it is, unless it read it before. *)
HeldAsRead(s, j) == \/ j \in sweep[s].read \ sweep[s].marked
                    \/ j \notin sweep[s].read /\ j \in Held

Needing(s, S) ==
    /\ sweep[s].pc = "need"
    /\ sweep' = [sweep EXCEPT ![s].pc = "reports",
                   ![s].needed = {Sha[j] : j \in {k \in S : HeldAsRead(s, k)}},
                   ![s].todo = {Sha[j] : j \in sweep[s].doomed}]
    /\ UNCHANGED <<now, file, row, stored, late, lost, passed, faults>>

(* Mutated: the rows that go count too.                                    *)
NeedDoomed(s) == Needing(s, Rows)

(* still_needed                                                            *)
Need(s) == Needing(s, Rows \ sweep[s].doomed)

(* The bytes of a doomed row go unless they are needed; an unlink that     *)
(* fails is passed over.                                                   *)
PurgeReport(s) ==
    /\ sweep[s].pc = "reports"
    /\ \E h \in sweep[s].todo :
          /\ sweep' = [sweep EXCEPT ![s].todo = @ \ {h}]
          /\ \/ /\ file' = IF h \in sweep[s].needed THEN file ELSE file \ {h}
                /\ UNCHANGED <<lost, faults>>
             \/ /\ Fault
                /\ h \notin sweep[s].needed
                /\ lost' = lost \cup {h}
                /\ UNCHANGED file
    /\ UNCHANGED <<now, row, stored, late, passed>>

(* The DELETEs of one flush go out in the order of the primary key, so a   *)
(* row that has members is deleted before them: the foreign key refuses.   *)
Refused(S) == \E j \in S : Members(j) \cap Rows # {}

CommitReports(s) ==
    /\ sweep[s].pc = "reports"
    /\ sweep[s].todo = {}
    /\ Unlocked(sweep[s].doomed)
    /\ ~Refused(sweep[s].doomed)
    /\ row' = [j \in Jobs |-> IF j \in sweep[s].doomed THEN Gone ELSE row[j]]
    /\ sweep' = [sweep EXCEPT ![s] = Idle]
    /\ UNCHANGED <<now, file, stored, late, lost, passed, faults>>

Conflict(s) ==
    /\ sweep[s].todo = {}
    /\ \/ /\ sweep[s].pc = "samples"
          /\ Unlocked(sweep[s].marked)
          /\ ~(sweep[s].marked \subseteq Rows)
       \/ /\ sweep[s].pc = "reports"
          /\ Unlocked(sweep[s].doomed)
          /\ Refused(sweep[s].doomed)

(* The sweep raises, or its process dies: what it would have committed is  *)
(* gone, what it has unlinked as well.  The next one is made on time.      *)
Abort(s) ==
    /\ sweep[s].pc # "idle"
    /\ \/ Fault
       \/ Conflict(s) /\ UNCHANGED faults
    /\ sweep' = [sweep EXCEPT ![s] = Idle]
    /\ UNCHANGED <<now, file, row, stored, late, lost, passed>>

-----------------------------------------------------------------------------
Step(s) == \/ Begin(s) \/ PurgeSample(s) \/ CommitSamples(s)
           \/ Doom(s) \/ Need(s) \/ PurgeReport(s) \/ CommitReports(s)

Next == \/ \E s \in Sweepers : Step(s) \/ KeepSample(s) \/ Abort(s)
        \/ \E j \in Jobs : Store(j) \/ Record(j) \/ PassOver(j) \/ Abandon(j)
        \/ Tick

Spec == Init /\ [][Next]_vars

(* The scheduler goes on, days pass, a submission is answered and the run  *)
(* of an archive ends; steps fail finitely often.                          *)
Fairness == /\ WF_vars(Tick)
            /\ \A j \in Jobs : WF_vars(Record(j) \/ PassOver(j))
            /\ WF_vars(Step(Scheduler) \/ Abort(Scheduler))

FairSpec == Spec /\ Fairness

-----------------------------------------------------------------------------
(* Properties.                                                             *)

Sweep == [pc : {"idle", "samples", "doom", "need", "reports"}, today : 0..MaxTime,
          read : SUBSET Jobs, todo : SUBSET Hashes, marked : SUBSET Jobs,
          doomed : SUBSET Jobs, needed : SUBSET Hashes]

TypeOK ==
    /\ now \in 0..MaxTime
    /\ file \subseteq Hashes
    /\ row \in [Jobs -> [is : {"new", "held", "purged", "gone"}, created : 0..MaxTime]]
    /\ stored \subseteq Jobs
    /\ sweep \in [Sweepers -> Sweep]
    /\ late \subseteq Jobs
    /\ lost \subseteq Hashes /\ passed \subseteq Hashes
    /\ faults \in 0..MaxFaults

Outlived(j) == \/ SampleDays > 0 /\ Past(j, SampleDays, now)
               \/ ReportDays > 0 /\ Past(j, ReportDays, now)

(* A job submitted while no sweep was at work has its file for as long as  *)
(* neither clock has run out, whatever other jobs share the content, how   *)
(* many sweeps run at once and which of their steps fail.                  *)
InWindowKept == \A j \in Held \ late : Outlived(j) \/ Sha[j] \in file

(* Types; and the sweeps leave no file behind: one that no row and no      *)
(* submission answers for, and which no sweep will ever delete, is that of *)
(* a step that failed or of a member that its archive's run passed over.   *)
FilesAccounted ==
    /\ TypeOK
    /\ \A h \in file \ (lost \cup passed) : OfContent(stored \cup Rows, h) # {}

(* A sample goes, and its row says so, once every job of its content is    *)
(* past its window - also when a sweep died between the unlink and the     *)
(* commit, and when another sweep unlinked the file.                       *)
EndsInWindow(j) == \/ j \in stored
                   \/ j \in Held /\ ~Past(j, SampleDays, MaxTime)

PurgedInTheEnd ==
    \A j \in Jobs :
        j \in Held /\ Past(j, SampleDays, MaxTime) ~>
            (j \notin Held \/ \E k \in OfContent(Jobs, Sha[j]) : EndsInWindow(k))

-----------------------------------------------------------------------------
(* Claims of the source's comments that the code does not keep.            *)

(* "A hash is unlinked only when every job referencing it is past the      *)
(* sample window": a job inside its window that says it has a file has it. *)
HeldHasFile == \A j \in Held : Outlived(j) \/ Sha[j] \in file

(* "Set SAMPLE_RETENTION_DAYS to bound the malware held on disk": but for  *)
(* steps that fail, every file is one that a row or a submission names.    *)
MalwareIsBounded == \A h \in file \ lost : OfContent(stored \cup Rows, h) # {}
=============================================================================
