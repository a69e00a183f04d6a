-------------------------- MODULE RetentionProofs ---------------------------
(***************************************************************************)
(* Theorems about Retention for any jobs, contents, archives, policy and   *)
(* number of sweeps at once, whichever of their steps fail: a file in its  *)
(* window stays, and no file is left that nothing answers for.             *)
(***************************************************************************)
EXTENDS Retention, TLAPS

-----------------------------------------------------------------------------
(* The strengthening.                                                      *)

Known(s) == sweep[s].read \cup sweep[s].marked \cup sweep[s].doomed

(* What a sweep knows: rows that were committed before it read them, and   *)
(* among them every job that was submitted while no sweep was at work.     *)
Reading(s) ==
    sweep[s].pc # "idle" =>
        /\ sweep[s].today <= now
        /\ stored \subseteq late
        /\ \A j \in Known(s) : row[j].is # "new"
        /\ SampleDays > 0 => Held \ late \subseteq sweep[s].read
        /\ \A j \in sweep[s].marked \cap Held : /\ SampleDays > 0
                                                /\ Past(j, SampleDays, sweep[s].today)

(* A content is on the list of the sample sweep only if every job of it    *)
(* that still has its bytes is past its window.                            *)
Sampling(s) ==
    sweep[s].pc = "samples" =>
        /\ SampleDays > 0
        /\ \A j \in sweep[s].read \cap Held :
              Sha[j] \in sweep[s].todo => Past(j, SampleDays, sweep[s].today)

(* A row that is left is doomed exactly when it is past the report window: *)
(* rows committed meanwhile are of today, or of a later day.               *)
Dooming(s) ==
    /\ sweep[s].pc \in {"doom", "need", "reports"} => ReportDays > 0
    /\ sweep[s].pc \in {"need", "reports"} =>
          \A j \in Rows : j \in sweep[s].doomed <=> Past(j, ReportDays, sweep[s].today)

(* The contents that no sweep answers for.                                 *)
Left == lost \cup passed

(* Something other than the doomed rows of s answers for content h.        *)
Clear(s, h) ==
    \/ h \notin file
    \/ h \in Left
    \/ \E k \in stored \cup Rows :
          /\ Sha[k] = h
          /\ k \in stored \/ ~Past(k, ReportDays, sweep[s].today)

(* Of the bytes of doomed rows, those of a job in its window are needed.   *)
Needs(s) ==
    sweep[s].pc = "reports" =>
        \A j \in Held \ late :
            \/ Sha[j] \in sweep[s].needed
            \/ j \in sweep[s].doomed
            \/ SampleDays > 0 /\ Past(j, SampleDays, sweep[s].today)

(* What was kept, and what was looked at, is accounted for without them.   *)
Reporting(s) ==
    sweep[s].pc = "reports" =>
        /\ \A h \in sweep[s].needed : Clear(s, h)
        /\ \A j \in sweep[s].doomed : Sha[j] \notin sweep[s].todo => Clear(s, Sha[j])

Knows(s) == Reading(s) /\ Sampling(s) /\ Dooming(s) /\ Needs(s)

SweepInv == \A s \in Sweepers : Knows(s) /\ Reporting(s)

(* A submission whose bytes are stored has no committed row yet; unless a  *)
(* sweep was at work since, its bytes are there.                           *)
StoredInv == \A j \in stored : row[j] = New /\ (j \notin late => Sha[j] \in file)

IInv == /\ FilesAccounted
        /\ InWindowKept
        /\ SweepInv
        /\ StoredInv

USE JobsAssumption, SchedulerAssumption, PolicyAssumption

-----------------------------------------------------------------------------
(* Types.                                                                  *)

(* A step of sweep s, seen from the rest: the others stand where they did. *)
LEMMA OneSweep ==
    ASSUME TypeOK, NEW s \in Sweepers, NEW r \in Sweep, sweep' = [sweep EXCEPT ![s] = r]
    PROVE  /\ sweep' \in [Sweepers -> Sweep] /\ sweep'[s] = r
           /\ \A t \in Sweepers : t # s => sweep'[t] = sweep[t]
  BY DEF TypeOK

LEMMA IdleTyped == Idle \in Sweep
<1>1. 0 \in 0..MaxTime
  OBVIOUS
<1> QED BY <1>1 DEF Idle, Sweep

LEMMA HeldTyped == Held \subseteq Jobs /\ Rows \subseteq Jobs /\ Held \subseteq Rows
  BY DEF Held, Rows

(* What each step of a sweep makes of its own locals.                      *)
Local(s, r) == r \in Sweep /\ sweep' = [sweep EXCEPT ![s] = r]

LEMMA BeginLocal ==
    ASSUME TypeOK, NEW s \in Sweepers, Begin(s)
    PROVE  \E r : /\ Local(s, r)
                  /\ r.today = now /\ r.marked = {} /\ r.doomed = {} /\ r.needed = {}
                  /\ \/ /\ SampleDays > 0 /\ r.pc = "samples"
                        /\ r.read = Held /\ r.todo = Expired(Held, now)
                     \/ ReportDays > 0 /\ SampleDays = 0 /\ r.pc = "doom" /\ r.read = {}
<1> DEFINE r == [Idle EXCEPT !.pc = IF SampleDays > 0 THEN "samples" ELSE "doom", !.today = now,
                             !.read = IF SampleDays > 0 THEN Held ELSE {},
                             !.todo = IF SampleDays > 0 THEN Expired(Held, now) ELSE {}]
<1>1. sweep' = [sweep EXCEPT ![s] = r]
  BY DEF Begin
<1>2. Expired(Held, now) \subseteq Hashes /\ now \in 0..MaxTime
  BY DEF Expired, TypeOK
<1>3. r \in Sweep
  BY <1>2, IdleTyped, HeldTyped DEF Sweep
<1>4. /\ r.today = now /\ r.marked = {} /\ r.doomed = {} /\ r.needed = {}
      /\ SampleDays > 0 => r.pc = "samples" /\ r.read = Held /\ r.todo = Expired(Held, now)
      /\ ~(SampleDays > 0) => r.pc = "doom" /\ r.read = {}
  BY DEF Idle
<1>5. SampleDays > 0 \/ (ReportDays > 0 /\ SampleDays = 0)
  BY DEF Begin
<1> HIDE DEF r
<1> QED BY <1>1, <1>3, <1>4, <1>5 DEF Local

LEMMA KeepSampleLocal ==
    ASSUME TypeOK, NEW s \in Sweepers, KeepSample(s)
    PROVE  \E h \in sweep[s].todo : Local(s, [sweep[s] EXCEPT !.todo = @ \ {h}])
<1>1. sweep[s] \in Sweep
  BY DEF TypeOK
<1>2. PICK h \in sweep[s].todo : sweep' = [sweep EXCEPT ![s].todo = @ \ {h}]
  BY DEF KeepSample
<1>3. [sweep[s] EXCEPT !.todo = @ \ {h}] \in Sweep
  BY <1>1 DEF Sweep
<1> QED BY <1>1, <1>2, <1>3 DEF Local, TypeOK

LEMMA PurgeSampleLocal ==
    ASSUME TypeOK, NEW s \in Sweepers, PurgeSample(s)
    PROVE  \E h \in sweep[s].todo :
              /\ file' = file \ {h}
              /\ Local(s, [sweep[s] EXCEPT !.todo = @ \ {h},
                             !.marked = @ \cup OfContent(sweep[s].read, h)])
<1>1. sweep[s] \in Sweep
  BY DEF TypeOK
<1>2. PICK h \in sweep[s].todo :
         /\ file' = file \ {h}
         /\ sweep' = [sweep EXCEPT ![s].todo = @ \ {h},
                        ![s].marked = @ \cup OfContent(sweep[s].read, h)]
  BY DEF PurgeSample
<1> DEFINE r == [sweep[s] EXCEPT !.todo = @ \ {h},
                   !.marked = @ \cup OfContent(sweep[s].read, h)]
<1>3. OfContent(sweep[s].read, h) \subseteq Jobs
  BY <1>1 DEF OfContent, Sweep
<1>4. r \in Sweep
  BY <1>1, <1>3 DEF Sweep
<1>5. sweep' = [sweep EXCEPT ![s] = r]
  BY <1>1, <1>2 DEF TypeOK
<1> QED BY <1>2, <1>4, <1>5 DEF Local

LEMMA DoomLocal ==
    ASSUME TypeOK, NEW s \in Sweepers, Doom(s)
    PROVE  Local(s, [sweep[s] EXCEPT !.pc = "need",
                       !.doomed = {j \in Rows : Past(j, ReportDays, sweep[s].today)}])
<1> DEFINE r == [sweep[s] EXCEPT !.pc = "need",
                   !.doomed = {j \in Rows : Past(j, ReportDays, sweep[s].today)}]
<1>1. sweep[s] \in Sweep
  BY DEF TypeOK
<1>2. r \in Sweep
  BY <1>1, HeldTyped DEF Sweep
<1>3. sweep' = [sweep EXCEPT ![s] = r]
  BY <1>1 DEF Doom, TypeOK
<1> QED BY <1>2, <1>3 DEF Local

LEMMA NeedLocal ==
    ASSUME TypeOK, NEW s \in Sweepers, Need(s)
    PROVE  Local(s, [sweep[s] EXCEPT !.pc = "reports",
                       !.needed = {Sha[j] : j \in {k \in Rows \ sweep[s].doomed : HeldAsRead(s, k)}},
                       !.todo = {Sha[j] : j \in sweep[s].doomed}])
<1> DEFINE n == {Sha[j] : j \in {k \in Rows \ sweep[s].doomed : HeldAsRead(s, k)}}
           t == {Sha[j] : j \in sweep[s].doomed}
           r == [sweep[s] EXCEPT !.pc = "reports", !.needed = n, !.todo = t]
<1>1. sweep[s] \in Sweep
  BY DEF TypeOK
<1>2. n \subseteq Hashes /\ t \subseteq Hashes
  BY <1>1, HeldTyped DEF Sweep
<1>3. r \in Sweep
  <2> HIDE DEF n, t
  <2> QED BY <1>1, <1>2 DEF Sweep
<1>4. sweep' = [sweep EXCEPT ![s] = r]
  BY <1>1 DEF Need, Needing, TypeOK
<1> QED BY <1>3, <1>4 DEF Local

LEMMA PurgeReportLocal ==
    ASSUME TypeOK, NEW s \in Sweepers, PurgeReport(s)
    PROVE  \E h \in sweep[s].todo :
              /\ Local(s, [sweep[s] EXCEPT !.todo = @ \ {h}])
              /\ \/ /\ file' = IF h \in sweep[s].needed THEN file ELSE file \ {h}
                    /\ UNCHANGED <<lost, faults>>
                 \/ /\ Fault
                    /\ lost' = lost \cup {h}
                    /\ UNCHANGED file
<1>1. sweep[s] \in Sweep
  BY DEF TypeOK
<1>2. PICK h \in sweep[s].todo :
         /\ sweep' = [sweep EXCEPT ![s].todo = @ \ {h}]
         /\ \/ /\ file' = IF h \in sweep[s].needed THEN file ELSE file \ {h}
               /\ UNCHANGED <<lost, faults>>
            \/ /\ Fault
               /\ lost' = lost \cup {h}
               /\ UNCHANGED file
  BY DEF PurgeReport
<1>3. [sweep[s] EXCEPT !.todo = @ \ {h}] \in Sweep
  BY <1>1 DEF Sweep
<1> QED BY <1>1, <1>2, <1>3 DEF Local, TypeOK

LEMMA CommitSamplesLocal ==
    ASSUME TypeOK, NEW s \in Sweepers, CommitSamples(s)
    PROVE  \E r : /\ Local(s, r)
                  /\ \/ ReportDays > 0 /\ r = [sweep[s] EXCEPT !.pc = "doom"]
                     \/ r = Idle
<1>1. sweep[s] \in Sweep
  BY DEF TypeOK
<1>2. [sweep[s] EXCEPT !.pc = "doom"] \in Sweep
  BY <1>1 DEF Sweep
<1>3. \/ ReportDays > 0 /\ sweep' = [sweep EXCEPT ![s] = [sweep[s] EXCEPT !.pc = "doom"]]
      \/ sweep' = [sweep EXCEPT ![s] = Idle]
  BY <1>1 DEF CommitSamples, TypeOK
<1> QED BY <1>2, <1>3, IdleTyped DEF Local

LEMMA EndLocal ==
    ASSUME TypeOK, NEW s \in Sweepers, CommitReports(s) \/ Abort(s)
    PROVE  Local(s, Idle)
  BY IdleTyped DEF CommitReports, Abort, Local

LEMMA SweepStepLocal ==
    ASSUME TypeOK, NEW s \in Sweepers, Step(s) \/ KeepSample(s) \/ Abort(s)
    PROVE  \E r : Local(s, r)
<1>1. CASE Begin(s)
  BY <1>1, BeginLocal
<1>2. CASE PurgeSample(s)
  BY <1>2, PurgeSampleLocal
<1>3. CASE CommitSamples(s)
  BY <1>3, CommitSamplesLocal
<1>4. CASE Doom(s)
  BY <1>4, DoomLocal
<1>5. CASE Need(s)
  BY <1>5, NeedLocal
<1>6. CASE PurgeReport(s)
  BY <1>6, PurgeReportLocal
<1>7. CASE CommitReports(s) \/ Abort(s)
  BY <1>7, EndLocal
<1>8. CASE KeepSample(s)
  BY <1>8, KeepSampleLocal
<1> QED BY <1>1, <1>2, <1>3, <1>4, <1>5, <1>6, <1>7, <1>8 DEF Step

RowType == [is : {"new", "held", "purged", "gone"}, created : 0..MaxTime]

(* What any step may do to the row of a job.                               *)
RowMoves(j) ==
    \/ row'[j] = row[j]
    \/ j \in stored /\ row'[j] = [is |-> "held", created |-> now]
    \/ (j \in stored \/ row[j].is # "new") /\ row'[j] = Gone
    \/ j \in Rows /\ row'[j] = [is |-> "purged", created |-> row[j].created]

LEMMA RowsMove ==
    ASSUME TypeOK, SweepInv, [Next]_vars
    PROVE  \A j \in Jobs : RowMoves(j) /\ row'[j] \in RowType
<1>0. /\ row \in [Jobs -> RowType] /\ now \in 0..MaxTime /\ Gone \in RowType
      /\ stored \subseteq Jobs /\ Rows \subseteq Jobs
  BY HeldTyped DEF TypeOK, RowType, Gone
<1>1. SUFFICES ASSUME NEW j \in Jobs, row'[j] # row[j] PROVE RowMoves(j) /\ row'[j] \in RowType
  BY <1>0 DEF RowMoves
<1>2. CASE \E i \in Jobs : Record(i)
  <2>1. PICK i \in Jobs : Record(i)
    BY <1>2
  <2>2. i = j /\ row'[j] = [is |-> "held", created |-> now] /\ j \in stored
    BY <1>0, <1>1, <2>1 DEF Record
  <2> QED BY <1>0, <2>2 DEF RowMoves, RowType
<1>3. CASE \E i \in Jobs : Abandon(i)
  <2>1. PICK i \in Jobs : Abandon(i)
    BY <1>3
  <2>2. i = j /\ row'[j] = Gone /\ j \in stored
    BY <1>0, <1>1, <2>1 DEF Abandon
  <2> QED BY <1>0, <2>2 DEF RowMoves
<1>4. CASE \E s \in Sweepers : CommitSamples(s)
  <2>1. PICK s \in Sweepers : CommitSamples(s)
    BY <1>4
  <2>2. j \in Rows /\ row'[j] = [row[j] EXCEPT !.is = "purged"]
    BY <1>1, <2>1 DEF CommitSamples
  <2> QED BY <1>0, <2>2 DEF RowMoves, RowType
<1>5. CASE \E s \in Sweepers : CommitReports(s)
  <2>1. PICK s \in Sweepers : CommitReports(s)
    BY <1>5
  <2>2. row'[j] = Gone /\ j \in sweep[s].doomed
    BY <1>1, <2>1 DEF CommitReports
  <2>3. row[j].is # "new"
    BY <2>1, <2>2 DEF SweepInv, Knows, Reading, Known, CommitReports
  <2> QED BY <1>0, <2>2, <2>3 DEF RowMoves
<1>6. CASE row' = row
  BY <1>1, <1>6
<1> QED BY <1>2, <1>3, <1>4, <1>5, <1>6 DEF Next, Step, Store, PassOver, Tick, Begin, PurgeSample,
          Doom, Need, Needing, PurgeReport, KeepSample, Abort, vars

LEMMA TypesKept ==
    ASSUME TypeOK, SweepInv, [Next]_vars
    PROVE  TypeOK'
<1>1. row' \in [Jobs -> RowType]
  <2>1. \A j \in Jobs : row'[j] \in RowType
    BY RowsMove
  <2>2. row \in [Jobs -> RowType]
    BY DEF TypeOK, RowType
  <2>3. DOMAIN row' = Jobs /\ row' = [j \in DOMAIN row' |-> row'[j]]
    BY <2>2 DEF Next, Step, Store, Record, PassOver, Abandon, Tick, Begin, PurgeSample, CommitSamples,
           Doom, Need, Needing, PurgeReport, CommitReports, KeepSample, Abort, vars
  <2> QED BY <2>1, <2>3
<1>2. sweep' \in [Sweepers -> Sweep]
  <2>1. CASE \E s \in Sweepers : Step(s) \/ KeepSample(s) \/ Abort(s)
    BY <2>1, SweepStepLocal, OneSweep DEF Local
  <2>2. CASE sweep' = sweep
    BY <2>2 DEF TypeOK
  <2> QED BY <2>1, <2>2 DEF Next, Store, Record, PassOver, Abandon, Tick, vars
<1>3. faults' \in 0..MaxFaults
  <2>1. faults' = faults \/ Fault
    BY DEF Next, Step, Store, Record, PassOver, Abandon, Tick, Begin, PurgeSample, CommitSamples,
           Doom, Need, Needing, PurgeReport, CommitReports, KeepSample, Abort, vars
  <2> QED BY <2>1 DEF Fault, TypeOK
<1>4. now' \in 0..MaxTime /\ now <= now'
  <2>1. now' = now \/ Tick
    BY DEF Next, Step, Store, Record, PassOver, Abandon, Begin, PurgeSample, CommitSamples,
           Doom, Need, Needing, PurgeReport, CommitReports, KeepSample, Abort, vars
  <2> QED BY <2>1 DEF Tick, TypeOK
<1>5. stored' \subseteq Jobs /\ late' \subseteq Jobs
  BY DEF Next, Step, Store, Record, PassOver, Abandon, Tick, Begin, PurgeSample, CommitSamples,
         Doom, Need, Needing, PurgeReport, CommitReports, KeepSample, Abort, vars, TypeOK
<1>6. file' \subseteq Hashes /\ lost' \subseteq Hashes /\ passed' \subseteq Hashes
  <2>0. file \subseteq Hashes /\ lost \subseteq Hashes /\ passed \subseteq Hashes /\ sweep \in [Sweepers -> Sweep]
    BY DEF TypeOK
  <2>1. CASE \E j \in Jobs : Store(j) \/ Record(j) \/ PassOver(j) \/ Abandon(j)
    BY <2>0, <2>1 DEF Store, Record, PassOver, Abandon
  <2>2. CASE \E s \in Sweepers : PurgeReport(s)
    <3>1. PICK s \in Sweepers : PurgeReport(s)
      BY <2>2
    <3>2. PICK h \in sweep[s].todo : file' \subseteq file /\ lost' \subseteq lost \cup {h} /\ passed' = passed
      BY <3>1 DEF PurgeReport
    <3>3. h \in Hashes
      BY <2>0, <3>2 DEF Sweep
    <3> QED BY <2>0, <3>2, <3>3
  <2>3. CASE file' \subseteq file /\ lost' = lost /\ passed' = passed
    BY <2>0, <2>3
  <2> QED BY <2>1, <2>2, <2>3 DEF Next, Step, Tick, Begin, PurgeSample, CommitSamples, Doom,
         Need, Needing, CommitReports, KeepSample, Abort, vars
<1> QED BY <1>1, <1>2, <1>3, <1>4, <1>5, <1>6 DEF TypeOK, RowType

(* History only grows, and what a sweep is at work on is remembered.       *)
LEMMA HistoryGrows ==
    ASSUME TypeOK, SweepInv, [Next]_vars
    PROVE  /\ now \in Nat /\ now' \in Nat /\ now <= now'
           /\ late \subseteq late' /\ Left \subseteq Left'
           /\ \A s \in Sweepers : sweep[s].pc # "idle" \/ sweep'[s].pc # "idle" =>
                 stored' \subseteq late'
<1>1. now \in Nat /\ now' \in Nat /\ now <= now'
  <2>1. now' = now \/ Tick
    BY DEF Next, Step, Store, Record, PassOver, Abandon, Begin, PurgeSample, CommitSamples,
           Doom, Need, Needing, PurgeReport, CommitReports, KeepSample, Abort, vars
  <2> QED BY <2>1 DEF Tick, TypeOK
<1>2. late \subseteq late' /\ Left \subseteq Left'
  BY DEF Left, Next, Step, Store, Record, PassOver, Abandon, Tick, Begin, PurgeSample, CommitSamples,
         Doom, Need, Needing, PurgeReport, CommitReports, KeepSample, Abort, vars
<1>3. ASSUME NEW s \in Sweepers, sweep[s].pc # "idle"
      PROVE  stored' \subseteq late'
  <2>1. stored \subseteq late
    BY <1>3 DEF SweepInv, Knows, Reading
  <2>2. CASE \E j \in Jobs : Store(j)
    BY <1>3, <2>1, <2>2 DEF Store, Sweeping
  <2>3. CASE stored' \subseteq stored
    BY <1>2, <2>1, <2>3
  <2> QED BY <2>2, <2>3 DEF Next, Step, Record, PassOver, Abandon, Tick, Begin, PurgeSample, CommitSamples,
         Doom, Need, Needing, PurgeReport, CommitReports, KeepSample, Abort, vars
<1>4. ASSUME NEW s \in Sweepers, sweep[s].pc = "idle", sweep'[s].pc # "idle"
      PROVE  stored' \subseteq late'
  <2>1. sweep' # sweep
    BY <1>4
  <2>2. PICK t \in Sweepers : Step(t) \/ KeepSample(t) \/ Abort(t)
    BY <2>1 DEF Next, Store, Record, PassOver, Abandon, Tick, vars
  <2>3. t = s
    BY <1>4, <2>2, SweepStepLocal, OneSweep DEF Local
  <2>4. Begin(s)
    BY <1>4, <2>2, <2>3 DEF Step, PurgeSample, CommitSamples, Doom, Need, Needing, PurgeReport,
           CommitReports, KeepSample, Abort
  <2> QED BY <2>4 DEF Begin
<1> QED BY <1>1, <1>2, <1>3, <1>4

(* Where the rows of the next state come from.                             *)
LEMMA RowsComeFrom ==
    ASSUME TypeOK, SweepInv, [Next]_vars
    PROVE  /\ \A j \in Held' : \/ j \in Held /\ row'[j] = row[j]
                               \/ j \in stored /\ row'[j].created = now
           /\ \A j \in Rows' : \/ j \in Rows /\ row'[j].created = row[j].created
                               \/ j \in stored /\ row'[j].created = now
           /\ \A j \in Jobs : row[j].is # "new" => row'[j].is # "new"
<1>1. row \in [Jobs -> RowType]
  BY DEF TypeOK, RowType
<1>2. \A j \in Jobs : RowMoves(j)
  BY RowsMove
<1>3. ASSUME NEW j \in Jobs, row'[j].is \in {"held", "purged"}
      PROVE  \/ row[j].is = row'[j].is /\ row'[j] = row[j]
             \/ j \in stored /\ row'[j].created = now
             \/ row'[j].is = "purged" /\ j \in Rows /\ row'[j].created = row[j].created
  <2>1. RowMoves(j) /\ Gone.is = "gone"
    BY <1>2 DEF Gone
  <2>2. CASE j \in Rows /\ row'[j] = [is |-> "purged", created |-> row[j].created]
    BY <2>2
  <2>3. CASE j \in stored /\ row'[j] = [is |-> "held", created |-> now]
    BY <2>3
  <2>4. row'[j] # Gone
    BY <1>3, <2>1
  <2> QED BY <2>1, <2>2, <2>3, <2>4 DEF RowMoves
<1>4. ASSUME NEW j \in Jobs, row[j].is # "new" PROVE row'[j].is # "new"
  <2>1. RowMoves(j) /\ Gone.is = "gone"
    BY <1>2 DEF Gone
  <2> QED BY <1>4, <2>1 DEF RowMoves
<1>5. \A j : /\ j \in Held' <=> j \in Jobs /\ row'[j].is = "held"
             /\ j \in Rows' <=> j \in Jobs /\ row'[j].is \in {"held", "purged"}
             /\ j \in Held <=> j \in Jobs /\ row[j].is = "held"
             /\ j \in Rows <=> j \in Jobs /\ row[j].is \in {"held", "purged"}
  BY DEF Rows, Held
<1> QED BY <1>3, <1>4, <1>5

(* A sweep that does not step goes on knowing what it knew.                *)
LEMMA KnowsKept ==
    ASSUME TypeOK, SweepInv, StoredInv, [Next]_vars, NEW t \in Sweepers, sweep'[t] = sweep[t]
    PROVE  Knows(t)'
<1>1. /\ now \in Nat /\ now' \in Nat /\ now <= now'
      /\ late \subseteq late' /\ (sweep[t].pc # "idle" => stored' \subseteq late')
  BY HistoryGrows
<1>2. /\ \A j \in Held' : \/ j \in Held /\ row'[j] = row[j]
                          \/ j \in stored /\ row'[j].created = now
      /\ \A j \in Rows' : \/ j \in Rows /\ row'[j].created = row[j].created
                          \/ j \in stored /\ row'[j].created = now
      /\ \A j \in Jobs : row[j].is # "new" => row'[j].is # "new"
  BY RowsComeFrom
<1>3. Knows(t)
  BY DEF SweepInv
<1>4. /\ sweep[t] \in Sweep /\ sweep[t].today \in Nat
      /\ row \in [Jobs -> RowType]
  BY DEF TypeOK, Sweep, RowType
<1>5. CASE sweep[t].pc = "idle"
  BY <1>5 DEF Knows, Reading, Sampling, Dooming, Needs
<1>6. CASE sweep[t].pc # "idle"
  <2>1. /\ sweep[t].today <= now /\ stored \subseteq late
        /\ \A j \in Known(t) : row[j].is # "new"
        /\ SampleDays > 0 => Held \ late \subseteq sweep[t].read
        /\ \A j \in sweep[t].marked \cap Held : /\ SampleDays > 0
                                                /\ Past(j, SampleDays, sweep[t].today)
    BY <1>3, <1>6 DEF Knows, Reading
  <2>2. Known(t) \subseteq Jobs /\ Known(t)' = Known(t)
    BY <1>4 DEF Known, Sweep
  <2>3. \A j \in stored : j \notin Known(t)
    BY <2>1, <2>2 DEF StoredInv, New
  <2>4. \A j \in Held' : j \in Known(t) \/ j \notin late' => j \in Held /\ row'[j] = row[j]
    BY <1>1, <1>2, <2>1, <2>3
  <2>5. Reading(t)'
    <3>1. sweep'[t].today <= now' /\ stored' \subseteq late'
      BY <1>1, <1>4, <1>6, <2>1
    <3>2. \A j \in Known(t)' : row'[j].is # "new"
      BY <1>2, <2>1, <2>2
    <3>3. SampleDays > 0 => Held' \ late' \subseteq sweep'[t].read
      BY <1>1, <2>1, <2>4
    <3>4. \A j \in sweep'[t].marked \cap Held' : /\ SampleDays > 0
                                                 /\ Past(j, SampleDays, sweep[t].today)'
      BY <2>1, <2>4 DEF Past, Known
    <3> QED BY <3>1, <3>2, <3>3, <3>4 DEF Reading
  <2>6. Sampling(t)'
    BY <1>3, <2>4 DEF Knows, Sampling, Known, Past
  <2>7. Dooming(t)'
    <3> SUFFICES ASSUME sweep[t].pc \in {"need", "reports"}, NEW j \in Rows'
                 PROVE  j \in sweep[t].doomed <=> Past(j, ReportDays, sweep[t].today)'
      BY <1>3 DEF Knows, Dooming
    <3>1. CASE j \in Rows /\ row'[j].created = row[j].created
      BY <1>3, <3>1 DEF Knows, Dooming, Past
    <3>2. CASE j \in stored /\ row'[j].created = now
      <4>1. j \notin sweep[t].doomed
        BY <2>3, <3>2 DEF Known
      <4>2. ~(now + ReportDays < sweep[t].today)
        BY <1>1, <1>4, <2>1
      <4> QED BY <3>2, <4>1, <4>2 DEF Past
    <3> QED BY <1>2, <3>1, <3>2
  <2>8. Needs(t)'
    <3> SUFFICES ASSUME sweep[t].pc = "reports", NEW j \in Held', j \notin late'
                 PROVE  \/ Sha[j] \in sweep[t].needed
                        \/ j \in sweep[t].doomed
                        \/ SampleDays > 0 /\ Past(j, SampleDays, sweep[t].today)'
      BY DEF Needs
    <3>1. j \in Held \ late /\ row'[j] = row[j]
      BY <1>1, <2>4
    <3> QED BY <1>3, <3>1 DEF Knows, Needs, Past
  <2> QED BY <2>5, <2>6, <2>7, <2>8 DEF Knows
<1> QED BY <1>5, <1>6

-----------------------------------------------------------------------------
(* What answers for a content.                                             *)

(* No file is left that nothing answers for, of content h.                 *)
Answered(h) == h \in file \ Left => \E k \in stored \cup Rows : Sha[k] = h

(* A row or a submission that a step takes away is replaced by the row it  *)
(* becomes, is noted as lost or passed over, or was doomed by the sweep    *)
(* that commits.                                                           *)
LEMMA WhatAnswersMoves ==
    ASSUME TypeOK, SweepInv, StoredInv, [Next]_vars
    PROVE  /\ \A k \in stored : \/ k \in stored'
                                \/ k \in Rows' /\ row'[k].created = now
                                \/ Sha[k] \in Left'
           /\ \A k \in Rows :
                 \/ k \in Rows' /\ row'[k].created = row[k].created
                 \/ \E s \in Sweepers : CommitReports(s) /\ k \in sweep[s].doomed
           /\ \A h \in file' : h \in file \/ \E k \in stored' : Sha[k] = h
<1>0. row \in [Jobs -> RowType] /\ Rows \subseteq Jobs /\ stored \subseteq Jobs
  BY HeldTyped DEF TypeOK, RowType
<1>r. \A j : /\ j \in Rows' <=> j \in Jobs /\ row'[j].is \in {"held", "purged"}
             /\ j \in Rows <=> j \in Jobs /\ row[j].is \in {"held", "purged"}
  BY DEF Rows, Held
<1>1. CASE \E j \in Jobs : Store(j)
  BY <1>1, <1>r DEF Store
<1>2. CASE \E j \in Jobs : Record(j)
  <2>1. PICK j \in Jobs : Record(j)
    BY <1>2
  <2>2. /\ stored' = stored \ {j} /\ file' = file /\ row'[j] = [is |-> "held", created |-> now]
        /\ \A k \in Jobs : k # j => row'[k] = row[k]
    BY <1>0, <2>1 DEF Record
  <2>3. j \notin Rows
    BY <1>r, <2>1 DEF StoredInv, New, Record
  <2>4. j \in Rows' /\ row'[j].created = now
    BY <1>r, <2>2
  <2>5. \A k \in Rows : k \in Rows' /\ row'[k].created = row[k].created
    BY <1>0, <1>r, <2>2, <2>3
  <2> QED BY <2>2, <2>4, <2>5
<1>3. CASE \E j \in Jobs : Abandon(j)
  <2>1. PICK j \in Jobs : Abandon(j)
    BY <1>3
  <2>2. /\ stored' = stored \ {j} /\ file' = file /\ Sha[j] \in Left'
        /\ \A k \in Jobs : k # j => row'[k] = row[k]
    BY <1>0, <2>1 DEF Abandon, Left
  <2>3. j \notin Rows
    BY <1>r, <2>1 DEF StoredInv, New, Abandon
  <2> QED BY <1>0, <1>r, <2>2, <2>3
<1>4. CASE \E s \in Sweepers : CommitSamples(s)
  <2>1. PICK s \in Sweepers : CommitSamples(s)
    BY <1>4
  <2>2. \A k \in Rows : row'[k].created = row[k].created /\ row'[k].is \in {row[k].is, "purged"}
    BY <1>0, <2>1 DEF CommitSamples, RowType
  <2> QED BY <1>0, <1>r, <2>1, <2>2 DEF CommitSamples
<1>5. CASE \E s \in Sweepers : CommitReports(s)
  <2>1. PICK s \in Sweepers : CommitReports(s)
    BY <1>5
  <2>2. \A k \in Jobs \ sweep[s].doomed : row'[k] = row[k]
    BY <2>1 DEF CommitReports
  <2> QED BY <1>0, <1>r, <2>1, <2>2 DEF CommitReports
<1>6. CASE row' = row /\ stored' = stored /\ file' \subseteq file
  BY <1>6, <1>r
<1>7. CASE \E j \in Jobs : PassOver(j)
  BY <1>7, <1>r DEF PassOver, Left
<1> QED BY <1>1, <1>2, <1>3, <1>4, <1>5, <1>6, <1>7 DEF Next, Step, Tick, Begin, PurgeSample,
       Doom, Need, Needing, PurgeReport, KeepSample, Abort, vars

(* What the rows that a commit of s deletes leave behind: every content of *)
(* them is unlinked, lost, or answered for by a row that stays.            *)
LEMMA CommitLeaves ==
    ASSUME TypeOK, SweepInv, NEW s \in Sweepers, CommitReports(s),
           NEW j \in sweep[s].doomed, Sha[j] \in file \ Left
    PROVE  \E k \in stored' \cup Rows' :
              /\ Sha[k] = Sha[j]
              /\ k \in stored' \/ ~(row'[k].created + ReportDays < sweep[s].today)
<1>1. Clear(s, Sha[j])
  BY DEF SweepInv, Reporting, CommitReports
<1>2. PICK k \in stored \cup Rows : /\ Sha[k] = Sha[j]
                                    /\ k \in stored \/ ~Past(k, ReportDays, sweep[s].today)
  BY <1>1 DEF Clear
<1>3. CASE k \in stored
  BY <1>2, <1>3 DEF CommitReports
<1>4. CASE k \in Rows /\ ~Past(k, ReportDays, sweep[s].today)
  <2>1. k \notin sweep[s].doomed /\ k \in Jobs
    BY <1>4, HeldTyped DEF SweepInv, Knows, Dooming, CommitReports
  <2>2. row'[k] = row[k]
    BY <2>1 DEF CommitReports
  <2>3. k \in Rows'
    BY <1>4, <2>1, <2>2 DEF Rows, Held
  <2>4. ~(row[k].created + ReportDays < sweep[s].today)
    BY <1>4 DEF Past
  <2> QED BY <1>2, <2>2, <2>3, <2>4
<1> QED BY <1>2, <1>3, <1>4

LEMMA ClearKept ==
    ASSUME TypeOK, SweepInv, StoredInv, [Next]_vars,
           NEW t \in Sweepers, sweep[t].pc = "reports", sweep'[t] = sweep[t],
           NEW h, Clear(t, h)
    PROVE  Clear(t, h)'
<1>1. /\ \A k \in stored : \/ k \in stored'
                           \/ k \in Rows' /\ row'[k].created = now
                           \/ Sha[k] \in Left'
      /\ \A k \in Rows :
            \/ k \in Rows' /\ row'[k].created = row[k].created
            \/ \E s \in Sweepers : CommitReports(s) /\ k \in sweep[s].doomed
      /\ \A g \in file' : g \in file \/ \E k \in stored' : Sha[k] = g
  BY WhatAnswersMoves
<1>2. Left \subseteq Left' /\ now \in Nat
  BY HistoryGrows
<1>3. sweep[t].today <= now /\ sweep[t].today \in Nat /\ row \in [Jobs -> RowType]
  BY DEF SweepInv, Knows, Reading, TypeOK, Sweep, RowType
<1>4. CASE h \notin file \/ h \in Left
  BY <1>1, <1>2, <1>4 DEF Clear
<1>5. CASE h \in file \ Left
  <2>1. PICK k \in stored \cup Rows : /\ Sha[k] = h
                                      /\ k \in stored \/ ~Past(k, ReportDays, sweep[t].today)
    BY <1>5 DEF Clear
  <2>2. CASE k \in stored' \/ Sha[k] \in Left'
    BY <2>1, <2>2 DEF Clear
  <2>3. CASE k \in Rows' /\ row'[k].created = now
    <3>1. ~(now + ReportDays < sweep[t].today)
      BY <1>2, <1>3
    <3> QED BY <2>1, <2>3, <3>1 DEF Clear, Past
  <2>4. ASSUME k \in Rows, k \notin stored, k \in Rows', row'[k].created = row[k].created
        PROVE  Clear(t, h)'
    BY <2>1, <2>4 DEF Clear, Past
  <2>5. ASSUME k \in Rows, k \notin stored,
               NEW s \in Sweepers, CommitReports(s), k \in sweep[s].doomed
        PROVE  Clear(t, h)'
    <3>1. Past(k, ReportDays, sweep[s].today) /\ sweep[s].today \in Nat /\ row[k].created \in Nat
      BY <1>3, <2>5, HeldTyped DEF SweepInv, Knows, Dooming, CommitReports, TypeOK, Sweep, RowType
    <3>2. sweep[t].today < sweep[s].today
      BY <1>3, <2>1, <2>5, <3>1 DEF Past
    <3>3. PICK i \in stored' \cup Rows' :
             /\ Sha[i] = h
             /\ i \in stored' \/ ~(row'[i].created + ReportDays < sweep[s].today)
      BY <1>5, <2>1, <2>5, CommitLeaves
    <3>4. i \notin stored' => row'[i].created \in Nat
      <4>1. TypeOK'
        BY TypesKept
      <4> QED BY <3>3, <4>1 DEF TypeOK, Rows, Held
    <3>5. i \notin stored' => ~(row'[i].created + ReportDays < sweep[t].today)
      BY <1>3, <3>1, <3>2, <3>3, <3>4
    <3> QED BY <3>3, <3>5 DEF Clear, Past
  <2> QED BY <1>1, <2>1, <2>2, <2>3, <2>4, <2>5
<1> QED BY <1>4, <1>5

LEMMA ReportingKept ==
    ASSUME TypeOK, SweepInv, StoredInv, [Next]_vars, NEW t \in Sweepers, sweep'[t] = sweep[t]
    PROVE  Reporting(t)'
<1>1. SUFFICES ASSUME sweep[t].pc = "reports" PROVE Reporting(t)'
  BY DEF Reporting
<1>2. \A h : Clear(t, h) => Clear(t, h)'
  BY <1>1, ClearKept
<1> QED BY <1>1, <1>2 DEF SweepInv, Reporting

(* No step leaves a file behind that nothing answers for.                  *)
LEMMA AnsweredKept ==
    ASSUME TypeOK, SweepInv, StoredInv, [Next]_vars, NEW h, Answered(h)
    PROVE  Answered(h)'
<1>1. /\ \A k \in stored : \/ k \in stored'
                           \/ k \in Rows' /\ row'[k].created = now
                           \/ Sha[k] \in Left'
      /\ \A k \in Rows :
            \/ k \in Rows' /\ row'[k].created = row[k].created
            \/ \E s \in Sweepers : CommitReports(s) /\ k \in sweep[s].doomed
      /\ \A g \in file' : g \in file \/ \E k \in stored' : Sha[k] = g
  BY WhatAnswersMoves
<1>2. Left \subseteq Left'
  BY HistoryGrows
<1>3. SUFFICES ASSUME h \in file' \ Left' PROVE \E k \in stored' \cup Rows' : Sha[k] = h
  BY DEF Answered
<1>4. CASE h \notin file
  BY <1>1, <1>3, <1>4
<1>5. CASE h \in file
  <2>1. PICK k \in stored \cup Rows : Sha[k] = h
    BY <1>2, <1>3, <1>5 DEF Answered
  <2>2. ASSUME NEW s \in Sweepers, CommitReports(s), k \in sweep[s].doomed
        PROVE  \E i \in stored' \cup Rows' : Sha[i] = h
    BY <1>2, <1>3, <1>5, <2>1, <2>2, CommitLeaves
  <2> QED BY <1>1, <1>3, <2>1, <2>2
<1> QED BY <1>4, <1>5

-----------------------------------------------------------------------------
(* What a sweep knows after a step of its own.                             *)

(* Its new locals, whatever they are: the clauses of Reading about them.   *)
LEMMA ReadingStays ==
    ASSUME TypeOK, SweepInv, StoredInv, [Next]_vars, NEW s \in Sweepers, sweep[s].pc # "idle",
           sweep'[s].today = sweep[s].today, sweep'[s].read = sweep[s].read,
           Known(s)' \subseteq Known(s) \cup Rows,
           \A j \in sweep'[s].marked \cap Held :
              SampleDays > 0 /\ Past(j, SampleDays, sweep[s].today)
    PROVE  Reading(s)'
<1>1. /\ now \in Nat /\ now' \in Nat /\ now <= now'
      /\ late \subseteq late' /\ (sweep[s].pc # "idle" => stored' \subseteq late')
  BY HistoryGrows
<1>2. /\ \A j \in Held' : \/ j \in Held /\ row'[j] = row[j]
                          \/ j \in stored /\ row'[j].created = now
      /\ \A j \in Jobs : row[j].is # "new" => row'[j].is # "new"
  BY RowsComeFrom
<1>3. /\ sweep[s].today <= now /\ stored \subseteq late /\ sweep[s].today \in Nat
      /\ \A j \in Known(s) : row[j].is # "new"
      /\ SampleDays > 0 => Held \ late \subseteq sweep[s].read
  BY DEF SweepInv, Knows, Reading, TypeOK, Sweep
<1>4. \A j \in Known(s)' : j \in Jobs /\ row[j].is # "new" /\ j \notin stored
  <2>1. \A j \in Rows : j \in Jobs /\ row[j].is # "new"
    BY DEF Rows, Held
  <2>2. Known(s) \subseteq Jobs
    BY DEF Known, TypeOK, Sweep
  <2> QED BY <1>3, <2>1, <2>2 DEF StoredInv, New
<1>5. sweep'[s].today <= now' /\ stored' \subseteq late'
  BY <1>1, <1>3
<1>6. \A j \in Known(s)' : row'[j].is # "new"
  BY <1>2, <1>4
<1>7. SampleDays > 0 => Held' \ late' \subseteq sweep'[s].read
  BY <1>1, <1>2, <1>3
<1>8. \A j \in sweep'[s].marked \cap Held' : SampleDays > 0 /\ Past(j, SampleDays, sweep[s].today)'
  BY <1>2, <1>4 DEF Known, Past
<1> QED BY <1>5, <1>6, <1>7, <1>8 DEF Reading

LEMMA BeginKnows ==
    ASSUME TypeOK, NEW s \in Sweepers, Begin(s)
    PROVE  Knows(s)' /\ Reporting(s)'
<1>1. PICK r : /\ Local(s, r)
               /\ r.today = now /\ r.marked = {} /\ r.doomed = {} /\ r.needed = {}
               /\ \/ /\ SampleDays > 0 /\ r.pc = "samples"
                     /\ r.read = Held /\ r.todo = Expired(Held, now)
                  \/ ReportDays > 0 /\ SampleDays = 0 /\ r.pc = "doom" /\ r.read = {}
  BY BeginLocal
<1>2. sweep'[s] = r
  BY <1>1, OneSweep DEF Local
<1>3. /\ now' = now /\ row' = row /\ late' = late \cup stored /\ stored' = stored
      /\ Held' = Held /\ now \in Nat
  BY DEF Begin, Held, TypeOK
<1>4. Reading(s)'
  <2>1. \A j \in Held : row[j].is # "new"
    BY DEF Held
  <2>2. Known(s)' \subseteq Held
    BY <1>1, <1>2 DEF Known
  <2> QED BY <1>1, <1>2, <1>3, <2>1, <2>2 DEF Reading
<1>5. Sampling(s)'
  BY <1>1, <1>2, <1>3, HeldTyped DEF Sampling, Expired, Past
<1>6. Dooming(s)' /\ Needs(s)' /\ Reporting(s)'
  BY <1>1, <1>2 DEF Dooming, Needs, Reporting
<1> QED BY <1>4, <1>5, <1>6 DEF Knows

LEMMA SamplesKnow ==
    ASSUME TypeOK, SweepInv, StoredInv, [Next]_vars, NEW s \in Sweepers,
           KeepSample(s) \/ PurgeSample(s)
    PROVE  Knows(s)' /\ Reporting(s)'
<1>1. PICK h \in sweep[s].todo, m \in SUBSET Jobs :
         /\ Local(s, [sweep[s] EXCEPT !.todo = @ \ {h}, !.marked = m])
         /\ m \subseteq sweep[s].marked \cup OfContent(sweep[s].read, h)
  <2>1. CASE KeepSample(s)
    <3>1. PICK h \in sweep[s].todo : Local(s, [sweep[s] EXCEPT !.todo = @ \ {h}])
      BY <2>1, KeepSampleLocal
    <3>2. /\ sweep[s].marked \in SUBSET Jobs
          /\ [sweep[s] EXCEPT !.todo = @ \ {h}]
               = [sweep[s] EXCEPT !.todo = @ \ {h}, !.marked = sweep[s].marked]
      BY DEF TypeOK, Sweep
    <3> QED BY <3>1, <3>2
  <2>2. CASE PurgeSample(s)
    <3>1. \A h : sweep[s].marked \cup OfContent(sweep[s].read, h) \subseteq Jobs
      BY DEF TypeOK, Sweep, OfContent
    <3> QED BY <2>2, <3>1, PurgeSampleLocal
  <2> QED BY <2>1, <2>2
<1>2. /\ sweep[s] \in Sweep /\ sweep[s].pc = "samples" /\ row' = row /\ stored' = stored
      /\ late' = late /\ now' = now
  BY DEF KeepSample, PurgeSample, TypeOK
<1>3. /\ sweep'[s].pc = "samples" /\ sweep'[s].today = sweep[s].today
      /\ sweep'[s].read = sweep[s].read /\ sweep'[s].todo = sweep[s].todo \ {h}
      /\ sweep'[s].marked = m /\ sweep'[s].doomed = sweep[s].doomed
  <2>1. sweep'[s] = [sweep[s] EXCEPT !.todo = @ \ {h}, !.marked = m]
    BY <1>1, OneSweep DEF Local
  <2> QED BY <1>2, <2>1 DEF Sweep
<1>4. /\ SampleDays > 0
      /\ \A j \in sweep[s].read \cap Held :
            Sha[j] \in sweep[s].todo => Past(j, SampleDays, sweep[s].today)
      /\ \A j \in sweep[s].marked \cap Held : Past(j, SampleDays, sweep[s].today)
  BY <1>2 DEF SweepInv, Knows, Sampling, Reading
<1>5. Reading(s)'
  <2>1. Known(s)' \subseteq Known(s)
    BY <1>1, <1>3 DEF Known, OfContent
  <2>2. \A j \in m \cap Held : Past(j, SampleDays, sweep[s].today)
    BY <1>1, <1>4 DEF OfContent
  <2> QED BY <1>2, <1>3, <1>4, <2>1, <2>2, ReadingStays
<1>6. Sampling(s)'
  BY <1>2, <1>3, <1>4 DEF Sampling, Held, Past
<1>7. Dooming(s)' /\ Needs(s)' /\ Reporting(s)'
  BY <1>3 DEF Dooming, Needs, Reporting
<1> QED BY <1>5, <1>6, <1>7 DEF Knows

LEMMA CommitSamplesKnows ==
    ASSUME TypeOK, SweepInv, StoredInv, [Next]_vars, NEW s \in Sweepers, CommitSamples(s)
    PROVE  Knows(s)' /\ Reporting(s)'
<1>1. PICK r : /\ Local(s, r)
               /\ (ReportDays > 0 /\ r = [sweep[s] EXCEPT !.pc = "doom"]) \/ r = Idle
  BY CommitSamplesLocal
<1>2. sweep'[s] = r
  BY <1>1, OneSweep DEF Local
<1>3. CASE r = Idle
  BY <1>2, <1>3 DEF Idle, Knows, Reading, Sampling, Dooming, Needs, Reporting
<1>4. CASE ReportDays > 0 /\ r = [sweep[s] EXCEPT !.pc = "doom"]
  <2>1. /\ r.pc = "doom" /\ r.today = sweep[s].today /\ r.read = sweep[s].read
        /\ r.marked = sweep[s].marked /\ r.doomed = sweep[s].doomed
    BY <1>4 DEF TypeOK, Sweep
  <2>2. sweep[s].pc = "samples"
    BY DEF CommitSamples
  <2>3. Reading(s)'
    <3>1. Known(s)' = Known(s)
      BY <1>2, <2>1 DEF Known
    <3>2. \A j \in sweep'[s].marked \cap Held : SampleDays > 0 /\ Past(j, SampleDays, sweep[s].today)
      BY <1>2, <2>1, <2>2 DEF SweepInv, Knows, Reading
    <3> QED BY <1>2, <2>1, <2>2, <3>1, <3>2, ReadingStays
  <2>4. Sampling(s)' /\ Dooming(s)' /\ Needs(s)' /\ Reporting(s)'
    BY <1>2, <1>4, <2>1 DEF Sampling, Dooming, Needs, Reporting
  <2> QED BY <2>3, <2>4 DEF Knows
<1> QED BY <1>1, <1>3, <1>4

LEMMA EndKnows ==
    ASSUME TypeOK, NEW s \in Sweepers, CommitReports(s) \/ Abort(s)
    PROVE  Knows(s)' /\ Reporting(s)'
<1>1. sweep'[s] = Idle
  BY EndLocal, OneSweep DEF Local
<1> QED BY <1>1 DEF Idle, Knows, Reading, Sampling, Dooming, Needs, Reporting

LEMMA DoomKnows ==
    ASSUME TypeOK, SweepInv, StoredInv, [Next]_vars, NEW s \in Sweepers, Doom(s)
    PROVE  Knows(s)' /\ Reporting(s)'
<1> DEFINE d == {j \in Rows : Past(j, ReportDays, sweep[s].today)}
<1>1. sweep'[s] = [sweep[s] EXCEPT !.pc = "need", !.doomed = d]
  BY DoomLocal, OneSweep DEF Local
<1>2. sweep[s] \in Sweep /\ sweep[s].pc = "doom" /\ row' = row
  BY DEF Doom, TypeOK
<1>3. /\ sweep'[s].pc = "need" /\ sweep'[s].today = sweep[s].today
      /\ sweep'[s].read = sweep[s].read /\ sweep'[s].marked = sweep[s].marked
      /\ sweep'[s].doomed = d
  BY <1>1, <1>2 DEF Sweep
<1>4. Reading(s)'
  <2>1. Known(s)' \subseteq Known(s) \cup Rows
    BY <1>3 DEF Known
  <2>2. \A j \in sweep'[s].marked \cap Held : SampleDays > 0 /\ Past(j, SampleDays, sweep[s].today)
    BY <1>2, <1>3 DEF SweepInv, Knows, Reading
  <2> QED BY <1>2, <1>3, <2>1, <2>2, ReadingStays
<1>5. Dooming(s)'
  <2>1. ReportDays > 0
    BY <1>2 DEF SweepInv, Knows, Dooming
  <2>2. Rows' = Rows
    BY <1>2 DEF Rows, Held
  <2> QED BY <1>2, <1>3, <2>1, <2>2 DEF Dooming, Past
<1>6. Sampling(s)' /\ Needs(s)' /\ Reporting(s)'
  BY <1>3 DEF Sampling, Needs, Reporting
<1> QED BY <1>4, <1>5, <1>6 DEF Knows

LEMMA NeedKnows ==
    ASSUME TypeOK, SweepInv, StoredInv, [Next]_vars, NEW s \in Sweepers, Need(s)
    PROVE  Knows(s)' /\ Reporting(s)'
<1> DEFINE n == {Sha[j] : j \in {k \in Rows \ sweep[s].doomed : HeldAsRead(s, k)}}
           t == {Sha[j] : j \in sweep[s].doomed}
<1>1. sweep'[s] = [sweep[s] EXCEPT !.pc = "reports", !.needed = n, !.todo = t]
  BY NeedLocal, OneSweep DEF Local
<1>2. /\ sweep[s] \in Sweep /\ sweep[s].pc = "need" /\ row' = row /\ stored' = stored
      /\ late' = late /\ file' = file /\ Left' = Left
  BY DEF Need, Needing, TypeOK, Left
<1>3. /\ sweep'[s].pc = "reports" /\ sweep'[s].today = sweep[s].today
      /\ sweep'[s].read = sweep[s].read /\ sweep'[s].marked = sweep[s].marked
      /\ sweep'[s].doomed = sweep[s].doomed /\ sweep'[s].needed = n /\ sweep'[s].todo = t
  <2> HIDE DEF n, t
  <2> QED BY <1>1, <1>2 DEF Sweep
<1>r. Rows' = Rows /\ Held' = Held
  BY <1>2 DEF Rows, Held
<1>4. /\ ReportDays > 0
      /\ \A j \in Rows : j \in sweep[s].doomed <=> Past(j, ReportDays, sweep[s].today)
      /\ SampleDays > 0 => Held \ late \subseteq sweep[s].read
      /\ \A j \in sweep[s].marked \cap Held : SampleDays > 0 /\ Past(j, SampleDays, sweep[s].today)
  BY <1>2 DEF SweepInv, Knows, Dooming, Reading
<1>5. Reading(s)'
  <2>1. Known(s)' \subseteq Known(s)
    BY <1>3 DEF Known
  <2> QED BY <1>2, <1>3, <1>4, <2>1, ReadingStays
<1>6. Dooming(s)'
  BY <1>2, <1>3, <1>4, <1>r DEF Dooming, Past
<1>7. Needs(s)'
  <2>1. SUFFICES ASSUME NEW j \in Held \ late, j \notin sweep[s].doomed,
                        ~(SampleDays > 0 /\ Past(j, SampleDays, sweep[s].today))
                 PROVE  Sha[j] \in n
    BY <1>2, <1>3, <1>r DEF Needs, Past
  <2>2. HeldAsRead(s, j)
    BY <1>4, <2>1 DEF HeldAsRead
  <2> QED BY <2>1, <2>2, HeldTyped
<1>8. Reporting(s)'
  <2>1. ASSUME NEW h \in n PROVE Clear(s, h)'
    <3>1. PICK k \in Rows \ sweep[s].doomed : h = Sha[k]
      OBVIOUS
    <3>2. ~Past(k, ReportDays, sweep[s].today)
      BY <1>4
    <3> QED BY <1>2, <1>3, <1>r, <3>1, <3>2 DEF Clear, Past
  <2>2. \A j \in sweep[s].doomed : Sha[j] \in t
    OBVIOUS
  <2> HIDE DEF n, t
  <2> QED BY <1>3, <2>1, <2>2 DEF Reporting
<1>9. Sampling(s)'
  BY <1>3 DEF Sampling
<1> QED BY <1>5, <1>6, <1>7, <1>8, <1>9 DEF Knows

LEMMA PurgeReportKnows ==
    ASSUME TypeOK, SweepInv, StoredInv, [Next]_vars, NEW s \in Sweepers, PurgeReport(s)
    PROVE  Knows(s)' /\ Reporting(s)'
<1>1. PICK h \in sweep[s].todo :
         /\ Local(s, [sweep[s] EXCEPT !.todo = @ \ {h}])
         /\ \/ /\ file' = IF h \in sweep[s].needed THEN file ELSE file \ {h}
               /\ UNCHANGED <<lost, faults>>
            \/ /\ Fault
               /\ lost' = lost \cup {h}
               /\ UNCHANGED file
  BY PurgeReportLocal
<1>2. /\ sweep[s] \in Sweep /\ sweep[s].pc = "reports" /\ row' = row /\ stored' = stored
      /\ late' = late /\ passed' = passed
  BY DEF PurgeReport, TypeOK
<1>3. /\ sweep'[s].pc = "reports" /\ sweep'[s].today = sweep[s].today
      /\ sweep'[s].read = sweep[s].read /\ sweep'[s].marked = sweep[s].marked
      /\ sweep'[s].doomed = sweep[s].doomed /\ sweep'[s].needed = sweep[s].needed
      /\ sweep'[s].todo = sweep[s].todo \ {h}
  <2>1. sweep'[s] = [sweep[s] EXCEPT !.todo = @ \ {h}]
    BY <1>1, OneSweep DEF Local
  <2> QED BY <1>2, <2>1 DEF Sweep
<1>r. Rows' = Rows /\ Held' = Held
  BY <1>2 DEF Rows, Held
<1>4. Knows(s) /\ Reporting(s)
  BY DEF SweepInv
<1>5. Reading(s)'
  <2>1. Known(s)' \subseteq Known(s)
    BY <1>3 DEF Known
  <2>2. \A j \in sweep'[s].marked \cap Held : SampleDays > 0 /\ Past(j, SampleDays, sweep[s].today)
    BY <1>2, <1>3, <1>4 DEF Knows, Reading
  <2> QED BY <1>2, <1>3, <2>1, <2>2, ReadingStays
<1>6. Dooming(s)'
  BY <1>2, <1>3, <1>4, <1>r DEF Knows, Dooming, Past
<1>7. Needs(s)'
  BY <1>2, <1>3, <1>4, <1>r DEF Knows, Needs, Past
<1>8. Sampling(s)'
  BY <1>3 DEF Sampling
<1>9. Reporting(s)'
  <2>1. file' \subseteq file /\ Left \subseteq Left'
    BY <1>1, <1>2 DEF Left
  <2>2. ASSUME NEW g, Clear(s, g) PROVE Clear(s, g)'
    BY <1>2, <1>3, <1>r, <2>1, <2>2 DEF Clear, Past
  <2>3. h \in sweep[s].needed \/ h \notin file' \/ h \in Left'
    BY <1>1 DEF Left
  <2>4. Clear(s, h)'
    BY <1>2, <1>4, <2>2, <2>3 DEF Reporting, Clear
  <2> QED BY <1>2, <1>3, <1>4, <2>2, <2>4 DEF Reporting
<1> QED BY <1>5, <1>6, <1>7, <1>8, <1>9 DEF Knows

LEMMA SweepsGoOn ==
    ASSUME TypeOK, SweepInv, StoredInv, [Next]_vars
    PROVE  SweepInv'
<1> SUFFICES ASSUME NEW t \in Sweepers PROVE Knows(t)' /\ Reporting(t)'
  BY DEF SweepInv
<1>1. CASE sweep'[t] = sweep[t]
  BY <1>1, KnowsKept, ReportingKept
<1>2. CASE sweep'[t] # sweep[t]
  <2>1. PICK s \in Sweepers : Step(s) \/ KeepSample(s) \/ Abort(s)
    BY <1>2 DEF Next, Store, Record, PassOver, Abandon, Tick, vars
  <2>2. s = t
    BY <1>2, <2>1, SweepStepLocal, OneSweep DEF Local
  <2> QED BY <2>1, <2>2, BeginKnows, SamplesKnow, CommitSamplesKnows, DoomKnows, NeedKnows,
         PurgeReportKnows, EndKnows DEF Step
<1> QED BY <1>1, <1>2

-----------------------------------------------------------------------------
(* What is in its window.                                                  *)

LEMMA StoredStays ==
    ASSUME TypeOK, SweepInv, StoredInv, [Next]_vars
    PROVE  StoredInv'
<1>0. row \in [Jobs -> RowType] /\ stored \subseteq Jobs
  BY DEF TypeOK, RowType
<1>1. CASE \E j \in Jobs : Store(j)
  BY <1>1 DEF Store, StoredInv
<1>2. CASE \E j \in Jobs : Record(j) \/ PassOver(j) \/ Abandon(j)
  BY <1>0, <1>2 DEF Record, PassOver, Abandon, StoredInv
<1>3. ASSUME NEW s \in Sweepers, sweep[s].pc # "idle", stored' = stored, late' = late,
             \A j \in stored : row'[j] = row[j]
      PROVE  StoredInv'
  BY <1>3 DEF SweepInv, Knows, Reading, StoredInv, New
<1>4. CASE row' = row /\ stored' = stored /\ file' = file /\ late \subseteq late'
  BY <1>4 DEF StoredInv, New
<1>5. ASSUME NEW s \in Sweepers, CommitSamples(s) PROVE StoredInv'
  <2>1. \A j \in stored : j \notin sweep[s].marked
    BY <1>5 DEF StoredInv, New, CommitSamples, Rows, Held
  <2> QED BY <1>0, <1>3, <1>5, <2>1 DEF CommitSamples
<1>6. ASSUME NEW s \in Sweepers, CommitReports(s) PROVE StoredInv'
  <2>1. \A j \in stored : j \notin sweep[s].doomed
    BY <1>6 DEF StoredInv, New, CommitReports, SweepInv, Knows, Reading, Known
  <2> QED BY <1>0, <1>3, <1>6, <2>1 DEF CommitReports
<1>7. ASSUME NEW s \in Sweepers, PurgeSample(s) \/ PurgeReport(s) PROVE StoredInv'
  <2>1. sweep[s].pc # "idle" /\ stored' = stored /\ late' = late /\ row' = row
    BY <1>7 DEF PurgeSample, PurgeReport
  <2> QED BY <1>3, <2>1
<1> QED BY <1>1, <1>2, <1>4, <1>5, <1>6, <1>7 DEF Next, Step, Tick, Begin, Doom, Need, Needing,
       KeepSample, Abort, vars

(* Every date is a natural number.                                         *)
LEMMA Dates ==
    ASSUME TypeOK, NEW j \in Jobs
    PROVE  now \in Nat /\ row[j].created \in Nat
<1>1. now \in 0..MaxTime /\ row \in [Jobs -> RowType]
  BY DEF TypeOK, RowType
<1>2. now \in Nat
  BY <1>1
<1>3. row[j] \in RowType
  BY <1>1
<1>4. row[j].created \in 0..MaxTime
  BY <1>3 DEF RowType
<1> QED BY <1>2, <1>4

(* A file that goes is of no job in its window that was there before.      *)
LEMMA WhatIsUnlinked ==
    ASSUME TypeOK, SweepInv, [Next]_vars, NEW j \in Held \ late, Sha[j] \in file \ file'
    PROVE  Outlived(j)
<1>0. now \in Nat /\ row[j].created \in Nat /\ \A s \in Sweepers : sweep[s].today \in Nat
  <2>1. j \in Jobs
    BY DEF Held
  <2>2. now \in Nat /\ row[j].created \in Nat
    BY <2>1, Dates
  <2>3. \A s \in Sweepers : sweep[s].today \in Nat
    BY DEF TypeOK, Sweep
  <2> QED BY <2>2, <2>3
<1>1. ASSUME NEW s \in Sweepers, sweep[s].pc # "idle", NEW d \in Nat, Past(j, d, sweep[s].today)
      PROVE  Past(j, d, now)
  <2>1. sweep[s].today <= now
    BY <1>1 DEF SweepInv, Knows, Reading
  <2> QED BY <1>0, <1>1, <2>1 DEF Past
<1>2. ASSUME NEW s \in Sweepers, PurgeSample(s) PROVE Outlived(j)
  <2>1. Sha[j] \in sweep[s].todo
    BY <1>2 DEF PurgeSample
  <2>2. j \in sweep[s].read /\ SampleDays > 0 /\ sweep[s].pc = "samples"
    BY <1>2 DEF PurgeSample, SweepInv, Knows, Sampling, Reading
  <2>3. Past(j, SampleDays, sweep[s].today)
    BY <1>2, <2>1, <2>2 DEF PurgeSample, SweepInv, Knows, Sampling
  <2> QED BY <1>1, <2>2, <2>3 DEF Outlived
<1>3. ASSUME NEW s \in Sweepers, PurgeReport(s) PROVE Outlived(j)
  <2>1. Sha[j] \notin sweep[s].needed /\ sweep[s].pc = "reports"
    BY <1>3 DEF PurgeReport
  <2>2. \/ SampleDays > 0 /\ Past(j, SampleDays, sweep[s].today)
        \/ ReportDays > 0 /\ Past(j, ReportDays, sweep[s].today)
    BY <2>1, HeldTyped DEF SweepInv, Knows, Needs, Dooming
  <2> QED BY <1>1, <2>1, <2>2 DEF Outlived
<1> QED BY <1>2, <1>3 DEF Next, Step, Store, Record, PassOver, Abandon, Tick, Begin, CommitSamples, Doom,
       Need, Needing, CommitReports, KeepSample, Abort, vars

LEMMA InWindowStays ==
    ASSUME TypeOK, SweepInv, StoredInv, InWindowKept, [Next]_vars
    PROVE  InWindowKept'
<1>1. SUFFICES ASSUME NEW j \in Held', j \notin late', Sha[j] \notin file'
               PROVE  Outlived(j)'
  BY DEF InWindowKept
<1>2. late \subseteq late' /\ now \in Nat /\ now' \in Nat /\ now <= now'
  BY HistoryGrows
<1>3. CASE j \in Held /\ row'[j] = row[j]
  <2>1. Outlived(j)
    BY <1>1, <1>2, <1>3, WhatIsUnlinked DEF InWindowKept
  <2>2. row[j].created \in Nat
    BY <1>3, HeldTyped DEF TypeOK
  <2> QED BY <1>2, <1>3, <2>1, <2>2 DEF Outlived, Past
<1>4. CASE j \in stored
  <2>1. row[j] = New /\ Sha[j] \in file
    BY <1>1, <1>2, <1>4 DEF StoredInv
  <2>2. row'[j] # row[j]
    BY <2>1 DEF New, Held
  <2>3. PICK i \in Jobs : Record(i) \/ Abandon(i)
    <3>1. ASSUME NEW s \in Sweepers, CommitSamples(s) \/ CommitReports(s) PROVE FALSE
      BY <1>1, <1>2, <1>4, <3>1 DEF CommitSamples, CommitReports, SweepInv, Knows, Reading
    <3> QED BY <2>2, <3>1 DEF Next, Step, Store, PassOver, Tick, Begin, PurgeSample, Doom, Need, Needing,
           PurgeReport, KeepSample, Abort, vars
  <2> QED BY <1>1, <2>1, <2>3 DEF Record, Abandon
<1> QED BY <1>3, <1>4, RowsComeFrom

-----------------------------------------------------------------------------
(* The theorems.                                                           *)

LEMMA Accounted == FilesAccounted <=> TypeOK /\ \A h : Answered(h)
<1>1. stored \cup Rows \subseteq Jobs \/ ~TypeOK
  BY HeldTyped DEF TypeOK
<1> QED BY <1>1 DEF FilesAccounted, Answered, OfContent, Left

LEMMA Starts == Init => IInv
<1> SUFFICES ASSUME Init PROVE IInv
  OBVIOUS
<1>1. /\ file = {} /\ stored = {} /\ Held = {} /\ Rows = {}
      /\ \A s \in Sweepers : sweep[s].pc = "idle"
  BY DEF Init, Held, Rows, New, Idle
<1>2. TypeOK
  <2>1. 0 \in 0..MaxTime /\ 0 \in 0..MaxFaults
    OBVIOUS
  <2>2. New \in [is : {"new", "held", "purged", "gone"}, created : 0..MaxTime]
    BY <2>1 DEF New
  <2> QED BY <2>1, <2>2, IdleTyped DEF Init, TypeOK
<1>3. FilesAccounted
  BY <1>1, <1>2 DEF FilesAccounted
<1>4. InWindowKept /\ StoredInv
  BY <1>1 DEF InWindowKept, StoredInv
<1>5. SweepInv
  BY <1>1 DEF SweepInv, Knows, Reporting, Reading, Sampling, Dooming, Needs
<1> QED BY <1>3, <1>4, <1>5 DEF IInv

LEMMA Goes == IInv /\ [Next]_vars => IInv'
<1> SUFFICES ASSUME IInv, [Next]_vars PROVE IInv'
  OBVIOUS
<1>1. TypeOK /\ SweepInv /\ StoredInv /\ InWindowKept /\ \A h : Answered(h)
  BY Accounted DEF IInv
<1>2. TypeOK' /\ SweepInv' /\ StoredInv' /\ InWindowKept'
  BY <1>1, TypesKept, SweepsGoOn, StoredStays, InWindowStays
<1>3. \A h : Answered(h)'
  BY <1>1, AnsweredKept
<1>4. FilesAccounted'
  <2>1. stored' \cup Rows' \subseteq Jobs
    BY <1>2 DEF TypeOK, Rows, Held
  <2> QED BY <1>2, <1>3, <2>1 DEF FilesAccounted, Answered, OfContent, Left
<1> QED BY <1>2, <1>4 DEF IInv

(* Every file in the quarantine is of a committed row or of a submission   *)
(* under way, or a step failed and left it, or it is of a member that the  *)
(* run of its archive passed over: no order of uploads, unpacking runs and *)
(* sweeps, of any number of them, orphans the bytes of any other sample.   *)
THEOREM FilesAlwaysAccounted == Spec => []FilesAccounted
<1>1. Spec => []IInv
  BY Starts, Goes, PTL DEF Spec
<1>2. IInv => FilesAccounted
  BY DEF IInv
<1> QED BY <1>1, <1>2, PTL

(* A job that was submitted while no sweep was at work has its file until  *)
(* one of the two clocks runs out for it, whatever jobs share its content. *)
THEOREM SamplesStayInWindow == Spec => []InWindowKept
<1>1. Spec => []IInv
  BY Starts, Goes, PTL DEF Spec
<1>2. IInv => InWindowKept
  BY DEF IInv
<1> QED BY <1>1, <1>2, PTL
=============================================================================
