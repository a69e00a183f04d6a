------------------------ MODULE DetonationSeamProofs ------------------------
(***************************************************************************)
(* Theorems about DetonationSeam for any jobs, workers, requests, faults   *)
(* and bounds: its types, that no re-analysis removes the evidence of a    *)
(* detonation, however many workers report at once, and that the steps of  *)
(* the seam are steps of the promise of Detonation.                        *)
(***************************************************************************)
EXTENDS DetonationSeam, FiniteSetTheorems, WellFoundedInduction, TLAPS

(* A worker that is not polling has a job before it.                       *)
Busy == \A w \in Workers : worker[w].pc # "idle" => worker[w].todo # {}

(* From its first flush to its commit a run holds the row lock, so nobody  *)
(* writes what it wrote, or what it left alone.                            *)
LockHeld ==
    \A j \in Jobs : run[j].pc = "running" => run[j].draft.analysis = row[j].analysis

IInv == TypeOK /\ Busy /\ LockHeld

-----------------------------------------------------------------------------
(* What the operators return.                                              *)

(* A set of jobs has an oldest one.                                        *)
LEMMA OldestOfSome ==
    ASSUME NEW S \in SUBSET Jobs, S # {}
    PROVE  \E j \in S : \A i \in S : j <= i
<1>1. S \subseteq Nat
  BY JobsAssumption
<1>2. PICK j \in S : \A i \in S : ~(<<i, j>> \in OpToRel(<, Nat))
  BY <1>1, NatLessThanWellFounded, WFMin
<1>3. ASSUME NEW i \in S PROVE j <= i
  <2>1. i \in Nat /\ j \in Nat
    BY <1>1
  <2>2. i < j => <<i, j>> \in OpToRel(<, Nat)
    BY <2>1 DEF OpToRel
  <2>3. ~(i < j)
    BY <1>2, <2>2
  <2> QED BY <2>1, <2>3
<1> QED BY <1>3

LEMMA FirstOfSome ==
    ASSUME NEW w \in Workers, worker[w].todo \in SUBSET Jobs, worker[w].todo # {}
    PROVE  First(w) \in worker[w].todo
  BY OldestOfSome DEF First

LEMMA FlushTyped ==
    ASSUME NEW a \in Row, NEW b \in Row, NEW c \in Row
    PROVE  Flush(a, b, c) \in Row
  BY DEF Flush, Written, Row

LEMMA AnalysedTyped == Analysed \in Row
  BY BoundsAssumption DEF Analysed, Row, Tiers, Waiting, Evidence, Kinds

LEMMA IngestedTyped ==
    ASSUME NEW copy \in Row, NEW kind \in Kinds, NEW by \in Workers,
           rules \in 1..MaxRules
    PROVE  Ingested(copy, [kind |-> kind, by |-> by]) \in Row
<1> DEFINE report == [kind |-> kind, by |-> by]
<1>1. Assessed(copy, report) \in Evidence
  BY DEF Assessed, Evidence, Row
<1>2. [copy.tiers EXCEPT !.kind = kind, !.by = by] \in Tiers
  BY DEF Tiers, Row
<1>3. Reason(report) \in {"none", "refusal", "failure"}
  BY DEF Reason
<1>4. Ingested(copy, report) =
        [copy EXCEPT !.tiers = [copy.tiers EXCEPT !.kind = kind, !.by = by],
                     !.analysis = Assessed(copy, report),
                     !.score = Assessed(copy, report),
                     !.error = Reason(report)]
  BY DEF Ingested, Row, Tiers
<1> HIDE DEF report
<1> QED BY <1>1, <1>2, <1>3, <1>4 DEF Row, report

LEMMA StartedTyped ==
    ASSUME NEW c \in Row
    PROVE  Started(c) \in Row
  BY DEF Started, Row

LEMMA ReanalysedTyped ==
    ASSUME NEW c \in Row, NEW stored \in Row, rules \in 1..MaxRules
    PROVE  Reanalysed(c, stored) \in Row
<1>1. Waiting(rules) \in Tiers
  BY DEF Waiting, Tiers
<1>2. c.tiers \in Tiers
  BY DEF Row
<1>3. CarriedTiers(c) \in Tiers
  BY <1>1, <1>2 DEF CarriedTiers, Waiting, Tiers, Kinds
<1>4. MergedAnalysis(c, stored) \in Evidence
  BY DEF MergedAnalysis, Evidence, Row
<1>5. [rules |-> rules, ran |-> c.analysis.ran] \in Evidence
  BY DEF Evidence, Row
<1> QED BY <1>3, <1>4, <1>5 DEF Reanalysed, Row

-----------------------------------------------------------------------------
(* What the steps preserve.                                                *)

LoopOK(l) == l \in Loops /\ (l.pc # "idle" => l.todo # {})

LEMMA FromIdle ==
    ASSUME NEW todo \in SUBSET Jobs, NEW held \in BOOLEAN, todo # {}
    PROVE  LoopOK([IdleWorker EXCEPT !.pc = "next", !.todo = todo, !.held = held])
<1>1. IdleWorker \in Loops
  BY DEF IdleWorker, Loops, Kinds
<1> QED BY <1>1 DEF LoopOK, Loops

(* Every step of a worker's loop replaces its own entry by a proper one.   *)
LEMMA AdvanceStep ==
    ASSUME worker \in [Workers -> Loops], NEW w \in Workers,
           worker[w].todo # {}, Advance(w)
    PROVE  \E l : LoopOK(l) /\ worker' = [worker EXCEPT ![w] = l]
<1>1. worker[w] \in Loops
  OBVIOUS
<1>2. worker[w].todo \in SUBSET Jobs /\ worker[w].held \in BOOLEAN
  BY <1>1 DEF Loops
<1>3. First(w) \in worker[w].todo
  BY <1>2, FirstOfSome
<1>4. LoopOK(IdleWorker)
  BY DEF LoopOK, Loops, IdleWorker, Kinds
<1>5. CASE worker[w].todo = {First(w)}
  BY <1>4, <1>5 DEF Advance
<1>6. CASE worker[w].todo # {First(w)}
  <2> DEFINE l == [IdleWorker EXCEPT !.pc = "next", !.todo = worker[w].todo \ {First(w)},
                                     !.held = worker[w].held]
  <2>1. LoopOK(l)
    <3>1. worker[w].todo \ {First(w)} # {}
      BY <1>3, <1>6
    <3> QED BY <1>2, <3>1, FromIdle
  <2>2. worker' = [worker EXCEPT ![w] = l]
    BY <1>6, <1>1 DEF Advance
  <2> QED BY <2>1, <2>2
<1> QED BY <1>5, <1>6

LEMMA LoopStep ==
    ASSUME TypeOK, Busy, NEW w \in Workers, WorkerStep(w)
    PROVE  worker' \in [Workers -> Loops] /\ Busy'
<1> SUFFICES \E l : LoopOK(l) /\ worker' = [worker EXCEPT ![w] = l]
  BY DEF TypeOK, Busy, LoopOK
<1>1. worker \in [Workers -> Loops] /\ worker[w] \in Loops
  BY DEF TypeOK
<1>2. worker[w].pc # "idle" => worker[w].todo # {}
  BY DEF Busy
<1>3. CASE Poll(w)
  <2>1. PICK held \in BOOLEAN :
           worker' = [worker EXCEPT ![w] = [IdleWorker EXCEPT !.pc = "next",
                                              !.todo = Offered, !.held = held]]
    BY <1>3 DEF Poll
  <2>2. Offered \in SUBSET Jobs
    BY DEF Offered, Oldest
  <2>3. Offered # {}
    BY <1>3 DEF Poll
  <2> QED BY <2>1, <2>2, <2>3, FromIdle
<1>4. ASSUME NEW kind \in Kinds, worker[w].pc # "idle", worker' = Reports(w, kind)
      PROVE  \E l : LoopOK(l) /\ worker' = [worker EXCEPT ![w] = l]
  <2> DEFINE l == [worker[w] EXCEPT !.pc = "post", !.kind = kind]
  <2>1. LoopOK(l)
    BY <1>1, <1>2, <1>4 DEF LoopOK, Loops
  <2>2. worker' = [worker EXCEPT ![w] = l]
    BY <1>1, <1>4 DEF Reports
  <2> QED BY <2>1, <2>2
<1>5. CASE Hold(w)
  BY <1>4, <1>5 DEF Hold, Kinds
<1>6. CASE Refuse(w)
  BY <1>4, <1>6 DEF Refuse, Kinds
<1>7. CASE Fetch(w)
  <2>1. CASE row[First(w)].purged
    BY <1>1, <1>2, <1>7, <2>1, AdvanceStep DEF Fetch
  <2>2. CASE ~row[First(w)].purged
    <3> DEFINE l == [worker[w] EXCEPT !.pc = "detonate"]
    <3>1. LoopOK(l)
      BY <1>1, <1>2, <1>7 DEF LoopOK, Loops, Fetch
    <3>2. worker' = [worker EXCEPT ![w] = l]
      BY <1>1, <1>7, <2>2 DEF Fetch
    <3> QED BY <3>1, <3>2
  <2> QED BY <2>1, <2>2
<1>8. CASE Detonate(w)
  BY <1>4, <1>8 DEF Detonate
<1>9. CASE Drop(w)
  BY <1>1, <1>2, <1>9, AdvanceStep DEF Drop
<1>10. CASE GiveUp(w)
  BY <1>1, <1>2, <1>10, AdvanceStep DEF GiveUp
<1>11. CASE \E r \in Requests : Post(w, r)
  <2> DEFINE l == [worker[w] EXCEPT !.pc = "wait", !.kind = "unavailable"]
  <2>1. LoopOK(l)
    BY <1>1, <1>2, <1>11 DEF LoopOK, Loops, Post, Kinds
  <2>2. worker' = [worker EXCEPT ![w] = l]
    BY <1>1, <1>11 DEF Post
  <2> QED BY <2>1, <2>2
<1> QED BY <1>3, <1>5, <1>6, <1>7, <1>8, <1>9, <1>10, <1>11 DEF WorkerStep

(* A step that leaves the rows and the runs alone keeps the lock.          *)
LEMMA LockKept ==
    ASSUME LockHeld, UNCHANGED <<row, run>>
    PROVE  LockHeld'
  BY DEF LockHeld

LEMMA WorkerPreserves ==
    ASSUME IInv, NEW w \in Workers, WorkerStep(w)
    PROVE  IInv'
<1> USE DEF IInv
<1>1. worker' \in [Workers -> Loops] /\ Busy'
  BY LoopStep
<1>2. UNCHANGED <<row, run, rules, reanalyses>>
  BY DEF WorkerStep, Poll, Hold, Refuse, Fetch, Detonate, Drop, GiveUp, Post
<1>3. LockHeld'
  BY <1>2, LockKept
<1>4. request' \in [Requests -> Ingests]
  <2>1. CASE \E r \in Requests : Post(w, r)
    <3>1. PICK r \in Requests : Post(w, r)
      BY <2>1
    <3> DEFINE j == First(w)
               new == Ingested(row[j], [kind |-> worker[w].kind, by |-> w])
    <3>2. worker[w] \in Loops /\ worker[w].pc # "idle"
      BY <3>1 DEF TypeOK, Post
    <3>3. worker[w].todo \in SUBSET Jobs /\ worker[w].todo # {} /\ worker[w].kind \in Kinds
      BY <3>2 DEF Loops, Busy
    <3>4. j \in Jobs
      BY <3>3, FirstOfSome
    <3>5. row[j] \in Row
      BY <3>4 DEF TypeOK
    <3>6. rules \in 1..MaxRules
      BY DEF TypeOK
    <3>7. new \in Row
      BY <3>3, <3>5, <3>6, IngestedTyped
    <3>8. request' = [request EXCEPT ![r] = [pc |-> w, job |-> j, copy |-> row[j], new |-> new]]
      BY <3>1 DEF Post
    <3>9. [pc |-> w, job |-> j, copy |-> row[j], new |-> new] \in Ingests
      BY <3>4, <3>5, <3>7 DEF Ingests
    <3> HIDE DEF new, j
    <3> QED BY <3>8, <3>9 DEF TypeOK
  <2>2. CASE ~ \E r \in Requests : Post(w, r)
    <3>1. UNCHANGED request
      BY <2>2 DEF WorkerStep, Poll, Hold, Refuse, Fetch, Detonate, Drop, GiveUp
    <3> QED BY <3>1 DEF TypeOK
  <2> QED BY <2>1, <2>2
<1> QED BY <1>1, <1>2, <1>3, <1>4 DEF TypeOK

LEMMA IngestPreserves ==
    ASSUME IInv, NEW r \in Requests, Ingest(r)
    PROVE  IInv'
<1> USE DEF IInv
<1> DEFINE j == request[r].job
           new == Flush(request[r].copy, request[r].new, row[j])
<1>1. request[r] \in Ingests
  BY DEF TypeOK
<1>2. row' = [row EXCEPT ![j] = new] /\ Unlocked(j)
  BY DEF Ingest
<1>3. j \in Jobs => new \in Row
  <2>1. request[r].copy \in Row /\ request[r].new \in Row
    BY <1>1 DEF Ingests
  <2>2. j \in Jobs => row[j] \in Row
    BY DEF TypeOK
  <2> QED BY <2>1, <2>2, FlushTyped
<1>4. row' \in [Jobs -> Row]
  <2> HIDE DEF new, j
  <2> QED BY <1>2, <1>3 DEF TypeOK
<1>5. request' \in [Requests -> Ingests]
  BY AnalysedTyped DEF Ingest, TypeOK, NoRequest, Ingests
<1>6. UNCHANGED <<run, worker, rules, reanalyses>>
  BY DEF Ingest
<1>7. LockHeld'
  <2> HIDE DEF new, j
  <2>1. \A i \in Jobs : i # j => row'[i] = row[i]
    BY <1>2 DEF TypeOK
  <2> QED BY <1>2, <1>6, <2>1 DEF LockHeld, Unlocked
<1> QED BY <1>4, <1>5, <1>6, <1>7 DEF TypeOK, Busy

(* Of a run, and of what is written while it is not at work.               *)
SessionOK(s, j) == s \in Sessions /\ (s.pc = "running" => s.draft.analysis = row'[j].analysis)

LEMMA SessionStep ==
    ASSUME IInv, NEW j \in Jobs, NEW s, NEW new \in Row,
           row' = [row EXCEPT ![j] = new], run' = [run EXCEPT ![j] = s],
           SessionOK(s, j), UNCHANGED <<request, worker, rules>>, reanalyses' \in Nat
    PROVE  IInv'
<1> USE DEF IInv
<1>1. row' \in [Jobs -> Row] /\ run' \in [Jobs -> Sessions]
  BY DEF TypeOK, SessionOK
<1>2. LockHeld'
  <2>1. \A i \in Jobs : i # j => row'[i] = row[i] /\ run'[i] = run[i]
    BY DEF TypeOK
  <2>2. run'[j] = s
    BY DEF TypeOK
  <2> QED BY <2>1, <2>2 DEF LockHeld, SessionOK
<1> QED BY <1>1, <1>2 DEF TypeOK, Busy

LEMMA EndRunPreserves ==
    ASSUME IInv, NEW j \in Jobs, NEW new \in Row, EndRun(j, new)
    PROVE  IInv'
<1>1. NoRun \in Sessions /\ NoRun.pc # "running"
  BY AnalysedTyped DEF NoRun, Sessions
<1>2. SessionOK(NoRun, j)
  BY <1>1 DEF SessionOK
<1>3. reanalyses' \in Nat
  BY DEF IInv, TypeOK, EndRun
<1> QED BY <1>2, <1>3, SessionStep DEF EndRun

LEMMA JobPreserves ==
    ASSUME IInv, NEW j \in Jobs, Reanalyze(j) \/ RunStep(j) \/ Purge(j)
    PROVE  IInv'
<1>1. row \in [Jobs -> Row] /\ row[j] \in Row /\ run \in [Jobs -> Sessions]
      /\ run[j] \in Sessions /\ rules \in 1..MaxRules /\ reanalyses \in Nat
  BY DEF IInv, TypeOK
<1>2. run[j].copy \in Row /\ run[j].draft \in Row
  BY <1>1 DEF Sessions
<1>3. row = [row EXCEPT ![j] = row[j]] /\ run = [run EXCEPT ![j] = run[j]]
  BY <1>1
<1>4. CASE Reanalyze(j)
  <2> DEFINE s == [run[j] EXCEPT !.pc = "queued"]
             new == [row[j] EXCEPT !.status = "queued"]
  <2>1. new \in Row
    BY <1>1 DEF Row
  <2>2. SessionOK(s, j)
    BY <1>1 DEF SessionOK, Sessions
  <2>3. row' = [row EXCEPT ![j] = new] /\ run' = [run EXCEPT ![j] = s]
    BY <1>4 DEF Reanalyze
  <2>4. UNCHANGED <<request, worker, rules>> /\ reanalyses' \in Nat
    BY <1>1, <1>4 DEF Reanalyze
  <2> HIDE DEF s, new
  <2> QED BY <2>1, <2>2, <2>3, <2>4, SessionStep
<1>5. CASE Load(j)
  <2> DEFINE s == [run[j] EXCEPT !.pc = "loaded", !.copy = row[j]]
  <2>1. SessionOK(s, j)
    BY <1>1 DEF SessionOK, Sessions
  <2>2. row' = [row EXCEPT ![j] = row[j]] /\ run' = [run EXCEPT ![j] = s]
    BY <1>3, <1>5 DEF Load
  <2>3. UNCHANGED <<request, worker, rules>> /\ reanalyses' \in Nat
    BY <1>1, <1>5 DEF Load
  <2> HIDE DEF s
  <2> QED BY <1>1, <2>1, <2>2, <2>3, SessionStep
<1>6. CASE Start(j)
  <2> DEFINE c == Started(run[j].copy)
             f == Flush(run[j].copy, c, row[j])
             d == [f EXCEPT !.analysis = row[j].analysis]
             s == [pc |-> "running", copy |-> c, draft |-> d]
  <2>1. c \in Row
    BY <1>2, StartedTyped
  <2>2. f \in Row
    BY <1>1, <1>2, <2>1, FlushTyped
  <2>3. run' = [run EXCEPT ![j] = s] /\ row' = [row EXCEPT ![j] = row[j]]
    BY <1>3, <1>6 DEF Start
  <2> HIDE DEF c, f
  <2>4. d \in Row /\ d.analysis = row[j].analysis
    BY <1>1, <2>2 DEF Row
  <2> HIDE DEF d
  <2>5. row' = row
    BY <1>6 DEF Start
  <2>6. SessionOK(s, j)
    BY <2>1, <2>4, <2>5 DEF SessionOK, Sessions
  <2>7. UNCHANGED <<request, worker, rules>> /\ reanalyses' \in Nat
    BY <1>1, <1>6 DEF Start
  <2> HIDE DEF s
  <2> QED BY <1>1, <2>3, <2>6, <2>7, SessionStep
<1>7. CASE Finish(j)
  <2> DEFINE new == Flush(run[j].copy, Reanalysed(run[j].copy, run[j].draft), run[j].draft)
  <2>1. Reanalysed(run[j].copy, run[j].draft) \in Row
    BY <1>1, <1>2, ReanalysedTyped
  <2>2. new \in Row
    BY <1>2, <2>1, FlushTyped
  <2>3. EndRun(j, new)
    BY <1>7 DEF Finish
  <2> HIDE DEF new
  <2> QED BY <2>2, <2>3, EndRunPreserves
<1>8. CASE Fail(j)
  <2> DEFINE new == [run[j].draft EXCEPT !.status = "failed", !.error = "failure"]
  <2>1. new \in Row
    BY <1>2 DEF Row
  <2>2. EndRun(j, new)
    BY <1>8 DEF Fail
  <2> HIDE DEF new
  <2> QED BY <2>1, <2>2, EndRunPreserves
<1>9. CASE Purge(j)
  <2> DEFINE new == [row[j] EXCEPT !.purged = TRUE]
  <2>1. new \in Row
    BY <1>1 DEF Row
  <2>2. row' = [row EXCEPT ![j] = new] /\ run' = [run EXCEPT ![j] = run[j]]
    BY <1>3, <1>9 DEF Purge
  <2>3. SessionOK(run[j], j)
    BY <1>1, <1>9 DEF SessionOK, Purge, Unlocked
  <2>4. UNCHANGED <<request, worker, rules>> /\ reanalyses' \in Nat
    BY <1>1, <1>9 DEF Purge
  <2> HIDE DEF new
  <2> QED BY <2>1, <2>2, <2>3, <2>4, SessionStep
<1> QED BY <1>4, <1>5, <1>6, <1>7, <1>8, <1>9 DEF RunStep

LEMMA DeployPreserves ==
    ASSUME IInv, Deploy
    PROVE  IInv'
<1>1. NoRun \in Sessions /\ NoRun.pc # "running"
  BY AnalysedTyped DEF NoRun, Sessions
<1>2. NoRequest \in Ingests
  BY AnalysedTyped DEF NoRequest, Ingests
<1>3. rules' \in 1..MaxRules
  BY BoundsAssumption DEF IInv, TypeOK, Deploy
<1> QED BY <1>1, <1>2, <1>3 DEF IInv, TypeOK, Busy, LockHeld, Deploy

LEMMA Initially == Init => IInv
<1> SUFFICES ASSUME Init PROVE IInv
  OBVIOUS
<1>1. NoRun \in Sessions /\ NoRun.pc # "running"
  BY AnalysedTyped DEF NoRun, Sessions
<1>2. NoRequest \in Ingests
  BY AnalysedTyped DEF NoRequest, Ingests
<1>3. IdleWorker \in Loops /\ IdleWorker.pc = "idle"
  BY DEF IdleWorker, Loops, Kinds
<1>4. rules \in 1..MaxRules
  BY BoundsAssumption DEF Init
<1> QED BY <1>1, <1>2, <1>3, <1>4, AnalysedTyped DEF Init, IInv, TypeOK, Busy, LockHeld

LEMMA Steps == IInv /\ [Next]_vars => IInv'
<1> SUFFICES ASSUME IInv, [Next]_vars PROVE IInv'
  OBVIOUS
<1>1. CASE Next
  BY <1>1, WorkerPreserves, IngestPreserves, JobPreserves, DeployPreserves DEF Next
<1>2. CASE UNCHANGED vars
  BY <1>2 DEF vars, IInv, TypeOK, Busy, LockHeld
<1> QED BY <1>1, <1>2

-----------------------------------------------------------------------------
(* Every variable keeps its type: above all, a worker never looks at the   *)
(* head of an empty batch (run_once, process_job).                         *)
THEOREM TypeCorrect == Spec => []TypeOK
<1>1. Spec => []IInv
  BY Initially, Steps, PTL DEF Spec
<1>2. IInv => TypeOK
  BY DEF IInv
<1> QED BY <1>1, <1>2, PTL

-----------------------------------------------------------------------------
(* A run that ends writes the analysis of the row it read again; the row   *)
(* is the one it locked, so no report was folded in between.               *)
EvidenceKept ==
    \A j \in Jobs : run[j].pc = "running" /\ run'[j].pc = "none"
        /\ row[j].analysis.ran => row'[j].analysis.ran

LEMMA EvidenceStep == IInv /\ [Next]_vars => EvidenceKept
<1> SUFFICES ASSUME IInv, [Next]_vars, NEW j \in Jobs,
                    run[j].pc = "running", run'[j].pc = "none", row[j].analysis.ran
             PROVE  row'[j].analysis.ran
  BY DEF EvidenceKept
<1>1. row \in [Jobs -> Row] /\ run \in [Jobs -> Sessions]
  BY DEF IInv, TypeOK
<1>2. run[j].draft.analysis = row[j].analysis
  BY DEF IInv, LockHeld
<1>3. run' # run
  OBVIOUS
<1>4. CASE Deploy
  BY <1>4 DEF Deploy
<1>5. ASSUME NEW i \in Jobs, Reanalyze(i) \/ Load(i) \/ Start(i) PROVE FALSE
  <2>1. run[i] \in Sessions
    BY <1>1
  <2>2. CASE Reanalyze(i)
    <3>1. run' = [run EXCEPT ![i] = [run[i] EXCEPT !.pc = "queued"]]
      BY <2>2 DEF Reanalyze
    <3> QED BY <1>1, <2>1, <3>1 DEF Sessions
  <2>3. CASE Load(i)
    <3>1. run' = [run EXCEPT ![i] = [run[i] EXCEPT !.pc = "loaded", !.copy = row[i]]]
      BY <2>3 DEF Load
    <3> QED BY <1>1, <2>1, <3>1 DEF Sessions
  <2>4. CASE Start(i)
    <3> DEFINE s == [pc |-> "running", copy |-> Started(run[i].copy),
                     draft |-> [Flush(run[i].copy, Started(run[i].copy), row[i])
                                  EXCEPT !.analysis = row[i].analysis]]
    <3>1. run' = [run EXCEPT ![i] = s]
      BY <2>4 DEF Start
    <3>2. s.pc = "running"
      OBVIOUS
    <3> HIDE DEF s
    <3> QED BY <1>1, <3>1, <3>2
  <2> QED BY <1>5, <2>2, <2>3, <2>4
<1>6. ASSUME NEW i \in Jobs, NEW new, EndRun(i, new) PROVE i = j /\ row'[j] = new
  <2>1. i # j => run'[j] = run[j]
    BY <1>1, <1>6 DEF EndRun
  <2> QED BY <1>1, <1>6, <2>1 DEF EndRun
<1>7. ASSUME NEW i \in Jobs, Finish(i) PROVE row'[j].analysis.ran
  <2> DEFINE c == run[i].copy
             new == Flush(c, Reanalysed(c, run[i].draft), run[i].draft)
  <2>1. EndRun(i, new)
    BY <1>7 DEF Finish
  <2>2. i = j /\ row'[j] = new
    BY <1>6, <2>1
  <2>3. new.analysis = MergedAnalysis(c, run[i].draft)
    <3>1. c \in Row
      BY <1>1 DEF Sessions
    <3> QED BY <3>1 DEF Flush, Reanalysed, Row
  <2>4. MergedAnalysis(c, run[j].draft).ran
    BY <1>2 DEF MergedAnalysis
  <2> QED BY <2>2, <2>3, <2>4
<1>8. ASSUME NEW i \in Jobs, Fail(i) PROVE row'[j].analysis.ran
  <2> DEFINE new == [run[i].draft EXCEPT !.status = "failed", !.error = "failure"]
  <2>1. EndRun(i, new)
    BY <1>8 DEF Fail
  <2>2. i = j /\ row'[j] = new
    BY <1>6, <2>1
  <2>3. new.analysis = run[i].draft.analysis
    BY <1>1 DEF Sessions, Row
  <2> QED BY <1>2, <2>2, <2>3
<1>9. ASSUME UNCHANGED run PROVE FALSE
  BY <1>3, <1>9
<1>10. ASSUME NEW i \in Jobs, Purge(i) PROVE FALSE
  BY <1>9, <1>10 DEF Purge
<1>11. ASSUME NEW r \in Requests, Ingest(r) PROVE FALSE
  BY <1>9, <1>11 DEF Ingest
<1>12. ASSUME NEW w \in Workers, WorkerStep(w) PROVE FALSE
  BY <1>9, <1>12 DEF WorkerStep, Poll, Hold, Refuse, Fetch, Detonate, Drop, GiveUp, Post
<1>13. ASSUME UNCHANGED vars PROVE FALSE
  BY <1>9, <1>13 DEF vars
<1> QED BY <1>4, <1>5, <1>7, <1>8, <1>10, <1>11, <1>12, <1>13 DEF Next, RunStep

(* No re-analysis removes the evidence of a detonation, whoever reported   *)
(* it and whenever (the merge at the end of pipeline.run).                 *)
THEOREM EvidenceSurvives == Spec => EvidenceSurvivesRun
<1>1. Spec => []IInv
  BY Initially, Steps, PTL DEF Spec
<1>2. IInv /\ [Next]_vars => [EvidenceKept]_vars
  BY EvidenceStep
<1> QED BY <1>1, <1>2, PTL DEF Spec, EvidenceSurvivesRun, EvidenceKept

-----------------------------------------------------------------------------
(* The seam keeps the order that Detonation promises, for any number of    *)
(* jobs and requests, when nothing analyses a row anew, one worker polls   *)
(* and no report is lost: the instance SeamInOrder.cfg checks.             *)

InOrder == /\ MaxReanalyses = 0
           /\ "lost" \notin Faults
           /\ \A v, w \in Workers : v = w

Answered(j) == row[j].tiers.kind \in {"ran", "refused"}

Pending(w) == \E r \in Requests : request[r].pc = w

(* The columns of a row tell one story.                                    *)
Coherent(j) == /\ run[j] = NoRun
               /\ row[j].status = "completed"
               /\ row[j].score = row[j].analysis
               /\ row[j].tiers.kind = "ran" <=> row[j].analysis.ran

(* What a report makes of the row that its request loaded.                 *)
Folded(copy, new, j) ==
    /\ new.status = copy.status
    /\ new.score = new.analysis
    /\ new.analysis.ran <=> new.tiers.kind = "ran"
    /\ new.tiers.kind = "ran" => j \notin Doomed

(* A worker whose post was taken waits for the answer, and leaves no       *)
(* request of its own behind.                                              *)
Awaited(r) ==
    LET w == request[r].pc
        j == request[r].job
    IN w # "free" =>
         /\ worker[w].pc = "wait"
         /\ j = First(w)
         /\ [request[r].copy EXCEPT !.purged = row[j].purged] = row[j]
         /\ Folded(request[r].copy, request[r].new, j)
         /\ \A q \in Requests : request[q].pc = w => q = r

(* Only the job whose report is in, and taken, may have its answer: the    *)
(* rest of the batch is still as the poll found it.                        *)
Unanswered(w) ==
    \A j \in worker[w].todo :
        Answered(j) => worker[w].pc = "wait" /\ j = First(w) /\ ~Pending(w)

Capable(w) == worker[w].pc = "post" /\ worker[w].kind = "ran" => First(w) \notin Doomed

OrderInv == /\ \A j \in Jobs : Coherent(j)
            /\ \A r \in Requests : Awaited(r)
            /\ \A w \in Workers : Unanswered(w) /\ Capable(w)

(* Columns that still are what a session loaded take what it writes.       *)
LEMMA FlushOver ==
    ASSUME NEW copy \in Row, NEW new \in Row, NEW stored \in Row,
           [copy EXCEPT !.purged = stored.purged] = stored
    PROVE  Flush(copy, new, stored) = [new EXCEPT !.purged = stored.purged]
<1>1. /\ copy.status = stored.status /\ copy.error = stored.error
      /\ copy.tiers = stored.tiers /\ copy.score = stored.score
      /\ copy.manifest = stored.manifest
  BY DEF Row
<1> QED BY <1>1 DEF Flush, Written, Row

LEMMA IngestedColumns ==
    ASSUME NEW copy \in Row, NEW kind \in Kinds, NEW by \in Workers
    PROVE  LET new == Ingested(copy, [kind |-> kind, by |-> by])
           IN /\ new.status = copy.status
              /\ new.tiers.kind = kind
              /\ new.score = new.analysis
              /\ new.analysis.ran <=> kind = "ran"
<1> DEFINE report == [kind |-> kind, by |-> by]
           tiers == [copy.tiers EXCEPT !.kind = kind, !.by = by]
<1>1. Ingested(copy, report) =
        [copy EXCEPT !.tiers = tiers, !.analysis = Assessed(copy, report),
                     !.score = Assessed(copy, report), !.error = Reason(report)]
  BY DEF Ingested, Row, Tiers
<1>2. tiers.kind = kind
  BY DEF Row, Tiers
<1>3. Assessed(copy, report).ran <=> kind = "ran"
  BY DEF Assessed
<1> HIDE DEF report, tiers
<1>4. LET new == Ingested(copy, report)
      IN /\ new.status = copy.status
         /\ new.tiers = tiers
         /\ new.score = Assessed(copy, report)
         /\ new.analysis = Assessed(copy, report)
  BY <1>1 DEF Row
<1> QED BY <1>2, <1>3, <1>4 DEF report

LEMMA OrderInitially == Init => OrderInv
<1> SUFFICES ASSUME Init PROVE OrderInv
  OBVIOUS
<1>1. \A j \in Jobs : Coherent(j)
  BY DEF Init, Coherent, Analysed, Waiting
<1>2. \A r \in Requests : Awaited(r)
  BY DEF Init, Awaited, NoRequest
<1>3. \A w \in Workers : Unanswered(w) /\ Capable(w)
  BY DEF Init, Unanswered, Capable, IdleWorker
<1> QED BY <1>1, <1>2, <1>3 DEF OrderInv

(* Only a worker that waits has a request under way.                       *)
LEMMA Quiet ==
    ASSUME InOrder, TypeOK, OrderInv, NEW w \in Workers,
           worker[w].pc # "wait" \/ ~Pending(w)
    PROVE  \A r \in Requests : request[r].pc = "free"
<1> SUFFICES ASSUME NEW r \in Requests, request[r].pc # "free" PROVE FALSE
  OBVIOUS
<1>1. request[r].pc \in Workers
  BY DEF TypeOK, Ingests
<1>2. request[r].pc = w
  BY <1>1 DEF InOrder
<1>3. worker[w].pc = "wait"
  BY <1>2 DEF OrderInv, Awaited
<1> QED BY <1>2, <1>3 DEF Pending

LEMMA FirstKept ==
    ASSUME NEW w \in Workers, worker'[w].todo = worker[w].todo
    PROVE  First(w)' = First(w)
  BY Zenon DEF First

(* A step of the loop that posts nothing.                                  *)
LEMMA LoopKeepsOrder ==
    ASSUME InOrder, TypeOK, OrderInv, NEW w \in Workers, NEW l,
           worker[w].pc # "wait" \/ ~Pending(w),
           worker' = [worker EXCEPT ![w] = l], UNCHANGED <<row, run, request>>,
           \A j \in l.todo : ~Answered(j),
           l.pc = "post" /\ l.kind = "ran" => First(w)' \notin Doomed
    PROVE  OrderInv'
<1>1. worker'[w] = l
  BY DEF TypeOK
<1>2. \A r \in Requests : request'[r].pc = "free"
  BY Quiet
<1>3. \A r \in Requests : Awaited(r)'
  BY <1>2 DEF Awaited
<1>4. ASSUME NEW v \in Workers PROVE Unanswered(v)' /\ Capable(v)'
  <2>1. v = w
    BY DEF InOrder
  <2>2. Unanswered(w)'
    BY <1>1 DEF Unanswered, Answered
  <2>3. Capable(w)'
    BY <1>1 DEF Capable
  <2> QED BY <2>1, <2>2, <2>3
<1>5. \A j \in Jobs : Coherent(j)'
  BY DEF OrderInv, Coherent
<1> QED BY <1>3, <1>4, <1>5 DEF OrderInv

(* A worker that does not wait has answered none of its batch.             *)
LEMMA BatchOwed ==
    ASSUME OrderInv, NEW w \in Workers, worker[w].pc # "wait"
    PROVE  \A j \in worker[w].todo : ~Answered(j)
  BY DEF OrderInv, Unanswered

LEMMA AdvanceKeepsOrder ==
    ASSUME InOrder, TypeOK, OrderInv, NEW w \in Workers, Advance(w),
           worker[w].pc # "wait" \/ ~Pending(w), UNCHANGED <<row, run, request>>
    PROVE  OrderInv'
<1>1. \A j \in worker[w].todo : Answered(j) => j = First(w)
  BY DEF OrderInv, Unanswered
<1>2. CASE worker[w].todo = {First(w)}
  <2>1. worker' = [worker EXCEPT ![w] = IdleWorker]
    BY <1>2 DEF Advance
  <2>2. IdleWorker.todo = {} /\ IdleWorker.pc # "post"
    BY DEF IdleWorker
  <2> QED BY <2>1, <2>2, LoopKeepsOrder
<1>3. CASE worker[w].todo # {First(w)}
  <2> DEFINE l == [IdleWorker EXCEPT !.pc = "next", !.todo = worker[w].todo \ {First(w)},
                                     !.held = worker[w].held]
  <2>1. worker' = [worker EXCEPT ![w] = l]
    BY <1>3 DEF Advance, TypeOK
  <2>2. l.todo = worker[w].todo \ {First(w)} /\ l.pc # "post"
    BY DEF IdleWorker
  <2> HIDE DEF l
  <2> QED BY <1>1, <2>1, <2>2, LoopKeepsOrder
<1> QED BY <1>2, <1>3

LEMMA ReportsKeepsOrder ==
    ASSUME InOrder, TypeOK, OrderInv, NEW w \in Workers, NEW kind \in Kinds,
           worker[w].pc # "wait", worker' = Reports(w, kind),
           kind = "ran" => First(w) \notin Doomed, UNCHANGED <<row, run, request>>
    PROVE  OrderInv'
<1> DEFINE l == [worker[w] EXCEPT !.pc = "post", !.kind = kind]
<1>1. worker' = [worker EXCEPT ![w] = l]
  BY DEF Reports, TypeOK
<1>2. l.todo = worker[w].todo /\ l.kind = kind
  BY DEF TypeOK, Loops
<1> HIDE DEF l
<1>3. First(w)' = First(w)
  BY <1>1, <1>2, FirstKept DEF TypeOK
<1> QED BY <1>1, <1>2, <1>3, BatchOwed, LoopKeepsOrder

(* The request that a post opens is the only one, and holds what the row   *)
(* says now.                                                               *)
LEMMA PostKeepsOrder ==
    ASSUME InOrder, IInv, OrderInv, NEW w \in Workers, NEW r \in Requests, Post(w, r)
    PROVE  OrderInv'
<1> DEFINE j == First(w)
           report == [kind |-> worker[w].kind, by |-> w]
           entry == [pc |-> w, job |-> j, copy |-> row[j], new |-> Ingested(row[j], report)]
           l == [worker[w] EXCEPT !.pc = "wait", !.kind = "unavailable"]
<1>0. TypeOK
  BY DEF IInv
<1>1. /\ worker[w].pc = "post" /\ UNCHANGED <<row, run>>
      /\ request' = [request EXCEPT ![r] = entry]
      /\ worker' = [worker EXCEPT ![w] = l]
  BY <1>0 DEF Post, TypeOK
<1>2. worker[w] \in Loops /\ worker[w].todo # {}
  BY <1>1 DEF IInv, TypeOK, Busy
<1>3. l.todo = worker[w].todo /\ l.pc = "wait"
  BY <1>2 DEF Loops
<1>4. j \in Jobs /\ row[j] \in Row /\ worker[w].kind \in Kinds
  BY <1>0, <1>2, FirstOfSome DEF Loops, TypeOK
<1>5. entry.pc = w /\ entry.job = j /\ entry.copy = row[j]
      /\ entry.new = Ingested(row[j], report)
  OBVIOUS
<1>6. worker[w].kind = "ran" => j \notin Doomed
  BY <1>1 DEF OrderInv, Capable
<1>7. \A q \in Requests : request[q].pc = "free"
  BY <1>0, <1>1, Quiet
<1> HIDE DEF l, entry
<1>8. worker'[w] = l /\ request'[r] = entry
      /\ \A q \in Requests : q # r => request'[q] = request[q]
  BY <1>0, <1>1 DEF TypeOK
<1>9. First(w)' = j
  BY <1>3, <1>8, FirstKept
<1>10. w # "free"
  BY WorkersAssumption
<1> HIDE DEF j
<1>11. Awaited(r)'
  <2>1. [entry.copy EXCEPT !.purged = row[j].purged] = row[j]
    BY <1>4, <1>5 DEF Row
  <2>2. worker'[w].pc = "wait" /\ Folded(entry.copy, entry.new, j)
    BY <1>3, <1>4, <1>5, <1>6, <1>8, IngestedColumns DEF Folded
  <2>3. \A q \in Requests : request'[q].pc = w => q = r
    BY <1>7, <1>8, <1>10
  <2>4. request'[r].pc = w /\ request'[r].job = j
    BY <1>5, <1>8
  <2> QED BY <1>1, <1>8, <1>9, <2>1, <2>2, <2>3, <2>4 DEF Awaited
<1>12. \A q \in Requests : q # r => Awaited(q)'
  BY <1>7, <1>8 DEF Awaited
<1>13. Unanswered(w)' /\ Capable(w)'
  BY <1>1, <1>3, <1>8, BatchOwed DEF Unanswered, Answered, Capable
<1>14. \A i \in Jobs : Coherent(i)'
  BY <1>1 DEF OrderInv, Coherent
<1> QED BY <1>11, <1>12, <1>13, <1>14 DEF OrderInv, InOrder

(* The report on a row is folded in as its worker meant it: nothing wrote  *)
(* a column in between.                                                    *)
LEMMA IngestKeepsOrder ==
    ASSUME InOrder, IInv, OrderInv, NEW r \in Requests, Ingest(r)
    PROVE  /\ OrderInv'
           /\ request[r].job \in Jobs
           /\ ~Answered(request[r].job)
           /\ row'[request[r].job].purged = row[request[r].job].purged
           /\ row'[request[r].job].tiers.kind = "ran" => request[r].job \notin Doomed
<1> DEFINE w == request[r].pc
           j == request[r].job
           copy == request[r].copy
           new == request[r].new
<1>0. TypeOK
  BY DEF IInv
<1>1. /\ w # "free"
      /\ row' = [row EXCEPT ![j] = Flush(copy, new, row[j])]
      /\ request' = [request EXCEPT ![r] = NoRequest]
      /\ UNCHANGED <<run, worker>>
  BY DEF Ingest
<1>2. w \in Workers /\ copy \in Row /\ new \in Row
  BY <1>0, <1>1 DEF TypeOK, Ingests
<1>3. /\ worker[w].pc = "wait" /\ j = First(w)
      /\ [copy EXCEPT !.purged = row[j].purged] = row[j]
      /\ Folded(copy, new, j)
      /\ \A q \in Requests : request[q].pc = w => q = r
  BY <1>1 DEF OrderInv, Awaited
<1>4. worker[w] \in Loops /\ worker[w].todo # {}
  BY <1>2, <1>3 DEF IInv, TypeOK, Busy
<1>5. j \in worker[w].todo /\ j \in Jobs
  BY <1>2, <1>3, <1>4, FirstOfSome DEF Loops
<1>6. row[j] \in Row /\ row[j].purged \in BOOLEAN
  BY <1>0, <1>5 DEF TypeOK, Row
<1>7. Pending(w)
  BY DEF Pending
<1>8. ~Answered(j)
  BY <1>2, <1>5, <1>7 DEF OrderInv, Unanswered
<1>9. Flush(copy, new, row[j]) = [new EXCEPT !.purged = row[j].purged]
  BY <1>2, <1>3, <1>6, FlushOver
<1> DEFINE after == [new EXCEPT !.purged = row[j].purged]
<1>10. /\ after.status = copy.status
       /\ after.score = after.analysis
       /\ after.analysis.ran <=> after.tiers.kind = "ran"
       /\ after.tiers.kind = "ran" => j \notin Doomed
       /\ after.purged = row[j].purged
  BY <1>2, <1>3, <1>6 DEF Folded, Row
<1>11. copy.status = "completed"
  BY <1>2, <1>3, <1>5, <1>6 DEF OrderInv, Coherent, Row
<1>12. row' = [row EXCEPT ![j] = after]
  BY <1>1, <1>9
<1> HIDE DEF w, j, copy, new, after
<1>13. row'[j] = after /\ \A i \in Jobs : i # j => row'[i] = row[i]
  BY <1>0, <1>5, <1>12 DEF TypeOK
<1>14. \A i \in Jobs : Coherent(i)'
  BY <1>1, <1>5, <1>10, <1>11, <1>13 DEF OrderInv, Coherent
<1>15. \A q \in Requests : request'[q].pc = "free"
  <2> SUFFICES ASSUME NEW q \in Requests, q # r PROVE request[q].pc = "free"
    BY <1>0, <1>1 DEF TypeOK, NoRequest
  <2>1. request[q].pc # "free" => request[q].pc = w
    BY <1>0, <1>2 DEF TypeOK, Ingests, InOrder
  <2> QED BY <1>3, <2>1
<1>16. \A q \in Requests : Awaited(q)'
  BY <1>15 DEF Awaited
<1>17. ASSUME NEW v \in Workers PROVE Unanswered(v)' /\ Capable(v)'
  <2>1. v = w
    BY <1>2 DEF InOrder
  <2>2. First(v)' = First(v)
    BY <1>1, FirstKept
  <2>3. ~Pending(v)'
    BY <1>15, WorkersAssumption DEF Pending
  <2>4. \A i \in worker[v].todo : i # j => ~Answered(i)'
    <3> SUFFICES ASSUME NEW i \in worker[v].todo, i # j PROVE ~Answered(i)'
      OBVIOUS
    <3>1. ~Answered(i)
      BY <1>3, <2>1 DEF OrderInv, Unanswered
    <3>2. i \in Jobs
      BY <1>4, <2>1 DEF Loops
    <3> QED BY <1>13, <3>1, <3>2 DEF Answered
  <2>5. Unanswered(v)'
    BY <1>1, <1>3, <2>1, <2>2, <2>3, <2>4 DEF Unanswered
  <2>6. Capable(v)'
    BY <1>1, <1>3, <2>1 DEF Capable
  <2> QED BY <2>5, <2>6
<1>18. OrderInv'
  BY <1>14, <1>16, <1>17 DEF OrderInv
<1> QED BY <1>5, <1>8, <1>10, <1>13, <1>18 DEF j

LEMMA WorkerKeepsOrder ==
    ASSUME InOrder, IInv, OrderInv, NEW w \in Workers, WorkerStep(w)
    PROVE  OrderInv'
<1>0. TypeOK
  BY DEF IInv
<1>1. CASE Poll(w)
  <2>1. PICK held : worker' = [worker EXCEPT ![w] = [IdleWorker EXCEPT !.pc = "next",
                                                       !.todo = Offered, !.held = held]]
    BY <1>1 DEF Poll
  <2> DEFINE l == [IdleWorker EXCEPT !.pc = "next", !.todo = Offered, !.held = held]
  <2>2. l.todo = Offered /\ l.pc # "post"
    BY DEF IdleWorker
  <2>3. \A j \in Offered : ~Answered(j)
    BY DEF Offered, Oldest, NeedsDynamic, Answered
  <2> HIDE DEF l
  <2>4. worker[w].pc # "wait" /\ UNCHANGED <<row, run, request>>
    BY <1>1 DEF Poll
  <2> QED BY <1>0, <2>1, <2>2, <2>3, <2>4, LoopKeepsOrder DEF l
<1>2. CASE Hold(w)
  BY <1>0, <1>2, ReportsKeepsOrder DEF Hold, Kinds
<1>3. CASE Refuse(w)
  BY <1>0, <1>3, ReportsKeepsOrder DEF Refuse, Kinds
<1>4. CASE Detonate(w)
  BY <1>0, <1>4, ReportsKeepsOrder DEF Detonate
<1>5. CASE Fetch(w)
  <2>1. worker[w].pc = "next" /\ UNCHANGED <<row, run, request>>
    BY <1>5 DEF Fetch
  <2>2. CASE Advance(w)
    BY <1>0, <2>1, <2>2, AdvanceKeepsOrder
  <2>3. CASE worker' = [worker EXCEPT ![w].pc = "detonate"]
    <3> DEFINE l == [worker[w] EXCEPT !.pc = "detonate"]
    <3>1. worker' = [worker EXCEPT ![w] = l]
      BY <1>0, <2>3 DEF TypeOK
    <3>2. l.todo = worker[w].todo /\ l.pc # "post"
      BY <1>0 DEF TypeOK, Loops
    <3> HIDE DEF l
    <3> QED BY <1>0, <2>1, <3>1, <3>2, BatchOwed, LoopKeepsOrder
  <2> QED BY <1>5, <2>2, <2>3 DEF Fetch
<1>6. CASE Drop(w)
  BY <1>0, <1>6, AdvanceKeepsOrder DEF Drop
<1>7. CASE GiveUp(w)
  <2>1. ~Pending(w)
    BY <1>7 DEF GiveUp, InOrder, Pending
  <2> QED BY <1>0, <1>7, <2>1, AdvanceKeepsOrder DEF GiveUp
<1>8. CASE \E r \in Requests : Post(w, r)
  BY <1>8, PostKeepsOrder
<1> QED BY <1>1, <1>2, <1>3, <1>4, <1>5, <1>6, <1>7, <1>8 DEF WorkerStep

(* Without a re-analysis there is no run.                                  *)
LEMMA NoRuns ==
    ASSUME InOrder, TypeOK, OrderInv, NEW j \in Jobs
    PROVE  ~Reanalyze(j) /\ ~RunStep(j)
<1>1. run[j].pc = "none"
  BY DEF OrderInv, Coherent, NoRun
<1>2. ~Reanalyze(j)
  BY DEF Reanalyze, TypeOK, InOrder
<1> QED BY <1>1, <1>2 DEF RunStep, Load, Start, Finish, Fail

LEMMA PurgeKeepsOrder ==
    ASSUME InOrder, IInv, OrderInv, NEW j \in Jobs, Purge(j)
    PROVE  OrderInv'
<1> DEFINE after == [row[j] EXCEPT !.purged = TRUE]
<1>0. TypeOK /\ Busy
  BY DEF IInv
<1>1. row' = [row EXCEPT ![j] = after] /\ UNCHANGED <<run, request, worker>>
  BY <1>0 DEF Purge, TypeOK
<1>2. row[j] \in Row
  BY <1>0 DEF TypeOK
<1>3. /\ after.status = row[j].status /\ after.tiers = row[j].tiers
      /\ after.score = row[j].score /\ after.analysis = row[j].analysis
      /\ after.purged = TRUE
  BY <1>2 DEF Row
<1> HIDE DEF after
<1>4. row'[j] = after /\ \A i \in Jobs : i # j => row'[i] = row[i]
  BY <1>0, <1>1 DEF TypeOK
<1>5. \A i \in Jobs : Coherent(i)'
  BY <1>1, <1>3, <1>4 DEF OrderInv, Coherent
<1>6. ASSUME NEW r \in Requests PROVE Awaited(r)'
  <2> DEFINE i == request[r].job
             copy == request[r].copy
  <2> SUFFICES ASSUME request[r].pc # "free"
               PROVE  [copy EXCEPT !.purged = row'[i].purged] = row'[i]
                      /\ First(request[r].pc)' = First(request[r].pc)
    BY <1>1 DEF OrderInv, Awaited
  <2>1. request[r].pc \in Workers /\ copy \in Row
    BY <1>0 DEF TypeOK, Ingests
  <2>2. First(request[r].pc)' = First(request[r].pc)
    BY <1>1, <2>1, FirstKept
  <2>3. [copy EXCEPT !.purged = row[i].purged] = row[i]
    BY DEF OrderInv, Awaited
  <2>4. i \in Jobs
    <3>1. worker[request[r].pc].pc = "wait" /\ i = First(request[r].pc)
      BY DEF OrderInv, Awaited
    <3>2. worker[request[r].pc].todo \in SUBSET Jobs /\ worker[request[r].pc].todo # {}
      BY <1>0, <2>1, <3>1 DEF TypeOK, Busy, Loops
    <3> QED BY <2>1, <3>1, <3>2, FirstOfSome
  <2> HIDE DEF i, copy
  <2>5. [copy EXCEPT !.purged = row'[i].purged] = row'[i]
    <3>1. CASE i = j
      BY <1>2, <1>4, <2>1, <2>3, <3>1 DEF Row, after
    <3>2. CASE i # j
      BY <1>4, <2>3, <2>4, <3>2
    <3> QED BY <3>1, <3>2
  <2> QED BY <2>2, <2>5 DEF i, copy
<1>7. ASSUME NEW w \in Workers PROVE Unanswered(w)' /\ Capable(w)'
  <2>1. First(w)' = First(w)
    BY <1>1, FirstKept
  <2>2. worker[w].todo \subseteq Jobs
    BY <1>0 DEF TypeOK, Loops
  <2>3. \A i \in worker[w].todo : Answered(i)' <=> Answered(i)
    BY <1>3, <1>4, <2>2 DEF Answered
  <2>4. Pending(w)' <=> Pending(w)
    BY <1>1 DEF Pending
  <2> QED BY <1>1, <2>1, <2>3, <2>4 DEF OrderInv, Unanswered, Capable
<1> QED BY <1>5, <1>6, <1>7 DEF OrderInv

LEMMA StepKeepsOrder ==
    ASSUME InOrder, IInv, OrderInv, [Next]_vars
    PROVE  OrderInv'
<1>0. TypeOK
  BY DEF IInv
<1>1. CASE \E w \in Workers : WorkerStep(w)
  BY <1>1, WorkerKeepsOrder
<1>2. CASE \E r \in Requests : Ingest(r)
  BY <1>2, IngestKeepsOrder
<1>3. CASE \E j \in Jobs : Reanalyze(j) \/ RunStep(j) \/ Purge(j)
  BY <1>0, <1>3, NoRuns, PurgeKeepsOrder
<1>4. CASE Deploy
  <2>1. /\ UNCHANGED <<row, worker>> /\ run' = [j \in Jobs |-> NoRun]
        /\ request' = [r \in Requests |-> NoRequest]
    BY <1>4 DEF Deploy
  <2>2. \A j \in Jobs : Coherent(j)'
    BY <2>1 DEF OrderInv, Coherent
  <2>3. \A r \in Requests : request'[r].pc = "free"
    BY <2>1 DEF NoRequest
  <2>4. \A r \in Requests : Awaited(r)'
    BY <2>3 DEF Awaited
  <2>5. ASSUME NEW w \in Workers PROVE Unanswered(w)' /\ Capable(w)'
    <3>1. First(w)' = First(w)
      BY <2>1, FirstKept
    <3>2. ~Pending(w)'
      BY <2>3, WorkersAssumption DEF Pending
    <3> QED BY <2>1, <3>1, <3>2 DEF OrderInv, Unanswered, Capable, Answered
  <2> QED BY <2>2, <2>4, <2>5 DEF OrderInv
<1>5. CASE UNCHANGED vars
  <2>1. UNCHANGED <<row, run, request, worker>>
    BY <1>5 DEF vars
  <2>2. \A w \in Workers : First(w)' = First(w)
    BY <2>1, FirstKept
  <2>3. \A j \in Jobs : Coherent(j)'
    BY <2>1 DEF OrderInv, Coherent
  <2>4. ASSUME NEW r \in Requests PROVE Awaited(r)'
    <3> SUFFICES ASSUME request[r].pc # "free"
                 PROVE  First(request[r].pc)' = First(request[r].pc)
      BY <2>1 DEF OrderInv, Awaited
    <3>1. request[r].pc \in Workers
      BY <1>0 DEF TypeOK, Ingests
    <3> QED BY <2>1, <3>1, FirstKept
  <2>5. \A w \in Workers : Unanswered(w)' /\ Capable(w)'
    BY <2>1, <2>2 DEF OrderInv, Unanswered, Capable, Answered, Pending
  <2> QED BY <2>3, <2>4, <2>5 DEF OrderInv
<1> QED BY <1>1, <1>2, <1>3, <1>4, <1>5 DEF Next

-----------------------------------------------------------------------------
(* What a coherent row says of its detonation.                             *)
Told(j) == CASE row[j].tiers.kind = "ran" -> "ran"
             [] row[j].tiers.kind = "refused" -> "refused"
             [] OTHER -> IF row[j].purged THEN "lapsed" ELSE "owed"

LEMMA OutcomeTold == TypeOK /\ OrderInv => \A j \in Jobs : Outcome(j) = Told(j)
<1> SUFFICES ASSUME TypeOK, OrderInv, NEW j \in Jobs PROVE Outcome(j) = Told(j)
  OBVIOUS
<1>1. Coherent(j)
  BY DEF OrderInv
<1> DEFINE b == row[j].tiers.kind = "ran"
           says == {row[j].tiers.kind = "ran", row[j].analysis.ran, row[j].score.ran}
<1>2. row[j].analysis.ran = b /\ row[j].score.ran = b
  <2>1. row[j].analysis.ran \in BOOLEAN /\ row[j].score = row[j].analysis
    BY <1>1 DEF TypeOK, Row, Evidence, Coherent
  <2>2. row[j].analysis.ran <=> b
    BY <1>1 DEF Coherent
  <2> QED BY <2>1, <2>2
<1>3. says = {b}
  BY <1>2
<1>4. Cardinality(says) # 2
  <2>1. Cardinality(says) = 1
    BY <1>3, FS_Singleton, Zenon
  <2> HIDE DEF says
  <2> QED BY <2>1
<1>5. says = {TRUE} <=> b
  BY <1>3
<1>6. ScoreAgrees(j) /\ row[j].status = "completed"
  BY <1>1 DEF ScoreAgrees, Coherent
<1> HIDE DEF says
<1>7. Outcome(j) = CASE ~ScoreAgrees(j) \/ Cardinality(says) = 2 -> "contradicts itself"
                     [] says = {TRUE} -> "ran"
                     [] row[j].tiers.kind = "refused" -> "refused"
                     [] OTHER -> IF row[j].purged \/ row[j].status # "completed"
                                 THEN "lapsed" ELSE "owed"
  BY DEF Outcome, says
<1>8. CASE b
  BY <1>4, <1>5, <1>6, <1>7, <1>8 DEF Told
<1>9. CASE row[j].tiers.kind = "refused"
  BY <1>4, <1>5, <1>6, <1>7, <1>9 DEF Told
<1>10. CASE ~b /\ row[j].tiers.kind # "refused"
  BY <1>4, <1>5, <1>6, <1>7, <1>10 DEF Told
<1> QED BY <1>8, <1>9, <1>10

(* A step moves what one row says as Detonation allows, or not at all.     *)
LEMMA OrderStep ==
    ASSUME InOrder, IInv, OrderInv, [Next]_vars,
           \A j \in Jobs : Outcome(j) = Told(j) /\ Outcome(j)' = Told(j)'
    PROVE  [Promise!Next]_([j \in Jobs |-> Outcome(j)])
<1> DEFINE outcome == [j \in Jobs |-> Outcome(j)]
<1>0. TypeOK
  BY DEF IInv
<1>1. ASSUME UNCHANGED row PROVE UNCHANGED outcome
  BY <1>1 DEF Told
<1>2. ASSUME NEW j \in Jobs, \A i \in Jobs : i # j => row'[i] = row[i]
      PROVE  /\ outcome[j] = Told(j) /\ outcome'[j] = Told(j)'
             /\ outcome' = [outcome EXCEPT ![j] = Told(j)']
  BY <1>2 DEF Told
<1>3. CASE \E w \in Workers : WorkerStep(w)
  <2>1. UNCHANGED row
    BY <1>3 DEF WorkerStep, Poll, Hold, Refuse, Fetch, Detonate, Drop, GiveUp, Post
  <2> QED BY <1>1, <2>1
<1>4. ASSUME NEW r \in Requests, Ingest(r) PROVE Promise!Next \/ UNCHANGED outcome
  <2>1. PICK j \in Jobs : /\ j = request[r].job
                          /\ ~Answered(j)
                          /\ row'[j].purged = row[j].purged
                          /\ row'[j].tiers.kind = "ran" => j \notin Doomed
    BY <1>4, IngestKeepsOrder
  <2>2. \A i \in Jobs : i # j => row'[i] = row[i]
    BY <1>0, <1>4, <2>1 DEF Ingest, TypeOK
  <2>3. /\ outcome[j] = Told(j) /\ outcome'[j] = Told(j)'
        /\ outcome' = [outcome EXCEPT ![j] = Told(j)']
    BY <1>2, <2>1, <2>2
  <2>4. Told(j) \in {"owed", "lapsed"}
    BY <2>1 DEF Told, Answered
  <2> HIDE DEF outcome
  <2>5. CASE row'[j].tiers.kind \in {"ran", "refused"}
    <3>1. Told(j)' = row'[j].tiers.kind
      BY <2>5 DEF Told
    <3>2. Promise!Answer(j, Told(j)')
      BY <2>1, <2>3, <2>4, <3>1 DEF Promise!Answer, outcome
    <3> QED BY <2>1, <2>5, <3>1, <3>2 DEF Promise!Next, Promise!Settle
  <2>6. CASE row'[j].tiers.kind \notin {"ran", "refused"}
    <3>1. Told(j)' = Told(j)
      BY <2>1, <2>6 DEF Told, Answered
    <3> QED BY <2>3, <3>1 DEF outcome
  <2> QED BY <2>5, <2>6
<1>5. ASSUME NEW j \in Jobs, Purge(j) PROVE Promise!Next \/ UNCHANGED outcome
  <2>1. /\ \A i \in Jobs : i # j => row'[i] = row[i]
        /\ ~row[j].purged /\ row'[j].purged /\ row'[j].tiers = row[j].tiers
    BY <1>0, <1>5 DEF Purge, TypeOK, Row
  <2>2. /\ outcome[j] = Told(j) /\ outcome'[j] = Told(j)'
        /\ outcome' = [outcome EXCEPT ![j] = Told(j)']
    BY <1>2, <2>1
  <2> HIDE DEF outcome
  <2>3. CASE Answered(j)
    <3>1. Told(j)' = Told(j)
      BY <2>1, <2>3 DEF Told, Answered
    <3> QED BY <2>2, <3>1 DEF outcome
  <2>4. CASE ~Answered(j)
    <3>1. Told(j) = "owed" /\ Told(j)' = "lapsed"
      BY <2>1, <2>4 DEF Told, Answered
    <3>2. Promise!Lapse(j)
      BY <2>2, <3>1 DEF Promise!Lapse, outcome
    <3> QED BY <3>2 DEF Promise!Next, Promise!Settle
  <2> QED BY <2>3, <2>4
<1>6. CASE Deploy
  BY <1>1, <1>6 DEF Deploy
<1>7. CASE UNCHANGED vars
  BY <1>1, <1>7 DEF vars
<1> QED BY <1>0, <1>3, <1>4, <1>5, <1>6, <1>7, NoRuns DEF Next

(* Whatever fails on the way, and whatever is purged meanwhile, each row   *)
(* is owed a detonation until it has one answer, which is final, and a     *)
(* sample that crashes every engine is never said to have run              *)
(* (ingest_report, /queue, run_once): the safety of the property           *)
(* Implements, whose liveness only the runs check.                         *)
THEOREM AnswersInOrder == InOrder => (Spec => Promise!Orderly)
<1> SUFFICES ASSUME InOrder PROVE Spec => Promise!Orderly
  OBVIOUS
<1> DEFINE outcome == [j \in Jobs |-> Outcome(j)]
<1>1. Init => IInv /\ OrderInv
  BY Initially, OrderInitially
<1>2. IInv /\ OrderInv /\ [Next]_vars => (IInv /\ OrderInv)'
  BY Steps, StepKeepsOrder
<1>3. Init => Promise!Init
  <2> SUFFICES ASSUME Init, NEW j \in Jobs PROVE Outcome(j) = "owed"
    BY DEF Promise!Init
  <2>1. Outcome(j) = Told(j)
    BY <1>1, OutcomeTold DEF IInv
  <2>2. Told(j) = "owed"
    BY DEF Told, Init, Analysed, Waiting
  <2> QED BY <2>1, <2>2
<1>4. IInv /\ OrderInv => \A j \in Jobs : Outcome(j) = Told(j)
  BY OutcomeTold DEF IInv
<1>5. /\ IInv /\ OrderInv /\ [Next]_vars
      /\ \A j \in Jobs : Outcome(j) = Told(j)
      /\ (\A j \in Jobs : Outcome(j) = Told(j))'
      => [Promise!Next]_outcome
  BY OrderStep
<1> QED BY <1>1, <1>2, <1>3, <1>4, <1>5, PTL DEF Spec, Promise!Orderly
=============================================================================
