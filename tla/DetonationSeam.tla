--------------------------- MODULE DetonationSeam ---------------------------
(***************************************************************************)
(* The seam between the service and its detonation workers: the queue of   *)
(* api/dynamic.py that leases nothing, the loop of worker/agent.py, the    *)
(* report that ingest_report folds into the job row, and the re-analysis   *)
(* that pipeline.run makes of the same row meanwhile.                      *)
(*                                                                         *)
(* Sessions meet as in JobLifecycle: a flush writes the columns that       *)
(* differ from the copy the session loaded and waits for the row lock,     *)
(* which a run holds from its first flush to its commit.  A column here is *)
(* a JSON column of the table; what a document was computed from stands    *)
(* for the document.  Rules are compiled once per process, so a new        *)
(* version of the engine is a restart.                                     *)
(***************************************************************************)
EXTENDS Naturals, FiniteSets

CONSTANTS Jobs,           \* jobs of a detonable family, once analysed; by age
          Unsupported,    \* those whose family no engine of the workers takes
          Doomed,         \* those that crash the engine whenever they are run
          Workers,        \* worker hosts, sharing one token
          Nobody,         \* no worker
          Requests,       \* report requests served at once
          Limit,          \* QUEUE_LIMIT
          Ceiling,        \* SCAN_CEILING, in rows
          MaxRules,       \* bound: engine versions deployed
          MaxReanalyses,  \* bound: re-analyses asked for
          Faults          \* what may go wrong: see FaultsAssumption

ASSUME JobsAssumption == Jobs \subseteq Nat /\ IsFiniteSet(Jobs)
ASSUME WorkersAssumption == Workers \cap {Nobody, "free"} = {}
ASSUME BoundsAssumption == /\ {Limit, Ceiling, MaxReanalyses} \subseteq Nat
                           /\ MaxRules \in Nat \ {0}

(* "lost": a post lost, or not answered in time; "blocked": a containment  *)
(* check that fails; "declined": a sandbox that declines the sample;       *)
(* "raised": an analysis that raises; "purged": bytes past retention.      *)
ASSUME FaultsAssumption == Faults \subseteq {"lost", "blocked", "declined", "raised", "purged"}

VARIABLES row,         \* row[j]: the committed row
          run,         \* run[j]: the re-analysis of j
          request,     \* request[r]: a report being ingested
          worker,      \* worker[w]: where a worker's loop stands
          rules,       \* the version of the engine the process runs
          reanalyses   \* counter for the bound

vars == <<row, run, request, worker, rules, reanalyses>>

Kinds == {"ran", "unavailable", "refused"}
Report == [kind : Kinds, by : Workers]

(* tiers: the gaps recorded for the static tier, and the dynamic tier.     *)
Tiers == [rules : 1..MaxRules, kind : Kinds \cup {"waiting"}, by : Workers \cup {Nobody}]

(* What a document was computed from: a static pass, and a detonation?     *)
Evidence == [rules : 1..MaxRules, ran : BOOLEAN]

Row == [status : {"queued", "running", "completed", "failed"},
        error : {"none", "refusal", "failure"}, tiers : Tiers,
        analysis : Evidence, score : Evidence, manifest : 1..MaxRules,
        purged : BOOLEAN]

(* _tier_record                                                            *)
Waiting(version) == [rules |-> version, kind |-> "waiting", by |-> Nobody]

(* A row as the first run of its job leaves it.                            *)
Analysed == [status |-> "completed", error |-> "none", tiers |-> Waiting(1),
             analysis |-> [rules |-> 1, ran |-> FALSE],
             score |-> [rules |-> 1, ran |-> FALSE], manifest |-> 1, purged |-> FALSE]

NoRun == [pc |-> "none", copy |-> Analysed, draft |-> Analysed]
NoRequest == [pc |-> "free", job |-> 0, copy |-> Analysed, new |-> Analysed]
IdleWorker == [pc |-> "idle", todo |-> {}, held |-> FALSE, kind |-> "unavailable"]

Init == /\ row = [j \in Jobs |-> Analysed]
        /\ run = [j \in Jobs |-> NoRun]
        /\ request = [r \in Requests |-> NoRequest]
        /\ worker = [w \in Workers |-> IdleWorker]
        /\ rules = 1
        /\ reanalyses = 0

Unlocked(j) == run[j].pc # "running"

Written(loaded, now, stored) == IF now = loaded THEN stored ELSE now

(* analysis is written always: it holds the durations of the static pass.  *)
Flush(loaded, now, stored) ==
    [status   |-> Written(loaded.status, now.status, stored.status),
     error    |-> Written(loaded.error, now.error, stored.error),
     tiers    |-> Written(loaded.tiers, now.tiers, stored.tiers),
     analysis |-> now.analysis,
     score    |-> Written(loaded.score, now.score, stored.score),
     manifest |-> Written(loaded.manifest, now.manifest, stored.manifest),
     purged   |-> stored.purged]

-----------------------------------------------------------------------------
(* GET /queue.                                                             *)

NeedsDynamic(j) == /\ row[j].tiers.kind \notin {"ran", "refused"}
                   /\ row[j].status = "completed"
                   /\ ~row[j].purged

Oldest(S, n) == {j \in S : Cardinality({i \in S : i < j}) < n}

(* The scan reads the oldest completed rows, whether they need it or not.  *)
Offered == LET scanned == Oldest({j \in Jobs : row[j].status = "completed"}, Ceiling)
           IN Oldest({j \in scanned : NeedsDynamic(j)}, Limit)

-----------------------------------------------------------------------------
(* The worker.                                                             *)

First(w) == CHOOSE j \in worker[w].todo : \A i \in worker[w].todo : j <= i

(* On to the next job of the batch, or back to the poll.                   *)
Advance(w) == worker' = [worker EXCEPT ![w] =
                IF @.todo = {First(w)} THEN IdleWorker
                ELSE [IdleWorker EXCEPT !.pc = "next",
                                        !.todo = worker[w].todo \ {First(w)},
                                        !.held = worker[w].held]]

(* run_once, down to the containment gate.                                 *)
Poll(w) ==
    /\ worker[w].pc = "idle"
    /\ Offered # {}
    /\ \E held \in ({FALSE} \cup {f \in {TRUE} : "blocked" \in Faults}) :
         worker' = [worker EXCEPT ![w] = [IdleWorker EXCEPT !.pc = "next",
                                            !.todo = Offered, !.held = held]]
    /\ UNCHANGED <<row, run, request, rules, reanalyses>>

Reports(w, kind) == [worker EXCEPT ![w].pc = "post", ![w].kind = kind]

(* Mutated: a family no engine takes is skipped in silence.                *)
RefuseSilently(w) ==
    /\ worker[w].pc = "next"
    /\ ~worker[w].held
    /\ First(w) \in Unsupported
    /\ Advance(w)
    /\ UNCHANGED <<row, run, request, rules, reanalyses>>

(* _report_blocked, and the refusal of process_job.                        *)
Hold(w) ==
    /\ worker[w].pc = "next"
    /\ worker[w].held
    /\ worker' = Reports(w, "unavailable")
    /\ UNCHANGED <<row, run, request, rules, reanalyses>>

Refuse(w) ==
    /\ worker[w].pc = "next"
    /\ ~worker[w].held
    /\ First(w) \in Unsupported
    /\ worker' = Reports(w, "refused")
    /\ UNCHANGED <<row, run, request, rules, reanalyses>>

(* GET /sample/{id}: 410 when the bytes are gone, and the job is dropped.  *)
Fetch(w) ==
    /\ worker[w].pc = "next"
    /\ ~worker[w].held
    /\ First(w) \notin Unsupported
    /\ IF row[First(w)].purged THEN Advance(w)
                               ELSE worker' = [worker EXCEPT ![w].pc = "detonate"]
    /\ UNCHANGED <<row, run, request, rules, reanalyses>>

(* _run_engine: a crash is an honest ran=False.                            *)
Detonate(w) ==
    /\ worker[w].pc = "detonate"
    /\ \E kind \in Kinds : /\ kind = "ran" => First(w) \notin Doomed
                           /\ kind = "refused" => "declined" \in Faults /\ First(w) \notin Doomed
                           /\ worker' = Reports(w, kind)
    /\ UNCHANGED <<row, run, request, rules, reanalyses>>

(* The post is answered 409, or does not arrive, and is only logged.       *)
Drop(w) ==
    /\ worker[w].pc = "post"
    /\ "lost" \in Faults \/ row[First(w)].status # "completed"
    /\ Advance(w)
    /\ UNCHANGED <<row, run, request, rules, reanalyses>>

(* HTTP_TIMEOUT_SECONDS pass, or the service restarts: the worker moves on.*)
GiveUp(w) ==
    /\ worker[w].pc = "wait"
    /\ "lost" \in Faults \/ \A r \in Requests : request[r].pc # w
    /\ Advance(w)
    /\ UNCHANGED <<row, run, request, rules, reanalyses>>

-----------------------------------------------------------------------------
(* POST /report/{id}.                                                      *)

(* The static tier is run again if the bytes are there; every older        *)
(* dynamic entry is dropped and this one added.                            *)
Assessed(copy, report) == [rules |-> IF copy.purged THEN copy.analysis.rules ELSE rules,
                           ran |-> report.kind = "ran"]

Reason(report) == IF report.kind = "refused" THEN "refusal" ELSE "none"

(* Mutated: the score is assessed before the detonation is added.          *)
IngestedOldScore(copy, report) ==
    [copy EXCEPT !.tiers.kind = report.kind, !.tiers.by = report.by,
                 !.analysis = Assessed(copy, report), !.error = Reason(report)]

Ingested(copy, report) ==
    [copy EXCEPT !.tiers.kind = report.kind, !.tiers.by = report.by,
                 !.analysis = Assessed(copy, report), !.score = Assessed(copy, report),
                 !.error = Reason(report)]

(* The request is taken: the row is loaded and the new one computed.       *)
Post(w, r) ==
    LET j == First(w)
    IN /\ worker[w].pc = "post"
       /\ request[r].pc = "free"
       /\ row[j].status = "completed"
       /\ request' = [request EXCEPT ![r] =
            [pc |-> w, job |-> j, copy |-> row[j],
             new |-> Ingested(row[j], [kind |-> worker[w].kind, by |-> w])]]
       /\ worker' = [worker EXCEPT ![w].pc = "wait", ![w].kind = "unavailable"]
       /\ UNCHANGED <<row, run, rules, reanalyses>>

(* The flush, once the row is free, and the commit.                        *)
Ingest(r) ==
    LET j == request[r].job
    IN /\ request[r].pc # "free"
       /\ Unlocked(j)
       /\ row' = [row EXCEPT ![j] = Flush(request[r].copy, request[r].new, @)]
       /\ request' = [request EXCEPT ![r] = NoRequest]
       /\ UNCHANGED <<run, worker, rules, reanalyses>>

-----------------------------------------------------------------------------
(* Re-analysis.                                                            *)

(* The claim of POST /reanalyze; a row the restart sweep marked is free.   *)
Reanalyze(j) ==
    /\ reanalyses < MaxReanalyses
    /\ row[j].status # "queued" \/ run[j].pc = "none"
    /\ Unlocked(j)
    /\ row' = [row EXCEPT ![j].status = "queued"]
    /\ run' = [run EXCEPT ![j].pc = "queued"]
    /\ reanalyses' = reanalyses + 1
    /\ UNCHANGED <<request, worker, rules>>

Load(j) ==
    /\ run[j].pc = "queued"
    /\ run' = [run EXCEPT ![j].pc = "loaded", ![j].copy = row[j]]
    /\ UNCHANGED <<row, request, worker, rules, reanalyses>>

Started(copy) == [copy EXCEPT !.status = "running", !.error = "none"]

(* The first flush, which leaves analysis and the rest as they are.        *)
Start(j) ==
    /\ run[j].pc = "loaded"
    /\ LET c == Started(run[j].copy)
       IN run' = [run EXCEPT ![j] =
            [pc |-> "running", copy |-> c,
             draft |-> [Flush(run[j].copy, c, row[j]) EXCEPT !.analysis = row[j].analysis]]]
    /\ UNCHANGED <<row, request, worker, rules, reanalyses>>

(* A detonation, or a refusal, that the loaded row holds is carried over.  *)
CarriedTiers(c) ==
    CASE c.tiers.kind = "ran" /\ c.analysis.ran ->
           [Waiting(rules) EXCEPT !.kind = "ran", !.by = c.tiers.by]
      [] c.tiers.kind = "refused" -> [Waiting(rules) EXCEPT !.kind = "refused"]
      [] OTHER -> Waiting(rules)

(* Mutated: the stored analysis is not read again before it is written.    *)
MergedAnalysisLoaded(c, stored) == [rules |-> rules, ran |-> c.analysis.ran]

(* The dynamic entries of the loaded row, and of the row as it is now.     *)
MergedAnalysis(c, stored) ==
    [rules |-> rules, ran |-> c.analysis.ran \/ stored.analysis.ran]

Reanalysed(c, stored) ==
    [c EXCEPT !.status = "completed",
              !.error = IF c.tiers.kind = "refused" THEN "refusal" ELSE "none",
              !.tiers = CarriedTiers(c),
              !.analysis = MergedAnalysis(c, stored),
              !.score = [rules |-> rules, ran |-> c.analysis.ran],
              !.manifest = rules]

EndRun(j, new) ==
    /\ row' = [row EXCEPT ![j] = new]
    /\ run' = [run EXCEPT ![j] = NoRun]
    /\ UNCHANGED <<request, worker, rules, reanalyses>>

Finish(j) ==
    /\ run[j].pc = "running"
    /\ ~row[j].purged
    /\ LET c == run[j].copy
           stored == run[j].draft
       IN EndRun(j, Flush(c, Reanalysed(c, stored), stored))

(* A stage raises; identify does when the bytes are gone.                  *)
Fail(j) ==
    /\ run[j].pc = "running"
    /\ "raised" \in Faults \/ row[j].purged
    /\ EndRun(j, [run[j].draft EXCEPT !.status = "failed", !.error = "failure"])

-----------------------------------------------------------------------------
(* Retention, and the restart with a new version.                          *)

Purge(j) ==
    /\ "purged" \in Faults
    /\ ~row[j].purged
    /\ Unlocked(j)
    /\ row' = [row EXCEPT ![j].purged = TRUE]
    /\ UNCHANGED <<run, request, worker, rules, reanalyses>>

Deploy ==
    /\ rules < MaxRules
    /\ rules' = rules + 1
    /\ run' = [j \in Jobs |-> NoRun]
    /\ request' = [r \in Requests |-> NoRequest]
    /\ UNCHANGED <<row, worker, reanalyses>>

-----------------------------------------------------------------------------
WorkerStep(w) ==
    \/ Poll(w) \/ Hold(w) \/ Refuse(w) \/ Fetch(w) \/ Detonate(w)
    \/ Drop(w) \/ GiveUp(w) \/ \E r \in Requests : Post(w, r)

RunStep(j) == Load(j) \/ Start(j) \/ Finish(j) \/ Fail(j)

Next == \/ \E w \in Workers : WorkerStep(w)
        \/ \E r \in Requests : Ingest(r)
        \/ \E j \in Jobs : Reanalyze(j) \/ RunStep(j) \/ Purge(j)
        \/ Deploy

Spec == Init /\ [][Next]_vars

(* Loops keep moving and runs end.  A containment check and an engine that *)
(* fail do not fail every time, and a post is not lost every time.         *)
Fairness ==
    /\ \A w \in Workers : /\ WF_vars(WorkerStep(w))
                          /\ SF_vars(Poll(w) /\ ~worker'[w].held)
    /\ \A w \in Workers, j \in Jobs :
          /\ SF_vars(Detonate(w) /\ First(w) = j /\ worker'[w].kind = "ran")
          /\ SF_vars(/\ worker[w].kind # "unavailable"
                     /\ First(w) = j
                     /\ \E r \in Requests : Post(w, r))
    /\ \A r \in Requests : WF_vars(Ingest(r))
    /\ \A j \in Jobs : WF_vars(RunStep(j))

FairSpec == Spec /\ Fairness

-----------------------------------------------------------------------------
(* Properties.                                                             *)

Sessions == [pc : {"none", "queued", "loaded", "running"}, copy : Row, draft : Row]
Ingests == [pc : Workers \cup {"free"}, job : Jobs \cup {0}, copy : Row, new : Row]
Loops == [pc : {"idle", "next", "detonate", "post", "wait"}, todo : SUBSET Jobs,
          held : BOOLEAN, kind : Kinds]

TypeOK == /\ row \in [Jobs -> Row]
          /\ run \in [Jobs -> Sessions]
          /\ request \in [Requests -> Ingests]
          /\ worker \in [Workers -> Loops]
          /\ rules \in 1..MaxRules
          /\ reanalyses \in Nat

(* A re-analysis never removes the evidence of a detonation: one that is   *)
(* on the row when the run ends is on it afterwards, whoever reported it   *)
(* and whenever (the merge at the end of pipeline.run).                    *)
EvidenceSurvivesRun ==
    [][\A j \in Jobs : run[j].pc = "running" /\ run'[j].pc = "none"
          /\ row[j].analysis.ran => row'[j].analysis.ran]_vars

(* A re-analysis does not take tiers.dynamic.ran back to false (its merge).*)
RunKeepsDetonation ==
    [][\A j \in Jobs : run[j].pc = "running" /\ row[j].tiers.kind = "ran"
          => row'[j].tiers.kind = "ran"]_vars

(* The queue drains: whatever is before it - samples that crash the engine *)
(* each time, samples no engine takes, a host that is not contained - each *)
(* other job is detonated, refused, purged or failed in the end.           *)
BacklogDrains ==
    \A j \in Jobs \ Doomed : NeedsDynamic(j) ~> ~NeedsDynamic(j)
-----------------------------------------------------------------------------
(* The seam implements Detonation, as long as nothing analyses a row anew  *)
(* and no two reports of one job are under way.                            *)

(* The score of a completed row is that of the evidence it shows.          *)
ScoreAgrees(j) == row[j].status = "completed" => row[j].score = row[j].analysis

(* A row counts as detonated when its tiers, its analysis and its score    *)
(* say so; when they contradict one another it is in no state of Detonation*)
Outcome(j) ==
    LET says == {row[j].tiers.kind = "ran", row[j].analysis.ran, row[j].score.ran}
    IN CASE ~ScoreAgrees(j) \/ Cardinality(says) = 2 -> "contradicts itself"
         [] says = {TRUE} -> "ran"
         [] row[j].tiers.kind = "refused" -> "refused"
         [] OTHER -> IF row[j].purged \/ row[j].status # "completed" THEN "lapsed" ELSE "owed"

Promise == INSTANCE Detonation WITH outcome <- [j \in Jobs |-> Outcome(j)]

(* Whatever fails on the way - a containment check, an engine, a sandbox   *)
(* that declines, bytes that are purged while they are being run - each row*)
(* goes through the states of Detonation and gets its answer.              *)
Implements == Promise!Spec

=============================================================================
