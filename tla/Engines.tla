------------------------------ MODULE Engines -------------------------------
(***************************************************************************)
(* What a worker does with the jobs of one poll: the engine it chooses for *)
(* a sample, the thread pool the attempts share, the task an attempt makes *)
(* on an external sandbox and follows to its end (worker/agent.py and      *)
(* worker/engines/), and the report that comes of it.                      *)
(*                                                                         *)
(* The sandboxes are modelled by what the engines read of them: a task has *)
(* a status, and a machine once it was started.  A request that fails and  *)
(* is simply made again at the next poll changes nothing and is no step.   *)
(***************************************************************************)
EXTENDS SandboxReport, TLC

CONSTANTS Jobs,        \* jobs that wait for a detonation
          Worlds,      \* hosts and samples that occur: see WorldsAssumption
          Documents,   \* what an external sandbox may report
          Typical,     \* one of them
          Threads,     \* MAX_CONCURRENT_JOBS
          MaxTasks     \* bound: tasks ever made

External == {"cuckoo", "capev2", "joe"}

(* fits: whether the sandbox can run the sample and report on it.          *)
Sample == [family : {"pe", "elf", "script", "other"},
           fits : {"served", "declined", "misfit", "unreportable", "malformed"}]

(* Where an engine is: not configured, at an address that names this       *)
(* network without a look-up, or anywhere else.                            *)
Url == {"none", "inside", "outside"}

Host == [installed : SUBSET {"firejail", "strace", "qiling", "rootfs"},
         url : [External -> Url], sovereign : BOOLEAN]

ASSUME WorldsAssumption ==
    \A world \in Worlds : /\ world.host \in Host
                          /\ world.sample \in [Jobs -> Sample]
                          /\ world.anything \in BOOLEAN
                          /\ world.faults \in Nat   \* bound: what goes wrong
ASSUME DocumentsAssumption == Documents \subseteq Document /\ Typical \in Document
ASSUME EnginesBounds == {Threads, MaxTasks} \subseteq Nat \ {0}

VARIABLES world,     \* the host, the samples; do all the documents occur?
          stored,    \* stored[j]: what the service holds of j, and of whom that tells
          batch,     \* jobs of the poll no thread has taken yet
          attempt,   \* attempt[j]: where the thread that took j stands
          tasks,     \* the tasks of the external sandboxes
          faults     \* history: faults[j]: what went wrong about j

enginesVars == <<world, stored, batch, attempt, tasks, faults>>

Waiting == [kind |-> "waiting", of |-> "nothing"]
Unavailable == [kind |-> "unavailable", of |-> "nothing", found |-> NoFindings]
Refused == [kind |-> "refused", of |-> "nothing", found |-> NoFindings]
Ran(of, found) == [kind |-> "ran", of |-> of, found |-> found]

NoAttempt == [pc |-> "none", engine |-> "none", task |-> 0, report |-> Unavailable]

Init == /\ world \in Worlds
        /\ stored = [j \in Jobs |-> Waiting]
        /\ batch = {}
        /\ attempt = [j \in Jobs |-> NoAttempt]
        /\ tasks = <<>>
        /\ faults = [j \in Jobs |-> 0]

Faulted(hit) == /\ FoldFunction(+, 0, faults) + Cardinality(hit) <= world.faults
                /\ faults' = [j \in Jobs |-> faults[j] + IF j \in hit THEN 1 ELSE 0]

-----------------------------------------------------------------------------
(* The engines of this host, in the order _build_engines lists them.       *)

Order == <<"native", "qiling", "cuckoo", "capev2", "joe">>

RefusedBySovereignMode(engine) == /\ world.host.url[engine] = "outside"
                                  /\ world.host.sovereign

Available(engine) ==
    CASE engine = "native" -> {"firejail", "strace"} \subseteq world.host.installed
      [] engine = "qiling" -> "qiling" \in world.host.installed
      [] OTHER             -> /\ world.host.url[engine] # "none"
                              /\ ~RefusedBySovereignMode(engine)

Supports(engine, family) == CASE engine = "native" -> family = "elf"
                              [] engine = "qiling" -> family \in {"pe", "elf"}
                              [] OTHER             -> family # "other"

ChooseEngine(j) ==
    LET able == {i \in DOMAIN Order : /\ Available(Order[i])
                                      /\ Supports(Order[i], world.sample[j].family)}
    IN IF able = {} THEN "none" ELSE Order[Min(able)]

-----------------------------------------------------------------------------
(* agent.py.                                                               *)

Active == {j \in Jobs : attempt[j].pc # "none"}

RunOnce ==
    /\ batch = {} /\ Active = {}
    /\ batch' = {j \in Jobs : stored[j] = Waiting}
    /\ batch' # {}
    /\ UNCHANGED <<world, stored, attempt, tasks, faults>>

(* A thread takes the next job and downloads its sample.                   *)
ProcessJob(j) ==
    /\ j \in batch
    /\ Cardinality(Active) < Threads
    /\ batch' = batch \ {j}
    /\ LET engine == ChooseEngine(j)
       IN attempt' = [attempt EXCEPT ![j] =
            IF engine = "none" THEN [NoAttempt EXCEPT !.pc = "deliver", !.report = Refused]
                               ELSE [NoAttempt EXCEPT !.pc = "run", !.engine = engine]]
    /\ UNCHANGED <<world, stored, tasks, faults>>

(* The download fails: no report is made, and the job stays in the queue.  *)
DownloadFails(j) ==
    /\ attempt[j].pc = "run"
    /\ Faulted({j})
    /\ attempt' = [attempt EXCEPT ![j] = NoAttempt]
    /\ UNCHANGED <<world, stored, batch, tasks>>

Reports(j, report) ==
    attempt' = [attempt EXCEPT ![j].pc = "deliver", ![j].report = report, ![j].task = 0]

(* The service keeps whose detonation it was told of; an engine that was   *)
(* unavailable leaves the job in its queue.                                *)
Deliver(j) ==
    /\ attempt[j].pc = "deliver"
    /\ attempt' = [attempt EXCEPT ![j] = NoAttempt]
    /\ \/ /\ stored' = [stored EXCEPT ![j] =
               IF attempt[j].report.kind = "unavailable" THEN @
               ELSE [kind |-> attempt[j].report.kind, of |-> attempt[j].report.of]]
          /\ UNCHANGED faults
       \/ Faulted({j}) /\ UNCHANGED stored
    /\ UNCHANGED <<world, batch, tasks>>

(* The worker's process ends and is started again.                         *)
Crash ==
    /\ Active # {}
    /\ Faulted(Active)
    /\ attempt' = [j \in Jobs |-> NoAttempt]
    /\ batch' = {}
    /\ UNCHANGED <<world, stored, tasks>>

-----------------------------------------------------------------------------
(* native_linux.py and qiling_emu.py: a run in the worker itself.          *)

(* A trace of strace -f -tt is one the parser reads no call of: it is      *)
(* empty, or none of its lines is read.                                    *)
Trace == [lines : {"none", "unread"}, exit : {"ok", "failed", "timeout"}]

NativeReport(j, trace) ==
    IF trace.lines = "unread" \/ trace.exit = "failed" THEN Unavailable
    ELSE Ran(j, [NoFindings EXCEPT !.signals = {"no_trace"}])

RunNative(j) ==
    /\ attempt[j].pc = "run" /\ attempt[j].engine = "native"
    /\ \E trace \in Trace : Reports(j, NativeReport(j, trace))
    /\ UNCHANGED <<world, stored, batch, tasks, faults>>

(* What the hooks saw of an emulation.                                     *)
QilingReport(j, events) ==
    Ran(j, [NoFindings EXCEPT !.signals =
              IF events = {} THEN {"benign_emulation"} ELSE events])

(* Without a root filesystem, or with a sample the emulator cannot load,   *)
(* nothing runs; an emulation that faults reports what was seen until then.*)
RunQiling(j) ==
    /\ attempt[j].pc = "run" /\ attempt[j].engine = "qiling"
    /\ \/ Reports(j, Unavailable)
       \/ /\ "rootfs" \in world.host.installed
          /\ \E events \in SUBSET {"network_call", "process_create", "file_access"} :
               Reports(j, QilingReport(j, events))
    /\ UNCHANGED <<world, stored, batch, tasks, faults>>

-----------------------------------------------------------------------------
(* opensource.py: a task on an external sandbox.                           *)

Task == [job : Jobs, engine : External, machine : BOOLEAN,
         status : {"pending", "running", "reported", "failed_analysis",
                   "failed_processing", "failed_reporting", "banned"}]

Made(j) == Append(tasks, [job |-> j, engine |-> attempt[j].engine, machine |-> FALSE,
                          status |-> "pending"])

(* Mutated: what the sandbox will not take is something to try again.      *)
DeclinedBusy(engine) == Unavailable

(* Only CAPE's word that it will not take a sample is told as a refusal.   *)
Declined(engine) == IF engine = "capev2" THEN Refused ELSE Unavailable

(* POST tasks/create/file: an answer that is lost leaves a task behind.    *)
Submit(j) ==
    /\ attempt[j].pc = "run" /\ attempt[j].engine \in External
    /\ Len(tasks) < MaxTasks
    /\ \/ /\ world.sample[j].fits = "declined"
          /\ Reports(j, Declined(attempt[j].engine))
          /\ UNCHANGED <<tasks, faults>>
       \/ /\ world.sample[j].fits # "declined"
          /\ tasks' = Made(j)
          /\ attempt' = [attempt EXCEPT ![j].pc = "poll", ![j].task = Len(tasks')]
          /\ UNCHANGED faults
       \/ /\ tasks' \in {tasks} \cup {t \in {Made(j)} : world.sample[j].fits # "declined"}
          /\ Faulted({j})
          /\ Reports(j, Unavailable)
    /\ UNCHANGED <<world, stored, batch>>

Terminal == {"failed_processing", "failed_reporting", "banned"}

(* The statuses an engine takes for the end of a task that failed.         *)
CapeFailed == {"failed_analysis"} \cup Terminal
CuckooFailed == {"failed_analysis", "failed_processing"}
JoeFailed == {}

Failed(engine) == CASE engine = "capev2" -> CapeFailed [] engine = "cuckoo" -> CuckooFailed
                    [] engine = "joe" -> JoeFailed

(* Mutated: every failure is one of the sandbox's, never of the sample.    *)
UnserviceableNever(task, probed) == FALSE

(* A failure that the next attempt would only repeat.  The probe for the   *)
(* machine may itself fail; a terminal status needs none.                  *)
Unserviceable(task, probed) == \/ probed /\ ~task.machine
                               \/ task.status \in Terminal

(* Mutated: the engine, which all threads share, keeps the task's number.  *)
FollowedShared(j) == tasks[Len(tasks)]

Followed(j) == tasks[attempt[j].task]

(* The status that ends the loop of _poll.                                 *)
PollFailed(j) ==
    /\ attempt[j].pc = "poll"
    /\ Followed(j).status \in Failed(attempt[j].engine)
    /\ IF attempt[j].engine # "capev2"
       THEN Reports(j, Unavailable) /\ UNCHANGED faults
       ELSE \/ /\ Reports(j, IF Unserviceable(Followed(j), TRUE) THEN Refused ELSE Unavailable)
               /\ UNCHANGED faults
            \/ /\ Faulted({j})
               /\ Reports(j, IF Unserviceable(Followed(j), FALSE) THEN Refused ELSE Unavailable)
    /\ UNCHANGED <<world, stored, batch, tasks>>

(* The report is there: it is fetched, and told as the seam's report.  One *)
(* that cannot be read as a report leaves the engine unavailable.          *)
PollReported(j) ==
    /\ attempt[j].pc = "poll"
    /\ Followed(j).status = "reported"
    /\ \/ /\ world.sample[j].fits # "malformed"
          /\ \E document \in (IF world.anything THEN Documents ELSE {Typical}) :
               Reports(j, Ran(Followed(j).job,
                              IF attempt[j].engine = "joe" THEN NormaliseJoe(document)
                              ELSE NormaliseCuckoo(document)))
          /\ UNCHANGED faults
       \/ /\ world.sample[j].fits = "malformed"
          /\ Reports(j, Unavailable)
          /\ UNCHANGED faults
       \/ Faulted({j}) /\ Reports(j, Unavailable)
    /\ UNCHANGED <<world, stored, batch, tasks>>

(* The deadline passes: the sandbox is slow, does not answer, or ended the *)
(* task in a status the engine does not know for an end.                   *)
Deadline(j) ==
    /\ attempt[j].pc = "poll"
    /\ Followed(j).status \notin Failed(attempt[j].engine)
    /\ IF Followed(j).status \in Terminal \cup {"failed_analysis"}
       THEN UNCHANGED faults ELSE Faulted({j})
    /\ Reports(j, Unavailable)
    /\ UNCHANGED <<world, stored, batch, tasks>>

-----------------------------------------------------------------------------
(* The sandbox.                                                            *)

Outcome(task) ==
    CASE world.sample[task.job].fits = "misfit"       -> {"failed_analysis", "banned"}
      [] world.sample[task.job].fits = "unreportable" -> {"failed_processing",
                                                          "failed_reporting"}
      [] OTHER                                        -> {"reported"}

(* No guest can run a misfit: its task ends without a machine.             *)
Progress(t) ==
    LET task == tasks[t] IN
    /\ \/ /\ task.status = "pending" /\ world.sample[task.job].fits # "misfit"
          /\ tasks' = [tasks EXCEPT ![t].status = "running", ![t].machine = TRUE]
       \/ /\ task.status = IF world.sample[task.job].fits = "misfit" THEN "pending" ELSE "running"
          /\ \E status \in Outcome(task) : tasks' = [tasks EXCEPT ![t].status = status]
    /\ UNCHANGED <<world, stored, batch, attempt, faults>>

(* A guest that breaks down under a sample.                                *)
Flake(t) ==
    /\ tasks[t].status = "running"
    /\ Faulted({tasks[t].job})
    /\ tasks' = [tasks EXCEPT ![t].status = "failed_analysis"]
    /\ UNCHANGED <<world, stored, batch, attempt>>

-----------------------------------------------------------------------------
Step(j) == \/ ProcessJob(j) \/ RunNative(j) \/ RunQiling(j) \/ Submit(j)
           \/ PollFailed(j) \/ PollReported(j) \/ Deliver(j)

Next == \/ RunOnce
        \/ \E j \in Jobs : Step(j) \/ DownloadFails(j) \/ Deadline(j)
        \/ Crash
        \/ \E t \in DOMAIN tasks : Progress(t) \/ Flake(t)

(* The worker polls for ever, its threads run, and the sandbox ends what   *)
(* it has begun.                                                           *)
Fairness == /\ WF_enginesVars(RunOnce)
            /\ \A j \in Jobs : WF_enginesVars(Step(j))
            /\ \A t \in 1..MaxTasks : WF_enginesVars(t \in DOMAIN tasks /\ Progress(t))

Spec == Init /\ [][Next]_enginesVars
FairSpec == Spec /\ Fairness

-----------------------------------------------------------------------------
(* What the service is told of a job that ran was seen of that job's own   *)
(* sample, whatever else the threads were following; a run of which        *)
(* nothing could be read is not told as one.                               *)
RanIsOwn == \A j \in Jobs : stored[j].kind = "ran" => stored[j].of = j

(* A sample is given to CAPE again only for something that went wrong on   *)
(* the way: what CAPE cannot serve is not detonated in a loop.  (A report  *)
(* that the worker cannot read is: nothing marks that as the sample's.)    *)
Submissions(j) == {t \in DOMAIN tasks : tasks[t].job = j /\ tasks[t].engine = "capev2"}
ResubmittedForAFault ==
    \A j \in Jobs : \/ Cardinality(Submissions(j)) <= 1 + faults[j]
                    \/ world.sample[j].fits = "malformed"

(* A job that goes to CAPE, or that no engine here takes, leaves the queue:*)
(* the other engines never say that a sample is beyond them.               *)
Closes(j) == /\ ChooseEngine(j) \in {"capev2", "none"}
             /\ world.sample[j].fits # "malformed"
LeavesTheQueue == \A j \in Jobs : Closes(j) ~> (stored[j] # Waiting)

Told == {j \in Jobs : attempt[j].pc = "deliver" /\ attempt[j].report.kind = "ran"
                      /\ attempt[j].engine \in {"cuckoo", "capev2"}}

(* Of what a sandbox saw, no address is lost and none is made up; and what *)
(* is said to have been started by the sample was (SandboxReport).         *)
ReportAccounted ==
    \A j \in Told : Accounted(attempt[j].report.found) /\ DescentTold(attempt[j].report.found)
=============================================================================
