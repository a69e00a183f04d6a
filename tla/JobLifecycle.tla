---------------------------- MODULE JobLifecycle ----------------------------
(***************************************************************************)
(* A job from submission to verdict: the API handlers of api/sandbox.py    *)
(* that hand it to the thread pool of runner.py, pipeline.run() on its own *)
(* session, and the sweep of main.py after a restart.                      *)
(*                                                                         *)
(* The database is modelled as the code meets it in production, PostgreSQL *)
(* at READ COMMITTED: a session works on the copy of the row it loaded, a  *)
(* flush writes the columns that differ from that copy and takes the row   *)
(* lock, other sessions see the row only at commit, and an UPDATE of a     *)
(* locked row waits for the lock.                                          *)
(*                                                                         *)
(* A timestamp counts the times a session took the lock of the row before  *)
(* it was written; NULL is 0.                                              *)
(***************************************************************************)
EXTENDS Integers, Sequences, FiniteSets

CONSTANTS Jobs,         \* top-level submissions
          Encrypted,    \* those that are archives needing a password
          Members,      \* the members of an archive, by their place in it
          Threads,      \* workers of the pool, 4 in the code
          Requests,     \* request handlers that may run at once
          NoOne,        \* no holder of a row lock
          MaxRequests,  \* bound: requests served
          MaxCrashes,   \* bound: times the process dies
          MayHang       \* may an analyzer never return?

ASSUME EncryptedAssumption == Encrypted \subseteq Jobs
ASSUME MembersAssumption == Members \subseteq Nat
ASSUME NoOneAssumption == NoOne \notin Threads
ASSUME BoundsAssumption == MaxRequests \in Nat /\ MaxCrashes \in Nat
ASSUME MayHangAssumption == MayHang \in BOOLEAN

VARIABLES row,       \* row[j]: the committed columns of sandbox_jobs
          kids,      \* kids[j][m]: committed child rows of j for member m
          stale,     \* jobs whose committed started_at is past _STALE_AFTER
          lock,      \* lock[j]: the session that holds j's row lock
          runs,      \* runs[j]: the clock of j's timestamps
          queue,     \* the executor's work queue
          handler,   \* handler[r]: where request r stands
          thread,    \* thread[t]: where pool thread t stands, and its session
          up,        \* is the process running?
          lost,      \* jobs whose last run ended in a line of the log only
          torn,      \* jobs whose transaction a member rolled back (history)
          served, crashes   \* counters for the bounds

vars == <<row, kids, stale, lock, runs, queue, handler, thread, up, lost, torn,
          served, crashes>>

NULL == 0

Passwords == {"none", "wrong", "right"}
Origins == {"upload", "reanalyze", "password"}

Absent == [status |-> "absent", stage |-> "queued", error |-> FALSE,
           started |-> NULL, completed |-> NULL, first |-> NULL]

(* new_job                                                                 *)
NewRow == [Absent EXCEPT !.status = "queued"]

NoTask == [job |-> NULL, password |-> "none", origin |-> "upload"]

FreeHandler == [pc |-> "idle", task |-> NoTask]
FreeThread == [pc |-> "idle", task |-> NoTask, copy |-> Absent, draft |-> Absent,
               known |-> {}, todo |-> {}, added |-> {}]

InFlight == {"queued", "running"}

Init == /\ row = [j \in Jobs |-> Absent]
        /\ kids = [j \in Jobs |-> [m \in Members |-> 0]]
        /\ stale = {}
        /\ lock = [j \in Jobs |-> NoOne]
        /\ runs = [j \in Jobs |-> 0]
        /\ queue = <<>>
        /\ handler = [r \in Requests |-> FreeHandler]
        /\ thread = [t \in Threads |-> FreeThread]
        /\ up = TRUE
        /\ lost = {}
        /\ torn = {}
        /\ served = 0
        /\ crashes = 0

JobOf(t) == thread[t].task.job

(* The unit of work: a column is in the UPDATE only if it was changed.     *)
Written(loaded, now, stored) == IF now = loaded THEN stored ELSE now

Flush(loaded, now, stored) ==
    [status    |-> Written(loaded.status, now.status, stored.status),
     stage     |-> Written(loaded.stage, now.stage, stored.stage),
     error     |-> Written(loaded.error, now.error, stored.error),
     started   |-> Written(loaded.started, now.started, stored.started),
     completed |-> Written(loaded.completed, now.completed, stored.completed),
     first     |-> Written(loaded.first, now.first, stored.first)]

-----------------------------------------------------------------------------
(* Request handlers.                                                       *)

Accept(r, pc, j, pw, origin) ==
    /\ up
    /\ handler[r].pc = "idle"
    /\ served < MaxRequests
    /\ served' = served + 1
    /\ handler' = [handler EXCEPT ![r] =
         [pc |-> pc, task |-> [job |-> j, password |-> pw, origin |-> origin]]]
    /\ UNCHANGED <<kids, stale, lock, runs, queue, thread, up, lost, torn, crashes>>

(* POST /analyze: the row is committed before it is handed to the pool.    *)
Analyze(r, j, pw) ==
    /\ row[j].status = "absent"
    /\ row' = [row EXCEPT ![j] = NewRow]
    /\ Accept(r, "submit", j, pw, "upload")

(* POST /jobs/{id}/password                                                *)
ProvidePassword(r, j, pw) ==
    /\ row[j].status = "awaiting_password"
    /\ pw # "none"
    /\ Accept(r, "submit", j, pw, "password")
    /\ UNCHANGED row

(* POST /jobs/{id}/reanalyze, up to its UPDATE.                            *)
Reanalyze(r, j) ==
    /\ row[j].status # "absent"
    /\ Accept(r, "claim", j, "none", "reanalyze")
    /\ UNCHANGED row

Claimable(j) == \/ row[j].status \notin {"running", "queued"}
                \/ row[j].started = NULL
                \/ j \in stale

(* The UPDATE ... WHERE waits for the row lock, then decides on the row as *)
(* it is committed; 409 if the row no longer matches.                      *)
Claim(r) ==
    /\ up
    /\ handler[r].pc = "claim"
    /\ LET j == handler[r].task.job
       IN /\ lock[j] = NoOne
          /\ \/ /\ Claimable(j)
                /\ row' = [row EXCEPT ![j].status = "queued"]
                /\ handler' = [handler EXCEPT ![r].pc = "submit"]
                /\ lost' = lost \ {j}
             \/ /\ ~Claimable(j)
                /\ handler' = [handler EXCEPT ![r] = FreeHandler]
                /\ UNCHANGED <<row, lost>>
    /\ UNCHANGED <<kids, stale, lock, runs, queue, thread, up, torn, served, crashes>>

(* submit_analysis: the task exists only in this process's memory.         *)
Submit(r) ==
    /\ up
    /\ handler[r].pc = "submit"
    /\ queue' = Append(queue, handler[r].task)
    /\ handler' = [handler EXCEPT ![r] = FreeHandler]
    /\ UNCHANGED <<row, kids, stale, lock, runs, thread, up, lost, torn, served, crashes>>

-----------------------------------------------------------------------------
(* runner.analyse_job and pipeline.run on a thread of the pool.            *)

Take(t) ==
    /\ up
    /\ thread[t].pc = "idle"
    /\ queue # <<>>
    /\ thread' = [thread EXCEPT ![t] = [FreeThread EXCEPT !.pc = "load",
                                                          !.task = Head(queue)]]
    /\ queue' = Tail(queue)
    /\ UNCHANGED <<row, kids, stale, lock, runs, handler, up, lost, torn, served, crashes>>

(* A session that has its task and nothing else.                           *)
Blank(t, pc) == [FreeThread EXCEPT !.pc = pc, !.task = thread[t].task]

(* db.get: the session's copy of the row.                                  *)
Load(t) ==
    /\ thread[t].pc = "load"
    /\ thread' = [thread EXCEPT ![t] = [Blank(t, "start") EXCEPT !.copy = row[JobOf(t)]]]
    /\ UNCHANGED <<row, kids, stale, lock, runs, queue, handler, up, lost, torn, served, crashes>>

Started(loaded, now) == [loaded EXCEPT !.status = "running", !.stage = "working",
                                       !.error = FALSE, !.started = now,
                                       !.completed = NULL]

(* The first flush: it takes the row lock, or waits for it.  With the lock *)
(* nobody else can commit a member, so what _archive_stage is going to find*)
(* in the database is what is there now.                                   *)
Start(t) ==
    /\ thread[t].pc = "start"
    /\ LET j == JobOf(t)
           c == Started(thread[t].copy, runs[j] + 1)
       IN /\ lock[j] = NoOne
          /\ lock' = [lock EXCEPT ![j] = t]
          /\ runs' = [runs EXCEPT ![j] = @ + 1]
          /\ thread' = [thread EXCEPT ![t].pc = "unpack", ![t].copy = c,
                          ![t].draft = Flush(thread[t].copy, c, row[j]),
                          ![t].known = {m \in Members : kids[j][m] > 0},
                          ![t].todo = Members]
    /\ UNCHANGED <<row, kids, stale, queue, handler, up, lost, torn, served, crashes>>

Opens(t) == JobOf(t) \notin Encrypted \/ thread[t].task.password = "right"

(* How far the loop over the members of todo may have come.                *)
Prefixes(todo) == {{m \in todo : m < next} : next \in todo} \cup {todo}

(* Mutated: the rows that exist already are not looked up.                 *)
NewRowsClones(t, done) == done

(* The members of done that get a row: those that had none when they were  *)
(* looked up.                                                              *)
NewRows(t, done) == done \ thread[t].known

(* _archive_stage: every member is promoted, and its own run ends, in this *)
(* transaction.                                                            *)
Unpack(t) ==
    /\ thread[t].pc = "unpack"
    /\ Opens(t)
    /\ thread' = [thread EXCEPT ![t].pc = "finish",
                    ![t].added = NewRows(t, thread[t].todo),
                    ![t].known = {}, ![t].todo = {}]
    /\ UNCHANGED <<row, kids, stale, lock, runs, queue, handler, up, lost, torn, served, crashes>>

(* The later flushes, on the row this session has locked.                  *)
Record(t, c, added) ==
    [thread EXCEPT ![t] = [Blank(t, "commit") EXCEPT
        !.draft = Flush(thread[t].copy, c, thread[t].draft), !.added = added]]

(* Mutated: the prompt is shown, the status is left as the run set it.     *)
ParkedRunning(c, pw) == [c EXCEPT !.stage = "awaiting password",
                                  !.error = (pw = "wrong"), !.completed = NULL]

(* PasswordRequired: the job parks itself; a wrong password is an error.   *)
Parked(c, pw) == [c EXCEPT !.status = "awaiting_password",
                           !.stage = "awaiting password",
                           !.error = (pw = "wrong"), !.completed = NULL]

Park(t) ==
    /\ thread[t].pc = "unpack"
    /\ ~Opens(t)
    /\ thread' = Record(t, Parked(thread[t].copy, thread[t].task.password), {})
    /\ UNCHANGED <<row, kids, stale, lock, runs, queue, handler, up, lost, torn, served, crashes>>

(* Mutated: the first finish is compared, never written.                   *)
FirstCompletedUnset(c, now) == c.first

FirstCompleted(c, now) == IF c.first = NULL THEN now ELSE c.first

Completed(c, now) == [c EXCEPT !.status = "completed", !.stage = "complete",
                               !.completed = now, !.first = FirstCompleted(c, now)]

Complete(t) ==
    /\ thread[t].pc = "finish"
    /\ thread' = Record(t, Completed(thread[t].copy, runs[JobOf(t)]), thread[t].added)
    /\ UNCHANGED <<row, kids, stale, lock, runs, queue, handler, up, lost, torn, served, crashes>>

Failed(c, now) == [c EXCEPT !.status = "failed", !.error = TRUE, !.completed = now]

(* A stage raises, before, between or after the members: _record_failure   *)
(* writes it through the same session, and the rows so far are committed.  *)
Fail(t) ==
    /\ thread[t].pc \in {"unpack", "finish"}
    /\ \E done \in Prefixes(thread[t].todo) :
           thread' = Record(t, Failed(thread[t].copy, runs[JobOf(t)]),
                            thread[t].added \cup NewRows(t, done))
    /\ UNCHANGED <<row, kids, stale, lock, runs, queue, handler, up, lost, torn, served, crashes>>

Release(t) == [j \in Jobs |-> IF lock[j] = t THEN NoOne ELSE lock[j]]

(* A flush raises: the session can do nothing but roll back.               *)
Poison(t) ==
    /\ thread[t].pc \in {"start", "unpack", "unlocked", "finish"}
    /\ thread' = [thread EXCEPT ![t] = Blank(t, "reload")]
    /\ lock' = Release(t)
    /\ UNCHANGED <<row, kids, stale, runs, queue, handler, up, lost, torn, served, crashes>>

(* The second attempt of _record_failure, on the row read again.           *)
Reload(t) ==
    /\ thread[t].pc = "reload"
    /\ thread' = [thread EXCEPT ![t].pc = "retry", ![t].copy = row[JobOf(t)]]
    /\ UNCHANGED <<row, kids, stale, lock, runs, queue, handler, up, lost, torn, served, crashes>>

Retry(t) ==
    /\ thread[t].pc = "retry"
    /\ LET j == JobOf(t)
           c == Failed(thread[t].copy, runs[j] + 1)
       IN /\ lock[j] = NoOne
          /\ lock' = [lock EXCEPT ![j] = t]
          /\ runs' = [runs EXCEPT ![j] = @ + 1]
          /\ thread' = [thread EXCEPT ![t] = [Blank(t, "commit") EXCEPT
               !.draft = Flush(thread[t].copy, c, row[j]), !.added = thread[t].added]]
    /\ UNCHANGED <<row, kids, stale, queue, handler, up, lost, torn, served, crashes>>

(* A member is run in the session of its container.  A flush of its that   *)
(* raises rolls the transaction of the container back: the lock, its first *)
(* flush and the rows of the members so far (gone) are lost.  The second   *)
(* attempt to record the failure does not find the member either, and the  *)
(* container goes on to the next one.                                      *)
Tear(t) ==
    /\ \/ thread[t].pc = "unpack" /\ Opens(t)
       \/ thread[t].pc = "unlocked"
    /\ \E gone \in Prefixes(thread[t].todo) \ {{}} :
           /\ thread' = [thread EXCEPT ![t] = [Blank(t, "torn") EXCEPT
                !.known = thread[t].known, !.todo = thread[t].todo \ gone]]
    /\ lock' = Release(t)
    /\ torn' = torn \cup {JobOf(t)}
    /\ UNCHANGED <<row, kids, stale, runs, queue, handler, up, lost, served, crashes>>

(* What the session had loaded has expired with the rollback: the next read*)
(* gets the row of the container as it is committed.                       *)
Refresh(t) ==
    /\ thread[t].pc = "torn"
    /\ thread' = [thread EXCEPT ![t].pc = "unlocked", ![t].copy = row[JobOf(t)]]
    /\ UNCHANGED <<row, kids, stale, lock, runs, queue, handler, up, lost, torn, served, crashes>>

(* The remaining members are promoted as before, by what was looked up     *)
(* before the rollback, and the next stage of the container takes the lock *)
(* of its row again.                                                       *)
Relock(t) ==
    /\ thread[t].pc = "unlocked"
    /\ LET j == JobOf(t)
           c == [thread[t].copy EXCEPT !.stage = "working"]
       IN /\ lock[j] = NoOne
          /\ lock' = [lock EXCEPT ![j] = t]
          /\ runs' = [runs EXCEPT ![j] = @ + 1]
          /\ thread' = [thread EXCEPT ![t].pc = "finish", ![t].copy = c,
                          ![t].draft = Flush(thread[t].copy, c, row[j]),
                          ![t].added = NewRows(t, thread[t].todo),
                          ![t].known = {}, ![t].todo = {}]
    /\ UNCHANGED <<row, kids, stale, queue, handler, up, lost, torn, served, crashes>>

(* A stage of a container without its lock raises: the first attempt of    *)
(* _record_failure waits for the lock.                                     *)
FailUnlocked(t) ==
    /\ thread[t].pc = "unlocked"
    /\ \E done \in Prefixes(thread[t].todo) :
           thread' = [thread EXCEPT ![t] = [Blank(t, "retry") EXCEPT
               !.copy = thread[t].copy, !.added = NewRows(t, done)]]
    /\ UNCHANGED <<row, kids, stale, lock, runs, queue, handler, up, lost, torn, served, crashes>>

(* An exception that only the log hears of: reading the row, a handler of  *)
(* run() that asks the broken session for the name of the job, the second  *)
(* attempt of _record_failure, or the commit.  The row stays as committed. *)
Lose(t) ==
    /\ thread[t].pc \notin {"idle", "hung"}
    /\ thread' = [thread EXCEPT ![t] = FreeThread]
    /\ lock' = Release(t)
    /\ lost' = lost \cup {JobOf(t)}
    /\ UNCHANGED <<row, kids, stale, runs, queue, handler, up, torn, served, crashes>>

Settled(x) == x.status \notin InFlight

(* db.commit in analyse_job: only now does anybody see the run.            *)
Commit(t) ==
    /\ thread[t].pc = "commit"
    /\ LET j == JobOf(t)
       IN /\ row' = [row EXCEPT ![j] = thread[t].draft]
          /\ kids' = [kids EXCEPT ![j] =
               [m \in Members |-> @[m] + IF m \in thread[t].added THEN 1 ELSE 0]]
          /\ stale' = IF thread[t].draft.started = row[j].started
                      THEN stale ELSE stale \ {j}
          /\ lost' = IF Settled(thread[t].draft) THEN lost \ {j} ELSE lost
    /\ lock' = Release(t)
    /\ thread' = [thread EXCEPT ![t] = FreeThread]
    /\ UNCHANGED <<runs, queue, handler, up, torn, served, crashes>>

Hang(t) ==
    /\ MayHang
    /\ thread[t].pc \in {"unpack", "unlocked", "finish"}
    /\ thread' = [thread EXCEPT ![t] = Blank(t, "hung")]
    /\ UNCHANGED <<row, kids, stale, lock, runs, queue, handler, up, lost, torn, served, crashes>>

-----------------------------------------------------------------------------
(* Time, and the death and restart of the process.                         *)

(* A committed started_at gets older than _STALE_AFTER.                    *)
Age(j) ==
    /\ row[j].started # NULL
    /\ j \notin stale
    /\ stale' = stale \cup {j}
    /\ UNCHANGED <<row, kids, lock, runs, queue, handler, thread, up, lost, torn, served, crashes>>

Crash ==
    /\ up
    /\ crashes < MaxCrashes
    /\ crashes' = crashes + 1
    /\ up' = FALSE
    /\ lock' = [j \in Jobs |-> NoOne]
    /\ queue' = <<>>
    /\ handler' = [r \in Requests |-> FreeHandler]
    /\ thread' = [t \in Threads |-> FreeThread]
    /\ UNCHANGED <<row, kids, stale, runs, lost, torn, served>>

(* _recover_interrupted_jobs, before the service takes requests.           *)
(* Mutated: only the rows that were running are swept.                     *)
InterruptedRunning == {j \in Jobs : row[j].status = "running"}

Interrupted == {j \in Jobs : row[j].status \in InFlight}

Restart ==
    /\ ~up
    /\ up' = TRUE
    /\ row' = [j \in Jobs |->
                IF j \in Interrupted
                THEN [row[j] EXCEPT !.status = "queued", !.stage = "interrupted",
                                    !.started = NULL]
                ELSE row[j]]
    /\ stale' = stale \ Interrupted
    /\ lost' = {}
    /\ UNCHANGED <<kids, lock, runs, queue, handler, thread, torn, served, crashes>>

-----------------------------------------------------------------------------
ThreadStep(t) ==
    \/ Take(t) \/ Load(t) \/ Start(t) \/ Unpack(t) \/ Park(t) \/ Complete(t)
    \/ Refresh(t) \/ Relock(t) \/ Reload(t) \/ Retry(t) \/ Commit(t)

ThreadFault(t) ==
    \/ Fail(t) \/ FailUnlocked(t) \/ Poison(t) \/ Tear(t) \/ Lose(t) \/ Hang(t)

HandlerStep(r) == Claim(r) \/ Submit(r)

Arrive(r, j) == \/ \E pw \in Passwords : Analyze(r, j, pw) \/ ProvidePassword(r, j, pw)
                \/ Reanalyze(r, j)

Next == \/ \E t \in Threads : ThreadStep(t) \/ ThreadFault(t)
        \/ \E r \in Requests : HandlerStep(r)
        \/ \E r \in Requests, j \in Jobs : Arrive(r, j)
        \/ \E j \in Jobs : Age(j)
        \/ Crash
        \/ Restart

Spec == Init /\ [][Next]_vars

(* Threads and handlers that can move do, and the service is restarted.    *)
(* Nothing is assumed of the arrival of requests, of faults or of time.    *)
Fairness == /\ \A t \in Threads : WF_vars(ThreadStep(t))
            /\ \A r \in Requests : WF_vars(HandlerStep(r))
            /\ WF_vars(Restart)

FairSpec == Spec /\ Fairness

-----------------------------------------------------------------------------
(* Properties.                                                             *)

Statuses == {"absent", "queued", "running", "awaiting_password", "completed",
             "failed"}
Stages == {"queued", "working", "awaiting password", "complete", "interrupted"}
Row == [status : Statuses, stage : Stages, error : BOOLEAN,
        started : Nat, completed : Nat, first : Nat]
Tasks == [job : Jobs \cup {NULL}, password : Passwords, origin : Origins]
Queued == [job : Jobs, password : Passwords, origin : Origins]
Kids == [Members -> Nat]
Handlers == [pc : {"idle", "claim", "submit"}, task : Tasks]
Sessions == [pc : {"idle", "load", "start", "unpack", "finish", "commit",
                   "torn", "unlocked", "reload", "retry", "hung"},
             task : Tasks, copy : Row, draft : Row, known : SUBSET Members,
             todo : SUBSET Members, added : SUBSET Members]

(* Every variable has its type.                                            *)
TypeOK ==
    /\ row \in [Jobs -> Row]
    /\ kids \in [Jobs -> Kids]
    /\ stale \subseteq Jobs
    /\ lock \in [Jobs -> Threads \cup {NoOne}]
    /\ runs \in [Jobs -> Nat]
    /\ queue \in Seq(Queued)
    /\ handler \in [Requests -> Handlers]
    /\ thread \in [Threads -> Sessions]
    /\ up \in BOOLEAN
    /\ lost \subseteq Jobs /\ torn \subseteq Jobs
    /\ served \in Nat /\ crashes \in Nat

(* Who is going to run job j: a handler about to submit it, the work       *)
(* queue, or a thread that has not committed yet.                          *)
Owned(j) == \/ \E r \in Requests : handler[r].pc = "submit" /\ handler[r].task.job = j
            \/ \E i \in DOMAIN queue : queue[i].job = j
            \/ \E t \in Threads : thread[t].pc # "idle" /\ JobOf(t) = j

(* No committed row says a run is on its way when none is: an in-flight    *)
(* row has an owner in this process, or carries the mark of the restart    *)
(* sweep and a null started_at, which makes it reclaimable - unless the    *)
(* last word on it, its commit or the second attempt to write its failure, *)
(* was itself what failed.  The row is in the database and the owner in    *)
(* memory, and a crash takes only the owner.                               *)
NoOrphan ==
    up => \A j \in Jobs : row[j].status \in InFlight =>
            \/ Owned(j)
            \/ row[j].stage = "interrupted" /\ row[j].started = NULL
            \/ j \in lost

(* "RE-ANALYSING AN ARCHIVE MUST NOT UNPACK IT TWICE": however many runs   *)
(* of a container overlap, and whichever of them fail, a member has one    *)
(* row, as long as no member rolls the transaction of its container back.  *)
NoDuplicateMembers == \A j \in Jobs \ torn, m \in Members : kids[j][m] <= 1

(* A completed row carries the finish of a run and the first one, also when*)
(* a run commits over a row it did not load or goes on after its           *)
(* transaction was rolled back; and, but for such a rollback, it is at its *)
(* last stage and has a row for every member.                              *)
CompletedIsWhole ==
    \A j \in Jobs : row[j].status = "completed" =>
        /\ row[j].first # NULL
        /\ row[j].first <= row[j].completed
        /\ j \notin torn => /\ row[j].stage = "complete"
                            /\ kids[j] = [m \in Members |-> 1]

(* An analyzer that never returns keeps its thread, and the row lock of    *)
(* its job, until the process ends: there is no timeout around a run.      *)
Hung == \E t \in Threads : thread[t].pc = "hung"

(* A re-analysis request waits for the lock of the row of j.               *)
Waiting(j) == \E r \in Requests : handler[r].pc = "claim" /\ handler[r].task.job = j

(* Unless an analyzer hangs, every queued job is run to an outcome, marked *)
(* by the restart sweep, or was lost with a line in the log: a failure is  *)
(* written down, in the second attempt if not in the first, also of a run  *)
(* whose transaction was rolled back under it.  And the re-analysis        *)
(* requests that wait for a row lock are answered.                         *)
AllSettles ==
    /\ \A j \in Jobs : row[j].status \in InFlight ~>
          (Settled(row[j]) \/ row[j].stage = "interrupted" \/ j \in lost \/ Hung)
    /\ \A j \in Jobs : Waiting(j) ~> (~Waiting(j) \/ Hung)

-----------------------------------------------------------------------------
(* Claims of the source's comments that the code does not keep.            *)

Reanalyses(j) ==
    Cardinality({r \in Requests : /\ handler[r].pc = "submit"
                                  /\ handler[r].task.job = j
                                  /\ handler[r].task.origin = "reanalyze"})
    + Cardinality({i \in DOMAIN queue : queue[i].job = j /\ queue[i].origin = "reanalyze"})
    + Cardinality({t \in Threads : /\ thread[t].pc # "idle"
                                   /\ JobOf(t) = j
                                   /\ thread[t].task.origin = "reanalyze"})

(* The comment on members, without its exception: it does not hold.        *)
UnpackedOnce == \A j \in Jobs, m \in Members : kids[j][m] <= 1

(* reanalyze: the UPDATE "is decided by the database, so exactly one       *)
(* caller can win it" - one re-analysis of a job is on its way at a time.  *)
OneReanalysis == \A j \in Jobs : Reanalyses(j) <= 1

(* pipeline: first_completed_at is "Written ONCE": what it says never moves. *)
FirstCompletedOnce ==
    [][\A j \in Jobs : row[j].first # NULL => row'[j].first = row[j].first]_vars
=============================================================================
