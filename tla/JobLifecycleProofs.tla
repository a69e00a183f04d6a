------------------------- MODULE JobLifecycleProofs -------------------------
(***************************************************************************)
(* Theorems about JobLifecycle for any jobs, threads, handlers and bounds: *)
(* its types, that no committed in-flight row is left without somebody in  *)
(* the process who is going to run it or a line in the log, that a member  *)
(* has one row, and that a completed row is whole.                         *)
(***************************************************************************)
EXTENDS JobLifecycle, SequenceTheorems, TLAPS

Locked == {"unpack", "finish", "commit"}

(* Who holds a task knows its job.                                         *)
TasksHaveJobs ==
    /\ \A r \in Requests : handler[r].pc # "idle" => handler[r].task.job \in Jobs
    /\ \A t \in Threads : thread[t].pc # "idle" => JobOf(t) \in Jobs

(* From a flush to its commit or rollback a session holds the row lock.    *)
WritersHoldLock ==
    \A t \in Threads : thread[t].pc \in Locked => lock[JobOf(t)] = t

(* After the first flush the session believes its job is running.          *)
RunsBelieve ==
    \A t \in Threads : thread[t].pc = "unpack" => thread[t].copy.status = "running"

Outcomes == {"completed", "failed"}

(* A session that may write an outcome its copy has already, so that the   *)
(* status of the row is not in its UPDATE: it read the row again after a   *)
(* rollback, when another run of the job had finished.                     *)
Decided(s) == \/ s.pc = "commit"
              \/ s.pc = "finish" /\ s.copy.status \in Outcomes

(* Such a session leaves an in-flight status as it found it.               *)
CommitsSettle ==
    \A t \in Threads : Decided(thread[t]) =>
        Settled(thread[t].draft) \/ thread[t].draft.status = row[JobOf(t)].status

(* A session whose commit changes the status of its job to an outcome.     *)
Settles(s) ==
    \/ s.pc \in {"load", "start", "unpack", "torn", "hung", "reload"}
    \/ s.pc \in {"unlocked", "finish"} /\ s.copy.status \notin Outcomes
    \/ s.pc = "retry" /\ s.copy.status # "failed"
    \/ s.pc = "commit" /\ Settled(s.draft)

LiveOwner(j) ==
    \/ \E r \in Requests : handler[r].pc = "submit" /\ handler[r].task.job = j
    \/ \E i \in DOMAIN queue : queue[i].job = j
    \/ \E t \in Threads : Settles(thread[t]) /\ JobOf(t) = j

(* The restart sweep marked the row, and nobody has touched the job since. *)
Untouched(j) ==
    /\ row[j].stage = "interrupted" /\ row[j].started = NULL
    /\ \A t \in Threads : thread[t].pc # "idle" => JobOf(t) # j

(* Two sessions may be writing the outcome of one job, and one of them may *)
(* write nothing: to be owned is not enough, somebody must be going to     *)
(* change the status.                                                      *)
NoDeadOwner ==
    up => \A j \in Jobs : row[j].status \in InFlight =>
              LiveOwner(j) \/ Untouched(j) \/ j \in lost

(* A process that is down runs nothing.                                    *)
DownIsIdle == ~up => \A t \in Threads : thread[t].pc = "idle"

IInv == /\ TypeOK
        /\ DownIsIdle
        /\ TasksHaveJobs
        /\ WritersHoldLock
        /\ RunsBelieve
        /\ CommitsSettle
        /\ NoDeadOwner

USE EncryptedAssumption, NoOneAssumption, BoundsAssumption, MayHangAssumption

-----------------------------------------------------------------------------
(* What the operators on rows return.                                      *)

LEMMA RowOperators ==
    ASSUME NEW c \in Row, NEW d \in Row, NEW e \in Row, NEW n \in Nat, NEW pw
    PROVE  /\ Absent \in Row /\ NewRow \in Row
           /\ Started(c, n) \in Row /\ Failed(c, n) \in Row
           /\ Parked(c, pw) \in Row /\ Completed(c, n) \in Row
           /\ Flush(c, d, e) \in Row
  <1>1. Absent \in Row /\ NewRow \in Row
    BY DEF Absent, NewRow, Row, Statuses, Stages, NULL
  <1>2. Started(c, n) \in Row /\ Failed(c, n) \in Row
    BY DEF Started, Failed, Row, Statuses, Stages, NULL
  <1>3. Parked(c, pw) \in Row
    BY DEF Parked, Row, Statuses, Stages, NULL
  <1>4. Completed(c, n) \in Row
    <2>1. FirstCompleted(c, n) \in Nat
      BY DEF FirstCompleted, Row
    <2> QED BY <2>1 DEF Completed, Row, Statuses, Stages
  <1>5. Flush(c, d, e) \in Row
    BY DEF Flush, Written, Row
  <1> QED BY <1>1, <1>2, <1>3, <1>4, <1>5

LEMMA FreeOnes == FreeThread \in Sessions /\ FreeHandler \in Handlers
  <1>1. NoTask \in Tasks
    BY DEF NoTask, Tasks, NULL, Passwords, Origins
  <1>2. Absent \in Row
    BY DEF Absent, Row, Statuses, Stages, NULL
  <1> QED BY <1>1, <1>2 DEF FreeThread, FreeHandler, Sessions, Handlers

LEMMA FlushFields ==
    ASSUME NEW c, NEW d, NEW x
    PROVE  /\ Flush(c, d, x).status = Written(c.status, d.status, x.status)
           /\ Flush(c, d, x).stage = Written(c.stage, d.stage, x.stage)
           /\ Flush(c, d, x).started = Written(c.started, d.started, x.started)
           /\ Flush(c, d, x).completed = Written(c.completed, d.completed, x.completed)
           /\ Flush(c, d, x).first = Written(c.first, d.first, x.first)
  BY DEF Flush

-----------------------------------------------------------------------------
(* What a step of a thread makes of its session.                           *)

Pcs == {"idle", "load", "start", "unpack", "finish", "commit", "torn", "unlocked",
        "reload", "retry", "hung"}

(* Nobody's session but that of t changes, and t keeps its task.           *)
Mine(t) == /\ thread' \in [Threads -> Sessions]
           /\ \A u \in Threads \ {t} : thread'[u] = thread[u]
           /\ thread'[t].task = thread[t].task

LEMMA Replaced ==
    ASSUME TypeOK, NEW t \in Threads, NEW c \in Sessions, c.task = thread[t].task,
           thread' = [thread EXCEPT ![t] = c]
    PROVE  Mine(t) /\ thread'[t] = c /\ JobOf(t)' = JobOf(t)
  BY DEF TypeOK, Mine, JobOf

LEMMA Blanks ==
    ASSUME TypeOK, NEW t \in Threads, NEW pc \in Pcs
    PROVE  /\ Blank(t, pc) \in Sessions
           /\ Blank(t, pc).pc = pc /\ Blank(t, pc).task = thread[t].task
           /\ Blank(t, pc).added = {} /\ Blank(t, pc).todo = {}
           /\ Blank(t, pc).copy = Absent
  <1>1. FreeThread \in Sessions /\ thread[t] \in Sessions
    BY FreeOnes DEF TypeOK
  <1>2. FreeThread.added = {} /\ FreeThread.todo = {} /\ FreeThread.copy = Absent
    BY DEF FreeThread
  <1> QED BY <1>1, <1>2 DEF Blank, Sessions, Pcs

Quiet == UNCHANGED <<row, kids, stale, queue, handler, up, served, crashes>>

(* A session reads its row.                                                *)
LEMMA Reads ==
    ASSUME TypeOK, TasksHaveJobs, NEW t \in Threads, Load(t) \/ Reload(t) \/ Refresh(t)
    PROVE  /\ Mine(t) /\ Quiet /\ UNCHANGED <<lock, runs, lost, torn>>
           /\ JobOf(t)' = JobOf(t) /\ JobOf(t) \in Jobs
           /\ thread'[t].copy = row[JobOf(t)]
           /\ \/ /\ thread[t].pc = "load" /\ thread'[t].pc = "start"
                 /\ thread'[t].added = {}
              \/ /\ thread[t].pc = "reload" /\ thread'[t].pc = "retry"
                 /\ thread'[t].added = thread[t].added
              \/ thread[t].pc = "torn" /\ thread'[t].pc = "unlocked"
  <1> DEFINE s == thread[t]
             j == JobOf(t)
  <1>1. s \in Sessions /\ j \in Jobs /\ row[j] \in Row
    BY DEF TypeOK, TasksHaveJobs, Load, Reload, Refresh
  <1>2. Quiet /\ UNCHANGED <<lock, runs, lost, torn>>
    BY DEF Load, Reload, Refresh, Quiet
  <1>3. CASE Load(t)
    <2> DEFINE b == Blank(t, "start")
               c == [b EXCEPT !.copy = row[j]]
    <2>1. /\ b \in Sessions /\ b.pc = "start" /\ b.task = s.task /\ b.added = {}
      BY Blanks DEF Pcs
    <2>2. thread' = [thread EXCEPT ![t] = c] /\ s.pc = "load"
      BY <1>3 DEF Load
    <2> HIDE DEF b
    <2>3. /\ c \in Sessions /\ c.pc = "start" /\ c.task = s.task /\ c.added = {}
          /\ c.copy = row[j]
      BY <1>1, <2>1 DEF Sessions
    <2> HIDE DEF c
    <2> QED BY <1>1, <1>2, <2>2, <2>3, Replaced
  <1>4. ASSUME NEW pc \in {"retry", "unlocked"},
               thread' = [thread EXCEPT ![t].pc = pc, ![t].copy = row[j]]
        PROVE  /\ Mine(t) /\ JobOf(t)' = j /\ thread'[t].copy = row[j]
               /\ thread'[t].pc = pc /\ thread'[t].added = s.added
    <2> DEFINE c == [s EXCEPT !.pc = pc, !.copy = row[j]]
    <2>1. thread' = [thread EXCEPT ![t] = c]
      BY <1>4 DEF TypeOK
    <2>2. /\ c \in Sessions /\ c.pc = pc /\ c.task = s.task /\ c.copy = row[j]
          /\ c.added = s.added
      BY <1>1 DEF Sessions
    <2> HIDE DEF c
    <2> QED BY <2>1, <2>2, Replaced
  <1>5. CASE Reload(t)
    BY <1>1, <1>2, <1>4, <1>5 DEF Reload
  <1>6. CASE Refresh(t)
    BY <1>1, <1>2, <1>4, <1>6 DEF Refresh
  <1> QED BY <1>3, <1>5, <1>6

(* What the session writes when it takes the lock.                         *)
Writes(t, c) == thread'[t].draft = Flush(thread[t].copy, c, row[JobOf(t)])

(* A session takes the lock of its row.                                    *)
LEMMA Locks ==
    ASSUME TypeOK, TasksHaveJobs, NEW t \in Threads, Start(t) \/ Retry(t) \/ Relock(t)
    PROVE  /\ Mine(t) /\ Quiet /\ UNCHANGED <<lost, torn>>
           /\ JobOf(t)' = JobOf(t) /\ JobOf(t) \in Jobs
           /\ lock[JobOf(t)] = NoOne
           /\ lock' = [lock EXCEPT ![JobOf(t)] = t]
           /\ runs' = [runs EXCEPT ![JobOf(t)] = @ + 1]
           /\ \/ /\ thread[t].pc = "start" /\ thread'[t].pc = "unpack"
                 /\ thread'[t].copy = Started(thread[t].copy, runs[JobOf(t)] + 1)
                 /\ Writes(t, thread'[t].copy)
                 /\ thread'[t].added = thread[t].added
                 /\ thread'[t].known = {m \in Members : kids[JobOf(t)][m] > 0}
                 /\ thread'[t].todo = Members
              \/ /\ thread[t].pc = "retry" /\ thread'[t].pc = "commit"
                 /\ thread'[t].copy = Absent
                 /\ Writes(t, Failed(thread[t].copy, runs[JobOf(t)] + 1))
                 /\ thread'[t].added = thread[t].added
              \/ /\ thread[t].pc = "unlocked" /\ thread'[t].pc = "finish"
                 /\ thread'[t].copy = [thread[t].copy EXCEPT !.stage = "working"]
                 /\ Writes(t, thread'[t].copy)
  <1> DEFINE s == thread[t]
             j == JobOf(t)
  <1>0. s.pc \in {"start", "retry", "unlocked"}
    BY DEF Start, Retry, Relock
  <1>1. /\ s \in Sessions /\ j \in Jobs /\ row[j] \in Row /\ runs[j] + 1 \in Nat
    BY <1>0 DEF TypeOK, TasksHaveJobs
  <1>2. s.copy \in Row /\ s.added \in SUBSET Members
    BY <1>1 DEF Sessions
  <1>3. /\ Quiet /\ UNCHANGED <<lost, torn>> /\ lock[j] = NoOne
        /\ lock' = [lock EXCEPT ![j] = t] /\ runs' = [runs EXCEPT ![j] = @ + 1]
    BY DEF Start, Retry, Relock, Quiet
  <1>4. CASE Start(t)
    <2> DEFINE d == Started(s.copy, runs[j] + 1)
               f == Flush(s.copy, d, row[j])
               k == {m \in Members : kids[j][m] > 0}
               c == [s EXCEPT !.pc = "unpack", !.copy = d, !.draft = f, !.known = k,
                              !.todo = Members]
    <2>1. d \in Row /\ f \in Row
      BY <1>1, <1>2, RowOperators
    <2> HIDE DEF d, f
    <2>2. thread' = [thread EXCEPT ![t] = c] /\ s.pc = "start"
      BY <1>4 DEF Start, TypeOK, d, f
    <2>3. /\ c \in Sessions /\ c.pc = "unpack" /\ c.task = s.task /\ c.copy = d
          /\ c.draft = f /\ c.added = s.added /\ c.known = k /\ c.todo = Members
      BY <1>1, <2>1 DEF Sessions
    <2> HIDE DEF c
    <2> QED BY <1>1, <1>3, <2>2, <2>3, Replaced DEF d, f, Writes
  <1>5. CASE Retry(t)
    <2> DEFINE b == Blank(t, "commit")
               d == Failed(s.copy, runs[j] + 1)
               f == Flush(s.copy, d, row[j])
               c == [b EXCEPT !.draft = f, !.added = s.added]
    <2>1. d \in Row /\ f \in Row
      BY <1>1, <1>2, RowOperators
    <2> HIDE DEF f
    <2>2. thread' = [thread EXCEPT ![t] = c] /\ s.pc = "retry"
      BY <1>5 DEF Retry, f
    <2>3. /\ b \in Sessions /\ b.pc = "commit" /\ b.task = s.task /\ b.copy = Absent
      BY Blanks DEF Pcs
    <2> HIDE DEF b
    <2>4. /\ c \in Sessions /\ c.pc = "commit" /\ c.task = s.task /\ c.draft = f
          /\ c.added = s.added /\ c.copy = Absent
      BY <1>1, <1>2, <2>1, <2>3 DEF Sessions
    <2> HIDE DEF c
    <2> QED BY <1>1, <1>3, <2>2, <2>4, Replaced DEF f, Writes
  <1>6. CASE Relock(t)
    <2> DEFINE d == [s.copy EXCEPT !.stage = "working"]
               f == Flush(s.copy, d, row[j])
               a == NewRows(t, s.todo)
               c == [s EXCEPT !.pc = "finish", !.copy = d, !.draft = f, !.added = a,
                              !.known = {}, !.todo = {}]
    <2>1. d \in Row
      BY <1>2 DEF Row, Stages
    <2>2. f \in Row
      BY <1>1, <1>2, <2>1, 0 \in Nat, RowOperators
    <2>3. a \subseteq Members
      BY <1>1 DEF NewRows, Sessions
    <2> HIDE DEF d, f, a
    <2>4. thread' = [thread EXCEPT ![t] = c] /\ s.pc = "unlocked"
      BY <1>6 DEF Relock, TypeOK, d, f, a
    <2>5. /\ c \in Sessions /\ c.pc = "finish" /\ c.task = s.task /\ c.copy = d
          /\ c.draft = f
      BY <1>1, <2>1, <2>2, <2>3 DEF Sessions
    <2> HIDE DEF c
    <2> QED BY <1>1, <1>3, <2>4, <2>5, Replaced DEF d, f, Writes
  <1> QED BY <1>4, <1>5, <1>6

LEMMA PrefixesAre ==
    ASSUME NEW S, NEW done \in Prefixes(S)
    PROVE  done \subseteq S
  BY DEF Prefixes

(* A session gets on, or not, with its work on the members.                *)
LEMMA Works ==
    ASSUME TypeOK, TasksHaveJobs, NEW t \in Threads,
           Unpack(t) \/ Hang(t) \/ FailUnlocked(t)
    PROVE  /\ Mine(t) /\ Quiet /\ UNCHANGED <<lock, runs, lost, torn>>
           /\ JobOf(t)' = JobOf(t) /\ JobOf(t) \in Jobs
           /\ \/ /\ thread[t].pc = "unpack" /\ thread'[t].pc = "finish"
                 /\ thread'[t].copy = thread[t].copy /\ thread'[t].draft = thread[t].draft
                 /\ thread'[t].todo = {}
                 /\ thread'[t].added = NewRows(t, thread[t].todo)
              \/ /\ thread[t].pc \in {"unpack", "unlocked", "finish"}
                 /\ thread'[t].pc = "hung"
              \/ /\ thread[t].pc = "unlocked" /\ thread'[t].pc = "retry"
                 /\ thread'[t].copy = thread[t].copy
  <1> DEFINE s == thread[t]
             j == JobOf(t)
  <1>1. s.pc \in {"unpack", "unlocked", "finish"} /\ s \in Sessions
    BY DEF Unpack, Hang, FailUnlocked, TypeOK
  <1>2. j \in Jobs /\ s.copy \in Row /\ s.draft \in Row /\ s.todo \subseteq Members
    BY <1>1 DEF TasksHaveJobs, Sessions
  <1>3. Quiet /\ UNCHANGED <<lock, runs, lost, torn>>
    BY DEF Unpack, Hang, FailUnlocked, Quiet
  <1>4. ASSUME NEW S, S \subseteq s.todo
        PROVE  NewRows(t, S) \subseteq Members
    BY <1>2, <1>4 DEF NewRows
  <1>5. CASE Unpack(t)
    <2> DEFINE a == NewRows(t, s.todo)
               c == [s EXCEPT !.pc = "finish", !.added = a, !.known = {}, !.todo = {}]
    <2> HIDE DEF a
    <2>1. thread' = [thread EXCEPT ![t] = c] /\ s.pc = "unpack"
      BY <1>5 DEF Unpack, TypeOK, a
    <2>2. /\ c \in Sessions /\ c.pc = "finish" /\ c.task = s.task /\ c.copy = s.copy
          /\ c.draft = s.draft /\ c.todo = {} /\ c.added = a
      BY <1>1, <1>4 DEF Sessions, a
    <2> HIDE DEF c
    <2> QED BY <1>2, <1>3, <2>1, <2>2, Replaced DEF a
  <1>6. CASE Hang(t)
    <2> DEFINE c == Blank(t, "hung")
    <2>1. c \in Sessions /\ c.pc = "hung" /\ c.task = s.task
      BY Blanks DEF Pcs
    <2>2. thread' = [thread EXCEPT ![t] = c]
      BY <1>6 DEF Hang
    <2> HIDE DEF c
    <2> QED BY <1>1, <1>2, <1>3, <2>1, <2>2, Replaced
  <1>7. CASE FailUnlocked(t)
    <2>1. PICK done \in Prefixes(s.todo) :
             thread' = [thread EXCEPT ![t] = [Blank(t, "retry") EXCEPT
                           !.copy = s.copy, !.added = NewRows(t, done)]]
      BY <1>7 DEF FailUnlocked
    <2> DEFINE b == Blank(t, "retry")
               a == NewRows(t, done)
               c == [b EXCEPT !.copy = s.copy, !.added = a]
    <2>2. b \in Sessions /\ b.pc = "retry" /\ b.task = s.task
      BY Blanks DEF Pcs
    <2>3. a \subseteq Members
      BY <1>4, PrefixesAre
    <2> HIDE DEF a, b
    <2>4. /\ c \in Sessions /\ c.pc = "retry" /\ c.task = s.task /\ c.copy = s.copy
      BY <1>2, <2>2, <2>3 DEF Sessions
    <2>5. thread' = [thread EXCEPT ![t] = c] /\ s.pc = "unlocked"
      BY <1>7, <2>1 DEF FailUnlocked, a, b
    <2> HIDE DEF c
    <2> QED BY <1>2, <1>3, <2>4, <2>5, Replaced
  <1> QED BY <1>5, <1>6, <1>7

(* The outcomes a session writes, each at its place.                       *)
Outcome(t, d, added) ==
    LET s == thread[t] IN
    \/ /\ s.pc = "unpack" /\ added = {}
       /\ d.status = "awaiting_password" /\ d.completed = NULL
       /\ d.first = s.copy.first
    \/ /\ s.pc = "finish" /\ added = s.added
       /\ d.status = "completed" /\ d.stage = "complete"
       /\ d.completed = runs[JobOf(t)]
       /\ d.first = FirstCompleted(s.copy, runs[JobOf(t)])
    \/ /\ s.pc \in {"unpack", "finish"}
       /\ \E done \in Prefixes(s.todo) : added = s.added \cup NewRows(t, done)
       /\ d.status = "failed" /\ d.stage = s.copy.stage
       /\ d.completed = runs[JobOf(t)] /\ d.first = s.copy.first

(* A session with the lock of its row writes the outcome of its run.       *)
LEMMA Records ==
    ASSUME TypeOK, TasksHaveJobs, NEW t \in Threads, Park(t) \/ Complete(t) \/ Fail(t)
    PROVE  /\ Mine(t) /\ Quiet /\ UNCHANGED <<lock, runs, lost, torn>>
           /\ JobOf(t)' = JobOf(t) /\ JobOf(t) \in Jobs
           /\ thread[t].pc \in {"unpack", "finish"} /\ thread'[t].pc = "commit"
           /\ thread'[t].copy = Absent
           /\ \E d \in Row : /\ thread'[t].draft = Flush(thread[t].copy, d, thread[t].draft)
                             /\ Outcome(t, d, thread'[t].added)
  <1> DEFINE s == thread[t]
             j == JobOf(t)
  <1>1. s.pc \in {"unpack", "finish"} /\ s \in Sessions
    BY DEF Park, Complete, Fail, TypeOK
  <1>2. /\ j \in Jobs /\ s.copy \in Row /\ s.draft \in Row /\ s.added \subseteq Members
        /\ s.todo \subseteq Members
    BY <1>1 DEF TasksHaveJobs, Sessions
  <1>3. Quiet /\ UNCHANGED <<lock, runs, lost, torn>> /\ runs[j] \in Nat
    BY <1>2 DEF Park, Complete, Fail, Quiet, TypeOK
  <1>4. ASSUME NEW d \in Row, NEW added \in SUBSET Members, thread' = Record(t, d, added),
               Outcome(t, d, added)
        PROVE  /\ Mine(t) /\ JobOf(t)' = j /\ thread'[t].pc = "commit"
               /\ thread'[t].copy = Absent
               /\ thread'[t].draft = Flush(s.copy, d, s.draft)
               /\ Outcome(t, d, thread'[t].added)
    <2> DEFINE b == Blank(t, "commit")
               f == Flush(s.copy, d, s.draft)
               c == [b EXCEPT !.draft = f, !.added = added]
    <2>1. b \in Sessions /\ b.pc = "commit" /\ b.task = s.task /\ b.copy = Absent
      BY Blanks DEF Pcs
    <2>2. f \in Row
      BY <1>2, 0 \in Nat, RowOperators
    <2> HIDE DEF b, f
    <2>3. /\ c \in Sessions /\ c.pc = "commit" /\ c.task = s.task /\ c.draft = f
          /\ c.added = added /\ c.copy = Absent
      BY <2>1, <2>2 DEF Sessions
    <2>4. thread' = [thread EXCEPT ![t] = c]
      BY <1>4 DEF Record, b, f
    <2> HIDE DEF c
    <2>5. Mine(t) /\ thread'[t] = c /\ JobOf(t)' = j
      BY <2>3, <2>4, Replaced
    <2> QED BY <1>4, <2>3, <2>5 DEF f
  <1>5. CASE Park(t)
    <2> DEFINE d == Parked(s.copy, s.task.password)
    <2>1. d \in Row
      BY <1>2, 0 \in Nat, RowOperators
    <2>2. d.status = "awaiting_password" /\ d.completed = NULL /\ d.first = s.copy.first
      BY <1>2 DEF Parked, Row
    <2> HIDE DEF d
    <2>3. thread' = Record(t, d, {}) /\ s.pc = "unpack"
      BY <1>5 DEF Park, d
    <2>4. Outcome(t, d, {})
      BY <2>2, <2>3 DEF Outcome
    <2> QED BY <1>1, <1>2, <1>3, <1>4, <2>1, <2>3, <2>4
  <1>6. CASE Complete(t)
    <2> DEFINE d == Completed(s.copy, runs[j])
    <2>1. d \in Row
      BY <1>2, <1>3, RowOperators
    <2>2. /\ d.status = "completed" /\ d.stage = "complete" /\ d.completed = runs[j]
          /\ d.first = FirstCompleted(s.copy, runs[j])
      BY <1>2 DEF Completed, Row
    <2> HIDE DEF d
    <2>3. thread' = Record(t, d, s.added) /\ s.pc = "finish"
      BY <1>6 DEF Complete, d
    <2>4. Outcome(t, d, s.added)
      BY <2>2, <2>3 DEF Outcome
    <2> QED BY <1>1, <1>2, <1>3, <1>4, <2>1, <2>3, <2>4
  <1>7. CASE Fail(t)
    <2> DEFINE d == Failed(s.copy, runs[j])
    <2>1. d \in Row
      BY <1>2, <1>3, RowOperators
    <2>2. /\ d.status = "failed" /\ d.stage = s.copy.stage /\ d.completed = runs[j]
          /\ d.first = s.copy.first
      BY <1>2 DEF Failed, Row
    <2> HIDE DEF d
    <2>3. PICK done \in Prefixes(s.todo) :
             thread' = Record(t, d, s.added \cup NewRows(t, done))
      BY <1>7 DEF Fail, d
    <2> DEFINE a == s.added \cup NewRows(t, done)
    <2>4. a \subseteq Members
      BY <1>2, PrefixesAre DEF NewRows
    <2>5. Outcome(t, d, a)
      BY <1>1, <2>2 DEF Outcome
    <2> HIDE DEF a
    <2>6. thread' = Record(t, d, a)
      BY <2>3 DEF a
    <2> QED BY <1>1, <1>2, <1>3, <1>4, <2>1, <2>4, <2>5, <2>6
  <1> QED BY <1>5, <1>6, <1>7

(* A rollback gives back the lock of its session and no other; the session *)
(* is left with its task, or with nothing.                                 *)
LEMMA RollsBack ==
    ASSUME TypeOK, TasksHaveJobs, NEW t \in Threads, Poison(t) \/ Tear(t) \/ Lose(t)
    PROVE  /\ Quiet /\ UNCHANGED runs /\ JobOf(t) \in Jobs /\ thread[t].pc # "idle"
           /\ thread' \in [Threads -> Sessions]
           /\ \A u \in Threads \ {t} : thread'[u] = thread[u]
           /\ lock' = Release(t)
           /\ thread'[t].pc \in {"reload", "torn"} =>
                 /\ thread'[t].task = thread[t].task /\ thread[t].pc # "hung"
                 /\ thread'[t].added = {} /\ UNCHANGED lost
           /\ \/ thread'[t].pc = "reload" /\ UNCHANGED torn
              \/ thread'[t].pc = "torn" /\ torn' = torn \cup {JobOf(t)}
              \/ /\ thread'[t].pc = "idle" /\ UNCHANGED torn
                 /\ lost' = lost \cup {JobOf(t)}
  <1> DEFINE s == thread[t]
             j == JobOf(t)
  <1>1. s.pc \notin {"idle", "hung"} /\ s \in Sessions
    BY DEF Poison, Tear, Lose, TypeOK
  <1>2. j \in Jobs /\ Quiet /\ UNCHANGED runs /\ lock' = Release(t)
    BY <1>1 DEF Poison, Tear, Lose, Quiet, TasksHaveJobs
  <1>3. CASE Poison(t)
    <2> DEFINE c == Blank(t, "reload")
    <2>1. c \in Sessions /\ c.pc = "reload" /\ c.task = s.task /\ c.added = {}
      BY Blanks DEF Pcs
    <2>2. thread' = [thread EXCEPT ![t] = c] /\ UNCHANGED <<lost, torn>>
      BY <1>3 DEF Poison
    <2> HIDE DEF c
    <2> QED BY <1>1, <1>2, <2>1, <2>2, Replaced DEF Mine
  <1>4. CASE Tear(t)
    <2>1. PICK gone \in Prefixes(s.todo) \ {{}} :
             thread' = [thread EXCEPT ![t] = [Blank(t, "torn") EXCEPT
                          !.known = s.known, !.todo = s.todo \ gone]]
      BY <1>4 DEF Tear
    <2> DEFINE b == Blank(t, "torn")
               c == [b EXCEPT !.known = s.known, !.todo = s.todo \ gone]
    <2>2. b \in Sessions /\ b.pc = "torn" /\ b.task = s.task /\ b.added = {}
      BY Blanks DEF Pcs
    <2> HIDE DEF b
    <2>3. c \in Sessions /\ c.pc = "torn" /\ c.task = s.task /\ c.added = {}
      BY <1>1, <2>2 DEF Sessions
    <2>4. /\ thread' = [thread EXCEPT ![t] = c] /\ UNCHANGED lost
          /\ torn' = torn \cup {j}
      BY <1>4, <2>1 DEF Tear, b
    <2> HIDE DEF c
    <2> QED BY <1>1, <1>2, <2>3, <2>4, Replaced DEF Mine
  <1>5. CASE Lose(t)
    <2>1. /\ thread' = [thread EXCEPT ![t] = FreeThread] /\ UNCHANGED torn
          /\ lost' = lost \cup {j}
      BY <1>5 DEF Lose
    <2>2. FreeThread.pc = "idle" /\ FreeThread \in Sessions
      BY FreeOnes DEF FreeThread
    <2>3. /\ thread'[t] = FreeThread /\ thread' \in [Threads -> Sessions]
          /\ \A u \in Threads \ {t} : thread'[u] = thread[u]
      BY <2>1, <2>2 DEF TypeOK
    <2> QED BY <1>1, <1>2, <2>1, <2>2, <2>3
  <1> QED BY <1>3, <1>4, <1>5

-----------------------------------------------------------------------------
(* A step of one session that no other session sees: it touches no lock    *)
(* but its own, and whoever was going to settle the job still is, or the   *)
(* log has it.                                                             *)
LEMMA SessionStep ==
    ASSUME IInv, NEW t \in Threads, Quiet, thread[t].pc # "idle",
           thread' \in [Threads -> Sessions],
           \A u \in Threads \ {t} : thread'[u] = thread[u],
           thread'[t].pc # "idle" => thread'[t].task = thread[t].task,
           runs' \in [Jobs -> Nat], lock' \in [Jobs -> Threads \cup {NoOne}],
           torn' \subseteq Jobs, lost' \subseteq Jobs, lost \subseteq lost',
           \A i \in Jobs : lock[i] \notin {t, NoOne} => lock'[i] = lock[i],
           thread'[t].pc \in Locked => lock'[JobOf(t)] = t,
           thread'[t].pc = "unpack" => thread'[t].copy.status = "running",
           Decided(thread'[t]) => \/ Settled(thread'[t].draft)
                                  \/ thread'[t].draft.status = row[JobOf(t)].status,
           \/ ~Settles(thread[t]) \/ Settles(thread'[t])
           \/ row[JobOf(t)].status \notin InFlight \/ JobOf(t) \in lost'
    PROVE  IInv'
  <1>1. /\ \A u \in Threads : thread'[u].pc # "idle" => JobOf(u)' = JobOf(u)
        /\ \A u \in Threads : thread'[u].pc # "idle" => thread[u].pc # "idle"
    BY DEF JobOf
  <1>2. UNCHANGED <<row, kids, stale, queue, handler, up, served, crashes>>
    BY DEF Quiet
  <1>3. up /\ JobOf(t) \in Jobs
    BY DEF IInv, DownIsIdle, TasksHaveJobs
  <1>4. TypeOK'
    BY <1>2 DEF IInv, TypeOK
  <1>5. TasksHaveJobs'
    BY <1>1, <1>2 DEF IInv, TasksHaveJobs
  <1>6. WritersHoldLock'
    <2> SUFFICES ASSUME NEW u \in Threads, thread'[u].pc \in Locked
                 PROVE  lock'[JobOf(u)] = u
      BY <1>1 DEF WritersHoldLock, Locked
    <2>1. CASE u # t
      <3>1. lock[JobOf(u)] = u /\ JobOf(u) \in Jobs
        BY <2>1 DEF IInv, WritersHoldLock, TasksHaveJobs, Locked
      <3> QED BY <2>1, <3>1
    <2> QED BY <2>1
  <1>7. RunsBelieve'
    BY DEF IInv, RunsBelieve
  <1>8. CommitsSettle'
    <2> SUFFICES ASSUME NEW u \in Threads, Decided(thread'[u])
                 PROVE  \/ Settled(thread'[u].draft)
                        \/ thread'[u].draft.status = row[JobOf(u)].status
      BY <1>1, <1>2 DEF CommitsSettle, Decided, Settled
    <2> QED BY DEF IInv, CommitsSettle
  <1>9. NoDeadOwner'
    <2> SUFFICES ASSUME NEW i \in Jobs, row[i].status \in InFlight, i \notin lost'
                 PROVE  LiveOwner(i)' \/ Untouched(i)'
      BY <1>2, <1>3 DEF NoDeadOwner
    <2>1. LiveOwner(i) \/ Untouched(i)
      BY <1>3 DEF IInv, NoDeadOwner
    <2>2. CASE \E u \in Threads : Settles(thread[u]) /\ JobOf(u) = i
      <3>1. PICK u \in Threads : Settles(thread[u]) /\ JobOf(u) = i
        BY <2>2
      <3>2. Settles(thread'[u]) /\ thread'[u].pc # "idle"
        BY <3>1 DEF Settles
      <3> QED BY <1>1, <3>1, <3>2 DEF LiveOwner, Settles
    <2>3. CASE Untouched(i)
      BY <1>1, <1>2, <2>3 DEF Untouched
    <2> QED BY <1>2, <2>1, <2>2, <2>3 DEF LiveOwner
  <1>10. DownIsIdle'
    BY <1>2, <1>3 DEF DownIsIdle
  <1> QED BY <1>4, <1>5, <1>6, <1>7, <1>8, <1>9, <1>10 DEF IInv

LEMMA ReadSteps ==
    ASSUME IInv, NEW t \in Threads, Load(t) \/ Reload(t) \/ Refresh(t)
    PROVE  IInv'
  <1>1. TypeOK /\ TasksHaveJobs
    BY DEF IInv
  <1>2. /\ thread[t].pc # "idle" /\ thread'[t].pc \notin Locked /\ ~Decided(thread'[t])
        /\ Settles(thread'[t]) \/ row[JobOf(t)].status \notin InFlight
    BY <1>1, Reads DEF Locked, Decided, Settles, Outcomes, InFlight
  <1>3. /\ runs' \in [Jobs -> Nat] /\ lock' \in [Jobs -> Threads \cup {NoOne}]
        /\ torn' \subseteq Jobs /\ lost' \subseteq Jobs /\ lost \subseteq lost'
        /\ \A i \in Jobs : lock'[i] = lock[i]
    BY <1>1, Reads DEF TypeOK
  <1>4. Mine(t) /\ Quiet
    BY <1>1, Reads
  <1> QED BY <1>2, <1>3, <1>4, SessionStep DEF Mine, Locked

LEMMA WorkSteps ==
    ASSUME IInv, NEW t \in Threads, Unpack(t) \/ Hang(t) \/ FailUnlocked(t)
    PROVE  IInv'
  <1>1. TypeOK /\ TasksHaveJobs
    BY DEF IInv
  <1>2. thread[t].pc # "idle" /\ thread'[t].pc \in {"finish", "hung", "retry"}
    BY <1>1, Works
  <1>3. thread[t].pc = "unpack" => thread[t].copy.status = "running"
    BY DEF IInv, RunsBelieve
  <1>4. ~Decided(thread'[t]) /\ (~Settles(thread[t]) \/ Settles(thread'[t]))
    BY <1>1, <1>3, Works DEF Decided, Settles, Outcomes
  <1>5. thread'[t].pc \in Locked => lock[JobOf(t)] = t
    <2>1. thread'[t].pc \in Locked => thread[t].pc = "unpack"
      BY <1>1, Works DEF Locked
    <2> QED BY <2>1 DEF IInv, WritersHoldLock, Locked
  <1>6. /\ runs' \in [Jobs -> Nat] /\ lock' \in [Jobs -> Threads \cup {NoOne}]
        /\ torn' \subseteq Jobs /\ lost' \subseteq Jobs /\ lost \subseteq lost'
        /\ lock' = lock
    BY <1>1, Works DEF TypeOK
  <1>7. Mine(t) /\ Quiet
    BY <1>1, Works
  <1> QED BY <1>2, <1>4, <1>5, <1>6, <1>7, SessionStep DEF Mine

LEMMA RecordSteps ==
    ASSUME IInv, NEW t \in Threads, Park(t) \/ Complete(t) \/ Fail(t)
    PROVE  IInv'
  <1> DEFINE s == thread[t]
             s1 == thread'[t]
             j == JobOf(t)
  <1>1. TypeOK /\ TasksHaveJobs
    BY DEF IInv
  <1>2. PICK d \in Row : /\ s1.draft = Flush(s.copy, d, s.draft)
                         /\ Outcome(t, d, s1.added)
    BY <1>1, Records
  <1>3. /\ s.pc \in {"unpack", "finish"} /\ s1.pc = "commit"
        /\ Mine(t) /\ Quiet /\ UNCHANGED <<lock, runs, lost, torn>> /\ j \in Jobs
    BY <1>1, Records
  <1>4. /\ s.pc = "unpack" => s.copy.status = "running"
        /\ Decided(s) => Settled(s.draft) \/ s.draft.status = row[j].status
        /\ lock[j] = t
    BY <1>3 DEF IInv, RunsBelieve, CommitsSettle, WritersHoldLock, Locked
  <1>5. s1.draft.status = IF d.status = s.copy.status THEN s.draft.status ELSE d.status
    BY <1>2 DEF Flush, Written
  <1>6. /\ d.status \in {"awaiting_password", "completed", "failed"}
        /\ d.status = "awaiting_password" => s.pc = "unpack"
    BY <1>2 DEF Outcome
  <1>7. Settled(s1.draft) \/ s1.draft.status = row[j].status
    BY <1>3, <1>4, <1>5, <1>6 DEF Decided, Outcomes, Settled, InFlight
  <1>8. Settles(s) => Settles(s1)
    BY <1>3, <1>4, <1>5, <1>6 DEF Settles, Outcomes, Settled, InFlight
  <1>9. /\ runs' \in [Jobs -> Nat] /\ lock' \in [Jobs -> Threads \cup {NoOne}]
        /\ torn' \subseteq Jobs /\ lost' \subseteq Jobs /\ lost \subseteq lost'
    BY <1>1, <1>3 DEF TypeOK
  <1> QED BY <1>3, <1>4, <1>7, <1>8, <1>9, SessionStep DEF Mine

LEMMA LockSteps ==
    ASSUME IInv, NEW t \in Threads, Start(t) \/ Retry(t) \/ Relock(t)
    PROVE  IInv'
  <1> DEFINE s == thread[t]
             s1 == thread'[t]
             j == JobOf(t)
  <1>1. TypeOK /\ TasksHaveJobs
    BY DEF IInv
  <1>2. /\ Mine(t) /\ Quiet /\ UNCHANGED <<lost, torn>> /\ j \in Jobs
        /\ lock[j] = NoOne /\ lock' = [lock EXCEPT ![j] = t]
        /\ runs' = [runs EXCEPT ![j] = @ + 1]
        /\ s.pc \in {"start", "retry", "unlocked"} /\ s1.pc \in Locked
    BY <1>1, Locks DEF Locked
  <1>3. s.copy \in Row /\ runs[j] + 1 \in Nat
    <2>1. s \in Sessions
      BY <1>1 DEF TypeOK
    <2> QED BY <1>1, <1>2, <2>1 DEF TypeOK, Sessions
  <1>4. /\ s1.pc = "unpack" => s1.copy.status = "running"
        /\ Decided(s1) => Settled(s1.draft) \/ s1.draft.status = row[j].status
        /\ Settles(s) => Settles(s1)
    <2>1. CASE s.pc = "start"
      <3>1. s1.pc = "unpack" /\ s1.copy = Started(s.copy, runs[j] + 1)
        BY <1>1, <2>1, Locks
      <3>2. s1.copy.status = "running"
        BY <1>3, <3>1 DEF Started, Row
      <3> QED BY <3>1, <3>2 DEF Decided, Settles
    <2>2. CASE s.pc = "retry"
      <3>1. /\ s1.pc = "commit"
            /\ s1.draft = Flush(s.copy, Failed(s.copy, runs[j] + 1), row[j])
        BY <1>1, <2>2, Locks DEF Writes
      <3>2. Failed(s.copy, runs[j] + 1).status = "failed"
        BY <1>3 DEF Failed, Row
      <3>3. s1.draft.status = IF s.copy.status = "failed" THEN row[j].status ELSE "failed"
        BY <3>1, <3>2 DEF Flush, Written
      <3> QED BY <2>2, <3>1, <3>3 DEF Decided, Settles, Settled, InFlight
    <2>3. CASE s.pc = "unlocked"
      <3>1. /\ s1.pc = "finish" /\ s1.copy = [s.copy EXCEPT !.stage = "working"]
            /\ s1.draft = Flush(s.copy, s1.copy, row[j])
        BY <1>1, <2>3, Locks DEF Writes
      <3>2. s1.copy.status = s.copy.status
        BY <1>3, <3>1 DEF Row
      <3>3. s1.draft.status = row[j].status
        BY <3>1, <3>2 DEF Flush, Written
      <3> QED BY <2>3, <3>1, <3>2, <3>3 DEF Decided, Settles
    <2> QED BY <1>2, <2>1, <2>2, <2>3
  <1>5. /\ lock \in [Jobs -> Threads \cup {NoOne}] /\ runs \in [Jobs -> Nat]
        /\ torn \subseteq Jobs /\ lost \subseteq Jobs
    BY <1>1 DEF TypeOK
  <1>6. /\ runs' \in [Jobs -> Nat] /\ lock' \in [Jobs -> Threads \cup {NoOne}]
        /\ torn' \subseteq Jobs /\ lost' \subseteq Jobs /\ lost \subseteq lost'
        /\ \A i \in Jobs : lock[i] \notin {t, NoOne} => lock'[i] = lock[i]
        /\ lock'[j] = t
    BY <1>2, <1>3, <1>5
  <1> QED BY <1>2, <1>4, <1>6, SessionStep DEF Mine

LEMMA RollbackSteps ==
    ASSUME IInv, NEW t \in Threads, Poison(t) \/ Tear(t) \/ Lose(t)
    PROVE  IInv'
  <1> DEFINE j == JobOf(t)
  <1>1. TypeOK /\ TasksHaveJobs
    BY DEF IInv
  <1>2. /\ Quiet /\ UNCHANGED runs /\ j \in Jobs /\ thread[t].pc # "idle"
        /\ thread' \in [Threads -> Sessions]
        /\ \A u \in Threads \ {t} : thread'[u] = thread[u]
        /\ lock' = Release(t)
        /\ thread'[t].pc \in {"reload", "torn", "idle"}
        /\ thread'[t].pc # "idle" => thread'[t].task = thread[t].task
    BY <1>1, RollsBack
  <1>3. Settles(thread'[t]) \/ j \in lost'
    BY <1>1, RollsBack DEF Settles
  <1>4. torn' \subseteq Jobs /\ lost' \subseteq Jobs /\ lost \subseteq lost'
    <2>1. torn \subseteq Jobs /\ lost \subseteq Jobs
      BY <1>1 DEF TypeOK
    <2>2. /\ torn' = torn \/ torn' = torn \cup {j}
          /\ lost' = lost \/ lost' = lost \cup {j}
      BY <1>1, RollsBack
    <2> QED BY <1>2, <2>1, <2>2
  <1>5. /\ lock' \in [Jobs -> Threads \cup {NoOne}] /\ runs' \in [Jobs -> Nat]
        /\ \A i \in Jobs : lock[i] \notin {t, NoOne} => lock'[i] = lock[i]
    BY <1>1, <1>2 DEF TypeOK, Release
  <1>6. thread'[t].pc \notin Locked /\ thread'[t].pc # "unpack" /\ ~Decided(thread'[t])
    BY <1>2 DEF Locked, Decided
  <1> QED BY <1>2, <1>3, <1>4, <1>5, <1>6, SessionStep

(* The commit: what it leaves in-flight was in-flight before, and is owned *)
(* by somebody else.                                                       *)
LEMMA CommitStep ==
    ASSUME IInv, NEW t \in Threads, Commit(t)
    PROVE  IInv'
  <1> DEFINE s == thread[t]
             j == JobOf(t)
  <1>1. s \in Sessions /\ s.pc = "commit" /\ j \in Jobs /\ up /\ lock[j] = t
    BY DEF IInv, TypeOK, TasksHaveJobs, DownIsIdle, WritersHoldLock, Commit, Locked
  <1>2. s.draft \in Row /\ (Settled(s.draft) \/ s.draft.status = row[j].status)
    BY <1>1 DEF Sessions, IInv, CommitsSettle, Decided
  <1>3. FreeThread \in Sessions /\ FreeThread.pc = "idle"
    BY FreeOnes DEF FreeThread
  <1>4. /\ \A u \in Threads : thread'[u] = IF u = t THEN FreeThread ELSE thread[u]
        /\ thread' \in [Threads -> Sessions]
    BY <1>3 DEF IInv, TypeOK, Commit
  <1>5. \A u \in Threads \ {t} : JobOf(u)' = JobOf(u)
    BY <1>4 DEF JobOf
  <1>6. \A i \in Jobs : row'[i] = IF i = j THEN s.draft ELSE row[i]
    BY DEF Commit, IInv, TypeOK
  <1>7. TypeOK'
    <2> DEFINE k == [m \in Members |-> kids[j][m] + IF m \in s.added THEN 1 ELSE 0]
    <2>1. kids' \in [Jobs -> Kids]
      <3>1. kids \in [Jobs -> Kids]
        BY DEF IInv, TypeOK
      <3>2. k \in Kids
        BY <1>1, <3>1 DEF Kids
      <3>3. kids' = [kids EXCEPT ![j] = k]
        BY DEF Commit
      <3> HIDE DEF k
      <3> QED BY <3>1, <3>2, <3>3
    <2>2. row' \in [Jobs -> Row]
      BY <1>2 DEF Commit, IInv, TypeOK
    <2>3. lost' \subseteq Jobs
      BY DEF Commit, IInv, TypeOK
    <2> QED BY <1>1, <1>4, <2>1, <2>2, <2>3 DEF IInv, TypeOK, Commit, Release
  <1>8. TasksHaveJobs'
    BY <1>3, <1>4, <1>5 DEF IInv, TasksHaveJobs, Commit
  <1>9. \A u \in Threads : thread'[u].pc \in Locked =>
           /\ u # t /\ thread'[u] = thread[u] /\ JobOf(u)' = JobOf(u)
           /\ lock[JobOf(u)] = u /\ JobOf(u) \in Jobs
    BY <1>3, <1>4, <1>5 DEF IInv, WritersHoldLock, TasksHaveJobs, Locked
  <1>10. WritersHoldLock'
    BY <1>9 DEF WritersHoldLock, Commit, Release
  <1>11. RunsBelieve'
    BY <1>3, <1>4 DEF IInv, RunsBelieve
  <1>12. CommitsSettle'
    <2> SUFFICES ASSUME NEW u \in Threads, Decided(thread'[u])
                 PROVE  \/ Settled(thread'[u].draft)
                        \/ thread'[u].draft.status = row'[JobOf(u)'].status
      BY DEF CommitsSettle, Decided, Settled
    <2>1. thread'[u].pc \in Locked
      BY DEF Decided, Locked
    <2>2. row'[JobOf(u)] = row[JobOf(u)]
      BY <1>1, <1>6, <1>9, <2>1
    <2> QED BY <1>9, <2>1, <2>2 DEF IInv, CommitsSettle
  <1>13. NoDeadOwner'
    <2> SUFFICES ASSUME NEW i \in Jobs, row'[i].status \in InFlight, i \notin lost'
                 PROVE  LiveOwner(i)' \/ Untouched(i)'
      BY DEF NoDeadOwner
    <2>1. row[i].status \in InFlight
      BY <1>1, <1>2, <1>6 DEF Settled
    <2>2. i = j => ~Settles(s)
      BY <1>1, <1>6 DEF Settles, Settled
    <2>3. i \notin lost
      BY <1>6 DEF Commit, Settled
    <2>4. LiveOwner(i) \/ Untouched(i)
      BY <1>1, <2>1, <2>3 DEF IInv, NoDeadOwner
    <2>5. CASE \E u \in Threads : Settles(thread[u]) /\ JobOf(u) = i
      <3>1. PICK u \in Threads : Settles(thread[u]) /\ JobOf(u) = i
        BY <2>5
      <3>2. u # t
        BY <2>2, <3>1
      <3>3. Settles(thread'[u]) /\ JobOf(u)' = i
        BY <1>4, <1>5, <3>1, <3>2 DEF Settles
      <3> QED BY <3>3 DEF LiveOwner, Settles
    <2>6. CASE Untouched(i)
      <3>1. i # j /\ row'[i] = row[i]
        BY <1>1, <1>6, <2>6 DEF Untouched
      <3>2. \A u \in Threads : thread'[u].pc # "idle" => JobOf(u)' # i
        BY <1>3, <1>4, <1>5, <2>6 DEF Untouched
      <3> QED BY <2>6, <3>1, <3>2 DEF Untouched
    <2> QED BY <2>4, <2>5, <2>6 DEF LiveOwner, Commit
  <1>14. DownIsIdle'
    BY <1>1 DEF DownIsIdle, Commit
  <1> QED BY <1>7, <1>8, <1>10, <1>11, <1>12, <1>13, <1>14 DEF IInv

(* A pool thread takes the first task of the queue and owns its job.       *)
LEMMA TakeStep ==
    ASSUME IInv, NEW t \in Threads, Take(t)
    PROVE  IInv'
  <1> DEFINE c == [FreeThread EXCEPT !.pc = "load", !.task = Head(queue)]
  <1>1. /\ queue \in Seq(Queued) /\ queue # <<>>
        /\ up
        /\ thread[t].pc = "idle"
        /\ queue' = Tail(queue)
        /\ UNCHANGED <<row, kids, stale, lock, runs, handler, up, lost, torn, served, crashes>>
    BY DEF IInv, TypeOK, Take
  <1>2. /\ Head(queue) \in Queued
        /\ Head(queue) = queue[1]
        /\ queue' \in Seq(Queued)
    BY <1>1, HeadTailProperties
  <1>3. Head(queue) \in Tasks /\ Head(queue).job \in Jobs
    BY <1>2 DEF Queued, Tasks
  <1>4. c \in Sessions /\ c.pc = "load" /\ c.task = Head(queue)
    BY <1>3, FreeOnes DEF Sessions
  <1>5. thread' = [thread EXCEPT ![t] = c]
    BY DEF Take
  <1> HIDE DEF c
  <1>6. /\ \A u \in Threads : thread'[u] = IF u = t THEN c ELSE thread[u]
        /\ thread' \in [Threads -> Sessions]
    BY <1>4, <1>5 DEF IInv, TypeOK
  <1>7. /\ \A u \in Threads \ {t} : JobOf(u)' = JobOf(u)
        /\ JobOf(t)' = Head(queue).job
    BY <1>4, <1>6 DEF JobOf
  <1>8. TypeOK'
    BY <1>1, <1>2, <1>6 DEF IInv, TypeOK
  <1>9. TasksHaveJobs'
    BY <1>1, <1>3, <1>6, <1>7 DEF IInv, TasksHaveJobs
  <1>10. WritersHoldLock'
    BY <1>1, <1>4, <1>6, <1>7 DEF IInv, WritersHoldLock, Locked
  <1>11. RunsBelieve'
    BY <1>4, <1>6 DEF IInv, RunsBelieve
  <1>12. CommitsSettle'
    BY <1>1, <1>4, <1>6, <1>7 DEF IInv, CommitsSettle, Decided
  <1>13. NoDeadOwner'
    <2> SUFFICES ASSUME NEW i \in Jobs, row[i].status \in InFlight, i \notin lost
                 PROVE  LiveOwner(i)' \/ Untouched(i)'
      BY <1>1 DEF NoDeadOwner
    <2>0. LiveOwner(i) \/ Untouched(i)
      BY <1>1 DEF IInv, NoDeadOwner
    <2>1. CASE \E u \in Threads : Settles(thread[u]) /\ JobOf(u) = i
      <3>1. PICK u \in Threads : Settles(thread[u]) /\ JobOf(u) = i
        BY <2>1
      <3>2. u # t
        BY <1>1, <3>1 DEF Settles
      <3>3. Settles(thread'[u]) /\ JobOf(u)' = i
        BY <1>6, <1>7, <3>1, <3>2 DEF Settles
      <3> QED BY <3>3 DEF LiveOwner, Settles
    <2>2. CASE \E k \in DOMAIN queue : queue[k].job = i
      <3>1. PICK k \in DOMAIN queue : queue[k].job = i
        BY <2>2
      <3>2. CASE k = 1
        <4>1. Settles(thread'[t]) /\ JobOf(t)' = i
          BY <1>2, <1>4, <1>6, <1>7, <3>1, <3>2 DEF Settles
        <4> QED BY <4>1 DEF LiveOwner, Settles
      <3>3. CASE k # 1
        <4>1. k - 1 \in DOMAIN queue' /\ queue'[k - 1] = queue[k]
          BY <1>1, <3>1, <3>3
        <4> QED BY <3>1, <4>1 DEF LiveOwner
      <3> QED BY <3>2, <3>3
    <2>3. CASE Untouched(i) /\ Head(queue).job # i
      BY <1>1, <1>6, <1>7, <2>3 DEF Untouched
    <2>4. CASE Head(queue).job = i
      <3>1. Settles(thread'[t]) /\ JobOf(t)' = i
        BY <1>4, <1>6, <1>7, <2>4 DEF Settles
      <3> QED BY <3>1 DEF LiveOwner, Settles
    <2> QED BY <1>1, <2>0, <2>1, <2>2, <2>3, <2>4 DEF LiveOwner
  <1>14. DownIsIdle'
    BY <1>1 DEF DownIsIdle
  <1> QED BY <1>8, <1>9, <1>10, <1>11, <1>12, <1>13, <1>14 DEF IInv

-----------------------------------------------------------------------------
(* The steps of a request handler, and of time and the process.            *)

(* What a step of a handler leaves alone is preserved; what it writes and  *)
(* whom it makes the owner is left to the handler.                         *)
LEMMA HandlerFrame ==
    ASSUME IInv, up, NEW r \in Requests, NEW h \in Handlers,
           h.pc # "idle" => h.task.job \in Jobs,
           handler' = [handler EXCEPT ![r] = h],
           UNCHANGED <<kids, stale, lock, runs, thread, up, torn, crashes>>,
           row' \in [Jobs -> Row], queue' \in Seq(Queued), served' \in Nat,
           lost' \subseteq Jobs,
           \A i \in Jobs : row[i].status \in InFlight /\ lock[i] # NoOne
                            => row'[i].status = row[i].status,
           \A i \in Jobs : row'[i].status \in InFlight =>
               LiveOwner(i)' \/ Untouched(i)' \/ i \in lost'
    PROVE  IInv'
  <1>1. /\ \A q \in Requests : handler'[q] = IF q = r THEN h ELSE handler[q]
        /\ handler' \in [Requests -> Handlers]
    BY DEF IInv, TypeOK
  <1>2. \A u \in Threads : thread'[u] = thread[u] /\ JobOf(u)' = JobOf(u)
    BY DEF JobOf
  <1>3. TypeOK'
    BY <1>1 DEF IInv, TypeOK
  <1>4. TasksHaveJobs'
    BY <1>1, <1>2 DEF IInv, TasksHaveJobs
  <1>5. WritersHoldLock' /\ RunsBelieve' /\ DownIsIdle'
    BY <1>2 DEF IInv, WritersHoldLock, RunsBelieve, DownIsIdle
  <1>6. CommitsSettle'
    <2> SUFFICES ASSUME NEW u \in Threads, Decided(thread[u])
                 PROVE  \/ Settled(thread[u].draft)
                        \/ thread[u].draft.status = row'[JobOf(u)].status
      BY <1>2 DEF CommitsSettle, Decided, Settled
    <2>1. JobOf(u) \in Jobs /\ lock[JobOf(u)] = u
      BY DEF Decided, IInv, TasksHaveJobs, WritersHoldLock, Locked
    <2> QED BY <2>1 DEF IInv, CommitsSettle, Settled
  <1>7. NoDeadOwner'
    BY DEF NoDeadOwner
  <1> QED BY <1>3, <1>4, <1>5, <1>6, <1>7 DEF IInv

(* An owner survives a step that keeps threads and queue and changes a     *)
(* handler that was not about to submit.                                   *)
LEMMA OwnersKept ==
    ASSUME NEW r \in Requests, NEW h, NEW i, handler \in [Requests -> Handlers],
           handler' = [handler EXCEPT ![r] = h], handler[r].pc # "submit",
           UNCHANGED <<queue, thread>>, LiveOwner(i)
    PROVE  LiveOwner(i)'
  <1>1. CASE \E q \in Requests : handler[q].pc = "submit" /\ handler[q].task.job = i
    <2>1. PICK q \in Requests : handler[q].pc = "submit" /\ handler[q].task.job = i
      BY <1>1
    <2>2. handler'[q] = handler[q]
      BY <2>1
    <2> QED BY <2>1, <2>2 DEF LiveOwner
  <1> QED BY <1>1 DEF LiveOwner, JobOf, Settles

LEMMA Arrivals ==
    ASSUME IInv, NEW r \in Requests, NEW j \in Jobs, Arrive(r, j)
    PROVE  IInv'
  <1>1. ASSUME NEW pc \in {"claim", "submit"}, NEW pw \in Passwords, NEW o \in Origins,
               Accept(r, pc, j, pw, o), row' \in [Jobs -> Row],
               \A i \in Jobs : \/ row'[i] = row[i]
                               \/ i = j /\ row[i].status = "absent" /\ pc = "submit"
        PROVE  IInv'
    <2> DEFINE h == [pc |-> pc, task |-> [job |-> j, password |-> pw, origin |-> o]]
    <2>1. h \in Handlers /\ h.pc = pc /\ h.task.job = j
      BY <1>1 DEF Handlers, Tasks
    <2>2. handler' = [handler EXCEPT ![r] = h] /\ handler \in [Requests -> Handlers]
      BY <1>1 DEF Accept, IInv, TypeOK
    <2> HIDE DEF h
    <2>3. \A i \in Jobs : row'[i].status \in InFlight =>
              LiveOwner(i)' \/ Untouched(i)' \/ i \in lost'
      <3> SUFFICES ASSUME NEW i \in Jobs, row'[i].status \in InFlight
                   PROVE  LiveOwner(i)' \/ Untouched(i)' \/ i \in lost'
        OBVIOUS
      <3>1. CASE row'[i] = row[i]
        <4>1. LiveOwner(i) \/ Untouched(i) \/ i \in lost
          BY <1>1, <3>1 DEF IInv, NoDeadOwner, Accept
        <4>2. LiveOwner(i) => LiveOwner(i)'
          BY <1>1, <2>2, OwnersKept DEF Accept
        <4>3. Untouched(i) => Untouched(i)'
          BY <1>1, <3>1 DEF Untouched, JobOf, Accept
        <4> QED BY <1>1, <4>1, <4>2, <4>3 DEF Accept
      <3>2. CASE i = j /\ pc = "submit"
        <4>1. handler'[r] = h
          BY <2>2
        <4> QED BY <2>1, <3>2, <4>1 DEF LiveOwner
      <3> QED BY <1>1, <3>1, <3>2
    <2>4. queue' \in Seq(Queued) /\ served' \in Nat /\ lost' \subseteq Jobs
      BY <1>1 DEF Accept, IInv, TypeOK
    <2>5. \A i \in Jobs : row[i].status \in InFlight => row'[i].status = row[i].status
      BY <1>1 DEF InFlight
    <2>6. up /\ UNCHANGED <<kids, stale, lock, runs, thread, up, torn, crashes>>
      BY <1>1 DEF Accept
    <2>7. row' \in [Jobs -> Row]
      BY <1>1
    <2> QED BY <2>1, <2>2, <2>3, <2>4, <2>5, <2>6, <2>7, HandlerFrame
  <1>2. row \in [Jobs -> Row]
    BY DEF IInv, TypeOK
  <1>3. "none" \in Passwords /\ "upload" \in Origins /\ "password" \in Origins
        /\ "reanalyze" \in Origins
    BY DEF Passwords, Origins
  <1>4. ASSUME NEW pw \in Passwords, Analyze(r, j, pw)
        PROVE  IInv'
    <2>1. NewRow \in Row
      <3>1. row[j] \in Row
        BY <1>2
      <3> QED BY <3>1, 0 \in Nat, RowOperators
    <2> QED BY <1>1, <1>2, <1>3, <1>4, <2>1 DEF Analyze
  <1>5. ASSUME NEW pw \in Passwords, ProvidePassword(r, j, pw)
        PROVE  IInv'
    BY <1>1, <1>2, <1>3, <1>5 DEF ProvidePassword
  <1>6. CASE Reanalyze(r, j)
    BY <1>1, <1>2, <1>3, <1>6 DEF Reanalyze
  <1> QED BY <1>4, <1>5, <1>6 DEF Arrive

(* The claim writes a row only when no run holds its lock, and the handler *)
(* that wrote it is going to submit.                                       *)
LEMMA ClaimStep ==
    ASSUME IInv, NEW r \in Requests, Claim(r)
    PROVE  IInv'
  <1> DEFINE j == handler[r].task.job
  <1>1. /\ handler \in [Requests -> Handlers] /\ handler[r].pc = "claim" /\ j \in Jobs
        /\ row \in [Jobs -> Row] /\ queue \in Seq(Queued) /\ served \in Nat
        /\ lost \subseteq Jobs /\ lock[j] = NoOne /\ up
        /\ UNCHANGED <<kids, stale, lock, runs, queue, thread, up, torn, served, crashes>>
    BY DEF IInv, TypeOK, TasksHaveJobs, Claim
  <1>2. \A i \in Jobs : row[i].status \in InFlight =>
            LiveOwner(i) \/ Untouched(i) \/ i \in lost
    BY <1>1 DEF IInv, NoDeadOwner
  <1>3. CASE /\ row' = [row EXCEPT ![j].status = "queued"]
             /\ handler' = [handler EXCEPT ![r].pc = "submit"]
             /\ lost' = lost \ {j}
    <2> DEFINE h == [handler[r] EXCEPT !.pc = "submit"]
    <2>1. h \in Handlers /\ h.pc = "submit" /\ h.task.job = j
      BY <1>1 DEF Handlers
    <2>2. handler' = [handler EXCEPT ![r] = h]
      BY <1>1, <1>3
    <2> HIDE DEF h
    <2>3. row' \in [Jobs -> Row] /\ lost' \subseteq Jobs
      BY <1>1, <1>3 DEF Row, Statuses
    <2>4. \A i \in Jobs : i # j => row'[i] = row[i]
      BY <1>1, <1>3
    <2>5. \A i \in Jobs : lock[i] # NoOne => row'[i].status = row[i].status
      BY <1>1, <2>4
    <2>6. \A i \in Jobs : row'[i].status \in InFlight =>
              LiveOwner(i)' \/ Untouched(i)' \/ i \in lost'
      <3> SUFFICES ASSUME NEW i \in Jobs, row'[i].status \in InFlight
                   PROVE  LiveOwner(i)' \/ Untouched(i)' \/ i \in lost'
        OBVIOUS
      <3>1. CASE i = j
        <4>1. handler'[r] = h
          BY <1>1, <2>2
        <4> QED BY <2>1, <3>1, <4>1 DEF LiveOwner
      <3>2. CASE i # j
        <4>1. LiveOwner(i) => LiveOwner(i)'
          BY <1>1, <2>2, OwnersKept
        <4>2. Untouched(i) => Untouched(i)'
          BY <1>1, <2>4, <3>2 DEF Untouched, JobOf
        <4> QED BY <1>2, <1>3, <2>4, <3>2, <4>1, <4>2
      <3> QED BY <3>1, <3>2
    <2> QED BY <1>1, <2>1, <2>2, <2>3, <2>5, <2>6, HandlerFrame
  <1>4. CASE handler' = [handler EXCEPT ![r] = FreeHandler] /\ UNCHANGED <<row, lost>>
    <2>1. FreeHandler \in Handlers /\ FreeHandler.pc = "idle"
      BY FreeOnes DEF FreeHandler
    <2>2. \A i \in Jobs : row'[i].status \in InFlight =>
              LiveOwner(i)' \/ Untouched(i)' \/ i \in lost'
      <3> SUFFICES ASSUME NEW i \in Jobs, row[i].status \in InFlight
                   PROVE  LiveOwner(i)' \/ Untouched(i)' \/ i \in lost'
        BY <1>4
      <3>1. LiveOwner(i) => LiveOwner(i)'
        BY <1>1, <1>4, OwnersKept
      <3>2. Untouched(i) => Untouched(i)'
        BY <1>1, <1>4 DEF Untouched, JobOf
      <3> QED BY <1>2, <1>4, <3>1, <3>2
    <2> QED BY <1>1, <1>4, <2>1, <2>2, HandlerFrame
  <1> QED BY <1>3, <1>4 DEF Claim

(* The hand-over: the queue takes the job over from the handler.           *)
LEMMA SubmitStep ==
    ASSUME IInv, NEW r \in Requests, Submit(r)
    PROVE  IInv'
  <1> DEFINE task == handler[r].task
  <1>1. /\ handler \in [Requests -> Handlers] /\ handler[r].pc = "submit" /\ task.job \in Jobs
        /\ row \in [Jobs -> Row] /\ queue \in Seq(Queued) /\ served \in Nat /\ up
        /\ lost \subseteq Jobs
        /\ queue' = Append(queue, task)
        /\ handler' = [handler EXCEPT ![r] = FreeHandler]
        /\ UNCHANGED <<row, kids, stale, lock, runs, thread, up, lost, torn, served, crashes>>
    BY DEF IInv, TypeOK, TasksHaveJobs, Submit
  <1>2. FreeHandler \in Handlers /\ FreeHandler.pc = "idle"
    BY FreeOnes DEF FreeHandler
  <1>3. task \in Queued
    BY <1>1 DEF Handlers, Tasks, Queued
  <1> HIDE DEF task
  <1>4. /\ queue' \in Seq(Queued)
        /\ Len(queue) + 1 \in DOMAIN queue' /\ queue'[Len(queue) + 1] = task
        /\ \A k \in DOMAIN queue : k \in DOMAIN queue' /\ queue'[k] = queue[k]
    BY <1>1, <1>3, AppendProperties
  <1>5. ASSUME NEW i \in Jobs, LiveOwner(i)
        PROVE  LiveOwner(i)'
    <2>1. CASE \E q \in Requests : handler[q].pc = "submit" /\ handler[q].task.job = i
      <3>1. PICK q \in Requests : handler[q].pc = "submit" /\ handler[q].task.job = i
        BY <2>1
      <3>2. CASE q = r
        <4>1. task.job = i
          BY <3>1, <3>2 DEF task
        <4> QED BY <1>4, <4>1 DEF LiveOwner
      <3>3. CASE q # r
        <4>1. handler'[q] = handler[q]
          BY <1>1, <3>3
        <4> QED BY <3>1, <4>1 DEF LiveOwner
      <3> QED BY <3>2, <3>3
    <2>2. CASE \E k \in DOMAIN queue : queue[k].job = i
      <3>1. PICK k \in DOMAIN queue : queue[k].job = i
        BY <2>2
      <3>2. k \in DOMAIN queue' /\ queue'[k].job = i
        BY <1>4, <3>1
      <3> QED BY <3>2 DEF LiveOwner
    <2>3. CASE \E u \in Threads : Settles(thread[u]) /\ JobOf(u) = i
      BY <1>1, <2>3 DEF LiveOwner, JobOf, Settles
    <2> QED BY <1>5, <2>1, <2>2, <2>3 DEF LiveOwner
  <1>6. \A i : Untouched(i) => Untouched(i)'
    BY <1>1 DEF Untouched, JobOf
  <1>7. \A i \in Jobs : row'[i].status \in InFlight =>
            LiveOwner(i)' \/ Untouched(i)' \/ i \in lost'
    BY <1>1, <1>5, <1>6 DEF IInv, NoDeadOwner
  <1> QED BY <1>1, <1>2, <1>4, <1>7, HandlerFrame

LEMMA AgeStep ==
    ASSUME IInv, NEW j \in Jobs, Age(j)
    PROVE  IInv'
  <1>1. UNCHANGED <<row, kids, lock, runs, queue, handler, thread, up, lost, torn, served,
                    crashes>>
    BY DEF Age
  <1>2. \A u \in Threads : thread'[u] = thread[u] /\ JobOf(u)' = JobOf(u)
    BY <1>1 DEF JobOf
  <1>3. TypeOK'
    BY <1>1 DEF IInv, TypeOK, Age
  <1>4. TasksHaveJobs' /\ WritersHoldLock' /\ RunsBelieve' /\ DownIsIdle'
    BY <1>1, <1>2 DEF IInv, TasksHaveJobs, WritersHoldLock, RunsBelieve, DownIsIdle
  <1>5. CommitsSettle'
    BY <1>1, <1>2 DEF IInv, CommitsSettle, Decided, Settled
  <1>6. ASSUME NEW i
        PROVE  /\ LiveOwner(i) => LiveOwner(i)'
               /\ Untouched(i) => Untouched(i)'
    BY <1>1 DEF LiveOwner, JobOf, Settles, Untouched
  <1>7. NoDeadOwner'
    BY <1>1, <1>6 DEF IInv, NoDeadOwner
  <1> QED BY <1>3, <1>4, <1>5, <1>7 DEF IInv

(* The process dies: nothing owns a job, and nothing claims to be up.      *)
LEMMA CrashStep ==
    ASSUME IInv, Crash
    PROVE  IInv'
  <1>1. /\ \A t \in Threads : thread'[t] = FreeThread
        /\ \A r \in Requests : handler'[r] = FreeHandler
        /\ ~up'
    BY DEF Crash
  <1>2. FreeThread.pc = "idle" /\ FreeHandler.pc = "idle"
    BY DEF FreeThread, FreeHandler
  <1>3. TypeOK'
    <2>1. crashes' \in Nat
      BY DEF IInv, TypeOK, Crash
    <2>2. queue' \in Seq(Queued)
      BY EmptySeq DEF Crash
    <2> QED BY <2>1, <2>2, FreeOnes DEF IInv, TypeOK, Crash
  <1>4. TasksHaveJobs' /\ WritersHoldLock' /\ RunsBelieve' /\ CommitsSettle' /\ DownIsIdle'
    BY <1>1, <1>2 DEF TasksHaveJobs, WritersHoldLock, RunsBelieve, CommitsSettle,
                      DownIsIdle, Locked, Decided
  <1>5. NoDeadOwner'
    BY <1>1 DEF NoDeadOwner
  <1> QED BY <1>3, <1>4, <1>5 DEF IInv

(* The sweep marks every in-flight row, and no session is left to undo it. *)
LEMMA RestartStep ==
    ASSUME IInv, Restart
    PROVE  IInv'
  <1>1. /\ \A t \in Threads : thread[t].pc = "idle"
        /\ UNCHANGED <<kids, lock, runs, queue, handler, thread, torn, served, crashes>>
        /\ up' = TRUE
        /\ row \in [Jobs -> Row]
    BY DEF IInv, DownIsIdle, Restart, TypeOK
  <1>2. \A i \in Jobs :
           IF i \in Interrupted
           THEN row'[i] = [row[i] EXCEPT !.status = "queued", !.stage = "interrupted",
                                         !.started = NULL]
           ELSE row'[i] = row[i] /\ row[i].status \notin InFlight
    BY DEF Restart, Interrupted, InFlight
  <1>3. row' \in [Jobs -> Row]
    <2>1. \A i \in Jobs : row[i] \in Row
      BY <1>1
    <2>2. \A x \in Row : [x EXCEPT !.status = "queued", !.stage = "interrupted",
                                   !.started = NULL] \in Row
      BY DEF Row, Statuses, Stages, NULL
    <2> QED BY <2>1, <2>2 DEF Restart
  <1>4. TypeOK'
    BY <1>1, <1>3 DEF IInv, TypeOK, Restart
  <1>5. TasksHaveJobs' /\ WritersHoldLock' /\ RunsBelieve' /\ CommitsSettle' /\ DownIsIdle'
    BY <1>1 DEF IInv, TasksHaveJobs, WritersHoldLock, RunsBelieve, CommitsSettle,
                DownIsIdle, Locked, JobOf, Decided
  <1>6. NoDeadOwner'
    <2> SUFFICES ASSUME NEW i \in Jobs, row'[i].status \in InFlight
                 PROVE  Untouched(i)'
      BY DEF NoDeadOwner
    <2>1. row'[i].stage = "interrupted" /\ row'[i].started = NULL
      BY <1>1, <1>2 DEF Row
    <2> QED BY <1>1, <2>1 DEF Untouched
  <1> QED BY <1>4, <1>5, <1>6 DEF IInv

-----------------------------------------------------------------------------
LEMMA Initially == Init => IInv
  <1> SUFFICES ASSUME Init PROVE IInv
    OBVIOUS
  <1>1. /\ \A t \in Threads : thread[t] = FreeThread
        /\ \A r \in Requests : handler[r] = FreeHandler
        /\ \A j \in Jobs : row[j] = Absent
    BY DEF Init
  <1>2. FreeThread.pc = "idle" /\ FreeHandler.pc = "idle" /\ Absent.status = "absent"
    BY DEF FreeThread, FreeHandler, Absent
  <1>3. TypeOK
    <2>1. Absent \in Row
      BY DEF Absent, Row, Statuses, Stages, NULL
    <2>2. queue \in Seq(Queued)
      BY EmptySeq DEF Init
    <2> QED BY <2>1, <2>2, FreeOnes DEF Init, TypeOK, Kids
  <1>4. TasksHaveJobs /\ WritersHoldLock /\ RunsBelieve /\ CommitsSettle /\ DownIsIdle
    BY <1>1, <1>2 DEF TasksHaveJobs, WritersHoldLock, RunsBelieve, CommitsSettle,
                      DownIsIdle, Locked, Decided
  <1>5. NoDeadOwner
    BY <1>1, <1>2 DEF NoDeadOwner, InFlight
  <1> QED BY <1>3, <1>4, <1>5 DEF IInv

LEMMA Steps == IInv /\ [Next]_vars => IInv'
  <1> SUFFICES ASSUME IInv, [Next]_vars PROVE IInv'
    OBVIOUS
  <1>1. ASSUME NEW t \in Threads, ThreadStep(t) \/ ThreadFault(t)
        PROVE  IInv'
    BY <1>1, TakeStep, ReadSteps, WorkSteps, RecordSteps, LockSteps, RollbackSteps,
       CommitStep DEF ThreadStep, ThreadFault
  <1>2. ASSUME NEW r \in Requests, HandlerStep(r)
        PROVE  IInv'
    BY <1>2, ClaimStep, SubmitStep DEF HandlerStep
  <1>3. ASSUME NEW r \in Requests, NEW j \in Jobs, Arrive(r, j)
        PROVE  IInv'
    BY <1>3, Arrivals
  <1>4. ASSUME NEW j \in Jobs, Age(j)
        PROVE  IInv'
    BY <1>4, AgeStep
  <1>5. CASE Crash
    BY <1>5, CrashStep
  <1>6. CASE Restart
    BY <1>6, RestartStep
  <1>7. CASE UNCHANGED vars
    <2>1. \A u \in Threads : JobOf(u)' = JobOf(u)
      BY <1>7 DEF vars, JobOf
    <2>2. \A i : (LiveOwner(i)' <=> LiveOwner(i)) /\ (Untouched(i)' <=> Untouched(i))
      BY <1>7, <2>1 DEF vars, LiveOwner, Settles, Untouched
    <2>3. TypeOK'
      BY <1>7 DEF vars, IInv, TypeOK
    <2>4. TasksHaveJobs' /\ WritersHoldLock' /\ RunsBelieve' /\ DownIsIdle'
      BY <1>7, <2>1 DEF vars, IInv, TasksHaveJobs, WritersHoldLock, RunsBelieve, DownIsIdle
    <2>5. CommitsSettle'
      BY <1>7, <2>1 DEF vars, IInv, CommitsSettle, Decided, Settled
    <2>6. NoDeadOwner'
      BY <1>7, <2>2 DEF vars, IInv, NoDeadOwner
    <2> QED BY <2>3, <2>4, <2>5, <2>6 DEF IInv
  <1> QED BY <1>1, <1>2, <1>3, <1>4, <1>5, <1>6, <1>7 DEF Next

(* Every variable of the job lifecycle always has its type.                *)
THEOREM TypeCorrect == Spec => []TypeOK
  <1>1. IInv => TypeOK
    BY DEF IInv
  <1> QED BY Initially, Steps, <1>1, PTL DEF Spec

(* runner, sandbox and main: while the process is up, every committed      *)
(* in-flight row has somebody in memory who is going to run it, carries    *)
(* the mark of the restart sweep, or was lost with a line in the log when  *)
(* its commit or the writing of its failure raised; for any number of      *)
(* jobs, threads, requests, failing flushes, hangs and crashes.            *)
THEOREM NoOrphanRow == Spec => []NoOrphan
  <1>1. ASSUME NEW j \in Jobs, LiveOwner(j)
        PROVE  Owned(j)
    BY <1>1 DEF LiveOwner, Owned, Settles
  <1>2. IInv => NoOrphan
    BY <1>1 DEF IInv, NoDeadOwner, NoOrphan, Untouched
  <1> QED BY Initially, Steps, <1>2, PTL DEF Spec

-----------------------------------------------------------------------------
(* One row for a member, and a row for every member of a completed archive.*)

(* What session s does about the members of a job with the rows k: it has  *)
(* looked all of them up, it adds only what is missing, and a completed run*)
(* adds everything that is.                                                *)
Filled(s, k) ==
    /\ s.pc \notin {"torn", "unlocked"}
    /\ s.pc \in {"load", "start", "reload", "retry"} => s.added = {}
    /\ s.pc = "unpack" => /\ s.copy.stage = "working"
                          /\ s.todo = Members /\ s.added = {}
                          /\ \A m \in Members : m \in s.known <=> k[m] > 0
    /\ s.pc = "finish" => /\ s.copy.status = "running" /\ s.copy.stage = "working"
                          /\ s.todo = {}
                          /\ \A m \in Members : m \in s.added <=> k[m] = 0
    /\ s.pc = "commit" => /\ \A m \in s.added : k[m] = 0
                          /\ s.draft.status = "completed" =>
                                /\ s.draft.stage = "complete"
                                /\ \A m \in Members : k[m] = 0 => m \in s.added

MembersOf(x, k) == /\ \A m \in Members : k[m] <= 1
                   /\ x.status = "completed" => /\ x.stage = "complete"
                                                /\ \A m \in Members : k[m] = 1

MembersInv ==
    \A j \in Jobs \ torn :
        /\ MembersOf(row[j], kids[j])
        /\ \A t \in Threads : thread[t].pc # "idle" /\ JobOf(t) = j
                                 => Filled(thread[t], kids[j])

(* A step of session t that changes no row.                                *)
LEMMA MembersKept ==
    ASSUME MembersInv, NEW t \in Threads, UNCHANGED <<row, kids>>, torn \subseteq torn',
           \A u \in Threads \ {t} : thread'[u] = thread[u],
           thread'[t].pc # "idle" /\ JobOf(t)' \notin torn' =>
               Filled(thread'[t], kids[JobOf(t)'])
    PROVE  MembersInv'
  <1> SUFFICES ASSUME NEW j \in Jobs \ torn', NEW u \in Threads,
                      thread'[u].pc # "idle", JobOf(u)' = j
               PROVE  Filled(thread'[u], kids[j])
    BY DEF MembersInv, MembersOf
  <1>1. CASE u # t
    <2>1. thread'[u] = thread[u] /\ JobOf(u)' = JobOf(u)
      BY <1>1 DEF JobOf
    <2> QED BY <2>1 DEF MembersInv
  <1> QED BY <1>1

LEMMA MembersInSession ==
    ASSUME IInv, MembersInv, NEW t \in Threads, ThreadStep(t) \/ ThreadFault(t), ~Commit(t)
    PROVE  MembersInv'
  <1> DEFINE s == thread[t]
             s1 == thread'[t]
             j == JobOf(t)
             k == kids[j]
  <1>1. TypeOK /\ TasksHaveJobs
    BY DEF IInv
  <1>2. ASSUME s.pc # "idle", j \in Jobs
        PROVE  /\ \A m \in Members : k[m] \in Nat
               /\ j \notin torn => /\ Filled(s, k) /\ MembersOf(row[j], k)
                                   /\ s.pc = "unpack" => s.copy.status = "running"
    BY <1>1, <1>2 DEF TypeOK, Kids, MembersInv, IInv, RunsBelieve
  <1>3. ASSUME Mine(t), Quiet, UNCHANGED torn, JobOf(t)' = j, j \in Jobs,
               j \notin torn => Filled(s1, k)
        PROVE  MembersInv'
    BY <1>3, MembersKept DEF Mine, Quiet
  <1>4. CASE Take(t)
    <2> DEFINE c == [FreeThread EXCEPT !.pc = "load", !.task = Head(queue)]
    <2>1. c.pc = "load" /\ c.added = {}
      BY DEF FreeThread
    <2>2. /\ thread' = [thread EXCEPT ![t] = c] /\ thread \in [Threads -> Sessions]
          /\ UNCHANGED <<row, kids, torn>>
      BY <1>1, <1>4 DEF Take, TypeOK
    <2> HIDE DEF c
    <2>3. s1 = c /\ \A u \in Threads \ {t} : thread'[u] = thread[u]
      BY <2>2
    <2>4. Filled(s1, kids[JobOf(t)'])
      BY <2>1, <2>3 DEF Filled
    <2> QED BY <2>2, <2>3, <2>4, MembersKept
  <1>5. CASE Load(t) \/ Reload(t) \/ Refresh(t)
    <2>1. /\ Mine(t) /\ Quiet /\ UNCHANGED torn /\ JobOf(t)' = j /\ j \in Jobs
          /\ s.pc \in {"load", "reload", "torn"}
      BY <1>1, <1>5, Reads
    <2>2. j \notin torn => Filled(s1, k)
      BY <1>1, <1>2, <1>5, <2>1, Reads DEF Filled
    <2> QED BY <1>3, <2>1, <2>2
  <1>6. CASE Unpack(t) \/ Hang(t) \/ FailUnlocked(t)
    <2>1. /\ Mine(t) /\ Quiet /\ UNCHANGED torn /\ JobOf(t)' = j /\ j \in Jobs
          /\ s.pc # "idle"
      BY <1>1, <1>6, Works
    <2>2. j \notin torn => Filled(s1, k)
      BY <1>1, <1>2, <1>6, <2>1, Works DEF Filled, NewRows
    <2> QED BY <1>3, <2>1, <2>2
  <1>7. CASE Start(t) \/ Retry(t) \/ Relock(t)
    <2>1. /\ Mine(t) /\ Quiet /\ UNCHANGED torn /\ JobOf(t)' = j /\ j \in Jobs
          /\ s.pc \in {"start", "retry", "unlocked"}
      BY <1>1, <1>7, Locks
    <2>2. s.copy \in Row /\ runs[j] + 1 \in Nat
      <3>1. s \in Sessions
        BY <1>1 DEF TypeOK
      <3> QED BY <1>1, <2>1, <3>1 DEF TypeOK, Sessions
    <2>3. j \notin torn => Filled(s1, k)
      <3> SUFFICES ASSUME j \notin torn PROVE Filled(s1, k)
        OBVIOUS
      <3>1. Filled(s, k) /\ MembersOf(row[j], k) /\ \A m \in Members : k[m] \in Nat
        BY <1>2, <2>1
      <3>2. CASE s.pc = "start"
        <4>1. /\ s1.pc = "unpack" /\ s1.copy = Started(s.copy, runs[j] + 1)
              /\ s1.added = s.added /\ s1.todo = Members
              /\ s1.known = {m \in Members : k[m] > 0}
          BY <1>1, <1>7, <3>2, Locks
        <4>2. s1.copy.stage = "working"
          BY <2>2, <4>1 DEF Started, Row
        <4> QED BY <3>1, <3>2, <4>1, <4>2 DEF Filled
      <3>3. CASE s.pc = "retry"
        <4>1. /\ s1.pc = "commit" /\ s1.added = s.added
              /\ s1.draft = Flush(s.copy, Failed(s.copy, runs[j] + 1), row[j])
          BY <1>1, <1>7, <3>3, Locks DEF Writes
        <4>2. /\ Failed(s.copy, runs[j] + 1).status = "failed"
              /\ Failed(s.copy, runs[j] + 1).stage = s.copy.stage
          BY <2>2 DEF Failed, Row
        <4>3. /\ s1.draft.stage = row[j].stage
              /\ s1.draft.status \in {"failed", row[j].status}
          BY <4>1, <4>2 DEF Flush, Written
        <4> QED BY <3>1, <3>3, <4>1, <4>3 DEF Filled, MembersOf
      <3> QED BY <2>1, <3>1, <3>2, <3>3 DEF Filled
    <2> QED BY <1>3, <2>1, <2>3
  <1>8. CASE Park(t) \/ Complete(t) \/ Fail(t)
    <2>1. /\ Mine(t) /\ Quiet /\ UNCHANGED torn /\ JobOf(t)' = j /\ j \in Jobs
          /\ s.pc \in {"unpack", "finish"} /\ s1.pc = "commit"
      BY <1>1, <1>8, Records
    <2>2. PICK d \in Row : /\ s1.draft = Flush(s.copy, d, s.draft)
                           /\ Outcome(t, d, s1.added)
      BY <1>1, <1>8, Records
    <2>3. j \notin torn => Filled(s1, k)
      <3> SUFFICES ASSUME j \notin torn PROVE Filled(s1, k)
        OBVIOUS
      <3>1. /\ Filled(s, k) /\ s.copy.status = "running" /\ s.copy.stage = "working"
            /\ s.pc = "unpack" => /\ s.todo = Members /\ s.added = {}
                                  /\ \A m \in Members : m \in s.known <=> k[m] > 0
            /\ s.pc = "finish" => /\ s.todo = {}
                                  /\ \A m \in Members : m \in s.added <=> k[m] = 0
            /\ \A m \in Members : k[m] \in Nat
            /\ s.added \subseteq Members
        <4>1. s.added \subseteq Members
          BY <1>1 DEF TypeOK, Sessions
        <4> QED BY <1>2, <2>1, <4>1 DEF Filled
      <3>2. \A m \in s1.added : k[m] = 0
        <4>1. CASE d.status = "failed"
          <5>1. PICK done \in Prefixes(s.todo) : s1.added = s.added \cup NewRows(t, done)
            BY <2>2, <4>1 DEF Outcome
          <5>2. done \subseteq s.todo
            BY PrefixesAre
          <5> QED BY <2>1, <3>1, <5>1, <5>2 DEF NewRows
        <4>2. CASE d.status # "failed"
          BY <2>1, <2>2, <3>1, <4>2 DEF Outcome
        <4> QED BY <4>1, <4>2
      <3>3. /\ s1.draft.status = Written(s.copy.status, d.status, s.draft.status)
            /\ s1.draft.stage = Written(s.copy.stage, d.stage, s.draft.stage)
        BY <2>2 DEF Flush
      <3>4. s1.draft.status = "completed" =>
               /\ s1.draft.stage = "complete"
               /\ \A m \in Members : k[m] = 0 => m \in s1.added
        <4>1. s1.draft.status = "completed" => d.status = "completed"
          BY <2>2, <3>1, <3>3 DEF Written, Outcome
        <4> QED BY <2>2, <3>1, <3>3, <4>1 DEF Written, Outcome
      <3> QED BY <2>1, <3>2, <3>4 DEF Filled
    <2> QED BY <1>3, <2>1, <2>3
  <1>9. CASE Poison(t) \/ Tear(t) \/ Lose(t)
    <2>1. /\ Quiet /\ \A u \in Threads \ {t} : thread'[u] = thread[u]
          /\ s1.pc \in {"reload", "torn"} => s1.task = s.task /\ s1.added = {}
          /\ \/ s1.pc = "reload" /\ UNCHANGED torn
             \/ s1.pc = "torn" /\ torn' = torn \cup {j}
             \/ s1.pc = "idle" /\ UNCHANGED torn
      BY <1>1, <1>9, RollsBack
    <2>2. s1.pc # "idle" /\ JobOf(t)' \notin torn' => Filled(s1, kids[JobOf(t)'])
      <3>1. s1.pc \in {"reload", "torn"} => JobOf(t)' = j
        BY <2>1 DEF JobOf
      <3> QED BY <2>1, <3>1 DEF Filled
    <2> QED BY <2>1, <2>2, MembersKept DEF Quiet
  <1> QED BY <1>4, <1>5, <1>6, <1>7, <1>8, <1>9 DEF ThreadStep, ThreadFault

(* The commit adds what is missing, and nobody else has the row.           *)
LEMMA MembersCommitted ==
    ASSUME IInv, MembersInv, NEW t \in Threads, Commit(t)
    PROVE  MembersInv'
  <1> DEFINE s == thread[t]
             j == JobOf(t)
             k1 == [m \in Members |-> kids[j][m] + IF m \in s.added THEN 1 ELSE 0]
  <1>1. /\ s.pc = "commit" /\ j \in Jobs /\ lock[j] = t
        /\ row \in [Jobs -> Row] /\ kids \in [Jobs -> [Members -> Nat]]
        /\ thread \in [Threads -> Sessions] /\ s.added \subseteq Members
    <2>1. s.added \subseteq Members
      BY DEF IInv, TypeOK, Sessions
    <2> QED BY <2>1 DEF Commit, IInv, TypeOK, TasksHaveJobs, WritersHoldLock, Locked, Kids
  <1>2. /\ row' = [row EXCEPT ![j] = s.draft] /\ kids' = [kids EXCEPT ![j] = k1]
        /\ thread' = [thread EXCEPT ![t] = FreeThread] /\ UNCHANGED torn
    BY DEF Commit
  <1>3. j \notin torn => MembersOf(s.draft, k1)
    <2> SUFFICES ASSUME j \notin torn PROVE MembersOf(s.draft, k1)
      OBVIOUS
    <2>1. /\ \A m \in Members : kids[j][m] <= 1 /\ kids[j][m] \in Nat
          /\ Filled(s, kids[j])
      BY <1>1 DEF MembersInv, MembersOf
    <2>2. /\ \A m \in s.added : kids[j][m] = 0
          /\ s.draft.status = "completed" =>
                /\ s.draft.stage = "complete"
                /\ \A m \in Members : kids[j][m] = 0 => m \in s.added
      BY <1>1, <2>1 DEF Filled
    <2>3. \A m \in Members : k1[m] = IF m \in s.added THEN 1 ELSE kids[j][m]
      BY <2>1, <2>2
    <2> HIDE DEF k1
    <2>4. \A m \in Members : kids[j][m] = 0 \/ kids[j][m] = 1
      BY <2>1
    <2> QED BY <2>2, <2>3, <2>4 DEF MembersOf
  <1> HIDE DEF k1
  <1>4. /\ row'[j] = s.draft /\ kids'[j] = k1
        /\ \A i \in Jobs \ {j} : row'[i] = row[i] /\ kids'[i] = kids[i]
        /\ \A u \in Threads \ {t} : thread'[u] = thread[u]
        /\ thread'[t].pc = "idle"
    BY <1>1, <1>2 DEF FreeThread
  <1> SUFFICES ASSUME NEW i \in Jobs \ torn
               PROVE  /\ MembersOf(row'[i], kids'[i])
                      /\ \A u \in Threads : thread'[u].pc # "idle" /\ JobOf(u)' = i
                                               => Filled(thread'[u], kids'[i])
    BY <1>2 DEF MembersInv
  <1>5. MembersOf(row'[i], kids'[i])
    BY <1>3, <1>4 DEF MembersInv
  <1>6. ASSUME NEW u \in Threads, thread'[u].pc # "idle", JobOf(u)' = i
        PROVE  Filled(thread'[u], kids'[i])
    <2>1. u # t /\ thread'[u] = thread[u] /\ JobOf(u) = i
      BY <1>4, <1>6 DEF JobOf
    <2>2. Filled(thread[u], kids[i])
      BY <1>6, <2>1 DEF MembersInv
    <2>3. CASE thread[u].pc \in Locked
      <3>1. i # j
        BY <1>1, <2>1, <2>3 DEF IInv, WritersHoldLock
      <3> QED BY <1>4, <2>1, <2>2, <3>1
    <2>4. CASE thread[u].pc \notin Locked
      BY <2>1, <2>2, <2>4 DEF Filled, Locked
    <2> QED BY <2>3, <2>4
  <1> QED BY <1>5, <1>6

(* Requests, time and the sweep write neither an outcome nor a member.     *)
LEMMA MembersOutside ==
    ASSUME MembersInv, UNCHANGED <<kids, torn>>,
           \A u \in Threads : thread'[u].pc # "idle" => thread'[u] = thread[u],
           \A j \in Jobs : row'[j] = row[j] \/ row'[j].status # "completed"
    PROVE  MembersInv'
  <1> SUFFICES ASSUME NEW j \in Jobs \ torn
               PROVE  /\ MembersOf(row'[j], kids[j])
                      /\ \A u \in Threads : thread'[u].pc # "idle" /\ JobOf(u)' = j
                                               => Filled(thread'[u], kids[j])
    BY DEF MembersInv
  <1>1. MembersOf(row'[j], kids[j])
    BY DEF MembersInv, MembersOf
  <1>2. \A u \in Threads : thread'[u].pc # "idle" => JobOf(u)' = JobOf(u)
    BY DEF JobOf
  <1> QED BY <1>1, <1>2 DEF MembersInv

(* What is not a step of a thread that keeps running.                      *)
LEMMA OutsideSteps ==
    ASSUME IInv, [Next]_vars, \A t \in Threads : ~ThreadStep(t) /\ ~ThreadFault(t)
    PROVE  /\ UNCHANGED <<kids, runs, torn>>
           /\ \A u \in Threads : thread'[u].pc # "idle" => thread'[u] = thread[u]
           /\ \A j \in Jobs : \/ row'[j] = row[j]
                              \/ /\ row'[j].status = "queued"
                                 /\ \/ /\ row'[j].first = row[j].first
                                       /\ row'[j].completed = row[j].completed
                                    \/ row[j].status = "absent" /\ row'[j] = NewRow
  <1>1. row \in [Jobs -> Row] /\ \A j \in Jobs : row[j] \in Row
    BY DEF IInv, TypeOK
  <1>2. ASSUME NEW r \in Requests, HandlerStep(r)
        PROVE  /\ UNCHANGED <<kids, runs, torn, thread>>
               /\ \/ UNCHANGED row
                  \/ \E j \in Jobs : row' = [row EXCEPT ![j].status = "queued"]
    <2>1. handler[r].pc = "claim" => handler[r].task.job \in Jobs
      BY DEF IInv, TasksHaveJobs
    <2> QED BY <1>2, <2>1 DEF HandlerStep, Claim, Submit
  <1>3. ASSUME NEW j \in Jobs, row' = [row EXCEPT ![j].status = "queued"], NEW i \in Jobs
        PROVE  \/ row'[i] = row[i]
               \/ /\ row'[i].status = "queued" /\ row'[i].first = row[i].first
                  /\ row'[i].completed = row[i].completed
    BY <1>1, <1>3 DEF Row
  <1>4. CASE \E r \in Requests : HandlerStep(r)
    BY <1>2, <1>3, <1>4
  <1>5. ASSUME NEW r \in Requests, NEW j \in Jobs, Arrive(r, j)
        PROVE  /\ UNCHANGED <<kids, runs, torn, thread>>
               /\ \/ UNCHANGED row
                  \/ row[j].status = "absent" /\ row' = [row EXCEPT ![j] = NewRow]
    BY <1>5 DEF Arrive, Analyze, ProvidePassword, Reanalyze, Accept
  <1>6. CASE \E r \in Requests, j \in Jobs : Arrive(r, j)
    <2>1. NewRow.status = "queued"
      BY DEF NewRow, Absent
    <2> QED BY <1>1, <1>5, <1>6, <2>1
  <1>7. CASE Crash
    BY <1>7 DEF Crash, FreeThread
  <1>8. CASE Restart
    <2>1. \A x \in Row : LET swept == [x EXCEPT !.status = "queued",
                                                !.stage = "interrupted", !.started = NULL]
                         IN /\ swept.first = x.first /\ swept.status = "queued"
                            /\ swept.completed = x.completed
      BY DEF Row
    <2> QED BY <1>1, <1>8, <2>1 DEF Restart
  <1>9. CASE (\E j \in Jobs : Age(j)) \/ UNCHANGED vars
    BY <1>9 DEF Age, vars
  <1> QED BY <1>4, <1>6, <1>7, <1>8, <1>9 DEF Next

LEMMA MemberSteps == IInv /\ MembersInv /\ [Next]_vars => MembersInv'
  <1> SUFFICES ASSUME IInv, MembersInv, [Next]_vars PROVE MembersInv'
    OBVIOUS
  <1>1. CASE \E t \in Threads : ThreadStep(t) \/ ThreadFault(t)
    BY <1>1, MembersInSession, MembersCommitted
  <1>2. CASE \A t \in Threads : ~ThreadStep(t) /\ ~ThreadFault(t)
    <2>1. \A j \in Jobs : row'[j] = row[j] \/ row'[j].status # "completed"
      BY <1>2, OutsideSteps
    <2> QED BY <1>2, <2>1, OutsideSteps, MembersOutside
  <1> QED BY <1>1, <1>2

LEMMA MembersInitially == Init => MembersInv
  BY DEF Init, MembersInv, MembersOf, FreeThread, Absent

(* _archive_stage: a member of a container has at most one row, however    *)
(* many runs of the container overlap and whichever fail: each looks for   *)
(* the existing rows while it holds the row lock it took with its first    *)
(* flush.  The exception is a member that took that lock away.             *)
THEOREM MembersOnce == Spec => []NoDuplicateMembers
  <1>1. MembersInv => NoDuplicateMembers
    BY DEF MembersInv, MembersOf, NoDuplicateMembers
  <1> QED BY Initially, Steps, MembersInitially, MemberSteps, <1>1, PTL DEF Spec

-----------------------------------------------------------------------------
(* The first finish of a job and its last.                                 *)

(* Of a row x whose clock is at n.                                         *)
RowTimes(x, n) == /\ x.first <= n /\ x.completed <= n
                  /\ x.status = "absent" => x.first = NULL
                  /\ x.status = "completed" => x.first # NULL /\ x.first <= x.completed

(* What session s makes of a row x whose clock is at n: a first finish that*)
(* the session loaded has gone neither from the row nor from the draft, no *)
(* finish is yet to come, and the outcome is later than what was loaded.   *)
Prepared(s, x, n) ==
    /\ s.pc \in {"start", "retry", "unlocked"} => /\ s.copy.first # NULL => x.first # NULL
                                                  /\ s.copy.completed <= n
    /\ s.pc \in {"unlocked", "finish"} /\ s.copy.status = "completed" => s.copy.first # NULL
    /\ s.pc \in {"unpack", "finish"} => s.copy.completed < n
    /\ s.pc \in Locked =>
          /\ x.first # NULL \/ s.copy.first # NULL => s.draft.first # NULL
          /\ s.draft.first <= n /\ s.draft.completed <= n /\ n > 0
          /\ s.draft.status = "absent" => s.draft.first = NULL
          /\ s.draft.status = "completed" => s.draft.first # NULL
    /\ s.pc = "commit" /\ s.draft.status = "completed" =>
          s.draft.first <= s.draft.completed

RowsTimed == \A j \in Jobs : RowTimes(row[j], runs[j])

AllPrepared == \A t \in Threads : thread[t].pc # "idle" =>
                  Prepared(thread[t], row[JobOf(t)], runs[JobOf(t)])

TimesInv == RowsTimed /\ AllPrepared

(* What a session knows stays true while others run, and while nobody      *)
(* touches the row it has locked.                                          *)
LEMMA PreparedKept ==
    ASSUME NEW s \in Sessions, NEW x, NEW n \in Nat, NEW y, NEW o \in Nat,
           Prepared(s, x, n), n <= o, x.first # NULL => y.first # NULL,
           s.pc \in Locked /\ y.first # NULL => x.first # NULL
    PROVE  Prepared(s, y, o)
  <1>1. /\ s.draft.first \in Nat /\ s.draft.completed \in Nat /\ s.copy.completed \in Nat
    BY DEF Sessions, Row
  <1>2. s.pc \in Locked =>
           /\ y.first # NULL \/ s.copy.first # NULL => s.draft.first # NULL
           /\ s.draft.first <= o /\ s.draft.completed <= o /\ o > 0
           /\ s.draft.status = "absent" => s.draft.first = NULL
           /\ s.draft.status = "completed" => s.draft.first # NULL
    BY <1>1 DEF Prepared
  <1> QED BY <1>1, <1>2 DEF Prepared

(* A step of session t that changes no row.                                *)
LEMMA TimesKept ==
    ASSUME IInv, TimesInv, NEW t \in Threads, UNCHANGED <<row, kids>>,
           \A u \in Threads \ {t} : thread'[u] = thread[u],
           \A j \in Jobs : runs'[j] \in Nat /\ runs'[j] >= runs[j],
           thread'[t].pc # "idle" =>
               Prepared(thread'[t], row[JobOf(t)'], runs'[JobOf(t)'])
    PROVE  TimesInv'
  <1>1. /\ \A j \in Jobs : row[j] \in Row /\ runs[j] \in Nat
        /\ \A u \in Threads : /\ thread[u] \in Sessions
                              /\ thread[u].pc # "idle" => JobOf(u) \in Jobs
    BY DEF IInv, TypeOK, TasksHaveJobs
  <1>2. RowsTimed'
    <2> SUFFICES ASSUME NEW j \in Jobs PROVE RowTimes(row[j], runs'[j])
      BY DEF RowsTimed
    <2>1. RowTimes(row[j], runs[j]) /\ row[j].first \in Nat /\ row[j].completed \in Nat
      BY <1>1 DEF TimesInv, RowsTimed, Row
    <2> QED BY <1>1, <2>1 DEF RowTimes
  <1>3. AllPrepared'
    <2> SUFFICES ASSUME NEW u \in Threads, thread'[u].pc # "idle"
                 PROVE  Prepared(thread'[u], row[JobOf(u)'], runs'[JobOf(u)'])
      BY DEF AllPrepared
    <2>1. CASE u # t
      <3>1. thread'[u] = thread[u] /\ JobOf(u)' = JobOf(u)
        BY <2>1 DEF JobOf
      <3>2. Prepared(thread[u], row[JobOf(u)], runs[JobOf(u)])
        BY <3>1 DEF TimesInv, AllPrepared
      <3> QED BY <1>1, <3>1, <3>2, PreparedKept
    <2> QED BY <2>1
  <1> QED BY <1>2, <1>3 DEF TimesInv

LEMMA TimesInSession ==
    ASSUME IInv, TimesInv, NEW t \in Threads, ThreadStep(t) \/ ThreadFault(t), ~Commit(t)
    PROVE  TimesInv'
  <1> DEFINE s == thread[t]
             s1 == thread'[t]
             j == JobOf(t)
             x == row[j]
             n == runs[j]
  <1>1. TypeOK /\ TasksHaveJobs
    BY DEF IInv
  <1>2. /\ \A i \in Jobs : row[i] \in Row /\ runs[i] \in Nat /\ RowTimes(row[i], runs[i])
        /\ s \in Sessions /\ s.copy \in Row /\ s.draft \in Row
        /\ s.pc # "idle" => Prepared(s, x, n)
    <2>1. s \in Sessions
      BY <1>1 DEF TypeOK
    <2> QED BY <1>1, <2>1 DEF TypeOK, TimesInv, RowsTimed, AllPrepared, Sessions
  <1>3. ASSUME Mine(t), Quiet, UNCHANGED runs, JobOf(t)' = j, j \in Jobs,
               Prepared(s1, x, n)
        PROVE  TimesInv'
    BY <1>2, <1>3, TimesKept DEF Mine, Quiet
  <1>4. CASE Take(t)
    <2> DEFINE c == [FreeThread EXCEPT !.pc = "load", !.task = Head(queue)]
    <2>1. c.pc = "load"
      BY DEF FreeThread
    <2>2. /\ thread' = [thread EXCEPT ![t] = c] /\ thread \in [Threads -> Sessions]
          /\ UNCHANGED <<row, kids, runs>>
      BY <1>1, <1>4 DEF Take, TypeOK
    <2> HIDE DEF c
    <2>3. s1 = c /\ \A u \in Threads \ {t} : thread'[u] = thread[u]
      BY <2>2
    <2>4. Prepared(s1, row[JobOf(t)'], runs'[JobOf(t)'])
      BY <2>1, <2>3 DEF Prepared, Locked
    <2> QED BY <1>2, <2>2, <2>3, <2>4, TimesKept
  <1>5. CASE Load(t) \/ Reload(t) \/ Refresh(t)
    <2>1. /\ Mine(t) /\ Quiet /\ UNCHANGED runs /\ JobOf(t)' = j /\ j \in Jobs
          /\ s1.copy = x /\ s1.pc \in {"start", "retry", "unlocked"}
      BY <1>1, <1>5, Reads
    <2>2. Prepared(s1, x, n)
      BY <1>2, <2>1 DEF Prepared, RowTimes, Locked
    <2> QED BY <1>3, <2>1, <2>2
  <1>6. CASE Unpack(t) \/ Hang(t) \/ FailUnlocked(t)
    <2>1. /\ Mine(t) /\ Quiet /\ UNCHANGED runs /\ JobOf(t)' = j /\ j \in Jobs
          /\ s.pc # "idle"
      BY <1>1, <1>6, Works
    <2>2. s.pc = "unpack" => s.copy.status = "running"
      BY DEF IInv, RunsBelieve
    <2>3. Prepared(s1, x, n)
      BY <1>1, <1>2, <1>6, <2>1, <2>2, Works DEF Prepared, Locked
    <2> QED BY <1>3, <2>1, <2>3
  <1>7. CASE Start(t) \/ Retry(t) \/ Relock(t)
    <2>1. /\ Mine(t) /\ Quiet /\ JobOf(t)' = j /\ j \in Jobs
          /\ runs' = [runs EXCEPT ![j] = @ + 1]
          /\ s.pc \in {"start", "retry", "unlocked"}
      BY <1>1, <1>7, Locks
    <2>2. /\ \A i \in Jobs : runs'[i] \in Nat /\ runs'[i] >= runs[i]
          /\ runs'[j] = n + 1
      <3>1. runs \in [Jobs -> Nat]
        BY <1>1 DEF TypeOK
      <3> QED BY <2>1, <3>1
    <2>3. /\ x \in Row /\ n \in Nat /\ n + 1 \in Nat /\ RowTimes(x, n) /\ Prepared(s, x, n)
          /\ s.copy.first # NULL => x.first # NULL
          /\ s.copy.completed <= n
          /\ s.copy.first \in Nat /\ s.copy.completed \in Nat
          /\ x.first \in Nat /\ x.completed \in Nat
      BY <1>2, <2>1 DEF Prepared, Row
    <2>4. ASSUME NEW d \in Row, s1.draft = Flush(s.copy, d, x), d.first = s.copy.first,
                 d.completed \in {NULL, s.copy.completed, n + 1},
                 d.status \in {"running", "failed", s.copy.status},
                 s1.pc # "commit" => s1.copy = d /\ d.completed # n + 1,
                 s1.pc = "unpack" => d.status = "running",
                 s1.pc = "finish" => s.pc = "unlocked" /\ d.status = s.copy.status,
                 s1.pc = "commit" => d.status = "failed" /\ d.completed = n + 1,
                 s1.pc \in Locked
          PROVE  Prepared(s1, x, n + 1)
      <3>1. /\ s1.draft.status = Written(s.copy.status, d.status, x.status)
            /\ s1.draft.completed = Written(s.copy.completed, d.completed, x.completed)
            /\ s1.draft.first = x.first
        BY <2>4, FlushFields DEF Written
      <3>2. s1.draft.status \in {"running", "failed", x.status}
        BY <2>4, <3>1 DEF Written
      <3>3. s1.draft.completed \in {x.completed, NULL, n + 1}
        BY <2>4, <3>1 DEF Written
      <3>4. /\ x.first # NULL => s1.draft.first # NULL
            /\ d.first # NULL => s1.draft.first # NULL
            /\ s1.draft.first <= n + 1 /\ s1.draft.completed <= n + 1 /\ n + 1 > 0
            /\ s1.draft.status = "absent" => s1.draft.first = NULL
            /\ s1.draft.status = "completed" => s1.draft.first # NULL
        BY <2>3, <2>4, <3>1, <3>2, <3>3 DEF RowTimes, NULL
      <3>5. CASE s1.pc = "commit"
        <4>1. s1.draft.completed = n + 1
          BY <2>3, <2>4, <3>1, <3>5 DEF Written
        <4>2. s1.copy.first # NULL => s1.draft.first # NULL
          <5>1. s1.copy = Absent
            BY <1>1, <1>7, <3>5, Locks
          <5> QED BY <5>1 DEF Absent
        <4> QED BY <3>4, <3>5, <4>1, <4>2 DEF Prepared
      <3>6. CASE s1.pc # "commit"
        <4>1. s1.copy = d /\ s1.copy.completed < n + 1
          BY <2>3, <2>4, <3>6 DEF NULL
        <4>2. s1.pc = "finish" /\ d.status = "completed" => d.first # NULL
          BY <2>3, <2>4 DEF Prepared
        <4> QED BY <2>4, <3>4, <3>6, <4>1, <4>2 DEF Prepared, Locked
      <3> QED BY <3>5, <3>6
    <2>5. Prepared(s1, x, n + 1)
      <3>1. CASE s.pc = "start"
        <4> DEFINE d == Started(s.copy, n + 1)
        <4>1. s1.pc = "unpack" /\ s1.copy = d /\ s1.draft = Flush(s.copy, d, x)
          BY <1>1, <1>7, <3>1, Locks DEF Writes
        <4>2. /\ d \in Row /\ d.first = s.copy.first /\ d.completed = NULL
              /\ d.status = "running"
          BY <1>2, <2>3, RowOperators DEF Started, Row
        <4> HIDE DEF d
        <4>3. d.completed # n + 1
          BY <2>3, <4>2 DEF NULL
        <4> QED BY <2>4, <4>1, <4>2, <4>3 DEF Locked
      <3>2. CASE s.pc = "retry"
        <4> DEFINE d == Failed(s.copy, n + 1)
        <4>1. s1.pc = "commit" /\ s1.draft = Flush(s.copy, d, x)
          BY <1>1, <1>7, <3>2, Locks DEF Writes
        <4>2. /\ d \in Row /\ d.first = s.copy.first /\ d.completed = n + 1
              /\ d.status = "failed"
          BY <1>2, <2>3, RowOperators DEF Failed, Row
        <4> HIDE DEF d
        <4> QED BY <2>4, <4>1, <4>2 DEF Locked
      <3>3. CASE s.pc = "unlocked"
        <4> DEFINE d == [s.copy EXCEPT !.stage = "working"]
        <4>1. s1.pc = "finish" /\ s1.copy = d /\ s1.draft = Flush(s.copy, d, x)
          BY <1>1, <1>7, <3>3, Locks DEF Writes
        <4>2. /\ d \in Row /\ d.first = s.copy.first /\ d.completed = s.copy.completed
              /\ d.status = s.copy.status
          BY <1>2 DEF Row, Stages
        <4> HIDE DEF d
        <4>3. d.completed # n + 1
          BY <2>3, <4>2
        <4> QED BY <2>4, <3>3, <4>1, <4>2, <4>3 DEF Locked
      <3> QED BY <2>1, <3>1, <3>2, <3>3
    <2> QED BY <2>1, <2>2, <2>5, TimesKept DEF Mine, Quiet
  <1>8. CASE Park(t) \/ Complete(t) \/ Fail(t)
    <2>1. /\ Mine(t) /\ Quiet /\ UNCHANGED runs /\ JobOf(t)' = j /\ j \in Jobs
          /\ s.pc \in {"unpack", "finish"} /\ s1.pc = "commit" /\ s1.copy = Absent
      BY <1>1, <1>8, Records
    <2>2. PICK d \in Row : /\ s1.draft = Flush(s.copy, d, s.draft)
                           /\ Outcome(t, d, s1.added)
      BY <1>1, <1>8, Records
    <2>3. /\ s1.draft.status = Written(s.copy.status, d.status, s.draft.status)
          /\ s1.draft.completed = Written(s.copy.completed, d.completed, s.draft.completed)
          /\ s1.draft.first = Written(s.copy.first, d.first, s.draft.first)
      BY <2>2, FlushFields
    <2>4. /\ n \in Nat /\ x \in Row /\ Prepared(s, x, n)
          /\ s.copy.first \in Nat /\ s.copy.completed \in Nat
          /\ s.draft.first \in Nat /\ s.draft.completed \in Nat
      BY <1>2, <2>1 DEF Row
    <2>5. /\ x.first # NULL \/ s.copy.first # NULL => s.draft.first # NULL
          /\ s.draft.first <= n /\ s.draft.completed <= n /\ n > 0
          /\ s.draft.status = "absent" => s.draft.first = NULL
          /\ s.draft.status = "completed" => s.draft.first # NULL
          /\ s.copy.completed < n
          /\ s.pc = "finish" /\ s.copy.status = "completed" => s.copy.first # NULL
      BY <2>1, <2>4 DEF Prepared, Locked
    <2>6. /\ s.pc = "unpack" => s.copy.status = "running"
      BY DEF IInv, RunsBelieve
    <2>7. CASE d.status = "awaiting_password"
      <3>1. s1.draft.status = "awaiting_password" /\ s1.draft.first = s.draft.first
        BY <2>2, <2>3, <2>6, <2>7 DEF Written, Outcome
      <3>2. s1.draft.completed <= n
        BY <2>2, <2>3, <2>4, <2>5, <2>7 DEF Written, Outcome, NULL
      <3> QED BY <1>3, <2>1, <2>5, <3>1, <3>2 DEF Prepared, Absent, Locked
    <2>8. CASE d.status = "failed"
      <3>1. /\ s1.draft.status \in {"failed", s.draft.status}
            /\ s1.draft.first = s.draft.first /\ s1.draft.completed = n
        BY <2>2, <2>3, <2>4, <2>5, <2>8 DEF Written, Outcome
      <3> QED BY <1>3, <2>1, <2>4, <2>5, <3>1 DEF Prepared, Absent, Locked
    <2>9. CASE d.status = "completed"
      <3>1. /\ d.completed = n /\ s1.draft.completed = n
            /\ d.first = IF s.copy.first = NULL THEN n ELSE s.copy.first
            /\ s.pc = "finish"
        BY <2>2, <2>3, <2>4, <2>5, <2>9 DEF Written, Outcome, FirstCompleted
      <3>2. s1.draft.first = IF s.copy.first = NULL THEN n ELSE s.draft.first
        BY <2>3, <2>4, <2>5, <3>1 DEF Written, NULL
      <3>3. s1.draft.first # NULL /\ s1.draft.first <= n
        BY <2>4, <2>5, <3>2 DEF NULL
      <3>4. s1.draft.status # "absent"
        <4>1. s.copy.status = "completed" => s.draft.first # NULL
          BY <2>5, <3>1
        <4> QED BY <2>3, <2>5, <2>9, <4>1 DEF Written
      <3> QED BY <1>3, <2>1, <2>4, <2>5, <3>1, <3>3, <3>4 DEF Prepared, Absent, Locked
    <2> QED BY <2>2, <2>7, <2>8, <2>9 DEF Outcome
  <1>9. CASE Poison(t) \/ Tear(t) \/ Lose(t)
    <2>1. /\ Quiet /\ UNCHANGED runs /\ \A u \in Threads \ {t} : thread'[u] = thread[u]
          /\ s1.pc \in {"reload", "torn", "idle"}
      BY <1>1, <1>9, RollsBack
    <2>2. Prepared(s1, row[JobOf(t)'], runs'[JobOf(t)'])
      BY <2>1 DEF Prepared, Locked
    <2> QED BY <1>2, <2>1, <2>2, TimesKept DEF Quiet
  <1> QED BY <1>4, <1>5, <1>6, <1>7, <1>8, <1>9 DEF ThreadStep, ThreadFault

(* A step of anybody that keeps the first finish of each row, and the rows *)
(* that sessions have locked.                                              *)
LEMMA TimesOutside ==
    ASSUME IInv, TimesInv, UNCHANGED runs,
           \A u \in Threads : thread'[u].pc # "idle" => thread'[u] = thread[u],
           \A j \in Jobs : /\ RowTimes(row'[j], runs[j])
                           /\ row[j].first # NULL => row'[j].first # NULL
                           /\ row'[j].first = row[j].first
                              \/ \A u \in Threads : thread'[u].pc \in Locked => JobOf(u) # j
    PROVE  TimesInv'
  <1>1. RowsTimed'
    BY DEF RowsTimed
  <1>2. AllPrepared'
    <2> SUFFICES ASSUME NEW u \in Threads, thread'[u].pc # "idle"
                 PROVE  Prepared(thread'[u], row'[JobOf(u)'], runs'[JobOf(u)'])
      BY DEF AllPrepared
    <2>1. thread'[u] = thread[u] /\ JobOf(u)' = JobOf(u)
      BY DEF JobOf
    <2>2. /\ Prepared(thread[u], row[JobOf(u)], runs[JobOf(u)])
          /\ thread[u] \in Sessions /\ JobOf(u) \in Jobs /\ runs[JobOf(u)] \in Nat
      BY <2>1 DEF TimesInv, AllPrepared, IInv, TypeOK, TasksHaveJobs
    <2>3. thread[u].pc \in Locked /\ row'[JobOf(u)].first # NULL => row[JobOf(u)].first # NULL
      BY <2>1, <2>2
    <2> QED BY <2>1, <2>2, <2>3, PreparedKept
  <1> QED BY <1>1, <1>2 DEF TimesInv

(* The commit shows the run, and no session but this one has the row.      *)
LEMMA TimesCommitted ==
    ASSUME IInv, TimesInv, NEW t \in Threads, Commit(t)
    PROVE  TimesInv'
  <1> DEFINE s == thread[t]
             j == JobOf(t)
  <1>1. /\ s.pc = "commit" /\ j \in Jobs /\ lock[j] = t /\ UNCHANGED runs
        /\ row \in [Jobs -> Row] /\ thread \in [Threads -> Sessions]
        /\ row' = [row EXCEPT ![j] = s.draft]
        /\ thread' = [thread EXCEPT ![t] = FreeThread]
        /\ Prepared(s, row[j], runs[j])
    BY DEF Commit, IInv, TypeOK, TasksHaveJobs, WritersHoldLock, Locked, TimesInv, AllPrepared
  <1>2. /\ row'[j] = s.draft /\ \A i \in Jobs \ {j} : row'[i] = row[i]
        /\ \A u \in Threads : thread'[u].pc # "idle" => u # t /\ thread'[u] = thread[u]
    BY <1>1 DEF FreeThread
  <1>3. RowTimes(row'[j], runs[j]) /\ (row[j].first # NULL => row'[j].first # NULL)
    BY <1>1, <1>2 DEF Prepared, RowTimes, Locked
  <1>4. \A u \in Threads : thread'[u].pc \in Locked => JobOf(u) # j
    <2> SUFFICES ASSUME NEW u \in Threads, thread'[u].pc \in Locked PROVE JobOf(u) # j
      OBVIOUS
    <2>1. u # t /\ thread'[u] = thread[u]
      BY <1>2 DEF Locked
    <2> QED BY <1>1, <2>1 DEF IInv, WritersHoldLock
  <1>5. \A i \in Jobs : RowTimes(row[i], runs[i])
    BY DEF TimesInv, RowsTimed
  <1>6. \A i \in Jobs : /\ RowTimes(row'[i], runs[i])
                        /\ row[i].first # NULL => row'[i].first # NULL
                        /\ row'[i].first = row[i].first
                           \/ \A u \in Threads : thread'[u].pc \in Locked => JobOf(u) # i
    BY <1>2, <1>3, <1>4, <1>5
  <1> QED BY <1>1, <1>2, <1>6, TimesOutside

LEMMA TimeSteps == IInv /\ TimesInv /\ [Next]_vars => TimesInv'
  <1> SUFFICES ASSUME IInv, TimesInv, [Next]_vars PROVE TimesInv'
    OBVIOUS
  <1>1. CASE \E t \in Threads : ThreadStep(t) \/ ThreadFault(t)
    BY <1>1, TimesInSession, TimesCommitted
  <1>2. CASE \A t \in Threads : ~ThreadStep(t) /\ ~ThreadFault(t)
    <2>1. \A j \in Jobs : /\ RowTimes(row[j], runs[j]) /\ runs[j] \in Nat
      BY DEF TimesInv, RowsTimed, IInv, TypeOK
    <2>2. NewRow.first = NULL /\ NewRow.completed = NULL /\ NewRow.status = "queued"
      BY DEF NewRow, Absent
    <2>3. \A j \in Jobs : /\ RowTimes(row'[j], runs[j])
                          /\ row'[j].first = row[j].first
      BY <1>2, <2>1, <2>2, OutsideSteps DEF RowTimes, NULL
    <2> QED BY <1>2, <2>3, OutsideSteps, TimesOutside
  <1> QED BY <1>1, <1>2

LEMMA TimesInitially == Init => TimesInv
  BY DEF Init, TimesInv, RowsTimed, RowTimes, AllPrepared, FreeThread, Absent, NULL

(* pipeline: a completed row shows the first finish of the job, not later  *)
(* than the last, also when a run commits over a row that another finished *)
(* after it was loaded, or goes on after its transaction was rolled back;  *)
(* and unless a member rolled it back it shows the stage "complete" and    *)
(* every member of the container.                                          *)
THEOREM CompletedRowsAreWhole == Spec => []CompletedIsWhole
  <1>1. IInv /\ MembersInv /\ TimesInv => CompletedIsWhole
    <2> SUFFICES ASSUME IInv, MembersInv, TimesInv, NEW j \in Jobs,
                        row[j].status = "completed"
                 PROVE  /\ row[j].first # NULL /\ row[j].first <= row[j].completed
                        /\ j \notin torn => /\ row[j].stage = "complete"
                                            /\ kids[j] = [m \in Members |-> 1]
      BY DEF CompletedIsWhole
    <2>1. row[j].first # NULL /\ row[j].first <= row[j].completed
      BY DEF TimesInv, RowsTimed, RowTimes
    <2>2. kids[j] \in [Members -> Nat]
      BY DEF IInv, TypeOK, Kids
    <2> QED BY <2>1, <2>2 DEF MembersInv, MembersOf
  <1> QED BY Initially, Steps, MembersInitially, MemberSteps, TimesInitially, TimeSteps,
             <1>1, PTL DEF Spec
=============================================================================
