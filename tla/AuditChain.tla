----------------------------- MODULE AuditChain -----------------------------
(***************************************************************************)
(* The chain of custody of src/backend/app/audit.py: concurrent calls of   *)
(* record(), each in a session of its own, append hash-linked events to    *)
(* one table and anchor its head with signed checkpoints.                  *)
(*                                                                         *)
(* A statement is an atomic step and sees every row committed before it    *)
(* (READ COMMITTED, and what pysqlite does too).  The INSERT is two steps: *)
(* it draws an id from the sequence first, and that draw is never undone.  *)
(* A digest is the pair of what it covers, so it has no collisions.        *)
(***************************************************************************)
EXTENDS Integers, Sequences, FiniteSets

CONSTANTS Appenders,        \* threads that may be inside record()
          CheckpointEvery,  \* the cadence, 50 in the code
          MaxSeq,           \* bound: ids the sequence hands out
          HasKey            \* is a deployment signing key configured?

ASSUME CadenceAssumption == CheckpointEvery \in Nat \ {0}
ASSUME MaxSeqAssumption == MaxSeq \in Nat
ASSUME HasKeyAssumption == HasKey \in BOOLEAN

VARIABLES events,       \* committed rows of audit_events
          seq,          \* last id drawn from the sequence
          checkpoints,  \* committed rows of audit_checkpoints, in id order
          call,         \* call[p]: the locals of p's record() call
          abandoned     \* has a due checkpoint been given up on?

vars == <<events, seq, checkpoints, call, abandoned>>

GENESIS_HASH == <<>>

(* compute_hash: what it covers is the actor's content and prev_hash; the  *)
(* id is not part of it.                                                   *)
Hash(content, prev) == <<content, prev>>

(* _checkpoint_canonical and its digest.                                   *)
CheckpointHash(c) == <<c.head, c.count, c.prev>>

NoTail == [id |-> 0, hash |-> GENESIS_HASH]

Idle == [pc |-> "idle", attempt |-> 0, tail |-> NoTail, id |-> 0,
         began |-> 0, head |-> NoTail, count |-> 0, prev |-> GENESIS_HASH,
         result |-> "none yet"]

Init == /\ events = {}
        /\ seq = 0
        /\ checkpoints = <<>>
        /\ call = [p \in Appenders |-> Idle]
        /\ abandoned = FALSE

At(p, label) == call[p].pc = label

(* The call returns: its session is closed, its locals are gone.  What a    *)
(* property needs to know of it is kept: its last id, when it began, how it *)
(* ended.                                                                   *)
Return(p, result) ==
    [call EXCEPT ![p] = [Idle EXCEPT !.id = call[p].id, !.began = call[p].began,
                                     !.result = result]]

Newest(t) == IF events = {} THEN t = NoTail
             ELSE \E e \in events : /\ \A f \in events : f.id <= e.id
                                    /\ t = [id |-> e.id, hash |-> e.hash]

(* The rows a tail may name: none yet, or a committed event.               *)
Tails == {NoTail} \cup {[id |-> e.id, hash |-> e.hash] : e \in events}

(* Mutated: the test for a cadence point landed on, not crossed.           *)
ShouldCheckpointLanding(prevId, newId) == newId % CheckpointEvery = 0

(* _should_checkpoint: did the chain cross a cadence point?                *)
ShouldCheckpoint(prevId, newId) ==
    newId \div CheckpointEvery > prevId \div CheckpointEvery

-----------------------------------------------------------------------------
(* record(), one step per statement.                                       *)

Begin(p) ==
    /\ At(p, "idle")
    /\ seq < MaxSeq
    /\ call' = [call EXCEPT ![p] = [Idle EXCEPT !.pc = "tail",
                                                !.began = Cardinality(events)]]
    /\ UNCHANGED <<events, seq, checkpoints, abandoned>>

ReadTail(p) ==
    /\ At(p, "tail")
    /\ \E t \in Tails :
          /\ Newest(t)
          /\ call' = [call EXCEPT ![p].pc = "allocate", ![p].tail = t]
    /\ UNCHANGED <<events, seq, checkpoints, abandoned>>

(* The INSERT evaluates nextval() before it meets the unique indexes.      *)
Allocate(p) ==
    /\ At(p, "allocate")
    /\ seq < MaxSeq
    /\ seq' = seq + 1
    /\ call' = [call EXCEPT ![p].pc = "insert", ![p].id = seq + 1]
    /\ UNCHANGED <<events, checkpoints, abandoned>>

(* Mutated: prev_hash without its unique index.                            *)
TakenNever(prev) == FALSE

Taken(prev) == \E e \in events : e.prev = prev

NewRow(p) == [id |-> call[p].id, content |-> p, prev |-> call[p].tail.hash,
              hash |-> Hash(p, call[p].tail.hash)]

AppendEvent(p) ==
    /\ At(p, "insert")
    /\ ~Taken(call[p].tail.hash)
    /\ events' = events \cup {NewRow(p)}
    /\ call' = IF ShouldCheckpoint(call[p].tail.id, call[p].id) /\ HasKey
               THEN [call EXCEPT ![p].pc = "cp head"]
               ELSE Return(p, "event")
    /\ UNCHANGED <<seq, checkpoints, abandoned>>

(* Mutated: the second attempt does not read the tail again.               *)
CollideKeepsTail(p) ==
    /\ At(p, "insert")
    /\ Taken(call[p].tail.hash)
    /\ call' = IF call[p].attempt = 0
               THEN [call EXCEPT ![p].pc = "allocate", ![p].attempt = 1]
               ELSE Return(p, "contention")
    /\ UNCHANGED <<events, seq, checkpoints, abandoned>>

(* IntegrityError: the unique prev_hash refuses the fork.  One retry.      *)
Collide(p) ==
    /\ At(p, "insert")
    /\ Taken(call[p].tail.hash)
    /\ call' = IF call[p].attempt = 0
               THEN [call EXCEPT ![p].pc = "tail", ![p].attempt = 1]
               ELSE Return(p, "contention")
    /\ UNCHANGED <<events, seq, checkpoints, abandoned>>

(* Any other exception of a statement: rolled back, counted, None returned. *)
Fault(p) ==
    /\ ~At(p, "idle")
    /\ ~At(p, "cp write")
    /\ call' = Return(p, "error")
    /\ abandoned' = (abandoned \/ call[p].pc \in {"cp head", "cp count", "cp tail"})
    /\ UNCHANGED <<events, seq, checkpoints>>

-----------------------------------------------------------------------------
(* checkpoint(db), called by the append that crossed a cadence point.      *)

ReadHead(p) ==
    /\ At(p, "cp head")
    /\ \E t \in Tails :
          /\ Newest(t)
          /\ call' = [call EXCEPT ![p].pc = "cp count", ![p].head = t]
    /\ UNCHANGED <<events, seq, checkpoints, abandoned>>

CountEvents(p) ==
    /\ At(p, "cp count")
    /\ call' = [call EXCEPT ![p].pc = "cp tail", ![p].count = Cardinality(events)]
    /\ UNCHANGED <<events, seq, checkpoints, abandoned>>

CheckpointTail == IF checkpoints = <<>> THEN GENESIS_HASH
                  ELSE CheckpointHash(checkpoints[Len(checkpoints)])

ReadCheckpointTail(p) ==
    /\ At(p, "cp tail")
    /\ call' = [call EXCEPT ![p].pc = "cp write", ![p].prev = CheckpointTail]
    /\ UNCHANGED <<events, seq, checkpoints, abandoned>>

NewCheckpoint(p) == [head |-> call[p].head, count |-> call[p].count,
                     prev |-> call[p].prev]

Raced(p) == \E i \in DOMAIN checkpoints : checkpoints[i].prev = call[p].prev

WriteCheckpoint(p) ==
    /\ At(p, "cp write")
    /\ ~Raced(p)
    /\ checkpoints' = Append(checkpoints, NewCheckpoint(p))
    /\ call' = Return(p, "event")
    /\ UNCHANGED <<events, seq, abandoned>>

(* The write lost the race, or failed: checkpoint() reports it, record()    *)
(* returns the event all the same.                                          *)
RefuseCheckpoint(p) ==
    /\ At(p, "cp write")
    /\ call' = Return(p, "event")
    /\ abandoned' = TRUE
    /\ UNCHANGED <<events, seq, checkpoints>>

Step(p) == \/ Begin(p) \/ ReadTail(p) \/ Allocate(p) \/ AppendEvent(p)
           \/ Collide(p) \/ Fault(p) \/ ReadHead(p) \/ CountEvents(p)
           \/ ReadCheckpointTail(p) \/ WriteCheckpoint(p) \/ RefuseCheckpoint(p)

Next == \E p \in Appenders : Step(p)

Spec == Init /\ [][Next]_vars

-----------------------------------------------------------------------------
(* Properties.                                                             *)

Labels == {"idle", "tail", "allocate", "insert", "cp head", "cp count",
           "cp tail", "cp write"}
Results == {"none yet", "event", "contention", "error"}

EventDigests == {GENESIS_HASH} \cup {e.hash : e \in events}

AnchorDigests == {GENESIS_HASH} \cup
                 {CheckpointHash(checkpoints[i]) : i \in DOMAIN checkpoints}

Rows == [id : 1..seq, content : Appenders, prev : EventDigests,
         hash : EventDigests]

Anchors == [head : Tails, count : Nat, prev : AnchorDigests]

Calls == [pc : Labels, attempt : 0..1, tail : Tails, id : 0..seq, began : Nat,
          head : Tails, count : Nat, prev : AnchorDigests, result : Results]

(* Every variable has its type: an event's id was drawn from the sequence, *)
(* and every hash a row or a call holds is that of a committed row.        *)
TypeOK == /\ seq \in 0..MaxSeq
          /\ events \subseteq Rows
          /\ checkpoints \in Seq(Anchors)
          /\ call \in [Appenders -> Calls]
          /\ abandoned \in BOOLEAN

(* What verify_chain asks of row e: its hash is that of its content, and   *)
(* its prev_hash that of the row before it in id order.                    *)
RowVerifies(e) ==
    /\ e.hash = Hash(e.content, e.prev)
    /\ \/ e.prev = GENESIS_HASH /\ \A f \in events : f.id >= e.id
       \/ \E f \in events : /\ f.hash = e.prev
                            /\ f.id < e.id
                            /\ \A g \in events : g.id <= f.id \/ g.id >= e.id

(* An untampered table always verifies, however the appends interleave and *)
(* whatever ids the sequence burned: verify_chain never accuses the code's *)
(* own concurrency of "deleted, inserted or re-ordered".                   *)
ChainVerifies == \A e \in events : RowVerifies(e)

(* No step removes an event, and an event that appears has an id above     *)
(* every committed one: what a checkpoint counted up to its head cannot    *)
(* change later, although ids are drawn before the commit that shows them. *)
AppendOnlyAtTail ==
    [][ /\ events \subseteq events'
        /\ \A e \in events' \ events, f \in events : f.id < e.id ]_vars

(* The two attempts are what the comment in record() says they are: an     *)
(* event is given up for contention only if two other appends won during   *)
(* this very call, so a single concurrent writer never costs an event.     *)
LossNeedsTwoWinners ==
    \A p \in Appenders : call[p].result = "contention"
                             => Cardinality(events) >= call[p].began + 2

EventsUpTo(head) == {e \in events : e.id <= head.id}

Anchoring(p) == call[p].pc \in {"cp head", "cp count", "cp tail", "cp write"}

(* Every anchor names an event that is there with that hash, the anchors   *)
(* are chained in order, and no event its head covers was left uncounted.  *)
(* And a cadence point the chain crossed is anchored, although the         *)
(* sequence burned the very ids that lie on it, unless an anchor is being  *)
(* written or one was given up.                                            *)
AnchorsHold ==
    /\ \A i \in DOMAIN checkpoints :
          LET c == checkpoints[i]
          IN /\ c.prev = IF i = 1 THEN GENESIS_HASH
                         ELSE CheckpointHash(checkpoints[i - 1])
             /\ \E e \in events : e.id = c.head.id /\ e.hash = c.head.hash
             /\ Cardinality(EventsUpTo(c.head)) <= c.count
    /\ \A e \in events : HasKey /\ e.id >= CheckpointEvery =>
          \/ abandoned
          \/ \E p \in Appenders : Anchoring(p)
          \/ \E i \in DOMAIN checkpoints :
                checkpoints[i].head.id \div CheckpointEvery >= e.id \div CheckpointEvery


-----------------------------------------------------------------------------
(* Claims of the source's comments that the code does not keep.            *)

(* verify_checkpoints: "are there still event_count events at or before    *)
(* it?", which must be so in a table nobody tampered with.                 *)
AnchorCountsVerify ==
    \A i \in DOMAIN checkpoints :
        Cardinality(EventsUpTo(checkpoints[i].head)) = checkpoints[i].count
=============================================================================
