-------------------------- MODULE AuditChainProofs --------------------------
(***************************************************************************)
(* Theorems about AuditChain for any set of appenders, any cadence and any *)
(* number of ids: its types, that verify_chain accepts every table the     *)
(* code writes, that the table only grows at its tail, that an event is    *)
(* lost to two winners only, and that the anchors hold.                    *)
(***************************************************************************)
EXTENDS AuditChain, FiniteSetTheorems, SequenceTheorems, TLAPS

-----------------------------------------------------------------------------
(* The strengthening.                                                      *)

OnePerPrev == \A e, f \in events : e.prev = f.prev => e = f

OnePerId == \A e, f \in events : e.id = f.id => e = f

(* An event that is not the newest has a successor, so its hash is taken.  *)
NoGap ==
    /\ \A e \in events : \/ \A f \in events : f.id <= e.id
                         \/ Taken(e.hash)
    /\ events # {} => Taken(GENESIS_HASH)

(* An id that is drawn and not yet committed is its call's alone, and above *)
(* the tail that call has read.                                             *)
DrawnIds ==
    \A p \in Appenders : At(p, "insert") =>
        /\ call[p].tail.id < call[p].id
        /\ \A e \in events : e.id # call[p].id
        /\ \A q \in Appenders : At(q, "insert") /\ call[q].id = call[p].id
                                  => q = p

IInv == /\ TypeOK
        /\ IsFiniteSet(events)
        /\ ChainVerifies
        /\ OnePerPrev
        /\ OnePerId
        /\ NoGap
        /\ DrawnIds

USE CadenceAssumption, MaxSeqAssumption, HasKeyAssumption

-----------------------------------------------------------------------------
(* A tail whose hash nobody has chained onto is still the newest event.    *)
LEMMA FreeTailIsNewest ==
    ASSUME IInv, NEW t \in Tails, ~Taken(t.hash)
    PROVE  \A e \in events : e.id <= t.id
  <1>1. CASE t = NoTail
    <2>1. events = {}
      BY <1>1 DEF IInv, NoGap, NoTail
    <2> QED BY <2>1
  <1>2. CASE \E f \in events : t = [id |-> f.id, hash |-> f.hash]
    <2>1. PICK f \in events : t = [id |-> f.id, hash |-> f.hash]
      BY <1>2
    <2>2. ~Taken(f.hash)
      BY <2>1
    <2>3. \A e \in events : e.id <= f.id
      BY <2>2 DEF IInv, NoGap
    <2> QED BY <2>1, <2>3
  <1> QED BY <1>1, <1>2 DEF Tails

(* So the row an append commits has an id above every committed one.       *)
LEMMA NewRowIsLast ==
    ASSUME IInv, NEW p \in Appenders, At(p, "insert"),
           ~Taken(call[p].tail.hash)
    PROVE  /\ call[p].tail \in Tails
           /\ \A e \in events : e.id < call[p].id
  <1>1. call[p] \in Calls
    BY DEF IInv, TypeOK
  <1>2. call[p].tail \in Tails /\ call[p].id \in Int
    BY <1>1, SMT DEF Calls, IInv, TypeOK
  <1>3. \A e \in events : e.id <= call[p].tail.id
    BY <1>2, FreeTailIsNewest
  <1>4. \A e \in events : e.id \in Int
    BY SMT DEF IInv, TypeOK, Rows
  <1>5. call[p].tail.id \in Int
    BY <1>2, <1>4 DEF Tails, NoTail
  <1>6. call[p].tail.id < call[p].id
    BY DEF IInv, DrawnIds
  <1> QED BY <1>2, <1>3, <1>4, <1>5, <1>6

-----------------------------------------------------------------------------
(* Types.                                                                  *)

(* Committed rows stay committed, so what is typed by them stays typed.    *)
LEMMA TypesGrow ==
    ASSUME TypeOK, seq' \in Nat, seq <= seq', events \subseteq events',
           AnchorDigests \subseteq AnchorDigests'
    PROVE  /\ Tails \subseteq Tails'
           /\ EventDigests \subseteq EventDigests'
           /\ Rows \subseteq Rows'
           /\ Anchors \subseteq Anchors'
           /\ Calls \subseteq Calls'
  <1>1. Tails \subseteq Tails'
    BY DEF Tails, NoTail
  <1>2. EventDigests \subseteq EventDigests'
    BY DEF EventDigests
  <1>3. 1..seq \subseteq 1..seq' /\ 0..seq \subseteq 0..seq'
    BY DEF TypeOK
  <1>4. Rows \subseteq Rows'
    BY <1>2, <1>3 DEF Rows
  <1>5. Anchors \subseteq Anchors'
    BY <1>1 DEF Anchors
  <1>6. Calls \subseteq Calls'
    BY <1>1, <1>3 DEF Calls
  <1> QED BY <1>1, <1>2, <1>4, <1>5, <1>6

(* A step that writes no row keeps the types if its call's locals are typed. *)
LEMMA LocalStepTypes ==
    ASSUME TypeOK, NEW p \in Appenders, NEW c, seq' \in 0..MaxSeq, seq <= seq',
           UNCHANGED <<events, checkpoints>>, abandoned' \in BOOLEAN,
           c \in Calls', call' = [call EXCEPT ![p] = c]
    PROVE  TypeOK'
  <1>1. AnchorDigests' = AnchorDigests
    BY DEF AnchorDigests, CheckpointHash
  <1>2. Rows \subseteq Rows' /\ Anchors \subseteq Anchors' /\ Calls \subseteq Calls'
    BY <1>1, TypesGrow DEF TypeOK
  <1>3. events' \subseteq Rows'
    BY <1>2 DEF TypeOK
  <1>4. checkpoints' \in Seq(Anchors')
    BY <1>2, SeqMonotonic DEF TypeOK
  <1>5. call' \in [Appenders -> Calls']
    BY <1>2 DEF TypeOK
  <1> QED BY <1>3, <1>4, <1>5 DEF TypeOK

(* The same for a step that draws no id either.                            *)
LEMMA QuietStepTypes ==
    ASSUME TypeOK, NEW p \in Appenders, NEW c \in Calls,
           UNCHANGED <<seq, events, checkpoints>>, abandoned' \in BOOLEAN,
           call' = [call EXCEPT ![p] = c]
    PROVE  TypeOK'
  <1>1. seq \in Nat /\ seq' \in 0..MaxSeq /\ seq <= seq' /\ seq' \in Nat
    BY DEF TypeOK
  <1>2. AnchorDigests' = AnchorDigests
    BY DEF AnchorDigests, CheckpointHash
  <1>3. c \in Calls'
    BY <1>1, <1>2, TypesGrow
  <1> QED BY <1>1, <1>3, LocalStepTypes

LEMMA AnchorTailType ==
    ASSUME TypeOK
    PROVE  CheckpointTail \in AnchorDigests
  <1>1. Len(checkpoints) \in Nat /\ DOMAIN checkpoints = 1..Len(checkpoints)
    BY LenProperties DEF TypeOK
  <1>2. CASE checkpoints = <<>>
    BY <1>2 DEF CheckpointTail, AnchorDigests
  <1>3. CASE checkpoints # <<>>
    <2>1. Len(checkpoints) \in DOMAIN checkpoints
      BY <1>1, <1>3, EmptySeq DEF TypeOK
    <2> QED BY <1>3, <2>1 DEF CheckpointTail, AnchorDigests
  <1> QED BY <1>2, <1>3

LEMMA TypeStep ==
    ASSUME IInv, [Next]_vars
    PROVE  TypeOK'
  <1> USE DEF IInv
  <1>1. CASE UNCHANGED vars
    BY <1>1 DEF TypeOK, vars, Tails, EventDigests, AnchorDigests, CheckpointHash,
                Rows, Anchors, Calls
  <1>2. ASSUME NEW p \in Appenders, Step(p)
        PROVE  TypeOK'
    <2>1. call[p] \in Calls /\ seq \in Nat
      BY DEF TypeOK
    <2>2. Cardinality(events) \in Nat
      BY FS_CardinalityType
    <2>3. abandoned \in BOOLEAN
      BY DEF TypeOK
    <2>4. Idle \in Calls
      <3>1. NoTail \in Tails /\ GENESIS_HASH \in AnchorDigests
        BY DEF Tails, AnchorDigests
      <3>2. seq \in Nat
        BY <2>1
      <3>3. 0 \in 0..1 /\ 0 \in 0..seq /\ 0 \in Nat
        BY <3>2
      <3> QED BY <3>1, <3>3 DEF Idle, Calls, Labels, Results
    <2>5. ASSUME NEW r \in Results
          PROVE  [Idle EXCEPT !.id = call[p].id, !.began = call[p].began,
                              !.result = r] \in Calls
      BY <2>1, <2>4 DEF Calls
    <2>6. CASE Begin(p)
      <3>1. [Idle EXCEPT !.pc = "tail", !.began = Cardinality(events)] \in Calls
        BY <2>2, <2>4 DEF Calls, Labels
      <3> QED BY <2>3, <2>6, <3>1, QuietStepTypes DEF Begin
    <2>7. CASE ReadTail(p)
      <3>1. PICK t \in Tails : call' = [call EXCEPT ![p].pc = "allocate", ![p].tail = t]
        BY <2>7 DEF ReadTail
      <3> DEFINE c == [call[p] EXCEPT !.pc = "allocate", !.tail = t]
      <3>2. c \in Calls
        BY <2>1 DEF Calls, Labels
      <3>3. call' = [call EXCEPT ![p] = c]
        BY <3>1
      <3> HIDE DEF c
      <3> QED BY <2>3, <2>7, <3>2, <3>3, QuietStepTypes DEF ReadTail
    <2>8. CASE Allocate(p)
      <3> DEFINE c == [call[p] EXCEPT !.pc = "insert", !.id = seq + 1]
      <3>1. c \in Calls'
        <4>1. Tails' = Tails /\ AnchorDigests' = AnchorDigests
          BY <2>8 DEF Allocate, Tails, AnchorDigests, CheckpointHash
        <4>2. /\ Labels' = Labels /\ Results' = Results
              /\ 0..seq \subseteq 0..seq' /\ seq + 1 \in 0..seq'
          BY <2>1, <2>8 DEF Allocate
        <4> HIDE DEF Tails, AnchorDigests, Results
        <4> QED BY <2>1, <4>1, <4>2 DEF Calls, Labels
      <3>2. call' = [call EXCEPT ![p] = c]
        BY <2>8 DEF Allocate
      <3>3. seq' \in 0..MaxSeq /\ seq <= seq'
        BY <2>1, <2>8 DEF Allocate
      <3> HIDE DEF c
      <3> QED BY <2>8, <3>1, <3>2, <3>3, <2>3, LocalStepTypes DEF Allocate
    <2>9. CASE Collide(p)
      <3> DEFINE c == IF call[p].attempt = 0
                      THEN [call[p] EXCEPT !.pc = "tail", !.attempt = 1]
                      ELSE [Idle EXCEPT !.id = call[p].id, !.began = call[p].began,
                                        !.result = "contention"]
      <3>1. c \in Calls
        <4>1. CASE call[p].attempt = 0
          <5>1. [call[p] EXCEPT !.pc = "tail", !.attempt = 1] \in Calls
            <6>1. "tail" \in Labels /\ 1 \in 0..1
              BY DEF Labels
            <6> QED BY <2>1, <6>1 DEF Calls
          <5> QED BY <4>1, <5>1
        <4>2. CASE call[p].attempt # 0
          BY <2>5, <4>2 DEF Results
        <4> QED BY <4>1, <4>2
      <3>2. call' = [call EXCEPT ![p] = c]
        BY <2>9 DEF Collide, Return
      <3> HIDE DEF c
      <3> QED BY <2>3, <2>9, <3>1, <3>2, QuietStepTypes DEF Collide
    <2>10. CASE Fault(p)
      <3> DEFINE c == [Idle EXCEPT !.id = call[p].id, !.began = call[p].began,
                                   !.result = "error"]
      <3>1. c \in Calls
        BY <2>5 DEF Results
      <3>2. call' = [call EXCEPT ![p] = c]
        BY <2>10 DEF Fault, Return
      <3>3. abandoned' \in BOOLEAN
        BY <2>3, <2>10 DEF Fault
      <3> HIDE DEF c
      <3> QED BY <2>10, <3>1, <3>2, <3>3, QuietStepTypes DEF Fault
    <2>11. CASE ReadHead(p)
      <3>1. PICK t \in Tails : call' = [call EXCEPT ![p].pc = "cp count", ![p].head = t]
        BY <2>11 DEF ReadHead
      <3> DEFINE c == [call[p] EXCEPT !.pc = "cp count", !.head = t]
      <3>2. c \in Calls
        BY <2>1 DEF Calls, Labels
      <3>3. call' = [call EXCEPT ![p] = c]
        BY <3>1
      <3> HIDE DEF c
      <3> QED BY <2>3, <2>11, <3>2, <3>3, QuietStepTypes DEF ReadHead
    <2>12. CASE CountEvents(p)
      <3> DEFINE c == [call[p] EXCEPT !.pc = "cp tail", !.count = Cardinality(events)]
      <3>1. c \in Calls
        BY <2>1, <2>2 DEF Calls, Labels
      <3>2. call' = [call EXCEPT ![p] = c]
        BY <2>12 DEF CountEvents
      <3> HIDE DEF c
      <3> QED BY <2>3, <2>12, <3>1, <3>2, QuietStepTypes DEF CountEvents
    <2>13. CASE ReadCheckpointTail(p)
      <3> DEFINE c == [call[p] EXCEPT !.pc = "cp write", !.prev = CheckpointTail]
      <3>1. c \in Calls
        BY <2>1, AnchorTailType DEF Calls, Labels
      <3>2. call' = [call EXCEPT ![p] = c]
        BY <2>13 DEF ReadCheckpointTail
      <3> HIDE DEF c
      <3> QED BY <2>3, <2>13, <3>1, <3>2, QuietStepTypes DEF ReadCheckpointTail
    <2>14. CASE RefuseCheckpoint(p)
      <3> DEFINE c == [Idle EXCEPT !.id = call[p].id, !.began = call[p].began,
                                   !.result = "event"]
      <3>1. c \in Calls
        BY <2>5 DEF Results
      <3>2. call' = [call EXCEPT ![p] = c]
        BY <2>14 DEF RefuseCheckpoint, Return
      <3>3. abandoned' \in BOOLEAN
        BY <2>3, <2>14 DEF RefuseCheckpoint
      <3> HIDE DEF c
      <3> QED BY <2>14, <3>1, <3>2, <3>3, QuietStepTypes DEF RefuseCheckpoint
    <2>15. CASE AppendEvent(p)
      <3>1. events' = events \cup {NewRow(p)} /\ UNCHANGED <<seq, checkpoints, abandoned>>
        BY <2>15 DEF AppendEvent
      <3>2. AnchorDigests' = AnchorDigests
        BY <3>1 DEF AnchorDigests, CheckpointHash
      <3>3. /\ Tails \subseteq Tails' /\ EventDigests \subseteq EventDigests'
            /\ Rows \subseteq Rows' /\ Anchors \subseteq Anchors' /\ Calls \subseteq Calls'
        BY <2>1, <3>1, <3>2, TypesGrow DEF TypeOK
      <3>4. call[p].id \in 1..seq
        <4>1. call[p].tail \in Tails /\ call[p].id \in 0..seq
          BY <2>1 DEF Calls
        <4>2. call[p].tail.id \in 0..seq
          BY <2>1, <4>1 DEF TypeOK, Tails, NoTail, Rows
        <4>3. call[p].tail.id < call[p].id
          BY <2>15 DEF AppendEvent, DrawnIds
        <4> QED BY <2>1, <4>1, <4>2, <4>3
      <3>5. call[p].tail.hash \in EventDigests
        <4>1. call[p].tail \in Tails
          BY <2>1 DEF Calls
        <4> QED BY <4>1 DEF Tails, NoTail, EventDigests
      <3>6. NewRow(p).hash \in EventDigests' /\ NewRow(p) \in events'
        BY <3>1 DEF EventDigests
      <3>7. NewRow(p) \in Rows'
        BY <3>1, <3>3, <3>4, <3>5, <3>6 DEF NewRow, Rows
      <3>8. events' \subseteq Rows'
        BY <3>1, <3>3, <3>7 DEF TypeOK
      <3>9. checkpoints' \in Seq(Anchors')
        BY <3>1, <3>3, SeqMonotonic DEF TypeOK
      <3>10. call' \in [Appenders -> Calls]
        <4>1. CASE call' = [call EXCEPT ![p].pc = "cp head"]
          <5>1. [call[p] EXCEPT !.pc = "cp head"] \in Calls
            BY <2>1 DEF Calls, Labels
          <5> QED BY <4>1, <5>1 DEF TypeOK
        <4>2. CASE call' = Return(p, "event")
          BY <2>5, <4>2 DEF Return, Results, TypeOK
        <4> QED BY <2>15, <4>1, <4>2 DEF AppendEvent
      <3> QED BY <3>1, <3>3, <3>8, <3>9, <3>10 DEF TypeOK
    <2>16. CASE WriteCheckpoint(p)
      <3>1. /\ checkpoints' = Append(checkpoints, NewCheckpoint(p))
            /\ UNCHANGED <<seq, events, abandoned>> /\ call' = Return(p, "event")
        BY <2>16 DEF WriteCheckpoint
      <3>2. NewCheckpoint(p) \in Anchors
        BY <2>1 DEF NewCheckpoint, Anchors, Calls
      <3>3. /\ checkpoints' \in Seq(Anchors)
            /\ DOMAIN checkpoints \subseteq DOMAIN checkpoints'
            /\ \A i \in DOMAIN checkpoints : checkpoints'[i] = checkpoints[i]
        BY <3>1, <3>2, AppendProperties, LenProperties DEF TypeOK
      <3>4. AnchorDigests \subseteq AnchorDigests'
        BY <3>3 DEF AnchorDigests, CheckpointHash
      <3>5. Rows \subseteq Rows' /\ Anchors \subseteq Anchors' /\ Calls \subseteq Calls'
        BY <2>1, <3>1, <3>4, TypesGrow DEF TypeOK
      <3>6. checkpoints' \in Seq(Anchors')
        BY <3>3, <3>5, SeqMonotonic
      <3>7. call' \in [Appenders -> Calls]
        BY <2>5, <3>1 DEF Return, Results, TypeOK
      <3> QED BY <3>1, <3>5, <3>6, <3>7 DEF TypeOK
    <2> QED BY <1>2, <2>6, <2>7, <2>8, <2>9, <2>10, <2>11, <2>12, <2>13, <2>14,
               <2>15, <2>16 DEF Step
  <1> QED BY <1>1, <1>2 DEF Next

-----------------------------------------------------------------------------
(* Steps that commit no event: the chain is untouched, so only what is said *)
(* of the ids drawn has to be looked at.                                    *)
LEMMA QuietStepChain ==
    ASSUME IInv, events' = events
    PROVE  (IsFiniteSet(events) /\ ChainVerifies /\ OnePerPrev /\ OnePerId /\ NoGap)'
  BY DEF IInv, ChainVerifies, RowVerifies, Hash, OnePerPrev, OnePerId, NoGap,
         Taken, GENESIS_HASH

LEMMA DrawnIdsStep ==
    ASSUME IInv, [Next]_vars
    PROVE  DrawnIds'
  <1> USE DEF IInv
  <1>1. CASE UNCHANGED vars
    BY <1>1 DEF DrawnIds, At, vars
  <1>2. ASSUME NEW p \in Appenders, Step(p), ~Allocate(p)
        PROVE  DrawnIds'
    <2>1. /\ \A q \in Appenders : At(q, "insert")' => q # p /\ call'[q] = call[q]
          /\ events' # events => events' = events \cup {NewRow(p)} /\ At(p, "insert")
      <3>1. call \in [Appenders -> Calls]
        BY DEF TypeOK
      <3>2. call[p] \in Calls
        BY <3>1
      <3>3. \A r : [Idle EXCEPT !.id = call[p].id, !.began = call[p].began,
                                !.result = r].pc = "idle"
        BY DEF Idle
      <3>4. /\ \E c : call' = [call EXCEPT ![p] = c] /\ c.pc # "insert"
            /\ events' # events => AppendEvent(p)
        <4>1. CASE Begin(p)
          <5>1. [Idle EXCEPT !.pc = "tail", !.began = Cardinality(events)].pc # "insert"
            BY DEF Idle
          <5> QED BY <4>1, <5>1 DEF Begin
        <4>2. CASE ReadTail(p)
          <5>1. PICK u : call' = [call EXCEPT ![p].pc = "allocate", ![p].tail = u]
            BY <4>2 DEF ReadTail
          <5>2. [call[p] EXCEPT !.pc = "allocate", !.tail = u].pc # "insert"
            BY <3>2 DEF Calls
          <5> QED BY <4>2, <5>1, <5>2 DEF ReadTail
        <4>3. CASE AppendEvent(p)
          <5>1. [call[p] EXCEPT !.pc = "cp head"].pc # "insert"
            BY <3>2 DEF Calls
          <5> QED BY <3>3, <4>3, <5>1 DEF AppendEvent, Return
        <4>4. CASE Collide(p)
          <5>1. [call[p] EXCEPT !.pc = "tail", !.attempt = 1].pc # "insert"
            BY <3>2 DEF Calls
          <5> QED BY <3>3, <4>4, <5>1 DEF Collide, Return
        <4>5. CASE Fault(p) \/ RefuseCheckpoint(p) \/ WriteCheckpoint(p)
          BY <3>3, <4>5 DEF Fault, RefuseCheckpoint, WriteCheckpoint, Return
        <4>6. CASE ReadHead(p)
          <5>1. PICK u : call' = [call EXCEPT ![p].pc = "cp count", ![p].head = u]
            BY <4>6 DEF ReadHead
          <5>2. [call[p] EXCEPT !.pc = "cp count", !.head = u].pc # "insert"
            BY <3>2 DEF Calls
          <5> QED BY <4>6, <5>1, <5>2 DEF ReadHead
        <4>7. CASE CountEvents(p)
          <5>1. [call[p] EXCEPT !.pc = "cp tail", !.count = Cardinality(events)].pc # "insert"
            BY <3>2 DEF Calls
          <5> QED BY <4>7, <5>1 DEF CountEvents
        <4>8. CASE ReadCheckpointTail(p)
          <5>1. [call[p] EXCEPT !.pc = "cp write", !.prev = CheckpointTail].pc # "insert"
            BY <3>2 DEF Calls
          <5> QED BY <4>8, <5>1 DEF ReadCheckpointTail
        <4> QED BY <1>2, <4>1, <4>2, <4>3, <4>4, <4>5, <4>6, <4>7, <4>8 DEF Step
      <3>5. PICK c : call' = [call EXCEPT ![p] = c] /\ c.pc # "insert"
        BY <3>4
      <3>6. \A q \in Appenders : call'[q] = IF q = p THEN c ELSE call[q]
        BY <3>1, <3>5
      <3>7. \A q \in Appenders : At(q, "insert")' => q # p /\ call'[q] = call[q]
        BY <3>5, <3>6 DEF At
      <3> QED BY <3>4, <3>7 DEF AppendEvent
    <2> QED BY <2>1 DEF DrawnIds, At, NewRow
  <1>3. ASSUME NEW p \in Appenders, Allocate(p)
        PROVE  DrawnIds'
    <2>1. /\ call \in [Appenders -> Calls] /\ seq \in Nat
          /\ events \subseteq Rows
      BY DEF TypeOK
    <2>2. /\ call'[p].id = seq + 1 /\ call'[p].tail = call[p].tail
          /\ \A q \in Appenders : q # p => call'[q] = call[q]
          /\ events' = events
      BY <1>3, <2>1 DEF Allocate, Calls
    <2>3. /\ call[p].tail.id \in 0..seq
          /\ \A q \in Appenders : call[q].id \in 0..seq
          /\ \A e \in events : e.id \in 1..seq
      BY <2>1 DEF Calls, Tails, NoTail, Rows
    <2> QED BY <2>1, <2>2, <2>3 DEF DrawnIds, At
  <1> QED BY <1>1, <1>2, <1>3 DEF Next, Step

(* The step that matters: a committed event extends the chain at its end.  *)
LEMMA AppendExtendsChain ==
    ASSUME IInv, NEW p \in Appenders, AppendEvent(p)
    PROVE  (ChainVerifies /\ OnePerPrev /\ OnePerId /\ NoGap)'
  <1>a. PICK n : n = NewRow(p)
    OBVIOUS
  <1>b. PICK t : t = call[p].tail
    OBVIOUS
  <1>1. /\ events' = events \cup {n}
        /\ At(p, "insert") /\ ~Taken(t.hash)
    BY <1>a, <1>b DEF AppendEvent
  <1>2. t \in Tails /\ \A e \in events : e.id < n.id
    BY <1>a, <1>b, <1>1, NewRowIsLast DEF NewRow
  <1>3. /\ n.prev = t.hash /\ n.hash = Hash(n.content, n.prev) /\ n.id \in Int
        /\ \A e \in events : e.id \in Int
    BY <1>a, <1>b DEF NewRow, IInv, TypeOK, Calls, Rows
  <1>4. \A e \in events : e.id <= t.id
    BY <1>1, <1>2, FreeTailIsNewest
  <1>5. ChainVerifies'
    <2>1. ASSUME NEW e \in events PROVE RowVerifies(e)'
      <3>1. RowVerifies(e)
        BY DEF IInv, ChainVerifies
      <3> QED BY <1>1, <1>2, <1>3, <3>1 DEF RowVerifies, Hash, GENESIS_HASH
    <2>2. RowVerifies(n)'
      <3>1. CASE t = NoTail
        <4>1. events = {}
          BY <1>1, <3>1 DEF IInv, NoGap, NoTail
        <4> QED BY <1>1, <1>3, <3>1, <4>1 DEF RowVerifies, Hash, NoTail, GENESIS_HASH
      <3>2. CASE \E f \in events : t = [id |-> f.id, hash |-> f.hash]
        <4>1. PICK f \in events : t = [id |-> f.id, hash |-> f.hash]
          BY <3>2
        <4>2. f.hash = n.prev /\ f.id < n.id /\ \A g \in events' : g.id <= f.id \/ g.id >= n.id
          BY <1>1, <1>2, <1>3, <1>4, <4>1
        <4> QED BY <1>1, <1>3, <4>2 DEF RowVerifies, Hash
      <3> QED BY <1>2, <3>1, <3>2 DEF Tails
    <2> QED BY <1>1, <2>1, <2>2 DEF ChainVerifies
  <1>6. OnePerPrev'
    BY <1>1, <1>3 DEF OnePerPrev, IInv, Taken
  <1>7. OnePerId'
    BY <1>1, <1>2, <1>3 DEF OnePerId, IInv
  <1>8. NoGap'
    <2>1. \A h : Taken(h) => Taken(h)'
      BY <1>1 DEF Taken
    <2>2. Taken(t.hash)'
      BY <1>1, <1>3 DEF Taken
    <2>3. Taken(GENESIS_HASH)'
      BY <1>2, <2>1, <2>2 DEF IInv, NoGap, Tails, NoTail, GENESIS_HASH
    <2>4. ASSUME NEW e \in events
          PROVE  (\A f \in events : f.id <= e.id) \/ Taken(e.hash)
      BY DEF IInv, NoGap
    <2>5. ASSUME NEW e \in events, \A f \in events : f.id <= e.id
          PROVE  Taken(e.hash)'
      <3>1. PICK f \in events : t = [id |-> f.id, hash |-> f.hash]
        BY <1>2, <1>4, <2>3 DEF Tails, NoTail, IInv, TypeOK, Rows
      <3>2. f.id = e.id
        BY <1>3, <1>4, <2>5, <3>1
      <3>3. f = e
        BY <3>2 DEF IInv, OnePerId
      <3> QED BY <2>2, <3>1, <3>3
    <2>6. \A f \in events' : f.id <= n.id
      BY <1>1, <1>2, <1>3
    <2> QED BY <1>1, <2>1, <2>3, <2>4, <2>5, <2>6 DEF NoGap, GENESIS_HASH
  <1> QED BY <1>5, <1>6, <1>7, <1>8

-----------------------------------------------------------------------------
(* The theorems.                                                           *)

LEMMA InitIInv == Init => IInv
  <1> SUFFICES ASSUME Init PROVE IInv
    OBVIOUS
  <1>1. /\ events = {} /\ seq = 0 /\ checkpoints = <<>> /\ abandoned = FALSE
        /\ call = [p \in Appenders |-> Idle]
    BY DEF Init
  <1>2. Idle \in Calls
    <2>1. NoTail \in Tails /\ GENESIS_HASH \in AnchorDigests
      BY DEF Tails, AnchorDigests
    <2>2. 0 \in 0..1 /\ 0 \in 0..seq /\ 0 \in Nat
      BY <1>1
    <2> QED BY <2>1, <2>2 DEF Idle, Calls, Labels, Results
  <1>3. TypeOK
    <2>1. checkpoints \in Seq(Anchors)
      BY <1>1, EmptySeq
    <2>2. events \subseteq Rows /\ seq \in 0..MaxSeq
      BY <1>1
    <2>3. call \in [Appenders -> Calls]
      BY <1>1, <1>2
    <2> QED BY <1>1, <2>1, <2>2, <2>3 DEF TypeOK
  <1>4. IsFiniteSet(events)
    BY <1>1, FS_EmptySet
  <1> QED BY <1>1, <1>3, <1>4 DEF IInv, ChainVerifies, OnePerPrev, OnePerId, NoGap,
             DrawnIds, At, Idle

LEMMA NextIInv == IInv /\ [Next]_vars => IInv'
  <1> SUFFICES ASSUME IInv, [Next]_vars PROVE IInv'
    OBVIOUS
  <1>1. TypeOK' /\ DrawnIds'
    BY TypeStep, DrawnIdsStep
  <1>2. CASE events' = events
    BY <1>1, <1>2, QuietStepChain DEF IInv
  <1>3. ASSUME NEW p \in Appenders, AppendEvent(p)
        PROVE  IInv'
    <2>1. IsFiniteSet(events')
      BY <1>3, FS_AddElement DEF IInv, AppendEvent
    <2> QED BY <1>1, <1>3, <2>1, AppendExtendsChain DEF IInv
  <1>4. events' = events \/ \E p \in Appenders : AppendEvent(p)
    BY DEF Next, Step, Begin, ReadTail, Allocate, Collide, Fault, ReadHead,
           CountEvents, ReadCheckpointTail, WriteCheckpoint, RefuseCheckpoint, vars
  <1> QED BY <1>2, <1>3, <1>4

(* Every variable keeps its type, for any number of appenders and ids.     *)
THEOREM TypeCorrect == Spec => []TypeOK
  <1>1. IInv => TypeOK
    BY DEF IInv
  <1> QED BY <1>1, InitIInv, NextIInv, PTL DEF Spec

(* verify_chain accepts every table concurrent record() calls can produce. *)
THEOREM ChainAlwaysVerifies == Spec => []ChainVerifies
  <1>1. IInv => ChainVerifies
    BY DEF IInv
  <1> QED BY <1>1, InitIInv, NextIInv, PTL DEF Spec

(* The table is append-only at its tail, in id order as well as in chain   *)
(* order, although ids are drawn before the commits they belong to.        *)
THEOREM AppendsOnlyAtTail == Spec => AppendOnlyAtTail
  <1>1. ASSUME IInv, [Next]_vars
        PROVE  [ /\ events \subseteq events'
                 /\ \A e \in events' \ events, f \in events : f.id < e.id ]_vars
    <2>1. CASE events' = events
      BY <2>1
    <2>2. ASSUME NEW p \in Appenders, AppendEvent(p)
          PROVE  /\ events \subseteq events'
                 /\ \A e \in events' \ events, f \in events : f.id < e.id
      <3>1. /\ events' = events \cup {NewRow(p)} /\ NewRow(p).id = call[p].id
            /\ \A f \in events : f.id < call[p].id
        BY <1>1, <2>2, NewRowIsLast DEF AppendEvent, NewRow
      <3> QED BY <3>1
    <2>3. events' = events \/ \E p \in Appenders : AppendEvent(p)
      BY <1>1 DEF Next, Step, Begin, ReadTail, Allocate, Collide, Fault, ReadHead,
             CountEvents, ReadCheckpointTail, WriteCheckpoint, RefuseCheckpoint, vars
    <2> QED BY <2>1, <2>2, <2>3
  <1> QED BY <1>1, InitIInv, NextIInv, PTL DEF Spec, AppendOnlyAtTail

-----------------------------------------------------------------------------
(* No event is given up for fewer than two winners.                        *)

(* Each attempt that failed, and a tail that is taken by now, is an event  *)
(* that others committed since the call began.                             *)
Winners(p) == IF call[p].pc # "tail" /\ Taken(call[p].tail.hash)
              THEN call[p].attempt + 1 ELSE call[p].attempt

LossInv ==
    \A p \in Appenders :
        /\ call[p].pc \in {"tail", "allocate", "insert"} =>
              Cardinality(events) >= call[p].began + Winners(p)
        /\ call[p].result = "contention" => Cardinality(events) >= call[p].began + 2

(* A step changes the locals of its own call only, and commits at most one *)
(* event.                                                                  *)
LEMMA OneCallSteps ==
    ASSUME IInv, NEW p \in Appenders, Step(p)
    PROVE  /\ \A q \in Appenders : call[q] \in Calls /\ (q # p => call'[q] = call[q])
           /\ Cardinality(events) \in Nat /\ Cardinality(events') \in Nat
           /\ Cardinality(events') >= Cardinality(events)
           /\ \/ events' = events
              \/ AppendEvent(p) /\ Cardinality(events') = Cardinality(events) + 1
  <1>1. call \in [Appenders -> Calls] /\ IsFiniteSet(events)
    BY DEF IInv, TypeOK
  <1>2. \A q \in Appenders : q # p => call'[q] = call[q]
    BY <1>1 DEF Step, Begin, ReadTail, Allocate, AppendEvent, Collide, Fault, ReadHead,
           CountEvents, ReadCheckpointTail, WriteCheckpoint, RefuseCheckpoint, Return
  <1>3. CASE AppendEvent(p)
    <2>1. events' = events \cup {NewRow(p)} /\ NewRow(p).id = call[p].id
      BY <1>3 DEF AppendEvent, NewRow
    <2>2. NewRow(p) \notin events
      BY <1>3, <2>1 DEF IInv, DrawnIds, AppendEvent
    <2>3. Cardinality(events') = Cardinality(events) + 1
      BY <1>1, <2>1, <2>2, FS_AddElement
    <2> QED BY <1>1, <1>2, <1>3, <2>3, FS_CardinalityType
  <1>4. CASE ~AppendEvent(p)
    <2>1. events' = events
      BY <1>4 DEF Step, Begin, ReadTail, Allocate, Collide, Fault, ReadHead,
             CountEvents, ReadCheckpointTail, WriteCheckpoint, RefuseCheckpoint
    <2> QED BY <1>1, <1>2, <2>1, FS_CardinalityType
  <1> QED BY <1>3, <1>4

(* Nobody has chained onto the newest event yet.                           *)
LEMMA NewestIsFree ==
    ASSUME IInv, NEW t \in Tails, Newest(t)
    PROVE  ~Taken(t.hash)
  <1> SUFFICES ASSUME NEW f \in events, f.prev = t.hash PROVE FALSE
    BY DEF Taken
  <1>1. PICK e \in events : /\ \A g \in events : g.id <= e.id
                            /\ t = [id |-> e.id, hash |-> e.hash]
    BY DEF Newest
  <1>2. RowVerifies(e) /\ RowVerifies(f)
    BY DEF IInv, ChainVerifies
  <1>3. e.hash # GENESIS_HASH
    BY <1>2 DEF RowVerifies, Hash, GENESIS_HASH
  <1>4. PICK g \in events : g.hash = f.prev /\ g.id < f.id
    BY <1>1, <1>2, <1>3 DEF RowVerifies
  <1>5. g.prev = e.prev
    <2>1. g.hash = Hash(g.content, g.prev)
      BY DEF IInv, ChainVerifies, RowVerifies
    <2>2. g.hash = e.hash
      BY <1>1, <1>4
    <2> QED BY <1>2, <2>1, <2>2 DEF RowVerifies, Hash
  <1>6. g = e
    BY <1>5 DEF IInv, OnePerPrev
  <1>7. e.id \in Int /\ f.id \in Int
    BY DEF IInv, TypeOK, Rows
  <1> QED BY <1>1, <1>4, <1>6, <1>7

LEMMA LossStep ==
    ASSUME IInv, LossInv, NEW p \in Appenders, Step(p)
    PROVE  LossInv'
  <1> DEFINE Fair(q) == /\ call[q].pc \in {"tail", "allocate", "insert"} =>
                             Cardinality(events) >= call[q].began + Winners(q)
                        /\ call[q].result = "contention" => Cardinality(events) >= call[q].began + 2
  <1>1. /\ \A q \in Appenders : call[q] \in Calls /\ (q # p => call'[q] = call[q])
        /\ Cardinality(events) \in Nat /\ Cardinality(events') \in Nat
        /\ Cardinality(events') >= Cardinality(events)
        /\ \/ events' = events
           \/ AppendEvent(p) /\ Cardinality(events') = Cardinality(events) + 1
    BY OneCallSteps
  <1>2. \A q \in Appenders : call[q].began \in Nat /\ call[q].attempt \in 0..1
    BY <1>1 DEF Calls
  <1>3. \A q \in Appenders : Fair(q)
    BY DEF LossInv
  <1>4. ASSUME NEW q \in Appenders, q # p PROVE Fair(q)'
    <2>1. call'[q] = call[q]
      BY <1>1, <1>4
    <2>2. CASE events' = events
      BY <1>3, <2>1, <2>2 DEF Winners, Taken
    <2>3. CASE AppendEvent(p) /\ Cardinality(events') = Cardinality(events) + 1
      <3>1. Taken(call[q].tail.hash) => Taken(call[q].tail.hash)'
        BY <2>1, <2>3 DEF Taken, AppendEvent
      <3>2. Winners(q)' \in {Winners(q), Winners(q) + 1} /\ Winners(q) \in Nat
        BY <1>2, <2>1, <3>1 DEF Winners
      <3> QED BY <1>1, <1>2, <1>3, <2>1, <2>3, <3>2
    <2> QED BY <1>1, <2>2, <2>3
  <1>5. Fair(p)'
    <2>0. Fair(p) /\ call[p] \in Calls
      BY <1>1, <1>3
    <2>1. ASSUME NEW r \in Results \ {"contention"}, call' = Return(p, r) PROVE Fair(p)'
      <3>1. call'[p].pc = "idle" /\ call'[p].result = r
        BY <2>1 DEF Return, Idle, IInv, TypeOK
      <3> QED BY <2>1, <3>1
    <2>2. CASE Begin(p)
      <3>1. /\ call'[p].pc = "tail" /\ call'[p].attempt = 0 /\ call'[p].result = "none yet"
            /\ call'[p].began = Cardinality(events) /\ events' = events
        BY <2>2 DEF Begin, Idle, IInv, TypeOK
      <3>2. Winners(p)' = 0
        BY <3>1 DEF Winners
      <3>3. Cardinality(events') = call'[p].began
        BY <3>1
      <3>4. Cardinality(events') >= call'[p].began + Winners(p)'
        BY <1>1, <3>2, <3>3
      <3> QED BY <3>1, <3>4
    <2>3. CASE ReadTail(p)
      <3>1. PICK t \in Tails : Newest(t) /\ call' = [call EXCEPT ![p].pc = "allocate", ![p].tail = t]
        BY <2>3 DEF ReadTail
      <3>2. /\ call'[p].pc = "allocate" /\ call'[p].tail = t /\ call'[p].began = call[p].began
            /\ call'[p].attempt = call[p].attempt /\ call'[p].result = call[p].result
        BY <2>0, <3>1 DEF Calls, IInv, TypeOK
      <3>3. ~Taken(t.hash)' /\ events' = events /\ call[p].pc = "tail"
        BY <2>3, <3>1, NewestIsFree DEF ReadTail, At, Taken
      <3>4. Winners(p)' = call[p].attempt /\ Winners(p) = call[p].attempt
        BY <1>2, <3>2, <3>3 DEF Winners, Taken
      <3> QED BY <1>1, <1>2, <2>0, <3>2, <3>3, <3>4
    <2>4. CASE Allocate(p)
      <3>1. /\ call'[p].pc = "insert" /\ call'[p].tail = call[p].tail
            /\ call'[p].began = call[p].began /\ events' = events /\ call[p].pc = "allocate"
            /\ call'[p].attempt = call[p].attempt /\ call'[p].result = call[p].result
        BY <2>0, <2>4 DEF Allocate, At, Calls, IInv, TypeOK
      <3> QED BY <2>0, <3>1 DEF Winners, Taken
    <2>5. CASE AppendEvent(p)
      <3>1. CASE call' = [call EXCEPT ![p].pc = "cp head"]
        <4>1. /\ call'[p].pc = "cp head" /\ call'[p].began = call[p].began
              /\ call'[p].result = call[p].result
          BY <2>0, <3>1 DEF Calls, IInv, TypeOK
        <4>2. call[p].result = "contention" => Cardinality(events') >= call[p].began + 2
          BY <1>1, <1>2, <2>0
        <4> QED BY <4>1, <4>2
      <3>2. CASE call' = Return(p, "event")
        BY <2>1, <3>2 DEF Results
      <3> QED BY <2>5, <3>1, <3>2 DEF AppendEvent
    <2>6. CASE Collide(p)
      <3>1. events' = events /\ call[p].pc = "insert" /\ Taken(call[p].tail.hash)
        BY <2>6 DEF Collide, At
      <3>2. Cardinality(events) >= call[p].began + call[p].attempt + 1
        BY <1>1, <1>2, <2>0, <3>1 DEF Winners
      <3>3. CASE call[p].attempt = 0
        <4>1. call' = [call EXCEPT ![p].pc = "tail", ![p].attempt = 1]
          BY <2>6, <3>3 DEF Collide
        <4>2. /\ call'[p].pc = "tail" /\ call'[p].attempt = 1
              /\ call'[p].began = call[p].began /\ call'[p].result = call[p].result
          BY <2>0, <4>1 DEF Calls, IInv, TypeOK
        <4> QED BY <1>1, <1>2, <2>0, <3>1, <3>2, <3>3, <4>2 DEF Winners
      <3>4. CASE call[p].attempt # 0
        <4>1. call' = Return(p, "contention") /\ call[p].attempt = 1
          BY <1>2, <2>6, <3>4 DEF Collide
        <4>2. call'[p].pc = "idle" /\ call'[p].began = call[p].began
          BY <4>1 DEF Return, Idle, IInv, TypeOK
        <4> QED BY <1>1, <1>2, <3>1, <3>2, <4>1, <4>2
      <3> QED BY <3>3, <3>4
    <2>7. CASE Fault(p) \/ WriteCheckpoint(p) \/ RefuseCheckpoint(p)
      BY <2>1, <2>7 DEF Fault, WriteCheckpoint, RefuseCheckpoint, Results
    <2>8. CASE ReadHead(p) \/ CountEvents(p) \/ ReadCheckpointTail(p)
      <3> DEFINE OnItsWay(c) == /\ c.pc \in {"cp count", "cp tail", "cp write"}
                               /\ c.began = call[p].began /\ c.result = call[p].result
      <3>1. CASE ReadHead(p)
        <4>1. PICK t \in Tails : call' = [call EXCEPT ![p].pc = "cp count", ![p].head = t]
          BY <3>1 DEF ReadHead
        <4>2. OnItsWay(call'[p])
          BY <2>0, <4>1 DEF Calls, IInv, TypeOK
        <4> QED BY <1>1, <2>0, <3>1, <4>2 DEF ReadHead
      <3>2. CASE CountEvents(p)
        <4>1. OnItsWay(call'[p])
          BY <2>0, <3>2 DEF CountEvents, Calls, IInv, TypeOK
        <4> QED BY <1>1, <2>0, <3>2, <4>1 DEF CountEvents
      <3>3. CASE ReadCheckpointTail(p)
        <4>1. OnItsWay(call'[p])
          BY <2>0, <3>3 DEF ReadCheckpointTail, Calls, IInv, TypeOK
        <4> QED BY <1>1, <2>0, <3>3, <4>1 DEF ReadCheckpointTail
      <3> QED BY <2>8, <3>1, <3>2, <3>3
    <2> QED BY <2>2, <2>3, <2>4, <2>5, <2>6, <2>7, <2>8 DEF Step
  <1> QED BY <1>4, <1>5 DEF LossInv

(* record() reports contention only when two other calls committed since   *)
(* it began: whoever writes alone, or against one other, is not refused.   *)
THEOREM LossTakesTwo == Spec => []LossNeedsTwoWinners
  <1>1. Init => LossInv
    <2>1. Idle.pc = "idle" /\ Idle.result = "none yet"
      BY DEF Idle
    <2>2. Init => \A p \in Appenders : call[p] = Idle
      BY DEF Init
    <2> QED BY <2>1, <2>2 DEF LossInv
  <1>2. IInv /\ LossInv /\ [Next]_vars => LossInv'
    <2> SUFFICES ASSUME IInv, LossInv, [Next]_vars PROVE LossInv'
      OBVIOUS
    <2>1. CASE UNCHANGED vars
      BY <2>1 DEF vars, LossInv, Winners, Taken
    <2> QED BY <2>1, LossStep DEF Next
  <1>3. LossInv => LossNeedsTwoWinners
    BY DEF LossInv, LossNeedsTwoWinners
  <1> QED BY <1>1, <1>2, <1>3, InitIInv, NextIInv, PTL DEF Spec

-----------------------------------------------------------------------------
(* Anchors.                                                                *)

LEMMA DivGrows ==
    ASSUME NEW d \in Nat \ {0}, NEW a \in Nat, NEW b \in Nat, a <= b
    PROVE  /\ a \div d \in Nat /\ b \div d \in Nat
           /\ a \div d <= b \div d
           /\ a >= d <=> a \div d >= 1
  OBVIOUS

Counted == {"cp count", "cp tail", "cp write"}

(* The head a call has read is an event, and no more events are at or      *)
(* below it than the call has counted.                                     *)
HeadOK(c) ==
    /\ c.pc = "cp head" \/ c.pc \in Counted => events # {}
    /\ c.pc \in Counted => \E e \in events : c.head = [id |-> e.id, hash |-> e.hash]
    /\ c.pc \in {"cp tail", "cp write"} => Cardinality(EventsUpTo(c.head)) <= c.count

ReadHeads == \A p \in Appenders : HeadOK(call[p])

AnchorsChained ==
    \A i \in DOMAIN checkpoints :
        checkpoints[i].prev = IF i = 1 THEN GENESIS_HASH ELSE CheckpointHash(checkpoints[i - 1])

AnchorOK(c) == /\ \E e \in events : c.head = [id |-> e.id, hash |-> e.hash]
               /\ Cardinality(EventsUpTo(c.head)) <= c.count

AnchorsCount == \A i \in DOMAIN checkpoints : AnchorOK(checkpoints[i])

Reaches(head, e) == head.id \div CheckpointEvery >= e.id \div CheckpointEvery

(* The call will write an anchor that covers event e, or give it up.       *)
WillCover(c, e) == \/ c.pc = "cp head"
                   \/ c.pc \in Counted /\ Reaches(c.head, e)

Covered(e) == \/ abandoned
              \/ \E p \in Appenders : WillCover(call[p], e)
              \/ \E i \in DOMAIN checkpoints : Reaches(checkpoints[i].head, e)

CadenceKept == \A e \in events : HasKey /\ e.id >= CheckpointEvery => Covered(e)

AnchorInv == ReadHeads /\ AnchorsChained /\ AnchorsCount /\ CadenceKept

-----------------------------------------------------------------------------
(* What is committed after an event has a higher id, so the events up to   *)
(* it stay the same.                                                       *)
LEMMA UpToKept ==
    ASSUME IInv, NEW p \in Appenders, Step(p)
    PROVE  /\ events \subseteq events'
           /\ \A f \in events : {e \in events' : e.id <= f.id} = {e \in events : e.id <= f.id}
  <1>1. CASE events' = events
    BY <1>1
  <1>2. CASE AppendEvent(p)
    <2>1. events' = events \cup {NewRow(p)} /\ NewRow(p).id = call[p].id
      BY <1>2 DEF AppendEvent, NewRow
    <2>2. \A f \in events : f.id < call[p].id
      BY <1>2, NewRowIsLast DEF AppendEvent
    <2>3. call[p].id \in Int /\ \A f \in events : f.id \in Int
      BY DEF IInv, TypeOK, Calls, Rows
    <2> QED BY <2>1, <2>2, <2>3
  <1> QED BY <1>1, <1>2, OneCallSteps

LEMMA AnchorKept ==
    ASSUME IInv, NEW p \in Appenders, Step(p), NEW c
    PROVE  /\ HeadOK(c) => HeadOK(c)'
           /\ AnchorOK(c) => AnchorOK(c)'
  <1>1. ASSUME NEW h, \E e \in events : h = [id |-> e.id, hash |-> e.hash]
        PROVE  /\ \E e \in events' : h = [id |-> e.id, hash |-> e.hash]
               /\ EventsUpTo(h)' = EventsUpTo(h)
    BY <1>1, UpToKept DEF EventsUpTo
  <1>2. events # {} => events' # {}
    BY UpToKept
  <1>3. AnchorOK(c) => AnchorOK(c)'
    BY <1>1 DEF AnchorOK
  <1>4. HeadOK(c) => HeadOK(c)'
    BY <1>1, <1>2 DEF HeadOK, Counted
  <1> QED BY <1>3, <1>4

LEMMA HeadsStep ==
    ASSUME IInv, ReadHeads, NEW p \in Appenders, Step(p)
    PROVE  ReadHeads'
  <1>1. \A q \in Appenders : call[q] \in Calls /\ (q # p => call'[q] = call[q])
    BY OneCallSteps
  <1>2. \A q \in Appenders : q # p => HeadOK(call[q])'
    BY <1>1, AnchorKept DEF ReadHeads, HeadOK, EventsUpTo
  <1>3. SUFFICES HeadOK(call[p])'
    BY <1>2 DEF ReadHeads
  <1>4. /\ call[p] \in Calls /\ HeadOK(call[p])
        /\ call \in [Appenders -> Calls]
    BY <1>1 DEF ReadHeads, IInv, TypeOK
  <1>5. ASSUME call'[p].pc \notin Counted \cup {"cp head"} PROVE HeadOK(call[p])'
    BY <1>5 DEF HeadOK, Counted
  <1>6. \A r : call' = Return(p, r) => call'[p].pc = "idle"
    BY <1>4 DEF Return, Idle
  <1>7. CASE Begin(p)
    <2>1. call'[p].pc = "tail"
      BY <1>4, <1>7 DEF Begin, Idle
    <2> QED BY <1>5, <2>1 DEF Counted
  <1>8. CASE ReadTail(p) \/ Allocate(p)
    <2>1. call'[p].pc \in {"allocate", "insert"}
      BY <1>4, <1>8 DEF ReadTail, Allocate, Calls
    <2> QED BY <1>5, <2>1 DEF Counted
  <1>9. CASE AppendEvent(p)
    <2>1. CASE call' = [call EXCEPT ![p].pc = "cp head"]
      <3>1. call'[p].pc = "cp head" /\ events' # {}
        BY <1>4, <1>9, <2>1 DEF AppendEvent, Calls
      <3> QED BY <3>1 DEF HeadOK, Counted
    <2> QED BY <1>5, <1>6, <1>9, <2>1 DEF AppendEvent, Counted
  <1>10. CASE Collide(p)
    <2>1. call'[p].pc \in {"tail", "idle"}
      BY <1>4, <1>6, <1>10 DEF Collide, Calls
    <2> QED BY <1>5, <2>1 DEF Counted
  <1>11. CASE Fault(p) \/ WriteCheckpoint(p) \/ RefuseCheckpoint(p)
    BY <1>5, <1>6, <1>11 DEF Fault, WriteCheckpoint, RefuseCheckpoint, Counted
  <1>12. CASE ReadHead(p)
    <2>1. PICK t \in Tails : Newest(t) /\ call' = [call EXCEPT ![p].pc = "cp count", ![p].head = t]
      BY <1>12 DEF ReadHead
    <2>2. call'[p].pc = "cp count" /\ call'[p].head = t /\ events' = events
      BY <1>4, <1>12, <2>1 DEF ReadHead, Calls
    <2>3. events # {}
      BY <1>4, <1>12 DEF ReadHead, At, HeadOK
    <2>4. \E e \in events : t = [id |-> e.id, hash |-> e.hash]
      BY <2>1, <2>3 DEF Newest
    <2> QED BY <2>2, <2>3, <2>4 DEF HeadOK, Counted
  <1>13. CASE CountEvents(p)
    <2>1. /\ call'[p].pc = "cp tail" /\ call'[p].head = call[p].head
          /\ call'[p].count = Cardinality(events) /\ events' = events
      BY <1>4, <1>13 DEF CountEvents, Calls
    <2>2. events # {} /\ \E e \in events : call[p].head = [id |-> e.id, hash |-> e.hash]
      BY <1>4, <1>13 DEF CountEvents, At, HeadOK, Counted
    <2>3. Cardinality(EventsUpTo(call[p].head)) <= Cardinality(events)
      BY FS_Subset DEF IInv, EventsUpTo
    <2> QED BY <2>1, <2>2, <2>3 DEF HeadOK, Counted, EventsUpTo
  <1>14. CASE ReadCheckpointTail(p)
    <2>1. /\ call'[p].pc = "cp write" /\ call'[p].head = call[p].head
          /\ call'[p].count = call[p].count /\ events' = events /\ call[p].pc = "cp tail"
      BY <1>4, <1>14 DEF ReadCheckpointTail, At, Calls
    <2> QED BY <1>4, <2>1 DEF HeadOK, Counted, EventsUpTo
  <1> QED BY <1>7, <1>8, <1>9, <1>10, <1>11, <1>12, <1>13, <1>14 DEF Step

(* The anchors that a step leaves: the same, or one more at the end.       *)
LEMMA AnchorsGrow ==
    ASSUME IInv, NEW p \in Appenders, Step(p)
    PROVE  \/ checkpoints' = checkpoints /\ ~WriteCheckpoint(p)
           \/ /\ WriteCheckpoint(p)
              /\ Len(checkpoints) \in Nat
              /\ DOMAIN checkpoints = 1..Len(checkpoints)
              /\ DOMAIN checkpoints' = 1..Len(checkpoints) + 1
              /\ \A i \in DOMAIN checkpoints : checkpoints'[i] = checkpoints[i]
              /\ checkpoints'[Len(checkpoints) + 1] = NewCheckpoint(p)
  <1>1. CASE WriteCheckpoint(p)
    <2>1. checkpoints' = Append(checkpoints, NewCheckpoint(p))
      BY <1>1 DEF WriteCheckpoint
    <2>2. checkpoints \in Seq(Anchors \cup {NewCheckpoint(p)})
      BY SeqMonotonic DEF IInv, TypeOK
    <2>3. Len(checkpoints) \in Nat /\ DOMAIN checkpoints = 1..Len(checkpoints)
      BY <2>2, LenProperties
    <2> QED BY <1>1, <2>1, <2>2, <2>3, AppendProperties, LenProperties
  <1>2. CASE ~WriteCheckpoint(p)
    BY <1>2 DEF Step, Begin, ReadTail, Allocate, AppendEvent, Collide, Fault, ReadHead,
           CountEvents, ReadCheckpointTail, RefuseCheckpoint
  <1> QED BY <1>1, <1>2

(* A digest that nobody has chained onto is that of the last anchor.       *)
LEMMA ChainedStep ==
    ASSUME IInv, AnchorsChained, NEW p \in Appenders, Step(p)
    PROVE  AnchorsChained'
  <1>1. CASE checkpoints' = checkpoints
    BY <1>1 DEF AnchorsChained, CheckpointHash, GENESIS_HASH
  <1>2. CASE WriteCheckpoint(p)
    <2> DEFINE n == Len(checkpoints)
               prev == call[p].prev
    <2>1. /\ n \in Nat /\ DOMAIN checkpoints = 1..n
          /\ DOMAIN checkpoints' = 1..n + 1
          /\ \A i \in DOMAIN checkpoints : checkpoints'[i] = checkpoints[i]
          /\ checkpoints'[n + 1].prev = prev
      <3>1. NewCheckpoint(p).prev = prev
        BY DEF NewCheckpoint
      <3> QED BY <1>2, <3>1, AnchorsGrow
    <2>2. prev \in AnchorDigests /\ \A i \in 1..n : checkpoints[i].prev # prev
      BY <1>2, <2>1 DEF IInv, TypeOK, Calls, WriteCheckpoint, Raced
    <2> HIDE DEF n, prev
    <2>3. CASE n = 0
      <3>1. prev = GENESIS_HASH
        BY <2>1, <2>2, <2>3 DEF AnchorDigests
      <3> QED BY <2>1, <2>3, <3>1 DEF AnchorsChained
    <2>4. CASE n # 0
      <3>1. prev # GENESIS_HASH
        BY <2>1, <2>2, <2>4 DEF AnchorsChained
      <3>2. PICK i \in 1..n : prev = CheckpointHash(checkpoints[i])
        BY <2>1, <2>2, <3>1 DEF AnchorDigests
      <3>3. i = n
        <4> SUFFICES ASSUME i # n PROVE FALSE
          OBVIOUS
        <4>1. i + 1 \in 1..n /\ i + 1 # 1 /\ (i + 1) - 1 = i
          BY <2>1, <3>2
        <4>2. checkpoints[i + 1].prev = CheckpointHash(checkpoints[i])
          BY <2>1, <4>1 DEF AnchorsChained
        <4> QED BY <2>2, <3>2, <4>1, <4>2
      <3>4. ASSUME NEW k \in 1..n + 1
            PROVE  checkpoints'[k].prev = IF k = 1 THEN GENESIS_HASH
                                          ELSE CheckpointHash(checkpoints'[k - 1])
        <4>1. CASE k = n + 1
          <5>1. k # 1 /\ k - 1 = n /\ n \in 1..n
            BY <2>1, <2>4, <4>1
          <5> QED BY <2>1, <3>2, <3>3, <4>1, <5>1
        <4>2. CASE k \in 1..n
          <5>1. k # 1 => k - 1 \in 1..n
            BY <2>1, <4>2
          <5> QED BY <2>1, <4>2, <5>1 DEF AnchorsChained
        <4> QED BY <2>1, <4>1, <4>2
      <3> QED BY <2>1, <3>4 DEF AnchorsChained, CheckpointHash, GENESIS_HASH
    <2> QED BY <2>3, <2>4
  <1> QED BY <1>1, <1>2, AnchorsGrow

LEMMA CountStep ==
    ASSUME IInv, ReadHeads, AnchorsCount, NEW p \in Appenders, Step(p)
    PROVE  AnchorsCount'
  <1>1. \A i \in DOMAIN checkpoints : AnchorOK(checkpoints[i])
    BY DEF AnchorsCount
  <1>2. CASE checkpoints' = checkpoints
    BY <1>1, <1>2, AnchorKept DEF AnchorsCount, AnchorOK, EventsUpTo
  <1>3. CASE WriteCheckpoint(p)
    <2>1. /\ Len(checkpoints) \in Nat
          /\ DOMAIN checkpoints = 1..Len(checkpoints)
          /\ DOMAIN checkpoints' = 1..Len(checkpoints) + 1
          /\ \A i \in DOMAIN checkpoints : checkpoints'[i] = checkpoints[i]
          /\ checkpoints'[Len(checkpoints) + 1] = NewCheckpoint(p)
      BY <1>3, AnchorsGrow
    <2>2. call[p].pc = "cp write" /\ HeadOK(call[p]) /\ events' = events
      BY <1>3 DEF WriteCheckpoint, At, ReadHeads
    <2>3. AnchorOK(NewCheckpoint(p))
      BY <2>2 DEF AnchorOK, HeadOK, Counted, NewCheckpoint
    <2>4. \A i \in DOMAIN checkpoints' : AnchorOK(checkpoints'[i])
      <3> SUFFICES ASSUME NEW i \in 1..Len(checkpoints) + 1 PROVE AnchorOK(checkpoints'[i])
        BY <2>1
      <3>1. CASE i \in 1..Len(checkpoints)
        BY <1>1, <2>1, <3>1
      <3>2. CASE i = Len(checkpoints) + 1
        BY <2>1, <2>3, <3>2
      <3> QED BY <2>1, <3>1, <3>2
    <2> QED BY <2>2, <2>4 DEF AnchorsCount, AnchorOK, EventsUpTo
  <1> QED BY <1>2, <1>3, AnchorsGrow

(* An anchor that is owed for an event is still owed, written or given up. *)
LEMMA CoverKept ==
    ASSUME IInv, ReadHeads, NEW p \in Appenders, Step(p), NEW e \in events, Covered(e)
    PROVE  Covered(e)'
  <1>1. \A q \in Appenders : call[q] \in Calls /\ (q # p => call'[q] = call[q])
    BY OneCallSteps
  <1>2. call \in [Appenders -> Calls] /\ call[p] \in Calls
    BY <1>1 DEF IInv, TypeOK
  <1>3. CASE abandoned
    BY <1>3 DEF Covered, Step, Begin, ReadTail, Allocate, AppendEvent, Collide, Fault, ReadHead,
           CountEvents, ReadCheckpointTail, WriteCheckpoint, RefuseCheckpoint
  <1>4. ASSUME NEW i \in DOMAIN checkpoints, Reaches(checkpoints[i].head, e)
        PROVE  Covered(e)'
    <2>1. i \in DOMAIN checkpoints' /\ checkpoints'[i] = checkpoints[i]
      BY <1>4, AnchorsGrow
    <2> QED BY <1>4, <2>1 DEF Covered, Reaches
  <1>5. ASSUME NEW q \in Appenders, q # p, WillCover(call[q], e)
        PROVE  Covered(e)'
    BY <1>1, <1>5 DEF Covered, WillCover, Reaches
  <1>6. CASE WillCover(call[p], e)
    <2>0. SUFFICES WillCover(call'[p], e) \/ abandoned' \/ WriteCheckpoint(p)
      <3>1. CASE WriteCheckpoint(p)
        <4>1. /\ Len(checkpoints) + 1 \in DOMAIN checkpoints'
              /\ checkpoints'[Len(checkpoints) + 1].head = call[p].head
          <5>1. NewCheckpoint(p).head = call[p].head
            BY DEF NewCheckpoint
          <5> QED BY <3>1, <5>1, AnchorsGrow
        <4>2. Reaches(call[p].head, e)
          BY <1>6, <3>1 DEF WillCover, WriteCheckpoint, At
        <4> QED BY <4>1, <4>2 DEF Covered, Reaches
      <3> QED BY <2>0, <3>1 DEF Covered, WillCover, Reaches
    <2>1. At(p, "cp head") \/ At(p, "cp count") \/ At(p, "cp tail") \/ At(p, "cp write")
      BY <1>6 DEF WillCover, Counted, At
    <2>2. \/ ReadHead(p) \/ CountEvents(p) \/ ReadCheckpointTail(p)
          \/ WriteCheckpoint(p) \/ RefuseCheckpoint(p) \/ Fault(p)
      BY <2>1 DEF Step, Begin, ReadTail, Allocate, AppendEvent, Collide, At
    <2>3. CASE ReadHead(p)
      <3>1. PICK t \in Tails : Newest(t) /\ call' = [call EXCEPT ![p].pc = "cp count", ![p].head = t]
        BY <2>3 DEF ReadHead
      <3>2. call'[p].pc = "cp count" /\ call'[p].head = t
        BY <1>2, <3>1 DEF Calls
      <3>3. PICK f \in events : f.id = t.id /\ e.id <= f.id
        <4>1. PICK f \in events : /\ \A g \in events : g.id <= f.id
                                  /\ t = [id |-> f.id, hash |-> f.hash]
          BY <3>1 DEF Newest
        <4> QED BY <4>1
      <3>4. e.id \in Nat /\ f.id \in Nat
        BY DEF IInv, TypeOK, Rows
      <3>5. Reaches(t, e)
        BY <3>3, <3>4, DivGrows DEF Reaches
      <3> QED BY <3>2, <3>5 DEF WillCover, Counted
    <2>4. CASE CountEvents(p)
      <3>1. call'[p].pc = "cp tail" /\ call'[p].head = call[p].head /\ call[p].pc = "cp count"
        BY <1>2, <2>4 DEF CountEvents, At, Calls
      <3> QED BY <1>6, <3>1 DEF WillCover, Counted
    <2>5. CASE ReadCheckpointTail(p)
      <3>1. call'[p].pc = "cp write" /\ call'[p].head = call[p].head /\ call[p].pc = "cp tail"
        BY <1>2, <2>5 DEF ReadCheckpointTail, At, Calls
      <3> QED BY <1>6, <3>1 DEF WillCover, Counted
    <2>6. CASE RefuseCheckpoint(p)
      BY <2>6 DEF RefuseCheckpoint
    <2>7. CASE Fault(p)
      BY <2>1, <2>7 DEF Fault, At
    <2> QED BY <2>2, <2>3, <2>4, <2>5, <2>6, <2>7
  <1> QED BY <1>3, <1>4, <1>5, <1>6 DEF Covered

(* An append that crosses no cadence point lies in the interval of its     *)
(* tail, and is covered with it.                                           *)
LEMMA CadenceStep ==
    ASSUME IInv, ReadHeads, CadenceKept, NEW p \in Appenders, Step(p)
    PROVE  CadenceKept'
  <1> SUFFICES ASSUME HasKey, NEW e \in events', e.id >= CheckpointEvery PROVE Covered(e)'
    BY DEF CadenceKept
  <1>1. CASE e \in events
    BY <1>1, CoverKept DEF CadenceKept
  <1>2. CASE e \notin events
    <2>1. AppendEvent(p) /\ e = NewRow(p)
      <3>1. AppendEvent(p)
        BY <1>2, OneCallSteps
      <3> QED BY <1>2, <3>1 DEF AppendEvent
    <2>2. e.id = call[p].id
      BY <2>1 DEF NewRow
    <2>3. /\ call[p].tail \in Tails /\ call[p].tail.id < e.id
          /\ e.id \in Nat /\ call[p].tail.id \in Nat
      <3>1. call[p].tail \in Tails /\ call[p].id \in Nat
        BY DEF IInv, TypeOK, Calls
      <3>2. call[p].tail.id \in Nat
        BY <3>1 DEF Tails, NoTail, IInv, TypeOK, Rows
      <3>3. call[p].tail.id < call[p].id
        BY <2>1 DEF IInv, DrawnIds, AppendEvent
      <3> QED BY <2>2, <3>1, <3>2, <3>3
    <2>4. CASE ShouldCheckpoint(call[p].tail.id, call[p].id)
      <3>1. call' = [call EXCEPT ![p].pc = "cp head"]
        BY <2>1, <2>4 DEF AppendEvent
      <3>2. call'[p].pc = "cp head"
        BY <3>1 DEF IInv, TypeOK, Calls
      <3> QED BY <3>2 DEF Covered, WillCover
    <2>5. CASE ~ShouldCheckpoint(call[p].tail.id, call[p].id)
      <3> DEFINE t == call[p].tail.id
      <3>1. /\ t \div CheckpointEvery = e.id \div CheckpointEvery
            /\ t >= CheckpointEvery
        BY <2>2, <2>3, <2>5, DivGrows DEF ShouldCheckpoint
      <3>2. PICK f \in events : f.id = t
        BY <2>3, <3>1 DEF Tails, NoTail
      <3>3. Covered(f)'
        BY <3>1, <3>2, CoverKept DEF CadenceKept
      <3> HIDE DEF t
      <3> QED BY <3>1, <3>2, <3>3 DEF Covered, WillCover, Reaches
    <2> QED BY <2>4, <2>5
  <1> QED BY <1>1, <1>2

(* What checkpoint() has written is true of the table ever after, and a    *)
(* cadence point that the chain has crossed is anchored, or about to be,   *)
(* or was given up (_should_checkpoint, verify_checkpoints).               *)
THEOREM AnchorsAlwaysHold == Spec => []AnchorsHold
  <1>1. Init => AnchorInv
    <2> SUFFICES ASSUME Init PROVE AnchorInv
      OBVIOUS
    <2>1. Idle.pc = "idle" /\ \A q \in Appenders : call[q] = Idle
      BY DEF Init, Idle
    <2>2. events = {} /\ DOMAIN checkpoints = {}
      BY DEF Init
    <2> QED BY <2>1, <2>2 DEF AnchorInv, ReadHeads, HeadOK, Counted, AnchorsChained,
                          AnchorsCount, CadenceKept
  <1>2. IInv /\ AnchorInv /\ [Next]_vars => AnchorInv'
    <2> SUFFICES ASSUME IInv, AnchorInv, [Next]_vars PROVE AnchorInv'
      OBVIOUS
    <2>1. CASE UNCHANGED vars
      BY <2>1 DEF vars, AnchorInv, ReadHeads, HeadOK, AnchorsChained, AnchorsCount, AnchorOK,
                  EventsUpTo, CheckpointHash, CadenceKept, Covered, WillCover, Reaches
    <2> QED BY <2>1, HeadsStep, ChainedStep, CountStep, CadenceStep DEF AnchorInv, Next
  <1>3. AnchorInv => AnchorsHold
    <2> SUFFICES ASSUME AnchorInv PROVE AnchorsHold
      OBVIOUS
    <2>1. \A i \in DOMAIN checkpoints :
             /\ \E e \in events : e.id = checkpoints[i].head.id /\ e.hash = checkpoints[i].head.hash
             /\ Cardinality(EventsUpTo(checkpoints[i].head)) <= checkpoints[i].count
      <3> SUFFICES ASSUME NEW i \in DOMAIN checkpoints
                   PROVE  /\ \E e \in events : /\ e.id = checkpoints[i].head.id
                                               /\ e.hash = checkpoints[i].head.hash
                          /\ Cardinality(EventsUpTo(checkpoints[i].head)) <= checkpoints[i].count
        OBVIOUS
      <3>1. AnchorOK(checkpoints[i])
        BY DEF AnchorInv, AnchorsCount
      <3>2. PICK e \in events : checkpoints[i].head = [id |-> e.id, hash |-> e.hash]
        BY <3>1 DEF AnchorOK
      <3> QED BY <3>1, <3>2 DEF AnchorOK
    <2>2. \A e \in events : HasKey /\ e.id >= CheckpointEvery =>
             \/ abandoned
             \/ \E p \in Appenders : Anchoring(p)
             \/ \E i \in DOMAIN checkpoints : Reaches(checkpoints[i].head, e)
      BY DEF AnchorInv, CadenceKept, Covered, WillCover, Counted, Anchoring
    <2> QED BY <2>1, <2>2 DEF AnchorsHold, AnchorInv, AnchorsChained, Reaches
  <1> QED BY <1>1, <1>2, <1>3, InitIInv, NextIInv, PTL DEF Spec
=============================================================================
