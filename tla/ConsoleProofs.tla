--------------------------- MODULE ConsoleProofs ----------------------------
(***************************************************************************)
(* Theorems about Console for any tenants, keys, callers and weights: a    *)
(* session that was logged out is dead, an identity sees its own tenant,   *)
(* and each weight of the score in force stands in the record.  Then about *)
(* Attestation, for any signing keys and workers: what a signed export says*)
(* is what was signed, by the key of its day, and of the engine that ran.  *)
(***************************************************************************)
EXTENDS Attestation, Integers, TLAPS

USE ConsoleAssumption

-----------------------------------------------------------------------------
(* The strengthening.                                                      *)

(* A request between two of its steps.                                     *)
Op == {Idle}
      \cup [pc : {"logout"}, next : Nat, out : SUBSET DOMAIN token]
      \cup [pc : {"rule", "model", "get"}, before : Splits, to : Splits]
      \cup [pc : {"record"}, before : Splits, ok : BOOLEAN, after : Splits]

OpsTyped == op \in [Callers -> Op]

(* A logout writes the epoch after the one that is in force, unless another*)
(* has overlapped it; what it revokes was signed in an earlier one.        *)
Signed(n) == n \in DOMAIN token /\ token[n].boot = boot

EpochInv ==
    overlapped \/
        /\ \A n \in DOMAIN token : Signed(n) => token[n].epc <= epoch
        /\ \A n \in revoked : Signed(n) => token[n].epc < epoch
        /\ \A c, d \in Callers : op[c].pc = "logout" /\ op[d].pc = "logout" => c = d
        /\ \A c \in Callers : op[c].pc = "logout" => op[c].next = epoch + 1

(* The weight w in force is the default, is in an event, is in what a      *)
(* change is about to record, or will be read by one that has yet to look. *)
Recorded(w) == split[w] \in {Split(Default)[w]} \cup Weights(chain, w) \cup Weights(dropped, w)

WillRead == [rule |-> {"model", "get"}, model |-> {"get"}]

Weighed(w) ==
    \/ Recorded(w)
    \/ \E c \in Callers : op[c].pc \in WillRead[w]
    \/ \E c \in Callers : op[c].pc = "record" /\ op[c].ok /\ op[c].after[w] = split[w]

WeightInv == \A w \in {"rule", "model"} : Weighed(w)

IInv == TypeOK /\ OpsTyped /\ EpochInv /\ WeightInv

-----------------------------------------------------------------------------
(* Arithmetic of the split, and sequences.                                 *)

LEMMA DivBelow ==
    ASSUME NEW a \in Nat, NEW b \in Nat \ {0}, NEW q \in Nat, a < (q + 1) * b
    PROVE  a \div b \in 0..q
<1>1. a \div b \in Int /\ a % b \in 0..(b - 1) /\ a = b * (a \div b) + (a % b)
  OBVIOUS
<1> DEFINE d == a \div b
<1>2. d \in Int /\ b * d <= a /\ a < b * d + b
  BY <1>1
<1> HIDE DEF d
<1>3. d <= q
  <2> SUFFICES ASSUME d >= q + 1 PROVE FALSE
    BY <1>2
  <2>1. b * d >= b * (q + 1)
    BY <1>2, SMTT(30)
  <2> QED BY <1>2, <2>1
<1>4. d >= 0
  <2> SUFFICES ASSUME d + 1 <= 0 PROVE FALSE
    BY <1>2
  <2>1. b * (d + 1) <= 0
    BY <1>2, SMTT(30)
  <2>2. b * (d + 1) = b * d + b
    BY <1>2
  <2> QED BY <1>2, <2>1, <2>2
<1> QED BY <1>2, <1>3, <1>4 DEF d

(* A ratio of two weights is a share of the whole.                         *)
LEMMA RatioIsShare ==
    ASSUME NEW asked, asked[1] \in Nat, asked[2] \in Nat, ~Refused(asked)
    PROVE  Ratio(asked) \in 0..Whole
<1> DEFINE x == asked[1]
           y == asked[2]
<1>1. x \in Nat /\ y \in Nat /\ x + y # 0
  BY DEF Refused
<1>2. Whole * x <= Whole * (x + y) /\ Whole * x \in Nat /\ Whole * (x + y) \in Nat
  BY <1>1, SMTT(30)
<1> HIDE DEF x, y
<1>3. (Whole + 1) * (2 * (x + y)) = 2 * (Whole * (x + y)) + 2 * (x + y)
  BY <1>1, SMTT(30)
<1>4. 2 * Whole * x = 2 * (Whole * x)
  BY <1>1, SMTT(30)
<1>5. /\ 2 * Whole * x + x + y \in Nat /\ 2 * (x + y) \in Nat \ {0}
      /\ 2 * Whole * x + x + y < (Whole + 1) * (2 * (x + y))
  BY <1>1, <1>2, <1>3, <1>4
<1>6. (2 * Whole * x + x + y) \div (2 * (x + y)) \in 0..Whole
  BY <1>5, DivBelow
<1> QED BY <1>6 DEF Ratio, x, y

LEMMA FilledTyped ==
    ASSUME TypeOK, NEW asked \in Asked
    PROVE  Filled(asked)[1] \in Nat /\ Filled(asked)[2] \in Nat
<1>1. split.rule \in Nat /\ split.model \in Nat
  BY DEF TypeOK, Splits
<1>2. asked[1] \in Nat \cup {Left} /\ asked[2] \in Nat \cup {Left}
  OBVIOUS
<1> QED BY <1>1, <1>2 DEF Filled

LEMMA SplitTyped == ASSUME NEW r \in 0..Whole PROVE Split(r) \in Splits
  BY DEF Split, Splits

LEMMA SeqGrows ==
    ASSUME NEW S, NEW T, S \subseteq T, NEW s \in Seq(S)
    PROVE  s \in Seq(T)
  OBVIOUS

LEMMA Appended ==
    ASSUME NEW S, NEW s \in Seq(S), NEW e \in S
    PROVE  /\ Append(s, e) \in Seq(S) /\ DOMAIN s \subseteq DOMAIN Append(s, e)
           /\ \A i \in DOMAIN s : Append(s, e)[i] = s[i]
           /\ Len(s) + 1 \in DOMAIN Append(s, e) /\ Append(s, e)[Len(s) + 1] = e
           /\ \A i \in DOMAIN Append(s, e) : i \in DOMAIN s \/ i = Len(s) + 1
  OBVIOUS

-----------------------------------------------------------------------------
(* The steps, one by one.                                                  *)

(* A change of the split puts two shares of the whole to be written.       *)
LEMMA Steps ==
    ASSUME TypeOK, [Next]_vars
    PROVE  \/ Login \/ Tick \/ Restart \/ UNCHANGED vars
           \/ \E n, k : Submit(n, k)
           \/ \E c \in Callers : \E n : LogoutRead(c, n)
           \/ \E c \in Callers, r \in 0..Whole : \E n : Change(c, n, Split(r))
           \/ \E c \in Callers, asked \in Asked : \E n : RefuseWeights(c, n, asked)
           \/ \E c \in Callers : \/ LogoutWrite(c) \/ WriteRule(c) \/ WriteModel(c)
                                 \/ GetWeights(c) \/ Record(c) \/ Drop(c)
<1>1. ASSUME NEW c, NEW n, NEW asked \in Asked, SetWeights(c, n, asked)
      PROVE  \E r \in 0..Whole : Change(c, n, Split(r))
  <2>1. Ratio(Filled(asked)) \in 0..Whole
    BY <1>1, FilledTyped, RatioIsShare DEF SetWeights
  <2> QED BY <1>1, <2>1 DEF SetWeights
<1>2. ASSUME NEW c, NEW n, ResetWeights(c, n)
      PROVE  \E r \in 0..Whole : Change(c, n, Split(r))
  BY <1>2 DEF ResetWeights
<1>3. ASSUME Serve PROVE
           \/ Login \/ Tick
           \/ \E n \in 0..MaxTokens, k \in Keys \cup {Nobody} : Submit(n, k)
           \/ \E c \in Callers, n \in DOMAIN token :
                 \/ LogoutRead(c, n) \/ ResetWeights(c, n)
                 \/ \E asked \in Asked : SetWeights(c, n, asked) \/ RefuseWeights(c, n, asked)
           \/ \E c \in Callers : \/ LogoutWrite(c) \/ WriteRule(c) \/ WriteModel(c)
                                 \/ GetWeights(c) \/ Record(c) \/ Drop(c)
  BY <1>3 DEF Serve
<1>4. CASE Serve
  BY <1>1, <1>2, <1>3, <1>4
<1> QED BY <1>4 DEF Next

TokenOf(b) == [exp : Nat, epc : Nat, tnt : Tenants \cup {Unclaimed}, boot : 0..b]

LEMMA TokenFields ==
    ASSUME TypeOK, NEW n \in DOMAIN token
    PROVE  /\ token[n].epc \in Nat /\ token[n].tnt \in Tenants \cup {Unclaimed}
           /\ token[n].boot \in 0..boot
<1>1. token \in Seq(TokenOf(boot))
  BY DEF TypeOK, TokenOf
<1>2. token[n] \in TokenOf(boot)
  BY <1>1
<1> QED BY <1>2 DEF TokenOf

(* Of an operation under way, what its place in the code says.             *)
LEMMA OpFields ==
    ASSUME OpsTyped, NEW c \in Callers
    PROVE  /\ op[c].pc = "logout" => op[c].next \in Nat /\ op[c].out \subseteq DOMAIN token
           /\ op[c].pc \in {"rule", "model", "get"} =>
                 /\ op[c].before \in Splits /\ op[c].to \in Splits
                 /\ op[c] \in [pc : {"rule", "model", "get"}, before : Splits, to : Splits]
           /\ op[c].pc = "record" =>
                 op[c].before \in Splits /\ op[c].ok \in BOOLEAN /\ op[c].after \in Splits
           /\ op[c].pc \in {"idle", "logout", "rule", "model", "get", "record"}
  BY DEF OpsTyped, Op, Idle

(* The request of c goes on as o; the others stand where they did.         *)
OnlyOp(c, o) == /\ op'[c] = o
                /\ \A d \in Callers : d # c => op'[d] = op[d]

LEMMA OneOp ==
    ASSUME OpsTyped, NEW c \in Callers, NEW o, op' = [op EXCEPT ![c] = o],
           DOMAIN token \subseteq DOMAIN token', o \in Op'
    PROVE  OpsTyped' /\ OnlyOp(c, o)
<1>1. Op \subseteq Op'
  BY DEF Op
<1> QED BY <1>1 DEF OpsTyped, OnlyOp

LEMMA OpsStay ==
    ASSUME OpsTyped, op' = op, DOMAIN token \subseteq DOMAIN token'
    PROVE  OpsTyped'
<1>1. Op \subseteq Op'
  BY DEF Op
<1> QED BY <1>1 DEF OpsTyped

(* What each step of a request makes of its locals.                        *)
LEMMA LogoutReadOp ==
    ASSUME TypeOK, OpsTyped, NEW c \in Callers, NEW n, LogoutRead(c, n)
    PROVE  OpsTyped' /\ OnlyOp(c, [pc |-> "logout", next |-> epoch + 1, out |-> DOMAIN token])
<1>1. [pc |-> "logout", next |-> epoch + 1, out |-> DOMAIN token] \in Op'
  BY DEF LogoutRead, Op, TypeOK
<1> QED BY <1>1, OneOp DEF LogoutRead

LEMMA ChangeOp ==
    ASSUME TypeOK, OpsTyped, NEW c \in Callers, NEW n, NEW r \in 0..Whole, Change(c, n, Split(r))
    PROVE  OpsTyped' /\ OnlyOp(c, [pc |-> "rule", before |-> split, to |-> Split(r)])
<1>1. [pc |-> "rule", before |-> split, to |-> Split(r)] \in Op'
  BY SplitTyped DEF Op, TypeOK
<1> QED BY <1>1, OneOp DEF Change

LEMMA WriteOp ==
    ASSUME OpsTyped, NEW c \in Callers, WriteRule(c) \/ WriteModel(c)
    PROVE  OpsTyped' /\ \E o : /\ OnlyOp(c, o)
                               /\ o.pc = IF op[c].pc = "rule" THEN "model" ELSE "get"
<1> DEFINE q == IF op[c].pc = "rule" THEN "model" ELSE "get"
           o == [op[c] EXCEPT !.pc = q]
<1>1. op[c] \in [pc : {"rule", "model", "get"}, before : Splits, to : Splits]
  BY OpFields DEF WriteRule, WriteModel
<1>2. o \in [pc : {"rule", "model", "get"}, before : Splits, to : Splits] /\ o.pc = q
  BY <1>1
<1>3. o \in Op'
  BY <1>2 DEF Op
<1>4. op' = [op EXCEPT ![c] = o] /\ token' = token
  BY DEF WriteRule, WriteModel, OpsTyped
<1> HIDE DEF o
<1> QED BY <1>2, <1>3, <1>4, OneOp

LEMMA GetOp ==
    ASSUME TypeOK, OpsTyped, NEW c \in Callers, GetWeights(c)
    PROVE  OpsTyped' /\ OnlyOp(c, [pc |-> "record", before |-> op[c].before, ok |-> TRUE,
                                   after |-> split])
<1>1. op' = [op EXCEPT ![c] = [pc |-> "record", before |-> op[c].before, ok |-> TRUE,
                               after |-> split]]
  BY DEF GetWeights, After, OpsTyped
<1>2. [pc |-> "record", before |-> op[c].before, ok |-> TRUE, after |-> split] \in Op'
  BY OpFields DEF GetWeights, Op, TypeOK
<1> QED BY <1>1, <1>2, OneOp DEF GetWeights

LEMMA RefuseOp ==
    ASSUME TypeOK, OpsTyped, NEW c \in Callers, NEW asked \in Asked, NEW n, RefuseWeights(c, n, asked)
    PROVE  OpsTyped' /\ \E o : OnlyOp(c, o) /\ o.pc = "record" /\ ~o.ok
<1> DEFINE w == [rule |-> Filled(asked)[1], model |-> Filled(asked)[2]]
           o == [pc |-> "record", before |-> split, ok |-> FALSE, after |-> w]
<1>1. Filled(asked)[1] = 0 /\ Filled(asked)[2] = 0
  BY FilledTyped DEF RefuseWeights, Refused
<1>2. w \in Splits /\ split \in Splits
  BY <1>1 DEF Splits, TypeOK
<1> HIDE DEF w
<1>3. o \in Op'
  BY <1>2 DEF Op
<1>4. op' = [op EXCEPT ![c] = o] /\ token' = token
  BY DEF RefuseWeights, w
<1>5. o.pc = "record" /\ ~o.ok
  OBVIOUS
<1> HIDE DEF o
<1> QED BY <1>3, <1>4, <1>5, OneOp

LEMMA EndOp ==
    ASSUME OpsTyped, NEW c \in Callers, LogoutWrite(c) \/ Record(c) \/ Drop(c)
    PROVE  OpsTyped' /\ OnlyOp(c, Idle)
<1>1. Idle \in Op'
  BY DEF Op
<1> QED BY <1>1, OneOp DEF LogoutWrite, Record, Drop

LEMMA TypesKept ==
    ASSUME TypeOK, OpsTyped, [Next]_vars
    PROVE  TypeOK' /\ OpsTyped'
<1>0. /\ now \in Nat /\ epoch \in Nat /\ boot \in Nat /\ MaxRestarts \in Nat /\ MaxTime \in Nat
      /\ TTL \in Nat /\ token \in Seq(TokenOf(boot)) /\ chain \in Seq(Events) /\ dropped \in Seq(Events)
      /\ job \in Seq(Tenants)
  BY DEF TypeOK, Bounds, TokenOf
<1>1. CASE Login
  <2> DEFINE t == [exp |-> now + TTL, epc |-> epoch, tnt |-> tenant, boot |-> boot]
  <2>1. t \in TokenOf(boot)
    BY <1>0 DEF TokenOf, TypeOK
  <2>2. token' = Append(token, t)
    BY <1>1 DEF Login
  <2> HIDE DEF t
  <2>3. token' \in Seq(TokenOf(boot)) /\ DOMAIN token \subseteq DOMAIN token'
    BY <1>0, <2>1, <2>2, Appended
  <2>4. OpsTyped'
    BY <1>1, <2>3, OpsStay DEF Login
  <2> QED BY <1>1, <2>3, <2>4 DEF Login, TypeOK, TokenOf
<1>2. CASE Tick
  BY <1>0, <1>2, OpsStay DEF Tick, TypeOK
<1>3. CASE Restart
  <2>1. boot' \in 0..MaxRestarts /\ 0..boot \subseteq 0..boot'
    BY <1>0, <1>3 DEF Restart
  <2>2. token' \in Seq(TokenOf(boot'))
    <3>1. TokenOf(boot) \subseteq TokenOf(boot')
      BY <2>1 DEF TokenOf
    <3> QED BY <1>0, <1>3, <3>1, SeqGrows DEF Restart
  <2>3. chain' \in Seq(Events) /\ dropped' \in Seq(Events) /\ split' \in Splits
    BY <1>3, SplitTyped DEF Restart
  <2>4. OpsTyped' /\ \A c \in Callers : op'[c].pc = "idle"
    BY <1>3 DEF Restart, OpsTyped, Op, Idle
  <2> QED BY <1>3, <2>1, <2>2, <2>3, <2>4 DEF Restart, TypeOK, TokenOf
<1>4. CASE UNCHANGED vars
  BY <1>4, OpsStay DEF vars, TypeOK
<1>5. ASSUME NEW n, NEW k, Submit(n, k) PROVE TypeOK' /\ OpsTyped'
  <2>1. Identity(n, k) \in Tenants
    <3>1. CASE Verified(n)
      <4>1. token[n] \in TokenOf(boot)
        BY <1>0, <3>1 DEF Verified
      <4> QED BY <3>1, <4>1 DEF Identity, Claim, TokenOf, TypeOK
    <3>2. CASE ~Verified(n)
      BY <1>5, <3>2 DEF Submit, Identity
    <3> QED BY <3>1, <3>2
  <2>2. job' \in Seq(Tenants)
    BY <1>0, <1>5, <2>1, Appended DEF Submit
  <2>3. OpsTyped'
    BY <1>5, OpsStay DEF Submit
  <2> QED BY <1>5, <2>2, <2>3 DEF Submit, TypeOK
<1>p. ASSUME OpsTyped' PROVE \A c \in Callers :
         op'[c].pc \in {"idle", "logout", "rule", "model", "get", "record"}
  BY <1>p DEF OpsTyped, Op, Idle
<1>6. ASSUME NEW c \in Callers, NEW n, LogoutRead(c, n) PROVE TypeOK' /\ OpsTyped'
  BY <1>6, <1>p, LogoutReadOp DEF LogoutRead, TypeOK
<1>7. ASSUME NEW c \in Callers, NEW n, NEW r \in 0..Whole, Change(c, n, Split(r))
      PROVE  TypeOK' /\ OpsTyped'
  BY <1>7, <1>p, ChangeOp DEF Change, TypeOK
<1>8. ASSUME NEW c \in Callers, WriteRule(c) \/ WriteModel(c) PROVE TypeOK' /\ OpsTyped'
  <2>1. OpsTyped'
    BY <1>8, WriteOp
  <2>2. split' \in Splits
    <3>1. op[c].to \in Splits
      BY <1>8, OpFields DEF WriteRule, WriteModel
    <3> QED BY <1>8, <3>1 DEF WriteRule, WriteModel, TypeOK, Splits
  <2> QED BY <1>8, <1>p, <2>1, <2>2 DEF WriteRule, WriteModel, TypeOK
<1>9. ASSUME NEW c \in Callers, GetWeights(c) PROVE TypeOK' /\ OpsTyped'
  BY <1>9, <1>p, GetOp DEF GetWeights, TypeOK
<1>10. ASSUME NEW c \in Callers, LogoutWrite(c) PROVE TypeOK' /\ OpsTyped'
  <2>1. op[c].next \in Nat /\ op[c].out \subseteq DOMAIN token
    BY <1>10, OpFields DEF LogoutWrite
  <2> QED BY <1>10, <1>p, <2>1, EndOp DEF LogoutWrite, TypeOK
<1>11. ASSUME NEW c \in Callers, Record(c) \/ Drop(c) PROVE TypeOK' /\ OpsTyped'
  <2>1. Event(c) \in Events
    BY <1>11, OpFields DEF Record, Drop, Event, Events
  <2> HIDE DEF Event
  <2>2. \A s \in Seq(Events) : Append(s, Event(c)) \in Seq(Events)
    BY <2>1, Appended
  <2>3. chain' \in Seq(Events) /\ dropped' \in Seq(Events)
    BY <1>0, <1>11, <2>2 DEF Record, Drop
  <2> QED BY <1>11, <1>p, <2>3, EndOp DEF Record, Drop, TypeOK
<1>12. ASSUME NEW c \in Callers, NEW asked \in Asked, NEW n, RefuseWeights(c, n, asked)
       PROVE  TypeOK' /\ OpsTyped'
  BY <1>12, <1>p, RefuseOp DEF RefuseWeights, TypeOK
<1> QED BY Steps, <1>1, <1>2, <1>3, <1>4, <1>5, <1>6, <1>7, <1>8, <1>9, <1>10, <1>11, <1>12

-----------------------------------------------------------------------------
(* The epoch.                                                              *)

(* A step that leaves epoch, start, tokens and logouts alone.              *)
LEMMA EpochStays ==
    ASSUME EpochInv, OpsTyped, epoch' = epoch, boot' = boot, token' = token, revoked' = revoked,
           overlapped' = overlapped,
           \A c \in Callers : op'[c].pc = "logout" => op'[c] = op[c]
    PROVE  EpochInv'
  BY DEF EpochInv, Signed

LEMMA EpochKept ==
    ASSUME TypeOK, OpsTyped, EpochInv, [Next]_vars
    PROVE  EpochInv'
<1>0. epoch \in Nat /\ revoked \subseteq DOMAIN token
  BY DEF TypeOK
<1>1. CASE Login
  <2> DEFINE t == [exp |-> now + TTL, epc |-> epoch, tnt |-> tenant, boot |-> boot]
  <2>1. token' = Append(token, t) /\ token \in Seq(TokenOf(boot)) /\ t.epc = epoch
    BY <1>1 DEF Login, TypeOK, TokenOf
  <2> HIDE DEF t
  <2>2. /\ DOMAIN token \subseteq DOMAIN token' /\ \A i \in DOMAIN token : token'[i] = token[i]
        /\ \A i \in DOMAIN token' : i \in DOMAIN token \/ token'[i].epc = epoch
    <3>1. t \in TokenOf(boot)
      BY <1>0 DEF t, TypeOK, TokenOf, Bounds
    <3> QED BY <2>1, <3>1, Appended
  <2>3. CASE overlapped
    BY <1>1, <2>3 DEF EpochInv, Login
  <2>4. ASSUME ~overlapped, NEW n \in DOMAIN token', Signed(n)' PROVE token'[n].epc <= epoch
    BY <1>0, <1>1, <2>2, <2>4 DEF EpochInv, Signed, Login
  <2>5. CASE ~overlapped
    BY <1>0, <1>1, <2>2, <2>4, <2>5 DEF EpochInv, Signed, Login
  <2> QED BY <2>3, <2>5
<1>2. CASE Tick
  BY <1>2, EpochStays DEF Tick
<1>3. CASE Restart
  <2>1. \A n \in DOMAIN token : token[n].boot # boot'
    <3>1. \A n \in DOMAIN token : token[n].boot \in 0..boot
      BY TokenFields
    <3>2. boot' = boot + 1
      BY <1>3 DEF Restart
    <3>3. boot \in 0..MaxRestarts /\ MaxRestarts \in Nat
      BY DEF TypeOK, Bounds
    <3>4. \A b \in 0..boot : b # boot + 1
      BY <3>3
    <3> QED BY <3>1, <3>2, <3>4
  <2>2. \A c \in Callers : op'[c].pc = "idle"
    BY <1>3 DEF Restart, Idle
  <2> QED BY <1>0, <1>3, <2>1, <2>2 DEF Restart, EpochInv, Signed
<1>4. CASE UNCHANGED vars
  BY <1>4, EpochStays DEF vars
<1>5. ASSUME NEW n, NEW k, Submit(n, k) PROVE EpochInv'
  BY <1>5, EpochStays DEF Submit
<1>6. ASSUME NEW c \in Callers, NEW n, LogoutRead(c, n) PROVE EpochInv'
  <2>1. OnlyOp(c, [pc |-> "logout", next |-> epoch + 1, out |-> DOMAIN token])
    BY <1>6, LogoutReadOp
  <2>3. SUFFICES ASSUME ~overlapped' PROVE EpochInv'
    BY DEF EpochInv
  <2>4. ~overlapped /\ \A d \in Callers : op[d].pc # "logout"
    BY <1>6, <2>3 DEF LogoutRead
  <2>5. /\ \A d \in Callers : op'[d].pc = "logout" => d = c
        /\ op'[c].next = epoch + 1
    BY <2>1, <2>4 DEF OnlyOp
  <2> QED BY <1>6, <2>4, <2>5 DEF EpochInv, Signed, LogoutRead
<1>7. ASSUME NEW c \in Callers, NEW n, NEW r \in 0..Whole, Change(c, n, Split(r)) PROVE EpochInv'
  <2>1. \A d \in Callers : op'[d].pc = "logout" => op'[d] = op[d]
    <3>1. OnlyOp(c, [pc |-> "rule", before |-> split, to |-> Split(r)])
      BY <1>7, ChangeOp
    <3> QED BY <3>1 DEF OnlyOp
  <2> QED BY <1>7, <2>1, EpochStays DEF Change
<1>8. ASSUME NEW c \in Callers, WriteRule(c) \/ WriteModel(c) PROVE EpochInv'
  <2>1. \A d \in Callers : op'[d].pc = "logout" => op'[d] = op[d]
    <3>1. PICK o : OnlyOp(c, o) /\ o.pc = IF op[c].pc = "rule" THEN "model" ELSE "get"
      BY <1>8, WriteOp
    <3> QED BY <3>1 DEF OnlyOp
  <2> QED BY <1>8, <2>1, EpochStays DEF WriteRule, WriteModel
<1>9. ASSUME NEW c \in Callers, GetWeights(c) PROVE EpochInv'
  <2>1. \A d \in Callers : op'[d].pc = "logout" => op'[d] = op[d]
    <3>1. OnlyOp(c, [pc |-> "record", before |-> op[c].before, ok |-> TRUE, after |-> split])
      BY <1>9, GetOp
    <3> QED BY <3>1 DEF OnlyOp
  <2> QED BY <1>9, <2>1, EpochStays DEF GetWeights
<1>10. ASSUME NEW c \in Callers, LogoutWrite(c) PROVE EpochInv'
  <2>1. OnlyOp(c, Idle) /\ Idle.pc = "idle" /\ op[c].pc = "logout"
    BY <1>10, EndOp DEF Idle, LogoutWrite
  <2>2. SUFFICES ASSUME ~overlapped' PROVE EpochInv'
    BY DEF EpochInv
  <2>3. ~overlapped /\ epoch' = epoch + 1 /\ \A d \in Callers : op[d].pc = "logout" => d = c
    BY <1>10, <2>1, <2>2 DEF LogoutWrite, EpochInv
  <2>4. \A d \in Callers : op'[d].pc # "logout"
    BY <2>1, <2>3 DEF OnlyOp
  <2>5. /\ token' = token /\ boot' = boot
        /\ \A n \in DOMAIN token : token[n].epc \in Nat
        /\ \A n \in DOMAIN token : Signed(n) => token[n].epc <= epoch
    BY <1>10, <2>3, TokenFields DEF LogoutWrite, EpochInv
  <2>6. revoked' \subseteq DOMAIN token
    BY <1>0, <1>10, <2>1, OpFields DEF LogoutWrite
  <2> QED BY <1>0, <2>3, <2>4, <2>5, <2>6 DEF EpochInv, Signed
<1>11. ASSUME NEW c \in Callers, Record(c) \/ Drop(c) PROVE EpochInv'
  <2>1. \A d \in Callers : op'[d].pc = "logout" => op'[d] = op[d]
    BY <1>11, EndOp DEF OnlyOp, Idle
  <2> QED BY <1>11, <2>1, EpochStays DEF Record, Drop
<1>12. ASSUME NEW c \in Callers, NEW asked \in Asked, NEW n, RefuseWeights(c, n, asked)
       PROVE  EpochInv'
  <2>1. \A d \in Callers : op'[d].pc = "logout" => op'[d] = op[d]
    BY <1>12, RefuseOp DEF OnlyOp
  <2> QED BY <1>12, <2>1, EpochStays DEF RefuseWeights
<1> QED BY Steps, <1>1, <1>2, <1>3, <1>4, <1>5, <1>6, <1>7, <1>8, <1>9, <1>10, <1>11, <1>12

-----------------------------------------------------------------------------
(* The weights.                                                            *)

(* A step that leaves the split and the record alone, and no change that   *)
(* has written or has looked.                                              *)
LEMMA WeightsStay ==
    ASSUME WeightInv, split' = split, chain' = chain, dropped' = dropped,
           \A c \in Callers : op[c].pc \in {"model", "get", "record"} => op'[c] = op[c]
    PROVE  WeightInv'
<1> SUFFICES ASSUME NEW w \in {"rule", "model"} PROVE Weighed(w)'
  BY DEF WeightInv
<1>1. WillRead[w] \subseteq {"model", "get"}
  BY DEF WillRead
<1>2. Weighed(w)
  BY DEF WeightInv
<1> QED BY <1>1, <1>2 DEF Weighed, Recorded

(* What an event says goes to the trail or to what was given up, and stays.*)
LEMMA EventsGrow ==
    ASSUME TypeOK, OpsTyped, NEW c \in Callers, Record(c) \/ Drop(c), NEW w
    PROVE  /\ Weights(chain, w) \subseteq Weights(chain, w)'
           /\ Weights(dropped, w) \subseteq Weights(dropped, w)'
           /\ op[c].ok => op[c].after[w] \in Weights(chain, w)' \cup Weights(dropped, w)'
<1> DEFINE e == Event(c)
<1>1. e \in Events /\ e.after = op[c].after /\ e.ok = op[c].ok
  BY OpFields DEF Event, Events, Record, Drop
<1>2. ASSUME NEW s \in Seq(Events)
      PROVE  /\ Weights(s, w) \subseteq Weights(Append(s, e), w)
             /\ op[c].ok => op[c].after[w] \in Weights(Append(s, e), w)
  <2> HIDE DEF e
  <2>1. /\ DOMAIN s \subseteq DOMAIN Append(s, e)
        /\ \A i \in DOMAIN s : Append(s, e)[i] = s[i]
        /\ Len(s) + 1 \in DOMAIN Append(s, e) /\ Append(s, e)[Len(s) + 1] = e
    BY <1>1, Appended
  <2> QED BY <1>1, <2>1 DEF Weights
<1>3. chain \in Seq(Events) /\ dropped \in Seq(Events)
  BY DEF TypeOK
<1>4. \/ chain' = Append(chain, e) /\ dropped' = dropped
      \/ dropped' = Append(dropped, e) /\ chain' = chain
  BY DEF Record, Drop
<1> HIDE DEF e
<1>5. Weights(chain, w)' = Weights(chain', w) /\ Weights(dropped, w)' = Weights(dropped', w)
  BY DEF Weights
<1> QED BY <1>2, <1>3, <1>4, <1>5

LEMMA WeightsKept ==
    ASSUME TypeOK, OpsTyped, WeightInv, [Next]_vars
    PROVE  WeightInv'
<1>1. CASE Login \/ Tick \/ UNCHANGED vars \/ \E n, k : Submit(n, k)
  BY <1>1, WeightsStay DEF Login, Tick, vars, Submit
<1>2. CASE Restart
  BY <1>2 DEF Restart, WeightInv, Weighed, Recorded
<1>3. ASSUME NEW c \in Callers, NEW n, LogoutRead(c, n) PROVE WeightInv'
  <2>1. \A d \in Callers : op[d].pc \in {"model", "get", "record"} => op'[d] = op[d]
    BY <1>3, LogoutReadOp DEF OnlyOp, LogoutRead, Idle
  <2> QED BY <1>3, <2>1, WeightsStay DEF LogoutRead
<1>4. ASSUME NEW c \in Callers, NEW n, NEW r \in 0..Whole, Change(c, n, Split(r)) PROVE WeightInv'
  <2>1. \A d \in Callers : op[d].pc \in {"model", "get", "record"} => op'[d] = op[d]
    BY <1>4, ChangeOp DEF OnlyOp, Change, Idle
  <2> QED BY <1>4, <2>1, WeightsStay DEF Change
<1>5. ASSUME NEW c \in Callers, LogoutWrite(c) PROVE WeightInv'
  <2>1. \A d \in Callers : op[d].pc \in {"model", "get", "record"} => op'[d] = op[d]
    BY <1>5, EndOp DEF OnlyOp, LogoutWrite
  <2> QED BY <1>5, <2>1, WeightsStay DEF LogoutWrite
<1>6. ASSUME NEW c \in Callers, WriteRule(c) PROVE WeightInv'
  <2>1. PICK o : OnlyOp(c, o) /\ o.pc = "model"
    BY <1>6, WriteOp DEF WriteRule
  <2>2. Weighed("rule")'
    BY <2>1 DEF Weighed, WillRead, OnlyOp
  <2>3. /\ split'["model"] = split["model"] /\ chain' = chain /\ dropped' = dropped
        /\ op[c].pc = "rule"
    BY <1>6 DEF WriteRule, TypeOK, Splits
  <2>4. Weighed("model")'
    BY <2>1, <2>3 DEF WeightInv, Weighed, Recorded, WillRead, OnlyOp
  <2> QED BY <2>2, <2>4 DEF WeightInv
<1>7. ASSUME NEW c \in Callers, WriteModel(c) PROVE WeightInv'
  <2>1. PICK o : OnlyOp(c, o) /\ o.pc = "get"
    BY <1>7, WriteOp DEF WriteModel
  <2> QED BY <2>1 DEF WeightInv, Weighed, WillRead, OnlyOp
<1>8. ASSUME NEW c \in Callers, GetWeights(c) PROVE WeightInv'
  <2> DEFINE o == [pc |-> "record", before |-> op[c].before, ok |-> TRUE, after |-> split]
  <2>1. OnlyOp(c, o) /\ split' = split
    BY <1>8, GetOp DEF GetWeights
  <2>2. op'[c].pc = "record" /\ op'[c].ok /\ op'[c].after = split'
    BY <2>1 DEF OnlyOp
  <2> QED BY <2>2 DEF WeightInv, Weighed
<1>9. ASSUME NEW c \in Callers, Record(c) \/ Drop(c) PROVE WeightInv'
  <2>1. OnlyOp(c, Idle) /\ op[c].pc = "record" /\ split' = split
    BY <1>9, EndOp DEF Record, Drop
  <2>2. ASSUME NEW w \in {"rule", "model"} PROVE Weighed(w)'
    <3>1. /\ Weights(chain, w) \subseteq Weights(chain, w)'
          /\ Weights(dropped, w) \subseteq Weights(dropped, w)'
          /\ op[c].ok => op[c].after[w] \in Weights(chain, w)' \cup Weights(dropped, w)'
      BY <1>9, EventsGrow
    <3>2. CASE Recorded(w)
      BY <2>1, <3>1, <3>2 DEF Recorded, Weighed
    <3>3. CASE \E d \in Callers : op[d].pc \in WillRead[w]
      <4>1. PICK d \in Callers : op[d].pc \in WillRead[w]
        BY <3>3
      <4>2. d # c
        BY <2>1, <4>1 DEF WillRead
      <4> QED BY <2>1, <4>1, <4>2 DEF OnlyOp, Weighed
    <3>4. ASSUME NEW d \in Callers, op[d].pc = "record", op[d].ok, op[d].after[w] = split[w]
          PROVE  Weighed(w)'
      <4>1. CASE d = c
        BY <2>1, <3>1, <3>4, <4>1 DEF Recorded, Weighed
      <4>2. CASE d # c
        BY <2>1, <3>4, <4>2 DEF OnlyOp, Weighed
      <4> QED BY <4>1, <4>2
    <3> QED BY <3>2, <3>3, <3>4 DEF WeightInv, Weighed
  <2> QED BY <2>2 DEF WeightInv
<1>10. ASSUME NEW c \in Callers, NEW asked \in Asked, NEW n, RefuseWeights(c, n, asked)
       PROVE  WeightInv'
  <2>1. \A d \in Callers : op[d].pc \in {"model", "get", "record"} => op'[d] = op[d]
    BY <1>10, RefuseOp DEF OnlyOp, RefuseWeights, Idle
  <2> QED BY <1>10, <2>1, WeightsStay DEF RefuseWeights
<1> QED BY Steps, <1>1, <1>2, <1>3, <1>4, <1>5, <1>6, <1>7, <1>8, <1>9, <1>10

-----------------------------------------------------------------------------
(* The theorems.                                                           *)

(* Nothing that was signed is taken back, and no job changes hands.        *)
LEMMA TokensStay ==
    ASSUME TypeOK, [Next]_vars
    PROVE  /\ \A n \in DOMAIN token : n \in DOMAIN token' /\ token'[n] = token[n]
           /\ 0 \notin DOMAIN token /\ 0 \notin DOMAIN token'
<1> DEFINE t == [exp |-> now + TTL, epc |-> epoch, tnt |-> tenant, boot |-> boot]
<1>1. token \in Seq(TokenOf(boot))
  BY DEF TypeOK, TokenOf
<1>2. CASE Login
  <2>1. t \in TokenOf(boot) /\ token' = Append(token, t)
    BY <1>2 DEF Login, TypeOK, TokenOf, Bounds
  <2> HIDE DEF t
  <2>2. token' \in Seq(TokenOf(boot)) /\ \A n \in DOMAIN token : n \in DOMAIN token' /\ token'[n] = token[n]
    BY <1>1, <2>1, Appended
  <2> QED BY <1>1, <2>2
<1>3. CASE token' = token
  BY <1>1, <1>3
<1> QED BY Steps, <1>2, <1>3 DEF Tick, Restart, vars, Submit, LogoutRead, Change, RefuseWeights,
       LogoutWrite, WriteRule, WriteModel, GetWeights, Record, Drop

LEMMA JobsStay ==
    ASSUME TypeOK, [Next]_vars
    PROVE  DOMAIN job \subseteq DOMAIN job' /\ \A j \in DOMAIN job : job'[j] = job[j]
<1>1. ASSUME NEW n, NEW k, Submit(n, k)
      PROVE  DOMAIN job \subseteq DOMAIN job' /\ \A j \in DOMAIN job : job'[j] = job[j]
  <2>1. job \in Seq(Tenants \cup {Identity(n, k)}) /\ job' = Append(job, Identity(n, k))
    BY <1>1, SeqGrows DEF TypeOK, Submit
  <2> QED BY <2>1, Appended
<1>2. CASE job' = job
  BY <1>2
<1> QED BY Steps, <1>1, <1>2 DEF Login, Tick, Restart, vars, LogoutRead, Change, RefuseWeights,
       LogoutWrite, WriteRule, WriteModel, GetWeights, Record, Drop

LEMMA Starts == Init => IInv
<1> SUFFICES ASSUME Init PROVE IInv
  OBVIOUS
<1>1. OpsTyped /\ \A c \in Callers : op[c].pc = "idle"
  BY DEF Init, OpsTyped, Op, Idle
<1>2. TypeOK
  <2>1. /\ token \in Seq(TokenOf(boot)) /\ chain \in Seq(Events) /\ dropped \in Seq(Events)
        /\ job \in Seq(Tenants)
    <3>1. boot = 0 /\ Older \in TokenOf(boot)
      BY DEF Init, Older, TokenOf, Bounds
    <3>2. <<>> \in Seq(TokenOf(boot)) /\ <<Older>> \in Seq(TokenOf(boot))
      BY <3>1
    <3>3. <<>> \in Seq(Events) /\ <<>> \in Seq(Tenants)
      OBVIOUS
    <3>4. token \in Seq(TokenOf(boot))
      BY <3>2, Zenon DEF Init
    <3> QED BY <3>3, <3>4, Zenon DEF Init
  <2>2. split \in Splits
    BY SplitTyped DEF Init
  <2> QED BY <1>1, <2>1, <2>2 DEF Init, TypeOK, TokenOf, Bounds
<1>3. EpochInv
  BY <1>1 DEF Init, EpochInv, Older
<1>4. WeightInv
  BY DEF Init, WeightInv, Weighed, Recorded
<1> QED BY <1>1, <1>2, <1>3, <1>4 DEF IInv

LEMMA Goes == IInv /\ [Next]_vars => IInv'
  BY TypesKept, EpochKept, WeightsKept DEF IInv

(* For any number of sessions, logouts and restarts: what was signed before*)
(* a logout opens nothing while the process lives, except after two logouts*)
(* that overlapped.                                                        *)
THEOREM RevokedTokensAreDead == Spec => []RevokedIsDead
<1>1. Spec => []IInv
  BY Starts, Goes, PTL DEF Spec
<1>2. IInv => RevokedIsDead
  <2> SUFFICES ASSUME IInv, NEW n \in revoked, token[n].boot = boot, ~overlapped
               PROVE  ~Verified(n)
    BY DEF RevokedIsDead
  <2>1. n \in DOMAIN token /\ token[n].epc \in Nat /\ epoch \in Nat
    <3>1. TypeOK /\ n \in DOMAIN token /\ epoch \in Nat
      BY DEF IInv, TypeOK
    <3> QED BY <3>1, TokenFields
  <2>2. token[n].epc < epoch
    BY <2>1 DEF IInv, EpochInv, Signed
  <2> QED BY <2>1, <2>2 DEF Verified
<1> QED BY <1>1, <1>2, PTL

(* For any tenants and keys, and whatever the next start is configured     *)
(* with: as long as a token that claims a tenant verifies, it and a key    *)
(* show the same of the jobs there were, and then what the key shows alone.*)
THEOREM SightIsAlwaysKept == Spec => SightIsKept
<1> DEFINE same(n, k) ==
               /\ n \in DOMAIN token => token[n].tnt # Unclaimed
               /\ Verified(n)' => Verified(n)
               => Sees(n, k)' \cap DOMAIN job = IF Verified(n)' <=> Verified(n) THEN Sees(n, k) ELSE Sees(0, k)
<1>1. Spec => []IInv
  BY Starts, Goes, PTL DEF Spec
<1>2. IInv /\ [Next]_vars => [\A n \in 0..MaxTokens, k \in Keys \cup {Nobody} : same(n, k)]_vars
  <2> SUFFICES ASSUME IInv, [Next]_vars, NEW n \in 0..MaxTokens, NEW k \in Keys \cup {Nobody},
                      n \in DOMAIN token => token[n].tnt # Unclaimed, Verified(n)' => Verified(n)
               PROVE  Sees(n, k)' \cap DOMAIN job
                        = IF Verified(n)' <=> Verified(n) THEN Sees(n, k) ELSE Sees(0, k)
    BY DEF same
  <2>1. DOMAIN job \subseteq DOMAIN job' /\ \A j \in DOMAIN job : job'[j] = job[j]
    BY JobsStay DEF IInv
  <2>2. ASSUME NEW t PROVE Shows(t)' \cap DOMAIN job = Shows(t)
    BY <2>1 DEF Shows
  <2>3. 0 \notin DOMAIN token /\ ~Verified(0) /\ (~Verified(0))'
    BY TokensStay DEF IInv, Verified
  <2>4. Identity(n, k)' = IF Verified(n)' <=> Verified(n) THEN Identity(n, k) ELSE Identity(0, k)
    <3>1. CASE Verified(n)' /\ Verified(n)
      <4>1. n \in DOMAIN token /\ token'[n] = token[n] /\ token[n].tnt # Unclaimed
        BY <3>1, TokensStay DEF IInv, Verified
      <4> QED BY <3>1, <4>1 DEF Identity, Claim
    <3>2. CASE ~Verified(n)' /\ ~Verified(n)
      BY <3>2 DEF Identity
    <3>3. CASE ~Verified(n)' /\ Verified(n)
      BY <2>3, <3>3 DEF Identity
    <3> QED BY <3>1, <3>2, <3>3
  <2>5. Sees(n, k)' \cap DOMAIN job = Shows(Identity(n, k)')
    BY <2>2 DEF Sees, Shows
  <2> QED BY <2>4, <2>5 DEF Sees
<1> QED BY <1>1, <1>2, PTL DEF Spec, SightIsKept

(* Whichever changes of the split overlapped: once none is under way, each *)
(* of the two weights in force is the default, or stands in an event that  *)
(* was recorded or whose loss was counted.                                 *)
THEOREM WeightsAreAccounted == Spec => []WeightsAccounted
<1>1. Spec => []IInv
  BY Starts, Goes, PTL DEF Spec
<1>2. IInv => WeightsAccounted
  <2> SUFFICES ASSUME IInv, Quiet, NEW w \in {"rule", "model"} PROVE Recorded(w)
    BY DEF WeightsAccounted, Recorded, IInv
  <2>1. Weighed(w) /\ WillRead[w] \subseteq {"model", "get"}
    BY DEF IInv, WeightInv, WillRead
  <2> QED BY <2>1 DEF Weighed, Quiet
<1> QED BY <1>1, <1>2, PTL

-----------------------------------------------------------------------------
(* Attestation.                                                            *)

(* Evidence reads the split and never writes it: with its rows, exports and*)
(* deployments, Console behaves as it does alone, so that the theorems     *)
(* above hold of both together.                                            *)
THEOREM EvidenceLeavesTheConsole == AttestSpec => Spec
<1>1. AttestInit => Init
  BY DEF AttestInit
<1>2. [AttestNext]_<<vars, evidence>> => [Next]_vars
  BY DEF AttestNext, Redeploy, Next
<1> QED BY <1>1, <1>2, PTL DEF AttestSpec, Spec

(* An instant in its written form: neither the encoder nor the verifier    *)
(* changes it.                                                             *)
Written(v) == v = Nothing \/ v.form \in {"Z", "+00:00"}

(* What a row may hold.                                                    *)
RowInv ==
    /\ DOMAIN row = {"by", "manifest", "dynamic", "finished", "deleted"}
    /\ row = [by |-> row.by, manifest |-> row.manifest, dynamic |-> row.dynamic,
              finished |-> row.finished, deleted |-> row.deleted]
    /\ written \in Nat
    /\ run # Nothing => run.build = build
    /\ row.by # Nothing => row.finished \in 0..written
    /\ row.dynamic # Nothing =>
          row.dynamic \in Detonated /\ row.dynamic.said \subseteq {row.dynamic.worker}
    /\ row.dynamic # Nothing => row.dynamic.task <= written
    /\ row.manifest # Nothing =>
          /\ row.finished \in 0..written /\ row.manifest.of \in 0..written
          /\ Rescored(row) \/ LeftOver(row) \/ row.manifest.engine.build = row.by.build

(* What an export is, of whichever row it was made and under which key.    *)
ReportOK(r) ==
    /\ r = [reproducible |-> r.reproducible, digest |-> r.digest, submission |-> r.submission]
    /\ r.submission = [completed_at      |-> r.submission.completed_at,
                       generated_at      |-> r.submission.generated_at,
                       sample_deleted_at |-> r.submission.sample_deleted_at,
                       sample_retained   |-> r.submission.sample_retained]
    /\ Written(r.submission.completed_at)
    /\ Written(r.submission.generated_at)
    /\ Written(r.submission.sample_deleted_at)

SignedOK(file, key) ==
    /\ DOMAIN file = {"schema", "manifest", "report", "canonicalization", "payload_digest",
                      "signed", "public_key", "signature"}
    /\ key \in SigningKeys \cup {NoKey}
    /\ file.public_key = key
    /\ file.signed = (key # NoKey)
    /\ file.canonicalization = "json-canonical-1"
    /\ key # NoKey => file.signature = [by |-> key, of |-> Payload(file)]

Digested == {"score", "detonated", "submission_id", "says"}

SaysOK(file, r) ==
    /\ file.manifest.captured <=> r.manifest # Nothing
    /\ file.manifest.captured /\ ~Rescored(r) /\ ~LeftOver(r) => file.manifest.engine.build = r.by.build
    /\ file.report.reproducible.says = Scrubbed(r)
    /\ Scrubbed(r) \subseteq Brief
    /\ file.report.digest = [k \in Digested |-> CASE k = "score" -> r.by
                                                  [] k = "detonated" -> Detonator(r)
                                                  [] k = "submission_id" -> Task(r, "joe")
                                                  [] k = "says" -> Scrubbed(r)]

SheetOK(sheet) == /\ ReportOK(sheet.file.report)
                  /\ SignedOK(sheet.file, sheet.pubkey.public_key)
                  /\ SaysOK(sheet.file, sheet.row)

Held(s) == {s[i] : i \in DOMAIN s}

SheetsInv == /\ sheets \in Seq(Held(sheets))
             /\ \A i \in DOMAIN sheets : SheetOK(sheets[i])

EvidenceInv == RowInv /\ SheetsInv

USE AttestationAssumption

-----------------------------------------------------------------------------
(* The row.                                                                *)

LEMMA RowStarts == EvidenceInit => RowInv
<1> SUFFICES ASSUME EvidenceInit PROVE RowInv
  OBVIOUS
<1>1. CASE row = Absent
  BY <1>1 DEF EvidenceInit, RowInv, Absent
<1>2. ASSUME NEW w \in Workers, row = Legacy(w) PROVE RowInv
  <2>1. row = [by |-> [build |-> 0, blend |-> Split(Default)], manifest |-> Nothing,
               dynamic |-> [engine |-> "cape", worker |-> w, task |-> 0, said |-> {w}],
               finished |-> 0, deleted |-> Nothing]
    BY <1>2 DEF Legacy, Absent
  <2> QED BY <2>1 DEF EvidenceInit, RowInv, Detonated
<1> QED BY <1>1, <1>2 DEF EvidenceInit

LEMMA RowStays ==
    ASSUME RowInv, [AttestNext]_<<vars, evidence>>
    PROVE  RowInv'
<1>1. CASE Score
  BY <1>1 DEF Score, RowInv, Rescored, LeftOver, Engine
<1>2. CASE Complete
  <2> DEFINE new == [engine |-> Engine, of |-> written + 1]
  <2>1. written' = written + 1 /\ run' = Nothing /\ build' = build /\ written \in Nat /\ run.build = build
    BY <1>2 DEF Complete, RowInv
  <2>2. PICK m \in {row.manifest, new} :
            row' = [row EXCEPT !.by = run, !.manifest = m, !.finished = written + 1]
    BY <1>2, <2>1 DEF Complete
  <2> HIDE DEF new
  <2>3. row' = [by |-> run, manifest |-> m, dynamic |-> row.dynamic,
                finished |-> written + 1, deleted |-> row.deleted]
    BY <2>2 DEF RowInv
  <2>4. row'.manifest # Nothing => LeftOver(row)' \/ row'.manifest.engine.build = row'.by.build
    <3>1. CASE m = new
      <4>1. m.engine.build = build
        BY <3>1 DEF new, Engine
      <4> QED BY <2>1, <2>3, <4>1
    <3>2. CASE m = row.manifest
      <4>1. m # Nothing => m.of \in Nat /\ m.of <= written
        BY <3>2 DEF RowInv
      <4>2. m # Nothing => m.of # written + 1
        BY <2>1, <4>1
      <4> QED BY <2>3, <4>2 DEF LeftOver
    <3> QED BY <2>2, <3>1, <3>2
  <2>5. row'.manifest # Nothing => row'.manifest.of \in 0..(written + 1)
    BY <2>1, <2>2, <2>3 DEF new, RowInv
  <2> QED BY <2>1, <2>3, <2>4, <2>5 DEF RowInv, Detonated
<1>3. ASSUME NEW e \in {"cape", "joe"}, NEW w \in Workers, Ingest(e, w) PROVE RowInv'
  <2> DEFINE d == [engine |-> e, worker |-> w, task |-> written + 1, said |-> {}]
  <2>1. row' = [row EXCEPT !.by = Engine, !.dynamic = d]
    BY <1>3 DEF Ingest
  <2>2. row' = [by |-> Engine, manifest |-> row.manifest, dynamic |-> d,
                finished |-> row.finished, deleted |-> row.deleted]
    BY <2>1 DEF RowInv
  <2>3. /\ row.finished \in 0..written /\ written' = written + 1 /\ run' = run /\ build' = build
        /\ written \in Nat
    BY <1>3 DEF Ingest, RowInv
  <2>4. d \in Detonated /\ d # Nothing /\ d.said = {} /\ d.task = written + 1
    BY <2>3 DEF Detonated
  <2> HIDE DEF d
  <2>5. row.finished \in 0..(written + 1) /\ written + 1 > row.finished
    BY <2>3
  <2>6. Rescored(row)'
    BY <2>2, <2>4, <2>5 DEF Rescored
  <2> QED BY <2>2, <2>3, <2>4, <2>5, <2>6 DEF RowInv
<1>4. CASE Sweep
  <2>1. row' = [by |-> row.by, manifest |-> row.manifest, dynamic |-> row.dynamic,
                finished |-> row.finished, deleted |-> written]
    BY <1>4 DEF Sweep, RowInv
  <2> QED BY <1>4, <2>1 DEF Sweep, RowInv, Rescored, LeftOver
<1>5. CASE Redeploy
  BY <1>5 DEF Redeploy, RowInv, Rescored, LeftOver
<1>6. CASE row' = row /\ run' = run /\ build' = build /\ written' = written
  BY <1>6 DEF RowInv, Rescored, LeftOver
<1> QED BY <1>1, <1>2, <1>3, <1>4, <1>5, <1>6 DEF AttestNext, EvidenceStep, Export, evidence

-----------------------------------------------------------------------------
(* The forms of an instant.                                                *)

LEMMA WrittenStays ==
    ASSUME NEW v, Written(v)
    PROVE  Wire(v) = v /\ Canonical(v) = v
  BY DEF Written, Wire, Canonical

LEMMA InstantWritten ==
    ASSUME NEW at
    PROVE  Written(Canonical(Instant(at))) /\ Written(Canonical(Utc(at)))
<1>1. Written(Canonical(Instant(at)))
  BY DEF Written, Canonical, Instant
<1>2. Written(Canonical(Utc(at)))
  BY DEF Written, Canonical, Utc
<1> QED BY <1>1, <1>2

(* Neither the verifier nor the encoder changes a report.                  *)
LEMMA ReportStays ==
    ASSUME NEW r, ReportOK(r)
    PROVE  /\ [r EXCEPT !.submission = CanonicalSubmission(@)] = r
           /\ [r EXCEPT !.submission.completed_at = Wire(@),
                        !.submission.generated_at = Wire(@),
                        !.submission.sample_deleted_at = Wire(@)] = r
<1> DEFINE u == r.submission
<1>1. /\ Wire(u.completed_at) = u.completed_at /\ Canonical(u.completed_at) = u.completed_at
      /\ Wire(u.generated_at) = u.generated_at /\ Canonical(u.generated_at) = u.generated_at
      /\ Wire(u.sample_deleted_at) = u.sample_deleted_at
      /\ Canonical(u.sample_deleted_at) = u.sample_deleted_at
  BY WrittenStays DEF ReportOK
<1>2. u = [completed_at |-> u.completed_at, generated_at |-> u.generated_at,
           sample_deleted_at |-> u.sample_deleted_at, sample_retained |-> u.sample_retained]
  BY DEF ReportOK
<1>3. r = [reproducible |-> r.reproducible, digest |-> r.digest, submission |-> u]
  BY DEF ReportOK
<1>4. CanonicalSubmission(u) = u
  <2> HIDE DEF u
  <2> QED BY <1>1, <1>2 DEF CanonicalSubmission
<1>5. [u EXCEPT !.completed_at = Wire(@), !.generated_at = Wire(@),
                !.sample_deleted_at = Wire(@)] = u
  <2> HIDE DEF u
  <2> QED BY <1>1, <1>2
<1>6. [r EXCEPT !.submission = u] = r
  <2> HIDE DEF u
  <2> QED BY <1>3
<1>7. [r EXCEPT !.submission.completed_at = Wire(@),
                !.submission.generated_at = Wire(@),
                !.submission.sample_deleted_at = Wire(@)]
        = [r EXCEPT !.submission = [u EXCEPT !.completed_at = Wire(@), !.generated_at = Wire(@),
                                             !.sample_deleted_at = Wire(@)]]
  BY <1>2, <1>3
<1> QED BY <1>4, <1>5, <1>6, <1>7

(* The payload of a document is what stands under its signed keys.         *)
LEMMA PayloadPlain ==
    ASSUME NEW e, ReportOK(e.report)
    PROVE  Payload(e) = [k \in SignedKeys |-> e[k]]
  BY ReportStays DEF Payload, SignedKeys

-----------------------------------------------------------------------------
(* What an export is made of.                                              *)

LEMMA BodyOf ==
    ASSUME NEW made
    PROVE  Body(row, made) = [k \in Digested |-> CASE k = "score" -> row.by
                                                   [] k = "detonated" -> Detonator(row)
                                                   [] k = "submission_id" -> Task(row, "joe")
                                                   [] k = "says" -> Scrubbed(row)]
<1> DEFINE j == AsJson(row, made)
<1>1. /\ DOMAIN j = {"score", "detonated", "task_id", "submission_id", "says", "completed_at",
                     "sample_retained", "sample_deleted_at", "generated_at"}
      /\ j["score"] = row.by /\ j["detonated"] = Detonator(row) /\ j["says"] = Scrubbed(row)
      /\ j["submission_id"] = Task(row, "joe")
  BY DEF AsJson
<1> HIDE DEF j
<1>2. DOMAIN j \ (SubmissionKeys \cup VolatileKeys) = Digested
  BY <1>1 DEF SubmissionKeys, VolatileKeys, Digested
<1>3. Body(row, made) = [k \in Digested |-> j[k]]
  BY <1>2 DEF Body, j
<1> QED BY <1>1, <1>3 DEF Digested

LEMMA ReportBuilt ==
    ASSUME RowInv, NEW made
    PROVE  LET r == BuildReport(row, made)
           IN  ReportOK(r) /\ r.reproducible = Body(row, made) /\ r.digest = Body(row, made)
<1> DEFINE u == Submission(row, made)
           b == Body(row, made)
<1>1. BuildReport(row, made) = [reproducible |-> b, digest |-> b, submission |-> u]
  BY DEF BuildReport
<1>2. /\ u = [completed_at |-> u.completed_at, generated_at |-> u.generated_at,
              sample_deleted_at |-> u.sample_deleted_at, sample_retained |-> u.sample_retained]
      /\ Written(u.completed_at) /\ Written(u.generated_at) /\ Written(u.sample_deleted_at)
  BY InstantWritten DEF Submission
<1> HIDE DEF u, b
<1> QED BY <1>1, <1>2 DEF ReportOK, b

LEMMA KeyOf == DeploymentKey \in SigningKeys \cup {NoKey}
  BY DEF DeploymentKey

LEMMA WireStays ==
    ASSUME NEW s, NEW m, NEW r, NEW c, NEW p, NEW g, NEW k, NEW x, ReportOK(r)
    PROVE  LET e == [schema |-> s, manifest |-> m, report |-> r, canonicalization |-> c,
                     payload_digest |-> p, signed |-> g, public_key |-> k, signature |-> x]
           IN  OnTheWire(e) = e
<1> DEFINE u == r.submission
           e == [schema |-> s, manifest |-> m, report |-> r, canonicalization |-> c,
                 payload_digest |-> p, signed |-> g, public_key |-> k, signature |-> x]
<1>1. /\ Wire(u.completed_at) = u.completed_at
      /\ Wire(u.generated_at) = u.generated_at
      /\ Wire(u.sample_deleted_at) = u.sample_deleted_at
  BY WrittenStays DEF ReportOK
<1>2. /\ u = [completed_at |-> u.completed_at, generated_at |-> u.generated_at,
              sample_deleted_at |-> u.sample_deleted_at, sample_retained |-> u.sample_retained]
      /\ r = [reproducible |-> r.reproducible, digest |-> r.digest, submission |-> u]
  BY DEF ReportOK
<1>3. /\ [u EXCEPT !.completed_at = Wire(@)] = u
      /\ [u EXCEPT !.generated_at = Wire(@)] = u
      /\ [u EXCEPT !.sample_deleted_at = Wire(@)] = u
      /\ [r EXCEPT !.submission = u] = r
  <2> HIDE DEF u
  <2> QED BY <1>1, <1>2
<1>4. e.report = r /\ [e EXCEPT !.report = r] = e
  OBVIOUS
<1> HIDE DEF e
<1>5. /\ [e EXCEPT !.report.submission.completed_at = Wire(@)] = e
      /\ [e EXCEPT !.report.submission.generated_at = Wire(@)] = e
      /\ [e EXCEPT !.report.submission.sample_deleted_at = Wire(@)] = e
  BY <1>3, <1>4
<1>6. OnTheWire(e) = e
  BY <1>5 DEF OnTheWire
<1> QED BY <1>6 DEF e

LEMMA Attested ==
    ASSUME RowInv, NEW made
    PROVE  LET e == OnTheWire(Attest(row, made))
           IN  /\ e.manifest = Manifest(row)
               /\ e.report = BuildReport(row, made)
               /\ SignedOK(e, DeploymentKey)
<1> DEFINE d == BuildDocument(row, made)
           e == Attest(row, made)
           rep == BuildReport(row, made)
           key == DeploymentKey
<1>1. d = [schema |-> "attestation/1", manifest |-> Manifest(row), report |-> rep]
  BY DEF BuildDocument
<1>2. e = [schema |-> "attestation/1", manifest |-> Manifest(row), report |-> rep,
           canonicalization |-> "json-canonical-1", payload_digest |-> Payload(d),
           signed |-> key # NoKey, public_key |-> key,
           signature |-> IF key = NoKey THEN Nothing ELSE [by |-> key, of |-> Payload(d)]]
  BY <1>1 DEF Attest
<1>3. ReportOK(rep)
  BY ReportBuilt
<1>4. Payload(d) = [k \in SignedKeys |-> d[k]]
  <2>1. d.report = rep
    BY <1>1
  <2> HIDE DEF d, rep
  <2> QED BY <1>3, <2>1, PayloadPlain
<1>5. e.report = rep /\ [e.report EXCEPT !.submission.completed_at = Wire(@),
                            !.submission.generated_at = Wire(@),
                            !.submission.sample_deleted_at = Wire(@)] = rep
  <2>1. e.report = rep
    <3> HIDE DEF e, rep, d, key
    <3> QED BY <1>2
  <2> HIDE DEF e, rep
  <2> QED BY <1>3, <2>1, ReportStays
<1>6. OnTheWire(e) = e
  <2> HIDE DEF e, rep, d, key
  <2>1. e = [schema |-> e.schema, manifest |-> e.manifest, report |-> rep,
             canonicalization |-> e.canonicalization, payload_digest |-> e.payload_digest,
             signed |-> e.signed, public_key |-> e.public_key, signature |-> e.signature]
    BY <1>2
  <2> QED BY <1>3, <2>1, WireStays
<1>7. Payload(e) = Payload(d)
  <2>1. Payload(e) = [k \in SignedKeys |-> e[k]]
    <3> HIDE DEF e, rep
    <3> QED BY <1>3, <1>5, PayloadPlain
  <2>2. \A k \in SignedKeys : e[k] = d[k]
    <3>1. d["schema"] = "attestation/1" /\ d["manifest"] = Manifest(row) /\ d["report"] = rep
      BY <1>1
    <3> HIDE DEF e, rep, d, key
    <3> QED BY <1>2, <3>1 DEF SignedKeys
  <2> HIDE DEF e, d
  <2> QED BY <1>4, <2>1, <2>2
<1>8. SignedOK(e, key)
  <2>1. key \in SigningKeys \cup {NoKey}
    BY KeyOf
  <2> HIDE DEF e, rep, d, key
  <2> QED BY <1>2, <1>7, <2>1 DEF SignedOK
<1>9. e.manifest = Manifest(row)
  <2> HIDE DEF e, rep, d, key
  <2> QED BY <1>2
<1> QED BY <1>5, <1>6, <1>8, <1>9

LEMMA SheetMade ==
    ASSUME RowInv, NEW made
    PROVE  SheetOK([file |-> OnTheWire(Attest(row, made)), row |-> row, pubkey |-> PublicKeyInfo])
<1> DEFINE e == OnTheWire(Attest(row, made))
           sheet == [file |-> e, row |-> row, pubkey |-> PublicKeyInfo]
<1>1. /\ e.manifest = Manifest(row) /\ e.report = BuildReport(row, made)
      /\ SignedOK(e, DeploymentKey)
  BY Attested
<1>2. /\ ReportOK(e.report) /\ e.report.reproducible = Body(row, made)
      /\ e.report.digest = Body(row, made)
  <2> HIDE DEF e
  <2> QED BY <1>1, ReportBuilt
<1>3. Body(row, made).says = Scrubbed(row) /\ Scrubbed(row) \subseteq Brief
  <2>1. Body(row, made).says = Scrubbed(row)
    BY BodyOf DEF Digested
  <2>2. Scrubbed(row) \subseteq Brief
    BY DEF RowInv, Scrubbed, Names
  <2> QED BY <2>1, <2>2
<1>4. /\ e.manifest.captured <=> row.manifest # Nothing
      /\ e.manifest.captured /\ ~Rescored(row) /\ ~LeftOver(row)
         => e.manifest.engine.build = row.by.build
  <2> HIDE DEF e
  <2> QED BY <1>1 DEF Manifest, RowInv
<1>5. SaysOK(e, row)
  <2> HIDE DEF e
  <2> QED BY <1>2, <1>3, <1>4, BodyOf DEF SaysOK
<1>6. sheet.file = e /\ sheet.row = row /\ sheet.pubkey.public_key = DeploymentKey
  <2> HIDE DEF e
  <2> QED BY DEF PublicKeyInfo
<1> HIDE DEF e, sheet
<1>7. SheetOK(sheet)
  BY <1>1, <1>2, <1>5, <1>6 DEF SheetOK
<1> QED BY <1>7 DEF sheet, e

LEMMA SheetsStay ==
    ASSUME RowInv, SheetsInv, [AttestNext]_<<vars, evidence>>
    PROVE  SheetsInv'
<1>1. CASE Export
  <2> DEFINE e == [file |-> OnTheWire(Attest(row, Len(sheets) + 1)),
                   row |-> row, pubkey |-> PublicKeyInfo]
  <2>1. sheets' = Append(sheets, e)
    BY <1>1 DEF Export
  <2>2. SheetOK(e)
    BY SheetMade
  <2> HIDE DEF e
  <2>3. sheets \in Seq(Held(sheets) \cup {e})
    BY SeqGrows DEF SheetsInv
  <2>4. /\ \A i \in DOMAIN sheets' : sheets'[i] \in Held(sheets) \cup {e}
        /\ sheets' \in Seq(Held(sheets) \cup {e})
        /\ DOMAIN sheets \subseteq DOMAIN sheets'
        /\ \A i \in DOMAIN sheets : sheets'[i] = sheets[i]
        /\ \E i \in DOMAIN sheets' : sheets'[i] = e
    BY <2>1, <2>3, Appended
  <2>5. Held(sheets') = Held(sheets) \cup {e}
    BY <2>4 DEF Held
  <2>6. \A i \in DOMAIN sheets' : SheetOK(sheets'[i])
    BY <2>2, <2>4 DEF SheetsInv, Held
  <2> QED BY <2>4, <2>5, <2>6 DEF SheetsInv
<1>2. CASE sheets' = sheets
  BY <1>2 DEF SheetsInv
<1> QED BY <1>1, <1>2 DEF AttestNext, EvidenceStep, Score, Complete, Sweep, Ingest, Redeploy,
       evidence

LEMMA EvidenceStarts == AttestInit => EvidenceInv
<1> SUFFICES ASSUME EvidenceInit PROVE EvidenceInv
  BY DEF AttestInit
<1>1. SheetsInv
  BY DEF EvidenceInit, SheetsInv
<1> QED BY <1>1, RowStarts DEF EvidenceInv

LEMMA EvidenceGoes == EvidenceInv /\ [AttestNext]_<<vars, evidence>> => EvidenceInv'
  BY RowStays, SheetsStay DEF EvidenceInv

LEMMA EvidenceHolds == AttestSpec => []EvidenceInv
  BY EvidenceStarts, EvidenceGoes, PTL DEF AttestSpec

(* Whatever is deployed between a verdict and its export, a manifest that  *)
(* claims to be of the verdict's time names the image that reached it,     *)
(* unless a report or a manifest that could not be built came in between.  *)
THEOREM StatedEngineRanAlways == AttestSpec => []StatedEngineRan
<1>1. EvidenceInv => StatedEngineRan
  BY DEF EvidenceInv, SheetsInv, SheetOK, SaysOK, StatedEngineRan
<1> QED BY <1>1, EvidenceHolds, PTL

(* No worker, no task but Joe's, no instant and no sweep of the bytes shows*)
(* in what the reproducible digest is of, and of names only one of two     *)
(* characters in the sentences of an old release.                          *)
THEOREM DigestIsReproducible == AttestSpec => []SameFindingsSameDigest
<1>1. EvidenceInv => SameFindingsSameDigest
  <2> SUFFICES ASSUME EvidenceInv, NEW i \in DOMAIN sheets, NEW j \in DOMAIN sheets
               PROVE  LET a == sheets[i].row
                          b == sheets[j].row
                          says == sheets[i].file.report.reproducible.says
                      IN  /\ says \subseteq Brief
                          /\ /\ a.by = b.by
                             /\ Detonator(a) = Detonator(b) /\ ~Resubmitted(a, b)
                             /\ says = {} /\ sheets[j].file.report.reproducible.says = {}
                             => sheets[i].file.report.digest = sheets[j].file.report.digest
    BY DEF SameFindingsSameDigest
  <2> DEFINE a == sheets[i].row
             b == sheets[j].row
             File1 == sheets[i].file
             File2 == sheets[j].file
  <2>1. SaysOK(File1, a) /\ SaysOK(File2, b)
    BY DEF EvidenceInv, SheetsInv, SheetOK
  <2> HIDE DEF a, b, File1, File2
  <2>2. File1.report.reproducible.says \subseteq Brief
    BY <2>1 DEF SaysOK
  <2>3. ASSUME a.by = b.by, Detonator(a) = Detonator(b), ~Resubmitted(a, b),
               File1.report.reproducible.says = {}, File2.report.reproducible.says = {}
        PROVE  File1.report.digest = File2.report.digest
    <3>1. Task(a, "joe") = Task(b, "joe")
      BY <2>3 DEF Task, Resubmitted
    <3>2. Scrubbed(a) = Scrubbed(b)
      BY <2>1, <2>3 DEF SaysOK
    <3> QED BY <2>1, <2>3, <3>1, <3>2 DEF SaysOK, Digested
  <2> QED BY <2>2, <2>3 DEF a, b, File1, File2
<1> QED BY <1>1, EvidenceHolds, PTL

(* An export verifies for ever with the key that was published when it was *)
(* made, and with no other.                                                *)
THEOREM UntouchedAlwaysVerifies == AttestSpec => []UntouchedVerifies
<1>1. EvidenceInv => UntouchedVerifies
  <2> SUFFICES ASSUME EvidenceInv, NEW i \in DOMAIN sheets, NEW pinned \in SigningKeys
               PROVE  Result(File(sheets[i].file), pinned)
                        = IF sheets[i].pubkey.public_key = pinned THEN 0 ELSE 1
    BY DEF UntouchedVerifies
  <2> DEFINE e == sheets[i].file
             key == sheets[i].pubkey.public_key
  <2>1. SignedOK(e, key)
    BY DEF EvidenceInv, SheetsInv, SheetOK
  <2> HIDE DEF e, key
  <2>2. /\ File(e).says = e /\ File(e).twice = {} /\ ~Unreadable(File(e))
        /\ Trusted(File(e), pinned) = pinned
    BY <2>1 DEF File, Unreadable, SignedOK, SignedKeys, Trusted
  <2>3. Holds(File(e), pinned) <=> key = pinned
    <3>1. CASE key = NoKey
      BY <2>1, <2>2, <3>1 DEF SignedOK, Holds
    <3>2. CASE key # NoKey
      <4>1. e.signed /\ e.canonicalization = "json-canonical-1"
            /\ e.signature = [by |-> key, of |-> Payload(e)]
        BY <2>1, <3>2 DEF SignedOK
      <4>2. [by |-> key, of |-> Payload(e)] = [by |-> pinned, of |-> Payload(e)] <=> key = pinned
        OBVIOUS
      <4> QED BY <2>2, <4>1, <4>2 DEF Holds, Verify
    <3> QED BY <3>1, <3>2
  <2>4. Result(File(e), pinned) = IF key = pinned THEN 0 ELSE 1
    BY <2>2, <2>3 DEF Result
  <2> QED BY <2>4 DEF e, key
<1> QED BY <1>1, EvidenceHolds, PTL

(* A field of an export exchanged with another export's, lost or said twice*)
(* is refused, or the file still says what one export said.                *)
THEOREM AcceptedIsAlwaysExported == AttestSpec => []AcceptedIsExported
<1>1. EvidenceInv => AcceptedIsExported
  <2> SUFFICES ASSUME EvidenceInv, NEW i \in DOMAIN sheets, NEW file \in Altered(i),
                      NEW pinned \in SigningKeys \cup {NoKey}, Result(file, pinned) = 0
               PROVE  /\ file.twice = {}
                      /\ \A f \in SignedKeys : file.says[f] = sheets[i].file[f]
    BY DEF AcceptedIsExported, SignedKeys
  <2> DEFINE e == sheets[i].file
  <2>1. /\ \A j \in DOMAIN sheets : ReportOK(sheets[j].file.report)
        /\ SignedOK(e, sheets[i].pubkey.public_key)
    BY DEF EvidenceInv, SheetsInv, SheetOK
  <2>2. file.twice = {} /\ SignedKeys \subseteq DOMAIN file.says /\ Holds(file, pinned)
    BY DEF Result, Unreadable
  <2>3. \/ \E j \in DOMAIN sheets : \E f \in Differ(i, j) :
              file = File([e EXCEPT ![f] = sheets[j].file[f]])
        \/ \E f \in SignedKeys : file = File([k \in DOMAIN e \ {f} |-> e[k]])
        \/ \E f \in SignedKeys : file = [says |-> e, twice |-> {f}]
    <3> DEFINE Exchanged(j) == {File([e EXCEPT ![f] = sheets[j].file[f]]) : f \in Differ(i, j)}
               lost == {File([k \in DOMAIN e \ {f} |-> e[k]]) : f \in SignedKeys}
               twice == {[says |-> e, twice |-> {f}] : f \in SignedKeys}
    <3>1. file \in (UNION {Exchanged(j) : j \in DOMAIN sheets}) \cup lost \cup twice
      BY DEF Altered
    <3>2. \/ \E j \in DOMAIN sheets : file \in Exchanged(j)
          \/ file \in lost \/ file \in twice
      <4> HIDE DEF Exchanged, lost, twice
      <4> QED BY <3>1
    <3> HIDE DEF e
    <3> QED BY <3>2
  <2>4. ASSUME NEW f \in SignedKeys, file = File([k \in DOMAIN e \ {f} |-> e[k]]) PROVE FALSE
    <3>1. DOMAIN file.says = DOMAIN e \ {f}
      BY <2>4 DEF File
    <3> QED BY <2>2, <3>1
  <2>5. ASSUME NEW f \in SignedKeys, file = [says |-> e, twice |-> {f}] PROVE FALSE
    <3>1. file.twice = {f}
      BY <2>5
    <3> QED BY <2>2, <3>1
  <2>6. ASSUME NEW j \in DOMAIN sheets, NEW f \in Differ(i, j),
               file = File([e EXCEPT ![f] = sheets[j].file[f]])
        PROVE  \A k \in SignedKeys : file.says[k] = e[k]
    <3> DEFINE v == sheets[j].file[f]
    <3>1. /\ file.says = [e EXCEPT ![f] = v] /\ f \in DOMAIN e

      BY <2>6 DEF File, Differ
    <3>2. SignedKeys \subseteq DOMAIN e
      BY <2>1 DEF SignedOK, SignedKeys
    <3>3. CASE f \notin SignedKeys
      BY <3>1, <3>2, <3>3
    <3>4. CASE f \in SignedKeys
      <4>1. /\ file.says.signed = e.signed /\ file.says.signature = e.signature
            /\ file.says.public_key = e.public_key
        BY <2>1, <3>1, <3>4 DEF SignedOK, SignedKeys
      <4>2. file.says.signed /\ Verify(Payload(file.says), e.signature, Trusted(file, pinned))
        BY <2>2, <4>1 DEF Holds
      <4>3. e.signature = [by |-> e.public_key, of |-> Payload(e)]
        BY <2>1, <4>1, <4>2 DEF SignedOK
      <4>4. Payload(file.says) = Payload(e)
        BY <4>2, <4>3 DEF Verify
      <4>5. ReportOK(file.says.report) /\ ReportOK(e.report)
        BY <2>1, <3>1, <3>2, <3>4 DEF SignedKeys
      <4>6. /\ Payload(file.says) = [k \in SignedKeys |-> file.says[k]]
            /\ Payload(e) = [k \in SignedKeys |-> e[k]]
        <5> HIDE DEF e
        <5> QED BY <4>5, PayloadPlain
      <4> QED BY <4>4, <4>6
    <3> QED BY <3>3, <3>4
  <2> QED BY <2>2, <2>3, <2>4, <2>5, <2>6
<1> QED BY <1>1, EvidenceHolds, PTL
=============================================================================
