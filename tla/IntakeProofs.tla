---------------------------- MODULE IntakeProofs ----------------------------
(* Theorems about what a submission goes through.  About RateLimit, for    *)
(* any callers, credentials, rules and sizes of the table: attempts stay   *)
(* within the rule of an address and the headers of an answer are true.    *)
(* About Intake, for files of any kind that lie in one another in any way  *)
(* and caps of any size: a fetch stays outside and within its effort, a    *)
(* run within its budget and its depth, every member of a listing is       *)
(* accounted for, and what was not looked at is said at the top.           *)
EXTENDS Intake, RateLimit, SequenceTheorems, FiniteSetTheorems, WellFoundedInduction, TLAPS

-----------------------------------------------------------------------------
(* Numbers.                                                                *)

LEMMA Least ==
    ASSUME NEW S \in SUBSET Nat, S # {}
    PROVE  Min(S) \in S /\ \A k \in S : Min(S) <= k
  <1> DEFINE R == {ss \in Nat \X Nat : ss[1] < ss[2]}
  <1>1. IsWellFoundedOn(R, Nat)
    BY NatLessThanWellFounded DEF OpToRel
  <1>2. PICK x \in S : \A y \in S : ~(<<y, x>> \in R)
    <2> HIDE DEF R
    <2> QED BY <1>1, WFMin
  <1>3. \A y \in S : x <= y
    <2> SUFFICES ASSUME NEW y \in S PROVE x <= y
      OBVIOUS
    <2>1. x \in Nat /\ y \in Nat /\ ~(<<y, x>> \in R)
      BY <1>2
    <2> QED BY <2>1
  <1> QED BY <1>3 DEF Min

(* What holds of 0, and of i + 1 when it holds of i, holds up to n.        *)
LEMMA UpTo ==
    ASSUME NEW S, NEW n \in Nat, 0 \in S, \A i \in 0..(n - 1) : i \in S => i + 1 \in S
    PROVE  0..n \subseteq S
  <1> DEFINE T == (0..n) \ S
  <1> SUFFICES ASSUME T # {} PROVE FALSE
    OBVIOUS
  <1>1. PICK k \in T : \A i \in T : k <= i
    <2>1. T \subseteq Nat
      OBVIOUS
    <2> HIDE DEF T
    <2> QED BY <2>1, Least
  <1>2. k # 0 /\ k - 1 \in 0..(n - 1) /\ k - 1 \notin T
    BY <1>1
  <1> QED BY <1>1, <1>2

StepsOn(n, T) == [1..n -> [T -> T]]

(* A function on 0..n that is given by its first value and by a step.      *)
LEMMA Steps ==
    ASSUME NEW n \in Nat, NEW T, NEW a \in T, NEW step \in StepsOn(n, T)
    PROVE  \E f \in [0..n -> T] : f[0] = a /\ \A i \in 1..n : f[i] = step[i][f[i - 1]]
  <1> DEFINE S == {m \in 0..n : \E f \in [0..m -> T] :
                      f[0] = a /\ \A i \in 1..m : f[i] = step[i][f[i - 1]]}
  <1>0. step \in [1..n -> [T -> T]]
    BY DEF StepsOn
  <1>1. 0 \in S
    <2> DEFINE f == [i \in 0..0 |-> a]
    <2>1. f \in [0..0 -> T] /\ f[0] = a /\ 0 \in 0..n
      OBVIOUS
    <2> HIDE DEF f
    <2> QED BY <2>1
  <1>2. ASSUME NEW m \in 0..(n - 1), m \in S PROVE m + 1 \in S
    <2>1. PICK f \in [0..m -> T] : f[0] = a /\ \A i \in 1..m : f[i] = step[i][f[i - 1]]
      BY <1>2
    <2> DEFINE g == [i \in 0..(m + 1) |-> IF i <= m THEN f[i] ELSE step[m + 1][f[m]]]
    <2>2. m + 1 \in 1..n /\ m \in 0..m /\ m + 1 \in 0..n
      OBVIOUS
    <2>3. g \in [0..(m + 1) -> T]
      BY <1>0, <2>2
    <2>4. g[0] = a /\ \A i \in 1..m : g[i] = step[i][g[i - 1]]
      BY <2>1
    <2>5. g[m + 1] = step[m + 1][g[m]]
      OBVIOUS
    <2> HIDE DEF g
    <2>6. \A i \in 1..(m + 1) : g[i] = step[i][g[i - 1]]
      <3> SUFFICES ASSUME NEW i \in 1..(m + 1) PROVE g[i] = step[i][g[i - 1]]
        OBVIOUS
      <3>1. CASE i = m + 1
        <4>1. i - 1 = m
          BY <3>1
        <4> QED BY <2>5, <3>1, <4>1
      <3>2. CASE i \in 1..m
        BY <2>4, <3>2
      <3> QED BY <3>1, <3>2
    <2> QED BY <2>2, <2>3, <2>4, <2>6
  <1>3. 0..n \subseteq S
    <2> HIDE DEF S
    <2> QED BY <1>1, <1>2, UpTo
  <1>4. n \in S
    BY <1>3
  <1> QED BY <1>4

-----------------------------------------------------------------------------
(* One member of a listing.                                                *)

Reasons == {"none", "not_regular", "too_large", "bomb", "budget", "unreadable"}
Out == [path : STRING, file : Files, size : Nat, stored : BOOLEAN, reason : Reasons]
Acc == [budget : Nat, cost : Nat, cut : BOOLEAN, out : Seq(Out)]
Containers == {c \in Content : c.kind # "plain"}

LEMMA ListedEntries ==
    ASSUME NEW c \in Containers
    PROVE  /\ Len(Listed(c)) \in Nat /\ DOMAIN Listed(c) = 1..Len(Listed(c))
           /\ \A i \in 1..Len(Listed(c)) :
                 Listed(c)[i] \in [path : STRING, file : Files, size : Nat,
                                   is : {"file", "dir", "other"},
                                   locked : BOOLEAN, sound : BOOLEAN, bomb : BOOLEAN]
  <1> DEFINE E == [path : STRING, file : Files, size : Nat, is : {"file", "dir", "other"},
                   locked : BOOLEAN, sound : BOOLEAN, bomb : BOOLEAN]
             n == IF Len(c.entries) > MaxMembers THEN MaxMembers ELSE Len(c.entries)
  <1>1. c.entries \in Seq(E)
    BY DEF Containers, Content
  <1> HIDE DEF E
  <1>2. /\ Len(c.entries) \in Nat /\ \A i \in 1..Len(c.entries) : c.entries[i] \in E
        /\ n \in Nat /\ n <= Len(c.entries)
    BY <1>1, ElementOfSeq, LenProperties, ArchiveAssumption
  <1>3. Listed(c) = SubSeq(c.entries, 1, n)
    BY DEF Listed
  <1> HIDE DEF n
  <1>4. Listed(c) \in Seq(E)
    BY <1>2, <1>3, SubSeqProperties
  <1> QED BY <1>4, LenProperties, ElementOfSeq DEF E

(* Every reader asks whether a member is too large and whether it can be   *)
(* paid for.                                                               *)
LEMMA AskedOfAll ==
    ASSUME NEW kind \in Kinds, kind # "plain", NEW budget
    PROVE  LET asked == Asked(kind, budget)
           IN  /\ DOMAIN asked \subseteq Nat
               /\ \E i \in DOMAIN asked : asked[i] = "too_large"
               /\ \E i \in DOMAIN asked : asked[i] = "budget"
               /\ \A i \in DOMAIN asked : asked[i] \in Reasons \ {"none"}
  <1> DEFINE Asks(s) == /\ DOMAIN s \subseteq Nat
                        /\ \E i \in DOMAIN s : s[i] = "too_large"
                        /\ \E i \in DOMAIN s : s[i] = "budget"
                        /\ \A i \in DOMAIN s : s[i] \in Reasons \ {"none"}
  <1>1. Asks(AskedOfZip) /\ Asks(AskedOfTar)
    BY DEF AskedOfZip, AskedOfTar, Reasons
  <1>2. Asks(AskedOfIso) /\ Asks(AskedOf7z) /\ Asks(AskedOfRar)
    BY DEF AskedOfIso, AskedOf7z, AskedOfRar, Reasons
  <1>3. Asks(AskedOfStream(budget))
    BY DEF AskedOfStream, Reasons
  <1>4. Asked(kind, budget) \in {AskedOfZip, AskedOfTar, AskedOfStream(budget),
                                AskedOfIso, AskedOf7z, AskedOfRar}
    BY DEF Asked, Kinds
  <1>5. Asks(Asked(kind, budget))
    <2> HIDE DEF Asks
    <2> QED BY <1>1, <1>2, <1>3, <1>4
  <1> QED BY <1>5

(* A member that no reader objects to is small enough, and can be paid for.*)
LEMMA ReasonGiven ==
    ASSUME NEW c \in Containers, NEW e, NEW budget, NEW pw
    PROVE  /\ Reason(c, e, budget, pw) \in Reasons
           /\ Reason(c, e, budget, pw) = "none" =>
                 ~(e.size > MaxMemberSize) /\ ~(e.size > budget)
  <1> DEFINE asked == Asked(c.kind, budget)
             met == {i \in DOMAIN asked : Applies(asked[i], c.kind, e, budget, pw)}
  <1>1. /\ DOMAIN asked \subseteq Nat
        /\ \E i \in DOMAIN asked : asked[i] = "too_large"
        /\ \E i \in DOMAIN asked : asked[i] = "budget"
        /\ \A i \in DOMAIN asked : asked[i] \in Reasons \ {"none"}
    BY AskedOfAll DEF Containers, Content
  <1>2. Reason(c, e, budget, pw) = IF met = {} THEN "none" ELSE asked[Min(met)]
    BY DEF Reason
  <1>3. met # {} => Min(met) \in met
    BY <1>1, Least
  <1>4. met = {} => ~(e.size > MaxMemberSize) /\ ~(e.size > budget)
    BY <1>1 DEF Applies
  <1> HIDE DEF met
  <1>5. met # {} => asked[Min(met)] \in Reasons \ {"none"}
    BY <1>1, <1>3 DEF met
  <1> HIDE DEF asked
  <1> QED BY <1>2, <1>4, <1>5 DEF Reasons

(* What a member becomes: stored or given a reason.                        *)
Fair(c, i, o, cut) ==
    /\ o.stored => o.size <= MaxMemberSize
    /\ o.stored \/ o.reason # "none" \/ Listed(c)[i].is = "dir" \/ Shadowed(c, i)
    /\ o.reason = "budget" => cut \/ c.kind = "rar"

LEMMA TakeOne ==
    ASSUME NEW c \in Containers, NEW acc \in Acc, NEW i \in 1..Len(Listed(c)), NEW pw
    PROVE  /\ Take(c, acc, i, pw) \in Acc
           /\ Take(c, acc, i, pw).cost + Take(c, acc, i, pw).budget <= acc.cost + acc.budget
           /\ acc.cut => Take(c, acc, i, pw).cut
           /\ \E o \in Out : /\ Take(c, acc, i, pw).out = Append(acc.out, o)
                             /\ Fair(c, i, o, Take(c, acc, i, pw).cut)
  <1> DEFINE e == Listed(c)[i]
             dir == e.is = "dir"
             why == IF dir THEN "none" ELSE Reason(c, e, acc.budget, pw)
             fits == ~dir /\ why = "none"
             stored == fits /\ ~Shadowed(c, i)
             cut == acc.cut \/ (why = "budget" /\ c.kind # "rar")
                            \/ (why = "unreadable" /\ c.kind = "iso")
             o == [path |-> e.path, file |-> e.file, size |-> e.size, stored |-> stored,
                   reason |-> why]
             budget == acc.budget - (IF fits THEN e.size ELSE 0)
             cost == acc.cost + (IF stored THEN e.size ELSE 0)
  <1>1. Take(c, acc, i, pw) = [budget |-> budget, cost |-> cost, cut |-> cut,
                               out |-> Append(acc.out, o)]
    BY DEF Take
  <1>2. /\ e.path \in STRING /\ e.file \in Files /\ e.size \in Nat
        /\ acc.budget \in Nat /\ acc.cost \in Nat /\ acc.cut \in BOOLEAN /\ acc.out \in Seq(Out)
    BY ListedEntries DEF Acc
  <1>3. why \in Reasons /\ (fits => e.size <= MaxMemberSize /\ e.size <= acc.budget)
    <2>1. MaxMemberSize \in Nat
      BY ArchiveAssumption
    <2> QED BY <1>2, <2>1, ReasonGiven DEF Reasons
  <1>d. dir => Listed(c)[i].is = "dir"
    OBVIOUS
  <1> HIDE DEF why, e, dir
  <1>4. o \in Out
    BY <1>2, <1>3 DEF Out
  <1>5. /\ budget \in Nat /\ cost \in Nat /\ cost + budget <= acc.cost + acc.budget
        /\ stored => e.size <= MaxMemberSize
    <2>1. CASE fits /\ stored
      BY <1>2, <1>3, <2>1
    <2>2. CASE fits /\ ~stored
      BY <1>2, <1>3, <2>2
    <2>3. CASE ~fits
      BY <1>2, <2>3
    <2> QED BY <2>1, <2>2, <2>3
  <1>6. cut \in BOOLEAN /\ (acc.cut => cut)
    BY <1>2
  <1>7. Fair(c, i, o, cut)
    BY <1>5, <1>d DEF Fair
  <1>8. Append(acc.out, o) \in Seq(Out)
    BY <1>2, <1>4, AppendProperties
  <1> HIDE DEF budget, cost, cut, o
  <1> QED BY <1>1, <1>4, <1>5, <1>6, <1>7, <1>8 DEF Acc

-----------------------------------------------------------------------------
(* A listing.                                                              *)

Taken(c, budget, n, acc) ==
    /\ acc \in Acc /\ acc.cost + acc.budget <= budget
    /\ Len(acc.out) = n
    /\ \A k \in 1..n : Fair(c, k, acc.out[k], acc.cut)

LEMMA FairStays ==
    ASSUME NEW c, NEW i, NEW o, NEW cut \in BOOLEAN, NEW later \in BOOLEAN,
           Fair(c, i, o, cut), cut => later
    PROVE  Fair(c, i, o, later)
  BY DEF Fair

LEMMA UntakenTaken ==
    ASSUME NEW c, NEW budget \in Nat, NEW cut \in BOOLEAN
    PROVE  Taken(c, budget, 0, Untaken(budget, cut))
  <1>1. <<>> \in Seq(Out) /\ Len(<<>>) = 0
    BY EmptySeq
  <1>2. Untaken(budget, cut) \in Acc
    BY <1>1 DEF Untaken, Acc
  <1> QED BY <1>1, <1>2 DEF Taken, Untaken

LEMMA TakeTaken ==
    ASSUME NEW c \in Containers, NEW budget \in Nat, NEW pw,
           NEW i \in 1..Len(Listed(c)), NEW acc, Taken(c, budget, i - 1, acc)
    PROVE  Taken(c, budget, i, Take(c, acc, i, pw))
  <1> DEFINE new == Take(c, acc, i, pw)
  <1>1. acc \in Acc /\ Len(Listed(c)) \in Nat
    BY ListedEntries DEF Taken
  <1>2. /\ new \in Acc /\ new.cost + new.budget <= acc.cost + acc.budget
        /\ acc.cut => new.cut
    BY <1>1, TakeOne
  <1>3. PICK o \in Out : new.out = Append(acc.out, o) /\ Fair(c, i, o, new.cut)
    BY <1>1, TakeOne
  <1> HIDE DEF new
  <1>4. /\ Len(new.out) = i /\ new.out[i] = o
        /\ \A k \in 1..(i - 1) : new.out[k] = acc.out[k]
    <2>1. acc.out \in Seq(Out) /\ Len(acc.out) = i - 1
      BY <1>1 DEF Acc, Taken
    <2> QED BY <1>3, <2>1, AppendProperties
  <1>5. \A k \in 1..i : Fair(c, k, new.out[k], new.cut)
    <2>1. ASSUME NEW k \in 1..(i - 1) PROVE Fair(c, k, new.out[k], new.cut)
      <3>1. Fair(c, k, acc.out[k], acc.cut)
        BY DEF Taken
      <3>2. acc.cut \in BOOLEAN /\ new.cut \in BOOLEAN
        BY <1>1, <1>2 DEF Acc
      <3> QED BY <1>2, <1>4, <3>1, <3>2, FairStays
    <2> QED BY <1>3, <1>4, <2>1
  <1>6. new.cost + new.budget <= budget
    <2>1. /\ acc.cost \in Nat /\ acc.budget \in Nat /\ acc.cost + acc.budget <= budget
          /\ new.cost \in Nat /\ new.budget \in Nat
      BY <1>1, <1>2 DEF Acc, Taken
    <2> QED BY <1>2, <2>1
  <1> QED BY <1>2, <1>4, <1>5, <1>6 DEF Taken, new

(* unpack reads a listing to any member: each of its members is fair, and  *)
(* what they cost was there.                                               *)
LEMMA TakeAllTaken ==
    ASSUME NEW c \in Containers, NEW budget \in Nat, NEW pw,
           NEW n \in Nat, n <= Len(Listed(c))
    PROVE  Taken(c, budget, n, TakeAll(c, n, budget, pw))
  <1> DEFINE a == Untaken(budget, Beyond(c))
             Equations(f) == [i \in 0..n |-> IF i = 0 THEN a ELSE Take(c, f[i - 1], i, pw)]
             taken == CHOOSE f : f = Equations(f)
             step == [i \in 1..n |-> [acc \in Acc |-> Take(c, acc, i, pw)]]
  <1>1. Len(Listed(c)) \in Nat
    BY ListedEntries
  <1>2. Taken(c, budget, 0, a)
    BY UntakenTaken DEF Beyond
  <1>3. a \in Acc
    BY <1>2 DEF Taken
  <1>4. step \in StepsOn(n, Acc)
    <2>1. ASSUME NEW i \in 1..n, NEW acc \in Acc PROVE Take(c, acc, i, pw) \in Acc
      BY <1>1, TakeOne
    <2> QED BY <2>1 DEF StepsOn
  <1>5. PICK f \in [0..n -> Acc] : f[0] = a /\ \A i \in 1..n : f[i] = step[i][f[i - 1]]
    <2> HIDE DEF a, step
    <2> QED BY <1>3, <1>4, Steps
  <1>6. f = Equations(f)
    <2>1. ASSUME NEW i \in 0..n, i # 0 PROVE step[i][f[i - 1]] = Take(c, f[i - 1], i, pw)
      <3>1. i \in 1..n /\ f[i - 1] \in Acc
        BY <2>1
      <3> QED BY <3>1
    <2> HIDE DEF a, step
    <2> QED BY <1>5, <2>1
  <1>7. taken = Equations(taken)
    <2> HIDE DEF Equations
    <2> QED BY <1>6
  <1>8. TakeAll(c, n, budget, pw) = taken[n]
    BY DEF TakeAll
  <1> HIDE DEF a, taken
  <1>9. taken[0] = a /\ \A i \in 1..n : taken[i] = Take(c, taken[i - 1], i, pw)
    BY <1>7
  <1> DEFINE S == {i \in 0..n : Taken(c, budget, i, taken[i])}
  <1>10. 0 \in S
    BY <1>2, <1>9
  <1>11. ASSUME NEW i \in 0..(n - 1), i \in S PROVE i + 1 \in S
    <2>1. i + 1 \in 1..n /\ (i + 1) - 1 = i /\ i + 1 \in 0..n /\ i + 1 \in 1..Len(Listed(c))
      BY <1>1
    <2>2. taken[i + 1] = Take(c, taken[i], i + 1, pw)
      BY <1>9, <2>1
    <2> QED BY <1>11, <2>1, <2>2, TakeTaken
  <1>12. n \in S
    <2> HIDE DEF S
    <2>1. 0..n \subseteq S
      BY <1>10, <1>11, UpTo
    <2> QED BY <2>1
  <1> QED BY <1>8, <1>12

-----------------------------------------------------------------------------
(* What unpack returns.                                                    *)

Whole(c, out, cut) ==
    /\ c.fault # "damaged" => Len(out) = Len(Listed(c))
    /\ \A n \in DOMAIN out : Fair(c, n, out[n], cut)

LEMMA FirstLockedListed ==
    ASSUME NEW c \in Containers, NEW budget
    PROVE  FirstLocked(c, budget) \in 0..Len(Listed(c))
  <1> DEFINE tried == {i \in DOMAIN Listed(c) :
                         /\ Listed(c)[i].locked /\ Listed(c)[i].is # "dir"
                         /\ TakeAll(c, i, budget, "right").out[i].reason
                               \in {"none", "unreadable"}}
  <1>1. DOMAIN Listed(c) = 1..Len(Listed(c)) /\ Len(Listed(c)) \in Nat
    BY ListedEntries
  <1>2. tried \subseteq 1..Len(Listed(c)) /\ tried \subseteq Nat
    BY <1>1
  <1>3. FirstLocked(c, budget) = IF tried = {} THEN 0
                                 ELSE CHOOSE i \in tried : \A k \in tried : i <= k
    BY DEF FirstLocked
  <1> HIDE DEF tried
  <1>4. tried # {} => (CHOOSE i \in tried : \A k \in tried : i <= k) \in tried
    BY <1>2, Least
  <1>5. CASE tried = {}
    BY <1>1, <1>3, <1>5
  <1>6. CASE tried # {}
    <2>1. FirstLocked(c, budget) \in tried
      BY <1>3, <1>4, <1>6
    <2>2. FirstLocked(c, budget) \in 1..Len(Listed(c))
      BY <1>2, <2>1
    <2> QED BY <1>1, <2>2
  <1> QED BY <1>5, <1>6

LEMMA WithdrawnTaken ==
    ASSUME NEW c \in Containers, NEW budget \in Nat, NEW all,
           Taken(c, budget, Len(Listed(c)), all)
    PROVE  Taken(c, budget, Len(Listed(c)), Withdrawn(all.out, budget))
  <1> DEFINE turned(o) == [o EXCEPT !.stored = FALSE,
                                    !.reason = IF @ = "none" THEN "budget" ELSE @]
             out == [i \in DOMAIN all.out |-> turned(all.out[i])]
  <1>1. /\ all.out \in Seq(Out) /\ Len(Listed(c)) \in Nat
        /\ DOMAIN all.out = 1..Len(Listed(c))
    <2>1. all.out \in Seq(Out) /\ Len(all.out) = Len(Listed(c))
      BY DEF Taken, Acc
    <2> QED BY <2>1, ListedEntries, LenProperties
  <1>2. ASSUME NEW o \in Out
        PROVE  /\ turned(o) \in Out /\ ~turned(o).stored /\ turned(o).reason # "none"
    BY DEF Out, Reasons
  <1>3. \A i \in 1..Len(Listed(c)) : all.out[i] \in Out
    <2>1. Len(all.out) = Len(Listed(c))
      BY DEF Taken
    <2> QED BY <1>1, <2>1, ElementOfSeq
  <1>4. Withdrawn(all.out, budget) = [budget |-> budget, cost |-> 0, cut |-> TRUE, out |-> out]
    BY DEF Withdrawn
  <1> HIDE DEF turned
  <1>5. out \in [1..Len(Listed(c)) -> Out]
    BY <1>1, <1>2, <1>3
  <1>6. \A k \in 1..Len(Listed(c)) : ~out[k].stored /\ out[k].reason # "none"
    BY <1>1, <1>2, <1>3
  <1> HIDE DEF out
  <1>7. out \in Seq(Out) /\ Len(out) = Len(Listed(c))
    BY <1>1, <1>5
  <1>8. \A k \in 1..Len(Listed(c)) : Fair(c, k, out[k], TRUE)
    BY <1>6 DEF Fair
  <1> DEFINE w == [budget |-> budget, cost |-> 0, cut |-> TRUE, out |-> out]
  <1>9. w \in Acc
    BY <1>7 DEF Acc
  <1>10. w.cost + w.budget <= budget /\ w.out = out /\ w.cut = TRUE
    OBVIOUS
  <1> HIDE DEF w
  <1>11. Taken(c, budget, Len(Listed(c)), w)
    BY <1>7, <1>8, <1>9, <1>10 DEF Taken
  <1> QED BY <1>4, <1>11 DEF w

LEMMA Unpacked ==
    ASSUME NEW c \in Containers, NEW budget \in Nat, NEW pw
    PROVE  LET got == Unpack(c, budget, pw)
           IN  /\ got.how \in {"asked", "attempted", "read", "failed"}
               /\ got.out \in Seq(Out) /\ got.cut \in BOOLEAN
               /\ got.cost \in Nat /\ got.cost <= budget
               /\ got.how \notin {"asked", "attempted"} => Whole(c, got.out, got.cut)
  <1> DEFINE all == TakeAll(c, Len(Listed(c)), budget, pw)
             before == TakeAll(c, FirstLocked(c, budget) - 1, budget, pw)
             ends(how, got) == [how |-> how, out |-> got.out, cut |-> got.cut, cost |-> got.cost]
             nothing == Untaken(budget, FALSE)
             refused == Withdrawn(all.out, budget)
             Good(r) == /\ r.how \in {"asked", "attempted", "read", "failed"}
                        /\ r.out \in Seq(Out) /\ r.cut \in BOOLEAN
                        /\ r.cost \in Nat /\ r.cost <= budget
                        /\ r.how \notin {"asked", "attempted"} => Whole(c, r.out, r.cut)
  <1>1. Len(Listed(c)) \in Nat
    BY ListedEntries
  <1>2. Taken(c, budget, Len(Listed(c)), all)
    BY <1>1, TakeAllTaken
  <1>3. FirstLocked(c, budget) > 0 => Taken(c, budget, FirstLocked(c, budget) - 1, before)
    BY <1>1, FirstLockedListed, TakeAllTaken
  <1>4. Taken(c, budget, 0, nothing)
    BY UntakenTaken
  <1>5. Taken(c, budget, Len(Listed(c)), refused)
    <2> HIDE DEF all
    <2> QED BY <1>2, WithdrawnTaken
  <1>6. Unpack(c, budget, pw) \in
           {ends("asked", nothing), ends("attempted", nothing)}
           \cup {r \in {ends("read", nothing), ends("failed", nothing)} : c.fault = "damaged"}
           \cup {r \in {ends("attempted", before)} : FirstLocked(c, budget) > 0}
           \cup {ends("read", refused), ends("read", all)}
    <2> HIDE DEF all, before, nothing, refused
    <2>1. \/ Unpack(c, budget, pw) = ends("asked", nothing)
          \/ Unpack(c, budget, pw) = ends("attempted", nothing)
          \/ /\ Unpack(c, budget, pw) \in {ends("read", nothing), ends("failed", nothing)}
             /\ c.fault = "damaged"
          \/ Unpack(c, budget, pw) = ends("attempted", before) /\ FirstLocked(c, budget) > 0
          \/ Unpack(c, budget, pw) \in {ends("read", refused), ends("read", all)}
      BY DEF Unpack, all, before, nothing, refused
    <2> QED BY <2>1
  <1> HIDE DEF all, before, nothing, refused
  <1>7. ASSUME NEW got, NEW n \in Nat, Taken(c, budget, n, got), NEW how,
               how \in {"asked", "attempted", "read", "failed"},
               how \notin {"asked", "attempted"} => n = Len(Listed(c)) \/ c.fault = "damaged"
        PROVE  Good(ends(how, got))
    <2>1. /\ got.out \in Seq(Out) /\ got.cut \in BOOLEAN /\ got.cost \in Nat
          /\ got.budget \in Nat /\ got.cost + got.budget <= budget /\ Len(got.out) = n
      BY <1>7 DEF Taken, Acc
    <2>2. got.cost <= budget /\ DOMAIN got.out = 1..n
      BY <2>1, LenProperties
    <2>3. how \notin {"asked", "attempted"} => Whole(c, got.out, got.cut)
      BY <1>7, <2>1, <2>2 DEF Taken, Whole
    <2> QED BY <1>7, <2>1, <2>2, <2>3
  <1>8. /\ Good(ends("asked", nothing)) /\ Good(ends("attempted", nothing))
        /\ c.fault = "damaged" => Good(ends("read", nothing)) /\ Good(ends("failed", nothing))
        /\ FirstLocked(c, budget) > 0 => Good(ends("attempted", before))
        /\ Good(ends("read", refused)) /\ Good(ends("read", all))
    <2> HIDE DEF Good, ends
    <2>1. FirstLocked(c, budget) > 0 => FirstLocked(c, budget) - 1 \in Nat
      BY <1>1, FirstLockedListed
    <2> QED BY <1>1, <1>2, <1>3, <1>4, <1>5, <1>7, <2>1
  <1>9. Good(Unpack(c, budget, pw))
    <2> HIDE DEF Good, ends
    <2> QED BY <1>6, <1>8
  <1> QED BY <1>9

-----------------------------------------------------------------------------
(* The fetch.  A connection is opened for a public address that was looked *)
(* up before the deadline, and every one of them is paid for by a turn of  *)
(* the redirect loop of some attempt.                                      *)

Turns == MaxRedirects + 1

(* What a call may have opened connections for.                            *)
Paid(c, n) ==
    /\ c.pc = "gate" => n = 0
    /\ c.pc = "attempt" => n <= c.attempt * Turns
    /\ c.pc \in {"hop", "send"} => n <= c.attempt * Turns + c.hop
    /\ c.pc \in {"response", "store", "body"} => n <= c.attempt * Turns + c.hop + 1
    /\ c.pc = "answered" => n <= Retries * Turns
    /\ c.pc \in {"hop", "send", "response", "store", "body"} => c.attempt < Retries
    /\ c.pc \in {"send", "response", "store", "body"} => c.hop <= MaxRedirects

Call == [pc : {"gate", "attempt", "hop", "send", "response", "store", "body", "answered"},
         attempt : 0..Retries, hop : 0..Turns, address : Addresses,
         pieces : 0..(MaxPieces + 1), answer : Answers]

FetchInv ==
    /\ egress \in BOOLEAN /\ partial \in BOOLEAN /\ elapsed \in 0..Budget
    /\ call \in Call /\ opened \in Nat /\ overdue \in {0, 1}
    /\ Paid(call, opened)
    /\ contacted \subseteq (IF egress THEN {"public"} ELSE {})
    /\ call.pc \notin {"gate", "answered"} => egress
    /\ call.pc = "send" => call.address = "public"
    /\ overdue = 1 => elapsed = Budget /\ call.pc # "send"

-----------------------------------------------------------------------------
(* The runs and the rows.                                                  *)

Paths == STRING \cup {""}

Row == [file : Files, parent : Nat, path : Paths, marks : SUBSET Marks,
        status : {"queued", "awaiting_password", "completed", "failed"}]

Maps == UNION {[S -> Nat] : S \in SUBSET Paths}

Run == [job : Nat, depth : Nat, pc : {"unpack", "members"}, listing : Seq(Out),
        todo : SUBSET Nat, existing : Maps, promoted : Nat, marks : SUBSET Marks]

(* Container j has a row for its member p.                                 *)
HasRow(R, j, p) == \E k \in 1..Len(R) : R[k].parent = j /\ R[k].path = p

(* What is stored and not on the list any more has a row, unless a signal  *)
(* says that it may have none.                                             *)
Followed(R, f) ==
    f.pc = "members" /\ f.marks \cap BlindSpots = {} =>
        \A n \in Stored(f.listing) \ f.todo : HasRow(R, f.job, f.listing[n].path)

(* The member a container's run is at, and the run of which is under way.  *)
Entered(R, f) == f.todo # {} /\ HasRow(R, f.job, f.listing[Min(f.todo)].path)

(* A run is as deep as it stands in the stack, has members to do only above*)
(* the nesting limit, and has a whole listing once it is at its members.   *)
Sane(R, C, i, f) ==
    /\ f.job \in 1..Len(R) /\ f.depth = i - 1 /\ f.depth <= MaxDepth
    /\ \A p \in DOMAIN f.existing : /\ f.existing[p] \in 1..Len(R)
                                    /\ R[f.existing[p]].parent = f.job
                                    /\ R[f.existing[p]].path = p
    /\ Followed(R, f)
    /\ f.todo \subseteq DOMAIN f.listing
    /\ f.todo # {} => f.pc = "members" /\ f.depth < MaxDepth
    /\ f.pc = "members" => Whole(C[R[f.job].file], f.listing, "truncated" \in f.marks)

AllSane(R, C, S) ==
    /\ S \in Seq(Run)
    /\ \A i \in 1..Len(S) : Sane(R, C, i, S[i]) /\ (i # Len(S) => Entered(R, S[i]))

RowsInv(R) == R \in Seq(Row) /\ \A j \in 1..Len(R) : R[j].parent \in 0..(j - 1)

ArchiveInv ==
    /\ RowsInv(rows)
    /\ rows = <<>> => stack = <<>> /\ last = 0
    /\ rows # <<>> => inside \in [Files -> Content]
    /\ AllSane(rows, inside, stack)
    /\ left \in [jobs : 0..MaxTotalJobs, bytes : 0..MaxExpansion]
    /\ spent \in Nat /\ spent + left.bytes = MaxExpansion
    /\ last \in {0} \cup Jobs

IInv == FetchInv /\ ArchiveInv /\ SignalsSurface

-----------------------------------------------------------------------------
(* The fetch keeps its invariant.                                          *)

LEMMA Effort ==
    ASSUME NEW a \in Nat, a <= Retries
    PROVE  /\ a * Turns \in Nat /\ Retries * Turns \in Nat /\ a * Turns <= Retries * Turns
           /\ (a + 1) * Turns = a * Turns + Turns
           /\ a < Retries => a * Turns + Turns <= Retries * Turns
  <1>1. Turns \in Nat /\ Retries \in Nat
    BY FetchAssumption DEF Turns
  <1>2. \A x, y, w \in Nat : /\ x * w \in Nat /\ (x + 1) * w = x * w + w
                             /\ x <= y => x * w <= y * w
    OBVIOUS
  <1>3. a < Retries => (a + 1) * Turns <= Retries * Turns
    BY <1>1, <1>2
  <1> QED BY <1>1, <1>2, <1>3

LEMMA FetchConstants ==
    /\ Retries \in Nat /\ MaxRedirects \in Nat /\ Budget \in Nat /\ Timeout \in Nat
    /\ MaxPieces \in Nat
  BY FetchAssumption

LEMMA PassTyped ==
    ASSUME elapsed \in 0..Budget, Pass
    PROVE  elapsed' \in 0..Budget /\ elapsed <= elapsed'
  <1> PICK t \in 0..Timeout : elapsed' = IF elapsed + t < Budget THEN elapsed + t ELSE Budget
    BY DEF Pass
  <1> QED BY FetchConstants

(* A fetch may end, or start its chain again, wherever it is.              *)
LEMMA AnsweredPaid ==
    ASSUME NEW c \in Call, NEW n \in Nat, Paid(c, n), NEW code \in Answers
    PROVE  LET d == [c EXCEPT !.pc = "answered", !.answer = code]
           IN d \in Call /\ Paid(d, n) /\ d.pc = "answered"
  <1> DEFINE E == c.attempt * Turns
             All == Retries * Turns
             d == [c EXCEPT !.pc = "answered", !.answer = code]
  <1>1. /\ c.attempt \in Nat /\ c.attempt <= Retries /\ c.hop \in 0..Turns
        /\ c.pc \in {"gate", "attempt", "hop", "send", "response", "store", "body", "answered"}
    BY FetchConstants DEF Call
  <1>2. /\ E \in Nat /\ All \in Nat /\ E <= All
        /\ c.attempt < Retries => E + Turns <= All
    BY <1>1, Effort
  <1>3. Turns \in Nat /\ Turns = MaxRedirects + 1 /\ MaxRedirects \in Nat
    BY FetchConstants DEF Turns
  <1>4. n <= All
    <2>1. /\ c.pc = "attempt" => n <= E
          /\ c.pc \in {"hop", "send"} => n <= E + c.hop
          /\ c.pc \in {"response", "store", "body"} => n <= E + c.hop + 1
      BY DEF Paid
    <2>2. /\ c.pc = "gate" => n = 0
          /\ c.pc = "answered" => n <= All
          /\ c.pc \in {"hop", "send", "response", "store", "body"} => c.attempt < Retries
          /\ c.pc \in {"response", "store", "body"} => c.hop <= MaxRedirects
      BY DEF Paid
    <2> HIDE DEF E, All
    <2>3. CASE c.pc \in {"gate", "answered"}
      BY <1>2, <2>2, <2>3
    <2>4. CASE c.pc = "attempt"
      BY <1>2, <2>1, <2>4
    <2>5. CASE c.pc \in {"hop", "send"}
      BY <1>1, <1>2, <1>3, <2>1, <2>2, <2>5
    <2>6. CASE c.pc \in {"response", "store", "body"}
      BY <1>1, <1>2, <1>3, <2>1, <2>2, <2>6
    <2> QED BY <1>1, <2>3, <2>4, <2>5, <2>6
  <1>5. d \in Call /\ d.pc = "answered"
    BY DEF Call
  <1> HIDE DEF d
  <1> QED BY <1>4, <1>5 DEF Paid, d

LEMMA AgainPaid ==
    ASSUME NEW c \in Call, NEW n \in Nat, Paid(c, n),
           c.pc \in {"hop", "response", "store", "body"}
    PROVE  LET d == [c EXCEPT !.pc = "attempt", !.attempt = @ + 1]
           IN d \in Call /\ Paid(d, n) /\ d.pc = "attempt"
  <1> DEFINE E == c.attempt * Turns
             d == [c EXCEPT !.pc = "attempt", !.attempt = @ + 1]
  <1>1. c.attempt \in Nat /\ c.attempt < Retries /\ c.hop \in 0..Turns
    BY FetchConstants DEF Call, Paid
  <1>2. E \in Nat /\ (c.attempt + 1) * Turns = E + Turns
    BY <1>1, Effort, FetchConstants
  <1>3. Turns \in Nat /\ Turns = MaxRedirects + 1 /\ MaxRedirects \in Nat
    BY FetchConstants DEF Turns
  <1>4. n <= E + Turns
    <2>1. /\ c.pc = "hop" => n <= E + c.hop
          /\ c.pc \in {"response", "store", "body"} => n <= E + c.hop + 1 /\ c.hop <= MaxRedirects
      BY DEF Paid
    <2> HIDE DEF E
    <2> QED BY <1>1, <1>2, <1>3, <2>1
  <1>5. d \in Call /\ d.pc = "attempt" /\ d.attempt = c.attempt + 1
    <2>1. c.attempt + 1 \in 0..Retries
      BY <1>1, FetchConstants
    <2> QED BY <2>1 DEF Call
  <1> HIDE DEF d
  <1>6. n <= d.attempt * Turns
    BY <1>2, <1>4, <1>5
  <1> QED BY <1>5, <1>6 DEF Paid, d

(* The end of an attempt, by an answer or by another attempt.              *)
AttemptOver ==
    /\ UNCHANGED <<egress, contacted, opened, overdue>>
    /\ partial' \in BOOLEAN /\ elapsed' \in 0..Budget
    /\ overdue = 1 => elapsed' = Budget

LEMMA FetchAnswered ==
    ASSUME FetchInv, AttemptOver, NEW code \in Answers, call' = Answered(code)
    PROVE  FetchInv'
  <1>1. call' \in Call /\ Paid(call', opened) /\ call'.pc = "answered"
    BY AnsweredPaid DEF FetchInv, Answered
  <1> QED BY <1>1 DEF FetchInv, AttemptOver

LEMMA FetchAgain ==
    ASSUME FetchInv, AttemptOver, call' = TriedAgain,
           call.pc \in {"hop", "response", "store", "body"}
    PROVE  FetchInv'
  <1>1. call' \in Call /\ Paid(call', opened) /\ call'.pc = "attempt"
    BY AgainPaid DEF FetchInv, TriedAgain
  <1> QED BY <1>1 DEF FetchInv, AttemptOver

LEMMA FetchKept == FetchInv /\ FetchNext => FetchInv'
  <1> SUFFICES ASSUME FetchInv, FetchNext PROVE FetchInv'
    OBVIOUS
  <1> USE FetchConstants
  <1>1. CASE Gate
    <2>1. (call' = [call EXCEPT !.pc = "attempt"] /\ egress) \/ call' = Answered(403)
      BY <1>1 DEF Gate
    <2>2. UNCHANGED <<egress, partial, elapsed, contacted, opened, overdue>> /\ call.pc = "gate"
      BY <1>1 DEF Gate, History
    <2>3. ASSUME call' = Answered(403) PROVE FetchInv'
      <3>1. 403 \in Answers /\ AttemptOver
        BY <2>1, <2>2 DEF FetchInv, Answers, AttemptOver
      <3> QED BY <2>3, <3>1, FetchAnswered
    <2>4. ASSUME call' = [call EXCEPT !.pc = "attempt"], egress PROVE FetchInv'
      <3>1. call' \in Call /\ call'.pc = "attempt" /\ call'.attempt = call.attempt
        BY <2>4 DEF FetchInv, Call
      <3>2. call.attempt * Turns \in Nat
        BY Effort DEF FetchInv, Call
      <3>3. Paid(call', opened')
        BY <2>2, <3>1, <3>2 DEF FetchInv, Paid
      <3> QED BY <2>2, <2>4, <3>1, <3>3 DEF FetchInv
    <2> QED BY <2>1, <2>3, <2>4
  <1>2. CASE Attempt
    <2>1. \/ call' = Answered(502)
          \/ /\ call' = [call EXCEPT !.pc = "hop", !.hop = 0] /\ call.attempt # Retries
      BY <1>2 DEF Attempt
    <2>2. UNCHANGED <<egress, partial, elapsed, contacted, opened, overdue>>
          /\ call.pc = "attempt"
      BY <1>2 DEF Attempt, History
    <2>3. ASSUME call' = Answered(502) PROVE FetchInv'
      <3>1. 502 \in Answers /\ AttemptOver
        BY <2>1, <2>2 DEF FetchInv, Answers, AttemptOver
      <3> QED BY <2>3, <3>1, FetchAnswered
    <2>4. ASSUME call' = [call EXCEPT !.pc = "hop", !.hop = 0], call.attempt # Retries
          PROVE  FetchInv'
      <3>1. /\ call' \in Call /\ call'.pc = "hop" /\ call'.attempt = call.attempt
            /\ call'.hop = 0 /\ call.attempt < Retries
        <4>1. 0 \in 0..Turns
          BY DEF Turns
        <4>2. call \in Call
          BY DEF FetchInv
        <4>3. call.attempt < Retries
          BY <2>4, <4>2 DEF Call
        <4>4. call' \in Call /\ call'.pc = "hop" /\ call'.hop = 0 /\ call'.attempt = call.attempt
          BY <2>4, <4>1, <4>2 DEF Call
        <4> QED BY <4>3, <4>4
      <3>2. call.attempt * Turns \in Nat
        BY Effort DEF FetchInv, Call
      <3>3. Paid(call', opened')
        BY <2>2, <3>1, <3>2 DEF FetchInv, Paid
      <3> QED BY <2>2, <2>4, <3>1, <3>3 DEF FetchInv
    <2> QED BY <2>1, <2>3, <2>4
  <1>3. CASE Hop
    <2>1. /\ UNCHANGED <<egress, partial, contacted, opened, overdue>>
          /\ call.pc = "hop" /\ call.hop <= MaxRedirects /\ elapsed < Budget
          /\ elapsed' \in 0..Budget
      BY <1>3, PassTyped DEF Hop, History, FetchInv
    <2>2. overdue = 0
      BY <2>1 DEF FetchInv
    <2>3. \/ call' = Answered(422) \/ call' = TriedAgain
          \/ call' = [call EXCEPT !.pc = "send", !.address = "public"]
      <3>1. ASSUME NEW found \in SUBSET Addresses, found # {}, "inside" \notin found
            PROVE  (CHOOSE a \in found : TRUE) = "public"
        BY <3>1 DEF Addresses
      <3> QED BY <1>3, <3>1 DEF Hop, Refused
    <2>4. ASSUME call' = Answered(422) PROVE FetchInv'
      <3>1. 422 \in Answers /\ AttemptOver
        BY <2>1, <2>2 DEF FetchInv, Answers, AttemptOver
      <3> QED BY <2>4, <3>1, FetchAnswered
    <2>5. ASSUME call' = [call EXCEPT !.pc = "send", !.address = "public"] PROVE FetchInv'
      <3>1. /\ call' \in Call /\ call'.pc = "send" /\ call'.attempt = call.attempt
            /\ call'.hop = call.hop /\ call'.address = "public"
        BY <2>5 DEF FetchInv, Call, Addresses
      <3>2. Paid(call', opened')
        BY <2>1, <3>1 DEF FetchInv, Paid
      <3> QED BY <2>1, <2>2, <3>1, <3>2 DEF FetchInv
    <2>6. ASSUME call' = TriedAgain PROVE FetchInv'
      <3>1. AttemptOver
        BY <2>1, <2>2 DEF FetchInv, AttemptOver
      <3> QED BY <2>1, <2>6, <3>1, FetchAgain
    <2> QED BY <2>3, <2>4, <2>5, <2>6
  <1>4. CASE HopFails
    <2>1. /\ UNCHANGED <<egress, partial, elapsed, contacted, opened, overdue>>
          /\ call.pc = "hop" /\ call' = TriedAgain
      BY <1>4 DEF HopFails, History
    <2>2. AttemptOver
      BY <2>1 DEF FetchInv, AttemptOver
    <2> QED BY <2>1, <2>2, FetchAgain
  <1>5. CASE Send
    <2>1. /\ UNCHANGED <<egress, partial>> /\ call.pc = "send" /\ call.address = "public"
          /\ contacted' = contacted \cup {"public"} /\ opened' = opened + 1
          /\ overdue' = overdue + (IF elapsed = Budget THEN 1 ELSE 0) /\ overdue = 0
          /\ elapsed' \in 0..Budget /\ elapsed <= elapsed'
          /\ call' \in {[call EXCEPT !.pc = "response"], TriedAgain}
      BY <1>5, PassTyped DEF Send, Connect, FetchInv
    <2> DEFINE sent == [call EXCEPT !.pc = "response"]
    <2>2. /\ sent \in Call /\ sent.pc = "response" /\ sent.attempt = call.attempt
          /\ sent.hop = call.hop
          /\ TriedAgain = [sent EXCEPT !.pc = "attempt", !.attempt = @ + 1]
      BY DEF FetchInv, Call, TriedAgain
    <2>3. opened' \in Nat /\ call.attempt * Turns \in Nat /\ call.hop \in Nat
      BY <2>1, Effort DEF FetchInv, Call, Turns
    <2> HIDE DEF sent
    <2>4. Paid(sent, opened')
      <3>1. /\ opened <= call.attempt * Turns + call.hop /\ call.attempt < Retries
            /\ call.hop <= MaxRedirects
        BY <2>1 DEF FetchInv, Paid
      <3>2. opened' <= call.attempt * Turns + call.hop + 1
        BY <2>1, <2>3, <3>1 DEF FetchInv
      <3> QED BY <2>2, <3>1, <3>2 DEF Paid
    <2>5. call' \in Call /\ Paid(call', opened') /\ call'.pc \in {"response", "attempt"}
      BY <2>1, <2>2, <2>3, <2>4, AgainPaid DEF sent
    <2>6. overdue' \in {0, 1} /\ (overdue' = 1 => elapsed' = Budget)
      BY <2>1 DEF FetchInv
    <2>7. egress /\ contacted' \subseteq {"public"}
      BY <2>1 DEF FetchInv
    <2> QED BY <2>1, <2>3, <2>5, <2>6, <2>7 DEF FetchInv
  <1>6. CASE Respond
    <2>1. /\ UNCHANGED <<egress, partial, elapsed, contacted, opened, overdue>>
          /\ call.pc = "response"
          /\ call' \in {Redirect, TriedAgain, Refused(413),
                        [call EXCEPT !.pc = "store", !.pieces = 0]}
      BY <1>6 DEF Respond, History
    <2>2. ASSUME call' = TriedAgain PROVE FetchInv'
      <3>1. AttemptOver
        BY <2>1, <2>2 DEF FetchInv, AttemptOver
      <3> QED BY <2>1, <2>2, <3>1, FetchAgain
    <2>3. ASSUME call' = Refused(413) PROVE FetchInv'
      <3>1. 413 \in Answers /\ AttemptOver
        BY <2>1, <2>2 DEF FetchInv, Answers, AttemptOver
      <3> QED BY <2>3, <3>1, FetchAnswered DEF Refused
    <2>4. call.attempt * Turns \in Nat /\ call.hop \in Nat /\ call.hop <= MaxRedirects
      BY <2>1, Effort DEF FetchInv, Call, Turns, Paid
    <2>5. ASSUME call' = [call EXCEPT !.pc = "store", !.pieces = 0] PROVE FetchInv'
      <3>1. /\ call' \in Call /\ call'.pc = "store" /\ call'.attempt = call.attempt
            /\ call'.hop = call.hop
        <4>1. call \in Call /\ 0 \in 0..(MaxPieces + 1)
          BY DEF FetchInv
        <4> QED BY <2>5, <4>1 DEF Call
      <3>2. Paid(call', opened')
        BY <2>1, <2>4, <3>1 DEF FetchInv, Paid
      <3> QED BY <2>1, <3>1, <3>2 DEF FetchInv
    <2>6. ASSUME call' = Redirect PROVE FetchInv'
      <3>1. /\ call' \in Call /\ call'.pc = "hop" /\ call'.attempt = call.attempt
            /\ call'.hop = call.hop + 1
        <4>1. call.hop + 1 \in 0..Turns
          BY <2>4 DEF Turns
        <4> QED BY <2>6, <4>1 DEF FetchInv, Call, Redirect
      <3>2. Paid(call', opened')
        BY <2>1, <2>4, <3>1 DEF FetchInv, Paid
      <3> QED BY <2>1, <3>1, <3>2 DEF FetchInv
    <2> QED BY <2>1, <2>2, <2>3, <2>5, <2>6
  <1>7. CASE Store
    <2>1. /\ UNCHANGED <<egress, elapsed, contacted, opened, overdue>>
          /\ call.pc = "store" /\ partial' \in BOOLEAN
          /\ call' = TriedAgain \/ call' = [call EXCEPT !.pc = "body"]
      BY <1>7 DEF Store, History, FetchInv
    <2>2. ASSUME call' = TriedAgain PROVE FetchInv'
      <3>1. AttemptOver
        BY <2>1, <2>2 DEF FetchInv, AttemptOver
      <3> QED BY <2>1, <2>2, <3>1, FetchAgain
    <2>3. ASSUME call' = [call EXCEPT !.pc = "body"] PROVE FetchInv'
      <3>1. /\ call' \in Call /\ call'.pc = "body" /\ call'.attempt = call.attempt
            /\ call'.hop = call.hop
        BY <2>3 DEF FetchInv, Call
      <3>2. Paid(call', opened')
        BY <2>1, <3>1 DEF FetchInv, Paid
      <3> QED BY <2>1, <3>1, <3>2 DEF FetchInv
    <2> QED BY <2>1, <2>2, <2>3
  <1>8. CASE Body
    <2>1. /\ UNCHANGED <<egress, contacted, opened, overdue>>
          /\ call.pc = "body" /\ partial' \in BOOLEAN
          /\ elapsed' \in 0..Budget /\ elapsed <= elapsed'
          /\ \/ call.pieces <= MaxPieces /\ call' = [call EXCEPT !.pieces = @ + 1]
             \/ call' = TriedAgain \/ \E code \in {201, 413} : call' = Answered(code)
      BY <1>8, PassTyped DEF Body, History, FetchInv, Refused
    <2>2. overdue = 1 => elapsed' = Budget
      BY <2>1 DEF FetchInv
    <2>3. ASSUME call' = TriedAgain PROVE FetchInv'
      <3>1. AttemptOver
        BY <2>1, <2>2 DEF FetchInv, AttemptOver
      <3> QED BY <2>1, <2>3, <3>1, FetchAgain
    <2>4. ASSUME NEW code \in {201, 413}, call' = Answered(code) PROVE FetchInv'
      <3>1. code \in Answers /\ AttemptOver
        BY <2>1, <2>2 DEF FetchInv, Answers, AttemptOver
      <3> QED BY <2>4, <3>1, FetchAnswered
    <2>5. ASSUME call.pieces <= MaxPieces, call' = [call EXCEPT !.pieces = @ + 1]
          PROVE  FetchInv'
      <3>1. /\ call' \in Call /\ call'.pc = "body" /\ call'.attempt = call.attempt
            /\ call'.hop = call.hop
        BY <2>1, <2>5 DEF FetchInv, Call
      <3>2. Paid(call', opened')
        BY <2>1, <3>1 DEF FetchInv, Paid
      <3> QED BY <2>1, <2>2, <3>1, <3>2 DEF FetchInv
    <2> QED BY <2>1, <2>3, <2>4, <2>5
  <1> QED BY <1>1, <1>2, <1>3, <1>4, <1>5, <1>6, <1>7, <1>8 DEF FetchNext

-----------------------------------------------------------------------------
(* The stack of runs.                                                      *)

LEMMA SanePlace ==
    ASSUME NEW R, NEW C, NEW S, AllSane(R, C, S), S # <<>>
    PROVE  /\ Len(S) \in Nat /\ Len(S) >= 1 /\ Len(S) \in 1..Len(S) /\ DOMAIN S = 1..Len(S)
           /\ S[Len(S)] \in Run /\ Sane(R, C, Len(S), S[Len(S)])
           /\ S[1] \in Run /\ Sane(R, C, 1, S[1])
  <1>1. S \in Seq(Run) /\ \A i \in 1..Len(S) : Sane(R, C, i, S[i])
    BY DEF AllSane
  <1>2. Len(S) \in Nat \ {0} /\ DOMAIN S = 1..Len(S)
    BY <1>1, EmptySeq, LenProperties
  <1>3. Len(S) \in 1..Len(S) /\ 1 \in 1..Len(S)
    BY <1>2
  <1>4. S[Len(S)] \in Run /\ S[1] \in Run
    BY <1>1, <1>3, ElementOfSeq
  <1> QED BY <1>1, <1>2, <1>3, <1>4

LEMMA Pushed ==
    ASSUME NEW R, NEW C, NEW S, AllSane(R, C, S), NEW f \in Run, Sane(R, C, Len(S) + 1, f),
           S # <<>> => Entered(R, S[Len(S)])
    PROVE  AllSane(R, C, Append(S, f)) /\ Append(S, f) # <<>>
  <1>1. /\ S \in Seq(Run) /\ Len(S) \in Nat
        /\ \A i \in 1..Len(S) : Sane(R, C, i, S[i]) /\ Entered(R, S[i])
    <2>1. S \in Seq(Run) /\ Len(S) \in Nat
      BY LenProperties DEF AllSane
    <2>2. \A i \in 1..Len(S) : S # <<>>
      BY <2>1, EmptySeq
    <2> QED BY <2>1, <2>2 DEF AllSane
  <1> DEFINE T == Append(S, f)
  <1>2. /\ T \in Seq(Run) /\ Len(T) = Len(S) + 1 /\ T[Len(S) + 1] = f
        /\ \A i \in 1..Len(S) : T[i] = S[i]
    BY <1>1, AppendProperties
  <1> HIDE DEF T
  <1>3. ASSUME NEW i \in 1..Len(T)
        PROVE  Sane(R, C, i, T[i]) /\ (i # Len(T) => Entered(R, T[i]))
    <2>1. CASE i = Len(S) + 1
      BY <1>2, <2>1
    <2>2. CASE i \in 1..Len(S)
      BY <1>1, <1>2, <2>2
    <2> QED BY <1>1, <1>2, <2>1, <2>2
  <1>4. T # <<>>
    BY <1>1, <1>2, EmptySeq
  <1>5. AllSane(R, C, T)
    BY <1>2, <1>3 DEF AllSane
  <1> QED BY <1>4, <1>5 DEF T

LEMMA Replaced ==
    ASSUME NEW R, NEW C, NEW S, AllSane(R, C, S), NEW i \in 1..Len(S), i = Len(S),
           NEW f \in Run, Sane(R, C, i, f)
    PROVE  AllSane(R, C, [S EXCEPT ![i] = f]) /\ [S EXCEPT ![i] = f] # <<>>
  <1>1. /\ S \in Seq(Run) /\ Len(S) \in Nat
        /\ \A k \in 1..Len(S) : Sane(R, C, k, S[k]) /\ (k # Len(S) => Entered(R, S[k]))
    BY LenProperties DEF AllSane
  <1> DEFINE T == [S EXCEPT ![i] = f]
  <1>2. /\ T \in Seq(Run) /\ Len(T) = Len(S)
        /\ \A k \in 1..Len(S) : T[k] = IF k = i THEN f ELSE S[k]
    BY <1>1, ExceptSeq
  <1> HIDE DEF T
  <1>3. AllSane(R, C, T)
    BY <1>1, <1>2 DEF AllSane
  <1>4. T # <<>>
    BY <1>1, <1>2, EmptySeq
  <1> QED BY <1>3, <1>4 DEF T

(* The run of a container, one member further.                             *)
LEMMA FurtherSane ==
    ASSUME NEW R, NEW C, NEW i, NEW f \in Run, Sane(R, C, i, f), Entered(R, f)
    PROVE  Further(f) \in Run /\ Sane(R, C, i, Further(f))
  <1> DEFINE g == Further(f)
  <1>1. /\ g \in Run /\ g.todo = f.todo \ {Min(f.todo)} /\ g.job = f.job /\ g.depth = f.depth
        /\ g.pc = f.pc /\ g.listing = f.listing /\ g.existing = f.existing /\ g.marks = f.marks
    <2> DEFINE rest == f.todo \ {Min(f.todo)}
               more == f.promoted + 1
    <2>1. rest \in SUBSET Nat /\ rest \subseteq f.todo /\ more \in Nat
      BY DEF Run
    <2>2. g = [f EXCEPT !.todo = rest, !.promoted = more]
      BY DEF Further
    <2> HIDE DEF more, g
    <2>3. rest = f.todo \ {Min(f.todo)}
      OBVIOUS
    <2> HIDE DEF rest
    <2> QED BY <2>1, <2>2, <2>3 DEF Run
  <1> HIDE DEF g
  <1>2. Followed(R, g)
    <2> SUFFICES ASSUME g.pc = "members", g.marks \cap BlindSpots = {},
                        NEW n \in Stored(g.listing) \ g.todo
                 PROVE  HasRow(R, g.job, g.listing[n].path)
      BY DEF Followed
    <2>1. CASE n = Min(f.todo)
      BY <1>1, <2>1 DEF Entered
    <2>2. CASE n # Min(f.todo)
      <3>1. n \in Stored(f.listing) \ f.todo /\ Followed(R, f)
        BY <1>1, <2>2 DEF Sane
      <3> QED BY <1>1, <3>1 DEF Followed
    <2> QED BY <2>1, <2>2
  <1>3. Sane(R, C, i, g)
    <2>1. g.todo \subseteq f.todo
      BY <1>1
    <2> QED BY <1>1, <1>2, <2>1 DEF Sane
  <1> QED BY <1>1, <1>3 DEF g

LEMMA Returned ==
    ASSUME NEW R, NEW C, AllSane(R, C, stack), stack # <<>>, Return
    PROVE  /\ AllSane(R, C, stack')
           /\ stack' = <<>> => last' = Top.job
           /\ stack' # <<>> => last' = 0
  <1> DEFINE n == Len(stack)
  <1>1. /\ n \in Nat /\ n >= 1 /\ stack \in Seq(Run)
        /\ \A i \in 1..n : /\ stack[i] \in Run /\ Sane(R, C, i, stack[i])
                           /\ i # n => Entered(R, stack[i])
    BY SanePlace, ElementOfSeq DEF AllSane
  <1>2. AllSane(R, C, <<>>)
    BY EmptySeq DEF AllSane
  <1>3. CASE n = 1
    BY <1>2, <1>3 DEF Return, Top
  <1>4. CASE n > 1
    <2>1. /\ Front(stack) \in Seq(Run) /\ Len(Front(stack)) = n - 1
          /\ \A i \in 1..(n - 1) : Front(stack)[i] = stack[i]
      <3>1. \A i \in 1..(n - 1) : stack[i] \in Run
        BY <1>1
      <3> QED BY <1>1, <1>4, <3>1, SubSeqProperties DEF Front
    <2> DEFINE S == Front(stack)
    <2>2. AllSane(R, C, S)
      <3>1. \A i \in 1..(n - 1) : Sane(R, C, i, stack[i]) /\ Entered(R, stack[i])
        BY <1>1
      <3> QED BY <2>1, <3>1 DEF AllSane
    <2>3. /\ n - 1 \in 1..Len(S) /\ n - 1 = Len(S) /\ S[n - 1] \in Run
          /\ Sane(R, C, n - 1, S[n - 1]) /\ Entered(R, S[n - 1])
      <3>1. n - 1 \in 1..(n - 1) /\ n - 1 \in 1..n /\ n - 1 # n
        BY <1>1, <1>4
      <3> HIDE DEF n
      <3> QED BY <1>1, <2>1, <3>1
    <2>4. stack' = [S EXCEPT ![n - 1] = Further(S[n - 1])] /\ last' = 0
      <3>1. n # 1
        BY <1>1, <1>4
      <3> QED BY <3>1 DEF Return
    <2> HIDE DEF S
    <2>5. Further(S[n - 1]) \in Run /\ Sane(R, C, n - 1, Further(S[n - 1]))
      BY <2>3, FurtherSane
    <2>6. AllSane(R, C, stack') /\ stack' # <<>>
      BY <2>2, <2>3, <2>4, <2>5, Replaced
    <2> QED BY <2>4, <2>6
  <1>5. n = 1 \/ n > 1
    <2>1. \A m \in Nat : m >= 1 => m = 1 \/ m > 1
      OBVIOUS
    <2> HIDE DEF n
    <2> QED BY <1>1, <2>1
  <1> QED BY <1>3, <1>4, <1>5

(* More rows leave the runs as sane as they were.                          *)
Grown(R, Q) ==
    /\ Len(R) \in Nat /\ Len(Q) \in Nat /\ Len(R) <= Len(Q)
    /\ \A j \in 1..Len(R) : /\ Q[j].file = R[j].file /\ Q[j].parent = R[j].parent
                            /\ Q[j].path = R[j].path

LEMMA MoreRows ==
    ASSUME NEW R, NEW C, NEW S, AllSane(R, C, S), NEW Q, Grown(R, Q)
    PROVE  AllSane(Q, C, S)
  <1>1. Len(R) \in Nat /\ 1..Len(R) \subseteq 1..Len(Q)
    BY DEF Grown
  <1> SUFFICES ASSUME NEW i \in 1..Len(S)
               PROVE  Sane(Q, C, i, S[i]) /\ (i # Len(S) => Entered(Q, S[i]))
    BY DEF AllSane
  <1>2. Sane(R, C, i, S[i]) /\ (i # Len(S) => Entered(R, S[i]))
    BY DEF AllSane
  <1>3. S[i].job \in 1..Len(R) /\ Q[S[i].job].file = R[S[i].job].file
    BY <1>2 DEF Sane, Grown
  <1>4. ASSUME NEW j, NEW p, HasRow(R, j, p) PROVE HasRow(Q, j, p)
    <2>1. PICK k \in 1..Len(R) : R[k].parent = j /\ R[k].path = p
      BY <1>4 DEF HasRow
    <2>2. k \in 1..Len(Q) /\ Q[k].parent = j /\ Q[k].path = p
      BY <1>1, <2>1 DEF Grown
    <2> QED BY <2>2 DEF HasRow
  <1>5. Followed(Q, S[i])
    <2>1. Followed(R, S[i])
      BY <1>2 DEF Sane
    <2> QED BY <1>4, <2>1 DEF Followed
  <1>6. i # Len(S) => Entered(Q, S[i])
    BY <1>2, <1>4 DEF Entered
  <1>7. \A p \in DOMAIN S[i].existing : /\ S[i].existing[p] \in 1..Len(Q)
                                        /\ Q[S[i].existing[p]].parent = S[i].job
                                        /\ Q[S[i].existing[p]].path = p
    <2> SUFFICES ASSUME NEW p \in DOMAIN S[i].existing
                 PROVE  /\ S[i].existing[p] \in 1..Len(Q)
                        /\ Q[S[i].existing[p]].parent = S[i].job
                        /\ Q[S[i].existing[p]].path = p
      OBVIOUS
    <2>1. /\ S[i].existing[p] \in 1..Len(R)
          /\ R[S[i].existing[p]].parent = S[i].job /\ R[S[i].existing[p]].path = p
      BY <1>2 DEF Sane
    <2> QED BY <1>1, <2>1 DEF Grown
  <1>8. Sane(Q, C, i, S[i])
    BY <1>1, <1>2, <1>3, <1>5, <1>7 DEF Sane
  <1> QED BY <1>6, <1>8

(* The run that starts.                                                    *)
LEMMA NewRunSane ==
    ASSUME NEW R, NEW C, NEW j \in 1..Len(R), Len(R) \in Nat, NEW depth \in Nat,
           depth <= MaxDepth
    PROVE  NewRun(j, depth) \in Run /\ Sane(R, C, depth + 1, NewRun(j, depth))
  <1>1. <<>> \in Seq(Out) /\ <<>> \in Maps /\ DOMAIN <<>> = {}
    <2>1. <<>> \in Seq(Nat) /\ Len(<<>>) = 0
      BY EmptySeq
    <2>2. <<>> \in [1..0 -> Nat] /\ 1..0 = {}
      BY <2>1, LenProperties
    <2>3. {} \in SUBSET Paths /\ <<>> \in [{} -> Nat]
      BY <2>2
    <2> QED BY <2>3, EmptySeq DEF Maps
  <1>2. NewRun(j, depth) \in Run
    BY <1>1 DEF NewRun, Run
  <1>3. (depth + 1) - 1 = depth
    OBVIOUS
  <1> QED BY <1>1, <1>2, <1>3 DEF NewRun, Sane, Followed

-----------------------------------------------------------------------------
(* The rows.                                                               *)

LEMMA Greatest ==
    ASSUME NEW n \in Nat, NEW S \in SUBSET (1..n), S # {}
    PROVE  \E k \in S : \A i \in S : i <= k
  <1> DEFINE T == {n - k : k \in S}
  <1>1. T \subseteq Nat /\ T # {}
    <2>1. \A k \in S : n - k \in Nat
      OBVIOUS
    <2> QED BY <2>1
  <1>2. Min(T) \in T /\ \A t \in T : Min(T) <= t
    <2> HIDE DEF T
    <2> QED BY <1>1, Least
  <1>3. PICK k \in S : Min(T) = n - k
    BY <1>2
  <1>4. \A i \in S : n - i \in T /\ Min(T) <= n - i
    BY <1>2
  <1>5. ASSUME NEW i \in S PROVE i <= k
    <2>1. n - k <= n - i /\ i \in Nat /\ k \in Nat
      BY <1>3, <1>4
    <2> QED BY <2>1
  <1> QED BY <1>5

LEMMA RowsTyped ==
    ASSUME RowsInv(rows)
    PROVE  /\ Len(rows) \in Nat /\ DOMAIN rows = Jobs /\ Jobs \subseteq Nat
           /\ \A j \in Jobs : /\ rows[j] \in Row /\ rows[j].parent \in 0..(j - 1)
                              /\ rows[j].file \in Files /\ rows[j].path \in Paths
                              /\ rows[j].marks \subseteq Marks
  <1>1. Len(rows) \in Nat /\ DOMAIN rows = Jobs /\ \A j \in Jobs : rows[j] \in Row
    BY LenProperties, ElementOfSeq DEF RowsInv, Jobs
  <1> QED BY <1>1 DEF RowsInv, Jobs, Row

(* The rows that a container has are rows.                                 *)
LEMMA ExistingTyped ==
    ASSUME RowsInv(rows), NEW j
    PROVE  /\ Existing(j) \in Maps
           /\ \A p \in DOMAIN Existing(j) : /\ Existing(j)[p] \in Jobs
                                            /\ rows[Existing(j)[p]].parent = j
                                            /\ rows[Existing(j)[p]].path = p
  <1> DEFINE paths == {rows[k].path : k \in {i \in Jobs : rows[i].parent = j}}
             latest(p) == CHOOSE k \in Jobs : /\ rows[k].parent = j /\ rows[k].path = p
                              /\ \A i \in Jobs : rows[i].parent = j /\ rows[i].path = p => i <= k
  <1>1. /\ Len(rows) \in Nat /\ Jobs = 1..Len(rows) /\ Jobs \subseteq Nat
        /\ \A k \in Jobs : rows[k].path \in Paths
    BY RowsTyped DEF Jobs
  <1>2. Existing(j) = [p \in paths |-> latest(p)]
    BY DEF Existing
  <1>3. ASSUME NEW p \in paths
        PROVE  latest(p) \in Jobs /\ rows[latest(p)].parent = j /\ rows[latest(p)].path = p
    <2> DEFINE K == {k \in Jobs : rows[k].parent = j /\ rows[k].path = p}
    <2>1. K # {} /\ K \in SUBSET (1..Len(rows))
      BY <1>1
    <2>2. PICK k \in K : \A i \in K : i <= k
      <3> HIDE DEF K
      <3> QED BY <1>1, <2>1, Greatest
    <2>3. \E k2 \in Jobs : /\ rows[k2].parent = j /\ rows[k2].path = p
                           /\ \A i \in Jobs : rows[i].parent = j /\ rows[i].path = p => i <= k2
      BY <2>2
    <2> QED BY <2>3
  <1>4. paths \in SUBSET Paths
    BY <1>1
  <1> HIDE DEF paths, latest
  <1>5. [p \in paths |-> latest(p)] \in [paths -> Nat]
    BY <1>1, <1>3
  <1> QED BY <1>2, <1>3, <1>4, <1>5 DEF Maps

(* What lies below a row are rows.  The equations of Inside have a solution*)
(* (the least one), and in any solution a row's descendants are rows, since*)
(* those of its children are, which come later.                            *)
Children(parent, k) == {c \in DOMAIN parent : parent[c] = k}
Under(parent, b, k) == Children(parent, k) \cup UNION {b[c] : c \in Children(parent, k)}

LEMMA UnderGrows ==
    ASSUME NEW parent, NEW b, NEW g, NEW k,
           \A c \in DOMAIN parent : b[c] \subseteq g[c]
    PROVE  Under(parent, b, k) \subseteq Under(parent, g, k)
  BY DEF Under, Children

LEMMA InsideSolved ==
    ASSUME NEW parent
    PROVE  \E b : b = [k \in DOMAIN parent |-> Under(parent, b, k)]
  <1> DEFINE D == DOMAIN parent
             Closed == {g \in [D -> SUBSET D] : \A k \in D : Under(parent, g, k) \subseteq g[k]}
             b == [k \in D |-> {d \in D : \A g \in Closed : d \in g[k]}]
             h == [k \in D |-> Under(parent, b, k)]
  <1>1. ASSUME NEW k \in D PROVE Under(parent, b, k) \subseteq b[k]
    <2>1. Under(parent, b, k) \subseteq D
      BY DEF Under, Children
    <2>2. ASSUME NEW g \in Closed PROVE Under(parent, b, k) \subseteq g[k]
      <3>1. \A c \in D : b[c] \subseteq g[c]
        OBVIOUS
      <3>2. Under(parent, b, k) \subseteq Under(parent, g, k)
        <4> HIDE DEF b, Closed
        <4> QED BY <3>1, UnderGrows
      <3> QED BY <3>2
    <2> QED BY <2>1, <2>2
  <1>2. h \in Closed
    <2>1. \A k \in D : h[k] \subseteq D
      BY DEF Under, Children
    <2>2. \A k \in D : h[k] \subseteq b[k]
      BY <1>1
    <2>3. ASSUME NEW k \in D PROVE Under(parent, h, k) \subseteq h[k]
      <3>1. Under(parent, h, k) \subseteq Under(parent, b, k)
        <4> HIDE DEF b, h, Closed
        <4> QED BY <2>2, UnderGrows
      <3> QED BY <3>1
    <2>4. h \in [D -> SUBSET D]
      <3> HIDE DEF b, Closed
      <3> QED BY <2>1
    <2> HIDE DEF h, b
    <2> QED BY <2>3, <2>4
  <1>3. \A k \in D : b[k] \subseteq h[k]
    <2> HIDE DEF h
    <2> QED BY <1>2
  <1>4. b = h
    <2>1. \A k \in D : b[k] = h[k]
      <3>1. \A k \in D : h[k] \subseteq b[k]
        BY <1>1
      <3> HIDE DEF b, h
      <3> QED BY <1>3, <3>1
    <2>2. b = [k \in D |-> b[k]] /\ h = [k \in D |-> h[k]]
      BY Zenon
    <2> HIDE DEF b, h
    <2> QED BY <2>1, <2>2
  <1> QED BY <1>4

LEMMA InsideTyped ==
    ASSUME NEW n \in Nat, NEW parent \in [1..n -> Nat], \A k \in 1..n : parent[k] < k,
           NEW j \in 1..n
    PROVE  Inside(parent, j) \subseteq 1..n
  <1> DEFINE D == DOMAIN parent
             Equations(b) == [k \in D |-> Under(parent, b, k)]
             below == CHOOSE b : b = Equations(b)
  <1>1. below = Equations(below)
    <2>1. \E b : b = Equations(b)
      BY InsideSolved
    <2> HIDE DEF Equations
    <2> QED BY <2>1
  <1>2. Inside(parent, j) = below[j]
    BY DEF Inside, Under, Children
  <1>3. D = 1..n
    OBVIOUS
  <1> HIDE DEF below
  <1>4. \A k \in 1..n : below[k] = Under(parent, below, k)
    BY <1>1, <1>3
  <1> DEFINE S == {k \in 1..n : ~(below[k] \subseteq 1..n)}
  <1>5. S = {}
    <2> SUFFICES ASSUME S # {} PROVE FALSE
      OBVIOUS
    <2>1. PICK k \in S : \A i \in S : i <= k
      <3>1. S \in SUBSET (1..n)
        OBVIOUS
      <3> HIDE DEF S
      <3> QED BY <3>1, Greatest
    <2>2. ASSUME NEW c \in Children(parent, k) PROVE below[c] \subseteq 1..n
      <3>1. c \in 1..n /\ parent[c] = k /\ k < c
        BY DEF Children
      <3> QED BY <2>1, <3>1
    <2>3. Children(parent, k) \subseteq 1..n
      BY DEF Children
    <2>4. Under(parent, below, k) \subseteq 1..n
      BY <2>2, <2>3 DEF Under
    <2> QED BY <1>4, <2>4
  <1> QED BY <1>2, <1>5

-----------------------------------------------------------------------------
(* The steps of the archive.                                               *)

LEMMA TopSane ==
    ASSUME ArchiveInv, stack # <<>>
    PROVE  /\ rows # <<>> /\ inside \in [Files -> Content]
           /\ Top \in Run /\ Sane(rows, inside, Len(stack), Top)
           /\ Top.job \in Jobs /\ rows[Top.job] \in Row
           /\ inside[rows[Top.job].file] \in Content
           /\ Len(stack) \in Nat /\ Len(stack) >= 1 /\ Len(stack) \in 1..Len(stack)
  <1>1. /\ rows # <<>> /\ inside \in [Files -> Content] /\ RowsInv(rows)
        /\ AllSane(rows, inside, stack)
    BY DEF ArchiveInv
  <1>2. /\ Top \in Run /\ Sane(rows, inside, Len(stack), Top)
        /\ Len(stack) \in Nat /\ Len(stack) >= 1 /\ Len(stack) \in 1..Len(stack)
    BY <1>1, SanePlace DEF Top
  <1>3. Top.job \in Jobs
    BY <1>2 DEF Sane, Jobs
  <1>4. rows[Top.job] \in Row /\ rows[Top.job].file \in Files
    BY <1>1, <1>3, RowsTyped
  <1> QED BY <1>1, <1>2, <1>3, <1>4

(* A row is written again, where it is and of the same file.               *)
Rewritten(Q, j, r) ==
    /\ RowsInv(Q) /\ Len(Q) = Len(rows) /\ Q # <<>> /\ Q[j] = r
    /\ \A k \in Jobs : /\ Q[k].file = rows[k].file /\ Q[k].parent = rows[k].parent
                       /\ Q[k].path = rows[k].path
                       /\ k # j => Q[k] = rows[k]

LEMMA RowWritten ==
    ASSUME RowsInv(rows), NEW j \in Jobs, NEW r \in Row, r.file = rows[j].file,
           r.parent = rows[j].parent, r.path = rows[j].path
    PROVE  Rewritten([rows EXCEPT ![j] = r], j, r)
  <1> DEFINE Q == [rows EXCEPT ![j] = r]
  <1>1. rows \in Seq(Row) /\ j \in 1..Len(rows) /\ Len(rows) \in Nat
    BY RowsTyped DEF RowsInv, Jobs
  <1>2. /\ Q \in Seq(Row) /\ Len(Q) = Len(rows)
        /\ \A k \in 1..Len(rows) : Q[k] = IF k = j THEN r ELSE rows[k]
    BY <1>1, ExceptSeq
  <1>3. \A k \in Jobs : /\ Q[k].file = rows[k].file /\ Q[k].parent = rows[k].parent
                        /\ Q[k].path = rows[k].path
                        /\ k # j => Q[k] = rows[k]
    BY <1>2 DEF Jobs
  <1>4. RowsInv(Q)
    BY <1>2, <1>3 DEF RowsInv, Jobs
  <1>5. Q # <<>>
    BY <1>1, <1>2, EmptySeq
  <1> HIDE DEF Q
  <1>6. Rewritten(Q, j, r)
    BY <1>1, <1>2, <1>3, <1>4, <1>5 DEF Rewritten
  <1> QED BY <1>6 DEF Q

LEMMA SubmitKept ==
    ASSUME ArchiveInv, NEW f \in Uploads, Submit(f)
    PROVE  ArchiveInv' /\ SignalsSurface'
  <1> DEFINE r == NewRow(f, 0, "")
  <1>1. /\ rows = <<>> /\ rows' = <<r>> /\ stack' = <<NewRun(1, 0)>> /\ inside' \in Contents
        /\ UNCHANGED <<left, last, spent>>
    BY DEF Submit
  <1>2. last = 0 /\ inside' \in [Files -> Content] /\ f \in Files /\ MaxDepth \in Nat
    BY <1>1, ArchiveAssumption DEF ArchiveInv
  <1>3. r \in Row /\ r.parent = 0
    <2>1. "" \in Paths
      BY DEF Paths
    <2>2. {} \in SUBSET Marks /\ "queued" \in {"queued", "awaiting_password", "completed", "failed"}
      OBVIOUS
    <2> QED BY <1>2, <2>1, <2>2 DEF NewRow, Row
  <1> HIDE DEF r
  <1>4. /\ rows' \in Seq(Row) /\ Len(rows') = 1 /\ rows'[1] = r /\ rows' # <<>>
    BY <1>1, <1>3
  <1>5. RowsInv(rows')
    BY <1>3, <1>4 DEF RowsInv
  <1>6. NewRun(1, 0) \in Run /\ Sane(rows', inside', 1, NewRun(1, 0))
    <2>1. 1 \in 1..Len(rows') /\ Len(rows') \in Nat /\ 0 <= MaxDepth
      BY <1>2, <1>4
    <2>2. Sane(rows', inside', 0 + 1, NewRun(1, 0)) /\ NewRun(1, 0) \in Run
      BY <2>1, NewRunSane
    <2> QED BY <2>2
  <1>7. AllSane(rows', inside', stack') /\ stack' # <<>>
    <2>1. /\ stack' \in Seq(Run) /\ Len(stack') = 1 /\ stack'[1] = NewRun(1, 0) /\ stack' # <<>>
      BY <1>1, <1>6
    <2> QED BY <1>6, <2>1 DEF AllSane
  <1>8. ArchiveInv'
    BY <1>1, <1>2, <1>4, <1>5, <1>7 DEF ArchiveInv
  <1> QED BY <1>7, <1>8 DEF SignalsSurface

LEMMA ReanalyseKept ==
    ASSUME ArchiveInv, NEW j \in Jobs, NEW pw, Reanalyse(j, pw)
    PROVE  ArchiveInv' /\ SignalsSurface'
  <1>1. /\ stack = <<>> /\ stack' = <<NewRun(j, 0)>> /\ left' = Fresh /\ spent' = 0 /\ last' = 0
        /\ UNCHANGED <<inside, rows>>
    BY DEF Reanalyse
  <1>2. /\ {MaxDepth, MaxExpansion, MaxTotalJobs} \subseteq Nat /\ RowsInv(rows)
        /\ Len(rows) \in Nat /\ j \in 1..Len(rows) /\ rows # <<>>
    <2>1. RowsInv(rows) /\ {MaxDepth, MaxExpansion, MaxTotalJobs} \subseteq Nat
      BY ArchiveAssumption DEF ArchiveInv
    <2>2. Len(rows) \in Nat /\ j \in 1..Len(rows)
      BY <2>1, RowsTyped DEF Jobs
    <2>3. rows # <<>>
      BY <2>2, EmptySeq
    <2> QED BY <2>1, <2>2, <2>3
  <1>3. NewRun(j, 0) \in Run /\ Sane(rows, inside, 1, NewRun(j, 0))
    <2>1. 0 \in Nat /\ 0 <= MaxDepth
      BY <1>2
    <2>2. Sane(rows, inside, 0 + 1, NewRun(j, 0)) /\ NewRun(j, 0) \in Run
      BY <1>2, <2>1, NewRunSane
    <2> QED BY <2>2
  <1>4. AllSane(rows, inside, stack') /\ stack' # <<>>
    <2>1. /\ stack' \in Seq(Run) /\ Len(stack') = 1 /\ stack'[1] = NewRun(j, 0) /\ stack' # <<>>
      BY <1>1, <1>3
    <2> QED BY <1>3, <2>1 DEF AllSane
  <1>5. left' \in [jobs : 0..MaxTotalJobs, bytes : 0..MaxExpansion]
        /\ spent' + left'.bytes = MaxExpansion /\ spent' \in Nat
    BY <1>1, <1>2 DEF Fresh
  <1>6. ArchiveInv'
    BY <1>1, <1>2, <1>4, <1>5 DEF ArchiveInv
  <1> QED BY <1>4, <1>6 DEF SignalsSurface

(* A run ends, and the row it was for is written.                          *)
LEMMA RunEnded ==
    ASSUME ArchiveInv, stack # <<>>, NEW r \in Row, r.file = rows[Top.job].file,
           r.parent = rows[Top.job].parent, r.path = rows[Top.job].path,
           rows' = [rows EXCEPT ![Top.job] = r], Return,
           inside' = inside, left' \in [jobs : 0..MaxTotalJobs, bytes : 0..MaxExpansion],
           spent' \in Nat, spent' + left'.bytes = MaxExpansion
    PROVE  /\ ArchiveInv'
           /\ stack' = <<>> => last' = Top.job
  <1>1. /\ rows # <<>> /\ inside' \in [Files -> Content] /\ RowsInv(rows) /\ Top.job \in Jobs
        /\ AllSane(rows, inside, stack)
    BY TopSane DEF ArchiveInv
  <1>2. /\ RowsInv(rows') /\ Len(rows') = Len(rows) /\ rows' # <<>>
        /\ \A k \in Jobs : /\ rows'[k].file = rows[k].file /\ rows'[k].parent = rows[k].parent
                           /\ rows'[k].path = rows[k].path
    <2>1. Rewritten([rows EXCEPT ![Top.job] = r], Top.job, r)
      BY <1>1, RowWritten
    <2> QED BY <2>1 DEF Rewritten
  <1>3. /\ AllSane(rows, inside, stack')
        /\ stack' = <<>> => last' = Top.job
        /\ stack' # <<>> => last' = 0
    BY <1>1, Returned
  <1>4. AllSane(rows', inside', stack')
    <2>1. Grown(rows, rows')
      BY <1>1, <1>2, RowsTyped DEF Jobs, Grown
    <2> QED BY <1>1, <1>3, <2>1, MoreRows
  <1>5. last' \in {0} \cup Jobs'
    BY <1>1, <1>2, <1>3 DEF Jobs
  <1> QED BY <1>1, <1>2, <1>3, <1>4, <1>5 DEF ArchiveInv

LEMMA RaiseKept ==
    ASSUME ArchiveInv, Raise
    PROVE  ArchiveInv' /\ SignalsSurface'
  <1> DEFINE r == [rows[Top.job] EXCEPT !.status = "failed"]
  <1>1. /\ stack # <<>> /\ rows' = [rows EXCEPT ![Top.job] = r] /\ Return
        /\ UNCHANGED <<inside, left, spent>>
    BY DEF Raise
  <1>2. rows[Top.job] \in Row /\ Top.job \in Jobs
    BY <1>1, TopSane
  <1>3. /\ r \in Row /\ r.file = rows[Top.job].file /\ r.parent = rows[Top.job].parent
        /\ r.path = rows[Top.job].path /\ r.status = "failed"
    BY <1>2 DEF Row
  <1> HIDE DEF r
  <1>4. /\ left' \in [jobs : 0..MaxTotalJobs, bytes : 0..MaxExpansion]
        /\ spent' \in Nat /\ spent' + left'.bytes = MaxExpansion /\ inside' = inside
        /\ RowsInv(rows)
    BY <1>1 DEF ArchiveInv
  <1>5. ArchiveInv' /\ (stack' = <<>> => last' = Top.job)
    BY <1>1, <1>3, <1>4, RunEnded
  <1>6. rows'[Top.job] = r
    <2>1. Rewritten([rows EXCEPT ![Top.job] = r], Top.job, r)
      BY <1>2, <1>3, <1>4, RowWritten
    <2> QED BY <1>1, <2>1 DEF Rewritten
  <1> QED BY <1>3, <1>5, <1>6 DEF SignalsSurface

LEMMA LeaveKept ==
    ASSUME ArchiveInv, Leave
    PROVE  ArchiveInv' /\ SignalsSurface'
  <1> DEFINE mark == IF Top.promoted >= MaxChildJobs THEN "members_not_analysed"
                     ELSE "budget_exhausted"
             f == [Top EXCEPT !.todo = {}, !.marks = @ \cup {mark}]
  <1>1. /\ stack # <<>> /\ stack' = [stack EXCEPT ![Len(stack)] = f]
        /\ UNCHANGED <<inside, rows, left, last, spent>>
    BY DEF Leave, WithTop
  <1>2. /\ Top \in Run /\ Sane(rows, inside, Len(stack), Top) /\ Len(stack) \in 1..Len(stack)
        /\ AllSane(rows, inside, stack)
    BY <1>1, TopSane DEF ArchiveInv
  <1>3. mark \in Marks /\ mark \in BlindSpots /\ mark # "truncated"
    BY DEF Marks, BlindSpots
  <1> HIDE DEF mark
  <1>4. /\ f \in Run /\ f.job = Top.job /\ f.depth = Top.depth /\ f.pc = Top.pc /\ f.todo = {}
        /\ f.listing = Top.listing /\ f.existing = Top.existing /\ f.marks = Top.marks \cup {mark}
    <2> DEFINE all == Top.marks \cup {mark}
    <2>1. all \in SUBSET Marks /\ {} \in SUBSET Nat
      BY <1>2, <1>3 DEF Run
    <2> HIDE DEF all
    <2>2. /\ f \in Run /\ f.job = Top.job /\ f.depth = Top.depth /\ f.pc = Top.pc /\ f.todo = {}
          /\ f.listing = Top.listing /\ f.existing = Top.existing /\ f.marks = all
      BY <1>2, <2>1 DEF Run, all
    <2> QED BY <2>2 DEF all
  <1> HIDE DEF f
  <1>5. "truncated" \in f.marks <=> "truncated" \in Top.marks
    BY <1>3, <1>4
  <1>6. Sane(rows, inside, Len(stack), f)
    <2>2. mark \in f.marks \cap BlindSpots
      BY <1>3, <1>4
    <2>3. Followed(rows, f)
      BY <2>2 DEF Followed
    <2>1. f.pc = "members" => Whole(inside[rows[f.job].file], f.listing, "truncated" \in f.marks)
      <3>1. ("truncated" \in f.marks) = ("truncated" \in Top.marks)
        BY <1>5
      <3> QED BY <1>2, <1>4, <3>1 DEF Sane
    <2> QED BY <1>2, <1>4, <2>1, <2>3 DEF Sane
  <1>7. AllSane(rows, inside, stack') /\ stack' # <<>>
    <2> DEFINE S == [stack EXCEPT ![Len(stack)] = f]
    <2>1. AllSane(rows, inside, S) /\ S # <<>>
      BY <1>2, <1>4, <1>6, Replaced
    <2> QED BY <1>1, <2>1
  <1>8. ArchiveInv'
    BY <1>1, <1>7 DEF ArchiveInv, Jobs
  <1> QED BY <1>7, <1>8 DEF SignalsSurface

(* What lies below a row depends on the rows' parents alone.               *)
LEMMA BelowKept ==
    ASSUME RowsInv(rows), NEW n \in Jobs, Len(rows') = Len(rows),
           \A k \in Jobs : rows'[k].parent = rows[k].parent
    PROVE  Below(n)' = Below(n) /\ Below(n) \subseteq Jobs
  <1> DEFINE parents == [k \in Jobs |-> rows[k].parent]
  <1>1. [k \in Jobs' |-> rows'[k].parent] = parents
    BY DEF Jobs
  <1>2. /\ Len(rows) \in Nat /\ Jobs = 1..Len(rows)
        /\ \A k \in Jobs : rows[k].parent \in Nat /\ rows[k].parent < k
    BY RowsTyped DEF Jobs
  <1>3. Inside(parents, n) \subseteq 1..Len(rows)
    <2>1. parents \in [1..Len(rows) -> Nat] /\ \A k \in 1..Len(rows) : parents[k] < k
      BY <1>2
    <2> HIDE DEF parents
    <2> QED BY <1>2, <2>1, InsideTyped
  <1>4. Below(n) = Inside(parents, n)
    BY DEF Below
  <1>5. Below(n)' = Inside([k \in Jobs' |-> rows'[k].parent], n)
    BY DEF Below
  <1> HIDE DEF parents
  <1> QED BY <1>1, <1>2, <1>3, <1>4, <1>5

LEMMA RateKept ==
    ASSUME ArchiveInv, Rate
    PROVE  ArchiveInv' /\ SignalsSurface'
  <1>0. PICK j : j = Top.job
    OBVIOUS
  <1> DEFINE seen == IF /\ \E k \in Below(j) : Blind(k)
                        /\ Top.marks \cap BlindSpots = {}
                     THEN {"contents_not_examined"} ELSE {}
             r == [rows[j] EXCEPT !.status = "completed", !.marks = Top.marks \cup seen]
  <1>1. /\ stack # <<>> /\ rows' = [rows EXCEPT ![j] = r] /\ Return
        /\ UNCHANGED <<inside, left, spent>>
    BY <1>0 DEF Rate, Descendants
  <1>2. rows[j] \in Row /\ j \in Jobs /\ Top.marks \subseteq Marks
    BY <1>0, <1>1, TopSane DEF Run
  <1>3. seen \subseteq Marks
    BY DEF Marks
  <1>4. (\E k \in Below(j) : Blind(k)) =>
            (Top.marks \cup seen) \cap (BlindSpots \cup {"contents_not_examined"}) # {}
    OBVIOUS
  <1> HIDE DEF seen
  <1>5. /\ r \in Row /\ r.file = rows[j].file /\ r.parent = rows[j].parent
        /\ r.path = rows[j].path /\ r.marks = Top.marks \cup seen
    <2> DEFINE all == Top.marks \cup seen
    <2>1. all \in SUBSET Marks
      BY <1>2, <1>3
    <2> HIDE DEF all
    <2>2. /\ r \in Row /\ r.file = rows[j].file /\ r.parent = rows[j].parent
          /\ r.path = rows[j].path /\ r.marks = all
      BY <1>2, <2>1 DEF Row, all
    <2> QED BY <2>2 DEF all
  <1> HIDE DEF r
  <1>6. /\ left' \in [jobs : 0..MaxTotalJobs, bytes : 0..MaxExpansion]
        /\ spent' \in Nat /\ spent' + left'.bytes = MaxExpansion /\ inside' = inside
        /\ RowsInv(rows)
    BY <1>1 DEF ArchiveInv
  <1>7. ArchiveInv' /\ (stack' = <<>> => last' = j)
    BY <1>0, <1>1, <1>5, <1>6, RunEnded
  <1>8. /\ Len(rows') = Len(rows) /\ rows'[j].marks = Top.marks \cup seen
        /\ \A k \in Jobs : /\ rows'[k].parent = rows[k].parent
                           /\ k # j => rows'[k] = rows[k]
    <2>1. Rewritten([rows EXCEPT ![j] = r], j, r)
      BY <1>2, <1>5, <1>6, RowWritten
    <2> QED BY <1>1, <1>5, <2>1 DEF Rewritten
  <1>9. Below(j)' = Below(j) /\ Below(j) \subseteq Jobs
    BY <1>2, <1>6, <1>8, BelowKept
  <1>10. (\E k \in Below(j)' : Blind(k)') =>
            rows'[j].marks \cap (BlindSpots \cup {"contents_not_examined"}) # {}
    <2> SUFFICES ASSUME NEW k \in Below(j), Blind(k)'
                 PROVE  rows'[j].marks \cap (BlindSpots \cup {"contents_not_examined"}) # {}
      BY <1>9
    <2>1. CASE k = j
      BY <2>1 DEF Blind
    <2>2. CASE k # j
      <3>1. Blind(k)
        BY <1>8, <1>9, <2>2 DEF Blind
      <3> QED BY <1>4, <1>8, <3>1
    <2> QED BY <2>1, <2>2
  <1>11. SignalsSurface'
    <2> SUFFICES ASSUME stack' = <<>>
                 PROVE  (\E k \in Below(last)' : Blind(k)') =>
                           rows'[last'].marks \cap (BlindSpots \cup {"contents_not_examined"}) # {}
      BY DEF SignalsSurface
    <2>1. last' = j
      BY <1>7
    <2>2. Below(last)' = Below(j)'
      BY <2>1 DEF Below
    <2> QED BY <1>10, <2>1, <2>2
  <1> QED BY <1>7, <1>11

LEMMA PromoteKept ==
    ASSUME ArchiveInv, Promote
    PROVE  ArchiveInv' /\ SignalsSurface'
  <1> DEFINE m == Top.listing[Min(Top.todo)]
             known == m.path \in DOMAIN Top.existing
             child == IF known THEN Top.existing[m.path] ELSE Len(rows) + 1
             r == NewRow(m.file, Top.job, m.path)
             n == Len(stack)
             f == NewRun(child, Top.depth + 1)
  <1>1. /\ stack # <<>> /\ Top.todo # {} /\ left.jobs > 0
        /\ rows' = (IF known THEN rows ELSE Append(rows, r))
        /\ stack' = Append(stack, f) /\ left' = [left EXCEPT !.jobs = @ - 1]
        /\ UNCHANGED <<inside, last, spent>>
    BY DEF Promote
  <1>2. /\ rows # <<>> /\ inside \in [Files -> Content] /\ Top \in Run /\ Top.job \in Jobs
        /\ Sane(rows, inside, n, Top) /\ n \in Nat /\ n >= 1
        /\ RowsInv(rows) /\ AllSane(rows, inside, stack)
        /\ left \in [jobs : 0..MaxTotalJobs, bytes : 0..MaxExpansion]
        /\ spent \in Nat /\ spent + left.bytes = MaxExpansion /\ last \in {0} \cup Jobs
    BY <1>1, TopSane DEF ArchiveInv
  <1>3. m \in Out
    <2>1. Top.listing \in Seq(Out) /\ Top.todo \in SUBSET Nat
      BY <1>2 DEF Run
    <2>2. Min(Top.todo) \in DOMAIN Top.listing
      BY <1>1, <1>2, <2>1, Least DEF Sane
    <2> QED BY <2>1, <2>2, LenProperties, ElementOfSeq
  <1>4. m.file \in Files /\ m.path \in STRING
    BY <1>3 DEF Out
  <1>5. Len(rows) \in Nat /\ Top.job \in 1..Len(rows) /\ rows \in Seq(Row)
        /\ \A k \in 1..Len(rows) : rows[k].parent \in 0..(k - 1)
    BY <1>2, RowsTyped DEF Jobs, RowsInv
  <1>6. r \in Row /\ r.parent = Top.job /\ r.path = m.path
    <2>1. m.path \in Paths /\ Top.job \in Nat
      <3>1. Top.job \in Nat
        BY <1>5
      <3> HIDE DEF m
      <3> QED BY <1>4, <3>1, Zenon DEF Paths
    <2>2. {} \in SUBSET Marks /\ "queued" \in {"queued", "awaiting_password", "completed", "failed"}
      OBVIOUS
    <2> HIDE DEF m
    <2> QED BY <1>4, <2>1, <2>2 DEF NewRow, Row
  <1>7. /\ RowsInv(rows') /\ Len(rows') \in Nat /\ Len(rows) <= Len(rows') /\ rows' # <<>>
        /\ \A k \in 1..Len(rows) : rows'[k] = rows[k]
        /\ child \in 1..Len(rows')
        /\ rows'[child].parent = Top.job /\ rows'[child].path = m.path
    <2>1. CASE known
      <3>1. rows' = rows /\ child = Top.existing[m.path]
        BY <1>1, <2>1
      <3>2. /\ child \in 1..Len(rows) /\ rows[child].parent = Top.job
            /\ rows[child].path = m.path
        BY <1>2, <2>1, <3>1 DEF Sane
      <3> HIDE DEF child, m
      <3> QED BY <1>2, <1>5, <3>1, <3>2
    <2>2. CASE ~known
      <3> HIDE DEF r, m
      <3>1. rows' = Append(rows, r) /\ child = Len(rows) + 1
        BY <1>1, <2>2
      <3>2. /\ rows' \in Seq(Row) /\ Len(rows') = Len(rows) + 1 /\ rows'[Len(rows) + 1] = r
            /\ \A k \in 1..Len(rows) : rows'[k] = rows[k]
        BY <1>5, <1>6, <3>1, AppendProperties
      <3>3. ASSUME NEW k \in 1..Len(rows') PROVE rows'[k].parent \in 0..(k - 1)
        <4>1. CASE k = Len(rows) + 1
          BY <1>5, <1>6, <3>2, <4>1
        <4>2. CASE k \in 1..Len(rows)
          BY <1>5, <3>2, <4>2
        <4> QED BY <1>5, <3>2, <4>1, <4>2
      <3>4. rows' # <<>>
        BY <1>5, <3>2, EmptySeq
      <3>5. RowsInv(rows')
        BY <3>2, <3>3 DEF RowsInv
      <3> HIDE DEF child, known
      <3> QED BY <1>5, <1>6, <3>1, <3>2, <3>4, <3>5
    <2> QED BY <2>1, <2>2
  <1>8. Top.depth = n - 1 /\ Top.depth < MaxDepth /\ MaxDepth \in Nat
    BY <1>1, <1>2, ArchiveAssumption DEF Sane
  <1> HIDE DEF child, r, m, n
  <1>9. f \in Run /\ Sane(rows', inside, n + 1, f)
    <2>1. Top.depth + 1 \in Nat /\ Top.depth + 1 <= MaxDepth /\ (Top.depth + 1) + 1 = n + 1
      BY <1>2, <1>8
    <2>2. NewRun(child, Top.depth + 1) \in Run
          /\ Sane(rows', inside, (Top.depth + 1) + 1, NewRun(child, Top.depth + 1))
      BY <1>7, <2>1, NewRunSane
    <2> QED BY <2>1, <2>2
  <1>10. AllSane(rows', inside, stack)
    <2>1. Grown(rows, rows')
      BY <1>5, <1>7 DEF Grown
    <2> QED BY <1>2, <2>1, MoreRows
  <1>e. Entered(rows', stack[Len(stack)])
    <2>1. Top = stack[Len(stack)] /\ m = Top.listing[Min(Top.todo)]
      BY DEF Top, m
    <2> QED BY <1>1, <1>7, <2>1 DEF Entered, HasRow
  <1> HIDE DEF f
  <1>11. AllSane(rows', inside, stack') /\ stack' # <<>>
    <2>1. AllSane(rows', inside, Append(stack, f)) /\ Append(stack, f) # <<>>
      BY <1>9, <1>10, <1>e, Pushed DEF n
    <2> QED BY <1>1, <2>1
  <1>12. left' \in [jobs : 0..MaxTotalJobs, bytes : 0..MaxExpansion] /\ left'.bytes = left.bytes
    <2>1. MaxTotalJobs \in Nat /\ left.jobs - 1 \in 0..MaxTotalJobs
      BY <1>1, <1>2, ArchiveAssumption
    <2> QED BY <1>1, <1>2, <2>1
  <1>13. last' \in {0} \cup Jobs'
    BY <1>1, <1>2, <1>5, <1>7 DEF Jobs
  <1>14. ArchiveInv'
    BY <1>1, <1>2, <1>7, <1>11, <1>12, <1>13 DEF ArchiveInv
  <1> QED BY <1>11, <1>14 DEF SignalsSurface

LEMMA OpenKept ==
    ASSUME ArchiveInv, Open
    PROVE  ArchiveInv' /\ SignalsSurface'
  <1> DEFINE c == inside[rows[Top.job].file]
             got == Unpack(c, left.bytes, Password)
             deep == Top.depth >= MaxDepth
             n == Len(stack)
             r == [rows[Top.job] EXCEPT !.status = "awaiting_password"]
             marks == (IF got.how = "failed" THEN {"not_inspected"} ELSE {})
                      \cup (IF got.cut THEN {"truncated"} ELSE {})
                      \cup (IF deep /\ got.how = "read" THEN {"nesting_limit"} ELSE {})
             todo == IF deep THEN {} ELSE Stored(got.out)
             existing == Existing(Top.job)
             f == [Top EXCEPT !.pc = "members", !.listing = got.out, !.todo = todo,
                              !.existing = existing, !.marks = marks]
  <1>1. /\ stack # <<>> /\ c.kind # "plain" /\ inside' = inside
        /\ left' = [left EXCEPT !.bytes = left.bytes - got.cost] /\ spent' = spent + got.cost
        /\ \/ /\ got.how \in {"asked", "attempted"}
              /\ rows' = [rows EXCEPT ![Top.job] = r] /\ Return
           \/ /\ got.how \notin {"asked", "attempted"}
              /\ stack' = [stack EXCEPT ![n] = f] /\ UNCHANGED <<rows, last>>
    BY DEF Open, Purse, WithTop
  <1>2. /\ rows # <<>> /\ inside \in [Files -> Content] /\ Top \in Run /\ Top.job \in Jobs
        /\ Sane(rows, inside, n, Top) /\ n \in 1..n /\ n \in Nat /\ n >= 1
        /\ RowsInv(rows) /\ AllSane(rows, inside, stack) /\ rows[Top.job] \in Row
        /\ left \in [jobs : 0..MaxTotalJobs, bytes : 0..MaxExpansion]
        /\ spent \in Nat /\ spent + left.bytes = MaxExpansion /\ last \in {0} \cup Jobs
        /\ c \in Containers
    BY <1>1, TopSane DEF ArchiveInv, Containers
  <1>3. MaxExpansion \in Nat /\ MaxDepth \in Nat /\ left.bytes \in 0..MaxExpansion
        /\ left.bytes \in Nat
    BY <1>2, ArchiveAssumption
  <1> HIDE DEF c
  <1>4. /\ got.how \in {"asked", "attempted", "read", "failed"}
        /\ got.out \in Seq(Out) /\ got.cut \in BOOLEAN /\ got.cost \in Nat
        /\ got.cost <= left.bytes
        /\ got.how \notin {"asked", "attempted"} => Whole(c, got.out, got.cut)
    BY <1>2, <1>3, Unpacked
  <1> HIDE DEF got
  <1>5. /\ left' \in [jobs : 0..MaxTotalJobs, bytes : 0..MaxExpansion]
        /\ spent' \in Nat /\ spent' + left'.bytes = MaxExpansion
    <2>1. /\ left.bytes - got.cost \in 0..MaxExpansion
          /\ (spent + got.cost) + (left.bytes - got.cost) = MaxExpansion
          /\ spent + got.cost \in Nat
      BY <1>2, <1>3, <1>4
    <2> DEFINE rest == left.bytes - got.cost
    <2> HIDE DEF rest
    <2>2. left' = [left EXCEPT !.bytes = rest] /\ rest \in 0..MaxExpansion
      BY <1>1, <2>1 DEF rest
    <2>3. left' \in [jobs : 0..MaxTotalJobs, bytes : 0..MaxExpansion] /\ left'.bytes = rest
      BY <1>2, <2>2
    <2> QED BY <1>1, <2>1, <2>3 DEF rest
  <1>6. CASE got.how \in {"asked", "attempted"}
    <2>1. rows' = [rows EXCEPT ![Top.job] = r] /\ Return
      BY <1>1, <1>6
    <2>2. /\ r \in Row /\ r.file = rows[Top.job].file /\ r.parent = rows[Top.job].parent
          /\ r.path = rows[Top.job].path /\ r.status = "awaiting_password"
      BY <1>2 DEF Row
    <2> HIDE DEF r
    <2>3. ArchiveInv' /\ (stack' = <<>> => last' = Top.job)
      BY <1>1, <1>5, <2>1, <2>2, RunEnded
    <2>4. rows'[Top.job] = r
      <3>1. Rewritten([rows EXCEPT ![Top.job] = r], Top.job, r)
        BY <1>2, <2>2, RowWritten
      <3> QED BY <2>1, <3>1 DEF Rewritten
    <2> QED BY <2>2, <2>3, <2>4 DEF SignalsSurface
  <1>7. CASE got.how \notin {"asked", "attempted"}
    <2>1. stack' = [stack EXCEPT ![n] = f] /\ UNCHANGED <<rows, last>>
      BY <1>1, <1>7
    <2>2. marks \in SUBSET Marks /\ ("truncated" \in marks) = got.cut
      BY <1>4 DEF Marks, BlindSpots
    <2>3. /\ todo \subseteq DOMAIN got.out /\ todo \in SUBSET Nat
          /\ todo # {} => Top.depth < MaxDepth
      <3>1. DOMAIN got.out \subseteq Nat
        BY <1>4, LenProperties
      <3>2. Top.depth \in Nat
        BY <1>2 DEF Run
      <3> QED BY <1>3, <3>1, <3>2 DEF Stored
    <2>f. /\ todo = Stored(got.out)
          \/ "nesting_limit" \in marks \/ "not_inspected" \in marks
      BY <1>4, <1>7
    <2>4. /\ existing \in Maps
          /\ \A p \in DOMAIN existing : /\ existing[p] \in 1..Len(rows)
                                        /\ rows[existing[p]].parent = Top.job
                                        /\ rows[existing[p]].path = p
      BY <1>2, ExistingTyped DEF Jobs
    <2> HIDE DEF marks, todo, existing
    <2>5. /\ f \in Run /\ f.job = Top.job /\ f.depth = Top.depth /\ f.pc = "members"
          /\ f.listing = got.out /\ f.todo = todo /\ f.existing = existing /\ f.marks = marks
      BY <1>2, <1>4, <2>2, <2>3, <2>4 DEF Run
    <2> HIDE DEF f
    <2>6. Whole(inside[rows[f.job].file], f.listing, "truncated" \in f.marks)
      BY <1>4, <1>7, <2>2, <2>5 DEF c
    <2>g. Followed(rows, f)
      BY <2>5, <2>f DEF Followed, BlindSpots
    <2>7. Sane(rows, inside, n, f)
      BY <1>2, <2>3, <2>4, <2>5, <2>6, <2>g DEF Sane
    <2>8. AllSane(rows, inside, stack') /\ stack' # <<>>
      <3>1. AllSane(rows, inside, [stack EXCEPT ![n] = f]) /\ [stack EXCEPT ![n] = f] # <<>>
        BY <1>2, <2>5, <2>7, Replaced
      <3> QED BY <2>1, <3>1
    <2>9. ArchiveInv'
      BY <1>1, <1>2, <1>5, <2>1, <2>8 DEF ArchiveInv, Jobs
    <2> QED BY <2>8, <2>9 DEF SignalsSurface
  <1> QED BY <1>6, <1>7

-----------------------------------------------------------------------------
(* The submission.                                                         *)

LEMMA InitIInv == Init => IInv
  <1> SUFFICES ASSUME Init PROVE IInv
    OBVIOUS
  <1>1. FetchInit /\ ArchiveInit
    BY DEF Init
  <1>2. FetchInv
    <2>1. /\ 0 \in 0..Budget /\ 0 \in 0..Retries /\ 0 \in 0..Turns /\ 0 \in 0..(MaxPieces + 1)
          /\ "public" \in Addresses /\ 0 \in Answers
      BY FetchConstants DEF Turns, Addresses, Answers
    <2>2. NewCall \in Call /\ NewCall.pc = "gate"
      BY <2>1 DEF NewCall, Call
    <2>3. call = NewCall /\ opened = 0 /\ overdue = 0 /\ contacted = {} /\ elapsed = 0
          /\ egress \in BOOLEAN /\ partial = FALSE
      BY <1>1 DEF FetchInit
    <2>4. Paid(call, 0)
      BY <2>2, <2>3 DEF Paid
    <2>5. partial \in BOOLEAN /\ call \in Call /\ call.pc = "gate" /\ opened \in Nat
      BY <2>2, <2>3
    <2>6. Paid(call, opened)
      BY <2>3, <2>4
    <2>7. elapsed \in 0..Budget /\ overdue \in {0, 1} /\ overdue # 1
          /\ contacted \subseteq (IF egress THEN {"public"} ELSE {})
      BY <2>1, <2>3
    <2> QED BY <2>3, <2>5, <2>6, <2>7 DEF FetchInv
  <1>3. ArchiveInv
    <2>1. rows = <<>> /\ stack = <<>> /\ left = Fresh /\ last = 0 /\ spent = 0
      BY <1>1 DEF ArchiveInit
    <2>2. RowsInv(rows) /\ AllSane(rows, inside, stack)
      BY <2>1, EmptySeq DEF RowsInv, AllSane
    <2>3. /\ left \in [jobs : 0..MaxTotalJobs, bytes : 0..MaxExpansion]
          /\ spent + left.bytes = MaxExpansion
      BY <2>1, ArchiveAssumption DEF Fresh
    <2> QED BY <2>1, <2>2, <2>3 DEF ArchiveInv
  <1>4. SignalsSurface
    BY <1>1 DEF ArchiveInit, SignalsSurface
  <1> QED BY <1>2, <1>3, <1>4 DEF IInv

LEMMA FetchUntouched == FetchInv /\ UNCHANGED fetchVars => FetchInv'
  BY DEF FetchInv, fetchVars

LEMMA ArchiveUntouched ==
    ArchiveInv /\ SignalsSurface /\ UNCHANGED archiveVars => ArchiveInv' /\ SignalsSurface'
  <1> SUFFICES ASSUME ArchiveInv, SignalsSurface, UNCHANGED archiveVars
               PROVE  ArchiveInv' /\ SignalsSurface'
    OBVIOUS
  <1>1. UNCHANGED <<inside, rows, stack, left, last, spent>>
    BY DEF archiveVars
  <1>2. ArchiveInv'
    BY <1>1 DEF ArchiveInv, Jobs
  <1>3. SignalsSurface'
    BY <1>1 DEF SignalsSurface, Below, Blind, Jobs
  <1> QED BY <1>2, <1>3

LEMMA IInvKept == IInv /\ [Next]_vars => IInv'
  <1> SUFFICES ASSUME IInv, [Next]_vars PROVE IInv'
    OBVIOUS
  <1>0. FetchInv /\ ArchiveInv /\ SignalsSurface
    BY DEF IInv
  <1>1. CASE FetchNext /\ UNCHANGED archiveVars
    BY <1>0, <1>1, FetchKept, ArchiveUntouched DEF IInv
  <1>2. CASE Upload
    <2>1. PICK f \in Uploads : Submit(f)
      BY <1>2 DEF Upload
    <2>2. ArchiveInv' /\ SignalsSurface'
      BY <1>0, <2>1, SubmitKept
    <2>3. AttemptOver /\ 201 \in Answers /\ call' = Answered(201)
      BY <1>0, <1>2 DEF Upload, History, AttemptOver, FetchInv, Answers
    <2> QED BY <1>0, <2>2, <2>3, FetchAnswered DEF IInv
  <1>3. CASE HandOver
    <2>1. PICK f \in Uploads : Submit(f)
      BY <1>3 DEF HandOver
    <2>2. ArchiveInv' /\ SignalsSurface'
      BY <1>0, <2>1, SubmitKept
    <2>3. FetchInv'
      <3> DEFINE done == [NewCall EXCEPT !.pc = "answered", !.answer = 201]
      <3>1. /\ 0 \in 0..Budget /\ 0 \in 0..Retries /\ 0 \in 0..Turns /\ 0 \in 0..(MaxPieces + 1)
            /\ "public" \in Addresses /\ 0 \in Answers /\ 201 \in Answers
        BY FetchConstants DEF Turns, Addresses, Answers
      <3>2. done \in Call /\ done.pc = "answered"
        BY <3>1 DEF NewCall, Call
      <3>3. 0 <= Retries * Turns
        <4>1. 0 \in Nat /\ 0 <= Retries
          BY FetchConstants
        <4>2. Retries * Turns \in Nat
          BY <4>1, Effort
        <4> QED BY <4>2
      <3> HIDE DEF done
      <3>4. Paid(done, 0)
        BY <3>2, <3>3 DEF Paid
      <3>5. call' = done /\ opened' = 0 /\ overdue' = 0 /\ contacted' = {} /\ elapsed' = 0
            /\ UNCHANGED <<egress, partial>>
        BY <1>3 DEF HandOver, done
      <3> QED BY <1>0, <3>1, <3>2, <3>4, <3>5 DEF FetchInv
    <2> QED BY <2>2, <2>3 DEF IInv
  <1>4. CASE /\ Open \/ Promote \/ Leave \/ Rate \/ Raise
                \/ \E j \in Jobs : \E pw \in {"none", "wrong", "right"} : Reanalyse(j, pw)
             /\ UNCHANGED fetchVars
    <2>1. ArchiveInv' /\ SignalsSurface'
      BY <1>0, <1>4, OpenKept, PromoteKept, LeaveKept, RateKept, RaiseKept, ReanalyseKept
    <2>2. FetchInv'
      BY <1>0, <1>4, FetchUntouched
    <2> QED BY <2>1, <2>2 DEF IInv
  <1>5. CASE UNCHANGED vars
    <2>1. UNCHANGED fetchVars /\ UNCHANGED archiveVars
      BY <1>5 DEF vars
    <2> QED BY <1>0, <2>1, FetchUntouched, ArchiveUntouched DEF IInv
  <1> QED BY <1>1, <1>2, <1>3, <1>4, <1>5 DEF Next

LEMMA Inductive == Spec => []IInv
  BY InitIInv, IInvKept, PTL DEF Spec

-----------------------------------------------------------------------------
(* A fetch reaches nothing inside, and nothing at all when it is closed:   *)
(* the address that is connected to is one of an answer that had none      *)
(* inside.                                                                 *)
THEOREM NothingInsideIsReached == Spec => []OnlyOutside
  <1>1. IInv => OnlyOutside
    BY DEF IInv, FetchInv, OnlyOutside
  <1> QED BY <1>1, Inductive, PTL

(* Types and caps, for caps of any size: what was spent and what is left   *)
(* are the budget together, and a run is as deep as it stands in the stack.*)
THEOREM EverythingIsBounded == Spec => []Bounded
  <1>1. ASSUME IInv PROVE FetchTypeOK /\ EffortBounded
    <2>1. FetchInv
      BY <1>1 DEF IInv
    <2>2. call \in Call /\ opened \in Nat /\ Paid(call, opened)
      BY <2>1 DEF FetchInv
    <2>3. opened <= Retries * Turns
      <3>1. 0 \in Answers
        BY DEF Answers
      <3>2. PICK d : d.pc = "answered" /\ Paid(d, opened)
        BY <2>2, <3>1, AnsweredPaid
      <3> QED BY <3>2 DEF Paid
    <2>4. contacted \subseteq Addresses
      BY <2>1 DEF FetchInv, Addresses
    <2> QED BY <2>1, <2>2, <2>3, <2>4 DEF FetchInv, Call, Turns, FetchTypeOK, EffortBounded
  <1>2. ASSUME IInv PROVE ArchiveTypeOK
    <2>1. ArchiveInv
      BY <1>2 DEF IInv
    <2>2. \A j \in Jobs : /\ rows[j].file \in Files /\ rows[j].parent \in 0..(j - 1)
                       /\ rows[j].status \in {"queued", "awaiting_password", "completed", "failed"}
                       /\ rows[j].marks \subseteq Marks
      <3>1. RowsInv(rows)
        BY <2>1 DEF ArchiveInv
      <3> QED BY <3>1, RowsTyped DEF Row
    <2>3. \A i \in DOMAIN stack : stack[i].job \in Jobs /\ stack[i].depth = i - 1
      <3>1. DOMAIN stack = 1..Len(stack) /\ \A i \in 1..Len(stack) : Sane(rows, inside, i, stack[i])
        BY <2>1, LenProperties DEF ArchiveInv, AllSane
      <3> QED BY <3>1 DEF Sane, Jobs
    <2> QED BY <2>1, <2>2, <2>3 DEF ArchiveTypeOK, ArchiveInv
  <1>3. ASSUME IInv PROVE SpendingBounded
    <2>1. ArchiveInv
      BY <1>3 DEF IInv
    <2>2. spent <= MaxExpansion
      <3>1. left.bytes \in Nat /\ spent \in Nat /\ spent + left.bytes = MaxExpansion
        BY <2>1, ArchiveAssumption DEF ArchiveInv
      <3> QED BY <3>1
    <2>3. Len(stack) <= MaxDepth + 1
      <3>1. MaxDepth \in Nat
        BY ArchiveAssumption
      <3>2. CASE stack = <<>>
        BY <3>1, <3>2, EmptySeq
      <3>3. CASE stack # <<>>
        <4>1. Len(stack) \in Nat /\ Top.depth = Len(stack) - 1 /\ Top.depth <= MaxDepth
          BY <2>1, <3>3, TopSane DEF Sane
        <4> QED BY <3>1, <4>1
      <3> QED BY <3>2, <3>3
    <2> QED BY <2>2, <2>3 DEF SpendingBounded
  <1>4. IInv => Bounded
    BY <1>1, <1>2, <1>3 DEF Bounded
  <1> QED BY <1>4, Inductive, PTL

(* Each member of a listing is stored or given a reason, for every archive *)
(* that a reader can report: by induction over the listing, and again when *)
(* a 7z takes back what it had read.                                       *)
THEOREM EveryMemberIsAccounted == Spec => []MembersAccounted
  <1>1. ASSUME IInv, NEW i \in DOMAIN stack, stack[i].pc = "members"
        PROVE  LET f == stack[i]
                   content == inside[rows[f.job].file]
               IN /\ content.fault # "damaged" => Len(f.listing) = Len(Listed(content))
                  /\ \A n \in DOMAIN f.listing :
                        /\ f.listing[n].stored => f.listing[n].size <= MaxMemberSize
                        /\ \/ f.listing[n].stored \/ f.listing[n].reason # "none"
                           \/ Listed(content)[n].is = "dir" \/ Shadowed(content, n)
                        /\ f.listing[n].reason = "budget" =>
                              "truncated" \in f.marks \/ content.kind = "rar"
    <2>1. AllSane(rows, inside, stack)
      BY <1>1 DEF IInv, ArchiveInv
    <2>2. Sane(rows, inside, i, stack[i])
      BY <2>1, LenProperties DEF AllSane
    <2>3. Whole(inside[rows[stack[i].job].file], stack[i].listing, "truncated" \in stack[i].marks)
      BY <1>1, <2>2 DEF Sane
    <2> QED BY <2>3 DEF Whole, Fair
  <1>2. IInv => MembersAccounted
    BY <1>1 DEF MembersAccounted
  <1> QED BY <1>2, Inductive, PTL

(* A stored member that no run turns to leaves one of the four signals, and*)
(* a signal is said at the top, however deep it lies: the rating reads the *)
(* marks of everything below, and writes no parent.                        *)
THEOREM BlindSpotsAreSaid == Spec => []BlindSpotsSurface
  <1>1. ASSUME IInv PROVE StoredIsFollowed
    <2> SUFFICES ASSUME NEW i \in DOMAIN stack, stack[i].pc = "members",
                        stack[i].marks \cap BlindSpots = {},
                        NEW n \in Stored(stack[i].listing) \ stack[i].todo
                 PROVE  \E k \in Jobs : /\ rows[k].parent = stack[i].job
                                       /\ rows[k].path = stack[i].listing[n].path
      BY DEF StoredIsFollowed
    <2>1. AllSane(rows, inside, stack)
      BY <1>1 DEF IInv, ArchiveInv
    <2>2. Followed(rows, stack[i])
      BY <2>1, LenProperties DEF AllSane, Sane
    <2> QED BY <2>2 DEF Followed, HasRow, Jobs
  <1>2. IInv => BlindSpotsSurface
    BY <1>1 DEF IInv, BlindSpotsSurface
  <1> QED BY <1>2, Inductive, PTL

-----------------------------------------------------------------------------
(* The rate limiter.  A window is what counts of a bucket at a time.       *)

At(n, s, w) ==
    LET counting == {j \in DOMAIN s : s[j] + w > n}
    IN IF counting = {} THEN <<>> ELSE SubSeq(s, Min(counting), Len(s))

LEMMA RecentAt == \A s, r : Recent(s, r) = At(now, s, Window[r])
  BY DEF Recent, At

Past(n, s, w, k) == \A j \in 1..k : s[j] + w <= n

LEMMA AtNone ==
    ASSUME NEW s \in Seq(Nat), NEW n \in Nat, NEW w \in Nat, Past(n, s, w, Len(s))
    PROVE  At(n, s, w) = <<>>
  <1>1. DOMAIN s = 1..Len(s) /\ \A j \in 1..Len(s) : s[j] \in Nat
    BY LenProperties, ElementOfSeq
  <1>2. ASSUME NEW j \in DOMAIN s, s[j] + w > n PROVE FALSE
    <2>1. s[j] + w <= n /\ s[j] \in Nat
      BY <1>1 DEF Past
    <2> QED BY <1>2, <2>1
  <1> QED BY <1>2 DEF At

LEMMA AtFrom ==
    ASSUME NEW s \in Seq(Nat), NEW n \in Nat, NEW w \in Nat, NEW k \in 1..Len(s),
           Past(n, s, w, k - 1), s[k] + w > n
    PROVE  At(n, s, w) = SubSeq(s, k, Len(s))
  <1> DEFINE counting == {j \in DOMAIN s : s[j] + w > n}
  <1>1. Len(s) \in Nat /\ DOMAIN s = 1..Len(s) /\ \A j \in 1..Len(s) : s[j] \in Nat
    BY LenProperties, ElementOfSeq
  <1>2. k \in counting /\ counting \in SUBSET Nat
    BY <1>1
  <1>3. ASSUME NEW j \in counting PROVE k <= j
    <2>1. j \in 1..Len(s) /\ s[j] + w > n /\ s[j] \in Nat
      BY <1>1
    <2>2. j \notin 1..(k - 1)
      BY <2>1 DEF Past
    <2> QED BY <1>1, <2>1, <2>2
  <1>4. Min(counting) \in counting /\ \A j \in counting : Min(counting) <= j
    <2> HIDE DEF counting
    <2> QED BY <1>2, Least
  <1>5. Min(counting) = k
    <2>1. Min(counting) \in Nat /\ k \in Nat /\ Min(counting) <= k /\ k <= Min(counting)
      BY <1>2, <1>3, <1>4
    <2> HIDE DEF counting
    <2> QED BY <2>1
  <1> QED BY <1>2, <1>5 DEF At

LEMMA AtCases ==
    ASSUME NEW s \in Seq(Nat), NEW n \in Nat, NEW w \in Nat
    PROVE  \/ Past(n, s, w, Len(s)) /\ At(n, s, w) = <<>>
           \/ \E k \in 1..Len(s) :
                 /\ Past(n, s, w, k - 1) /\ s[k] + w > n
                 /\ At(n, s, w) = SubSeq(s, k, Len(s))
                 /\ At(n, s, w) \in Seq(Nat) /\ Len(At(n, s, w)) = Len(s) - k + 1
                 /\ \A i \in 1..(Len(s) - k + 1) : At(n, s, w)[i] = s[k + i - 1]
  <1> DEFINE counting == {j \in 1..Len(s) : ~(s[j] + w <= n)}
  <1>1. Len(s) \in Nat /\ \A j \in 1..Len(s) : s[j] \in Nat
    BY LenProperties, ElementOfSeq
  <1>2. CASE counting = {}
    <2>1. Past(n, s, w, Len(s))
      BY <1>2 DEF Past
    <2> QED BY <2>1, AtNone
  <1>3. CASE counting # {}
    <2>1. counting \in SUBSET Nat
      BY <1>1
    <2>2. PICK k \in counting : \A j \in counting : k <= j
      <3> HIDE DEF counting
      <3> QED BY <1>3, <2>1, Least
    <2>3. k \in 1..Len(s) /\ s[k] + w > n
      BY <1>1
    <2>4. Past(n, s, w, k - 1)
      <3> SUFFICES ASSUME NEW j \in 1..(k - 1) PROVE s[j] + w <= n
        BY DEF Past
      <3>1. j \in 1..Len(s) /\ ~(k <= j)
        BY <1>1, <2>3
      <3> QED BY <2>2, <3>1
    <2>5. At(n, s, w) = SubSeq(s, k, Len(s))
      BY <2>3, <2>4, AtFrom
    <2>6. /\ SubSeq(s, k, Len(s)) \in Seq(Nat) /\ Len(SubSeq(s, k, Len(s))) = Len(s) - k + 1
          /\ \A i \in 1..(Len(s) - k + 1) : SubSeq(s, k, Len(s))[i] = s[k + i - 1]
      <3>1. \A i \in k..Len(s) : s[i] \in Nat
        BY <1>1, <2>3
      <3>2. k \in Int /\ Len(s) \in Int /\ k <= Len(s)
        BY <1>1, <2>3
      <3> QED BY <3>1, <3>2, SubSeqProperties
    <2> QED BY <2>3, <2>4, <2>5, <2>6
  <1> QED BY <1>2, <1>3

(* A window that has moved on is the window of the window.                 *)
LEMMA AtAgain ==
    ASSUME NEW s \in Seq(Nat), NEW n \in Nat, NEW m \in Nat, n <= m, NEW w \in Nat
    PROVE  At(m, At(n, s, w), w) = At(m, s, w)
  <1>0. Len(s) \in Nat /\ \A j \in 1..Len(s) : s[j] \in Nat
    BY LenProperties, ElementOfSeq
  <1>1. CASE Past(n, s, w, Len(s)) /\ At(n, s, w) = <<>>
    <2>1. Past(m, s, w, Len(s))
      BY <1>0, <1>1 DEF Past
    <2>2. <<>> \in Seq(Nat) /\ Past(m, <<>>, w, Len(<<>>))
      BY EmptySeq DEF Past
    <2> QED BY <1>1, <2>1, <2>2, AtNone
  <1>2. ASSUME NEW k \in 1..Len(s), Past(n, s, w, k - 1), At(n, s, w) = SubSeq(s, k, Len(s)),
               At(n, s, w) \in Seq(Nat), Len(At(n, s, w)) = Len(s) - k + 1,
               \A i \in 1..(Len(s) - k + 1) : At(n, s, w)[i] = s[k + i - 1]
        PROVE  At(m, At(n, s, w), w) = At(m, s, w)
    <2> DEFINE t == At(n, s, w)
    <2>1. t \in Seq(Nat) /\ Len(t) = Len(s) - k + 1 /\ t = SubSeq(s, k, Len(s))
          /\ \A i \in 1..Len(t) : t[i] = s[k + i - 1]
      BY <1>2
    <2>2. \A j \in 1..(k - 1) : s[j] + w <= m
      <3> SUFFICES ASSUME NEW j \in 1..(k - 1) PROVE s[j] + w <= m
        OBVIOUS
      <3>1. s[j] + w <= n /\ s[j] \in Nat
        BY <1>0, <1>2 DEF Past
      <3> QED BY <3>1
    <2> HIDE DEF t
    <2>3. CASE Past(m, t, w, Len(t)) /\ At(m, t, w) = <<>>
      <3>1. Past(m, s, w, Len(s))
        <4> SUFFICES ASSUME NEW j \in 1..Len(s) PROVE s[j] + w <= m
          BY DEF Past
        <4>1. CASE j \in 1..(k - 1)
          BY <2>2, <4>1
        <4>2. CASE j \in k..Len(s)
          <5>1. j - k + 1 \in 1..Len(t) /\ k + (j - k + 1) - 1 = j
            BY <1>0, <2>1, <4>2
          <5>2. t[j - k + 1] = s[j]
            BY <2>1, <5>1
          <5> QED BY <2>3, <5>1, <5>2 DEF Past
        <4> QED BY <1>0, <4>1, <4>2
      <3> QED BY <2>3, <3>1, AtNone DEF t
    <2>4. ASSUME NEW i \in 1..Len(t), Past(m, t, w, i - 1), t[i] + w > m,
                 At(m, t, w) = SubSeq(t, i, Len(t))
          PROVE  At(m, t, w) = At(m, s, w)
      <3> DEFINE j == k + i - 1
      <3>1. j \in 1..Len(s) /\ Len(t) \in Nat /\ s[j] + w > m
        BY <1>0, <2>1, <2>4
      <3>2. Past(m, s, w, j - 1)
        <4> SUFFICES ASSUME NEW h \in 1..(j - 1) PROVE s[h] + w <= m
          BY DEF Past
        <4>1. CASE h \in 1..(k - 1)
          BY <2>2, <4>1
        <4>2. CASE h \in k..(j - 1)
          <5>1. h - k + 1 \in 1..(i - 1) /\ h - k + 1 \in 1..Len(t) /\ k + (h - k + 1) - 1 = h
            BY <1>0, <2>1, <4>2
          <5>2. t[h - k + 1] = s[h]
            BY <2>1, <5>1
          <5> QED BY <2>4, <5>1, <5>2 DEF Past
        <4> QED BY <4>1, <4>2
      <3>3. At(m, s, w) = SubSeq(s, j, Len(s))
        <4> HIDE DEF j
        <4> QED BY <3>1, <3>2, AtFrom
      <3>4. SubSeq(t, i, Len(t)) = SubSeq(s, j, Len(s))
        <4>1. /\ Len(s) \in 1..Len(s) /\ i \in 1..(Len(s) - k + 1)
              /\ Len(t) \in 1..(Len(s) - k + 1) /\ k + Len(t) - 1 = Len(s)
          BY <1>0, <2>1
        <4>2. SubSeq(SubSeq(s, k, Len(s)), i, Len(t)) = SubSeq(s, k + i - 1, k + Len(t) - 1)
          BY <4>1, SubSeqOfSubSeq
        <4> QED BY <2>1, <4>1, <4>2
      <3> QED BY <2>4, <3>3, <3>4
    <2> QED BY <2>1, <2>3, <2>4, AtCases DEF t
  <1> QED BY <1>1, <1>2, AtCases

Newest(s) == \A j \in 1..Len(s) : s[j] <= s[Len(s)]
UpToNow(s, n) == \A j \in 1..Len(s) : s[j] <= n
Counts(s, n, w) == s # <<>> => s[1] + w > n

LEMMA WindowKept ==
    ASSUME NEW s \in Seq(Nat), NEW n \in Nat, NEW w \in Nat, UpToNow(s, n), Newest(s)
    PROVE  LET t == At(n, s, w)
           IN  /\ t \in Seq(Nat) /\ UpToNow(t, n) /\ Newest(t) /\ Counts(t, n, w)
               /\ Len(t) <= Len(s)
  <1> DEFINE t == At(n, s, w)
  <1>1. Len(s) \in Nat /\ \A j \in 1..Len(s) : s[j] \in Nat
    BY LenProperties, ElementOfSeq
  <1>2. ASSUME t = <<>>
        PROVE  /\ t \in Seq(Nat) /\ UpToNow(t, n) /\ Newest(t) /\ Counts(t, n, w)
               /\ Len(t) <= Len(s)
    <2>1. t \in Seq(Nat) /\ Len(t) = 0
      BY <1>2, EmptySeq
    <2> HIDE DEF t
    <2> QED BY <1>1, <1>2, <2>1 DEF UpToNow, Newest, Counts
  <1>3. ASSUME NEW k \in 1..Len(s), s[k] + w > n, t \in Seq(Nat), Len(t) = Len(s) - k + 1,
               \A i \in 1..(Len(s) - k + 1) : t[i] = s[k + i - 1]
        PROVE  /\ t \in Seq(Nat) /\ UpToNow(t, n) /\ Newest(t) /\ Counts(t, n, w)
               /\ Len(t) <= Len(s)
    <2> HIDE DEF t
    <2>1. t[1] = s[k] /\ t[Len(t)] = s[Len(s)]
      <3>1. 1 \in 1..Len(t) /\ k + 1 - 1 = k /\ Len(t) \in 1..Len(t) /\ k + Len(t) - 1 = Len(s)
        BY <1>1, <1>3
      <3> QED BY <1>3, <3>1
    <2>2. ASSUME NEW i \in 1..Len(t) PROVE t[i] <= n /\ t[i] <= t[Len(t)]
      <3>1. k + i - 1 \in 1..Len(s) /\ t[i] = s[k + i - 1]
        BY <1>1, <1>3
      <3> QED BY <2>1, <3>1 DEF UpToNow, Newest
    <2>3. Len(t) <= Len(s)
      BY <1>1, <1>3
    <2> QED BY <1>3, <2>1, <2>2, <2>3 DEF UpToNow, Newest, Counts
  <1>4. t = <<>> \/ \E k \in 1..Len(s) :
           /\ s[k] + w > n /\ t \in Seq(Nat) /\ Len(t) = Len(s) - k + 1
           /\ \A i \in 1..(Len(s) - k + 1) : t[i] = s[k + i - 1]
    BY AtCases
  <1> HIDE DEF t
  <1>5. /\ t \in Seq(Nat) /\ UpToNow(t, n) /\ Newest(t) /\ Counts(t, n, w)
        /\ Len(t) <= Len(s)
    BY <1>2, <1>3, <1>4
  <1> QED BY <1>5 DEF t

(* A request is charged to what counts, and counts itself.                 *)
LEMMA ChargedKept ==
    ASSUME NEW s \in Seq(Nat), NEW n \in Nat, NEW w \in Nat, w > 0, UpToNow(s, n),
           Counts(s, n, w)
    PROVE  LET u == Append(s, n)
           IN  /\ u \in Seq(Nat) /\ Len(u) = Len(s) + 1 /\ UpToNow(u, n) /\ Newest(u)
               /\ At(n, u, w) = u /\ u # <<>>
  <1> DEFINE u == Append(s, n)
  <1>1. Len(s) \in Nat /\ \A j \in 1..Len(s) : s[j] \in Nat
    BY LenProperties, ElementOfSeq
  <1>2. /\ u \in Seq(Nat) /\ Len(u) = Len(s) + 1 /\ u[Len(s) + 1] = n
        /\ \A j \in 1..Len(s) : u[j] = s[j]
    BY AppendProperties
  <1> HIDE DEF u
  <1>3. \A j \in 1..Len(u) : u[j] <= n
    <2> SUFFICES ASSUME NEW j \in 1..Len(u) PROVE u[j] <= n
      OBVIOUS
    <2>1. CASE j = Len(s) + 1
      BY <1>2, <2>1
    <2>2. CASE j \in 1..Len(s)
      BY <1>2, <2>2 DEF UpToNow
    <2> QED BY <1>1, <1>2, <2>1, <2>2
  <1>4. u[1] + w > n
    <2>1. CASE s = <<>>
      <3>1. Len(s) = 0
        BY <2>1, EmptySeq
      <3> QED BY <1>2, <3>1
    <2>2. CASE s # <<>>
      <3>1. 1 \in 1..Len(s)
        BY <1>1, <2>2, EmptySeq
      <3> QED BY <1>2, <2>2, <3>1 DEF Counts
    <2> QED BY <2>1, <2>2
  <1>5. At(n, u, w) = SubSeq(u, 1, Len(u))
    <2>1. 1 \in 1..Len(u) /\ Past(n, u, w, 1 - 1)
      BY <1>1, <1>2 DEF Past
    <2> QED BY <1>2, <1>4, <2>1, AtFrom
  <1>6. SubSeq(u, 1, Len(u)) = u
    BY <1>2, SubSeqFull
  <1>7. u # <<>>
    BY <1>1, <1>2, EmptySeq
  <1>8. /\ u \in Seq(Nat) /\ Len(u) = Len(s) + 1 /\ UpToNow(u, n) /\ Newest(u)
        /\ At(n, u, w) = u /\ u # <<>>
    BY <1>2, <1>3, <1>5, <1>6, <1>7 DEF UpToNow, Newest
  <1> QED BY <1>8 DEF u

LEMMA RateConstants ==
    /\ \A r \in RuleNames : /\ Window[r] \in Nat /\ Window[r] > 0 /\ Window[r] <= IdleAfter
                            /\ \A i : LimitFor(i, r) \in Nat /\ LimitFor(i, r) > 0
    /\ IdleAfter \in Nat /\ SweepAt \in Nat /\ MaxBuckets \in Nat /\ MaxTime \in Nat
    /\ SweepAt <= MaxBuckets
  <1>1. /\ Window \in [RuleNames -> Nat \ {0}] /\ Limit \in [RuleNames -> Nat \ {0}]
        /\ AddressLimit \in [RuleNames -> Nat \ {0}]
    BY RulesAssumption
  <1>2. ASSUME NEW r \in RuleNames, NEW i PROVE LimitFor(i, r) \in Nat \ {0}
    BY <1>1 DEF LimitFor
  <1>3. \A r \in RuleNames : Window[r] \in Nat \ {0}
    BY <1>1
  <1> QED BY <1>2, <1>3, RulesAssumption

(* Nothing of an idle bucket counts.                                       *)
LEMMA IdleNone ==
    ASSUME NEW s \in Seq(Nat), Newest(s), now \in Nat, Idle(s), NEW r \in RuleNames
    PROVE  At(now, s, Window[r]) = <<>>
  <1>1. Len(s) \in Nat /\ \A j \in 1..Len(s) : s[j] \in Nat
    BY LenProperties, ElementOfSeq
  <1>2. Past(now, s, Window[r], Len(s))
    <2> SUFFICES ASSUME NEW j \in 1..Len(s) PROVE s[j] + Window[r] <= now
      BY DEF Past
    <2>1. s # <<>>
      BY <1>1, EmptySeq
    <2>2. now - s[Len(s)] > IdleAfter
      BY <2>1 DEF Idle, Last
    <2>3. /\ s[j] <= s[Len(s)] /\ s[j] \in Nat /\ s[Len(s)] \in Nat /\ IdleAfter \in Nat
          /\ Window[r] \in Nat /\ Window[r] <= IdleAfter
      BY <1>1, RateConstants DEF Newest
    <2> QED BY <2>2, <2>3
  <1> QED BY <1>2, AtNone, RateConstants

(* Once the first of a window is past there is room where it was.          *)
LEMMA FirstPast ==
    ASSUME NEW s \in Seq(Nat), NEW n \in Nat, NEW w \in Nat, s # <<>>, s[1] + w <= n
    PROVE  Len(At(n, s, w)) < Len(s)
  <1>1. Len(s) \in Nat /\ Len(s) > 0 /\ \A j \in 1..Len(s) : s[j] \in Nat
    BY LenProperties, ElementOfSeq, EmptySeq
  <1>2. CASE At(n, s, w) = <<>>
    BY <1>1, <1>2, EmptySeq
  <1>3. ASSUME NEW k \in 1..Len(s), s[k] + w > n, Len(At(n, s, w)) = Len(s) - k + 1
        PROVE  Len(At(n, s, w)) < Len(s)
    <2>1. k # 1 /\ s[1] \in Nat
      BY <1>1, <1>3
    <2> QED BY <1>1, <1>3, <2>1
  <1> QED BY <1>2, <1>3, AtCases

-----------------------------------------------------------------------------
(* The table.  What counts of the bucket of an address is what counts of   *)
(* the attempts it was let through to, unless the bucket was dropped.      *)

Place(a) == <<<<"ip", a>>, "authentication">>
Attempts == Window["authentication"]

BucketOf(b, x, n) ==
    /\ x = <<x[1], x[2]>> /\ x[2] \in RuleNames
    /\ b[x] \in Seq(Nat) /\ UpToNow(b[x], n) /\ Newest(b[x])
    /\ Len(b[x]) <= LimitFor(x[1], x[2])

Remembered(a) == IF Place(a) \in Hits THEN At(now, bucket[Place(a)], Attempts) ELSE <<>>

Freed ==
    /\ reply.until \in Nat
    /\ \A i \in reply.who :
          LET x == <<i, reply.rule>>
          IN x \in Hits => \/ bucket[x] = <<>>
                           \/ bucket[x][1] + Window[reply.rule] + 1 <= reply.until

RateInv ==
    /\ now \in 0..MaxTime /\ lastSweep \in 0..now /\ dropped \subseteq Callers
    /\ guess \in [Callers -> Seq(Nat)]
    /\ IsFiniteSet(Hits) /\ Cardinality(Hits) <= MaxBuckets + 3
    /\ \A x \in Hits : BucketOf(bucket, x, now)
    /\ \A a \in Callers \ dropped : At(now, guess[a], Attempts) = Remembered(a)
    /\ reply.is \in {"none", "passed", "refused"} /\ reply.rule \in RuleNames
    /\ reply.is = "passed" => (reply.left > 0 <=> Room(reply.who, reply.rule))
    /\ reply.is = "refused" /\ Cardinality(reply.who) = 1 => Freed

LEMMA RateInitInv == RateInit => RateInv
  <1> SUFFICES ASSUME RateInit PROVE RateInv
    OBVIOUS
  <1>1. /\ now = 0 /\ bucket = <<>> /\ lastSweep = 0 /\ reply = Silent /\ dropped = {}
        /\ guess = [a \in Callers |-> <<>>]
    BY DEF RateInit
  <1>2. Hits = {} /\ Cardinality(Hits) = 0 /\ IsFiniteSet(Hits)
    <2>1. <<>> \in Seq(Nat) /\ Len(<<>>) = 0
      BY EmptySeq
    <2>2. DOMAIN <<>> = {}
      BY <2>1, LenProperties
    <2> QED BY <1>1, <2>2, FS_EmptySet DEF Hits
  <1>3. guess \in [Callers -> Seq(Nat)] /\ \A a \in Callers : guess[a] = <<>>
    BY <1>1, EmptySeq
  <1>4. At(now, <<>>, Attempts) = <<>>
    <2>1. <<>> \in Seq(Nat) /\ Past(now, <<>>, Attempts, Len(<<>>))
      BY EmptySeq DEF Past
    <2>2. Attempts \in Nat /\ now \in Nat
      BY <1>1, RateConstants DEF Attempts, RuleNames
    <2> QED BY <2>1, <2>2, AtNone
  <1>5. \A a \in Callers : At(now, guess[a], Attempts) = Remembered(a)
    BY <1>2, <1>3, <1>4 DEF Remembered
  <1>6. reply.is = "none" /\ reply.rule \in RuleNames
    BY <1>1 DEF Silent, RuleNames
  <1>7. now \in 0..MaxTime /\ lastSweep \in 0..now /\ 0 <= MaxBuckets + 3
    BY <1>1, RateConstants
  <1> QED BY <1>1, <1>2, <1>3, <1>5, <1>6, <1>7 DEF RateInv

LEMMA TickKept == RateInv /\ Tick => RateInv'
  <1> SUFFICES ASSUME RateInv, Tick PROVE RateInv'
    OBVIOUS
  <1>1. /\ now < MaxTime /\ now' = now + 1 /\ UNCHANGED <<bucket, lastSweep, guess, dropped>>
        /\ reply' = IF reply.is = "refused" THEN reply ELSE Silent
        /\ Hits' = Hits
    BY DEF Tick, Hits
  <1>2. /\ now \in Nat /\ now' \in 0..MaxTime /\ now' \in Nat /\ now <= now'
        /\ lastSweep' \in 0..now'
    BY <1>1, RateConstants DEF RateInv
  <1>3. Attempts \in Nat
    BY RateConstants DEF Attempts, RuleNames
  <1>4. ASSUME NEW x \in Hits PROVE BucketOf(bucket', x, now')
    <2>1. BucketOf(bucket, x, now)
      BY DEF RateInv
    <2>2. UpToNow(bucket[x], now')
      <3> SUFFICES ASSUME NEW j \in 1..Len(bucket[x]) PROVE bucket[x][j] <= now'
        BY DEF UpToNow
      <3>1. bucket[x][j] \in Nat /\ bucket[x][j] <= now
        BY <2>1, ElementOfSeq DEF BucketOf, UpToNow
      <3> QED BY <1>2, <3>1
    <2> QED BY <1>1, <2>1, <2>2 DEF BucketOf
  <1>5. ASSUME NEW a \in Callers \ dropped
        PROVE  At(now', guess[a], Attempts) = Remembered(a)'
    <2>1. At(now, guess[a], Attempts) = Remembered(a) /\ guess[a] \in Seq(Nat)
      BY DEF RateInv
    <2>2. At(now', At(now, guess[a], Attempts), Attempts) = At(now', guess[a], Attempts)
      BY <1>2, <1>3, <2>1, AtAgain
    <2>3. CASE Place(a) \in Hits
      <3>1. bucket[Place(a)] \in Seq(Nat)
        BY <2>3 DEF RateInv, BucketOf
      <3>2. At(now', At(now, bucket[Place(a)], Attempts), Attempts)
               = At(now', bucket[Place(a)], Attempts)
        BY <1>2, <1>3, <3>1, AtAgain
      <3>3. Remembered(a)' = At(now', bucket[Place(a)], Attempts)
        BY <1>1, <2>3 DEF Remembered, Place, Attempts
      <3> QED BY <2>1, <2>2, <2>3, <3>2, <3>3 DEF Remembered
    <2>4. CASE Place(a) \notin Hits
      <3>1. At(now, guess[a], Attempts) = <<>> /\ Remembered(a)' = <<>>
        BY <1>1, <2>1, <2>4 DEF Remembered, Place
      <3>2. <<>> \in Seq(Nat) /\ Past(now', <<>>, Attempts, Len(<<>>))
        BY EmptySeq DEF Past
      <3>3. At(now', <<>>, Attempts) = <<>>
        BY <1>2, <1>3, <3>2, AtNone
      <3> QED BY <2>2, <3>1, <3>3
    <2> QED BY <2>3, <2>4
  <1>6. /\ reply'.is \in {"none", "refused"} /\ reply'.rule \in RuleNames
        /\ reply'.is = "refused" => reply' = reply
    BY <1>1 DEF RateInv, Silent, RuleNames
  <1>7. reply'.is = "refused" /\ Cardinality(reply'.who) = 1 => Freed'
    <2> SUFFICES ASSUME reply'.is = "refused", Cardinality(reply'.who) = 1 PROVE Freed'
      OBVIOUS
    <2>1. Freed /\ reply' = reply
      BY <1>6 DEF RateInv
    <2> QED BY <1>1, <2>1 DEF Freed
  <1>8. /\ dropped' \subseteq Callers /\ guess' \in [Callers -> Seq(Nat)]
        /\ IsFiniteSet(Hits') /\ Cardinality(Hits') <= MaxBuckets + 3
    BY <1>1 DEF RateInv
  <1>9. \A a \in Callers \ dropped' : At(now, guess[a], Attempts)' = Remembered(a)'
    BY <1>1, <1>5 DEF Attempts
  <1> QED BY <1>1, <1>2, <1>4, <1>6, <1>7, <1>8, <1>9 DEF RateInv

(* What a sweep leaves fits the ceiling; what it takes is idle or noted.   *)
LEMMA SweepLeaves ==
    ASSUME IsFiniteSet(Hits), NEW kept \in Sweeps
    PROVE  /\ kept \subseteq Hits /\ IsFiniteSet(kept)
           /\ Cardinality(kept) \in Nat /\ Cardinality(kept) <= MaxBuckets
           /\ \A x \in Hits \ kept : Idle(bucket[x]) \/ x \in Dropped(kept)
  <1>1. Hits = DOMAIN bucket /\ Cardinality(Hits) \in Nat /\ Live \subseteq Hits
    BY FS_CardinalityType DEF Hits, Live
  <1>2. CASE ~Due
    <2>1. kept = Hits
      BY <1>1, <1>2 DEF Sweeps
    <2>2. Cardinality(Hits) <= SweepAt
      BY <1>1, <1>2, RateConstants DEF Due
    <2> QED BY <1>1, <2>1, <2>2, RateConstants
  <1>3. CASE Due
    <2>1. IsFiniteSet(Live) /\ Cardinality(Live) \in Nat
      BY <1>1, FS_Subset, FS_CardinalityType
    <2>2. kept \in kSubset(Min({MaxBuckets, Cardinality(Live)}), Live)
      BY <1>3 DEF Sweeps
    <2>3. kept \subseteq Live /\ Cardinality(kept) = Min({MaxBuckets, Cardinality(Live)})
      BY <2>2 DEF kSubset
    <2>4. Min({MaxBuckets, Cardinality(Live)}) \in Nat
          /\ Min({MaxBuckets, Cardinality(Live)}) <= MaxBuckets
      <3> DEFINE S == {MaxBuckets, Cardinality(Live)}
      <3>1. S \in SUBSET Nat /\ S # {} /\ MaxBuckets \in S
        BY <2>1, RateConstants
      <3> HIDE DEF S
      <3>2. Min(S) \in S /\ Min(S) <= MaxBuckets
        BY <3>1, Least
      <3>3. Min(S) \in Nat
        BY <3>1, <3>2
      <3> QED BY <3>2, <3>3 DEF S
    <2>5. \A x \in Hits \ kept : Idle(bucket[x]) \/ x \in Dropped(kept)
      BY <1>1 DEF Live, Dropped
    <2>6. IsFiniteSet(kept)
      BY <2>1, <2>3, FS_Subset
    <2> QED BY <1>1, <2>3, <2>4, <2>5, <2>6
  <1> QED BY <1>2, <1>3

(* A request is charged to three identities at most.                       *)
Places(ids, r) == {<<i, r>> : i \in ids}

LEMMA IdentitiesFew ==
    ASSUME NEW a, NEW k, NEW n, NEW r, NEW ids \in SUBSET Identities(a, k, n)
    PROVE  /\ IsFiniteSet(Places(ids, r)) /\ Cardinality(Places(ids, r)) \in Nat
           /\ Cardinality(Places(ids, r)) <= 3
  <1> DEFINE P == Places(ids, r)
             Q == {<<<<"ip", a>>, r>>} \cup ({<<<<"key", k>>, r>>} \cup {<<<<"auth", n>>, r>>})
  <1>1. P \subseteq Q
    BY DEF Identities, Places
  <1>2. ASSUME NEW x PROVE IsFiniteSet({x}) /\ Cardinality({x}) = 1
    BY FS_Singleton
  <1>3. ASSUME NEW S, NEW T, IsFiniteSet(S), IsFiniteSet(T)
        PROVE  IsFiniteSet(S \cup T) /\ Cardinality(S \cup T) <= Cardinality(S) + Cardinality(T)
    <2>1. /\ IsFiniteSet(S \cup T)
          /\ Cardinality(S \cup T) = Cardinality(S) + Cardinality(T) - Cardinality(S \cap T)
      BY <1>3, FS_Union
    <2>2. IsFiniteSet(S \cap T)
      BY <1>3, FS_Intersection
    <2>3. Cardinality(S) \in Nat /\ Cardinality(T) \in Nat /\ Cardinality(S \cap T) \in Nat
      BY <1>3, <2>2, FS_CardinalityType
    <2> QED BY <2>1, <2>3
  <1>4. IsFiniteSet(Q) /\ Cardinality(Q) <= 3
    <2> DEFINE A == {<<<<"ip", a>>, r>>}
               B == {<<<<"key", k>>, r>>}
               C == {<<<<"auth", n>>, r>>}
    <2>1. /\ IsFiniteSet(A) /\ Cardinality(A) = 1 /\ IsFiniteSet(B) /\ Cardinality(B) = 1
          /\ IsFiniteSet(C) /\ Cardinality(C) = 1
      BY <1>2
    <2> HIDE DEF A, B, C
    <2>2. IsFiniteSet(B \cup C) /\ Cardinality(B \cup C) <= 2
      <3>1. IsFiniteSet(B \cup C) /\ Cardinality(B \cup C) <= Cardinality(B) + Cardinality(C)
        BY <1>3, <2>1
      <3> QED BY <2>1, <3>1
    <2>3. /\ IsFiniteSet(A \cup (B \cup C))
          /\ Cardinality(A \cup (B \cup C)) <= Cardinality(A) + Cardinality(B \cup C)
      BY <1>3, <2>1, <2>2
    <2>4. Cardinality(B \cup C) \in Nat /\ Cardinality(A \cup (B \cup C)) \in Nat
      BY <2>2, <2>3, FS_CardinalityType
    <2>5. Cardinality(A \cup (B \cup C)) <= 3
      BY <2>1, <2>2, <2>3, <2>4
    <2> QED BY <2>3, <2>5 DEF A, B, C
  <1> HIDE DEF P, Q
  <1>5. /\ IsFiniteSet(P) /\ Cardinality(P) \in Nat /\ Cardinality(Q) \in Nat
        /\ Cardinality(P) <= Cardinality(Q)
    BY <1>1, <1>4, FS_Subset, FS_CardinalityType
  <1>6. Cardinality(P) <= 3
    BY <1>4, <1>5
  <1> QED BY <1>5, <1>6 DEF P

-----------------------------------------------------------------------------
(* A request.                                                              *)

Held(kept, i, r) == IF <<i, r>> \in kept THEN At(now, bucket[<<i, r>>], Window[r]) ELSE <<>>
Exhausted(kept, ids, r) == {i \in ids : Len(Held(kept, i, r)) >= LimitFor(i, r)}
Wait(kept, i, r) == Held(kept, i, r)[1] + Window[r] - now

LEMMA HeldKept ==
    ASSUME RateInv, NEW kept \in SUBSET Hits, NEW i, NEW r \in RuleNames
    PROVE  /\ Held(kept, i, r) \in Seq(Nat) /\ UpToNow(Held(kept, i, r), now)
           /\ Newest(Held(kept, i, r)) /\ Counts(Held(kept, i, r), now, Window[r])
           /\ Len(Held(kept, i, r)) \in Nat /\ Len(Held(kept, i, r)) <= LimitFor(i, r)
           /\ <<i, r>> \notin kept => Held(kept, i, r) = <<>> /\ Len(Held(kept, i, r)) = 0
  <1>1. now \in Nat /\ Window[r] \in Nat /\ LimitFor(i, r) \in Nat
    BY RateConstants DEF RateInv
  <1>2. CASE <<i, r>> \in kept
    <2> DEFINE s == bucket[<<i, r>>]
               t == At(now, s, Window[r])
    <2>1. s \in Seq(Nat) /\ UpToNow(s, now) /\ Newest(s) /\ Len(s) <= LimitFor(i, r)
      BY <1>2 DEF RateInv, BucketOf
    <2>2. Held(kept, i, r) = t
      BY <1>2 DEF Held
    <2> HIDE DEF s
    <2>3. t \in Seq(Nat) /\ UpToNow(t, now) /\ Newest(t) /\ Counts(t, now, Window[r]) /\ Len(t) <= Len(s)
      BY <1>1, <2>1, WindowKept
    <2> HIDE DEF t
    <2>4. Len(t) \in Nat /\ Len(s) \in Nat
      BY <2>1, <2>3, LenProperties
    <2>5. Len(t) <= LimitFor(i, r)
      BY <1>1, <2>1, <2>3, <2>4
    <2> QED BY <1>2, <2>2, <2>3, <2>4, <2>5
  <1>3. CASE <<i, r>> \notin kept
    <2>1. Held(kept, i, r) = <<>>
      BY <1>3 DEF Held
    <2>2. <<>> \in Seq(Nat) /\ Len(<<>>) = 0
      BY EmptySeq
    <2>3. UpToNow(<<>>, now) /\ Newest(<<>>) /\ Counts(<<>>, now, Window[r])
      BY <2>2 DEF UpToNow, Newest, Counts
    <2> QED BY <1>1, <2>1, <2>2, <2>3
  <1> QED BY <1>2, <1>3

LEMMA RequestSays ==
    ASSUME RateInv, NEW a, NEW k, NEW n, NEW r \in RuleNames, Request(a, k, n, r)
    PROVE  \E kept \in Sweeps :
             LET ids == Identities(a, k, n)
                 full == Exhausted(kept, ids, r)
             IN /\ now' = now /\ lastSweep' \in 0..now
                /\ Hits' = kept \cup {<<i, r>> : i \in IF full = {} THEN ids ELSE {}}
                /\ \A x \in Hits' : x[2] # r \/ x[1] \notin ids => bucket'[x] = bucket[x]
                /\ \A i \in ids : <<i, r>> \in Hits' =>
                     bucket'[<<i, r>>] = IF full = {} THEN Append(Held(kept, i, r), now)
                                         ELSE Held(kept, i, r)
                /\ dropped' = dropped \cup
                     {b \in Callers : \E x \in Dropped(kept) : x[1] = <<"ip", b>>}
                /\ full = {} => reply' = [is |-> "passed", who |-> ids, rule |-> r,
                     left |-> Min({Left(Held(kept, i, r), i, r) : i \in ids}), until |-> 0]
                /\ full # {} => reply' = [is |-> "refused", who |-> ids, rule |-> r, left |-> 0,
                     until |-> now + Max({1, Min({Wait(kept, i, r) : i \in full}) + 1})]
                /\ guess' = IF full = {} /\ r = "authentication" /\ a \notin dropped'
                            THEN [guess EXCEPT ![a] = Append(At(now, guess[a], Window[r]), now)]
                            ELSE guess
  <1> DEFINE ids == Identities(a, k, n)
             known(kept) == {i \in ids : <<i, r>> \in kept}
             hits(kept) == [i \in ids |-> IF i \in known(kept) THEN Recent(bucket[<<i, r>>], r) ELSE <<>>]
             full(kept) == {i \in known(kept) : Len(hits(kept)[i]) >= LimitFor(i, r)}
             charged(kept) == IF full(kept) = {} THEN ids ELSE {}
  <1>1. PICK kept \in Sweeps :
           /\ bucket' = [x \in kept \cup {<<i, r>> : i \in charged(kept)} |->
                           IF x[2] # r \/ x[1] \notin ids THEN bucket[x]
                           ELSE IF x[1] \in charged(kept) THEN Append(hits(kept)[x[1]], now)
                           ELSE hits(kept)[x[1]]]
           /\ lastSweep' = IF Due THEN now ELSE lastSweep
           /\ dropped' = dropped \cup {b \in Callers : \E x \in Dropped(kept) : x[1] = <<"ip", b>>}
           /\ reply' = IF full(kept) = {}
                       THEN [is |-> "passed", who |-> ids, rule |-> r,
                             left |-> Min({Left(hits(kept)[i], i, r) : i \in ids}), until |-> 0]
                       ELSE [is |-> "refused", who |-> ids, rule |-> r, left |-> 0,
                             until |-> now + Max({1, Min({hits(kept)[i][1] + Window[r] - now : i \in full(kept)}) + 1})]
           /\ guess' = IF full(kept) = {} /\ r = "authentication" /\ a \notin dropped'
                       THEN [guess EXCEPT ![a] = Append(Recent(guess[a], r), now)] ELSE guess
           /\ UNCHANGED now
    BY DEF Request
  <1>2. \A i \in ids : hits(kept)[i] = Held(kept, i, r)
    BY RecentAt DEF Held
  <1>3. full(kept) = Exhausted(kept, ids, r)
    <2>1. kept \subseteq Hits
      BY SweepLeaves DEF RateInv
    <2>2. ASSUME NEW i \in ids, <<i, r>> \notin kept PROVE ~(Len(Held(kept, i, r)) >= LimitFor(i, r))
      <3>1. Len(Held(kept, i, r)) = 0
        BY <2>1, <2>2, HeldKept
      <3>2. LimitFor(i, r) \in Nat /\ LimitFor(i, r) > 0
        BY RateConstants
      <3> QED BY <3>1, <3>2
    <2> HIDE DEF ids, hits
    <2> QED BY <1>2, <2>2 DEF Exhausted
  <1> HIDE DEF ids, known, hits, full
  <1>4. Hits' = kept \cup {<<i, r>> : i \in charged(kept)}
    BY <1>1 DEF Hits
  <1>5. \A x \in Hits' : x[2] # r \/ x[1] \notin ids => bucket'[x] = bucket[x]
    BY <1>1, <1>4
  <1>6. \A i \in ids : <<i, r>> \in Hits' =>
           bucket'[<<i, r>>] = IF full(kept) = {} THEN Append(Held(kept, i, r), now) ELSE Held(kept, i, r)
    BY <1>1, <1>2, <1>4
  <1>7. lastSweep' \in 0..now /\ now' = now
    <2>1. now \in Nat /\ lastSweep \in 0..now /\ now \in 0..now
      BY RateConstants DEF RateInv
    <2> QED BY <1>1, <2>1
  <1>8. full(kept) = {} => reply' = [is |-> "passed", who |-> ids, rule |-> r,
             left |-> Min({Left(Held(kept, i, r), i, r) : i \in ids}), until |-> 0]
    <2>1. {Left(hits(kept)[i], i, r) : i \in ids} = {Left(Held(kept, i, r), i, r) : i \in ids}
      BY <1>2
    <2> QED BY <1>1, <2>1
  <1>9. full(kept) # {} => reply' = [is |-> "refused", who |-> ids, rule |-> r, left |-> 0,
             until |-> now + Max({1, Min({Wait(kept, i, r) : i \in full(kept)}) + 1})]
    <2>1. full(kept) \subseteq ids
      BY <1>3 DEF Exhausted
    <2>2. {hits(kept)[i][1] + Window[r] - now : i \in full(kept)} = {Wait(kept, i, r) : i \in full(kept)}
      BY <1>2, <2>1 DEF Wait
    <2> QED BY <1>1, <2>2
  <1>10. guess' = IF full(kept) = {} /\ r = "authentication" /\ a \notin dropped'
                  THEN [guess EXCEPT ![a] = Append(At(now, guess[a], Window[r]), now)] ELSE guess
    <2>1. Recent(guess[a], r) = At(now, guess[a], Window[r])
      BY RecentAt
    <2> QED BY <1>1, <2>1
  <1>11. dropped' = dropped \cup {b \in Callers : \E x \in Dropped(kept) : x[1] = <<"ip", b>>}
    BY <1>1
  <1> WITNESS kept \in Sweeps
  <1> QED BY <1>3, <1>4, <1>5, <1>6, <1>7, <1>8, <1>9, <1>10, <1>11 DEF ids

LEMMA LeastTwo ==
    ASSUME NEW w \in Nat
    PROVE  Min({w}) = w /\ Max({1, w + 1}) \in Nat /\ w + 1 <= Max({1, w + 1})
  <1>1. Min({w}) \in {w}
    BY Least
  <1>2. \E x \in {1, w + 1} : \A y \in {1, w + 1} : x >= y
    OBVIOUS
  <1>3. Max({1, w + 1}) \in {1, w + 1} /\ \A y \in {1, w + 1} : Max({1, w + 1}) >= y
    BY <1>2 DEF Max
  <1> QED BY <1>1, <1>3

LEMMA RequestKept ==
    ASSUME RateInv, NEW a \in Callers, NEW k, NEW n, NEW r \in RuleNames, Request(a, k, n, r)
    PROVE  RateInv'
  <1> DEFINE ids == Identities(a, k, n)
             ip(b) == <<"ip", b>>
             full(kept) == Exhausted(kept, ids, r)
             paid(kept) == {<<i, r>> : i \in IF full(kept) = {} THEN ids ELSE {}}
  <1>1. PICK kept \in Sweeps :
           /\ now' = now /\ lastSweep' \in 0..now
           /\ Hits' = kept \cup paid(kept)
           /\ \A x \in Hits' : x[2] # r \/ x[1] \notin ids => bucket'[x] = bucket[x]
           /\ \A i \in ids : <<i, r>> \in Hits' =>
                bucket'[<<i, r>>] = IF full(kept) = {} THEN Append(Held(kept, i, r), now)
                                    ELSE Held(kept, i, r)
           /\ dropped' = dropped \cup
                {b \in Callers : \E x \in Dropped(kept) : x[1] = <<"ip", b>>}
           /\ full(kept) = {} => reply' = [is |-> "passed", who |-> ids, rule |-> r,
                left |-> Min({Left(Held(kept, i, r), i, r) : i \in ids}), until |-> 0]
           /\ full(kept) # {} => reply' = [is |-> "refused", who |-> ids, rule |-> r, left |-> 0,
                until |-> now + Max({1, Min({Wait(kept, i, r) : i \in full(kept)}) + 1})]
           /\ guess' = IF full(kept) = {} /\ r = "authentication" /\ a \notin dropped'
                       THEN [guess EXCEPT ![a] = Append(At(now, guess[a], Window[r]), now)]
                       ELSE guess
    BY RequestSays
  <1>2. /\ kept \subseteq Hits /\ IsFiniteSet(kept)
        /\ Cardinality(kept) \in Nat /\ Cardinality(kept) <= MaxBuckets
        /\ \A x \in Hits \ kept : Idle(bucket[x]) \/ x \in Dropped(kept)
    BY SweepLeaves DEF RateInv
  <1>3. /\ ip(a) \in ids
        /\ \A b \in Callers : ip(b) \in ids => b = a
        /\ IsFiniteSet(ids)
    <2>1. ip(a) \in ids /\ \A b : ip(b) \in ids => b = a
      BY DEF Identities
    <2>2. ids \subseteq {ip(a)} \cup ({<<"key", k>>} \cup {<<"auth", n>>})
      BY DEF Identities
    <2>3. IsFiniteSet({ip(a)} \cup ({<<"key", k>>} \cup {<<"auth", n>>}))
      BY FS_Singleton, FS_Union
    <2> QED BY <2>1, <2>2, <2>3, FS_Subset
  <1>4. \A i : /\ Held(kept, i, r) \in Seq(Nat) /\ UpToNow(Held(kept, i, r), now)
               /\ Newest(Held(kept, i, r)) /\ Counts(Held(kept, i, r), now, Window[r])
               /\ Len(Held(kept, i, r)) \in Nat /\ Len(Held(kept, i, r)) <= LimitFor(i, r)
               /\ LimitFor(i, r) \in Nat /\ LimitFor(i, r) > 0
               /\ <<i, r>> \notin kept => Held(kept, i, r) = <<>> /\ Len(Held(kept, i, r)) = 0
    BY <1>2, HeldKept, RateConstants
  <1>5. /\ now \in Nat /\ now' \in 0..MaxTime /\ lastSweep' \in 0..now' /\ dropped' \subseteq Callers
        /\ Window[r] \in Nat /\ Window[r] > 0 /\ Attempts \in Nat
    BY <1>1, RateConstants DEF RateInv, Attempts, RuleNames
  <1>6. IsFiniteSet(Hits') /\ Cardinality(Hits') <= MaxBuckets + 3
    <2>1. /\ IsFiniteSet(paid(kept)) /\ Cardinality(paid(kept)) \in Nat
          /\ Cardinality(paid(kept)) <= 3
      <3> DEFINE S == IF full(kept) = {} THEN ids ELSE {}
      <3>1. S \in SUBSET ids
        OBVIOUS
      <3>2. paid(kept) = Places(S, r)
        BY DEF Places
      <3> HIDE DEF S, paid
      <3>3. /\ IsFiniteSet(Places(S, r)) /\ Cardinality(Places(S, r)) \in Nat
            /\ Cardinality(Places(S, r)) <= 3
        BY <3>1, IdentitiesFew
      <3> QED BY <3>2, <3>3
    <2> HIDE DEF paid
    <2>2. /\ IsFiniteSet(kept \cup paid(kept))
          /\ Cardinality(kept \cup paid(kept)) = Cardinality(kept) + Cardinality(paid(kept))
                                               - Cardinality(kept \cap paid(kept))
          /\ Cardinality(kept \cap paid(kept)) \in Nat
      BY <1>2, <2>1, FS_Union, FS_Intersection, FS_CardinalityType
    <2> QED BY <1>1, <1>2, <2>1, <2>2, RateConstants
  <1> HIDE DEF ids, full
  <1>7. \A i \in ids : /\ full(kept) = {} => Len(Held(kept, i, r)) < LimitFor(i, r)
                       /\ full(kept) = {} => <<i, r>> \in Hits'
    <2> SUFFICES ASSUME NEW i \in ids, full(kept) = {}
                 PROVE  Len(Held(kept, i, r)) < LimitFor(i, r) /\ <<i, r>> \in Hits'
      OBVIOUS
    <2>1. ~(Len(Held(kept, i, r)) >= LimitFor(i, r))
      BY DEF full, Exhausted
    <2> QED BY <1>1, <1>4, <2>1
  <1>8. \A i \in ids : <<i, r>> \in Hits' =>
           LET s == bucket'[<<i, r>>]
           IN /\ s = IF full(kept) = {} THEN Append(Held(kept, i, r), now) ELSE Held(kept, i, r)
              /\ s \in Seq(Nat) /\ UpToNow(s, now) /\ Newest(s) /\ At(now, s, Window[r]) = s
              /\ Len(s) = IF full(kept) = {} THEN Len(Held(kept, i, r)) + 1 ELSE Len(Held(kept, i, r))
    <2> SUFFICES ASSUME NEW i \in ids, <<i, r>> \in Hits'
                 PROVE  LET s == bucket'[<<i, r>>]
                        IN /\ s = IF full(kept) = {} THEN Append(Held(kept, i, r), now) ELSE Held(kept, i, r)
                           /\ s \in Seq(Nat) /\ UpToNow(s, now) /\ Newest(s) /\ At(now, s, Window[r]) = s
                           /\ Len(s) = IF full(kept) = {} THEN Len(Held(kept, i, r)) + 1 ELSE Len(Held(kept, i, r))
      OBVIOUS
    <2> DEFINE t == Held(kept, i, r)
               u == Append(t, now)
    <2>1. t \in Seq(Nat) /\ UpToNow(t, now) /\ Newest(t) /\ Counts(t, now, Window[r])
      BY <1>4
    <2>2. At(now, t, Window[r]) = t
      <3>1. CASE <<i, r>> \in kept
        <4>1. bucket[<<i, r>>] \in Seq(Nat)
          BY <1>2, <3>1 DEF RateInv, BucketOf
        <4>2. At(now, At(now, bucket[<<i, r>>], Window[r]), Window[r]) = At(now, bucket[<<i, r>>], Window[r])
          BY <1>5, <4>1, AtAgain
        <4> QED BY <3>1, <4>2 DEF Held
      <3>2. CASE <<i, r>> \notin kept
        <4>1. <<>> \in Seq(Nat) /\ Past(now, <<>>, Window[r], Len(<<>>))
          BY EmptySeq DEF Past
        <4>2. At(now, <<>>, Window[r]) = <<>>
          BY <1>5, <4>1, AtNone
        <4> QED BY <3>2, <4>2 DEF Held
      <3> QED BY <3>1, <3>2
    <2> HIDE DEF t
    <2>3. u \in Seq(Nat) /\ Len(u) = Len(t) + 1 /\ UpToNow(u, now) /\ Newest(u) /\ At(now, u, Window[r]) = u
      BY <1>5, <2>1, ChargedKept
    <2> HIDE DEF u
    <2>4. bucket'[<<i, r>>] = IF full(kept) = {} THEN u ELSE t
      BY <1>1 DEF t, u
    <2>5. CASE full(kept) = {}
      <3>1. bucket'[<<i, r>>] = u
        BY <2>4, <2>5
      <3> QED BY <2>3, <2>5, <3>1 DEF t, u
    <2>6. CASE full(kept) # {}
      <3>1. bucket'[<<i, r>>] = t
        BY <2>4, <2>6
      <3> QED BY <2>1, <2>2, <2>6, <3>1 DEF t
    <2> QED BY <2>5, <2>6
  <1>9. ASSUME NEW x \in Hits' PROVE BucketOf(bucket', x, now')
    <2>1. x \in kept \/ \E i \in ids : x = <<i, r>>
      BY <1>1
    <2>2. x = <<x[1], x[2]>> /\ x[2] \in RuleNames
      BY <1>2, <2>1 DEF RateInv, BucketOf
    <2>3. CASE x[2] # r \/ x[1] \notin ids
      <3>1. x \in kept /\ bucket'[x] = bucket[x]
        BY <1>1, <2>1, <2>3
      <3> QED BY <1>1, <1>2, <3>1 DEF RateInv, BucketOf
    <2>4. ASSUME NEW i \in ids, x = <<i, r>> PROVE BucketOf(bucket', x, now')
      <3> DEFINE s == bucket'[<<i, r>>]
      <3>1. /\ s \in Seq(Nat) /\ UpToNow(s, now) /\ Newest(s)
            /\ Len(s) = IF full(kept) = {} THEN Len(Held(kept, i, r)) + 1 ELSE Len(Held(kept, i, r))
        BY <1>8, <2>4
      <3> HIDE DEF s
      <3>2. Len(s) <= LimitFor(i, r)
        <4> DEFINE h == Len(Held(kept, i, r))
                   m == LimitFor(i, r)
        <4>1. h \in Nat /\ m \in Nat /\ h <= m /\ (full(kept) = {} => h < m)
          BY <1>4, <1>7
        <4>2. Len(s) = IF full(kept) = {} THEN h + 1 ELSE h
          BY <3>1
        <4> HIDE DEF h, m
        <4>3. Len(s) <= m
          BY <4>1, <4>2
        <4> QED BY <4>3 DEF m
      <3>3. bucket'[x] = s /\ x[1] = i
        BY <2>4 DEF s
      <3>4. LimitFor(x[1], x[2]) = LimitFor(i, r)
        BY <2>4
      <3> QED BY <1>1, <2>2, <3>1, <3>2, <3>3, <3>4 DEF BucketOf
    <2> QED BY <2>2, <2>3, <2>4
  <1>10. guess' \in [Callers -> Seq(Nat)]
    <2>1. guess \in [Callers -> Seq(Nat)] /\ guess[a] \in Seq(Nat)
      BY DEF RateInv
    <2>2. At(now, guess[a], Window[r]) \in Seq(Nat)
      <3>1. <<>> \in Seq(Nat)
        BY EmptySeq
      <3> QED BY <1>5, <2>1, <3>1, AtCases
    <2>3. Append(At(now, guess[a], Window[r]), now) \in Seq(Nat)
      BY <1>5, <2>2, AppendProperties
    <2> QED BY <1>1, <2>1, <2>3
  <1>11. ASSUME NEW b \in Callers \ dropped'
         PROVE  At(now, guess'[b], Attempts) = Remembered(b)'
    <2> DEFINE x == Place(b)
               i == ip(b)
    <2>1. x = <<i, "authentication">> /\ x[1] = i /\ x[2] = "authentication"
      BY DEF Place
    <2>2. b \notin dropped /\ x \notin Dropped(kept) /\ guess \in [Callers -> Seq(Nat)]
      BY <1>1, <2>1 DEF RateInv
    <2>3. At(now, guess[b], Attempts)
             = IF x \in kept THEN At(now, bucket[x], Attempts) ELSE <<>>
      <3>1. At(now, guess[b], Attempts) = Remembered(b)
        BY <2>2 DEF RateInv
      <3>2. CASE x \in Hits \ kept
        <4>1. Idle(bucket[x]) /\ bucket[x] \in Seq(Nat) /\ Newest(bucket[x])
          BY <1>2, <2>2, <3>2 DEF RateInv, BucketOf
        <4>2. At(now, bucket[x], Attempts) = <<>>
          <5>1. "authentication" \in RuleNames
            BY DEF RuleNames
          <5> HIDE DEF x
          <5> QED BY <1>5, <4>1, <5>1, IdleNone DEF Attempts
        <4> QED BY <3>1, <3>2, <4>2 DEF Remembered
      <3> QED BY <1>2, <3>1, <3>2 DEF Remembered
    <2>4. Remembered(b)' = IF x \in Hits' THEN At(now, bucket'[x], Attempts) ELSE <<>>
      BY <1>1 DEF Remembered, Place, Attempts
    <2>5. ASSUME r # "authentication" \/ i \notin ids
          PROVE  At(now, guess'[b], Attempts) = Remembered(b)'
      <3>1. guess'[b] = guess[b]
        BY <1>1, <1>3, <2>2, <2>5
      <3>2. x \in Hits' <=> x \in kept
        BY <1>1, <2>1, <2>5
      <3>3. x \in Hits' => bucket'[x] = bucket[x]
        BY <1>1, <2>1, <2>5
      <3> HIDE DEF x
      <3> QED BY <2>3, <2>4, <3>1, <3>2, <3>3
    <2>6. ASSUME r = "authentication", i \in ids
          PROVE  At(now, guess'[b], Attempts) = Remembered(b)'
      <3>1. b = a /\ x = <<i, r>> /\ Attempts = Window[r]
        BY <1>3, <2>1, <2>6 DEF Attempts
      <3>2. At(now, guess[b], Attempts) = Held(kept, i, r)
        BY <2>3, <3>1 DEF Held
      <3>3. x \in Hits' => At(now, bucket'[x], Attempts) = bucket'[x]
        BY <1>8, <2>6, <3>1
      <3>4. CASE full(kept) = {}
        <4>1. x \in Hits' /\ bucket'[x] = Append(Held(kept, i, r), now)
          BY <1>7, <1>8, <2>6, <3>1, <3>4
        <4>2. guess'[b] = Append(Held(kept, i, r), now)
          BY <1>1, <2>2, <2>6, <3>1, <3>2, <3>4
        <4> QED BY <2>4, <4>1, <4>2
      <3>5. CASE full(kept) # {}
        <4>1. guess' = guess /\ Hits' = kept
          BY <1>1, <3>5
        <4>2. CASE x \in kept
          <5>1. bucket'[x] = Held(kept, i, r)
            BY <1>8, <2>6, <3>1, <3>5, <4>1, <4>2
          <5> QED BY <2>4, <3>2, <3>3, <4>1, <4>2, <5>1
        <4>3. CASE x \notin kept
          BY <2>3, <2>4, <4>1, <4>3
        <4> QED BY <4>2, <4>3
      <3> QED BY <3>4, <3>5
    <2> QED BY <2>5, <2>6
  <1>12. reply'.is \in {"passed", "refused"} /\ reply'.rule = r /\ reply'.who = ids
         /\ (reply'.is = "passed" <=> full(kept) = {})
    BY <1>1
  <1>13. ASSUME full(kept) = {}
         PROVE  reply'.left > 0 <=> Room(reply.who, reply.rule)'
    <2> DEFINE S == {Left(Held(kept, i, r), i, r) : i \in ids}
    <2>1. \A i \in ids : Left(Held(kept, i, r), i, r) = LimitFor(i, r) - Len(Held(kept, i, r)) - 1
      BY DEF Left
    <2>2. ASSUME NEW i \in ids
          PROVE  /\ Left(Held(kept, i, r), i, r) \in Nat
                 /\ Left(Held(kept, i, r), i, r) > 0 <=> Len(Held(kept, i, r)) + 1 < LimitFor(i, r)
      <3> DEFINE h == Len(Held(kept, i, r))
                 m == LimitFor(i, r)
      <3>1. h \in Nat /\ m \in Nat /\ h < m
        BY <1>4, <1>7, <1>13
      <3>2. Left(Held(kept, i, r), i, r) = m - h - 1
        BY <2>1
      <3> HIDE DEF h, m
      <3>3. m - h - 1 \in Nat /\ (m - h - 1 > 0 <=> h + 1 < m)
        BY <3>1
      <3> QED BY <3>2, <3>3 DEF h, m
    <2>3. S \in SUBSET Nat /\ S # {}
      BY <1>3, <2>2
    <2>4. reply'.left = Min(S)
      BY <1>1, <1>13
    <2>5. Min(S) > 0 <=> \A i \in ids : Left(Held(kept, i, r), i, r) > 0
      <3>1. Min(S) \in S /\ \A m \in S : Min(S) <= m
        <4> HIDE DEF S
        <4> QED BY <2>3, Least
      <3>2. Min(S) \in Nat
        BY <2>3, <3>1
      <3>3. \A i \in ids : Min(S) <= Left(Held(kept, i, r), i, r)
        BY <3>1
      <3>4. PICK j \in ids : Min(S) = Left(Held(kept, j, r), j, r)
        BY <3>1
      <3> HIDE DEF S
      <3> QED BY <2>2, <3>2, <3>3, <3>4
    <2>6. Room(reply.who, reply.rule)' <=>
             \A i \in ids : \/ <<i, r>> \notin Hits'
                            \/ Len(At(now, bucket'[<<i, r>>], Window[r])) < LimitFor(i, r)
      BY <1>1, <1>12 DEF Room, Recent, At, LimitFor
    <2>7. \A i \in ids : /\ <<i, r>> \in Hits'
                         /\ Len(At(now, bucket'[<<i, r>>], Window[r])) = Len(Held(kept, i, r)) + 1
      BY <1>7, <1>8, <1>13
    <2> HIDE DEF S
    <2> QED BY <2>2, <2>4, <2>5, <2>6, <2>7
  <1>14. ASSUME full(kept) # {}, Cardinality(ids) = 1
         PROVE  Freed'
    <2> DEFINE i == ip(a)
               t == Held(kept, i, r)
               w == Wait(kept, i, r)
    <2>1. ids = {i}
      <3>1. \E y : ids = {y}
        BY <1>3, <1>14, FS_Singleton
      <3> QED BY <1>3, <3>1
    <2>2. full(kept) = {i}
      BY <1>14, <2>1 DEF full, Exhausted
    <2>3. t \in Seq(Nat) /\ Len(t) \in Nat /\ Len(t) > 0 /\ t # <<>>
      <3>1. Len(t) >= LimitFor(i, r) /\ LimitFor(i, r) \in Nat /\ LimitFor(i, r) > 0
            /\ t \in Seq(Nat) /\ Len(t) \in Nat
        BY <1>4, <2>2 DEF full, Exhausted
      <3>2. Len(t) > 0
        BY <3>1
      <3> HIDE DEF t
      <3> QED BY <3>1, <3>2, EmptySeq
    <2>4. w \in Nat /\ now + w = t[1] + Window[r]
      <3>1. t[1] + Window[r] > now
        BY <1>4, <2>3 DEF Counts
      <3>2. t[1] \in Nat
        <4> HIDE DEF t
        <4> QED BY <2>3, ElementOfSeq
      <3>3. w = t[1] + Window[r] - now
        BY DEF Wait
      <3> HIDE DEF t, w
      <3> QED BY <1>5, <3>1, <3>2, <3>3
    <2>5. reply'.until = now + Max({1, Min({w}) + 1})
      <3>1. {Wait(kept, j, r) : j \in full(kept)} = {w}
        BY <2>2
      <3>2. reply' = [is |-> "refused", who |-> ids, rule |-> r, left |-> 0,
                until |-> now + Max({1, Min({Wait(kept, j, r) : j \in full(kept)}) + 1})]
        BY <1>1, <1>14
      <3>3. reply'.until = now + Max({1, Min({Wait(kept, j, r) : j \in full(kept)}) + 1})
        BY <3>2
      <3> HIDE DEF w
      <3> QED BY <3>1, <3>3
    <2>6. t[1] + Window[r] + 1 <= reply'.until /\ reply'.until \in Nat
      <3> HIDE DEF w
      <3>1. Min({w}) = w /\ Max({1, w + 1}) \in Nat /\ w + 1 <= Max({1, w + 1})
        BY <2>4, LeastTwo
      <3>2. reply'.until = now + Max({1, w + 1})
        BY <2>5, <3>1
      <3> DEFINE z == Max({1, w + 1})
      <3>3. z \in Nat /\ w + 1 <= z /\ reply'.until = now + z
        BY <3>1, <3>2
      <3> HIDE DEF z, t
      <3> QED BY <1>5, <2>4, <3>3
    <2>7. <<i, r>> \in Hits' => bucket'[<<i, r>>] = t
      BY <1>8, <1>14, <2>1
    <2> HIDE DEF i, t
    <2>8. \A j \in ids : <<j, r>> \in Hits' => bucket'[<<j, r>>][1] + Window[r] + 1 <= reply'.until
      BY <2>1, <2>6, <2>7
    <2> QED BY <1>12, <2>6, <2>8 DEF Freed
  <1>15. /\ \A c \in Callers \ dropped' : At(now, guess[c], Attempts)' = Remembered(c)'
         /\ \A x \in Hits' : BucketOf(bucket', x, now')
    BY <1>1, <1>9, <1>11 DEF Attempts
  <1>16. /\ reply'.is = "passed" => (reply'.left > 0 <=> Room(reply.who, reply.rule)')
         /\ reply'.is = "refused" /\ Cardinality(reply'.who) = 1 => Freed'
    BY <1>12, <1>13, <1>14
  <1> QED BY <1>1, <1>5, <1>6, <1>10, <1>12, <1>15, <1>16 DEF RateInv

LEMMA RateInductive == RateSpec => []RateInv
  <1>1. RateInit => RateInv
    BY RateInitInv
  <1>2. RateInv /\ [RateNext]_rateVars => RateInv'
    <2> SUFFICES ASSUME RateInv, [RateNext]_rateVars PROVE RateInv'
      OBVIOUS
    <2>1. CASE \E a \in Callers, k \in Keys \cup {Anonymous}, n \in Bearers \cup {Anonymous},
                  r \in RuleNames : Request(a, k, n, r)
      BY <2>1, RequestKept
    <2>2. CASE Tick
      BY <2>2, TickKept
    <2>3. CASE UNCHANGED rateVars
      <3>1. UNCHANGED <<now, bucket, lastSweep, reply, guess, dropped>> /\ Hits' = Hits
        BY <2>3 DEF rateVars, Hits
      <3>2. \A x \in Hits' : BucketOf(bucket', x, now')
        BY <3>1 DEF RateInv
      <3>3. \A a \in Callers \ dropped' : At(now, guess[a], Attempts)' = Remembered(a)'
        <4>1. \A a \in Callers \ dropped : At(now, guess[a], Attempts) = Remembered(a)
          BY DEF RateInv
        <4>2. \A a : Remembered(a)' = Remembered(a)
          BY <3>1 DEF Remembered, Place, Attempts
        <4> QED BY <3>1, <4>1, <4>2 DEF Attempts
      <3>4. reply'.is = "passed" => (reply'.left > 0 <=> Room(reply.who, reply.rule)')
        <4>1. Room(reply.who, reply.rule)' = Room(reply.who, reply.rule)
          BY <3>1 DEF Room, Recent, LimitFor
        <4> QED BY <3>1, <4>1 DEF RateInv
      <3>5. reply'.is = "refused" /\ Cardinality(reply'.who) = 1 => Freed'
        <4>1. Freed' <=> Freed
          BY <3>1 DEF Freed
        <4> QED BY <3>1, <4>1 DEF RateInv
      <3> QED BY <3>1, <3>2, <3>3, <3>4, <3>5 DEF RateInv
    <2> QED BY <2>1, <2>2, <2>3 DEF RateNext
  <1> QED BY <1>1, <1>2, PTL DEF RateSpec

(* An address that was never dropped for want of room is let through to no *)
(* more checks of a credential in any window than the rule allows,         *)
(* whatever keys and sessions it makes up (ratelimit.check).               *)
THEOREM GuessesAreBounded == RateSpec => []GuessesBounded
  <1>1. RateInv => GuessesBounded
    <2> SUFFICES ASSUME RateInv PROVE GuessesBounded
      OBVIOUS
    <2>1. TypeOK
      <3>1. ASSUME NEW x \in Hits
            PROVE  x[2] \in RuleNames /\ \A j \in DOMAIN bucket[x] : bucket[x][j] \in 0..now
        <4>1. bucket[x] \in Seq(Nat) /\ UpToNow(bucket[x], now) /\ x[2] \in RuleNames
          BY DEF RateInv, BucketOf
        <4>2. DOMAIN bucket[x] = 1..Len(bucket[x]) /\ \A j \in 1..Len(bucket[x]) : bucket[x][j] \in Nat
          BY <4>1, LenProperties, ElementOfSeq
        <4>3. now \in Nat
          BY RateConstants DEF RateInv
        <4> QED BY <4>1, <4>2, <4>3 DEF UpToNow
      <3> QED BY <3>1 DEF TypeOK, RateInv
    <2>2. ASSUME NEW a \in Callers \ dropped
          PROVE  Len(Recent(guess[a], "authentication")) <= AddressLimit["authentication"]
      <3>1. Recent(guess[a], "authentication") = Remembered(a)
        BY RecentAt DEF RateInv, Attempts
      <3>2. /\ now \in Nat /\ Attempts \in Nat /\ "authentication" \in RuleNames
            /\ LimitFor(<<"ip", a>>, "authentication") = AddressLimit["authentication"]
        BY RateConstants DEF RateInv, Attempts, RuleNames, LimitFor
      <3>3. AddressLimit["authentication"] \in Nat
        BY <3>2, RateConstants
      <3>4. CASE Place(a) \in Hits
        <4> DEFINE s == bucket[Place(a)]
        <4>1. /\ s \in Seq(Nat) /\ UpToNow(s, now) /\ Newest(s)
              /\ Len(s) <= AddressLimit["authentication"]
          <5>1. BucketOf(bucket, Place(a), now)
            BY <3>4 DEF RateInv
          <5>2. Place(a)[1] = <<"ip", a>> /\ Place(a)[2] = "authentication"
            BY DEF Place
          <5> QED BY <3>2, <5>1, <5>2 DEF BucketOf
        <4>2. Remembered(a) = At(now, s, Attempts)
          BY <3>4 DEF Remembered
        <4> HIDE DEF s
        <4>3. At(now, s, Attempts) \in Seq(Nat) /\ Len(At(now, s, Attempts)) <= Len(s)
          BY <3>2, <4>1, WindowKept
        <4>4. Len(At(now, s, Attempts)) \in Nat /\ Len(s) \in Nat
          BY <4>1, <4>3, LenProperties
        <4> QED BY <3>1, <3>3, <4>1, <4>2, <4>3, <4>4
      <3>5. CASE Place(a) \notin Hits
        <4>1. Remembered(a) = <<>> /\ Len(<<>>) = 0
          BY <3>5, EmptySeq DEF Remembered
        <4> QED BY <3>1, <3>3, <4>1
      <3> QED BY <3>4, <3>5
    <2> QED BY <2>1, <2>2 DEF GuessesBounded, RateInv
  <1> QED BY <1>1, RateInductive, PTL

(* What the last answer says is left agrees with what the next request of  *)
(* the same caller is told, and a caller that waits until Retry-After with *)
(* nothing but its address is let through (headers in ratelimit.py).       *)
THEOREM HeadersAreHonest == RateSpec => []HeadersHonest
  <1>1. RateInv => HeadersHonest
    <2> SUFFICES ASSUME RateInv, reply.is = "refused", Cardinality(reply.who) = 1, now >= reply.until
                 PROVE  Room(reply.who, reply.rule)
      BY DEF RateInv, HeadersHonest
    <2> DEFINE r == reply.rule
    <2>1. SUFFICES ASSUME NEW i \in reply.who, <<i, r>> \in Hits
                   PROVE  Len(Recent(bucket[<<i, r>>], r)) < LimitFor(i, r)
      BY DEF Room
    <2> DEFINE s == bucket[<<i, r>>]
               w == Window[r]
               m == LimitFor(i, r)
    <2>2. /\ s \in Seq(Nat) /\ Len(s) \in Nat /\ Len(s) <= m
          /\ m \in Nat /\ m > 0 /\ w \in Nat /\ now \in Nat
      <3>1. BucketOf(bucket, <<i, r>>, now) /\ r \in RuleNames
        BY <2>1 DEF RateInv
      <3> QED BY <3>1, RateConstants, LenProperties DEF RateInv, BucketOf
    <2>3. (s = <<>> \/ s[1] + w + 1 <= reply.until) /\ reply.until \in Nat
      BY <2>1 DEF RateInv, Freed
    <2>4. Recent(s, r) = At(now, s, w)
      BY RecentAt
    <2> HIDE DEF s, w, m
    <2>5. CASE s = <<>>
      <3>1. Past(now, <<>>, w, Len(<<>>)) /\ <<>> \in Seq(Nat) /\ Len(<<>>) = 0
        BY EmptySeq DEF Past
      <3>2. At(now, <<>>, w) = <<>>
        BY <2>2, <3>1, AtNone
      <3> QED BY <2>2, <2>4, <2>5, <3>1, <3>2 DEF s, m
    <2>6. CASE s # <<>>
      <3>1. s[1] + w <= now
        <4>1. 1 \in 1..Len(s)
          BY <2>2, <2>6, EmptySeq
        <4>2. s[1] \in Nat
          BY <2>2, <4>1, ElementOfSeq
        <4> QED BY <2>2, <2>3, <2>6, <4>2
      <3>2. Len(At(now, s, w)) < Len(s)
        BY <2>2, <2>6, <3>1, FirstPast
      <3>3. At(now, s, w) \in Seq(Nat)
        <4>1. <<>> \in Seq(Nat)
          BY EmptySeq
        <4> QED BY <2>2, <4>1, AtCases
      <3>4. Len(At(now, s, w)) \in Nat
        BY <3>3, LenProperties
      <3>5. Len(At(now, s, w)) < m
        BY <2>2, <3>2, <3>4
      <3> QED BY <2>4, <3>5 DEF s, m
    <2> QED BY <2>5, <2>6
  <1> QED BY <1>1, RateInductive, PTL
=============================================================================
