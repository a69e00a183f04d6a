------------------------- MODULE ContainerTreeProofs ------------------------
(* Theorems about ContainerTree, for every tree and any number of sessions:*)
(* types, whose verdict a row may carry, and that an undisturbed session   *)
(* misses nothing.  The last rests on AloneInv, which follows the one walk *)
(* up and the one walk down the tree; its measure is the number of a row,  *)
(* smaller than that of anything inside it.                                *)
EXTENDS ContainerTree, WellFoundedInduction, TLAPS

-----------------------------------------------------------------------------
(* Choosing the worst of some rows.                                        *)

(* A bounded quantity has a maximum over any set.                          *)
LEMMA Maximum ==
    ASSUME NEW D, D # {}, NEW f, NEW n \in Nat, \A d \in D : f[d] \in 0..n
    PROVE  \E d \in D : \A e \in D : f[d] >= f[e]
  <1> DEFINE T == {n - f[d] : d \in D}
             R == {ss \in Nat \X Nat : ss[1] < ss[2]}
  <1>1. IsWellFoundedOn(R, Nat)
    BY NatLessThanWellFounded DEF OpToRel
  <1>2. T \subseteq Nat /\ T # {}
    OBVIOUS
  <1>3. PICK x \in T : \A y \in T : ~(<<y, x>> \in R)
    <2> HIDE DEF R, T
    <2> QED BY <1>1, <1>2, WFMin
  <1>4. \A y \in T : y >= x
    <2> SUFFICES ASSUME NEW y \in T PROVE y >= x
      OBVIOUS
    <2>1. x \in Nat /\ y \in Nat
      BY <1>2
    <2>2. <<y, x>> \notin R
      BY <1>3
    <2>3. ~(y < x)
      <3> HIDE DEF T
      <3> QED BY <2>1, <2>2 DEF R
    <2> QED BY <2>1, <2>3
  <1>5. PICK d \in D : x = n - f[d]
    BY DEF T
  <1>6. \A e \in D : n - f[e] >= n - f[d]
    BY <1>4, <1>5
  <1> QED BY <1>6

InScope(r, c) == /\ r.verdict.by \in {c} \cup Below[c]
                 /\ \E d \in {c} \cup Below[c] : \E g \in Grades[d] : r.score = g.score

(* With a score below 101 one sum orders by rank first, then by score.     *)
LEMMA RankFirst ==
    ASSUME NEW a \in 0..2, NEW b \in 0..2, NEW x \in 0..100, NEW y \in 0..100,
           101 * a + x >= 101 * b + y
    PROVE  a > b \/ (a = b /\ x >= y)
  <1>1. CASE a = 0
    BY <1>1
  <1>2. CASE a = 1
    BY <1>2
  <1>3. CASE a = 2
    BY <1>3
  <1> QED BY <1>1, <1>2, <1>3

(* The worst file is one of the files, and no other is worse.              *)
LEMMA WorstOfSome ==
    ASSUME NEW D \in SUBSET Jobs, D # {}, NEW copy, \A d \in D : copy[d] \in Row
    PROVE  /\ Worst(D, copy) \in D
           /\ \E d \in D : HighestScore(D, copy) = copy[d].score
           /\ \A d \in D : /\ HighestScore(D, copy) >= copy[d].score
                          /\ copy[Worst(D, copy)].verdict.rank >= copy[d].verdict.rank
  <1>1. \A d \in D : copy[d].score \in 0..100 /\ copy[d].verdict.rank \in 0..2
    BY DEF Row, Score, Rank
  <1>2. \E d \in D : \A e \in D : copy[d].score >= copy[e].score
    <2> DEFINE f == [d \in D |-> copy[d].score]
    <2>1. \A d \in D : f[d] \in 0..100
      BY <1>1
    <2>2. \E d \in D : \A e \in D : f[d] >= f[e]
      <3> HIDE DEF f
      <3> QED BY <2>1, Maximum
    <2> QED BY <2>2
  <1>3. \E d \in D : \A e \in D :
           \/ copy[d].verdict.rank > copy[e].verdict.rank
           \/ copy[d].verdict.rank = copy[e].verdict.rank /\ copy[d].score >= copy[e].score
    <2> DEFINE f == [d \in D |-> 101 * copy[d].verdict.rank + copy[d].score]
    <2>1. \A d \in D : f[d] \in 0..302
      BY <1>1
    <2>2. \E d \in D : \A e \in D : f[d] >= f[e]
      <3> HIDE DEF f
      <3>1. 302 \in Nat
        OBVIOUS
      <3> QED BY ONLY <2>1, <3>1, D # {}, Maximum
    <2>3. PICK d \in D : \A e \in D : f[d] >= f[e]
      <3> HIDE DEF f
      <3> QED BY <2>2
    <2>4. ASSUME NEW e \in D
          PROVE  \/ copy[d].verdict.rank > copy[e].verdict.rank
                 \/ copy[d].verdict.rank = copy[e].verdict.rank /\ copy[d].score >= copy[e].score
      <3>1. 101 * copy[d].verdict.rank + copy[d].score >= 101 * copy[e].verdict.rank + copy[e].score
        BY <2>3
      <3>2. /\ copy[d].score \in 0..100 /\ copy[d].verdict.rank \in 0..2
            /\ copy[e].score \in 0..100 /\ copy[e].verdict.rank \in 0..2
        BY <1>1
      <3> HIDE DEF f
      <3> QED BY <3>1, <3>2, RankFirst
    <2> QED BY <2>4
  <1>4. Worst(D, copy) \in D
    BY <1>3 DEF Worst
  <1>5. (CHOOSE d \in D : \A e \in D : copy[d].score >= copy[e].score) \in D
    BY <1>2
  <1>6. \A d \in D : HighestScore(D, copy) >= copy[d].score
    BY <1>2 DEF HighestScore
  <1>7. \A d \in D : copy[Worst(D, copy)].verdict.rank >= copy[d].verdict.rank
    <2>1. \A e \in D :
             \/ copy[Worst(D, copy)].verdict.rank > copy[e].verdict.rank
             \/ /\ copy[Worst(D, copy)].verdict.rank = copy[e].verdict.rank
                /\ copy[Worst(D, copy)].score >= copy[e].score
      BY <1>3 DEF Worst
    <2> QED BY <1>1, <1>4, <2>1
  <1> QED BY <1>4, <1>5, <1>6, <1>7 DEF HighestScore

LEMMA OwnInScope ==
    ASSUME NEW j \in Jobs, NEW g \in Grades[j]
    PROVE  Own(j, g) \in Row /\ InScope(Own(j, g), j)
  <1>1. g \in Grade
    BY GradesAssumption
  <1> QED BY <1>1 DEF Own, Row, Grade, InScope

(* Inheritance keeps a row within the container and its contents.          *)
LEMMA RaisedInScope ==
    ASSUME NEW c \in Jobs, NEW r \in Row, InScope(r, c), NEW copy,
           \A d \in Below[c] : copy[d] \in Row /\ InScope(copy[d], d)
    PROVE  Raised(r, Below[c], copy) \in Row /\ InScope(Raised(r, Below[c], copy), c)
  <1> DEFINE D == Below[c]
             w == Worst(D, copy)
             score == IF D # {} /\ HighestScore(D, copy) > r.score
                      THEN HighestScore(D, copy) ELSE r.score
             verdict == IF D # {} /\ copy[w].verdict.rank > r.verdict.rank
                        THEN [rank |-> copy[w].verdict.rank, by |-> w] ELSE r.verdict
             new == [r EXCEPT !.score = score, !.verdict = verdict]
  <1>1. Raised(r, D, copy) = new
    BY DEF Raised
  <1>2. D \in SUBSET Jobs /\ \A d \in D : Below[d] \subseteq D
    BY BelowAssumption
  <1>3. score \in Score /\ \E d \in {c} \cup D : \E g \in Grades[d] : score = g.score
    <2>1. CASE D # {} /\ HighestScore(D, copy) > r.score
      <3>1. PICK d \in D : HighestScore(D, copy) = copy[d].score
        BY <1>2, <2>1, WorstOfSome
      <3>2. score = copy[d].score
        BY <2>1, <3>1
      <3>3. copy[d].score \in Score
        BY DEF Row
      <3>4. \E e \in {d} \cup Below[d] : \E g \in Grades[e] : copy[d].score = g.score
        BY DEF InScope
      <3> QED BY <1>2, <3>2, <3>3, <3>4
    <2>2. CASE ~(D # {} /\ HighestScore(D, copy) > r.score)
      BY <2>2 DEF Row, InScope
    <2> QED BY <2>1, <2>2
  <1>4. verdict \in [rank : Rank, by : Jobs] /\ verdict.by \in {c} \cup D
    <2>1. CASE D # {} /\ copy[w].verdict.rank > r.verdict.rank
      <3>1. w \in D
        BY <1>2, <2>1, WorstOfSome
      <3>2. copy[w].verdict.rank \in Rank
        BY <3>1 DEF Row
      <3> QED BY <1>2, <2>1, <3>1, <3>2
    <2>2. CASE ~(D # {} /\ copy[w].verdict.rank > r.verdict.rank)
      BY <2>2 DEF Row, InScope
    <2> QED BY <2>1, <2>2
  <1>5. new \in Row /\ InScope(new, c)
    <2> HIDE DEF score, verdict
    <2> QED BY <1>3, <1>4 DEF Row, InScope
  <1> QED BY <1>1, <1>5

-----------------------------------------------------------------------------
(* The inductive invariant.                                                *)

(* What a run is about to enter has been read: its job at the start, each  *)
(* member when its container was entered.                                  *)
ReadAhead(x) ==
    /\ x.job \in Jobs => x.now[x.job] # Unread
    /\ \A e \in x.entered : \A m \in Members(e) : x.now[m] # Unread

(* What holds of a session: its copies are rows, within their containers.  *)
Good(x) ==
    /\ x \in Session
    /\ ReadAhead(x)
    /\ \A k \in Jobs : /\ x.base[k] = Unread <=> x.now[k] = Unread
                       /\ k \in x.entered => x.now[k] # Unread
                       /\ x.now[k] # Unread => InScope(x.now[k], k)

RowsGood == row \in [Jobs -> Row] /\ \A c \in Jobs : InScope(row[c], c)

IInv == /\ RowsGood
        /\ session \in [Sessions -> Session]
        /\ \A s \in Sessions : Good(session[s])
        /\ alone \subseteq Sessions

LEMMA UnreadIsNoRow == Unread \notin Row
  BY DEF Unread, Row

LEMMA FreeIsGood == Good(Free)
  <1>1. Nothing \in Copies /\ \A k \in Jobs : Nothing[k] = Unread
    BY DEF Nothing, Copies
  <1>2. 0 \notin Jobs
    BY JobsAssumption
  <1> QED BY <1>1, <1>2 DEF Good, ReadAhead, Free, Session

LEMMA InitIInv == Init => IInv
  <1> SUFFICES ASSUME Init PROVE IInv
    OBVIOUS
  <1>1. \A j \in Jobs : Own(j, Unremarkable) \in Row /\ InScope(Own(j, Unremarkable), j)
    BY OwnInScope, GradesAssumption
  <1>2. RowsGood
    BY <1>1 DEF Init, RowsGood
  <1>3. Free \in Session
    BY FreeIsGood DEF Good
  <1> QED BY <1>2, <1>3, FreeIsGood DEF Init, IInv

(* Rows that are read are rows.                                            *)
LEMMA ReadCopies ==
    ASSUME RowsGood, NEW copy \in Copies, NEW S \in SUBSET Jobs
    PROVE  /\ Read(copy, S) \in Copies
           /\ \A k \in Jobs : Read(copy, S)[k] = Unread <=> copy[k] = Unread /\ k \notin S
           /\ (\A k \in Jobs : copy[k] # Unread => InScope(copy[k], k))
              => \A k \in Jobs : Read(copy, S)[k] # Unread => InScope(Read(copy, S)[k], k)
  <1>1. \A k \in Jobs : /\ row[k] \in Row /\ row[k] # Unread /\ InScope(row[k], k)
                        /\ copy[k] \in Row \cup {Unread}
    BY UnreadIsNoRow DEF RowsGood, Copies
  <1>2. \A k \in Jobs : Read(copy, S)[k] = IF k \in S /\ copy[k] = Unread THEN row[k] ELSE copy[k]
    BY DEF Read
  <1>3. Read(copy, S) \in Copies
    BY <1>1 DEF Read, Copies
  <1> QED BY <1>1, <1>2, <1>3

(* A step that changes one session and no row.                             *)
LEMMA SessionStep ==
    ASSUME IInv, NEW s \in Sessions, NEW x, Good(x),
           session' = [session EXCEPT ![s] = x], row' = row, alone' \subseteq Sessions
    PROVE  IInv'
  <1>1. RowsGood'
    BY DEF IInv, RowsGood
  <1>2. x \in Session
    BY DEF Good
  <1>3. session' \in [Sessions -> Session]
    BY <1>2 DEF IInv
  <1>4. \A t \in Sessions : Good(session'[t])
    BY DEF IInv
  <1> QED BY <1>1, <1>3, <1>4 DEF IInv, Good

LEMMA CommitStep ==
    ASSUME IInv, NEW s \in Sessions, Commit(s)
    PROVE  IInv'
  <1> DEFINE x == session[s]
             new == [k \in Jobs |-> Flush(x.base[k], x.now[k], row[k])]
  <1>1. \A k \in Jobs : new[k] \in Row /\ InScope(new[k], k)
    <2> SUFFICES ASSUME NEW k \in Jobs
                 PROVE  new[k] \in Row /\ InScope(new[k], k)
      OBVIOUS
    <2>1. row[k] \in Row /\ InScope(row[k], k)
      BY DEF IInv, RowsGood
    <2>2. /\ x.base[k] = Unread <=> x.now[k] = Unread
          /\ x.now[k] # Unread => x.now[k] \in Row /\ InScope(x.now[k], k)
      <3>1. Good(x)
        BY DEF IInv
      <3>2. x.now[k] \in Row \cup {Unread}
        BY <3>1 DEF Good, Session, Copies
      <3> QED BY <3>1, <3>2 DEF Good
    <2>3. CASE x.now[k] = Unread
      <3>1. new[k] = [status |-> row[k].status, score |-> row[k].score,
                      verdict |-> row[k].verdict]
        BY <2>2, <2>3 DEF Flush, Written
      <3> QED BY <2>1, <3>1 DEF Row, InScope
    <2>4. CASE x.now[k] # Unread
      <3> DEFINE now == x.now[k]
      <3>1. /\ new[k].status \in {now.status, row[k].status}
            /\ new[k].score \in {now.score, row[k].score}
            /\ new[k].verdict \in {now.verdict, row[k].verdict}
            /\ new[k] = [status |-> new[k].status, score |-> new[k].score,
                         verdict |-> new[k].verdict]
        BY DEF Flush, Written
      <3>2. now \in Row /\ InScope(now, k)
        BY <2>2, <2>4
      <3> HIDE DEF new, now
      <3>3. new[k] \in Row
        BY <2>1, <3>1, <3>2 DEF Row
      <3>4. InScope(new[k], k)
        BY <2>1, <3>1, <3>2 DEF InScope
      <3> QED BY <3>3, <3>4
    <2> QED BY <2>3, <2>4
  <1>2. row' = new /\ session' = [session EXCEPT ![s] = Free] /\ alone' = {}
    BY DEF Commit
  <1>3. RowsGood'
    <2>1. row' \in [Jobs -> Row]
      BY <1>1, <1>2
    <2> QED BY <1>1, <1>2, <2>1 DEF RowsGood, InScope
  <1>4. Free \in Session /\ Good(Free)
    BY FreeIsGood DEF Good
  <1>5. session' \in [Sessions -> Session] /\ \A t \in Sessions : Good(session'[t])
    BY <1>2, <1>4 DEF IInv
  <1> QED BY <1>2, <1>3, <1>5 DEF IInv, Good

-----------------------------------------------------------------------------
(* One lemma per action.                                                   *)

LEMMA OpenStep ==
    ASSUME IInv, NEW s \in Sessions, NEW kind \in {"report", "run"}, NEW j \in Jobs,
           NEW at \in Jobs \cup {0}, NEW new \in Row, InScope(new, j),
           Open(s, kind, j, at, new)
    PROVE  IInv'
  <1> DEFINE base == [Nothing EXCEPT ![j] = row[j]]
             now == [Nothing EXCEPT ![j] = new]
             x == [Free EXCEPT !.kind = kind, !.job = j, !.at = at, !.base = base, !.now = now]
  <1>1. row[j] \in Row /\ row[j] # Unread /\ new # Unread
    BY UnreadIsNoRow DEF IInv, RowsGood
  <1>2. \A k \in Jobs : /\ base[k] = IF k = j THEN row[j] ELSE Unread
                        /\ now[k] = IF k = j THEN new ELSE Unread
    BY DEF Nothing
  <1>3. base \in Copies /\ now \in Copies
    BY <1>1 DEF Nothing, Copies
  <1>4. session' = [session EXCEPT ![s] = x] /\ row' = row /\ alone' = alone \cup {s}
    BY DEF Open, Free
  <1> HIDE DEF base, now
  <1>5. /\ x \in Session /\ x.job = j
        /\ x.base = base /\ x.now = now /\ x.entered = {}
    <2>1. Free \in Session
      BY FreeIsGood DEF Good
    <2>2. Free.entered = {}
      BY DEF Free
    <2> HIDE DEF Free
    <2> QED BY <1>3, <2>1, <2>2 DEF Session
  <1>6. Good(x)
    <2> HIDE DEF x
    <2>1. ReadAhead(x)
      BY <1>1, <1>2, <1>5 DEF ReadAhead
    <2> QED BY <1>1, <1>2, <1>5, <2>1 DEF Good
  <1> HIDE DEF x
  <1>7. alone' \subseteq Sessions
    BY <1>4 DEF IInv
  <1> QED BY <1>4, <1>6, <1>7, SessionStep

Rated(r, c, copy) == [copy EXCEPT ![c] = Raised(r, Below[c], copy)]

(* The copies base and new may become those of session x.                  *)
Follow(x, base, new) ==
    /\ base \in Copies /\ new \in Copies
    /\ \A k \in Jobs : /\ base[k] = Unread <=> new[k] = Unread
                       /\ x.now[k] # Unread => new[k] # Unread
                       /\ new[k] # Unread => InScope(new[k], k)

(* Rating a row that the session has, once its contents are read.          *)
LEMMA RateCopy ==
    ASSUME RowsGood, NEW x, Good(x), NEW c \in Jobs, NEW S \in SUBSET Jobs,
           Below[c] \subseteq S, NEW r \in Row, InScope(r, c),
           c \in S \/ x.now[c] # Unread
    PROVE  Follow(x, Read(x.base, S), Rated(r, c, Read(x.now, S)))
  <1> DEFINE base == Read(x.base, S)
             now == Read(x.now, S)
             new == Rated(r, c, now)
             raised == Raised(r, Below[c], now)
  <1>1. x.base \in Copies /\ x.now \in Copies
    BY DEF Good, Session
  <1>2. /\ base \in Copies /\ now \in Copies
        /\ \A k \in Jobs : /\ base[k] = Unread <=> x.base[k] = Unread /\ k \notin S
                           /\ now[k] = Unread <=> x.now[k] = Unread /\ k \notin S
                           /\ now[k] # Unread => InScope(now[k], k)
    <2>1. \A k \in Jobs : x.now[k] # Unread => InScope(x.now[k], k)
      BY DEF Good
    <2> QED BY <1>1, <2>1, ReadCopies
  <1>3. \A d \in Below[c] : now[d] \in Row /\ InScope(now[d], d)
    <2>1. Below[c] \subseteq Jobs
      BY BelowAssumption
    <2>2. \A d \in Below[c] : now[d] # Unread
      BY <1>2, <2>1
    <2> QED BY <1>2, <2>1, <2>2 DEF Copies
  <1>4. raised \in Row /\ InScope(raised, c)
    BY <1>3, RaisedInScope
  <1>5. raised # Unread
    BY <1>4, UnreadIsNoRow
  <1>6. new \in Copies /\ \A k \in Jobs : new[k] = IF k = c THEN raised ELSE now[k]
    <2>1. new = [now EXCEPT ![c] = raised]
      BY DEF Rated
    <2> HIDE DEF raised, new, now
    <2> QED BY <1>2, <1>4, <2>1 DEF Copies
  <1>7. \A k \in Jobs : /\ base[k] = Unread <=> new[k] = Unread
                        /\ x.now[k] # Unread => new[k] # Unread
                        /\ new[k] # Unread => InScope(new[k], k)
    <2>1. c \in S => base[c] # Unread
      BY <1>2
    <2>2. \A k \in Jobs : x.base[k] = Unread <=> x.now[k] = Unread
      BY DEF Good
    <2>3. base[c] # Unread
      BY <1>2, <2>1, <2>2
    <2> HIDE DEF raised, new, now, base
    <2> QED BY <1>2, <1>4, <1>5, <1>6, <2>2, <2>3
  <1>8. base \in Copies /\ new \in Copies
    BY <1>2, <1>6
  <1> HIDE DEF raised, new, now, base
  <1> QED BY <1>7, <1>8 DEF Follow, base, now, new

LEMMA InheritStep ==
    ASSUME IInv, NEW s \in Sessions, Inherit(s)
    PROVE  IInv'
  <1> DEFINE x == session[s]
             c == x.at
             S == {c} \cup Below[c]
             base == Read(x.base, S)
             now == Read(x.now, S)
             new == [now EXCEPT ![c] = Raised(now[c], Below[c], now)]
             n == [x EXCEPT !.at = Parent[c], !.base = base, !.now = new]
  <1>1. Good(x) /\ x \in Session /\ RowsGood
    BY DEF IInv, Good
  <1>2. c \in Jobs /\ Parent[c] \in Jobs \cup {0} /\ S \in SUBSET Jobs
    BY <1>1, JobsAssumption, BelowAssumption DEF Inherit, Session
  <1>3. now[c] \in Row /\ InScope(now[c], c)
    <2>1. \A k \in Jobs : x.now[k] # Unread => InScope(x.now[k], k)
      BY <1>1 DEF Good
    <2>2. /\ now \in Copies
          /\ now[c] # Unread
          /\ \A k \in Jobs : now[k] # Unread => InScope(now[k], k)
      <3>1. x.now \in Copies
        BY <1>1 DEF Session
      <3>2. /\ now \in Copies
            /\ \A k \in Jobs : now[k] = Unread <=> x.now[k] = Unread /\ k \notin S
            /\ \A k \in Jobs : now[k] # Unread => InScope(now[k], k)
        <4> HIDE DEF S, c
        <4> QED BY <1>1, <1>2, <2>1, <3>1, ReadCopies
      <3> QED BY <1>2, <3>2
    <2> QED BY <1>2, <2>2 DEF Copies
  <1>4. /\ base \in Copies /\ new \in Copies
        /\ \A k \in Jobs : /\ base[k] = Unread <=> new[k] = Unread
                           /\ x.now[k] # Unread => new[k] # Unread
                           /\ new[k] # Unread => InScope(new[k], k)
    <2>1. Below[c] \subseteq S /\ c \in S
      OBVIOUS
    <2>2. Follow(x, Read(x.base, S), Rated(now[c], c, Read(x.now, S)))
      <3> HIDE DEF S, c, now
      <3> QED BY <1>1, <1>2, <1>3, <2>1, RateCopy
    <2> QED BY <2>2 DEF Follow, Rated
  <1>5. /\ session' = [session EXCEPT ![s].at = Parent[c], ![s].base = base, ![s].now = new]
        /\ row' = row /\ alone' = alone
    BY DEF Inherit, Descendants
  <1> HIDE DEF base, new
  <1>6. session' = [session EXCEPT ![s] = n]
    BY <1>5 DEF IInv
  <1>7. Good(n)
    <2>1. n \in Session
      BY <1>1, <1>2, <1>4 DEF Session
    <2>2. n.base = base /\ n.now = new /\ n.entered = x.entered /\ n.job = x.job
      BY <1>1 DEF Session
    <2>3. ReadAhead(n)
      BY <1>1, <1>4, <2>2 DEF Good, ReadAhead, Members
    <2> QED BY <1>1, <1>4, <2>1, <2>2, <2>3 DEF Good
  <1> HIDE DEF n
  <1> QED BY <1>5, <1>6, <1>7, SessionStep DEF IInv

LEMMA EnterStep ==
    ASSUME IInv, NEW s \in Sessions, NEW k \in Jobs, Enter(s, k)
    PROVE  IInv'
  <1> DEFINE x == session[s]
             base == Read(x.base, Members(k))
             now == Read(x.now, Members(k))
             n == [x EXCEPT !.entered = x.entered \cup {k}, !.base = base, !.now = now]
  <1>1. Good(x) /\ x \in Session /\ RowsGood
    BY DEF IInv, Good
  <1>2. Members(k) \in SUBSET Jobs
    BY DEF Members
  <1>3. /\ base \in Copies /\ now \in Copies
        /\ \A i \in Jobs : /\ base[i] = Unread <=> x.base[i] = Unread /\ i \notin Members(k)
                           /\ now[i] = Unread <=> x.now[i] = Unread /\ i \notin Members(k)
                           /\ now[i] # Unread => InScope(now[i], i)
    <2>1. \A i \in Jobs : x.now[i] # Unread => InScope(x.now[i], i)
      BY <1>1 DEF Good
    <2>2. x.base \in Copies /\ x.now \in Copies
      BY <1>1 DEF Session
    <2> QED BY <1>1, <1>2, <2>1, <2>2, ReadCopies
  <1>4. x.now[k] # Unread
    BY <1>1 DEF Good, ReadAhead, Enter, Reachable, Going, Members
  <1>5. /\ session' = [session EXCEPT ![s].entered = x.entered \cup {k}, ![s].base = base,
                                      ![s].now = now]
        /\ row' = row /\ alone' = alone
    BY DEF Enter, Entered
  <1> HIDE DEF base, now
  <1>6. session' = [session EXCEPT ![s] = n]
    BY <1>5 DEF IInv
  <1>7. Good(n)
    <2>1. n \in Session
      BY <1>1, <1>3 DEF Session
    <2>2. n.base = base /\ n.now = now /\ n.entered = x.entered \cup {k} /\ n.job = x.job
      BY <1>1 DEF Session
    <2>3. \A i \in Jobs : x.base[i] # Unread <=> x.now[i] # Unread
      BY <1>1 DEF Good
    <2>4. ReadAhead(n)
      BY <1>1, <1>3, <2>2 DEF Good, ReadAhead, Members
    <2> QED BY <1>1, <1>3, <1>4, <2>1, <2>2, <2>3, <2>4 DEF Good
  <1> HIDE DEF n
  <1> QED BY <1>5, <1>6, <1>7, SessionStep DEF IInv

LEMMA CompleteStep ==
    ASSUME IInv, NEW s \in Sessions, NEW k \in Jobs, NEW g \in Grades[k], Complete(s, k, g)
    PROVE  IInv'
  <1> DEFINE x == session[s]
             base == Read(x.base, Below[k])
             now == Read(x.now, Below[k])
             new == [now EXCEPT ![k] = Raised(Own(k, g), Below[k], now)]
             n == [x EXCEPT !.done = x.done \cup {k}, !.base = base, !.now = new]
  <1>1. Good(x) /\ x \in Session /\ RowsGood
    BY DEF IInv, Good
  <1>2. x.now[k] # Unread /\ Below[k] \in SUBSET Jobs
    BY <1>1, BelowAssumption DEF Good, Complete, Going
  <1>3. Own(k, g) \in Row /\ InScope(Own(k, g), k)
    BY OwnInScope
  <1>4. /\ base \in Copies /\ new \in Copies
        /\ \A i \in Jobs : /\ base[i] = Unread <=> new[i] = Unread
                           /\ x.now[i] # Unread => new[i] # Unread
                           /\ new[i] # Unread => InScope(new[i], i)
    <2>1. Follow(x, Read(x.base, Below[k]), Rated(Own(k, g), k, Read(x.now, Below[k])))
      BY <1>1, <1>2, <1>3, RateCopy
    <2> QED BY <2>1 DEF Follow, Rated
  <1>5. /\ session' = [session EXCEPT ![s].done = x.done \cup {k}, ![s].base = base,
                                      ![s].now = new]
        /\ row' = row /\ alone' = alone
    BY DEF Complete, Descendants
  <1> HIDE DEF base, new
  <1>6. session' = [session EXCEPT ![s] = n]
    BY <1>5 DEF IInv
  <1>7. Good(n)
    <2>1. n \in Session
      BY <1>1, <1>4 DEF Session
    <2>2. n.base = base /\ n.now = new /\ n.entered = x.entered /\ n.job = x.job
      BY <1>1 DEF Session
    <2>3. ReadAhead(n)
      BY <1>1, <1>4, <2>2 DEF Good, ReadAhead, Members
    <2> QED BY <1>1, <1>4, <2>1, <2>2, <2>3 DEF Good
  <1> HIDE DEF n
  <1> QED BY <1>5, <1>6, <1>7, SessionStep DEF IInv

LEMMA FailStep ==
    ASSUME IInv, NEW s \in Sessions, NEW k \in Jobs, Fail(s, k)
    PROVE  IInv'
  <1> DEFINE x == session[s]
             failed == [x.now[k] EXCEPT !.status = "failed"]
             new == [x.now EXCEPT ![k] = failed]
             n == [x EXCEPT !.done = x.done \cup {k}, !.now = new]
  <1>1. Good(x) /\ x \in Session /\ x.now \in Copies
    BY DEF IInv, Good, Session
  <1>2. x.now[k] # Unread
    BY <1>1 DEF Good, Fail, Going
  <1>3. x.now[k] \in Row /\ InScope(x.now[k], k)
    BY <1>1, <1>2 DEF Copies, Good
  <1>4. failed \in Row /\ failed # Unread /\ InScope(failed, k)
    <2>1. failed \in Row
      BY <1>3 DEF Row
    <2>2. InScope(failed, k)
      BY <1>3 DEF Row, InScope
    <2> QED BY <2>1, <2>2, UnreadIsNoRow
  <1>5. /\ session' = [session EXCEPT ![s].done = x.done \cup {k}, ![s].now[k].status = "failed"]
        /\ row' = row /\ alone' = alone
    BY DEF Fail
  <1>6. session' = [session EXCEPT ![s] = n]
    BY <1>5 DEF IInv
  <1> HIDE DEF failed
  <1>7. new \in Copies /\ \A i \in Jobs : new[i] = IF i = k THEN failed ELSE x.now[i]
    BY <1>1, <1>4 DEF Copies
  <1> HIDE DEF new
  <1>8. Good(n)
    <2>1. n \in Session
      BY <1>1, <1>7 DEF Session
    <2>2. n.base = x.base /\ n.now = new /\ n.entered = x.entered /\ n.job = x.job
      BY <1>1 DEF Session
    <2>3. \A i \in Jobs : new[i] = Unread <=> x.now[i] = Unread
      BY <1>2, <1>4, <1>7
    <2>4. ReadAhead(n)
      BY <1>1, <2>2, <2>3 DEF Good, ReadAhead, Members
    <2> QED BY <1>1, <1>4, <1>7, <2>1, <2>2, <2>3, <2>4 DEF Good
  <1> HIDE DEF n
  <1> QED BY <1>5, <1>6, <1>8, SessionStep DEF IInv

LEMMA NextIInv == IInv /\ [Next]_vars => IInv'
  <1> SUFFICES ASSUME IInv, [Next]_vars PROVE IInv'
    OBVIOUS
  <1>1. CASE UNCHANGED vars
    BY <1>1 DEF vars, IInv, RowsGood, Good, ReadAhead
  <1>2. ASSUME NEW s \in Sessions, EndReport(s) \/ EndRun(s) PROVE IInv'
    BY <1>2, CommitStep DEF EndReport, EndRun
  <1>3. ASSUME NEW s \in Sessions, NEW j \in Jobs, NEW g \in Grades[j], Report(s, j, g)
        PROVE  IInv'
    <2>1. Own(j, g) \in Row /\ InScope(Own(j, g), j) /\ Parent[j] \in Jobs \cup {0}
      BY OwnInScope, JobsAssumption
    <2> QED BY <1>3, <2>1, OpenStep DEF Report
  <1>4. ASSUME NEW s \in Sessions, NEW j \in Jobs, Reanalyze(s, j) PROVE IInv'
    <2>1. row[j] \in Row /\ InScope(row[j], j)
      BY DEF IInv, RowsGood
    <2> QED BY <1>4, <2>1, OpenStep DEF Reanalyze
  <1>5. CASE Next
    BY <1>2, <1>3, <1>4, <1>5, InheritStep, EnterStep, CompleteStep, FailStep DEF Next
  <1> QED BY <1>1, <1>5

-----------------------------------------------------------------------------
(* Every row keeps its type; what a session has entered it has read.       *)
THEOREM TypeCorrect == Spec => []TypeOK
  <1>1. IInv => TypeOK
    BY DEF IInv, RowsGood, Good, TypeOK
  <1> QED BY InitIInv, NextIInv, <1>1, PTL DEF Spec

(* Whatever sessions overlap, a container is never accused of what is not  *)
(* in it: its verdict names, and its score is the score of, a file of its  *)
(* own subtree.  Each session carries this in the copies it has raised.    *)
THEOREM NobodyElsesVerdict == Spec => []AccusedOnlyByContents
  <1>1. IInv => AccusedOnlyByContents
    BY DEF IInv, RowsGood, InScope, AccusedOnlyByContents
  <1> QED BY InitIInv, NextIInv, <1>1, PTL DEF Spec
-----------------------------------------------------------------------------
(* What a session that nobody disturbs leaves behind.                      *)

AtLeast(a, b) == a.score >= b.score /\ a.verdict.rank >= b.verdict.rank

(* The rows after the commit of these copies, were it to come now.         *)
Result(now) == [k \in Jobs |-> IF now[k] = Unread THEN row[k] ELSE now[k]]

(* What the session has read is what is committed.                         *)
Fresh(x) == \A k \in Jobs : x.base[k] # Unread => x.base[k] = row[k]

(* A report of a file that holds nothing is on its way up: a container     *)
(* above its job is still to be visited, or covers its contents and is     *)
(* below what will be changed.                                             *)
Climbs(x) ==
    /\ x.job \in Jobs /\ Below[x.job] = {}
    /\ x.at # 0 => x.job \in Below[x.at]
    /\ \A c \in Jobs : x.job \in Below[c] =>
          \/ x.at # 0 /\ (c = x.at \/ x.at \in Below[c])
          \/ x.at < c /\ Covers(Result(x.now), c)
    /\ \A k \in Jobs \ {x.job} : x.now[k] # Unread => AtLeast(x.now[k], row[k])

(* A run works from its job down and back: what it is at work on stands in *)
(* a container it is at work on, so that the job is done last.             *)
Descending(x) ==
    /\ x.job \in Jobs /\ x.done \subseteq x.entered
    /\ \A k \in x.entered \ x.done : k = x.job \/ Parent[k] \in x.entered \ x.done
    /\ x.job \in x.done /\ x.now[x.job].status = "completed" => Covers(Result(x.now), x.job)

Undisturbed(x) == /\ Fresh(x)
                  /\ x.kind = "report" => Climbs(x)
                  /\ x.kind = "run" => Descending(x)
                  /\ x.kind # "run" => x.entered = {}

AloneInv == \A s \in alone : Undisturbed(session[s])

(* To raise a row to its contents makes it cover them, and lowers nothing. *)
LEMMA RaisedCovers ==
    ASSUME NEW c \in Jobs, NEW r \in Row, NEW copy, \A d \in Below[c] : copy[d] \in Row
    PROVE  /\ AtLeast(Raised(r, Below[c], copy), r)
           /\ \A d \in Below[c] : AtLeast(Raised(r, Below[c], copy), copy[d])
           /\ Raised(r, Below[c], copy).status = r.status
  <1> DEFINE D == Below[c]
             w == Worst(D, copy)
             score == IF D # {} /\ HighestScore(D, copy) > r.score
                      THEN HighestScore(D, copy) ELSE r.score
             verdict == IF D # {} /\ copy[w].verdict.rank > r.verdict.rank
                        THEN [rank |-> copy[w].verdict.rank, by |-> w] ELSE r.verdict
             new == [r EXCEPT !.score = score, !.verdict = verdict]
  <1>1. Raised(r, D, copy) = new
    BY DEF Raised
  <1>2. D \in SUBSET Jobs
    BY BelowAssumption
  <1>3. /\ r.score \in Score /\ r.verdict.rank \in Rank
        /\ \A d \in D : copy[d].score \in Score /\ copy[d].verdict.rank \in Rank
    BY DEF Row
  <1>4. D # {} => /\ w \in D /\ \E d \in D : HighestScore(D, copy) = copy[d].score
                  /\ \A d \in D : /\ HighestScore(D, copy) >= copy[d].score
                                  /\ copy[w].verdict.rank >= copy[d].verdict.rank
    BY <1>2, WorstOfSome
  <1>5. score >= r.score /\ \A d \in D : score >= copy[d].score
    <2>1. /\ r.score \in Nat /\ \A d \in D : copy[d].score \in Nat
          /\ D # {} => HighestScore(D, copy) \in Nat
      BY <1>3, <1>4 DEF Score
    <2>2. CASE D # {} /\ HighestScore(D, copy) > r.score
      BY <1>4, <2>1, <2>2
    <2>3. CASE D = {}
      BY <2>1, <2>3
    <2>4. CASE D # {} /\ ~(HighestScore(D, copy) > r.score)
      <3>1. score = r.score
        BY <2>4
      <3>2. PICK h \in Nat : h = HighestScore(D, copy)
        BY <2>1, <2>4
      <3>3. r.score >= h /\ \A d \in D : h >= copy[d].score
        BY <1>4, <2>1, <2>4, <3>2
      <3> HIDE DEF score
      <3> QED BY <2>1, <3>1, <3>3
    <2> QED BY <2>2, <2>3, <2>4
  <1>6. verdict.rank >= r.verdict.rank /\ \A d \in D : verdict.rank >= copy[d].verdict.rank
    BY <1>3, <1>4 DEF Rank
  <1>7. new.score = score /\ new.verdict = verdict /\ new.status = r.status
    <2> HIDE DEF score, verdict
    <2> QED BY DEF Row
  <1> HIDE DEF new, score, verdict
  <1> QED BY <1>1, <1>5, <1>6, <1>7 DEF AtLeast

LEMMA AboveIsSmaller ==
    /\ 0 \notin Jobs /\ Jobs \subseteq Nat
    /\ \A c \in Jobs : Below[c] \subseteq Jobs
    /\ \A c \in Jobs : \A k \in Below[c] : c < k /\ Parent[k] \in {c} \cup Below[c]
    /\ \A c \in Jobs : \A k \in Below[c] : c # k
    /\ \A k \in Jobs : /\ Parent[k] \in Jobs \cup {0}
                       /\ Parent[k] \in Jobs => k \in Below[Parent[k]]
                       /\ k \in Nat /\ Parent[k] \in Nat /\ Parent[k] < k
  <1>1. /\ 0 \notin Jobs /\ Jobs \subseteq Nat
        /\ \A k \in Jobs : Parent[k] \in Jobs \cup {0}
    BY JobsAssumption
  <1>2. /\ \A c \in Jobs : Below[c] \subseteq Jobs
        /\ \A c \in Jobs : \A k \in Below[c] : c < k /\ Parent[k] \in {c} \cup Below[c]
        /\ \A k \in Jobs : Parent[k] \in Jobs => k \in Below[Parent[k]]
    BY BelowAssumption
  <1>3. \A c \in Jobs : \A k \in Below[c] : c # k
    BY <1>1, <1>2
  <1>4. ASSUME NEW k \in Jobs PROVE k \in Nat /\ Parent[k] \in Nat /\ Parent[k] < k
    <2>1. CASE Parent[k] = 0
      <3>1. k \in Nat /\ k # 0
        BY <1>1
      <3> QED BY <2>1, <3>1
    <2>2. CASE Parent[k] \in Jobs
      BY <1>1, <1>2, <2>2
    <2> QED BY <1>1, <2>1, <2>2
  <1> QED BY <1>1, <1>2, <1>3, <1>4

LEMMA AtLeastOrders ==
    ASSUME NEW a \in Row, NEW b \in Row, NEW c \in Row
    PROVE  AtLeast(a, a) /\ (AtLeast(a, b) /\ AtLeast(b, c) => AtLeast(a, c))
  <1>1. /\ a.score \in Int /\ b.score \in Int /\ c.score \in Int
        /\ a.verdict.rank \in Int /\ b.verdict.rank \in Int /\ c.verdict.rank \in Int
    BY DEF Row, Score, Rank
  <1> QED BY <1>1 DEF AtLeast

(* The rating of one row changes nothing else of what the session leaves.  *)
LEMMA RatedResult ==
    ASSUME RowsGood, NEW x, Good(x), NEW c \in Jobs, NEW S \in SUBSET Jobs,
           Below[c] \subseteq S, NEW r \in Row, InScope(r, c),
           NEW new, new = Rated(r, c, Read(x.now, S))
    PROVE  /\ \A k \in Jobs \ {c} : Result(new)[k] = Result(x.now)[k]
           /\ \A k \in Jobs \ {c} : new[k] # Unread =>
                 new[k] = row[k] \/ (x.now[k] # Unread /\ new[k] = x.now[k])
           /\ new[c] # Unread /\ AtLeast(new[c], r) /\ new[c].status = r.status
           /\ Covers(Result(new), c)
  <1> DEFINE now == Read(x.now, S)
             raised == Raised(r, Below[c], now)
  <1>1. /\ x.now \in Copies
        /\ \A k \in Jobs : x.now[k] # Unread => x.now[k] \in Row /\ InScope(x.now[k], k)
        /\ \A k \in Jobs : row[k] \in Row /\ InScope(row[k], k)
    BY DEF Good, Session, Copies, RowsGood
  <1>2. \A k \in Jobs : now[k] = IF k \in S /\ x.now[k] = Unread THEN row[k] ELSE x.now[k]
    BY DEF Read
  <1>3. now \in Copies
    BY <1>1, ReadCopies
  <1> HIDE DEF now
  <1>4. \A d \in Below[c] : now[d] \in Row /\ InScope(now[d], d)
    BY <1>1, <1>2, AboveIsSmaller
  <1>5. /\ raised \in Row /\ raised # Unread /\ raised.status = r.status
        /\ AtLeast(raised, r) /\ \A d \in Below[c] : AtLeast(raised, now[d])
    BY <1>4, RaisedInScope, RaisedCovers, UnreadIsNoRow
  <1>6. \A k \in Jobs : new[k] = IF k = c THEN raised ELSE now[k]
    <2>1. new = [now EXCEPT ![c] = raised]
      BY DEF Rated, now
    <2> HIDE DEF raised
    <2> QED BY <1>3, <2>1 DEF Copies
  <1> HIDE DEF raised
  <1>7. \A k \in Jobs \ {c} : Result(new)[k] = Result(x.now)[k]
    BY <1>2, <1>6 DEF Result
  <1>8. \A d \in Below[c] : d \in Jobs \ {c} /\ Result(new)[d] = now[d]
    <2> SUFFICES ASSUME NEW d \in Below[c]
                 PROVE  d \in Jobs \ {c} /\ Result(new)[d] = now[d]
      OBVIOUS
    <2>1. d \in Jobs /\ d # c
      BY AboveIsSmaller
    <2>2. now[d] # Unread
      BY <1>4, UnreadIsNoRow
    <2> QED BY <1>6, <2>1, <2>2 DEF Result
  <1>9. Result(new)[c] = raised
    BY <1>5, <1>6 DEF Result
  <1>10. Covers(Result(new), c)
    BY <1>5, <1>8, <1>9 DEF Covers, AtLeast
  <1> QED BY <1>2, <1>5, <1>6, <1>7, <1>10

(* A step of session s that commits nothing.                               *)
LEMMA AloneStep ==
    ASSUME IInv, AloneInv, NEW s \in Sessions, NEW n,
           session' = [session EXCEPT ![s] = n], row' = row, alone' \subseteq alone \cup {s},
           s \in alone' => Undisturbed(n)
    PROVE  AloneInv'
  <1> SUFFICES ASSUME NEW t \in alone' PROVE Undisturbed(session[t])'
    BY DEF AloneInv
  <1>1. t = s \/ t \in alone
    OBVIOUS
  <1>2. alone \subseteq Sessions
    BY DEF IInv
  <1>3. session'[t] = IF t = s THEN n ELSE session[t]
    BY <1>1, <1>2 DEF IInv
  <1>4. Undisturbed(session'[t])
    BY <1>1, <1>3 DEF AloneInv
  <1> QED BY <1>4 DEF Undisturbed, Fresh, Climbs, Descending, Result

LEMMA OpenAlone ==
    ASSUME IInv, AloneInv, NEW s \in Sessions, NEW kind \in {"report", "run"}, NEW j \in Jobs,
           NEW at, NEW new, new # Unread, Open(s, kind, j, at, new),
           kind = "report" => at = Parent[j] /\ Below[j] = {}
    PROVE  AloneInv'
  <1> DEFINE base == [Nothing EXCEPT ![j] = row[j]]
             now == [Nothing EXCEPT ![j] = new]
             x == [Free EXCEPT !.kind = kind, !.job = j, !.at = at, !.base = base, !.now = now]
  <1>1. \A k \in Jobs : /\ base[k] = IF k = j THEN row[j] ELSE Unread
                        /\ now[k] = IF k = j THEN new ELSE Unread
    BY DEF Nothing
  <1>2. session' = [session EXCEPT ![s] = x] /\ row' = row /\ alone' = alone \cup {s}
    BY DEF Open, Free
  <1> HIDE DEF base, now
  <1>3. /\ x.kind = kind /\ x.job = j /\ x.at = at /\ x.base = base /\ x.now = now
        /\ x.entered = {} /\ x.done = {}
    BY DEF Free
  <1> HIDE DEF x
  <1>4. Fresh(x)
    BY <1>1, <1>3 DEF Fresh
  <1>5. ASSUME kind = "report" PROVE Climbs(x)
    <2>1. x.job = j /\ x.at = Parent[j] /\ Below[j] = {}
      BY <1>3, <1>5
    <2>2. Parent[j] \in Jobs \cup {0} /\ (Parent[j] \in Jobs => j \in Below[Parent[j]])
      BY AboveIsSmaller
    <2>3. \A c \in Jobs : j \in Below[c] => Parent[j] # 0 /\ Parent[j] \in {c} \cup Below[c]
      BY AboveIsSmaller
    <2>4. \A k \in Jobs \ {j} : x.now[k] = Unread
      BY <1>1, <1>3
    <2> QED BY <2>1, <2>2, <2>3, <2>4 DEF Climbs
  <1>6. kind = "run" => Descending(x)
    BY <1>3 DEF Descending
  <1> QED BY <1>2, <1>3, <1>4, <1>5, <1>6, AloneStep DEF Undisturbed

LEMMA InheritAlone ==
    ASSUME IInv, AloneInv, NEW s \in Sessions, Inherit(s)
    PROVE  AloneInv'
  <1> DEFINE x == session[s]
             c == x.at
             S == {c} \cup Below[c]
             base == Read(x.base, S)
             now == Read(x.now, S)
             new == [now EXCEPT ![c] = Raised(now[c], Below[c], now)]
             n == [x EXCEPT !.at = Parent[c], !.base = base, !.now = new]
  <1>1. Good(x) /\ x \in Session /\ RowsGood /\ x.kind = "report"
    BY DEF IInv, Good, Inherit
  <1>2. c \in Jobs /\ Parent[c] \in Jobs \cup {0} /\ S \in SUBSET Jobs
    BY <1>1, AboveIsSmaller DEF Inherit, Session
  <1>3. now[c] = (IF x.now[c] = Unread THEN row[c] ELSE x.now[c])
        /\ now[c] \in Row /\ InScope(now[c], c)
    <2>1. now[c] = IF x.now[c] = Unread THEN row[c] ELSE x.now[c]
      BY <1>2 DEF Read
    <2>2. row[c] \in Row /\ InScope(row[c], c)
      BY <1>1, <1>2 DEF RowsGood
    <2>3. x.now[c] # Unread => x.now[c] \in Row /\ InScope(x.now[c], c)
      <3>1. x.now \in Copies
        BY <1>1 DEF Session
      <3> QED BY <1>1, <1>2, <3>1 DEF Good, Copies
    <2> HIDE DEF now
    <2> QED BY <2>1, <2>2, <2>3
  <1>4. /\ session' = [session EXCEPT ![s].at = Parent[c], ![s].base = base, ![s].now = new]
        /\ row' = row /\ alone' = alone
    BY DEF Inherit, Descendants
  <1>5. /\ \A k \in Jobs \ {c} : Result(new)[k] = Result(x.now)[k]
        /\ \A k \in Jobs \ {c} : new[k] # Unread =>
              new[k] = row[k] \/ (x.now[k] # Unread /\ new[k] = x.now[k])
        /\ new[c] # Unread /\ AtLeast(new[c], now[c])
        /\ Covers(Result(new), c)
    <2>1. Below[c] \subseteq S
      OBVIOUS
    <2>2. new = Rated(now[c], c, Read(x.now, S))
      BY DEF Rated
    <2> HIDE DEF S, c, now, new, x
    <2>3. ASSUME NEW r \in Row, InScope(r, c), new = Rated(r, c, Read(x.now, S))
          PROVE  /\ \A k \in Jobs \ {c} : Result(new)[k] = Result(x.now)[k]
                 /\ \A k \in Jobs \ {c} : new[k] # Unread =>
                       new[k] = row[k] \/ (x.now[k] # Unread /\ new[k] = x.now[k])
                 /\ new[c] # Unread /\ AtLeast(new[c], r) /\ Covers(Result(new), c)
      BY <1>1, <1>2, <2>1, <2>3, RatedResult
    <2> QED BY <1>3, <2>2, <2>3
  <1>6. \A k \in Jobs : base[k] # Unread => base[k] = x.base[k] \/ base[k] = row[k]
    BY DEF Read
  <1> HIDE DEF base, new, now
  <1>7. session' = [session EXCEPT ![s] = n]
    BY <1>4 DEF IInv
  <1>8. /\ n.kind = "report" /\ n.job = x.job /\ n.at = Parent[c] /\ n.base = base
        /\ n.now = new /\ n.entered = x.entered
    BY <1>1 DEF Session
  <1>9. ASSUME s \in alone PROVE Undisturbed(n)
    <2>1. Fresh(x) /\ Climbs(x) /\ x.entered = {}
      BY <1>1, <1>9 DEF AloneInv, Undisturbed
    <2>2. Fresh(n)
      BY <1>6, <1>8, <2>1 DEF Fresh
    <2>3. /\ x.job \in Jobs /\ Below[x.job] = {}
          /\ x.job \in Below[c] /\ c # x.job
      BY <1>2, <2>1, AboveIsSmaller DEF Climbs
    <2>4. n.at # 0 => n.job \in Below[n.at]
      BY <1>2, <1>8, <2>3, AboveIsSmaller, BelowAssumption
    <2>5. ASSUME NEW k \in Jobs, x.job \in Below[k]
          PROVE  \/ n.at # 0 /\ (k = n.at \/ n.at \in Below[k])
                 \/ n.at < k /\ Covers(Result(new), k)
      <3>1. CASE k = c
        <4>1. Parent[c] < c
          BY <1>2, AboveIsSmaller
        <4> QED BY <1>5, <1>8, <3>1, <4>1
      <3>2. CASE c \in Below[k]
        BY <1>2, <1>8, <3>2, AboveIsSmaller
      <3>3. CASE c < k /\ Covers(Result(x.now), k)
        <4>1. Parent[c] < k
          <5>1. c \in Nat /\ k \in Nat /\ Parent[c] \in Nat /\ Parent[c] < c
            BY <1>2, AboveIsSmaller
          <5> QED BY <3>3, <5>1
        <4>2. \A d \in {k} \cup Below[k] : d \in Jobs \ {c}
          BY <1>2, <3>3, AboveIsSmaller
        <4>3. \A d \in {k} \cup Below[k] : Result(new)[d] = Result(x.now)[d]
          BY <1>5, <4>2
        <4>4. Covers(Result(new), k)
          BY <3>3, <4>3 DEF Covers
        <4> QED BY <1>8, <4>1, <4>4
      <3> QED BY <1>2, <2>1, <2>5, <3>1, <3>2, <3>3 DEF Climbs
    <2>6. ASSUME NEW k \in Jobs \ {x.job}, new[k] # Unread
          PROVE  AtLeast(new[k], row[k])
      <3>0. /\ row[k] \in Row /\ AtLeast(row[k], row[k])
            /\ x.now[k] # Unread => AtLeast(x.now[k], row[k])
        <4>1. row[k] \in Row
          BY <1>1 DEF RowsGood
        <4>2. AtLeast(row[k], row[k])
          BY <4>1, AtLeastOrders
        <4> QED BY <2>1, <4>1, <4>2 DEF Climbs
      <3>1. CASE k = c
        <4>1. AtLeast(now[c], row[c]) /\ AtLeast(new[c], now[c])
          BY <1>3, <1>5, <3>0, <3>1
        <4>2. new[c] \in Row
          <5>1. new = Rated(now[c], c, now)
            BY DEF Rated, new
          <5>2. Follow(x, Read(x.base, S), Rated(now[c], c, Read(x.now, S)))
            <6>1. Below[c] \subseteq S /\ c \in S
              OBVIOUS
            <6> HIDE DEF S, c
            <6> QED BY <1>1, <1>2, <1>3, <6>1, RateCopy
          <5> QED BY <1>2, <1>5, <5>1, <5>2 DEF Follow, Copies, now
        <4> HIDE DEF c
        <4> QED BY <1>3, <3>0, <3>1, <4>1, <4>2, AtLeastOrders
      <3>2. CASE k # c
        BY <1>5, <2>6, <3>0, <3>2
      <3> QED BY <3>1, <3>2
    <2>7. Climbs(n)
      BY <1>8, <2>3, <2>4, <2>5, <2>6 DEF Climbs
    <2> QED BY <1>8, <2>1, <2>2, <2>7 DEF Undisturbed
  <1> HIDE DEF n
  <1> QED BY <1>4, <1>7, <1>9, AloneStep
(* A file that has no members has nothing below it.                        *)
LEMMA NothingBelowNoMembers ==
    ASSUME NEW j \in Jobs, Members(j) = {}
    PROVE  Below[j] = {}
  <1> DEFINE G == Below[j]
             R == {ss \in Nat \X Nat : ss[1] < ss[2]}
  <1> SUFFICES ASSUME G # {} PROVE FALSE
    OBVIOUS
  <1>1. G \subseteq Jobs /\ G \subseteq Nat
    BY AboveIsSmaller
  <1>2. IsWellFoundedOn(R, Nat)
    BY NatLessThanWellFounded DEF OpToRel
  <1>3. PICK k \in G : \A e \in G : ~(<<e, k>> \in R)
    <2> HIDE DEF R, G
    <2> QED BY <1>1, <1>2, WFMin
  <1>4. Parent[k] \in G
    BY <1>1, <1>3, AboveIsSmaller DEF Members
  <1>5. <<Parent[k], k>> \in R
    BY <1>1, <1>3, AboveIsSmaller
  <1> QED BY <1>3, <1>4, <1>5

(* The job of a run is done last.                                          *)
LEMMA JobIsLast ==
    ASSUME NEW x \in Session, Descending(x), x.job \in x.done
    PROVE  x.entered \ x.done = {}
  <1> DEFINE G == x.entered \ x.done
             R == {ss \in Nat \X Nat : ss[1] < ss[2]}
  <1> SUFFICES ASSUME G # {} PROVE FALSE
    OBVIOUS
  <1>1. G \subseteq Jobs /\ G \subseteq Nat
    BY AboveIsSmaller DEF Session
  <1>2. IsWellFoundedOn(R, Nat)
    BY NatLessThanWellFounded DEF OpToRel
  <1>3. PICK k \in G : \A e \in G : ~(<<e, k>> \in R)
    <2> HIDE DEF R, G
    <2> QED BY <1>1, <1>2, WFMin
  <1>4. Parent[k] \in G
    BY <1>3 DEF Descending
  <1>5. Parent[k] < k /\ Parent[k] \in Nat /\ k \in Nat
    BY <1>1, <1>3, AboveIsSmaller
  <1>6. <<Parent[k], k>> \in R
    BY <1>5
  <1> QED BY <1>3, <1>4, <1>6

LEMMA EnterAlone ==
    ASSUME IInv, AloneInv, NEW s \in Sessions, NEW k \in Jobs, Enter(s, k)
    PROVE  AloneInv'
  <1> DEFINE x == session[s]
             base == Read(x.base, Members(k))
             now == Read(x.now, Members(k))
             n == [x EXCEPT !.entered = x.entered \cup {k}, !.base = base, !.now = now]
  <1>1. Good(x) /\ x \in Session /\ x.kind = "run"
    BY DEF IInv, Good, Enter
  <1>2. \A i \in Jobs : /\ base[i] # Unread => base[i] = x.base[i] \/ base[i] = row[i]
                        /\ x.now[i] # Unread => now[i] = x.now[i]
    BY DEF Read
  <1>3. Result(now) = Result(x.now)
    BY DEF Read, Result
  <1>4. /\ session' = [session EXCEPT ![s].entered = x.entered \cup {k}, ![s].base = base,
                                      ![s].now = now]
        /\ row' = row /\ alone' = alone
    BY DEF Enter, Entered
  <1>5. k \notin x.entered /\ (k = x.job \/ Parent[k] \in x.entered \ x.done)
    BY DEF Enter, Reachable, Going
  <1> HIDE DEF base, now
  <1>6. session' = [session EXCEPT ![s] = n]
    BY <1>4 DEF IInv
  <1>7. /\ n.kind = "run" /\ n.job = x.job /\ n.base = base /\ n.now = now
        /\ n.entered = x.entered \cup {k} /\ n.done = x.done
    BY <1>1 DEF Session
  <1>8. ASSUME s \in alone PROVE Undisturbed(n)
    <2>1. Fresh(x) /\ Descending(x)
      BY <1>1, <1>8 DEF AloneInv, Undisturbed
    <2>2. Fresh(n)
      BY <1>2, <1>7, <2>1 DEF Fresh
    <2>3. x.job \in x.done => x.now[x.job] # Unread
      BY <1>1, <2>1 DEF Good, Descending
    <2>4. Descending(n)
      BY <1>2, <1>3, <1>5, <1>7, <2>1, <2>3 DEF Descending
    <2> QED BY <1>7, <2>2, <2>4 DEF Undisturbed
  <1> HIDE DEF n
  <1> QED BY <1>4, <1>6, <1>8, AloneStep

LEMMA CompleteAlone ==
    ASSUME IInv, AloneInv, NEW s \in Sessions, NEW k \in Jobs, NEW g \in Grades[k],
           Complete(s, k, g)
    PROVE  AloneInv'
  <1> DEFINE x == session[s]
             base == Read(x.base, Below[k])
             now == Read(x.now, Below[k])
             new == [now EXCEPT ![k] = Raised(Own(k, g), Below[k], now)]
             n == [x EXCEPT !.done = x.done \cup {k}, !.base = base, !.now = new]
  <1>1. /\ Good(x) /\ x \in Session /\ RowsGood /\ k \in x.entered \ x.done
        /\ Members(k) \subseteq x.done /\ Below[k] \in SUBSET Jobs
    BY AboveIsSmaller DEF IInv, Good, Complete, Going
  <1>2. \A i \in Jobs : base[i] # Unread => base[i] = x.base[i] \/ base[i] = row[i]
    BY DEF Read
  <1>3. Covers(Result(new), k)
    <2>1. Own(k, g) \in Row /\ InScope(Own(k, g), k)
      BY OwnInScope
    <2>2. new = Rated(Own(k, g), k, Read(x.now, Below[k]))
      BY DEF Rated
    <2> HIDE DEF new, x
    <2> QED BY <1>1, <2>1, <2>2, RatedResult
  <1>4. /\ session' = [session EXCEPT ![s].done = x.done \cup {k}, ![s].base = base,
                                      ![s].now = new]
        /\ row' = row /\ alone' = alone
    BY DEF Complete, Descendants
  <1> HIDE DEF base, new
  <1>5. session' = [session EXCEPT ![s] = n]
    BY <1>4 DEF IInv
  <1>6. /\ n.kind = x.kind /\ n.job = x.job /\ n.base = base /\ n.now = new
        /\ n.entered = x.entered /\ n.done = x.done \cup {k}
    BY <1>1 DEF Session
  <1>7. ASSUME s \in alone PROVE Undisturbed(n)
    <2>1. Fresh(x) /\ Descending(x) /\ x.kind = "run"
      BY <1>1, <1>7 DEF AloneInv, Undisturbed
    <2>2. Fresh(n)
      BY <1>2, <1>6, <2>1 DEF Fresh
    <2>3. x.job \notin x.done
      BY <1>1, <2>1, JobIsLast
    <2>4. x.job \in n.done => x.job = k
      BY <1>6, <2>3
    <2>5. \A i \in n.entered \ n.done : i = x.job \/ Parent[i] \in n.entered \ n.done
      <3> SUFFICES ASSUME NEW i \in x.entered \ x.done, i # k, i # x.job
                   PROVE  Parent[i] \in x.entered \ x.done /\ Parent[i] # k
        BY <1>6
      <3>1. i \in Jobs /\ Parent[i] \in x.entered \ x.done
        BY <1>1, <2>1 DEF Descending, Session
      <3>2. Parent[i] # k
        BY <1>1, <3>1 DEF Members
      <3> QED BY <3>1, <3>2
    <2>6. Descending(n)
      BY <1>1, <1>3, <1>6, <2>1, <2>4, <2>5 DEF Descending
    <2> QED BY <1>6, <2>1, <2>2, <2>6 DEF Undisturbed
  <1> HIDE DEF n
  <1> QED BY <1>4, <1>5, <1>7, AloneStep

LEMMA FailAlone ==
    ASSUME IInv, AloneInv, NEW s \in Sessions, NEW k \in Jobs, Fail(s, k)
    PROVE  AloneInv'
  <1> DEFINE x == session[s]
             failed == [x.now[k] EXCEPT !.status = "failed"]
             new == [x.now EXCEPT ![k] = failed]
             n == [x EXCEPT !.done = x.done \cup {k}, !.now = new]
  <1>1. /\ Good(x) /\ x \in Session /\ RowsGood /\ k \in x.entered \ x.done
        /\ Members(k) \cap (x.entered \ x.done) = {} /\ x.now \in Copies
    BY DEF IInv, Good, Fail, Going, Session
  <1>2. x.now[k] # Unread /\ x.now[k] \in Row
    BY <1>1 DEF Good, Copies
  <1>3. /\ failed.status = "failed" /\ failed.score = x.now[k].score
        /\ failed.verdict = x.now[k].verdict /\ failed # Unread
    BY <1>2 DEF Row, Unread
  <1>4. /\ session' = [session EXCEPT ![s].done = x.done \cup {k}, ![s].now[k].status = "failed"]
        /\ row' = row /\ alone' = alone
    BY DEF Fail
  <1>5. session' = [session EXCEPT ![s] = n]
    BY <1>4 DEF IInv
  <1> HIDE DEF failed
  <1>6. \A i \in Jobs : new[i] = IF i = k THEN failed ELSE x.now[i]
    BY <1>1 DEF Copies
  <1> HIDE DEF new
  <1>7. /\ n.kind = x.kind /\ n.job = x.job /\ n.base = x.base /\ n.now = new
        /\ n.entered = x.entered /\ n.done = x.done \cup {k}
    BY <1>1 DEF Session
  <1>8. ASSUME s \in alone PROVE Undisturbed(n)
    <2>1. Fresh(x) /\ Descending(x) /\ x.kind = "run"
      BY <1>1, <1>8 DEF AloneInv, Undisturbed
    <2>2. Fresh(n)
      BY <1>7, <2>1 DEF Fresh
    <2>3. x.job \notin x.done
      BY <1>1, <2>1, JobIsLast
    <2>4. x.job \in n.done => n.now[n.job].status = "failed"
      BY <1>3, <1>6, <1>7, <2>1, <2>3 DEF Descending
    <2>5. \A i \in n.entered \ n.done : i = x.job \/ Parent[i] \in n.entered \ n.done
      <3> SUFFICES ASSUME NEW i \in x.entered \ x.done, i # k, i # x.job
                   PROVE  Parent[i] \in x.entered \ x.done /\ Parent[i] # k
        BY <1>7
      <3>1. i \in Jobs /\ Parent[i] \in x.entered \ x.done
        BY <1>1, <2>1 DEF Descending, Session
      <3>2. Parent[i] # k
        BY <1>1, <3>1 DEF Members
      <3> QED BY <3>1, <3>2
    <2>6. Descending(n)
      BY <1>1, <1>7, <2>1, <2>4, <2>5 DEF Descending
    <2> QED BY <1>7, <2>1, <2>2, <2>6 DEF Undisturbed
  <1> HIDE DEF n
  <1> QED BY <1>4, <1>5, <1>8, AloneStep

(* The commit of an undisturbed session leaves its copies.                 *)
LEMMA CommitLeaves ==
    ASSUME IInv, NEW s \in Sessions, Fresh(session[s]), Commit(s)
    PROVE  row' = Result(session[s].now)
  <1> DEFINE x == session[s]
  <1>1. row' = [k \in Jobs |-> Flush(x.base[k], x.now[k], row[k])]
    BY DEF Commit
  <1>2. ASSUME NEW k \in Jobs
        PROVE  Flush(x.base[k], x.now[k], row[k]) = Result(x.now)[k]
    <2>1. /\ x.base[k] = Unread <=> x.now[k] = Unread
          /\ x.now[k] \in Row \cup {Unread} /\ row[k] \in Row
      BY DEF IInv, Good, Session, Copies, RowsGood
    <2>2. CASE x.now[k] = Unread
      <3>1. Flush(x.base[k], x.now[k], row[k]) =
               [status |-> row[k].status, score |-> row[k].score, verdict |-> row[k].verdict]
        BY <2>1, <2>2 DEF Flush, Written
      <3>2. Flush(x.base[k], x.now[k], row[k]) = row[k]
        BY <2>1, <3>1 DEF Row
      <3> QED BY <2>2, <3>2 DEF Result
    <2>3. CASE x.now[k] # Unread
      <3>1. x.base[k] = row[k] /\ x.now[k] \in Row
        BY <2>1, <2>3 DEF Fresh
      <3>2. Flush(x.base[k], x.now[k], row[k]) =
               [status |-> x.now[k].status, score |-> x.now[k].score,
                verdict |-> x.now[k].verdict]
        BY <3>1 DEF Flush, Written
      <3>3. Flush(x.base[k], x.now[k], row[k]) = x.now[k]
        BY <3>1, <3>2 DEF Row
      <3> QED BY <2>3, <3>3 DEF Result
    <2> QED BY <2>2, <2>3
  <1>3. Result(x.now) = [k \in Jobs |-> Result(x.now)[k]]
    BY DEF Result
  <1> QED BY <1>1, <1>2, <1>3

LEMMA AloneKept == IInv /\ AloneInv /\ [Next]_vars => AloneInv'
  <1> SUFFICES ASSUME IInv, AloneInv, [Next]_vars PROVE AloneInv'
    OBVIOUS
  <1>1. CASE UNCHANGED vars
    BY <1>1 DEF vars, AloneInv, Undisturbed, Fresh, Climbs, Descending, Result
  <1>2. ASSUME NEW s \in Sessions, EndReport(s) \/ EndRun(s) PROVE AloneInv'
    BY <1>2 DEF EndReport, EndRun, Commit, AloneInv
  <1>3. ASSUME NEW s \in Sessions, NEW j \in Jobs, NEW g \in Grades[j], Report(s, j, g)
        PROVE  AloneInv'
    <2>1. Own(j, g) # Unread
      BY OwnInScope, UnreadIsNoRow
    <2>2. Below[j] = {}
      BY <1>3, NothingBelowNoMembers DEF Report
    <2> QED BY <1>3, <2>1, <2>2, OpenAlone DEF Report
  <1>4. ASSUME NEW s \in Sessions, NEW j \in Jobs, Reanalyze(s, j) PROVE AloneInv'
    <2>1. row[j] # Unread
      BY UnreadIsNoRow DEF IInv, RowsGood
    <2> QED BY <1>4, <2>1, OpenAlone DEF Reanalyze
  <1>5. CASE Next
    BY <1>2, <1>3, <1>4, <1>5, InheritAlone, EnterAlone, CompleteAlone, FailAlone DEF Next
  <1> QED BY <1>1, <1>5

(* reapply_to_ancestors and _reanalyse_children: whatever the tree, a      *)
(* report that no other commit comes between leaves every container above  *)
(* its job covering its contents and lowers none, and a run leaves the job *)
(* it was asked for covering its own.                                      *)
THEOREM AloneNothingIsMissed == Spec => UndisturbedCovers
  <1>1. Init => AloneInv
    BY DEF Init, AloneInv
  <1>2. ASSUME IInv, AloneInv, [Next]_vars, NEW s \in alone,
               session[s].kind # "free", session'[s].kind = "free", NEW c \in Jobs
        PROVE  /\ (\/ session[s].kind = "report" /\ session[s].job \in Below[c]
                   \/ session[s].job = c /\ row'[c].status = "completed") => Covers(row', c)
               /\ session[s].kind = "report" /\ session[s].job # c =>
                     /\ row'[c].score >= row[c].score
                     /\ row'[c].verdict.rank >= row[c].verdict.rank
    <2> DEFINE x == session[s]
    <2>1. s \in Sessions /\ Undisturbed(x) /\ Good(x) /\ RowsGood /\ x.kind \in {"report", "run"}
      BY <1>2 DEF IInv, AloneInv, Good, Session
    <2>2. \/ EndReport(s) /\ x.kind = "report" /\ x.at = 0
          \/ EndRun(s) /\ x.kind = "run" /\ x.job \in x.done
      <3>1. Next
        BY <1>2 DEF vars
      <3>2. PICK t \in Sessions :
               \/ Inherit(t) \/ EndReport(t) \/ EndRun(t)
               \/ \E j \in Jobs : \/ Reanalyze(t, j) \/ Enter(t, j) \/ Fail(t, j)
                                  \/ \E g \in Grades[j] : Report(t, j, g) \/ Complete(t, j, g)
        BY <3>1 DEF Next
      <3>3. CASE Inherit(t)
        BY <1>2, <2>1, <3>3 DEF Inherit, IInv, Session
      <3>4. CASE \E j \in Jobs : Enter(t, j) \/ Fail(t, j)
        BY <1>2, <2>1, <3>4 DEF Enter, Entered, Fail, IInv, Session
      <3>5. CASE \E j \in Jobs : \E g \in Grades[j] : Complete(t, j, g)
        BY <1>2, <2>1, <3>5 DEF Complete, IInv, Session
      <3>6. CASE \E j \in Jobs : Reanalyze(t, j) \/ \E g \in Grades[j] : Report(t, j, g)
        BY <1>2, <2>1, <3>6 DEF Reanalyze, Report, Open, IInv
      <3>7. CASE EndReport(t) \/ EndRun(t)
        BY <1>2, <2>1, <3>7 DEF EndReport, EndRun, Commit, IInv
      <3> QED BY <3>2, <3>3, <3>4, <3>5, <3>6, <3>7
    <2>3. row' = Result(x.now)
      BY <1>2, <2>1, <2>2, CommitLeaves DEF EndReport, EndRun, Undisturbed
    <2>4. CASE x.kind = "report" /\ x.at = 0
      <3>1. Climbs(x)
        BY <2>1, <2>4 DEF Undisturbed
      <3>2. x.job \in Below[c] => Covers(row', c)
        BY <2>3, <2>4, <3>1, AboveIsSmaller DEF Climbs
      <3>3. x.job = c => Covers(row', c)
        BY <3>1 DEF Climbs, Covers
      <3>4. ASSUME x.job # c PROVE AtLeast(row'[c], row[c])
        <4>1. row[c] \in Row /\ AtLeast(row[c], row[c])
          BY <2>1, AtLeastOrders DEF RowsGood
        <4> QED BY <2>3, <3>1, <3>4, <4>1 DEF Climbs, Result
      <3> QED BY <2>4, <3>2, <3>3, <3>4 DEF AtLeast
    <2>5. CASE x.kind = "run" /\ x.job \in x.done
      <3>1. Descending(x)
        BY <2>1, <2>5 DEF Undisturbed
      <3>2. x.now[x.job] # Unread
        BY <2>1, <2>5, <3>1 DEF Good, Descending
      <3>3. row'[x.job].status = x.now[x.job].status
        BY <2>3, <3>1, <3>2 DEF Result, Descending
      <3>4. x.job = c /\ row'[c].status = "completed" => Covers(row', c)
        BY <2>3, <2>5, <3>1, <3>3 DEF Descending
      <3> QED BY <2>5, <3>4
    <2> QED BY <2>2, <2>4, <2>5
  <1>3. IInv /\ AloneInv /\ [Next]_vars =>
          [\A s \in alone : session[s].kind # "free" /\ session'[s].kind = "free" =>
             \A c \in Jobs :
                 /\ (\/ session[s].kind = "report" /\ session[s].job \in Below[c]
                     \/ session[s].job = c /\ row'[c].status = "completed") => Covers(row', c)
                 /\ session[s].kind = "report" /\ session[s].job # c =>
                       /\ row'[c].score >= row[c].score
                       /\ row'[c].verdict.rank >= row[c].verdict.rank]_vars
    BY <1>2
  <1> QED BY <1>1, <1>3, InitIInv, NextIInv, AloneKept, PTL DEF Spec, UndisturbedCovers
=============================================================================
