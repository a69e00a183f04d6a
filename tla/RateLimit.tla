----------------------------- MODULE RateLimit ------------------------------
(***************************************************************************)
(* ratelimit.py: the middleware charges a request to every identity it     *)
(* presents - the address it comes from, the key and the session it shows, *)
(* neither of which anybody has checked yet - and refuses it when one of   *)
(* them has used up its window.  The table is memory of one process.       *)
(***************************************************************************)
EXTENDS Naturals, FiniteSets, SequencesExt, FiniteSetsExt

CONSTANTS Callers,       \* addresses of callers
          Keys,          \* values of X-API-Key
          Bearers,       \* values of Authorization
          Anonymous,     \* no credential presented
          Limit, AddressLimit, Window,   \* by the name of a rule
          IdleAfter, SweepEvery,         \* 3600 s and 300 s
          SweepAt, MaxBuckets,           \* 20,000 and 50,000
          MaxTime        \* bound

RuleNames == {"authentication", "read"}

ASSUME NamesAssumption == Anonymous \notin Keys \cup Bearers
ASSUME RulesAssumption ==
    /\ {Limit, AddressLimit, Window} \subseteq [RuleNames -> Nat \ {0}]
    /\ {IdleAfter, SweepEvery, SweepAt, MaxBuckets, MaxTime} \subseteq Nat
    /\ \A r \in RuleNames : Window[r] <= IdleAfter
    /\ SweepAt <= MaxBuckets

VARIABLES now,
          bucket,      \* bucket[<<identity, rule>>]: the times of its hits
          lastSweep,
          reply,       \* the last answer
          guess,       \* history: guess[a]: when a was let through to a credential check
          dropped      \* history: addresses dropped for want of room

rateVars == <<now, bucket, lastSweep, reply, guess, dropped>>

Silent == [is |-> "none", who |-> {}, rule |-> "read", left |-> 0, until |-> 0]

RateInit ==
    /\ now = 0
    /\ bucket = <<>>
    /\ lastSweep = 0
    /\ reply = Silent
    /\ guess = [a \in Callers |-> <<>>]
    /\ dropped = {}

-----------------------------------------------------------------------------
(* RateLimiter                                                             *)

(* Mutated: the credential is charged in the place of the address.         *)
IdentitiesOne(a, k, n) == IF k = Anonymous THEN {<<"ip", a>>} ELSE {<<"key", k>>}

Identities(a, k, n) ==
    {<<"ip", a>>} \cup {<<"key", x>> : x \in {k} \ {Anonymous}}
                  \cup {<<"auth", x>> : x \in {n} \ {Anonymous}}

LimitFor(i, r) == IF i[1] = "ip" THEN AddressLimit[r] ELSE Limit[r]

Idle(hits) == hits = <<>> \/ now - Last(hits) > IdleAfter

Due == Cardinality(DOMAIN bucket) > SweepAt \/ now - lastSweep >= SweepEvery

Live == {x \in DOMAIN bucket : ~Idle(bucket[x])}

(* _sweep, as what it may leave: the least recently seen go until the rest *)
(* fits; among equals the order of the table decides.                      *)
Sweeps ==
    IF ~Due THEN {DOMAIN bucket}
    ELSE {kept \in kSubset(Min({MaxBuckets, Cardinality(Live)}), Live) :
            \A x \in kept, y \in Live \ kept : Last(bucket[y]) <= Last(bucket[x])}

(* What a sweep forgets although it is not idle.                           *)
Dropped(kept) == (DOMAIN bucket \cap Live) \ kept

(* The hits that still count; both ends of a window never do.  A bucket has *)
(* them in the order of the clock, so they are the last ones.              *)
Recent(hits, r) ==
    LET counting == {j \in DOMAIN hits : hits[j] + Window[r] > now}
    IN IF counting = {} THEN <<>> ELSE SubSeq(hits, Min(counting), Len(hits))

(* Mutated: counted before the request is charged.                         *)
LeftBefore(hits, i, r) == LimitFor(i, r) - Len(hits)

(* What a bucket has left once the request is charged to it.               *)
Left(hits, i, r) == LimitFor(i, r) - Len(hits) - 1

(* check: every identity is looked at before any is charged, and none is   *)
(* remembered for a request that is refused.                               *)
Request(a, k, n, r) ==
    \E kept \in Sweeps :
        LET ids == Identities(a, k, n)
            known == {i \in ids : <<i, r>> \in kept}
            hits == [i \in ids |-> IF i \in known THEN Recent(bucket[<<i, r>>], r) ELSE <<>>]
            full == {i \in known : Len(hits[i]) >= LimitFor(i, r)}
            charged == IF full = {} THEN ids ELSE {}
            frees(i) == hits[i][1] + Window[r] - now
        IN /\ bucket' = [x \in kept \cup {<<i, r>> : i \in charged} |->
                           IF x[2] # r \/ x[1] \notin ids THEN bucket[x]
                           ELSE IF x[1] \in charged THEN Append(hits[x[1]], now)
                           ELSE hits[x[1]]]
           /\ lastSweep' = IF Due THEN now ELSE lastSweep
           /\ dropped' = dropped \cup {b \in Callers : \E x \in Dropped(kept) : x[1] = <<"ip", b>>}
           /\ reply' = IF full = {}
                       THEN [is |-> "passed", who |-> ids, rule |-> r,
                             left |-> Min({Left(hits[i], i, r) : i \in ids}), until |-> 0]
                       ELSE [is |-> "refused", who |-> ids, rule |-> r, left |-> 0,
                             until |-> now + Max({1, Min({frees(i) : i \in full}) + 1})]
           /\ guess' = IF full = {} /\ r = "authentication" /\ a \notin dropped'
                       THEN [guess EXCEPT ![a] = Append(Recent(@, r), now)] ELSE guess
           /\ UNCHANGED now

(* What an answer says is left is about the moment it is given.            *)
Tick == /\ now < MaxTime
        /\ now' = now + 1
        /\ reply' = IF reply.is = "refused" THEN reply ELSE Silent
        /\ UNCHANGED <<bucket, lastSweep, guess, dropped>>

RateNext ==
    \/ \E a \in Callers, k \in Keys \cup {Anonymous}, n \in Bearers \cup {Anonymous},
          r \in RuleNames : Request(a, k, n, r)
    \/ Tick

RateSpec == RateInit /\ [][RateNext]_rateVars

-----------------------------------------------------------------------------
(* Properties.                                                             *)

Hits == DOMAIN bucket

TypeOK ==
    /\ now \in 0..MaxTime
    /\ \A x \in Hits : /\ x[2] \in RuleNames
                       /\ \A j \in DOMAIN bucket[x] : bucket[x][j] \in 0..now
    /\ lastSweep \in 0..now
    /\ reply.is \in {"none", "passed", "refused"}
    /\ dropped \subseteq Callers

(* Types; whatever credentials a caller makes up, an address gets no more  *)
(* than its attempts at a password or a worker's token in any window -     *)
(* unless the table was so full that the address itself had to be          *)
(* forgotten; and the table stays under its ceiling, but for what the last *)
(* request was charged to.                                                 *)
GuessesBounded ==
    /\ TypeOK
    /\ \A a \in Callers \ dropped :
          Len(Recent(guess[a], "authentication")) <= AddressLimit["authentication"]
    /\ Cardinality(Hits) <= MaxBuckets + 3

Room(ids, r) ==
    \A i \in ids : \/ <<i, r>> \notin Hits
                   \/ Len(Recent(bucket[<<i, r>>], r)) < LimitFor(i, r)

(* The headers of the last answer: as long as X-RateLimit-Remaining is not *)
(* zero the same caller is let through, and at zero it is not; after       *)
(* Retry-After a caller who presents nothing but its address is.           *)
HeadersHonest ==
    /\ reply.is = "passed" => (reply.left > 0 <=> Room(reply.who, reply.rule))
    /\ /\ reply.is = "refused"
       /\ Cardinality(reply.who) = 1
       /\ now >= reply.until
       => Room(reply.who, reply.rule)
=============================================================================
