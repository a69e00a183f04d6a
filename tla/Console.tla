------------------------------ MODULE Console -------------------------------
(***************************************************************************)
(* auth.py, api/auth.py and api/admin.py: the login of the one analyst     *)
(* account, the signed tokens it hands out, the epoch that a logout raises,*)
(* which jobs an identity may read, and the split of the score that an     *)
(* analyst may tune.                                                       *)
(*                                                                         *)
(* The epochs and the split are memory of one process and two routes may   *)
(* run at once in its thread pool; a token is wherever it has been copied  *)
(* to, and its claims are what the key has signed.                         *)
(***************************************************************************)
EXTENDS Naturals, Sequences, FiniteSets

CONSTANTS Tenants,       \* what ANALYST_TENANT may be set to
          Keys,          \* the keys that API_KEYS configures
          TenantOf,      \* TenantOf[k]: the tenant of one
          Nobody,        \* the identity of a request that presents nothing valid
          Unclaimed,     \* the tenant of a token from before tenancy, which claims none
          Callers,       \* requests that may be under way at once
          Asked,         \* what a caller may put in a WeightsUpdate
          Left,          \* in it, a weight that is left as it is
          Whole,         \* the sum of a split, 1 in the code
          Default,       \* RULE_WEIGHT of Whole
          TTL,           \* life of a token
          SecretKept,    \* SECRET_KEY is configured
          MaxTime, MaxTokens, MaxJobs, MaxRestarts, MaxChanges   \* bounds

Bounds == {TTL, MaxTime, MaxTokens, MaxJobs, MaxRestarts, MaxChanges}

ASSUME ConsoleAssumption ==
    /\ TenantOf \in [Keys -> Tenants]
    /\ Nobody \notin Tenants /\ Unclaimed \notin Tenants
    /\ SecretKept \in BOOLEAN
    /\ Whole \in Nat \ {0} /\ Default \in 0..Whole
    /\ Left \notin Nat
    /\ Asked \subseteq (Nat \cup {Left}) \X (Nat \cup {Left})
    /\ Bounds \subseteq Nat

VARIABLES now,
          boot,        \* restarts so far
          tenant,      \* ANALYST_TENANT of this start
          epoch,       \* _EPOCHS of the analyst account
          token,       \* token[n]: what the n-th signed token claims
          job,         \* job[j]: the tenant that the j-th job is stamped with
          split,       \* scoring._active, as [rule, model]
          op,          \* op[c]: where the request of c is
          chain,       \* the changes of this start in the trail, and the attempts
          dropped,     \* those that record() gave up: write_failures_total of them
          revoked,     \* history: tokens that were out when a logout began
          overlapped   \* history: two logouts of this start have overlapped

vars == <<now, boot, tenant, epoch, token, job, split, op, chain, dropped, revoked, overlapped>>

Idle == [pc |-> "idle"]
Split(r) == [rule |-> r, model |-> Whole - r]

(* A token that a build from before tenancy has signed.                    *)
Older == [exp |-> TTL, epc |-> 0, tnt |-> Unclaimed, boot |-> 0]

Init == /\ now = 0
        /\ boot = 0
        /\ tenant \in Tenants
        /\ epoch = 0
        /\ token \in {<<>>, <<Older>>}
        /\ job = <<>>
        /\ split = Split(Default)
        /\ op = [c \in Callers |-> Idle]
        /\ chain = <<>>
        /\ dropped = <<>>
        /\ revoked = {}
        /\ overlapped = FALSE

-----------------------------------------------------------------------------
(* auth.py                                                                 *)

(* Mutated: the epoch is not compared.                                     *)
VerifiedUnrevoked(n) == /\ n \in DOMAIN token
                        /\ SecretKept \/ token[n].boot = boot
                        /\ token[n].exp >= now

(* _verify_token: the signature, the epoch, the expiry.                    *)
Verified(n) == /\ n \in DOMAIN token
               /\ SecretKept \/ token[n].boot = boot
               /\ token[n].epc >= epoch
               /\ token[n].exp >= now

(* Mutated: the tenant is read from the settings of the day.               *)
ClaimOfToday(n) == tenant

(* The tenant that a token claims, or the one of the day if it claims none.*)
Claim(n) == IF token[n].tnt = Unclaimed THEN tenant ELSE token[n].tnt

(* require_analyst: a token that verifies, or else a key, as the tenant    *)
(* whose data it may see.                                                  *)
Identity(n, k) ==
    IF Verified(n) THEN Claim(n)
    ELSE IF k \in Keys THEN TenantOf[k] ELSE Nobody

(* login, with the right password.                                         *)
Login == /\ Len(token) < MaxTokens
         /\ token' = Append(token, [exp |-> now + TTL, epc |-> epoch,
                                    tnt |-> tenant, boot |-> boot])
         /\ UNCHANGED <<now, boot, tenant, epoch, job, split, op, chain, dropped,
                        revoked, overlapped>>

(* revoke_sessions reads the epoch and writes the next one.  A key has an  *)
(* epoch of its own, which nothing is ever compared with.                  *)
LogoutRead(c, n) ==
    /\ op[c] = Idle
    /\ Verified(n)
    /\ op' = [op EXCEPT ![c] = [pc |-> "logout", next |-> epoch + 1, out |-> DOMAIN token]]
    /\ overlapped' = (overlapped \/ \E d \in Callers : op[d].pc = "logout")
    /\ UNCHANGED <<now, boot, tenant, epoch, token, job, split, chain, dropped, revoked>>

LogoutWrite(c) ==
    /\ op[c].pc = "logout"
    /\ epoch' = op[c].next
    /\ revoked' = revoked \cup op[c].out
    /\ op' = [op EXCEPT ![c] = Idle]
    /\ UNCHANGED <<now, boot, tenant, token, job, split, chain, dropped, overlapped>>

-----------------------------------------------------------------------------
(* The routes of api/sandbox.py, as far as tenants go.                     *)

Submit(n, k) ==
    /\ Len(job) < MaxJobs
    /\ Identity(n, k) # Nobody
    /\ job' = Append(job, Identity(n, k))
    /\ UNCHANGED <<now, boot, tenant, epoch, token, split, op, chain, dropped, revoked, overlapped>>

ShowsAll(t) == DOMAIN job

(* Every read is "where tenant_id is the identity's".                      *)
Shows(t) == {j \in DOMAIN job : job[j] = t}

-----------------------------------------------------------------------------
(* api/admin.py and scoring.set_weights.                                   *)

(* What is left out is taken from the split in force; the ratio of two     *)
(* weights is rounded to the grain of Whole.                               *)
Filled(asked) == [i \in {1, 2} |-> IF asked[i] # Left THEN asked[i]
                                   ELSE IF i = 1 THEN split.rule ELSE split.model]

Ratio(w) == (2 * Whole * w[1] + w[1] + w[2]) \div (2 * (w[1] + w[2]))

Refused(w) == w[1] + w[2] = 0

(* A session only (require_admin).  The state before is read at once.      *)
Change(c, n, to) ==
    /\ op[c] = Idle
    /\ Verified(n)
    /\ op' = [op EXCEPT ![c] = [pc |-> "rule", before |-> split, to |-> to]]
    /\ UNCHANGED <<now, boot, tenant, epoch, token, job, split, chain, dropped, revoked, overlapped>>

SetWeights(c, n, asked) == ~Refused(Filled(asked)) /\ Change(c, n, Split(Ratio(Filled(asked))))
ResetWeights(c, n) == Change(c, n, Split(Default))

(* A refused attempt is recorded too, with the weights that were asked.    *)
RefuseWeights(c, n, asked) ==
    /\ op[c] = Idle
    /\ Verified(n)
    /\ Refused(Filled(asked))
    /\ op' = [op EXCEPT ![c] = [pc |-> "record", before |-> split, ok |-> FALSE,
                                after |-> [rule |-> Filled(asked)[1], model |-> Filled(asked)[2]]]]
    /\ UNCHANGED <<now, boot, tenant, epoch, token, job, split, chain, dropped, revoked, overlapped>>

(* _active["rule"] = ..., then _active["model"] = ...                      *)
WriteRule(c) ==
    /\ op[c].pc = "rule"
    /\ split' = [split EXCEPT !.rule = op[c].to.rule]
    /\ op' = [op EXCEPT ![c].pc = "model"]
    /\ UNCHANGED <<now, boot, tenant, epoch, token, job, chain, dropped, revoked, overlapped>>

WriteModel(c) ==
    /\ op[c].pc = "model"
    /\ split' = [split EXCEPT !.model = op[c].to.model]
    /\ op' = [op EXCEPT ![c].pc = "get"]
    /\ UNCHANGED <<now, boot, tenant, epoch, token, job, chain, dropped, revoked, overlapped>>

(* Mutated: the trail is given the split as it was before.                 *)
AfterIsBefore(c) == op[c].before

(* get_weights, after the writes.                                          *)
After(c) == split

GetWeights(c) ==
    /\ op[c].pc = "get"
    /\ op' = [op EXCEPT ![c] = [pc |-> "record", before |-> @.before, ok |-> TRUE, after |-> After(c)]]
    /\ UNCHANGED <<now, boot, tenant, epoch, token, job, split, chain, dropped, revoked, overlapped>>

Event(c) == [before |-> op[c].before, ok |-> op[c].ok, after |-> op[c].after]

(* _audit_weights                                                          *)
Record(c) ==
    /\ op[c].pc = "record"
    /\ chain' = Append(chain, Event(c))
    /\ op' = [op EXCEPT ![c] = Idle]
    /\ UNCHANGED <<now, boot, tenant, epoch, token, job, split, dropped, revoked, overlapped>>

(* audit.record gives up, after two collisions or any fault: the change    *)
(* stands, and a counter and the log say so.                               *)
Drop(c) ==
    /\ op[c].pc = "record"
    /\ dropped' = Append(dropped, Event(c))
    /\ op' = [op EXCEPT ![c] = Idle]
    /\ UNCHANGED <<now, boot, tenant, epoch, token, job, split, chain, revoked, overlapped>>

-----------------------------------------------------------------------------
Tick == /\ now < MaxTime
        /\ now' = now + 1
        /\ UNCHANGED <<boot, tenant, epoch, token, job, split, op, chain, dropped, revoked, overlapped>>

(* The operator may come back with another ANALYST_TENANT.  The placeholder*)
(* key is drawn anew, a configured one is the same.                        *)
Restart == /\ boot < MaxRestarts
           /\ boot' = boot + 1
           /\ tenant' \in Tenants
           /\ epoch' = 0
           /\ split' = Split(Default)
           /\ op' = [c \in Callers |-> Idle]
           /\ chain' = <<>>
           /\ dropped' = <<>>
           /\ overlapped' = FALSE
           /\ UNCHANGED <<now, token, job, revoked>>

Changes == Len(chain) + Len(dropped) + Cardinality({c \in Callers : op[c].pc \in {"rule", "model", "get", "record"}})

Serve == \/ Login \/ Tick
         \/ \E n \in 0..MaxTokens, k \in Keys \cup {Nobody} : Submit(n, k)
         \/ \E c \in Callers, n \in DOMAIN token :
               \/ LogoutRead(c, n)
               \/ /\ Changes < MaxChanges
                  /\ \/ \E asked \in Asked : SetWeights(c, n, asked) \/ RefuseWeights(c, n, asked)
                     \/ ResetWeights(c, n)
         \/ \E c \in Callers : \/ LogoutWrite(c)
                               \/ WriteRule(c) \/ WriteModel(c) \/ GetWeights(c)
                               \/ Record(c) \/ Drop(c)

Next == Serve \/ Restart

Spec == Init /\ [][Next]_vars

-----------------------------------------------------------------------------
(* Properties.                                                             *)

Splits == [rule : 0..Whole, model : 0..Whole]
Events == [before : Splits, ok : BOOLEAN, after : Splits]

TypeOK ==
    /\ now \in 0..MaxTime /\ boot \in 0..MaxRestarts /\ tenant \in Tenants /\ epoch \in Nat
    /\ token \in Seq([exp : Nat, epc : Nat, tnt : Tenants \cup {Unclaimed}, boot : 0..boot])
    /\ job \in Seq(Tenants)
    /\ split \in Splits
    /\ chain \in Seq(Events) /\ dropped \in Seq(Events)
    /\ \A c \in Callers : op[c].pc \in {"idle", "logout", "rule", "model", "get", "record"}
    /\ revoked \subseteq DOMAIN token

(* For as long as the process lives, a token that was out when a logout    *)
(* began opens nothing once the logout has answered - unless two logouts   *)
(* overlapped, when the slower one may write an older epoch.               *)
RevokedIsDead ==
    \A n \in revoked : token[n].boot = boot => overlapped \/ ~Verified(n)

(* Whatever ANALYST_TENANT is set to at the next start, the same token and *)
(* key go on showing what they showed of the jobs there were, for as long  *)
(* as the token verifies, and a token that stops verifying shows no more   *)
(* than the key beside it - except a token from before tenancy, which is   *)
(* read under the tenant of the day.                                       *)
Sees(n, k) == Shows(Identity(n, k))

SightIsKept ==
    [][\A n \in 0..MaxTokens, k \in Keys \cup {Nobody} :
          /\ n \in DOMAIN token => token[n].tnt # Unclaimed
          /\ Verified(n)' => Verified(n)
          => Sees(n, k)' \cap DOMAIN job = IF Verified(n)' <=> Verified(n) THEN Sees(n, k) ELSE Sees(0, k)]_vars

(* Types; and each weight in force is the default or stands in the event of*)
(* a change of this start, once no change is under way - an event that is  *)
(* in the trail, or that the counter of failed writes has counted: as long *)
(* as that is zero, a verdict can be traced to who set each of the two.    *)
Quiet == \A c \in Callers : op[c].pc \in {"idle", "logout"}

Weights(events, w) == {events[i].after[w] : i \in {k \in DOMAIN events : events[k].ok}}

WeightsAccounted ==
    /\ TypeOK
    /\ Quiet => \A w \in {"rule", "model"} :
          split[w] \in {Split(Default)[w]} \cup Weights(chain, w) \cup Weights(dropped, w)

-----------------------------------------------------------------------------
(* Claims of the source's comments that the code does not keep.            *)

(* "Bumping it invalidates every token issued before."                     *)
RevokedStaysDead == \A n \in revoked : ~Verified(n) \/ overlapped

(* "Any two positive numbers are normalised to sum to 1."                  *)
SplitIsWhole == Quiet => split.rule + split.model = Whole

(* "These levers are in-memory - the chain of custody is the only place    *)
(* their history exists."                                                  *)
TrailHoldsWeights ==
    Quiet => \A w \in {"rule", "model"} : split[w] \in {Split(Default)[w]} \cup Weights(chain, w)
=============================================================================
