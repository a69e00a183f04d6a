------------------------------- MODULE Fetch --------------------------------
(***************************************************************************)
(* POST /api/analyze/url: the one outbound connection that a sovereign     *)
(* deployment may make.  engine/fetcher.py resolves a host, refuses it     *)
(* unless every address is public, connects to an address it validated,    *)
(* follows redirects by itself so that each hop is validated again, and    *)
(* tries the whole chain again when something fails.                       *)
(*                                                                         *)
(* The network does what it likes: each look-up has its own answer, each   *)
(* server its own response.  A URL is fit when scheme, host and port are   *)
(* of the kinds that are fetched.  Time is counted in units of 15 seconds, *)
(* up to the budget; a body is counted in pieces.                          *)
(***************************************************************************)
EXTENDS Naturals, FiniteSets

CONSTANTS Retries,        \* RETRIES
          MaxRedirects,   \* MAX_REDIRECTS
          Budget,         \* TOTAL_BUDGET_SECONDS
          Timeout,        \* TIMEOUT_SECONDS: what one operation may take
          MaxPieces       \* max_bytes

ASSUME FetchAssumption == {Retries, MaxRedirects, Budget, Timeout, MaxPieces} \subseteq Nat

VARIABLES egress,     \* sovereignty.allowed: may the deployment fetch at all?
          call,       \* the request and the locals of fetch()
          partial,    \* a temporary file is in the quarantine
          elapsed,    \* time since the request was made, up to Budget
          contacted,  \* history: the addresses that were connected to
          opened,     \* history: how many connections were opened
          overdue     \* history: how many of them after the deadline

fetchVars == <<egress, call, partial, elapsed, contacted, opened, overdue>>

Addresses == {"public", "inside"}
Answers == {0, 201, 403, 413, 422, 502, 507}

NewCall == [pc |-> "gate", attempt |-> 0, hop |-> 0, address |-> "public",
            pieces |-> 0, answer |-> 0]

FetchInit ==
    /\ egress \in BOOLEAN
    /\ call = NewCall
    /\ partial = FALSE
    /\ elapsed = 0
    /\ contacted = {} /\ opened = 0 /\ overdue = 0

FetchTypeOK ==
    /\ egress \in BOOLEAN
    /\ call \in [pc : {"gate", "attempt", "hop", "send", "response", "store", "body", "answered"},
                 attempt : 0..Retries, hop : 0..(MaxRedirects + 1), address : Addresses,
                 pieces : 0..(MaxPieces + 1), answer : Answers]
    /\ partial \in BOOLEAN
    /\ elapsed \in 0..Budget
    /\ contacted \subseteq Addresses

-----------------------------------------------------------------------------
(* How an attempt ends.                                                    *)

Answered(code) == [call EXCEPT !.pc = "answered", !.answer = code]

(* except (UnsafeURL, SampleTooLarge): "never retried — the answer will    *)
(* not change".                                                            *)
Refused(code) == Answered(code)

(* Every other exception: the redirect chain starts again.                 *)
TriedAgain == [call EXCEPT !.pc = "attempt", !.attempt = @ + 1]

(* Time an operation took, up to its timeout.                              *)
Pass == \E t \in 0..Timeout :
            elapsed' = IF elapsed + t < Budget THEN elapsed + t ELSE Budget

History == UNCHANGED <<contacted, opened, overdue>>

-----------------------------------------------------------------------------
(* sovereignty.check: the only place a URL fetch can be started.           *)
Gate ==
    /\ call.pc = "gate"
    /\ call' = IF egress THEN [call EXCEPT !.pc = "attempt"] ELSE Answered(403)
    /\ UNCHANGED <<egress, partial, elapsed>> /\ History

(* The head of the retry loop.  The deadline is tested outside of the try, *)
(* so its FetchFailed ends the fetch.                                      *)
Attempt ==
    /\ call.pc = "attempt"
    /\ call' = IF call.attempt = Retries \/ elapsed = Budget
               THEN Answered(502)
               ELSE [call EXCEPT !.pc = "hop", !.hop = 0]
    /\ UNCHANGED <<egress, partial, elapsed>> /\ History

(* One turn of the redirect loop up to the connection: the deadline, the   *)
(* URL, the look-up, the addresses, the request.  The URL may be unfit, and*)
(* a name that does not resolve is refused like one that resolves to the   *)
(* inside.  A port that is no number, a host that cannot be encoded or a   *)
(* URL that no request can be built of is none of the refusals: what they  *)
(* raise is tried again.                                                   *)
Hop ==
    /\ call.pc = "hop"
    /\ call.hop <= MaxRedirects /\ elapsed < Budget
    /\ \/ /\ call' \in {Refused(422), TriedAgain}
          /\ UNCHANGED elapsed
       \/ /\ Pass
          /\ \E found \in SUBSET Addresses :
                call' \in IF found = {} \/ "inside" \in found THEN {Refused(422)}
                          ELSE {TriedAgain, [call EXCEPT !.pc = "send",
                                                         !.address = CHOOSE a \in found : TRUE]}
    /\ UNCHANGED <<egress, partial>> /\ History

(* More redirects than are followed, or the deadline: FetchFailed, inside  *)
(* of the try.                                                             *)
HopFails ==
    /\ call.pc = "hop"
    /\ call.hop > MaxRedirects \/ elapsed = Budget
    /\ call' = TriedAgain
    /\ UNCHANGED <<egress, partial, elapsed>> /\ History

Connect(address) ==
    /\ contacted' = contacted \cup {address}
    /\ opened' = opened + 1
    /\ overdue' = overdue + (IF elapsed = Budget THEN 1 ELSE 0)

(* Mutated: the client resolves the name again.                            *)
SendResolved ==
    /\ call.pc = "send"
    /\ \E address \in Addresses : Connect(address)
    /\ Pass
    /\ call' \in {[call EXCEPT !.pc = "response"], TriedAgain}
    /\ UNCHANGED <<egress, partial>>

(* The request goes to the address that was validated; the connection may  *)
(* fail.                                                                   *)
Send ==
    /\ call.pc = "send"
    /\ Connect(call.address)
    /\ Pass
    /\ call' \in {[call EXCEPT !.pc = "response"], TriedAgain}
    /\ UNCHANGED <<egress, partial>>

Redirect == [call EXCEPT !.pc = "hop", !.hop = @ + 1]

(* A redirect, one without a Location, another status than 200, a length   *)
(* that is declared too large, or a body.                                  *)
Respond ==
    /\ call.pc = "response"
    /\ call' \in {Redirect, TriedAgain, Refused(413), [call EXCEPT !.pc = "store", !.pieces = 0]}
    /\ UNCHANGED <<egress, partial, elapsed>> /\ History

(* store_stream: the floor under the free space, then the temporary file.  *)
(* QuarantineFull is one more exception to fetch().                        *)
Store ==
    /\ call.pc = "store"
    /\ \/ call' = TriedAgain /\ UNCHANGED partial
       \/ call' = [call EXCEPT !.pc = "body"] /\ partial' = TRUE
    /\ UNCHANGED <<egress, elapsed>> /\ History

(* The stream is read to its end or past the cap; the connection may break *)
(* at any piece.  Nothing here looks at the deadline.  Whatever happens    *)
(* the temporary file is gone: it is moved, or unlinked.                   *)
Body ==
    /\ call.pc = "body"
    /\ Pass
    /\ \/ /\ call.pieces <= MaxPieces
          /\ call' = [call EXCEPT !.pieces = @ + 1]
          /\ UNCHANGED partial
       \/ /\ call' \in IF call.pieces > MaxPieces THEN {Refused(413)}
                       ELSE IF call.pieces = 0 THEN {TriedAgain}     \* EmptySample
                       ELSE {TriedAgain, Answered(201)}
          /\ partial' = FALSE
    /\ UNCHANGED egress /\ History

FetchNext == \/ Gate \/ Attempt \/ Hop \/ HopFails
             \/ Send \/ Respond \/ Store \/ Body

-----------------------------------------------------------------------------
(* Whatever a name resolves to the second time it is asked for, wherever a *)
(* server redirects to, and whichever attempt this is, a connection leaves *)
(* for a public address or not at all; and none leaves a deployment that   *)
(* has closed the fetcher.                                                 *)
OnlyOutside == contacted \subseteq (IF egress THEN {"public"} ELSE {})

(* What a submission may cost the network: the retries and the redirects   *)
(* bound the connections together, a refused URL ends the chain, and once  *)
(* the deadline has passed at most the connection whose look-up was under  *)
(* way is opened.                                                          *)
EffortBounded ==
    /\ opened <= Retries * (MaxRedirects + 1)
    /\ overdue <= 1

=============================================================================
