------------------------------ MODULE Exports -------------------------------
(***************************************************************************)
(* What leaves the service about an assessed job: the STIX bundle of       *)
(* report.as_stix and the regulatory record of incident.build, over the    *)
(* addresses that analyzers/generic.py finds written in the content and    *)
(* those that a detonation reports.                                        *)
(*                                                                         *)
(* An address is its version and its scope; a value of the row's           *)
(* indicators is the kind it is listed under and the address.              *)
(***************************************************************************)
EXTENDS Assessment

Scopes == {"public", "private", "loopback", "link-local", "unspecified", "multicast"}

Hosts == [version : {"v4", "v6"}, scope : Scopes]
         \cup [version : {"name"}, scope : {"public", "localhost", "boilerplate"}]

Ways == {"url", "bare", "mail"}

(* A file mentions hosts in one of these ways.                             *)
Said == {m \in [way : Ways, host : Hosts] : m.way = "mail" => m.host.version = "name"}

Value(kind, host, cut) == [kind |-> kind, host |-> host, cut |-> cut]

(* _extract: a URL ends before a closing bracket, so that the one of an    *)
(* IPv6 address is cut inside it; a bare address is kept when it is public,*)
(* a name when it is a domain that ordinary files are not full of.         *)
Extract(m) ==
    LET address == m.host.version # "name"
        public == m.host.scope = "public"
    IN  (IF m.way = "url" /\ m.host.scope # "boilerplate"
         THEN {Value("urls", m.host, m.host.version = "v6")} ELSE {})
        \cup (IF public /\ address THEN {Value("ips", m.host, FALSE)} ELSE {})
        \cup (IF public /\ ~address
              THEN {Value(IF m.way = "mail" THEN "emails" ELSE "domains", m.host, FALSE)} ELSE {})

(* What the worker lists, after its baseline: every address it has seen.   *)
Contacted(t) ==
    IF t.ran /\ t.iocs > 0
    THEN {Value(IF h.version = "name" THEN "domains" ELSE "ips", h, FALSE) :
             h \in {g \in Hosts : g.scope \notin {"localhost", "boilerplate"}}}
         \cup {Value("urls", h, FALSE) : h \in {g \in Hosts : g.scope # "boilerplate"}}
    ELSE {}

(* merged.to_dict()                                                        *)
Indicators(f, t) == UNION {Extract(m) : m \in f.says} \cup Contacted(t)

-----------------------------------------------------------------------------
(* report.as_stix                                                          *)

(* _is_own_infrastructure: an address that is not public, of either        *)
(* version, in whichever form; a name never is.                            *)
OwnInfrastructure(v) == v.host.version # "name" /\ v.host.scope # "public"

Patterns(values) == {v \in values : ~OwnInfrastructure(v)}

Type(v) == IF v.kind # "ips" THEN v.kind ELSE IF v.host.version = "v6" THEN "ipv6-addr" ELSE "ipv4-addr"

(* What is not called malicious is observed, and accused of nothing.       *)
Bundle(r, values) ==
    LET malicious == AssessedMalicious(r)
    IN  [malware    |-> malicious,
         name       |-> IF malicious THEN r.category ELSE "none",
         indicators |-> IF malicious THEN Patterns(values) ELSE {},
         observed   |-> IF malicious THEN {} ELSE {<<Type(v), v.host>> : v \in Patterns(values)},
         uses       |-> IF malicious THEN r.techniques ELSE {},
         patterns   |-> r.techniques,
         caveats    |-> r.caveats]

-----------------------------------------------------------------------------
(* incident.build                                                          *)

(* _points_inside: urlsplit refuses an address that is cut.                *)
Unparseable(v) == v.cut

(* Everything up to the first colon is taken for the host, which of an     *)
(* IPv6 address is none.                                                   *)
PointsInside(v) ==
    \/ v.host.version = "v4" /\ v.host.scope \in {"private", "loopback", "link-local", "unspecified"}
    \/ v.host.scope = "localhost"

(* _cross_border                                                           *)
Outward(values) == {v \in values : ~PointsInside(v)}

ReachesOut(f, s, S, values) ==
    \/ Outward(values) # {}
    \/ S \cap Reputation # {}
    \/ s.url

(* _suspicious_or_worse                                                    *)
SuspiciousOrWorse(r) == IF r.verdict = "" THEN r.risk >= Sev.medium
                        ELSE r.verdict \in {"malicious", "suspicious"}

(* build, when no address stops it.                                        *)
Drawn(values) == \A v \in values : ~Unparseable(v)

Incident(r, f, s, S, values) ==
    [malicious  |-> AssessedMalicious(r),
     suspicious |-> SuspiciousOrWorse(r),
     act        |-> UnlawfulAct(r),
     outward    |-> Outward(values),
     inside     |-> values \ Outward(values),
     reaches    |-> ReachesOut(f, s, S, values),
     losses     |-> DataLosses(r.impact),
     causes     |-> r.techniques,
     caveats    |-> r.caveats]

-----------------------------------------------------------------------------
(* Properties.                                                             *)

(* The bundle and the record of one row accuse alike, and as the row does: *)
(* also for a row that was written before there were verdicts.  Only what  *)
(* is called malicious has indicators, none of them an address of the      *)
(* sandbox, and each is among what the record counts as outside - a URL of *)
(* localhost apart.  Both say of a detonation in CAPE that did not count   *)
(* that it did not.                                                        *)
Agree(r, values) ==
    LET bundle == Bundle(r, values)
        record == Incident(r, file, sample, job.static \cup trace.ids, values)
    IN  /\ bundle.malware <=> record.act = "yes"
        /\ bundle.indicators # {} => bundle.malware
        /\ \A v \in bundle.indicators :
              /\ v.host.version = "name" \/ v.host.scope = "public"
              /\ v \in record.outward \/ v.host.scope = "localhost"
        /\ (\E v \in bundle.indicators : v.host.scope # "localhost") => record.reaches
        /\ bundle.uses \subseteq record.causes
        /\ record.act \in {"yes", "suspected"} => record.suspicious
        /\ Discounted /\ trace.ids \cap OfCape # {} => bundle.caveats # {} /\ record.caveats = bundle.caveats

ExportsAgree ==
    LET values == Indicators(file, trace)
    IN  /\ Agree(row, values)
        /\ Agree([row EXCEPT !.verdict = ""], values)
        /\ Bundle(row, values).malware <=> row.verdict = "malicious"

-----------------------------------------------------------------------------
(* A claim of the source's comments that the code does not keep.           *)

(* "Anything unparseable is treated as OUTWARD."                           *)
UnparseableIsOutward ==
    LET values == Indicators(file, trace)
    IN  \A v \in values : Unparseable(v) => Drawn(values) /\ v \in Outward(values)
=============================================================================
