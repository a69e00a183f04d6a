--------------------------- MODULE SandboxReport ----------------------------
(***************************************************************************)
(* An external sandbox's document told as the seam's report: the functions *)
(* _normalise_cuckoo and _normalise_joe of worker/engines/opensource.py,   *)
(* with the idle-guest baseline of worker/engines/baseline.py.             *)
(***************************************************************************)
EXTENDS Integers, Sequences, FiniteSetsExt, Functions

CONSTANTS Addresses, Domains,   \* what a guest may speak to
          Platform,             \* those an idle guest speaks to by itself
          MaxEvents             \* processes of a timeline

ASSUME PlatformAssumption == Platform \subseteq Addresses \cup Domains
ASSUME MaxEventsAssumption == MaxEvents \in Nat

Severities == <<"info", "low", "medium", "high", "critical">>
Grade(n) == Severities[n + 1]

(* A number of 0 is one that cannot be read.                               *)
Process == [pid : Nat, parent : Nat, launched : BOOLEAN]

(* tcp, http: addresses data was exchanged with; dead: those that did not  *)
(* answer; hosts: all that a packet was sent to.                           *)
Document == [tcp : SUBSET Addresses, http : SUBSET Addresses, dead : SUBSET Addresses,
             hosts : SUBSET Addresses, dns : SUBSET (Domains \X Addresses),
             processes : Seq(Process), identified : SUBSET STRING,
             signatures : SUBSET [name : STRING, severity : Nat], score : 0..10,
             verdict : {"malicious", "suspicious", "clean"}]

(* baseline.py.                                                            *)
Kept(values) == values \ Platform

-----------------------------------------------------------------------------
(* Signals.                                                                *)

CapeSeverity(raw) == IF raw \in 0..4 THEN raw ELSE 4

SeverityFromScore(score) == CASE score >= 8 -> "critical" [] score >= 6 -> "high"
                              [] score >= 3 -> "medium"   [] score > 0  -> "low"
                              [] OTHER -> "info"

Signals(document) ==
    LET raised == {<<name, "critical">> : name \in document.identified}
                  \cup {<<s.name, Grade(CapeSeverity(s.severity))>> : s \in document.signatures}
    IN IF raised = {} THEN {<<"completed", SeverityFromScore(document.score)>>} ELSE raised

-----------------------------------------------------------------------------
(* Whom the guest spoke to.                                                *)

Exchanged(document) == document.tcp \cup document.http

(* A question to the platform's own names says nothing of the sample.      *)
Resolved(document) == {query \in document.dns : query[1] \notin Platform}

Addressed(document) == document.dead \cup document.hosts

Established(document) == document.hosts \cap Exchanged(document)

Attempted(document) == document.dead \cup (document.hosts \ Exchanged(document))

-----------------------------------------------------------------------------
(* Whose process it is.                                                    *)

(* The process that was launched: the first of those that are marked, or,  *)
(* if none is or its number cannot be read, the first one of the report.   *)
RootPid(processes) ==
    LET marked == {i \in DOMAIN processes : processes[i].launched}
        read == marked # {} /\ processes[Min(marked)].pid # 0
    IN IF processes = <<>> THEN 0
       ELSE processes[IF read THEN Min(marked) ELSE 1].pid

(* by_pid: of two processes with one number the later is kept.             *)
ByPid(processes, pid) == Max({i \in DOMAIN processes : processes[i].pid = pid})

(* Mutated: a process is the sample's when its parent is the root.         *)
OriginOfParent(processes, i) ==
    IF RootPid(processes) \in {processes[i].pid, processes[i].parent} THEN "sample" ELSE "guest"

(* Whose the last of a path is: its root's, as far as the path leads; of   *)
(* nobody known, when its number cannot be read or was met before; of the  *)
(* guest, when nothing in the report has started it.                       *)
WhoseIs(processes, path) ==
    LET process == processes[path[Len(path)]]
        met == {processes[path[k]].pid : k \in 1..(Len(path) - 1)}
        numbers == {processes[k].pid : k \in DOMAIN processes} \ {0}
    IN IF 0 \in {RootPid(processes), process.pid} THEN "unknown"
       ELSE IF process.pid = RootPid(processes) THEN "sample"
       ELSE IF process.pid \in met THEN "unknown"
       ELSE IF process.parent \notin numbers THEN "guest"
       ELSE "its parent's"

Climbed(processes, path) ==
    IF WhoseIs(processes, path) = "its parent's"
    THEN Append(path, ByPid(processes, processes[path[Len(path)]].parent)) ELSE path

(* Up the tree from process i, as far as it goes.                          *)
OriginOf(processes, i) ==
    LET path[n \in 0..Len(processes)] ==
            IF n = 0 THEN <<i>> ELSE Climbed(processes, path[n - 1])
    IN WhoseIs(processes, path[Len(processes)])

Timeline(processes) == [i \in {k \in DOMAIN processes : k <= MaxEvents} |-> OriginOf(processes, i)]

-----------------------------------------------------------------------------
Nothing == [tcp |-> {}, http |-> {}, dead |-> {}, hosts |-> {}, dns |-> {}, processes |-> <<>>,
            identified |-> {}, signatures |-> {}, score |-> 0, verdict |-> "clean"]

(* A report's findings, beside the document they were read from.           *)
NoFindings == [document |-> Nothing, signals |-> {}, iocs |-> {}, established |-> {},
               attempted |-> {}, timeline |-> <<>>]

NormaliseCuckoo(document) ==
    [document |-> document, signals |-> Signals(document),
     iocs |-> Kept(Addressed(document) \cup UNION {{q[1], q[2]} : q \in Resolved(document)}),
     established |-> Kept(Established(document)), attempted |-> Kept(Attempted(document)),
     timeline |-> Timeline(document.processes)]

(* Joe Sandbox's verdict is all that is taken of its document.             *)
NormaliseJoe(document) ==
    [NoFindings EXCEPT
        !.document = document,
        !.signals = (IF document.verdict = "clean"
                     THEN {<<"completed", SeverityFromScore(document.score)>>}
                     ELSE {<<document.verdict, IF document.verdict = "malicious"
                                               THEN "critical" ELSE "high">>})
                    \cup {<<name, "high">> : name \in document.identified}]

-----------------------------------------------------------------------------
(* What was addressed and is not the platform's is an indicator and an     *)
(* endpoint, refused connections too; nothing of the platform is either; an*)
(* established endpoint exchanged data, and one that did is attempted only *)
(* if it also failed to answer.                                            *)
Accounted(found) ==
    LET document == found.document
        own == (document.hosts \cup document.dead) \ Platform
        endpoints == found.established \cup found.attempted
    IN /\ own \subseteq found.iocs /\ own = endpoints
       /\ found.iocs \cap Platform = {}
       /\ found.established \subseteq document.tcp \cup document.http
       /\ found.attempted \cap (document.tcp \cup document.http) \subseteq document.dead

(* A chain of parents from process i of the report to its process r.       *)
Descends(processes, i, r) ==
    \E n \in DOMAIN processes : \E chain \in [1..n -> DOMAIN processes] :
        /\ chain[1] = i /\ chain[n] = r
        /\ \A k \in 1..(n - 1) : processes[chain[k]].parent = processes[chain[k + 1]].pid

(* Where every number can be read and none was used twice, the sample's    *)
(* processes are the root and its descendants, whatever the order and the  *)
(* loops of the report.                                                    *)
DescentTold(found) ==
    LET processes == found.document.processes
        numbers == [i \in DOMAIN processes |-> processes[i].pid]
    IN IsInjective(numbers) /\ 0 \notin Range(numbers) =>
       \A i \in DOMAIN found.timeline :
          found.timeline[i] = "sample" <=>
             Descends(processes, i, CHOOSE r \in DOMAIN processes :
                                       processes[r].pid = RootPid(processes))
=============================================================================
