----------------------------- MODULE MCEngines ------------------------------
(* Instances of Engines for TLC: hosts of every kind with two jobs, and one*)
(* where a single job may meet any of the documents.                       *)
EXTENDS Engines

CONSTANTS j1, j2

MCJobs == {j1, j2}

Pair(first, second) == (j1 :> first) @@ (j2 :> second)
Of(family, fits) == [family |-> family, fits |-> fits]
Urls(cuckoo, capev2, joe) == [cuckoo |-> cuckoo, capev2 |-> capev2, joe |-> joe]

Cape == [installed |-> {}, url |-> Urls("outside", "inside", "none"), sovereign |-> TRUE]
Mixed == [Cape EXCEPT !.installed = {"firejail", "strace", "qiling", "rootfs"}]
Cuckoo == [Cape EXCEPT !.url = Urls("inside", "inside", "none")]
Joe == [installed |-> {"firejail", "qiling"}, url |-> Urls("none", "none", "outside"),
        sovereign |-> FALSE]
Alone == [Joe EXCEPT !.sovereign = TRUE, !.installed = {"strace"}]

Signature(name, severity) == [name |-> name, severity |-> severity]

MCTypical == [Nothing EXCEPT !.dead = {"c2"}, !.hosts = {"c2", "cdn"}, !.signatures = {Signature("packed", 3)},
                             !.verdict = "malicious"]

World(host, samples) ==
    [host |-> host, sample |-> samples, anything |-> FALSE, faults |-> 2]

Fits == {"served", "declined", "misfit", "unreportable", "malformed"}

(* Three processes: of three numbers, of two, or one of no number, the     *)
(* second launched or none marked, with any parents.                       *)
Trees == {<<>>} \cup
    {[i \in 1..3 |-> [pid |-> pids[i], parent |-> parents[i], launched |-> marked /\ i = 2]] :
        pids \in {<<1, 2, 3>>, <<2, 1, 2>>, <<1, 0, 2>>}, parents \in [1..3 -> 0..3], marked \in BOOLEAN}
Networks == [tcp : {{}, {"c2"}, {"c2", "cdn"}}, http : SUBSET {"c2"}, dead : SUBSET {"c2", "cdn"},
             hosts : SUBSET {"c2", "cdn"}, dns : {{}, {<<"evil", "c2">>, <<"update", "cdn">>}}]

MCDocuments ==
    {[Nothing EXCEPT !.processes = tree] : tree \in Trees}
    \cup {[Nothing EXCEPT !.tcp = n.tcp, !.http = n.http, !.dead = n.dead, !.hosts = n.hosts,
                          !.dns = n.dns] : n \in Networks}
    \cup {[Nothing EXCEPT !.signatures = s, !.identified = i, !.score = 5] :
             s \in SUBSET {Signature("a", 0), Signature("b", 2), Signature("c", 5)}, i \in {{}, {"family"}}}

MCWorlds ==
    {World(Cape, Pair(Of("pe", x), Of("script", y))) : x \in Fits \ {"malformed"},
                                                       y \in Fits \ {"malformed"}}
    \cup {World(Mixed, Pair(Of(x, "served"), Of("script", "misfit"))) : x \in {"pe", "elf"}}
    \cup {World(Cuckoo, Pair(Of("pe", x), Of("elf", "served"))) : x \in Fits}
    \cup {World(host, Pair(Of("pe", "served"), Of("elf", "unreportable"))) : host \in {Joe, Alone}}
    \cup {[World(Cape, Pair(Of("pe", "served"), Of("other", "served"))) EXCEPT !.anything = TRUE,
                                                                       !.faults = 0],
          World(Cape, Pair(Of("pe", "malformed"), Of("other", "served")))}
=============================================================================
