----------------------------- MODULE Assessment -----------------------------
(***************************************************************************)
(* From the findings of a job to what its row says: engine/scoring.py,     *)
(* capabilities.py, verdict.py, impact.py, mitre.py and incident.py, as    *)
(* pipeline.run and the ingest of a detonation's report both call them.    *)
(*                                                                         *)
(* A finding is one of a small catalogue that has a member for each way    *)
(* the code tells findings apart; a severity is a number of 0..4, a score  *)
(* is in tenths of a point, and the logistic of the model is a table with  *)
(* straight lines between entries.                                         *)
(***************************************************************************)
EXTENDS Identify, Authenticode

CONSTANTS Ordinary,       \* files that any findings may be made in
          Surveyed,      \* bound: files in which nothing else is found, and which nobody detonates
          MaxStatic,     \* bound: further findings of the static analyzers
          MaxTrace,      \* bound: findings of a detonation
          MaxAged        \* bound: further findings of a file that outlives its bytes or its rules

ASSUME AssessmentAssumption == MaxStatic \in Nat /\ MaxTrace \in Nat /\ MaxAged \in Nat
ASSUME FilesAssumption == \A f \in Ordinary \cup Surveyed : f.content = "dos" => Legible(f)

FamilyNames == {"pe", "elf", "pdf", "office", "archive", "apk", "script", "diskimage", "unknown"}

(* SEVERITY_ORDER                                                          *)
Sev == [info |-> 0, low |-> 1, medium |-> 2, high |-> 3, critical |-> 4]

-----------------------------------------------------------------------------
(* The catalogue, in the order in which the results of a job are listed:   *)
(* a finding, who reports it, at which severity, and the capabilities that *)
(* its id or the sandbox's category for it stand for.                      *)

Catalogue == <<
    <<"generic.extension_mismatch", "generic", Sev.high, {"deception"}>>,
    <<"generic.double_extension", "generic", Sev.high, {"deception"}>>,
    <<"generic.suspicious_tld", "generic", Sev.low, {}>>,
    <<"generic.embedded_executable", "generic", Sev.high, {"dropper"}>>,
    <<"pe.high_entropy_section", "pe", Sev.high, {}>>,
    <<"pe.packer_section_name", "pe", Sev.medium, {"evasion"}>>,
    <<"pe.import_combination", "pe", Sev.high, {"injection"}>>,
    <<"pe.overlay_present", "pe", Sev.medium, {}>>,
    <<"pe.signature_verified", "pe", Sev.info, {}>>,
    <<"pe.signature_present", "pe", Sev.info, {}>>,
    <<"pe.signature_does_not_cover_file", "pe", Sev.high, {}>>,
    <<"office.autoexec_macro", "office", Sev.high, {"execution"}>>,
    <<"script.dynamic_execution", "script", Sev.high, {"execution", "injection"}>>,
    <<"script.obfuscation_high", "script", Sev.medium, {"evasion"}>>,
    <<"document.mentions_download", "script", Sev.low, {}>>,
    <<"document.mentions_persistence", "script", Sev.low, {}>>,
    <<"yara.upx_packed_executable", "yara", Sev.medium, {}>>,
    <<"yara.embedded_pe_in_nonpe", "yara", Sev.high, {}>>,
    <<"yara.embedded_pe_in_nonpe, in a container", "yara", Sev.low, {}>>,
    <<"yara.vba_download_and_execute", "yara", Sev.high, {}>>,
    <<"yara.vba_download_and_execute, out of scope", "yara", Sev.info, {}>>,
    <<"capev2.packer_entropy", "dynamic", Sev.high, {"evasion"}>>,
    <<"capev2.creates_suspended_process", "dynamic", Sev.high, {"injection"}>>,
    <<"capev2.mass_file_modification_access", "dynamic", Sev.high, {"destruction"}>>,
    <<"capev2.infostealer_browser", "dynamic", Sev.high, {"credential"}>>,
    <<"capev2.infostealer_mail", "dynamic", Sev.high, {"credential"}>>,
    <<"capev2.stealth_network", "dynamic", Sev.low, {"network"}>>,
    <<"capev2.detection", "dynamic", Sev.critical, {}>>,
    <<"qiling.network_call", "dynamic", Sev.high, {"network"}>>
>>

Ids == {e[1] : e \in Range(Catalogue)}
Place == [s \in Ids |-> CHOOSE i \in DOMAIN Catalogue : Catalogue[i][1] = s]
Entry(s) == CHOOSE e \in Range(Catalogue) : e[1] = s
Reporter == [s \in Ids |-> Entry(s)[2]]
Severity == [s \in Ids |-> Entry(s)[3]]
Means == [s \in Ids |-> Entry(s)[4]]

Dynamic == {s \in Ids : Reporter[s] = "dynamic"}

(* scoring._dynamic, by the prefix of the id: what the other engines of the*)
(* worker report is dynamic, and is not meant by the guards of scoring.py. *)
Emulated == {"qiling.network_call"}
OfCape == Dynamic \ Emulated

(* The analyzers that a family is given to; generic and YARA see them all. *)
Handles == [generic |-> FamilyNames, pe |-> {"pe"}, office |-> {"office"},
            script |-> {"script"}, yara |-> FamilyNames]

(* yara_engine.analyze: what is a container by its name is expected to     *)
(* carry programs, and a rule may say which families it is not for.  A rule*)
(* file may fail to compile or run out of time; what it matches is missing.*)
YaraIds(family, claimed) ==
    {"yara.upx_packed_executable",
     IF claimed = ".iso" THEN "yara.embedded_pe_in_nonpe, in a container" ELSE "yara.embedded_pe_in_nonpe",
     IF family \in {"pe", "elf"} THEN "yara.vba_download_and_execute, out of scope" ELSE "yara.vba_download_and_execute"}

(* What follows from the file itself, and what else may be found in it.    *)
Given(f) == NameFindings(f.content, f.name)
            \cup IF f.content = "dos" THEN SignatureFindings(f) ELSE {}

StaticIds(f) ==
    LET i == Identity(f.content, f.name)
    IN {s \in Ids \ Dynamic :
           /\ i.family \in Handles[Reporter[s]]
           /\ Reporter[s] = "yara" => s \in YaraIds(i.family, i.claimed)
           /\ s \notin {"generic.extension_mismatch", "generic.double_extension", "pe.signature_verified",
                        "pe.signature_present", "pe.signature_does_not_cover_file"}}

(* The tables of scoring.py, of what is in the catalogue.                  *)
EvidenceGroups == [packed |-> {"pe.high_entropy_section", "pe.packer_section_name",
                               "yara.upx_packed_executable", "capev2.packer_entropy"},
                   carriesAProgram |-> {"generic.embedded_executable", "yara.embedded_pe_in_nonpe",
                                        "yara.embedded_pe_in_nonpe, in a container"}]
Grouped == UNION {EvidenceGroups[g] : g \in DOMAIN EvidenceGroups}
Ambient == {"capev2.packer_entropy"}
Structural == {"pe.high_entropy_section", "pe.packer_section_name", "pe.import_combination",
               "pe.overlay_present", "yara.upx_packed_executable", "capev2.packer_entropy"}
FamilyAmbient(f) == IF f = "script" THEN {"capev2.creates_suspended_process"} ELSE {}
Uncalibrated == {"elf"}

(* data_shared_behaviours.txt; the ids that carry evidence of a family; the*)
(* reputation of an address.                                               *)
SharedBehaviours == {"capev2.mass_file_modification_access"}
Identifies == {"capev2.detection"}
Reputation == {"generic.suspicious_tld"}
Mentions == {"document.mentions_download", "document.mentions_persistence"}

-----------------------------------------------------------------------------
(* scoring.py.  S is a set of findings, f a family, and ok says whether    *)
(* what a detonation observed is the sample's doing.                       *)

Earlier(s, t) == Place[s] < Place[t]

(* The strongest of a group as it was reported; of equals, the first.      *)
Strongest(S, g) ==
    CHOOSE s \in S \cap EvidenceGroups[g] :
        \A t \in (S \cap EvidenceGroups[g]) \ {s} :
            Severity[t] < Severity[s] \/ (Severity[t] = Severity[s] /\ Earlier(s, t))

Collapse(S) == (S \ Grouped) \cup
    {Strongest(S, g) : g \in {h \in DOMAIN EvidenceGroups : S \cap EvidenceGroups[h] # {}}}

(* A capability of the script analyzer that nothing else of it supports.   *)
Uncorroborated(S) ==
    IF \E s \in S : s # "script.dynamic_execution" /\ Reporter[s] = "script" /\ Severity[s] >= Sev.medium
    THEN {} ELSE S \cap {"script.dynamic_execution"}

Signed(S) == "pe.signature_verified" \in S

(* Mutated: a publisher excuses nothing.                                   *)
EffectiveUnsigned(s, S, f, ok) ==
    IF s \in OfCape /\ f \in Uncalibrated THEN Sev.info
    ELSE IF /\ Severity[s] >= Sev.medium
            /\ \/ s \in Ambient \cup Uncorroborated(S) \cup FamilyAmbient(f)
               \/ ~ok /\ s \in OfCape
    THEN Sev.low ELSE Severity[s]

(* The severity with which a finding among S enters the score.             *)
Effective(s, S, f, ok) ==
    IF s \in OfCape /\ f \in Uncalibrated THEN Sev.info
    ELSE IF /\ Severity[s] >= Sev.medium
            /\ \/ s \in Ambient \cup Uncorroborated(S) \cup FamilyAmbient(f)
               \/ Signed(S) /\ s \in Structural
               \/ ~ok /\ s \in OfCape
    THEN Sev.low ELSE Severity[s]

(* n findings of a band of this weight: each is worth 45% of the one before*)
(* it.  In units of 1/100000 of a point.                                   *)
Weight == <<0, 400000, 1100000, 2600000, 5500000>>
Saturate(weight, n) ==
    LET sum[i \in 0..n] == IF i = 0 THEN 0 ELSE weight + (45 * sum[i - 1]) \div 100
    IN sum[n]

InAllBands(points) == points[1] + points[2] + points[3] + points[4]

RuleScore(S, f, ok) ==
    LET kept == Collapse(S)
        effective == [s \in kept |-> Effective(s, kept, f, ok)]
        points == [v \in 1..4 |-> Saturate(Weight[v + 1], Cardinality({s \in kept : effective[s] = v}))]
    IN Min({1000, (InAllBands(points) + 4999) \div 10000})

(* The logit of the model in thousandths, its features at their ceilings.  *)
Accusers == {"pe.import_combination", "script.dynamic_execution"}

Logit(S, iocs) ==
    LET hits(T) == Cardinality(S \cap T)
        flag(s, w) == IF s \in S THEN w ELSE 0
    IN -3100 + 650 * Min({4, hits({s \in Ids : Reporter[s] = "yara"})})
             + (2900 * Min({3, hits(Accusers)})) \div 3
             + 36 * Min({25, iocs})
             + flag("pe.high_entropy_section", 1500)
             + flag("generic.extension_mismatch", 2200)
             + flag("office.autoexec_macro", 2100)
             + flag("generic.embedded_executable", 1800)

(* The logits, in thousandths, of 0.5%, 1.5%, ... 99.5%.                   *)
Percent == <<-5293, -4185, -3664, -3317, -3055, -2844, -2666, -2512, -2376, -2254,
    -2143, -2041, -1946, -1857, -1774, -1696, -1621, -1551, -1483, -1418, -1355,
    -1295, -1237, -1180, -1125, -1072, -1020, -969, -920, -871, -824, -777, -731,
    -686, -641, -597, -554, -511, -468, -426, -385, -343, -302, -261, -221, -180,
    -140, -100, -60, -20, 20, 60, 100, 140, 180, 221, 261, 302, 343, 385, 426, 468,
    511, 554, 597, 641, 686, 731, 777, 824, 871, 920, 969, 1020, 1072, 1125, 1180,
    1237, 1295, 1355, 1418, 1483, 1551, 1621, 1696, 1774, 1857, 1946, 2041, 2143,
    2254, 2376, 2512, 2666, 2844, 3055, 3317, 3664, 4185, 5293>>

(* The logistic, between two entries of the table a straight line.         *)
ModelScore(S, iocs) ==
    LET logit == Logit(S, iocs)
        k == Max({p \in DOMAIN Percent : Percent[p] <= logit})
        step == Percent[k + 1] - Percent[k]
    IN IF k = 100 THEN 1000 ELSE 10 * k - 5 + (10 * (logit - Percent[k]) + step \div 2) \div step

(* 0.6 of the rules and 0.4 of the model.                                  *)
FinalScore(S, f, ok, iocs) == (6 * RuleScore(S, f, ok) + 4 * ModelScore(S, iocs) + 5) \div 10

RiskLevel(score) == IF score >= 800 THEN Sev.critical ELSE IF score >= 600 THEN Sev.high
                    ELSE IF score >= 300 THEN Sev.medium ELSE Sev.low

(* inadmissible_dynamic_ids                                                *)
Inadmissible(f, ok) == IF f \in Uncalibrated \/ ~ok THEN OfCape ELSE {}

(* Mutated: a trace of the guest asserts what one of the sample would.     *)
ExcludedCredulous(S, f, ok) == Uncorroborated(S) \cup FamilyAmbient(f) \cup Inadmissible(f, TRUE)

(* capability_exclusions: what is shown and may assert no capability.      *)
Excluded(S, f, ok) == Uncorroborated(S) \cup FamilyAmbient(f) \cup Inadmissible(f, ok)

-----------------------------------------------------------------------------
(* capabilities.py                                                         *)

HighConsequence == {"destruction", "credential", "exploit", "injection"}

Conclusive(s) == Severity[s] >= Sev.high /\ s \notin SharedBehaviours

(* A curated id asserts what it stands for; of a detonation a capability   *)
(* that accuses counts with a conclusive finding only.                     *)
AssertedBy(s) == IF Severity[s] < Sev.low THEN {}
                 ELSE IF s \in Dynamic /\ ~Conclusive(s) THEN Means[s] \ HighConsequence
                 ELSE Means[s]

Asserts == [s \in Ids |-> AssertedBy(s)]

(* Two findings of a detonation before it accuses.                         *)
Detect(S) ==
    LET asserted(T) == UNION {Asserts[s] : s \in T}
        support(c) == {s \in S \cap Dynamic : c \in Asserts[s]}
    IN asserted(S \ Dynamic) \cup (asserted(S \cap Dynamic) \ HighConsequence)
       \cup {c \in HighConsequence : Cardinality(support(c)) >= 2}

-----------------------------------------------------------------------------
(* verdict.py                                                              *)

Worst(S, f, ok) == Max({Sev.info} \cup {Effective(s, S, f, ok) : s \in S})

GroupOf == [s \in Ids |-> IF s \in Grouped
                          THEN CHOOSE g \in DOMAIN EvidenceGroups : s \in EvidenceGroups[g]
                          ELSE "none"]

(* What a row of the panel rests on, if it is one correlated fact.         *)
RestsOn(deciding) ==
    LET groups == {GroupOf[s] : s \in deciding}
    IN IF Cardinality(groups) = 1 THEN CHOOSE g \in groups : TRUE ELSE "none"

Row(engine, on, group) == [engine |-> engine, on |-> on, group |-> group]

(* The engine panel.                                                       *)
Panel(S, f, ok, admissible) ==
    LET of(r) == {s \in S : Reporter[s] = r}
        accuses(T) == Detect(T) \cap HighConsequence # {}
    IN {Row(r, Worst(of(r), f, ok) >= Sev.high,
            RestsOn({s \in of(r) : Severity[s] >= Sev.high})) :
            r \in {"generic", "pe", "office", "script"}}
       \cup {Row(s, Severity[s] >= Sev.medium, GroupOf[s]) : s \in of("yara")}
       \cup {Row("dynamic", accuses(admissible \cap Dynamic), "none"),
             Row("heuristic", accuses(admissible), "none"),
             Row("sandbox id", admissible \cap Identifies # {}, "none"),
             Row("reputation", S \cap Reputation # {}, "none")}

(* Mutated: rows are counted.                                              *)
DetectedRows(panel) == Cardinality({r \in panel : r.on})

(* Distinct evidence, not distinct rows.                                   *)
Detected(panel) ==
    LET on == {r \in panel : r.on}
    IN Cardinality({r \in on : r.group = "none"}) + Cardinality({r.group : r \in on} \ {"none"})

Verdict(S, admissible, caps, detected, score) ==
    IF \/ admissible \cap Identifies # {}
       \/ caps # {} /\ score >= 600
       \/ caps # {} /\ score >= 300 /\ detected >= 2
    THEN "malicious"
    ELSE IF \/ score >= 300
            \/ detected >= 1 /\ caps # {}
            \/ Cardinality(S \cap Mentions) >= 2
    THEN "suspicious" ELSE "clean"

Rank == [clean |-> 0, suspicious |-> 1, malicious |-> 2]

(* _CATEGORY_BY_CAP, most accusing first.                                  *)
CategoryByCap == << <<"destruction", "Ransom">>, <<"credential", "Spyware">>,
    <<"exploit", "Exploit">>, <<"network", "Downloader">>, <<"injection", "Injector">>,
    <<"persistence", "Backdoor">>, <<"dropper", "Dropper">>, <<"execution", "Trojan">>,
    <<"privilege", "Riskware">>, <<"deception", "Riskware">>, <<"discovery", "Riskware">> >>

Accusing == {"Ransom", "Spyware", "Exploit", "Downloader", "Injector", "Backdoor", "Dropper", "Trojan"}

(* The first of the list, unless a later one has two more high findings.   *)
CategoryFor(S, caps) ==
    LET ranked == SelectSeq(CategoryByCap, LAMBDA e : e[1] \in caps)
        support(e) == Cardinality({s \in S : Severity[s] >= Sev.high /\ e[1] \in Asserts[s]})
        lead[i \in 1..Len(ranked)] ==
            IF i = 1 THEN ranked[1]
            ELSE IF support(ranked[i]) >= support(lead[i - 1]) + 2 THEN ranked[i] ELSE lead[i - 1]
    IN IF ranked = <<>> THEN "Clean" ELSE lead[Len(ranked)][2]

(* Mutated: a suspicious file keeps the name of what it is suspected of.   *)
CategoryUnsigned(found, signed, verdict) ==
    IF verdict = "clean" THEN "Clean"
    ELSE IF found = "Clean" THEN IF verdict = "malicious" THEN "Malware" ELSE "Suspicious"
    ELSE found

(* The category of the name under which the verdict is published.          *)
Category(found, signed, verdict) ==
    IF verdict = "clean" THEN "Clean"
    ELSE IF found = "Clean" THEN IF verdict = "malicious" THEN "Malware" ELSE "Suspicious"
    ELSE IF verdict = "suspicious" /\ signed /\ found \in Accusing THEN "Riskware"
    ELSE found

-----------------------------------------------------------------------------
(* impact.py: the metrics, and the arithmetic of CVSS 3.1 in millionths.   *)

Metrics(caps, url) ==
    LET has(names) == caps \cap names # {}
        runs == has({"execution", "injection"})
    IN [AV |-> IF has({"network"}) \/ url THEN "N" ELSE "L",
        AC |-> IF has({"evasion"}) THEN "H" ELSE "L",
        S  |-> IF has({"persistence", "privilege"}) THEN "C" ELSE "U",
        C  |-> IF has({"credential"}) THEN "H" ELSE IF runs THEN "L" ELSE "N",
        I  |-> IF runs \/ has({"persistence", "dropper", "exploit"}) THEN "H"
               ELSE IF has({"deception"}) THEN "L" ELSE "N",
        A  |-> IF has({"destruction"}) THEN "H"
               ELSE IF {"persistence", "network"} \subseteq caps THEN "L" ELSE "N"]

Power15(x) == LET p[n \in 0..15] == IF n = 0 THEN 100000 ELSE (p[n - 1] * x) \div 10000
              IN p[15]

BaseScore(m) ==
    LET left == [H |-> 440, L |-> 780, N |-> 1000]
        iss == 1000000 - (left[m.C] * left[m.I] * left[m.A]) \div 1000
        impact == IF m.S = "C"
                  THEN 752 * ((iss - 29000) \div 100) - (325 * Power15((iss - 20000) \div 100)) \div 10
                  ELSE 642 * (iss \div 100)
        exploitability == (43319 * (IF m.AV = "N" THEN 85 ELSE 55)
                                 * (IF m.AC = "L" THEN 77 ELSE 44)) \div 100
        total == IF m.S = "C" THEN (108 * (impact + exploitability)) \div 100
                 ELSE impact + exploitability
    IN IF impact <= 0 THEN 0 ELSE (Min({10000000, total}) + 99990) \div 100000

Unrated == [AV |-> "L", AC |-> "L", S |-> "U", C |-> "N", I |-> "N", A |-> "N"]

(* impact.assess, and pipeline.run's withdrawal of it from a clean job.    *)
Rated(caps, url, verdict) ==
    IF caps = {} \/ verdict = "clean" THEN Unrated ELSE Metrics(caps, url)

-----------------------------------------------------------------------------
(* mitre.py, of what is in the catalogue; and the answers of incident.py.  *)

Rules == {<<"T1105", {"generic.embedded_executable", "document.mentions_download"}>>,
          <<"T1071", {"capev2.stealth_network", "qiling.network_call"}>>,
          <<"T1204.002", {"office.autoexec_macro"}>>,
          <<"T1027", {"pe.high_entropy_section", "script.obfuscation_high", "yara.upx_packed_executable"}>>,
          <<"T1555", {"capev2.infostealer_browser", "capev2.infostealer_mail"}>>,
          <<"T1027.002", {"pe.packer_section_name", "yara.upx_packed_executable", "capev2.packer_entropy"}>>}

Techniques(S, f, ok) == {r[1] : r \in {q \in Rules : (S \ Inadmissible(f, ok)) \cap q[2] # {}}}

(* Mutated: the band of the score is taken for the verdict.                *)
MaliciousByBand(r) == r.risk >= Sev.high

(* report._assessed_malicious: a row from before there were verdicts has   *)
(* the band of its score only.                                             *)
AssessedMalicious(r) == IF r.verdict = "" THEN r.risk >= Sev.high ELSE r.verdict = "malicious"

UnlawfulAct(r) == IF AssessedMalicious(r) THEN "yes"
                  ELSE IF r.verdict = "suspicious" THEN "suspected" ELSE "not evidenced"

DataLosses(impact) == {<<x, impact[x]>> : x \in {"C", "I", "A"}} \ {<<x, "N">> : x \in {"C", "I", "A"}}

-----------------------------------------------------------------------------
VARIABLES file,        \* content, name, signature, and the hosts it mentions
          sample,      \* family, whether anything runs it, whether a URL brought it
          found,       \* what the static analyzers find in it, under the rules of today
          intact,      \* whether its bytes are in quarantine
          job,         \* what its row holds of it: family, mime, static findings
          trace,       \* what its detonation has reported, as its row holds it
          row,         \* the assessment that is stored
          today        \* history: whether the rules of today have found what the row holds

assessVars == <<file, sample, found, intact, job, trace, row, today>>

NoTrace == [ran |-> FALSE, ids |-> {}, iocs |-> 0]

(* has_execution_path, asked of scripts only.                              *)
Attributable(s) == s.family # "script" \/ s.runs

(* What was observed and does not count is said with the score.            *)
Caveats(s, S, ok, ran) ==
    {c \in {"not attributable", "uncalibrated"} :
        /\ ran
        /\ IF c = "not attributable" THEN ~ok ELSE s.family \in Uncalibrated /\ S \cap OfCape # {}}

(* What a row rests on.                                                    *)
Opinions(s, S, iocs, ok) ==
    LET admissible == S \ Excluded(S, s.family, ok)
    IN [admissible |-> admissible,
        caps     |-> Detect(admissible),
        detected |-> Detected(Panel(S, s.family, ok, admissible)),
        rule     |-> RuleScore(S, s.family, ok),
        score    |-> FinalScore(S, s.family, ok, iocs)]

(* The row, from what it rests on.                                         *)
Classify(s, S, o, ok, ran) ==
    LET verdict == Verdict(S, o.admissible, o.caps, o.detected, o.score)
        impact == Rated(o.caps, s.url, verdict)
    IN [rule |-> o.rule, score |-> o.score, risk |-> RiskLevel(o.score),
        caps |-> o.caps, detected |-> o.detected, verdict |-> verdict,
        category |-> Category(CategoryFor(o.admissible, o.caps), Signed(S), verdict),
        impact |-> impact, base |-> BaseScore(impact),
        techniques |-> Techniques(S, s.family, ok), caveats |-> Caveats(s, S, ok, ran)]

Assess(s, S, iocs, ok, ran) == Classify(s, S, Opinions(s, S, iocs, ok), ok, ran)

(* scorable_ioc_total                                                      *)
Scorable(s, t, ok) == IF ~t.ran \/ ~ok \/ s.family \in Uncalibrated THEN 0 ELSE t.iocs

(* pipeline.run: identified and analysed anew, with the trace that the row *)
(* carries.                                                                *)
Pipeline(s, S, t) ==
    Assess(s, S \cup (IF t.ran THEN t.ids ELSE {}), Scorable(s, t, Attributable(s)), Attributable(s), t.ran)

(* _dynamic_is_attributable, of what the row holds.                        *)
AttributableRow(f, j) ==
    j.family # "script" \/ ExecutionPath([mime |-> j.mime, claimed |-> Claimed(f.name)])

(* _sample_from                                                            *)
Identified(f, j) == LET i == Identity(f.content, f.name)
                    IN [j EXCEPT !.family = i.family, !.mime = i.mime]

(* Mutated: the findings of the row are those that count.                  *)
StaticResultsStored(j, S, again) == j.static

(* _static_results: found anew, with what the row holds of analyzers that  *)
(* have not answered; or what the row holds.                               *)
StaticResults(j, S, again) ==
    IF again THEN S \cup {s \in j.static : j.family \notin Handles[Reporter[s]]}
    ELSE j.static

(* ingest_report, over what the row now holds of the file.                 *)
Ingested(f, s, j, t) ==
    LET stored == [s EXCEPT !.family = j.family]
        ok == AttributableRow(f, j)
    IN Assess(stored, j.static \cup (IF t.ran THEN t.ids ELSE {}), Scorable(stored, t, ok), ok, t.ran)

(* A report is the one of one engine.                                      *)
TracesOf(ids) == [ran : {TRUE}, ids : UNION {kSubset(k, ids) : k \in 0..MaxTrace}, iocs : {0, 25}]
Traces == TracesOf(OfCape) \cup TracesOf(Emulated) \cup {NoTrace}

SampleOf(f, url) ==
    LET i == Identity(f.content, f.name)
    IN [family |-> i.family, runs |-> ExecutionPath(i), url |-> url]

Held(f, S) == LET i == Identity(f.content, f.name)
              IN [family |-> i.family, mime |-> i.mime, static |-> S]

AssessInit == /\ file \in Ordinary \cup Surveyed
        /\ \E url \in BOOLEAN : /\ url => file \in Ordinary
                                /\ sample = SampleOf(file, url)
        /\ \E S \in UNION {kSubset(k, StaticIds(file)) : k \in 0..(IF file \in Ordinary THEN MaxStatic ELSE 0)} :
              found = S \cup Given(file)
        /\ intact = TRUE
        /\ job = Held(file, found)
        /\ trace = NoTrace
        /\ row = Pipeline(sample, found, trace)
        /\ today = TRUE

(* The files that retention and new rules are followed of: uploads with few*)
(* findings.                                                               *)
Aged == file \in Ordinary /\ ~sample.url /\ Cardinality(job.static \ Given(file)) <= MaxAged

(* A report is ingested, once (bound; of several, see DetonationSeam); one *)
(* that says the sample did not run counts.  The file is identified anew   *)
(* if its bytes are there, and so it is analysed unless that raises.       *)
Ingest(t) == /\ file \in Ordinary
             /\ trace = NoTrace
             /\ trace' = t
             /\ \E again \in IF Aged THEN {FALSE, intact} ELSE {intact} :
                   LET j == IF intact THEN Identified(file, job) ELSE job
                   IN /\ job' = [j EXCEPT !.static = StaticResults(j, found, again)]
                      /\ today' = (again \/ today)
             /\ row' = Ingested(file, sample, job', t)
             /\ UNCHANGED <<file, sample, found, intact>>

(* A re-analysis without the bytes fails, and leaves the row as it was.    *)
Reanalyse == /\ intact
             /\ job' = Held(file, found)
             /\ row' = Pipeline(sample, found, trace)
             /\ today' = TRUE
             /\ UNCHANGED <<file, sample, found, intact, trace>>

(* The rules of another day no longer find something (bound: one thing).   *)
Redeploy == /\ Aged /\ found = job.static
            /\ \E s \in found \ Given(file) : found' = found \ {s}
            /\ today' = FALSE
            /\ UNCHANGED <<file, sample, intact, job, trace, row>>

(* Retention                                                               *)
Purge == /\ Aged /\ intact
         /\ intact' = FALSE
         /\ UNCHANGED <<file, sample, found, job, trace, row, today>>

AssessNext == (\E t \in Traces : Ingest(t)) \/ Reanalyse \/ Redeploy \/ Purge

AssessSpec == AssessInit /\ [][AssessNext]_assessVars

-----------------------------------------------------------------------------
(* Properties.                                                             *)

(* What the row would say of the same findings without the trace.          *)
Alone == Pipeline(sample, job.static, NoTrace)

Discounted == sample.family \in Uncalibrated \/ ~Attributable(sample)

(* A trace of CAPE, of a platform nobody has measured or of a guest that   *)
(* opened a file nothing runs, names no capability, no technique and no    *)
(* opinion that the file did not have without it: a verdict is worse only  *)
(* if the score has crossed 300 or 600, and an impact only if there was a  *)
(* clean verdict before.  Of the traces of other engines the code does not *)
(* keep it.                                                                *)
RefusedTraceNamesNothing ==
    Discounted /\ trace.ids \subseteq OfCape =>
        /\ row.caps = Alone.caps
        /\ row.techniques = Alone.techniques
        /\ row.detected = Alone.detected
        /\ (row.score >= 300 <=> Alone.score >= 300) /\ (row.score >= 600 <=> Alone.score >= 600)
           => row.verdict = Alone.verdict /\ row.category = Alone.category
        /\ Rank[row.verdict] <= Rank[Alone.verdict] => row.base <= Alone.base

(* What the file is called and how it is signed; see Identify and          *)
(* Authenticode.                                                           *)
RenamingHidesNothing == NameHidesNothing(file.content, file.name)

SignatureIsVouchedFor == file.content = "dos" => VouchedFor(file) /\ OrderIsNothing(file)

(* One fact, whoever sees it and however often, is never called malicious: *)
(* a packed file, or a file that carries a program.                        *)
OneFactIsNotMalice ==
    \A g \in DOMAIN EvidenceGroups :
        (\A s \in job.static \cup trace.ids : Severity[s] > Sev.info => s \in EvidenceGroups[g])
        => row.verdict # "malicious"

(* What is only how a file was built brings a file whose publisher is      *)
(* verified 7.3 points of the rules, however much of it there is, and never*)
(* to a high risk.                                                         *)
BuiltWeighsLittle ==
    /\ Signed(job.static)
    /\ (\A s \in job.static \cup trace.ids : Severity[s] >= Sev.medium => s \in Structural)
    => row.rule <= 73 /\ row.risk <= Sev.medium

(* The parts of a row agree: what is clean has no impact, no data losses   *)
(* in the regulatory record and no name but Clean, and what the record     *)
(* answers "yes" to can be named.                                          *)
RowAgrees ==
    /\ UnlawfulAct(row) = "not evidenced" =>
           row.base = 0 /\ DataLosses(row.impact) = {} /\ row.category = "Clean" /\ row.score < 300
    /\ row.base > 0 => row.caps # {} /\ row.verdict # "clean"
    /\ Signed(job.static) /\ row.category \in Accusing => row.verdict = "malicious"

(* What stands in a row that the rules of today have written, the ingest of*)
(* a report too, is what a re-analysis would write: what new rules have    *)
(* withdrawn does not come back with a report that is late.                *)
ReanalysisAgrees == [][trace' = trace /\ found' = found /\ today => row' = row]_assessVars

-----------------------------------------------------------------------------
(* Claims of the source's comments that the code does not keep.            *)

(* "None of it moves the number.  A trace is a document until it is        *)
(* calibrated."                                                            *)
TraceMovesNothing == sample.family \in Uncalibrated => row.score = Alone.score

(* "An uncalibrated platform has to contribute nothing whatever severity it*)
(* arrives at", and of a file that nothing runs "everything the guest was  *)
(* observed doing belongs to the guest", whichever engine reports it.      *)
NoEngineIsBelieved == Discounted => row.caps = Alone.caps /\ row.techniques = Alone.techniques

(* Of a signature made under a weak digest, "signed and NOT treated as     *)
(* verified".                                                              *)
NoWeakSignature == file.content = "dos" => StronglySigned(file)

(* "What does differ is who signed them.  So these stop accusing": all that*)
(* is not merely said of a file is how it was built, and nobody has watched*)
(* it.                                                                     *)
BuiltIsNotAccused ==
    /\ Signed(job.static) /\ trace = NoTrace
    /\ (\A s \in job.static : Severity[s] > Sev.info => s \in Structural)
    => row.verdict # "malicious"
=============================================================================
