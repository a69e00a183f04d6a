--------------------------- MODULE EvidenceProofs ---------------------------
(***************************************************************************)
(* Theorems about what is made of evidence.  About Assessment and Exports, *)
(* for files of any content, name and signature, and any number of         *)
(* findings: what may not convict does not, the parts of a row agree, and  *)
(* so does what leaves the service about it.  About Engines, for any       *)
(* hosts, samples, documents, threads and faults: a report is of the       *)
(* sample it is told of, no sample is handed to CAPE in a loop, and no     *)
(* address that a sandbox saw is lost.                                     *)
(***************************************************************************)
EXTENDS Engines, Exports, FiniteSetTheorems, SequenceTheorems, WellFoundedInduction, TLAPS

-----------------------------------------------------------------------------
(* Numbers.                                                                *)

LEMMA Least ==
    ASSUME NEW S \in SUBSET Nat, S # {}
    PROVE  Min(S) \in S /\ \A k \in S : Min(S) <= k
  <1> DEFINE R == {ss \in Nat \X Nat : ss[1] < ss[2]}
  <1>1. IsWellFoundedOn(R, Nat)
    BY NatLessThanWellFounded DEF OpToRel
  <1>2. PICK x \in S : \A y \in S : ~(<<y, x>> \in R)
    <2> HIDE DEF R
    <2> QED BY <1>1, WFMin
  <1>3. \A y \in S : x <= y
    <2> SUFFICES ASSUME NEW y \in S PROVE x <= y
      OBVIOUS
    <2>1. x \in Nat /\ y \in Nat /\ ~(<<y, x>> \in R)
      BY <1>2
    <2> QED BY <2>1
  <1> QED BY <1>3 DEF Min

(* What holds of 0, and of i + 1 when it holds of i, holds up to n.        *)
LEMMA UpTo ==
    ASSUME NEW S, NEW n \in Nat, 0 \in S, \A i \in 0..(n - 1) : i \in S => i + 1 \in S
    PROVE  0..n \subseteq S
  <1> DEFINE T == (0..n) \ S
  <1> SUFFICES ASSUME T # {} PROVE FALSE
    OBVIOUS
  <1>1. PICK k \in T : \A i \in T : k <= i
    <2>1. T \subseteq Nat
      OBVIOUS
    <2> HIDE DEF T
    <2> QED BY <2>1, Least
  <1>2. k # 0 /\ k - 1 \in 0..(n - 1) /\ k - 1 \notin T
    BY <1>1
  <1> QED BY <1>1, <1>2

StepsOn(n, T) == [1..n -> [T -> T]]

(* A function on 0..n that is given by its first value and by a step.      *)
Built(n, T, a, step) ==
    \E f \in [0..n -> T] : f[0] = a /\ \A i \in 1..n : f[i] = step[i][f[i - 1]]

LEMMA Steps ==
    ASSUME NEW n \in Nat, NEW T, NEW a \in T, NEW step \in StepsOn(n, T)
    PROVE  Built(n, T, a, step)
  <1> DEFINE S == {m \in 0..n : \E f \in [0..m -> T] :
                      f[0] = a /\ \A i \in 1..m : f[i] = step[i][f[i - 1]]}
  <1>0. step \in [1..n -> [T -> T]]
    BY DEF StepsOn
  <1>1. 0 \in S
    <2> DEFINE f == [i \in 0..0 |-> a]
    <2>1. f \in [0..0 -> T] /\ f[0] = a /\ 0 \in 0..n
      OBVIOUS
    <2> HIDE DEF f
    <2> QED BY <2>1
  <1>2. ASSUME NEW m \in 0..(n - 1), m \in S PROVE m + 1 \in S
    <2>1. PICK f \in [0..m -> T] : f[0] = a /\ \A i \in 1..m : f[i] = step[i][f[i - 1]]
      BY <1>2
    <2> DEFINE g == [i \in 0..(m + 1) |-> IF i <= m THEN f[i] ELSE step[m + 1][f[m]]]
    <2>2. m + 1 \in 1..n /\ m \in 0..m /\ m + 1 \in 0..n
      OBVIOUS
    <2>3. g \in [0..(m + 1) -> T]
      BY <1>0, <2>2
    <2>4. g[0] = a /\ \A i \in 1..m : g[i] = step[i][g[i - 1]]
      BY <2>1
    <2>5. g[m + 1] = step[m + 1][g[m]]
      OBVIOUS
    <2> HIDE DEF g
    <2>6. \A i \in 1..(m + 1) : g[i] = step[i][g[i - 1]]
      <3> SUFFICES ASSUME NEW i \in 1..(m + 1) PROVE g[i] = step[i][g[i - 1]]
        OBVIOUS
      <3>1. CASE i = m + 1
        <4>1. i - 1 = m
          BY <3>1
        <4> QED BY <2>5, <3>1, <4>1
      <3>2. CASE i \in 1..m
        BY <2>4, <3>2
      <3> QED BY <3>1, <3>2
    <2> QED BY <2>2, <2>3, <2>4, <2>6
  <1>3. 0..n \subseteq S
    <2> HIDE DEF S
    <2> QED BY <1>1, <1>2, UpTo
  <1>4. n \in S
    BY <1>3
  <1> QED BY <1>4 DEF Built

-----------------------------------------------------------------------------
(* The catalogue.                                                          *)

IsGrouped(s) ==
    \/ s = "pe.high_entropy_section" \/ s = "pe.packer_section_name"
    \/ s = "yara.upx_packed_executable" \/ s = "capev2.packer_entropy"
    \/ s = "generic.embedded_executable" \/ s = "yara.embedded_pe_in_nonpe"
    \/ s = "yara.embedded_pe_in_nonpe, in a container"

LEMMA GroupedAre == \A s : s \in Grouped => IsGrouped(s)
<1>1. Grouped = EvidenceGroups.packed \cup EvidenceGroups.carriesAProgram
  BY DEF Grouped, EvidenceGroups
<1>2. \A s \in EvidenceGroups.packed \cup EvidenceGroups.carriesAProgram : IsGrouped(s)
  BY DEF EvidenceGroups, IsGrouped
<1> QED BY <1>1, <1>2

(* What an entry of the catalogue is, as far as the proofs go: who reports *)
(* it, how severe it is, and what it stands for.                           *)
Entered(e) ==
    /\ e[3] = 0 \/ e[3] = 1 \/ e[3] = 2 \/ e[3] = 3 \/ e[3] = 4
    /\ IsGrouped(e[1]) => /\ e[3] # 4
                          /\ e[4] = {} \/ e[4] = {"evasion"} \/ e[4] = {"dropper"}
    /\ e[1] = "generic.suspicious_tld" => e[3] = 1 /\ e[2] = "generic"
    /\ e[1] = "capev2.detection" => e[3] = 4
    /\ e[1] = "script.dynamic_execution" => e[2] = "script"
    /\ e[1] = "generic.extension_mismatch" => e[2] = "generic"
    /\ e[1] = "generic.double_extension" => e[2] = "generic"
    /\ e[1] = "pe.signature_verified" => e[2] = "pe"
    /\ e[1] = "pe.signature_present" => e[2] = "pe"
    /\ e[1] = "pe.signature_does_not_cover_file" => e[2] = "pe"
    /\ e[1] = "document.mentions_download" => e[2] = "script"
    /\ e[1] = "document.mentions_persistence" => e[2] = "script"
    /\ e[1] = "qiling.network_call" => e[2] = "dynamic"

LEMMA EntriesAreEntered == \A e \in Range(Catalogue) : Entered(e)
<1>1. DOMAIN Catalogue = 1..29
  BY DEF Catalogue
<1>2. ASSUME NEW i \in 1..29, NEW e, e = Catalogue[i] PROVE Entered(e)
  <2>0. Sev.info = 0 /\ Sev.low = 1 /\ Sev.medium = 2 /\ Sev.high = 3 /\ Sev.critical = 4
    BY DEF Sev
  <2> USE DEF Catalogue, Entered, IsGrouped
  <2>1. CASE i = 1   BY <1>2, <2>0, <2>1
  <2>2. CASE i = 2   BY <1>2, <2>0, <2>2
  <2>3. CASE i = 3   BY <1>2, <2>0, <2>3
  <2>4. CASE i = 4   BY <1>2, <2>0, <2>4
  <2>5. CASE i = 5   BY <1>2, <2>0, <2>5
  <2>6. CASE i = 6   BY <1>2, <2>0, <2>6
  <2>7. CASE i = 7   BY <1>2, <2>0, <2>7
  <2>8. CASE i = 8   BY <1>2, <2>0, <2>8
  <2>9. CASE i = 9   BY <1>2, <2>0, <2>9
  <2>10. CASE i = 10  BY <1>2, <2>0, <2>10
  <2>11. CASE i = 11  BY <1>2, <2>0, <2>11
  <2>12. CASE i = 12  BY <1>2, <2>0, <2>12
  <2>13. CASE i = 13  BY <1>2, <2>0, <2>13
  <2>14. CASE i = 14  BY <1>2, <2>0, <2>14
  <2>15. CASE i = 15  BY <1>2, <2>0, <2>15
  <2>16. CASE i = 16  BY <1>2, <2>0, <2>16
  <2>17. CASE i = 17  BY <1>2, <2>0, <2>17
  <2>18. CASE i = 18  BY <1>2, <2>0, <2>18
  <2>19. CASE i = 19
    <3>1. e[3] = 1 /\ e[4] = {}
      BY <1>2, <2>0, <2>19
    <3>2. /\ e[1] # "generic.suspicious_tld" /\ e[1] # "capev2.detection"
          /\ e[1] # "script.dynamic_execution" /\ e[1] # "generic.extension_mismatch"
          /\ e[1] # "generic.double_extension" /\ e[1] # "pe.signature_verified"
          /\ e[1] # "pe.signature_present" /\ e[1] # "pe.signature_does_not_cover_file"
          /\ e[1] # "document.mentions_download" /\ e[1] # "document.mentions_persistence"
          /\ e[1] # "qiling.network_call"
      BY <1>2, <2>19
    <3> HIDE DEF Catalogue, IsGrouped
    <3> QED BY <3>1, <3>2
  <2>20. CASE i = 20  BY <1>2, <2>0, <2>20
  <2>21. CASE i = 21  BY <1>2, <2>0, <2>21
  <2>22. CASE i = 22  BY <1>2, <2>0, <2>22
  <2>23. CASE i = 23  BY <1>2, <2>0, <2>23
  <2>24. CASE i = 24  BY <1>2, <2>0, <2>24
  <2>25. CASE i = 25  BY <1>2, <2>0, <2>25
  <2>26. CASE i = 26  BY <1>2, <2>0, <2>26
  <2>27. CASE i = 27  BY <1>2, <2>0, <2>27
  <2>28. CASE i = 28  BY <1>2, <2>0, <2>28
  <2>29. CASE i = 29  BY <1>2, <2>0, <2>29
  <2> HIDE DEF Catalogue, Entered
  <2> QED BY <2>1, <2>2, <2>3, <2>4, <2>5, <2>6, <2>7, <2>8, <2>9, <2>10, <2>11, <2>12, <2>13, <2>14, <2>15, <2>16, <2>17, <2>18, <2>19, <2>20, <2>21, <2>22, <2>23, <2>24, <2>25, <2>26, <2>27, <2>28, <2>29
<1> QED BY <1>1, <1>2 DEF Range

LEMMA LengthOfCatalogue == DOMAIN Catalogue = 1..29
BY DEF Catalogue

(* What the analyzers say of a name and of a signature.                    *)
IsMade(s) ==
    \/ s = "generic.extension_mismatch" \/ s = "generic.double_extension"
    \/ s = "pe.signature_verified" \/ s = "pe.signature_present"
    \/ s = "pe.signature_does_not_cover_file"

(* What is known of a finding.                                             *)
Known(s) ==
    /\ Severity[s] \in 0..4
    /\ IsGrouped(s) => Severity[s] <= 3 /\ Means[s] \cap HighConsequence = {}
    /\ s = "generic.suspicious_tld" => Severity[s] = 1
    /\ s = "capev2.detection" => Severity[s] = 4
    /\ s = "script.dynamic_execution" => Reporter[s] = "script"
    /\ s = "generic.suspicious_tld" => Reporter[s] = "generic"
    /\ s \in Mentions => Reporter[s] = "script"
    /\ s = "generic.extension_mismatch" \/ s = "generic.double_extension" => Reporter[s] = "generic"
    /\ IsMade(s) => Reporter[s] = "generic" \/ Reporter[s] = "pe"

LEMMA FindingsAreKnown == \A s \in Ids : Known(s)
<1> SUFFICES ASSUME NEW s \in Ids PROVE Known(s)
  OBVIOUS
<1>1. Entry(s) \in Range(Catalogue) /\ Entry(s)[1] = s
  BY DEF Ids, Entry
<1>2. Entered(Entry(s))
  BY <1>1, EntriesAreEntered
<1>3. Severity[s] = Entry(s)[3] /\ Means[s] = Entry(s)[4] /\ Reporter[s] = Entry(s)[2]
  BY DEF Severity, Means, Reporter
<1>4. \A M : M = {} \/ M = {"evasion"} \/ M = {"dropper"} => M \cap HighConsequence = {}
  BY DEF HighConsequence
<1> HIDE DEF Entry, IsGrouped
<1>5. Severity[s] \in 0..4 /\ (IsGrouped(s) => Severity[s] <= 3)
  <2>1. Severity[s] = 0 \/ Severity[s] = 1 \/ Severity[s] = 2 \/ Severity[s] = 3 \/ Severity[s] = 4
    BY <1>2, <1>3 DEF Entered
  <2>2. IsGrouped(s) => Severity[s] # 4
    BY <1>1, <1>2, <1>3 DEF Entered
  <2> QED BY <2>1, <2>2
<1>6. IsGrouped(s) => Means[s] \cap HighConsequence = {}
  BY <1>1, <1>2, <1>3, <1>4 DEF Entered
<1>7. /\ s = "generic.suspicious_tld" => Severity[s] = 1
      /\ s = "capev2.detection" => Severity[s] = 4
      /\ s = "script.dynamic_execution" => Reporter[s] = "script"
  BY <1>1, <1>2, <1>3 DEF Entered
<1>8. IsMade(s) => Reporter[s] = "generic" \/ Reporter[s] = "pe"
  BY <1>1, <1>2, <1>3 DEF Entered, IsMade
<1>9. /\ s = "generic.suspicious_tld" => Reporter[s] = "generic"
      /\ s = "generic.extension_mismatch" \/ s = "generic.double_extension" => Reporter[s] = "generic"
  BY <1>1, <1>2, <1>3 DEF Entered
<1>10. s \in Mentions => Reporter[s] = "script"
  <2>1. s \in Mentions => s = "document.mentions_download" \/ s = "document.mentions_persistence"
    BY DEF Mentions
  <2> QED BY <1>1, <1>2, <1>3, <2>1 DEF Entered
<1> QED BY <1>5, <1>6, <1>7, <1>8, <1>9, <1>10 DEF Known

LEMMA PlacesDiffer ==
    \A s, t \in Ids : Place[s] \in 1..29 /\ (s # t => Place[s] # Place[t])
<1>1. ASSUME NEW s \in Ids PROVE Place[s] \in 1..29 /\ Catalogue[Place[s]][1] = s
  <2>1. \E i \in DOMAIN Catalogue : Catalogue[i][1] = s
    BY DEF Ids, Range
  <2>2. Place[s] = CHOOSE i \in DOMAIN Catalogue : Catalogue[i][1] = s
    BY DEF Place
  <2> QED BY <2>1, <2>2, LengthOfCatalogue
<1> QED BY <1>1

LEMMA IdsAreFinite == IsFiniteSet(Ids)
<1> DEFINE f == [i \in 1..29 |-> Catalogue[i][1]]
<1> DEFINE a == 1  b == 29
<1>1. IsFiniteSet(1..29)
  <2>1. a \in Int /\ b \in Int
    OBVIOUS
  <2>2. IsFiniteSet(a..b)
    <3> HIDE DEF a, b
    <3> QED BY <2>1, FS_Interval
  <2> QED BY <2>2
<1>2. f \in Surjection(1..29, Ids)
  BY LengthOfCatalogue DEF Ids, Range, Surjection
<1> QED BY <1>1, <1>2, FS_Surjection

LEMMA Findings == ASSUME NEW S \in SUBSET Ids PROVE IsFiniteSet(S)
BY IdsAreFinite, FS_Subset

-----------------------------------------------------------------------------
(* Correlated findings.                                                    *)

LEMMA GroupsAreTwo ==
    ASSUME NEW g \in DOMAIN EvidenceGroups
    PROVE  /\ g # "none" /\ EvidenceGroups[g] \subseteq Grouped
           /\ \A s \in EvidenceGroups[g] : \A h \in DOMAIN EvidenceGroups :
                 s \in EvidenceGroups[h] => h = g
<1>1. g = "packed" \/ g = "carriesAProgram"
  BY DEF EvidenceGroups
<1>2. EvidenceGroups["packed"] \cap EvidenceGroups["carriesAProgram"] = {}
  <2>1. EvidenceGroups["packed"] = EvidenceGroups.packed
        /\ EvidenceGroups["carriesAProgram"] = EvidenceGroups.carriesAProgram
    BY DEF EvidenceGroups
  <2> QED BY <2>1, Zenon DEF EvidenceGroups
<1>3. \A h \in DOMAIN EvidenceGroups : h = "packed" \/ h = "carriesAProgram"
  BY DEF EvidenceGroups
<1>4. EvidenceGroups[g] \subseteq Grouped
  BY DEF Grouped
<1> HIDE DEF EvidenceGroups
<1> QED BY <1>1, <1>2, <1>3, <1>4

LEMMA GroupOfMember ==
    ASSUME NEW g \in DOMAIN EvidenceGroups, NEW s \in Ids, s \in EvidenceGroups[g]
    PROVE  GroupOf[s] = g /\ g # "none"
<1>1. s \in Grouped /\ g # "none"
  BY GroupsAreTwo
<1>2. GroupOf[s] = CHOOSE h \in DOMAIN EvidenceGroups : s \in EvidenceGroups[h]
  BY <1>1 DEF GroupOf
<1>3. (CHOOSE h \in DOMAIN EvidenceGroups : s \in EvidenceGroups[h]) = g
  BY GroupsAreTwo
<1> QED BY <1>1, <1>2, <1>3

LEMMA StrongestIsOne ==
    ASSUME NEW S \in SUBSET Ids, NEW g \in DOMAIN EvidenceGroups, S \cap EvidenceGroups[g] # {}
    PROVE  Strongest(S, g) \in S \cap EvidenceGroups[g]
<1> DEFINE V == S \cap EvidenceGroups[g]
           K == {100 * (4 - Severity[s]) + Place[s] : s \in V}
<1>1. ASSUME NEW s \in V PROVE Severity[s] \in 0..4 /\ Place[s] \in 1..29
  BY FindingsAreKnown, PlacesDiffer DEF Known
<1>2. K \in SUBSET Nat /\ K # {}
  BY <1>1
<1>3. PICK s \in V : \A t \in V :
          100 * (4 - Severity[s]) + Place[s] <= 100 * (4 - Severity[t]) + Place[t]
  <2>1. PICK k \in K : \A l \in K : k <= l
    <3> HIDE DEF K
    <3> QED BY <1>2, Least
  <2> QED BY <2>1
<1>4. ASSUME NEW t \in V \ {s}
      PROVE  Severity[t] < Severity[s] \/ (Severity[t] = Severity[s] /\ Earlier(s, t))
  <2>1. /\ Severity[s] \in 0..4 /\ Place[s] \in 1..29
        /\ Severity[t] \in 0..4 /\ Place[t] \in 1..29
    BY <1>1
  <2>2. Place[s] # Place[t]
    BY PlacesDiffer
  <2>3. 100 * (4 - Severity[s]) + Place[s] <= 100 * (4 - Severity[t]) + Place[t]
    BY <1>3
  <2> DEFINE a == Severity[s]  b == Severity[t]  p == Place[s]  q == Place[t]
  <2>4. /\ a \in 0..4 /\ p \in 1..29 /\ b \in 0..4 /\ q \in 1..29
        /\ p # q /\ 100 * (4 - a) + p <= 100 * (4 - b) + q
    BY <2>1, <2>2, <2>3
  <2>5. b < a \/ (b = a /\ p < q)
    <3> HIDE DEF a, b, p, q
    <3> QED BY <2>4
  <2> QED BY <2>5 DEF Earlier
<1> QED BY <1>3, <1>4 DEF Strongest

LEMMA CollapseKeeps ==
    ASSUME NEW S \in SUBSET Ids
    PROVE  /\ Collapse(S) \in SUBSET S
           /\ \A s \in Collapse(S) : \A g \in DOMAIN EvidenceGroups :
                 s \in EvidenceGroups[g] => s = Strongest(S, g)
<1>1. ASSUME NEW g \in {h \in DOMAIN EvidenceGroups : S \cap EvidenceGroups[h] # {}}
      PROVE  Strongest(S, g) \in S \cap EvidenceGroups[g]
  BY StrongestIsOne
<1>2. ASSUME NEW s \in Collapse(S), NEW g \in DOMAIN EvidenceGroups, s \in EvidenceGroups[g]
      PROVE  s = Strongest(S, g)
  <2>1. s \in Grouped
    BY <1>2, GroupsAreTwo
  <2>2. PICK h \in DOMAIN EvidenceGroups : S \cap EvidenceGroups[h] # {} /\ s = Strongest(S, h)
    BY <2>1 DEF Collapse
  <2>3. s \in EvidenceGroups[h]
    BY <1>1, <2>2
  <2> QED BY <1>2, <2>2, <2>3, GroupsAreTwo
<1> QED BY <1>1, <1>2 DEF Collapse

(* A finding enters the score as strong as it was reported, or weaker.     *)
LEMMA EffectiveIsLess ==
    ASSUME NEW s \in Ids, NEW S, NEW f, NEW ok
    PROVE  Effective(s, S, f, ok) \in 0..4 /\ Effective(s, S, f, ok) <= Severity[s]
<1>1. Severity[s] \in 0..4
  BY FindingsAreKnown DEF Known
<1>2. \/ Effective(s, S, f, ok) = 0
      \/ Effective(s, S, f, ok) = 1 /\ Severity[s] >= 2
      \/ Effective(s, S, f, ok) = Severity[s]
  <2>1. Sev.info = 0 /\ Sev.low = 1 /\ Sev.medium = 2
    BY DEF Sev
  <2> QED BY <2>1 DEF Effective
<1> DEFINE a == Effective(s, S, f, ok)  b == Severity[s]
<1> HIDE DEF a, b
<1>3. a \in 0..4 /\ a <= b
  BY <1>1, <1>2 DEF a, b
<1> QED BY <1>3 DEF a, b

-----------------------------------------------------------------------------
(* The score.                                                              *)

(* A finding of a band is worth its weight, and all of them together less  *)
(* than twice as much.                                                     *)
LEMMA SaturateIs ==
    ASSUME NEW w \in Nat, NEW n \in Nat
    PROVE  /\ Saturate(w, n) \in Nat
           /\ 55 * Saturate(w, n) <= 100 * w
           /\ n = 0 => Saturate(w, n) = 0
           /\ n = 1 => Saturate(w, n) = w
<1> DEFINE a == 0
           next(x) == w + (45 * x) \div 100
           Equations(f) == [i \in 0..n |-> IF i = 0 THEN a ELSE next(f[i - 1])]
           sum == CHOOSE f : f = Equations(f)
           step == [i \in 1..n |-> [x \in Nat |-> next(x)]]
<1>1. step \in StepsOn(n, Nat)
  <2>1. ASSUME NEW x \in Nat PROVE next(x) \in Nat
    OBVIOUS
  <2> QED BY <2>1 DEF StepsOn
<1>2. PICK f \in [0..n -> Nat] : f[0] = a /\ \A i \in 1..n : f[i] = step[i][f[i - 1]]
  <2> DEFINE T == Nat
  <2>1. a \in T /\ step \in StepsOn(n, T)
    BY <1>1
  <2>2. Built(n, T, a, step)
    <3> HIDE DEF step, a, T
    <3> QED BY <2>1, Steps
  <2> HIDE DEF step, a
  <2> QED BY <2>2 DEF Built
<1>3. f = Equations(f)
  <2>1. ASSUME NEW i \in 0..n, i # 0 PROVE step[i][f[i - 1]] = next(f[i - 1])
    <3>1. i \in 1..n /\ f[i - 1] \in Nat
      BY <2>1
    <3> HIDE DEF next
    <3> QED BY <3>1
  <2>2. \A i \in 0..n : i # 0 => i \in 1..n
    OBVIOUS
  <2> HIDE DEF step, a, next
  <2>3. \A i \in 0..n : f[i] = IF i = 0 THEN a ELSE next(f[i - 1])
    BY <1>2, <2>1, <2>2
  <2> QED BY <2>3
<1>4. sum = Equations(sum)
  <2> HIDE DEF Equations
  <2> QED BY <1>3
<1>5. Saturate(w, n) = sum[n]
  BY DEF Saturate
<1> HIDE DEF sum
<1>6. sum[0] = 0 /\ \A i \in 1..n : sum[i] = w + (45 * sum[i - 1]) \div 100
  BY <1>4
<1> DEFINE S == {i \in 0..n : sum[i] \in Nat /\ 55 * sum[i] <= 100 * w}
<1>7. 0 \in S
  BY <1>6
<1>8. ASSUME NEW i \in 0..(n - 1), i \in S PROVE i + 1 \in S
  <2>1. i + 1 \in 1..n /\ (i + 1) - 1 = i /\ i + 1 \in 0..n
    OBVIOUS
  <2>2. sum[i + 1] = w + (45 * sum[i]) \div 100
    BY <1>6, <2>1
  <2>3. sum[i] \in Nat /\ 55 * sum[i] <= 100 * w
    BY <1>8
  <2> DEFINE c == sum[i]  b == (45 * c) \div 100
  <2>4. c \in Nat /\ 55 * c <= 100 * w
    BY <2>3
  <2> HIDE DEF c
  <2>5. b \in Nat /\ 100 * b <= 45 * c
    BY <2>4
  <2>6. w + b \in Nat /\ 55 * (w + b) <= 100 * w
    <3> HIDE DEF b
    <3> QED BY <2>4, <2>5
  <2>7. sum[i + 1] = w + b
    BY <2>2 DEF c
  <2> QED BY <2>1, <2>6, <2>7
<1>9. n \in S
  <2>1. 0..n \subseteq S
    <3> HIDE DEF S
    <3> QED BY <1>7, <1>8, UpTo
  <2> QED BY <2>1
<1>10. n = 1 => sum[1] = w
  <2> SUFFICES ASSUME n = 1 PROVE sum[1] = w
    OBVIOUS
  <2>1. sum[1] = w + (45 * sum[0]) \div 100
    BY <1>6
  <2> QED BY <1>6, <2>1
<1> QED BY <1>5, <1>6, <1>9, <1>10

LEMMA Power15Is == ASSUME NEW x \in Int PROVE Power15(x) \in Int
<1> DEFINE a == 100000
           last == 15
           next(y) == (y * x) \div 10000
           Equations(f) == [n \in 0..15 |-> IF n = 0 THEN a ELSE next(f[n - 1])]
           p == CHOOSE f : f = Equations(f)
           step == [n \in 1..15 |-> [y \in Int |-> next(y)]]
<1>1. step \in StepsOn(15, Int)
  <2>1. ASSUME NEW y \in Int PROVE next(y) \in Int
    OBVIOUS
  <2> QED BY <2>1 DEF StepsOn
<1>2. PICK f \in [0..15 -> Int] : f[0] = a /\ \A n \in 1..15 : f[n] = step[n][f[n - 1]]
  <2> DEFINE T == Int
  <2>1. a \in T /\ last \in Nat /\ step \in StepsOn(last, T)
    BY <1>1
  <2>2. Built(last, T, a, step)
    <3> HIDE DEF step, a, last, T
    <3> QED BY <2>1, Steps
  <2> HIDE DEF step, a
  <2> QED BY <2>2 DEF Built
<1>3. f = Equations(f)
  <2>1. ASSUME NEW n \in 0..15, n # 0 PROVE step[n][f[n - 1]] = next(f[n - 1])
    <3>1. n \in 1..15 /\ f[n - 1] \in Int
      BY <2>1
    <3> HIDE DEF next
    <3> QED BY <3>1
  <2> HIDE DEF step, a, next
  <2> QED BY <1>2, <2>1
<1>4. p = Equations(p)
  <2> HIDE DEF Equations
  <2> QED BY <1>3
<1>5. Power15(x) = p[15]
  BY DEF Power15
<1> HIDE DEF p
<1>6. p[0] = 100000 /\ \A n \in 1..15 : p[n] = (p[n - 1] * x) \div 10000
  BY <1>4
<1> DEFINE S == {n \in 0..15 : p[n] \in Int}
<1>7. 0 \in S
  BY <1>6
<1>8. ASSUME NEW n \in 0..14, n \in S PROVE n + 1 \in S
  <2>1. n + 1 \in 1..15 /\ (n + 1) - 1 = n /\ n + 1 \in 0..15
    OBVIOUS
  <2>2. p[n + 1] = (p[n] * x) \div 10000
    BY <1>6, <2>1
  <2>3. p[n] \in Int
    BY <1>8
  <2> QED BY <2>1, <2>2, <2>3
<1>9. 15 \in S
  <2>1. 0..15 \subseteq S
    <3>1. 15 \in Nat /\ 15 - 1 = 14
      OBVIOUS
    <3> HIDE DEF S
    <3> QED BY <1>7, <1>8, <3>1, UpTo
  <2> QED BY <2>1
<1> QED BY <1>5, <1>9

LEMMA LesserOf ==
    ASSUME NEW a \in Int, NEW b \in Int
    PROVE  Min({a, b}) = IF a <= b THEN a ELSE b
<1>1. \A x \in {a, b} : (\A y \in {a, b} : x <= y) => x = IF a <= b THEN a ELSE b
  OBVIOUS
<1>2. \E x \in {a, b} : \A y \in {a, b} : x <= y
  OBVIOUS
<1> QED BY <1>1, <1>2 DEF Min

(* The findings among S that enter the score with severity v, and what     *)
(* they are worth together.                                                *)
Band(S, f, ok, v) == {s \in Collapse(S) : Effective(s, Collapse(S), f, ok) = v}
Points(S, f, ok, v) == Saturate(Weight[v + 1], Cardinality(Band(S, f, ok, v)))

LEMMA PointsAre ==
    ASSUME NEW S \in SUBSET Ids, NEW f, NEW ok, NEW v \in 1..4
    PROVE  /\ Weight[v + 1] \in Nat
           /\ Points(S, f, ok, v) \in Nat
           /\ 55 * Points(S, f, ok, v) <= 100 * Weight[v + 1]
           /\ Band(S, f, ok, v) = {} => Points(S, f, ok, v) = 0
           /\ \A s : Band(S, f, ok, v) = {s} => Points(S, f, ok, v) = Weight[v + 1]
<1>1. Weight[v + 1] \in Nat
  <2>1. v = 1 \/ v = 2 \/ v = 3 \/ v = 4
    OBVIOUS
  <2> QED BY <2>1 DEF Weight
<1>2. IsFiniteSet(Band(S, f, ok, v))
  <2>1. Band(S, f, ok, v) \in SUBSET Ids
    BY CollapseKeeps DEF Band
  <2> QED BY <2>1, Findings
<1> DEFINE n == Cardinality(Band(S, f, ok, v))
<1>3. n \in Nat
  BY <1>2, FS_CardinalityType
<1>4. Band(S, f, ok, v) = {} => n = 0
  BY FS_EmptySet
<1>5. ASSUME NEW s, Band(S, f, ok, v) = {s} PROVE n = 1
  BY <1>5, FS_Singleton
<1> DEFINE w == Weight[v + 1]
<1>6. /\ Saturate(w, n) \in Nat /\ 55 * Saturate(w, n) <= 100 * w
      /\ n = 0 => Saturate(w, n) = 0
      /\ n = 1 => Saturate(w, n) = w
  <2> HIDE DEF n, w
  <2>1. w \in Nat
    BY <1>1 DEF w
  <2> QED BY <1>3, <2>1, SaturateIs
<1>7. Points(S, f, ok, v) = Saturate(w, n)
  BY DEF Points
<1> HIDE DEF n, w
<1>8. /\ Points(S, f, ok, v) \in Nat
      /\ 55 * Points(S, f, ok, v) <= 100 * w
      /\ Band(S, f, ok, v) = {} => Points(S, f, ok, v) = 0
      /\ \A s : Band(S, f, ok, v) = {s} => Points(S, f, ok, v) = w
  BY <1>4, <1>5, <1>6, <1>7
<1> QED BY <1>1, <1>8 DEF w

LEMMA RuleScoreIs ==
    ASSUME NEW S \in SUBSET Ids, NEW f, NEW ok
    PROVE  RuleScore(S, f, ok) =
               Min({1000, (Points(S, f, ok, 1) + Points(S, f, ok, 2) + Points(S, f, ok, 3)
                           + Points(S, f, ok, 4) + 4999) \div 10000})
<1> DEFINE kept == Collapse(S)
           effective == [s \in kept |-> Effective(s, kept, f, ok)]
           band(v) == {s \in kept : effective[s] = v}
<1>1. \A v : band(v) = Band(S, f, ok, v)
  BY DEF Band
<1>2. RuleScore(S, f, ok) =
          Min({1000, (Saturate(Weight[1 + 1], Cardinality(band(1)))
                      + Saturate(Weight[2 + 1], Cardinality(band(2)))
                      + Saturate(Weight[3 + 1], Cardinality(band(3)))
                      + Saturate(Weight[4 + 1], Cardinality(band(4))) + 4999) \div 10000})
  BY DEF RuleScore, InAllBands
<1> HIDE DEF kept, effective, band
<1> QED BY <1>1, <1>2 DEF Points

(* Nothing enters the score above low; no more than one thing enters it.   *)
Light(S, f, ok) == \A s \in Collapse(S) : Effective(s, Collapse(S), f, ok) <= 1
Lone(S, f, ok) ==
    \E t : \A s \in Collapse(S) : /\ Effective(s, Collapse(S), f, ok) <= 3
                                  /\ s # t => Effective(s, Collapse(S), f, ok) = 0

(* The rules, from what the bands are worth.                               *)
LEMMA RuleScoreBounds ==
    ASSUME NEW S \in SUBSET Ids, NEW f, NEW ok
    PROVE  /\ RuleScore(S, f, ok) \in 0..1000
           /\ Light(S, f, ok) => RuleScore(S, f, ok) <= 73
           /\ Lone(S, f, ok) => RuleScore(S, f, ok) <= 260
<1> DEFINE P(v) == Points(S, f, ok, v)
           B(v) == Band(S, f, ok, v)
           total == P(1) + P(2) + P(3) + P(4)
<1>1. /\ Weight[1 + 1] = 400000 /\ Weight[2 + 1] = 1100000
      /\ Weight[3 + 1] = 2600000 /\ Weight[4 + 1] = 5500000
  BY DEF Weight
<1>2. \A v \in 1..4 : /\ P(v) \in Nat /\ 55 * P(v) <= 100 * Weight[v + 1]
                      /\ B(v) = {} => P(v) = 0
                      /\ \A s : B(v) = {s} => P(v) = Weight[v + 1]
  BY PointsAre
<1>3. RuleScore(S, f, ok) = Min({1000, (total + 4999) \div 10000})
  BY RuleScoreIs
<1>4. \A s \in Collapse(S) : Effective(s, Collapse(S), f, ok) \in 0..4
  BY CollapseKeeps, EffectiveIsLess
<1>5. total \in Nat
  <2>1. P(1) \in Nat /\ P(2) \in Nat /\ P(3) \in Nat /\ P(4) \in Nat
    BY <1>2
  <2> HIDE DEF P
  <2> QED BY <2>1
<1>6. RuleScore(S, f, ok) \in 0..1000 /\ \A n \in Nat : (total + 4999) \div 10000 <= n => RuleScore(S, f, ok) <= n
  <2> HIDE DEF total
  <2> DEFINE q == (total + 4999) \div 10000
  <2>1. q \in Nat
    BY <1>5
  <2>2. RuleScore(S, f, ok) = IF 1000 <= q THEN 1000 ELSE q
    <3> HIDE DEF q
    <3> QED BY <1>3, <2>1, LesserOf DEF q
  <2> HIDE DEF q
  <2>3. RuleScore(S, f, ok) \in 0..1000 /\ \A n \in Nat : q <= n => RuleScore(S, f, ok) <= n
    BY <2>1, <2>2
  <2> QED BY <2>3 DEF q
<1>7. ASSUME Light(S, f, ok) PROVE RuleScore(S, f, ok) <= 73
  <2>1. B(2) = {} /\ B(3) = {} /\ B(4) = {}
    BY <1>7, <1>4 DEF Band, Light
  <2>2. P(1) \in Nat /\ 55 * P(1) <= 40000000 /\ P(2) = 0 /\ P(3) = 0 /\ P(4) = 0
    BY <1>1, <1>2, <2>1
  <2>3. (total + 4999) \div 10000 <= 73
    <3> HIDE DEF P
    <3> QED BY <2>2
  <2> QED BY <1>6, <2>3
<1>8. ASSUME NEW t,
             \A s \in Collapse(S) : /\ Effective(s, Collapse(S), f, ok) <= 3
                                    /\ s # t => Effective(s, Collapse(S), f, ok) = 0
      PROVE  RuleScore(S, f, ok) <= 260
  <2>1. \A v \in 1..4 : B(v) \subseteq {t}
    BY <1>8, <1>4 DEF Band
  <2>2. B(4) = {}
    BY <1>8, <1>4 DEF Band
  <2>3. \A v, w \in 1..4 : v # w => B(v) = {} \/ B(w) = {}
    BY <2>1 DEF Band
  <2>4. \A v \in 1..4 : B(v) = {} \/ B(v) = {t}
    BY <2>1
  <2> HIDE DEF B
  <2>5. P(4) = 0 /\ \A v \in 1..3 : P(v) = 0 \/ P(v) = Weight[v + 1]
    <3>1. 4 \in 1..4 /\ \A v \in 1..3 : v \in 1..4
      OBVIOUS
    <3>2. P(4) = 0
      BY <1>2, <2>2, <3>1
    <3>3. ASSUME NEW v \in 1..3 PROVE P(v) = 0 \/ P(v) = Weight[v + 1]
      BY <1>2, <2>4, <3>1
    <3> QED BY <3>2, <3>3
  <2>6. \A v, w \in 1..3 : v # w => P(v) = 0 \/ P(w) = 0
    BY <1>2, <2>3
  <2>7. /\ P(1) = 0 \/ P(1) = 400000
        /\ P(2) = 0 \/ P(2) = 1100000
        /\ P(3) = 0 \/ P(3) = 2600000
        /\ P(1) = 0 \/ P(2) = 0
        /\ P(1) = 0 \/ P(3) = 0
        /\ P(2) = 0 \/ P(3) = 0
    BY <1>1, <2>5, <2>6
  <2>8. (total + 4999) \div 10000 <= 260
    <3> HIDE DEF P
    <3> QED BY <2>5, <2>7
  <2> QED BY <1>6, <2>8
<1>9. Lone(S, f, ok) => RuleScore(S, f, ok) <= 260
  BY <1>8, Zenon DEF Lone
<1> QED BY <1>6, <1>7, <1>9

(* The model: the table has a place for every logit there is, and the      *)
(* line to the next one does not rise above ten tenths.                    *)
LEMMA TableIs == DOMAIN Percent = 1..100 /\ Percent[4] = -3317 /\ \A p \in 1..100 : Percent[p] \in Int
<1>1. Percent \in Seq(Int) /\ Len(Percent) = 100
  BY DEF Percent
<1>2. Percent[4] = -3317
  BY DEF Percent
<1> DEFINE T == Int  n == 100
<1>3. Percent \in Seq(T) /\ Len(Percent) = n
  BY <1>1
<1>4. DOMAIN Percent = 1..n /\ \A p \in 1..n : Percent[p] \in T
  <2> HIDE DEF T, n
  <2> QED BY <1>3, LenProperties, ElementOfSeq
<1> QED BY <1>2, <1>4

LEMMA Quotient ==
    ASSUME NEW a \in Nat, NEW b \in Nat, b > 0, a < 11 * b
    PROVE  a \div b \in 0..10
<1> DEFINE q == a \div b
<1>1. q \in Int /\ b * q <= a /\ a < b * q + b
  OBVIOUS
<1> HIDE DEF q
<1>2. ~(q >= 11)
  <2> SUFFICES ASSUME q >= 11 PROVE FALSE
    OBVIOUS
  <2>1. b * q >= b * 11
    BY <1>1
  <2> QED BY <1>1, <2>1
<1>3. ~(q <= -1)
  <2> SUFFICES ASSUME q <= -1 PROVE FALSE
    OBVIOUS
  <2>1. b * q + b <= 0
    BY <1>1
  <2> QED BY <1>1, <2>1
<1>4. q \in 0..10
  BY <1>1, <1>2, <1>3
<1> QED BY <1>4 DEF q

LEMMA LogitIs ==
    ASSUME NEW S \in SUBSET Ids, NEW iocs \in Nat
    PROVE  Logit(S, iocs) \in Int /\ Logit(S, iocs) >= -3100
<1> DEFINE hits(T) == Cardinality(S \cap T)
           flag(s, w) == IF s \in S THEN w ELSE 0
           a == Min({4, hits({s \in Ids : Reporter[s] = "yara"})})
           b == Min({3, hits(Accusers)})
           c == Min({25, iocs})
           d == flag("pe.high_entropy_section", 1500)
           e == flag("generic.extension_mismatch", 2200)
           g == flag("office.autoexec_macro", 2100)
           h == flag("generic.embedded_executable", 1800)
<1>1. \A T : hits(T) \in Nat
  <2> SUFFICES ASSUME NEW T PROVE hits(T) \in Nat
    OBVIOUS
  <2>1. S \cap T \in SUBSET Ids
    OBVIOUS
  <2>2. IsFiniteSet(S \cap T)
    BY <2>1, Findings
  <2> QED BY <2>2, FS_CardinalityType
<1>2. \A n, m \in Nat : Min({n, m}) \in Nat
  <2> SUFFICES ASSUME NEW n \in Nat, NEW m \in Nat PROVE Min({n, m}) \in Nat
    OBVIOUS
  <2>1. Min({n, m}) = IF n <= m THEN n ELSE m
    BY LesserOf
  <2> QED BY <2>1
<1>3. a \in Nat /\ b \in Nat /\ c \in Nat
  <2> HIDE DEF hits
  <2>1. 4 \in Nat /\ 3 \in Nat /\ 25 \in Nat
    OBVIOUS
  <2> QED BY <1>1, <1>2, <2>1
<1>4. d \in Nat /\ e \in Nat /\ g \in Nat /\ h \in Nat
  OBVIOUS
<1>5. Logit(S, iocs) = -3100 + 650 * a + (2900 * b) \div 3 + 36 * c + d + e + g + h
  BY DEF Logit
<1> HIDE DEF a, b, c, d, e, g, h
<1>6. (2900 * b) \div 3 \in Nat
  BY <1>3
<1> DEFINE q == (2900 * b) \div 3
<1> HIDE DEF q
<1>7. Logit(S, iocs) = -3100 + 650 * a + q + 36 * c + d + e + g + h /\ q \in Nat
  BY <1>5, <1>6 DEF q
<1> QED BY <1>3, <1>4, <1>7

LEMMA GreatestOf ==
    ASSUME NEW n \in Nat, NEW T \in SUBSET (1..n), T # {}
    PROVE  Max(T) \in T /\ \A k \in T : k <= Max(T)
<1> DEFINE U == {n - p : p \in T}
<1>0. \A p \in T : p \in 1..n
  OBVIOUS
<1>1. PICK u \in U : \A v \in U : u <= v
  <2>1. ASSUME NEW p \in T PROVE n - p \in Nat
    BY <1>0
  <2>2. U \in SUBSET Nat /\ U # {}
    BY <2>1
  <2> HIDE DEF U
  <2> QED BY <2>2, Least
<1>2. PICK p \in T : \A q \in T : p >= q
  <2>1. PICK p \in T : u = n - p
    OBVIOUS
  <2>2. \A q \in T : n - q \in U
    OBVIOUS
  <2>3. \A q \in T : n - p <= n - q
    BY <1>1, <2>1, <2>2
  <2> QED BY <1>0, <2>1, <2>3
<1> QED BY <1>2 DEF Max

LEMMA ModelScoreBounds ==
    ASSUME NEW S \in SUBSET Ids, NEW iocs \in Nat
    PROVE  ModelScore(S, iocs) \in 0..1000
<1> DEFINE logit == Logit(S, iocs)
           T == {p \in DOMAIN Percent : Percent[p] <= logit}
           k == Max(T)
           step == Percent[k + 1] - Percent[k]
           above == 10 * (logit - Percent[k]) + step \div 2
<1>1. ModelScore(S, iocs) = IF k = 100 THEN 1000 ELSE 10 * k - 5 + above \div step
  BY DEF ModelScore
<1>2. logit \in Int /\ logit >= -3100
  BY LogitIs
<1> HIDE DEF logit
<1>3. T \in SUBSET (1..100) /\ 4 \in T
  BY <1>2, TableIs
<1>4. k \in T /\ \A p \in T : p <= k
  <2> DEFINE n == 100
  <2>1. n \in Nat /\ T \in SUBSET (1..n) /\ T # {}
    BY <1>3
  <2> HIDE DEF T, n
  <2> QED BY <2>1, GreatestOf
<1> HIDE DEF k
<1>5. k \in 1..100 /\ Percent[k] <= logit /\ Percent[k] \in Int
  BY <1>3, <1>4, TableIs
<1>6. ASSUME k # 100 PROVE above \div step \in 0..10
  <2>1. k + 1 \in 1..100 /\ k + 1 \notin T
    BY <1>4, <1>5, <1>6
  <2>2. Percent[k + 1] \in Int /\ logit < Percent[k + 1]
    BY <1>2, <2>1, TableIs
  <2> DEFINE x == Percent[k]  y == Percent[k + 1]  z == y - x  h == z \div 2
  <2>3. x \in Int /\ y \in Int /\ x <= logit /\ logit < y
    BY <1>5, <2>2
  <2> HIDE DEF x, y
  <2>4. z \in Nat /\ z > 0 /\ h \in Nat /\ h <= z
    BY <1>2, <2>3
  <2>5. 10 * (logit - x) + h \in Nat /\ 10 * (logit - x) + h < 11 * z
    <3> HIDE DEF h
    <3> QED BY <1>2, <2>3, <2>4
  <2>6. (10 * (logit - x) + h) \div z \in 0..10
    <3> HIDE DEF z, h
    <3> QED BY <2>4, <2>5, Quotient
  <2> QED BY <2>6 DEF x, y
<1> HIDE DEF above, step
<1> DEFINE q == above \div step
<1> HIDE DEF q
<1>7. ModelScore(S, iocs) = (IF k = 100 THEN 1000 ELSE 10 * k - 5 + q) /\ (k # 100 => q \in 0..10)
  BY <1>1, <1>6 DEF q
<1> QED BY <1>5, <1>7

LEMMA FinalScoreBounds ==
    ASSUME NEW S \in SUBSET Ids, NEW f, NEW ok, NEW iocs \in Nat
    PROVE  /\ FinalScore(S, f, ok, iocs) \in 0..1000
           /\ RuleScore(S, f, ok) <= 260 => FinalScore(S, f, ok, iocs) < 600
<1> DEFINE r == RuleScore(S, f, ok)  m == ModelScore(S, iocs)
<1>1. r \in 0..1000 /\ m \in 0..1000
  <2>1. RuleScore(S, f, ok) \in 0..1000
    BY RuleScoreBounds
  <2>2. ModelScore(S, iocs) \in 0..1000
    BY ModelScoreBounds
  <2> QED BY <2>1, <2>2
<1>2. FinalScore(S, f, ok, iocs) = (6 * r + 4 * m + 5) \div 10
  BY DEF FinalScore
<1> HIDE DEF r, m
<1>3. (6 * r + 4 * m + 5) \div 10 \in 0..1000 /\ (r <= 260 => (6 * r + 4 * m + 5) \div 10 < 600)
  BY <1>1
<1> QED BY <1>2, <1>3 DEF r

-----------------------------------------------------------------------------
(* The base score of an impact.                                            *)

Lossy(m) == /\ m.C = "H" \/ m.C = "L" \/ m.C = "N"
            /\ m.I = "H" \/ m.I = "L" \/ m.I = "N"
            /\ m.A = "H" \/ m.A = "L" \/ m.A = "N"

LEMMA MetricsAreLossy ==
    \A caps, url, verdict : Lossy(Rated(caps, url, verdict))
<1> SUFFICES ASSUME NEW caps, NEW url, NEW verdict PROVE Lossy(Rated(caps, url, verdict))
  OBVIOUS
<1>1. Lossy(Unrated)
  BY DEF Lossy, Unrated
<1>2. Lossy(Metrics(caps, url))
  BY DEF Lossy, Metrics
<1> QED BY <1>1, <1>2 DEF Rated

LEMMA BaseScoreIs ==
    ASSUME NEW m, Lossy(m)
    PROVE  BaseScore(m) \in Nat /\ (m = Unrated => BaseScore(m) = 0)
<1> DEFINE left == [H |-> 440, L |-> 780, N |-> 1000]
           iss == 1000000 - (left[m.C] * left[m.I] * left[m.A]) \div 1000
           changed == 752 * ((iss - 29000) \div 100) - (325 * Power15((iss - 20000) \div 100)) \div 10
           unchanged == 642 * (iss \div 100)
           impact == IF m.S = "C" THEN changed ELSE unchanged
           exploitability == (43319 * (IF m.AV = "N" THEN 85 ELSE 55)
                                    * (IF m.AC = "L" THEN 77 ELSE 44)) \div 100
           total == IF m.S = "C" THEN (108 * (impact + exploitability)) \div 100
                    ELSE impact + exploitability
<1>1. BaseScore(m) = IF impact <= 0 THEN 0 ELSE (Min({10000000, total}) + 99990) \div 100000
  BY DEF BaseScore
<1>2. left[m.C] \in Int /\ left[m.I] \in Int /\ left[m.A] \in Int
  BY DEF Lossy
<1>3. iss \in Int
  <2> DEFINE c == left[m.C]  i == left[m.I]  a == left[m.A]
  <2>1. c \in Int /\ i \in Int /\ a \in Int
    BY <1>2
  <2> HIDE DEF c, i, a
  <2>2. c * i * a \in Int
    BY <2>1
  <2> DEFINE product == c * i * a
  <2> HIDE DEF product
  <2>3. 1000000 - product \div 1000 \in Int
    BY <2>2 DEF product
  <2> QED BY <2>3 DEF product, c, i, a
<1>4. m = Unrated => impact = 0
  <2> SUFFICES ASSUME m = Unrated PROVE impact = 0
    OBVIOUS
  <2>1. m.S # "C" /\ left[m.C] = 1000 /\ left[m.I] = 1000 /\ left[m.A] = 1000
    BY DEF Unrated
  <2> HIDE DEF left
  <2>2. iss = 0
    BY <2>1
  <2> HIDE DEF iss
  <2> QED BY <2>1, <2>2
<1> HIDE DEF iss
<1>5. impact \in Int
  <2>1. Power15((iss - 20000) \div 100) \in Int
    <3>1. (iss - 20000) \div 100 \in Int
      BY <1>3
    <3> QED BY <3>1, Power15Is
  <2> DEFINE p == Power15((iss - 20000) \div 100)
  <2> HIDE DEF p
  <2>2. 752 * ((iss - 29000) \div 100) - (325 * p) \div 10 \in Int /\ unchanged \in Int
    BY <1>3, <2>1 DEF p
  <2> QED BY <2>2 DEF p
<1> HIDE DEF impact
<1>6. exploitability \in Nat
  OBVIOUS
<1> HIDE DEF exploitability
<1>7. impact > 0 => total \in Nat
  BY <1>5, <1>6
<1> HIDE DEF total
<1>8. impact > 0 => Min({10000000, total}) \in Nat
  <2> SUFFICES ASSUME impact > 0 PROVE Min({10000000, total}) \in Nat
    OBVIOUS
  <2> DEFINE ten == 10000000
  <2>0. ten \in Nat /\ total \in Nat
    BY <1>7
  <2> HIDE DEF ten
  <2>1. Min({ten, total}) = IF ten <= total THEN ten ELSE total
    BY <2>0, LesserOf
  <2>2. Min({ten, total}) \in Nat
    BY <2>0, <2>1
  <2> QED BY <2>2 DEF ten
<1> DEFINE least == Min({10000000, total})
<1> HIDE DEF least
<1>9. BaseScore(m) = (IF impact <= 0 THEN 0 ELSE (least + 99990) \div 100000) /\ (impact > 0 => least \in Nat)
  BY <1>1, <1>8 DEF least
<1> QED BY <1>4, <1>5, <1>9

-----------------------------------------------------------------------------
(* One fact.                                                               *)

OneFact(S, g) == \A s \in S : Severity[s] > 0 => s \in EvidenceGroups[g]

LEMMA FactIsMild ==
    ASSUME NEW S \in SUBSET Ids, NEW g \in DOMAIN EvidenceGroups, OneFact(S, g), NEW s \in S
    PROVE  /\ Severity[s] \in 0..3
           /\ s \notin Reputation \cup Identifies
           /\ Severity[s] > 0 => GroupOf[s] = g /\ Means[s] \cap HighConsequence = {}
<1>1. Known(s)
  BY FindingsAreKnown
<1>2. Severity[s] \in 0..4
  BY <1>1 DEF Known
<1>3. Severity[s] > 0 => s \in EvidenceGroups[g] /\ s \in Grouped
  BY GroupsAreTwo DEF OneFact
<1>4. Severity[s] > 0 => IsGrouped(s) /\ GroupOf[s] = g
  BY <1>3, GroupedAre, GroupOfMember
<1>5. Severity[s] > 0 => Severity[s] <= 3 /\ Means[s] \cap HighConsequence = {}
  BY <1>1, <1>4 DEF Known
<1>6. s \notin Reputation \cup Identifies
  <2> SUFFICES ASSUME s \in Reputation \cup Identifies PROVE FALSE
    OBVIOUS
  <2>1. s = "generic.suspicious_tld" \/ s = "capev2.detection"
    BY DEF Reputation, Identifies
  <2>2. Severity[s] > 0
    BY <1>1, <2>1 DEF Known
  <2>3. IsGrouped(s)
    BY <1>4, <2>2
  <2> QED BY <2>1, <2>3 DEF IsGrouped
<1> QED BY <1>2, <1>4, <1>5, <1>6

LEMMA FactIsLone ==
    ASSUME NEW S \in SUBSET Ids, NEW g \in DOMAIN EvidenceGroups, OneFact(S, g), NEW f, NEW ok
    PROVE  Lone(S, f, ok)
<1> DEFINE t == Strongest(S, g)
<1>1. ASSUME NEW s \in Collapse(S)
      PROVE  /\ Effective(s, Collapse(S), f, ok) <= 3
             /\ s # t => Effective(s, Collapse(S), f, ok) = 0
  <2>1. s \in S /\ (s \in EvidenceGroups[g] => s = t)
    BY CollapseKeeps
  <2>2. Severity[s] \in 0..3
    BY <2>1, FactIsMild
  <2>3. /\ Effective(s, Collapse(S), f, ok) \in 0..4
        /\ Effective(s, Collapse(S), f, ok) <= Severity[s]
    BY <2>1, EffectiveIsLess
  <2>4. s # t => Severity[s] = 0
    BY <2>1, <2>2 DEF OneFact
  <2> DEFINE e == Effective(s, Collapse(S), f, ok)
  <2> HIDE DEF e, t
  <2>5. e <= 3 /\ (s # t => e = 0)
    BY <2>2, <2>3, <2>4 DEF e
  <2> QED BY <2>5 DEF e
<1> HIDE DEF t
<1> QED BY <1>1 DEF Lone

(* What means nothing that accuses is not detected to.                     *)
LEMMA NothingAccuses ==
    ASSUME NEW S \in SUBSET Ids,
           \A s \in S : Severity[s] > 0 => Means[s] \cap HighConsequence = {}
    PROVE  Detect(S) \cap HighConsequence = {}
<1>1. ASSUME NEW s \in S PROVE Asserts[s] \cap HighConsequence = {}
  <2>1. Severity[s] \in 0..4
    BY FindingsAreKnown DEF Known
  <2>2. Sev.low = 1
    BY DEF Sev
  <2>3. Asserts[s] = AssertedBy(s)
    BY DEF Asserts
  <2>4. Severity[s] < 1 \/ Severity[s] > 0
    BY <2>1
  <2> QED BY <2>2, <2>3, <2>4 DEF AssertedBy
<1> DEFINE asserted(T) == UNION {Asserts[s] : s \in T}
           support(c) == {s \in S \cap Dynamic : c \in Asserts[s]}
<1>2. \A T \in SUBSET S : asserted(T) \cap HighConsequence = {}
  BY <1>1
<1>3. \A c \in HighConsequence : support(c) = {}
  BY <1>1
<1>4. \A c \in HighConsequence : ~(Cardinality(support(c)) >= 2)
  <2>1. Cardinality({}) = 0
    BY FS_EmptySet
  <2> HIDE DEF support
  <2> QED BY <1>3, <2>1
<1>5. Detect(S) = asserted(S \ Dynamic) \cup (asserted(S \cap Dynamic) \ HighConsequence)
                  \cup {c \in HighConsequence : Cardinality(support(c)) >= 2}
  BY DEF Detect
<1> HIDE DEF asserted, support
<1>6. S \ Dynamic \in SUBSET S
  OBVIOUS
<1> QED BY <1>2, <1>4, <1>5, <1>6

LEMMA WorstIs ==
    ASSUME NEW S \in SUBSET Ids, NEW f, NEW ok, Worst(S, f, ok) >= 3
    PROVE  \E s \in S : Severity[s] >= 3
<1> DEFINE T == {Sev.info} \cup {Effective(s, S, f, ok) : s \in S}
<1>1. Sev.info = 0
  BY DEF Sev
<1>2. T \in SUBSET (0..4)
  BY <1>1, EffectiveIsLess
<1>3. Max(T) \in T
  <2> DEFINE U == {100 - p : p \in T}
  <2>1. U \in SUBSET Nat /\ U # {}
    <3>1. \A p \in T : p \in 0..4
      BY <1>2
    <3>2. ASSUME NEW p \in T PROVE 100 - p \in Nat
      BY <3>1
    <3>3. T # {}
      OBVIOUS
    <3> HIDE DEF T
    <3> QED BY <3>2, <3>3
  <2>2. PICK u \in U : \A v \in U : u <= v
    <3> HIDE DEF U
    <3> QED BY <2>1, Least
  <2> HIDE DEF T
  <2>3. PICK p \in T : u = 100 - p
    OBVIOUS
  <2>4. \A q \in T : 100 - q \in U /\ q \in 0..4
    BY <1>2
  <2>5. \A q \in T : p >= q
    BY <2>2, <2>3, <2>4
  <2> QED BY <2>5 DEF Max
<1>4. Worst(S, f, ok) = Max(T)
  BY DEF Worst
<1>5. PICK s \in S : Effective(s, S, f, ok) >= 3
  BY <1>1, <1>3, <1>4
<1>6. Severity[s] \in 0..4 /\ Effective(s, S, f, ok) \in 0..4
      /\ Effective(s, S, f, ok) <= Severity[s]
  BY FindingsAreKnown, EffectiveIsLess DEF Known
<1> QED BY <1>5, <1>6

LEMMA RestsOnIt ==
    ASSUME NEW T, NEW g, T # {}, \A s \in T : GroupOf[s] = g
    PROVE  RestsOn(T) = g
<1>1. {GroupOf[s] : s \in T} = {g}
  OBVIOUS
<1>2. Cardinality({g}) = 1
  BY FS_Singleton
<1> QED BY <1>1, <1>2 DEF RestsOn

(* Whoever sees it, one fact is counted once.                              *)
LEMMA FactIsCountedOnce ==
    ASSUME NEW S \in SUBSET Ids, NEW g \in DOMAIN EvidenceGroups, OneFact(S, g),
           NEW f, NEW ok, NEW A \in SUBSET S
    PROVE  Detected(Panel(S, f, ok, A)) \in 0..1
<1> DEFINE of(r) == {s \in S : Reporter[s] = r}
           accuses(T) == Detect(T) \cap HighConsequence # {}
           engine(r) == Row(r, Worst(of(r), f, ok) >= Sev.high,
                            RestsOn({s \in of(r) : Severity[s] >= Sev.high}))
           rule(s) == Row(s, Severity[s] >= Sev.medium, GroupOf[s])
<1>1. Sev.medium = 2 /\ Sev.high = 3
  BY DEF Sev
<1>2. \A s \in S : /\ Severity[s] \in 0..3
                   /\ s \notin Reputation \cup Identifies
                   /\ Severity[s] > 0 => GroupOf[s] = g /\ Means[s] \cap HighConsequence = {}
  BY FactIsMild
<1>3. \A T \in SUBSET S : ~accuses(T)
  <2> SUFFICES ASSUME NEW T \in SUBSET S PROVE ~accuses(T)
    OBVIOUS
  <2>1. T \in SUBSET Ids /\ \A s \in T : Severity[s] > 0 => Means[s] \cap HighConsequence = {}
    BY <1>2
  <2> QED BY <2>1, NothingAccuses
<1>4. \A r : engine(r).on => engine(r).group = g
  <2> SUFFICES ASSUME NEW r, engine(r).on PROVE engine(r).group = g
    OBVIOUS
  <2> DEFINE T == {s \in of(r) : Severity[s] >= Sev.high}
  <2>1. of(r) \in SUBSET Ids /\ Worst(of(r), f, ok) >= 3
    BY <1>1 DEF Row
  <2>2. PICK s \in of(r) : Severity[s] >= 3
    <3> HIDE DEF of
    <3> QED BY <2>1, WorstIs
  <2>3. T # {}
    BY <1>1, <2>2
  <2>4. \A t \in T : GroupOf[t] = g
    BY <1>1, <1>2
  <2>5. RestsOn(T) = g
    <3> HIDE DEF T
    <3> QED BY <2>3, <2>4, RestsOnIt
  <2> QED BY <2>5 DEF Row
<1>5. \A s \in S : rule(s).on => rule(s).group = g
  <2> SUFFICES ASSUME NEW s \in S, rule(s).on PROVE rule(s).group = g
    OBVIOUS
  <2>1. Severity[s] >= 2
    BY <1>1 DEF Row
  <2>2. GroupOf[s] = g
    BY <1>2, <2>1
  <2> QED BY <2>2 DEF Row
<1>6. A \cap Dynamic \in SUBSET S /\ A \cap Identifies = {} /\ S \cap Reputation = {}
  BY <1>2
<1>7. Panel(S, f, ok, A) = {engine(r) : r \in {"generic", "pe", "office", "script"}}
                           \cup {rule(s) : s \in of("yara")}
                           \cup {Row("dynamic", accuses(A \cap Dynamic), "none"),
                                 Row("heuristic", accuses(A), "none"),
                                 Row("sandbox id", A \cap Identifies # {}, "none"),
                                 Row("reputation", S \cap Reputation # {}, "none")}
  BY DEF Panel
<1> DEFINE panel == Panel(S, f, ok, A)
           on == {r \in panel : r.on}
           others == {Row("dynamic", accuses(A \cap Dynamic), "none"),
                      Row("heuristic", accuses(A), "none"),
                      Row("sandbox id", A \cap Identifies # {}, "none"),
                      Row("reputation", S \cap Reputation # {}, "none")}
<1>8. \A r \in others : ~r.on
  <2>1. ~accuses(A \cap Dynamic) /\ ~accuses(A)
    BY <1>3, <1>6
  <2> HIDE DEF accuses
  <2>3. ~Row("dynamic", accuses(A \cap Dynamic), "none").on
    BY <2>1 DEF Row
  <2>4. ~Row("heuristic", accuses(A), "none").on
    BY <2>1 DEF Row
  <2>5. ~Row("sandbox id", A \cap Identifies # {}, "none").on
    BY <1>6 DEF Row
  <2>6. ~Row("reputation", S \cap Reputation # {}, "none").on
    BY <1>6 DEF Row
  <2> DEFINE r1 == Row("dynamic", accuses(A \cap Dynamic), "none")
             r2 == Row("heuristic", accuses(A), "none")
             r3 == Row("sandbox id", A \cap Identifies # {}, "none")
             r4 == Row("reputation", S \cap Reputation # {}, "none")
  <2>7. others = {r1, r2, r3, r4} /\ ~r1.on /\ ~r2.on /\ ~r3.on /\ ~r4.on
    BY <2>3, <2>4, <2>5, <2>6
  <2> HIDE DEF r1, r2, r3, r4, others
  <2> QED BY <2>7
<1>9. \A r \in on : r.group = g
  <2> SUFFICES ASSUME NEW r \in panel, r.on PROVE r.group = g
    OBVIOUS
  <2>1. panel = {engine(x) : x \in {"generic", "pe", "office", "script"}}
                \cup {rule(s) : s \in of("yara")} \cup others
    BY <1>7
  <2>2. of("yara") \subseteq S
    OBVIOUS
  <2> HIDE DEF engine, rule, panel, others, of
  <2>3. (\E x : r = engine(x)) \/ (\E s \in S : r = rule(s)) \/ r \in others
    BY <2>1, <2>2
  <2> QED BY <1>4, <1>5, <1>8, <2>3
<1>10. g # "none"
  BY GroupsAreTwo
<1> HIDE DEF panel, on
<1>11. {r \in on : r.group = "none"} = {} /\ {r.group : r \in on} \ {"none"} \in {{}, {g}}
  BY <1>9, <1>10
<1>12. Cardinality({}) = 0 /\ Cardinality({g}) = 1
  BY FS_EmptySet, FS_Singleton
<1>13. Detected(panel) = Cardinality({r \in on : r.group = "none"})
                         + Cardinality({r.group : r \in on} \ {"none"})
  BY DEF Detected, on
<1>14. Detected(panel) = 0 \/ Detected(panel) = 1
  BY <1>11, <1>12, <1>13
<1> QED BY <1>14 DEF panel

-----------------------------------------------------------------------------
(* A row.                                                                  *)

Reads(r, s, S, iocs, ok, ran) ==
    LET f == s.family
        A == S \ Excluded(S, f, ok)
    IN  /\ r.rule = RuleScore(S, f, ok)
        /\ r.score = FinalScore(S, f, ok, iocs)
        /\ r.risk = RiskLevel(r.score)
        /\ r.caps = Detect(A)
        /\ r.detected = Detected(Panel(S, f, ok, A))
        /\ r.verdict = Verdict(S, A, r.caps, r.detected, r.score)
        /\ r.category = Category(CategoryFor(A, r.caps), Signed(S), r.verdict)
        /\ r.impact = Rated(r.caps, s.url, r.verdict)
        /\ r.base = BaseScore(r.impact)
        /\ r.techniques = Techniques(S, f, ok)
        /\ r.caveats = Caveats(s, S, ok, ran)

LEMMA RowIs ==
    ASSUME NEW s, NEW S, NEW iocs, NEW ok, NEW ran, NEW r, r = Assess(s, S, iocs, ok, ran)
    PROVE  Reads(r, s, S, iocs, ok, ran)
BY DEF Assess, Classify, Opinions, Reads

LEMMA EmulatedAreDynamic == Emulated \subseteq Dynamic
<1>1. Catalogue[29] = <<"qiling.network_call", "dynamic", Sev.high, {"network"}>>
  BY DEF Catalogue
<1>2. 29 \in 1..29 /\ Catalogue[29] \in Range(Catalogue) /\ Catalogue[29][1] = "qiling.network_call"
  BY <1>1, LengthOfCatalogue DEF Range
<1>3. "qiling.network_call" \in Ids
  BY <1>2 DEF Ids
<1>4. \A e \in Range(Catalogue) : e[1] = "qiling.network_call" => e[2] = "dynamic"
  BY EntriesAreEntered DEF Entered
<1>5. Reporter["qiling.network_call"] = "dynamic"
  <2>1. Entry("qiling.network_call") \in Range(Catalogue) /\ Entry("qiling.network_call")[1] = "qiling.network_call"
    BY <1>2 DEF Entry
  <2>2. Reporter["qiling.network_call"] = Entry("qiling.network_call")[2]
    BY <1>3 DEF Reporter
  <2> QED BY <1>4, <2>1, <2>2
<1> QED BY <1>3, <1>5 DEF Emulated, Dynamic

LEMMA TracesAre ==
    ASSUME NEW t \in Traces
    PROVE  /\ t.ids \in SUBSET Dynamic
           /\ t.iocs \in Nat
           /\ ~t.ran => t.ids = {}
<1>1. CASE t = NoTrace
  BY <1>1 DEF NoTrace
<1>2. CASE t # NoTrace
  <2>1. PICK D \in {OfCape, Emulated \cap Dynamic} : t \in TracesOf(D)
    <3>1. Emulated \subseteq Dynamic
      BY EmulatedAreDynamic
    <3>2. Emulated \cap Dynamic = Emulated
      BY <3>1
    <3> QED BY <1>2, <3>2 DEF Traces
  <2>2. D \subseteq Dynamic
    BY DEF OfCape
  <2>3. t \in [ran : {TRUE}, ids : UNION {kSubset(k, D) : k \in 0..MaxTrace}, iocs : {0, 25}]
    BY <2>1 DEF TracesOf
  <2>4. \A k \in 0..MaxTrace : kSubset(k, D) \subseteq SUBSET D
    BY DEF kSubset
  <2>5. t.ids \in UNION {kSubset(k, D) : k \in 0..MaxTrace}
    BY <2>3
  <2>6. t.iocs \in {0, 25} /\ t.ran \in {TRUE}
    BY <2>3, Zenon
  <2> DEFINE n == t.iocs
  <2>7. n \in Nat
    <3>1. n \in {0, 25}
      BY <2>6
    <3> HIDE DEF n
    <3> QED BY <3>1
  <2>8. t.ids \in SUBSET Dynamic
    BY <2>2, <2>4, <2>5
  <2>9. t.ran = TRUE
    BY <2>6, Zenon
  <2> QED BY <2>7, <2>8, <2>9, Zenon
<1> QED BY <1>1, <1>2

LEMMA PipelineIs ==
    ASSUME NEW s, NEW S, NEW t \in Traces
    PROVE  /\ Pipeline(s, S, t) = Assess(s, S \cup t.ids, Scorable(s, t, Attributable(s)), Attributable(s), t.ran)
           /\ Scorable(s, t, Attributable(s)) \in Nat
<1>1. S \cup (IF t.ran THEN t.ids ELSE {}) = S \cup t.ids
  BY TracesAre
<1>2. Scorable(s, t, Attributable(s)) \in Nat
  BY TracesAre DEF Scorable
<1> QED BY <1>1, <1>2 DEF Pipeline

AssessInv ==
    /\ file \in Ordinary \cup Surveyed
    /\ \E url \in BOOLEAN : sample = SampleOf(file, url)
    /\ found \in SUBSET (Ids \ Dynamic) /\ job.static \in SUBSET (Ids \ Dynamic)
    /\ \A s \in found \cup job.static : sample.family \in Handles[Reporter[s]]
    /\ intact \in BOOLEAN /\ today \in BOOLEAN
    /\ job = Held(file, job.static)
    /\ trace \in Traces
    /\ row = Pipeline(sample, job.static, trace)
    /\ today => job.static = found

LEMMA MadeAreStatic == \A s : IsMade(s) => s \in Ids \ Dynamic
<1>1. \A i \in 1..29 : Catalogue[i][1] \in Ids
  BY LengthOfCatalogue DEF Ids, Range
<1>2. /\ Catalogue[1][1] = "generic.extension_mismatch"
      /\ Catalogue[2][1] = "generic.double_extension"
      /\ Catalogue[9][1] = "pe.signature_verified"
      /\ Catalogue[10][1] = "pe.signature_present"
      /\ Catalogue[11][1] = "pe.signature_does_not_cover_file"
  BY DEF Catalogue
<1>3. ASSUME NEW s, IsMade(s) PROVE s \in Ids
  <2>1. 1 \in 1..29 /\ 2 \in 1..29 /\ 9 \in 1..29 /\ 10 \in 1..29 /\ 11 \in 1..29
    OBVIOUS
  <2> QED BY <1>1, <1>2, <1>3, <2>1 DEF IsMade
<1>4. ASSUME NEW s, IsMade(s) PROVE s \notin Dynamic
  BY <1>3, <1>4, FindingsAreKnown DEF Known, Dynamic
<1> QED BY <1>3, <1>4

LEMMA GivenAreStatic == \A f : Given(f) \subseteq Ids \ Dynamic
<1> SUFFICES ASSUME NEW f, NEW s \in Given(f) PROVE IsMade(s)
  BY MadeAreStatic
<1>1. CASE s \in NameFindings(f.content, f.name)
  BY <1>1 DEF NameFindings, IsMade
<1>2. CASE s \in SignatureFindings(f)
  BY <1>2 DEF SignatureFindings, Reported, IsMade
<1> QED BY <1>1, <1>2 DEF Given

LEMMA StaticAreStatic == \A f : StaticIds(f) \subseteq Ids \ Dynamic
BY DEF StaticIds

(* Every analyzer that has found something is one the family is given to.  *)
LEMMA FamiliesAre == \A x, n : Identity(x, n).family \in FamilyNames
<1>1. \A mime, claimed : Family(mime, claimed) \in FamilyNames
  BY DEF Family, FamilyNames
<1> QED BY <1>1 DEF Identity

LEMMA ProgramsArePrograms == \A n : Identity("dos", n).family = "pe"
<1>1. \A claimed : Recognised("dos", claimed).mime = "application/x-dosexec"
  BY DEF Recognised, Magic
<1>2. \A claimed : Family("application/x-dosexec", claimed) = "pe"
  BY DEF Family
<1> QED BY <1>1, <1>2 DEF Identity

LEMMA AnalyzersAreHandled ==
    ASSUME NEW f, NEW s \in StaticIds(f) \cup Given(f)
    PROVE  Identity(f.content, f.name).family \in Handles[Reporter[s]]
<1> DEFINE family == Identity(f.content, f.name).family
<1>1. family \in Handles["generic"]
  BY FamiliesAre DEF Handles
<1>2. CASE s \in StaticIds(f)
  BY <1>2 DEF StaticIds
<1>3. CASE s \in NameFindings(f.content, f.name)
  <2>1. s = "generic.extension_mismatch" \/ s = "generic.double_extension"
    BY <1>3 DEF NameFindings
  <2>2. s \in Ids
    BY <2>1, MadeAreStatic DEF IsMade
  <2>3. Reporter[s] = "generic"
    BY <2>1, <2>2, FindingsAreKnown DEF Known
  <2> QED BY <1>1, <2>3
<1>4. CASE f.content = "dos" /\ s \in SignatureFindings(f)
  <2>1. IsMade(s)
    BY <1>4 DEF SignatureFindings, Reported, IsMade
  <2>2. s \in Ids
    BY <2>1, MadeAreStatic
  <2>3. Reporter[s] = "generic" \/ Reporter[s] = "pe"
    BY <2>1, <2>2, FindingsAreKnown DEF Known
  <2>4. family \in Handles["pe"]
    BY <1>4, ProgramsArePrograms DEF Handles
  <2> QED BY <1>1, <2>3, <2>4
<1> QED BY <1>2, <1>3, <1>4 DEF Given

(* What the ingest makes of what a row holds is what the pipeline makes of *)
(* the file, as long as the row holds the file's own identity.             *)
LEMMA IngestedIs ==
    ASSUME NEW f, NEW url \in BOOLEAN, NEW S, NEW t
    PROVE  Ingested(f, SampleOf(f, url), Held(f, S), t) = Pipeline(SampleOf(f, url), S, t)
<1> DEFINE i == Identity(f.content, f.name)
           s == SampleOf(f, url)
           j == Held(f, S)
<1>1. i = [mime |-> i.mime, claimed |-> Claimed(f.name), mismatch |-> i.mismatch, family |-> i.family]
  BY DEF Identity
<1>2. s = [family |-> i.family, runs |-> ExecutionPath(i), url |-> url]
  BY DEF SampleOf
<1>3. j.family = i.family /\ j.mime = i.mime /\ j.static = S
  BY DEF Held
<1>4. [s EXCEPT !.family = j.family] = s
  <2> HIDE DEF i, j
  <2> QED BY <1>2, <1>3
<1>5. AttributableRow(f, j) = Attributable(s)
  <2>1. i.claimed = Claimed(f.name)
    BY <1>1
  <2>2. ExecutionPath([mime |-> j.mime, claimed |-> Claimed(f.name)]) = ExecutionPath(i)
    <3> HIDE DEF i, j
    <3> QED BY <1>3, <2>1 DEF ExecutionPath
  <2>3. s.family = i.family /\ s.runs = ExecutionPath(i)
    <3> HIDE DEF i
    <3> QED BY <1>2
  <2> HIDE DEF i, j, s
  <2> QED BY <1>3, <2>2, <2>3 DEF AttributableRow, Attributable
<1> HIDE DEF i, j, s
<1>6. Ingested(f, s, j, t) = Pipeline(s, S, t)
  BY <1>3, <1>4, <1>5 DEF Ingested, Pipeline
<1> QED BY <1>6 DEF s, j

(* What an ingest leaves in the row: the findings of today, or those it    *)
(* held, and the assessment of them with the trace.                        *)
LEMMA IngestLeaves ==
    ASSUME AssessInv, NEW t \in Traces, Ingest(t)
    PROVE  /\ job' = Held(file, job'.static)
           /\ job'.static = found \/ job'.static = job.static
           /\ today' \in BOOLEAN /\ (today' => job'.static = found)
           /\ row' = Pipeline(sample, job'.static, t)
<1> DEFINE i == Identity(file.content, file.name)
<1>1. job = [family |-> i.family, mime |-> i.mime, static |-> job.static]
  BY DEF AssessInv, Held
<1>2. PICK url \in BOOLEAN : sample = SampleOf(file, url)
  BY DEF AssessInv
<1>3. sample.family = i.family
  BY <1>2 DEF SampleOf
<1>4. (IF intact THEN Identified(file, job) ELSE job) = job
  <2>1. Identified(file, job) = [job EXCEPT !.family = i.family, !.mime = i.mime]
    BY DEF Identified
  <2> HIDE DEF i
  <2> QED BY <1>1, <2>1
<1>5. PICK again \in {FALSE, intact} :
          /\ job' = [job EXCEPT !.static = StaticResults(job, found, again)]
          /\ today' = (again \/ today)
  <2> DEFINE j == IF intact THEN Identified(file, job) ELSE job
  <2>1. PICK again \in IF Aged THEN {FALSE, intact} ELSE {intact} :
            /\ job' = [j EXCEPT !.static = StaticResults(j, found, again)]
            /\ today' = (again \/ today)
    BY Zenon DEF Ingest
  <2>2. j = job
    BY <1>4
  <2>3. again \in {FALSE, intact}
    BY <2>1
  <2> HIDE DEF j
  <2> QED BY <2>1, <2>2, <2>3
<1>6. again \in BOOLEAN /\ today \in BOOLEAN /\ (today => job.static = found)
  BY DEF AssessInv
<1>7. StaticResults(job, found, again) = IF again THEN found ELSE job.static
  <2>1. \A s \in job.static : job.family \in Handles[Reporter[s]]
    <3>1. job.family = sample.family
      <4> HIDE DEF i
      <4> QED BY <1>1, <1>3
    <3> QED BY <3>1 DEF AssessInv
  <2> QED BY <2>1 DEF StaticResults
<1> DEFINE S == IF again THEN found ELSE job.static
<1>8. job' = [family |-> i.family, mime |-> i.mime, static |-> S]
  <2> HIDE DEF i, S
  <2>1. job' = [job EXCEPT !.static = S]
    BY <1>5, <1>7 DEF S
  <2> QED BY <1>1, <2>1
<1>9. job' = Held(file, S)
  BY <1>8 DEF Held
<1>10. job'.static = S
  <2> HIDE DEF i, S
  <2> QED BY <1>8
<1>11. row' = Pipeline(sample, S, t)
  <2>1. row' = Ingested(file, sample, job', t)
    BY DEF Ingest
  <2> HIDE DEF S
  <2> QED BY <1>2, <1>9, <2>1, IngestedIs
<1> QED BY <1>5, <1>6, <1>9, <1>10, <1>11

(* Type correctness: what is found is what can be found, the row holds the *)
(* identity of its file, and its assessment is always that of the findings *)
(* and of the trace that it holds, whichever of the two ways wrote it.     *)
THEOREM AssessmentsAreKept == AssessSpec => []AssessInv
<1>1. AssessInit => AssessInv
  <2> SUFFICES ASSUME AssessInit PROVE AssessInv
    OBVIOUS
  <2>1. PICK S \in UNION {kSubset(k, StaticIds(file)) :
                             k \in 0..(IF file \in Ordinary THEN MaxStatic ELSE 0)} :
            found = S \cup Given(file)
    BY DEF AssessInit
  <2>2. S \subseteq StaticIds(file)
    BY DEF kSubset
  <2>3. found \in SUBSET (Ids \ Dynamic)
    BY <2>1, <2>2, GivenAreStatic, StaticAreStatic
  <2>4. NoTrace \in Traces
    BY DEF Traces
  <2>5. PICK url \in BOOLEAN : sample = SampleOf(file, url)
    BY DEF AssessInit
  <2>6. sample.family = Identity(file.content, file.name).family
    BY <2>5 DEF SampleOf
  <2>7. \A s \in found : sample.family \in Handles[Reporter[s]]
    BY <2>1, <2>2, <2>6, AnalyzersAreHandled
  <2>8. job = Held(file, found) /\ job.static = found
    BY DEF AssessInit, Held
  <2>9. file \in Ordinary \cup Surveyed /\ intact = TRUE /\ today = TRUE /\ trace = NoTrace
        /\ row = Pipeline(sample, found, trace)
    BY DEF AssessInit
  <2> QED BY <2>3, <2>4, <2>5, <2>7, <2>8, <2>9 DEF AssessInv
<1>2. AssessInv /\ [AssessNext]_assessVars => AssessInv'
  <2> SUFFICES ASSUME AssessInv, [AssessNext]_assessVars PROVE AssessInv'
    OBVIOUS
  <2>1. ASSUME NEW t \in Traces, Ingest(t) PROVE AssessInv'
    <3>1. /\ job' = Held(file, job'.static)
          /\ job'.static = found \/ job'.static = job.static
          /\ today' \in BOOLEAN /\ (today' => job'.static = found)
          /\ row' = Pipeline(sample, job'.static, t)
      BY <2>1, IngestLeaves
    <3>2. trace' = t /\ UNCHANGED <<file, sample, found, intact>>
      BY <2>1 DEF Ingest
    <3>3. job'.static \in SUBSET (Ids \ Dynamic)
          /\ \A s \in job'.static : sample.family \in Handles[Reporter[s]]
      BY <3>1 DEF AssessInv
    <3> QED BY <2>1, <3>1, <3>2, <3>3 DEF AssessInv
  <2>2. CASE Reanalyse
    <3>1. job' = Held(file, found) /\ job'.static = found
      BY <2>2 DEF Reanalyse, Held
    <3>2. row' = Pipeline(sample, found, trace) /\ today' = TRUE
          /\ UNCHANGED <<file, sample, found, intact, trace>>
      BY <2>2 DEF Reanalyse
    <3> QED BY <3>1, <3>2 DEF AssessInv
  <2>3. CASE Redeploy
    <3>1. PICK s \in found : found' = found \ {s}
      BY <2>3 DEF Redeploy
    <3>2. today' = FALSE /\ UNCHANGED <<file, sample, intact, job, trace, row>>
      BY <2>3 DEF Redeploy
    <3> QED BY <3>1, <3>2 DEF AssessInv
  <2>4. CASE Purge
    <3>1. intact' = FALSE /\ UNCHANGED <<file, sample, found, job, trace, row, today>>
      BY <2>4 DEF Purge
    <3> QED BY <3>1 DEF AssessInv
  <2>5. CASE UNCHANGED assessVars
    BY <2>5 DEF AssessInv, assessVars
  <2> QED BY <2>1, <2>2, <2>3, <2>4, <2>5 DEF AssessNext
<1> QED BY <1>1, <1>2, PTL DEF AssessSpec

(* Analysing a file again changes nothing in a row that the rules of today *)
(* have written: the ingest of the report said the same.                   *)
THEOREM AnalysingAgainAgrees == AssessSpec => ReanalysisAgrees
<1>1. AssessInv /\ [AssessNext]_assessVars
      => [trace' = trace /\ found' = found /\ today => row' = row]_assessVars
  <2> SUFFICES ASSUME AssessInv, AssessNext, trace' = trace, found' = found, today PROVE row' = row
    BY DEF assessVars
  <2>1. job.static = found /\ row = Pipeline(sample, found, trace)
    BY DEF AssessInv
  <2>2. ASSUME NEW t \in Traces, Ingest(t) PROVE row' = row
    <3>1. t = trace
      BY <2>2 DEF Ingest
    <3>2. row' = Pipeline(sample, found, trace)
      BY <2>1, <2>2, <3>1, IngestLeaves
    <3> QED BY <2>1, <3>2
  <2>3. CASE Reanalyse
    BY <2>1, <2>3 DEF Reanalyse
  <2>4. CASE Redeploy
    BY <2>4 DEF Redeploy
  <2>5. CASE Purge
    BY <2>5 DEF Purge
  <2> QED BY <2>2, <2>3, <2>4, <2>5 DEF AssessNext
<1> QED BY <1>1, AssessmentsAreKept, PTL DEF AssessSpec, ReanalysisAgrees

(* One fact, whoever sees it and however often, never makes a file         *)
(* malicious.                                                              *)
THEOREM OneFactNeverConvicts == AssessSpec => []OneFactIsNotMalice
<1>1. AssessInv => OneFactIsNotMalice
  <2> SUFFICES ASSUME AssessInv, NEW g \in DOMAIN EvidenceGroups,
                      \A s \in job.static \cup trace.ids : Severity[s] > Sev.info => s \in EvidenceGroups[g]
               PROVE  row.verdict # "malicious"
    BY DEF OneFactIsNotMalice
  <2> DEFINE S == job.static \cup trace.ids
             ok == Attributable(sample)
             iocs == Scorable(sample, trace, ok)
             f == sample.family
             A == S \ Excluded(S, f, ok)
  <2>1. S \in SUBSET Ids
    BY TracesAre DEF AssessInv, Dynamic
  <2>2. OneFact(S, g)
    BY DEF OneFact, Sev
  <2>3. row = Assess(sample, S, iocs, ok, trace.ran) /\ iocs \in Nat
    BY PipelineIs DEF AssessInv
  <2> HIDE DEF S, ok, iocs
  <2>4. /\ row.score = FinalScore(S, f, ok, iocs)
        /\ row.detected = Detected(Panel(S, f, ok, A))
        /\ row.verdict = Verdict(S, A, row.caps, row.detected, row.score)
    <3>1. Reads(row, sample, S, iocs, ok, trace.ran)
      BY <2>3, RowIs
    <3> QED BY <3>1 DEF Reads
  <2> HIDE DEF f
  <2>5. row.score \in 0..1000 /\ row.score < 600
    <3>1. RuleScore(S, f, ok) <= 260
      BY <2>1, <2>2, FactIsLone, RuleScoreBounds
    <3> QED BY <2>1, <2>3, <2>4, <3>1, FinalScoreBounds
  <2>6. row.detected \in 0..1
    <3>1. A \in SUBSET S
      OBVIOUS
    <3> HIDE DEF A
    <3> QED BY <2>1, <2>2, <2>4, <3>1, FactIsCountedOnce
  <2>7. A \cap Identifies = {}
    BY <2>1, <2>2, FactIsMild
  <2> HIDE DEF A
  <2> QED BY <2>4, <2>5, <2>6, <2>7 DEF Verdict
<1> QED BY <1>1, AssessmentsAreKept, PTL

(* How a file was built weighs little in a file whose publisher is         *)
(* verified.                                                               *)
THEOREM BuildingWeighsLittle == AssessSpec => []BuiltWeighsLittle
<1>1. AssessInv => BuiltWeighsLittle
  <2> SUFFICES ASSUME AssessInv, Signed(job.static),
                      \A s \in job.static \cup trace.ids : Severity[s] >= Sev.medium => s \in Structural
               PROVE  row.rule <= 73 /\ row.risk <= Sev.medium
    BY DEF BuiltWeighsLittle
  <2> DEFINE S == job.static \cup trace.ids
             ok == Attributable(sample)
             iocs == Scorable(sample, trace, ok)
             f == sample.family
  <2>1. S \in SUBSET Ids
    BY TracesAre DEF AssessInv, Dynamic
  <2>2. \A s \in S : Severity[s] >= 2 => s \in Structural
    BY DEF Sev
  <2>3. row = Assess(sample, S, iocs, ok, trace.ran) /\ iocs \in Nat
    BY PipelineIs DEF AssessInv
  <2>4. "pe.signature_verified" \in S
    BY DEF Signed
  <2> HIDE DEF S, ok, iocs
  <2>5. row.rule = RuleScore(S, f, ok) /\ row.score = FinalScore(S, f, ok, iocs)
        /\ row.risk = RiskLevel(row.score)
    <3>1. Reads(row, sample, S, iocs, ok, trace.ran)
      BY <2>3, RowIs
    <3> QED BY <3>1 DEF Reads
  <2> HIDE DEF f
  <2>6. Signed(Collapse(S))
    <3>1. "pe.signature_verified" \notin Grouped
      <4>1. ~IsGrouped("pe.signature_verified")
        BY Zenon DEF IsGrouped
      <4> QED BY <4>1, GroupedAre
    <3> QED BY <2>4, <3>1 DEF Collapse, Signed
  <2>7. ASSUME NEW s \in Collapse(S) PROVE Effective(s, Collapse(S), f, ok) <= 1
    <3>1. s \in S /\ s \in Ids
      BY <2>1, CollapseKeeps
    <3>2. Severity[s] \in 0..4
      BY <3>1, FindingsAreKnown DEF Known
    <3>3. Sev.info = 0 /\ Sev.low = 1 /\ Sev.medium = 2
      BY DEF Sev
    <3>4. CASE Severity[s] >= 2
      <4>1. s \in Structural
        BY <2>2, <3>1, <3>4
      <4> QED BY <2>6, <3>3, <3>4, <4>1 DEF Effective
    <3>5. CASE Severity[s] <= 1
      <4>1. Effective(s, Collapse(S), f, ok) \in 0..4
            /\ Effective(s, Collapse(S), f, ok) <= Severity[s]
        BY <3>1, EffectiveIsLess
      <4> QED BY <3>2, <3>5, <4>1
    <3> QED BY <3>2, <3>4, <3>5
  <2>8. RuleScore(S, f, ok) \in 0..1000 /\ RuleScore(S, f, ok) <= 73
    BY <2>1, <2>7, RuleScoreBounds DEF Light
  <2>9. row.score \in 0..1000 /\ row.score < 600
    <3>1. RuleScore(S, f, ok) <= 260
      BY <2>8
    <3> QED BY <2>1, <2>3, <2>5, <3>1, FinalScoreBounds
  <2>10. row.risk <= 2
    BY <2>5, <2>9 DEF RiskLevel, Sev
  <2> QED BY <2>5, <2>8, <2>10 DEF Sev
<1> QED BY <1>1, AssessmentsAreKept, PTL

LEMMA VerdictIs ==
    \A S, A, caps, detected, score :
        LET v == Verdict(S, A, caps, detected, score)
        IN  (v = "clean" \/ v = "suspicious" \/ v = "malicious") /\ (v = "clean" => ~(score >= 300))
BY DEF Verdict

(* A detonation has no say in what only the file itself can corroborate.   *)
LEMMA TraceCorroboratesNothing ==
    ASSUME NEW S \in SUBSET (Ids \ Dynamic), NEW D \in SUBSET Dynamic
    PROVE  Uncorroborated(S \cup D) = Uncorroborated(S)
<1>1. \A s \in D : Reporter[s] = "dynamic" /\ s \in Ids
  BY DEF Dynamic
<1>2. "script.dynamic_execution" \notin D
  BY <1>1, FindingsAreKnown DEF Known
<1>3. (S \cup D) \cap {"script.dynamic_execution"} = S \cap {"script.dynamic_execution"}
  BY <1>2
<1>4. (\E s \in S \cup D : s # "script.dynamic_execution" /\ Reporter[s] = "script" /\ Severity[s] >= Sev.medium)
      <=> (\E s \in S : s # "script.dynamic_execution" /\ Reporter[s] = "script" /\ Severity[s] >= Sev.medium)
  BY <1>1
<1> QED BY <1>3, <1>4 DEF Uncorroborated

(* A detonation adds no row to the panel but those that ask what is        *)
(* admissible.                                                             *)
LEMMA TraceIsNoOpinion ==
    ASSUME NEW S \in SUBSET (Ids \ Dynamic), NEW D \in SUBSET Dynamic
    PROVE  /\ \A f, ok, admissible : Panel(S \cup D, f, ok, admissible) = Panel(S, f, ok, admissible)
           /\ \A admissible, caps, detected, score :
                  Verdict(S \cup D, admissible, caps, detected, score) = Verdict(S, admissible, caps, detected, score)
           /\ Signed(S \cup D) = Signed(S)
<1> SUFFICES ASSUME NEW f, NEW ok, NEW admissible
             PROVE  /\ Panel(S \cup D, f, ok, admissible) = Panel(S, f, ok, admissible)
                    /\ \A caps, detected, score :
                           Verdict(S \cup D, admissible, caps, detected, score)
                           = Verdict(S, admissible, caps, detected, score)
                    /\ Signed(S \cup D) = Signed(S)
  OBVIOUS
<1>1. \A s \in D : Reporter[s] = "dynamic" /\ s \in Ids
  BY DEF Dynamic
<1> DEFINE of(T, r) == {s \in T : Reporter[s] = r}
<1>2. \A r : r # "dynamic" => of(S \cup D, r) = of(S, r)
  BY <1>1
<1>3. \A s \in D : /\ s \notin Reputation \cup Mentions
                   /\ s # "pe.signature_verified"
  <2> SUFFICES ASSUME NEW s \in D PROVE s \notin Reputation \cup Mentions /\ s # "pe.signature_verified"
    OBVIOUS
  <2>1. Known(s) /\ Reporter[s] = "dynamic"
    BY <1>1, FindingsAreKnown
  <2> QED BY <2>1 DEF Known, Reputation, IsMade
<1>4. (S \cup D) \cap Reputation = S \cap Reputation /\ (S \cup D) \cap Mentions = S \cap Mentions
  BY <1>3
<1>5. /\ of(S \cup D, "yara") = of(S, "yara") /\ of(S \cup D, "generic") = of(S, "generic")
      /\ of(S \cup D, "pe") = of(S, "pe") /\ of(S \cup D, "office") = of(S, "office")
      /\ of(S \cup D, "script") = of(S, "script")
  <2> HIDE DEF of
  <2> QED BY <1>2
<1> DEFINE accuses(T) == Detect(T) \cap HighConsequence # {}
           engine(T, r) == Row(r, Worst(of(T, r), f, ok) >= Sev.high,
                               RestsOn({s \in of(T, r) : Severity[s] >= Sev.high}))
           rules(T) == {Row(s, Severity[s] >= Sev.medium, GroupOf[s]) : s \in of(T, "yara")}
           others(T) == {Row("dynamic", accuses(admissible \cap Dynamic), "none"),
                         Row("heuristic", accuses(admissible), "none"),
                         Row("sandbox id", admissible \cap Identifies # {}, "none"),
                         Row("reputation", T \cap Reputation # {}, "none")}
<1>6. \A T : Panel(T, f, ok, admissible) = {engine(T, r) : r \in {"generic", "pe", "office", "script"}}
                                 \cup rules(T) \cup others(T)
  BY DEF Panel
<1>7. \A r \in {"generic", "pe", "office", "script"} : engine(S \cup D, r) = engine(S, r)
  <2>1. \A r \in {"generic", "pe", "office", "script"} : of(S \cup D, r) = of(S, r)
    <3> HIDE DEF of
    <3> QED BY <1>5
  <2> HIDE DEF of
  <2> QED BY <2>1
<1>8. rules(S \cup D) = rules(S)
  <2> HIDE DEF of
  <2> QED BY <1>5
<1>9. others(S \cup D) = others(S)
  <2> HIDE DEF accuses
  <2> QED BY <1>4
<1>10. Panel(S \cup D, f, ok, admissible) = Panel(S, f, ok, admissible)
  <2> HIDE DEF engine, rules, others
  <2>1. {engine(S \cup D, r) : r \in {"generic", "pe", "office", "script"}}
        = {engine(S, r) : r \in {"generic", "pe", "office", "script"}}
    BY <1>7
  <2> QED BY <1>6, <1>8, <1>9, <2>1
<1>11. \A caps, detected, score :
           Verdict(S \cup D, admissible, caps, detected, score) = Verdict(S, admissible, caps, detected, score)
  BY <1>4 DEF Verdict
<1>12. Signed(S \cup D) = Signed(S)
  BY <1>3 DEF Signed
<1> QED BY <1>10, <1>11, <1>12

(* A trace of CAPE that does not count names nothing.                      *)
THEOREM DiscountedTracesNameNothing == AssessSpec => []RefusedTraceNamesNothing
<1>1. AssessInv => RefusedTraceNamesNothing
  <2> SUFFICES ASSUME AssessInv, Discounted, trace.ids \subseteq OfCape
               PROVE  /\ row.caps = Alone.caps
                      /\ row.techniques = Alone.techniques
                      /\ row.detected = Alone.detected
                      /\ (row.score >= 300 <=> Alone.score >= 300) /\ (row.score >= 600 <=> Alone.score >= 600)
                         => row.verdict = Alone.verdict /\ row.category = Alone.category
                      /\ Rank[row.verdict] <= Rank[Alone.verdict] => row.base <= Alone.base
    BY DEF RefusedTraceNamesNothing
  <2> DEFINE static == job.static
             S == static \cup trace.ids
             ok == Attributable(sample)
             f == sample.family
             alone == Alone
             A(T) == T \ Excluded(T, f, ok)
  <2>1. static \in SUBSET (Ids \ Dynamic) /\ trace.ids \in SUBSET Dynamic
    BY TracesAre DEF AssessInv
  <2>2. Inadmissible(f, ok) = OfCape /\ OfCape \subseteq Dynamic
    BY DEF Discounted, Inadmissible, OfCape
  <2>3. row = Assess(sample, S, Scorable(sample, trace, ok), ok, trace.ran)
    BY PipelineIs DEF AssessInv
  <2>4. alone = Assess(sample, static, Scorable(sample, NoTrace, ok), ok, NoTrace.ran)
    <3>1. NoTrace \in Traces /\ static \cup NoTrace.ids = static
      BY DEF Traces, NoTrace
    <3> QED BY <3>1, PipelineIs DEF Alone
  <2>5. A(S) = A(static)
    <3>1. Uncorroborated(S) = Uncorroborated(static)
      BY <2>1, TraceCorroboratesNothing
    <3> QED BY <2>1, <2>2, <3>1 DEF Excluded
  <2>6. Techniques(S, f, ok) = Techniques(static, f, ok)
    <3>1. S \ Inadmissible(f, ok) = static \ Inadmissible(f, ok)
      BY <2>1, <2>2
    <3> QED BY <3>1 DEF Techniques
  <2> HIDE DEF ok, alone
  <2>7. /\ row.caps = Detect(A(S)) /\ row.techniques = Techniques(S, f, ok)
        /\ row.detected = Detected(Panel(S, f, ok, A(S)))
        /\ row.impact = Rated(row.caps, sample.url, row.verdict) /\ row.base = BaseScore(row.impact)
        /\ row.verdict = Verdict(S, A(S), row.caps, row.detected, row.score)
        /\ row.category = Category(CategoryFor(A(S), row.caps), Signed(S), row.verdict)
    <3>1. Reads(row, sample, S, Scorable(sample, trace, ok), ok, trace.ran)
      <4> HIDE DEF S
      <4> QED BY <2>3, RowIs
    <3> HIDE DEF S
    <3> QED BY <3>1 DEF Reads
  <2>8. /\ alone.caps = Detect(A(static)) /\ alone.techniques = Techniques(static, f, ok)
        /\ alone.detected = Detected(Panel(static, f, ok, A(static)))
        /\ alone.impact = Rated(alone.caps, sample.url, alone.verdict) /\ alone.base = BaseScore(alone.impact)
        /\ alone.verdict = Verdict(static, A(static), alone.caps, alone.detected, alone.score)
        /\ alone.category = Category(CategoryFor(A(static), alone.caps), Signed(static), alone.verdict)
    <3>1. Reads(alone, sample, static, Scorable(sample, NoTrace, ok), ok, NoTrace.ran)
      BY <2>4, RowIs
    <3> HIDE DEF static
    <3> QED BY <3>1 DEF Reads
  <2>9. /\ \A T : Panel(S, f, ok, T) = Panel(static, f, ok, T)
        /\ \A T, caps, detected, score :
               Verdict(S, T, caps, detected, score) = Verdict(static, T, caps, detected, score)
        /\ Signed(S) = Signed(static)
    <3> DEFINE D == trace.ids
    <3>1. S = static \cup D /\ static \in SUBSET (Ids \ Dynamic) /\ D \in SUBSET Dynamic
      BY <2>1
    <3> HIDE DEF S, static, D, ok, f
    <3>2. Signed(S) = Signed(static)
      BY <3>1, TraceIsNoOpinion
    <3>3. /\ \A g, k, T : Panel(static \cup D, g, k, T) = Panel(static, g, k, T)
          /\ \A T, caps, detected, score :
                 Verdict(static \cup D, T, caps, detected, score) = Verdict(static, T, caps, detected, score)
      BY <3>1, TraceIsNoOpinion
    <3> QED BY <3>1, <3>2, <3>3
  <2> HIDE DEF S, A, f, static
  <2>10. row.caps = alone.caps /\ row.techniques = alone.techniques /\ row.detected = alone.detected
    BY <2>5, <2>6, <2>7, <2>8, <2>9
  <2>11. ASSUME row.score >= 300 <=> alone.score >= 300, row.score >= 600 <=> alone.score >= 600
         PROVE  row.verdict = alone.verdict /\ row.category = alone.category
    <3>1. \A T, U, caps, detected, x, y :
              (x >= 300 <=> y >= 300) /\ (x >= 600 <=> y >= 600)
              => Verdict(T, U, caps, detected, x) = Verdict(T, U, caps, detected, y)
      BY DEF Verdict
    <3>2. row.verdict = Verdict(static, A(static), alone.caps, alone.detected, row.score)
      BY <2>5, <2>7, <2>9, <2>10
    <3>3. row.verdict = alone.verdict
      BY <2>8, <2>11, <3>1, <3>2
    <3> QED BY <2>5, <2>7, <2>8, <2>9, <2>10, <3>3
  <2>12. ASSUME Rank[row.verdict] <= Rank[alone.verdict] PROVE row.base <= alone.base
    <3>1. row.verdict = "clean" \/ alone.verdict # "clean"
      <4>1. row.verdict = "clean" \/ row.verdict = "suspicious" \/ row.verdict = "malicious"
        BY <2>7, VerdictIs
      <4>2. Rank["clean"] = 0 /\ Rank["suspicious"] = 1 /\ Rank["malicious"] = 2
        BY DEF Rank
      <4> QED BY <2>12, <4>1, <4>2
    <3>2. row.base \in Nat /\ alone.base \in Nat
      BY <2>7, <2>8, MetricsAreLossy, BaseScoreIs
    <3>3. CASE row.verdict = "clean"
      <4>1. row.impact = Unrated
        BY <2>7, <3>3 DEF Rated
      <4>2. row.base = 0
        BY <2>7, <4>1, MetricsAreLossy, BaseScoreIs
      <4> QED BY <3>2, <4>2
    <3>4. CASE row.verdict # "clean" /\ alone.verdict # "clean"
      <4>1. row.impact = alone.impact
        BY <2>7, <2>8, <2>10, <3>4 DEF Rated
      <4> QED BY <2>7, <2>8, <3>2, <4>1
    <3> QED BY <3>1, <3>3, <3>4
  <2> QED BY <2>10, <2>11, <2>12 DEF alone
<1> QED BY <1>1, AssessmentsAreKept, PTL

(* The parts of a row agree.                                               *)
THEOREM RowsAgree == AssessSpec => []RowAgrees
<1>1. AssessInv => RowAgrees
  <2> SUFFICES ASSUME AssessInv PROVE RowAgrees
    OBVIOUS
  <2> DEFINE S == job.static \cup trace.ids
             ok == Attributable(sample)
             iocs == Scorable(sample, trace, ok)
             f == sample.family
             A == S \ Excluded(S, f, ok)
             c == CategoryFor(A, row.caps)
  <2>1. S \in SUBSET Ids
    BY TracesAre DEF AssessInv, Dynamic
  <2>2. row = Assess(sample, S, iocs, ok, trace.ran) /\ iocs \in Nat
    BY PipelineIs DEF AssessInv
  <2>3. Signed(job.static) => Signed(S)
    BY DEF Signed
  <2> HIDE DEF S, ok, iocs
  <2>4. Reads(row, sample, S, iocs, ok, trace.ran)
    BY <2>2, RowIs
  <2>5. /\ row.score = FinalScore(S, f, ok, iocs)
        /\ row.verdict = Verdict(S, A, row.caps, row.detected, row.score)
        /\ row.category = Category(c, Signed(S), row.verdict)
        /\ row.impact = Rated(row.caps, sample.url, row.verdict)
        /\ row.base = BaseScore(row.impact)
    BY <2>4 DEF Reads
  <2>6. row.score \in 0..1000
    BY <2>1, <2>2, <2>5, FinalScoreBounds
  <2> HIDE DEF A, c, f
  <2>7. /\ row.verdict = "clean" \/ row.verdict = "suspicious" \/ row.verdict = "malicious"
        /\ row.verdict = "clean" => row.score < 300
    BY <2>5, <2>6, VerdictIs
  <2>8. row.impact = Unrated => row.base = 0
    BY <2>5, MetricsAreLossy, BaseScoreIs
  <2>9. ASSUME UnlawfulAct(row) = "not evidenced"
        PROVE  row.base = 0 /\ DataLosses(row.impact) = {} /\ row.category = "Clean" /\ row.score < 300
    <3>1. row.verdict = "clean"
      BY <2>7, <2>9 DEF UnlawfulAct, AssessedMalicious
    <3>2. row.impact = Unrated
      BY <2>5, <3>1 DEF Rated
    <3>3. DataLosses(Unrated) = {}
      BY DEF DataLosses, Unrated
    <3>4. row.category = "Clean"
      BY <2>5, <3>1 DEF Category
    <3> QED BY <2>7, <2>8, <3>1, <3>2, <3>3, <3>4
  <2>10. ASSUME row.base > 0 PROVE row.caps # {} /\ row.verdict # "clean"
    <3>1. row.impact # Unrated
      BY <2>8, <2>10
    <3> QED BY <2>5, <3>1 DEF Rated
  <2>11. ASSUME Signed(S), row.category \in Accusing PROVE row.verdict = "malicious"
    <3>1. \A w \in {"Clean", "Malware", "Suspicious", "Riskware"} : w \notin Accusing
      BY DEF Accusing
    <3> HIDE DEF Accusing
    <3> QED BY <2>5, <2>7, <2>11, <3>1 DEF Category
  <2> QED BY <2>3, <2>9, <2>10, <2>11 DEF RowAgrees
<1> QED BY <1>1, AssessmentsAreKept, PTL

-----------------------------------------------------------------------------
(* The name of a file.                                                     *)

LEMMA ContentDecides ==
    ASSUME NEW x, Tells(x), NEW claimed
    PROVE  /\ Recognised(x, claimed) = Recognised(x, "")
           /\ Family(Recognised(x, "").mime, claimed) = Family(Recognised(x, "").mime, "")
           /\ Recognised(x, "").mime # "application/octet-stream"
           /\ Recognised(x, "").extensions # {}
<1>1. \/ x = "dos" \/ x = "elf" \/ x = "pdf" \/ x = "gzip" \/ x = "shebang" \/ x = "tar"
      \/ x = "docx in zip" \/ x = "apk in zip" \/ x = "zip" \/ x = "broken zip"
  BY DEF Tells, Magic, MagicAt, ZipMarkers
<1> DEFINE Settled(f) ==
        /\ Recognised(x, claimed) = f /\ Recognised(x, "") = f
        /\ Family(f.mime, claimed) = Family(f.mime, "")
        /\ f.mime # "application/octet-stream" /\ f.extensions # {}
<1>2. ASSUME NEW f, Settled(f)
      PROVE  /\ Recognised(x, claimed) = Recognised(x, "")
             /\ Family(Recognised(x, "").mime, claimed) = Family(Recognised(x, "").mime, "")
             /\ Recognised(x, "").mime # "application/octet-stream"
             /\ Recognised(x, "").extensions # {}
  BY <1>2
<1>3. \E f : Settled(f)
  <2> USE DEF Recognised, Family, IsText, Magic, MagicAt, ZipMarkers, ZipIdentity, ZipExtensions
  <2>1. CASE x = "dos"
    <3>1. Settled([mime |-> "application/x-dosexec", extensions |-> {".exe"}])
      BY <2>1
    <3> QED BY <3>1, Zenon
  <2>2. CASE x = "elf"
    <3>1. Settled([mime |-> "application/x-elf", extensions |-> {".so"}])
      BY <2>2
    <3> QED BY <3>1, Zenon
  <2>3. CASE x = "pdf"
    <3>1. Settled([mime |-> "application/pdf", extensions |-> {".pdf"}])
      BY <2>3
    <3> QED BY <3>1, Zenon
  <2>4. CASE x = "gzip"
    <3>1. Settled([mime |-> "application/gzip", extensions |-> {".gz"}])
      BY <2>4
    <3> QED BY <3>1, Zenon
  <2>5. CASE x = "shebang"
    <3>1. Settled([mime |-> "text/x-script", extensions |-> {".sh"}])
      BY <2>5
    <3> QED BY <3>1, Zenon
  <2>6. CASE x = "tar"
    <3>1. Settled([mime |-> "application/x-tar", extensions |-> {".tar"}])
      BY <2>6
    <3> QED BY <3>1, Zenon
  <2>7. CASE x = "docx in zip"
    <3>1. Settled([mime |-> "application/vnd.openxmlformats", extensions |-> {".docx"}])
      BY <2>7
    <3> QED BY <3>1, Zenon
  <2>8. CASE x = "apk in zip"
    <3>1. Settled([mime |-> "application/vnd.android.package-archive", extensions |-> {".apk"}])
      BY <2>8
    <3> QED BY <3>1, Zenon
  <2>9. CASE x = "zip" \/ x = "broken zip"
    <3>1. Settled([mime |-> "application/zip", extensions |-> {".zip", ".apk"}])
      BY <2>9
    <3> QED BY <3>1, Zenon
  <2> HIDE DEF Recognised, Family, IsText, Magic, MagicAt, ZipMarkers, ZipIdentity, ZipExtensions, Settled
  <2> QED BY <1>1, <2>1, <2>2, <2>3, <2>4, <2>5, <2>6, <2>7, <2>8, <2>9
<1> HIDE DEF Settled
<1> QED BY <1>2, <1>3

(* A file has the family of its content, whatever it is called, and a name *)
(* that promises a binary format the content is not is reported.           *)
THEOREM RenamingNeverHides == AssessSpec => []RenamingHidesNothing
<1>1. ASSUME NEW x, NEW n PROVE NameHidesNothing(x, n)
  <2> SUFFICES ASSUME Tells(x)
               PROVE  /\ Identity(x, n).family = Identity(x, <<>>).family
                      /\ /\ Claimed(n) \in BinaryFormats
                         /\ Claimed(n) \notin Recognised(x, "").extensions
                         => "generic.extension_mismatch" \in NameFindings(x, n)
    BY DEF NameHidesNothing
  <2>1. \A claimed : /\ Recognised(x, claimed) = Recognised(x, "")
                     /\ Family(Recognised(x, "").mime, claimed) = Family(Recognised(x, "").mime, "")
    BY ContentDecides
  <2>2. \A m : /\ Identity(x, m).family = Family(Recognised(x, Claimed(m)).mime, Claimed(m))
               /\ Identity(x, m).mismatch =
                      Mismatch(Recognised(x, Claimed(m)), Family(Recognised(x, Claimed(m)).mime, Claimed(m)), Claimed(m))
    BY DEF Identity
  <2>3. Identity(x, n).family = Identity(x, <<>>).family
    <3>1. ASSUME NEW m PROVE Identity(x, m).family = Family(Recognised(x, "").mime, "")
      <4>1. Recognised(x, Claimed(m)) = Recognised(x, "")
        BY <2>1
      <4>2. Identity(x, m).family = Family(Recognised(x, "").mime, Claimed(m))
        BY <2>2, <4>1
      <4> QED BY <2>1, <4>2
    <3> QED BY <3>1
  <2>4. ASSUME Claimed(n) \in BinaryFormats, Claimed(n) \notin Recognised(x, "").extensions
        PROVE  "generic.extension_mismatch" \in NameFindings(x, n)
    <3> DEFINE c == Claimed(n)
    <3>1. c \in BinaryFormats /\ c \notin Recognised(x, "").extensions
      BY <2>4
    <3> HIDE DEF c
    <3>2. c # "" /\ c \in KnownFormats /\ c \notin ScriptExtensions \cup TextualExtensions
      BY <3>1 DEF BinaryFormats, KnownFormats, ScriptExtensions, TextualExtensions
    <3>3. Mismatch(Recognised(x, ""), Family(Recognised(x, "").mime, c), c)
      BY <3>1, <3>2, ContentDecides DEF Mismatch
    <3>4. Identity(x, n).mismatch
      BY <2>1, <2>2, <3>3 DEF c
    <3> QED BY <3>4 DEF NameFindings
  <2> QED BY <2>3, <2>4
<1>2. RenamingHidesNothing
  BY <1>1 DEF RenamingHidesNothing
<1> QED BY <1>2, PTL

-----------------------------------------------------------------------------
(* Signatures.                                                             *)

(* A sequence of certificates in which each is said to be issued by the    *)
(* next one.                                                               *)
Leads(C, c) == /\ c \in Seq(C) /\ c # <<>>
               /\ \A i \in 1..(Len(c) - 1) : c[i].issuer = c[i + 1].subject

LEMMA HolderIs ==
    ASSUME NEW C, NEW bag \in Seq(C), NEW name, Holders(bag, name) # {}
    PROVE  Holder(bag, name) \in C /\ Holder(bag, name).subject = name
<1>1. Holders(bag, name) \subseteq 1..Len(bag) /\ Len(bag) \in Nat
  BY LenProperties DEF Holders
<1>2. Holders(bag, name) \in SUBSET Nat
  BY <1>1
<1>3. Min(Holders(bag, name)) \in Holders(bag, name)
  BY <1>2, Least
<1>4. Min(Holders(bag, name)) \in 1..Len(bag)
  BY <1>1, <1>3
<1>5. bag[Min(Holders(bag, name))].subject = name
  BY <1>3 DEF Holders
<1> QED BY <1>4, <1>5, ElementOfSeq DEF Holder

LEMMA LeafIs ==
    ASSUME NEW C, NEW bag \in Seq(C), bag # <<>>
    PROVE  Leaf(bag) \in C
<1> DEFINE ends == {i \in DOMAIN bag : ~bag[i].ca}
           code == {i \in ends : bag[i].code}
           leaves == {i \in DOMAIN bag : bag[i].subject \notin Issuers(bag)}
           last == leaves \cap ends
           I == IF code # {} THEN code ELSE IF last # {} THEN last
                ELSE IF leaves # {} THEN leaves ELSE DOMAIN bag
<1>1. DOMAIN bag = 1..Len(bag) /\ Len(bag) \in Nat /\ Len(bag) > 0
  BY LenProperties, EmptySeq
<1>2. I \in SUBSET (1..Len(bag)) /\ I # {}
  BY <1>1
<1>3. Leaf(bag) = bag[Min(I)]
  BY DEF Leaf
<1> HIDE DEF I
<1>4. Min(I) \in 1..Len(bag)
  <2>1. I \in SUBSET Nat
    BY <1>1, <1>2
  <2> QED BY <1>2, <2>1, Least
<1> QED BY <1>3, <1>4, ElementOfSeq

(* One more certificate at the end of a chain, or none.                    *)
LEMMA ExtendedLeads ==
    ASSUME NEW C, NEW bag \in Seq(C), NEW c, Leads(C, c)
    PROVE  /\ Leads(C, Extended(bag, c))
           /\ Extended(bag, c)[1] = c[1]
           /\ Len(Extended(bag, c)) <= Len(c) + 1
<1>1. c \in Seq(C) /\ Len(c) \in Nat /\ Len(c) > 0
  BY LenProperties, EmptySeq DEF Leads
<1>2. CASE Extended(bag, c) = c
  BY <1>1, <1>2
<1>3. CASE /\ Extended(bag, c) = Append(c, Holder(bag, Last(c).issuer))
           /\ Holders(bag, Last(c).issuer) # {}
  <2> DEFINE h == Holder(bag, Last(c).issuer)  e == Append(c, h)
  <2>1. h \in C /\ h.subject = c[Len(c)].issuer
    BY <1>3, HolderIs DEF Last
  <2> HIDE DEF h
  <2>2. /\ e \in Seq(C) /\ e # <<>> /\ Len(e) = Len(c) + 1
        /\ \A i \in 1..Len(c) : e[i] = c[i]
        /\ e[Len(c) + 1] = h
    BY <1>1, <2>1, AppendProperties
  <2> HIDE DEF e
  <2>3. ASSUME NEW i \in 1..(Len(e) - 1) PROVE e[i].issuer = e[i + 1].subject
    <3>1. CASE i = Len(c)
      BY <1>1, <2>1, <2>2, <3>1
    <3>2. CASE i \in 1..(Len(c) - 1)
      <4>1. i \in 1..Len(c) /\ i + 1 \in 1..Len(c)
        BY <1>1, <3>2
      <4> QED BY <2>2, <3>2, <4>1 DEF Leads
    <3> QED BY <1>1, <2>2, <3>1, <3>2
  <2>4. 1 \in 1..Len(c) /\ Extended(bag, c) = e
    BY <1>1, <1>3 DEF e, h
  <2> QED BY <1>1, <2>2, <2>3, <2>4 DEF Leads
<1> QED BY <1>2, <1>3 DEF Extended

(* What a chain is built from, one certificate at a time.                  *)
Grows(g, C, bag) ==
    /\ g \in [0..(Len(bag) - 1) -> Seq(C)]
    /\ g[0] = <<Leaf(bag)>>
    /\ \A n \in 1..(Len(bag) - 1) : g[n] = Extended(bag, g[n - 1])

LEMMA ChainGrows ==
    ASSUME NEW C, NEW bag \in Seq(C), bag # <<>>
    PROVE  \E g : Grows(g, C, bag) /\ Chain(bag) = g[Len(bag) - 1]
<1> DEFINE n == Len(bag) - 1
           a == <<Leaf(bag)>>
           next(x) == Extended(bag, x)
           Equations(f) == [i \in 0..n |-> IF i = 0 THEN a ELSE next(f[i - 1])]
           grown == CHOOSE f : f = Equations(f)
           step == [i \in 1..n |-> [x \in Seq(C) |-> next(x)]]
<1>0. n \in Nat
  BY LenProperties, EmptySeq
<1>1. a \in Seq(C)
  BY LeafIs
<1>2. ASSUME NEW x \in Seq(C) PROVE next(x) \in Seq(C)
  <2>1. CASE next(x) = x
    BY <2>1
  <2>2. CASE next(x) = Append(x, Holder(bag, Last(x).issuer)) /\ Holders(bag, Last(x).issuer) # {}
    BY <2>2, HolderIs, AppendProperties
  <2> QED BY <2>1, <2>2 DEF Extended
<1> HIDE DEF n, a, next
<1>3. step \in StepsOn(n, Seq(C))
  BY <1>2 DEF StepsOn
<1>4. PICK f \in [0..n -> Seq(C)] : f[0] = a /\ \A i \in 1..n : f[i] = step[i][f[i - 1]]
  <2> DEFINE T == Seq(C)
  <2>1. a \in T /\ step \in StepsOn(n, T)
    BY <1>1, <1>3
  <2> HIDE DEF T, step
  <2>2. Built(n, T, a, step)
    BY <1>0, <2>1, Steps
  <2> QED BY <2>2 DEF Built, T
<1>5. f = Equations(f)
  <2>1. ASSUME NEW i \in 0..n, i # 0 PROVE step[i][f[i - 1]] = next(f[i - 1])
    <3>1. i \in 1..n /\ f[i - 1] \in Seq(C)
      BY <1>0, <2>1
    <3> QED BY <3>1
  <2>2. \A i \in 0..n : i # 0 => i \in 1..n
    BY <1>0
  <2> HIDE DEF step
  <2>3. \A i \in 0..n : f[i] = IF i = 0 THEN a ELSE next(f[i - 1])
    BY <1>4, <2>1, <2>2
  <2> QED BY <2>3
<1>6. grown = Equations(grown)
  <2> HIDE DEF Equations
  <2> QED BY <1>5
<1>7. Chain(bag) = grown[n]
  BY DEF Chain, n, a, next
<1> HIDE DEF grown
<1>8. DOMAIN grown = 0..n /\ grown[0] = a /\ \A i \in 1..n : grown[i] = next(grown[i - 1])
  BY <1>0, <1>6
<1> DEFINE S == {i \in 0..n : grown[i] \in Seq(C)}
<1>9. 0 \in S
  BY <1>0, <1>1, <1>8
<1>10. ASSUME NEW i \in 0..(n - 1), i \in S PROVE i + 1 \in S
  <2>1. i + 1 \in 1..n /\ (i + 1) - 1 = i /\ i + 1 \in 0..n
    BY <1>0
  <2>2. grown[i + 1] = next(grown[i])
    BY <1>8, <2>1
  <2> QED BY <1>2, <1>10, <2>1, <2>2
<1>11. \A i \in 0..n : grown[i] \in Seq(C)
  <2>1. 0..n \subseteq S
    <3> HIDE DEF S
    <3> QED BY <1>0, <1>9, <1>10, UpTo
  <2> QED BY <2>1
<1>12. grown \in [0..n -> Seq(C)]
  BY <1>6, <1>11
<1>13. Grows(grown, C, bag)
  BY <1>8, <1>12 DEF Grows, n, a, next
<1> QED BY <1>7, <1>13 DEF n

(* A chain leads from the leaf on, and is no longer than the bag.          *)
LEMMA ChainLeads ==
    ASSUME NEW C, NEW bag \in Seq(C), bag # <<>>
    PROVE  /\ Leads(C, Chain(bag))
           /\ Chain(bag)[1] = Leaf(bag)
           /\ Len(Chain(bag)) <= Len(bag)
<1>1. PICK g : Grows(g, C, bag) /\ Chain(bag) = g[Len(bag) - 1]
  BY ChainGrows
<1> DEFINE n == Len(bag) - 1
           S == {i \in 0..n : Leads(C, g[i]) /\ g[i][1] = Leaf(bag) /\ Len(g[i]) <= i + 1}
<1>2. n \in Nat
  BY LenProperties, EmptySeq
<1>3. 0 \in S
  <2>1. g[0] = <<Leaf(bag)>> /\ Leaf(bag) \in C
    BY <1>1, LeafIs DEF Grows
  <2>2. g[0] \in Seq(C) /\ g[0] # <<>> /\ Len(g[0]) = 1 /\ g[0][1] = Leaf(bag)
    BY <2>1
  <2>3. Leads(C, g[0])
    <3>1. 1..(Len(g[0]) - 1) = {}
      BY <2>2
    <3> QED BY <2>2, <3>1 DEF Leads
  <2>4. 0 \in 0..n /\ Len(g[0]) <= 0 + 1
    BY <1>2, <2>2
  <2> HIDE DEF n
  <2> QED BY <2>2, <2>3, <2>4
<1>4. ASSUME NEW i \in 0..(n - 1), i \in S PROVE i + 1 \in S
  <2>1. i + 1 \in 1..(Len(bag) - 1) /\ (i + 1) - 1 = i /\ i + 1 \in 0..n
    BY <1>2
  <2>2. g[i + 1] = Extended(bag, g[i])
    BY <1>1, <2>1 DEF Grows
  <2>3. Leads(C, g[i]) /\ g[i][1] = Leaf(bag) /\ Len(g[i]) <= i + 1
    BY <1>4
  <2>4. Len(g[i]) \in Nat /\ Len(Extended(bag, g[i])) \in Nat
    BY <2>3, ExtendedLeads, LenProperties DEF Leads
  <2> QED BY <2>1, <2>2, <2>3, <2>4, ExtendedLeads
<1>5. n \in S
  <2>1. 0..n \subseteq S
    <3> HIDE DEF S, n
    <3> QED BY <1>2, <1>3, <1>4, UpTo
  <2> QED BY <1>2, <2>1
<1> QED BY <1>1, <1>2, <1>5

(* The first m elements of a sequence.                                     *)
LEMMA PrefixIs ==
    ASSUME NEW C, NEW c \in Seq(C), NEW m \in 0..Len(c)
    PROVE  /\ SubSeq(c, 1, m) \in Seq(C)
           /\ Len(SubSeq(c, 1, m)) = m
           /\ \A i \in 1..m : SubSeq(c, 1, m)[i] = c[i]
<1>1. Len(c) \in Nat /\ \A i \in 1..m : c[i] \in C
  BY LenProperties, ElementOfSeq
<1>2. 1 \in Int /\ m \in Int /\ m - 1 + 1 = m /\ \A i \in 1..m : 1 + i - 1 = i
  BY <1>1
<1> QED BY <1>1, <1>2, SubSeqProperties

(* What the signatures link to the leaf leads from it on, too, and each is *)
(* signed by the key of the next.                                          *)
LEMMA LinkedLeads ==
    ASSUME NEW C, NEW c, Leads(C, c)
    PROVE  /\ Leads(C, Linked(c))
           /\ Linked(c)[1] = c[1]
           /\ Len(Linked(c)) <= Len(c)
           /\ \A i \in 1..(Len(Linked(c)) - 1) : Linked(c)[i].by = Linked(c)[i + 1].key
<1> DEFINE broken == {i \in 1..(Len(c) - 1) : c[i].by # c[i + 1].key}
           ends == {Len(c)} \cup broken
           m == Min(ends)
           l == SubSeq(c, 1, m)
<1>1. c \in Seq(C) /\ Len(c) \in Nat /\ Len(c) > 0
  BY LenProperties, EmptySeq DEF Leads
<1>2. ends \in SUBSET Nat /\ ends # {}
  BY <1>1
<1>3. m \in ends /\ \A k \in ends : m <= k
  <2> HIDE DEF ends
  <2> QED BY <1>2, Least
<1>4. m \in 1..Len(c) /\ \A i \in 1..(m - 1) : i \notin broken
  <2>1. m \in 1..Len(c)
    BY <1>1, <1>3
  <2>2. ASSUME NEW i \in 1..(m - 1) PROVE i \notin broken
    <3> HIDE DEF m, broken
    <3>1. m \in Nat /\ i \in Int /\ i < m
      BY <1>1, <2>1
    <3> QED BY <1>3, <3>1
  <2> QED BY <2>1, <2>2
<1>5. Linked(c) = l
  BY DEF Linked
<1> HIDE DEF m
<1>6. l \in Seq(C) /\ Len(l) = m /\ \A i \in 1..m : l[i] = c[i]
  BY <1>1, <1>4, PrefixIs
<1> HIDE DEF l
<1>7. l # <<>> /\ l[1] = c[1] /\ Len(l) <= Len(c)
  BY <1>1, <1>4, <1>6, EmptySeq
<1>8. ASSUME NEW i \in 1..(Len(l) - 1)
      PROVE  l[i].issuer = l[i + 1].subject /\ l[i].by = l[i + 1].key
  <2>1. i \in 1..m /\ i + 1 \in 1..m /\ i \in 1..(Len(c) - 1) /\ i \in 1..(m - 1)
    BY <1>1, <1>4, <1>6
  <2>2. c[i].issuer = c[i + 1].subject
    BY <1>1, <2>1 DEF Leads
  <2>3. c[i].by = c[i + 1].key
    BY <1>4, <2>1
  <2> QED BY <1>6, <2>1, <2>2, <2>3
<1> QED BY <1>5, <1>6, <1>7, <1>8 DEF Leads

(* The certificates that are read are some of those that there are.        *)
LEMMA BagIs ==
    ASSUME NEW C, NEW s, s.bag \in Seq(C)
    PROVE  /\ Bag(s) \in Seq(C)
           /\ Len(Bag(s)) <= Len(s.bag)
           /\ Len(s.bag) <= MaxCertificates => Bag(s) = s.bag
<1> DEFINE ends == {Len(s.bag), MaxCertificates}  m == Min(ends)
<1>1. Len(s.bag) \in Nat
  BY LenProperties
<1>2. ends \in SUBSET Nat /\ ends # {}
  BY <1>1 DEF MaxCertificates
<1>3. m \in ends /\ \A k \in ends : m <= k
  <2> HIDE DEF ends
  <2> QED BY <1>2, Least
<1>4. m \in 0..Len(s.bag) /\ (Len(s.bag) <= MaxCertificates => m = Len(s.bag))
  BY <1>1, <1>3 DEF MaxCertificates
<1>5. Bag(s) = SubSeq(s.bag, 1, m)
  BY DEF Bag
<1> HIDE DEF m
<1>6. s.bag \in Seq(C)
  OBVIOUS
<1>7. SubSeq(s.bag, 1, m) \in Seq(C) /\ Len(SubSeq(s.bag, 1, m)) = m
  BY <1>1, <1>4, <1>6, PrefixIs
<1>8. SubSeq(s.bag, 1, Len(s.bag)) = s.bag
  <2> DEFINE q == SubSeq(s.bag, 1, Len(s.bag))
  <2>1. q \in Seq(C) /\ Len(q) = Len(s.bag) /\ \A i \in 1..Len(s.bag) : q[i] = s.bag[i]
    BY <1>1, <1>6, PrefixIs
  <2> HIDE DEF q
  <2>2. q = s.bag
    BY <1>6, <2>1, SeqEqual
  <2> QED BY <2>2 DEF q
<1> QED BY <1>1, <1>4, <1>5, <1>7, <1>8

(* Certificates each of which vouches for the one before it, from the one  *)
(* with this key on.                                                       *)
LEMMA ChainVouches ==
    ASSUME NEW bag, bag \in Seq(Range(bag)), NEW key,
           NEW l, Leads(Range(bag), l), l[1].key = key, Len(l) <= Len(bag),
           \A i \in 1..(Len(l) - 1) : l[i].by = l[i + 1].key
    PROVE  \A i \in DOMAIN l : l[i] \in Vouches(bag, key)
<1> DEFINE N == Len(bag)
           K == {bag[i] : i \in DOMAIN bag}
           a == {c \in K : c.key = key}
           next(S) == S \cup {c \in K : \E d \in S : d.by = c.key /\ d.issuer = c.subject}
           Equations(f) == [n \in 0..N |-> IF n = 0 THEN a ELSE next(f[n - 1])]
           reached == CHOOSE f : f = Equations(f)
           T == SUBSET K
           step == [i \in 1..N |-> [x \in T |-> next(x)]]
<1>0. N \in Nat
  BY LenProperties
<1>1. a \in T
  OBVIOUS
<1>2. ASSUME NEW x \in T PROVE next(x) \in T
  OBVIOUS
<1>3. \A x \in T, c \in K : \A d \in x : d.by = c.key /\ d.issuer = c.subject => c \in next(x)
  OBVIOUS
<1>4. \A x \in T : x \subseteq next(x)
  OBVIOUS
<1>5. Vouches(bag, key) = reached[N]
  BY DEF Vouches
<1>6. \A c \in K : c.key = key => c \in a
  OBVIOUS
<1>7. l \in Seq(K) /\ Len(l) \in Nat /\ Len(l) > 0 /\ DOMAIN l = 1..Len(l)
  BY LenProperties, EmptySeq DEF Leads, Range
<1>8. \A i \in 1..Len(l) : l[i] \in K
  <2> HIDE DEF K
  <2> QED BY <1>7, ElementOfSeq
<1> HIDE DEF N, K, a, next, T
<1>9. step \in StepsOn(N, T)
  BY <1>2 DEF StepsOn
<1>10. PICK f \in [0..N -> T] : f[0] = a /\ \A i \in 1..N : f[i] = step[i][f[i - 1]]
  <2> HIDE DEF step
  <2>1. Built(N, T, a, step)
    BY <1>0, <1>1, <1>9, Steps
  <2> QED BY <2>1 DEF Built
<1>11. f = Equations(f)
  <2>1. ASSUME NEW i \in 0..N, i # 0 PROVE step[i][f[i - 1]] = next(f[i - 1])
    <3>1. i \in 1..N /\ f[i - 1] \in T
      BY <1>0, <2>1
    <3> QED BY <3>1
  <2>2. \A i \in 0..N : i # 0 => i \in 1..N
    BY <1>0
  <2> HIDE DEF step
  <2>3. \A i \in 0..N : f[i] = IF i = 0 THEN a ELSE next(f[i - 1])
    BY <1>10, <2>1, <2>2
  <2> QED BY <2>3
<1>12. reached = Equations(reached)
  <2> HIDE DEF Equations
  <2> QED BY <1>11
<1> HIDE DEF reached
<1>13. reached[0] = a /\ \A i \in 1..N : reached[i] = next(reached[i - 1])
  BY <1>0, <1>12
<1> DEFINE S == {n \in 0..N : /\ reached[n] \in T
                              /\ \A i \in 1..Len(l) : i <= n + 1 => l[i] \in reached[n]}
<1>14. 0 \in S
  <2>1. \A i \in 1..Len(l) : i <= 0 + 1 => i = 1
    BY <1>7
  <2>2. l[1] \in a
    BY <1>6, <1>7, <1>8
  <2> QED BY <1>0, <1>1, <1>13, <2>1, <2>2
<1>15. ASSUME NEW n \in 0..(N - 1), n \in S PROVE n + 1 \in S
  <2>1. n + 1 \in 1..N /\ (n + 1) - 1 = n /\ n + 1 \in 0..N
    BY <1>0
  <2>2. reached[n] \in T /\ reached[n + 1] = next(reached[n])
    BY <1>13, <1>15, <2>1
  <2>3. ASSUME NEW i \in 1..Len(l), i <= (n + 1) + 1 PROVE l[i] \in reached[n + 1]
    <3>1. CASE i <= n + 1
      BY <1>4, <1>15, <2>2, <3>1
    <3>2. CASE i = n + 2
      <4>1. /\ i - 1 \in 1..(Len(l) - 1) /\ (i - 1) + 1 = i /\ i - 1 \in 1..Len(l)
            /\ i - 1 <= n + 1
        BY <1>7, <3>2
      <4>2. l[i - 1].issuer = l[i].subject /\ l[i - 1].by = l[i].key
        BY <4>1 DEF Leads
      <4>3. l[i - 1] \in reached[n]
        BY <1>15, <4>1
      <4> QED BY <1>3, <1>8, <2>2, <4>2, <4>3
    <3> QED BY <2>3, <3>1, <3>2
  <2> QED BY <1>2, <2>1, <2>2, <2>3
<1>16. N \in S
  <2>1. 0..N \subseteq S
    <3> HIDE DEF S
    <3> QED BY <1>0, <1>14, <1>15, UpTo
  <2> QED BY <1>0, <2>1
<1>17. \A i \in 1..Len(l) : i <= N + 1
  BY <1>0, <1>7 DEF N
<1> QED BY <1>5, <1>7, <1>16, <1>17

(* What the code calls verified is what these bytes were signed for, with  *)
(* a key that signatures link to one that is trusted.                      *)
LEMMA VerifiedIsVouched ==
    ASSUME NEW f, Legible(f)
    PROVE  VouchedFor(f)
<1> DEFINE s == f.signature
           bag == Bag(s)
           chain == Chain(bag)
           linked == Linked(chain)
<1> SUFFICES ASSUME Verified(Result(f))
             PROVE  /\ s.digest = DigestOf(f, s.algorithm)
                    /\ s.algorithm \notin Weak
                    /\ s.under \in Digests
                    /\ s.messageDigest = Content(s, s.under)
                    /\ \E c \in Vouches(s.bag, s.key) : c.id \in DOMAIN Anchors
  BY DEF VouchedFor
<1>1. bag # <<>> /\ Result(f) = Judged(f, s, chain, linked, AnchorFor(linked))
  <2>1. Unread.parsed = FALSE /\ [Unread EXCEPT !.present = TRUE].parsed = FALSE
    BY DEF Unread
  <2>2. Result(f).parsed
    BY DEF Verified
  <2> QED BY <2>1, <2>2 DEF Result, Ordered, Traced
<1>2. /\ DigestOf(f, s.algorithm) = s.digest
      /\ SignatureValid(s, chain[1])
      /\ AnchorFor(linked) # ""
      /\ s.algorithm \notin Weak
  <2> DEFINE r == Result(f)
             covers == DigestOf(f, s.algorithm) = s.digest
             valid == SignatureValid(s, chain[1])
             anchored == AnchorFor(linked) # ""
             late == Late(s, linked, AnchorFor(linked))
             own == Last(chain).issuer = Last(chain).subject
  <2>1. r = [present |-> TRUE, parsed |-> TRUE, covers |-> covers, valid |-> valid,
             chain |-> IF anchored THEN IF late THEN "unanchored" ELSE "anchored"
                       ELSE IF own THEN "self-signed" ELSE "unanchored",
             algorithm |-> s.algorithm]
    BY <1>1 DEF Judged
  <2>2. r.covers /\ r.valid /\ r.chain = "anchored" /\ r.algorithm \notin Weak
    BY DEF Verified
  <2> HIDE DEF r, covers, valid, anchored, late, own
  <2>3. /\ r.covers = covers /\ r.valid = valid /\ r.algorithm = s.algorithm
        /\ r.chain = IF anchored THEN IF late THEN "unanchored" ELSE "anchored"
                     ELSE IF own THEN "self-signed" ELSE "unanchored"
    BY <2>1
  <2>4. covers /\ valid /\ s.algorithm \notin Weak
    BY <2>2, <2>3
  <2>5. anchored
    BY <2>2, <2>3
  <2> QED BY <2>4, <2>5 DEF covers, valid, anchored
<1>3. /\ s.under \in Digests /\ s.messageDigest = Content(s, s.under)
      /\ s.key = chain[1].key
  <2> DEFINE a == SignerAlgorithm(s)
  <2>1. s.algorithm \in Digests
    <3>1. Committed(s) # ""
      <4>1. Unread.parsed = FALSE /\ [Unread EXCEPT !.present = TRUE].parsed = FALSE
        BY DEF Unread
      <4>2. Result(f).parsed
        BY DEF Verified
      <4> QED BY <4>1, <4>2 DEF Result
    <3> QED BY <3>1 DEF Committed
  <2>2. a \in Digests
    BY <2>1 DEF SignerAlgorithm
  <2>3. Signer(s) = [key |-> chain[1].key, under |-> a, commits |-> Content(s, a)]
    BY <1>2 DEF SignatureValid
  <2> DEFINE k == chain[1].key  c == Content(s, a)
  <2>4. Signer(s).key = k /\ Signer(s).under = a /\ Signer(s).commits = c
    <3>1. Signer(s) = [key |-> k, under |-> a, commits |-> c]
      BY <2>3
    <3> HIDE DEF k, a, c, s
    <3> QED BY <3>1
  <2>5. s.attributes
    <3> SUFFICES ASSUME ~s.attributes PROVE FALSE
      OBVIOUS
    <3>1. Signer(s).under = ""
      BY DEF Signer
    <3>2. "" \notin Digests
      BY DEF Digests
    <3> HIDE DEF a, k, c, s
    <3> QED BY <2>2, <2>4, <3>1, <3>2
  <2>6. Signer(s).key = s.key /\ Signer(s).under = s.under /\ Signer(s).commits = s.messageDigest
    BY <2>5 DEF Signer
  <2>7. s.under = a /\ s.messageDigest = c /\ s.key = k
    <3> HIDE DEF a, k, c, s
    <3> QED BY <2>4, <2>6
  <2>8. s.messageDigest = Content(s, s.under)
    <3>1. \A u : u = a => Content(s, u) = Content(s, a)
      OBVIOUS
    <3> HIDE DEF a, k, s
    <3> QED BY <2>7, <3>1
  <2> HIDE DEF a, s, c
  <2> QED BY <2>2, <2>7, <2>8 DEF k
<1>4. /\ s.bag \in Seq(Range(s.bag)) /\ bag \in Seq(Range(s.bag))
      /\ Len(bag) <= Len(s.bag) /\ Len(bag) \in Nat /\ Len(s.bag) \in Nat
  BY BagIs, LenProperties DEF Legible
<1> HIDE DEF bag
<1>5. Leads(Range(s.bag), chain) /\ Len(chain) <= Len(bag)
  BY <1>1, <1>4, ChainLeads
<1> HIDE DEF chain
<1>6. /\ Leads(Range(s.bag), linked) /\ linked[1] = chain[1] /\ Len(linked) <= Len(chain)
      /\ \A i \in 1..(Len(linked) - 1) : linked[i].by = linked[i + 1].key
  BY <1>5, LinkedLeads
<1> HIDE DEF linked
<1>7. Len(linked) <= Len(s.bag)
  <2>1. Len(linked) \in Nat /\ Len(chain) \in Nat
    BY <1>5, <1>6, LenProperties DEF Leads
  <2> QED BY <1>4, <1>5, <1>6, <2>1
<1>8. \A i \in DOMAIN linked : linked[i] \in Vouches(s.bag, s.key)
  BY <1>3, <1>4, <1>6, <1>7, ChainVouches
<1>9. \E i \in DOMAIN linked : linked[i].id \in DOMAIN Anchors
  BY <1>2 DEF AnchorFor
<1> QED BY <1>2, <1>3, <1>8, <1>9

(* Two bags of the same certificates, none of them ambiguous: p says where *)
(* in the first one the certificates of the second one are.                *)
Reordered(b, d, p) ==
    /\ b # <<>> /\ d # <<>> /\ Len(d) = Len(b)
    /\ p \in [1..Len(b) -> 1..Len(b)]
    /\ \A k \in 1..Len(b) : p[p[k]] = k /\ d[k] = b[p[k]]
    /\ Unambiguous(b)

(* One element is the least of a set that holds no other.                  *)
LEMMA OnlyOne ==
    ASSUME NEW n \in Nat
    PROVE  Min({n}) = n
<1>1. {n} \in SUBSET Nat /\ {n} # {}
  OBVIOUS
<1>2. Min({n}) \in {n}
  BY <1>1, Least
<1> QED BY <1>2

LEMMA SameLeaf ==
    ASSUME NEW C, NEW b \in Seq(C), NEW d \in Seq(C), NEW p, Reordered(b, d, p)
    PROVE  Leaf(d) = Leaf(b)
<1> DEFINE code(x) == {i \in {k \in DOMAIN x : ~x[k].ca} : x[i].code}
<1>1. /\ Len(b) \in Nat /\ DOMAIN b = 1..Len(b) /\ DOMAIN d = 1..Len(b)
      /\ p \in [1..Len(b) -> 1..Len(b)]
      /\ \A k \in 1..Len(b) : p[p[k]] = k /\ d[k] = b[p[k]]
  BY LenProperties DEF Reordered
<1>2. PICK u : code(b) = {u}
  <2>1. Cardinality({i \in DOMAIN b : b[i].code /\ ~b[i].ca}) = 1
    BY DEF Reordered, Unambiguous
  <2>2. code(b) = {i \in DOMAIN b : b[i].code /\ ~b[i].ca}
    OBVIOUS
  <2>3. IsFiniteSet(1..Len(b))
    BY <1>1, FS_Interval
  <2>4. IsFiniteSet(code(b))
    BY <1>1, <2>3, FS_Subset
  <2> HIDE DEF code
  <2> QED BY <2>1, <2>2, <2>4, FS_Singleton
<1>3. u \in 1..Len(b) /\ p[u] \in 1..Len(b)
  BY <1>1, <1>2
<1>4. code(d) = {p[u]}
  <2>1. \A i \in 1..Len(b) : i \in code(d) <=> p[i] \in code(b)
    BY <1>1
  <2>2. code(d) \subseteq 1..Len(b)
    BY <1>1
  <2> HIDE DEF code
  <2> QED BY <1>1, <1>2, <1>3, <2>1, <2>2
<1>5. Leaf(b) = b[u]
  <2>1. code(b) # {} => Leaf(b) = b[Min(code(b))]
    BY DEF Leaf
  <2> HIDE DEF code
  <2> QED BY <1>2, <1>3, <2>1, OnlyOne
<1>6. Leaf(d) = d[p[u]]
  <2>1. code(d) # {} => Leaf(d) = d[Min(code(d))]
    BY DEF Leaf
  <2> HIDE DEF code
  <2> QED BY <1>3, <1>4, <2>1, OnlyOne
<1> QED BY <1>1, <1>3, <1>5, <1>6

LEMMA SameHolder ==
    ASSUME NEW C, NEW b \in Seq(C), NEW d \in Seq(C), NEW p, Reordered(b, d, p), NEW name
    PROVE  /\ Holders(d, name) = {} <=> Holders(b, name) = {}
           /\ Holders(b, name) # {} => Holder(d, name) = Holder(b, name)
<1>1. /\ Len(b) \in Nat /\ DOMAIN b = 1..Len(b) /\ DOMAIN d = 1..Len(b)
      /\ p \in [1..Len(b) -> 1..Len(b)]
      /\ \A k \in 1..Len(b) : p[p[k]] = k /\ d[k] = b[p[k]]
      /\ \A i, j \in 1..Len(b) : b[i].subject = b[j].subject => i = j
  BY LenProperties DEF Reordered, Unambiguous
<1>2. \A i \in 1..Len(b) : i \in Holders(d, name) <=> p[i] \in Holders(b, name)
  BY <1>1 DEF Holders
<1>3. Holders(b, name) \subseteq 1..Len(b) /\ Holders(d, name) \subseteq 1..Len(b)
  BY <1>1 DEF Holders
<1>4. \A i, j \in Holders(b, name) : i = j
  BY <1>1 DEF Holders
<1>5. Holders(d, name) = {} <=> Holders(b, name) = {}
  BY <1>1, <1>2, <1>3
<1>6. ASSUME NEW h \in Holders(b, name) PROVE Holder(d, name) = Holder(b, name)
  <2>1. h \in 1..Len(b) /\ p[h] \in 1..Len(b) /\ h \in Nat /\ p[h] \in Nat
    BY <1>1, <1>3
  <2>2. Holders(b, name) = {h} /\ Holders(d, name) = {p[h]}
    BY <1>1, <1>2, <1>3, <1>4, <2>1
  <2>3. Holder(b, name) = b[h] /\ Holder(d, name) = d[p[h]]
    BY <2>1, <2>2, OnlyOne DEF Holder
  <2> QED BY <1>1, <2>1, <2>3
<1> QED BY <1>5, <1>6

LEMMA SameChain ==
    ASSUME NEW C, NEW b \in Seq(C), NEW d \in Seq(C), NEW p, Reordered(b, d, p)
    PROVE  Chain(d) = Chain(b)
<1>1. b # <<>> /\ d # <<>> /\ Len(d) = Len(b)
  BY DEF Reordered
<1>2. PICK g : Grows(g, C, b) /\ Chain(b) = g[Len(b) - 1]
  BY <1>1, ChainGrows
<1>3. PICK h : Grows(h, C, d) /\ Chain(d) = h[Len(b) - 1]
  BY <1>1, ChainGrows
<1>4. ASSUME NEW c PROVE Extended(d, c) = Extended(b, c)
  BY SameHolder DEF Extended
<1> DEFINE n == Len(b) - 1  S == {i \in 0..n : h[i] = g[i]}
<1>5. n \in Nat
  BY <1>1, LenProperties, EmptySeq
<1>6. 0 \in S
  <2>1. Leaf(d) = Leaf(b)
    BY SameLeaf
  <2>2. h[0] = g[0]
    BY <1>2, <1>3, <2>1 DEF Grows
  <2> QED BY <1>5, <2>2
<1>7. ASSUME NEW i \in 0..(n - 1), i \in S PROVE i + 1 \in S
  <2>1. i + 1 \in 1..(Len(b) - 1) /\ (i + 1) - 1 = i /\ i + 1 \in 0..n
    BY <1>5
  <2>2. g[i + 1] = Extended(b, g[i]) /\ h[i + 1] = Extended(d, h[i])
    BY <1>1, <1>2, <1>3, <2>1 DEF Grows
  <2> QED BY <1>4, <1>7, <2>1, <2>2
<1>8. n \in S
  <2>1. 0..n \subseteq S
    <3> HIDE DEF S, n
    <3> QED BY <1>5, <1>6, <1>7, UpTo
  <2> QED BY <1>5, <2>1
<1> QED BY <1>2, <1>3, <1>8

(* A file and the same file with two certificates of its bag swapped.      *)
LEMMA OrderDoesNotMatter ==
    ASSUME NEW f, Legible(f)
    PROVE  OrderIsNothing(f)
<1> DEFINE s == f.signature  bag == s.bag  C == Range(bag)
<1> SUFFICES ASSUME Blob(f), Unambiguous(bag), NEW i \in DOMAIN bag, NEW j \in DOMAIN bag
             PROVE  LET swapped == [bag EXCEPT ![i] = bag[j], ![j] = bag[i]]
                    IN i < j => Result([f EXCEPT !.signature.bag = swapped]) = Result(f)
  BY DEF OrderIsNothing
<1> DEFINE d == [bag EXCEPT ![i] = bag[j], ![j] = bag[i]]
           f2 == [f EXCEPT !.signature.bag = d]
           s2 == f2.signature
           p == [k \in 1..Len(bag) |-> IF k = i THEN j ELSE IF k = j THEN i ELSE k]
<1>0. bag \in Seq(C) /\ Len(bag) \in Nat /\ DOMAIN bag = 1..Len(bag) /\ Len(bag) <= MaxCertificates
  BY LenProperties DEF Legible, Unambiguous
<1>1. d \in Seq(C) /\ Len(d) = Len(bag)
  <2>1. bag[i] \in C /\ bag[j] \in C
    BY DEF Range
  <2> HIDE DEF C, s
  <2>2. bag \in [1..Len(bag) -> C]
    BY <1>0
  <2>3. d \in [1..Len(bag) -> C]
    BY <2>1, <2>2
  <2> HIDE DEF d
  <2> QED BY <1>0, <2>3
<1>2. Reordered(bag, d, p)
  <2>1. p \in [1..Len(bag) -> 1..Len(bag)]
    BY <1>0
  <2>2. \A k \in 1..Len(bag) : p[p[k]] = k /\ d[k] = bag[p[k]]
    BY <1>0
  <2>3. bag # <<>> /\ d # <<>>
    <3> HIDE DEF d, s
    <3> QED BY <1>0, <1>1, EmptySeq
  <2> QED BY <1>1, <2>1, <2>2, <2>3 DEF Reordered
<1>3. s2 = [s EXCEPT !.bag = d]
  BY DEF Legible
<1>4. /\ s2.bag = d /\ s2.readable = s.readable /\ s2.fields = s.fields
      /\ s2.algorithm = s.algorithm /\ s2.digest = s.digest /\ s2.attributes = s.attributes
      /\ s2.messageDigest = s.messageDigest /\ s2.key = s.key /\ s2.stamps = s.stamps
      /\ s2.digestAlgorithm = s.digestAlgorithm /\ s2.under = s.under
  <2> HIDE DEF d, s2
  <2> QED BY <1>3 DEF Legible
<1>5. f2.layout = f.layout /\ f2.body = f.body /\ f2.behind = f.behind
  <2> HIDE DEF d
  <2> QED BY DEF Legible
<1> HIDE DEF d, p, f2, s2
<1>6. Bag(s) = bag /\ Bag(s2) = d /\ bag # <<>> /\ d # <<>>
  <2> HIDE DEF C, s
  <2>1. Bag(s) = bag
    BY <1>0, BagIs
  <2>2. Bag(s2) = d
    BY <1>0, <1>1, <1>4, BagIs
  <2> QED BY <1>2, <2>1, <2>2 DEF Reordered
<1>7. Chain(d) = Chain(bag)
  <2> HIDE DEF C, s
  <2> QED BY <1>0, <1>1, <1>2, SameChain
<1>8. Readable(s2) = Readable(s) /\ Committed(s2) = Committed(s) /\ Blob(f2)
  <2> HIDE DEF s
  <2> QED BY <1>4, <1>5 DEF Readable, Committed, Blob
<1>9. DigestOf(f2, s2.algorithm) = DigestOf(f, s.algorithm)
  <2> HIDE DEF s
  <2> QED BY <1>4, <1>5 DEF DigestOf, Located
<1>10. \A leaf : SignatureValid(s2, leaf) = SignatureValid(s, leaf)
  <2> HIDE DEF s
  <2> QED BY <1>4 DEF SignatureValid, Signer, SignerAlgorithm, Content
<1>11. \A l, a : Late(s2, l, a) = Late(s, l, a)
  <2> HIDE DEF s
  <2> QED BY <1>4 DEF Late, SigningTime
<1> DEFINE c == Chain(bag)
<1>12. Ordered(f2, c) = Ordered(f, c)
  <2> HIDE DEF c
  <2>1. Judged(f2, s2, c, Linked(c), AnchorFor(Linked(c))) = Judged(f, s, c, Linked(c), AnchorFor(Linked(c)))
    <3> HIDE DEF s
    <3> QED BY <1>4, <1>9, <1>10, <1>11 DEF Judged
  <2> QED BY <2>1 DEF Ordered, Traced, s2
<1>13. Result(f2) = Result(f)
  <2> HIDE DEF c
  <2>1. Result(f) = IF ~Readable(s) \/ bag = <<>> \/ Committed(s) = "" THEN [Unread EXCEPT !.present = TRUE]
                    ELSE Ordered(f, Chain(bag))
    BY <1>6 DEF Result
  <2>2. Result(f2) = IF ~Readable(s2) \/ d = <<>> \/ Committed(s2) = "" THEN [Unread EXCEPT !.present = TRUE]
                     ELSE Ordered(f2, Chain(d))
    BY <1>6, <1>8 DEF Result, s2
  <2> QED BY <1>6, <1>7, <1>8, <1>12, <2>1, <2>2 DEF c
<1> QED BY <1>13 DEF f2, d

(* A publisher is called verified only for a file of which these bytes were*)
(* signed, with a key that signatures link to a trusted authority; and in  *)
(* which order the certificates are listed makes no difference.            *)
THEOREM SignaturesAreVouchedFor == AssessSpec => []SignatureIsVouchedFor
<1>1. AssessInv => SignatureIsVouchedFor
  <2> SUFFICES ASSUME AssessInv, file.content = "dos"
               PROVE  VouchedFor(file) /\ OrderIsNothing(file)
    BY DEF SignatureIsVouchedFor
  <2>1. Legible(file)
    BY FilesAssumption DEF AssessInv
  <2> QED BY <2>1, VerifiedIsVouched, OrderDoesNotMatter
<1> QED BY <1>1, AssessmentsAreKept, PTL

-----------------------------------------------------------------------------
(* What leaves the service.                                                *)

RiskIs(r) == r.risk = 1 \/ r.risk = 2 \/ r.risk = 3 \/ r.risk = 4

LEMMA RowsAccuseAlike ==
    ASSUME NEW r, NEW values, RiskIs(r),
           Discounted /\ trace.ids \cap OfCape # {} => r.caveats # {}
    PROVE  Agree(r, values)
<1> DEFINE bundle == Bundle(r, values)
           record == Incident(r, file, sample, job.static \cup trace.ids, values)
<1>1. /\ bundle.malware = AssessedMalicious(r)
      /\ bundle.indicators = IF AssessedMalicious(r) THEN Patterns(values) ELSE {}
      /\ bundle.uses = IF AssessedMalicious(r) THEN r.techniques ELSE {}
      /\ bundle.caveats = r.caveats
  BY DEF Bundle
<1>2. /\ record.act = UnlawfulAct(r)
      /\ record.suspicious = SuspiciousOrWorse(r)
      /\ record.outward = Outward(values)
      /\ record.reaches = ReachesOut(file, sample, job.static \cup trace.ids, values)
      /\ record.causes = r.techniques
      /\ record.caveats = r.caveats
  BY DEF Incident
<1> HIDE DEF bundle, record
<1>3. bundle.malware <=> record.act = "yes"
  BY <1>1, <1>2 DEF UnlawfulAct
<1>4. bundle.indicators # {} => bundle.malware
  BY <1>1
<1>5. ASSUME NEW v \in bundle.indicators
      PROVE  /\ v.host.version = "name" \/ v.host.scope = "public"
             /\ v \in record.outward \/ v.host.scope = "localhost"
  <2>1. v \in Patterns(values)
    BY <1>1, <1>5
  <2>2. v \in values /\ (v.host.version = "name" \/ v.host.scope = "public")
    BY <2>1 DEF Patterns, OwnInfrastructure
  <2>3. v.host.scope # "localhost" => ~PointsInside(v)
    BY <2>2 DEF PointsInside
  <2>4. v.host.scope # "localhost" => v \in Outward(values)
    BY <2>2, <2>3 DEF Outward
  <2> QED BY <1>2, <2>2, <2>4
<1>6. (\E v \in bundle.indicators : v.host.scope # "localhost") => record.reaches
  BY <1>2, <1>5 DEF ReachesOut
<1>7. bundle.uses \subseteq record.causes
  BY <1>1, <1>2
<1>8. record.act \in {"yes", "suspected"} => record.suspicious
  <2>1. Sev.medium = 2 /\ Sev.high = 3
    BY DEF Sev
  <2>2. ASSUME AssessedMalicious(r) PROVE SuspiciousOrWorse(r)
    <3>1. r.risk >= Sev.high => r.risk >= Sev.medium
      BY <2>1 DEF RiskIs
    <3> QED BY <2>2, <3>1, Zenon DEF AssessedMalicious, SuspiciousOrWorse
  <2>3. r.verdict = "suspicious" => SuspiciousOrWorse(r)
    BY DEF SuspiciousOrWorse
  <2> QED BY <1>2, <2>2, <2>3 DEF UnlawfulAct
<1>9. Discounted /\ trace.ids \cap OfCape # {} => bundle.caveats # {} /\ record.caveats = bundle.caveats
  BY <1>1, <1>2
<1>10. Agree(r, values) <=>
          /\ bundle.malware <=> record.act = "yes"
          /\ bundle.indicators # {} => bundle.malware
          /\ \A v \in bundle.indicators :
                /\ v.host.version = "name" \/ v.host.scope = "public"
                /\ v \in record.outward \/ v.host.scope = "localhost"
          /\ (\E v \in bundle.indicators : v.host.scope # "localhost") => record.reaches
          /\ bundle.uses \subseteq record.causes
          /\ record.act \in {"yes", "suspected"} => record.suspicious
          /\ Discounted /\ trace.ids \cap OfCape # {} => bundle.caveats # {} /\ record.caveats = bundle.caveats
  BY DEF Agree, bundle, record
<1> QED BY <1>3, <1>4, <1>5, <1>6, <1>7, <1>8, <1>9, <1>10

(* The bundle and the regulatory record of a row accuse alike, also of a   *)
(* row from before there were verdicts.                                    *)
THEOREM ExportsAlwaysAgree == AssessSpec => []ExportsAgree
<1>1. AssessInv => ExportsAgree
  <2> SUFFICES ASSUME AssessInv PROVE ExportsAgree
    OBVIOUS
  <2> DEFINE S == job.static \cup trace.ids
             ok == Attributable(sample)
             iocs == Scorable(sample, trace, ok)
             old == [row EXCEPT !.verdict = ""]
             values == Indicators(file, trace)
  <2>1. row = Assess(sample, S, iocs, ok, trace.ran)
    BY PipelineIs DEF AssessInv
  <2>2. Reads(row, sample, S, iocs, ok, trace.ran)
    <3> HIDE DEF S, ok, iocs
    <3> QED BY <2>1, RowIs
  <2>3. /\ row.risk = RiskLevel(row.score)
        /\ row.caveats = Caveats(sample, S, ok, trace.ran)
        /\ row.verdict = "clean" \/ row.verdict = "suspicious" \/ row.verdict = "malicious"
    <3> HIDE DEF S, ok, iocs
    <3> QED BY <2>2, VerdictIs DEF Reads
  <2>4. RiskIs(row)
    BY <2>3 DEF RiskLevel, Sev, RiskIs
  <2>5. ASSUME Discounted, trace.ids \cap OfCape # {} PROVE row.caveats # {}
    <3>1. trace.ran /\ trace.ids \subseteq Dynamic
      BY <2>5, TracesAre DEF AssessInv
    <3>2. S \cap OfCape # {}
      BY <2>5, <3>1
    <3>3. CASE ~ok
      <4>1. "not attributable" \in Caveats(sample, S, ok, trace.ran)
        BY <3>1, <3>3 DEF Caveats
      <4> QED BY <2>3, <4>1
    <3>4. CASE sample.family \in Uncalibrated
      <4>1. "uncalibrated" \in Caveats(sample, S, ok, trace.ran)
        BY <3>1, <3>2, <3>4 DEF Caveats
      <4> QED BY <2>3, <4>1
    <3> QED BY <2>5, <3>3, <3>4 DEF Discounted
  <2>6. old.risk = row.risk /\ old.caveats = row.caveats
    BY <2>1 DEF Assess, Classify, Opinions
  <2>7. Agree(row, values)
    <3> HIDE DEF values
    <3> QED BY <2>4, <2>5, RowsAccuseAlike
  <2>8. Agree(old, values)
    <3> HIDE DEF values, old
    <3>1. RiskIs(old)
      BY <2>4, <2>6 DEF RiskIs
    <3> QED BY <2>5, <2>6, <3>1, RowsAccuseAlike
  <2>9. Bundle(row, values).malware <=> row.verdict = "malicious"
    BY <2>3 DEF Bundle, AssessedMalicious
  <2> QED BY <2>7, <2>8, <2>9 DEF ExportsAgree
<1> QED BY <1>1, AssessmentsAreKept, PTL

-----------------------------------------------------------------------------
(* The detonation engines of the worker.                                   *)

USE WorldsAssumption, EnginesBounds

-----------------------------------------------------------------------------
(* The strengthening.                                                      *)

Shape(a) == /\ a = [pc |-> a.pc, engine |-> a.engine, task |-> a.task, report |-> a.report]
            /\ a.pc \in {"none", "run", "poll", "deliver"}
            /\ a.report.kind \in {"unavailable", "refused", "ran"}

TypeInv ==
    /\ world \in Worlds
    /\ stored = [j \in Jobs |-> stored[j]]
    /\ batch \subseteq Jobs
    /\ attempt = [j \in Jobs |-> attempt[j]]
    /\ \A j \in Jobs : Shape(attempt[j])
    /\ tasks \in Seq(Task)
    /\ faults \in [Jobs -> Nat]

(* A task has a machine once it runs; a misfit never runs, so that a task  *)
(* of another sample fails its analysis only when its guest breaks down.   *)
TaskInv ==
    \A t \in DOMAIN tasks :
        /\ tasks[t].status = "pending" => ~tasks[t].machine
        /\ tasks[t].status = "running" => tasks[t].machine
        /\ world.sample[tasks[t].job].fits = "misfit" =>
              ~tasks[t].machine /\ tasks[t].status # "running"

(* A job that a thread has, or that waits for one, is in the queue.        *)
Queued(j) == /\ j \in batch => stored[j] = Waiting /\ attempt[j].pc = "none"
             /\ attempt[j].pc # "none" => stored[j] = Waiting

(* The task that an attempt follows was made for its job, by its engine.   *)
Follows(j) == attempt[j].pc = "poll" =>
                  /\ attempt[j].task \in DOMAIN tasks
                  /\ Followed(j).job = j
                  /\ Followed(j).engine = attempt[j].engine

(* A report that an attempt has is of its own job, and tells what there is.*)
Truthful(noted) == Accounted(noted) /\ DescentTold(noted)

ReportsOwn(j) ==
    /\ attempt[j].report.kind = "ran" => attempt[j].report.of = j
    /\ stored[j].kind = "ran" => stored[j].of = j
    /\ j \in Told => Truthful(attempt[j].report.found)

Flaked(t) == tasks[t].status = "failed_analysis" /\ tasks[t].machine

(* The last of j's tasks is one that no fault has to account for: it is    *)
(* under way, or it has led to an answer.                                  *)
Spent(j) == \/ stored[j] # Waiting
            \/ attempt[j].pc = "deliver" /\ attempt[j].report.kind # "unavailable"
            \/ /\ attempt[j].pc = "poll" /\ attempt[j].engine = "capev2"
               /\ ~Flaked(attempt[j].task)

Paid(j) == \/ world.sample[j].fits = "malformed"
           \/ Cardinality(Submissions(j)) <= faults[j]
           \/ Spent(j) /\ Cardinality(Submissions(j)) <= 1 + faults[j]

JobInv(j) == Queued(j) /\ Follows(j) /\ ReportsOwn(j) /\ Paid(j)

IInv == TypeInv /\ TaskInv /\ \A j \in Jobs : JobInv(j)

-----------------------------------------------------------------------------
(* What a sandbox's address book is told as keeps every address.           *)
LEMMA NormalisedIsAccounted == \A document : Accounted(NormaliseCuckoo(document))
  <1> SUFFICES ASSUME NEW document PROVE Accounted(NormaliseCuckoo(document))
    OBVIOUS
  <1> DEFINE queries == UNION {{q[1], q[2]} : q \in Resolved(document)}
  <1> HIDE DEF queries
  <1>1. /\ NormaliseCuckoo(document).document = document
        /\ NormaliseCuckoo(document).iocs = Kept(Addressed(document) \cup queries)
        /\ NormaliseCuckoo(document).established = Kept(Established(document))
        /\ NormaliseCuckoo(document).attempted = Kept(Attempted(document))
    BY DEF NormaliseCuckoo, queries
  <1> QED BY <1>1 DEF Accounted, Kept, Addressed, Established, Attempted, Exchanged

-----------------------------------------------------------------------------
(* A path up the tree of a report: each of its processes but the last is   *)
(* the child of the next one, is not the root, and is met once.            *)
Rises(P, c, i) ==
    /\ c \in Seq(DOMAIN P) /\ c # <<>> /\ c[1] = i
    /\ \A k \in 1..(Len(c) - 1) : /\ P[c[k]].parent = P[c[k + 1]].pid
                                  /\ P[c[k]].pid # RootPid(P)
    /\ \A k, q \in 1..(Len(c) - 1) : c[k] = c[q] => k = q

(* Every number can be read and none is used twice.                        *)
Numbered(P) == /\ \A k \in DOMAIN P : P[k].pid # 0
               /\ \A k, q \in DOMAIN P : P[k].pid = P[q].pid => k = q

(* A chain of n parents.                                                   *)
Parents(P, d, n) == /\ d \in [1..n -> DOMAIN P]
                    /\ \A k \in 1..(n - 1) : P[d[k]].parent = P[d[k + 1]].pid

LEMMA RootIsIn ==
    ASSUME NEW P \in Seq(Process), P # <<>>
    PROVE  \E r \in DOMAIN P : P[r].pid = RootPid(P)
<1> DEFINE marked == {i \in DOMAIN P : P[i].launched}
           read == marked # {} /\ P[Min(marked)].pid # 0
           r == IF read THEN Min(marked) ELSE 1
<1>1. Len(P) \in Nat /\ Len(P) > 0 /\ DOMAIN P = 1..Len(P)
  BY LenProperties, EmptySeq
<1>2. RootPid(P) = P[r].pid
  BY DEF RootPid
<1>3. marked \in SUBSET Nat /\ marked \subseteq 1..Len(P)
  BY <1>1
<1>4. marked # {} => Min(marked) \in marked
  <2> HIDE DEF marked
  <2> QED BY <1>3, Least
<1> HIDE DEF marked
<1>5. r \in DOMAIN P
  <2>1. CASE ~read
    BY <1>1, <2>1
  <2>2. CASE read
    BY <1>1, <1>3, <1>4, <2>2
  <2> QED BY <2>1, <2>2
<1> QED BY <1>2, <1>5

LEMMA ParentIs ==
    ASSUME NEW P \in Seq(Process), NEW pid \in {P[k].pid : k \in DOMAIN P}
    PROVE  ByPid(P, pid) \in DOMAIN P /\ P[ByPid(P, pid)].pid = pid
<1> DEFINE T == {k \in DOMAIN P : P[k].pid = pid}
<1>1. Len(P) \in Nat /\ DOMAIN P = 1..Len(P)
  BY LenProperties
<1>2. T \in SUBSET (1..Len(P)) /\ T # {}
  BY <1>1
<1>3. Max(T) \in T
  <2> HIDE DEF T
  <2> QED BY <1>1, <1>2, GreatestOf
<1> QED BY <1>3 DEF ByPid

(* A path that does not end goes on to a parent that is in the report.     *)
LEMMA Onward ==
    ASSUME NEW P \in Seq(Process), NEW c, NEW i, Rises(P, c, i),
           WhoseIs(P, c) = "its parent's"
    PROVE  LET last == c[Len(c)]
               next == ByPid(P, P[last].parent)
           IN /\ next \in DOMAIN P /\ P[last].parent = P[next].pid
              /\ P[last].pid # RootPid(P)
              /\ \A k \in 1..(Len(c) - 1) : P[c[k]].pid # P[last].pid
<1> DEFINE last == c[Len(c)]
<1>1. /\ P[last].pid # RootPid(P)
      /\ P[last].pid \notin {P[c[k]].pid : k \in 1..(Len(c) - 1)}
      /\ P[last].parent \in {P[k].pid : k \in DOMAIN P}
  BY DEF WhoseIs
<1>2. \A k \in 1..(Len(c) - 1) : P[c[k]].pid # P[last].pid
  BY <1>1
<1> HIDE DEF last
<1>3. ByPid(P, P[last].parent) \in DOMAIN P /\ P[ByPid(P, P[last].parent)].pid = P[last].parent
  BY <1>1, ParentIs
<1> QED BY <1>1, <1>2, <1>3 DEF last

LEMMA ClimbedRises ==
    ASSUME NEW P \in Seq(Process), NEW c, NEW i, Rises(P, c, i)
    PROVE  /\ Rises(P, Climbed(P, c), i)
           /\ Len(Climbed(P, c)) <= Len(c) + 1
<1>1. c \in Seq(DOMAIN P) /\ Len(c) \in Nat /\ Len(c) > 0
  BY LenProperties, EmptySeq DEF Rises
<1>2. CASE WhoseIs(P, c) # "its parent's"
  <2>1. Climbed(P, c) = c
    BY <1>2 DEF Climbed
  <2> QED BY <1>1, <2>1
<1>3. CASE WhoseIs(P, c) = "its parent's"
  <2> DEFINE last == c[Len(c)]  next == ByPid(P, P[last].parent)  e == Append(c, next)
  <2>1. /\ next \in DOMAIN P /\ P[last].parent = P[next].pid
        /\ P[last].pid # RootPid(P)
        /\ \A k \in 1..(Len(c) - 1) : P[c[k]].pid # P[last].pid
    BY <1>3, Onward
  <2> HIDE DEF next
  <2>2. /\ e \in Seq(DOMAIN P) /\ e # <<>> /\ Len(e) = Len(c) + 1
        /\ \A k \in 1..Len(c) : e[k] = c[k]
        /\ e[Len(c) + 1] = next
    BY <1>1, <2>1, AppendProperties
  <2>3. Climbed(P, c) = e
    BY <1>3 DEF Climbed, next
  <2> HIDE DEF e
  <2>4. \A k \in 1..(Len(e) - 1) : k \in 1..Len(c) /\ (k = Len(c) \/ k \in 1..(Len(c) - 1))
    BY <1>1, <2>2
  <2>5. ASSUME NEW k \in 1..(Len(e) - 1)
        PROVE  P[e[k]].parent = P[e[k + 1]].pid /\ P[e[k]].pid # RootPid(P)
    <3>1. CASE k = Len(c)
      BY <1>1, <2>1, <2>2, <2>4, <3>1
    <3>2. CASE k \in 1..(Len(c) - 1)
      <4>1. k \in 1..Len(c) /\ k + 1 \in 1..Len(c)
        BY <1>1, <3>2
      <4> QED BY <2>2, <3>2, <4>1 DEF Rises
    <3> QED BY <2>4, <3>1, <3>2
  <2>6. ASSUME NEW k \in 1..(Len(e) - 1), NEW q \in 1..(Len(e) - 1), e[k] = e[q]
        PROVE  k = q
    <3>1. e[k] = c[k] /\ e[q] = c[q]
      BY <2>2, <2>4
    <3>2. CASE k \in 1..(Len(c) - 1) /\ q \in 1..(Len(c) - 1)
      BY <2>6, <3>1, <3>2 DEF Rises
    <3>3. CASE k \in 1..(Len(c) - 1) /\ q = Len(c)
      BY <2>1, <2>6, <3>1, <3>3
    <3>4. CASE k = Len(c) /\ q \in 1..(Len(c) - 1)
      BY <2>1, <2>6, <3>1, <3>4
    <3> QED BY <2>4, <3>2, <3>3, <3>4
  <2>7. e[1] = i
    <3>1. 1 \in 1..Len(c) /\ c[1] = i
      BY <1>1 DEF Rises
    <3> QED BY <2>2, <3>1
  <2>8. Rises(P, e, i)
    BY <2>2, <2>5, <2>6, <2>7 DEF Rises
  <2> QED BY <1>1, <2>2, <2>3, <2>8
<1> QED BY <1>2, <1>3

(* The path that OriginOf climbs, one process at a time.                   *)
Climbs(g, P, i) ==
    /\ g \in [0..Len(P) -> Seq(DOMAIN P)]
    /\ g[0] = <<i>>
    /\ \A n \in 1..Len(P) : g[n] = Climbed(P, g[n - 1])
    /\ \A n \in 0..Len(P) : Rises(P, g[n], i) /\ Len(g[n]) <= n + 1

LEMMA OriginClimbs ==
    ASSUME NEW P \in Seq(Process), NEW p \in DOMAIN P
    PROVE  \E g : Climbs(g, P, p) /\ OriginOf(P, p) = WhoseIs(P, g[Len(P)])
<1> DEFINE n == Len(P)
           T == {c \in Seq(DOMAIN P) : Rises(P, c, p)}
           a == <<p>>
           next(x) == Climbed(P, x)
           Equations(f) == [k \in 0..n |-> IF k = 0 THEN a ELSE next(f[k - 1])]
           path == CHOOSE f : f = Equations(f)
           step == [k \in 1..n |-> [x \in T |-> next(x)]]
<1>0. n \in Nat
  BY LenProperties
<1>1. a \in T
  <2>1. a \in Seq(DOMAIN P) /\ a # <<>> /\ Len(a) = 1 /\ a[1] = p
    OBVIOUS
  <2> HIDE DEF a
  <2>2. 1..(Len(a) - 1) = {}
    BY <2>1
  <2> QED BY <2>1, <2>2 DEF Rises
<1>2. ASSUME NEW x \in T PROVE next(x) \in T
  <2>1. Rises(P, Climbed(P, x), p)
    BY ClimbedRises
  <2> QED BY <2>1 DEF Rises
<1>3. \A x \in T : x \in Seq(DOMAIN P) /\ Rises(P, x, p) /\ Len(next(x)) <= Len(x) + 1
  BY ClimbedRises
<1>4. OriginOf(P, p) = WhoseIs(P, path[n])
  BY DEF OriginOf
<1>5. Len(a) = 1
  OBVIOUS
<1> HIDE DEF n, T, next, a
<1>6. step \in StepsOn(n, T)
  BY <1>2 DEF StepsOn
<1>7. PICK f \in [0..n -> T] : f[0] = a /\ \A i \in 1..n : f[i] = step[i][f[i - 1]]
  <2> HIDE DEF step
  <2>1. Built(n, T, a, step)
    BY <1>0, <1>1, <1>6, Steps
  <2> QED BY <2>1 DEF Built
<1>8. f = Equations(f)
  <2>1. ASSUME NEW k \in 0..n, k # 0 PROVE step[k][f[k - 1]] = next(f[k - 1])
    <3>1. k \in 1..n /\ f[k - 1] \in T
      BY <1>0, <2>1
    <3> QED BY <3>1
  <2>2. \A k \in 0..n : k # 0 => k \in 1..n
    BY <1>0
  <2> HIDE DEF step
  <2>3. \A k \in 0..n : f[k] = IF k = 0 THEN a ELSE next(f[k - 1])
    BY <1>7, <2>1, <2>2
  <2> QED BY <2>3
<1>9. path = Equations(path)
  <2> HIDE DEF Equations
  <2> QED BY <1>8
<1> HIDE DEF path
<1>10. DOMAIN path = 0..n /\ path[0] = a /\ \A k \in 1..n : path[k] = next(path[k - 1])
  BY <1>0, <1>9
<1> DEFINE S == {k \in 0..n : path[k] \in T /\ Len(path[k]) <= k + 1}
<1>11. 0 \in S
  <2>1. path[0] \in T /\ Len(path[0]) = 1
    BY <1>1, <1>5, <1>10
  <2>2. 0 \in 0..n
    BY <1>0
  <2>3. Len(path[0]) <= 0 + 1
    BY <2>1
  <2> QED BY <2>1, <2>2, <2>3
<1>12. ASSUME NEW k \in 0..(n - 1), k \in S PROVE k + 1 \in S
  <2>1. k + 1 \in 1..n /\ (k + 1) - 1 = k /\ k + 1 \in 0..n
    BY <1>0
  <2>2. path[k + 1] = next(path[k]) /\ path[k] \in T /\ next(path[k]) \in T
    BY <1>2, <1>10, <1>12, <2>1
  <2>3. Len(path[k]) \in Nat /\ Len(path[k + 1]) \in Nat
    BY <1>3, <2>2, LenProperties
  <2> QED BY <1>3, <1>12, <2>1, <2>2, <2>3
<1>13. \A k \in 0..n : path[k] \in T /\ Len(path[k]) <= k + 1
  <2>1. 0..n \subseteq S
    <3> HIDE DEF S
    <3> QED BY <1>0, <1>11, <1>12, UpTo
  <2> QED BY <2>1
<1>14. path \in [0..n -> Seq(DOMAIN P)]
  BY <1>3, <1>9, <1>13
<1>15. Climbs(path, P, p)
  BY <1>3, <1>10, <1>13, <1>14 DEF Climbs, n, a, next
<1> QED BY <1>4, <1>15 DEF n

(* A path that has met as many processes as there are ends at the latest.  *)
LEMMA RootPathFits ==
    ASSUME NEW P \in Seq(Process), NEW c, NEW i, Rises(P, c, i),
           P[c[Len(c)]].pid = RootPid(P)
    PROVE  Len(c) \in 1..Len(P)
<1>1. /\ c \in Seq(DOMAIN P) /\ Len(c) \in Nat /\ Len(c) > 0
      /\ Len(P) \in Nat /\ DOMAIN P = 1..Len(P)
  BY LenProperties, EmptySeq DEF Rises
<1>2. SUFFICES ASSUME Len(c) > Len(P) PROVE FALSE
  BY <1>1
<1> DEFINE M == 1..Len(c)  N == 1..Len(P)  f == [k \in M |-> c[k]]
<1>3. IsFiniteSet(M) /\ IsFiniteSet(N) /\ Cardinality(M) = Len(c) /\ Cardinality(N) = Len(P)
  <2>1. 1 \in Int /\ Len(c) \in Int /\ Len(P) \in Int
    BY <1>1
  <2>2. IsFiniteSet(M) /\ Cardinality(M) = IF 1 > Len(c) THEN 0 ELSE Len(c) - 1 + 1
    BY <2>1, FS_Interval
  <2>3. IsFiniteSet(N) /\ Cardinality(N) = IF 1 > Len(P) THEN 0 ELSE Len(P) - 1 + 1
    BY <2>1, FS_Interval
  <2> HIDE DEF M, N
  <2> QED BY <1>1, <2>2, <2>3
<1>4. f \in [M -> N]
  BY <1>1, ElementOfSeq
<1>5. Cardinality(N) < Cardinality(M)
  BY <1>1, <1>2, <1>3
<1>6. PICK k, q \in M : k # q /\ f[k] = f[q]
  <2> HIDE DEF M, N, f
  <2> QED BY <1>3, <1>4, <1>5, FS_PigeonHole
<1>7. /\ k \in 1..Len(c) /\ q \in 1..Len(c) /\ k # q /\ c[k] = c[q]
      /\ k = Len(c) \/ k \in 1..(Len(c) - 1)
      /\ q = Len(c) \/ q \in 1..(Len(c) - 1)
  BY <1>1, <1>6
<1> QED BY <1>7 DEF Rises

(* Where no number was used twice: whoever climbs to the root descends from*)
(* it, and whoever descends from it climbs to it.                          *)
LEMMA SampleDescends ==
    ASSUME NEW P \in Seq(Process), NEW i \in DOMAIN P, NEW r \in DOMAIN P,
           P[r].pid = RootPid(P), Numbered(P),
           OriginOf(P, i) = "sample"
    PROVE  Descends(P, i, r)
<1>1. PICK g : Climbs(g, P, i) /\ OriginOf(P, i) = WhoseIs(P, g[Len(P)])
  BY OriginClimbs
<1> DEFINE c == g[Len(P)]
<1>2. Len(P) \in Nat /\ DOMAIN P = 1..Len(P)
  BY LenProperties
<1>3. Rises(P, c, i) /\ WhoseIs(P, c) = "sample"
  BY <1>1, <1>2 DEF Climbs
<1> HIDE DEF c
<1>4. P[c[Len(c)]].pid = RootPid(P)
  BY <1>3 DEF WhoseIs
<1>5. Len(c) \in DOMAIN P
  BY <1>2, <1>3, <1>4, RootPathFits
<1>6. c \in [1..Len(c) -> DOMAIN P] /\ c[1] = i
      /\ \A k \in 1..(Len(c) - 1) : P[c[k]].parent = P[c[k + 1]].pid
  <2>1. c \in Seq(DOMAIN P)
    BY <1>3 DEF Rises
  <2>2. c \in [1..Len(c) -> DOMAIN P]
    BY <2>1, LenProperties
  <2> QED BY <1>3, <2>2 DEF Rises
<1>7. c[Len(c)] = r
  <2>1. Len(c) \in 1..Len(c)
    BY <1>2, <1>5
  <2>2. c[Len(c)] \in DOMAIN P
    BY <1>6, <2>1
  <2> QED BY <1>4, <2>2 DEF Numbered
<1> QED BY <1>5, <1>6, <1>7 DEF Descends

(* A chain of parents that comes back to where it was does not leave its   *)
(* loop.                                                                   *)
LEMMA LoopIsClosed ==
    ASSUME NEW P, Numbered(P), NEW n \in Nat, NEW d, Parents(P, d, n),
           NEW q \in 1..n, NEW p \in 1..n, q < p, d[p] = d[q]
    PROVE  \E k \in q..(p - 1) : d[n] = d[k]
<1> DEFINE S == {m \in 0..(n - q) : \E k \in q..(p - 1) : d[q + m] = d[k]}
<1>1. 0 \in S
  <2>1. q \in q..(p - 1) /\ q + 0 = q /\ 0 \in 0..(n - q)
    OBVIOUS
  <2> QED BY <2>1
<1>2. ASSUME NEW m \in 0..((n - q) - 1), m \in S PROVE m + 1 \in S
  <2>1. PICK k \in q..(p - 1) : d[q + m] = d[k]
    BY <1>2
  <2>2. /\ q + m \in 1..(n - 1) /\ q + (m + 1) = (q + m) + 1 /\ k \in 1..(n - 1)
        /\ (q + m) + 1 \in 1..n /\ k + 1 \in 1..n /\ m + 1 \in 0..(n - q)
    OBVIOUS
  <2>3. P[d[(q + m) + 1]].pid = P[d[k + 1]].pid
    BY <2>1, <2>2 DEF Parents
  <2>4. d[q + (m + 1)] = d[k + 1]
    BY <2>2, <2>3 DEF Numbered, Parents
  <2>5. CASE k + 1 \in q..(p - 1)
    BY <2>2, <2>4, <2>5
  <2>6. CASE k + 1 = p
    <3>1. q \in q..(p - 1)
      OBVIOUS
    <3> QED BY <2>2, <2>4, <2>6, <3>1
  <2>7. k + 1 \in q..(p - 1) \/ k + 1 = p
    OBVIOUS
  <2> QED BY <2>5, <2>6, <2>7
<1>3. n - q \in S
  <2>1. n - q \in Nat
    OBVIOUS
  <2>2. 0..(n - q) \subseteq S
    <3> HIDE DEF S
    <3> QED BY <1>1, <1>2, <2>1, UpTo
  <2> QED BY <2>1, <2>2
<1> QED BY <1>3

LEMMA DescendantIsSample ==
    ASSUME NEW P \in Seq(Process), NEW i \in DOMAIN P, NEW r \in DOMAIN P,
           P[r].pid = RootPid(P), Numbered(P),
           Descends(P, i, r)
    PROVE  OriginOf(P, i) = "sample"
<1>1. PICK g : Climbs(g, P, i) /\ OriginOf(P, i) = WhoseIs(P, g[Len(P)])
  BY OriginClimbs
<1>2. Len(P) \in Nat /\ DOMAIN P = 1..Len(P)
  BY LenProperties
<1>3. PICK n \in DOMAIN P : \E d : d[1] = i /\ d[n] = r /\ Parents(P, d, n)
  BY DEF Descends, Parents
<1>4. PICK d : d[1] = i /\ d[n] = r /\ Parents(P, d, n)
  BY <1>3
<1> DEFINE Arrived(c) == P[c[Len(c)]].pid = RootPid(P)
           Along(c, m) == /\ Len(c) = m + 1 /\ m + 1 <= n
                          /\ \A q \in 1..(m + 1) : c[q] = d[q]
           S == {m \in 0..Len(P) : Arrived(g[m]) \/ Along(g[m], m)}
<1>5. 0 \in S
  <2>1. g[0] = <<i>> /\ 0 \in 0..Len(P) /\ 0 + 1 <= n
    BY <1>1, <1>2 DEF Climbs
  <2>2. Len(g[0]) = 0 + 1 /\ g[0][1] = d[1]
    BY <1>4, <2>1
  <2>3. \A q \in 1..(0 + 1) : q = 1
    OBVIOUS
  <2> QED BY <2>1, <2>2, <2>3
<1>6. ASSUME NEW m \in 0..(Len(P) - 1), m \in S PROVE m + 1 \in S
  <2> DEFINE c == g[m]
  <2>1. /\ m + 1 \in 1..Len(P) /\ (m + 1) - 1 = m /\ m + 1 \in 0..Len(P) /\ m \in 0..Len(P)
    BY <1>2
  <2>2. g[m + 1] = Climbed(P, c) /\ Rises(P, c, i)
    BY <1>1, <2>1 DEF Climbs
  <2> HIDE DEF c
  <2>3. CASE Arrived(c)
    <3>1. Climbed(P, c) = c
      BY <2>3 DEF WhoseIs, Climbed
    <3> QED BY <2>1, <2>2, <2>3, <3>1
  <2>4. CASE Along(c, m) /\ ~Arrived(c)
    <3>1. /\ Len(c) = m + 1 /\ m + 1 \in 1..n /\ n \in Nat /\ m \in Nat
          /\ \A q \in 1..(m + 1) : c[q] = d[q]
      BY <1>2, <2>1, <2>4
    <3>2. d[m + 1] \in DOMAIN P /\ d[m + 1] # r /\ m + 1 # n
      BY <1>4, <2>4, <3>1 DEF Parents
    <3>3. m + 1 \in 1..(n - 1) /\ m + 2 \in 1..n /\ (m + 1) + 1 = m + 2
      BY <3>1, <3>2
    <3>4. d[m + 2] \in DOMAIN P /\ P[d[m + 1]].parent = P[d[m + 2]].pid
      BY <1>4, <3>3 DEF Parents
    <3>5. \A q \in 1..m : P[d[q]].pid # P[d[m + 1]].pid
      <4> SUFFICES ASSUME NEW q \in 1..m, P[d[q]].pid = P[d[m + 1]].pid PROVE FALSE
        OBVIOUS
      <4>1. q \in 1..n /\ q < m + 1 /\ q \in 1..(m + 1)
        BY <3>1, <3>3
      <4>2. d[q] \in DOMAIN P /\ d[m + 1] = d[q]
        BY <1>4, <3>2, <4>1 DEF Numbered, Parents
      <4>3. PICK k \in q..((m + 1) - 1) : d[n] = d[k]
        BY <1>4, <3>1, <4>1, <4>2, LoopIsClosed
      <4>4. k \in 1..(Len(c) - 1) /\ k \in 1..(m + 1)
        BY <3>1, <4>1
      <4>5. P[c[k]].pid # RootPid(P) /\ c[k] = r
        BY <1>4, <2>2, <3>1, <4>3, <4>4 DEF Rises
      <4> QED BY <4>5
    <3>6. WhoseIs(P, c) = "its parent's"
      <4>1. c[Len(c)] = d[m + 1]
        BY <3>1
      <4>2. P[d[m + 1]].pid \notin {P[c[k]].pid : k \in 1..(Len(c) - 1)}
        <5>1. \A k \in 1..(Len(c) - 1) : k \in 1..m /\ c[k] = d[k]
          BY <3>1
        <5>2. \A k \in 1..(Len(c) - 1) : P[c[k]].pid # P[d[m + 1]].pid
          BY <3>5, <5>1
        <5> QED BY <5>2
      <4>3. P[d[m + 1]].parent \in {P[k].pid : k \in DOMAIN P}
        BY <3>4
      <4>4. P[d[m + 1]].pid # 0 /\ P[d[m + 1]].parent # 0 /\ RootPid(P) # 0
        BY <3>2, <3>4 DEF Numbered
      <4> QED BY <2>4, <4>1, <4>2, <4>3, <4>4 DEF WhoseIs
    <3> DEFINE next == ByPid(P, P[c[Len(c)]].parent)
    <3>7. next = d[m + 2]
      <4>1. next \in DOMAIN P /\ P[c[Len(c)]].parent = P[next].pid
        BY <2>2, <3>6, Onward
      <4>2. c[Len(c)] = d[m + 1]
        BY <3>1
      <4> HIDE DEF next
      <4>3. P[next].pid = P[d[m + 2]].pid
        BY <3>4, <4>1, <4>2
      <4> QED BY <3>4, <4>1, <4>3 DEF Numbered
    <3>8. Climbed(P, c) = Append(c, next)
      BY <3>6 DEF Climbed
    <3> HIDE DEF next
    <3>9. /\ Len(Append(c, next)) = Len(c) + 1
          /\ \A q \in 1..Len(c) : Append(c, next)[q] = c[q]
          /\ Append(c, next)[Len(c) + 1] = next
      <4>1. c \in Seq(DOMAIN P) /\ next \in DOMAIN P
        BY <2>2, <3>4, <3>7 DEF Rises
      <4> QED BY <4>1, AppendProperties
    <3>10. Along(Append(c, next), m + 1)
      <4>1. Len(Append(c, next)) = (m + 1) + 1 /\ (m + 1) + 1 <= n
        BY <3>1, <3>3, <3>9
      <4>2. ASSUME NEW q \in 1..((m + 1) + 1) PROVE Append(c, next)[q] = d[q]
        <5>1. CASE q = m + 2
          BY <3>1, <3>3, <3>7, <3>9, <5>1
        <5>2. CASE q \in 1..(m + 1)
          BY <3>1, <3>9, <5>2
        <5> QED BY <3>1, <5>1, <5>2
      <4> QED BY <4>1, <4>2
    <3> QED BY <2>1, <2>2, <3>8, <3>10
  <2> QED BY <1>6, <2>3, <2>4 DEF c
<1>7. Len(P) \in S
  <2>1. 0..Len(P) \subseteq S
    <3> HIDE DEF S
    <3> QED BY <1>2, <1>5, <1>6, UpTo
  <2> QED BY <1>2, <2>1
<1>8. Arrived(g[Len(P)])
  BY <1>2, <1>7
<1>9. RootPid(P) # 0
  BY DEF Numbered
<1> QED BY <1>1, <1>8, <1>9 DEF WhoseIs

(* What is said of a report's processes is who has started them.           *)
LEMMA NormalisedIsDescended ==
    ASSUME NEW document \in Document
    PROVE  DescentTold(NormaliseCuckoo(document))
<1> DEFINE P == document.processes
           timeline == Timeline(P)
           root == CHOOSE r \in DOMAIN P : P[r].pid = RootPid(P)
<1>1. P \in Seq(Process)
  BY DEF Document
<1>2. /\ NormaliseCuckoo(document).document = document
      /\ NormaliseCuckoo(document).timeline = timeline
  BY DEF NormaliseCuckoo
<1> HIDE DEF P, timeline
<1> SUFFICES ASSUME Numbered(P), NEW i \in DOMAIN timeline
             PROVE  timeline[i] = "sample" <=> Descends(P, i, root)
  <2> DEFINE numbers == [k \in DOMAIN P |-> P[k].pid]
  <2>1. IsInjective(numbers) /\ 0 \notin Range(numbers) => Numbered(P)
    BY DEF IsInjective, Numbered, Range
  <2>2. DescentTold(NormaliseCuckoo(document)) <=>
           (IsInjective(numbers) /\ 0 \notin Range(numbers) =>
              \A i \in DOMAIN timeline : timeline[i] = "sample" <=> Descends(P, i, root))
    BY <1>2 DEF DescentTold, P
  <2> HIDE DEF numbers, root
  <2> QED BY <2>1, <2>2
<1>3. i \in DOMAIN P /\ timeline[i] = OriginOf(P, i)
  BY DEF Timeline, timeline
<1>4. root \in DOMAIN P /\ P[root].pid = RootPid(P)
  <2>1. P # <<>>
    BY <1>3
  <2> QED BY <1>1, <2>1, RootIsIn
<1> HIDE DEF root
<1> QED BY <1>1, <1>3, <1>4, SampleDescends, DescendantIsSample

-----------------------------------------------------------------------------
(* A fault is counted with the jobs it hits.                               *)
LEMMA FaultsCount ==
    ASSUME TypeInv, NEW hit, Faulted(hit)
    PROVE  /\ faults' \in [Jobs -> Nat]
           /\ \A i \in Jobs : faults'[i] >= faults[i]
           /\ \A i \in Jobs : i \in hit => faults'[i] = faults[i] + 1
  <1>1. faults' = [i \in Jobs |-> faults[i] + IF i \in hit THEN 1 ELSE 0]
    BY DEF Faulted, TypeInv
  <1>2. \A i \in Jobs : faults[i] \in Nat
    BY DEF TypeInv
  <1> QED BY <1>1, <1>2

(* The submissions of a job are finitely many.                             *)
LEMMA SubmissionsCount ==
    ASSUME TypeInv, NEW j
    PROVE  IsFiniteSet(Submissions(j)) /\ Cardinality(Submissions(j)) \in Nat
  <1>1. Len(tasks) \in Nat /\ DOMAIN tasks = 1..Len(tasks)
    BY DEF TypeInv
  <1>2. IsFiniteSet(1..Len(tasks))
    BY <1>1, FS_Interval
  <1>3. Submissions(j) \in SUBSET (1..Len(tasks))
    BY <1>1 DEF Submissions
  <1> QED BY <1>2, <1>3, FS_Subset, FS_CardinalityType

(* A task that is made is a submission more of its own job, and only when  *)
(* it is CAPE's.                                                           *)
LEMMA MadeCounts ==
    ASSUME TypeInv, NEW j \in Jobs, attempt[j].engine \in External, tasks' = Made(j)
    PROVE  /\ tasks' \in Seq(Task)
           /\ Len(tasks') = Len(tasks) + 1 /\ DOMAIN tasks' = 1..(Len(tasks) + 1)
           /\ tasks'[Len(tasks')] = [job |-> j, engine |-> attempt[j].engine,
                                     machine |-> FALSE, status |-> "pending"]
           /\ \A t \in DOMAIN tasks : t \in DOMAIN tasks' /\ tasks'[t] = tasks[t]
           /\ \A i \in Jobs \ {j} : Submissions(i)' = Submissions(i)
           /\ attempt[j].engine # "capev2" => Submissions(j)' = Submissions(j)
           /\ Cardinality(Submissions(j))' <= Cardinality(Submissions(j)) + 1
  <1> DEFINE made == [job |-> j, engine |-> attempt[j].engine, machine |-> FALSE,
                      status |-> "pending"]
  <1>1. made \in Task
    BY DEF Task
  <1>2. tasks' = Append(tasks, made) /\ tasks \in Seq(Task)
    BY DEF Made, TypeInv
  <1>3. made.job = j /\ made.engine = attempt[j].engine
    OBVIOUS
  <1>4. /\ tasks' \in Seq(Task)
        /\ Len(tasks') = Len(tasks) + 1 /\ DOMAIN tasks' = 1..(Len(tasks) + 1)
        /\ DOMAIN tasks = 1..Len(tasks) /\ Len(tasks) \in Nat
        /\ tasks'[Len(tasks')] = made
        /\ \A t \in DOMAIN tasks : t \in DOMAIN tasks' /\ tasks'[t] = tasks[t]
    <2> HIDE DEF made
    <2> QED BY <1>1, <1>2
  <1>5. \A i \in Jobs \ {j} : Submissions(i)' = Submissions(i)
    <2> HIDE DEF made
    <2> QED BY <1>3, <1>4 DEF Submissions
  <1>6. attempt[j].engine # "capev2" => Submissions(j)' = Submissions(j)
    <2> HIDE DEF made
    <2> QED BY <1>3, <1>4 DEF Submissions
  <1>7. Cardinality(Submissions(j))' <= Cardinality(Submissions(j)) + 1
    <2> DEFINE more == Submissions(j) \cup {Len(tasks) + 1}
    <2>1. (Submissions(j))' \in SUBSET more
      <3> HIDE DEF made
      <3> QED BY <1>4 DEF Submissions
    <2>2. /\ IsFiniteSet(more)
          /\ Cardinality(more) <= Cardinality(Submissions(j)) + 1
      <3>1. IsFiniteSet(Submissions(j)) /\ Cardinality(Submissions(j)) \in Nat
        BY SubmissionsCount
      <3>2. /\ IsFiniteSet(Submissions(j) \cup {Len(tasks) + 1})
            /\ Cardinality(Submissions(j) \cup {Len(tasks) + 1})
                 = IF Len(tasks) + 1 \in Submissions(j) THEN Cardinality(Submissions(j))
                   ELSE Cardinality(Submissions(j)) + 1
        BY <3>1, FS_AddElement
      <3> QED BY <3>1, <3>2
    <2>3. /\ Cardinality((Submissions(j))') <= Cardinality(more)
          /\ IsFiniteSet((Submissions(j))')
      BY <2>1, <2>2, FS_Subset
    <2>4. Cardinality(Submissions(j)) \in Nat /\ Cardinality(more) \in Nat
          /\ Cardinality((Submissions(j))') \in Nat
      BY <2>2, <2>3, SubmissionsCount, FS_CardinalityType
    <2> QED BY <2>2, <2>3, <2>4
  <1> QED BY <1>4, <1>5, <1>6, <1>7

-----------------------------------------------------------------------------
(* A job keeps its part of the invariant when a step changes nothing that  *)
(* concerns it: at most a fault is counted.                                *)
LEMMA OthersKeep ==
    ASSUME IInv, TypeInv', world' = world, NEW k \in Jobs,
           attempt'[k] = attempt[k], stored'[k] = stored[k], k \in batch' => k \in batch,
           faults'[k] >= faults[k], Submissions(k)' = Submissions(k),
           \A t \in DOMAIN tasks : tasks[t].job = k =>
               t \in DOMAIN tasks' /\ tasks'[t] = tasks[t]
    PROVE  JobInv(k)'
  <1>1. JobInv(k)
    BY DEF IInv
  <1>2. Queued(k)'
    BY <1>1 DEF JobInv, Queued
  <1>3. Follows(k)'
    BY <1>1 DEF JobInv, Follows, Followed
  <1>4. ReportsOwn(k)'
    BY <1>1 DEF JobInv, ReportsOwn, Told
  <1>5. Spent(k) => Spent(k)'
    BY <1>1 DEF JobInv, Follows, Followed, Spent, Flaked
  <1>6. /\ Cardinality(Submissions(k))' = Cardinality(Submissions(k))
        /\ Cardinality(Submissions(k)) \in Nat
    BY SubmissionsCount DEF IInv
  <1>7. faults[k] \in Nat /\ faults'[k] \in Nat
    BY DEF IInv, TypeInv
  <1>8. Paid(k)'
    BY <1>1, <1>5, <1>6, <1>7 DEF JobInv, Paid
  <1> QED BY <1>2, <1>3, <1>4, <1>8 DEF JobInv

(* So a step of one job's attempt that leaves the tasks alone has only     *)
(* that job to answer for.                                                 *)
OfOne(j) == \A k \in Jobs \ {j} : /\ attempt'[k] = attempt[k] /\ stored'[k] = stored[k]
                                  /\ k \in batch' => k \in batch
                                  /\ faults'[k] >= faults[k]

LEMMA OneStep ==
    ASSUME IInv, TypeInv', world' = world, tasks' = tasks, NEW j \in Jobs, OfOne(j),
           JobInv(j)'
    PROVE  IInv'
  <1>1. TaskInv'
    BY DEF IInv, TaskInv
  <1>2. ASSUME NEW k \in Jobs, k # j PROVE JobInv(k)'
    <2>1. Submissions(k)' = Submissions(k)
      BY DEF Submissions
    <2> QED BY <1>2, <2>1, OthersKeep DEF OfOne
  <1> QED BY <1>1, <1>2 DEF IInv

(* The shape of an attempt that reports.                                   *)
LEMMA ReportsShape ==
    ASSUME TypeInv, NEW j \in Jobs, NEW report, Reports(j, report),
           report.kind \in {"unavailable", "refused", "ran"}
    PROVE  /\ attempt' = [i \in Jobs |-> attempt'[i]]
           /\ \A i \in Jobs : Shape(attempt[i])'
           /\ \A i \in Jobs \ {j} : attempt'[i] = attempt[i]
           /\ attempt'[j].pc = "deliver" /\ attempt'[j].report = report
           /\ attempt'[j].engine = attempt[j].engine
  <1> DEFINE new == [pc |-> "deliver", engine |-> attempt[j].engine, task |-> 0,
                     report |-> report]
  <1>1. attempt = [i \in Jobs |-> attempt[i]]
    BY DEF TypeInv
  <1>2. attempt[j] = [pc |-> attempt[j].pc, engine |-> attempt[j].engine,
                      task |-> attempt[j].task, report |-> attempt[j].report]
    BY DEF TypeInv, Shape
  <1>3. /\ attempt' = [i \in Jobs |-> attempt'[i]]
        /\ \A i \in Jobs \ {j} : attempt'[i] = attempt[i]
        /\ attempt'[j] = new
    BY <1>1, <1>2 DEF Reports
  <1>4. /\ new.pc = "deliver" /\ new.report = report /\ new.engine = attempt[j].engine
        /\ new.task = 0
    OBVIOUS
  <1>5. Shape(new)
    BY DEF Shape
  <1> HIDE DEF new
  <1>6. \A i \in Jobs : Shape(attempt'[i])
    BY <1>3, <1>5 DEF TypeInv
  <1> QED BY <1>3, <1>4, <1>6 DEF Shape

-----------------------------------------------------------------------------
LEMMA Kinds ==
    /\ Unavailable.kind = "unavailable" /\ Refused.kind = "refused"
    /\ \A of, noted : /\ Ran(of, noted).kind = "ran" /\ Ran(of, noted).of = of
                      /\ Ran(of, noted).found = noted
  BY DEF Unavailable, Refused, Ran

LEMMA NoAttemptShape == /\ Shape(NoAttempt) /\ NoAttempt.pc = "none"
                        /\ NoAttempt.report = Unavailable
  BY Kinds DEF Shape, NoAttempt

(* An attempt that reports, and makes no task: an answer that the service  *)
(* will keep, a fault, or a job whose tasks were paid for already.         *)
LEMMA ReportStep ==
    ASSUME IInv, NEW j \in Jobs, NEW report, Reports(j, report),
           attempt[j].pc \in {"run", "poll"},
           report.kind \in {"unavailable", "refused", "ran"},
           report.kind = "ran" => /\ report.of = j
                                  /\ attempt[j].engine \in {"cuckoo", "capev2"} =>
                                        Truthful(report.found),
           UNCHANGED <<world, stored, batch, tasks>>,
           UNCHANGED faults \/ Faulted({j}),
           \/ Faulted({j}) \/ report.kind # "unavailable" \/ ~Spent(j)
           \/ world.sample[j].fits = "malformed"
    PROVE  IInv'
  <1>1. TypeInv /\ JobInv(j)
    BY DEF IInv
  <1>2. /\ faults' \in [Jobs -> Nat]
        /\ \A i \in Jobs : faults'[i] >= faults[i]
        /\ Faulted({j}) => faults'[j] = faults[j] + 1
    <2>1. CASE UNCHANGED faults /\ ~Faulted({j})
      BY <1>1, <2>1 DEF TypeInv
    <2>2. CASE Faulted({j})
      BY <1>1, <2>2, FaultsCount
    <2> QED BY <2>1, <2>2
  <1>3. TypeInv'
    BY <1>1, <1>2, ReportsShape DEF TypeInv
  <1>4. OfOne(j)
    BY <1>1, <1>2, ReportsShape DEF OfOne
  <1>5. /\ attempt'[j].pc = "deliver" /\ attempt'[j].report = report
        /\ attempt'[j].engine = attempt[j].engine
    BY <1>1, ReportsShape
  <1>6. Queued(j)'
    BY <1>1 DEF JobInv, Queued
  <1>7. Follows(j)'
    BY <1>5 DEF Follows
  <1>8. ReportsOwn(j)'
    BY <1>1, <1>5 DEF JobInv, ReportsOwn, Told
  <1>9. Paid(j)'
    <2>1. /\ Submissions(j)' = Submissions(j) /\ Cardinality(Submissions(j)) \in Nat
          /\ faults[j] \in Nat /\ faults'[j] \in Nat /\ faults'[j] >= faults[j]
      BY <1>1, <1>2, SubmissionsCount DEF Submissions, TypeInv
    <2>2. CASE Faulted({j})
      BY <1>1, <1>2, <2>1, <2>2 DEF JobInv, Paid
    <2>3. CASE report.kind # "unavailable"
      BY <1>1, <1>5, <2>1, <2>3 DEF JobInv, Paid, Spent
    <2>4. CASE ~Spent(j)
      BY <1>1, <2>1, <2>4 DEF JobInv, Paid
    <2>5. CASE world.sample[j].fits = "malformed"
      BY <2>5 DEF Paid
    <2> QED BY <2>2, <2>3, <2>4, <2>5
  <1> QED BY <1>3, <1>4, <1>6, <1>7, <1>8, <1>9, OneStep DEF JobInv

(* An attempt that has not yet made a task, or follows another engine's,   *)
(* owes nothing.                                                           *)
LEMMA NotSpent ==
    ASSUME NEW j \in Jobs, JobInv(j),
           attempt[j].pc = "run" \/ (attempt[j].pc = "poll" /\ attempt[j].engine # "capev2")
    PROVE  ~Spent(j)
  BY DEF JobInv, Queued, Spent

LEMMA RunsKeep ==
    ASSUME IInv, NEW j \in Jobs, RunNative(j) \/ RunQiling(j)
    PROVE  IInv'
  <1> USE Kinds
  <1>1. attempt[j].pc = "run" /\ ~Spent(j)
    BY NotSpent DEF IInv, RunNative, RunQiling
  <1>2. /\ UNCHANGED <<world, stored, batch, tasks, faults>>
        /\ attempt[j].engine \in {"native", "qiling"}
    BY DEF RunNative, RunQiling
  <1>3. PICK report :
            /\ Reports(j, report)
            /\ report.kind \in {"unavailable", "ran"}
            /\ report.kind = "ran" => report.of = j
    <2>1. CASE RunNative(j)
      <3>1. PICK observed \in Trace : Reports(j, NativeReport(j, observed))
        BY <2>1 DEF RunNative
      <3>2. \/ NativeReport(j, observed) = Unavailable
            \/ \E noted : NativeReport(j, observed) = Ran(j, noted)
        BY DEF NativeReport
      <3> QED BY <3>1, <3>2
    <2>2. CASE RunQiling(j)
      <3>1. \/ Reports(j, Unavailable)
            \/ \E events : Reports(j, QilingReport(j, events))
        BY <2>2 DEF RunQiling
      <3>2. \A events : \E noted : QilingReport(j, events) = Ran(j, noted)
        BY DEF QilingReport
      <3> QED BY <3>1, <3>2
    <2> QED BY <2>1, <2>2
  <1> QED BY <1>1, <1>2, <1>3, ReportStep

LEMMA PollFailedKeeps ==
    ASSUME IInv, NEW j \in Jobs, PollFailed(j)
    PROVE  IInv'
  <1> USE Kinds
  <1>1. JobInv(j) /\ TypeInv /\ TaskInv
    BY DEF IInv
  <1>2. attempt[j].pc = "poll" /\ UNCHANGED <<world, stored, batch, tasks>>
        /\ Followed(j).status \in Failed(attempt[j].engine)
    BY DEF PollFailed
  <1>3. CASE attempt[j].engine # "capev2"
    <2>1. Reports(j, Unavailable) /\ UNCHANGED faults
      BY <1>3 DEF PollFailed
    <2> QED BY <1>1, <1>2, <1>3, <2>1, NotSpent, ReportStep
  <1>4. CASE attempt[j].engine = "capev2"
    <2>1. CASE /\ Reports(j, IF Unserviceable(Followed(j), TRUE) THEN Refused ELSE Unavailable)
               /\ UNCHANGED faults
      <3>1. CASE Unserviceable(Followed(j), TRUE)
        BY <1>2, <2>1, <3>1, ReportStep
      <3>2. CASE ~Unserviceable(Followed(j), TRUE)
        <4>1. Followed(j).status \in CapeFailed
          BY <1>2, <1>4 DEF Failed
        <4>2. Flaked(attempt[j].task)
          BY <3>2, <4>1 DEF Flaked, Followed, Unserviceable, CapeFailed
        <4>3. ~Spent(j)
          BY <1>1, <1>2, <4>2 DEF JobInv, Queued, Spent
        <4> QED BY <1>2, <2>1, <3>2, <4>3, ReportStep
      <3> QED BY <3>1, <3>2
    <2>2. CASE /\ Faulted({j})
               /\ Reports(j, IF Unserviceable(Followed(j), FALSE) THEN Refused
                             ELSE Unavailable)
      <3>1. PICK report : /\ Reports(j, report)
                          /\ report.kind \in {"refused", "unavailable"}
        BY <2>2
      <3> QED BY <1>2, <2>2, <3>1, ReportStep
    <2> QED BY <1>4, <2>1, <2>2 DEF PollFailed
  <1> QED BY <1>3, <1>4

LEMMA PollReportedKeeps ==
    ASSUME IInv, NEW j \in Jobs, PollReported(j)
    PROVE  IInv'
  <1> USE Kinds
  <1>1. attempt[j].pc = "poll" /\ UNCHANGED <<world, stored, batch, tasks>>
    BY DEF PollReported
  <1>2. Followed(j).job = j
    BY <1>1 DEF IInv, JobInv, Follows
  <1>3. CASE UNCHANGED faults /\ \E document \in Document :
                 Reports(j, Ran(Followed(j).job,
                                IF attempt[j].engine = "joe" THEN NormaliseJoe(document)
                                ELSE NormaliseCuckoo(document)))
    <2>1. PICK document \in Document :
                 Reports(j, Ran(j, IF attempt[j].engine = "joe" THEN NormaliseJoe(document)
                                   ELSE NormaliseCuckoo(document)))
      BY <1>2, <1>3
    <2>2. PICK noted : /\ Reports(j, Ran(j, noted))
                       /\ attempt[j].engine \in {"cuckoo", "capev2"} => Truthful(noted)
      BY <2>1, NormalisedIsAccounted, NormalisedIsDescended DEF Truthful
    <2>3. PICK report : /\ Reports(j, report) /\ report = Ran(j, noted)
      BY <2>2
    <2>4. report.kind = "ran" /\ report.of = j /\ report.found = noted
      BY <2>3
    <2> QED BY <1>1, <1>3, <2>2, <2>3, <2>4, ReportStep
  <1>4. CASE /\ world.sample[j].fits = "malformed" /\ Reports(j, Unavailable)
             /\ UNCHANGED faults
    BY <1>1, <1>4, ReportStep
  <1>5. CASE Faulted({j}) /\ Reports(j, Unavailable)
    BY <1>1, <1>5, ReportStep
  <1>6. Documents \subseteq Document /\ Typical \in Document
    BY DocumentsAssumption
  <1> QED BY <1>3, <1>4, <1>5, <1>6 DEF PollReported

LEMMA DeadlineKeeps ==
    ASSUME IInv, NEW j \in Jobs, Deadline(j)
    PROVE  IInv'
  <1>1. /\ attempt[j].pc = "poll" /\ UNCHANGED <<world, stored, batch, tasks>>
        /\ Reports(j, Unavailable) /\ JobInv(j)
    BY DEF Deadline, IInv
  <1>2. CASE Faulted({j})
    BY <1>1, <1>2, ReportStep, Kinds
  <1>3. CASE ~Faulted({j})
    <2>1. /\ Followed(j).status \in Terminal \cup {"failed_analysis"} /\ UNCHANGED faults
          /\ Followed(j).status \notin Failed(attempt[j].engine)
      BY <1>3 DEF Deadline
    <2>2. attempt[j].engine # "capev2"
      BY <2>1 DEF Failed, CapeFailed
    <2> QED BY <1>1, <2>1, <2>2, NotSpent, ReportStep, Kinds
  <1> QED BY <1>2, <1>3

-----------------------------------------------------------------------------
LEMMA RunOnceKeeps == ASSUME IInv, RunOnce PROVE IInv'
  <1>1. /\ UNCHANGED <<world, stored, attempt, tasks, faults>> /\ Active = {}
        /\ batch' = {j \in Jobs : stored[j] = Waiting}
    BY DEF RunOnce
  <1>2. TypeInv' /\ TaskInv'
    BY <1>1 DEF IInv, TypeInv, TaskInv
  <1>3. ASSUME NEW j \in Jobs PROVE JobInv(j)'
    <2>1. JobInv(j) /\ attempt[j].pc = "none"
      BY <1>1 DEF IInv, Active
    <2>2. Queued(j)'
      BY <1>1, <2>1 DEF Queued
    <2>3. Submissions(j)' = Submissions(j)
      BY <1>1 DEF Submissions
    <2>4. (Follows(j) /\ ReportsOwn(j) /\ Paid(j))'
      BY <1>1, <2>1, <2>3 DEF JobInv, Follows, Followed, ReportsOwn, Told, Paid, Spent, Flaked
    <2> QED BY <2>2, <2>4 DEF JobInv
  <1> QED BY <1>2, <1>3 DEF IInv

LEMMA ProcessJobKeeps == ASSUME IInv, NEW j \in Jobs, ProcessJob(j) PROVE IInv'
  <1>1. /\ UNCHANGED <<world, stored, tasks, faults>> /\ j \in batch /\ batch' = batch \ {j}
        /\ TypeInv /\ JobInv(j) /\ stored[j] = Waiting /\ attempt[j].pc = "none"
    BY DEF ProcessJob, IInv, JobInv, Queued
  <1>2. PICK taken : /\ attempt' = [attempt EXCEPT ![j] = taken]
                     /\ Shape(taken) /\ taken.pc \in {"run", "deliver"}
                     /\ taken.report.kind # "ran"
    <2>1. \A engine :
              LET taken == IF engine = "none"
                           THEN [NoAttempt EXCEPT !.pc = "deliver", !.report = Refused]
                           ELSE [NoAttempt EXCEPT !.pc = "run", !.engine = engine]
              IN /\ Shape(taken) /\ taken.pc \in {"run", "deliver"}
                 /\ taken.report.kind # "ran"
      BY DEF Shape, NoAttempt, Unavailable, Refused
    <2> QED BY <2>1 DEF ProcessJob
  <1>3. /\ attempt' = [i \in Jobs |-> attempt'[i]] /\ attempt'[j] = taken
        /\ \A i \in Jobs \ {j} : attempt'[i] = attempt[i]
    BY <1>1, <1>2 DEF TypeInv
  <1>4. TypeInv'
    <2>1. \A i \in Jobs : Shape(attempt[i])'
      BY <1>1, <1>2, <1>3 DEF TypeInv, Shape
    <2> QED BY <1>1, <1>3, <2>1 DEF TypeInv
  <1>5. OfOne(j)
    BY <1>1, <1>3 DEF OfOne, TypeInv
  <1>6. Queued(j)' /\ Follows(j)' /\ ReportsOwn(j)'
    BY <1>1, <1>2, <1>3 DEF JobInv, Queued, Follows, ReportsOwn, Told
  <1>7. Paid(j)'
    <2>1. ~Spent(j) /\ Submissions(j)' = Submissions(j)
      BY <1>1 DEF Spent, Submissions
    <2> QED BY <1>1, <2>1 DEF JobInv, Paid
  <1> QED BY <1>1, <1>4, <1>5, <1>6, <1>7, OneStep DEF JobInv

(* An attempt that ends, with a word to the service or without one.        *)
LEMMA EndsKeep ==
    ASSUME IInv, NEW j \in Jobs, DownloadFails(j) \/ Deliver(j)
    PROVE  IInv'
  <1>1. /\ UNCHANGED <<world, batch, tasks>> /\ attempt' = [attempt EXCEPT ![j] = NoAttempt]
        /\ attempt[j].pc # "none" /\ TypeInv /\ JobInv(j) /\ stored[j] = Waiting
    BY DEF DownloadFails, Deliver, IInv, JobInv, Queued
  <1>2. /\ attempt' = [i \in Jobs |-> attempt'[i]] /\ attempt'[j] = NoAttempt
        /\ \A i \in Jobs \ {j} : attempt'[i] = attempt[i]
        /\ \A i \in Jobs : Shape(attempt[i])'
    <2>1. /\ attempt' = [i \in Jobs |-> attempt'[i]] /\ attempt'[j] = NoAttempt
          /\ \A i \in Jobs \ {j} : attempt'[i] = attempt[i]
      BY <1>1 DEF TypeInv
    <2>2. \A i \in Jobs : Shape(attempt'[i])
      BY <1>1, <2>1, NoAttemptShape DEF TypeInv
    <2> QED BY <2>1, <2>2 DEF Shape
  <1>3. /\ Submissions(j)' = Submissions(j) /\ Cardinality(Submissions(j)) \in Nat
        /\ faults[j] \in Nat
    BY <1>1, SubmissionsCount DEF Submissions, TypeInv
  <1>4. CASE Faulted({j}) /\ UNCHANGED stored
    <2>1. TypeInv' /\ OfOne(j)
      BY <1>1, <1>2, <1>4, FaultsCount DEF TypeInv, OfOne
    <2>2. Queued(j)' /\ Follows(j)' /\ ReportsOwn(j)'
      BY <1>1, <1>2, <1>4, NoAttemptShape, Kinds
         DEF JobInv, Queued, Follows, ReportsOwn, Told
    <2>3. Paid(j)'
      BY <1>1, <1>3, <1>4, FaultsCount DEF JobInv, Paid
    <2> QED BY <1>1, <2>1, <2>2, <2>3, OneStep DEF JobInv
  <1>5. CASE /\ attempt[j].pc = "deliver" /\ UNCHANGED faults
             /\ stored' = [stored EXCEPT ![j] =
                   IF attempt[j].report.kind = "unavailable" THEN @
                   ELSE [kind |-> attempt[j].report.kind, of |-> attempt[j].report.of]]
    <2>1. /\ stored' = [i \in Jobs |-> stored'[i]]
          /\ \A i \in Jobs \ {j} : stored'[i] = stored[i]
          /\ stored'[j] = IF attempt[j].report.kind = "unavailable" THEN stored[j]
                          ELSE [kind |-> attempt[j].report.kind, of |-> attempt[j].report.of]
      BY <1>1, <1>5 DEF TypeInv
    <2>2. TypeInv'
      BY <1>1, <1>2, <1>5, <2>1 DEF TypeInv
    <2>3. OfOne(j)
      BY <1>1, <1>2, <1>5, <2>1 DEF OfOne, TypeInv
    <2>4. Follows(j)' /\ ReportsOwn(j)' /\ Queued(j)'
      BY <1>1, <1>2, <2>1, NoAttemptShape, Kinds
         DEF JobInv, Queued, Follows, ReportsOwn, Told
    <2>5. Paid(j)'
      <3>1. CASE attempt[j].report.kind = "unavailable"
        <4>1. ~Spent(j)
          BY <1>1, <1>5, <3>1 DEF Spent
        <4> QED BY <1>1, <1>3, <1>5, <4>1 DEF JobInv, Paid
      <3>2. CASE attempt[j].report.kind # "unavailable"
        <4>1. stored'[j].kind = attempt[j].report.kind
              /\ attempt[j].report.kind \in {"refused", "ran"}
          BY <1>1, <2>1, <3>2 DEF TypeInv, Shape
        <4>2. Spent(j)'
          BY <4>1 DEF Spent, Waiting
        <4> QED BY <1>1, <1>3, <1>5, <4>2 DEF JobInv, Paid
      <3> QED BY <3>1, <3>2
    <2> QED BY <1>1, <2>2, <2>3, <2>4, <2>5, OneStep DEF JobInv
  <1> QED BY <1>4, <1>5 DEF DownloadFails, Deliver

LEMMA CrashKeeps == ASSUME IInv, Crash PROVE IInv'
  <1>1. /\ UNCHANGED <<world, stored, tasks>> /\ batch' = {} /\ Faulted(Active)
        /\ attempt' = [j \in Jobs |-> NoAttempt] /\ TypeInv
    BY DEF Crash, IInv
  <1>2. /\ faults' \in [Jobs -> Nat] /\ \A i \in Jobs : faults'[i] >= faults[i]
        /\ \A i \in Jobs : i \in Active => faults'[i] = faults[i] + 1
    BY <1>1, FaultsCount
  <1>3. TypeInv'
    <2>1. \A j \in Jobs : Shape(attempt'[j])
      BY <1>1, NoAttemptShape
    <2> QED BY <1>1, <1>2, <2>1 DEF TypeInv, Shape
  <1>4. TaskInv'
    BY <1>1 DEF IInv, TaskInv
  <1>5. ASSUME NEW j \in Jobs PROVE JobInv(j)'
    <2>1. JobInv(j) /\ attempt'[j] = NoAttempt
      BY <1>1 DEF IInv
    <2>2. (Queued(j) /\ Follows(j) /\ ReportsOwn(j))'
      BY <1>1, <2>1, NoAttemptShape, Kinds DEF JobInv, Queued, Follows, ReportsOwn, Told
    <2>3. /\ Submissions(j)' = Submissions(j) /\ Cardinality(Submissions(j)) \in Nat
          /\ faults[j] \in Nat /\ faults'[j] \in Nat /\ faults'[j] >= faults[j]
      BY <1>1, <1>2, SubmissionsCount DEF Submissions, TypeInv
    <2>4. CASE j \in Active
      BY <1>1, <1>2, <2>1, <2>2, <2>3, <2>4 DEF JobInv, Paid
    <2>5. CASE j \notin Active
      <3>1. Spent(j) => Spent(j)'
        BY <1>1, <2>5 DEF Spent, Active
      <3> QED BY <1>1, <2>1, <2>2, <2>3, <3>1 DEF JobInv, Paid
    <2> QED BY <2>4, <2>5
  <1> QED BY <1>3, <1>4, <1>5 DEF IInv

-----------------------------------------------------------------------------
(* A task that is made for a job and followed, or made and lost.           *)
LEMMA MadeKeeps ==
    ASSUME IInv, NEW j \in Jobs, attempt[j].pc = "run", attempt[j].engine \in External,
           tasks' = Made(j), UNCHANGED <<world, stored, batch>>,
           \/ /\ attempt' = [attempt EXCEPT ![j].pc = "poll", ![j].task = Len(tasks')]
              /\ UNCHANGED faults
           \/ Faulted({j}) /\ Reports(j, Unavailable)
    PROVE  IInv'
  <1>1. TypeInv /\ TaskInv /\ JobInv(j) /\ ~Spent(j)
    BY NotSpent DEF IInv
  <1> DEFINE followed == attempt' = [attempt EXCEPT ![j].pc = "poll", ![j].task = Len(tasks')]
                         /\ UNCHANGED faults
             lost == Faulted({j}) /\ Reports(j, Unavailable)
             made == tasks'[Len(tasks')]
  <1>2. /\ tasks' \in Seq(Task)
        /\ Len(tasks') = Len(tasks) + 1 /\ DOMAIN tasks' = 1..(Len(tasks) + 1)
        /\ \A t \in DOMAIN tasks : t \in DOMAIN tasks' /\ tasks'[t] = tasks[t]
        /\ \A i \in Jobs \ {j} : Submissions(i)' = Submissions(i)
        /\ attempt[j].engine # "capev2" => Submissions(j)' = Submissions(j)
        /\ Cardinality(Submissions(j))' <= Cardinality(Submissions(j)) + 1
    BY <1>1, MadeCounts
  <1>3. /\ made.job = j /\ made.engine = attempt[j].engine /\ ~made.machine
        /\ made.status = "pending"
    <2>1. made = [job |-> j, engine |-> attempt[j].engine, machine |-> FALSE,
                  status |-> "pending"]
      BY <1>1, MadeCounts
    <2> HIDE DEF made
    <2> QED BY <2>1
  <1> HIDE DEF made
  <1>4. Len(tasks) \in Nat /\ DOMAIN tasks = 1..Len(tasks) /\ Len(tasks') \in DOMAIN tasks'
    BY <1>1, <1>2 DEF TypeInv
  <1>5. followed => /\ attempt' = [i \in Jobs |-> attempt'[i]]
                    /\ \A i \in Jobs \ {j} : attempt'[i] = attempt[i]
                    /\ attempt'[j].pc = "poll" /\ attempt'[j].task = Len(tasks')
                    /\ attempt'[j].engine = attempt[j].engine
                    /\ attempt'[j].report = attempt[j].report
                    /\ \A i \in Jobs : Shape(attempt[i])'
    <2> SUFFICES ASSUME followed
                 PROVE  /\ attempt' = [i \in Jobs |-> attempt'[i]]
                        /\ \A i \in Jobs \ {j} : attempt'[i] = attempt[i]
                        /\ attempt'[j].pc = "poll" /\ attempt'[j].task = Len(tasks')
                        /\ attempt'[j].engine = attempt[j].engine
                        /\ attempt'[j].report = attempt[j].report
                        /\ \A i \in Jobs : Shape(attempt[i])'
      OBVIOUS
    <2> DEFINE new == [pc |-> "poll", engine |-> attempt[j].engine, task |-> Len(tasks'),
                       report |-> attempt[j].report]
    <2>1. attempt = [i \in Jobs |-> attempt[i]] /\ Shape(attempt[j])
      BY <1>1 DEF TypeInv
    <2>2. /\ attempt' = [i \in Jobs |-> attempt'[i]]
          /\ \A i \in Jobs \ {j} : attempt'[i] = attempt[i]
          /\ attempt'[j] = new
      BY <2>1 DEF Shape
    <2>3. /\ new.pc = "poll" /\ new.task = Len(tasks') /\ new.engine = attempt[j].engine
          /\ new.report = attempt[j].report
      OBVIOUS
    <2>4. Shape(new)
      BY <2>1 DEF Shape
    <2> HIDE DEF new
    <2>5. \A i \in Jobs : Shape(attempt'[i])
      BY <1>1, <2>2, <2>4 DEF TypeInv
    <2> QED BY <2>2, <2>3, <2>5 DEF Shape
  <1>6. lost => /\ attempt' = [i \in Jobs |-> attempt'[i]]
                /\ \A i \in Jobs \ {j} : attempt'[i] = attempt[i]
                /\ attempt'[j].pc = "deliver" /\ attempt'[j].report = Unavailable
                /\ \A i \in Jobs : Shape(attempt[i])'
    BY <1>1, Kinds, ReportsShape
  <1>7. /\ faults' \in [Jobs -> Nat] /\ \A i \in Jobs : faults'[i] >= faults[i]
        /\ lost => faults'[j] = faults[j] + 1
    <2>1. CASE lost
      BY <1>1, <2>1, FaultsCount
    <2>2. CASE ~lost
      BY <1>1, <2>2 DEF TypeInv
    <2> QED BY <2>1, <2>2
  <1>8. followed \/ lost
    OBVIOUS
  <1> HIDE DEF followed, lost
  <1>9. TypeInv'
    BY <1>1, <1>2, <1>5, <1>6, <1>7, <1>8 DEF TypeInv
  <1>10. TaskInv'
    <2> SUFFICES ASSUME NEW t \in DOMAIN tasks'
                 PROVE  /\ tasks'[t].status = "pending" => ~tasks'[t].machine
                        /\ tasks'[t].status = "running" => tasks'[t].machine
                        /\ world.sample[tasks'[t].job].fits = "misfit" =>
                              ~tasks'[t].machine /\ tasks'[t].status # "running"
      BY DEF TaskInv
    <2>1. CASE t \in DOMAIN tasks
      BY <1>1, <1>2, <2>1 DEF TaskInv
    <2>2. CASE t \notin DOMAIN tasks
      <3>1. tasks'[t] = made
        BY <1>2, <1>4, <2>2 DEF made
      <3> QED BY <1>3, <3>1
    <2> QED BY <2>1, <2>2
  <1>11. ASSUME NEW k \in Jobs, k # j PROVE JobInv(k)'
    <2>1. /\ attempt'[k] = attempt[k] /\ Submissions(k)' = Submissions(k)
          /\ faults'[k] >= faults[k]
      BY <1>2, <1>5, <1>6, <1>7, <1>8, <1>11
    <2> QED BY <1>2, <1>9, <2>1, OthersKeep
  <1>12. JobInv(j)'
    <2>1. Queued(j)' /\ ReportsOwn(j)'
      BY <1>1, <1>5, <1>6, <1>8, Kinds DEF JobInv, Queued, ReportsOwn, Told
    <2>2. Follows(j)'
      BY <1>3, <1>4, <1>5, <1>6, <1>8 DEF Follows, Followed, made
    <2>3. /\ Cardinality(Submissions(j)) \in Nat /\ Cardinality(Submissions(j))' \in Nat
          /\ faults[j] \in Nat /\ faults'[j] \in Nat /\ faults'[j] >= faults[j]
      <3>1. (Cardinality(Submissions(j)) \in Nat)'
        BY <1>9, SubmissionsCount, PTL
      <3> QED BY <1>1, <1>7, <3>1, SubmissionsCount DEF TypeInv
    <2>4. \/ world.sample[j].fits = "malformed"
          \/ Cardinality(Submissions(j)) <= faults[j]
      BY <1>1 DEF JobInv, Paid
    <2>5. Paid(j)'
      <3>1. CASE lost
        BY <1>2, <1>7, <2>3, <2>4, <3>1 DEF Paid
      <3>2. CASE followed /\ attempt[j].engine = "capev2"
        <4>1. Spent(j)'
          BY <1>3, <1>5, <3>2 DEF Spent, Flaked, made
        <4> QED BY <1>2, <2>3, <2>4, <4>1 DEF Paid
      <3>3. CASE followed /\ attempt[j].engine # "capev2"
        <4>1. Cardinality(Submissions(j))' = Cardinality(Submissions(j))
          BY <1>2, <3>3
        <4> QED BY <2>3, <2>4, <4>1 DEF Paid
      <3> QED BY <1>8, <3>1, <3>2, <3>3
    <2> QED BY <2>1, <2>2, <2>5 DEF JobInv
  <1> QED BY <1>9, <1>10, <1>11, <1>12 DEF IInv

LEMMA SubmitKeeps == ASSUME IInv, NEW j \in Jobs, Submit(j) PROVE IInv'
  <1>1. /\ attempt[j].pc = "run" /\ attempt[j].engine \in External
        /\ UNCHANGED <<world, stored, batch>> /\ ~Spent(j)
    BY NotSpent DEF Submit, IInv
  <1>2. CASE Reports(j, Declined(attempt[j].engine)) /\ UNCHANGED <<tasks, faults>>
    <2>1. PICK report : /\ Reports(j, report)
                        /\ report.kind \in {"refused", "unavailable"}
      BY <1>2, Kinds DEF Declined
    <2> QED BY <1>1, <1>2, <2>1, ReportStep
  <1>3. CASE /\ tasks' = Made(j) /\ UNCHANGED faults
             /\ attempt' = [attempt EXCEPT ![j].pc = "poll", ![j].task = Len(tasks')]
    BY <1>1, <1>3, MadeKeeps
  <1>4. CASE /\ tasks' \in {tasks} \cup {t \in {Made(j)} : world.sample[j].fits # "declined"}
             /\ Faulted({j}) /\ Reports(j, Unavailable)
    <2>1. CASE tasks' = tasks
      BY <1>1, <1>4, <2>1, ReportStep, Kinds
    <2>2. CASE tasks' = Made(j)
      BY <1>1, <1>4, <2>2, MadeKeeps
    <2> QED BY <1>4, <2>1, <2>2
  <1> QED BY <1>2, <1>3, <1>4 DEF Submit

-----------------------------------------------------------------------------
(* The sandbox goes on with a task: job and engine stay, and the guest of  *)
(* none breaks down.                                                       *)
LEMMA ProgressKeeps ==
    ASSUME IInv, NEW t \in DOMAIN tasks, Progress(t)
    PROVE  IInv'
  <1>1. /\ UNCHANGED <<world, stored, batch, attempt, faults>> /\ TypeInv /\ TaskInv
        /\ tasks \in Seq(Task) /\ tasks[t] \in Task
    BY DEF Progress, IInv, TypeInv
  <1> DEFINE misfit == world.sample[tasks[t].job].fits = "misfit"
  <1>2. PICK new \in Task :
            /\ tasks' = [tasks EXCEPT ![t] = new]
            /\ new.job = tasks[t].job /\ new.engine = tasks[t].engine
            /\ new.status # "pending"
            /\ new.status = "running" => new.machine /\ ~misfit
            /\ misfit => ~new.machine
            /\ tasks[t].status # "failed_analysis"
            /\ new.status = "failed_analysis" => misfit
    <2>1. CASE /\ tasks[t].status = "pending" /\ ~misfit
               /\ tasks' = [tasks EXCEPT ![t].status = "running", ![t].machine = TRUE]
      <3>1. PICK new : new = [tasks[t] EXCEPT !.status = "running", !.machine = TRUE]
        OBVIOUS
      <3>2. /\ new \in Task /\ new.job = tasks[t].job /\ new.engine = tasks[t].engine
            /\ new.status = "running" /\ new.machine
        BY <1>1, <3>1 DEF Task
      <3>3. tasks' = [tasks EXCEPT ![t] = new]
        BY <2>1, <3>1
      <3> QED BY <2>1, <3>2, <3>3
    <2>2. CASE /\ tasks[t].status = IF misfit THEN "pending" ELSE "running"
               /\ \E status \in Outcome(tasks[t]) :
                     tasks' = [tasks EXCEPT ![t].status = status]
      <3>1. PICK status \in Outcome(tasks[t]) : tasks' = [tasks EXCEPT ![t].status = status]
        BY <2>2
      <3>2. /\ status \in {"failed_analysis", "banned", "failed_processing",
                           "failed_reporting", "reported"}
            /\ status = "failed_analysis" => misfit
        BY DEF Outcome
      <3>3. PICK new : new = [tasks[t] EXCEPT !.status = status]
        OBVIOUS
      <3>4. /\ new \in Task /\ new.job = tasks[t].job /\ new.engine = tasks[t].engine
            /\ new.status = status /\ new.machine = tasks[t].machine
        BY <1>1, <3>2, <3>3 DEF Task
      <3>5. tasks' = [tasks EXCEPT ![t] = new]
        BY <3>1, <3>3
      <3>6. misfit => ~tasks[t].machine
        BY <1>1 DEF TaskInv
      <3> QED BY <2>2, <3>2, <3>4, <3>5, <3>6
    <2> QED BY <2>1, <2>2 DEF Progress
  <1>3. /\ tasks' \in Seq(Task) /\ DOMAIN tasks' = DOMAIN tasks /\ tasks'[t] = new
        /\ \A u \in DOMAIN tasks \ {t} : tasks'[u] = tasks[u]
    BY <1>1, <1>2
  <1>4. TypeInv'
    BY <1>1, <1>3 DEF TypeInv
  <1>5. TaskInv'
    BY <1>1, <1>2, <1>3 DEF TaskInv
  <1>6. ASSUME NEW k \in Jobs PROVE JobInv(k)'
    <2>1. JobInv(k)
      BY DEF IInv
    <2>2. Submissions(k)' = Submissions(k)
      BY <1>2, <1>3 DEF Submissions
    <2>3. Follows(k)'
      BY <1>1, <1>2, <1>3, <2>1 DEF JobInv, Follows, Followed
    <2>4. Queued(k)' /\ ReportsOwn(k)'
      BY <1>1, <2>1 DEF JobInv, Queued, ReportsOwn, Told
    <2>5. Spent(k) => Spent(k)'
      <3>1. \A u \in DOMAIN tasks : Flaked(u)' => Flaked(u)
        BY <1>2, <1>3 DEF Flaked
      <3> QED BY <1>1, <2>1, <3>1 DEF Spent, JobInv, Follows
    <2>6. Paid(k)'
      BY <1>1, <2>1, <2>2, <2>5 DEF JobInv, Paid
    <2> QED BY <2>3, <2>4, <2>6 DEF JobInv
  <1> QED BY <1>4, <1>5, <1>6 DEF IInv

LEMMA FlakeKeeps ==
    ASSUME IInv, NEW t \in DOMAIN tasks, Flake(t)
    PROVE  IInv'
  <1>1. /\ UNCHANGED <<world, stored, batch, attempt>> /\ TypeInv /\ TaskInv
        /\ tasks \in Seq(Task) /\ tasks[t] \in Task /\ tasks[t].status = "running"
        /\ Faulted({tasks[t].job}) /\ tasks[t].job \in Jobs
    <2>1. tasks \in Seq(Task) /\ tasks[t] \in Task
      BY DEF IInv, TypeInv
    <2>2. tasks[t].job \in Jobs
      BY <2>1 DEF Task
    <2> QED BY <2>1, <2>2 DEF Flake, IInv
  <1>2. PICK new : /\ tasks' = [tasks EXCEPT ![t] = new] /\ new \in Task
                   /\ new.job = tasks[t].job /\ new.engine = tasks[t].engine
                   /\ new.status = "failed_analysis" /\ new.machine = tasks[t].machine
    <2>1. PICK new : new = [tasks[t] EXCEPT !.status = "failed_analysis"]
      OBVIOUS
    <2>2. /\ new \in Task /\ new.job = tasks[t].job /\ new.engine = tasks[t].engine
          /\ new.status = "failed_analysis" /\ new.machine = tasks[t].machine
      BY <1>1, <2>1 DEF Task
    <2>3. tasks' = [tasks EXCEPT ![t] = new]
      BY <2>1 DEF Flake
    <2> QED BY <2>2, <2>3
  <1>3. /\ tasks' \in Seq(Task) /\ DOMAIN tasks' = DOMAIN tasks /\ tasks'[t] = new
        /\ \A u \in DOMAIN tasks \ {t} : tasks'[u] = tasks[u]
    BY <1>1, <1>2
  <1>4. /\ faults' \in [Jobs -> Nat] /\ \A i \in Jobs : faults'[i] >= faults[i]
        /\ faults'[tasks[t].job] = faults[tasks[t].job] + 1
    BY <1>1, FaultsCount
  <1>5. TypeInv'
    BY <1>1, <1>3, <1>4 DEF TypeInv
  <1>6. TaskInv'
    BY <1>1, <1>2, <1>3 DEF TaskInv
  <1>7. \A k \in Jobs : Submissions(k)' = Submissions(k)
    BY <1>2, <1>3 DEF Submissions
  <1>8. ASSUME NEW k \in Jobs PROVE JobInv(k)'
    <2>1. CASE k # tasks[t].job
      BY <1>1, <1>3, <1>4, <1>5, <1>7, <2>1, OthersKeep
    <2>2. CASE k = tasks[t].job
      <3>1. JobInv(k)
        BY DEF IInv
      <3>2. (Queued(k) /\ Follows(k) /\ ReportsOwn(k))'
        BY <1>1, <1>2, <1>3, <3>1 DEF JobInv, Queued, Follows, Followed, ReportsOwn, Told
      <3>3. /\ Cardinality(Submissions(k)) \in Nat
            /\ faults[k] \in Nat /\ faults'[k] = faults[k] + 1
        BY <1>1, <1>4, <2>2, SubmissionsCount DEF TypeInv
      <3>4. Paid(k)'
        BY <1>1, <1>7, <3>1, <3>3 DEF JobInv, Paid
      <3> QED BY <3>2, <3>4 DEF JobInv
    <2> QED BY <2>1, <2>2
  <1> QED BY <1>5, <1>6, <1>8 DEF IInv

-----------------------------------------------------------------------------
LEMMA Initially == Init => IInv
  <1> SUFFICES ASSUME Init PROVE IInv
    OBVIOUS
  <1>1. TypeInv
    BY NoAttemptShape DEF Init, TypeInv
  <1>2. TaskInv
    BY DEF Init, TaskInv
  <1>3. ASSUME NEW j \in Jobs PROVE JobInv(j)
    <2>1. attempt[j] = NoAttempt /\ stored[j] = Waiting /\ batch = {} /\ faults[j] = 0
      BY DEF Init
    <2>2. Queued(j) /\ Follows(j) /\ ReportsOwn(j)
      BY <2>1, NoAttemptShape, Kinds DEF Queued, Follows, ReportsOwn, Told, Waiting
    <2>3. Submissions(j) = {}
      BY DEF Submissions, Init
    <2>4. Paid(j)
      BY <2>1, <2>3, FS_EmptySet DEF Paid
    <2> QED BY <2>2, <2>4 DEF JobInv
  <1> QED BY <1>1, <1>2, <1>3 DEF IInv

LEMMA Stutters == ASSUME IInv, UNCHANGED enginesVars PROVE IInv'
  <1>1. UNCHANGED <<world, stored, batch, attempt, tasks, faults>>
    BY DEF enginesVars
  <1>2. TypeInv' /\ TaskInv'
    BY <1>1 DEF IInv, TypeInv, TaskInv
  <1>3. ASSUME NEW j \in Jobs PROVE JobInv(j)'
    <2>1. Submissions(j)' = Submissions(j)
      BY <1>1 DEF Submissions
    <2>2. faults[j] \in Nat
      BY DEF IInv, TypeInv
    <2> QED BY <1>1, <1>2, <2>1, <2>2, OthersKeep
  <1> QED BY <1>2, <1>3 DEF IInv

LEMMA Keeps == IInv /\ [Next]_enginesVars => IInv'
  <1> SUFFICES ASSUME IInv, [Next]_enginesVars PROVE IInv'
    OBVIOUS
  <1>1. CASE RunOnce
    BY <1>1, RunOnceKeeps
  <1>2. CASE \E j \in Jobs : Step(j) \/ DownloadFails(j) \/ Deadline(j)
    <2>1. PICK j \in Jobs : Step(j) \/ DownloadFails(j) \/ Deadline(j)
      BY <1>2
    <2> QED BY <2>1, ProcessJobKeeps, RunsKeep, SubmitKeeps, PollFailedKeeps,
               PollReportedKeeps, EndsKeep, DeadlineKeeps DEF Step
  <1>3. CASE Crash
    BY <1>3, CrashKeeps
  <1>4. CASE \E t \in DOMAIN tasks : Progress(t) \/ Flake(t)
    BY <1>4, ProgressKeeps, FlakeKeeps
  <1>5. CASE UNCHANGED enginesVars
    BY <1>5, Stutters
  <1> QED BY <1>1, <1>2, <1>3, <1>4, <1>5 DEF Next

LEMMA Invariant == Spec => []IInv
  BY Initially, Keeps, PTL DEF Spec

(* Whatever the threads do beside each other, whatever fails and however   *)
(* often the worker is started again, what the service is told of a job    *)
(* that ran was seen of that job's sample (agent.py, opensource.py _poll). *)
THEOREM RanIsAlwaysOwn == Spec => []RanIsOwn
  <1>1. IInv => RanIsOwn
    BY DEF IInv, JobInv, ReportsOwn, RanIsOwn
  <1> QED BY <1>1, Invariant, PTL

(* CAPE is given a sample once, and once more for each thing that went     *)
(* wrong about it: a sample that CAPE cannot serve is refused, not retried *)
(* (opensource.py, the unserviceable statuses of CAPEv2).                  *)
THEOREM ResubmissionsAreFaults == Spec => []ResubmittedForAFault
  <1>1. IInv => ResubmittedForAFault
    <2> SUFFICES ASSUME IInv, NEW j \in Jobs
                 PROVE  \/ Cardinality(Submissions(j)) <= 1 + faults[j]
                        \/ world.sample[j].fits = "malformed"
      BY DEF ResubmittedForAFault
    <2>1. TypeInv /\ Paid(j)
      BY DEF IInv, JobInv
    <2>2. Cardinality(Submissions(j)) \in Nat /\ faults[j] \in Nat
      BY <2>1, SubmissionsCount DEF TypeInv
    <2> QED BY <2>1, <2>2 DEF Paid
  <1> QED BY <1>1, Invariant, PTL

(* Of what a sandbox saw, no address is lost and none is made up, and what *)
(* is said to have been started by the sample was: in every report that is *)
(* about to be delivered, of any document.                                 *)
THEOREM ReportsAreAccounted == Spec => []ReportAccounted
  <1>1. IInv => ReportAccounted
    BY DEF IInv, JobInv, ReportsOwn, Told, Truthful, ReportAccounted
  <1> QED BY <1>1, Invariant, PTL
=============================================================================
