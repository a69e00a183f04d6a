---------------------------- MODULE MCAssessment ----------------------------
(* Instance of Assessment: an ordinary file for each way a name, a content   *)
(* and a signature combine; every name of every content; every way in which*)
(* a signature departs from a good one.                                    *)
EXTENDS Exports

-----------------------------------------------------------------------------
(* A publisher, the authority that issued its certificate, the trusted root*)
(* above; the authority of the timestamp and what it issued; and two       *)
(* certificates that bear names of others over keys of their own.          *)
Cert(id, subject, issuer, key, by, ca, code, until) ==
    [id |-> id, subject |-> subject, issuer |-> issuer, key |-> key, by |-> by,
     ca |-> ca, code |-> code, until |-> until]

Publisher == Cert("publisher", "Publisher", "Issuer", 1, 2, FALSE, TRUE, 9)
Issuer == Cert("issuer", "Issuer", "Root", 2, 3, TRUE, FALSE, 5)
Root == Cert("root", "Root", "Root", 3, 3, TRUE, FALSE, 9)
Stamper == Cert("stamper", "Stamper", "Time", 4, 5, FALSE, FALSE, 9)
Time == Cert("time", "Time", "Time", 5, 5, TRUE, FALSE, 9)
Namesake == Cert("namesake", "Publisher", "Issuer", 6, 6, FALSE, TRUE, 9)
Reissued == Cert("reissued", "Issuer", "Root", 2, 7, TRUE, FALSE, 9)

Certificates == {Publisher, Issuer, Root, Stamper, Time, Namesake, Reissued}

Bags(n) == {b \in [1..n -> Certificates] : IsInjective(b)}

MCShipped == [id \in {"issuer"} |-> "Issuer"]
MCOverride == [readable |-> TRUE, anchors |-> [id \in {"root"} |-> "our own root"], replace |-> FALSE]

-----------------------------------------------------------------------------
Good == [readable |-> TRUE, bag |-> <<Stamper, Time, Publisher, Issuer>>,
         fields |-> 2, algorithm |-> "sha256",
         digest |-> [of |-> "file", by |-> "sha256", content |-> "as signed", behind |-> "nothing"],
         attributes |-> TRUE, digestAlgorithm |-> "sha256", under |-> "sha256",
         messageDigest |-> [by |-> "sha256",
                            of |-> <<"sha256", [of |-> "file", by |-> "sha256", content |-> "as signed",
                                                behind |-> "nothing"]>>],
         key |-> 1, stamps |-> <<[kind |-> "token", at |-> 4]>>]

File(content, name, layout, signature) ==
    [content |-> content, name |-> name, layout |-> layout, signature |-> signature,
     body |-> "as signed", behind |-> "nothing", says |-> {}]

Unsigned(content, name) == File(content, name, IF content = "dos" THEN "no table" ELSE "no pe", Good)

Program == File("dos", <<".exe">>, "signed", Good)

MCOrdinary ==
    {Unsigned("dos", <<".exe">>), Unsigned("dos", <<".pdf">>), Unsigned("dos", <<".pdf", ".exe">>),
     Program, [Program EXCEPT !.body = "altered"], Unsigned("elf", <<>>),
     [Unsigned("text", <<".ps1">>) EXCEPT !.says = Said], Unsigned("text", <<".txt">>), Unsigned("docx in zip", <<".docx">>)}

Weakly == [Good EXCEPT !.algorithm = "sha1", !.digest.by = "sha1",
                       !.messageDigest.of = <<"sha1", [Good.digest EXCEPT !.by = "sha1"]>>]
WeaklySigned == [Good EXCEPT !.digestAlgorithm = "sha1", !.under = "sha1", !.messageDigest.by = "sha1"]

Departures ==
    {Good, Weakly, WeaklySigned, [WeaklySigned EXCEPT !.digestAlgorithm = "sha256"],
     [Good EXCEPT !.digestAlgorithm = "none of these"],
     [Good EXCEPT !.readable = FALSE], [Good EXCEPT !.fields = 1],
     [Good EXCEPT !.attributes = FALSE],
     [Good EXCEPT !.messageDigest.of = <<"sha256", [Good.digest EXCEPT !.content = "altered"]>>],
     [Good EXCEPT !.key = 6],
     [Good EXCEPT !.stamps = <<>>],
     [Good EXCEPT !.stamps = <<[kind |-> "token", at |-> 0], [kind |-> "countersignature", at |-> 7]>>]}

MCSurveyed ==
    {Unsigned(x, n) : x \in Contents, n \in Names}
    \cup UNION {{[Program EXCEPT !.signature = [s EXCEPT !.bag = b]] : s \in Departures} :
                b \in UNION {Bags(n) : n \in 0..3}}
    \cup {[Program EXCEPT !.signature.bag = b] : b \in Bags(4)}
    \cup {[Program EXCEPT !.layout = l] : l \in {"no pe", "oversized table", "another kind of table"}}
    \cup {[Program EXCEPT !.behind = "something appended"]}
    \cup {[Unsigned("text", <<".txt">>) EXCEPT !.says = {m}] : m \in Said}

-----------------------------------------------------------------------------
(* That a URL brought a file shows in one of its impact metrics and nowhere*)
(* else: one finding beside the given ones is enough for it.               *)
MCInit == AssessInit /\ (sample.url => Cardinality(found \ Given(file)) <= 1)

MCSpec == MCInit /\ [][AssessNext]_assessVars
=============================================================================
