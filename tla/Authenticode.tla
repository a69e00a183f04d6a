---------------------------- MODULE Authenticode ----------------------------
(***************************************************************************)
(* engine/authenticode.py, engine/trust_anchors.py and the signature part  *)
(* of engine/analyzers/pe.py: what the signature in a PE file says about   *)
(* the file, and which finding that becomes.                               *)
(*                                                                         *)
(* A certificate is a record: what identifies it, the names it carries, its*)
(* key, the key that really signed it, whether it is an authority, whether *)
(* it is issued for signing code, and the last instant it is valid at.  A  *)
(* bag is the sequence in which the certificates of a signature are met,   *)
(* those of its timestamp among them.  A digest is what it is computed of. *)
(***************************************************************************)
EXTENDS Integers, FiniteSets, SequencesExt, FiniteSetsExt, Functions

CONSTANTS Shipped,       \* SHIPPED_ANCHORS: the name under which a certificate is trusted
          Override       \* what CYCLO_TRUST_ANCHORS points to, or NoOverride

NoOverride == [readable |-> FALSE, anchors |-> <<>>, replace |-> FALSE]

ASSUME AnchorsAssumption == Override.replace \in BOOLEAN /\ Override.readable \in BOOLEAN

(* _DIGESTS, WEAK_DIGESTS                                                  *)
Digests == {"md5", "sha1", "sha256", "sha384", "sha512"}
Weak == {"md5", "sha1"}

-----------------------------------------------------------------------------
(* The file.  f.layout says what _locate and _certificate_blob find:       *)
(* "signed", or why there is no signature to read.                         *)

Located(f) == f.layout # "no pe"
Blob(f) == f.layout = "signed"

Unhashed == [of |-> "nothing"]

(* authenticode_digest: all but the checksum, the entry of the table and   *)
(* the table, and what has been appended behind it.                        *)
DigestOf(f, algorithm) ==
    IF Located(f) /\ algorithm \in Digests
    THEN [of |-> "file", by |-> algorithm, content |-> f.body, behind |-> f.behind]
    ELSE Unhashed

(* What is looked at in a file with a signature.                           *)
Legible(f) ==
    /\ {"layout", "body", "behind", "signature"} \subseteq DOMAIN f
    /\ {"readable", "bag", "fields", "algorithm", "digest", "attributes", "messageDigest",
        "digestAlgorithm", "under", "key", "stamps"} \subseteq DOMAIN f.signature
    /\ f.signature.bag \in Seq(Range(f.signature.bag))

(* The reader of DER: no element overruns what holds it, and the walk stays*)
(* within its budget.                                                      *)
Readable(s) == s.readable

(* _load_certificates: every certificate of the blob, up to a limit.       *)
MaxCertificates == 64
Bag(s) == SubSeq(s.bag, 1, Min({Len(s.bag), MaxCertificates}))

(* _parse_signed_data: with which key, and under which digest, the         *)
(* attributes were signed, and the digest of the content that stands among *)
(* them; nobody, where nothing is signed.                                  *)
Signer(s) == IF s.attributes THEN [key |-> s.key, under |-> s.under, commits |-> s.messageDigest]
             ELSE [key |-> 0, under |-> "", commits |-> <<>>]

(* _committed_digest: of exactly two fields, the second one a pair.        *)
Committed(s) ==
    IF s.fields = 2 /\ s.algorithm \in Digests THEN s.algorithm ELSE ""

(* _signing_time: the first stamp that can be read, a token or a           *)
(* countersignature, or 0.                                                 *)
SigningTime(s) ==
    LET readable == {i \in DOMAIN s.stamps :
                        s.stamps[i].kind \in {"token", "countersignature"} /\ s.stamps[i].at > 0}
    IN IF readable = {} THEN 0 ELSE s.stamps[Min(readable)].at

-----------------------------------------------------------------------------
(* The chain.                                                              *)

Issuers(bag) == {bag[i].issuer : i \in DOMAIN bag}

(* An end entity for signing code; else one that issued none of the others;*)
(* else any that did not; else any.                                        *)
Leaf(bag) ==
    LET ends == {i \in DOMAIN bag : ~bag[i].ca}
        code == {i \in ends : bag[i].code}
        leaves == {i \in DOMAIN bag : bag[i].subject \notin Issuers(bag)}
        last == leaves \cap ends
    IN bag[Min(IF code # {} THEN code ELSE IF last # {} THEN last
               ELSE IF leaves # {} THEN leaves ELSE DOMAIN bag)]

(* by_subject.setdefault: of two with one subject, the first in the bag.   *)
Holders(bag, name) == {i \in DOMAIN bag : bag[i].subject = name}
Holder(bag, name) == bag[Min(Holders(bag, name))]

(* Up from the last of a chain, until a name repeats or is not in the bag, *)
(* or the chain is long enough.                                            *)
MaxChain == 17

Extended(bag, chain) ==
    LET issuer == Last(chain).issuer
        seen == {chain[i].subject : i \in DOMAIN chain}
    IN IF issuer \in seen \/ Holders(bag, issuer) = {} \/ Len(chain) >= MaxChain THEN chain
       ELSE Append(chain, Holder(bag, issuer))

(* _order_chain, by names.                                                 *)
Chain(bag) ==
    LET grown[n \in 0..(Len(bag) - 1)] ==
            IF n = 0 THEN <<Leaf(bag)>> ELSE Extended(bag, grown[n - 1])
    IN grown[Len(bag) - 1]

(* Mutated: names are links.                                               *)
LinkedByName(chain) == chain

(* _links_verified: the part of the chain that signatures link to the leaf.*)
Linked(chain) ==
    LET broken == {i \in 1..(Len(chain) - 1) : chain[i].by # chain[i + 1].key}
    IN SubSeq(chain, 1, Min({Len(chain)} \cup broken))

(* trust_anchors.anchors, once the file of the operator has been read.     *)
Anchors ==
    LET extra == IF Override.readable THEN Override.anchors ELSE <<>>
    IN IF Override.readable /\ Override.replace THEN extra
       ELSE [id \in DOMAIN Shipped \cup DOMAIN extra |->
                IF id \in DOMAIN extra THEN extra[id] ELSE Shipped[id]]

(* anchor_for: the name of the first that is trusted, or "".               *)
AnchorFor(chain) ==
    LET known == {i \in DOMAIN chain : chain[i].id \in DOMAIN Anchors}
    IN IF known = {} THEN "" ELSE Anchors[chain[Min(known)].id]

(* _anchor_expiry: of the certificate highest up that bears the name, or 0.*)
AnchorExpiry(chain, name) ==
    LET bears == {i \in DOMAIN chain : chain[i].subject = name}
    IN IF bears = {} THEN 0 ELSE chain[Max(bears)].until

(* Countersigned after the anchoring authority has expired.                *)
Late(s, linked, anchor) ==
    /\ SigningTime(s) > 0
    /\ AnchorExpiry(linked, anchor) > 0
    /\ SigningTime(s) > AnchorExpiry(linked, anchor)

(* The digest that the signer names, or that of the file if it names none. *)
SignerAlgorithm(s) == IF s.digestAlgorithm \in Digests THEN s.digestAlgorithm ELSE s.algorithm

(* What the file is said to be, as a digest of the signer.                 *)
Content(s, algorithm) == [by |-> algorithm, of |-> <<s.algorithm, s.digest>>]

(* The signature is over the attributes, and the attributes commit to the  *)
(* content of which the digest of the file is a part.                      *)
SignatureValid(s, leaf) ==
    LET algorithm == SignerAlgorithm(s)
    IN Signer(s) = [key |-> leaf.key, under |-> algorithm, commits |-> Content(s, algorithm)]

-----------------------------------------------------------------------------
Unread == [present |-> FALSE, parsed |-> FALSE, covers |-> FALSE, valid |-> FALSE,
           chain |-> "unknown", algorithm |-> ""]

(* verify, from the certificates that are left once all could be read.     *)
Judged(f, s, chain, linked, anchor) ==
    [present |-> TRUE, parsed |-> TRUE,
     covers |-> DigestOf(f, s.algorithm) = s.digest,
     valid |-> SignatureValid(s, chain[1]),
     chain |-> IF anchor # "" THEN IF Late(s, linked, anchor) THEN "unanchored" ELSE "anchored"
               ELSE IF Last(chain).issuer = Last(chain).subject THEN "self-signed"
               ELSE "unanchored",
     algorithm |-> s.algorithm]

Traced(f, chain, linked) == Judged(f, f.signature, chain, linked, AnchorFor(linked))

Ordered(f, chain) == Traced(f, chain, Linked(chain))

Result(f) ==
    IF ~Blob(f) THEN Unread
    ELSE IF ~Readable(f.signature) \/ Bag(f.signature) = <<>> \/ Committed(f.signature) = ""
    THEN [Unread EXCEPT !.present = TRUE]
    ELSE Ordered(f, Chain(Bag(f.signature)))

(* SignatureResult.verified                                                *)
Verified(r) == r.parsed /\ r.covers /\ r.valid /\ r.chain = "anchored" /\ r.algorithm \notin Weak

(* _signature_signals, of a file that has a certificate table.             *)
Reported(r) ==
    IF r.parsed /\ ~r.covers THEN {"pe.signature_does_not_cover_file"}
    ELSE IF Verified(r) THEN {"pe.signature_verified"}
    ELSE {"pe.signature_present"}

SignatureFindings(f) == IF f.layout \in {"no pe", "no table"} THEN {} ELSE Reported(Result(f))

-----------------------------------------------------------------------------
(* What the finding is worth: the certificates that lead, each signed by   *)
(* the key of the next, from the key that made the signature to one that is*)
(* trusted.                                                                *)

Vouches(bag, key) ==
    LET certificates == {bag[i] : i \in DOMAIN bag}
        reached[n \in 0..Len(bag)] ==
            IF n = 0 THEN {c \in certificates : c.key = key}
            ELSE reached[n - 1] \cup {c \in certificates :
                                        \E d \in reached[n - 1] : d.by = c.key /\ d.issuer = c.subject}
    IN reached[Len(bag)]

(* A publisher is reported as verified only for a file whose very bytes    *)
(* have the digest that was signed, one that can be relied on, with a key  *)
(* for which a trusted authority vouches through signatures and not by     *)
(* name.  The digest that lies between, of the attributes that the key     *)
(* signs, is computed; whether it can be relied on is not asked (see       *)
(* NoWeakSignature in Assessment).                                         *)
VouchedFor(f) ==
    Verified(Result(f)) =>
        /\ f.signature.digest = DigestOf(f, f.signature.algorithm)
        /\ f.signature.algorithm \notin Weak
        /\ f.signature.under \in Digests
        /\ f.signature.messageDigest = Content(f.signature, f.signature.under)
        /\ \E c \in Vouches(f.signature.bag, f.signature.key) : c.id \in DOMAIN Anchors

Unambiguous(bag) ==
    /\ Len(bag) <= MaxCertificates
    /\ \A i, j \in DOMAIN bag : bag[i].subject = bag[j].subject => i = j
    /\ Cardinality({i \in DOMAIN bag : bag[i].code /\ ~bag[i].ca}) = 1

(* In which order a signature lists the certificates of its publisher and  *)
(* of its timestamp makes no difference, as long as all are read.          *)
OrderIsNothing(f) ==
    Blob(f) /\ Unambiguous(f.signature.bag) =>
        \A i, j \in DOMAIN f.signature.bag :
            LET bag == f.signature.bag
                swapped == [bag EXCEPT ![i] = bag[j], ![j] = bag[i]]
            IN i < j => Result([f EXCEPT !.signature.bag = swapped]) = Result(f)

-----------------------------------------------------------------------------
(* A claim of the source's comments that the code does not keep.           *)

(* "A file signed only under one of these is reported as signed and NOT    *)
(* treated as verified": the digest under which the signature is made is   *)
(* not asked for.                                                          *)
StronglySigned(f) == Verified(Result(f)) => f.signature.under \notin Weak
=============================================================================
