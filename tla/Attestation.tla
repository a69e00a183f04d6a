----------------------------- MODULE Attestation ----------------------------
(***************************************************************************)
(* engine/attestation.py, the rendering it signs (report.as_json) and the  *)
(* verifier a recipient runs (tools/verify_report.py): one job whose row is*)
(* scored, re-scored and swept while the weights of Console change and the *)
(* service is deployed anew, and the signed exports made of it.            *)
(*                                                                         *)
(* A digest is the value it is of, a signature is the key with the payload,*)
(* and a score is the findings with the engine that weighed them; what a   *)
(* document may hold besides is only told apart where it could differ      *)
(* between two exports: instants, names of workers, tasks.                 *)
(***************************************************************************)
EXTENDS Console

CONSTANTS SigningKeys,   \* the well-formed values of SIGNING_KEY
          Unusable,      \* the others, the empty one among them
          NoKey,         \* no key
          Workers,       \* names that workers report under
          Brief,         \* those of them that are at most two characters long
          Nothing,       \* a column or a field that is null
          MaxBuild, MaxReports, MaxSheets      \* bounds

(* What a row keeps of a worker's report: the number of the task that the  *)
(* engine gave, Joe's among the facts under a name of its own.             *)
Detonated == [engine : {"cape", "joe"}, worker : Workers, task : Nat, said : SUBSET Workers]

ASSUME AttestationAssumption ==
    /\ NoKey \notin SigningKeys
    /\ SigningKeys \cap Unusable = {}
    /\ Nothing \notin Detonated /\ Nothing \notin {"cape", "joe"} /\ Nothing \notin Nat
    /\ Brief \subseteq Workers
    /\ {MaxBuild, MaxReports, MaxSheets} \subseteq Nat

VARIABLES build,      \* the image that runs: code, rules and libraries
          signing,    \* SIGNING_KEY of this start
          row,        \* the job
          run,        \* the pipeline's run of it, once it has scored
          written,    \* runs and reports that have written the row
          sheets      \* exports: the envelope, and the row it was made of

evidence == <<build, signing, row, run, written, sheets>>

-----------------------------------------------------------------------------
(* The engine, and what a run or a report makes of the row.                *)

(* What a verdict is reached by and engine_manifest describes: the code and*)
(* the rules of the image, which do not change while it runs, and the blend*)
(* of the moment.                                                          *)
Engine == [build |-> build, blend |-> split]

Absent == [by |-> Nothing, manifest |-> Nothing, dynamic |-> Nothing,
           finished |-> Nothing, deleted |-> Nothing]

(* A job of a release that did not capture the manifest and let the name of*)
(* a worker into its sentences.                                            *)
Legacy(w) == [Absent EXCEPT !.by = [build |-> 0, blend |-> Split(Default)],
                            !.dynamic = [engine |-> "cape", worker |-> w, task |-> 0, said |-> {w}],
                            !.finished = 0]

EvidenceInit == /\ build = 1
                /\ signing \in SigningKeys \cup Unusable
                /\ row \in {Absent} \cup {Legacy(w) : w \in Workers}
                /\ run = Nothing
                /\ written = 0
                /\ sheets = <<>>

(* scoring.assess reads the blend ...                                      *)
Score == /\ run = Nothing
         /\ row.deleted = Nothing
         /\ written < MaxReports
         /\ run' = Engine
         /\ UNCHANGED <<build, signing, row, written, sheets>>

(* ... and the manifest is built when the rest has been written, with the  *)
(* blend read again - or, if building it raises, is the one of the run     *)
(* before; a detonation that is stored is kept.                            *)
Complete == /\ run # Nothing
            /\ written' = written + 1
            /\ \E m \in {row.manifest, [engine |-> Engine, of |-> written']} :
                  row' = [row EXCEPT !.by = run, !.manifest = m, !.finished = written']
            /\ run' = Nothing
            /\ UNCHANGED <<build, signing, sheets>>

(* ingest_report scores the row again with the detonation of a worker; the *)
(* manifest stays.                                                         *)
Ingest(e, w) == /\ row.by # Nothing
                /\ written < MaxReports
                /\ written' = written + 1
                /\ row' = [row EXCEPT !.by = Engine,
                              !.dynamic = [engine |-> e, worker |-> w, task |-> written', said |-> {}]]
                /\ UNCHANGED <<build, signing, run, sheets>>

(* The retention sweep deletes the bytes and marks the row.                *)
Sweep == /\ row.finished # Nothing
         /\ row.deleted = Nothing
         /\ row' = [row EXCEPT !.deleted = written]
         /\ UNCHANGED <<build, signing, run, written, sheets>>

-----------------------------------------------------------------------------
(* The report.                                                             *)

Instant(at) == [form |-> "object", at |-> at]

(* _canonical: an instant takes its written form, as the verifier would    *)
(* give it; what is written already stays.                                 *)
Canonical(v) == IF v = Nothing THEN v
                ELSE IF v.form = "object" THEN [v EXCEPT !.form = "Z"] ELSE v

(* The encoder of the response writes an instant in another form.          *)
Wire(v) == IF v = Nothing THEN v
           ELSE IF v.form = "object" THEN [v EXCEPT !.form = "+00:00"] ELSE v

(* report._utc.                                                            *)
Utc(at) == IF at = Nothing THEN Nothing ELSE [form |-> "+00:00", at |-> at]

(* _infrastructure_names: what the row calls its worker, unless that is too*)
(* short to be told from other words.                                      *)
Names(r) == IF r.dynamic = Nothing THEN {} ELSE {r.dynamic.worker} \ Brief

(* _without_infrastructure, in a sentence.                                 *)
Scrubbed(r) == IF r.dynamic = Nothing THEN {} ELSE r.dynamic.said \ Names(r)

(* _sample_retained; that the bytes may be lost without a mark is left to  *)
(* Retention.                                                              *)
Retained(r) == r.deleted = Nothing

Detonator(r) == IF r.dynamic = Nothing THEN Nothing ELSE r.dynamic.engine
Task(r, engine) == IF Detonator(r) = engine THEN r.dynamic.task ELSE Nothing

(* as_json: the keys that name a worker are dropped and its name is taken  *)
(* out of the sentences.                                                   *)
AsJson(r, made) ==
    [score            |-> r.by,
     detonated        |-> Detonator(r),
     task_id          |-> Task(r, "cape"),
     submission_id    |-> Task(r, "joe"),
     says             |-> Scrubbed(r),
     completed_at     |-> Utc(r.finished),
     sample_retained  |-> Retained(r),
     sample_deleted_at|-> Utc(r.deleted),
     generated_at     |-> Utc(made)]

(* Mutated: whether the bytes are still there stays in the body.           *)
KeysButRetained == {"completed_at", "sample_deleted_at", "generated_at"}

SubmissionKeys == {"completed_at", "sample_retained", "sample_deleted_at", "generated_at"}

(* VOLATILE_FACT_KEYS, which _strip_volatile takes out of the analyzers'   *)
(* facts: Joe's number is not among them.                                  *)
VolatileKeys == {"task_id"}

Body(r, made) == LET j == AsJson(r, made)
                 IN  [k \in DOMAIN j \ (SubmissionKeys \cup VolatileKeys) |-> j[k]]

(* Mutated: the instants are left for the encoder.                         *)
SubmissionRaw(r, made) ==
    [completed_at |-> Instant(r.finished), generated_at |-> Instant(made),
     sample_deleted_at |-> Utc(r.deleted), sample_retained |-> Retained(r)]

Submission(r, made) ==
    [completed_at |-> Canonical(Instant(r.finished)), generated_at |-> Canonical(Instant(made)),
     sample_deleted_at |-> Canonical(Utc(r.deleted)), sample_retained |-> Retained(r)]

BuildReport(r, made) ==
    LET body == Body(r, made)
    IN  [reproducible |-> body, digest |-> body, submission |-> Submission(r, made)]

(* Mutated: the engine of the moment is stated for every row.              *)
ManifestLive(r) == [engine |-> Engine, captured |-> r.manifest # Nothing]

Manifest(r) == IF r.manifest # Nothing THEN [engine |-> r.manifest.engine, captured |-> TRUE]
               ELSE [engine |-> Engine, captured |-> FALSE]

BuildDocument(r, made) ==
    [schema |-> "attestation/1", manifest |-> Manifest(r), report |-> BuildReport(r, made)]

-----------------------------------------------------------------------------
(* The signature.                                                          *)

(* Mutated: the manifest is beside what is signed.                         *)
SignedWithoutManifest == {"schema", "report"}

SignedKeys == {"schema", "manifest", "report"}

CanonicalSubmission(s) == [s EXCEPT !.completed_at = Canonical(@), !.generated_at = Canonical(@),
                                    !.sample_deleted_at = Canonical(@)]

(* signed_payload: canonical_bytes of the signed keys, in the service and  *)
(* in the verifier.                                                        *)
Payload(envelope) ==
    [k \in SignedKeys |->
        IF k = "report" THEN [envelope.report EXCEPT !.submission = CanonicalSubmission(@)]
        ELSE envelope[k]]

(* deployment_key.                                                         *)
DeploymentKey == IF signing \in SigningKeys THEN signing ELSE NoKey

(* attest.                                                                 *)
Attest(r, made) ==
    LET document == BuildDocument(r, made)
    IN  [schema           |-> document.schema,
         manifest         |-> document.manifest,
         report           |-> document.report,
         canonicalization |-> "json-canonical-1",
         payload_digest   |-> Payload(document),
         signed           |-> DeploymentKey # NoKey,
         public_key       |-> DeploymentKey,
         signature        |-> IF DeploymentKey = NoKey THEN Nothing
                              ELSE [by |-> DeploymentKey, of |-> Payload(document)]]

(* public_key_info.                                                        *)
PublicKeyInfo == [public_key |-> DeploymentKey, signing_enabled |-> DeploymentKey # NoKey]

(* export_signed; what the client receives has been through the encoder.   *)
OnTheWire(envelope) ==
    [envelope EXCEPT !.report.submission.completed_at = Wire(@),
                     !.report.submission.generated_at = Wire(@),
                     !.report.submission.sample_deleted_at = Wire(@)]

Export == /\ row.by # Nothing
          /\ Len(sheets) < MaxSheets
          /\ sheets' = Append(sheets, [file |-> OnTheWire(Attest(row, Len(sheets) + 1)),
                                       row |-> row, pubkey |-> PublicKeyInfo])
          /\ UNCHANGED <<build, signing, row, run, written>>

-----------------------------------------------------------------------------
(* tools/verify_report.py.  A file is what it says under each key, and the *)
(* keys it says twice.                                                     *)

Verify(payload, signature, key) == signature = [by |-> key, of |-> payload]

Trusted(file, pinned) == IF pinned # NoKey THEN pinned ELSE file.says.public_key

(* The exit code: 2 when the file is no export, 1 when it does not verify. *)
Unreadable(file) == file.twice # {} \/ ~(SignedKeys \subseteq DOMAIN file.says)

Holds(file, pinned) ==
    /\ file.says.signed
    /\ file.says.canonicalization = "json-canonical-1"
    /\ Verify(Payload(file.says), file.says.signature, Trusted(file, pinned))

Result(file, pinned) == IF Unreadable(file) THEN 2 ELSE IF Holds(file, pinned) THEN 0 ELSE 1

-----------------------------------------------------------------------------
(* A start with the settings and the image of the day.                     *)
Redeploy == /\ Restart
            /\ build' \in build..MaxBuild
            /\ signing' \in SigningKeys \cup Unusable
            /\ run' = Nothing
            /\ UNCHANGED <<row, written, sheets>>

EvidenceStep == \/ Score \/ Complete \/ Sweep \/ Export
                \/ \E e \in {"cape", "joe"}, w \in Workers : Ingest(e, w)

AttestInit == Init /\ EvidenceInit

AttestNext == \/ Serve /\ UNCHANGED evidence
              \/ EvidenceStep /\ UNCHANGED vars
              \/ Redeploy

AttestSpec == AttestInit /\ [][AttestNext]_<<vars, evidence>>

-----------------------------------------------------------------------------
(* Properties.                                                             *)

(* What is left of an export when one field of it is taken from another    *)
(* one, is lost, or is said twice.                                         *)
File(says) == [says |-> says, twice |-> {}]

Differ(i, j) == {f \in DOMAIN sheets[i].file : sheets[i].file[f] # sheets[j].file[f]}

Altered(i) ==
    LET says == sheets[i].file
    IN  (UNION {{File([says EXCEPT ![f] = sheets[j].file[f]]) : f \in Differ(i, j)}
                  : j \in DOMAIN sheets})
        \cup {File([k \in DOMAIN says \ {f} |-> says[k]]) : f \in SignedKeys}
        \cup {[says |-> says, twice |-> {f}] : f \in SignedKeys}

(* A file that the verifier accepts says in its three signed keys exactly  *)
(* what one export said, whichever of its fields were exchanged with those *)
(* of another export of the job, and with whichever key it is checked.     *)
AcceptedIsExported ==
    \A i \in DOMAIN sheets : \A file \in Altered(i), pinned \in SigningKeys \cup {NoKey} :
        Result(file, pinned) = 0 =>
            /\ file.twice = {}
            /\ \E k \in DOMAIN sheets :
                  \A f \in {"schema", "manifest", "report"} : file.says[f] = sheets[k].file[f]

(* An export that went through the encoder and back verifies with the key  *)
(* that the deployment published when it was made, and with no other, at   *)
(* whatever time later and under whatever key the service signs by then.   *)
UntouchedVerifies ==
    \A i \in DOMAIN sheets : \A pinned \in SigningKeys :
        Result(File(sheets[i].file), pinned) =
            IF sheets[i].pubkey.public_key = pinned THEN 0 ELSE 1

(* Two exports of a job have the same reproducible digest when the same    *)
(* engine weighed the same findings, whichever worker detonated it, in     *)
(* which task, and whether or not the bytes were still there - unless Joe  *)
(* did, twice.  No name of a worker is in one, nor in the sentences, except*)
(* one of two characters in those of an old release.                       *)
Resubmitted(a, b) == Detonator(a) = "joe" /\ a.dynamic.task # b.dynamic.task

SameFindingsSameDigest ==
    \A i, j \in DOMAIN sheets :
        LET a == sheets[i].row
            b == sheets[j].row
            says == sheets[i].file.report.reproducible.says
        IN  /\ says \subseteq Brief
            /\ /\ a.by = b.by
               /\ Detonator(a) = Detonator(b) /\ ~Resubmitted(a, b)
               /\ says = {} /\ sheets[j].file.report.reproducible.says = {}
               => sheets[i].file.report.digest = sheets[j].file.report.digest

(* A manifest that is said to be captured at verdict time describes the    *)
(* image that the verdict was reached by, whatever has been deployed since *)
(* and whichever run was cut off by the deployment - unless a report has   *)
(* re-scored the row after its last run, or that run could not build its   *)
(* manifest and left the one before in its place.                          *)
Rescored(r) == r.dynamic # Nothing /\ r.dynamic.task > r.finished
LeftOver(r) == r.manifest.of # r.finished

StatedEngineRan ==
    \A i \in DOMAIN sheets :
        LET stated == sheets[i].file.manifest
            made   == sheets[i].row
        IN  /\ stated.captured <=> made.manifest # Nothing
            /\ stated.captured /\ ~Rescored(made) /\ ~LeftOver(made)
               => stated.engine.build = made.by.build

-----------------------------------------------------------------------------
(* Claims of the source's comments that the code does not keep.            *)

(* "THE MANIFEST MUST BE THE ONE THAT REACHED THE VERDICT."                *)
ManifestReachedVerdict ==
    \A i \in DOMAIN sheets :
        sheets[i].file.manifest.captured => sheets[i].file.manifest.engine = sheets[i].row.by

(* Of the number of a task: "leaving it in made reproducible_digest [...]  *)
(* different every time, which quietly falsifies the module's central      *)
(* claim."                                                                 *)
TasksAreVolatile ==
    \A i, j \in DOMAIN sheets :
        LET a == sheets[i].row
            b == sheets[j].row
        IN  /\ a.by = b.by /\ a.dynamic # Nothing /\ b.dynamic # Nothing
            /\ [a.dynamic EXCEPT !.task = 0] = [b.dynamic EXCEPT !.task = 0]
            => sheets[i].file.report.digest = sheets[j].file.report.digest
=============================================================================
