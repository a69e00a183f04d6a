# TLA+ verification of Cyclowareness Sandbox

The repository is a malware-analysis appliance: a FastAPI service that takes
files, quarantines them, analyses them without running them, hands some of them
to off-host detonation workers, and keeps an evidence trail. The modules here
model what is hard to test in it: several sessions on one row, workers that
report late, containers that inherit from their members, files deleted while
they are submitted again, a hash chain appended to concurrently - and the
decisions that must agree with one another: what a file is, whose signature it
bears, what its findings amount to, and what is exported of that.

## 1. Inventory

| part | state it keeps | operations | interacts with | what is hard |
|---|---|---|---|---|
| Job API (`api/sandbox.py`) | `sandbox_jobs` rows | analyze, analyze-url, password, reanalyze, feedback, listing, exports | commits a row, then hands an id to the pool | hand-over is not atomic with the commit; claims race |
| Thread pool (`runner.py`) | in-memory work queue, 4 threads | submit, `analyse_job` | runs the pipeline on a session of its own, commits once at the end | queue dies with the process; overlapping runs of a job |
| Pipeline (`engine/pipeline.py`) | the job row, child rows | `run`, `_archive_stage`, `_record_failure`, container inheritance | storage, analyzers, scoring, verdict; re-reads stored detonations | stale session copies, partial failure, recursion in one transaction |
| Worker seam (`api/dynamic.py`, `api/dynamic_state.py`, `engine/native.py`) | `tiers.dynamic`, `dynamic`, `analysis["dynamic.*"]` of the row | queue, sample, report | workers poll over HTTP; ingest walks up to containers | no lease: several workers, late and repeated reports, refusals |
| Worker (`worker/`) | none beyond the job at hand | poll, containment gate, choose engine, run, deliver with retries | the seam only | timeouts, retries, aborts before a sample is run |
| Containers | parent/child rows | floor and verdict inheritance in `run` and after `ingest_report` | pipeline and seam | lost updates between siblings |
| Quarantine (`engine/storage.py`) and retention (`retention.py`) | content-addressed files, `sample_deleted_at`, rows | store, sweep samples, sweep reports | submissions re-use a file; rows refer to it by hash | file and row are not one transaction |
| Audit (`audit.py`, `api/audit.py`) | `audit_events`, `audit_checkpoints` | record, checkpoint, verify | every handler calls it | concurrent appends, id gaps, multi-statement reads |
| Restart sweep (`main.py`), sessions (`db.py`) | - | recover interrupted jobs, migrations | the job rows | crash between two commits |
| Rate limits (`ratelimit.py`) | per-credential windows | admit | middleware | bounded table, window edges |
| Authentication, tenants, weights (`auth.py`, `api/auth.py`, `api/admin.py`) | epochs and the split of the score, in memory | login, logout, set and reset the weights | every handler; scoring; the audit chain | memory that a restart forgets beside tokens that outlive it; two requests between two assignments |
| Archives (`engine/archives.py`) | expansion budget | unpack per format | pipeline | nested budgets, caps, what is said of what was not opened |
| Fetcher and egress (`engine/fetcher.py`, `sovereignty.py`) | the quarantine's temporary file | analyze-url | name service, servers | names that resolve differently twice, redirects, retries, deadline |
| Detonation engines (`worker/engines/`) | tasks of the sandboxes | submit, poll, read a report | the worker's threads; Cuckoo, CAPE, Joe | several threads on one engine, retries against refusals, documents in any order |
| Scoring, verdict, impact, ATT&CK, incident | none (pure) | `score`, `classify`, `assess` ... | pipeline, seam | thresholds, caps, monotonicity |
| Identification, Authenticode, YARA (`identify.py`, `authenticode.py`, `yara_engine.py`) | trust anchors, rules | `identify`, `verify`, `analyze` | pipeline | names that contradict contents, certificates that bear others' names |
| Static analyzers | none (parsers) | `analyze` per file family | pipeline | byte-level parsing |
| Reports, attestation, exports (`report.py`, `attestation.py`, `incident.py`, `tools/verify_report.py`) | the signing key | export, verify | rows, the weights in force | what was in force at the verdict against what is at the export; three documents about one row |
| Config, metrics, frontend, infra, tools | configuration | - | - | I/O and configuration |

Correctness properties per part: a committed in-flight row always has an owner
or a mark that makes it reclaimable; an archive member has one row; a finish
never precedes its start; a detonation that ran is never lost and a job that ran
or was refused is not offered again; a container is never rated below its
contents; a job inside its window has its file and every file goes in the end;
the audit table always verifies and its anchors agree with it; a revoked session
opens nothing, and a token goes on showing the jobs it showed; a connection leaves for a
public address or not at all; whatever an archive holds is opened, or said not
to have been; evidence that does not count moves nothing; the exports of a row
say what the row says.

## 2. Modules

| module | what it is | state | used by |
|---|---|---|---|
| `AuditChain` | `audit.record()` and `audit.checkpoint()`, one step per SQL statement | `events`, `seq`, `checkpoints`, the locals of each call, whether an anchor was given up | `MCAuditChain`, `AuditChainProofs` |
| `JobLifecycle` | handlers of `api/sandbox.py`, the pool of `runner.py`, `pipeline.run` as a session sees it, the restart sweep of `main.py` | committed rows and child counts, row locks, work queue, handlers, threads with their session copy and draft | `MCJobLifecycle`, `JobLifecycleProofs` |
| `Detonation` | what the seam promises of each job | one outcome per job | implemented by `DetonationSeam` |
| `DetonationSeam` | queue, sample and report endpoints of `api/dynamic.py`, the loop of `worker/agent.py`, the re-analysis that meets them | committed rows by JSON column, one run per job, report requests, worker loops, engine version | `MCDetonationSeam`, `DetonationSeamProofs` |
| `ContainerTree` | the inheritance of `engine/pipeline.py`, from a report and from a re-analysis | committed rows, what each session read and would write | `MCContainerTree`, `ContainerTreeProofs` |
| `Retention` | the two sweeps of `retention.py` and the store of `engine/storage.py` | files by content, rows, submissions between store and commit, sweeps | `MCRetention`, `RetentionProofs` |
| `RateLimit` | the middleware of `ratelimit.py` and its table | buckets, the last sweep, the last answer | `MCRateLimit`, `IntakeProofs` |
| `Fetch` | `engine/fetcher.py` and the egress gate | the request with its attempt, hop and pinned address, the temporary file, the clock | `Intake` |
| `Archive` | `engine/archives.py` and `pipeline._archive_stage` | rows of a submission, the recursion as a stack, the shared budget | `Intake` |
| `Intake` | a submission from the request to the last row: composes `Fetch` and `Archive` | - | `MCIntake`, `IntakeProofs` |
| `SandboxReport` | how `worker/engines/opensource.py` tells the document of a sandbox | none | `Engines` |
| `Engines` | engine choice, thread pool and the protocols of the engines in `worker/engines/` | host and samples, what the service holds, the batch, attempts, tasks | `MCEngines`, `EvidenceProofs` |
| `Console` | tokens, epochs and tenants of `auth.py`, the weights of `api/admin.py` | tokens, epoch, jobs, the split, requests, the trail | `Attestation` |
| `Attestation` | `engine/attestation.py`, `report.as_json` and `tools/verify_report.py`; extends `Console`, whose weights a verdict is reached by | one row, the image, the signing key, exports | `MCConsole`, `ConsoleProofs` |
| `Identify` | `engine/identify.py`: family, mismatch, what runs | none | `Assessment` |
| `Authenticode` | `engine/authenticode.py` and `trust_anchors.py`: from a certificate table to the finding | none | `Assessment` |
| `Assessment` | from findings to score, capabilities, panel, verdict, category, impact and techniques; ingest and re-analysis of one job; composes `Identify` and `Authenticode` | file, sample, findings, trace, row | `Exports` |
| `Exports` | STIX bundle, incident record, the addresses in both; extends `Assessment` | none | `MCAssessment`, `EvidenceProofs` |

The row modules `JobLifecycle`, `DetonationSeam` and `ContainerTree` share one
model of a database session, because that is where this code is hard: a session
works on the copy it loaded, a flush writes the columns that differ from the
copy (`Written`, `Flush`) and takes the row lock, nobody else sees anything
before the commit, and an UPDATE of a locked row waits. This is what SQLAlchemy
and PostgreSQL at READ COMMITTED do; both are outside the repository and the map
marks them external. They are separate modules and not one, since each looks at
other columns of the row: the status columns, the JSON documents, the score and
verdict.

### AuditChain

`Begin`, `ReadTail`, `Allocate`, `AppendEvent`, `Collide`, `Fault` are the
statements of `record()` and its two exception paths; `ReadHead`,
`CountEvents`, `ReadCheckpointTail`, `WriteCheckpoint`, `RefuseCheckpoint` those
of the `checkpoint()` it may call. The INSERT is two steps, because the id is
drawn from a sequence before the unique index on `prev_hash` is met and stays
drawn when the INSERT is refused. A digest is the pair of what it covers, which
assumes no collisions. Not modelled: `verify_chain` and `verify_checkpoints` as
multi-statement readers (what they ask of the table is in `RowVerifies` and
`EventsUpTo`), the legacy canonical form, the signature itself, export.

### JobLifecycle

A run goes `Take`, `Load`, `Start` (the first flush, which takes the row lock),
`Unpack` or `Park`, `Complete`, `Commit`. `Fail` is a stage that raises, before,
between or after the members; `Poison` a flush that raises, after which
`_record_failure` rolls back and tries once more (`Reload`, `Retry`). `Lose` is
an exception that only the log hears of: the read of the row, the second attempt
to write the failure, or the commit. The members of an archive are child rows
created and run in the session of the container, so a member whose flush raises
rolls the container's transaction back (`Tear`): the row lock and the rows of the
members so far are gone, the container's row is read again (`Refresh`), the loop
goes on to the members that are left, and the next stage takes the lock anew
(`Relock`, or `FailUnlocked`). `Hang` is an analyzer that never returns; there is
no watchdog, so the thread and its row lock are gone until a restart. Timestamps
are numbers of runs; `Age` lets a committed `started_at` get older than
`_STALE_AFTER`. `Crash` loses queue, threads, handlers and locks, `Restart` is
the sweep of `_recover_interrupted_jobs`. `lost` are the jobs whose last run was
lost in this way, `torn` the archives a member has rolled back (history). What a
member's own status becomes is left to `ContainerTree`.

### DetonationSeam

A row is modelled by what each JSON column was computed from: `tiers` (gaps of
which engine version, and what the dynamic tier says), `analysis`, `score`,
`manifest`. `Poll` takes the batch `Offered` by the queue; a worker goes through
it one job after the other: `Hold` (containment failed), `Refuse` (no engine),
`Fetch` and `Detonate`, then `Post`, answered by `Ingest`; `Drop` and `GiveUp`
are a refused or lost post and a timeout after which the service still ingests.
`Reanalyze`, `Load`, `Start`, `Finish`, `Fail` are the re-analysis, `Purge`
retention, `Deploy` a restart with other rules: rules are compiled once per
process. The analysis of an ingest or a run is always written, since its
durations differ each time. A re-analysis of purged bytes fails in `identify`.
The split of a purge between file and row is in `Retention`.

`Implements` says that the seam is an instance of `Detonation` under `Outcome`:
a row is owed an answer, has one, or is owed none any more, and a row whose
tiers, evidence and score contradict one another is in no state of `Detonation`.
The claim is about reports that come one at a time and rows nobody analyses
anew; what happens otherwise is `EvidenceSurvivesRun` and section 6.

### ContainerTree

`Report` opens a session with a new rating of a file, `Inherit` is one
container of `reapply_to_ancestors`, `EndReport` its commit. `Reanalyze` opens a
session on a container, `Enter` and `Complete` are the start and the end of one
row of the recursion, `Fail` a stage that raises in it, `EndRun` the commit.
A row is read once per session (`Read`, the identity map). A container is read
in one step with its contents, as is the claim with the load. `Below` is a
constant with a named assumption, not a recursive walk. The impact rating
follows the verdict and is left out, as are the recursion caps and both rollbacks
of a poisoned session, the one of its own and the one by a member
(`JobLifecycle`). `alone` is a history variable: the open
sessions since whose opening nobody has committed.

### Retention

`Store` and `Record` are the two halves of a submission (`store_stream`, then
the commit of the row), `Abandon` a submission that ends between them, `PassOver`
a member that was stored and gets no row, because of a cap, the depth, or a
password the members after it ask for: no step fails there. A sweep is
`Begin`, `PurgeSample` per content with `CommitSamples`, `Doom`, `Need`
(`still_needed`), `PurgeReport` per content, and the commit, each a step of its
own; `Abort` is an exception between two of them, after which files are gone and
rows are not. The scheduler and one administrator may sweep at once. A content is
a name; days are numbers.

### RateLimit

`Request` is `check` for all identities a request presents, with the sweep of
the table it may trigger. Which rule a path falls under and whose address a
request comes from (`remote.py`) are inputs. What counts of a bucket (`Recent`)
is its tail from the first hit that is still in the window. `Sweeps` is the set
of tables a sweep may leave, as equal times leave the choice to the order of a
dict.

### Fetch, Archive, Intake

`Fetch`: `Gate` (the egress policy), `Attempt`, `Hop` (the validation of every
address a name has, then the one that is pinned; a URL that raises something
other than a refusal is tried again), `Send`, `Respond`, `Store`,
`Body`; a name may resolve to something else each time it is asked for. `elapsed`
advances with each operation by up to `Timeout`.
`Archive`: `Open` lists and unpacks (`Take` per member, with the reasons of each
format's reader in the order it asks for them), `Promote` makes a member a row
and enters it, `Leave` and `Rate` are the end of a run and what it says of what
was not inspected, `Raise` an analysis that fails, `Reanalyse` the handler. The
contents of an archive are a constant of the instance, one of which contains
itself. Parsers are external; an archive is a list of members with the faults a
reader can meet.

### Engines, SandboxReport

`RunOnce` is a poll; a job's `Step` is what its thread does next: choose the
engine, submit, probe, poll, fetch the report, tell it, deliver. A sandbox is
modelled by what an engine reads of it: the status of a task and the machine it
got. `Flake`, `Deadline`, `DownloadFails` and `Crash` are faults, each counted.
`SandboxReport` is the telling of one document as operators: endpoints and
whether they answered, the descent of a process from the sample, severities,
verdict. A number of a process that cannot be read is 0. The native engine's parser is left out, since it reads no line of what
`strace -f -tt` writes (section 6).

### Console, Attestation

A token is what it claims and the start whose key signed it. `LogoutRead` and
`LogoutWrite` are apart, as are `WriteRule` and `WriteModel` (two assignments of
module globals), the read of the new split and its record. A change may name one
weight (`Filled`) or be refused (`RefuseWeights`), and its event may be given up:
`Record` is an `audit.record()` that commits, `Drop` one that returns None, which
nobody asks about, and counts a failed write. A token from before tenancy claims
no tenant (`Older`) and is read under the one of the day (`Claim`). `Restart`
forgets the epochs and the split and may come with another tenant.
`Attestation` adds one job: `Score` and `Complete` are a run (the blend is read
twice), and a manifest that cannot be built leaves the one before in place;
`Ingest` is a report of CAPE or of Joe that scores the row again, `Sweep` retention, `Export`
a signed export, `Redeploy` a restart with another image or key. A signature is
the pair of key and payload, a digest what it is of; `Wire` is what the JSON
encoder of the response makes of an instant. `Altered` is what a file may be
after one field of it was exchanged, lost or repeated.

### Identify, Authenticode, Assessment, Exports

These are functions; `Assessment` puts a state around them: a file is chosen,
its static findings with it, a detonation is ingested, the job is analysed
anew, other rules are deployed, the bytes are purged. The two call sites differ
as in the code. `Pipeline` goes by the file, identified and analysed today;
`Ingested` goes by what the row holds (`job`): its family and MIME type, which
are those of the file only if the bytes are there, and its static findings, which
are found anew only if the bytes are there and the analysis does not raise
(`StaticResults`). The findings of a detonation are CAPE's (`OfCape`) or those of
another engine (`Emulated`); the guards of `scoring.py` mean the former only. A finding stands for a class: the `Catalogue` has one for every way in
which scoring, capabilities, verdict, impact or ATT&CK tell findings apart. A
score is in tenths of a point; the sum in which each finding of a group counts
less than the one before is a recursive function in integers (`Saturate`), the
logistic function a table with interpolation (`Percent`). `Identify` was
compared with the program on the 2030 pairs of a name and a content that the
code recognises by itself (the library's guesses apart): the results are the
same. In `Authenticode` a certificate is its names, its key and who signed it,
and a bag of them comes in any order. A row is made in two steps: `Opinions` is
what it rests on, `Classify` what is said of that.
In `Exports` an address is its version and its scope, and the extraction from a
text is part of the model (`Extract`): what the exports say depends on what it
lists.

## 3. Runs

| run | question | bounds | answer |
|---|---|---|---|
| `audit_chain` | do concurrent appends keep the table verifiable and anchored? | 3 appenders, cadence 2, 4 ids | yes: `ChainVerifies`, `AnchorsHold`; a lost event had two other winners (`LossNeedsTwoWinners`) |
| `job_lifecycle` | can a run, a fault or a crash orphan a row, clone a member, leave half a result or leave somebody waiting? | 1 encrypted job, 2 members, 2 threads, 2 handlers, 3 requests, 1 crash, hangs; every step may raise | only where the last word on a row raises (`NoOrphan`) or a member takes its container's transaction away (`NoDuplicateMembers`, `CompletedIsWhole`); unless an analyzer hangs, `AllSettles` |
| `seam_reanalysis` | does a run ever remove the evidence of a detonation? | 1 job, 2 workers, 2 reports in flight, 2 engine versions, 1 re-analysis, lost posts, raising stages | no: `EvidenceSurvivesRun` |
| `seam_in_order` | with one worker, does each row get its answer once, and does the queue drain? | 3 jobs: one crashes the engine, one no engine takes, one ordinary; blocked, declined, purged; 2 engine versions | yes: `Implements` (`Detonation` with its fairness), `BacklogDrains` |
| `container_tree` | what may a session make of the containers above it? | tree 1 > 2 > 3 and 1 > 4, 2 sessions, re-analysis of 1, analysis of 3 may raise | verdicts only from inside (`AccusedOnlyByContents`); an undisturbed session covers what it answers for and lowers nothing (`UndisturbedCovers`) |
| `retention` | does a job keep its file while it needs it, and does every file go? | an archive, its member and an upload of the member's content under the scheduler; 2 uploads of one content under scheduler and one administrator; 4 days, windows of 1 and 2 days, 1 fault | `InWindowKept` (submissions while a sweep is at work apart); no sweep leaves a file behind (`FilesAccounted`: steps that fail and members passed over do); what has a row goes (`PurgedInTheEnd`) |
| `rate_limit` | can a caller guess on, and do the headers tell the truth? | 1 address, 2 keys, 2 rules, a table of 2 buckets, 4 instants | no and yes: `GuessesBounded`, `HeadersHonest` |
| `intake` | what may a URL or an archive make the service do, and what does the result admit to? | 3 attempts, 3 redirects; every pair of 9 kinds of member in each of 6 formats, nesting 2 and self-containing; caps of 3 members, 6 bytes, 3 jobs; 1 analysis that raises, 1 re-analysis | `OnlyOutside`, `Bounded`, `MembersAccounted`, `BlindSpotsSurface` |
| `engines` | is what the service is told of a job true of that job, and does a job leave the queue? | 2 jobs, 2 threads, 27 pairs of a host and its samples, 4 tasks, 2 faults; one job with 464 documents | `RanIsOwn`, `ResubmittedForAFault`, `ReportAccounted`, `LeavesTheQueue` |
| `console` | what does a logout end, which jobs does a token go on showing, who set the weights; what does a signed export prove? | 2 callers, 2 tenants, 1 key, 2 tokens (the first perhaps from before tenancy), 1 restart, 2 changes; 1 job, 2 writes, 2 exports, 2 images, 2 signing keys, a worker of a long and one of a short name | `RevokedIsDead`, `SightIsKept`, `WeightsAccounted`; `AcceptedIsExported`, `UntouchedVerifies`, `SameFindingsSameDigest`, `StatedEngineRan` |
| `assessment` | do evidence that does not count, a name, a signature or a second look change what they must not, and do row and exports agree? | 9 ordinary files with all sets of up to 3 static findings and up to 2 of one engine; of those with 1 static finding at most, redeployments and a purge, and a URL that brought the file; 2320 pairs of content and name; the signed files of `MCAssessment` | no: `RefusedTraceNamesNothing`, `OneFactIsNotMalice`, `BuiltWeighsLittle`, `RenamingHidesNothing`, `SignatureIsVouchedFor`, `ReanalysisAgrees`; yes: `RowAgrees`, `ExportsAgree` |
| `incident_unparseable` | is an indicator that cannot be parsed counted as outward? | the same | no (section 5) |

Every property of a passing run has a mutant: a plausible bug in one mapped
definition, kept beside that definition ("Mutated: ..."), under which the same
run finds the property violated.

Why the bounds are enough. `audit_chain`: a loss takes a loser and two winners,
hence three appenders; cadence 2 with four ids has a crossing whose own id was
burned and two anchors that race. `job_lifecycle`: overlapping runs need two
threads, which need three requests (a submission and two that follow it); two
members are one that takes the transaction away and one that comes after or was
there before; a second crash repeats the first, as everything but the rows is
gone; jobs share only the queue, which has no bound, and the threads. `seam_reanalysis`: two reports
and a run are the three sessions that can meet on a row, and jobs do not
interact, except in the queue, which is the subject of `seam_in_order`: `Limit`
2 with a job in front that never succeeds shows that a batch goes on past it.
`container_tree`: three levels and a sibling at another level are the smallest
tree in which "worst by verdict" and "worst by score" differ (grades `Quiet`,
suspicious at score 1, and `Loud`, clean at score 2) and in which a walk must
pass a container that does not change. The run also passes with `Asked = {2},
Failing = {2}`, with `{2}, {3}` and with `{1}, {2}`. `retention`: sharing needs
two rows of one content, and two sweeps are as many as can meet a third party's
submission; a member that is passed over leaves a file to the sweeps, and an
upload of the same content may come before or after it. The two are explored one
after the other (`Focus`): either the scheduler sweeps alone or there is no
archive.
`rate_limit`: two keys are enough to change keys between two guesses, and a
table of two buckets overflows with one request that presents a key. `intake`:
`outer` holds any two members, or four, so that each cap is met before, at and
after a member; what one level of nesting leaves of the budget, two show to be
passed on. `engines`: two threads on one engine object are the ones that may
take each other's task. `assessment`: no rule of the code asks for more than
three findings at once, and the file brings more of them (`Given`); but the
score adds findings up, and what five of them amount to three do not show
(`BuiltIsNotAccused`, section 6). A report is ingested once here; reports that
repeat are the subject of the seam. A report takes or leaves each stored finding by itself, so `MaxAged`
follows retention and deployments on files with one finding besides those they
always have; that a URL brought a file shows in one impact metric only, for which
one finding is enough too (`MCInit`). The theorems of section 4 hold for any number.
Four certificates are a publisher, its authority and those of a timestamp.

`console` explores two halves of the service next to each other. Its
specification is `AttestSpec` without the steps into states in which more than
one of sessions, tuning and evidence is past its simplest (`Focus`), and without
those after the last export, which cannot change it (`Open`). What they share is
the split of the score and the restart, and those are explored in each.

`CHECK_DEADLOCK FALSE` is set where the system, or its bound, really stops: all
requests served, all ids drawn, all exports made, a queue with nothing left to
offer. `container_tree`, `retention` and `rate_limit` check deadlock; a
file of `assessment` whose bytes are purged and whose report is in has nothing
more to come.

### Fairness

`JobLifecycle`: weak fairness of every pool thread and handler (they are OS
threads, and nothing in the code blocks them but the row lock, whose holder
commits, rolls back or is lost) and of the restart (`restart: unless-stopped` in
`docker-compose.yml`). Nothing is assumed of requests, faults, crashes or time.
`AllSettles` excepts states in which an analyzer hangs: there is no watchdog.

`DetonationSeam`: weak fairness of the worker's loop, of an ingest and of a run.
Strong fairness that a containment check does not fail every time it is made,
that the engine does not fail every time on a job that is not in `Doomed`, and
that a report is not refused a request every time. `BacklogDrains` is so
conditional, and it needs two more things which its constants give: fewer jobs in
`Doomed` than `Limit`, and no more jobs than `Ceiling`. Neither is guaranteed by
the code (section 6). `Detonation` asks for weak fairness only of the answer
that is owed to a job outside `Doomed`.

`Retention`: weak fairness of the passing of days, of the commit of a submission
that has stored its bytes (or the end of the archive's run without it), and of the scheduler, which `retention.py` restarts
after an exception; steps fail finitely often (`MaxFaults`).

`Engines`: weak fairness of the poll loop, of each thread, and of a task that a
sandbox has begun. Faults are finitely many (`world.faults`).

## 4. Proofs

All proofs are checked by TLAPS for every value of the constants that satisfies
the named assumptions of the modules (a positive cadence, `NoOne \notin
Threads`, finite sets of naturals, a `Below` that is the closure of `Parent`,
limits that are naturals, files that have the fields a signature is read from).
None of the bounds of section 3 is used: neither
their values nor, unless a theorem says so, that there is one.

Few properties are inductive alone; the strengthening says what an operation in
its middle knows about the rows that others write meanwhile.

| theorem | argument |
|---|---|
| `AuditChainProofs!TypeCorrect`, `ChainAlwaysVerifies`, `AppendsOnlyAtTail` | inductive invariant: `TypeOK` (every tail a call holds is genesis or a committed event), finitely many events, `ChainVerifies`, one event per `prev` (the unique index) and per id, every event but the newest chained onto (`NoGap`), a drawn id its call's alone and above the tail that call read (`DrawnIds`). A tail nobody has chained onto is thus the newest event, and the row an INSERT commits lands behind it |
| `AuditChainProofs!LossTakesTwo` | `LossInv`: since a call began, the table has grown by each attempt of it that failed, and by one more if the tail it holds is taken by now (`Winners`) |
| `AuditChainProofs!AnchorsAlwaysHold` | `AnchorInv`: a head that a call has read is committed and what it has counted covers it (`ReadHeads`); the anchors are chained, and name committed events; an event past a cadence point is below an anchor, or a call is on its way to write one that covers it, or an anchor was given up (`CadenceKept`). Rests on the first: what is committed after an event has a higher id, so a count never falls short |
| `JobLifecycleProofs!TypeCorrect`, `NoOrphanRow` | inductive invariant: `TypeOK`; a process that is down has no queue, thread, handler or lock (`DownIsIdle`); a task names a job (`TasksHaveJobs`); from a flush to its commit or rollback a session holds the lock (`WritersHoldLock`); a commit leaves the row settled, or its status as it found it (`CommitsSettle`). To be owned is not inductive: of two sessions that write the outcome of one job, one of which read the row again after a rollback, that one may write nothing. So each in-flight row has an owner whose commit changes the status (`LiveOwner`), the untouched mark of the restart sweep (`Untouched`), or is lost |
| `JobLifecycleProofs!MembersOnce` | `MembersInv`: of an archive that is not torn, what a session that holds the lock read of the children is what is committed until its own commit (`Filled`) |
| `JobLifecycleProofs!CompletedRowsAreWhole` | `TimesInv`: what a session loaded, its draft and the row it is flushed over agree so far that whatever row it meets is whole after its commit - a first finish never goes from a row (`AllPrepared`), also not from that of a torn archive, whose copy is read again; and from `MembersInv` the members added are those missing |
| `DetonationSeamProofs!TypeCorrect`, `EvidenceSurvives` | inductive invariant: `TypeOK`; a worker out of `idle` has a job to do (`Busy`); while a run is between first flush and commit the committed analysis is that of its draft (`LockHeld`), so the merge sees every report that came before |
| `DetonationSeamProofs!AnswersInOrder` | refinement: with one worker whose posts are answered, each step of the seam maps under `Outcome` to a step of `Detonation` or to a stutter. `OrderInv`: the tiers, evidence and score of a row agree (`Coherent`); a worker whose post was taken waits for it, and the row is what the request loaded (`Awaited`); the rest of its batch is as the poll found it (`Unanswered`), so no report answers twice |
| `ContainerTreeProofs!TypeCorrect`, `NobodyElsesVerdict` | inductive invariant: every row, and every copy a session holds, carries a verdict and a score from inside its own scope, and a session has read what it enters and what its next container needs. `Maximum` shows by well-founded induction on scores that the `CHOOSE` of `Worst` and `HighestScore` has a witness; `RaisedInScope` that raising to one's contents stays in scope, since `Below` is transitive |
| `ContainerTreeProofs!AloneNothingIsMissed` | `AloneInv`: for a session since whose opening nobody has committed, what it read is what is stored; a report has left each container it passed covering its contents (`Climbs`), a run works from its job down and back (`Descending`) |
| `RetentionProofs!FilesAlwaysAccounted`, `SamplesStayInWindow` | one invariant: both properties (a file without a row or a submission is of a failed step or a member passed over, `Left`), what each sweep knows at each of its steps - which rows it has read, that a content on its list has no job in the window, that what is left to delete is needed by no row it did not doom (`Knows`, `Reporting`) - and that a submission between store and commit has its file unless a sweep was at work since (`StoredInv`). Rows committed during a sweep are younger than what it dooms; that is what the second needs |
| `ConsoleProofs!RevokedTokensAreDead` | `EpochInv`: unless two logouts overlapped, there is one at most, it writes the epoch after the one in force, and what is revoked was signed in an earlier one |
| `ConsoleProofs!SightIsAlwaysKept` | what a step may not do to tokens and jobs: nothing that was signed is taken back or changed (`TokensStay`), and no job changes hands (`JobsStay`), whatever tenant the next start is given; so a token that claims a tenant has one identity for as long as it verifies |
| `ConsoleProofs!WeightsAreAccounted` | `WeightInv`: a weight in force is the default, stands in an event of the trail or in one whose loss was counted, is about to be recorded, or will be read by a change that has yet to look. `TypeOK` with the requests between their steps (`OpsTyped`) |
| `ConsoleProofs!EvidenceLeavesTheConsole` | `AttestSpec => Spec`: the composition does to the console what the console does, so that the theorems about it hold of the composition too |
| `ConsoleProofs!StatedEngineRanAlways`, `DigestIsReproducible`, `UntouchedAlwaysVerifies`, `AcceptedIsAlwaysExported` | `RowInv`: a run is of the image that runs, and a captured manifest is of the image of the verdict unless a report came after it or a run left it over. `SheetsInv`: what an export is, of whichever row and under which key it was made: instants in their written form, the signature of just what is said, a digest of the score, the engine that detonated, Joe's number and the sentences, and of nothing else. The rest is about the verifier: it accepts only the payload that was signed |
| `EvidenceProofs!RanIsAlwaysOwn`, `ResubmissionsAreFaults`, `ReportsAreAccounted` | inductive invariant over the queue, the batch, attempts and tasks: a job in the hands of a thread is in the queue (`Queued`), the task it follows was made for it by its engine (`Follows`), a report it has is its own (`ReportsOwn`), and every submission but the last is paid for by a fault (`Paid`). A process is climbed from along a path that meets each process once (`ClimbedRises`), so a path to the root is no longer than the report (`RootPathFits`, by counting); and a chain of parents that comes back to where it was never leaves that loop (`LoopIsClosed`), so one that reaches the root is the path that is climbed (`DescendantIsSample`) |
| `IntakeProofs!NothingInsideIsReached`, `EverythingIsBounded`, `EveryMemberIsAccounted`, `BlindSpotsAreSaid` | `FetchInv`: every connection is paid for by a turn of the redirect loop of an attempt, and an address is public before it is pinned. `ArchiveInv`: a run is as deep as it stands in the stack, what is spent and what is left add up to the cap, a listing that a run works through is whole (`Whole`), and what of it is stored and no longer on the list has a row unless a signal is set (`Followed`, `Entered`). The signals travel because `Rate` reads the marks of everything below. A reader goes through its listing by recursion; that it accounts for every member and keeps to its budget is a lemma by induction over the length of the listing |
| `IntakeProofs!GuessesAreBounded`, `HeadersAreHonest` | `RateInv`: what counts of an address's bucket is what counts of the attempts it was let through to, unless the bucket was dropped. `Recent` keeps a tail; a sweep drops only what counts nowhere, or the address is among `dropped` |
| `EvidenceProofs!AssessmentsAreKept`, `AnalysingAgainAgrees` | `AssessInv`: the row holds the identity of its file and findings that an analyzer of its family can have made (`AnalyzersAreHandled`), so the ingest, which goes by the row, and the pipeline, which goes by the file, assess alike (`IngestedIs`), and an ingest that re-runs the analyzers leaves none of the old findings behind (`IngestLeaves`); `today` says when that was the last writer |
| `EvidenceProofs!DiscountedTracesNameNothing`, `OneFactNeverConvicts`, `BuildingWeighsLittle`, `RowsAgree` | from that, about the functions, for any number of findings. A band of the score is worth less than twice its weight (`SaturateIs`: the recursion over the number of findings, by induction over it), so what is `Light` weighs 7.3 points at most and what is `Lone` 26; the model's part is between 0 and 100 (`ModelScoreBounds`, over the whole table); correlated findings collapse to one (`FactIsCountedOnce`); a trace of CAPE that does not count corroborates nothing (`TraceCorroboratesNothing`) and adds no opinion to the panel (`TraceIsNoOpinion`) |
| `EvidenceProofs!RenamingNeverHides` | the content decides the family wherever it is recognised (`ContentDecides`), and only the name is left when it is not |
| `EvidenceProofs!SignaturesAreVouchedFor` | `ChainGrows`: the recursion that builds a chain, as a function on `0..n`. Each certificate of a chain names the next as its issuer (`ChainLeads`), the part that signatures confirm is signed by the next one's key (`LinkedLeads`), so all of it is reached from the key that signed the attributes (`ChainVouches`, by induction over the length), the anchor included (`VerifiedIsVouched`). Two bags of the same unambiguous certificates have one leaf, one holder of each name and so one chain (`SameLeaf`, `SameHolder`, `SameChain`) |
| `EvidenceProofs!ExportsAlwaysAgree` | `RowsAccuseAlike`: bundle and record ask one question of a row, before there were verdicts as after; what the bundle lists is public, hence outward |

The type invariants of the first four modules and `AppendOnlyAtTail` are
theorems and no run repeats them. Those of the others are part of a property
that a run checks and a theorem states (`Bounded`, `FilesAccounted`,
`GuessesBounded`, `WeightsAccounted`) or of the invariant of their proof.

Induction over the naturals goes through sets, since the prover cannot
instantiate a rule that takes an operator: every non-empty set of naturals has a
least member (`Least`, from the library's well-founded minimum), so what holds
of 0 and passes from each number to the next holds of all of them (`UpTo`).
`Steps` gives a function on `0..n` that satisfies a recursive equation, which is
what the `CHOOSE` of a recursive definition needs.

Only model-checked:

- everything under fairness, which is beyond the prover: `AllSettles`,
  `BacklogDrains`, `PurgedInTheEnd`, `LeavesTheQueue`, and the liveness in
  `Implements`.

## 5. Findings

`incident.py:192` promises that "anything unparseable is treated as OUTWARD".
`analyzers/generic.py:138` ends a URL before a closing bracket, so that
`http://[2001:db8::1]:8080/x` in a script is listed as `http://[2001:db8::1`.
`_points_inside` (`incident.py:205`) hands it to `urlsplit`, which raises
`ValueError`; nobody catches it, and the incident export and the incident annex
of the PDF fail for that job (`UnparseableIsOutward`, run
`incident_unparseable`). The STIX export takes the same indicator.

## 6. Observations without a run

Seen while modelling. Where a definition is named it stands in the module as a
claim the code does not keep: put it as the only property into the `.cfg` named
and TLC shows a behaviour.

Claims of the source that do not hold:

- `AnchorCountsVerify` (`AuditChain.cfg`): `checkpoint()` counts all events, not
  those up to the head it read one statement earlier (`audit.py:785`). An append
  in between makes the signed count too high, and `verify_checkpoints` reports
  an untouched table as tampered with.
- `UnpackedOnce` (`JobLifecycle.cfg`): a member is promoted once
  (`pipeline.py:372`), but a member whose flush raises rolls back the container's
  transaction (`pipeline.py:709`), and with it the lock and the rows of the
  members so far. The container goes on with the members it had listed, while a
  second run may unpack them too: rows are missing or there twice. The comment
  "the job row itself was committed before analysis started"
  (`pipeline.py:700`) is not true of a member.
- A `db.commit()` or a second `_record_failure` that raises is a line in the log
  (`runner.py:59`, `pipeline.py:719`): the row stays in flight and nobody looks for
  it before the next restart. `NoOrphan` and `AllSettles` name these rows (`lost`).
  The handler in `run` asks the job for its name, which an object expired by a
  failed flush may answer with another exception.
- `OneReanalysis` (`JobLifecycle.cfg`, with `MaxCrashes = 0` for a short one): the
  claim of a re-analysis leaves `started_at` (`api/sandbox.py:639`), so a row
  whose `started_at` is NULL or stale is won by every further caller too.
- `FirstCompletedOnce` (the same): whether `first_completed_at` is NULL is asked
  of the copy loaded before the row lock was waited for
  (`engine/pipeline.py:1170`); an overlapping run writes it again.
- `RunKeepsDetonation` (`Seam.cfg`): the merge at the end of a run merges
  `analysis` alone (`engine/pipeline.py:1134`). A report that landed between load
  and first flush keeps its evidence and loses `tiers.dynamic.ran` and its score.
- `BacklogDrains` with `Ceiling = 2` in `SeamInOrder.cfg`: each poll scans the
  oldest `SCAN_CEILING` completed rows from offset 0, those already detonated
  included (`api/dynamic.py:216`), against "a page it cannot fill this time it
  fills on the next one" (209-210); later jobs are never offered.
- `ContainerCoversContents` (`Container.cfg`): containers are read without a lock
  (`engine/pipeline.py:523`); of two reports on two members that overlap, the
  later commit may lower the score the earlier one raised.
- `HeldHasFile` (`Retention.cfg`): a job submitted while a sweep is at work may
  lose the file that the sweep had already decided on (`retention.py:155`).
- `MalwareIsBounded` (`Retention.cfg`): "to bound the malware held on disk"
  (`retention.py:77`): a member that was stored and passed over, at a cap, at the
  depth limit or before a password is asked for, has a file and no row, and no
  sweep ever deletes it.
- `UnseenSurfaces` (`Intake.cfg`): "a blind spot found three levels down is still
  this submission's blind spot" (`pipeline.py:826`): only four signals are lifted.
  An archive in an archive that waits for a password, fails to open or is cut
  while it is listed leaves the outermost row silent.
- `SplitIsWhole` (`Console.cfg`): two changes of the weights may interleave
  between the two assignments (`engine/scoring.py:992`), and the parts of the
  split no longer sum to 1.
- `RevokedStaysDead` (`Console.cfg`, with `SecretKept = TRUE`): a restart forgets
  the epochs; with `SECRET_KEY` configured, revoked tokens open again until they
  expire.
- `ManifestReachedVerdict` (`Console.cfg`): `ingest_report` scores the row again
  and leaves `engine_manifest` as the last run wrote it, and the run itself reads
  the blend twice; against `attestation.py:447`. An `engine_manifest()` that
  raises leaves the manifest of the run before (`pipeline.py:1177`).
- `TrailHoldsWeights` (`Console.cfg`): "the chain of custody is the only place
  their history exists" (`admin.py:91`), and an event that `audit.record()` gives
  up is in neither place: the split is in force and the caller is told nothing
  (`audit.py:420-448`).
- `TasksAreVolatile` (`Console.cfg`): task numbers are taken out of the digest
  (`attestation.py:387-395`), but not Joe's, which is called `submission_id`: two
  detonations in Joe with the same findings have two digests.
- A token from before tenancy claims no tenant and is read under the
  `ANALYST_TENANT` of the day, "where its jobs were backfilled" (`auth.py:179-184`);
  migration 0006 has backfilled them to "default".
- `NoEngineIsBelieved` (`Assessment.cfg`): that a trace of an uncalibrated platform
  or of a file nothing runs contributes nothing is asked of ids that start with
  "capev2." only (`scoring.py:605-609`). The findings of the other engines, which
  are those that run ELF, give capabilities, techniques and score.
- `NoWeakSignature` (`Assessment.cfg`): "signed only under one of these is reported
  as signed and NOT treated as verified" (`authenticode.py:115-118`); the digest of
  the signer (1002) is not among what is asked (376), so attributes signed under
  SHA-1 over a SHA-256 of the file are verified.
- `BuiltIsNotAccused` (`Assessment.cfg`, with `MaxStatic = 5`): "so these stop
  accusing" is said of what is only how a signed file was built
  (`scoring.py:268-271`). Its findings are lowered, but the features that the
  model reads and the capability of an import combination are not
  (`scoring.py:787-883`): a file whose publisher is verified, with a section of
  high entropy, the section of a packer, an import combination, an overlay and
  the UPX rule, scores 30.4 with two engines on the panel and is "malicious". It
  takes five findings at once; that the claim holds for three is what the runs
  had shown. What does hold for any number is `BuiltWeighsLittle`.
- `TraceMovesNothing` (`Assessment.cfg`): correlated findings are collapsed by
  reported severity before the demotions (`scoring.py:693`), so a trace that
  counts nothing (`scoring.py:394-395`) may displace a finding that counts.

Jobs, seam and containers:

- A late "unavailable" report takes a detonation back: `dynamic.py:533` drops
  every older dynamic entry, against the "only ever goes from not run to ran" of
  `pipeline.py:1118`. `Implements` excludes it by reports that come in order.
- A member's own re-analysis, or its password, is never applied to the
  containers above it: only `dynamic.py:693` calls `reapply_to_ancestors`. Set
  `Asked = {3}` in `Container.cfg` and check `ContainerCoversContents`.
- A hung run holds the row lock, so the reclaim of a stale row
  (`sandbox.py:632-633`) waits for it until the process is restarted.
- `running` is never visible to another session: a run commits once, at its
  end (`pipeline.py:4-6` against `runner.py:47`).
- A report clears or keeps `error` without regard to what wrote it: the reason
  of a failed re-analysis goes with the next report (`dynamic.py:629-635`), and
  two re-analyses around a pending refusal can lose the refusal's reason
  (`pipeline.py:755`, `dynamic.py:611-613`).
- A purge leaves the text "Queued for detonation" of the tier record
  (`pipeline.py:230`, `retention.py:163`).
- `QUEUE_LIMIT` samples that crash the engine each time, at the head of the
  queue, keep every other job from it (`agent.py:336` reports them as
  unavailable, so they are offered again).

Audit: the reads of `checkpoint()` are outside its `try`, and a fault there makes
`record()` return None for an event that is committed (`audit.py:420`, `358`);
the loser of a checkpoint race is dropped although the winner may cover less
(`audit.py:816-817`).

Retention: the "deepest first" order of the report sweep is lost in the flush,
which deletes in the order of primary keys, so a doomed row with members makes
that sweep's commit fail each time, after files were unlinked. A re-analysis of an archive stores a purged member's file again under a row that
stays purged. Two sweeps that mark one row make the later one roll back.

Rate limits: with two full buckets Retry-After is the smaller of the two.
`/api/auth/login` and `/api/dynamic/` share the name of one rule, and with it
their buckets.

Console: nothing bumps the epoch when ANALYST_PASSWORD changes (`auth.py:121`
speaks of it); two overlapping logouts may write the older epoch; a restart
resets the weights without a record.

Attestation: the digest of the rules is of the files at its first use, the rules
are compiled at import. The name of a worker of two characters stays in the
sentences of an old release (`report.py:178`).

Intake: a body is read without looking at the deadline (`fetcher.py:48` calls it
wall clock). A full quarantine is caught inside `fetch`, tried again and answered
with 502. A name service that fails for a moment is final (422), a status such as
404 is not. A crash leaves a `.partial-*` file nobody sweeps. The signal of a 7z
bomb (`archives.py:688`) is overwritten at 882. A member list cut at
`MAX_MEMBERS` by the 7z and RAR readers, and the budget in a RAR, leave
`truncated` unset. A damaged tar reports an empty archive and
nothing else. A nested
container that is analysed again starts at depth 0 with a fresh budget. Of two
members of one name only the later row is run again, twice.

Engines: `_CALL_RE` of the native engine reads no line of `strace -f -tt`. A
worker with firejail and strace takes every ELF first (`agent.py:212-219`) and
answers "unavailable", so no ELF reaches CAPE there. Cuckoo, Joe and the two
local engines refuse nothing for good, so what they cannot run is offered for
ever; so is a sample whose report does not parse. A worker that knows no engine
for a family refuses it on behalf of every other worker (`agent.py:230-247`). On a timeout the
task stays in CAPE's queue and the next attempt submits another. Cuckoo and Joe
wait for the deadline on states that are final. An address that refused once and
answered once is in both lists; a number of a process that is used twice names
the later one.

Assessment: a deployment that changes the family of a file leaves it, on the next
report, the findings of analyzers that no longer see it; a re-analysis drops them.
A detection ratio can be 1 of 1 on a clean file. A match of YARA counts
with its own severity, also out of its scope, and feeds the model. A trace that
is not attributable still adds the points of its `low` findings. 25 addresses of
a detonation alone make a verified, packed program with an import combination
malicious. A disk image, or any recognised content of no family of its own, that
is called `.ps1` or `.js` goes to the script analyzer without a mismatch. YARA
keeps the first 100 signals in file order and stops after 30 s. An authority
is trusted by the label of its anchor for the expiry, and links do not ask for
the CA flag. Only the first 64 certificates of a signature are read
(`authenticode.py:461`), so that in a longer bag the order decides whether the
publisher's is among them: what `OrderIsNothing` says of longer bags would be
false, and it is stated of those that are read whole. A chain ends after 17
(`authenticode.py:876`). Two first verifications at once may see the anchors without the
operator's override (`trust_anchors.py:205`).

Exports: every IPv6 address counts as outward in the record, loopback included
(`incident.py:207`); multicast is own infrastructure in STIX and outward in the
record; a URL of localhost is an indicator of a malicious file's bundle. A row from before verdicts, at
medium risk, is "suspicious or worse" and its act "not evidenced". The bundle of
a clean row lists its techniques as attack patterns.

## 7. Not modelled

The static analyzers of documents, scripts and other families are byte-level
parsing; their findings are the inputs of `Assessment`. Rendering (PDF), the
timelines and the wording of the incident record, configuration, metrics, the
frontend, the infrastructure and the one-off tools have no state that two actors
meet on. The look-ups at external services keep no state of their own.
`PROJECT.json` gives the reason for each part.

## 8. Plan

Done: every module of section 2, and proofs about every component. Next:

1. Proofs: `Least`, `UpTo` and `Steps` stand in `EvidenceProofs` and in
   `IntakeProofs`; with a third user they deserve a module of their own.
2. Modelling: the rollback of a container by its member in `ContainerTree` too,
   for what it leaves of scores and verdicts; deployments that change the family
   of a file in `Assessment`; the strace parser once it reads what it is given;
   the order of the external look-ups and their time limits.
