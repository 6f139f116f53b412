# Forge Data in TLA+

Forge Data takes raw sensor uploads through nine stages (ingestion, validation,
integrity, normalization, synchronization, cleaning, transformation, QC,
packaging) to a versioned dataset package, and keeps a catalog of what was made
from what. This directory holds TLA+ models of the parts of it that keep state
and run concurrently, the TLC configurations that check them on small
instances, and TLAPS proofs of the properties that matter most.
`PROJECT.json` is the machine-readable index: components, runs, mutants, the
map from definitions to source lines, findings, hazards and theorems.

## The system

### Who runs

* **Application processes** (`app/main.py`, uvicorn). HTTP handlers are
  `async def` functions that call synchronous services, so within one process
  a request runs to its end before the next one starts; a pipeline run however
  executes in a background thread, and several processes (uvicorn workers, the
  `forge` command line) share one storage directory and one `catalog.db`.
  Everything between two transactions, or between two file system calls, may
  therefore interleave with the steps of another process or thread.
* **SQLite** in WAL mode: a write transaction is `BEGIN IMMEDIATE .. COMMIT`,
  excludes other writers (who wait up to `CATALOG_BUSY_TIMEOUT_MS` and then
  fail), and readers see the last committed state. Reads outside a transaction
  are separate steps.
* **The file system**: `mkdir`, write, `fsync`, `rename`, `unlink`. Processes
  die between any two calls; power may be lost.
* **Operators**, who scan, rebuild, clean up, judge artifacts and restart.

### Components

| component | state | operations | talks to | what is hard | correct when |
|---|---|---|---|---|---|
| pipeline runs `runs/` | `pipeline_runs`, `pipeline_stage_runs`, `run_artifacts`, `run_events`; the executor's program counter | create, cancel, execute stage by stage, heartbeat, reconcile at start-up | stage services, database | cancel races with status writes; executor dies, or is slow and declared lost; a lock timeout at any transaction; capacity | rows, events, artifacts and status agree; every run ends; the limit holds |
| artifact stores `storage/` | directories in staging and final places, their files, journal | stage, write, commit by rename, discard; two commits for raw uploads | file system, recovery | crash or power loss between any two calls; a failing stage; a discard that fails too | readers see whole artifacts or none, and never one whose writer failed |
| staging recovery `storage/recovery.py` | none (reads journals) | scan, classify, cleanup_stale | stores | removing what a live writer is about to publish; its own death | abandoned directories go, nothing else does |
| catalog index `catalog/scanner.py`, `service.py` | `artifacts`, `lineage_edges`, `lineage_issues` | scan, rebuild, health | file system, database | roots are read one after another while stages publish; strict failure half way; altered manifests; directories that are removed | no edge is missing in silence; nothing leaves the index but what was removed; scanning again heals |
| governance `catalog/governance.py` | current state and event log of artifacts and versions | set state, upstream gate, supersede | stage routes, registry, rebuild | gate and use are separate transactions; judgments race | no healthy verdict over an invalid ancestor; log and state agree |
| dataset registry `catalog/service.py` | `datasets`, `dataset_versions` | create dataset, register version, list, compare | governance, index | racing registrations; stale checks; packages that are removed | a registration a client was told of holds |
| selective rebuild `catalog/rebuild_*.py` | a plan store per process, a lock per replaced artifact | plan, execute, supersede | stages, governance, index | overlapping rebuilds; a step that fails after its artifact is published; stale plans; death half way | products have the parents the plan says; successors are replacements; nothing is made downstream of a failure; locks come back |
| verification `catalog/verifier.py` | none | verify, recursively | index, disk | precedence of outcomes | no corrupt artifact is called verified |
| catalog database `storage/catalog_store.py` | the tables above | schema, connection | all of the above | lock timeouts | |
| intake: ingestion, validation, integrity, normalization | raw files, manifests, reports, normalized artifacts | upload; look up reports, read the raw file, judge, publish | stores, routes, runs | several lookups in one request while others publish; reports stamped before they are written; a raw file that changes on disk | normalized data is what was uploaded, checked and accepted |
| synchronization, cleaning, transformation, QC, packaging | none of their own | look up and check the inputs, process rows, publish | stores, routes, runs, rebuild | verdicts and checksums of inputs; lineage across stages | a package rests on accepted inputs of one session |
| row algorithms of stages 5, 6, 7 and 9 | cursors, buffers, open windows, pending group | align, clean, window, group, split, audit | each other's output | one pass with bounded memory; ties, gaps, boundaries | what one pass finds is what the whole input defines; splits share no row |
| sensor plugins, configuration, utilities, CLI, web interface | read-only after start | | | | |

## The modules

| module | models | runs |
|---|---|---|
| `PipelineRuns` | `app/runs`, start-up reconciliation | through `MCPipelineRuns` |
| `PipelineRunsProofs` | theorems about `PipelineRuns` | TLAPS |
| `AtomicPublication` | abstract specification: what storage promises readers | refined by `ArtifactStore` |
| `ArtifactStore` | `app/storage`: writers, commit, recovery, power loss | through `MCArtifactStore` |
| `ArtifactStoreProofs` | theorems about `ArtifactStore`, among them the refinement | TLAPS |
| `RecordChecks` | what validators, integrity checkers and the normalizer make of records | used by `IntakeGates` |
| `IntakeGates` | stages 1 to 4 as concurrent requests | through `MCIntakeGates` |
| `IntakeGatesProofs` | theorems about `IntakeGates` | TLAPS |
| `StageServices` | stages 5 to 9 as they depend on each other; `ArtifactVerifier` | used by `SelectiveRebuild` |
| `SelectiveRebuild` | `app/catalog/rebuild_*.py` composed with the stage services | through `MCSelectiveRebuild` |
| `SelectiveRebuildProofs` | theorems about both | TLAPS |
| `RowStreams` | the rows of stages 5 and 6: alignment, cleaning | used by `SampleSplits` |
| `RowStreamsProofs` | theorems about `RowStreams`, with the inductions both proof modules need | TLAPS |
| `SampleSplits` | stages 7 and 9 on top: windows, groups, splits, audit | through `MCSampleSplits` |
| `SampleSplitsProofs` | theorems about `SampleSplits` | TLAPS |
| `Catalog` | `app/catalog`: index, governance, registry, with publication behind the gate | through `MCCatalog` |
| `CatalogProofs` | theorems about `Catalog` | TLAPS |

Every component module also defines *mutants* ("a slip" in the comments of the
newer modules): faulty forms of operations, used by no specification.
Substituted for the operation they precede they make the property they are
paired with in `PROJECT.json` fail, which shows that the property can tell.

### PipelineRuns

A run is a row and an executor. `pc[r]` names the transaction that the executor
enters next, `pos[r]` the plan position it is at; each `with transaction()`
block of the code is one action, and what lies between two blocks may
interleave. `rows`, `artifacts`, `events`, `status`, `error` and `heartbeat` are
columns of the tables (`heartbeat` abstracted to null, fresh, stale);
`produced` is what the stages really put on disk. `plan_stages` builds the plan
from the streams as `executor.py` does, and `RowOf` models that stage rows are
found by stage *name*, the last one created winning. Two streams of one
sensor_type, which `validate_request` accepts, share their names (`Repeated`):
the later stream writes its progress over the rows of the earlier, and the rows
created first stay pending for ever. The properties therefore speak of the rows
stages are addressed by, and say of shared ones what remains true.
`catalog_busy` is a lock
timeout at whichever transaction comes next, with the path the exception takes
there; `crash` removes an executor; `heartbeat_ages` makes a live executor look
dead when `"slow"` is in `Env`. `sweep` holds the rows a start-up `reconcile()`
has selected and not yet visited: they are re-read in a transaction each.

### ArtifactStore and AtomicPublication

One action is one file system call, or a loop of calls that nobody else can
tell apart. A file is absent, partial or whole. `fsynced`, `listed` and
`settled` say which contents, directory entries and renames have reached the
disk; `power_loss` keeps those and chooses freely among the outcomes for the
rest (`Survives`, `PlaceAfter`). A writer of a derived artifact stages, closes
its files, rewrites the journal, syncs, unlinks the journal, renames, syncs the
parent. A raw upload does so without its manifest, which is then committed by a
second single-file rename. A call that raises or dies half way may leave a
temporary file half written (`HalfWritten`, `CutShort`), and `AfterFailure` says
whether anything discards the directory then: not while its journal is being
written, and not while `CleaningService` builds its rules, of which the
duplicate rule opens an index there (`Indexed`, `build_rules`) before the `try`
begins. `discard_staging_dir` and `cleanup_stale` pass over what they cannot
remove (`"stuck"` in `Env`). `cleanup_stale` lists old journals and removes the
directories one by one, each entry by entry, as `shutil.rmtree` does.

`AtomicPublication` says only what readers may see: an artifact is not there or
there whole, and what was acknowledged stays. `ArtifactStore` refines it with
`reader` mapped to what a lookup through the manifest finds.

### Catalog

`disk` is what the manifests say, `index`, `edges`, `issues` the tables a scan
derives. A manifest may be altered and an artifact's directory removed behind the
catalog's back (`alter_manifest`, `remove_artifact`): a scan leaves the row of a
removed artifact in the index, a rebuild drops it. A scan is a transaction on a working copy `work` that visits one
storage root per step while `produce` publishes into them; it rolls back on a
conflict or cycle, in strict mode (`rebuild`) also on a missing parent, and is
committed in one step. Since writers exclude each other, every other write
transaction needs `txn = "none"` and is one action. Requests that check first
and write later have two actions with the request's locals in `call[c]`:
`enforce_gate`/`produce`, `register_version_checks`/`create_dataset_version`,
`mark_superseded_reads`/`mark_superseded`. Lineage issues only grow until a
rebuild clears them, as in the code. `rebuild()` reads row counts before it takes
its lock (`rebuild_counts`) and compares them after its commit
(`rebuild_returns`): datasets, versions, both governance tables, and the run
tables, which another module models and which may have moved or not (`"runs"` in
`Env`). Where they differ it is `"asserted"`: the caller gets an error. Two
history variables: `began` is what was on disk when the scan began, `told` the
registrations clients have been told of.

The two event tables are kept as one sequence `trail`, oldest first. Of the
nine roots an instance keeps the ones its artifacts live in.

### RecordChecks and IntakeGates

`RecordChecks` reduces a value to the classes stages 2 to 4 tell apart (absent,
null, of another type, non-finite, implausible, plain) and gives the verdicts
and the normalized output as functions of the records of a file. Records go by
their numbers: what the readers yield is a set of record numbers, and the
timestamps that are compared are those of `Successive` ones.
`IntakeGates` is what several requests do with them at once. A request's local
variables are `req[r]`; its steps are the lookup of the raw manifest, the
lookups of the latest reports (`normalize()` makes two, in two steps), the
reading of the raw file, and the publication. `alter_raw` changes a raw file
behind the services' back, `readBy` records what each request really read and
`seen` the reports that were there when it was asked for.
Reports carry the stamp they got before they were written, so the latest by
stamp need not be the last to appear. A byte content stands for its own SHA-256.

### StageServices and SelectiveRebuild

In `StageServices` an artifact is its parents, its verdict and its session;
`damage` is what has happened to its files. An actor passes the gate of a stage
(`begin_stage`), and later publishes (`commit_stage`) or raises. Stages hash
their input and open it again afterwards; nothing in the code protects them
from a change in between, so files in use are assumed to stay (`InUse`).
`Verify` is the verdict of the verifier on the same files.

`SelectiveRebuild` adds worker processes. The routes are `async def` functions
that call services synchronously, so a worker does one thing at a time and its
plans are in its own memory. A plan is the replaced artifact, its replacement
and the descendants; `check_plan` is the fingerprint comparison, `acquire` the
lock, and then one action for the start, the end and the marking of each step,
since `_mark_superseded` is a transaction of its own. The topological order is
left open: any step whose parents are done may be next. What the model makes
visible, and the properties hold in spite of:

* the lock is per replaced artifact, so overlapping rebuilds run side by side
  and the last one to mark wins in `superseded_by`;
* a rebuilt cleaning may be rejected, and a rebuilt QC may fail, and still
  supersede the old one (the next step then fails at its gate);
* new artifacts are unknown to the catalog until a scan, so the fingerprint of
  a plan does not change when another rebuild has just finished;
* a busy catalog in `_mark_superseded` reports a step as rebuilt *and* failed,
  and later steps are skipped although the artifact exists.

### RowStreams and SampleSplits

One action is one row. `RowStreams` moves a cursor per stream past the samples
at or before a target timestamp and aligns with the one before and the one
after it, then passes each row through the cleaning rules in their order;
timestamps are integers, clock correction rounds half to even as Python does,
interpolated values are exact fractions. `SampleSplits` cuts the rows that were
kept into windows (by count with a buffer and a skip, by time with a set of
open windows), finds groups of overlapping samples, assigns splits and audits
them; the audit's `current_max_end` is the recursive function `MaxEnd`.
The target of a sequential split is a product of floats, which may come out
above the whole number it stands for (`0.55 * 100` is `55.00000000000001`), and
then this number of samples has not reached it: `finish_grouping` chooses the
targets that do (`above`), among those that are whole numbers.
`RowAssumption` and `SplitAssumption` say which requests the services let
through before the first row is read. When a stage starts, what the previous one kept in memory is reset, which
also lets TLC identify states that later stages cannot tell apart. Seen there:

* in count mode only the first incomplete window is kept, in time mode all;
* a sequential split with a validation ratio of zero and a positive test ratio
  never leaves validation (`splitter.py:69` moves on only from a positive
  target), so such a package is always rejected with `EMPTY_REQUESTED_SPLIT`;
  `SequentialFillIsTight` says so;
* the ratios may sum to `_RATIO_TOLERANCE` less than one (`Tolerance`); with so
  many samples that this is worth one of them, a sequential fill reaches its last
  target early and the rest goes to a split whose ratio may be zero. That no
  split gets samples unasked is said of ratios "less than a sample short" for
  this reason (`RatiosAddUp`);
* a target hit exactly may be overshot by a group, when its float is above it;
* in stream mode samples of another stream that lie beyond the last reference
  sample are never read, so disorder there is never noticed.

## What the runs check

| run | instance | checks | shows |
|---|---|---|---|
| `intake_gates` | one ingestion, four requests, six contents | `NormalizationIsGrounded`, `NormalizedAsChecked`, `SeenVerdictsAreHeeded` | no interleaving of lookups, publications and altered files lets normalization use a mixed pair of verdicts or other bytes, or go by an earlier-stamped report than one that was there when it was asked for |
| `selective_rebuild` | two workers, one client, three pipelines in two sessions, one fault | `LineageIsSound`, `VerifierAgreesWithGates`, `RebuildFollowsThePlan`, `SuccessorsAreRealReplacements`, `ExecutionsEnd` | rebuilds that overlap, fail or die keep lineages sound and give their locks back |
| `sample_splits` | a reference stream of up to four samples, one other stream, 8 synchronization, 10 cleaning, 31 window and 16 package settings | `AlignedToTheNearest`, `FirstOccurrencesSurvive`, `WindowsCoverTheirRows`, `SplitsShareNoRow`, `SequentialFillIsTight` | one-pass algorithms agree with their definitions over the whole input |
| `runs_safety` | two runs, one slot, two streams of one sensor_type and a shared stage, all disturbances | ten properties | rows, events, artifacts, status and capacity agree under every interleaving of cancel, errors, crashes, lock timeouts, slow heartbeats and sweeps |
| `runs_liveness` | two runs, two slots, cancel, stage errors, crashes, restarts | `LostRunsAreReconciled`, `AcceptedRunsFinish` | no started run stays live for ever |
| `store_crash` | one cleaned artifact with a duplicate index, one upload, errors, crashes, cleanup | `PublishedIsWhole`, `FailedIsUnpublished`, `FailuresCanBeCleanedUp`, `PublishesAtomically`, `AbandonedStagingIsRemoved` | readers see whole artifacts and never a failed one; what a failed stage leaves is recognised, and repeated cleanup removes abandoned directories |
| `store_power_loss` | one package of two files, also power loss, cleaner death, entries that cannot be removed | `PublishedIsWhole`, `PublishesAtomically` | the order of fsyncs is sufficient |
| `catalog_index` | a diamond of transformation, QC, package; altered manifests, removed directories, rebuilds, lock timeouts | `EveryGapIsReported`, `CatalogOnlyForgetsTheRemoved`, `ScanRegistersWhatWasThere`, `ScanNeverOverwrites`, `PublishedBecomesRegistered` | scans racing with publication and removal report every gap and heal; only what was removed leaves the index |
| `catalog_governance` | a chain with two packages, one version key, two requests, two governance events | `HealthyVersionsAreSound`, `AuditTrailAgrees`, `RegistrationsHold` | healthy means sound; log and state agree; of two racing registrations one wins for good |

Three runs are expected to fail: each states what a comment, docstring or the
guide says and finds a behaviour of the code that differs.

| run | statement | what happens |
|---|---|---|
| `runs_transitions` | `executor.py:134`: checking first never clobbers a pending cancellation | a cancel that commits between the check and `update_run_status("running")` (line 145) is overwritten |
| `store_slow_writer` | `atomic.py:8`: no partial artifact at a final location | `cleanup_stale` removes files of a live writer older than the threshold, whose rename then publishes the rest (`recovery.py:167`) |
| `catalog_stale_gate` | `register_version` rejects packages with an invalid ancestor | an invalidation between gate and insert is not seen (`service.py:748`) |

More disagreements are part of the models and have no run of their own:

* a run that dies before `mark_running` stays queued and keeps its slot, since
  reconciliation selects only running and cancel_requested rows
  (`repository.py:126`; the guide, line 4404, says such a run fails);
* of two streams of one sensor_type the second runs in the rows of the first
  (`executor.py:99`), so rows that have ended are written again, against the
  guide's diagram (line 4172): `StageTransitionsLegal` says which rows and how;
* `build_rules` raises before the `try` that discards the staging directory
  (`cleaning/service.py:157`): directory, journal and duplicate index stay, where
  `duplicates.py:88` says the index is removed; `FailuresCanBeCleanedUp` says that
  cleanup recognises them;
* `_mark_superseded` reads the previous state before its transaction
  (`rebuild_executor.py:138`): a judgment in between is overwritten and missing
  from the event, which `repository.py:330` excludes;
* `rebuild()` asserts that no user table changed between its two counts
  (`service.py:203`): a dataset created meanwhile trips it after the commit;
* a validation ratio of zero takes all that train leaves (`splitter.py:69`), where
  `splitter.py:55` has the fill go on to the test split.

The passing properties are stated so that they hold beside these behaviours:
they say what readers can rely on in spite of them.

### Bounds, and why they are enough

* *Runs*: two runs are needed for capacity and for a sweep that meets two rows;
  runs do not otherwise interact. Three stages give a first, a middle and a last
  one, so that there are completed, current and remaining stages; in
  `runs_safety` the first two belong to two streams of one sensor_type and share
  their row, in `runs_transitions` all three are different. The proofs cover any
  number and any list of streams.
* *Stores*: writers of different artifacts share only the cleaner; one derived
  and one raw artifact exercise both protocols and the cleaner's list; the
  derived one is a cleaned one, which has a step more than the others. Two data
  files allow a directory with some of its files. `"stuck"` is in the power-loss
  run and not in `store_crash`, where `FailuresCanBeCleanedUp` and
  `AbandonedStagingIsRemoved` presuppose that entries can be removed.
* *Catalog*: three ranks with a diamond let a scan miss the middle link while
  it sees both ends; two packages and two requests are what one version key needs
  to be fought over. `MaxEvents` bounds governance changes: two are enough for a
  judgment to be overwritten by a supersession that read before it. `"alter"`,
  `"remove"`, `"rebuild"` and `"runs"` are in the index run, `"supersede"` and
  `"abort"` in the governance run, `"busy"` in both.
* *Intake*: requests meet only in the reports of one ingestion and schema, so one
  of each is enough; four requests allow two validations, an integrity check
  between them and a normalization that looks up both. The contents are one
  file of each verdict, and an upload that is too large.
* *Rebuild*: a finished pipeline, one that ends with its cleaning and whose raw
  file was normalized again, and one of another session that ends with its QC
  report make every kind of request possible, compatible and not. One plan per
  worker, one call, one scan and one fault; the proofs cover any number.
* *Rows*: four reference samples allow a tie, a gap and a repeated timestamp in
  one stream; windows of size and stride up to three over up to four rows
  overlap, touch and skip. `Tolerance` is a quarter, so that four samples are
  enough for it to be worth one and three are not. With ratios in quarters the
  instance has whole targets for two and four samples; that a float comes out
  above one stands for ratios and numbers of samples it is too small for.
* `CHECK_DEADLOCK FALSE` everywhere: when all runs, artifacts or governance
  events of an instance are used up, the system has nothing to do.
* `RunSymmetry` permutes the runs of `runs_safety`, `RequestSymmetry` the packages
  and the requests of `catalog_governance`, which no constant distinguishes; they
  are used only where no liveness property is checked.

### Fairness

* `PipelineRuns`: weak fairness of each executor (a live thread keeps
  running; `crash` disables it for good), of the ageing of heartbeats (time
  passes) and of a start-up sweep, strong fairness of visiting a selected row
  (not every sweep is cut short). The last two say that processes restart again
  and again, the only time the code reconciles; without restarts lost runs do
  stay live, which the guide concedes.
* `ArtifactStore`: time passes and an operator calls `cleanup_stale` again and
  again; nothing in the code calls it unasked. Writers get no fairness.
* `SelectiveRebuild`: weak fairness of each worker's execution (a process that
  executes a plan is running code). Clients, scans and users get none.
* `Catalog`: somebody scans again and again (strong fairness: the write lock is
  taken by others in between), and a scan in progress goes on. No request is
  assumed to finish.

## What is proved

`PipelineRunsProofs`, for every finite set of runs, every capacity, every
`Env` and every list of streams, those with a sensor_type more than once
included: `TypeCorrect`, `StagesInOrder`,
`CompletedRunsAreWhole`, `CancelledRunsAreClosed`, `ProvenanceIsAccurate`,
`CapacityIsRespected`, `StageRowsMoveLegally`, `CancelledRunsAreQuiet`,
`HealthyRunsAreKept`, `LogTellsTheStory`.

The argument: none of these is inductive, because what a stage row may become
depends on where the executor is. `Inv` adds `Shape`, which says for each group
of executor locations what rows and artifacts look like before, at and after
`pos` (`NothingYet`, `BetweenStages`, `InsideStage`, `ClosingStages`,
`AllStagesDone`); which rows have been written so far is the image of the
positions under `RowOf` (`RowsUpTo`), so that a shared row follows the last
stream that was there. It also adds `StatusFollowsExecutor`, which ties the status to the
executor even after reconciliation has written a run off under a live one.
`NextInv` has one case per action. Capacity needs cardinality: every step but
`create_run` shrinks the set of slot holders (`NobodyElseTakesASlot`), and
`create_run` adds one run after counting a superset of them. The event log has
an invariant of its own, `LogInv`: an executor past `mark_running` has logged
`RUN_STARTED`, and a run that is to be cancelled `CANCEL_REQUESTED` (`LogSoFar`).

`ArtifactStoreProofs`, for any artifacts, any data files, any number of writers
at work at once and any mix of raw uploads and derived artifacts:
`TypeCorrect`, `PublishedArtifactsAreWhole`, `FailuresStayUnpublished`,
`FailuresAreCleanedUp`, `StoresPublishAtomically`. But for the types they have two
hypotheses, which are the conditions under which the stores promise anything. `WritersAreTimely`:
no live writer outlasts `STALE_STAGING_AFTER_SECONDS`; the run
`store_slow_writer` shows what happens otherwise. `FsyncsReachTheDisk`: where
power may be lost fsync is on and no raw upload is stored, since `original/` is
never fsynced. Both are met by the two passing runs, and neither restricts
errors, crashes or cleanups. `FailuresAreCleanedUp` has a third,
`EntriesCanBeRemoved`: a discard that gives up half way may leave a directory
without its journal.

The argument: where a live writer stands determines what is in its directory
(`FilledSoFar`, `FilledWhole`, `RawSteps`), what a dead one left is known only
if it is at its final place (`WholeIfFinal`), and the cleaner meets only
directories that are abandoned and not final (`Abandoned`). `DurableIfFinal`
follows the fsyncs: before the rename the contents, the directory entries and
the missing journal have reached the disk, in this order, so whatever a power
loss chooses to keep is whole. `FailedUnseen` says that a writer that failed has
no directory at the final place, or a raw one without manifest. Every action but a power loss concerns one
artifact (`OneArtifact`), which keeps the cases small. The refinement maps
`reader` to what a lookup finds; only the rename of a derived artifact and the
replacement of a raw manifest change it (`Seen`), the acknowledgement is a step
of its own, and a power loss takes back only what was not acknowledged
(`PowerLossLoses`).

`CatalogProofs`, for every lineage, any number of roots, requests and
governance changes and every `Env`, from the assumptions that parents have a
lower rank than their children (`LineageAssumption`), that `"none"` is no
artifact and versions are no artifacts (`CallAssumption`) and that artifacts
and versions are finitely many (`FiniteAssumption`): `TypeCorrect`,
`GapsAreReported`, `OnlyTheRemovedIsForgotten`, `ScansAreComplete`,
`ScansDoNotOverwrite`, `RegistrationsAreKept`, `VersionsAreBacked`,
`HealthyIsSound`, `TrailAgrees`.

The argument: what a commit establishes is prepared root by root in the working
copy, so the invariant follows the scan. `BeganIsCovered` says that
whatever was on disk when the scan began, has not been removed and lies below the
root read next is registered and linked in the working copy. Reading a root
preserves that because what was ever published is closed under parents
(`DiskIsClosed`: a stage publishes only what it made from published artifacts)
and parents lie in earlier roots. `IndexIsCovered` says the same of what is
registered already, so a rebuild that started from an empty copy still commits
all of it but the removed; with `OnlyCommitChangesIndex` the action properties
follow. `RegistryInv` follows a registration from its checks to its row: its
package stays accepted, and in the index or removed. For `HealthyIsSound`, an
index without issues has every real edge of what it holds, so the set reached
by recorded edges is closed under real ones (`NoGapsNoHiddenAncestors`; no
induction needed). The rebuild is part of these proofs, while the governance
run leaves it out to stay small.

`IntakeGatesProofs`, for any number of ingestions, schemas and requests and any
contents: `TypeCorrect`, `NormalizationsAreGrounded`, `SeenVerdictsGovern`,
`NormalizationsAreChecked`. The invariant says what a request has found by the
step it is at (`RequestIsGrounded`); it lasts because no step removes a report
or touches a stored manifest (`StepLasts`), and the bytes are right because
`normalize()` hashes what it reads (`WritesArtifact`). `Heeding` follows the
verdicts that were there when a normalization was asked for: reports may appear
later with earlier stamps, but the maximum taken at a lookup is never below what
was there before it, and what the request found stays. `History` adds what
requests have really read: a file that nobody altered is what the manifest
says, a judgment is about the bytes it was made from, and an integrity verdict
over them excludes records out of order. That the output is ordered then needs
that converting drops no record, so that neighbours stay neighbours.

`SelectiveRebuildProofs`, for any workers, clients, artifacts, mishaps, plans
and faults, from the assumption that what there is at the start was made by
these stages (`StagesAssumption`): `LineageSound`, `RebuildsFollowPlans`,
`SuccessorsAreReplacements`, `VerifierAgrees`. `StageInv` says that every
artifact has parents its stage accepts (`Fits`) and belongs to their session,
and that so will whatever is being made; it lasts because artifacts never
change (`Kept`) and files in use stay. On top of it, `ExecIsSound` follows an
execution: a step that has been made, or is being made, has its replaced
parents behind it for good (`ParentsAreDone`), so what they were resolved to is
final, and the session of a product is found through any one of its parents
(`ResolvedSession`). The topological order enters only through `NextSteps`.

`RowStreamsProofs`, for any number of streams, any samples and any
configuration that `RowAssumption` admits: `SinglePassAligns`,
`CleaningKeepsFirsts`. `AlignInv` says that each cursor stands between the
samples up to the last target and those after it (`Underway`); targets grow,
clock correction is monotone even with its rounding (`RoundMonotone`,
`CorrectedInOrder`), so what is behind a cursor stays behind
(`CursorSplits`, `LaterTarget`), and the nearest of all samples is one of the
two beside the cursor (`NearestIsBest`). `CleanInv` says that the rows kept are
the originals among those read (`Sifted`); it needs that equality of content is
transitive although numbers are fractions (`SameContentTransitive`), and that a
duplicate is found before redaction changes it.

`SampleSplitsProofs`, for any rows that cleaning can leave and any window and
split settings that `SplitAssumption` admits: `WindowsAreExact`,
`SplitsDoNotLeak`, `SequentialSplitsAreTight`. The invariants build on one
another, and on the two before, since windowing relies on rows in order:

* `WindowInv`: in count mode the buffer holds the rows read of window `emitted`
  or its start is still to come (`CountInv`); in time mode a window with rows
  is open or written and never both, and windows close in the order of their
  index (`TimeInv`). What is written enumerates its window (`Enumerates`).
  Hence samples are in the order of their first rows (`WindowsInOrder`), which
  is all that packaging needs of them (`SamplesReady`).
* `GroupInv`: groups are stretches of samples, each with the last row any of its
  samples touches, and no later sample starts before that (`GroupSample`). So
  two groups share no row (`GroupsShareNoRow`), and a split is a union of
  groups. The audit finds its chains again without looking at the groups; that
  it never refuses needs `ChainsStayInGroups`: no chain reaches further than
  the group. `MaxEnd` is a recursive function, so that it exists at all is
  proved too (`ChainsExist`).
* `Filled`: the splits before the one being filled have positive targets and have
  reached them, each with its last group and not before (`TightAt`, whichever
  side of the exact target its float is on: `Short`). That no sample goes to a
  split with ratio zero is a count: if all splits asked for have reached their
  targets, there are no samples left (`SplitsFit`, `SharesLeft`). A validation
  ratio of zero is never left, so the test split stays empty and the verdict is
  a rejection.

The library's induction theorems have an operator as a parameter and cannot be
used; where these modules need induction over numbers or finite sets they argue
with a least counterexample (`LeastNatural`, `Greatest`, from the
well-foundedness of finite sets).

Every safety property of every passing run, invariant or action property, is
stated by a theorem. Only proved are the types of `ArtifactStore`, `Catalog` and
`IntakeGates`, and `VersionsKeepTheirPackage`, since a registry whose packages are removed and
rebuilt together with a lineage to judge makes too large an instance. Only model-checked are the liveness properties
(`LostRunsAreReconciled`, `AcceptedRunsFinish`, `AbandonedStagingIsRemoved`,
`PublishedBecomesRegistered`, `ExecutionsEnd`): fairness and ENABLED are beyond
the prover. Assumptions on constants are named in the modules that declare
them and evaluated by TLC in every run.

## What is not modelled

* *QC metrics and features*: `StageServices` leaves the verdict of QC open.
  How it follows from streaming means, variances, percentiles and drift is
  floating-point arithmetic over one pass; the windows these are computed from
  are modelled, their values are not. The optional Parquet export is left out.
* *Floats*: numbers in `RowStreams` are exact fractions, so rounding in
  interpolation is not seen; factors of unit conversion and thresholds of
  plausibility are classes of values. In `SampleSplits` ratios are parts of
  `Unit`. The product of a ratio and the number of samples may come out above a
  whole target, as in the code (`above`); it is taken to be nearer to any other
  target than the next whole number of samples is, which holds for datasets and
  ratios of fewer than some fifteen digits together. Whether the sum of the
  ratios is within `_RATIO_TOLERANCE`, and on which side of a boundary a hash
  fraction falls, is exact; fractions are chosen freely, so every split of a
  group remains possible.
* *Redaction* is modelled for the label of a stream. Other paths a request may
  name (a sensor value, a whole stream, the timestamp) are set to null by the same
  code and left out.
* HTTP status mapping, response layouts and read-only views, logging, argument
  parsing, the web interface, schema migration, the order of semantic versions.
* Hashing is taken as free of collisions and identifiers as unique. Files that a
  stage has hashed are assumed to stay as they are until it has read them.
* File systems are modelled by what POSIX and ordered journaling allow after a
  power loss; `original/` of raw uploads and freshly created parent directories
  are never fsynced by the code, which the documentation calls best effort, so
  the power-loss run keeps to derived artifacts in an existing directory.

## Plan

What is left:

1. *Safety parts of liveness*: that a plan which runs always has a next step
   and that its locks go with it (`ExecutionsEnd`), that a sweep which visits a
   lost run ends it (`LostRunsAreReconciled`), as step properties that hold for
   every value of the constants.
2. *Type correctness* of `SelectiveRebuild`, `RowStreams` and `SampleSplits` as
   theorems of their own; their invariants contain it.
3. *QC*: the one-pass metrics as exact fractions, if a definition can be found
   that says more than the code.
