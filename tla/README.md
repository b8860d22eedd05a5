# Formal model of tkd-poomsae

TLA+ modules, TLC configurations and TLAPS proofs for the parts of this
repository that decide what happens when: the artifact store, the job queue of
the local service, the pipeline runner and the eight stages it runs, the
semantic edit sessions, the inspection index, media, observation runs and the
bootstrap of the dataset; and for the discrete algorithms of synchronization,
tracking and parsing. Paths below are relative to the repository; line numbers
are in `PROJECT.json` ("map").

## The system

tkd-poomsae reconstructs a Taekwondo form from several recordings. The work is
a fixed graph of eight stages (`pipeline/runner.py`), each of which makes one
immutable artifact. Several processes share one data directory: the HTTP
service with its worker threads, the command line, and runs of other projects.
There is no server between them. They meet in files: `flock`ed lock files,
directories that appear by `rename`, JSON files that are replaced atomically,
and flag files.

| Component | State it keeps | Operations | Meets the others through |
| --- | --- | --- | --- |
| Artifact store (`storage/store.py`) | one directory per key, one lock per key, staging directories | `get`, `get_or_create` | everybody's results; the producer is a callback |
| Pipeline runner (`pipeline/runner.py`) | `state.json`, `run.lock`, `cancel.request` of a project | `register`, `analyze`, `solve_sync`, `revise_sync_offset`, `status`, `cancel`, `report_progress` | calls the store; is called by service and command line |
| Job queue (`src/tkd_poomsae/jobs.py`) | job records, a deque, the active projects, the device lease | `start`, `stop`, `submit`, `get`, `cancel`, the worker loop | calls `analyze` and `status`; shares `run.lock` and `cancel.request` with the command line |
| Stage publishers (`pipeline/offline.py`, the `artifact.py` modules of `sync/` and `reconstruction/`) | none | the producers of the eight stages | publish in the store by themselves, inside `analyze`; read source files and look artifacts up by themselves |
| HTTP service, command line (`api.py`, `cli.py`) | none | routes, commands | call all of the above |
| Semantic edits (`semantic_edits/session.py`) | an SQLite table of revisions, artifacts | `apply`, `undo`, `reset`, `view` | writes artifacts inside a transaction |
| Inspection (`inspection.py`, `inspection_api.py`) | an SQLite index per project: headers, rows, clock bindings | `register`, `window`, parser edits, offset edits | holds `run.lock` shared or exclusive; updates its index after the edit session |
| Media access (`media_access.py`, `media_variants.py`) | permits, hashes and previews in memory and on disk, variants | streams, previews, `materialize` | per-request threads, over files that others change |
| Observation runs (`pose/observation_run.py`) | a receipt, one artifact per window | `run_windows` | calls the store window by window |
| GPU lease (`vision/device.py`) | a lock file per device | `gpu_lease`, `inference_job` | polled like the store's lock |
| Dataset bootstrap (`dataset_bootstrap.py`) | a partial archive with a sidecar, a staging directory, the published data set | `bootstrap`, `verify` | an HTTP server that may change the archive |
| Algorithms (`sync/`, `pose/stream.py`, `reconstruction/*/core.py`) | none | pure functions from samples to offsets, tracks, events, actions and the semantic hierarchy | each one's output is the next one's input |

The rest is numerical computation without shared state (calibration,
triangulation, fitting, pose providers, media decoding), a web client, data set
import, and the automation of the repository's own development.

What is hard here is always the same: two processes between a look at a file and
the use of what was seen; a process that dies between two writes; a request
(`cancel.request`, a queued job, an offset) that must reach exactly the run it
was meant for; and waits for locks whose holders may never return. What makes
the components correct:

* **store** - an artifact is produced by one caller at a time, appears whole or
  not at all, is never replaced, and no exit leaves a lock or a staging
  directory; a wait ends.
* **job queue** - records, deque and workers agree at every instant, also across
  a stop, a crash and a restart; one unfinished job per project; outcomes are
  final; cancellation hits the job it was meant for and no other; no accepted
  job is forgotten.
* **runner** - what `state.json` and `status` say of a stage is true of the
  store; nothing is produced from missing inputs; an accepted offset survives
  everything; a dead run does not look alive; a run ends and frees its project.
* **edits** - an accepted command is in the history as it was asked for, right
  after the revision its client saw; undo and reset mean what the README of the
  package says over any sequence of commands; a leftover artifact never becomes
  history; a view can always be built.
* **inspection** - an answer is of one clock and one edit; an edit that a client
  was told of never disappears from its sight; an old product is never shown
  under a new clock.
* **offline stages** - what is recorded has one past, of the bytes and settings
  that its key names.
* **media, observations, bootstrap** - what is kept under a hash was made of it;
  permits come back; a run that resumes leaves what an uninterrupted one leaves;
  an archive is of one version.
* **algorithms** - what one stage promises in its output is what the next one
  finds, at every gap, unknown sample, tie and edge.

## The modules

| Module | What it is |
| --- | --- |
| `WriteOnceStore` | abstract specification: what the store promises its callers |
| `ArtifactStore` | `storage/store.py`: locks, polling, staging, rename, verification, deaths |
| `ArtifactStoreProofs` | its invariant, and that it implements `WriteOnceStore` |
| `JobQueue` | `jobs.py` with the files it shares with the command line |
| `JobQueueProofs` | its invariant and action properties |
| `PipelineRun` | `runner.py`: one project's runs over the stage graph |
| `PipelineRunProofs` | its invariant and action properties |
| `EditHistory` | abstract specification: an editor with undo and reset |
| `SemanticEdits` | `semantic_edits/session.py`: write transactions over an index and immutable artifacts |
| `SemanticEditsProofs` | its invariant, what its views show, and that it implements `EditHistory` |
| `Inspection` | `inspection.py`, `inspection_api.py`: the index between the pipeline, the edit sessions and the readers |
| `InspectionProofs` | its invariant and action properties |
| `OfflineRun` | `offline.py`: what each stage reads, requires, publishes and records |
| `Publishers` | the `artifact.py` modules: which artifacts may be combined, and `validate_bundle` |
| `ObservationRun` | `observation_run.py`, `vision/device.py` |
| `MediaAccess` | `media_access.py`, `media_variants.py`, the stream route of `api.py` |
| `Bootstrap` | `dataset_bootstrap.py` |
| `Services` | the four machines above that are proved about (`OfflineRun`, `ObservationRun`, `MediaAccess`, `Bootstrap`), each with its own variables and constants |
| `ServicesProofs` | the invariants of the offline stages (what is on record has one past), media, observation runs and bootstrap |
| `SyncSolver`, `Alignment` | `sync/solver.py`, `sync/alignment.py`: one clock, and what a camera says of an instant |
| `PoseTracker` | `pose/stream.py`: the practitioner and the two sides |
| `Feet` | `ground/core.py`, `footprints/core.py`, `pivots/core.py` |
| `Features`, `Segmentation`, `Arms`, `LowerBody`, `Assembly` | the `core.py` of `features`, `segmentation`, `arms`, `lower_body`, `semantics` |
| `Algorithms` | the nine modules above from `SyncSolver` to `Assembly`, and `Publishers`, with the inputs and configurations that the code accepts |
| `AlgorithmProofs` | what the tracker, the solver and the stages from `Feet` to `LowerBody` promise, for inputs of any length |
| `JoinProofs` | what holds of results that are put together: the hierarchy, the common clock, and artifacts with all they were made from |
| `MC...` | the instances that TLC checks |

Each module ends with its properties. An operator marked *Mutant* is not part of
the specification: it is the definition below it with a plausible bug in it, kept
to show that the property named with it in `PROJECT.json` would notice.

**ArtifactStore.** `pc[c]` says where caller `c` is in `get` (`looking`,
`reading`) or `get_or_create` (`waiting`, `checking`, `producing`, `staging`,
`verifying`); `holder` is the flock, `disk` the published directories, `stage`
and `orphans` the staging directories of the living and the dead. `Acquire`,
`TimeOut` and `GiveUp` are the exits of the polling loop; `Check` is the second
look under the lock; `Produce`, `ProducerFails`, `StageFails` and `Rename` are
`_publish`. `get` takes no lock, so it meets writers and damage half way.
Contents are abstract values; `damaged` stands for every mismatch of a hash, an
inventory or a manifest.

**JobQueue.** `service` is the process with `service.lock`; `record` are the
files under `runs/service-jobs`, which survive it, and `pending`, `active`,
`pc`, `job`, `verdict` its memory, which does not. `Submit`, `CancelQueued`,
`CancelRunning` and `Stop` are atomic, as they are under `JobQueue.lock`; a
worker takes `Claim`, then `TakeLease`, `BeginAnalysis` and the stages without
it, and `Report` with it. `verdict` keeps what the worker's own copy of the
record will say, because it is that copy, read at `Claim`, which is saved last.
`analyze` is abstract: it holds the run lock, looks at `cancel.request` before
each of `Stages` stages, and ends somehow. The command line (`CliStart`,
`CliBegin`, `CliEnd`, `CliCancel`) is another process that takes the same run
lock and removes or makes the same `cancel.request`. `asked` and `owed` are
history variables: for which jobs a cancellation was meant, and for which it was
accepted while they ran.

**PipelineRun.** `file` is `state.json`, `run[r].mem` the copy that a run reads
once and writes after every stage, which is what makes the interleavings with
`revise_sync_offset` and `status` matter. `run[r].keys` are the digests computed
when the run began, of `source` as it was then. The store appears as its
abstract specification does: `published`, and `foreign` for the keys that
writers of other projects are working on. A key is the record of what its digest
covers (settings, generation, manual offsets, source version, input keys), so
equal keys are equal digests and "only a changed stage and its descendants get
new keys" is a consequence. `Loaded` is `_load_status`, with the status
`interrupted` for a stage it marks as failed because its process died.
`StopBeforeStage`, `Reuse`, `FindCorrupt`, `StartStage` are the ways through the
first half of the loop's body; `Adopt`, `CallProducer`, `StopProducing`,
`Publish`, `ProducerRaises`, `GiveUpWaiting`, `TimeOut`, `Complete` through the
second. A stage in `Publishers` publishes before the cancellation is looked at,
an inline stage after. `Probe` and `Answer` are the two halves of `status`: it
keeps run.lock for as long as it reads.

**SemanticEdits.** `writer` is SQLite's write lock, `pin` and `log` the two tables
for one session, `artifacts` the published `ManualEdits` under the key that their
content gives them. `_commit` is `Call`, `Begin` (`BEGIN IMMEDIATE`) or `GiveUp`,
then under the lock `Reject` or `Publish` (every check, the draft and
`get_or_create`), then `Commit` or `CommitFails`, and `Answer`. Everything between
`Begin` and `Commit` happens under the write lock, so a finer grain would show
nothing more; what matters is that a death, a failing publication or a failing
commit can come before, between and after the two. The artifact then stays and may
be met by a later command. `Materialized` is `_materialize`, `Undone` the rule for
the next state. `view` and `revision` only read. `EditHistory` knows nothing of
states and parents: it has the set of active revisions and what the last reset
cleared. The refinement mapping takes the revisions on the way from the head's
state back to 0.

**Inspection.** `clock` is what `Inspection.clock` computes from the project's
files: source bytes, offset revision, generation of the synchronization; `made`
the synchronizations whose products exist. A product is the synchronization that
its lineage leads to. `owner` and `sharers` are the exclusive and shared holders
of `run.lock`. `index` is the header rows (with the clock and the edit they are
stamped with) and the rows, `bindings` the table of first clocks. `register` is
`RegisterBegin` (all checks), `RegisterIndex` (one transaction, which looks at
clock and binding again) and `RegisterEdits` (a second one). A parser edit is
`EditBegin`, `EditCommit` in the session's own database, of which only the number
of accepted commands is kept, and `EditIndex`; `CliEdit` is a command that goes
past the service. A window is `Open` under a shared lease, `ReadRows`, and `Reply`
or `Discard` after the clock is computed again. Source files are edited without
any lock. `told` and `shown` are history variables.

**OfflineRun.** One project's analyses, a stage per step. `now` is what the files
and settings are, `run.asked` what they were when the keys were computed; a stage
reads files when it runs. `Ingested` ... `Parsed` are the eight producers: the
set of chains of artifacts each may publish, empty when it refuses. The first
three are inline stages, whose artifact has the request's key; the others publish
by themselves and leave a record with the lineage of everything the run has opened
so far, whose loss makes the next run produce again. Ground and parsing do not
use what they are handed: they look a calibration and a reconstruction up by
themselves. `Lose` is an artifact that vanishes.

**Publishers.** Each publisher as the set of what it may return from the
artifacts it is handed, with its checks of lineage; an artifact is a record of
who made it, of what and how, so equal artifacts are equal keys. `Published` is
what there may be in the store: a chain of publishers over what came from outside
(recordings, synchronizations, provisioned calibrations), each handed anything of
the right kind. `Above` goes back through what an artifact was made of, further than
the longest such chain.

**ObservationRun.** `Look` and `Lease` are the ways to a window: found, or
inferred under `writer` (the key's flock) and `lease` (the device's). A tracker
is the sequence of frames it has seen; after a window that somebody else made it
is restored from the window's last record (`Restored`). `Fail` is an exception, a
deadline, a cancellation or a death at any point.

**MediaAccess.** A path names an inode, an inode has bytes; `Overwrite` and
`Replace` are what others do to them. Every open, `fstat` and comparison of
identities in the code is a step of its own: `Resolve`, `Index` and `Indexed`
around `index_recording`, `Hash`, `Decode` and `Decoded`, `Encode` and `Encoded`.
`Drop` is a response that the server abandons before its generator has started,
so that its permit is never released: the code does that, and
`PermitsAreAccountedFor` counts it (`dropped`) as the only way to lose one.

**Bootstrap.** A file is a sequence of blocks, a block is the version of the
archive it comes from. `AskHead`, `Prepare`, `Sidecar`, `Get`, `Read`, `Break`,
`Check` are one attempt of `_download`; then `Extract`, `Receipt`, `Publish`,
`Clean`. `Kill` may come between any two; `Change` is the publisher's.

**The algorithms** are operators without state. Samples are records with
integer times; what thresholds on coordinates and uncertainties decide is given
as the sample's state ("moves", "quiet", "unknown", "contact", ...), so that what
is checked is what the code does with these decisions: runs, gaps, hysteresis,
ties, matching, ranking, connection and coverage. Each module's head says what is
left out. The automata of the code (the hysteresis of contacts, placements and
pivots in `Feet`, the bouts of `Features`, the tracker's gap) are a step operator
each (`Felt`, `Placed`, `Turned`, `Bouted`, `Sensed`, ...), folded over the samples by a
recursive function. `Algorithms` says of all of them, and of the publishers,
which inputs and configurations are legal: samples in the order of their
times (`Reconstruction.ordered_samples`), frames at different times
(`ObservationJoin.__init__`), proposals that meet the contracts of the parsers that
make them (`OnItsTracks`, `FollowsIfLinked`), products that were published (`Published`), and
what the validators of the configurations ask for. Native times are even, so that the middle of two of them,
from which coverage is computed, is an instant too. `Legal` is a conjunct of `Init` and `Next` in `MCAlgorithms`, which
puts inputs together from pieces; every input it can build is legal, so the
conjuncts cut nothing off.

`PipelineRun` and `ObservationRun` use the store through the promises that
`ArtifactStoreProofs` proves of it, `JobQueue` uses the runner, and `Inspection`
the edit session, through the abstractions stated above; the command line's
`reset_cancellation` is in both `JobQueue` and `PipelineRun`.

## The runs

Every bound is a constant of a `.cfg`.

| Run | Question | Bounds, and why they are enough |
| --- | --- | --- |
| `store` | Is the store the write-once registry it promises to be, whatever its callers do and wherever they die? | 2 callers, 1 key, 2 contents, 1 death. Keys do not interact. Two callers give every race for a lock; a death followed by a full call of the survivor needs one crash. The proofs have no bounds. |
| `jobs` | Do records, deque and workers agree, are outcomes final, does a cancellation find its job? | 2 projects, 3 jobs, 2 workers, capacity 1, 1 stage, 1 crash: a full queue, a job behind a lease, a second job of a cancelled job's project, a restart. |
| `jobs_live` | Do accepted jobs end, and do analyses stay apart, beside a command-line analysis? | 2 projects, 2 jobs, 2 workers, 1 command-line run, no crash (a crash ends the obligation). |
| `pipeline` | Is what state.json and status say of a stage true? | A chain of 3 stages with an inline stage, the offset's stage and a publisher behind it; 1 change (rerun, offset or source edit) anywhere, 1 death, 1 foreign writer, 1 status request at a time. |
| `pipeline_pair` | Is an accepted offset ever lost? Does a run always end? | 2 stages, analyses with and without settings, 1 change, no death (the liveness is about living runs). |
| `edits` | Are accepted commands recorded as asked, whatever meets whatever, and does the session show what an editor with undo and reset would? | A behaviour is either a race (`racing`): 2 editors, 2 parser outputs, edits of the keyframe that the parser did not give, 2 revisions (`RaceRevisions`), 1 fault (death, failing publication or commit); two editors are every race for the lock and for the first revision, and one fault is enough to leave an artifact behind before the other editor asks for the same revision. Or it is a long history (`HistoryMoves`): 1 editor (`Alone`) and 1 parser output, both keyframes, 5 revisions, no fault, in which two edits, an undo, an edit in its place, a reset and its undo fit, in every order. |
| `services` | Do the five machines around the queue and the runner keep what they promise, each alone? | They share no state, so `subject` says which one moves in a behaviour. `Inspection`: 2 clients, 2 offsets (one is the estimate, so an offset can come back), 1 change of the project, 2 edits, 1 death. `OfflineRun`: 2 versions of the source bytes, 3 calibration files (two re-measurements and one bound to a synchronization), 2 changes, 1 fault. `ObservationRun`: 2 processes, views of 2 windows and of 1, 2 frames each, 3 runs. `MediaAccess`: 2 clients, 1 permit of each kind, room for 1 preview, 2 changes of the file, 3 requests. `Bootstrap`: an archive of 2 blocks in 3 versions, 2 attempts per call, 4 calls, 3 breaks. |
| `algorithms` | Do the ten algorithms keep their promises on every input within the bounds? | `subject` says whose input is put together, piece by piece; `MCAlgorithms` lists the pieces, one for each branch of the code they lead to. 9 rows for segmentation, 7 for a foot (turned, in the air, unseen, without a direction or with an uncertain one), 5 for arms (with 2 events, one of which may share a single sample with a motion), a leg (with the pivots of 2 of its turns) and features, 4 frames for the tracker (people alone and together, with and without an operator's word, wrists hidden, doubtful, or fainter than those that are compared, which this configuration publishes) and the alignment, and every instant from before the first frame to after the last (`Moments`); 3 sources with every combination of 5 sets of cues and up to 3 revisions; every proposal of the publishers over 2 clocks, 3 calibrations and 2 configurations; up to 2 actions for each leg and 1 for an arm over 6 samples. |

Four runs show a disagreement between the code and what the repository says of
it ("findings" in `PROJECT.json` quotes the lines):

| Run | What happens |
| --- | --- |
| `jobs_lost_cancel` | A cancellation accepted for a running job is lost when a command-line analysis of the project begins before the job has the run lock: it removes `cancel.request` as a request of earlier runs. `jobs` shows that nothing else loses one. |
| `pipeline_killed_after_publish` | A process killed between publication and the write of `state.json` leaves a stage reported as "interrupted before artifact publication" whose artifact is there. (The next run reuses it: `PublishedBeforeUse` holds.) |
| `pipeline_cancel_while_waiting` | The store reports a cancellation during a wait as `Cancelled`, which `analyze` treats as a failure of the stage; the run may then return normally. |
| `links_survive` | The loop that settles which actions belong to the execution stops when a turn does not stretch it, although this turn may have added an action that recovers from one that is not selected. With a left action over samples 1-3 and an execution that it stretches to 1-4, a right recovery over 1-2 is selected, the right action over 0-1 it recovers from is not, and its link is dropped. |

Three more were met while modelling and have no run of their own:

* `status` holds `run.lock` while it reads, so a second `status` takes it for an
  analyzer (`pipeline/runner.py:402-405`) and shows the stage of a dead run as
  running until it is asked again. `PipelineRun` models both halves (`Probe`,
  `Answer`).
* A process killed inside `_write_json` of `dataset_bootstrap.py` leaves a
  temporary file in the staging directory (`litter` in `Bootstrap`); the next
  call publishes, and its `rmdir` of the staging directory then fails.
* `register` of the inspection index may leave a product indexed without its
  edits when it dies between its two transactions; `headers` refuses such an
  index as stale until it is registered again, which is why `EditsStayVisible`
  holds.

### Fairness

Safety properties need none. Where liveness is checked:

* `ArtifactStore`: the polling loop runs and the clock advances
  (`WF(Attempt)`, `WF(Expire)`). Nothing is assumed of producers, so a lock may
  be held for ever, and `WaitEnds` says that waiters leave nevertheless.
* `JobQueue`: each worker thread is scheduled (`WF(Progress)`), a command-line
  analysis that began ends, and a stop whose workers are gone completes. A
  failure is never owed, and neither is a request, a start or a stop. Weak
  fairness of a step that waits for a lock means that the lock is granted if it
  stays free. It is enough here because a worker that waits is the only one that
  can take the lock in between, or the holder leaves.
* `PipelineRun`: a run's thread is scheduled and its producers return. Other
  projects' writers may keep a key for ever.

### Deadlock

It is checked in the runs of the store, the queue, the runner and the edits: no
such component comes to an end of its own, a stopped service can be started, a
store can be asked. `services` and the runs of `MCAlgorithms` stop when their
requests, calls or pieces are used up, and do not check it.

## The proofs

TLAPS checks that, for every value of the constants that satisfies the modules'
named assumptions:

* `ArtifactStoreProofs`: `IInv` is an invariant, hence `TypeOK`, `SoleProducer`
  and `NothingLeftBehind`; and `Spec => ImplementsWriteOnce`.
* `JobQueueProofs`: `IInv` is an invariant, hence `TypeOK`,
  `QueueMatchesRecords`, `BusyMeansUnfinished`, `CancelledOnlyIfAsked` and
  `AnalysesSerialize`; and the action properties `TerminalIsFinal` and
  `StopSettlesJobs`.
* `SemanticEditsProofs`: `IInv` is an invariant, hence `TypeOK` (with the contract
  of `ManualEdits`), `HistoryIsReadable`, `HistoryIsWellFounded`,
  `AcceptedIsRecorded` and `OneBase`; with `ViewsInv`, `HistoryIsFaithful`; and
  `Spec => ImplementsHistory`.
* `InspectionProofs`: `IInv` is an invariant, hence `TypeOK` and
  `NeverRelabelled`; and the action properties `AnswersAreCurrent` and
  `EditsStayVisible`.
* `PipelineRunProofs`: `IInv` is an invariant, hence `TypeOK`,
  `PublishedBeforeUse` and `RunningIsAccountedFor`; and the action properties
  `NoRevisionLost` and, if `None` is no key of a stage,
  `AnsweredCompleteIsReady`.
* `ServicesProofs`: `OfflineIInv`, `MediaIInv`, `ObsIInv` and `BootIInv` are
  invariants of `OfflineRun`, `MediaAccess`, `ObservationRun` and `Bootstrap`, hence
  `RecordIsTrue`, `KeptIsOfItsSource` and `PermitsAreAccountedFor`, `ReceiptIsTrue`,
  and `ArchiveIsOneVersion`.
* `AlgorithmProofs`: every legal input has `SidesNeverCross`,
  `FeetRestOnEvidence`, `EventsAreEarned`, `StepsAreWhole`, `ArmsAreTheirOwn` and
  `LegIsExplained`, and every legal set of sources, cues and revisions `OneTimeline`.
* `JoinProofs`: every legal set of proposals has `HierarchyHasNoHoles`, every legal
  set of frames `CoversWhatItFinds`, and every product of the publishers `OnePast`.

`SoleProducer` is not inductive: that the directory is still absent when a
writer renames has to be carried from `Check` on (`SeenAbsent`), which needs that
the lock and the label of its holder name each other (`LockedOwns` and
`NothingLeftBehind`). The refinement maps `disk`, `damaged` and `reply` to
themselves; `Rename` is `Publish`, a verified return is `Serve`, any raise is
`Refuse`, and every other step, a crash among them, stutters. `SeenPresent` is
what makes `Serve` legal.

For the queue, the deque, the records and the hands of the workers are one
invariant (`QueueMatchesRecords` with `HandsMatchLabels`): none of its conjuncts
is inductive alone. `TerminalIsFinal` follows because `Report` writes only to a
job that is in a worker's hands and hence running. `CancelledOnlyIfAsked` needs
`RequestsAreMeant`: a `cancel.request` that an unfinished job could meet was made
after its submission, since `Submit` removes an older one while the project has
no other job. The sequence lemmas at the head of the module say what `Head`,
`Tail`, `Append` and `RemoveAt` do to the set of elements of an injective
sequence.

For the edits, the invariant says of a published draft that it still continues the
history (`DraftIsNext`, `Continues`), which holds because only the lock's holder
can commit (`LockMatchesLabels`), and of the store that an artifact lies where its
content says (`ContentAddressed`), so that a key that exists already means the same
edits. `HistoryIsWellFounded` makes parents smaller than states; from it the lemmas
about `Active` follow without induction, as `Active(s)` is the least set that is
closed under parents: `Active(s)` is `Active` of the parent and `s`, `s` is the
latest of it, and a further revision changes none of it. `Commit` is then `Apply`,
`Reset`, `UndoReset` or `UndoEdit`, and every other step stutters.

What a state shows is a recursive function along the parents (`Materialized`). It
has a value at every state (`EveryHistoryHasView`), which is that of the parent with
one operation applied (`ViewsFollow`), and a further revision changes it nowhere
(`ViewStays`). `ViewsMaterialize` speaks of the active edits only and is not
inductive: an undo makes others active again. `ViewsInv` says of every edit of the
history, and of the one that is published and not committed, that it was allowed on
the view of its parent; the lock keeps the head, and with it this view, where it was
when the edit was checked. `ViewIsTheLastWord` follows along the chain: an edit is
later than all that was active at its parent.

For the inspection index, none of the three properties is inductive. A clock may
move at any instant (files are edited without a lock), so `NeverRelabelled` needs
that whatever was shown is bound (`HistoryIsBound`), that an index is stamped with
the clock its product is bound to (`Whole`), and that a reader's answer names
this clock (`Opened`). That nobody replaces the index under a reader or under an
edit comes from `LocksMatchLabels`: whoever changes it is alone with the project.
`EditsStayVisible` follows from `Opened`'s last conjunct at `Open`: `headers`
refuses an index that names another edit than the session's, and no client was
ever told of a later edit than the session accepted.

For the runner, the properties speak of `state.json`, and what decides them is the
copy in memory that the next `_write_json` puts there: `PublishedBeforeUse` needs
that the copy, too, calls nothing complete that is not published, that the handles
a run has collected are published, and that its keys are nested (`RunIsSound`,
`Nested`), so that the artifact it publishes has its inputs in the store.
`NoRevisionLost` holds because whoever saves has `run.lock`, and the copy of the
one run that has it counts as many revisions as the file. That `Keys` has
a value for every stage is not obvious, as it is recursive over the graph; it
follows from the order of the stages (`KeysUnfold`: there is no least place in
`STAGE_ORDER` up to which no such keys exist), and with it `_load_status` compares
like with like, which `AnsweredCompleteIsReady` needs.

For the offline stages, `RecordIsTrue` compares what is complete on record with
what the present files and settings make, while a stage reads files when it runs
and looks artifacts up by itself. Two facts carry it. Whatever is edited, lost or
cut short, the motion, body and calibration that a stage picks are those of the
motion at hand (`HandsAreSound`, with `NoBodyIsEarly` for the artifacts that are
published before the stage's last one). And until a file is edited under an
analysis (`torn`), every product is a function of its key (`MadeOfTheirKeys`), and
inputs with equal keys have equal products (`KeysDetermine`, over the cone of a
stage in the graph). After such an edit only the first part is still claimed:
what is recorded has one past, but not that this past is that of the present files.
A product of the new bytes then lies under the key of the old ones, as the code
hashes the sources once at the beginning of a run (`runner.py:611`), and this
hazard is covered by `OnePastOnRecord` alone.

For media, the race is between the `stat` before a hash or a decode and the file
that is there when it ends. Each thread carries what it has compared: what it
pinned is an identity that had these bytes, what it read belongs to an identity of
that moment (`ItemIsSound`), and an identity never has other bytes again
(`FilesAreSound`), so whatever the caches remember under a hash was made of it.
Permits are counted: the streams and decoders out are the clients that are in the
steps that hold one and the responses that were dropped, and each step moves one
element of a finite set (`OneMore`, `OneLess`).

For the bootstrap, the part on disk, the sidecar beside it and the tag that a
response is conditional on must be of one version (`PartIsOfItsTag`,
`ResponseIsOfThePart`), although a kill comes between any two writes; a tag that
the server has left is only known to be older (`TagIsRecent`).

For the observation runs, a tracker that infers a window must have seen what an
uninterrupted one has (`TrackerIsInPlace`), after any mix of windows found,
inferred and restored from the last record of a window that somebody else made.
The records of a view are a recursive function of the window.

**Recursion over data.** Induction theorems that take an operator are beyond the
provers, but recursive functions over `0..n` are not: a set of naturals that is not
empty has a least element (`Least`), so a set that has the first sample and passes
on to the next has all of them (`SampleInduction`), and therefore there is a
function that satisfies the recursion and the definition is it (`Recursion`). With
these lemmas, which `ServicesProofs` and `AlgorithmProofs` each state, the
algorithms are proved like machines, with an invariant that every step of the
automaton keeps.

* *Tracker.* What the tracker carries is what the frames before it say
  (`TrackerRemembers`): its anchor is the person of the last frame with a selection
  and the time is that frame's, and what it trusts is the person of the last frame
  that published both wrists, however many came between that published fewer or
  selected nobody. So the frame that publishes both wrists next was compared with
  exactly that one, unless one of the four scores is below what is compared; and a
  wrist that is published scored at least `min_raw_score`, so that this needs a
  configuration below 0.2 (`SidesAreKeptApart`). The selection without an operator
  is the closest person to the anchor by more than a margin, so there is at most
  one (`OneIsChosen`).
* *Feet.* For contacts, the dwell that the automaton counts is a stretch of
  native samples all of which ask for the state that is reported at its end. For
  placements (`PlacementIsSound`) and pivots (`TurnsAreSound`), what has been
  emitted lies before what is open, and what is open has been measured without a
  gap, with a direction, and, if it is to become a stable placement, with so little
  uncertainty that each of its samples passes the check against itself
  (`UnsureKeeps`, `SureKeeps`).
* *Segmentation.* The boundaries up to a sample are starts of bouts, in order, and
  before each of them nothing is lifted that was not placed again (`LandedAgain`).
  Bouts are disjoint, so a boundary at the start of one cuts no other.
* *Arms.* The open span has been in sight since it began and at rest only since its
  last motion, and not for long (`WatchIsSound`), so what it becomes when the arm
  moves again is sound; where a span is closed, something parts it from every later
  one (`Parted`). A right span that is taken is not offered again, and no two spans
  of an arm begin together, so the pairs are one to one (`PairsAreOneToOne`). The
  phases lie in their span (`PhasesAreInside`), those of events as those of falling
  extension; that one sample makes no phase is because `Interval` raises.
* *Leg.* Runs are maximal, so two of them are apart (`LegRunsAreApart`) and any two
  samples that belong together are in one (`LegRunsCover`). What one bout is, is
  settled by itself (`BoutsAreExplained`): its phases follow one another, its
  categories differ, and all of it is said. Ids are unique (`LegIdsAreUnique`)
  because a pivot has no sample in the air, a bout's actions have one, the rest
  begins outside of both, and a placement that begins before its bout begins on the
  floor, where no other bout ends.
* *Features.* Of a bout: where it is quiet the sample rests, and since the start
  something has hurried (`BoutedKeeps`); the runs are disjoint (`RunsAreApart`), so
  bouts of two runs are too. A peak's bases lie inside its run. A step's evidence is
  one state before and the other one after, so the evidence of two steps of one kind
  cannot overlap (`StepsAreApart`). Dropping events (`refractory`) keeps all of it.

* *Assembly.* A turn of the selection stretches the execution only with a leg that
  was not selected, so some turn among the first `Cardinality(legs) + 1` stretches
  nothing (`SomeRoundIsStill`), and what is selected then is closed under overlap
  (`SelectedAre`). What the sweep over sorted intervals leaves open has a closed form
  (`GapsAre`), with which intervals and gaps together leave no moment out
  (`GapsFill`); every action has an owner among the steps (`OwnerIs`), and its phases
  tile it (`PhasesAre`).

The joined clock sorts frames once, and a finite set of frames at different times
has one place for each of them (`StreamIs`, by counting). An instant shows the
landmark at a frame if the frame does, and between two of them if both do, the gap
is not long and the track goes on (`ShownAtFrame`, `ShownBetween`, `ShownSomewhere`):
between two frames every instant says what the middle says, and a clipped frame or
gap that is not empty has its middle inside, which is why computing coverage from
middles is sound (`SpanShows`) and complete (`ShownIsSpanned`). Merging neither adds
nor loses an instant (`MergeKeeps`): in the first hole of a stretch the next span
would have begun another one.

For the publishers, no rank or depth is given: an artifact is whatever its
publisher's checks let through. What each kind is made of (`RawIs`, `ContactsAre`,
`ArmsAre`, ...) shows that every step back goes to a lower kind (`RankOf`,
`KnownRests`), so sixteen of them reach everything (`AboveIsClosed`), and `Above` is
the least closed set around a product (`AboveIsLeast`). It is then enough to find
some closed set of one clock, one motion and so on (`OneHistory`), and each publisher's
check is what lets it grow by its product without a second of a kind: ground may
add another copy of the calibration, of the same id (`PastGrowsACopy`); footprints
and the view find their inputs among those of the contacts; arms, legs and semantics
name the same segmentation, whose features they share (`ArmsAreAbove`). The
references that `validate_bundle` reads hold in every closed set (`GeometryIsValid`,
`LineageIsValid`).

Synchronization reads no samples in order either. That the timeline is one rests on two
facts: to move all offsets by the same amount changes no residual and no overlap
(`ResidualsStay`, `OverlapsMove`), so what the least squares agree on is still
agreed on when the reference is put at zero; and the reliable pairs of a part of the
sources are reliable pairs of the whole (`EdgesWithin`), so taking the revised
sources out leaves the others consistent. The solver's choice of a reference and of
an automatic solution does not look at the revisions, which is why the timeline
without them has the same offsets.

The hypotheses are what the code enforces: the named assumptions on constants
(`ObservationAssumption`, `MediaAssumption`, `InputAssumption` and those of the
other modules), and for the inputs of the algorithms `ContactConfig.hysteresis_order`,
`FootprintConfig.hysteresis`, `PivotConfig.hysteresis`, `FeatureConfig.hysteresis`,
the fields that must be positive, `TrackingConfig.__post_init__` and
`Reconstruction.ordered_samples`, the duplicate check of `ObservationJoin.__init__`,
`ArmResult.topology` and `LowerBodyResult.links`. That a full turn is even and that `None` is no
number or person belongs to the encoding. Two provisioned calibrations of one id are
assumed to have been derived under the same synchronization, since the id is a digest
of the evidence they were derived from (`calibration/ground.py`,
`calibration/target.py`). TLC evaluates all of them on the runs'
constants.

Only model-checked:

* All liveness (`WaitEnds`, `JobsSettle`, `RunsEnd`): liveness under fairness and
  `ENABLED` are out of the prover's reach.
* `StopsAfterCancel`: it holds only without the command line.

## What is abstracted, and what is not modelled

* A crash is the death of a process. Lost writes after a power failure, and with
  them the order of the `fsync` calls, are not modelled.
* Reading or writing a record or `state.json` does not fail by itself.
* Semantics in an editing session are the set of their keyframes, and a batch is
  one operation. Moves and boundary edits need their target to be there, as a
  removal does; the geometry that can make them invalid is left out. An editor's
  author is the editor; source and reason are left out of the key as they only
  make more keys differ.
* Progress numbers, diagnostics, and the `cancel_requested` display flag of
  `state.json`. The flag of a job record is modelled, as the code overwrites it.
* A publisher stage's own key is identified with its request key.
* In `PipelineRun` a producer reads the sources of the version that was hashed;
  `OfflineRun` is where it reads them as they are.
* `Inspection` has products by what their lineage leads to, rows by the edit they
  show. `OfflineRun` takes the artifacts that a stage publishes one after the
  other and hands to nobody as one. `ObservationRun` has records by the frames
  that the tracker had seen, `MediaAccess` one frame of one camera.
* In `PoseTracker`, people live on a line: the three terms of the matching cost are
  one distance, and the wrists stand for every pair of landmarks that is kept
  apart by an anchor of its own. The feet's anchor, which also asks for usable
  regions, the reasons and qualities of regions (`implausible_torso_jump` among
  them) and the points of refined hands are left out. The operator's selection, the
  doubt of the hands' refinement and both thresholds of a score (`min_raw_score`,
  below which nothing is published, and the 0.2 of `_side_ambiguous`, below which
  nothing is compared) are modelled.
* In `Feet`, a foot's place is its direction, so that distance and angle are one
  criterion; the uncertainty of that direction (`blur`) and samples without one
  (`axis`) are modelled, that of a height is in the threshold it is added to.
* In `Arms`, an event is the arm and the samples of its evidence. An event that has
  one sample in common with a motion makes an `Interval` of no length, whose
  validator raises, so that `parse_arm_actions` returns nothing: `ParseArmActions`
  is then empty. Names of phases and the events of an action are left out.
* Requests reach the queue only while the service serves: the HTTP server ends
  its requests before `stop`.

### Not modelled

* Calibration (`calibration/`), triangulation, fitting, smoothing and detailed
  reconstruction: optimisation over floating-point arrays. What is true of their
  results is a matter of tolerances; a model over small integers would be another
  program. What is modelled of them is which artifacts they take and produce.
* Correlation of cues (`sync/cues.py`), image regions and masks
  (`pose/regions.py`), inference (`vision/`, `pose/providers/`) and decoding
  (`media/reader.py`): signal processing and external libraries, input here.
* Validation of single values (`contracts/models.py`, request models of
  `api.py`), formatting and paging of answers: no state and no order.
* The import of CSV files and registrations (`dataset_import.py`): each file is
  written once, in sequence, by one command. (Its `write_text` is not atomic: a
  kill leaves a torn file, and the next import refuses it.)
* Power failures, and failures of record files, as said above.
* The web client and the scripts of the repository's own development: nothing of
  the system depends on their state.

## What would come next

A composition of `JobQueue` with two real `PipelineRun`s, which would account for
cancellations that are meant for command-line runs.
