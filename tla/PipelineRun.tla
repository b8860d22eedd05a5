----------------------------- MODULE PipelineRun -----------------------------
(***************************************************************************)
(* pipeline/runner.py: one project's runs over the explicit stage graph.   *)
(* Analyses, synchronization solves and offset revisions own the project   *)
(* through run.lock and keep its state in state.json; status may be asked  *)
(* for, a cancellation requested and a process die at any time.            *)
(*                                                                         *)
(* The artifact store is used through what WriteOnceStore promises: a key  *)
(* is published or not, and a writer elsewhere (another project with the   *)
(* same sources) may have its lock.  An ArtifactKey is the record of what  *)
(* its digest covers, so equal keys are equal digests.  A state.json is    *)
(* written atomically; progress, diagnostics and wording are left out,     *)
(* except that a stage failed because its process was interrupted shows as *)
(* "interrupted".                                                          *)
(***************************************************************************)
EXTENDS Naturals, SequencesExt

CONSTANTS
    Runner,         \* processes and threads that run analyze or solve_sync
    Prober,         \* clients that ask for the status
    Stage,          \* the names in STAGE_ORDER
    Order,          \* STAGE_ORDER
    Dependencies,   \* DEPENDENCIES
    Sync,           \* the stage that manual offsets belong to
    Timed,          \* the stages revise_sync_offset marks as stale
    Publishers,     \* the stages whose producers publish by themselves
    Settings,       \* the settings that analyze may be given
    MaxChanges,     \* bound: reruns, offset revisions and source edits
    MaxCrashes,     \* bound: deaths of running processes
    MaxWriters,     \* bound: keys that writers elsewhere work on at a time
    None            \* nobody, no key, no answer

ASSUME GraphAssumption ==
    /\ Order \in Seq(Stage) /\ ToSet(Order) = Stage /\ IsInjective(Order)
    /\ \A i \in 1..Len(Order) :
            Dependencies[Order[i]] \subseteq {Order[k] : k \in 1..(i - 1)}
    /\ Sync \in Timed /\ Timed \subseteq Stage /\ Publishers \subseteq Stage \ {Sync}

ASSUME BoundAssumption == MaxChanges \in Nat /\ MaxCrashes \in Nat /\ MaxWriters \in Nat

ASSUME NobodyAssumption == None \notin Runner \cup Prober /\ Runner \cap Prober = {}

VARIABLES
    file,       \* state.json
    source,     \* version of the registered source bytes
    cancelFile, \* is there a cancel.request?
    runLock,    \* who has run.lock
    published,  \* the keys that have an artifact
    foreign,    \* the keys a writer elsewhere is working on
    pc,         \* pc[r]: where runner r is
    run,        \* run[r]: its local variables
    changes,    \* changes made so far
    crashes,    \* deaths so far
    met         \* met[p]: who has run.lock for prober p: p itself if it could take it

storeVars == <<published, foreign>>
vars ==
    <<file, source, cancelFile, runLock, storeVars, pc, run, met, changes, crashes>>

Status ==
    {"not-run", "running", "complete", "failed", "interrupted", "unavailable", "stale"}

\* The digests of _expected_keys: a stage's key covers its settings, its
\* generation and the keys of its dependencies; the first one's the sources.
Keys(state, src) ==
    LET key[s \in Stage] ==
            [stage      |-> s,
             settings   |-> state.settings[s],
             offset     |-> IF s = Sync THEN state.manual ELSE 0,
             generation |-> state.generation[s],
             source     |-> IF s = Order[1] THEN src ELSE 0,
             inputs     |-> [d \in Dependencies[s] |-> key[d]]]
    IN key

\* A stage and everything it requires.
Required[s \in Stage] == {s} \cup UNION {Required[d] : d \in Dependencies[s]}

Unset == [s \in Stage |-> 0]
NotRun == [status |-> "not-run", key |-> None, request |-> None]
Initial == [settings |-> Unset, generation |-> Unset, revisions |-> 0, manual |-> 0,
            stages |-> [s \in Stage |-> NotRun]]
Idle == [mem |-> None, keys |-> None, active |-> {}, at |-> 0, handles |-> {},
         cut |-> FALSE]

Init ==
    /\ file = Initial
    /\ source = 0
    /\ cancelFile = FALSE
    /\ runLock = None
    /\ published = {} /\ foreign = {}
    /\ pc = [r \in Runner |-> "idle"]
    /\ run = [r \in Runner |-> Idle]
    /\ met = [p \in Prober |-> None]
    /\ changes = 0 /\ crashes = 0

-----------------------------------------------------------------------------
(* state.json as _load_status shows it.                                    *)

\* Mutant: a record under another key is shown as it was kept.
ShownAsKept(record, key, runnerActive) ==
    IF record.status = "running" /\ ~runnerActive
    THEN [record EXCEPT !.status = "interrupted"]
    ELSE record

Shown(record, key, runnerActive) ==
    IF record.status = "running" /\ ~runnerActive
    THEN [record EXCEPT !.status = "interrupted"]
    ELSE IF record.key # None /\ record.key # key
    THEN [record EXCEPT !.status = "stale"]
    ELSE record

Loaded(runnerActive) ==
    LET key == Keys(file, source)
        stages == [s \in Stage |-> Shown(file.stages[s], key[s], runnerActive)]
    IN  [file EXCEPT !.stages = stages]

Change == changes < MaxChanges /\ changes' = changes + 1

-----------------------------------------------------------------------------
(* The requests that take a moment.                                        *)

Cancel ==
    /\ cancelFile' = TRUE
    /\ UNCHANGED <<file, source, runLock, storeVars, pc, run, met, changes, crashes>>

\* Mutant: revise_sync_offset does not wait for run.lock.
ReviseAtOnce ==
    /\ Change
    /\ LET n == file.revisions + 1 IN
        file' = [Loaded(FALSE) EXCEPT
                    !.revisions = n,
                    !.manual = n,
                    !.stages = [s \in Stage |->
                        IF s \in Timed THEN [@[s] EXCEPT !.status = "stale"] ELSE @[s]]]
    /\ UNCHANGED <<source, cancelFile, runLock, storeVars, pc, run, met, crashes>>

\* revise_sync_offset waits for run.lock; the revision's number stands for
\* the offset it sets.
ReviseSyncOffset ==
    /\ runLock = None
    /\ Change
    /\ LET n == file.revisions + 1 IN
        file' = [Loaded(FALSE) EXCEPT
                    !.revisions = n,
                    !.manual = n,
                    !.stages = [s \in Stage |->
                        IF s \in Timed THEN [@[s] EXCEPT !.status = "stale"] ELSE @[s]]]
    /\ UNCHANGED <<source, cancelFile, runLock, storeVars, pc, run, met, crashes>>

\* Sources stay where they are; somebody edits one of them.
EditSource ==
    /\ Change
    /\ source' = source + 1
    /\ UNCHANGED <<file, cancelFile, runLock, storeVars, pc, run, met, crashes>>

\* status: try run.lock, then read; a prober that has the lock keeps it for
\* as long as it reads.
Probe(p) ==
    /\ met[p] = None
    /\ runLock' = IF runLock = None THEN p ELSE runLock
    /\ met' = [met EXCEPT ![p] = IF runLock = None THEN p ELSE runLock]
    /\ UNCHANGED <<file, source, cancelFile, storeVars, pc, run, changes, crashes>>

\* The statuses a prober that reads now is told.
Told(p) ==
    LET stages == Loaded(met[p] # p).stages IN [s \in Stage |-> stages[s].status]

Answer(p) ==
    /\ met[p] # None
    /\ runLock' = IF runLock = p THEN None ELSE runLock
    /\ met' = [met EXCEPT ![p] = None]
    /\ UNCHANGED <<file, source, cancelFile, storeVars, pc, run, changes, crashes>>

-----------------------------------------------------------------------------
(* analyze: what its steps have in common.                                 *)

Cur(r) == Order[run[r].at]

\* Mutant: the key of the next stage.
CurKeyNext(r) == run[r].keys[Order[IF run[r].at < Len(Order) THEN run[r].at + 1 ELSE 1]]

CurKey(r) == run[r].keys[Cur(r)]

\* The in-memory state on arrival at the current stage.
Arrived(r) ==
    LET s == Cur(r) IN
    [run[r].mem EXCEPT !.stages[s].status =
        IF run[r].mem.stages[s].key # CurKey(r) /\ @ # "not-run" THEN "stale" ELSE @]

\* The in-memory state once the current stage has a status.
Settled(r, status) ==
    [run[r].mem EXCEPT !.stages[Cur(r)].status = status, !.stages[Cur(r)].key = CurKey(r)]

\* _write_json, and the loop goes on with the next stage.
Continue(r, state, handles, cancelled) ==
    /\ file' = state
    /\ run' = [run EXCEPT ![r].mem = state, ![r].at = @ + 1, ![r].handles = @ \cup handles,
                          ![r].cut = @ \/ cancelled]
    /\ pc' = [pc EXCEPT ![r] = "stage"]
    /\ UNCHANGED <<source, cancelFile, runLock, foreign, met, changes,
                   crashes>>

\* The run ends and its run.lock is released with the file.
End(r) ==
    /\ pc' = [pc EXCEPT ![r] = "idle"]
    /\ run' = [run EXCEPT ![r] = Idle]
    /\ runLock' = None
    /\ UNCHANGED <<source, cancelFile, foreign, met, changes, crashes>>

\* RunCancelled: the stage is recorded as failed and the run is over.
StopRun(r) ==
    /\ file' = Settled(r, "failed")
    /\ End(r)
    /\ UNCHANGED published

-----------------------------------------------------------------------------
(* analyze: from the lock to the first stage.                              *)

\* A rerun gives the stage its next generation.
Advanced(generation, rerun) ==
    IF rerun = None THEN generation ELSE [generation EXCEPT ![rerun] = @ + 1]

\* settings = None keeps the saved ones; new ones keep the manual offsets.
Begin(r, through, settings, rerun, reset) ==
    /\ pc[r] = "idle"
    /\ runLock = None
    /\ IF rerun = None THEN UNCHANGED changes ELSE Change
    /\ runLock' = r
    /\ cancelFile' = (cancelFile /\ ~reset)
    /\ LET state == [Loaded(FALSE) EXCEPT
                        !.settings = IF settings = None THEN @ ELSE settings,
                        !.generation = Advanced(@, rerun)]
       IN  /\ file' = state
           /\ run' = [run EXCEPT ![r] =
                        [mem |-> state, keys |-> Keys(state, source),
                         active |-> Required[through], at |-> 1, handles |-> {},
                         cut |-> FALSE]]
    /\ pc' = [pc EXCEPT ![r] = "stage"]
    /\ UNCHANGED <<source, storeVars, met, crashes>>

-----------------------------------------------------------------------------
(* analyze: the stage loop.                                                *)

AtStage(r) == pc[r] = "stage" /\ run[r].at <= Len(Order)

Ready(r) ==
    /\ AtStage(r)
    /\ Cur(r) \in run[r].active
    /\ Dependencies[Cur(r)] \subseteq run[r].handles

\* Mutant: what the last record says of the key is believed.
StoredByRecord(r) == run[r].mem.stages[Cur(r)].key = CurKey(r)

\* store.get finds the artifact; a publisher's is known from its last record.
Stored(r) ==
    /\ CurKey(r) \in published
    /\ Cur(r) \in Publishers => run[r].mem.stages[Cur(r)].request = CurKey(r)

Skip(r) ==
    /\ AtStage(r)
    /\ Cur(r) \notin run[r].active
    /\ run' = [run EXCEPT ![r].mem = Arrived(r), ![r].at = @ + 1]
    /\ UNCHANGED <<file, source, cancelFile, runLock, storeVars, pc, met,
                   changes, crashes>>

LackInputs(r) ==
    /\ AtStage(r)
    /\ Cur(r) \in run[r].active
    /\ ~(Dependencies[Cur(r)] \subseteq run[r].handles)
    /\ Continue(r, Settled(r, "unavailable"), {}, FALSE)
    /\ UNCHANGED published

StopBeforeStage(r) ==
    /\ Ready(r)
    /\ cancelFile
    /\ StopRun(r)

Reuse(r) ==
    /\ Ready(r) /\ ~cancelFile
    /\ Stored(r)
    /\ Continue(r, Settled(r, "complete"), {Cur(r)}, FALSE)
    /\ UNCHANGED published

\* CorruptArtifact is no MissingResource: it leaves analyze, unrecorded.
FindCorrupt(r) ==
    /\ Ready(r) /\ ~cancelFile
    /\ Stored(r)
    /\ End(r)
    /\ UNCHANGED <<file, published>>

StartStage(r) ==
    /\ Ready(r) /\ ~cancelFile
    /\ ~Stored(r)
    /\ file' = Settled(r, "running")
    /\ run' = [run EXCEPT ![r].mem = Settled(r, "running")]
    /\ pc' = [pc EXCEPT ![r] = IF Cur(r) \in Publishers THEN "producing" ELSE "creating"]
    /\ UNCHANGED <<source, cancelFile, runLock, storeVars, met, changes, crashes>>

-----------------------------------------------------------------------------
(* analyze: inside store.get_or_create or the publisher.                   *)

\* The store's own Cancelled is not a RunCancelled: the stage fails and the
\* loop goes on.
GiveUpWaiting(r) ==
    /\ pc[r] = "creating"
    /\ cancelFile
    /\ Continue(r, Settled(r, "failed"), {}, TRUE)
    /\ UNCHANGED published

\* Mutant: every attempt at the lock gets a deadline of its own.
TimeOutRenewed(r) ==
    /\ pc[r] = "creating"
    /\ CurKey(r) \in foreign
    /\ UNCHANGED vars

\* WriteTimeout: the writer elsewhere kept the lock past the deadline.
TimeOut(r) ==
    /\ pc[r] = "creating"
    /\ CurKey(r) \in foreign
    /\ Continue(r, Settled(r, "failed"), {}, FALSE)
    /\ UNCHANGED published

\* The lock is free: the artifact has appeared, intact or not ...
Adopt(r) ==
    /\ pc[r] = "creating"
    /\ CurKey(r) \in published
    /\ \/ Continue(r, Settled(r, "complete"), {Cur(r)}, FALSE)
       \/ Continue(r, Settled(r, "failed"), {}, FALSE)
    /\ UNCHANGED published

\* ... or it has not, and the producer is called unless cancelled.
CallProducer(r) ==
    /\ pc[r] = "creating"
    /\ CurKey(r) \notin foreign \cup published
    /\ ~cancelFile
    /\ pc' = [pc EXCEPT ![r] = "producing"]
    /\ UNCHANGED <<file, source, cancelFile, runLock, storeVars, run, met,
                   changes, crashes>>

\* produce looks at cancel.request before and after the producer, a
\* publisher stage after its producer has published.
StopProducing(r) ==
    /\ cancelFile
    /\ \/ pc[r] = "creating" /\ CurKey(r) \notin foreign \cup published
       \/ pc[r] = "producing" /\ Cur(r) \notin Publishers
       \/ pc[r] = "published" /\ Cur(r) \in Publishers
    /\ StopRun(r)

\* The producer is done: _publish, or the publisher's own publication.
Publish(r) ==
    /\ pc[r] = "producing"
    /\ Cur(r) \in Publishers \/ ~cancelFile
    /\ published' = published \cup {CurKey(r)}
    /\ pc' = [pc EXCEPT ![r] = "published"]
    /\ UNCHANGED <<file, source, cancelFile, runLock, foreign, run, met,
                   changes, crashes>>

\* Mutant: the failure is not saved before the loop goes on.
ProducerRaisesUnsaved(r) ==
    /\ pc[r] = "producing"
    /\ run' = [run EXCEPT ![r].mem = Settled(r, "failed"), ![r].at = @ + 1]
    /\ pc' = [pc EXCEPT ![r] = "stage"]
    /\ UNCHANGED <<file, source, cancelFile, runLock, storeVars, met, changes, crashes>>

\* CapabilityUnavailable or MissingResource, or any other exception, the
\* verification of what has just been published included.
ProducerRaises(r) ==
    /\ pc[r] \in {"producing", "published"}
    /\ \E status \in {"unavailable", "failed"} : Continue(r, Settled(r, status), {}, FALSE)
    /\ UNCHANGED published

Complete(r) ==
    /\ pc[r] = "published"
    /\ Cur(r) \in Publishers => ~cancelFile
    /\ LET state == Settled(r, "complete") IN
        Continue(r, IF Cur(r) \in Publishers
                    THEN [state EXCEPT !.stages[Cur(r)].request = CurKey(r)]
                    ELSE state, {Cur(r)}, FALSE)
    /\ UNCHANGED published

Return(r) ==
    /\ pc[r] = "stage"
    /\ run[r].at = Len(Order) + 1
    /\ End(r)
    /\ UNCHANGED <<file, published>>

-----------------------------------------------------------------------------
(* solve_sync.                                                             *)

SolveBegin(r) ==
    /\ pc[r] = "idle"
    /\ runLock = None
    /\ runLock' = r
    /\ LET key == Keys(file, source)
           state == [Loaded(FALSE) EXCEPT !.stages[Sync].status = "running",
                                          !.stages[Sync].key = key[Sync]]
       IN  /\ file' = state
           /\ run' = [run EXCEPT ![r] = [Idle EXCEPT !.mem = state, !.keys = key,
                         !.at = CHOOSE i \in 1..Len(Order) : Order[i] = Sync]]
    /\ pc' = [pc EXCEPT ![r] = "solving"]
    /\ UNCHANGED <<source, cancelFile, storeVars, met, changes, crashes>>

SolveFails(r) ==
    /\ pc[r] \in {"solving", "solved"}
    /\ file' = Settled(r, "failed")
    /\ End(r)
    /\ UNCHANGED published

\* publish_offsets goes through get_or_create: the key may be there already.
SolvePublishes(r) ==
    /\ pc[r] = "solving"
    /\ CurKey(r) \notin foreign
    /\ published' = published \cup {CurKey(r)}
    /\ pc' = [pc EXCEPT ![r] = "solved"]
    /\ UNCHANGED <<file, source, cancelFile, runLock, foreign, run, met,
                   changes, crashes>>

SolveReturns(r) ==
    /\ pc[r] = "solved"
    /\ file' = Settled(r, "complete")
    /\ End(r)
    /\ UNCHANGED published

-----------------------------------------------------------------------------
(* The environment.                                                        *)

\* The process of r dies wherever it is: the kernel releases run.lock.
Crash(r) ==
    /\ pc[r] # "idle"
    /\ crashes < MaxCrashes
    /\ crashes' = crashes + 1
    /\ pc' = [pc EXCEPT ![r] = "idle"]
    /\ run' = [run EXCEPT ![r] = Idle]
    /\ runLock' = None
    /\ UNCHANGED <<file, source, cancelFile, storeVars, met, changes>>

\* Another project's run of the same stage over the same inputs: it takes
\* the lock of a key that r is about to ask for, and publishes or gives up.
ForeignBegin(r) ==
    /\ pc[r] \in {"creating", "solving"}
    /\ CurKey(r) \notin published
    /\ Cardinality(foreign) < MaxWriters
    /\ foreign' = foreign \cup {CurKey(r)}
    /\ UNCHANGED <<file, source, cancelFile, runLock, published, pc, run, met,
                   changes, crashes>>

ForeignEnd(k) ==
    /\ k \in foreign
    /\ foreign' = foreign \ {k}
    /\ published' = published \/ published' = published \cup {k}
    /\ UNCHANGED <<file, source, cancelFile, runLock, pc, run, met, changes, crashes>>

-----------------------------------------------------------------------------

\* The steps of a run that its thread takes of itself.
RunStep(r) ==
    \/ Skip(r) \/ LackInputs(r) \/ StopBeforeStage(r) \/ Reuse(r) \/ FindCorrupt(r)
    \/ StartStage(r)
    \/ GiveUpWaiting(r) \/ TimeOut(r) \/ Adopt(r) \/ CallProducer(r) \/ StopProducing(r)
    \/ Publish(r) \/ ProducerRaises(r) \/ Complete(r) \/ Return(r)
    \/ SolveFails(r) \/ SolvePublishes(r) \/ SolveReturns(r)

Call(r) ==
    \/ \E through \in Stage, settings \in Settings \cup {None},
          rerun \in Stage \cup {None}, reset \in BOOLEAN :
            Begin(r, through, settings, rerun, reset)
    \/ SolveBegin(r)

Next ==
    \/ \E r \in Runner : Call(r) \/ RunStep(r) \/ Crash(r) \/ ForeignBegin(r)
    \/ \E p \in Prober : Probe(p) \/ Answer(p)
    \/ \E k \in foreign : ForeignEnd(k)
    \/ Cancel \/ ReviseSyncOffset \/ EditSource

\* A run's thread is scheduled and its producers return; nothing is assumed
\* of clients, of other projects' writers, or of luck.
Fairness == \A r \in Runner : WF_vars(RunStep(r))

Spec == Init /\ [][Next]_vars /\ Fairness

-----------------------------------------------------------------------------
(* Properties.                                                             *)

\* Keys are nested as deep as the graph; what is typed of one is its stage.
KeyOf(s) == {k \in published \cup foreign : k.stage = s}

TypeOK ==
    /\ \A s \in Stage : /\ file.stages[s].status \in Status
                        /\ \A k \in {file.stages[s].key, file.stages[s].request} :
                                k = None \/ k.stage = s
    /\ file.settings \in Settings \cup {Unset}
    /\ file.generation \in [Stage -> 0..MaxChanges]
    /\ file.revisions \in 0..MaxChanges /\ file.manual \in 0..MaxChanges
    /\ source \in 0..MaxChanges /\ changes \in 0..MaxChanges /\ crashes \in 0..MaxCrashes
    /\ cancelFile \in BOOLEAN
    /\ runLock \in Runner \cup Prober \cup {None}
    /\ published \cup foreign = UNION {KeyOf(s) : s \in Stage}
    /\ pc \in [Runner -> {"idle", "stage", "creating", "producing", "published",
                          "solving", "solved"}]
    /\ \A r \in Runner : run[r].at \in 0..(Len(Order) + 1) /\ run[r].handles \subseteq Stage
    /\ met \in [Prober -> Runner \cup Prober \cup {None}]

\* A stage is on record as complete only with its artifact in the store, and
\* an artifact is made from artifacts (solve_sync alone works from the
\* sources): wherever runs die, time out, are cancelled, reuse a result, skip
\* a stage or adopt what its producer published.
PublishedBeforeUse ==
    /\ \A s \in Stage : file.stages[s].status = "complete" => file.stages[s].key \in published
    /\ \A k \in published :
        k.stage # Sync => \A d \in Dependencies[k.stage] : k.inputs[d] \in published

\* state.json says "running" of the stage the owner of run.lock is at and of
\* no other, unless a process has died since the last run began.
RunningIsAccountedFor ==
    \A s \in Stage : file.stages[s].status = "running" =>
        \/ crashes > 0 /\ \A r \in Runner : pc[r] = "idle"
        \/ \E r \in Runner : /\ pc[r] \in {"creating", "producing", "published",
                                           "solving", "solved"}
                             /\ runLock = r /\ s = Cur(r)

\* An accepted offset is never lost: not to an analysis that brings settings
\* of its own, nor to one that saves the state it read before.
NoRevisionLost ==
    [][file'.revisions >= file.revisions /\ file'.manual = file'.revisions]_vars

\* A client told that a stage is complete can have the artifact of the
\* present sources, settings, offsets and generations.
AnsweredCompleteIsReady ==
    [][\A p \in Prober : met[p] # None /\ met'[p] = None =>
            \A s \in Stage :
                Told(p)[s] = "complete" => Keys(file, source)[s] \in published]_vars

\* A run that got run.lock gives it back, whatever other projects' writers
\* do, once its producers return.
RunsEnd == \A r \in Runner : pc[r] # "idle" ~> pc[r] = "idle"

-----------------------------------------------------------------------------
(* What the repository says, and the code does not do.                     *)

\* "interrupted before artifact publication" (_load_status, runner.py:390).
InterruptedMeansUnpublished ==
    [][\A p \in Prober : met[p] # None /\ met'[p] = None =>
            \A s \in Stage :
                Told(p)[s] = "interrupted" => file.stages[s].key \notin published]_vars

\* "A persisted cancellation request stopped the run" (RunCancelled,
\* runner.py:74): a run that a request cut into does not return as if it had
\* gone through.
CancellationStopsTheRun == [][\A r \in Runner : Return(r) => ~run[r].cut]_vars
=============================================================================
