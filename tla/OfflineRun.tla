----------------------------- MODULE OfflineRun -----------------------------
(***************************************************************************)
(* pipeline/offline.py: the stages of the runner (PipelineRun) wired to    *)
(* the publishers (Publishers), over the analyses of one project.          *)
(*                                                                         *)
(* PipelineRun has the runner's journal and its failures; here a stage is  *)
(* one step, and what counts is which bytes and which artifacts it reads:  *)
(* its key is computed when the analysis begins, the files are read when   *)
(* the stage runs, and ground and parsing look artifacts up by themselves. *)
(* The artifacts that a stage publishes one after the other and hands to   *)
(* nobody else are one artifact: the four of ground, the five of parsing.  *)
(* An artifact that a lineage check opened before it failed is left out of *)
(* the lineage that is recorded next.                                      *)
(***************************************************************************)
EXTENDS Naturals, Sequences, FiniteSets

CONSTANTS
    None,
    Sources,        \* versions of the registered source files
    Provision,      \* calibration files: their id, source and synchronization
    MaxChanges,     \* bound: edits of files and settings
    MaxFaults       \* bound: artifacts lost and analyses cut short

VARIABLES
    now,        \* the files and the settings as they are
    store,      \* the artifacts in the store
    record,     \* record[s]: the journal's record of publishing stage s
    run,        \* the analysis that has run.lock
    torn,       \* were files edited while an analysis ran?
    changes, faults

vars == <<now, store, record, run, torn, changes, faults>>

Order == <<"ingest", "sync", "calibration", "observations", "attachment",
           "reconstruction", "ground", "parsing">>
Stage == {Order[i] : i \in DOMAIN Order}
Inline == {"ingest", "sync", "calibration"}
Publishing == Stage \ Inline

Needs ==
    [ingest |-> {}, sync |-> {"ingest"}, observations |-> {"ingest"},
     calibration |-> {"ingest", "sync"}, attachment |-> {"sync", "observations"},
     reconstruction |-> {"calibration", "attachment"},
     ground |-> {"reconstruction"}, parsing |-> {"ground"}]

\* The files, and the settings that tell keys apart: the name of a setting is
\* its stage, and a new generation is a new setting.
Inputs == [source : Sources, file : DOMAIN Provision,
           sync : 0..1, reconstruction : 0..1, parsing : 0..1]

Set(stage) == {stage} \cap {"sync", "reconstruction", "parsing"}

\* Mutant: the bytes of the calibration file are not in the key.
AssetByPath(stage) ==
    Set(stage) \cup (IF stage = "ingest" THEN {"source"} ELSE {})

\* What is in a stage's key besides the keys of the stages that it needs ...
Hashed(stage) ==
    Set(stage) \cup (IF stage = "ingest" THEN {"source"} ELSE
                   IF stage = "calibration" THEN {"file"} ELSE {})

\* ... and with them.
Cone[stage \in Stage] == Hashed(stage) \cup UNION {Cone[s] : s \in Needs[stage]}

\* _expected_keys: equal keys are equal stages and equal hashed inputs.
Key(stage, inputs) == <<stage, [x \in Cone[stage] |-> inputs[x]]>>

KeyNow(stage) == Key(stage, now)

NoHandle == [s \in Stage |-> None]
Resting == [at |-> 0, asked |-> None, handle |-> NoHandle, opened |-> {}]

Init ==
    /\ now = [source |-> 0, file |-> 1, sync |-> 0, reconstruction |-> 0, parsing |-> 0]
    /\ store = {}
    /\ record = [s \in Publishing |-> None]
    /\ run = Resting
    /\ torn = FALSE
    /\ changes = 0
    /\ faults = 0

-----------------------------------------------------------------------------
(* What the stages publish, from the inputs i as they are and their        *)
(* handles h: a set of chains, each of which starts with what the stage    *)
(* returns and goes on with what was published on the way to it.           *)

Checked(holds, chain) == IF holds THEN {chain} ELSE {}

\* ingest_stage compares the bytes with its key; sync_stage does not.
Ingested(i, key) == Checked(key[2].source = i.source, <<[key |-> key]>>)

Synchronized(i, key) == {<<[key |-> key, clockOf |-> i.source]>>}

\* The cameras are those of the source files, the synchronization is ours.
Calibrated(i, key, h) ==
    Checked(/\ Provision[i.file].source = i.source
            /\ Provision[i.file].sync \in {None, h["sync"].key},
            <<[key |-> key, file |-> i.file]>>)

Observed(i) == {<<[windowsOf |-> i.source]>>}

\* The windows of the observations' record, in the clock it is handed.
Attached(h) ==
    {<<[windows |-> w, sync |-> h["sync"]]>> :
        w \in {x \in record["observations"].lineage \cap store :
                 /\ DOMAIN x = {"windowsOf"}
                 /\ x.windowsOf = h["sync"].clockOf}}

\* publish_triangulation, then morphology, pose and motion.
Reconstructed(i, h) ==
    LET calibration == h["calibration"]
        attachment == h["attachment"]
        bound == Provision[calibration.file].sync
        raw == [calibration |-> calibration, attachment |-> attachment]
    IN  Checked(bound # None => bound = attachment.sync.key,
                <<[raw |-> raw, fit |-> i.reconstruction],
                  [bodyOf |-> raw, fit |-> i.reconstruction], raw>>)

\* stage_handle("calibration"), from the files as they are.
Calibrations(i) ==
    {a \in store : "file" \in DOMAIN a /\ a.key = Key("calibration", i)}

\* The body in the lineage of the reconstruction's record.
Bodies ==
    {a \in record["reconstruction"].lineage \cap store : "bodyOf" \in DOMAIN a}

\* Contacts compare the ids of the calibrations.
Grounded(i, h) ==
    LET motion == h["reconstruction"] IN
    {<<[motion |-> motion, calibration |-> x[1], body |-> x[2]]>> :
        x \in {y \in Calibrations(i) \X Bodies :
            Provision[y[1].file].id = Provision[motion.raw.calibration.file].id}}

\* stage_handle("reconstruction") is the record's artifact.
Parsed(i, h) ==
    LET motion == record["reconstruction"].artifact IN
    Checked(motion \in store /\ h["ground"].motion = motion,
            <<[motion |-> motion, ground |-> h["ground"], rules |-> i.parsing]>>)

Published(stage, key, i, h) ==
    IF stage \notin Inline /\ \E s \in Needs[stage] \ {"ingest"} : h[s] \notin store
    THEN {}
    ELSE CASE stage = "ingest" -> Ingested(i, key)
           [] stage = "sync" -> Synchronized(i, key)
           [] stage = "calibration" -> Calibrated(i, key, h)
           [] stage = "observations" -> Observed(i)
           [] stage = "attachment" -> Attached(h)
           [] stage = "reconstruction" -> Reconstructed(i, h)
           [] stage = "ground" -> Grounded(i, h)
           [] stage = "parsing" -> Parsed(i, h)

-----------------------------------------------------------------------------
(* An analysis.                                                            *)

Begin ==
    /\ run.at = 0
    /\ run' = [Resting EXCEPT !.at = 1, !.asked = now]
    /\ UNCHANGED <<now, store, record, torn, changes, faults>>

\* Nothing if the request is another one or anything of its lineage is gone.
Reusable(stage, key) ==
    IF stage \in Inline
    THEN {a \in store : "key" \in DOMAIN a /\ a.key = key}
    ELSE {a \in store :
            /\ record[stage] # None
            /\ record[stage].artifact = a
            /\ record[stage].request = key
            /\ record[stage].lineage \subseteq store}

Lineage(stage) == IF stage \in Inline THEN {} ELSE record[stage].lineage

Handle(stage, a, opened) ==
    run' = [at |-> run.at + 1, asked |-> run.asked,
            handle |-> [run.handle EXCEPT ![stage] = a],
            opened |-> run.opened \cup {a} \cup opened]

Reuse(stage, key) ==
    /\ \E a \in Reusable(stage, key) : Handle(stage, a, Lineage(stage))
    /\ UNCHANGED <<store, record>>

\* The record has what the run has opened so far (PublisherStore), except that
\* the observations' has their windows only.
Produce(stage, key) ==
    /\ Reusable(stage, key) = {}
    /\ \E chain \in Published(stage, key, now, run.handle) :
        LET made == {chain[n] : n \in DOMAIN chain} IN
        /\ store' = store \cup made
        /\ Handle(stage, chain[1], made)
        /\ record' = IF stage \in Inline
                     THEN record
                     ELSE [record EXCEPT ![stage] =
                            [request |-> key, artifact |-> chain[1],
                             lineage |-> IF stage = "observations"
                                         THEN made
                                         ELSE run.opened \cup made]]

Ready(stage) == \A s \in Needs[stage] : run.handle[s] # None

\* Unavailable or failed: the stages that need it are unavailable too.
GoWithout(stage, key) ==
    /\ Ready(stage) =>
        /\ Reusable(stage, key) = {}
        /\ Published(stage, key, now, run.handle) = {}
    /\ run' = [run EXCEPT !.at = @ + 1]
    /\ UNCHANGED <<store, record>>

RunStage ==
    /\ run.at \in DOMAIN Order
    /\ LET stage == Order[run.at]
           key == Key(stage, run.asked)
       IN
        \/ Ready(stage) /\ Reuse(stage, key)
        \/ Ready(stage) /\ Produce(stage, key)
        \/ GoWithout(stage, key)
    /\ UNCHANGED <<now, torn, changes, faults>>

End ==
    /\ run.at > Len(Order)
    /\ run' = Resting
    /\ UNCHANGED <<now, store, record, torn, changes, faults>>

Fault == faults < MaxFaults /\ faults' = faults + 1

\* It is cancelled between two stages, or its process dies.
CutShort ==
    /\ run.at \in DOMAIN Order
    /\ Fault
    /\ run' = Resting
    /\ UNCHANGED <<now, store, record, torn, changes>>

-----------------------------------------------------------------------------
(* Everyone else: files change at any time, settings under run.lock.       *)

Change(inputs) ==
    /\ changes < MaxChanges
    /\ inputs # now
    /\ changes' = changes + 1
    /\ now' = inputs
    /\ UNCHANGED <<store, record, run, faults>>

EditFile ==
    /\ \/ \E v \in Sources : Change([now EXCEPT !.source = v])
       \/ \E f \in DOMAIN Provision : Change([now EXCEPT !.file = f])
    /\ torn' = (torn \/ run.at # 0)

Configure ==
    /\ run.at = 0
    /\ \E stage \in {"sync", "reconstruction", "parsing"} :
        Change([now EXCEPT ![stage] = 1 - @])
    /\ UNCHANGED torn

Lose(a) ==
    /\ Fault
    /\ store' = store \ {a}
    /\ UNCHANGED <<now, record, run, torn, changes>>

Next ==
    \/ Begin \/ RunStage \/ End \/ CutShort
    \/ EditFile \/ Configure
    \/ \E a \in store : Lose(a)

Spec == Init /\ [][Next]_vars

-----------------------------------------------------------------------------
(* Properties.                                                             *)

\* One motion, one body, one calibration id and one clock.
OnePast(semantics) ==
    LET motion == semantics.motion
        ground == semantics.ground
        bound == Provision[motion.raw.calibration.file].sync
    IN
    /\ ground.motion = motion
    /\ ground.body = [bodyOf |-> motion.raw, fit |-> motion.fit]
    /\ Provision[ground.calibration.file].id = Provision[motion.raw.calibration.file].id
    /\ bound # None => bound = motion.raw.attachment.sync.key

\* Every product on record has one past, also when files are edited, settings
\* changed, artifacts lost and runs cut short between or during the stages:
\* ground and parsing look for the calibration, the body and the motion by
\* themselves, and still find those of the motion they are handed.
OnePastOnRecord == record["parsing"] # None => OnePast(record["parsing"].artifact)

Complete(stage) ==
    /\ record[stage] # None
    /\ record[stage].request = KeyNow(stage)

\* What the journal shows as complete is what the present files and settings
\* make, whatever was recorded before them, when no file was edited under a
\* running analysis.
CompleteIsFresh ==
    ~torn /\ Complete("parsing") /\ Complete("ground") /\ Complete("reconstruction") =>
        LET semantics == record["parsing"].artifact
            motion == record["reconstruction"].artifact
            raw == motion.raw
        IN
        /\ semantics.rules = now.parsing
        /\ semantics.motion = motion
        /\ record["ground"].artifact = semantics.ground
        /\ motion.fit = now.reconstruction
        /\ raw.calibration.file = now.file
        /\ raw.attachment = [windows |-> [windowsOf |-> now.source],
                             sync |-> [key |-> KeyNow("sync"), clockOf |-> now.source]]

\* What the record says of a project is true, of its lineages and of the present.
RecordIsTrue == OnePastOnRecord /\ CompleteIsFresh

=============================================================================
