------------------------------ MODULE Services ------------------------------
(***************************************************************************)
(* The machines around the runner and the queue: the inspection index, the *)
(* offline analyses, the observation runs, the media of the service and    *)
(* the bootstrap of the dataset.  They share no state: an artifact of one  *)
(* is a model value of another.                                            *)
(***************************************************************************)
EXTENDS Inspection, Sequences, FiniteSets

-----------------------------------------------------------------------------
(* OfflineRun.                                                             *)

CONSTANTS
    Sources, Provision,     \* versions of the source files, calibration files
    Revisions, Losses       \* bounds: edits of files and settings; faults

VARIABLES now, store, record, run, torn, changes, faults

offline == <<now, store, record, run, torn, changes, faults>>

O == INSTANCE OfflineRun WITH MaxChanges <- Revisions, MaxFaults <- Losses

\* The record of a project is true of its store (pipeline/offline.py).
RecordIsTrue == O!RecordIsTrue

-----------------------------------------------------------------------------
(* ObservationRun.                                                         *)

CONSTANTS
    Process,            \* those that infer
    Windows, Frames,    \* windows of each view, frames of a window
    MaxRuns             \* bound

\* A view is selected with one window at least, of one frame at least.
WindowsAssumption ==
    /\ Windows \in Seq(Nat \ {0}) /\ Windows # <<>>
    /\ Frames \in Nat \ {0}

\* None is neither a process nor a window's records.
NoneAssumption == None \notin Process \cup Seq(Nat \X Nat)

ASSUME ObservationAssumption == WindowsAssumption /\ NoneAssumption

VARIABLES records, writer, lease, receipt, step, place, tracker, session, entries, runs

observing == <<records, writer, lease, receipt, step, place, tracker, session, entries, runs>>

V == INSTANCE ObservationRun WITH store <- records, at <- step

\* Windows and receipt are those of one whole run (pose/observation_run.py).
ReceiptIsTrue == V!ReceiptIsTrue

-----------------------------------------------------------------------------
(* MediaAccess.                                                            *)

CONSTANTS
    Streams, Decoders, Keep,        \* permits of each kind, size of a cache
    Overwrites, MaxRequests         \* bounds

ASSUME MediaAssumption == IsFiniteSet(Client) /\ Overwrites \in Nat

VARIABLES named, bytes, hashes, lock_, memory, disk, variants, streams, decoders,
          dropped, doing, item, pinned, read, overwrites, requests

media == <<named, bytes, hashes, lock_, memory, disk, variants, streams, decoders,
           dropped, doing, item, pinned, read, overwrites, requests>>

M == INSTANCE MediaAccess WITH
        MaxEdits <- Overwrites,
        index <- hashes, lock <- lock_, at <- doing, made <- read, edits <- overwrites

\* What is kept under a hash was made of the bytes it is of (media_access.py).
KeptIsOfItsSource == M!KeptIsOfItsSource

\* A permit is with a response or a decoder, or was dropped (api.py, media_access.py).
PermitsAreAccountedFor == M!PermitsAreAccountedFor

-----------------------------------------------------------------------------
(* Bootstrap.                                                              *)

CONSTANTS
    Pinned, Versions,               \* of the archive
    Size, Retries,                  \* blocks, transfers in a call
    MaxCalls, MaxBreaks             \* bounds

VARIABLES served, strong, part, sidecar, litter, extracted, published, stage, tag,
          from, attempt, calls, breaks

bootstrap == <<served, strong, part, sidecar, litter, extracted, published, stage, tag,
               from, attempt, calls, breaks>>

B == INSTANCE Bootstrap WITH at <- stage

\* No archive mixes two versions (dataset_bootstrap.py).
ArchiveIsOneVersion == B!ArchiveIsOneVersion

=============================================================================
