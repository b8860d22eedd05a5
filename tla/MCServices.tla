----------------------------- MODULE MCServices -----------------------------
(***************************************************************************)
(* Services for TLC.  As its machines share no state, nothing is gained by *)
(* their product: the subject of a behaviour is the machine that moves.    *)
(*                                                                         *)
(* OfflineRun has a target calibration, its re-measured successor and a    *)
(* scene calibration bound to the synchronization of setting 1;            *)
(* ObservationRun two views, of two windows and of one; MediaAccess one    *)
(* permit of each kind and caches of one preview; Bootstrap a writer whose *)
(* second version is the pinned one.                                       *)
(***************************************************************************)
EXTENDS Services, TLC

\* Sound: nothing orders clients or processes, and no liveness is checked.
Interchangeable == Permutations(Client) \cup Permutations(Process)

FirstSync == <<"sync", [source |-> 0, sync |-> 1]>>

Provisioned ==
    <<[id |-> 1, source |-> 0, sync |-> None],
      [id |-> 2, source |-> 0, sync |-> None],
      [id |-> 3, source |-> 0, sync |-> FirstSync]>>

TwoViews == <<2, 1>>

VARIABLE subject

all == <<subject, vars, offline, observing, media, bootstrap>>

ServicesInit ==
    /\ subject \in {"inspection", "offline", "observing", "media", "bootstrap"}
    /\ Init /\ O!Init /\ V!Init /\ M!Init /\ B!Init
    /\ subject # "bootstrap" => strong

InspectionMoves ==
    /\ subject = "inspection"
    /\ Next
    /\ UNCHANGED <<subject, offline, observing, media, bootstrap>>

OfflineMoves ==
    /\ subject = "offline"
    /\ O!Next
    /\ UNCHANGED <<subject, vars, observing, media, bootstrap>>

ObservingMoves ==
    /\ subject = "observing"
    /\ V!Next
    /\ UNCHANGED <<subject, vars, offline, media, bootstrap>>

MediaMoves ==
    /\ subject = "media"
    /\ M!Next
    /\ UNCHANGED <<subject, vars, offline, observing, bootstrap>>

BootstrapMoves ==
    /\ subject = "bootstrap"
    /\ B!Next
    /\ UNCHANGED <<subject, vars, offline, observing, media>>

ServicesNext ==
    InspectionMoves \/ OfflineMoves \/ ObservingMoves \/ MediaMoves \/ BootstrapMoves

SpecByMachine == ServicesInit /\ [][ServicesNext]_all

=============================================================================
