--------------------------- MODULE ObservationRun ---------------------------
(***************************************************************************)
(* pose/observation_run.py and the lease of vision/device.py: processes    *)
(* that infer the windows of one selection, view by view, on one GPU.      *)
(*                                                                         *)
(* The store is ArtifactStore seen from here: a key has a flock, a window  *)
(* appears at once and stays.  What a tracker remembers is the sequence of *)
(* frames it has observed, so the records of a window are the frames that  *)
(* the tracker had seen when the window was done.                          *)
(***************************************************************************)
EXTENDS Naturals, Sequences, FiniteSets

CONSTANTS
    Process,
    None,
    Windows,        \* Windows[v]: how many windows the frames of view v make
    Frames,         \* frames in a window
    MaxRuns         \* bound: runs started

VARIABLES
    store,      \* store[w]: the records of window w, or None
    writer,     \* writer[w]: the process that has the flock of w's key
    lease,      \* the process that has the flock of the GPU
    receipt,    \* the entries of the receipt file, or None
    at,         \* at[p]: what process p does
    place,      \* place[p]: its view and window
    tracker,    \* tracker[p]: the frames that its tracker observed
    session,    \* session[p]: is its model loaded?
    entries,    \* entries[p]: the windows it has counted
    runs

vars == <<store, writer, lease, receipt, at, place, tracker, session, entries, runs>>

Window == UNION {{v} \X (1..Windows[v]) : v \in DOMAIN Windows}

Frame(i, n) == <<i, n>>
Records(i, before) == before \o [n \in 1..Frames |-> Frame(i, n)]

\* What a run that nothing interrupts records for window i of any view.
Whole[i \in Nat] == IF i = 0 THEN <<>> ELSE Records(i, Whole[i - 1])

Init ==
    /\ store = [w \in Window |-> None]
    /\ writer = [w \in Window |-> None]
    /\ lease = None
    /\ receipt = None
    /\ at = [p \in Process |-> "idle"]
    /\ place = [p \in Process |-> <<1, 1>>]
    /\ tracker = [p \in Process |-> <<>>]
    /\ session = [p \in Process |-> FALSE]
    /\ entries = [p \in Process |-> {}]
    /\ runs = 0

-----------------------------------------------------------------------------
\* The locks of p go when it ends, whatever the reason: the ExitStack and the
\* finally clauses release them, and so does the kernel when p is killed.
Ends(p) ==
    /\ at' = [at EXCEPT ![p] = "idle"]
    /\ session' = [session EXCEPT ![p] = FALSE]
    /\ lease' = IF lease = p THEN None ELSE lease
    /\ writer' = [w \in Window |-> IF writer[w] = p THEN None ELSE writer[w]]

\* run_windows finds no receipt, or verifies it and returns it.
Begin(p) ==
    /\ at[p] = "idle" /\ runs < MaxRuns
    /\ runs' = runs + 1
    /\ at' = [at EXCEPT ![p] = IF receipt = None THEN "window" ELSE "verify"]
    /\ place' = [place EXCEPT ![p] = <<1, 1>>]
    /\ tracker' = [tracker EXCEPT ![p] = <<>>]
    /\ entries' = [entries EXCEPT ![p] = {}]
    /\ UNCHANGED <<store, writer, lease, receipt, session>>

\* store.get: a window of an earlier run is taken as it is; for a missing one
\* the model is loaded, once per view, under the lease of the GPU.
Look(p) ==
    /\ at[p] = "window"
    /\ at' = [at EXCEPT ![p] = IF store[place[p]] # None THEN "load"
                               ELSE IF session[p] THEN "write" ELSE "lease"]
    /\ UNCHANGED <<store, writer, lease, receipt, place, tracker, session, entries, runs>>

Lease(p) ==
    /\ at[p] = "lease" /\ lease = None
    /\ lease' = p
    /\ session' = [session EXCEPT ![p] = TRUE]
    /\ at' = [at EXCEPT ![p] = "write"]
    /\ UNCHANGED <<store, writer, receipt, place, tracker, entries, runs>>

\* get_or_create, with the key's flock: somebody may have been faster.
Write(p) ==
    LET w == place[p] IN
    /\ at[p] = "write" /\ writer[w] = None
    /\ IF store[w] # None
       THEN /\ at' = [at EXCEPT ![p] = "load"]
            /\ UNCHANGED writer
       ELSE /\ at' = [at EXCEPT ![p] = "infer"]
            /\ writer' = [writer EXCEPT ![w] = p]
    /\ UNCHANGED <<store, lease, receipt, place, tracker, session, entries, runs>>

\* One frame of the producer's loop, and after the last the window's records.
Infer(p) ==
    LET w == place[p]
        seen == Cardinality({i \in DOMAIN tracker[p] : tracker[p][i][1] = w[2]})
    IN
    /\ at[p] = "infer"
    /\ IF seen < Frames
       THEN /\ tracker' = [tracker EXCEPT ![p] = Append(@, Frame(w[2], seen + 1))]
            /\ UNCHANGED <<store, writer, at>>
       ELSE /\ store' = [store EXCEPT ![w] = tracker[p]]
            /\ writer' = [writer EXCEPT ![w] = None]
            /\ at' = [at EXCEPT ![p] = "load"]
            /\ UNCHANGED tracker
    /\ UNCHANGED <<lease, receipt, place, session, entries, runs>>

\* Mutant: a window that somebody else made leaves the tracker alone.
KeptTracker(p) == tracker[p]

\* tracker.restore(records[-1].tracker_state)
Restored(p) == store[place[p]]

\* Which view is the last before the receipt.
FinalView == Len(Windows)

\* The window is counted; the next one may be of the next view, which has a
\* tracker and a session of its own; after the last comes the receipt.
Load(p) ==
    LET v == place[p][1]
        i == place[p][2]
        done == i = Windows[v]
    IN
    /\ at[p] = "load"
    /\ entries' = [entries EXCEPT ![p] = @ \cup {place[p]}]
    /\ tracker' = [tracker EXCEPT ![p] = IF done THEN <<>> ELSE Restored(p)]
    /\ session' = [session EXCEPT ![p] = @ /\ ~done]
    /\ lease' = IF done /\ lease = p THEN None ELSE lease
    /\ place' = [place EXCEPT ![p] =
                    IF ~done THEN <<v, i + 1>> ELSE IF v = FinalView THEN @ ELSE <<v + 1, 1>>]
    /\ at' = [at EXCEPT ![p] = IF done /\ v = FinalView THEN "publish" ELSE "window"]
    /\ UNCHANGED <<store, writer, receipt, runs>>

Publish(p) ==
    /\ at[p] = "publish"
    /\ receipt' = entries[p]
    /\ at' = [at EXCEPT ![p] = "verify"]
    /\ UNCHANGED <<store, writer, lease, place, tracker, session, entries, runs>>

\* verify_receipt: every window can be read and its frames are counted.
Verify(p) ==
    /\ at[p] = "verify"
    /\ \A w \in receipt : store[w] # None
    /\ Ends(p)
    /\ UNCHANGED <<store, receipt, place, tracker, entries, runs>>

\* An error, a cancellation, a deadline of the lease or of the key's flock, or
\* the death of the process: the tracker may have observed half a window.
Fail(p) ==
    /\ at[p] # "idle"
    /\ Ends(p)
    /\ UNCHANGED <<store, receipt, place, tracker, entries, runs>>

Next ==
    \E p \in Process :
        \/ Begin(p) \/ Look(p) \/ Lease(p) \/ Write(p) \/ Infer(p)
        \/ Load(p) \/ Publish(p) \/ Verify(p) \/ Fail(p)

Spec == Init /\ [][Next]_vars

-----------------------------------------------------------------------------
\* However often runs are killed, raced or resumed, every published window has
\* the records that one uninterrupted run would have made: the tracker goes on
\* from the window before (observation_run.py:409-411).
WindowsAreOneTrack ==
    \A w \in Window : store[w] # None => store[w] = Whole[w[2]]

\* "A final receipt appears only after all selected views are verified"
\* (pose/README.md:53-55), and a model is loaded only under the GPU's lease.
ReceiptIsLast ==
    /\ receipt # None => receipt = Window /\ \A w \in Window : store[w] # None
    /\ \A p \in Process : session[p] => lease = p

\* What a run leaves behind is what one uninterrupted run would have left.
ReceiptIsTrue == WindowsAreOneTrack /\ ReceiptIsLast

=============================================================================
