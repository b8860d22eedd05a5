---------------------------- MODULE SemanticEdits ----------------------------
(***************************************************************************)
(* semantic_edits/session.py: one editing session over an automatic        *)
(* parser output, shared by the editors of several processes.  A command   *)
(* is a SQLite write transaction; inside it the immutable ManualEdits      *)
(* artifact is published, then the index row that names it is committed.   *)
(*                                                                         *)
(* Abstracted: semantics are the set of keyframes they show; a batch is    *)
(* one operation that adds or removes one of them, valid only on a view    *)
(* without, or with, it (moves and boundaries need their target as well).  *)
(***************************************************************************)
EXTENDS Naturals, Sequences

CONSTANTS
    Editor,         \* processes with a SemanticEditor, and their authors
    Automatic,      \* automatic parser outputs (id, manifest, parser)
    Frame,          \* keyframes
    Given,          \* the keyframes of the automatic output
    NoBase,         \* the session has no row yet
    NoOne,          \* no write transaction is open
    NoOperation,    \* the operations of an undo or a reset
    NoAsk,          \* an editor outside of a call
    NoEdits,        \* an editor without a ManualEdits in hand
    MaxRevision,    \* bound: accepted commands
    MaxFaults       \* bound: deaths, failing publications and commits

Operation == [kind : {"add", "remove"}, frame : Frame]

ASSUME EditAssumption ==
    /\ Given \subseteq Frame
    /\ NoOne \notin Editor
    /\ NoBase \notin Automatic
    /\ NoOperation \notin Operation
    /\ MaxRevision \in Nat
    /\ MaxFaults \in Nat

\* What a client asks for: _commit's arguments.
Ask == [automatic : Automatic, expected : Nat, command : {"apply"}, operation : Operation]
       \cup [automatic : Automatic, expected : Nat,
             command : {"undo", "reset"}, operation : {NoOperation}]

\* contracts/models.py ManualEdits with its revision_contract.
ManualEdits ==
    {m \in [automatic : Automatic, revision : Nat \ {0}, state : Nat, parent : Nat,
            command : {"apply", "undo", "reset"},
            operation : Operation \cup {NoOperation}, author : Editor] :
        /\ m.parent < m.revision
        /\ m.command = "apply" => m.state = m.revision /\ m.operation # NoOperation
        /\ m.command # "apply" => m.state < m.revision /\ m.operation = NoOperation
        /\ m.command = "reset" => m.state = 0}

\* Mutant: who made the edits is not in the key.
KeyWithoutAuthor(m) ==
    [automatic |-> m.automatic,
     config |-> <<m.revision, m.state, m.parent, m.command, m.operation>>]

\* ArtifactKey: inputs and the digest of the whole body.
KeyOf(m) == [automatic |-> m.automatic, config |-> m]

VARIABLES
    pc,             \* pc[e]: where e is inside _commit
    call,           \* call[e]: the arguments of its call
    draft,          \* draft[e]: the ManualEdits it made
    reply,          \* reply[e]: how its last call ended
    writer,         \* who holds SQLite's write lock
    pin,            \* semantic_edit_sessions: the pinned automatic output
    log,            \* semantic_edit_revisions: the keys of revisions 1, 2, ...
    artifacts,      \* the store: published key -> ManualEdits
    faults          \* deaths, failing publications and commits so far

database == <<pin, log>>
vars == <<pc, call, draft, reply, writer, database, artifacts, faults>>

Outcome == {"none", "accepted", "incompatible", "stale", "invalid", "busy", "store_error"}

\* Inside the write transaction.
InTransaction == {"writing", "published"}

Label == InTransaction \cup {"idle", "waiting", "committed"}

NoReply == [outcome |-> "none", revision |-> 0, to |-> NoAsk]

TypeOK ==
    /\ pc \in [Editor -> Label]
    /\ call \in [Editor -> Ask \cup {NoAsk}]
    /\ draft \in [Editor -> ManualEdits \cup {NoEdits}]
    /\ reply \in [Editor -> [outcome : Outcome, revision : Nat, to : Ask \cup {NoAsk}]]
    /\ writer \in Editor \cup {NoOne}
    /\ pin \in Automatic \cup {NoBase}
    /\ artifacts \in [DOMAIN artifacts -> ManualEdits]
    /\ log \in Seq(DOMAIN artifacts)
    /\ faults \in Nat

Init ==
    /\ pc = [e \in Editor |-> "idle"]
    /\ call = [e \in Editor |-> NoAsk]
    /\ draft = [e \in Editor |-> NoEdits]
    /\ reply = [e \in Editor |-> NoReply]
    /\ writer = NoOne
    /\ pin = NoBase
    /\ log = <<>>
    /\ artifacts = [k \in {} |-> NoEdits]
    /\ faults = 0

-----------------------------------------------------------------------------
(* Reading the history.                                                    *)

\* _head: a session without a row is at 0.
HeadOf == Len(log)

\* _load
At(r) == artifacts[log[r]]

\* The active state of the head.
StateAtHead == IF HeadOf = 0 THEN 0 ELSE At(HeadOf).state

Effect(frames, operation) ==
    IF operation.kind = "add"
    THEN frames \cup {operation.frame}
    ELSE frames \ {operation.frame}

\* apply_operations does not raise.
Allowed(frames, operation) ==
    (operation.kind = "remove") <=> (operation.frame \in frames)

\* Mutant: the chain is walked by revision, so that what was undone comes back.
MaterializedByNumber(state) ==
    LET view[t \in 0 .. HeadOf] ==
            IF t = 0 THEN Given
            ELSE IF At(t).command # "apply" THEN view[t - 1]
            ELSE Effect(view[t - 1], At(t).operation)
    IN  view[state]

\* _materialize: the chain from the state back to 0, applied oldest first.
Materialized(state) ==
    LET view[t \in 0 .. HeadOf] ==
            IF t = 0 THEN Given
            ELSE Effect(view[At(t).parent], At(t).operation)
    IN  view[state]

-----------------------------------------------------------------------------
(* A call: arguments, the wait for the write lock, its end.                *)

Goto(e, label) == pc' = [pc EXCEPT ![e] = label]

Close(e) == writer' = IF writer = e THEN NoOne ELSE writer

Forget(e) ==
    /\ call' = [call EXCEPT ![e] = NoAsk]
    /\ draft' = [draft EXCEPT ![e] = NoEdits]

\* The exception leaves the "with": the transaction is rolled back.
Raise(e, outcome) ==
    /\ Goto(e, "idle")
    /\ Close(e)
    /\ Forget(e)
    /\ reply' = [reply EXCEPT ![e] = [NoReply EXCEPT !.outcome = outcome]]

\* view, then apply, undo or reset upon what it showed, now or a while ago.
Call(e, ask) ==
    /\ pc[e] = "idle"
    /\ ask.expected <= HeadOf
    /\ ask.expected < MaxRevision
    /\ Goto(e, "waiting")
    /\ call' = [call EXCEPT ![e] = ask]
    /\ reply' = [reply EXCEPT ![e] = NoReply]
    /\ UNCHANGED <<draft, writer, database, artifacts, faults>>

\* Mutant: BEGIN instead of BEGIN IMMEDIATE, so that readers become writers.
BeginDeferred(e) ==
    /\ pc[e] = "waiting"
    /\ Goto(e, "writing")
    /\ writer' = e
    /\ UNCHANGED <<call, draft, reply, database, artifacts, faults>>

\* BEGIN IMMEDIATE
Begin(e) ==
    /\ pc[e] = "waiting"
    /\ writer = NoOne
    /\ Goto(e, "writing")
    /\ writer' = e
    /\ UNCHANGED <<call, draft, reply, database, artifacts, faults>>

\* The lock was not free within the timeout of the connection.
GiveUp(e) ==
    /\ pc[e] = "waiting"
    /\ writer # NoOne
    /\ Raise(e, "busy")
    /\ UNCHANGED <<database, artifacts, faults>>

-----------------------------------------------------------------------------
(* Inside the transaction.                                                 *)

\* Mutant: the automatic output is not compared.
IncompatibleNever(e) == FALSE

Incompatible(e) == HeadOf # 0 /\ pin # call[e].automatic

Stale(e) == HeadOf # call[e].expected

\* There is something to undo: a reset just before, or an active edit.
CanUndo == HeadOf # 0 /\ (At(HeadOf).command = "reset" \/ StateAtHead # 0)

Undone ==
    IF At(HeadOf).command = "reset"
    THEN At(HeadOf).parent
    ELSE At(StateAtHead).parent

Invalid(e) ==
    \/ call[e].command = "undo" /\ ~CanUndo
    \/ call[e].command = "apply"
       /\ ~Allowed(Materialized(StateAtHead), call[e].operation)

Reject(e) ==
    /\ pc[e] = "writing"
    /\ \/ Incompatible(e) /\ Raise(e, "incompatible")
       \/ ~Incompatible(e) /\ Stale(e) /\ Raise(e, "stale")
       \/ ~Incompatible(e) /\ ~Stale(e) /\ Invalid(e) /\ Raise(e, "invalid")
    /\ UNCHANGED <<database, artifacts, faults>>

\* The state that the command makes active.
Target(command) ==
    CASE command = "apply" -> HeadOf + 1
      [] command = "undo" -> Undone
      [] command = "reset" -> 0

Draft(e) ==
    [automatic |-> call[e].automatic, revision |-> HeadOf + 1,
     state |-> Target(call[e].command), parent |-> StateAtHead,
     command |-> call[e].command, operation |-> call[e].operation, author |-> e]

\* get_or_create: an artifact that is there already is not made again.
Stored(m) ==
    artifacts' = [k \in DOMAIN artifacts \cup {KeyOf(m)} |->
                     IF k \in DOMAIN artifacts THEN artifacts[k] ELSE m]

Publish(e) ==
    /\ pc[e] = "writing"
    /\ ~Incompatible(e) /\ ~Stale(e) /\ ~Invalid(e)
    /\ Goto(e, "published")
    /\ draft' = [draft EXCEPT ![e] = Draft(e)]
    /\ Stored(Draft(e))
    /\ UNCHANGED <<call, reply, writer, database, faults>>

\* Mutant: what the store raises is swallowed.
PublishFailsUnnoticed(e) ==
    /\ pc[e] = "writing"
    /\ ~Incompatible(e) /\ ~Stale(e) /\ ~Invalid(e)
    /\ faults < MaxFaults
    /\ faults' = faults + 1
    /\ Goto(e, "published")
    /\ draft' = [draft EXCEPT ![e] = Draft(e)]
    /\ UNCHANGED <<call, reply, writer, database, artifacts>>

\* The store times out, or finds the artifact corrupt.
PublishFails(e) ==
    /\ pc[e] = "writing"
    /\ ~Incompatible(e) /\ ~Stale(e) /\ ~Invalid(e)
    /\ faults < MaxFaults
    /\ faults' = faults + 1
    /\ Raise(e, "store_error")
    /\ UNCHANGED <<database, artifacts>>

\* The two INSERTs and the COMMIT.
Commit(e) ==
    /\ pc[e] = "published"
    /\ Goto(e, "committed")
    /\ Close(e)
    /\ log' = Append(log, KeyOf(draft[e]))
    /\ pin' = IF HeadOf = 0 THEN draft[e].automatic ELSE pin
    /\ UNCHANGED <<call, draft, reply, artifacts, faults>>

\* Readers keep the database busy, or the disk is full: the artifact stays.
CommitFails(e) ==
    /\ pc[e] = "published"
    /\ faults < MaxFaults
    /\ faults' = faults + 1
    /\ Raise(e, "busy")
    /\ UNCHANGED <<database, artifacts>>

Answer(e) ==
    /\ pc[e] = "committed"
    /\ Goto(e, "idle")
    /\ reply' = [reply EXCEPT ![e] =
                    [outcome |-> "accepted", revision |-> draft[e].revision, to |-> call[e]]]
    /\ Forget(e)
    /\ UNCHANGED <<writer, database, artifacts, faults>>

\* The editor's process dies; SQLite rolls its transaction back.
Crash(e) ==
    /\ pc[e] # "idle"
    /\ faults < MaxFaults
    /\ faults' = faults + 1
    /\ Goto(e, "idle")
    /\ Close(e)
    /\ Forget(e)
    /\ UNCHANGED <<reply, database, artifacts>>

-----------------------------------------------------------------------------

Asked(e) ==
    \E a \in Automatic, n \in 0 .. MaxRevision :
        \/ \E command \in {"undo", "reset"} :
              Call(e, [automatic |-> a, expected |-> n,
                       command |-> command, operation |-> NoOperation])
        \/ \E operation \in Operation :
              Call(e, [automatic |-> a, expected |-> n,
                       command |-> "apply", operation |-> operation])

Step(e) ==
    \/ Begin(e) \/ GiveUp(e) \/ Reject(e)
    \/ Publish(e) \/ PublishFails(e) \/ Commit(e) \/ CommitFails(e) \/ Answer(e)

Next == \E e \in Editor : Asked(e) \/ Step(e) \/ Crash(e)

Spec == Init /\ [][Next]_vars

-----------------------------------------------------------------------------
(* Properties.                                                             *)

\* A crash or a failure at any point leaves at most an artifact that nothing
\* names: every revision of the index is published, under its own number
\* (README: "never a head pointing to an incomplete artifact"; _load).
HistoryIsReadable ==
    \A r \in 1 .. HeadOf : log[r] \in DOMAIN artifacts /\ At(r).revision = r

\* _materialize never meets a revision that is not an apply, and always ends:
\* states and parents are 0 or earlier applies, each parent the state before.
HistoryIsWellFounded ==
    \A r \in 1 .. HeadOf :
        /\ At(r).parent = IF r = 1 THEN 0 ELSE At(r - 1).state
        /\ \A s \in {At(r).state, At(r).parent} \ {0} :
              s <= r /\ At(s).command = "apply"

\* A client that was told "accepted" finds its own command at that number, and
\* it was made upon the revision that the client had seen: nobody's command
\* came between, and no artifact that another writer left was taken for it.
AcceptedIsRecorded ==
    \A e \in Editor : reply[e].outcome = "accepted" =>
        LET n == reply[e].revision
            asked == reply[e].to
        IN  /\ n = asked.expected + 1 /\ n <= HeadOf
            /\ At(n).author = e
            /\ At(n).command = asked.command
            /\ At(n).operation = asked.operation
            /\ At(n).automatic = asked.automatic

\* A session never mixes parser outputs, whoever makes its first revision.
OneBase ==
    \A r \in 1 .. HeadOf : At(r).automatic = pin

ParentClosed(S) == \A r \in S : At(r).parent \in S \cup {0}

\* The revisions on the way from a state back to the automatic output: the
\* least set that has the state and the parents of its members.
Active(state) ==
    {t \in 1 .. HeadOf :
        \A S \in SUBSET (1 .. HeadOf) : state \in S \cup {0} /\ ParentClosed(S) => t \in S}

ActiveAtHead == Active(StateAtHead)

\* However edits, undos and resets alternate, each active edit was allowed on
\* the view before it, so that the view can always be built (apply_operations
\* raises in _materialize otherwise, and the session could not be opened).
ViewsMaterialize ==
    \A t \in ActiveAtHead : Allowed(Materialized(At(t).parent), At(t).operation)

\* The view shows the last word of the active revisions on each keyframe, and
\* nothing of what was undone or reset.
ViewIsTheLastWord ==
    \A f \in Frame :
        LET about == {t \in ActiveAtHead : At(t).operation.frame = f} IN
        f \in Materialized(StateAtHead) <=>
            IF about = {} THEN f \in Given
            ELSE \E t \in about : (\A q \in about : q <= t) /\ At(t).operation.kind = "add"

\* What a long history, which one editor suffices to make, can get wrong.
HistoryIsFaithful == HistoryIsWellFounded /\ ViewsMaterialize /\ ViewIsTheLastWord

\* The index and the artifacts are an EditHistory.
History == INSTANCE EditHistory WITH
    base <- pin,
    revision <- HeadOf,
    active <- ActiveAtHead,
    cleared <- IF HeadOf = 0 \/ At(HeadOf).command # "reset"
               THEN {}
               ELSE {Active(At(HeadOf).parent)}

\* Undo, reset and undo of a reset do what the README says, across editors,
\* crashes and failing commits.
ImplementsHistory == History!Spec

==============================================================================
