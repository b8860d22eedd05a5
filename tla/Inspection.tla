----------------------------- MODULE Inspection -----------------------------
(***************************************************************************)
(* inspection.py and inspection_api.py: a project's index of registered    *)
(* products, read, registered and edited by request threads and command    *)
(* lines that share run.lock with the pipeline (PipelineRun).              *)
(*                                                                         *)
(* The index is one SQLite file whose transactions are atomic; the edits   *)
(* of a semantic product are another (SemanticEdits, here the number of    *)
(* commands that its session accepted).  Between the two, and between the  *)
(* index and the source files, nothing is atomic.                          *)
(*                                                                         *)
(* Abstracted: a timed product (reconstruction, ground, semantics) is the  *)
(* synchronization that its lineage leads to; rows are the edit revision   *)
(* they show; page bounds and evidence are left out.                       *)
(***************************************************************************)
EXTENDS Naturals

CONSTANTS
    Client,         \* request threads and command lines
    Offset,         \* manual offsets of a camera
    Estimate,       \* the automatic estimate of its offset
    None,           \* nothing: no manual offset, no product, no answer
    MaxChanges,     \* bound: source edits, offset revisions and reruns of sync
    MaxEdits,       \* bound: accepted edits of semantic products
    MaxDeaths       \* bound: clients that die half way

ASSUME InspectionAssumption ==
    /\ None \notin Client
    /\ None \notin Offset
    /\ Estimate \in Offset
    /\ MaxChanges \in Nat
    /\ MaxEdits \in Nat
    /\ MaxDeaths \in Nat

Count == 0..MaxChanges

Clock == [source : Count, revision : Count, generation : Count]

\* A Synchronization, by what its key covers.
Sync == [source : Count, manual : Offset \cup {None}, generation : Count]

Effective(manual, estimate) == IF manual = None THEN estimate ELSE manual

\* The offset in an artifact: the manual one of its settings or the estimate.
OffsetIn(s) == Effective(s.manual, Estimate)

VARIABLES
    clock,          \* Inspection.clock: what the project's files say
    manual,         \* the manual offset in state.json
    made,           \* synchronizations whose products are published
    sharers,        \* clients with run.lock shared
    owner,          \* the client with run.lock exclusive, or None
    index,          \* products and entities of inspection.sqlite3, or None
    bindings,       \* its table of first clocks: timed product -> clock
    revision,       \* accepted commands of each product's edit session
    pc,             \* pc[c]: where client c is
    seen,           \* seen[c]: what it has read so far
    told,           \* told[s]: the latest edit of s that a client was told of
    shown,          \* <<timed product, clock>> that answers named together
    edits, deaths

project == <<clock, manual, made>>
lock == <<sharers, owner>>
database == <<index, bindings>>
history == <<told, shown>>
vars == <<project, lock, database, revision, pc, seen, history, edits, deaths>>

\* The header rows: which products, stamped with which clock and edit.
Index == [sync : Sync, timed : Sync \cup {None}, clock : Clock, edit : Nat, rows : Nat]

Reading == {"opened", "fetched"}
Owning == {"checked", "indexed", "editing", "committed"}
Label == {"idle"} \cup Reading \cup Owning

Nothing == [index |-> None, clock |-> None, asked |-> None]

-----------------------------------------------------------------------------
(* The index, as its readers use it.                                       *)

\* Mutant: the edit session is not looked at.
NeverStale(i) == FALSE

\* headers: an index behind the edit session is refused.
Stale(i) == i.timed # None /\ revision[i.timed] # 0 /\ revision[i.timed] # i.edit

\* current: native observations depend on the sources only.
IsCurrent(i, c, product) ==
    IF product = "observations" THEN i.clock.source = c.source ELSE i.clock = c

\* Mutant: products are indexed under whatever clock it is now.
BindableAnyTime(s) == TRUE

\* _index: the first clock of a timed product stays its clock.
Bindable(s) == s \in DOMAIN bindings => bindings[s] = clock

\* INSERT OR IGNORE: a product that is bound stays bound.
Bound(s) ==
    [t \in DOMAIN bindings \cup {s} |->
        IF t \in DOMAIN bindings THEN bindings[t] ELSE clock]

-----------------------------------------------------------------------------
Init ==
    /\ clock = [source |-> 0, revision |-> 0, generation |-> 0]
    /\ manual = None
    /\ made = {[source |-> 0, manual |-> None, generation |-> 0]}
    /\ sharers = {}
    /\ owner = None
    /\ index = None
    /\ bindings = [s \in {} |-> clock]
    /\ revision = [s \in Sync |-> 0]
    /\ pc = [c \in Client |-> "idle"]
    /\ seen = [c \in Client |-> Nothing]
    /\ told = [s \in Sync |-> 0]
    /\ shown = {}
    /\ edits = 0
    /\ deaths = 0

Free == owner = None /\ sharers = {}

Goto(c, label) == pc' = [pc EXCEPT ![c] = label]

\* The request is over: its file is closed and with it the lease released.
Leave(c) ==
    /\ Goto(c, "idle")
    /\ seen' = [seen EXCEPT ![c] = Nothing]
    /\ sharers' = sharers \ {c}
    /\ owner' = IF owner = c THEN None ELSE owner

-----------------------------------------------------------------------------
(* The project moves on: analyses and revisions hold run.lock exclusively, *)
(* source files are edited by anyone.                                      *)

\* The products of a clock may be published as soon as it is the clock.
Advance(o, c) ==
    /\ clock.source + clock.revision + clock.generation < MaxChanges
    /\ manual' = o
    /\ clock' = c
    /\ made' = made \cup {[source |-> c.source, manual |-> o, generation |-> c.generation]}
    /\ UNCHANGED <<lock, database, revision, pc, seen, history, edits, deaths>>

ReviseOffset(o) == Free /\ Advance(o, [clock EXCEPT !.revision = @ + 1])

RerunSync == Free /\ Advance(manual, [clock EXCEPT !.generation = @ + 1])

EditSource == Advance(manual, [clock EXCEPT !.source = @ + 1])

-----------------------------------------------------------------------------
(* register: verify, then one transaction, then the edits in a second one. *)

\* _register before its transaction.  The lineage of timed products must
\* lead to the synchronization that is registered with them.
RegisterBegin(c, s, timed) ==
    /\ pc[c] = "idle"
    /\ Free
    /\ s \in made
    /\ timed \in {None} \cup made
    /\ s.source = clock.source
    /\ manual # None => OffsetIn(s) = manual
    /\ timed # None => timed = s
    /\ owner' = c
    /\ seen' = [seen EXCEPT ![c] =
                    [Nothing EXCEPT !.clock = clock, !.asked = [sync |-> s, timed |-> timed]]]
    /\ Goto(c, "checked")
    /\ UNCHANGED <<project, sharers, database, revision, history, edits, deaths>>

RegisterIndex(c) ==
    /\ pc[c] = "checked"
    /\ LET asked == seen[c].asked IN
        /\ seen[c].clock = clock
        /\ asked.timed # None => Bindable(asked.timed)
        /\ index' = [sync |-> asked.sync, timed |-> asked.timed, clock |-> clock,
                     edit |-> 0, rows |-> 0]
        /\ bindings' = IF asked.timed = None THEN bindings ELSE Bound(asked.timed)
        /\ IF asked.timed = None
           THEN Leave(c)
           ELSE Goto(c, "indexed") /\ UNCHANGED <<seen, lock>>
    /\ UNCHANGED <<project, revision, history, edits, deaths>>

\* A clock that moved, or a product bound to another one: rolled back.
RegisterFails(c) ==
    /\ pc[c] = "checked"
    /\ \/ seen[c].clock # clock
       \/ seen[c].asked.timed # None /\ ~Bindable(seen[c].asked.timed)
    /\ Leave(c)
    /\ UNCHANGED <<project, database, revision, history, edits, deaths>>

\* editor.view and update_semantics: header and rows in one transaction.
RegisterEdits(c) ==
    /\ pc[c] = "indexed"
    /\ index' = [index EXCEPT !.edit = revision[index.timed], !.rows = revision[index.timed]]
    /\ Leave(c)
    /\ UNCHANGED <<project, bindings, revision, history, edits, deaths>>

-----------------------------------------------------------------------------
(* Semantic edits through the service, and past it.                        *)

\* automatic and editor: the indexed product must be current.
EditBegin(c) ==
    /\ pc[c] = "idle"
    /\ Free
    /\ index # None
    /\ index.timed # None
    /\ ~Stale(index)
    /\ IsCurrent(index, clock, "semantics")
    /\ owner' = c
    /\ seen' = [seen EXCEPT ![c] = [Nothing EXCEPT !.index = index]]
    /\ Goto(c, "editing")
    /\ UNCHANGED <<project, sharers, database, revision, history, edits, deaths>>

\* The session's own transaction (SemanticEdits) accepts a command.
Accept(s) ==
    /\ edits < MaxEdits
    /\ edits' = edits + 1
    /\ revision' = [revision EXCEPT ![s] = @ + 1]

EditCommit(c) ==
    /\ pc[c] = "editing"
    /\ Accept(index.timed)
    /\ seen' = [seen EXCEPT ![c].asked = [edit |-> revision[index.timed] + 1]]
    /\ Goto(c, "committed")
    /\ UNCHANGED <<project, lock, database, history, deaths>>

\* It refuses: another automatic revision, an expected revision that is not
\* the head's, operations that do not fit.
EditFails(c) ==
    /\ pc[c] = "editing"
    /\ Leave(c)
    /\ UNCHANGED <<project, database, revision, history, edits, deaths>>

\* update_semantics, and the client is told of its revision.
EditIndex(c) ==
    /\ pc[c] = "committed"
    /\ index' = [index EXCEPT !.edit = seen[c].asked.edit, !.rows = seen[c].asked.edit]
    /\ told' = [told EXCEPT ![index.timed] = seen[c].asked.edit]
    /\ Leave(c)
    /\ UNCHANGED <<project, bindings, revision, shown, edits, deaths>>

\* semantic_edits/cli.py takes no lease and knows no index.
CliEdit(s) ==
    /\ s \in made
    /\ Accept(s)
    /\ UNCHANGED <<project, lock, database, pc, seen, history, deaths>>

-----------------------------------------------------------------------------
(* window: the headers and the clock, the rows, and the clock again.       *)

Open(c, product) ==
    /\ pc[c] = "idle"
    /\ owner = None
    /\ index # None
    /\ ~Stale(index)
    /\ sharers' = sharers \cup {c}
    /\ seen' = [seen EXCEPT ![c] =
                    [index |-> index, clock |-> clock, asked |-> [product |-> product]]]
    /\ Goto(c, "opened")
    /\ UNCHANGED <<project, owner, database, revision, history, edits, deaths>>

Available(c) ==
    /\ IsCurrent(seen[c].index, seen[c].clock, seen[c].asked.product)
    /\ seen[c].asked.product = "semantics" => seen[c].index.timed # None

ReadRows(c) ==
    /\ pc[c] = "opened"
    /\ Available(c)
    /\ seen' = [seen EXCEPT ![c].asked =
                    [product |-> @.product,
                     of |-> IF @.product = "semantics"
                            THEN seen[c].index.timed
                            ELSE seen[c].index.sync,
                     clock |-> seen[c].clock,
                     edit |-> seen[c].index.edit,
                     rows |-> index.rows,
                     offset |-> Effective(manual, OffsetIn(seen[c].index.sync))]]
    /\ Goto(c, "fetched")
    /\ UNCHANGED <<project, lock, database, revision, history, edits, deaths>>

\* "artifact unavailable or stale": an answer without rows.
Unavailable(c) ==
    /\ pc[c] = "opened"
    /\ ~Available(c)
    /\ Leave(c)
    /\ UNCHANGED <<project, database, revision, history, edits, deaths>>

\* Mutant: rows are sent whatever the clock says by now.
ClockIsSame(c) == TRUE

ClockHolds(c) == clock = seen[c].clock

Reply(c) ==
    /\ pc[c] = "fetched"
    /\ ClockHolds(c)
    /\ LET a == seen[c].asked IN
        /\ IF a.product = "semantics"
           THEN /\ told' = [told EXCEPT ![a.of] = IF @ < a.edit THEN a.edit ELSE @]
                /\ shown' = shown \cup {<<a.of, a.clock>>}
           ELSE UNCHANGED <<told, shown>>
    /\ Leave(c)
    /\ UNCHANGED <<project, database, revision, edits, deaths>>

\* "clock changed during query; discard stale response".
Discard(c) ==
    /\ pc[c] = "fetched"
    /\ ~ClockHolds(c)
    /\ Leave(c)
    /\ UNCHANGED <<project, database, revision, history, edits, deaths>>

\* A process dies, or an exception ends the request where it is.
Die(c) ==
    /\ pc[c] # "idle"
    /\ deaths < MaxDeaths
    /\ deaths' = deaths + 1
    /\ Leave(c)
    /\ UNCHANGED <<project, database, revision, history, edits>>

-----------------------------------------------------------------------------
ProjectStep == RerunSync \/ EditSource \/ \E o \in Offset : ReviseOffset(o)

ClientStep(c) ==
    \/ \E s \in made, timed \in {None} \cup made : RegisterBegin(c, s, timed)
    \/ RegisterIndex(c) \/ RegisterFails(c) \/ RegisterEdits(c)
    \/ EditBegin(c) \/ EditCommit(c) \/ EditFails(c) \/ EditIndex(c)
    \/ \E product \in {"semantics", "observations"} : Open(c, product)
    \/ ReadRows(c) \/ Unavailable(c) \/ Reply(c) \/ Discard(c)
    \/ Die(c)

Next ==
    \/ ProjectStep
    \/ \E s \in made : CliEdit(s)
    \/ \E c \in Client : ClientStep(c)

Spec == Init /\ [][Next]_vars

-----------------------------------------------------------------------------
(* Properties.                                                             *)

TypeOK ==
    /\ clock \in Clock
    /\ manual \in Offset \cup {None}
    /\ made \subseteq Sync
    /\ sharers \subseteq Client
    /\ owner \in Client \cup {None}
    /\ index \in Index \cup {None}
    /\ revision \in [Sync -> Nat]
    /\ pc \in [Client -> Label]
    /\ told \in [Sync -> Nat]
    /\ edits \in Nat
    /\ deaths \in Nat

\* A timed product is shown under one clock for ever, over registrations,
\* revisions that return to an old offset, reruns and source edits: an old
\* reconstruction cannot be passed off as one of the present clock.
NeverRelabelled == \A x, y \in shown : x[1] = y[1] => x[2] = y[2]

\* An answer is of one instant: when it is sent, the clock it names is the
\* project's, the product is indexed under this clock, its rows are those of
\* the edit it names, and native times use the offset that is in force.
AnswersAreCurrent ==
    [][\A c \in Client : Reply(c) =>
        LET a == seen[c].asked IN
        /\ a.clock = clock
        /\ a.product = "semantics" =>
            /\ index.timed = a.of
            /\ index.clock = clock
            /\ a.rows = a.edit
        /\ a.product = "observations" =>
            /\ index.clock.source = clock.source
            /\ a.offset = Effective(manual, OffsetIn(index.sync))]_vars

\* Nobody who was told of an edit is shown an older state of that product
\* afterwards, whoever died between the edit and its index, and whoever
\* edited past the service.
EditsStayVisible ==
    [][\A c \in Client : Reply(c) =>
        LET a == seen[c].asked IN
        a.product = "semantics" => told[a.of] <= a.edit]_vars

-----------------------------------------------------------------------------
(* What makes the properties inductive.                                    *)

\* Whoever changes the index is alone with the project; readers keep it out.
LocksMatchLabels ==
    /\ owner # None => sharers = {}
    /\ \A c \in Client : pc[c] \in Owning => owner = c
    /\ \A c \in Client : pc[c] \in Reading => c \in sharers

SeenIsRecords ==
    /\ seen = [c \in Client |-> seen[c]]
    /\ \A c \in Client :
        seen[c] = [index |-> seen[c].index, clock |-> seen[c].clock, asked |-> seen[c].asked]

IsBound(s, c) == s \in DOMAIN bindings /\ bindings[s] = c

\* An index shows the edit it names, of a product that is bound to its clock.
Whole(i) ==
    /\ i \in Index
    /\ i.rows = i.edit
    /\ i.timed # None => IsBound(i.timed, i.clock) /\ i.edit <= revision[i.timed]

\* What clients were told is bound and was accepted.
HistoryIsBound ==
    /\ \A x \in shown : IsBound(x[1], x[2])
    /\ \A s \in Sync : told[s] <= revision[s]

\* A registration has verified what it is about to index.
Verified(c) ==
    pc[c] = "checked" =>
        /\ seen[c].asked.sync \in Sync
        /\ seen[c].asked.timed \in Sync \cup {None}

\* An edit is of the product in the index.
Edited(c) ==
    /\ pc[c] \in {"indexed", "editing", "committed"} => Whole(index) /\ index.timed # None
    /\ pc[c] = "committed" =>
        seen[c].asked.edit \in Nat /\ seen[c].asked.edit <= revision[index.timed]

\* A reader's index is the index, and nobody was told of a later edit.
Opened(c) ==
    /\ pc[c] \in Reading =>
        /\ Whole(index)
        /\ seen[c].index = index
        /\ index.timed # None => told[index.timed] <= index.edit
    /\ pc[c] = "fetched" =>
        /\ seen[c].asked.clock = seen[c].clock
        /\ seen[c].asked.product = "semantics" =>
            /\ index.timed # None
            /\ seen[c].asked.of = index.timed
            /\ index.clock = seen[c].clock
            /\ seen[c].asked.edit = index.edit
            /\ seen[c].asked.rows = index.rows
        /\ seen[c].asked.product = "observations" =>
            /\ index.clock.source = seen[c].clock.source
            /\ seen[c].asked.offset = Effective(manual, OffsetIn(index.sync))

IInv ==
    /\ TypeOK
    /\ LocksMatchLabels
    /\ SeenIsRecords
    /\ index # None => Whole(index)
    /\ HistoryIsBound
    /\ \A c \in Client : Verified(c) /\ Edited(c) /\ Opened(c)

==============================================================================
