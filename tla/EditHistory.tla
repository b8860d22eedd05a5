----------------------------- MODULE EditHistory -----------------------------
(***************************************************************************)
(* What an editing session promises (semantic_edits/README.md): accepted   *)
(* commands are numbered 1, 2, ...; the effective view is the automatic    *)
(* one with the operations of the active revisions applied in their order. *)
(* Undo takes back the latest active one, or the reset just before it.     *)
(***************************************************************************)
EXTENDS Naturals

CONSTANTS
    Automatic,      \* parser outputs a session may be about
    NoBase          \* a session that no command was accepted in

VARIABLES
    base,           \* the parser output the session is pinned to
    revision,       \* the number of accepted commands
    active,         \* the revisions whose operations make the view
    cleared         \* {what was active before} if the last command is a reset

vars == <<base, revision, active, cleared>>

Init ==
    /\ base = NoBase
    /\ revision = 0
    /\ active = {}
    /\ cleared = {}

Accept(a) ==
    /\ base \in {NoBase, a}
    /\ base' = a
    /\ revision' = revision + 1

Latest(S) == CHOOSE r \in S : \A q \in S : q <= r

Apply(a) ==
    /\ Accept(a)
    /\ active' = active \cup {revision + 1}
    /\ cleared' = {}

UndoReset(a) ==
    /\ Accept(a)
    /\ active' \in cleared
    /\ cleared' = {}

UndoEdit(a) ==
    /\ cleared = {}
    /\ active # {}
    /\ Accept(a)
    /\ active' = active \ {Latest(active)}
    /\ cleared' = {}

Reset(a) ==
    /\ Accept(a)
    /\ active' = {}
    /\ cleared' = {active}

Next == \E a \in Automatic : Apply(a) \/ UndoReset(a) \/ UndoEdit(a) \/ Reset(a)

Spec == Init /\ [][Next]_vars

==============================================================================
