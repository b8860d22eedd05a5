------------------------------ MODULE Assembly ------------------------------
(***************************************************************************)
(* reconstruction/semantics/core.py: one hierarchy out of the coarse steps *)
(* and the proposals for arms and legs, and the contract that it must      *)
(* meet (contracts/models.py).                                             *)
(*                                                                         *)
(* Intervals are pairs of native samples.  A proposal has an id, a span    *)
(* for each of its tracks, phases on them and for legs the action it       *)
(* recovers from; an event is a track and a sample.  Ids are hashes of     *)
(* what they stand for, so here they are it.  Qualities, names, roles and  *)
(* spatial relations are left out.                                         *)
(***************************************************************************)
EXTENDS Naturals, Sequences, FiniteSets, FiniteSetsExt

CONSTANT Tracks

Overlaps(a, b) == a[1] < b[2] /\ b[1] < a[2]
Inside(inner, outer) == outer[1] <= inner[1] /\ inner[2] <= outer[2]
Hull(spans) == <<Min({s[1] : s \in spans}), Max({s[2] : s \in spans})>>

Interval(proposal) == Hull({proposal.span[t] : t \in DOMAIN proposal.span})

Proposal(id, span, phases, previous) ==
    [id |-> id, span |-> span, phases |-> phases, previous |-> previous]

Phase(track, from, to) == [track |-> track, from |-> from, to |-> to]
Extent(phase) == <<phase.from, phase.to>>

-----------------------------------------------------------------------------
(* assemble_semantics.                                                     *)

\* One turn of the loop: what overlaps, and what is linked to the last turn's.
Expand(legs, found) ==
    LET linked(x) == \E y \in found.legs : y.id \in x.previous \/ x.id \in y.previous
        selected == {x \in legs : Overlaps(Interval(x), found.extent) \/ linked(x)}
    IN  [legs |-> selected,
         extent |-> Hull({found.extent} \cup {Interval(x) : x \in selected})]

\* Its turns, more than there can be.
Rounds(legs, execution) ==
    LET round[n \in 0..(Cardinality(legs) + 1)] ==
            IF n = 0
            THEN [legs |-> {x \in legs : Overlaps(Interval(x), execution)}, extent |-> execution]
            ELSE Expand(legs, round[n - 1])
    IN  round

\* Until the extent does not change.
Selected(legs, execution) ==
    LET round == Rounds(legs, execution)
        still(n) == round[n].extent = round[n - 1].extent
    IN  round[CHOOSE n \in 1..(Cardinality(legs) + 1) :
                 still(n) /\ \A m \in 1..(n - 1) : ~still(m)]

\* The first and the last step are stretched to the extent.
Steps(cuts, extent) ==
    [n \in 1..(Len(cuts) - 1) |->
        <<IF n = 1 THEN extent[1] ELSE cuts[n],
          IF n = Len(cuts) - 1 THEN extent[2] ELSE cuts[n + 1]>>]

Owner(steps, interval) ==
    Min({n \in DOMAIN steps : steps[n][1] <= interval[1] /\ interval[1] < steps[n][2]})

\* How far the spans reach, from where the interval begins.
Cursor(interval, spans) == Max({interval[1]} \cup {x[2] : x \in spans})

\* Before each span, and behind the last one.
Candidates(interval, spans) ==
    {<<Cursor(interval, {x \in spans : x[1] < s[1]}), s[1]>> : s \in spans}
    \cup {<<Cursor(interval, spans), interval[2]>>}

\* Mutant: what follows the last span is not a gap.
GapsBetween(interval, spans) ==
    {g \in Candidates(interval, spans) : g[1] < g[2] /\ g[2] # interval[2]}

\* What spans leave uncovered of an interval.
Gaps(interval, spans) == {g \in Candidates(interval, spans) : g[1] < g[2]}

\* The phases of a proposal, a leg's without any being one itself, and where
\* a track of it has none.
PhasesOf(proposal, leg) ==
    LET given(t) == IF leg /\ proposal.phases = {}
                    THEN {Phase(t, proposal.span[t][1], proposal.span[t][2])}
                    ELSE {p \in proposal.phases : p.track = t}
        missing(t) == {Phase(t, g[1], g[2]) :
                        g \in Gaps(proposal.span[t], {Extent(p) : p \in given(t)})}
    IN  UNION {given(t) \cup missing(t) : t \in DOMAIN proposal.span}

Known(proposal, steps, leg, ids) ==
    [id |-> <<"proposal", proposal.id>>,
     span |-> proposal.span,
     step |-> Owner(steps, Interval(proposal)),
     previous |-> {<<"proposal", p>> : p \in proposal.previous \cap ids},
     phases |-> PhasesOf(proposal, leg)]

\* The complement of each track within the extent.
Transitions(actions, steps, extent) ==
    UNION {{[id |-> <<"gap", t, g>>,
             span |-> [u \in {t} |-> g],
             step |-> Owner(steps, g),
             previous |-> {},
             phases |-> {Phase(t, g[1], g[2])}] :
                g \in Gaps(extent, {a.span[t] : a \in {x \in actions : t \in DOMAIN x.span}})} :
            t \in Tracks}

Shows(action, event) ==
    /\ event.track \in DOMAIN action.span
    /\ action.span[event.track][1] <= event.at
    /\ event.at <= action.span[event.track][2]

\* An event for each action whose track it falls in, by a phase there.
Keyframes(actions, events) ==
    UNION {{[action |-> a.id, track |-> e.track, at |-> e.at,
             phase |-> {p \in a.phases : p.track = e.track /\ p.from <= e.at /\ e.at <= p.to}] :
                e \in {x \in events : Shows(a, x)}} :
            a \in actions}

Clip(interval, extent) == <<Max({interval[1], extent[1]}), Min({interval[2], extent[2]})>>

Assemble(cuts, arms, legs, stances, events) ==
    LET found == Selected(legs, <<cuts[1], cuts[Len(cuts)]>>)
        steps == Steps(cuts, found.extent)
        ids == {x.id : x \in arms \cup found.legs}
        known == {Known(x, steps, FALSE, ids) : x \in arms}
                 \cup {Known(x, steps, TRUE, ids) : x \in found.legs}
        actions == known \cup Transitions(known, steps, found.extent)
    IN  [execution |-> found.extent,
         steps |-> steps,
         actions |-> actions,
         stances |-> {Clip(s, found.extent) : s \in {x \in stances : Overlaps(x, found.extent)}},
         keyframes |-> Keyframes(actions, events)]

-----------------------------------------------------------------------------
(* Semantics.valid_hierarchy; a step's actions are those that overlap it.  *)

ValidAction(a, h) ==
    /\ Inside(Interval(a), h.execution)
    /\ a.step \in DOMAIN h.steps
    /\ a.step = Owner(h.steps, Interval(a))
    /\ \A id \in a.previous : \E b \in h.actions :
        /\ b.id = id
        /\ Interval(b)[2] <= Interval(a)[1]
        /\ DOMAIN a.span \cap DOMAIN b.span # {}

ValidPhase(p, a) ==
    /\ p.track \in DOMAIN a.span
    /\ p.from < p.to
    /\ Inside(Extent(p), a.span[p.track])

ValidKeyframe(k, a) ==
    /\ k.track \in DOMAIN a.span
    /\ a.span[k.track][1] <= k.at /\ k.at <= a.span[k.track][2]
    /\ k.phase # {}

ValidHierarchy(h) ==
    /\ \A a, b \in h.actions : a.id = b.id => a = b
    /\ \A n \in DOMAIN h.steps : h.steps[n][1] < h.steps[n][2] /\ Inside(h.steps[n], h.execution)
    /\ \A s \in h.stances : Inside(s, h.execution)
    /\ \A a \in h.actions : ValidAction(a, h) /\ \A p \in a.phases : ValidPhase(p, a)
    /\ \A k \in h.keyframes : \E a \in h.actions : a.id = k.action /\ ValidKeyframe(k, a)

\* At every moment of the execution every track is in an action and in a
\* phase of it, no event is lost, and no leg's action is cut at the edges.
NoHoles(h, legs, events) ==
    /\ ValidHierarchy(h)
    /\ \A t \in Tracks, i \in h.execution[1]..(h.execution[2] - 1) : \E a \in h.actions :
        /\ t \in DOMAIN a.span
        /\ \E p \in a.phases : p.track = t /\ p.from <= i /\ i + 1 <= p.to
    /\ \A e \in events : e.at \in h.execution[1]..h.execution[2] =>
        \E k \in h.keyframes : k.track = e.track /\ k.at = e.at
    /\ \A x \in legs : Overlaps(Interval(x), h.execution) =>
        Inside(Interval(x), h.execution) /\ \E a \in h.actions : a.id = <<"proposal", x.id>>

\* Property: what the parsers propose always makes a hierarchy that the
\* contract accepts, and one without holes.
HierarchyHasNoHoles(cuts, arms, legs, stances, events) ==
    NoHoles(Assemble(cuts, arms, legs, stances, events), legs, events)

\* Property: an action that recovers from another one keeps it.
KeepsLinks(h, legs) ==
    \A x \in legs, a \in h.actions :
        a.id = <<"proposal", x.id>> /\ x.previous # {} => a.previous # {}

LinksSurvive(cuts, arms, legs, stances, events) ==
    KeepsLinks(Assemble(cuts, arms, legs, stances, events), legs)

=============================================================================
