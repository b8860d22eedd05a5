-------------------------------- MODULE Feet --------------------------------
(***************************************************************************)
(* One foot, from heights above the ground to contact (ground/core.py),    *)
(* from contact to placements (footprints/core.py) and from placements to  *)
(* pivots (pivots/core.py): three automata that read native samples in     *)
(* order and hand their output to the next.                                *)
(*                                                                         *)
(* A row has its time, the heights of heel and forefoot (None when the     *)
(* landmark cannot be used), the direction in which the foot points, as a  *)
(* fraction of a Turn, and how uncertain it is (blur), whether there is    *)
(* such a direction at all (axis: heel and forefoot usable, and further    *)
(* apart than their uncertainty), the native evidence it rests on, and     *)
(* whether the other foot's contact is known.  A foot's place is           *)
(* abstracted into its direction and its outer edge into its forefoot; the *)
(* uncertainty of a height is in the threshold that it is added to.        *)
(***************************************************************************)
EXTENDS Integers, Sequences, FiniteSets

CONSTANTS None, Turn

Abs(x) == IF x < 0 THEN -x ELSE x

Parts == {"heel", "forefoot"}

\* The turn from one direction to another, in -Turn/2 .. Turn/2.
Wrap(delta) == ((delta + 3 * (Turn \div 2)) % Turn) - (Turn \div 2)

\* Mutant: samples far apart are read as neighbours.
NoGap(rows, i, config) == FALSE

Gap(rows, i, config) == i > 1 /\ rows[i].t - rows[i - 1].t > config.gap

-----------------------------------------------------------------------------
\* Contact.

\* Does row i rest on evidence that the row before it did not have?
Stale(rows, i) == i > 1 /\ rows[i].source = rows[i - 1].source

Slow(rows, i, p, limit, config) ==
    /\ i > 1 /\ rows[i - 1].height[p] # None
    /\ ~Gap(rows, i, config) /\ ~Stale(rows, i)
    /\ Abs(rows[i].height[p] - rows[i - 1].height[p]) <= limit * (rows[i].t - rows[i - 1].t)

Measured(rows, i, config) ==
    {p \in Parts : rows[i].height[p] # None /\ rows[i].height[p] >= -config.enter}

\* Which state the row speaks for: entering a state asks for more than staying.
Candidate(rows, i, stable, config) ==
    LET high == IF stable = "no_contact" THEN config.enter ELSE config.leave
        low == IF stable = "contact" THEN config.leave ELSE config.enter
        speed == IF stable = "contact" THEN config.leaveSpeed ELSE config.enterSpeed
        Height(p) == rows[i].height[p]
    IN
    IF \E p \in Measured(rows, i, config) :
          Abs(Height(p)) <= low /\ Slow(rows, i, p, speed, config)
    THEN "contact"
    ELSE IF Measured(rows, i, config) = Parts /\ \A p \in Parts : Height(p) > high
    THEN "no_contact"
    ELSE "unknown"

Forgotten == [stable |-> "unknown", pending |-> "unknown", since |-> 0, state |-> "unknown"]

\* _foot, for one row: a state is reported once its evidence has lasted; evidence
\* that is not new starts the wait again, and doubt or a gap forgets what was
\* stable.
Felt(before, rows, i, config) ==
    LET was == IF Gap(rows, i, config) THEN Forgotten ELSE before
        seen == Candidate(rows, i, was.stable, config)
        since == IF was.pending = seen THEN was.since ELSE rows[i].t
        dwell == IF seen = "contact" THEN config.contact ELSE config.air
    IN
    IF seen = "unknown" THEN Forgotten
    ELSE IF seen = was.stable
    THEN [was EXCEPT !.pending = "unknown", !.state = seen]
    ELSE IF Stale(rows, i) /\ ~Gap(rows, i, config)
    THEN [was EXCEPT !.pending = "unknown", !.state = "unknown"]
    ELSE IF rows[i].t - since >= dwell
    THEN [stable |-> seen, pending |-> "unknown", since |-> 0, state |-> seen]
    ELSE [was EXCEPT !.pending = seen, !.since = since, !.state = "unknown"]

Contacts(rows, config) ==
    LET c[i \in 0..Len(rows)] ==
            IF i = 0 THEN Forgotten ELSE Felt(c[i - 1], rows, i, config)
    IN [i \in DOMAIN rows |-> c[i].state]

-----------------------------------------------------------------------------
\* Placements.

\* Both rows' uncertainty counts against them, a row against itself too.
Near(rows, i, j, angle) ==
    Abs(Wrap(rows[i].yaw - rows[j].yaw)) + rows[i].blur + rows[j].blur <= angle

\* A placement needs two samples; one alone is isolated.
Event(kind, group) ==
    IF Len(group) < 2 THEN {}
    ELSE {[kind |-> kind, first |-> group[1], last |-> group[Len(group)]]}

Nothing == [stable |-> <<>>, candidate |-> <<>>, moving |-> <<>>, seen |-> {},
            events |-> {}, unavailable |-> {}]

Flushed(s) ==
    [Nothing EXCEPT
        !.events = s.events \cup Event("stable", s.stable)
                            \cup Event("moving", s.moving \o s.candidate),
        !.unavailable = s.unavailable]

\* The row joins the candidate, which is stable once it has lasted; a row that is
\* too uncertain by itself can only move.
Settle(s, rows, i, config) ==
    LET near == s.candidate = <<>> \/ Near(rows, i, s.candidate[1], config.enterAngle)
        moving == IF near THEN s.moving ELSE s.moving \o s.candidate
        candidate == IF near THEN Append(s.candidate, i) ELSE <<i>>
    IN
    IF ~Near(rows, i, i, config.enterAngle)
    THEN [s EXCEPT !.moving = Append(s.moving \o s.candidate, i), !.candidate = <<>>]
    ELSE IF rows[i].t - rows[candidate[1]].t >= config.still
    THEN [s EXCEPT !.events = @ \cup Event("moving", moving), !.moving = <<>>,
                   !.stable = candidate, !.candidate = <<>>]
    ELSE [s EXCEPT !.moving = moving, !.candidate = candidate]

\* _events, for one row.
Placed(before, rows, contact, i, config) ==
    LET s == IF Gap(rows, i, config) THEN Flushed(before) ELSE before
        new == [s EXCEPT !.seen = @ \cup {rows[i].source}]
    IN
    IF contact[i] # "contact" THEN Flushed(s)
    ELSE IF ~rows[i].axis \/ rows[i].source \in s.seen
    THEN [Flushed(s) EXCEPT !.unavailable = @ \cup {i}]
    ELSE IF s.stable = <<>> THEN Settle(new, rows, i, config)
    ELSE IF Near(rows, i, s.stable[1], config.leaveAngle)
    THEN [new EXCEPT !.stable = Append(@, i)]
    ELSE Settle([new EXCEPT !.events = @ \cup Event("stable", s.stable), !.stable = <<>>],
                rows, i, config)

Placements(rows, contact, config) ==
    LET e[i \in 0..Len(rows)] ==
            IF i = 0 THEN Nothing ELSE Placed(e[i - 1], rows, contact, i, config)
    IN Flushed(e[Len(rows)])

-----------------------------------------------------------------------------
\* Pivots.

\* _supported; a row without an axis, or on no new evidence, never gets to count.
Supported(rows, contact, i) == contact[i] = "contact" /\ rows[i].other

Rest == [previous |-> 0, active |-> <<>>, motion |-> 0, seen |-> {}, supported |-> {}, events |-> {}]

\* The foot turned far enough between the first sample and the last that moved,
\* for the most uncertain of them.
Excursion(rows, from, to, least) ==
    LET at[i \in from..to] == IF i = from THEN 0 ELSE at[i - 1] + Wrap(rows[i].yaw - rows[i - 1].yaw)
    IN \E i, j \in from..to : \A n \in from..to : at[i] - at[j] >= least + 2 * rows[n].blur

Emitted(s, rows, config) ==
    [s EXCEPT !.active = <<>>, !.motion = 0,
              !.events = IF s.motion # 0 /\ Excursion(rows, s.active[1], s.motion, config.excursion)
                         THEN @ \cup {[first |-> s.active[1], last |-> s.motion]} ELSE @]

\* derive_pivots, for one row.
Turned(was, rows, contact, i, config) ==
    LET usable == rows[i].axis /\ rows[i].source \notin was.seen
        gap == was.previous # 0 /\ rows[i].t - rows[was.previous].t > config.gap
        s == IF ~usable \/ gap
             THEN [Emitted(was, rows, config) EXCEPT !.previous = 0, !.seen = {}]
             ELSE was
        seen == [s EXCEPT !.seen = @ \cup {rows[i].source}, !.previous = i,
                          !.supported = IF Supported(rows, contact, i) THEN @ \cup {i} ELSE @]
        delta == Abs(Wrap(rows[i].yaw - rows[s.previous].yaw))
        moves(speed) == delta >= speed * (rows[i].t - rows[s.previous].t)
        grown == [seen EXCEPT !.active = Append(@, i)]
    IN
    IF ~usable THEN s
    ELSE IF s.previous = 0 THEN seen
    ELSE IF delta = Turn \div 2
    THEN [Emitted(seen, rows, config) EXCEPT !.supported = s.supported]
    ELSE IF ~({s.previous, i} \subseteq seen.supported) THEN Emitted(seen, rows, config)
    ELSE IF s.active = <<>>
    THEN IF moves(config.enterTurn)
         THEN [seen EXCEPT !.active = <<s.previous, i>>, !.motion = i] ELSE seen
    ELSE IF moves(config.leaveTurn) THEN [grown EXCEPT !.motion = i]
    ELSE IF rows[i].t - rows[s.motion].t >= config.quiet THEN Emitted(grown, rows, config)
    ELSE grown

Pivots(rows, contact, config) ==
    LET p[i \in 0..Len(rows)] ==
            IF i = 0 THEN Rest ELSE Turned(p[i - 1], rows, contact, i, config)
    IN Emitted(p[Len(rows)], rows, config).events

-----------------------------------------------------------------------------
Joined(rows, first, last, config) ==
    \A k \in first + 1 .. last : rows[k].t - rows[k - 1].t <= config.gap

Disjoint(events) ==
    \A d, e \in events : d # e => d.last < e.first \/ e.last < d.first

\* A reported contact, or absence of contact, goes back without a gap to samples
\* that met the entry thresholds on new evidence for the whole dwell, past none
\* that spoke for nothing or was reported as the opposite (ground/core.py:290-329).
ContactIsEarned(rows, contact, config) ==
    \A i \in DOMAIN rows : contact[i] # "unknown" =>
        \E j \in 1..i : \E k \in j..i :
            /\ rows[k].t - rows[j].t >= (IF contact[i] = "contact" THEN config.contact ELSE config.air)
            /\ Joined(rows, j, i, config)
            /\ \A n \in j..k : Candidate(rows, n, "unknown", config) = contact[i]
                              /\ (n > j => ~Stale(rows, n))
            /\ \A n \in k..i : contact[n] \in {contact[i], "unknown"}
                              /\ Candidate(rows, n, contact[i], config) # "unknown"

\* Placements are disjoint runs of contact without a gap, each sample with an axis
\* and on evidence of its own, a stable one lasts and never leaves its first
\* sample's pose, as uncertain as they are, and no two neighbours that could be
\* placed are left out (footprints/core.py:128-186, 343-501).
PlacementIsEarned(rows, contact, config) ==
    LET result == Placements(rows, contact, config)
        placed == UNION {e.first .. e.last : e \in result.events}
        Open(i) == contact[i] = "contact" /\ i \notin result.unavailable \cup placed
    IN
    /\ Disjoint(result.events)
    /\ \A e \in result.events :
         /\ Joined(rows, e.first, e.last, config)
         /\ \A n \in e.first .. e.last :
              contact[n] = "contact" /\ rows[n].axis /\ n \notin result.unavailable
         /\ e.kind = "stable" =>
              /\ rows[e.last].t - rows[e.first].t >= config.still
              /\ Near(rows, e.first, e.first, config.enterAngle)
              /\ \A n \in e.first .. e.last : Near(rows, n, e.first, config.leaveAngle)
    /\ \A i \in 2..Len(rows) : Open(i - 1) /\ Open(i) => rows[i].t - rows[i - 1].t > config.gap

\* Pivots are disjoint turns of a foot that carries weight, on samples without a
\* gap, with no quiet stretch and no half turn of unknown direction inside.
PivotIsEarned(rows, contact, config) ==
    LET events == Pivots(rows, contact, config)
        Step(n) == Abs(Wrap(rows[n].yaw - rows[n - 1].yaw))
        Moves(n) == Step(n) >= config.leaveTurn * (rows[n].t - rows[n - 1].t)
    IN
    /\ Disjoint(events)
    /\ \A e \in events :
         /\ e.first < e.last /\ Joined(rows, e.first, e.last, config)
         /\ \A n \in e.first .. e.last : Supported(rows, contact, n) /\ rows[n].axis
         /\ \A n \in e.first + 1 .. e.last : Step(n) < Turn \div 2
         /\ \A n \in e.first + 2 .. e.last : ~Moves(n) =>
              \E m \in e.first + 1 .. n - 1 :
                Moves(m) /\ rows[n].t - rows[m].t < config.quiet

\* What is said of a foot rests on evidence, all the way from its heights.
FeetRestOnEvidence(rows, config) ==
    LET contact == Contacts(rows, config) IN
    /\ ContactIsEarned(rows, contact, config)
    /\ PlacementIsEarned(rows, contact, config)
    /\ PivotIsEarned(rows, contact, config)

=============================================================================
