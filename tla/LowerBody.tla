----------------------------- MODULE LowerBody -----------------------------
(***************************************************************************)
(* reconstruction/lower_body/core.py: what a leg does in a motion.         *)
(*                                                                         *)
(* A row is one sample of the leg: its time, its contact with the floor,   *)
(* the extension of the chain of joints and where the foot is (each may be *)
(* None) and whether it moves; a value whose quality does not suffice is   *)
(* unknown.  A pivot is the samples of a physical foot rotation and        *)
(* whether it turned far enough.  Each leg is classified independently, so *)
(* there is one; stances, which need both, take the other leg as standing. *)
(* Evidence lists, reasons and scores are left out.                        *)
(***************************************************************************)
EXTENDS Integers, Sequences, FiniteSetsExt

CONSTANT None

Elapsed(rows, a, b) == rows[b].t - rows[a].t

Close(rows, config, a, b) == \A i \in a..(b - 1) : Elapsed(rows, i, i + 1) <= config.gap

\* _runs: maximal, of two samples at least, and cut at gaps of the clock.
Runs(rows, config, samples) ==
    LET joined(a, b) == a..b \subseteq samples /\ Close(rows, config, a, b)
    IN  {r \in samples \X samples :
            /\ r[1] < r[2]
            /\ joined(r[1], r[2])
            /\ ~(r[1] - 1 \in samples /\ joined(r[1] - 1, r[1]))
            /\ ~(r[2] + 1 \in samples /\ joined(r[2], r[2] + 1))}

Action(from, to, category, phases, previous) ==
    [from |-> from, to |-> to, category |-> category, phases |-> phases, previous |-> previous]

Phase(name, from, to) == [name |-> name, from |-> from, to |-> to]

\* add: its id is its leg, category and samples.
Id(action) == <<action.category, action.from, action.to>>

Contact(rows, state) == {i \in DOMAIN rows : rows[i].contact = state}

PivotAction(rows, config, pivot) ==
    LET supported == /\ pivot.turned
                     /\ pivot.from..pivot.to \subseteq Contact(rows, "contact")
                     /\ Close(rows, config, pivot.from, pivot.to)
    IN  Action(pivot.from, pivot.to, IF supported THEN "pivot" ELSE "unknown", {}, {})

\* The first of the samples in which the extension is the given one.
FirstAt(rows, samples, value) == Min({i \in samples : rows[i].extension = value})

Extensions(rows, samples) == {rows[i].extension : i \in samples}

\* Mutant: any sample before the peak ends the chamber.
AnyChamber(rows, config, a, chamber, peak) ==
    {i \in a..(peak - 1) : Max(Extensions(rows, a..i)) < config.chamber}

\* The samples at which the chamber may end: its own bracket is needed.
ChamberEnds(rows, config, a, chamber, peak) ==
    IF Elapsed(rows, a, chamber) >= config.phase
    THEN {chamber}
    ELSE {i \in (a + 1)..(peak - 1) :
            /\ Elapsed(rows, a, i) >= config.phase
            /\ Max(Extensions(rows, a..i)) < config.chamber}

\* The phases of an airborne bout from a to b whose extensions are known.
KickPhases(rows, config, a, b) ==
    LET peak == FirstAt(rows, a..b, Max(Extensions(rows, a..b)))
        chamber == FirstAt(rows, a..peak, Min(Extensions(rows, a..peak)))
        recovery == FirstAt(rows, peak..b, Min(Extensions(rows, peak..b)))
        ext(i) == rows[i].extension
        ends == ChamberEnds(rows, config, a, chamber, peak)
    IN  IF /\ ext(chamber) < config.chamber
           /\ ext(peak) > ext(chamber) + config.excursion
           /\ Elapsed(rows, chamber, peak) >= config.phase
        THEN {Phase("extension", chamber, peak)}
             \cup (IF ends = {} THEN {} ELSE {Phase("chamber", a, Min(ends))})
             \cup (IF /\ ext(peak) > ext(recovery) + config.excursion
                      /\ Elapsed(rows, peak, recovery) >= config.phase
                   THEN {Phase("retraction", peak, recovery)}
                   ELSE {})
        ELSE {}

\* A lift and a landing that are observed, with a displacement in between.
Displaced(rows, config, a, b) ==
    /\ a - 1 \in Contact(rows, "contact")
    /\ b + 1 \in Contact(rows, "contact")
    /\ Close(rows, config, a - 1, a)
    /\ Close(rows, config, b, b + 1)
    /\ rows[a - 1].place # None /\ rows[b + 1].place # None
    /\ rows[a - 1].place # rows[b + 1].place

\* What one airborne bout is.
BoutActions(rows, config, a, b) ==
    LET known == \A i \in a..b : rows[i].extension # None
        phases == IF known THEN KickPhases(rows, config, a, b) ELSE {}
        isKick == {p.name : p \in phases} = {"chamber", "extension", "retraction"}
        recovery == (CHOOSE p \in phases : p.name = "retraction").to
        kick == Action(a, recovery, "kick", phases, {})
        displaced == Displaced(rows, config, a, b)
        placement == Action(a - 1, b + 1,
            IF known /\ phases = {} THEN "placement" ELSE "unknown",
            phases \cup {Phase("placement", a - 1, b + 1)}, {})
    IN  IF isKick
        THEN {kick} \cup
             (IF displaced
              THEN {Action(recovery, b + 1, "placement",
                           {Phase("recovery", recovery, b + 1)}, {Id(kick)})}
              ELSE IF recovery < b
              THEN {Action(recovery, b, "unknown", {}, {Id(kick)})}
              ELSE {})
        ELSE IF displaced THEN {placement}
        ELSE {Action(a, b, "unknown", phases, {})}

\* Pivots, airborne bouts, and the motion that they leave unexplained.
Actions(rows, config, pivots) ==
    LET turned == {PivotAction(rows, config, p) : p \in pivots}
        airborne == Runs(rows, config, Contact(rows, "no_contact"))
        flown == UNION {BoutActions(rows, config, r[1], r[2]) : r \in airborne}
        covered == UNION {x.from..x.to : x \in turned \cup flown}
        left == {i \in DOMAIN rows : rows[i].moving} \ covered
    IN  turned \cup flown
        \cup {Action(r[1], r[2], "unknown", {}, {}) : r \in Runs(rows, config, left)}

\* Standing still on the floor, and not inside an action.
Stances(rows, config, pivots) ==
    LET actions == Actions(rows, config, pivots)
        still(i) ==
            /\ rows[i].contact = "contact" /\ rows[i].place # None
            /\ i > 1 => Close(rows, config, i - 1, i) /\ rows[i - 1].place = rows[i].place
            /\ ~\E x \in actions : x.from < i /\ i < x.to
    IN  {r \in Runs(rows, config, {i \in DOMAIN rows : still(i)}) :
            Elapsed(rows, r[1], r[2]) >= config.stance}

-----------------------------------------------------------------------------
\* LowerBodyResult.links, of what the leg did.
Accepted(rows, actions) ==
    /\ \A x, y \in actions : Id(x) = Id(y) => x = y
    /\ \A x \in actions :
        /\ 1 <= x.from /\ x.from < x.to /\ x.to <= Len(rows)
        /\ \A p \in x.phases : x.from <= p.from /\ p.from < p.to /\ p.to <= x.to
        /\ x.category = "kick" =>
            {"chamber", "extension", "retraction"} \subseteq {p.name : p \in x.phases}
        /\ \A id \in x.previous : \E y \in actions : Id(y) = id /\ y.to <= x.from

\* Property: whatever evidence is missing, the parser's own contract accepts
\* what it says of a leg, nothing that flew or moved for two samples goes
\* unsaid, a kick chambers before it extends and extends before it retracts,
\* and a stance spans no action that has a sample between its ends.
LegIsExplained(rows, config, pivots) ==
    LET actions == Actions(rows, config, pivots)
        moved == {i \in DOMAIN rows : rows[i].moving}
    IN
    /\ Accepted(rows, actions)
    /\ \A r \in Runs(rows, config, Contact(rows, "no_contact")) :
        \A i \in r[1]..r[2] : \E x \in actions : i \in x.from..x.to
    /\ \A i \in moved : i + 1 \in moved /\ Close(rows, config, i, i + 1) =>
        \E x \in actions : x.from..x.to \cap {i, i + 1} # {}
    /\ \A x \in actions : x.category = "kick" =>
        \A p, q \in x.phases :
            <<p.name, q.name>> \in {<<"chamber", "extension">>, <<"extension", "retraction">>} =>
                p.from <= q.from /\ p.to <= q.to
    /\ \A r \in Stances(rows, config, pivots), x \in actions :
        x.to <= r[1] \/ r[2] <= x.from \/ x.to = x.from + 1

=============================================================================
