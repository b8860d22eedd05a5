------------------------------ MODULE Features ------------------------------
(***************************************************************************)
(* reconstruction/features/core.py: the physical events in one track of a  *)
(* motion, before anything is classified.                                  *)
(*                                                                         *)
(* A row is one native sample: its time t, where the track is (a pair) and *)
(* how fast, the extension of its chain, each None where the evidence is   *)
(* missing, interpolated or too uncertain; how the forearms cross and      *)
(* whether the foot touches; and whether these two are firm, that is seen  *)
(* rather than interpolated.  A distance is the larger coordinate, and an  *)
(* uncertainty is part of the threshold it is multiplied into.  The        *)
(* angular bouts are the linear ones with other thresholds.                *)
(***************************************************************************)
EXTENDS Integers, Sequences, FiniteSets, FiniteSetsExt

CONSTANT None

Event(kind, at, first, last) == [kind |-> kind, at |-> at, first |-> first, last |-> last]

Elapsed(rows, a, b) == rows[b].t - rows[a].t

\* Mutant: samples far apart are read as neighbours.
NeverApart(rows, i, config) == FALSE

Apart(rows, i, config) == Elapsed(rows, i - 1, i) > config.gap

\* _runs: the maximal stretches of a set of samples with no gap inside.
Runs(rows, samples, config) ==
    LET Joined(i) == i \in samples /\ i - 1 \in samples /\ ~Apart(rows, i, config)
    IN {r \in samples \X samples :
            /\ r[1] <= r[2] /\ \A i \in r[1] + 1 .. r[2] : Joined(i)
            /\ ~Joined(r[1]) /\ ~Joined(r[2] + 1)}

Distance(p, q) ==
    Max({IF p[k] < q[k] THEN q[k] - p[k] ELSE p[k] - q[k] : k \in {1, 2}})

\* _extension_increase: the chain is known until it has grown by enough.
Extends(rows, first, last, config) ==
    \E i \in first..last :
        /\ \A j \in first..i : rows[j].extension # None
        /\ rows[i].extension - rows[first].extension > config.prominence

\* What a bout from a confirmed quiet sample to the next one proves.
BoutEvents(rows, first, last, config) ==
    IF /\ Elapsed(rows, first, last) >= config.duration
       /\ \E i \in first..last : Distance(rows[i].place, rows[first].place) > config.excursion
    THEN {Event("motion_onset", first, first, last)} \cup
         (IF Extends(rows, first, last, config)
          THEN {Event("extension_start", first, first, last)} ELSE {})
    ELSE {}

\* _bouts: since when it is quiet, the last sample whose quiet was confirmed and
\* the one that a bout in progress started from.
Still == [start |-> None, quiet |-> None, since |-> None, events |-> {}]

\* For one sample.
Bouted(s, rows, i, config) ==
    LET since == IF s.since = None THEN i ELSE s.since IN
    IF rows[i].speed = None THEN s
    ELSE IF rows[i].speed > config.leave
    THEN IF s.start = None /\ s.quiet # None /\ rows[i].speed >= config.enter
         THEN [s EXCEPT !.since = None, !.start = s.quiet, !.quiet = None]
         ELSE [s EXCEPT !.since = None]
    ELSE IF Elapsed(rows, since, i) < config.duration
    THEN [s EXCEPT !.since = since]
    ELSE [start |-> None, quiet |-> i, since |-> since,
          events |-> s.events \cup
              (IF s.start = None THEN {} ELSE BoutEvents(rows, s.start, i, config))]

\* In one run.
BoutsIn(rows, run, config) ==
    LET b[i \in 0..run[2]] ==
            IF i < run[1] THEN Still ELSE Bouted(b[i - 1], rows, i, config)
    IN b[run[2]].events

Bouts(rows, config) ==
    UNION {BoutsIn(rows, r, config) :
        r \in Runs(rows, {i \in DOMAIN rows : rows[i].place # None}, config)}

-----------------------------------------------------------------------------
\* scipy's find_peaks: the middle of each plateau that is higher than what is
\* next to it on both sides, and its bases: the lowest samples nearest to it
\* before something higher, the higher of which is as low as asked for.
Peaks(value, first, last, prominence) ==
    LET Below(p, i) == \A j \in (IF i < p THEN i..p ELSE p..i) : value[j] <= value[p]
        Lefts(p) == {i \in first..p : Below(p, i)}
        Rights(p) == {i \in p..last : Below(p, i)}
        LowestOf(s) == {i \in s : \A j \in s : value[i] <= value[j]}
        Plateau(a, b) ==
            /\ first < a /\ b < last
            /\ \A i \in a..b : value[i] = value[a]
            /\ value[a - 1] < value[a] /\ value[b + 1] < value[a]
        Peak(p) == [at |-> p, left |-> Max(LowestOf(Lefts(p))), right |-> Min(LowestOf(Rights(p)))]
    IN {k \in {Peak((r[1] + r[2]) \div 2) :
                  r \in {r \in (first..last) \X (first..last) : r[1] <= r[2] /\ Plateau(r[1], r[2])}} :
            /\ value[k.at] - value[k.left] >= prominence
            /\ value[k.at] - value[k.right] >= prominence}

\* _direction_changes: along an axis the path turns, and turns back.
Reversals(rows, config) ==
    UNION {
        LET value == [i \in r.run[1] .. r.run[2] |-> r.sign * rows[i].place[r.axis]]
            Moved(a, b, axis) == rows[b].place[axis] - rows[a].place[axis]
        IN {Event("direction_change", k.at, k.left, k.right) :
              k \in {k \in Peaks(value, r.run[1], r.run[2], config.excursion) :
                  /\ Distance(rows[k.left].place, rows[k.at].place) >= config.excursion
                  /\ Distance(rows[k.at].place, rows[k.right].place) >= config.excursion
                  /\ Moved(k.left, k.at, 1) * Moved(k.at, k.right, 1)
                       + Moved(k.left, k.at, 2) * Moved(k.at, k.right, 2) < 0
                  /\ Elapsed(rows, k.left, k.right) >= config.duration}}
        : r \in [run : Runs(rows, {i \in DOMAIN rows : rows[i].place # None}, config),
                 axis : {1, 2}, sign : {1, -1}]}

\* _detect: the extrema of the chain's extension are its events' boundaries.
Extrema(rows, config) ==
    UNION {
        LET value == [i \in r.run[1] .. r.run[2] |-> r.sign * rows[i].extension]
            kinds == IF r.sign = 1
                     THEN {"extension_maximum", "direction_change", "extension_end"}
                     ELSE {"extension_minimum", "direction_change", "preparation_candidate"}
        IN {Event(e[1], e[2].at, e[2].left, e[2].right) :
              e \in kinds \X {k \in Peaks(value, r.run[1], r.run[2], config.prominence) :
                                 Elapsed(rows, k.left, k.right) >= config.duration}}
        : r \in [run : Runs(rows, {i \in DOMAIN rows : rows[i].extension # None}, config),
                 sign : {1, -1}]}

\* _detect: the forearms are seen apart, then crossed for as long as it takes.
Crossings(rows, config) ==
    LET Crossed(i) == rows[i].crossing = "crossed"
        Clear(a, b) == \A i \in a + 1 .. b :
            rows[i].crossing # "unknown" /\ ~Apart(rows, i, config)
        End(i) == Max({e \in i..Len(rows) :
            \A j \in i + 1 .. e : Crossed(j) /\ ~Apart(rows, j, config)})
    IN {Event("arm_crossing", x[2], x[1], End(x[2])) :
          x \in {x \in (DOMAIN rows) \X (DOMAIN rows) :
            /\ x[1] < x[2] /\ rows[x[1]].crossing = "not_crossed" /\ Crossed(x[2])
            /\ Clear(x[1], x[2])
            /\ \A j \in x[1] + 1 .. x[2] - 1 : rows[j].crossing = "ambiguous"
            /\ Elapsed(rows, x[2], End(x[2])) >= config.duration
            /\ \A j \in x[1]..End(x[2]) : rows[j].firm}}

\* _ground_events: contact changes, and each state lasts on its side.
Steps(rows, config) ==
    LET Same(i) == rows[i].contact = rows[i - 1].contact /\ ~Apart(rows, i, config)
        Before(i) == Min({b \in 1 .. i - 1 : \A j \in b + 1 .. i - 1 : Same(j)})
        End(i) == Max({e \in i..Len(rows) : \A j \in i + 1 .. e : Same(j)})
    IN {Event(IF rows[i].contact = "contact" THEN "first_contact" ELSE "lift_off",
              i, Before(i), End(i)) :
          i \in {i \in 2..Len(rows) :
            /\ "unknown" \notin {rows[i - 1].contact, rows[i].contact}
            /\ rows[i - 1].contact # rows[i].contact /\ ~Apart(rows, i, config)
            /\ Elapsed(rows, Before(i), i - 1) >= config.duration
            /\ Elapsed(rows, i, End(i)) >= config.duration
            /\ \A j \in Before(i)..End(i) : rows[j].firm}}

\* Footprints and pivots, as <<first, last>> samples: theirs are the events at
\* both ends, if the foot rests all along.
Supported(rows, sources, config) ==
    {s \in sources :
        /\ \A i \in s[1] .. s[2] : rows[i].contact = "contact" /\ rows[i].firm
        /\ \A i \in s[1] + 1 .. s[2] : ~Apart(rows, i, config)}

Pivoted(rows, pivots, config) ==
    UNION {{Event("pivot_start", s[1], s[1], s[2]), Event("pivot_end", s[2], s[1], s[2])} :
        s \in Supported(rows, pivots, config)}

\* derive_features: an event is dropped that follows one of its kind too soon.
\* (Of several at one time it keeps the first; here they all stay.)
Events(rows, pivots, config) ==
    LET found == Bouts(rows, config) \cup Reversals(rows, config) \cup Extrema(rows, config)
                 \cup Crossings(rows, config) \cup Steps(rows, config)
                 \cup Pivoted(rows, pivots, config)
        Kinds == {e.kind : e \in found}
        Times(kind) == {e.at : e \in {e \in found : e.kind = kind}}
        Kept(kind) ==
            LET k[i \in 0..Len(rows)] ==
                    IF i = 0 THEN {} ELSE
                    IF i \in Times(kind) /\ \A j \in k[i - 1] : Elapsed(rows, j, i) >= config.refractory
                    THEN k[i - 1] \cup {i} ELSE k[i - 1]
            IN k[Len(rows)]
    IN {e \in found : e.at \in Kept(e.kind)}

-----------------------------------------------------------------------------
\* Property: an event lies inside its evidence, which has no gap of the clock;
\* a bout begins and ends at rest and moves in between, so two bouts share at
\* most the rest between them; a foot that lands was in the air and one that
\* leaves was on the ground, and what one landing rests on is over before the
\* next one begins; forearms that cross were seen apart.
EventsAreEarned(rows, pivots, config) ==
    LET events == Events(rows, pivots, config)
        Of(kind) == {e \in events : e.kind = kind}
        Steady(first, last, state) == \A i \in first..last : rows[i].contact = state
    IN
    /\ \A e \in events :
        /\ e.first <= e.at /\ e.at <= e.last
        /\ \A i \in e.first + 1 .. e.last : Elapsed(rows, i - 1, i) <= config.gap
    /\ \A e \in Of("motion_onset") :
        /\ rows[e.first].speed <= config.leave /\ rows[e.last].speed <= config.leave
        /\ \E i \in e.first .. e.last : rows[i].speed # None /\ rows[i].speed >= config.enter
        /\ \A d \in Of("motion_onset") : d.at < e.at => d.last <= e.first
    /\ \A e \in Of("lift_off") :
        Steady(e.first, e.at - 1, "contact") /\ Steady(e.at, e.last, "no_contact")
    /\ \A e \in Of("first_contact") :
        Steady(e.first, e.at - 1, "no_contact") /\ Steady(e.at, e.last, "contact")
    /\ \A kind \in {"lift_off", "first_contact"} : \A d, e \in Of(kind) :
        d.at < e.at => d.last < e.first
    /\ \A e \in Of("arm_crossing") :
        /\ rows[e.first].crossing = "not_crossed"
        /\ \A i \in e.at .. e.last : rows[i].crossing = "crossed"

=============================================================================
