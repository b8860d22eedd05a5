----------------------------- MODULE SyncSolver -----------------------------
(***************************************************************************)
(* sync/solver.py: one clock for the sources of a project, from what their *)
(* cues say of each pair and from the offsets that people revised.         *)
(*                                                                         *)
(* A source is the interval of its native time.  What the correlation of a *)
(* pair's cues finds (for each cue that is usable a score and how far its  *)
(* peak stands out, in hundredths, and a shift) is input; the cues' step   *)
(* is the same for all.  Shifts are such that the least squares are        *)
(* integers.  Authors, windows and diagnostics are left out.               *)
(***************************************************************************)
EXTENDS Integers, FiniteSets, FiniteSetsExt

CONSTANTS
    None,
    Step,       \* of the cues
    Reach       \* no offset is larger

Abs(x) == IF x < 0 THEN -x ELSE x

\* _pair: the best cue decides; of equal scores, the larger shift.
Best(cues) ==
    CHOOSE c \in cues : \A d \in cues \ {c} :
        d.score < c.score \/ (d.score = c.score /\ d.shift < c.shift)

\* It is weak, has a rival peak, or the other cue contradicts it.
Reliable(cues) ==
    /\ cues # {}
    /\ Best(cues).score >= 55
    /\ Best(cues).separation >= 8
    /\ \A c \in cues : Abs(c.shift - Best(cues).shift) <= 2 * Step

\* The reliable pairs <<a, b>> of a subset, a < b; the shift of a pair is the
\* offset of b minus the offset of a.
Edges(subset, cues) ==
    {p \in subset \X subset : p[1] < p[2] /\ Reliable(cues[p])}

Residual(offsets, cues, p) == offsets[p[2]] - offsets[p[1]] - Best(cues[p]).shift

\* numpy.linalg.lstsq with the first source at 0, by the normal equations.
\* Whoever is not reached makes them ambiguous (the rank): no solution.
Solutions(subset, cues) ==
    LET anchor == Min(subset)
        edges == Edges(subset, cues)
        normal(o) == \A x \in subset :
            MapThenSumSet(LAMBDA p : Residual(o, cues, p), {p \in edges : p[2] = x})
            = MapThenSumSet(LAMBDA p : Residual(o, cues, p), {p \in edges : p[1] = x})
        offsets(others) == [x \in subset |-> IF x = anchor THEN 0 ELSE others[x]]
        found == {o \in {offsets(f) : f \in [subset \ {anchor} -> -Reach..Reach]} : normal(o)}
    IN  IF Cardinality(found) = 1 THEN found ELSE {}

Common(sources, offsets) ==
    [start |-> Max({sources[x].start + offsets[x] : x \in DOMAIN offsets}),
     end |-> Min({sources[x].end + offsets[x] : x \in DOMAIN offsets})]

Overlaps(sources, offsets) ==
    Common(sources, offsets).start < Common(sources, offsets).end

\* Mutant: a contradiction is left in the timeline.
AnyResidual(offsets, cues, p) == TRUE

Tolerated(offsets, cues, p) == Abs(Residual(offsets, cues, p)) <= 2 * Step

\* The connected, consistent subsets of the largest size there is.
Ranked(sources, cues) ==
    LET consistent == UNION {
            {o \in Solutions(subset, cues) :
                /\ \A p \in Edges(subset, cues) : Tolerated(o, cues, p)
                /\ Overlaps(sources, o)} :
            subset \in {s \in SUBSET DOMAIN sources : Cardinality(s) >= 2}}
    IN  {o \in consistent : \A other \in consistent :
            Cardinality(DOMAIN other) <= Cardinality(DOMAIN o)}

Score(offsets, cues) ==
    MapThenSumSet(LAMBDA p : Best(cues[p]).score, Edges(DOMAIN offsets, cues))

Revised(revisions) == {x \in DOMAIN revisions : revisions[x] # None}

OfReference(offsets, ref) == [x \in DOMAIN offsets |-> offsets[x] - offsets[ref]]

\* Ties in score are broken by the order of the subsets: any of them, here.
Automatic(ranked, cues, reference) ==
    LET best == {o \in ranked : \A other \in ranked : Score(other, cues) <= Score(o, cues)}
        ref(o) == IF reference = None THEN Min(DOMAIN o) ELSE reference
    IN  {[ref |-> ref(o), automatic |-> OfReference(o, ref(o))] :
            o \in {p \in best : reference # None => reference \in DOMAIN p}}

\* Without any: the offsets of people, if somebody defines zero.
Manual(sources, reference, revisions) ==
    LET unrevised == DOMAIN sources \ Revised(revisions)
        zero == {x \in DOMAIN sources : revisions[x] = 0}
        refs == IF reference # None THEN {reference}
                ELSE IF unrevised # {} THEN {Min(unrevised)}
                ELSE IF zero # {} THEN {Min(zero)}
                ELSE {}
    IN  {[ref |-> r, automatic |-> [x \in {} |-> 0]] : r \in refs}

\* The offsets of the sources that are kept.
Effective(timeline, revisions) ==
    [x \in DOMAIN timeline.automatic \cup Revised(revisions) \cup {timeline.ref} |->
        IF revisions[x] # None THEN revisions[x]
        ELSE IF x \in DOMAIN timeline.automatic THEN timeline.automatic[x]
        ELSE 0]

\* solve_offsets: the timelines that it may return, none when it fails.
Solve(sources, cues, reference, revisions) ==
    LET ranked == Ranked(sources, cues)
        timelines == IF ranked # {}
                     THEN Automatic(ranked, cues, reference)
                     ELSE Manual(sources, reference, revisions)
    IN  {t \in timelines :
            LET offsets == Effective(t, revisions) IN
            /\ revisions[t.ref] \in {None, 0}
            /\ Cardinality(DOMAIN offsets) >= 2
            /\ Overlaps(sources, offsets)}

-----------------------------------------------------------------------------
(* Properties.                                                             *)

\* Whatever the cues say and whoever was revised, the clock is one: the
\* reference is at zero, the sources that nobody revised stand as the reliable
\* cues of each pair of them say, and a revision moves nobody but its source.
OneTimeline(sources, cues, reference, revisions) ==
    LET unrevised == [x \in DOMAIN sources |-> None] IN
    \A t \in Solve(sources, cues, reference, revisions) :
        LET offsets == Effective(t, revisions)
            free == DOMAIN offsets \ Revised(revisions)
        IN
        /\ offsets[t.ref] = 0
        /\ \A p \in Edges(free, cues) : Abs(Residual(offsets, cues, p)) <= 2 * Step
        /\ DOMAIN t.automatic # {} => \E u \in Solve(sources, cues, reference, unrevised) :
            \A x \in free : x \in DOMAIN u.automatic /\ u.automatic[x] = offsets[x]

=============================================================================
