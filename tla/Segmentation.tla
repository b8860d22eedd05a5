---------------------------- MODULE Segmentation ----------------------------
(***************************************************************************)
(* reconstruction/segmentation/core.py: the execution and its coarse steps *)
(* in a motion.                                                            *)
(*                                                                         *)
(* A row is one sample: its time, which tracks move and which are unknown  *)
(* (_state's thresholds on speeds and uncertainties are left out), and the *)
(* contact event of a leg at it.  One arm, one leg and the head stand for  *)
(* the tracks: what is asked of limbs is asked of all of them.             *)
(***************************************************************************)
EXTENDS Integers, Sequences, FiniteSets, SequencesExt, FiniteSetsExt

Limbs == {"arm", "leg"}

\* _runs: the maximal intervals of a set of samples.
Runs(samples) ==
    {r \in samples \X samples :
        /\ r[1] <= r[2] /\ r[1]..r[2] \subseteq samples
        /\ r[1] - 1 \notin samples /\ r[2] + 1 \notin samples}

Elapsed(rows, a, b) == rows[b].t - rows[a].t

Active(row) == row.moving \ {"head"} # {}
Known(row) == row.unknown \cap Limbs = {}
Quiet(row) == Known(row) /\ row.moving = {}

Bouts(rows, config) ==
    {r \in Runs({i \in DOMAIN rows : Active(rows[i])}) :
        Elapsed(rows, r[1], r[2]) >= config.activity}

First(rows, config) == Min({r[1] : r \in Bouts(rows, config)})
LastActive(rows, config) == Max({r[2] : r \in Bouts(rows, config)})

\* The samples that include the whole hold after the last movement.
Held(rows, config) ==
    {i \in DOMAIN rows :
        /\ i > LastActive(rows, config)
        /\ rows[i].t >= rows[LastActive(rows, config)].t + config.hold}

\* Enough of the execution is known, and no stretch of it is unknown for long.
\* The confidence is this coverage, since enough tracks move by now: one bound
\* stands for min_coverage and min_confidence.
Evident(rows, config, first, end) ==
    LET known == {i \in first..end : Known(rows[i])}
        span == Elapsed(rows, first, end)
        seen == MapThenSumSet(LAMBDA i : Elapsed(rows, i, i + 1),
                              {i \in known : i + 1 \in known})
    IN  /\ 100 * seen >= config.coverage * span
        /\ \A r \in Runs((first..end) \ known) :
            Elapsed(rows, Max({first, r[1] - 1}), Min({end, r[2] + 1})) <= config.unknown

\* Every early return of segment_execution is the failure of a conjunct.
Resolved(rows, config) ==
    /\ \A i \in 1..(Len(rows) - 1) : Elapsed(rows, i, i + 1) <= config.gap
    /\ Bouts(rows, config) # {}
    /\ LET first == First(rows, config)
           last == LastActive(rows, config)
       IN
        /\ Cardinality(UNION {rows[i].moving \ {"head"} : i \in first..last}) >= config.tracks
        /\ Held(rows, config) # {}
        /\ LET end == Min(Held(rows, config))
               pre == {i \in 1..(first - 1) : rows[i].t >= rows[first].t - config.edge}
               post == {i \in (last + 1)..Len(rows) : rows[i].t <= rows[end].t + config.edge}
           IN
            /\ Elapsed(rows, end, Len(rows)) >= config.edge
            /\ Elapsed(rows, 1, first) >= config.edge
            /\ pre # {} /\ post # {}
            /\ \A i \in pre \cup post : Quiet(rows[i])
            /\ Evident(rows, config, first, end)

\* Mutant: any quiet between two bouts ends a step.
NeverAwaiting(rows, from, to) == FALSE

\* The leg's last event since the last boundary left the ground or pivots.
Awaiting(rows, from, to) ==
    LET events == {i \in from..(to - 1) : rows[i].event # "none"}
    IN  events # {} /\ rows[Max(events)].event = "lift"

\* Where a bout starts, long enough after the one before it and with all limbs
\* quiet in between.
Renewals(rows, config) ==
    LET Follows(r, s) ==
            r[2] < s[1] /\ ~\E q \in Bouts(rows, config) : r[2] < q[1] /\ q[2] < s[1]
    IN {x[2][1] : x \in {x \in Bouts(rows, config) \X Bouts(rows, config) :
            /\ Follows(x[1], x[2])
            /\ Elapsed(rows, x[1][2], x[2][1]) >= config.step
            /\ \A i \in (x[1][2] + 1)..(x[2][1] - 1) : Quiet(rows[i])}}

\* The boundaries: the first bout, those that start a new step, and the hold.
Cuts(rows, config) ==
    LET first == First(rows, config)
        renewals == Renewals(rows, config)
        Renewed(cuts, i) ==
            IF i \in renewals /\ i > first /\ ~Awaiting(rows, Last(cuts), i)
            THEN Append(cuts, i) ELSE cuts
        c[i \in 0..Len(rows)] == IF i = 0 THEN <<first>> ELSE Renewed(c[i - 1], i)
    IN Append(c[Len(rows)], Min(Held(rows, config)))

\* No execution: nothing is proposed.
Segment(rows, config) == IF Resolved(rows, config) THEN Cuts(rows, config) ELSE <<>>

-----------------------------------------------------------------------------
\* SegmentationResult.topology and Segmentation.coarse_topology, of boundaries
\* that are samples: the steps tile the execution.
Tiled(rows, cuts) ==
    /\ Len(cuts) >= 2
    /\ \A n \in 1..(Len(cuts) - 1) : cuts[n] < cuts[n + 1]
    /\ \A n \in DOMAIN cuts : cuts[n] \in DOMAIN rows

\* Property: a proposal is one that the contracts accept, no bout of movement
\* is cut in two or left out, and no step begins with a foot in the air,
\* whatever happened since the execution began: the parser looks at the events
\* since the last boundary only.
StepsAreWhole(rows, config) ==
    LET cuts == Segment(rows, config) IN
    cuts # <<>> =>
        /\ Tiled(rows, cuts)
        /\ \A r \in Bouts(rows, config) :
            \E n \in 1..(Len(cuts) - 1) : cuts[n] <= r[1] /\ r[2] < cuts[n + 1]
        /\ \A n \in 2..(Len(cuts) - 1) : ~\E i \in cuts[1]..(cuts[n] - 1) :
            /\ rows[i].event = "lift"
            /\ \A k \in (i + 1)..(cuts[n] - 1) : rows[k].event = "none"
        /\ \A i \in (LastActive(rows, config) + 1)..Last(cuts) : Quiet(rows[i])

=============================================================================
