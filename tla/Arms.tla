-------------------------------- MODULE Arms --------------------------------
(***************************************************************************)
(* reconstruction/arms/core.py: the actions of the two arms.               *)
(*                                                                         *)
(* A row is one native sample: its time and, of each arm, whether it       *)
(* "moves", is "quiet" or is "unknown" (a speed between the thresholds is  *)
(* unknown too), how far it is from the body's middle (negative: on the    *)
(* other arm's side) and how far it is extended (None: not measured).  Of  *)
(* the events of features/core.py that become phases of an action, a model *)
(* event is the arm and the first and last sample of its evidence.  Names, *)
(* quality and the copies that a proposal keeps of evidence are left out.  *)
(***************************************************************************)
EXTENDS Integers, Sequences, FiniteSets

CONSTANT None

Arm == {"left", "right"}

Span(arm, first, last) == [arm |-> arm, first |-> first, last |-> last]

\* Mutant: an unknown sample is passed over like a quiet one.
BridgesUnknown(rows, i, arm, config) == i > 1 /\ rows[i].t - rows[i - 1].t > config.gap

\* What ends a span at once.
Breaks(rows, i, arm, config) ==
    \/ i > 1 /\ rows[i].t - rows[i - 1].t > config.gap
    \/ rows[i].state[arm] = "unknown"

NoSpan == [start |-> 0, last |-> 0, quiet |-> 0, spans |-> {}]

\* finish: a span that is too short is dropped.
Finished(rows, arm, config, s) ==
    [NoSpan EXCEPT !.spans =
        IF s.start # 0 /\ rows[s.last].t - rows[s.start].t >= config.activity
        THEN s.spans \cup {Span(arm, s.start, s.last)} ELSE s.spans]

\* What sample i makes of a span's start and last motion, and of the sample since
\* which it is quiet.
Sensed(rows, arm, config, i, before) ==
    LET s == IF Breaks(rows, i, arm, config) THEN Finished(rows, arm, config, before) ELSE before
        state == rows[i].state[arm]
        quiet == IF s.quiet = 0 THEN i ELSE s.quiet
    IN  IF state = "moves"
        THEN [s EXCEPT !.start = IF @ = 0 THEN i ELSE @, !.last = i, !.quiet = 0]
        ELSE IF state = "unknown" \/ s.start = 0 THEN s
        ELSE IF rows[i].t - rows[quiet].t >= config.quiet THEN Finished(rows, arm, config, s)
        ELSE [s EXCEPT !.quiet = quiet]

\* _spans: an automaton over the samples.
Spans(rows, arm, config) ==
    LET a[i \in 0..Len(rows)] ==
            IF i = 0 THEN NoSpan ELSE Sensed(rows, arm, config, i, a[i - 1])
    IN  Finished(rows, arm, config, a[Len(rows)]).spans

\* Execution gates whole spans: none is cut at its edges.
Gated(rows, execution, config) ==
    {s \in UNION {Spans(rows, arm, config) : arm \in Arm} :
        execution[1] <= rows[s.first].t /\ rows[s.last].t <= execution[2]}

Larger(a, b) == IF a >= b THEN a ELSE b
Smaller(a, b) == IF a <= b THEN a ELSE b
Abs(a) == Larger(a, -a)

\* _centering: both arms come to the middle together, mirrored all the way.
Centering(rows, left, right, config) ==
    LET first == Larger(left.first, right.first)
        last == Smaller(left.last, right.last)
        Long(s) == rows[s.last].t - rows[s.first].t
        Out(i, arm) == rows[i].reach[arm]
    IN
    /\ last - first >= 2
    /\ 100 * (rows[last].t - rows[first].t) >=
         config.overlap * Larger(Long(left), Long(right))
    /\ \A i \in first..last : \A arm \in Arm : Out(i, arm) # None
    /\ \A arm \in Arm : Out(first, arm) > 0
    /\ \A i \in first..last : Abs(Out(i, "left") - Out(i, "right")) <= config.mirror
    /\ \A arm \in Arm :
         /\ Abs(Out(last, arm)) <= config.center
         /\ Out(first, arm) - Abs(Out(last, arm)) > config.excursion

\* The left span that begins at sample n takes the first right span that mirrors
\* it and is not taken.
Paired(rows, spans, config, n, pairs) ==
    LET left == {s \in spans : s.arm = "left" /\ s.first = n}
        right == {r \in spans :
                    /\ r.arm = "right" /\ \A x \in pairs : x[2] # r
                    /\ \A l \in left : Centering(rows, l, r, config)}
    IN  left \X {r \in right : \A q \in right : r.first <= q.first}

\* The left spans choose in time order.
Pairs(rows, spans, config) ==
    LET p[n \in 0..Len(rows)] ==
            IF n = 0 THEN {} ELSE p[n - 1] \cup Paired(rows, spans, config, n, p[n - 1])
    IN  p[Len(rows)]

\* A mirrored pair is one special action.
Proposals(rows, execution, config) ==
    LET spans == Gated(rows, execution, config)
        pairs == Pairs(rows, spans, config)
        paired == UNION {{x[1], x[2]} : x \in pairs}
    IN {[role |-> "special", tracks |-> {x[1], x[2]}] : x \in pairs} \cup
       {[role |-> "unknown", tracks |-> {s}] : s \in spans \ paired}

\* _retractions: runs of falling extension that fall far enough and last.
Retractions(rows, span, config) ==
    LET Ext(i) == rows[i].extension[span.arm]
        Falling(a, b) == /\ \A i \in a..b : Ext(i) # None
                         /\ \A i \in a + 1 .. b : Ext(i) < Ext(i - 1)
        Maximal(a, b) == /\ a = span.first \/ ~Falling(a - 1, b)
                         /\ b = span.last \/ ~Falling(a, b + 1)
    IN
    {r \in (span.first .. span.last) \X (span.first .. span.last) :
        /\ r[1] < r[2] /\ Falling(r[1], r[2]) /\ Maximal(r[1], r[2])
        /\ Ext(r[1]) - Ext(r[2]) > config.prominence
        /\ rows[r[2]].t - rows[r[1]].t >= config.lasting}

\* What a span has in common with the evidence of its arm's events.
Overlaps(span, events) ==
    {<<Larger(e.first, span.first), Smaller(e.last, span.last)>> :
        e \in {e \in events : /\ e.arm = span.arm
                             /\ e.first <= span.last /\ span.first <= e.last}}

\* The phases of an action on one of its tracks.
Phases(rows, span, events, config) ==
    Overlaps(span, events) \cup Retractions(rows, span, config)

\* An Interval ends after it starts, or raises.
Lasts(rows, phase) == rows[phase[1]].t < rows[phase[2]].t

\* parse_arm_actions: with a phase of one sample, Interval raises and there is no
\* proposal at all.
ParseArmActions(rows, execution, events, config) ==
    IF \A s \in Gated(rows, execution, config) :
            \A p \in Phases(rows, s, events, config) : Lasts(rows, p)
    THEN Proposals(rows, execution, config) ELSE {}

-----------------------------------------------------------------------------
\* Every action is of an arm that moves at both ends, and inside is neither a
\* gap, nor an unknown sample, nor a rest; an arm is in one action at a time,
\* and in between the arm was unknown, resting or out of sight; an arm's motion
\* belongs to one action, alone or with the other arm's that mirrors it; and the
\* phases of an action last and lie in its motion, its retractions one after the
\* other (arms/core.py:80-163, 201-246, 445-567).
ArmsAreTheirOwn(rows, execution, events, config) ==
    LET proposals == ParseArmActions(rows, execution, events, config)
        spans == UNION {p.tracks : p \in proposals}
        Moving(i, arm) == rows[i].state[arm] = "moves"
    IN
    /\ \A p, q \in proposals : p # q => p.tracks \cap q.tracks = {}
    /\ \A p \in proposals : p.role = "special" => {s.arm : s \in p.tracks} = Arm
    /\ \A s \in spans :
         /\ Moving(s.first, s.arm) /\ Moving(s.last, s.arm)
         /\ \A i \in s.first .. s.last : rows[i].state[s.arm] # "unknown"
         /\ \A i \in s.first + 1 .. s.last : rows[i].t - rows[i - 1].t <= config.gap
         /\ \A i, j \in s.first .. s.last :
              i <= j /\ (\A n \in i..j : rows[n].state[s.arm] = "quiet") =>
                  rows[j].t - rows[i].t < config.quiet
         /\ \A p \in Phases(rows, s, events, config) :
              s.first <= p[1] /\ Lasts(rows, p) /\ p[2] <= s.last
         /\ \A a, b \in Retractions(rows, s, config) : a # b => a[2] < b[1] \/ b[2] < a[1]
    /\ \A s, u \in spans : s # u /\ s.arm = u.arm /\ s.first <= u.first =>
         /\ s.last < u.first
         /\ \E i \in s.last + 1 .. u.first :
              \/ rows[i].state[s.arm] = "unknown" \/ rows[i].t - rows[i - 1].t > config.gap
              \/ \E j \in s.last + 1 .. i : rows[i].t - rows[j].t >= config.quiet

=============================================================================
