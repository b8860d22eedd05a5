----------------------------- MODULE PoseTracker -----------------------------
(***************************************************************************)
(* pose/stream.py: which of the people of a frame is the practitioner, and *)
(* which of the two wrists is the left one.                                *)
(*                                                                         *)
(* People live on a line: a candidate has a place, a box of a size (the    *)
(* root of its area), and the places of its two wrists.  A wrist has a raw *)
(* score, in tenths, and is shown if it is visible enough and within the   *)
(* frame; the hands' refinement may doubt which hand is which.  Shoulders, *)
(* elbows, hips and so on are compared as the wrists are, with an anchor   *)
(* per pair, if they are also visible; the feet share one, which asks for  *)
(* usable regions too.  The cost of a match is the distance between places *)
(* (the code weighs three terms of that kind).  One camera and one source; *)
(* a candidate's index is its position.                                    *)
(***************************************************************************)
EXTENDS Integers, Sequences, FiniteSets

CONSTANT None

Abs(x) == IF x < 0 THEN -x ELSE x

Sides == {"left", "right"}

\* A candidate, and a frame at native time t with the people seen in it and the
\* one that an operator says is the practitioner, if any.
Person(place, size, left, right, score, shown, doubtful) ==
    [place |-> place, size |-> size, wrist |-> [left |-> left, right |-> right],
     score |-> score, shown |-> shown, doubtful |-> doubtful]
Frame(t, people, operator) == [t |-> t, people |-> people, operator |-> operator]

\* PractitionerTracker: the person it follows, since when it has not seen them,
\* the last person whose wrists could both be published, the last frame's time.
Fresh == [anchor |-> None, anchorTime |-> None, trusted |-> None, last |-> None]

Cost(a, b) == Abs(a.place - b.place)

\* No other is as good: the first one in the order of areas, or of costs, if it
\* is better by a ratio, or a margin, than the next.
Largest(people, i, config) ==
    \A j \in DOMAIN people \ {i} :
        /\ people[j].size < people[i].size \/ (people[j].size = people[i].size /\ i < j)
        /\ 10 * people[i].size * people[i].size >= config.ratio * people[j].size * people[j].size

Closest(anchor, people, i, config) ==
    /\ Cost(anchor, people[i]) <= config.cost
    /\ \A j \in DOMAIN people \ {i} :
         Cost(anchor, people[j]) - Cost(anchor, people[i]) >= config.margin

\* The index of who is selected, if any: an operator's word comes before all rules.
Chosen(tracker, frame, config) ==
    LET people == DOMAIN frame.people IN
    IF frame.operator # None THEN {frame.operator}
    ELSE IF tracker.anchor = None THEN {i \in people : Largest(frame.people, i, config)}
    ELSE IF frame.t - tracker.anchorTime > config.gap THEN {}
    ELSE {i \in people : Closest(tracker.anchor, frame.people, i, config)}

\* Below this raw score a wrist is not compared, whatever is published.
Least == 2

Compared(person) == \A s \in Sides : person.score[s] >= Least

\* The wrists fit better the other way round, by a twentieth of the box.
Crossed(previous, current) ==
    LET Between(s, r) == Abs(previous.wrist[s] - current.wrist[r]) IN
    20 * (Between("left", "right") + Between("right", "left")) + current.size <
        20 * (Between("left", "left") + Between("right", "right"))

\* _side_ambiguous, of either hand.
Ambiguous(tracker, person) ==
    \/ person.doubtful
    \/ /\ tracker.trusted # None
       /\ Compared(tracker.trusted) /\ Compared(person)
       /\ Crossed(tracker.trusted, person)

\* _assemble: the wrists that are published.
Published(tracker, person, config) ==
    IF Ambiguous(tracker, person) THEN {}
    ELSE {s \in person.shown : person.score[s] >= config.score}

\* Mutant: whoever was selected is trusted, with wrists published or without.
TrustsSelected(tracker, person, config) == person

Trusted(tracker, person, config) ==
    IF Published(tracker, person, config) = Sides THEN person ELSE tracker.trusted

\* observe raises for a frame that is before the last one, and leaves no trace of
\* it; for an operator's choice that is not in the frame, after it noted the time.
Observe(tracker, frame, config) ==
    LET nobody == [tracker |-> [tracker EXCEPT !.last = frame.t], person |-> None, wrists |-> {}]
        chosen == Chosen(tracker, frame, config)
    IN
    IF tracker.last # None /\ frame.t < tracker.last
    THEN [nobody EXCEPT !.tracker = tracker]
    ELSE IF chosen \cap DOMAIN frame.people = {} THEN nobody
    ELSE LET person == frame.people[CHOOSE i \in chosen : TRUE] IN
         [tracker |-> [anchor |-> person, anchorTime |-> frame.t,
                       trusted |-> Trusted(tracker, person, config), last |-> frame.t],
          person |-> person,
          wrists |-> Published(tracker, person, config)]

\* A video: one call after the other, and at the edges of windows the tracker is
\* restored from a snapshot that keeps all of what is compared.
Run(frames, config) ==
    LET o[i \in 0..Len(frames)] ==
            IF i = 0 THEN [tracker |-> Fresh, person |-> None, wrists |-> {}]
            ELSE Observe(o[i - 1].tracker, frames[i], config)
    IN o

-----------------------------------------------------------------------------
\* Whatever happens in between (people who come and go, wrists that are hidden
\* or published alone, frames without anybody, calls that raise): two frames that
\* publish both wrists of the practitioner, with none between them that does,
\* have them crossed only when one of the four was too faint to be compared and
\* the configuration publishes as faint ones (stream.py:122-149, 437-441, 525, 616-622).
\* The practitioner is never selected before the time they were last selected;
\* selected without an operator, they go on from that last selection, within the
\* gap and the cost, and nobody in the frame is nearly as close.  After a longer
\* gap only an operator's word finds them again (stream.py:345-405;
\* pose/README.md:66-70).
SidesNeverCross(frames, config) ==
    LET o == Run(frames, config)
        Both == {i \in DOMAIN frames : o[i].wrists = Sides}
        Seen == {i \in DOMAIN frames : o[i].person # None}
        InTurn(i, j, S) == i < j /\ \A k \in S : k <= i \/ k >= j
    IN
    /\ \A i, j \in Both :
         InTurn(i, j, Both) /\ Crossed(o[i].person, o[j].person) =>
             /\ config.score < Least
             /\ ~Compared(o[i].person) \/ ~Compared(o[j].person)
    /\ \A i, j \in Seen : InTurn(i, j, Seen) =>
         /\ frames[i].t <= frames[j].t
         /\ frames[j].operator = None =>
              /\ frames[j].t - frames[i].t <= config.gap
              /\ \E n \in DOMAIN frames[j].people :
                   /\ frames[j].people[n] = o[j].person
                   /\ Closest(o[i].person, frames[j].people, n, config)

=============================================================================
