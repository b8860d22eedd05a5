---------------------------- MODULE MCAlgorithms ----------------------------
(***************************************************************************)
(* The pure stages of the pipeline, for TLC: each one is asked for its     *)
(* result on every input that can be put together, piece by piece, within  *)
(* the bounds below, and the property is about input and result.  The      *)
(* subject of a behaviour is the stage whose input it puts together.       *)
(*                                                                         *)
(* Pieces are chosen for the cases of each stage: the kinds of rows, gaps  *)
(* and values that its branches tell apart.                                *)
(***************************************************************************)
EXTENDS Algorithms, FiniteSets, SequencesExt

vars == <<subject, input>>

\* Rows that end at the time of the last one.
Time(rows) == IF rows = <<>> THEN 0 ELSE Last(rows).t

-----------------------------------------------------------------------------
(* Alignment: frames of a camera, in the order of time.                    *)

TheMoments == -3..13

Kind(sub, sees, provider) == [subject |-> sub, sees |-> sees, provider |-> provider]

Kinds == {Kind("one", {"landmarks", "own"}, "p"), Kind("one", {"own"}, "q"),
          Kind("two", {"landmarks"}, "p"), Kind("rejected", {"landmarks", "own"}, "none")}

FrameAt(t, k) == [at |-> t, subject |-> k.subject, sees |-> k.sees, provider |-> k.provider]

Join(frames, from, to, longest) ==
    [frames |-> frames,
     offset |-> [shift |-> -2, from |-> from, to |-> to, retained |-> TRUE],
     config |-> [radius |-> 1, factor |-> 2, longest |-> longest]]

Joins == {Join({}, 0, 100, 100), Join({}, 4, 100, 4), Join({}, 0, 6, 100)}

MoreFrames(join) ==
    {[join EXCEPT !.frames = @ \cup {FrameAt(t, k)}] :
        <<t, k>> \in {x \in {0, 2, 4, 8, 14} \X Kinds :
            /\ \A f \in join.frames : f.at < x[1]
            /\ Cardinality(join.frames) < 4}}

-----------------------------------------------------------------------------
(* SyncSolver: three sources.                                              *)

Cue(score, shift, separation) ==
    [score |-> score, shift |-> shift, separation |-> separation]

\* No cues; three reliable pairs of cues; cues that contradict each other.
Correlations == {{}, {Cue(60, 0, 20)}, {Cue(90, 3, 20), Cue(60, 4, 1)}, {Cue(70, -3, 9)},
         {Cue(80, 0, 30), Cue(60, 3, 30)}}

ThreeRecordings == <<[start |-> 0, end |-> 8], [start |-> 0, end |-> 5], [start |-> 2, end |-> 9]>>

Unrevised == [x \in DOMAIN Recordings |-> None]

Solvable == [cues : [{<<1, 2>>, <<1, 3>>, <<2, 3>>} -> Correlations],
             reference : {None, 2}, revisions : {Unrevised}]

MoreRevisions(solvable) ==
    {[solvable EXCEPT !.revisions[x] = o] :
        <<x, o>> \in {y \in {<<1, 0>>, <<1, 4>>, <<2, 4>>, <<3, 4>>} :
            \A z \in y[1]..3 : solvable.revisions[z] = None}}

-----------------------------------------------------------------------------
(* Publishers: one artifact is handed on, the others are any there are: of *)
(* two clocks, of three calibration files, two of which give one id.       *)

Given(by, n) == [by |-> by, of |-> {}, config |-> n]

ThreeFiles == <<[id |-> 1, sync |-> None], [id |-> 1, sync |-> None],
                [id |-> 2, sync |-> Given("sync key", 1)]>>

Windows(n) == Pub!Made("windows", {Given("source", n)}, 0)
Synchronization(n) == Pub!Made("sync", {Given("source", 1), Given("sync key", n)}, 0)

Calibrations == {Pub!Made("calibration", {Given("file", n)}, 0) : n \in 1..3}
Alignments ==
    UNION {Pub!PublishAlignment(Windows(n), Synchronization(m)) : <<n, m>> \in {1, 2} \X {1, 2}}
Raws == UNION {Pub!PublishTriangulation(c, x) : <<c, x>> \in Calibrations \X Alignments}
Smoothed == UNION {Pub!PublishMotion(raw, 0) : raw \in Raws}
Contacts ==
    UNION {Pub!PublishContacts(m, c, {Pub!Input(m, "morphology")}) :
        <<m, c>> \in Smoothed \X Calibrations}
Placements ==
    UNION {Pub!PublishFootprints(m, g, c, {}) : <<m, g, c>> \in Smoothed \X Contacts \X Calibrations}
Pivots == UNION {Pub!PublishPivots(g) : g \in Placements}
Views == UNION {Pub!PublishGroundView(m, c, g) : <<m, c, g>> \in Smoothed \X Calibrations \X Pivots}

\* Two motions of one clock and two calibrations of one id, with contacts and
\* ground views that agree or not in either.
OfTheFirstClock == {m \in Smoothed : \A x \in Pub!Clocks(m) : Given("sync key", 1) \in x.of}
Grounds == {g \in Contacts \cup Views : Calibrations \cap g.of = {CHOOSE c \in Calibrations : TRUE}}
Features ==
    UNION {Pub!PublishFeatures(m, g) : <<m, g>> \in OfTheFirstClock \X Grounds}
Segmentations == UNION {Pub!PublishSegmentation(f, n) : <<f, n>> \in Features \X {0, 1}}
Arms == UNION {Pub!PublishArms(f, s, m) : <<f, s, m>> \in Features \X Segmentations \X OfTheFirstClock}
Legs == UNION {Pub!PublishLegs(f, g, s) : <<f, g, s>> \in Features \X Grounds \X Segmentations}

Products ==
    Raws \cup Smoothed \cup Contacts \cup Placements \cup Pivots \cup Views
    \cup Features \cup Segmentations \cup Arms \cup Legs

HandedOn(a) ==
    UNION {Pub!PublishSemantics(a, s, x, y, 0) :
        <<s, x, y>> \in IF a \in Features THEN Segmentations \X Arms \X Legs ELSE {}}

-----------------------------------------------------------------------------
(* Segmentation: a quiet start, then pieces of one or two rows.            *)

Row(t, moving, unknown, event) == [t |-> t, moving |-> moving, unknown |-> unknown, event |-> event]

\* Quiet for one or two units; a movement that lifts the leg, places it, does
\* both or neither; a leg that is not known; a nod of the head.
Segments(rows) ==
    LET t == Time(rows)
        bout(first, second) == <<Row(t + 1, {"arm", "leg"}, {}, first),
                                 Row(t + 2, {"arm", "leg"}, {}, second)>>
    IN  {<<Row(t + 1, {}, {}, "none")>>, <<Row(t + 1, {}, {"leg"}, "none")>>,
         <<Row(t + 1, {"head"}, {}, "none")>>,
         bout("none", "none"), bout("none", "lift"), bout("place", "none")}

TheExecution ==
    [activity |-> 1, edge |-> 1, hold |-> 1, step |-> 2, gap |-> 2, unknown |-> 2,
     coverage |-> 60, tracks |-> 2]

-----------------------------------------------------------------------------
(* LowerBody: the rows of one leg.                                         *)

LegRows(rows) ==
    LET row(after, contact, extension, place, moving) ==
            <<[t |-> Time(rows) + after, contact |-> contact,
               extension |-> extension, place |-> place, moving |-> moving]>>
    IN  {row(1, "contact", 1, 0, FALSE), row(1, "contact", 1, 1, TRUE),
         row(1, "no_contact", 1, 0, TRUE), row(1, "no_contact", 4, 0, TRUE),
         row(1, "no_contact", None, 0, TRUE), row(1, "unknown", 1, 0, TRUE),
         row(2, "no_contact", 1, 0, FALSE), row(1, "contact", 1, None, FALSE)}

TheLeg == [gap |-> 1, chamber |-> 2, excursion |-> 1, phase |-> 1, stance |-> 1]

TheLegTurns ==
    {[from |-> 1, to |-> 2, turned |-> TRUE], [from |-> 2, to |-> 4, turned |-> FALSE]}

-----------------------------------------------------------------------------
(* Arms: the rows of both arms, which come to the middle and pass it.      *)

ArmRows(rows) ==
    LET reach == IF Len(rows) >= 4 THEN -2 ELSE <<4, 3, 1, 0>>[Len(rows) + 1]
        both(x, y) == [left |-> x, right |-> y]
        row(after, state, reached, extension) ==
            <<[t |-> Time(rows) + after, state |-> state, reach |-> reached, extension |-> extension]>>
    IN  {row(1, both("moves", "moves"), both(reach, reach), both(reach, 2)),
         row(1, both("moves", "quiet"), both(reach, reach), both(2, 2)),
         row(1, both("unknown", "moves"), both(reach, reach), both(2, 1)),
         row(1, both("quiet", "moves"), both(0, reach), both(None, reach)),
         row(1, both("quiet", "quiet"), both(reach, reach), both(2, 2)),
         row(3, both("moves", "moves"), both(reach, reach), both(1, 1))}

TheGesture == [gap |-> 2, activity |-> 1, quiet |-> 1, overlap |-> 50, mirror |-> 0, center |-> 1,
               excursion |-> 1, prominence |-> 1, lasting |-> 1]

ThePerformed == <<1, 9>>

\* The left arm's shares one sample with a span that begins where it ends.
TheArmEvents ==
    {[arm |-> "left", first |-> 1, last |-> 3], [arm |-> "right", first |-> 4, last |-> 5]}

-----------------------------------------------------------------------------
(* Features: the rows of one landmark, one chain and one foot.             *)

FeatureRows(rows) ==
    LET row(after, place, speed, extension, crossing, contact, firm) ==
            <<[t |-> Time(rows) + after, place |-> place, speed |-> speed, extension |-> extension,
               crossing |-> crossing, contact |-> contact, firm |-> firm]>>
    IN  {row(1, <<0, 0>>, 0, 1, "not_crossed", "contact", TRUE),
         row(1, <<2, 0>>, 2, 3, "crossed", "no_contact", TRUE),
         row(1, <<2, 1>>, 0, None, "ambiguous", "contact", TRUE),
         row(1, <<0, 2>>, 1, 0, "crossed", "contact", TRUE),
         row(1, None, None, 1, "ambiguous", "no_contact", FALSE),
         row(3, <<0, 0>>, 0, 1, "not_crossed", "no_contact", TRUE)}

TheFeature == [gap |-> 2, duration |-> 1, enter |-> 2, leave |-> 0, excursion |-> 1,
               prominence |-> 1, refractory |-> 2]

TheFootTurns == {<<1, 2>>, <<2, 4>>}

-----------------------------------------------------------------------------
(* Feet: three rows on the floor, and more of one foot.                    *)

Foot(t, heel, ball, yaw, source, other) ==
    [t |-> t, height |-> [p \in F!Parts |-> IF p = "heel" THEN heel ELSE ball], yaw |-> yaw,
     axis |-> heel # None /\ ball # None, blur |-> 0, source |-> source, other |-> other]

Sources == 0..20

OnTheFloor == [n \in 1..3 |-> Foot(n - 1, 0, 0, 0, n - 1, TRUE)]

\* On the floor, turned by one or four, on the heel, in the air, seen again
\* without a new sample, after a gap, with a part unseen, with parts too close to
\* tell a direction, or one that is uncertain.
FootRows(rows) ==
    LET t == Time(rows)
        yaw(turn) == (Last(rows).yaw + turn) % Turn
        new == Last(rows).source + 1
        old == Last(rows).source
    IN  {<<Foot(t + 1, 0, 0, yaw(0), new, TRUE)>>, <<Foot(t + 1, 0, 0, yaw(1), new, TRUE)>>,
         <<Foot(t + 1, 0, 0, yaw(4), new, TRUE)>>, <<Foot(t + 1, 0, 2, yaw(2), new, TRUE)>>,
         <<Foot(t + 1, 0, 0, yaw(0), old, TRUE)>>, <<Foot(t + 1, 3, 3, yaw(0), new, TRUE)>>,
         <<Foot(t + 1, 3, 3, yaw(0), old, TRUE)>>, <<Foot(t + 3, 0, 0, yaw(0), new, TRUE)>>,
         <<Foot(t + 1, 0, None, yaw(2), new, FALSE)>>,
         <<[Foot(t + 1, 0, 0, yaw(0), new, TRUE) EXCEPT !.axis = FALSE]>>,
         <<[Foot(t + 1, 0, 0, yaw(0), new, TRUE) EXCEPT !.blur = 1]>>}

TheFloor ==
    [gap |-> 2, enter |-> 1, leave |-> 2, enterSpeed |-> 1, leaveSpeed |-> 2, contact |-> 1,
     air |-> 1, enterAngle |-> 1, leaveAngle |-> 2, still |-> 1, enterTurn |-> 2,
     leaveTurn |-> 1, quiet |-> 2, excursion |-> 2]

-----------------------------------------------------------------------------
(* PoseTracker: nobody, one of five people, or two of them.               *)

Cast ==
    LET clear == [left |-> 5, right |-> 9]
        one == T!Person(0, 20, 0, 4, clear, T!Sides, FALSE)
        turned == T!Person(0, 20, 4, 0, clear, T!Sides, FALSE)
    IN  [one |-> one, turned |-> turned,
         faint |-> [turned EXCEPT !.score = [clear EXCEPT !.left = 1]],
         half |-> [turned EXCEPT !.shown = {"right"}],
         near |-> T!Person(1, 20, 1, 2, clear, T!Sides, TRUE),
         other |-> T!Person(2, 30, 5, 2, clear, T!Sides, FALSE),
         far |-> T!Person(4, 20, 7, 4, clear, T!Sides, FALSE)]

Crowds ==
    {<<>>, <<Cast.one, Cast.other>>, <<Cast.other, Cast.far>>}
    \cup {<<Cast[x]>> : x \in {"one", "turned", "faint", "half", "near"}}

\* In time or after a gap; with the operator's word on one of two, on nobody who is
\* there, or after a gap; and a frame that goes back.
VideoFrames(frames) ==
    LET t == Time(frames) IN
    {<<T!Frame(t + after, people, None)>> : <<after, people>> \in {1, 3} \X Crowds}
    \cup {<<T!Frame(t + 1, <<Cast.one, Cast.other>>, 2)>>,
          <<T!Frame(t + 3, <<Cast.one, Cast.other>>, 1)>>,
          <<T!Frame(t + 1, <<Cast.turned>>, 2)>>, <<T!Frame(t - 1, <<Cast.turned>>, None)>>}

\* Wrists fainter than those that are compared are published.
TheTracker == [score |-> 1, ratio |-> 12, cost |-> 3, margin |-> 1, gap |-> 2]

-----------------------------------------------------------------------------
(* Assembly: an arm, and one or two actions of each leg.                   *)

Alone(leg, n, from, to) == A!Proposal(<<leg, n, from, to>>, [t \in {leg} |-> <<from, to>>], {}, {})

\* One action, or one that recovers from another one.
LegProposals(leg) ==
    {{Alone(leg, 1, i[1], i[2])} : i \in {x \in (0..5) \X (0..5) : x[1] < x[2]}}
    \cup {{A!Proposal(<<leg, 1, i[1], i[2]>>, [t \in {leg} |-> <<i[1], i[2]>>],
                      {A!Phase(leg, i[1], i[2])}, {}),
           A!Proposal(<<leg, 2, i[2], i[3]>>, [t \in {leg} |-> <<i[2], i[3]>>],
                      {}, {<<leg, 1, i[1], i[2]>>})} :
            i \in {x \in (0..5) \X (0..5) \X (0..5) : x[1] < x[2] /\ x[2] < x[3]}}

ArmProposals ==
    {{}} \cup {{A!Proposal(<<"arm", 1, i[1], i[2]>>, [t \in {"arm"} |-> i],
                           {A!Phase("arm", i[1], i[1] + 1)}, {})} : i \in {<<2, 3>>, <<2, 4>>}}

Observed == {[track |-> "left", at |-> 2], [track |-> "right", at |-> 3], [track |-> "arm", at |-> 1]}

Proposed == [cuts : {<<2, 4>>, <<2, 3, 4>>}, arms : ArmProposals, legs : {{}},
             stances : {{<<0, 3>>}}, events : {Observed}]

\* The left leg's, then the right one's.
MoreProposals(proposed) ==
    LET proposes(leg) == \E x \in proposed.legs : leg \in DOMAIN x.span
    IN  {[proposed EXCEPT !.legs = @ \cup legs] :
            legs \in IF proposes("right") THEN {}
                     ELSE LegProposals("right") \cup (IF proposes("left") THEN {} ELSE LegProposals("left"))}

\* "Keep complete connected actions at execution edges, including recovery"
\* (reconstruction/semantics/core.py:108).
LinksSurvive ==
    subject = "assembly" =>
        A!LinksSurvive(input.cuts, input.arms, input.legs, input.stances, input.events)

-----------------------------------------------------------------------------
(* The inputs, from the first ones on.                                     *)

\* Bound: rows, or frames.
Longest ==
    [segmentation |-> 9, leg |-> 5, arms |-> 5, features |-> 5, feet |-> 7, tracker |-> 4]

Pieces(rows) ==
    CASE subject = "segmentation" -> Segments(rows)
      [] subject = "leg" -> LegRows(rows)
      [] subject = "arms" -> ArmRows(rows)
      [] subject = "features" -> FeatureRows(rows)
      [] subject = "feet" -> FootRows(rows)
      [] subject = "tracker" -> VideoFrames(rows)

Init ==
    /\ \/ subject = "alignment" /\ input \in Joins
       \/ subject = "sync" /\ input \in Solvable
       \/ subject = "publishers" /\ input \in Products
       \/ subject = "assembly" /\ input \in Proposed
       \/ subject = "segmentation" /\ input = <<Row(0, {}, {}, "none")>>
       \/ subject = "feet" /\ input = OnTheFloor
       \/ subject \in {"leg", "arms", "features", "tracker"} /\ input = <<>>
    /\ Legal

Next ==
    /\ \/ subject = "alignment" /\ input' \in MoreFrames(input)
       \/ subject = "sync" /\ input' \in MoreRevisions(input)
       \/ subject = "publishers" /\ input' \in HandedOn(input)
       \/ subject = "assembly" /\ input' \in MoreProposals(input)
       \/ /\ subject \in DOMAIN Longest
          /\ \E piece \in Pieces(input) :
                /\ Len(input \o piece) <= Longest[subject]
                /\ input' = input \o piece
    /\ UNCHANGED subject
    /\ Legal'

Spec == Init /\ [][Next]_vars

=============================================================================
