----------------------------- MODULE Algorithms -----------------------------
(***************************************************************************)
(* The pure stages, each with the inputs that the code accepts and what it *)
(* promises of its result: the frames of a camera on the common clock, the *)
(* clock of several sources, the tracker of a video, the automata of a     *)
(* foot, the physical events of a track, the steps of an execution, the    *)
(* actions of arms and legs, the hierarchy of all of them, and the         *)
(* artifacts that they are published in.  The subject is the stage that is *)
(* asked about, and input what it is given.                                *)
(***************************************************************************)
EXTENDS Integers, Sequences, FiniteSets

CONSTANTS
    None,
    Moments, Channels,          \* of the common clock; of a camera's frames
    Recordings,                 \* the sources, each with the interval of its native time
    CueStep, Reach,             \* of the cues; of the offsets
    Turn,                       \* of a foot, in units of its direction
    Evidence,                   \* native samples that a row may rest on
    Tracker, Floor, Feature, Execution, Gesture, Leg,    \* configurations
    Performed,                  \* the interval of the execution that arms are asked for
    ArmEvents,                  \* of the arms that are asked for
    FootTurns,                  \* of the foot whose events are asked for, as <<first, last>>
    LegTurns,                   \* of the leg that is asked for
    Tracks, LastSample,         \* of the proposals: what they are about, and when
    Provision                   \* calibration files: their id, source and synchronization

VARIABLES subject, input

Clock == INSTANCE Alignment
Sync == INSTANCE SyncSolver WITH Step <- CueStep
T == INSTANCE PoseTracker
F == INSTANCE Feet
E == INSTANCE Features
G == INSTANCE Segmentation
A == INSTANCE Assembly
Pub == INSTANCE Publishers
Upper == INSTANCE Arms
Lower == INSTANCE LowerBody

-----------------------------------------------------------------------------
(* Alignment.                                                              *)

Evens == {n \in Int : n % 2 = 0}

\* A camera's native frames and what synchronization says of its source.
Filmed(join) ==
    /\ IsFiniteSet(join.frames) /\ Clock!Joinable(join.frames)
    /\ \A f \in join.frames : f.at \in Evens
    /\ join.offset.shift \in Evens /\ join.offset.from \in Evens /\ join.offset.to \in Evens

\* Published coverage is where queries find points (sync/alignment.py).
CoversWhatItFinds ==
    subject = "alignment" => Clock!CoversWhatItFinds(input, Moments, Channels)

-----------------------------------------------------------------------------
(* SyncSolver.                                                             *)

Cues == [score : Int, shift : Int, separation : Int]

Pairings ==
    [cues : [{p \in (DOMAIN Recordings) \X (DOMAIN Recordings) : p[1] < p[2]} -> SUBSET Cues],
     reference : (DOMAIN Recordings) \cup {None},
     revisions : [DOMAIN Recordings -> Int \cup {None}]]

\* Estimates and revisions make one clock (sync/solver.py).
OneTimeline ==
    subject = "sync" => Sync!OneTimeline(Recordings, input.cues, input.reference, input.revisions)

-----------------------------------------------------------------------------
(* PoseTracker.                                                            *)

People ==
    [place : Int, size : Nat, wrist : [T!Sides -> Int], score : [T!Sides -> Int],
     shown : SUBSET T!Sides, doubtful : BOOLEAN]
Frames == [t : Int, people : Seq(People), operator : Int \cup {None}]
Videos == Seq(Frames)

\* TrackingConfig.__post_init__: a score from 0 to 1, in tenths, all else positive.
TrackingConfigs ==
    [score : 0..10, ratio : Nat \ {0}, cost : Nat \ {0}, margin : Nat \ {0}, gap : Nat \ {0}]

\* The sides and the person are kept through gaps (pose/stream.py).
SidesNeverCross == subject = "tracker" => T!SidesNeverCross(input, Tracker)

-----------------------------------------------------------------------------
(* Rows in the order of their times (Reconstruction.ordered_samples).      *)

InOrder(rows) == \A i \in 2..Len(rows) : rows[i - 1].t < rows[i].t

-----------------------------------------------------------------------------
(* Feet.                                                                   *)

Samples ==
    [t : Int, height : [F!Parts -> Int \cup {None}], yaw : Int, axis : BOOLEAN, blur : Nat,
     source : Evidence, other : BOOLEAN]

Motions == {rows \in Seq(Samples) : InOrder(rows)}

\* Thresholds to leave a state exceed those to enter it (ContactConfig.
\* hysteresis_order, FootprintConfig.hysteresis, PivotConfig.hysteresis).
FootConfigs ==
    {config \in [gap : Int, enter : Int, leave : Int, enterSpeed : Int, leaveSpeed : Int,
                 contact : Int, air : Int, enterAngle : Nat, leaveAngle : Int, still : Nat \ {0},
                 enterTurn : Int, leaveTurn : Int, quiet : Int, excursion : Int] :
        /\ config.enter <= config.leave /\ config.enterSpeed <= config.leaveSpeed
        /\ config.enterAngle <= config.leaveAngle /\ config.leaveTurn <= config.enterTurn}

\* Contacts, placements and pivots rest on native samples (ground, footprints,
\* pivots).
FeetRestOnEvidence == subject = "feet" => F!FeetRestOnEvidence(input, Floor)

-----------------------------------------------------------------------------
(* Features.                                                               *)

Measurements ==
    {rows \in Seq([t : Int, place : (Int \X Int) \cup {None}, speed : Int \cup {None},
                   extension : Int \cup {None}, firm : BOOLEAN,
                   crossing : {"not_crossed", "ambiguous", "crossed", "unknown"},
                   contact : {"contact", "no_contact", "unknown"}]) : InOrder(rows)}

\* FeatureConfig.hysteresis.
FeatureConfigs ==
    {config \in [gap : Int, duration : Int, enter : Int, leave : Int, excursion : Int,
                 prominence : Int, refractory : Int] : config.leave < config.enter}

TurnsOf(rows) == {p \in FootTurns : p[2] <= Len(rows)}

\* An event has its evidence around it (reconstruction/features/core.py).
EventsAreEarned ==
    subject = "features" => E!EventsAreEarned(input, TurnsOf(input), Feature)

-----------------------------------------------------------------------------
(* Segmentation.                                                           *)

Activities ==
    {rows \in Seq([t : Int, moving : SUBSET (G!Limbs \cup {"head"}), unknown : SUBSET G!Limbs,
                   event : {"none", "lift", "place"}]) : InOrder(rows)}

\* SegmentationConfig: durations are positive, shares at most 1.
SegmentConfigs ==
    [activity : Nat \ {0}, edge : Nat \ {0}, hold : Nat \ {0}, step : Nat \ {0}, gap : Nat \ {0},
     unknown : Nat, coverage : 1..100, tracks : 1..5]

\* A coarse step cuts no movement (reconstruction/segmentation/core.py).
StepsAreWhole == subject = "segmentation" => G!StepsAreWhole(input, Execution)

-----------------------------------------------------------------------------
(* Arms.                                                                   *)

Gestures ==
    {rows \in Seq([t : Int, state : [Upper!Arm -> {"moves", "quiet", "unknown"}],
                   reach : [Upper!Arm -> Int \cup {None}],
                   extension : [Upper!Arm -> Int \cup {None}]]) : InOrder(rows)}

\* ArmConfig, and of FeatureConfig what finds a retraction.
GestureConfigs ==
    [gap : Nat \ {0}, activity : Nat \ {0}, quiet : Nat \ {0}, overlap : 1..100, mirror : Nat,
     center : Nat, excursion : Nat, prominence : Nat, lasting : Nat]

ArmEventsOf(rows) == {e \in ArmEvents : e.last <= Len(rows)}

\* An arm is in one action at a time (reconstruction/arms/core.py).
ArmsAreTheirOwn ==
    subject = "arms" => Upper!ArmsAreTheirOwn(input, Performed, ArmEventsOf(input), Gesture)

-----------------------------------------------------------------------------
(* LowerBody.                                                              *)

LegMotions ==
    {rows \in Seq([t : Int, contact : {"contact", "no_contact", "unknown"},
                   extension : Int \cup {None}, place : Int \cup {None}, moving : BOOLEAN]) :
        InOrder(rows)}

\* LowerBodyConfig.
LegConfigs ==
    [gap : Nat \ {0}, phase : Nat \ {0}, stance : Nat \ {0}, chamber : Nat, excursion : Nat]

\* A foot that turns is supported (pivots/core.py).
LegTurnsOf(rows) ==
    {p \in LegTurns : /\ p.to <= Len(rows)
                      /\ \A i \in p.from..p.to : rows[i].contact # "no_contact"}

\* No movement of a leg goes unsaid (reconstruction/lower_body/core.py).
LegIsExplained == subject = "leg" => Lower!LegIsExplained(input, Leg, LegTurnsOf(input))

-----------------------------------------------------------------------------
(* Assembly.                                                               *)

Stretches == {s \in (0..LastSample) \X (0..LastSample) : s[1] < s[2]}

\* A proposal has a span on each of its tracks and its phases on these spans
\* (ArmProposal, LowerBodyAction).
OnItsTracks(x) ==
    /\ DOMAIN x.span \in (SUBSET Tracks) \ {{}}
    /\ x.span \in [DOMAIN x.span -> Stretches]
    /\ \A p \in x.phases : /\ p.track \in DOMAIN x.span
                           /\ A!Extent(p) \in Stretches
                           /\ A!Inside(A!Extent(p), x.span[p.track])

\* What an action recovers from is over when it begins (LowerBodyResult.links).
FollowsIfLinked(x, y) ==
    y.id \in x.previous =>
        A!Interval(y)[2] <= A!Interval(x)[1] /\ DOMAIN x.span \cap DOMAIN y.span # {}

\* What segmentation, arms and legs publish of one execution.
Parsed(p) ==
    /\ p.cuts \in Seq(0..LastSample) /\ Len(p.cuts) >= 2
    /\ \A n \in 2..Len(p.cuts) : p.cuts[n - 1] < p.cuts[n]
    /\ \A x \in p.arms \cup p.legs : OnItsTracks(x)
    /\ \A x, y \in p.arms \cup p.legs : (x.id = y.id => x = y) /\ FollowsIfLinked(x, y)
    /\ p.arms \cap p.legs = {}
    /\ \A x \in p.arms : A!Inside(A!Interval(x), <<p.cuts[1], p.cuts[Len(p.cuts)]>>)
    /\ IsFiniteSet(p.legs)
    /\ p.stances \subseteq Stretches
    /\ p.events \subseteq [track : Tracks, at : 0..LastSample]

\* The hierarchy covers what was proposed (reconstruction/semantics/core.py).
HierarchyHasNoHoles ==
    subject = "assembly" =>
        A!HierarchyHasNoHoles(input.cuts, input.arms, input.legs, input.stances, input.events)

-----------------------------------------------------------------------------
(* Publishers.                                                             *)

\* A product has one past and can be exported with it (artifact.py modules).
OnePast == subject = "publishers" => Pub!OnePast(input) /\ Pub!ExportsWhole(input)

-----------------------------------------------------------------------------
\* A Turn has two halves, and None is neither a number nor a person.
ASSUME InputAssumption ==
    /\ Recordings \in Seq([start : Int, end : Int])
    /\ CueStep \in Nat \ {0} /\ Reach \in Nat
    /\ Turn \in Nat \ {0} /\ Turn % 2 = 0
    /\ None \notin Int /\ None \notin People /\ None \notin Int \X Int
    /\ Tracker \in TrackingConfigs /\ Floor \in FootConfigs /\ Feature \in FeatureConfigs
    /\ Execution \in SegmentConfigs
    /\ Gesture \in GestureConfigs /\ Performed \in Int \X Int
    /\ ArmEvents \subseteq
            {e \in [arm : Upper!Arm, first : Nat \ {0}, last : Nat] : e.first <= e.last}
    /\ FootTurns \subseteq {p \in (Nat \ {0}) \X Nat : p[1] <= p[2]}
    /\ Leg \in LegConfigs
    /\ LegTurns \subseteq {p \in [from : Nat \ {0}, to : Nat, turned : BOOLEAN] : p.from < p.to}
    /\ \A p, q \in LegTurns : p.from = q.from /\ p.to = q.to => p = q
    /\ LastSample \in Nat
    /\ Moments \subseteq Int
    /\ \A m, n \in DOMAIN Provision :   \* an id is a digest of the evidence
        Provision[m].id = Provision[n].id => Provision[m].sync = Provision[n].sync

Legal ==
    /\ subject = "alignment" => Filmed(input)
    /\ subject = "sync" => input \in Pairings
    /\ subject = "tracker" => input \in Videos
    /\ subject = "feet" => input \in Motions
    /\ subject = "features" => input \in Measurements
    /\ subject = "segmentation" => input \in Activities
    /\ subject = "arms" => input \in Gestures
    /\ subject = "leg" => input \in LegMotions
    /\ subject = "assembly" => Parsed(input)
    /\ subject = "publishers" => Pub!Published(input)

=============================================================================
