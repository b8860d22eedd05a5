----------------------------- MODULE Publishers -----------------------------
(***************************************************************************)
(* The publishers of the offline stages: sync/alignment.py and the         *)
(* artifact.py modules of reconstruction/.  Each checks that the artifacts *)
(* it is handed belong together, takes its key from the hashes of their    *)
(* manifests, and is asked the store for that key.                         *)
(*                                                                         *)
(* An artifact is who published it, what it was made of and the settings;  *)
(* since keys are hashes of exactly this, equal artifacts are equal keys,  *)
(* and an id with a key's digest in it is the artifact itself.  The id of  *)
(* a calibration is the exception: it is the id of the calibration that    *)
(* was provisioned, whatever run published it again.  What a publisher     *)
(* computes from its inputs is left out.                                   *)
(*                                                                         *)
(* A publisher is the set of what it may return: empty when it refuses.    *)
(***************************************************************************)
EXTENDS Naturals

CONSTANTS
    None,           \* no synchronization that a calibration is bound to
    Provision       \* calibration files: their id, source and synchronization

\* The artifact, if the publisher's checks hold.
Checked(holds, artifact) == IF holds THEN {artifact} ELSE {}

Made(by, of, config) == [by |-> by, of |-> of, config |-> config]

\* The input of a that was published by the given publisher.
Input(a, by) == CHOOSE x \in a.of : x.by = by

\* Artifacts with what they were made from.
Back(s) == s \cup UNION {x.of : x \in s}

\* An artifact with everything it was made from: sixteen steps back are more
\* than there are between semantics and the bytes of a recording.
Above(a) ==
    LET four(s) == Back(Back(Back(Back(s))))
    IN  four(four(four(four({a}))))

-----------------------------------------------------------------------------
(* The references in the metadata.                                         *)

\* An inline stage's artifact is made of what its producer read and of the
\* runner's key, which is the id of a synchronization.
SyncId(sync) == Input(sync, "sync key")

\* A calibration is made of the file that provisions it; the file may have
\* been derived under a synchronization, by its id (evidence_links).
CalibrationId(c) == Provision[Input(c, "file").config].id
Links(c) == Provision[Input(c, "file").config].sync

\* Ground.reconstruction_id and scale: copied from one ground product to the
\* next one.
Copied == [footprints |-> "contacts", pivots |-> "footprints", view |-> "pivots"]

Earlier(ground) == IF ground.by = "contacts" THEN ground ELSE Input(ground, Copied[ground.by])

MotionOf(ground) == Input(Earlier(Earlier(Earlier(ground))), "motion")

IsGround(a) == a.by = "contacts" \/ a.by \in DOMAIN Copied

\* Reconstruction.calibration_id: pose and motion are deep copies of the raw one.
CalibrationOf(motion) ==
    LET raw == IF motion.by = "raw" THEN motion ELSE Input(motion, "raw")
    IN CalibrationId(Input(raw, "calibration"))

\* MotionFeatures.reconstruction_id and ground_id, which the segmentation,
\* the arm actions and the lower body name as well.
Lineage(features) ==
    [motion |-> Input(features, "motion"),
     ground |-> CHOOSE g \in features.of : IsGround(g)]

FeaturesOf(a) == Input(a, "features")
SegmentationOf(a) == Input(a, "segmentation")

LineageOf(a) ==
    CASE a.by = "features" -> Lineage(a)
      [] a.by = "segmentation" -> Lineage(FeaturesOf(a))
      [] a.by = "arms" -> [motion |-> Input(a, "motion"),
                           ground |-> Lineage(FeaturesOf(a)).ground]
      [] a.by = "legs" -> [motion |-> Lineage(FeaturesOf(a)).motion,
                           ground |-> CHOOSE g \in a.of : IsGround(g)]
      [] a.by = "semantics" -> Lineage(FeaturesOf(a))

-----------------------------------------------------------------------------
(* The publishers.                                                         *)

\* Every window's sources must be sources of the synchronization.
PublishAlignment(windows, sync) ==
    Checked(Input(windows, "source") = Input(sync, "source"),
            Made("alignment", {windows, sync}, 0))

\* Mutant: a calibration is triangulated with whatever clock it is handed.
AnySynchronization(calibration, alignment) == TRUE

SameSynchronization(calibration, alignment) ==
    Links(calibration) # None => Links(calibration) = SyncId(Input(alignment, "sync"))

PublishTriangulation(calibration, alignment) ==
    Checked(SameSynchronization(calibration, alignment),
            Made("raw", {calibration, alignment}, 0))

PublishMorphology(raw, fit) == {Made("morphology", {raw}, fit)}

PublishPose(raw, morphology, fit) == {Made("pose", {raw, morphology}, fit)}

\* publish_temporal_motion publishes the fit that it needs.
PublishMotion(raw, fit) ==
    {Made("motion", {pose} \cup pose.of, 0) :
        pose \in UNION {PublishPose(raw, m, fit) : m \in PublishMorphology(raw, fit)}}

\* morphology: none or one.
PublishContacts(motion, calibration, morphology) ==
    Checked(CalibrationOf(motion) = CalibrationId(calibration),
            Made("contacts", {motion, calibration} \cup morphology, 0))

\* Manifest hashes must agree here: ids alone are not enough.
PublishFootprints(motion, contacts, calibration, morphology) ==
    Checked({motion, calibration} \subseteq contacts.of,
            Made("footprints", {motion, contacts, calibration} \cup morphology, 0))

PublishPivots(placements) == {Made("pivots", {placements}, 0)}

PublishGroundView(motion, calibration, pivots) ==
    Checked({motion, calibration} \subseteq Input(pivots, "footprints").of,
            Made("view", {motion, calibration, pivots}, 0))

PublishFeatures(motion, ground) ==
    Checked(MotionOf(ground) = motion, Made("features", {motion, ground}, 0))

PublishSegmentation(features, config) == {Made("segmentation", {features}, config)}

PublishArms(features, segmentation, motion) ==
    Checked(motion = Lineage(features).motion /\ FeaturesOf(segmentation) = features,
            Made("arms", {features, segmentation, motion}, 0))

PublishLegs(features, ground, segmentation) ==
    Checked(ground = Lineage(features).ground /\ FeaturesOf(segmentation) = features,
            Made("legs", {features, ground, segmentation}, 0))

Exact(features, segmentation, arms, legs) ==
    /\ \A a \in {segmentation, arms, legs} :
        LineageOf(a) = Lineage(features) /\ FeaturesOf(a) = features
    /\ SegmentationOf(arms) = segmentation
    /\ SegmentationOf(legs) = segmentation

PublishSemantics(features, segmentation, arms, legs, config) ==
    Checked(Exact(features, segmentation, arms, legs),
            Made("semantics", {features, segmentation, arms, legs}, config))

-----------------------------------------------------------------------------
(* What there may be in the store: what came from outside, and what the    *)
(* publishers return from artifacts that may be there.                     *)

Given(a, by) == a = Made(by, {}, a.config)

IsWindows(a) == \E s \in a.of : Given(s, "source") /\ a = Made("windows", {s}, a.config)

IsSync(a) ==
    \E s, k \in a.of :
        Given(s, "source") /\ Given(k, "sync key") /\ a = Made("sync", {s, k}, a.config)

IsCalibration(a) ==
    \E f \in a.of :
        /\ Given(f, "file") /\ f.config \in DOMAIN Provision
        /\ a = Made("calibration", {f}, a.config)

IsAlignment(a) ==
    \E w, s \in a.of : IsWindows(w) /\ IsSync(s) /\ a \in PublishAlignment(w, s)

IsRaw(a) ==
    \E c, x \in a.of : IsCalibration(c) /\ IsAlignment(x) /\ a \in PublishTriangulation(c, x)

IsMorphology(a) == \E raw \in a.of : IsRaw(raw) /\ a \in PublishMorphology(raw, a.config)

IsPose(a) ==
    \E raw, m \in a.of :
        /\ IsRaw(raw) /\ m \in PublishMorphology(raw, a.config)
        /\ a \in PublishPose(raw, m, a.config)

IsMotion(a) ==
    \E raw, pose \in a.of : IsRaw(raw) /\ a \in PublishMotion(raw, pose.config)

\* Ground is handed the body that the motion was fitted with, or none.
Bodies(motion) == {{}, {Input(motion, "morphology")}}

IsContacts(a) ==
    \E m, c \in a.of :
        /\ IsMotion(m) /\ IsCalibration(c)
        /\ \E body \in Bodies(m) : a \in PublishContacts(m, c, body)

IsFootprints(a) ==
    \E m, g, c \in a.of :
        /\ IsMotion(m) /\ IsContacts(g) /\ IsCalibration(c)
        /\ \E body \in Bodies(m) : a \in PublishFootprints(m, g, c, body)

IsPivots(a) == \E g \in a.of : IsFootprints(g) /\ a \in PublishPivots(g)

IsView(a) ==
    \E m, c, g \in a.of :
        IsMotion(m) /\ IsCalibration(c) /\ IsPivots(g) /\ a \in PublishGroundView(m, c, g)

IsFloor(a) == IsContacts(a) \/ IsFootprints(a) \/ IsPivots(a) \/ IsView(a)

IsFeatures(a) ==
    \E m, g \in a.of :
        IsMotion(m) /\ IsFloor(g) /\ a \in PublishFeatures(m, g)

IsSegmentation(a) == \E f \in a.of : IsFeatures(f) /\ a \in PublishSegmentation(f, a.config)

IsArms(a) ==
    \E f, s, m \in a.of :
        IsFeatures(f) /\ IsSegmentation(s) /\ IsMotion(m) /\ a \in PublishArms(f, s, m)

IsLegs(a) ==
    \E f, g, s \in a.of :
        IsFeatures(f) /\ IsFloor(g) /\ IsSegmentation(s) /\ a \in PublishLegs(f, g, s)

IsSemantics(a) ==
    \E f, s, x, y \in a.of :
        /\ IsFeatures(f) /\ IsSegmentation(s) /\ IsArms(x) /\ IsLegs(y)
        /\ a \in PublishSemantics(f, s, x, y, a.config)

Published(a) ==
    \/ IsAlignment(a) \/ IsRaw(a) \/ IsMorphology(a) \/ IsPose(a) \/ IsMotion(a)
    \/ IsFloor(a) \/ IsFeatures(a) \/ IsSegmentation(a) \/ IsArms(a) \/ IsLegs(a) \/ IsSemantics(a)

-----------------------------------------------------------------------------
(* contracts.validate_bundle: what a reader of the exported metadata checks *)
(* of the references in it.  The project, its participants, frames, scales *)
(* and arrays are left out; a reference is an id, and it must be found in   *)
(* the bundle.                                                             *)

Reconstructions == {"raw", "pose", "motion"}
Parsed == {"features", "segmentation", "arms", "legs", "semantics"}

UniqueIds(bundle) ==
    \A c, d \in {x \in bundle : x.by = "calibration"} :
        CalibrationId(c) = CalibrationId(d) => c = d

HasCalibration(bundle, motion) ==
    \E c \in bundle : c.by = "calibration" /\ CalibrationId(c) = CalibrationOf(motion)

\* The branches of an alignment, a reconstruction and a ground.
ValidGeometry(bundle, a) ==
    /\ a.by = "alignment" => Input(a, "sync") \in bundle
    /\ a.by \in Reconstructions => HasCalibration(bundle, a)
    /\ IsGround(a) => MotionOf(a) \in bundle /\ HasCalibration(bundle, MotionOf(a))

\* The branch of the semantic family.
ValidLineage(bundle, a) ==
    LET past == LineageOf(a) IN
    /\ {past.motion, past.ground} \subseteq bundle
    /\ MotionOf(past.ground) = past.motion
    /\ a.by = "semantics" => \A s \in a.of :
        /\ LineageOf(s) = past
        /\ s.by # "features" => FeaturesOf(s) = FeaturesOf(a)
        /\ s.by \in {"arms", "legs"} => SegmentationOf(s) = SegmentationOf(a)
    /\ a.by \in {"segmentation", "arms", "legs"} => Lineage(FeaturesOf(a)) = past
    /\ a.by \in {"arms", "legs"} =>
        /\ FeaturesOf(SegmentationOf(a)) = FeaturesOf(a)
        /\ LineageOf(SegmentationOf(a)).ground = past.ground
        /\ a.by = "arms" => LineageOf(SegmentationOf(a)).motion = past.motion

ValidBundle(bundle) ==
    /\ UniqueIds(bundle)
    /\ \A a \in bundle : 
        /\ ValidGeometry(bundle, a)
        /\ a.by \in Parsed => ValidLineage(bundle, a)

-----------------------------------------------------------------------------
(* Properties.                                                             *)

Clocks(a) == {Input(x, "sync") : x \in {y \in Above(a) : y.by = "alignment"}}

AtMostOne(s) == \A x, y \in s : x = y

\* Whatever the publishers were handed, a product has one past: one clock,
\* one motion, one set of features, one segmentation and one calibration, and
\* a calibration that was derived under a synchronization meets no other.
OnePast(a) ==
    /\ AtMostOne(Clocks(a))
    /\ \A by \in {"motion", "features", "segmentation"} :
        AtMostOne({x \in Above(a) : x.by = by})
    /\ LET used == {x \in Above(a) : x.by = "calibration"} IN
        /\ AtMostOne({CalibrationId(c) : c \in used})
        /\ \A c \in used : 
            Links(c) = None \/ \A sync \in Clocks(a) : SyncId(sync) = Links(c)

\* A product and all it was made from are a bundle that validate_bundle takes
\* (storage/README.md), unless two runs' copies of one calibration are in it.
ExportsWhole(a) == UniqueIds(Above(a)) => ValidBundle(Above(a))

=============================================================================
