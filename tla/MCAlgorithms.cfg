SPECIFICATION Spec
CONSTANTS
    None = None
    Moments <- TheMoments
    Channels = {"landmarks", "own"}
    Turn = 8
    Evidence <- Sources
    Recordings <- ThreeRecordings
    CueStep = 1
    Reach = 6
    Tracker <- TheTracker
    Execution <- TheExecution
    Gesture <- TheGesture
    Performed <- ThePerformed
    ArmEvents <- TheArmEvents
    Floor <- TheFloor
    Feature <- TheFeature
    FootTurns <- TheFootTurns
    Leg <- TheLeg
    LegTurns <- TheLegTurns
    Tracks = {"arm", "left", "right"}
    LastSample = 5
    Provision <- ThreeFiles
CHECK_DEADLOCK FALSE
INVARIANTS
    CoversWhatItFinds
    OneTimeline
    OnePast
    StepsAreWhole
    LegIsExplained
    ArmsAreTheirOwn
    EventsAreEarned
    FeetRestOnEvidence
    SidesNeverCross
    HierarchyHasNoHoles
