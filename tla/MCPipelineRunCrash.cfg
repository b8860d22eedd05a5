SPECIFICATION Spec
CONSTANTS
    Runner = {r1}
    Prober = {p1}
    Stage <- PairStage
    Order <- PairOrder
    Dependencies <- PairDependencies
    Sync = "sync"
    Timed = {"sync"}
    Publishers = {}
    Settings <- PairSettings
    MaxChanges = 0
    MaxCrashes = 1
    MaxWriters = 1
    None = None
PROPERTIES
    InterruptedMeansUnpublished
