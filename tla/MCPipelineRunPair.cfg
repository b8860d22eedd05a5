SPECIFICATION Spec
CONSTANTS
    Runner = {r1}
    Prober = {}
    Stage <- PairStage
    Order <- PairOrder
    Dependencies <- PairDependencies
    Sync = "sync"
    Timed = {"sync"}
    Publishers = {}
    Settings <- PairSettings
    MaxChanges = 1
    MaxCrashes = 0
    MaxWriters = 1
    None = None
PROPERTIES
    NoRevisionLost
    RunsEnd
