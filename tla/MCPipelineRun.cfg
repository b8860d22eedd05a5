SPECIFICATION Spec
CONSTANTS
    Runner = {r1}
    Prober = {p1}
    Stage <- ChainStage
    Order <- ChainOrder
    Dependencies <- ChainDependencies
    Sync = "sync"
    Timed = {"sync", "attachment"}
    Publishers = {"attachment"}
    Settings = {}
    MaxChanges = 1
    MaxCrashes = 1
    MaxWriters = 1
    None = None
INVARIANTS
    TypeOK
    PublishedBeforeUse
    RunningIsAccountedFor
PROPERTIES
    AnsweredCompleteIsReady
