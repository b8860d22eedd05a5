SPECIFICATION Spec
CONSTANTS
    Caller = {c1, c2}
    Key = {k1}
    Value = {v1, v2}
    NoOne = NoOne
    NoArtifact = NoArtifact
    NoReply = NoReply
    MaxCrashes = 1
INVARIANTS
    SoleProducer
    NothingLeftBehind
PROPERTIES
    ImplementsWriteOnce
    WaitEnds
