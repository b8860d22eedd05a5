SPECIFICATION Spec
CONSTANTS
    Project = {p1, p2}
    Job = {j1, j2, j3}
    Worker = {w1, w2}
    Capacity = 1
    Stages = 1
    CliRuns = 0
    MaxCrashes = 1
    None = None
SYMMETRY Symmetry
INVARIANTS
    QueueMatchesRecords
    CancelledOnlyIfAsked
PROPERTIES
    TerminalIsFinal
    StopSettlesJobs
    StopsAfterCancel
