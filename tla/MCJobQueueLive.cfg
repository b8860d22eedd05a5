SPECIFICATION Spec
CONSTANTS
    Project = {p1, p2}
    Job = {j1, j2}
    Worker = {w1, w2}
    Capacity = 1
    Stages = 1
    CliRuns = 1
    MaxCrashes = 0
    None = None
INVARIANTS
    AnalysesSerialize
PROPERTIES
    JobsSettle
