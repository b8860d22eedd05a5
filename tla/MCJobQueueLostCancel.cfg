SPECIFICATION Spec
CONSTANTS
    Project = {p1}
    Job = {j1, j2}
    Worker = {w1}
    Capacity = 1
    Stages = 1
    CliRuns = 1
    MaxCrashes = 0
    None = None
PROPERTIES
    StopsAfterCancel
