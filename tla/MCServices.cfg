SPECIFICATION SpecByMachine
CONSTANTS
    Client = {c1, c2}
    Offset = {0, 1}
    Estimate = 0
    None = None
    MaxChanges = 1
    MaxEdits = 2
    MaxDeaths = 1
    Sources = {0, 1}
    Provision <- Provisioned
    Revisions = 2
    Losses = 1
    Process = {p1, p2}
    Windows <- TwoViews
    Frames = 2
    MaxRuns = 3
    Streams = 1
    Decoders = 1
    Keep = 1
    Overwrites = 2
    MaxRequests = 3
    Pinned = 1
    Versions = {0, 1, 2}
    Size = 2
    Retries = 2
    MaxCalls = 4
    MaxBreaks = 3
SYMMETRY Interchangeable
CHECK_DEADLOCK FALSE
INVARIANTS
    NeverRelabelled
    RecordIsTrue
    ReceiptIsTrue
    KeptIsOfItsSource
    PermitsAreAccountedFor
    ArchiveIsOneVersion
PROPERTIES
    AnswersAreCurrent
    EditsStayVisible
