SPECIFICATION RaceOrHistory
CONSTANTS
    Editor = {e1, e2}
    Automatic = {a1, a2}
    Frame = {f1, f2}
    Given = {f2}
    NoBase = NoBase
    NoOne = NoOne
    NoOperation = NoOperation
    NoAsk = NoAsk
    NoEdits = NoEdits
    MaxRevision = 5
    MaxFaults = 1
SYMMETRY Interchangeable
INVARIANTS
    HistoryIsReadable
    AcceptedIsRecorded
    OneBase
    HistoryIsFaithful
PROPERTIES
    ImplementsHistory
