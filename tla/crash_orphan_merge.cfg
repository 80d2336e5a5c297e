SPECIFICATION Spec
CONSTANTS
    Keys = {1}
    SyncEvery = 2
    CompactThreshold = 2
    WindowSize = 1
    TornWrites = FALSE
    MaxTxns = 2
    MaxFreezes = 1
    MaxStops = 2
    MaxCutoff = 0
INVARIANTS
    SyncedSurvives
CHECK_DEADLOCK FALSE
