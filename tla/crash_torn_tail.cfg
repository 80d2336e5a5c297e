SPECIFICATION Spec
CONSTANTS
    Keys = {1}
    SyncEvery = 1
    CompactThreshold = 2
    WindowSize = 1
    TornWrites = TRUE
    MaxTxns = 3
    MaxFreezes = 0
    MaxStops = 2
    MaxCutoff = 0
INVARIANTS
    SyncedSurvives
CHECK_DEADLOCK FALSE
