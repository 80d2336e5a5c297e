SPECIFICATION Spec
CONSTANTS
    Keys = {1}
    SyncEvery = 2
    CompactThreshold = 2
    WindowSize = 1
    TornWrites = FALSE
    MaxTxns = 2
    MaxFreezes = 2
    MaxStops = 1
    MaxCutoff = 2
INVARIANTS
    ExpiredStayDead
CHECK_DEADLOCK FALSE
