SPECIFICATION Spec
CONSTANTS
    Keys = {1, 2}
    SyncEvery = 2
    CompactThreshold = 2
    WindowSize = 1
    TornWrites = TRUE
    MaxTxns = 4
    MaxFreezes = 3
    MaxStops = 1
    MaxCutoff = 0
INVARIANTS
    DirectoryInv
PROPERTY ImplementsLog
CHECK_DEADLOCK FALSE
