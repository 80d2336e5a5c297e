SPECIFICATION FairSpec
CONSTANTS
    Keys = {1}
    SyncEvery = 2
    CompactThreshold = 2
    WindowSize = 1
    TornWrites = TRUE
    MaxTxns = 3
    MaxFreezes = 2
    MaxStops = 2
    MaxCutoff = 2
INVARIANTS
    TypeOK
    ManifestNamesFiles
    CountersAhead
PROPERTY LogsReclaimed
CHECK_DEADLOCK FALSE
