SPECIFICATION FairSpec
CONSTANTS
    Clients = {c1, c2}
    c1 = c1
    c2 = c2
    Keys = {0}
    WindowSize = 2
    FlushThreshold = 1
    MaxMemory = 3
    CompactThreshold = 2
    QueueCap = 2
    MaxBatch = 2
    MaxSeq = 2
    Calls = {"txn", "flush"}
INVARIANTS
    TypeOK
    StorageInv
    FilesKept
    FlushInv
    TxnInv
PROPERTIES
    CallsReturn
    FreezesFlushed
CHECK_DEADLOCK FALSE
