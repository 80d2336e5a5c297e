SPECIFICATION ReadsSpec
CONSTANTS
    Tags = {1, 2}
    Times = {1, 2}
    Memtables = {1}
    Ssts = {2}
    MaxWrites = 3
    MaxFilters = 2
    ChunkRows = 2
    BatchRows = 2
    Limits = {2}
    TagLimit = 4
    FrameLimit = 14
    GroupRows = 2
    BloomBits = 8
    BloomHashes = 2
    Cells <- Bytes
    Schemas <- Tables
    Stamps = {0, 1}
    Seeds = {1}
    BatchSizes = {1, 2}
    MaxOps = 3
    MaxBatch = 2
    Readers = {r1, r2, r3}
    r1 = r1
    r2 = r2
    r3 = r3
    Groups = {g1, g2, g3}
    g1 = g1
    g2 = g2
    g3 = g3
    NoGroup = NoGroup
    Cap = 2
INVARIANTS
    RangeKeeps
    OnlyLiveRows
    NothingMissed
    OneRowPerKeyInOrder
    LogReplays
    GetsWhatWasWritten
    ScanFindsRange
    ProjectionKeepsRows
    ShortcutAgrees
    CacheInStep
CHECK_DEADLOCK FALSE
