SPECIFICATION Spec
CONSTANTS
    Clients = {c1, c2}
    c1 = c1
    c2 = c2
    Keys = {0, 1, 2}
    WindowSize = 2
    FlushThreshold = 1
    MaxMemory = 3
    CompactThreshold = 2
    QueueCap = 1
    MaxBatch = 2
    MaxSeq = 2
    Calls = {"write", "batch", "get", "flush", "compact", "scan"}
SYMMETRY ClientSymmetry
INVARIANTS
    ReadInv
    ScanKeepsUp
    FilesLive
    GetNeverMisses
    NewestPresent
    FrozenIsFinal
    FlushPending
    FlushReturnsFlushed
