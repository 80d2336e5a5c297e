SPECIFICATION Spec
CONSTANTS
    Clients = {c1, c2}
    c1 = c1
    c2 = c2
    Keys = {0, 1}
    WindowSize = 2
    FlushThreshold = 2
    MaxMemory = 3
    CompactThreshold = 1
    QueueCap = 1
    MaxBatch = 2
    MaxSeq = 3
    Calls = {"write", "batch", "txn"}
SYMMETRY ClientSymmetry
PROPERTY ImplementsStore
CHECK_DEADLOCK FALSE
