SPECIFICATION Spec
CONSTANTS
    Clients = {c1, c2}
    c1 = c1
    c2 = c2
    Keys = {0, 1}
    WindowSize = 2
    FlushThreshold = 1
    MaxMemory = 3
    CompactThreshold = 2
    QueueCap = 1
    MaxBatch = 2
    MaxSeq = 3
    Calls = {"write", "get"}
SYMMETRY ClientSymmetry
INVARIANT ReadsNeverFail
CHECK_DEADLOCK FALSE
