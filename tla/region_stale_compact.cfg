SPECIFICATION Spec
CONSTANTS
    Clients = {c1}
    c1 = c1
    Keys = {0, 2, 3}
    WindowSize = 2
    FlushThreshold = 9
    MaxMemory = 9
    CompactThreshold = 2
    QueueCap = 1
    MaxBatch = 2
    MaxSeq = 5
    Calls = {"write", "get", "flush", "compact"}
INVARIANT GetNotStale
CHECK_DEADLOCK FALSE
