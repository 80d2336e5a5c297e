SPECIFICATION FairSpec
CONSTANTS
    Clients = {c1, c2}
    c1 = c1
    c2 = c2
    QueueCap = 2
    CompactThreshold = 2
    Calls = {"write", "flush", "compact", "close", "drop"}
    MaxCalls = 3
    MaxFaults = 1
INVARIANTS
    WorkerInv
    TypeOK
    OkMeansWritten
    NothingLost
    ErrorIsReported
    DropDrains
    ForgottenIsReported
PROPERTY CallsEnd
CHECK_DEADLOCK FALSE
