SPECIFICATION FairSpec
CONSTANTS
    NumEntries = 3
    Malformed = {}
    Stuck = {1}
    Workers = {w1, w2}
    MaxConcurrency = 2
    BatchSize = 2
    MinIdle = 1
    Interval = 2
    ScanFactor = 1
    MaxFaults = 1
INVARIANTS
    TypeOK
    NothingPassedOver
PROPERTIES
    PendingRecovered
CHECK_DEADLOCK FALSE
