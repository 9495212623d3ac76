SPECIFICATION PromptSpec
CONSTANTS
    NumEntries = 2
    Malformed = {1}
    Stuck = {}
    Workers = {w1}
    MaxConcurrency = 2
    BatchSize = 2
    MinIdle = 2
    Interval = 1
    ScanFactor = 10
    MaxFaults = 0
PROPERTIES
    StaysRecoverable
CHECK_DEADLOCK FALSE
