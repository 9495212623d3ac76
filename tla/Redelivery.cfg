SPECIFICATION FairSpec
CONSTANTS
    e1 = e1
    e2 = e2
    w1 = w1
    k1 = k1
    k2 = k2
    NoExecution = NoExecution
    NoKernel = NoKernel
    Executions = {e1, e2}
    Workers = {w1}
    Kernels = {k1, k2}
    NumSteps = 1
    MaxConcurrency = 1
    StopOnError = {e1}
    MaxAttempts = 1
    MaxFaults = 1
    SlowPhases <- Exclusive
    MaxSubmissions = 2
PROPERTIES
    EventuallySettled
CHECK_DEADLOCK FALSE
