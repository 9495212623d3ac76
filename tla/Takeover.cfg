SPECIFICATION Spec
CONSTANTS
    e1 = e1
    e2 = e2
    w1 = w1
    w2 = w2
    k1 = k1
    k2 = k2
    NoExecution = NoExecution
    NoKernel = NoKernel
    Executions = {e1, e2}
    Workers = {w1, w2}
    Kernels = {k1, k2}
    NumSteps = 2
    MaxConcurrency = 1
    StopOnError = {e1}
    MaxAttempts = 1
    MaxFaults = 1
    SlowPhases <- Prompt
    MaxSubmissions = 1
SYMMETRY Symmetric
INVARIANTS
    CodeRunsOnceInOrder
    KernelBoundBeforeCode
    KernelLostIsTrue
    StopsAtFailure
    RequestRecordedBeforeSend
    LeakIsVisible
    SingleDriver
    OwnershipInv
CHECK_DEADLOCK FALSE
