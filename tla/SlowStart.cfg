SPECIFICATION Spec
CONSTANTS
    e1 = e1
    w1 = w1
    w2 = w2
    k1 = k1
    k2 = k2
    NoExecution = NoExecution
    NoKernel = NoKernel
    Executions = {e1}
    Workers = {w1, w2}
    Kernels = {k1, k2}
    NumSteps = 2
    MaxConcurrency = 1
    StopOnError = {e1}
    MaxAttempts = 2
    MaxFaults = 0
    SlowPhases <- Phases
    MaxSubmissions = 1
SYMMETRY Symmetric
INVARIANTS
    CodeRunsOnceInOrder
CHECK_DEADLOCK FALSE
