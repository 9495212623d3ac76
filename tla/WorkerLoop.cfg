SPECIFICATION FairSpec
CONSTANTS
    m1 = m1
    m2 = m2
    m3 = m3
    m4 = m4
    m5 = m5
    Messages = {m1, m2, m3, m4, m5}
    Poison = {m4}
    MaxConcurrency = 3
    BatchSize = 2
    MaxFaults = 2
    MaxRepeats = 1
INVARIANTS
    TypeOK
    SlotsRespected
    ClosedAfterTasks
    OnlyPoisonKills
PROPERTIES
    ShutdownCompletes
    MessagesServed
CHECK_DEADLOCK FALSE
