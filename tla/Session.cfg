SPECIFICATION FairSpec
CONSTANTS
    NumSteps = 2
    Values = {"a", "b"}
    MaxPublish = 3
INVARIANTS
    TypeOK
    ResultIsComplete
    FailureIsOwn
    StepsInOrder
PROPERTIES
    ImplementsSequentialSteps
    SessionEnds
CHECK_DEADLOCK FALSE
