SPECIFICATION Spec
CONSTANTS
    Clients = {c1, c2}
    Ids = {x, commands}
    StreamIds = {commands}
    Bodies = {a, b}
    MaxRequests = 4
    MaxFaults = 2
INVARIANTS
    TypeOK
    AcceptedOnce
    AnswerIsTrue
    SubmissionsTakeNothingBack
CHECK_DEADLOCK FALSE
