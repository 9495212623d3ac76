SPECIFICATION Spec
CONSTANTS
    Objects <- MCObjects
    Buffers <- MCBuffers
    MaxBuffers = 2
INVARIANTS
    TypeOK
    DecodesWhatWasSent
    DamagedIsRefused
    PartsAreTheBody
CHECK_DEADLOCK FALSE
