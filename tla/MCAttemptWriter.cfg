SPECIFICATION Spec
CONSTANTS
    Records = 2
    TailLimit = 1
    ChunkRecords = 1
    MaxControlCommands = 1
    Errors = {e1}
    NoError = NoError
INVARIANTS
    NoGapNoInvention
    ResultCoversFrontier
    AcknowledgedIsStored
    SealIsComplete
    CleanCloseDrains
PROPERTIES
    NothingAfterFailure
    ImplementsFrontier
CHECK_DEADLOCK FALSE
