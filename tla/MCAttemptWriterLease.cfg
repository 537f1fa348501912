SPECIFICATION Spec
CONSTANTS
    Records = 1
    TailLimit = 0
    ChunkRecords = 1
    MaxControlCommands = 2
    Errors = {e1}
    NoError = NoError
INVARIANT LeaseReleasedAtEnd
CHECK_DEADLOCK FALSE
