SPECIFICATION FairSpec
CONSTANTS
    Records = 2
    TailLimit = 0
    ChunkRecords = 1
    MaxControlCommands = 1
    Errors = {e1}
    NoError = NoError
PROPERTIES
    CallSettles
    PublishedDrains
    CloseEnds
CHECK_DEADLOCK FALSE
