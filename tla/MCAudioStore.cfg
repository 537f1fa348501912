SPECIFICATION Spec
CONSTANTS
    Sources <- MCSources
    Legacy <- MCLegacy
    Values <- MCValues
    Size = 2
    TailLen = 1
    Retention = 1
    MaxNow = 1
    ChunkLimit = 1
    MaxFaults = 2
INVARIANTS StoredAsAnswered FailStopIsWarranted SealedIsClean
PROPERTIES EvidenceKeepsItsTerm QuarantineSettles
CHECK_DEADLOCK FALSE
