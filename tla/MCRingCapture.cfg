SPECIFICATION FairSpec
CONSTANTS
    MaxSequence = 3
    BatchRecords = 2
    MaxFaults = 2
INVARIANTS
    HostAdvanceIsCustodied
    OneOpenSource
    ClosureIsBacked
    DrainPermitIsFinal
    BelievedIsStored
PROPERTIES
    LossIsTruthful
    BacklogDrains
