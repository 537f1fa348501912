SPECIFICATION Spec
CONSTANTS
    MaxSequence = 3
    BatchRecords = 3
    MaxFaults = 2
INVARIANT LegIsNeverRefused
