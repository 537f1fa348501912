SPECIFICATION Spec
CONSTANTS
    Tolerance = 1
    ReadUncertainty = 0
    Jump = 10
    MaxRecords = 2
    MaxCycles = 1
    MaxDrift = 1
    MaxChanges = 1
    MaxFaults = 2
INVARIANTS
    TimeIsTruthful
    WriteIsIncomparable
    PhyIsRestored
CHECK_DEADLOCK FALSE
