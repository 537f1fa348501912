SPECIFICATION FairSpec
CONSTANTS
    srcA = srcA
    srcB = srcB
    srcC = srcC
    Sources = {srcA, srcB, srcC}
    First <- MCFirst
    Size <- MCSize
    Prefix <- MCPrefix
    Variant <- MCVariant
    Rank <- MCRank
    Quarantined = {srcB}
    MaxSeq = 3
    Breaks = {2}
    Silent = {1}
    Threshold = 1
    PageLimit = 1
    MaxOrder = 2
    MaxFaults = 1
    MaxErrors = 1
    MaxCrashes = 1
    MaxLosses = 1
INVARIANTS
    ReadyIsWhole
    CustodyAuthenticates
    AmbiguityIsResolved
PROPERTIES
    ImplementsLedger
    CohortCompletes
    RetiredFilesGo
CHECK_DEADLOCK FALSE
