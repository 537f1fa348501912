SPECIFICATION FairSpec
CONSTANTS
    srcA = srcA
    srcB = srcB
    srcC = srcC
    Sources = {srcA}
    First <- AckFirst
    Size <- AckSize
    Prefix <- AckSize
    Variant <- AckVariant
    Rank <- AckRank
    Quarantined = {}
    MaxSeq = 1
    Breaks = {1}
    Silent = {}
    Threshold = 1
    PageLimit = 2
    MaxOrder = 2
    MaxFaults = 1
    MaxErrors = 0
    MaxCrashes = 1
    MaxLosses = 0
PROPERTY VisibleIsCommitted
CHECK_DEADLOCK FALSE
