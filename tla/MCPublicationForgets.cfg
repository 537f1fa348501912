SPECIFICATION FairSpec
CONSTANTS
    MaxDelay = 1
    MaxChanges = 1
    MaxFailures = 1
    MaxVisits = 0
    MaxDebts = 1
    MaxEvents = 3
PROPERTIES
    EligiblePublishes
CHECK_DEADLOCK FALSE
