SPECIFICATION FairSpec
CONSTANTS
    MaxDelay = 2
    MaxChanges = 2
    MaxFailures = 2
    MaxVisits = 2
    MaxDebts = 1
    MaxEvents = 2
INVARIANTS
    OneStorageOwner
    CaptureOwnsStorage
    RetryIsArmed
PROPERTIES
    RetriesHonourDeadline
    CaptureGranted
    ReadyIsHandled
CHECK_DEADLOCK FALSE
