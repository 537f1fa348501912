SPECIFICATION Spec
CONSTANTS
    Absence = 3
    Recheck = 4
    Cooldown = 2
    Backoff <- MCBackoff
    Stability = 1
    MaxGap = 2
    Silence = 2
    RetryDelay = 1
    ActiveWindow = 1
    Pause = 1
    MaxTime = 5
    MaxGen = 3
    MaxQueue = 1
    MaxFaults = 1
INVARIANTS
    ScanIsReleased
    PermitIsEarned
    IncidentIsTruthful
CHECK_DEADLOCK FALSE
