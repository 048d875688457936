CONSTANTS
    Callers = {c1, c2}
    WindowSize = 2
    FailureThreshold = 1
    FailureRateThreshold = 100
    MinimumCalls = 2
    HalfOpenMaxCalls = 1
    StuckTimeout = 0
    RecoveryTimeout = 1
    SuccessThreshold = 1
    OverrideTTLs = {1}
    Lanes = {"force_open"}
    MaxTime = 2
    MaxCount = 2
SPECIFICATION Spec
PROPERTIES BlockStands
CHECK_DEADLOCK FALSE
