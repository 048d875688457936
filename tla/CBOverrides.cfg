CONSTANTS
    Callers = {c1}
    WindowSize = 2
    FailureThreshold = 1
    FailureRateThreshold = 100
    MinimumCalls = 2
    HalfOpenMaxCalls = 1
    StuckTimeout = 0
    RecoveryTimeout = 1
    SuccessThreshold = 1
    OverrideTTLs = {1}
    Lanes = {"force_open", "force_close", "reset", "extend", "auto", "expiry", "recovery", "freeze"}
    MaxTime = 2
    MaxCount = 2
SPECIFICATION Spec
INVARIANTS StampsPresent
PROPERTIES FreezeHolds AllowStands
CHECK_DEADLOCK FALSE
