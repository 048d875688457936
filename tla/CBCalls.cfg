CONSTANTS
    Callers = {c1, c2}
    WindowSize = 2
    FailureThreshold = 2
    FailureRateThreshold = 50
    MinimumCalls = 2
    HalfOpenMaxCalls = 1
    StuckTimeout = 0
    RecoveryTimeout = 1
    SuccessThreshold = 1
    OverrideTTLs = {1}
    Lanes = {}
    MaxTime = 2
    MaxCount = 6
SPECIFICATION FairSpec
INVARIANTS TripOwed ProbeBudget
PROPERTIES ThresholdTrips OpenIsProbed FullWindowEnds CallersFollowDiagram AnnouncedByItsMaker ResetNeverSkipped
CHECK_DEADLOCK FALSE
