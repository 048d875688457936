CONSTANTS
    task = task
    host = host
    Workers <- Both
    LanesOf <- AllLanes
    Limited <- TaskOnly
    Faults = {}
    MaxReplayAttempts = 2
    CapturedCaps = {2}
    MaxForces = 1
    MaxFree = 2
SPECIFICATION Spec
PROPERTIES ResolvedIsFinal
CHECK_DEADLOCK FALSE
