CONSTANTS
    task = task
    host = host
    Workers <- Both
    LanesOf <- AllLanes
    Limited <- TaskOnly
    Faults = {"gate", "store"}
    MaxReplayAttempts = 2
    CapturedCaps = {1, 2, 3}
    MaxForces = 1
    MaxFree = 2
SPECIFICATION FairSpec
INVARIANTS NotBesideItself ResolvedMeansSucceeded BudgetKept
PROPERTIES ResolvedStands EntrySettles
CHECK_DEADLOCK FALSE
