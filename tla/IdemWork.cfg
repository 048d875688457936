CONSTANTS
    Calls = {c1}
    Own = {a1, a2}
    Nested = {n1, n2}
    ClockSkewTolerance = 0
    ExecutionTTLs = {1}
    MemoryTTL = 1
    Faults = {"close", "crash"}
    MaxTime = 2
SPECIFICATION FairSpec
INVARIANTS NothingRunsUnheld
PROPERTIES DeferredMarkMade
CHECK_DEADLOCK FALSE
