CONSTANTS
    Calls = {c1, c2}
    Own = {a1}
    Nested = {n1}
    ClockSkewTolerance = 1
    ExecutionTTLs = {1, 2}
    MemoryTTL = 2
    Faults = {"cache", "crash", "cancel"}
    MaxTime = 3
SPECIFICATION Spec
PROPERTIES WindowHonored CompletedMeansReturned CompletedStands
CHECK_DEADLOCK FALSE
SYMMETRY CallSymmetry
