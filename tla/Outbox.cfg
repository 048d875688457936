SPECIFICATION FairSpec
CONSTANTS
    e1 = e1
    e2 = e2
    e3 = e3
    Entries <- ThreeEntries
    Capacity = 2
    BatchSize = 2
    BackoffThreshold = 1
    MaxRestarts = 1
    Faults = {"raise", "crash", "dump"}
INVARIANTS DropsAccounted NothingVanishes DoubleOnlyIfRescued
PROPERTIES LedgerSpec CoercionHolds DropsSurface CaptureSettles
CHECK_DEADLOCK FALSE
