CONSTANTS
    r1 = r1
    r2 = r2
    Entries <- TwoRequests
    Ids <- TwoRequests
    RequestId <- OwnIds
    LivenessPaths <- OneProbe
    Failing <- OneFails
    Exits = {"defer", "host"}
    Capacity = 1
    BatchSize = 1
    BackoffThreshold = 1
    MaxRestarts = 0
    Faults = {"raise"}
SPECIFICATION SystemFair
INVARIANTS ExitAccounts DrainCapturesKept BooksReconcile
PROPERTIES ShutdownEnds
CHECK_DEADLOCK FALSE
