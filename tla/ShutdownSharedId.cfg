CONSTANTS
    r1 = r1
    r2 = r2
    Entries <- TwoRequests
    Ids <- TwoRequests
    RequestId <- OneId
    LivenessPaths <- NoProbes
    Failing <- OneFails
    Exits = {"defer"}
    Capacity = 1
    BatchSize = 1
    BackoffThreshold = 1
    MaxRestarts = 0
    Faults = {}
SPECIFICATION SystemSpec
INVARIANTS DrainCapturesKept
CHECK_DEADLOCK FALSE
