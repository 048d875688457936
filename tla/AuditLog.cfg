CONSTANTS
    Pids = {p1, p2}
    Entries = {e1, e2}
    FileRecords = 2
    MaxFiles = 1
    BatchSize = 2
    MaxName = 4
    MaxStarts = 2
    MaxExpired = 1
SPECIFICATION FairSpec
INVARIANTS NothingLost OneRow
PROPERTIES Drained
CHECK_DEADLOCK FALSE
