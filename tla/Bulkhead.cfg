CONSTANTS
    t1 = t1
    t2 = t2
    co = co
    main = main
    NoCall = NoCall
    Calls = {t1, t2, co}
    Patient = {t2, co}
    Readers = {co}
    Loops = {main}
    LoopOf <- OnMain
    MaxConcurrent = 1
    Faults = {"leave", "timer", "loop"}
SPECIFICATION FairSpec
INVARIANTS NothingStranded NoLostWake TokenFresh
PROPERTIES CountsSeats WaiterServed
CHECK_DEADLOCK FALSE
