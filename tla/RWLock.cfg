SPECIFICATION FairSpec
CONSTANTS
    t1 = t1
    t2 = t2
    t3 = t3
    NoThread = NoThread
    Threads = {t1, t2, t3}
    TimedThreads = {t1}
    MaxNest = 2
    Destroyable = TRUE
INVARIANTS
    WriterIsAlone
    Consistent
    WaitersHaveWaker
PROPERTIES
    LockEnds
CHECK_DEADLOCK FALSE
