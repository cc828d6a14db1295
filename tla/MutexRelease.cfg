SPECIFICATION FairSpec
CONSTANTS
    t1 = t1
    t2 = t2
    t3 = t3
    Nobody = Nobody
    Threads = {t1, t2, t3}
    TimedThreads = {t1}
INVARIANTS
    MutualExclusion
    Consistent
    ReleasedIsClaimed
PROPERTIES
    IsFifoLock
    LockEnds
