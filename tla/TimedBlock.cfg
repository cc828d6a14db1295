SPECIFICATION FairSpec
CONSTANTS
    t1 = t1
    t2 = t2
    p1 = p1
    c1 = c1
    c2 = c2
    None = None
    Threads = {t1}
    RealTime = {t1}
    Periodic = {p1}
    CPUs = {c1, c2}
    MaxDelay = 2
    MaxLate = 1
INVARIANTS
    Consistent
    TimeoutMeetsItsWait
    CancelIsFinal
PROPERTIES
    TimedWaitEnds
