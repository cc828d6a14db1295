SPECIFICATION Spec
CONSTANTS
    t1 = t1
    t2 = t2
    t3 = t3
    t4 = t4
    m1 = m1
    c1 = c1
    s1 = s1
    e1 = e1
    e2 = e2
    e3 = e3
    NULL = NULL
    Threads = {t1, t2, t3}
    TimedThreads = {t1}
    SignalThreads = {t1}
    Words = {m1, c1}
    Mutexes = {m1}
    Conds = {c1}
    Sems = {s1}
    Entries = {e1, e2, e3}
    MutexOf <- OneMutex
    CondThreads = {t1, t2, t3}
    SemThreads = {t1, t2, t3}
    SignalLocked = TRUE
    MaxUnits = 1
SYMMETRY PthreadSymmetry
INVARIANTS
    Consistent
    LockedMeansHeld
    BlockedIsRemembered
    EverySignalWakes
    UnitsConserved
