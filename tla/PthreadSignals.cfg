SPECIFICATION Spec
CONSTANTS
    t1 = t1
    t2 = t2
    t3 = t3
    t4 = t4
    m1 = m1
    c1 = c1
    s1 = s1
    e1 = e1
    e2 = e2
    e3 = e3
    NULL = NULL
    Threads = {t1, t2, t3, t4}
    TimedThreads = {}
    SignalThreads = {}
    Words = {m1, c1}
    Mutexes = {m1}
    Conds = {c1}
    Sems = {}
    Entries = {e1, e2}
    MutexOf <- OneMutex
    CondThreads = {t1, t2}
    SemThreads = {}
    SignalLocked = FALSE
    MaxUnits = 1
SYMMETRY SignalSymmetry
INVARIANTS
    EverySignalWakes
