SPECIFICATION Spec
CONSTANTS
    t1 = t1
    t2 = t2
    t3 = t3
    e1 = e1
    e2 = e2
    lock = lock
    mutex = mutex
    NULL = NULL
    Threads = {t1, t2, t3}
    SignalThreads = {}
    Words = {lock, mutex}
    Sems = {}
    Entries = {e1, e2}
INVARIANTS
    RoundIsComplete
