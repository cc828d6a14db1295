SPECIFICATION FairSpec
CONSTANTS
    t1 = t1
    t2 = t2
    t3 = t3
    v1 = v1
    v2 = v2
    NULL = NULL
    Threads = {t1, t2, t3}
    Waiters = {t1, t2}
    FallibleWaiters = {t1}
    Notifiers = {t3}
    Variables = {v1, v2}
    Published = {v2}
    Lockers = {t1, t2}
    MaxRecursion = 2
INVARIANTS
    Consistent
    NothingIsGone
    NotifiedReturnsResult
    WaitsAreApart
PROPERTIES
    CallEnds
