SPECIFICATION Spec
CONSTANTS
    t1 = t1
    t2 = t2
    t3 = t3
    guard = guard
    object = object
    NoThread = NoThread
    Destroyed = Destroyed
    Threads = {t1, t2, t3}
    Locks = {guard, object}
    TimedThreads = {}
    Destroyable = {object}
    SwitchPairs <- GuardThenObject
    TheLock = object
    LockOrder <- GuardThenObject
INVARIANTS
    SwitchFindsLock
PROPERTIES
    IsFifoLock
