SPECIFICATION FairSpec
CONSTANTS
    t1 = t1
    t2 = t2
    t3 = t3
    guard = guard
    object = object
    NoThread = NoThread
    Destroyed = Destroyed
    Threads = {t1, t2, t3}
    Locks = {guard, object}
    TimedThreads = {t1, t2}
    Destroyable = {}
    SwitchPairs <- GuardThenObject
    TheLock = object
    LockOrder <- GuardThenObject
INVARIANTS
    TypeOK
    MutualExclusion
    OwnerKnows
    HolderAssertsHold
    WaitersHaveOwner
PROPERTIES
    IsFifoLock
    WaitEnds
