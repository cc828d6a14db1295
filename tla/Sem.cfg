SPECIFICATION Spec
CONSTANTS
    t1 = t1
    t2 = t2
    i1 = i1
    NoThread = NoThread
    Threads = {t1, t2}
    FallibleThreads = {t1}
    SwitchThreads = {t1}
    sMaxSems = 2
    Units = {1, 2}
    MaxCount = 2
    MaxId = 2
    Infos = {i1}
INVARIANTS
    Consistent
    UnitsConserved
    QueuesAreCurrent
    SelectIsNotified
