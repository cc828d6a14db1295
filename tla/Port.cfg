SPECIFICATION Spec
CONSTANTS
    r1 = r1
    r2 = r2
    w1 = w1
    w2 = w2
    w3 = w3
    i1 = i1
    Readers = {r1, r2}
    Lookers = {r2}
    Writers = {w1, w2}
    Fallible = {r1, w1, w2}
    Infos = {i1}
    QueueLength = 2
    SpaceLimit = 2
SYMMETRY WriterSymmetry
INVARIANTS
    Consistent
    NobodyIsStranded
    SelectIsTold
PROPERTIES
    ClosedIsOver
