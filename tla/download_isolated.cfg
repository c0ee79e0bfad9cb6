CONSTANTS
    p1 = p1
    p2 = p2
    d1 = d1
    d2 = d2
    Procs = {p1, p2}
    Dirs = {d1, d2}
    f = f
    g = g
    Entries <- TwoAndOne
    Inodes = {1, 2, 3, 4, 5}
    N = 2
    Dry = {}
    None = None
    Root <- OwnRoots
SPECIFICATION Spec
INVARIANTS
    TypeOK
    FinalComplete
    TemporaryAccounted
PROPERTIES
    NeverReplaced
    ImplementsRepository
    RunEnds
    Converges
