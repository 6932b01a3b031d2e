SPECIFICATION Spec
CONSTANTS
    p1 = p1
    p2 = p2
    ignored = ignored
    faulty = faulty
    Threads = {t1, t2}
    Providers = {p1, p2, ignored, faulty}
    Kind <- Kinds
    Documents <- Docs
    Arrays = {a1, a2, a3}
    MaxItems = 4
    Null = Null
    Freed = Freed
    Junk = Junk
    Dead = Dead
    NoThread = NoThread
SYMMETRY Symmetry
CHECK_DEADLOCK FALSE
INVARIANTS
    IInv
    Sharing
    StoreAtRest
PROPERTIES
    StoresList
