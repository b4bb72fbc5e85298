SPECIFICATION Spec
CONSTANTS
    p1 = p1
    p2 = p2
    p3 = p3
    a = a
    b = b
    Procs = {p1, p2, p3}
    Names = {a, b}
    NoName = NoName
    Pieces = 2
    MayFetch <- OwnDocuments
INVARIANTS CachedIsWhole LeftoversAreOfCutWrites
