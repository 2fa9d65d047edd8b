SPECIFICATION Spec
CONSTANTS
    Procs = {p1, p2}
    NINODES = 3
    Plain = {"a", "d"}
    MaxLinks = 2
    Requests <- MCRequests
    Nobody = Nobody
SYMMETRY MCSymmetry
INVARIANTS
    TypeOK
    RefCounts
    LinksCounted
    CacheAgrees
    NoPanic
PROPERTIES
    IsFileTree
CHECK_DEADLOCK FALSE
