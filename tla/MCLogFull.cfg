SPECIFICATION Spec
CONSTANTS
    Procs = {p1, p2, p3}
    Blocks = {b1, b2, b3, b4, b5, b6}
    Data = {d0}
    Zero = d0
    NotCached = NotCached
    NoBlock = NoBlock
    LOGSIZE = 6
    MAXOPBLOCKS = 2
    NLOG = 6
    OpBlocks = 2
SYMMETRY MCSymmetry
INVARIANTS
    NoPanic
