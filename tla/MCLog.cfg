SPECIFICATION Spec
CONSTANTS
    Procs = {p1, p2, p3}
    Blocks = {b1, b2, b3}
    Data = {d0, d1}
    Zero = d0
    NotCached = NotCached
    NoBlock = NoBlock
    LOGSIZE = 4
    MAXOPBLOCKS = 2
    NLOG = 6
    OpBlocks = 2
SYMMETRY MCSymmetry
INVARIANTS
    TypeOK
    PinnedIsLogged
    SleepersBlocked
PROPERTIES
    Atomic
    WriteAhead
