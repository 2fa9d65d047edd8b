SPECIFICATION FairSpec
CONSTANTS
    Procs = {p1, p2, p3}
    Blocks = {b1, b2, b3, b4, b5}
    Data = {d0}
    Zero = d0
    NotCached = NotCached
    NoBlock = NoBlock
    LOGSIZE = 4
    MAXOPBLOCKS = 2
    NLOG = 4
    OpBlocks = 1
INVARIANTS
    LogFits
PROPERTIES
    SleepersWoken
    SpaceReturns
