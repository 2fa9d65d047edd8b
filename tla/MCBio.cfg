SPECIFICATION Spec
CONSTANTS
    Procs = {p1, p2}
    Blocks = {b1, b2, b3, b4}
    Data = {x, y}
    NBUF = 3
    MaxPinned = 2
    ReadErrors = FALSE
    NoBlock = NoBlock
    Nobody = Nobody
SYMMETRY MCSymmetry
INVARIANTS
    TypeOK
    OneBufferPerBlock
    CleanIsOnDisk
    BuffersSuffice
    SleepersWait
PROPERTIES
    IsBlockStore
