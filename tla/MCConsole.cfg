\* A ring of two characters between the keyboard and a reader that may be killed.
SPECIFICATION Spec
CONSTANTS
    c0 = c0
    c1 = c1
    x = x
    Newline = Newline
    EOF = EOF
    KillLine = KillLine
    Backspace = Backspace
    Listing = Listing
    Nothing = Nothing
    Idle = Idle
    NoCPU = NoCPU
    CPUs <- MCCPUs
    Locks <- MCLocks
    BootCPU = c0
    NPROC = 2
    Readers <- MCReaders
    Writers <- MCReaders
    Killable <- MCReaders
    Letters <- MCLetters
    INPUT_BUF = 2
    WRAP = 4
    MaxN = 2
VIEW MCView
INVARIANTS
    TypeOK
    NoPanic
    InterruptsFollow
    SleepersWait
PROPERTIES
    IsTerminal
