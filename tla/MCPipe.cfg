\* Two writers and a reader; one of each side may be killed.
SPECIFICATION FairSpec
CONSTANTS
    w1 = w1
    w2 = w2
    r1 = r1
    x = x
    y = y
    Failed = Failed
    Nobody = Nobody
    Writers <- MCWriters
    Readers <- MCReader
    Killable <- MCKillable
    Bytes <- MCBytes
    PIPESIZE = 2
    WRAP = 4
    Texts <- MCTexts
    MaxN = 2
INVARIANTS
    TypeOK
    NotFreedInUse
    SleepersWait
PROPERTIES
    IsStream
    SleepersWoken
