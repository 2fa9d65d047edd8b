\* A reader that is killed on its way to sleep.
SPECIFICATION KernelSpec
CONSTANTS
    w1 = w1
    w2 = w2
    r1 = r1
    x = x
    y = y
    Failed = Failed
    Nobody = Nobody
    Writers <- MCWriter
    Readers <- MCReader
    Killable <- MCReader
    Bytes <- MCByte
    PIPESIZE = 2
    WRAP = 4
    Texts <- MCText
    MaxN = 2
PROPERTIES
    KilledLeaves
