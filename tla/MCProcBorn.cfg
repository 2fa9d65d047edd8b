SPECIFICATION Spec
CONSTANTS
    NPROC = 3
    CPUs <- MCCPUs
    BootCPU <- MCBootCPU
    NoCPU <- MCNoCPU
    KillPids <- MCKillAny
    MaxPid = 4
    MaxSleep = 1
PROPERTIES
    BornAlive
