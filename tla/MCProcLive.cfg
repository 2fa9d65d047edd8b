SPECIFICATION FairSpec
CONSTANTS
    NPROC = 3
    CPUs <- MCOneCPU
    BootCPU <- MCBootCPU
    NoCPU <- MCNoCPU
    KillPids <- MCKillOne
    MaxPid = 3
    MaxSleep = 1
PROPERTIES
    Scheduled
    KilledDies
    SleepReturns
    WaitReturns
