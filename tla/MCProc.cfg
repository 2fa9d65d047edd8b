SPECIFICATION Spec
CONSTANTS
    NPROC = 3
    CPUs <- MCCPUs
    BootCPU <- MCBootCPU
    NoCPU <- MCNoCPU
    KillPids <- MCKillOne
    MaxPid = 4
    MaxSleep = 1
INVARIANTS
    TypeOK
    RunningOnOneCPU
    StackInUse
    NoLostWakeup
    NoLostChild
    ParentAlive
