------------------------------ MODULE MCProc ------------------------------
EXTENDS Proc

\* The processors differ only in which of them counts ticks.
MCCPUs == {"cpu0", "cpu1"}
MCOneCPU == {"cpu0"}
MCNoCPU == "none"
MCBootCPU == "cpu0"
MCKillAny == {0, 2, 3, 4}
MCKillOne == {2}
MCNone == {}
=============================================================================
