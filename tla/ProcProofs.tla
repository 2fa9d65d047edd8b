---------------------------- MODULE ProcProofs ----------------------------
(***************************************************************************)
(* Proofs about Proc: for any number of slots and processors, threads are  *)
(* kept apart from each other and from freed stacks, no wakeup is lost,    *)
(* and every process keeps a parent.                                       *)
(***************************************************************************)
EXTENDS Proc, TLAPS

\* Where the scheduler may resume a thread, and a fork under way: a preempted
\* thread is where it will go on.
ResumePCs == {"forkret", "yielded", "slept", "waited"}
ForkPCs   == {"fork_stack", "fork_copy", "fork_ready", "fork_spin"}
Place(p)  == IF pc[p] = "yielded" THEN back[p] ELSE pc[p]

\* A processor's activity, its stack, and the locks it holds go together.
CPUInv ==
    \A c \in CPUs :
        /\ at[c] \in {"idle", "scan"} => on[c] = NoProc
        /\ at[c] \in {"run", "sched", "yield"} => on[c] \in Slots
        /\ lk = c <=> \/ at[c] \in {"scan", "sched"}
                      \/ at[c] = "run" /\ pc[on[c]] \in ResumePCs
        /\ tk = c <=> \/ at[c] = "wake"
                      \/ at[c] = "run" /\ pc[on[c]] \in {"test", "doze"}
        /\ at[c] = "run" => pc[on[c]] # "dead"
        /\ at[c] \in {"tick", "wake", "yield"} /\ on[c] # NoProc
              => pc[on[c]] \in OpenPCs

\* A thread is on at most one processor, and is RUNNING there until it enters
\* sched(); the state of any other thread fits the place where it was left.
ThreadInv ==
    /\ \A c, d \in CPUs : on[c] # NoProc /\ on[c] = on[d] => c = d
    /\ \A c \in CPUs : on[c] # NoProc =>
          IF at[c] = "sched" THEN state[on[c]] \in {"RUNNABLE", "SLEEPING",
               "ZOMBIE"}
                             ELSE state[on[c]] = "RUNNING"
    /\ \A p \in Slots :
          /\ state[p] \in {"UNUSED", "EMBRYO"} => pc[p] \in {"forkret", "dead"}
          /\ state[p] \in {"RUNNABLE", "SLEEPING"} => pc[p] \in ResumePCs
          /\ state[p] = "ZOMBIE" => pc[p] = "dead"
          /\ state[p] = "RUNNING" => \E c \in CPUs : on[c] = p
          /\ state[p] \in Live \cup {"ZOMBIE"} => kstack[p]

\* A fork under way owns one EMBRYO slot, set up as far as the fork has come.
ForkInv ==
    /\ \A p \in Slots :
          /\ child[p] # NoProc <=> Place(p) \in ForkPCs
          /\ child[p] # NoProc => state[child[p]] = "EMBRYO"
          /\ Place(p) \in ForkPCs \ {"fork_stack"} =>
                kstack[child[p]] /\ pc[child[p]] = "forkret"
          /\ Place(p) \in {"fork_stack", "fork_copy"} => parent[child[p]] = NoProc
          /\ Place(p) \in {"fork_ready", "fork_spin"} => parent[child[p]] = p
    /\ \A p, q \in Slots : child[p] # NoProc /\ child[p] = child[q] => p = q
    /\ \A q \in Slots : state[q] = "EMBRYO" => \E p \in Slots : child[p] = q

\* init lives for ever, and whoever needs a parent has a live one.
FamilyInv ==
    /\ state[initproc] \in Live
    /\ parent[initproc] = NoProc
    /\ \A p \in Slots : parent[p] # p
    /\ \A p \in Slots : state[p] = "UNUSED" => parent[p] = NoProc
    /\ ParentAlive

\* What a sleeper waits for has not happened, or its waker is on the way.
SleepInv ==
    /\ \A p \in Slots : pc[p] = "doze" => left[p] > 0
    /\ \A p \in Slots : state[p] = "SLEEPING" /\ chan[p] = Ticks =>
          left[p] > 0 \/ \E c \in CPUs : at[c] = "wake"
    /\ \A p \in Slots : state[p] = "SLEEPING" /\ chan[p] = p =>
          Children(p) # {} /\ Zombies(p) = {}

ProcInv == TypeOK /\ CPUInv /\ ThreadInv /\ ForkInv /\ FamilyInv /\ SleepInv
-----------------------------------------------------------------------------
\* The slots, the absence of one, and the channels.
LEMMA SlotFacts ==
    /\ initproc \in Slots
    /\ NoProc \notin Slots /\ NoChan = NoProc
    /\ Ticks \notin Slots /\ Ticks # NoChan
    /\ NoChan \in 0 .. NPROC + 1 /\ Ticks \in 0 .. NPROC + 1
    /\ \A p \in Slots : /\ p \in 0 .. NPROC + 1
                        /\ p + 1 \in 1 .. NPROC + 1
  BY ProcConstants DEF Slots, initproc, NoProc, NoChan, Ticks

\* Every step keeps the types.
LEMMA TypeStep == ProcInv /\ [Next]_vars => TypeOK'
<1> SUFFICES ASSUME ProcInv, [Next]_vars PROVE TypeOK'
    OBVIOUS
<1> USE ProcConstants, SlotFacts DEF ProcInv, TypeOK, ProcStates, OpenPCs,
     SwtchPCs, PCs
<1>0. CASE UNCHANGED vars
  BY <1>0 DEF vars
<1>1. ASSUME NEW c \in CPUs, SchedAcquire(c) PROVE TypeOK'
  BY <1>1 DEF SchedAcquire, tableVars, threadVars
<1>2. ASSUME NEW c \in CPUs, SchedPick(c) PROVE TypeOK'
  BY <1>2 DEF SchedPick, tableVars, threadVars, First, Candidates, ScanAfter
<1>3. ASSUME NEW c \in CPUs, SchedRelease(c) PROVE TypeOK'
  BY <1>3 DEF SchedRelease, tableVars, threadVars
<1>4. ASSUME NEW c \in CPUs, Swtch(c) PROVE TypeOK'
  BY <1>4 DEF Swtch, tableVars, threadVars
<1>5. ASSUME NEW c \in CPUs, TimerIntr(c) PROVE TypeOK'
  BY <1>5 DEF TimerIntr, tableVars, threadVars, InterruptsOn
<1>6. ASSUME NEW c \in CPUs, Tick(c) PROVE TypeOK'
  BY <1>6 DEF Tick, tableVars, threadVars, TickDown
<1>7. ASSUME NEW c \in CPUs, TickWake(c) PROVE TypeOK'
  BY <1>7 DEF TickWake, tableVars, threadVars, AfterTick, Wakeup1
<1>8. ASSUME NEW c \in CPUs, Yield(c) PROVE TypeOK'
  BY <1>8 DEF Yield, tableVars, threadVars, IntoSched, CPUInv
<1>9. ASSUME NEW c \in CPUs, NEW p \in Slots, ForkRet(c, p) PROVE TypeOK'
  BY <1>9 DEF ForkRet, tableVars, threadVars, Runs, Goto
<1>10. ASSUME NEW c \in CPUs, NEW p \in Slots, Pushcli(c, p) PROVE TypeOK'
  BY <1>10 DEF Pushcli, tableVars, threadVars, Runs, Goto
<1>11. ASSUME NEW c \in CPUs, NEW p \in Slots, YieldResume(c, p) PROVE TypeOK'
  BY <1>11 DEF YieldResume, tableVars, threadVars, Runs, Goto
<1>12. ASSUME NEW c \in CPUs, NEW p \in Slots, ForkAlloc(c, p) PROVE TypeOK'
  BY <1>12 DEF ForkAlloc, tableVars, threadVars, Runs, Goto, Syscall, First, Free
<1>13. ASSUME NEW c \in CPUs, NEW p \in Slots, ForkStack(c, p) PROVE TypeOK'
  BY <1>13 DEF ForkStack, tableVars, threadVars, Runs, Goto, ForkInv, Place, ForkPCs
<1>14. ASSUME NEW c \in CPUs, NEW p \in Slots, ForkFail(c, p) PROVE TypeOK'
  BY <1>14 DEF ForkFail, tableVars, threadVars, Runs, Goto, ForkInv, Place, ForkPCs
<1>15. ASSUME NEW c \in CPUs, NEW p \in Slots, ForkCopy(c, p) PROVE TypeOK'
  BY <1>15 DEF ForkCopy, tableVars, threadVars, Runs, Goto, ForkInv, Place, ForkPCs
<1>16. ASSUME NEW c \in CPUs, NEW p \in Slots, ForkReady(c, p) PROVE TypeOK'
  BY <1>16 DEF ForkReady, tableVars, threadVars, Runs, Goto, ForkInv, Place, ForkPCs
<1>17. ASSUME NEW c \in CPUs, NEW p \in Slots, Exit(c, p) PROVE TypeOK'
  BY <1>17, SMTT(30) DEF Exit, tableVars, threadVars, Runs, Goto, TrapKills,
       IntoSched, Reparent, WakeInit, WakeParent, Wakeup1, Children
<1>18. ASSUME NEW c \in CPUs, NEW p \in Slots, WaitReap(c, p) PROVE TypeOK'
  BY <1>18 DEF WaitReap, tableVars, threadVars, Runs, Goto, InWait, Syscall,
       First, Zombies, Children
<1>19. ASSUME NEW c \in CPUs, NEW p \in Slots, WaitFail(c, p) PROVE TypeOK'
  BY <1>19 DEF WaitFail, tableVars, threadVars, Runs, Goto, InWait, Syscall
<1>20. ASSUME NEW c \in CPUs, NEW p \in Slots, WaitSleep(c, p) PROVE TypeOK'
  BY <1>20 DEF WaitSleep, tableVars, threadVars, Runs, Goto, InWait, Syscall,
       IntoSched
<1>21. ASSUME NEW c \in CPUs, NEW p \in Slots, NEW n \in KillPids, Kill(c, p, n)
       PROVE TypeOK'
  BY <1>21 DEF Kill, tableVars, threadVars, Runs, Goto, Syscall, First, Roused
<1>22. ASSUME NEW c \in CPUs, NEW p \in Slots, SysSleep(c, p) PROVE TypeOK'
  BY <1>22 DEF SysSleep, tableVars, threadVars, Runs, Goto, Syscall
<1>23. ASSUME NEW c \in CPUs, NEW p \in Slots, SleepReturn(c, p) PROVE TypeOK'
  BY <1>23 DEF SleepReturn, tableVars, threadVars, Runs, Goto
<1>24. ASSUME NEW c \in CPUs, NEW p \in Slots, SleepCall(c, p) PROVE TypeOK'
  BY <1>24 DEF SleepCall, tableVars, threadVars, Runs, Goto, HoldIntoSleep
<1>25. ASSUME NEW c \in CPUs, NEW p \in Slots, Sleep(c, p) PROVE TypeOK'
  BY <1>25 DEF Sleep, tableVars, threadVars, Runs, Goto, Released, IntoSched
<1>26. ASSUME NEW c \in CPUs, NEW p \in Slots, SleepResume(c, p) PROVE TypeOK'
  BY <1>26 DEF SleepResume, tableVars, threadVars, Runs, Goto
<1>27. ASSUME NEW c \in CPUs, NEW p \in Slots, SleepRelock(c, p) PROVE TypeOK'
  BY <1>27 DEF SleepRelock, tableVars, threadVars, Runs, Goto
<1> QED
  BY <1>0, <1>1, <1>2, <1>3, <1>4, <1>5, <1>6, <1>7, <1>8,
     <1>9, <1>10, <1>11, <1>12, <1>13, <1>14, <1>15, <1>16, <1>17,
     <1>18, <1>19, <1>20, <1>21, <1>22, <1>23, <1>24, <1>25, <1>26,
     <1>27, ZenonT(60)
  DEF Next, Scheduler, Interrupt, Resume, Proceed, FromUser

\* Every step keeps processors, stacks and locks together.
LEMMA CPUStep == ProcInv /\ [Next]_vars => CPUInv'
<1> SUFFICES ASSUME ProcInv, [Next]_vars PROVE CPUInv'
    OBVIOUS
<1> USE ProcConstants, SlotFacts DEF ProcInv, CPUInv, TypeOK, ResumePCs, OpenPCs,
     ThreadInv
<1>0. CASE UNCHANGED vars
  BY <1>0 DEF vars
<1>1. ASSUME NEW c \in CPUs, SchedAcquire(c) PROVE CPUInv'
  BY <1>1 DEF SchedAcquire, tableVars, threadVars
<1>2. ASSUME NEW c \in CPUs, SchedPick(c) PROVE CPUInv'
  BY <1>2 DEF SchedPick, tableVars, threadVars, First, Candidates, ScanAfter
<1>3. ASSUME NEW c \in CPUs, SchedRelease(c) PROVE CPUInv'
  BY <1>3 DEF SchedRelease, tableVars, threadVars
<1>4. ASSUME NEW c \in CPUs, Swtch(c) PROVE CPUInv'
  BY <1>4 DEF Swtch, tableVars, threadVars
<1>5. ASSUME NEW c \in CPUs, TimerIntr(c) PROVE CPUInv'
  BY <1>5 DEF TimerIntr, tableVars, threadVars, InterruptsOn
<1>6. ASSUME NEW c \in CPUs, Tick(c) PROVE CPUInv'
  BY <1>6 DEF Tick, tableVars, threadVars, TickDown
<1>7. ASSUME NEW c \in CPUs, TickWake(c) PROVE CPUInv'
  BY <1>7 DEF TickWake, tableVars, threadVars, AfterTick, Wakeup1
<1>8. ASSUME NEW c \in CPUs, Yield(c) PROVE CPUInv'
  BY <1>8 DEF Yield, tableVars, threadVars, IntoSched
<1>9. ASSUME NEW c \in CPUs, NEW p \in Slots, ForkRet(c, p) PROVE CPUInv'
  BY <1>9 DEF ForkRet, tableVars, threadVars, Runs, Goto
<1>10. ASSUME NEW c \in CPUs, NEW p \in Slots, Pushcli(c, p) PROVE CPUInv'
  BY <1>10 DEF Pushcli, tableVars, threadVars, Runs, Goto
<1>11. ASSUME NEW c \in CPUs, NEW p \in Slots, YieldResume(c, p) PROVE CPUInv'
  BY <1>11 DEF YieldResume, tableVars, threadVars, Runs, Goto
<1>12. ASSUME NEW c \in CPUs, NEW p \in Slots, ForkAlloc(c, p) PROVE CPUInv'
  BY <1>12 DEF ForkAlloc, tableVars, threadVars, Runs, Goto, Syscall, First, Free
<1>13. ASSUME NEW c \in CPUs, NEW p \in Slots, ForkStack(c, p) PROVE CPUInv'
  BY <1>13 DEF ForkStack, tableVars, threadVars, Runs, Goto, ForkInv, Place, ForkPCs
<1>14. ASSUME NEW c \in CPUs, NEW p \in Slots, ForkFail(c, p) PROVE CPUInv'
  BY <1>14 DEF ForkFail, tableVars, threadVars, Runs, Goto
<1>15. ASSUME NEW c \in CPUs, NEW p \in Slots, ForkCopy(c, p) PROVE CPUInv'
  BY <1>15 DEF ForkCopy, tableVars, threadVars, Runs, Goto
<1>16. ASSUME NEW c \in CPUs, NEW p \in Slots, ForkReady(c, p) PROVE CPUInv'
  BY <1>16 DEF ForkReady, tableVars, threadVars, Runs, Goto
<1>17. ASSUME NEW c \in CPUs, NEW p \in Slots, Exit(c, p) PROVE CPUInv'
  BY <1>17, SMTT(30) DEF Exit, tableVars, threadVars, Runs, Goto, TrapKills,
       IntoSched, Reparent, WakeInit, WakeParent, Wakeup1, Children
<1>18. ASSUME NEW c \in CPUs, NEW p \in Slots, WaitReap(c, p) PROVE CPUInv'
  BY <1>18 DEF WaitReap, tableVars, threadVars, Runs, Goto, InWait, Syscall,
       First, Zombies, Children
<1>19. ASSUME NEW c \in CPUs, NEW p \in Slots, WaitFail(c, p) PROVE CPUInv'
  BY <1>19 DEF WaitFail, tableVars, threadVars, Runs, Goto, InWait, Syscall
<1>20. ASSUME NEW c \in CPUs, NEW p \in Slots, WaitSleep(c, p) PROVE CPUInv'
  BY <1>20 DEF WaitSleep, tableVars, threadVars, Runs, Goto, InWait, Syscall,
       IntoSched
<1>21. ASSUME NEW c \in CPUs, NEW p \in Slots, NEW n \in KillPids, Kill(c, p, n)
       PROVE CPUInv'
  BY <1>21 DEF Kill, tableVars, threadVars, Runs, Goto, Syscall, First, Roused
<1>22. ASSUME NEW c \in CPUs, NEW p \in Slots, SysSleep(c, p) PROVE CPUInv'
  BY <1>22 DEF SysSleep, tableVars, threadVars, Runs, Goto, Syscall
<1>23. ASSUME NEW c \in CPUs, NEW p \in Slots, SleepReturn(c, p) PROVE CPUInv'
  BY <1>23 DEF SleepReturn, tableVars, threadVars, Runs, Goto
<1>24. ASSUME NEW c \in CPUs, NEW p \in Slots, SleepCall(c, p) PROVE CPUInv'
  BY <1>24 DEF SleepCall, tableVars, threadVars, Runs, Goto, HoldIntoSleep
<1>25. ASSUME NEW c \in CPUs, NEW p \in Slots, Sleep(c, p) PROVE CPUInv'
  BY <1>25 DEF Sleep, tableVars, threadVars, Runs, Goto, Released, IntoSched
<1>26. ASSUME NEW c \in CPUs, NEW p \in Slots, SleepResume(c, p) PROVE CPUInv'
  BY <1>26 DEF SleepResume, tableVars, threadVars, Runs, Goto
<1>27. ASSUME NEW c \in CPUs, NEW p \in Slots, SleepRelock(c, p) PROVE CPUInv'
  BY <1>27 DEF SleepRelock, tableVars, threadVars, Runs, Goto
<1> QED
  BY <1>0, <1>1, <1>2, <1>3, <1>4, <1>5, <1>6, <1>7, <1>8,
     <1>9, <1>10, <1>11, <1>12, <1>13, <1>14, <1>15, <1>16, <1>17,
     <1>18, <1>19, <1>20, <1>21, <1>22, <1>23, <1>24, <1>25, <1>26,
     <1>27, ZenonT(60)
  DEF Next, Scheduler, Interrupt, Resume, Proceed, FromUser

\* Every step keeps threads apart, and states fitting.
LEMMA ThreadStep == ProcInv /\ [Next]_vars => ThreadInv'
<1> SUFFICES ASSUME ProcInv, [Next]_vars PROVE ThreadInv'
    OBVIOUS
<1> USE ProcConstants, SlotFacts DEF ProcInv, CPUInv, TypeOK, ResumePCs, OpenPCs,
     ThreadInv, Live
<1>0. CASE UNCHANGED vars
  BY <1>0 DEF vars
<1>1. ASSUME NEW c \in CPUs, SchedAcquire(c) PROVE ThreadInv'
  BY <1>1 DEF SchedAcquire, tableVars, threadVars
<1>2. ASSUME NEW c \in CPUs, SchedPick(c) PROVE ThreadInv'
  BY <1>2 DEF SchedPick, tableVars, threadVars, First, Candidates, ScanAfter
<1>3. ASSUME NEW c \in CPUs, SchedRelease(c) PROVE ThreadInv'
  BY <1>3 DEF SchedRelease, tableVars, threadVars
<1>4. ASSUME NEW c \in CPUs, Swtch(c) PROVE ThreadInv'
  BY <1>4 DEF Swtch, tableVars, threadVars
<1>5. ASSUME NEW c \in CPUs, TimerIntr(c) PROVE ThreadInv'
  BY <1>5 DEF TimerIntr, tableVars, threadVars, InterruptsOn
<1>6. ASSUME NEW c \in CPUs, Tick(c) PROVE ThreadInv'
  BY <1>6 DEF Tick, tableVars, threadVars, TickDown
<1>7. ASSUME NEW c \in CPUs, TickWake(c) PROVE ThreadInv'
  BY <1>7 DEF TickWake, tableVars, threadVars, AfterTick, Wakeup1
<1>8. ASSUME NEW c \in CPUs, Yield(c) PROVE ThreadInv'
  BY <1>8 DEF Yield, tableVars, threadVars, IntoSched
<1>9. ASSUME NEW c \in CPUs, NEW p \in Slots, ForkRet(c, p) PROVE ThreadInv'
  BY <1>9 DEF ForkRet, tableVars, threadVars, Runs, Goto
<1>10. ASSUME NEW c \in CPUs, NEW p \in Slots, Pushcli(c, p) PROVE ThreadInv'
  BY <1>10 DEF Pushcli, tableVars, threadVars, Runs, Goto
<1>11. ASSUME NEW c \in CPUs, NEW p \in Slots, YieldResume(c, p) PROVE ThreadInv'
  BY <1>11 DEF YieldResume, tableVars, threadVars, Runs, Goto
<1>12. ASSUME NEW c \in CPUs, NEW p \in Slots, ForkAlloc(c, p) PROVE ThreadInv'
  BY <1>12 DEF ForkAlloc, tableVars, threadVars, Runs, Goto, Syscall, First, Free,
       ForkInv, Place, ForkPCs
<1>13. ASSUME NEW c \in CPUs, NEW p \in Slots, ForkStack(c, p) PROVE ThreadInv'
  BY <1>13 DEF ForkStack, tableVars, threadVars, Runs, Goto, ForkInv, Place, ForkPCs
<1>14. ASSUME NEW c \in CPUs, NEW p \in Slots, ForkFail(c, p) PROVE ThreadInv'
  BY <1>14 DEF ForkFail, tableVars, threadVars, Runs, Goto, ForkInv, Place, ForkPCs
<1>15. ASSUME NEW c \in CPUs, NEW p \in Slots, ForkCopy(c, p) PROVE ThreadInv'
  BY <1>15 DEF ForkCopy, tableVars, threadVars, Runs, Goto
<1>16. ASSUME NEW c \in CPUs, NEW p \in Slots, ForkReady(c, p) PROVE ThreadInv'
  BY <1>16 DEF ForkReady, tableVars, threadVars, Runs, Goto, ForkInv, Place, ForkPCs
<1>17. ASSUME NEW c \in CPUs, NEW p \in Slots, Exit(c, p) PROVE ThreadInv'
  BY <1>17, SMTT(30) DEF Exit, tableVars, threadVars, Runs, Goto, TrapKills,
       IntoSched, Reparent, WakeInit, WakeParent, Wakeup1, Children, ForkInv,
       Place, ForkPCs
<1>18. ASSUME NEW c \in CPUs, NEW p \in Slots, WaitReap(c, p) PROVE ThreadInv'
  BY <1>18 DEF WaitReap, tableVars, threadVars, Runs, Goto, InWait, Syscall,
       First, Zombies, Children
<1>19. ASSUME NEW c \in CPUs, NEW p \in Slots, WaitFail(c, p) PROVE ThreadInv'
  BY <1>19 DEF WaitFail, tableVars, threadVars, Runs, Goto, InWait, Syscall
<1>20. ASSUME NEW c \in CPUs, NEW p \in Slots, WaitSleep(c, p) PROVE ThreadInv'
  BY <1>20 DEF WaitSleep, tableVars, threadVars, Runs, Goto, InWait, Syscall,
       IntoSched
<1>21. ASSUME NEW c \in CPUs, NEW p \in Slots, NEW n \in KillPids, Kill(c, p, n)
       PROVE ThreadInv'
  BY <1>21 DEF Kill, tableVars, threadVars, Runs, Goto, Syscall, First, Roused
<1>22. ASSUME NEW c \in CPUs, NEW p \in Slots, SysSleep(c, p) PROVE ThreadInv'
  BY <1>22 DEF SysSleep, tableVars, threadVars, Runs, Goto, Syscall
<1>23. ASSUME NEW c \in CPUs, NEW p \in Slots, SleepReturn(c, p) PROVE ThreadInv'
  BY <1>23 DEF SleepReturn, tableVars, threadVars, Runs, Goto
<1>24. ASSUME NEW c \in CPUs, NEW p \in Slots, SleepCall(c, p) PROVE ThreadInv'
  BY <1>24 DEF SleepCall, tableVars, threadVars, Runs, Goto, HoldIntoSleep
<1>25. ASSUME NEW c \in CPUs, NEW p \in Slots, Sleep(c, p) PROVE ThreadInv'
  BY <1>25 DEF Sleep, tableVars, threadVars, Runs, Goto, Released, IntoSched
<1>26. ASSUME NEW c \in CPUs, NEW p \in Slots, SleepResume(c, p) PROVE ThreadInv'
  BY <1>26 DEF SleepResume, tableVars, threadVars, Runs, Goto
<1>27. ASSUME NEW c \in CPUs, NEW p \in Slots, SleepRelock(c, p) PROVE ThreadInv'
  BY <1>27 DEF SleepRelock, tableVars, threadVars, Runs, Goto
<1> QED
  BY <1>0, <1>1, <1>2, <1>3, <1>4, <1>5, <1>6, <1>7, <1>8,
     <1>9, <1>10, <1>11, <1>12, <1>13, <1>14, <1>15, <1>16, <1>17,
     <1>18, <1>19, <1>20, <1>21, <1>22, <1>23, <1>24, <1>25, <1>26,
     <1>27, ZenonT(60)
  DEF Next, Scheduler, Interrupt, Resume, Proceed, FromUser

\* Every step keeps the slots of forks under way private.
LEMMA ForkStep == ProcInv /\ [Next]_vars => ForkInv'
<1> SUFFICES ASSUME ProcInv, [Next]_vars PROVE ForkInv'
    OBVIOUS
<1> USE ProcConstants, SlotFacts DEF ProcInv, CPUInv, TypeOK, ResumePCs, OpenPCs,
     ThreadInv, Live, ForkInv, ForkPCs, Place
<1>0. CASE UNCHANGED vars
  BY <1>0 DEF vars
<1>1. ASSUME NEW c \in CPUs, SchedAcquire(c) PROVE ForkInv'
  BY <1>1 DEF SchedAcquire, tableVars, threadVars
<1>2. ASSUME NEW c \in CPUs, SchedPick(c) PROVE ForkInv'
  BY <1>2 DEF SchedPick, tableVars, threadVars, First, Candidates, ScanAfter
<1>3. ASSUME NEW c \in CPUs, SchedRelease(c) PROVE ForkInv'
  BY <1>3 DEF SchedRelease, tableVars, threadVars
<1>4. ASSUME NEW c \in CPUs, Swtch(c) PROVE ForkInv'
  BY <1>4 DEF Swtch, tableVars, threadVars
<1>5. ASSUME NEW c \in CPUs, TimerIntr(c) PROVE ForkInv'
  BY <1>5 DEF TimerIntr, tableVars, threadVars, InterruptsOn
<1>6. ASSUME NEW c \in CPUs, Tick(c) PROVE ForkInv'
  BY <1>6 DEF Tick, tableVars, threadVars, TickDown
<1>7. ASSUME NEW c \in CPUs, TickWake(c) PROVE ForkInv'
  BY <1>7 DEF TickWake, tableVars, threadVars, AfterTick, Wakeup1
<1>8. ASSUME NEW c \in CPUs, Yield(c) PROVE ForkInv'
  BY <1>8 DEF Yield, tableVars, threadVars, IntoSched
<1>9. ASSUME NEW c \in CPUs, NEW p \in Slots, ForkRet(c, p) PROVE ForkInv'
  BY <1>9 DEF ForkRet, tableVars, threadVars, Runs, Goto
<1>10. ASSUME NEW c \in CPUs, NEW p \in Slots, Pushcli(c, p) PROVE ForkInv'
  BY <1>10 DEF Pushcli, tableVars, threadVars, Runs, Goto
<1>11. ASSUME NEW c \in CPUs, NEW p \in Slots, YieldResume(c, p) PROVE ForkInv'
  BY <1>11 DEF YieldResume, tableVars, threadVars, Runs, Goto
<1>12. ASSUME NEW c \in CPUs, NEW p \in Slots, ForkAlloc(c, p) PROVE ForkInv'
  BY <1>12 DEF ForkAlloc, tableVars, threadVars, Runs, Goto, Syscall, First, Free,
       FamilyInv
<1>13. ASSUME NEW c \in CPUs, NEW p \in Slots, ForkStack(c, p) PROVE ForkInv'
  BY <1>13 DEF ForkStack, tableVars, threadVars, Runs, Goto
<1>14. ASSUME NEW c \in CPUs, NEW p \in Slots, ForkFail(c, p) PROVE ForkInv'
  BY <1>14 DEF ForkFail, tableVars, threadVars, Runs, Goto
<1>15. ASSUME NEW c \in CPUs, NEW p \in Slots, ForkCopy(c, p) PROVE ForkInv'
  BY <1>15 DEF ForkCopy, tableVars, threadVars, Runs, Goto, FamilyInv
<1>16. ASSUME NEW c \in CPUs, NEW p \in Slots, ForkReady(c, p) PROVE ForkInv'
  BY <1>16 DEF ForkReady, tableVars, threadVars, Runs, Goto
<1>17. ASSUME NEW c \in CPUs, NEW p \in Slots, Exit(c, p) PROVE ForkInv'
  BY <1>17, SMTT(30) DEF Exit, tableVars, threadVars, Runs, Goto, TrapKills,
       IntoSched, Reparent, WakeInit, WakeParent, Wakeup1, Children, FamilyInv
<1>18. ASSUME NEW c \in CPUs, NEW p \in Slots, WaitReap(c, p) PROVE ForkInv'
  BY <1>18 DEF WaitReap, tableVars, threadVars, Runs, Goto, InWait, Syscall,
       First, Zombies, Children, FamilyInv
<1>19. ASSUME NEW c \in CPUs, NEW p \in Slots, WaitFail(c, p) PROVE ForkInv'
  BY <1>19 DEF WaitFail, tableVars, threadVars, Runs, Goto, InWait, Syscall
<1>20. ASSUME NEW c \in CPUs, NEW p \in Slots, WaitSleep(c, p) PROVE ForkInv'
  BY <1>20 DEF WaitSleep, tableVars, threadVars, Runs, Goto, InWait, Syscall,
       IntoSched
<1>21. ASSUME NEW c \in CPUs, NEW p \in Slots, NEW n \in KillPids, Kill(c, p, n)
       PROVE ForkInv'
  BY <1>21 DEF Kill, tableVars, threadVars, Runs, Goto, Syscall, First, Roused
<1>22. ASSUME NEW c \in CPUs, NEW p \in Slots, SysSleep(c, p) PROVE ForkInv'
  BY <1>22 DEF SysSleep, tableVars, threadVars, Runs, Goto, Syscall
<1>23. ASSUME NEW c \in CPUs, NEW p \in Slots, SleepReturn(c, p) PROVE ForkInv'
  BY <1>23 DEF SleepReturn, tableVars, threadVars, Runs, Goto
<1>24. ASSUME NEW c \in CPUs, NEW p \in Slots, SleepCall(c, p) PROVE ForkInv'
  BY <1>24 DEF SleepCall, tableVars, threadVars, Runs, Goto, HoldIntoSleep
<1>25. ASSUME NEW c \in CPUs, NEW p \in Slots, Sleep(c, p) PROVE ForkInv'
  BY <1>25 DEF Sleep, tableVars, threadVars, Runs, Goto, Released, IntoSched
<1>26. ASSUME NEW c \in CPUs, NEW p \in Slots, SleepResume(c, p) PROVE ForkInv'
  BY <1>26 DEF SleepResume, tableVars, threadVars, Runs, Goto
<1>27. ASSUME NEW c \in CPUs, NEW p \in Slots, SleepRelock(c, p) PROVE ForkInv'
  BY <1>27 DEF SleepRelock, tableVars, threadVars, Runs, Goto
<1> QED
  BY <1>0, <1>1, <1>2, <1>3, <1>4, <1>5, <1>6, <1>7, <1>8,
     <1>9, <1>10, <1>11, <1>12, <1>13, <1>14, <1>15, <1>16, <1>17,
     <1>18, <1>19, <1>20, <1>21, <1>22, <1>23, <1>24, <1>25, <1>26,
     <1>27, ZenonT(60)
  DEF Next, Scheduler, Interrupt, Resume, Proceed, FromUser

\* Every step keeps init and the parents alive.
LEMMA FamilyStep == ProcInv /\ [Next]_vars => FamilyInv'
<1> SUFFICES ASSUME ProcInv, [Next]_vars PROVE FamilyInv'
    OBVIOUS
<1> USE ProcConstants, SlotFacts DEF ProcInv, CPUInv, TypeOK, ResumePCs, OpenPCs,
     ThreadInv, Live, FamilyInv, ParentAlive
<1>0. CASE UNCHANGED vars
  BY <1>0 DEF vars
<1>1. ASSUME NEW c \in CPUs, SchedAcquire(c) PROVE FamilyInv'
  BY <1>1 DEF SchedAcquire, tableVars, threadVars
<1>2. ASSUME NEW c \in CPUs, SchedPick(c) PROVE FamilyInv'
  BY <1>2 DEF SchedPick, tableVars, threadVars, First, Candidates, ScanAfter
<1>3. ASSUME NEW c \in CPUs, SchedRelease(c) PROVE FamilyInv'
  BY <1>3 DEF SchedRelease, tableVars, threadVars
<1>4. ASSUME NEW c \in CPUs, Swtch(c) PROVE FamilyInv'
  BY <1>4 DEF Swtch, tableVars, threadVars
<1>5. ASSUME NEW c \in CPUs, TimerIntr(c) PROVE FamilyInv'
  BY <1>5 DEF TimerIntr, tableVars, threadVars, InterruptsOn
<1>6. ASSUME NEW c \in CPUs, Tick(c) PROVE FamilyInv'
  BY <1>6 DEF Tick, tableVars, threadVars, TickDown
<1>7. ASSUME NEW c \in CPUs, TickWake(c) PROVE FamilyInv'
  BY <1>7 DEF TickWake, tableVars, threadVars, AfterTick, Wakeup1
<1>8. ASSUME NEW c \in CPUs, Yield(c) PROVE FamilyInv'
  BY <1>8 DEF Yield, tableVars, threadVars, IntoSched
<1>9. ASSUME NEW c \in CPUs, NEW p \in Slots, ForkRet(c, p) PROVE FamilyInv'
  BY <1>9 DEF ForkRet, tableVars, threadVars, Runs, Goto
<1>10. ASSUME NEW c \in CPUs, NEW p \in Slots, Pushcli(c, p) PROVE FamilyInv'
  BY <1>10 DEF Pushcli, tableVars, threadVars, Runs, Goto
<1>11. ASSUME NEW c \in CPUs, NEW p \in Slots, YieldResume(c, p) PROVE FamilyInv'
  BY <1>11 DEF YieldResume, tableVars, threadVars, Runs, Goto
<1>12. ASSUME NEW c \in CPUs, NEW p \in Slots, ForkAlloc(c, p) PROVE FamilyInv'
  BY <1>12 DEF ForkAlloc, tableVars, threadVars, Runs, Goto, Syscall, First, Free,
       ForkInv, Place, ForkPCs
<1>13. ASSUME NEW c \in CPUs, NEW p \in Slots, ForkStack(c, p) PROVE FamilyInv'
  BY <1>13 DEF ForkStack, tableVars, threadVars, Runs, Goto, ForkInv, Place, ForkPCs
<1>14. ASSUME NEW c \in CPUs, NEW p \in Slots, ForkFail(c, p) PROVE FamilyInv'
  BY <1>14 DEF ForkFail, tableVars, threadVars, Runs, Goto, ForkInv, Place, ForkPCs
<1>15. ASSUME NEW c \in CPUs, NEW p \in Slots, ForkCopy(c, p) PROVE FamilyInv'
  BY <1>15 DEF ForkCopy, tableVars, threadVars, Runs, Goto, ForkInv, Place, ForkPCs
<1>16. ASSUME NEW c \in CPUs, NEW p \in Slots, ForkReady(c, p) PROVE FamilyInv'
  BY <1>16 DEF ForkReady, tableVars, threadVars, Runs, Goto, ForkInv, Place, ForkPCs
<1>17. ASSUME NEW c \in CPUs, NEW p \in Slots, Exit(c, p) PROVE FamilyInv'
  BY <1>17, SMTT(30) DEF Exit, tableVars, threadVars, Runs, Goto, TrapKills,
       IntoSched, Reparent, WakeInit, WakeParent, Wakeup1, Children, ForkInv,
       Place, ForkPCs
<1>18. ASSUME NEW c \in CPUs, NEW p \in Slots, WaitReap(c, p) PROVE FamilyInv'
  BY <1>18 DEF WaitReap, tableVars, threadVars, Runs, Goto, InWait, Syscall,
       First, Zombies, Children, ForkInv, Place, ForkPCs
<1>19. ASSUME NEW c \in CPUs, NEW p \in Slots, WaitFail(c, p) PROVE FamilyInv'
  BY <1>19 DEF WaitFail, tableVars, threadVars, Runs, Goto, InWait, Syscall
<1>20. ASSUME NEW c \in CPUs, NEW p \in Slots, WaitSleep(c, p) PROVE FamilyInv'
  BY <1>20 DEF WaitSleep, tableVars, threadVars, Runs, Goto, InWait, Syscall,
       IntoSched
<1>21. ASSUME NEW c \in CPUs, NEW p \in Slots, NEW n \in KillPids, Kill(c, p, n)
       PROVE FamilyInv'
  BY <1>21 DEF Kill, tableVars, threadVars, Runs, Goto, Syscall, First, Roused
<1>22. ASSUME NEW c \in CPUs, NEW p \in Slots, SysSleep(c, p) PROVE FamilyInv'
  BY <1>22 DEF SysSleep, tableVars, threadVars, Runs, Goto, Syscall
<1>23. ASSUME NEW c \in CPUs, NEW p \in Slots, SleepReturn(c, p) PROVE FamilyInv'
  BY <1>23 DEF SleepReturn, tableVars, threadVars, Runs, Goto
<1>24. ASSUME NEW c \in CPUs, NEW p \in Slots, SleepCall(c, p) PROVE FamilyInv'
  BY <1>24 DEF SleepCall, tableVars, threadVars, Runs, Goto, HoldIntoSleep
<1>25. ASSUME NEW c \in CPUs, NEW p \in Slots, Sleep(c, p) PROVE FamilyInv'
  BY <1>25 DEF Sleep, tableVars, threadVars, Runs, Goto, Released, IntoSched
<1>26. ASSUME NEW c \in CPUs, NEW p \in Slots, SleepResume(c, p) PROVE FamilyInv'
  BY <1>26 DEF SleepResume, tableVars, threadVars, Runs, Goto
<1>27. ASSUME NEW c \in CPUs, NEW p \in Slots, SleepRelock(c, p) PROVE FamilyInv'
  BY <1>27 DEF SleepRelock, tableVars, threadVars, Runs, Goto
<1> QED
  BY <1>0, <1>1, <1>2, <1>3, <1>4, <1>5, <1>6, <1>7, <1>8,
     <1>9, <1>10, <1>11, <1>12, <1>13, <1>14, <1>15, <1>16, <1>17,
     <1>18, <1>19, <1>20, <1>21, <1>22, <1>23, <1>24, <1>25, <1>26,
     <1>27, ZenonT(60)
  DEF Next, Scheduler, Interrupt, Resume, Proceed, FromUser

\* Every step keeps the sleepers' wakers to come.
LEMMA SleepStep == ProcInv /\ [Next]_vars => SleepInv'
<1> SUFFICES ASSUME ProcInv, [Next]_vars PROVE SleepInv'
    OBVIOUS
<1> USE ProcConstants, SlotFacts DEF ProcInv, CPUInv, TypeOK, ResumePCs, OpenPCs,
     ThreadInv, Live, SleepInv, Children, Zombies
<1>0. CASE UNCHANGED vars
  BY <1>0 DEF vars
<1>1. ASSUME NEW c \in CPUs, SchedAcquire(c) PROVE SleepInv'
  BY <1>1 DEF SchedAcquire, tableVars, threadVars
<1>2. ASSUME NEW c \in CPUs, SchedPick(c) PROVE SleepInv'
  BY <1>2 DEF SchedPick, tableVars, threadVars, First, Candidates, ScanAfter
<1>3. ASSUME NEW c \in CPUs, SchedRelease(c) PROVE SleepInv'
  BY <1>3 DEF SchedRelease, tableVars, threadVars
<1>4. ASSUME NEW c \in CPUs, Swtch(c) PROVE SleepInv'
  BY <1>4 DEF Swtch, tableVars, threadVars
<1>5. ASSUME NEW c \in CPUs, TimerIntr(c) PROVE SleepInv'
  BY <1>5 DEF TimerIntr, tableVars, threadVars, InterruptsOn
<1>6. ASSUME NEW c \in CPUs, Tick(c) PROVE SleepInv'
  <2>1. at'[c] = "wake"
    BY <1>6 DEF Tick
  <2>2. \A p \in Slots : pc[p] # "doze"
    \* A dozing thread is running, and its processor holds tickslock.
    <3> SUFFICES ASSUME NEW p \in Slots, pc[p] = "doze" PROVE FALSE
      OBVIOUS
    <3>1. PICK d \in CPUs : on[d] = p
      BY DEF ProcStates
    <3>2. at[d] = "run"
      BY <3>1
    <3> QED
      BY <1>6, <3>1, <3>2 DEF Tick
  <2> QED
    BY <1>6, <2>1, <2>2 DEF Tick, tableVars
<1>7. ASSUME NEW c \in CPUs, TickWake(c) PROVE SleepInv'
  BY <1>7 DEF TickWake, tableVars, threadVars, AfterTick, Wakeup1
<1>8. ASSUME NEW c \in CPUs, Yield(c) PROVE SleepInv'
  BY <1>8 DEF Yield, tableVars, threadVars, IntoSched
<1>9. ASSUME NEW c \in CPUs, NEW p \in Slots, ForkRet(c, p) PROVE SleepInv'
  BY <1>9 DEF ForkRet, tableVars, threadVars, Runs, Goto
<1>10. ASSUME NEW c \in CPUs, NEW p \in Slots, Pushcli(c, p) PROVE SleepInv'
  BY <1>10 DEF Pushcli, tableVars, threadVars, Runs, Goto
<1>11. ASSUME NEW c \in CPUs, NEW p \in Slots, YieldResume(c, p) PROVE SleepInv'
  BY <1>11 DEF YieldResume, tableVars, threadVars, Runs, Goto
<1>12. ASSUME NEW c \in CPUs, NEW p \in Slots, ForkAlloc(c, p) PROVE SleepInv'
  BY <1>12 DEF ForkAlloc, tableVars, threadVars, Runs, Goto, Syscall, First, Free,
       ForkInv, Place, ForkPCs
<1>13. ASSUME NEW c \in CPUs, NEW p \in Slots, ForkStack(c, p) PROVE SleepInv'
  BY <1>13 DEF ForkStack, tableVars, threadVars, Runs, Goto, ForkInv, Place, ForkPCs
<1>14. ASSUME NEW c \in CPUs, NEW p \in Slots, ForkFail(c, p) PROVE SleepInv'
  BY <1>14 DEF ForkFail, tableVars, threadVars, Runs, Goto, ForkInv, Place, ForkPCs
<1>15. ASSUME NEW c \in CPUs, NEW p \in Slots, ForkCopy(c, p) PROVE SleepInv'
  BY <1>15 DEF ForkCopy, tableVars, threadVars, Runs, Goto, ForkInv, Place,
       ForkPCs, FamilyInv
<1>16. ASSUME NEW c \in CPUs, NEW p \in Slots, ForkReady(c, p) PROVE SleepInv'
  BY <1>16 DEF ForkReady, tableVars, threadVars, Runs, Goto, ForkInv, Place, ForkPCs
<1>17. ASSUME NEW c \in CPUs, NEW p \in Slots, Exit(c, p) PROVE SleepInv'
  BY <1>17, SMTT(30) DEF Exit, tableVars, threadVars, Runs, Goto, TrapKills,
       IntoSched, Reparent, WakeInit, WakeParent, Wakeup1, Children, ForkInv,
       Place, ForkPCs, FamilyInv
<1>18. ASSUME NEW c \in CPUs, NEW p \in Slots, WaitReap(c, p) PROVE SleepInv'
  BY <1>18 DEF WaitReap, tableVars, threadVars, Runs, Goto, InWait, Syscall,
       First, Zombies, Children, FamilyInv
<1>19. ASSUME NEW c \in CPUs, NEW p \in Slots, WaitFail(c, p) PROVE SleepInv'
  BY <1>19 DEF WaitFail, tableVars, threadVars, Runs, Goto, InWait, Syscall
<1>20. ASSUME NEW c \in CPUs, NEW p \in Slots, WaitSleep(c, p) PROVE SleepInv'
  BY <1>20 DEF WaitSleep, tableVars, threadVars, Runs, Goto, InWait, Syscall,
       IntoSched
<1>21. ASSUME NEW c \in CPUs, NEW p \in Slots, NEW n \in KillPids, Kill(c, p, n)
       PROVE SleepInv'
  BY <1>21 DEF Kill, tableVars, threadVars, Runs, Goto, Syscall, First, Roused
<1>22. ASSUME NEW c \in CPUs, NEW p \in Slots, SysSleep(c, p) PROVE SleepInv'
  BY <1>22 DEF SysSleep, tableVars, threadVars, Runs, Goto, Syscall
<1>23. ASSUME NEW c \in CPUs, NEW p \in Slots, SleepReturn(c, p) PROVE SleepInv'
  BY <1>23 DEF SleepReturn, tableVars, threadVars, Runs, Goto
<1>24. ASSUME NEW c \in CPUs, NEW p \in Slots, SleepCall(c, p) PROVE SleepInv'
  BY <1>24 DEF SleepCall, tableVars, threadVars, Runs, Goto, HoldIntoSleep,
       SleepDone
<1>25. ASSUME NEW c \in CPUs, NEW p \in Slots, Sleep(c, p) PROVE SleepInv'
  BY <1>25 DEF Sleep, tableVars, threadVars, Runs, Goto, Released, IntoSched,
       ForkInv, Place, ForkPCs
<1>26. ASSUME NEW c \in CPUs, NEW p \in Slots, SleepResume(c, p) PROVE SleepInv'
  BY <1>26 DEF SleepResume, tableVars, threadVars, Runs, Goto
<1>27. ASSUME NEW c \in CPUs, NEW p \in Slots, SleepRelock(c, p) PROVE SleepInv'
  BY <1>27 DEF SleepRelock, tableVars, threadVars, Runs, Goto
<1> QED
  BY <1>0, <1>1, <1>2, <1>3, <1>4, <1>5, <1>6, <1>7, <1>8,
     <1>9, <1>10, <1>11, <1>12, <1>13, <1>14, <1>15, <1>16, <1>17,
     <1>18, <1>19, <1>20, <1>21, <1>22, <1>23, <1>24, <1>25, <1>26,
     <1>27, ZenonT(60)
  DEF Next, Scheduler, Interrupt, Resume, Proceed, FromUser

-----------------------------------------------------------------------------
LEMMA InitInv == Init => ProcInv
<1> SUFFICES ASSUME Init PROVE ProcInv
    OBVIOUS
<1> USE ProcConstants, SlotFacts DEF Init
<1>1. TypeOK
  BY DEF TypeOK, ProcStates, OpenPCs, SwtchPCs, PCs
<1>2. CPUInv
  BY DEF CPUInv
<1>3. ThreadInv
  BY DEF ThreadInv, ResumePCs, Live
<1>4. ForkInv
  BY DEF ForkInv, ForkPCs, Place
<1>5. FamilyInv
  BY DEF FamilyInv, ParentAlive, Live
<1>6. SleepInv
  BY DEF SleepInv
<1> QED
  BY <1>1, <1>2, <1>3, <1>4, <1>5, <1>6 DEF ProcInv

\* The inductive invariant: all six parts hold in every reachable state.
THEOREM ProcInvariant == Spec => []ProcInv
<1>1. ProcInv /\ [Next]_vars => ProcInv'
  BY TypeStep, CPUStep, ThreadStep, ForkStep, FamilyStep, SleepStep DEF ProcInv
<1> QED
  BY InitInv, <1>1, PTL DEF Spec

\* Type correctness of the process table, the processors and the locks.
THEOREM ProcTypeCorrect == Spec => []TypeOK
<1>1. ProcInv => TypeOK
  BY DEF ProcInv
<1> QED
  BY ProcInvariant, <1>1, PTL

\* Two processors never run on one thread's stack, and a running thread is on
\* one: ptable.lock, passed from thread to thread across swtch, is enough.
THEOREM OneThreadPerStack == Spec => []RunningOnOneCPU
<1>1. ProcInv => RunningOnOneCPU
  BY DEF ProcInv, TypeOK, CPUInv, ThreadInv, RunningOnOneCPU
<1> QED
  BY ProcInvariant, <1>1, PTL

\* No processor runs on a stack that wait or fork's error paths have freed.
THEOREM StacksStayInUse == Spec => []StackInUse
<1>1. ProcInv => StackInUse
  BY DEF ProcInv, TypeOK, CPUInv, ThreadInv, StackInUse, Live
<1> QED
  BY ProcInvariant, <1>1, PTL

\* The assertions of sched() never fail.
THEOREM SchedNeverPanics == Spec => []SchedAsserts
<1>1. ProcInv => SchedAsserts
  BY SlotFacts DEF ProcInv, TypeOK, CPUInv, ThreadInv, SchedAsserts
<1> QED
  BY ProcInvariant, <1>1, PTL

\* A fork's slot is its own from allocproc to the end of fork.
THEOREM EmbryosArePrivate == Spec => []EmbryoIsPrivate
<1>1. ProcInv => EmbryoIsPrivate
  <2> SUFFICES ASSUME ProcInv PROVE EmbryoIsPrivate
      OBVIOUS
  <2> USE DEF ProcInv
  <2>1. ASSUME NEW p \in Slots, child[p] # NoProc PROVE state[p] \in Live
    BY <2>1 DEF TypeOK, ProcStates, ForkInv, ThreadInv, Place, ForkPCs, Live
  <2> QED
    BY <2>1 DEF ForkInv, EmbryoIsPrivate
<1> QED
  BY ProcInvariant, <1>1, PTL

\* Every process but init always has a live parent to collect it.
THEOREM ParentsStayAlive == Spec => []ParentAlive
<1>1. ProcInv => ParentAlive
  BY DEF ProcInv, FamilyInv
<1> QED
  BY ProcInvariant, <1>1, PTL

\* A tick cannot slip between sys_sleep's test and its sleep.
THEOREM NoTickIsLost == Spec => []NoLostWakeup
<1>1. ProcInv => NoLostWakeup
  BY ProcConstants DEF ProcInv, CPUInv, SleepInv, NoLostWakeup
<1> QED
  BY ProcInvariant, <1>1, PTL

\* An exit cannot slip between wait's scan and its sleep, nor leave a zombie
\* with a sleeping adoptive parent.
THEOREM NoZombieIsMissed == Spec => []NoLostChild
<1>1. ProcInv => NoLostChild
  BY DEF ProcInv, SleepInv, NoLostChild
<1> QED
  BY ProcInvariant, <1>1, PTL
=============================================================================
