------------------------------- MODULE Proc -------------------------------
(***************************************************************************)
(* Processes and their scheduling in xv6: the process table, fork, exit,   *)
(* wait, kill, sleep and wakeup, the per-CPU scheduler with swtch, and the  *)
(* timer interrupt (proc.c, trap.c, sys_sleep of sysproc.c).               *)
(*                                                                         *)
(* ptable.lock is held across swtch: sched() enters the scheduler with the *)
(* lock that its caller took, and the thread the scheduler resumes is the  *)
(* one that releases it.  A critical section with no swtch in it is one    *)
(* step, taken when the lock is free; the others are cut at the swtch.     *)
(* What a thread does on either side of a lock (allocating a stack, copying *)
(* memory) is a step of its own, and a timer interrupt may preempt the     *)
(* thread between any two steps in which it holds no lock.                 *)
(***************************************************************************)
EXTENDS Integers, FiniteSets

CONSTANTS
    NPROC,      \* the slots of ptable (param.h)
    CPUs,       \* the processors
    BootCPU,    \* cpuid() = 0, the one that counts ticks
    NoCPU,      \* a lock nobody holds
    KillPids,   \* the arguments kill is called with
    MaxPid,     \* bound: the last pid given out
    MaxSleep    \* bound: the argument of sys_sleep

Slots    == 1 .. NPROC
initproc == 1
NoProc   == 0
NoChan   == 0
Ticks    == NPROC + 1   \* the channel &ticks; a slot is wait's channel

ASSUME ProcConstants ==
    /\ NPROC \in Nat /\ NPROC > 0
    /\ BootCPU \in CPUs
    /\ NoCPU \notin CPUs
    /\ MaxPid \in Nat \ {0} /\ MaxSleep \in Nat
    \* init.c never exits, and nobody kills it (kill(1) ends in a panic).
    /\ KillPids \subseteq Nat \ {1}

VARIABLES
    state,      \* p->state
    chan,       \* p->chan
    killed,     \* p->killed
    parent,     \* p->parent
    pid,        \* p->pid
    kstack,     \* p->kstack # 0
    nextpid,
    lk,         \* the CPU that holds ptable.lock
    tk,         \* the CPU that holds tickslock
    on,         \* the thread whose stack a CPU runs on; NoProc: its scheduler's
    at,         \* what the CPU is doing
    idx,        \* the scheduler's position in its scan of the table
    pc,         \* where each thread is, or will resume
    back,       \* where a preempted thread goes on
    child,      \* the slot a fork is filling
    left        \* n - (ticks - ticks0) in sys_sleep

tableVars == <<state, chan, killed, parent, pid, kstack, nextpid>>
threadVars == <<back, child, left>>
vars == <<state, chan, killed, parent, pid, kstack, nextpid, lk, tk, on, at,
          idx, pc, back, child, left>>

ProcStates == {"UNUSED", "EMBRYO", "SLEEPING", "RUNNABLE", "RUNNING", "ZOMBIE"}
Live       == {"SLEEPING", "RUNNABLE", "RUNNING"}

\* Where a thread can be preempted, and where swtch leaves or resumes one.
OpenPCs  == {"user", "fork_stack", "fork_copy", "fork_ready", "relock"}
SwtchPCs == {"forkret", "yielded", "slept", "waited", "dead"}
PCs      == OpenPCs \cup SwtchPCs \cup {"fork_spin", "relock_spin", "test", "doze"}
-----------------------------------------------------------------------------
\* userinit has made the first process; every CPU is entering scheduler().
Init ==
    /\ state = [p \in Slots |-> IF p = initproc THEN "RUNNABLE" ELSE "UNUSED"]
    /\ chan = [p \in Slots |-> NoChan]
    /\ killed = [p \in Slots |-> FALSE]
    /\ parent = [p \in Slots |-> NoProc]
    /\ pid = [p \in Slots |-> IF p = initproc THEN 1 ELSE 0]
    /\ kstack = [p \in Slots |-> p = initproc]
    /\ nextpid = 2
    /\ lk = NoCPU /\ tk = NoCPU
    /\ on = [c \in CPUs |-> NoProc]
    /\ at = [c \in CPUs |-> "idle"]
    /\ idx = [c \in CPUs |-> 1]
    /\ pc = [p \in Slots |-> "forkret"]
    /\ back = [p \in Slots |-> "user"]
    /\ child = [p \in Slots |-> NoProc]
    /\ left = [p \in Slots |-> 0]
-----------------------------------------------------------------------------
(* The scheduler of each CPU.                                              *)

SchedAcquire(c) ==
    /\ at[c] = "idle"
    /\ lk = NoCPU
    /\ lk' = c
    /\ at' = [at EXCEPT ![c] = "scan"]
    /\ idx' = [idx EXCEPT ![c] = 1]
    /\ UNCHANGED <<tableVars, tk, on, pc, threadVars>>

\* The slots the scan has still to pass, and where it goes on afterwards.
Candidates(c) == {p \in Slots : p >= idx[c] /\ state[p] = "RUNNABLE"}

\* A loop over the table that stops at the first slot of S.
First(p, S) == p \in S /\ \A q \in S : p <= q

FromTheStart(p) == 1

ScanAfter(p) == p + 1

\* Switch to the next RUNNABLE process; it will release the lock.
SchedPick(c) ==
    /\ at[c] = "scan"
    /\ \E p \in Slots :
       /\ First(p, Candidates(c))
       /\ state' = [state EXCEPT ![p] = "RUNNING"]
       /\ on' = [on EXCEPT ![c] = p]
       /\ idx' = [idx EXCEPT ![c] = ScanAfter(p)]
    /\ at' = [at EXCEPT ![c] = "run"]
    /\ UNCHANGED <<chan, killed, parent, pid, kstack, nextpid, lk, tk, pc,
                   threadVars>>

\* The end of the table: release the lock and enable interrupts.
SchedRelease(c) ==
    /\ at[c] = "scan"
    /\ Candidates(c) = {}
    /\ lk' = NoCPU
    /\ at' = [at EXCEPT ![c] = "idle"]
    /\ UNCHANGED <<tableVars, tk, on, idx, pc, threadVars>>

\* sched() calls swtch: the CPU leaves the thread's stack.
Swtch(c) ==
    /\ at[c] = "sched"
    /\ on' = [on EXCEPT ![c] = NoProc]
    /\ at' = [at EXCEPT ![c] = "scan"]
    /\ UNCHANGED <<tableVars, lk, tk, idx, pc, threadVars>>

\* ptable.lock as its taker leaves it when it enters sched().
ReleasedEarly(c) == NoCPU

IntoSched(c) == c
-----------------------------------------------------------------------------
(* The timer interrupt.                                                    *)

InterruptsOn(c) ==
    \/ at[c] = "idle"
    \/ at[c] = "run" /\ lk # c /\ pc[on[c]] \in OpenPCs

AfterTick(c) == IF on[c] = NoProc THEN "idle" ELSE "yield"

TimerIntr(c) ==
    /\ InterruptsOn(c)
    /\ c = BootCPU \/ on[c] # NoProc
    /\ at' = [at EXCEPT ![c] = IF c = BootCPU THEN "tick" ELSE "yield"]
    /\ UNCHANGED <<tableVars, lk, tk, on, idx, pc, threadVars>>

\* ticks - ticks0 < n, as the number of ticks still to come.
TickUnclamped(p) == left[p] - 1

TickDown(p) == IF left[p] = 0 THEN 0 ELSE left[p] - 1

\* acquire(&tickslock); ticks++.  A thread outside sys_sleep has left = 0.
Tick(c) ==
    /\ at[c] = "tick"
    /\ tk = NoCPU
    /\ tk' = c
    /\ left' = [p \in Slots |-> TickDown(p)]
    /\ at' = [at EXCEPT ![c] = "wake"]
    /\ UNCHANGED <<tableVars, lk, on, idx, pc, back, child>>

\* wakeup1: state with the sleepers on ch made RUNNABLE.
WakeNone(st, ch) == st

Wakeup1(st, ch) ==
    [p \in Slots |-> IF st[p] = "SLEEPING" /\ chan[p] = ch THEN "RUNNABLE"
                     ELSE st[p]]

\* wakeup(&ticks); release(&tickslock).
TickWake(c) ==
    /\ at[c] = "wake"
    /\ lk = NoCPU
    /\ state' = Wakeup1(state, Ticks)
    /\ tk' = NoCPU
    /\ at' = [at EXCEPT ![c] = AfterTick(c)]
    /\ UNCHANGED <<chan, killed, parent, pid, kstack, nextpid, lk, on, idx, pc,
                   threadVars>>

\* trap() makes a killed process that was in user mode exit; see Exit.
TrapKills(c, p) == at[c] = "yield" /\ on[c] = p /\ pc[p] = "user" /\ killed[p]

\* The end of trap(): a process that was running gives up the CPU.
Yield(c) ==
    /\ at[c] = "yield"
    /\ ~TrapKills(c, on[c])
    /\ lk = NoCPU
    /\ lk' = IntoSched(c)
    /\ at' = [at EXCEPT ![c] = "sched"]
    /\ LET p == on[c] IN
       /\ state' = [state EXCEPT ![p] = "RUNNABLE"]
       /\ back' = [back EXCEPT ![p] = pc[p]]
       /\ pc' = [pc EXCEPT ![p] = "yielded"]
    /\ UNCHANGED <<chan, killed, parent, pid, kstack, nextpid, tk, on, idx,
                   child, left>>
-----------------------------------------------------------------------------
(* The threads.  Thread p runs on CPU c.                                   *)

Runs(c, p, label) == at[c] = "run" /\ on[c] = p /\ pc[p] = label

Goto(p, label) == pc' = [pc EXCEPT ![p] = label]

\* A system call by a process that has not been killed (trap.c).
Syscall(c, p) == Runs(c, p, "user") /\ lk # c /\ ~killed[p]

\* The first return of a new process from the scheduler.
ForkRet(c, p) ==
    /\ Runs(c, p, "forkret")
    /\ lk' = NoCPU
    /\ Goto(p, "user")
    /\ UNCHANGED <<tableVars, tk, on, at, idx, threadVars>>

\* acquire() first disables interrupts on the CPU, then spins.
Pushcli(c, p) ==
    /\ \/ Runs(c, p, "fork_ready") /\ Goto(p, "fork_spin")
       \/ Runs(c, p, "relock") /\ Goto(p, "relock_spin")
    /\ UNCHANGED <<tableVars, lk, tk, on, at, idx, threadVars>>

YieldResume(c, p) ==
    /\ Runs(c, p, "yielded")
    /\ lk' = NoCPU
    /\ Goto(p, back[p])
    /\ back' = [back EXCEPT ![p] = "user"]
    /\ UNCHANGED <<tableVars, tk, on, at, idx, child, left>>

\* What allocproc takes for a free slot.
Free(q) == state[q] = "UNUSED"

\* allocproc, up to its release of the lock.
ForkAlloc(c, p) ==
    /\ Syscall(c, p)
    /\ lk = NoCPU
    /\ nextpid <= MaxPid
    /\ \E np \in Slots :
          /\ First(np, {q \in Slots : Free(q)})
          /\ state' = [state EXCEPT ![np] = "EMBRYO"]
          /\ pid' = [pid EXCEPT ![np] = nextpid]
          /\ child' = [child EXCEPT ![p] = np]
    /\ nextpid' = nextpid + 1
    /\ Goto(p, "fork_stack")
    /\ UNCHANGED <<chan, killed, parent, kstack, lk, tk, on, at, idx, back, left>>

\* kalloc for the kernel stack succeeds; the new thread will start at forkret.
ForkStack(c, p) ==
    /\ Runs(c, p, "fork_stack")
    /\ kstack' = [kstack EXCEPT ![child[p]] = TRUE]
    /\ pc' = [pc EXCEPT ![p] = "fork_copy", ![child[p]] = "forkret"]
    /\ UNCHANGED <<state, chan, killed, parent, pid, nextpid, lk, tk, on, at,
                   idx, threadVars>>

\* Either allocation fails: the slot is given back without the lock.
ForkFail(c, p) ==
    /\ \/ Runs(c, p, "fork_stack")
       \/ Runs(c, p, "fork_copy")
    /\ kstack' = [kstack EXCEPT ![child[p]] = FALSE]
    /\ state' = [state EXCEPT ![child[p]] = "UNUSED"]
    /\ child' = [child EXCEPT ![p] = NoProc]
    /\ Goto(p, "user")
    /\ UNCHANGED <<chan, killed, parent, pid, nextpid, lk, tk, on, at, idx,
                   back, left>>

\* copyuvm succeeds, and the rest of the process is copied.
ForkCopy(c, p) ==
    /\ Runs(c, p, "fork_copy")
    /\ parent' = [parent EXCEPT ![child[p]] = p]
    /\ Goto(p, "fork_ready")
    /\ UNCHANGED <<state, chan, killed, pid, kstack, nextpid, lk, tk, on, at,
                   idx, threadVars>>

ForkReady(c, p) ==
    /\ Runs(c, p, "fork_spin")
    /\ lk = NoCPU
    /\ state' = [state EXCEPT ![child[p]] = "RUNNABLE"]
    /\ child' = [child EXCEPT ![p] = NoProc]
    /\ Goto(p, "user")
    /\ UNCHANGED <<chan, killed, parent, pid, kstack, nextpid, lk, tk, on, at,
                   idx, back, left>>
-----------------------------------------------------------------------------
Children(p) == {q \in Slots : parent[q] = p}

\* exit passes p's children to init and wakes init for one that is a zombie.
KeepChildren(p) == parent

Reparent(p) == [q \in Slots |-> IF parent[q] = p THEN initproc ELSE parent[q]]

WakeNobody(st, p) == st

WakeParent(st, p) == Wakeup1(st, parent[p])

WakeInit(st, p) ==
    IF \E q \in Children(p) : st[q] = "ZOMBIE" THEN Wakeup1(st, initproc) ELSE st

\* exit, called by the process itself or by trap() for a killed one.
Exit(c, p) ==
    /\ Runs(c, p, "user") \/ TrapKills(c, p)
    /\ p # initproc
    /\ lk = NoCPU
    /\ lk' = IntoSched(c)
    /\ parent' = Reparent(p)
    /\ state' = [WakeInit(WakeParent(state, p), p) EXCEPT ![p] = "ZOMBIE"]
    /\ at' = [at EXCEPT ![c] = "sched"]
    /\ Goto(p, "dead")
    /\ UNCHANGED <<chan, killed, pid, kstack, nextpid, tk, on, idx, threadVars>>

Zombies(p) == {q \in Children(p) : state[q] = "ZOMBIE"}

\* The lock is wait's: just acquired, or handed over with the CPU by the scheduler.
InWait(c, p) ==
    \/ Syscall(c, p) /\ lk = NoCPU
    \/ Runs(c, p, "waited")

WaitReap(c, p) ==
    /\ InWait(c, p)
    /\ \E q \in Slots :
       /\ First(q, Zombies(p))
       /\ kstack' = [kstack EXCEPT ![q] = FALSE]
       /\ pid' = [pid EXCEPT ![q] = 0]
       /\ parent' = [parent EXCEPT ![q] = NoProc]
       /\ killed' = [killed EXCEPT ![q] = FALSE]
       /\ state' = [state EXCEPT ![q] = "UNUSED"]
    /\ chan' = [chan EXCEPT ![p] = NoChan]
    /\ lk' = NoCPU
    /\ Goto(p, "user")
    /\ UNCHANGED <<nextpid, tk, on, at, idx, threadVars>>

\* No children, or killed: wait returns -1.
WaitFail(c, p) ==
    /\ InWait(c, p)
    /\ Zombies(p) = {}
    /\ Children(p) = {} \/ killed[p]
    /\ chan' = [chan EXCEPT ![p] = NoChan]
    /\ lk' = NoCPU
    /\ Goto(p, "user")
    /\ UNCHANGED <<state, killed, parent, pid, kstack, nextpid, tk, on, at, idx,
                   threadVars>>

WaitSleep(c, p) ==
    /\ InWait(c, p)
    /\ Zombies(p) = {}
    /\ Children(p) # {} /\ ~killed[p]
    /\ chan' = [chan EXCEPT ![p] = p]
    /\ state' = [state EXCEPT ![p] = "SLEEPING"]
    /\ lk' = IntoSched(c)
    /\ at' = [at EXCEPT ![c] = "sched"]
    /\ Goto(p, "waited")
    /\ UNCHANGED <<killed, parent, pid, kstack, nextpid, tk, on, idx, threadVars>>

NotRoused(s) == s

Roused(s) == IF s = "SLEEPING" THEN "RUNNABLE" ELSE s

\* kill(n): the first slot with that pid, whatever its state.
Kill(c, p, n) ==
    /\ Syscall(c, p)
    /\ lk = NoCPU
    /\ \E q \in Slots :
          /\ First(q, {r \in Slots : pid[r] = n})
          /\ killed' = [killed EXCEPT ![q] = TRUE]
          /\ state' = [state EXCEPT ![q] = Roused(@)]
    /\ UNCHANGED <<chan, parent, pid, kstack, nextpid, lk, tk, on, at, idx, pc,
                   threadVars>>
-----------------------------------------------------------------------------
(* sys_sleep(n), and the sleep(&ticks, &tickslock) in its loop.            *)

SysSleep(c, p) ==
    /\ Syscall(c, p)
    /\ tk = NoCPU
    /\ tk' = c
    /\ \E n \in 0 .. MaxSleep : left' = [left EXCEPT ![p] = n]
    /\ Goto(p, "test")
    /\ UNCHANGED <<tableVars, lk, on, at, idx, back, child>>

\* The loop's tests, with tickslock held: return, or call sleep.
DropThenSleep == NoCPU

HoldIntoSleep == tk

SleepDone(p) == left[p] = 0 \/ killed[p]

SleepReturn(c, p) ==
    /\ Runs(c, p, "test")
    /\ SleepDone(p)
    /\ tk' = NoCPU
    /\ left' = [left EXCEPT ![p] = 0]
    /\ Goto(p, "user")
    /\ UNCHANGED <<tableVars, lk, on, at, idx, back, child>>

SleepCall(c, p) ==
    /\ Runs(c, p, "test")
    /\ ~SleepDone(p)
    /\ tk' = HoldIntoSleep
    /\ Goto(p, "doze")
    /\ UNCHANGED <<tableVars, lk, on, at, idx, threadVars>>

\* tickslock after sleep's release(lk).
Released == NoCPU

\* sleep: acquire(&ptable.lock), release(lk), and into sched.
Sleep(c, p) ==
    /\ Runs(c, p, "doze")
    /\ lk = NoCPU
    /\ lk' = IntoSched(c)
    /\ tk' = Released
    /\ chan' = [chan EXCEPT ![p] = Ticks]
    /\ state' = [state EXCEPT ![p] = "SLEEPING"]
    /\ at' = [at EXCEPT ![c] = "sched"]
    /\ Goto(p, "slept")
    /\ UNCHANGED <<killed, parent, pid, kstack, nextpid, on, idx, threadVars>>

SleepResume(c, p) ==
    /\ Runs(c, p, "slept")
    /\ chan' = [chan EXCEPT ![p] = NoChan]
    /\ lk' = NoCPU
    /\ Goto(p, "relock")
    /\ UNCHANGED <<state, killed, parent, pid, kstack, nextpid, tk, on, at, idx,
                   threadVars>>

SleepRelock(c, p) ==
    /\ Runs(c, p, "relock_spin")
    /\ tk = NoCPU
    /\ tk' = c
    /\ Goto(p, "test")
    /\ UNCHANGED <<tableVars, lk, on, at, idx, threadVars>>
-----------------------------------------------------------------------------
Scheduler(c) ==
    SchedAcquire(c) \/ SchedPick(c) \/ SchedRelease(c) \/ Swtch(c)

Interrupt(c) == Tick(c) \/ TickWake(c) \/ Yield(c)

\* What a thread does first when the scheduler has resumed it.
Resume(c, p) ==
    \/ ForkRet(c, p) \/ YieldResume(c, p) \/ SleepResume(c, p)
    \/ pc[p] = "waited" /\ (WaitReap(c, p) \/ WaitFail(c, p) \/ WaitSleep(c, p))

\* What it does in the kernel from there, whatever its program does: the rest of
\* a system call, and the exit that trap() makes a killed process take at the
\* next system call or timer interrupt.
Proceed(c, p) ==
    \/ Pushcli(c, p)
    \/ ForkStack(c, p) \/ ForkFail(c, p) \/ ForkCopy(c, p) \/ ForkReady(c, p)
    \/ SleepReturn(c, p) \/ SleepCall(c, p) \/ Sleep(c, p) \/ SleepRelock(c, p)
    \/ killed[p] /\ Exit(c, p)

\* What the program asks for, from user mode.
FromUser(c, p) ==
    \/ ForkAlloc(c, p) \/ Exit(c, p) \/ SysSleep(c, p)
    \/ pc[p] = "user" /\ (WaitReap(c, p) \/ WaitFail(c, p) \/ WaitSleep(c, p))
    \/ \E n \in KillPids : Kill(c, p, n)

Next ==
    \E c \in CPUs :
        \/ Scheduler(c) \/ TimerIntr(c) \/ Interrupt(c)
        \/ \E p \in Slots : Resume(c, p) \/ Proceed(c, p) \/ FromUser(c, p)

Spec == Init /\ [][Next]_vars

\* The processors run, the timer keeps interrupting, a CPU that spins on a lock
\* that is free again and again gets it, and a thread that is given a CPU again
\* and again moves on in the kernel.  A program need ask for nothing.
Fairness ==
    /\ \A c \in CPUs : /\ SF_vars(Scheduler(c))
                       /\ SF_vars(Interrupt(c))
                       /\ SF_vars(TimerIntr(c))
    /\ \A p \in Slots : /\ SF_vars(\E c \in CPUs : Resume(c, p))
                        /\ SF_vars(\E c \in CPUs : Proceed(c, p))

FairSpec == Spec /\ Fairness
-----------------------------------------------------------------------------
(* Properties.                                                             *)

\* Every variable has its type.
TypeOK ==
    /\ state \in [Slots -> ProcStates]
    /\ chan \in [Slots -> 0 .. NPROC + 1]
    /\ killed \in [Slots -> BOOLEAN]
    /\ parent \in [Slots -> Slots \cup {NoProc}]
    /\ pid \in [Slots -> 0 .. MaxPid]
    /\ kstack \in [Slots -> BOOLEAN]
    /\ nextpid \in Nat
    /\ lk \in CPUs \cup {NoCPU} /\ tk \in CPUs \cup {NoCPU}
    /\ on \in [CPUs -> Slots \cup {NoProc}]
    /\ at \in [CPUs -> {"idle", "scan", "run", "sched", "tick", "wake", "yield"}]
    /\ idx \in [CPUs -> 1 .. NPROC + 1]
    /\ pc \in [Slots -> PCs]
    /\ back \in [Slots -> OpenPCs]
    /\ child \in [Slots -> Slots \cup {NoProc}]
    /\ left \in [Slots -> 0 .. MaxSleep]

\* No two processors run on one thread's stack, a thread that is running is on
\* a processor, and one on a processor is RUNNING unless that processor holds
\* ptable.lock on its way into or out of the scheduler: the lock that yield,
\* sleep, wait and exit carry across swtch gives this.
RunningOnOneCPU ==
    /\ \A c, d \in CPUs : on[c] # NoProc /\ on[c] = on[d] => c = d
    /\ \A p \in Slots : state[p] = "RUNNING" => \E c \in CPUs : on[c] = p
    /\ \A c \in CPUs : on[c] # NoProc /\ lk # c => state[on[c]] = "RUNNING"

\* A processor never runs on a kernel stack that has been freed: wait frees a
\* zombie's stack, and fork's error paths a child's, only when no processor is
\* on it any more.
StackInUse ==
    \A c \in CPUs : on[c] # NoProc =>
        kstack[on[c]] /\ state[on[c]] \notin {"UNUSED", "EMBRYO"}

\* The tests at the top of sched() never panic: its caller holds ptable.lock and
\* no other lock, and has changed the state of the process.
SchedAsserts ==
    \A c \in CPUs : at[c] = "sched" =>
        lk = c /\ tk # c /\ state[on[c]] # "RUNNING"

\* A process asleep in sys_sleep is still to be woken by a tick: the one that
\* ends its sleep cannot come between the test of ticks and the sleep.
NoLostWakeup ==
    tk = NoCPU =>
        \A p \in Slots : state[p] = "SLEEPING" /\ chan[p] = Ticks => left[p] > 0

\* A process asleep in wait has a child, and no child of it has already exited:
\* neither its own nor one that its parent's exit has handed to init.
NoLostChild ==
    lk = NoCPU =>
        \A p \in Slots : state[p] = "SLEEPING" /\ chan[p] = p =>
            Children(p) # {} /\ Zombies(p) = {}

\* Every process but init has a parent that can still wait for it, so that no
\* zombie is left for ever: exit gives away its children.
ParentAlive ==
    \A p \in Slots \ {initproc} :
        state[p] \in Live \cup {"ZOMBIE"} =>
            parent[p] \in Slots /\ state[parent[p]] \in Live

\* The slot that a fork is filling is its own: between allocproc's release of
\* the lock and the end of fork, which touch the slot without the lock, nobody
\* else allocates, runs, reaps or adopts it.
EmbryoIsPrivate ==
    /\ \A p \in Slots : child[p] # NoProc =>
          state[child[p]] = "EMBRYO" /\ state[p] \in Live
    /\ \A p, q \in Slots : child[p] # NoProc /\ child[p] = child[q] => p = q
    /\ \A q \in Slots : state[q] = "EMBRYO" => \E p \in Slots : child[p] = q

\* A new process starts with a clean slate: it has not been killed before it
\* has ever run, as kill kills the process with the given pid.
BornAlive ==
    [][\A p \in Slots : state[p] = "UNUSED" /\ state'[p] = "EMBRYO"
                        => ~killed'[p]]_vars

\* A process that is ready to run gets a processor.
Scheduled ==
    \A p \in Slots : state[p] = "RUNNABLE" ~> state[p] = "RUNNING"

\* A process in wait with a child that has exited returns from wait.
WaitReturns ==
    \A p \in Slots : pc[p] = "waited" /\ Zombies(p) # {} ~> pc[p] # "waited"

\* A process that has been killed exits, even one asleep in wait for a child that
\* never exits.
KilledDies ==
    \A p \in Slots \ {initproc} :
        killed[p] /\ state[p] \in Live ~> state[p] \in {"ZOMBIE", "UNUSED"}

\* sys_sleep returns.
SleepReturns ==
    \A p \in Slots : pc[p] = "test" ~> pc[p] = "user"
=============================================================================
