------------------------------ MODULE Console -------------------------------
(***************************************************************************)
(* The console's input (console.c) between the keyboard interrupt, which   *)
(* fills and edits a ring, and the processes that read it, on processors   *)
(* whose interrupts cons.lock and ptable.lock mask (SpinLock).             *)
(*                                                                         *)
(* A processor executes on a stack: a process's, or its scheduler's.  An   *)
(* interrupt puts a frame on whichever it finds, may take the locks, and   *)
(* may leave the processor to others with the frame on the stack (yield).  *)
(* A step goes from one place where an interrupt, or another processor's   *)
(* lock, can make a difference to the next.                                *)
(***************************************************************************)
EXTENDS SpinLock, Sequences, FiniteSetsExt

CONSTANTS
    BootCPU,            \* the processor that gets the keyboard's interrupts
    NPROC,
    Readers, Writers,   \* the processes that read and write the console
    Killable,           \* the processes that somebody kills
    Letters, Newline, EOF,                      \* what can be typed ...
    KillLine, Backspace, Listing, Nothing,      \* ... and C('U'), C('H'), C('P'), 0
    INPUT_BUF,
    WRAP,               \* 2^32: where the counters go back to 0
    MaxN,               \* bound: the longest read
    Idle                \* Terminal's

Procs == 1 .. NPROC
Chars == Letters \cup {Newline, EOF}

ASSUME ConsoleConstants ==
    /\ Locks = {"cons", "ptable"}
    /\ BootCPU \in CPUs /\ NPROC \in Nat /\ CPUs \cap Procs = {}
    /\ Readers \subseteq Procs /\ Writers \subseteq Procs /\ Killable \subseteq Procs
    /\ Newline # EOF /\ {Newline, EOF} \cap Letters = {}
    /\ {KillLine, Backspace, Listing, Nothing} \cap Chars = {}
    /\ INPUT_BUF \in Nat \ {0} /\ WRAP \in Nat
    /\ WRAP > INPUT_BUF /\ WRAP % INPUT_BUF = 0
    /\ MaxN \in Nat /\ Idle \notin Nat

VARIABLES
    buf, r, w, e,       \* input
    doprocdump,         \* of the handler
    state,              \* p->state
    killed,
    current,            \* whose stack a processor is on: a process's, or its own
    stack,              \* per stack, where it is, and where the code below it is
    saved,              \* intena in sched's frame
    idx,                \* the scheduler's position in its scan of the table
    asked,              \* consoleread's target
    got                 \* what consoleread has copied to dst

inputVars == <<buf, r, w, e>>
procVars  == <<state, killed, current, saved, idx>>
readVars  == <<asked, got>>
vars == <<spinVars, inputVars, doprocdump, procVars, stack, readVars>>

\* The calls of acquire, by where they are made.
Wants ==
    [read |-> "cons", write |-> "cons", kbd |-> "cons", dump |-> "cons",
     sleep |-> "ptable", wakeup |-> "ptable", yield |-> "ptable",
     exit |-> "ptable", idle |-> "ptable"]

PCs == DOMAIN Wants \cup {"user", "getc", "slept", "yielded", "forkret",
                          "ret", "scan", "dead"}

Init ==
    /\ SpinInit
    /\ buf = [i \in 0 .. INPUT_BUF - 1 |-> Nothing]
    /\ r = 0 /\ w = 0 /\ e = 0
    /\ doprocdump = FALSE
    /\ state = [t \in Procs |-> "RUNNABLE"]
    /\ killed = {}
    /\ current = [c \in CPUs |-> c]
    /\ stack = [x \in Procs \cup CPUs |-> IF x \in Procs THEN <<"forkret">> ELSE <<"idle">>]
    /\ saved = [t \in Procs |-> FALSE]
    /\ idx = [c \in CPUs |-> 1]
    /\ asked = [t \in Readers |-> 0]
    /\ got = [t \in Readers |-> <<>>]

Top(c)   == Head(stack[current[c]])
At(c, p) == Top(c) = p
Base(x)  == stack[x][Len(stack[x])]

Goto(c, p) == stack' = [stack EXCEPT ![current[c]] = <<p>> \o Tail(@)]

OnProc(c) == current[c] \in Procs

\* acquire, wherever it is called, while somebody has the lock.
Waiting(c) ==
    /\ Top(c) \in DOMAIN Wants
    /\ Spin(c, Wants[Top(c)])
    /\ UNCHANGED <<inputVars, doprocdump, procVars, stack, readVars>>
-----------------------------------------------------------------------------
(* The scheduler.                                                          *)

\* Its loop finds t, swtch goes there, and t will release the lock.
SwitchTo(c, t) ==
    /\ state' = [state EXCEPT ![t] = "RUNNING"]
    /\ current' = [current EXCEPT ![c] = t]
    /\ idx' = [idx EXCEPT ![c] = t + 1]
    /\ UNCHANGED <<inputVars, doprocdump, killed, saved, readVars>>

Candidates(from) == {t \in Procs : t >= from /\ state[t] = "RUNNABLE"}

\* Whatever acquire found, sti follows the release.
Sti(m) == [m EXCEPT !.ints = TRUE]

StartScan(c) ==
    /\ At(c, "idle")
    /\ Candidates(1) # {}
    /\ Enter(c, "ptable")
    /\ stack' = [stack EXCEPT ![c] = <<"scan">>]
    /\ SwitchTo(c, Min(Candidates(1)))

NothingToRun(c) ==
    /\ At(c, "idle")
    /\ Candidates(1) = {}
    /\ Xchg(c, "ptable")
    /\ cpu' = [cpu EXCEPT ![c] = Sti(Popcli(Masked(c)))]
    /\ UNCHANGED <<holder, panicked, inputVars, doprocdump, procVars, stack, readVars>>

\* swtch has come back with the lock.
GoOnScanning(c) ==
    /\ At(c, "scan")
    /\ Candidates(idx[c]) # {}
    /\ SwitchTo(c, Min(Candidates(idx[c])))
    /\ UNCHANGED <<spinVars, stack>>

EndScan(c) ==
    /\ At(c, "scan")
    /\ Candidates(idx[c]) = {}
    /\ holder' = [holder EXCEPT !["ptable"] = NoCPU]
    /\ cpu' = [cpu EXCEPT ![c] = Sti(Popcli(@))]
    /\ Goto(c, "idle")
    /\ idx' = [idx EXCEPT ![c] = 1]
    /\ UNCHANGED <<spinning, panicked, inputVars, doprocdump, state, killed, current,
                   saved, readVars>>

\* sched(), called by t when its processor's state is m, up to swtch.
Sched(c, t, m) ==
    /\ panicked' = (panicked \/ m.ncli # 1 \/ m.ints)
    /\ cpu' = [cpu EXCEPT ![c] = m]
    /\ saved' = [saved EXCEPT ![t] = m.intena]
    /\ current' = [current EXCEPT ![c] = c]

\* intena when swtch has returned.
OfTheCPU(c, t) == cpu[c]

OfTheThread(c, t) == [cpu[c] EXCEPT !.intena = saved[t]]

\* Back from sched(), at p, to go on at q.
Resume(c, p, q) ==
    /\ OnProc(c) /\ At(c, p)
    /\ Release(c, "ptable", OfTheThread(c, current[c]))
    /\ Goto(c, q)
    /\ UNCHANGED <<inputVars, doprocdump, procVars, readVars>>

YieldReturns(c) == Resume(c, "yielded", "ret")

\* sleep() goes on to acquire cons.lock again, where consoleread began.
SleepReturns(c) == Resume(c, "slept", "read")

\* trapret's iret follows at once.
Forkret(c) ==
    /\ OnProc(c) /\ At(c, "forkret")
    /\ holder' = [holder EXCEPT !["ptable"] = NoCPU]
    /\ cpu' = [cpu EXCEPT ![c] = Sti(Popcli(@))]
    /\ Goto(c, "user")
    /\ UNCHANGED <<spinning, panicked, inputVars, doprocdump, procVars, readVars>>

Yield(c) ==
    /\ OnProc(c) /\ At(c, "yield")
    /\ Xchg(c, "ptable")
    /\ holder' = [holder EXCEPT !["ptable"] = c]
    /\ state' = [state EXCEPT ![current[c]] = "RUNNABLE"]
    /\ Goto(c, "yielded")
    /\ Sched(c, current[c], Masked(c))
    /\ UNCHANGED <<inputVars, doprocdump, killed, idx, readVars>>

\* exit() has closed its files and cannot return.
Exit(c) ==
    /\ OnProc(c) /\ At(c, "exit")
    /\ Xchg(c, "ptable")
    /\ holder' = [holder EXCEPT !["ptable"] = c]
    /\ state' = [state EXCEPT ![current[c]] = "ZOMBIE"]
    /\ stack' = [stack EXCEPT ![current[c]] = <<"dead">>]
    /\ Sched(c, current[c], Masked(c))
    /\ UNCHANGED <<inputVars, doprocdump, killed, idx, readVars>>

\* kill(), by a process on some other processor.
Kill(t) ==
    /\ holder["ptable"] = NoCPU
    /\ t \in Killable \ killed
    /\ killed' = killed \cup {t}
    /\ state' = [state EXCEPT ![t] = IF @ = "SLEEPING" THEN "RUNNABLE" ELSE @]
    /\ UNCHANGED <<spinVars, inputVars, doprocdump, current, saved, idx, stack, readVars>>
-----------------------------------------------------------------------------
(* Traps.                                                                  *)

\* An interrupt gate: the handler runs with interrupts off.
Interrupt(c, p) ==
    /\ cpu[c].ints
    /\ cpu' = [cpu EXCEPT ![c].ints = FALSE]
    /\ stack' = [stack EXCEPT ![current[c]] = <<p>> \o @]
    /\ UNCHANGED <<holder, spinning, panicked, inputVars, doprocdump, procVars, readVars>>

\* The trap comes from user space, or is a system call's.
FromUser(x) == Len(stack[x]) = 1 \/ stack[x][2] = "user"

Keyboard == Interrupt(BootCPU, "kbd")

\* The timer; what it does for &ticks is Proc's.
Timer(c) ==
    /\ OnProc(c)
    /\ Interrupt(c, IF current[c] \in killed /\ At(c, "user") THEN "exit" ELSE "yield")

\* The end of trap(), and the iret in trapret.
Iret(c) ==
    /\ stack' = [stack EXCEPT ![current[c]] = IF Len(@) = 1 THEN <<"user">> ELSE Tail(@)]
    /\ cpu' = [cpu EXCEPT ![c].ints = TRUE]

TrapEnds(c) ==
    /\ At(c, "ret")
    /\ IF OnProc(c) /\ current[c] \in killed /\ FromUser(current[c])
         THEN Goto(c, "exit") /\ UNCHANGED cpu
         ELSE Iret(c)
    /\ got' = IF current[c] \in Readers /\ Len(stack[current[c]]) = 1
                 THEN [got EXCEPT ![current[c]] = <<>>] ELSE got
    /\ UNCHANGED <<holder, spinning, panicked, inputVars, doprocdump, procVars, asked>>

-----------------------------------------------------------------------------
(* System calls.                                                           *)

Call(c, p) ==
    /\ OnProc(c) /\ At(c, "user")
    /\ Goto(c, IF current[c] \in killed THEN "exit" ELSE p)
    /\ UNCHANGED <<spinVars, inputVars, doprocdump, procVars>>

StartWrite(c) ==
    /\ Call(c, "write")
    /\ current[c] \in Writers
    /\ UNCHANGED readVars

\* consolewrite: the characters go out under cons.lock.
Write(c) ==
    /\ At(c, "write")
    /\ Section(c, "cons")
    /\ Goto(c, "ret")
    /\ UNCHANGED <<inputVars, doprocdump, procVars, readVars>>

StartRead(c) ==
    /\ Call(c, "read")
    /\ current[c] \in Readers
    /\ IF current[c] \in killed
         THEN UNCHANGED readVars
         ELSE /\ \E n \in 0 .. MaxN : asked' = [asked EXCEPT ![current[c]] = n]
              /\ UNCHANGED got

Char(i) == buf[i % INPUT_BUF]
Avail   == (w - r) % WRAP
Left(t) == asked[t] - Len(got[t])

\* The loop of consoleread stops after k characters.
Stops(t, k) ==
    \/ k = Left(t)
    \/ k = Avail
    \/ Char(r + k) = EOF
    \/ k > 0 /\ Char(r + k - 1) = Newline

Copied(t) == Min({k \in 0 .. Avail : Stops(t, k)})

Dst(t) == got[t] \o [i \in 1 .. Copied(t) |-> Char(r + i - 1)]

AtEOF(t) ==
    LET k == Copied(t) IN k < Left(t) /\ k < Avail /\ Char(r + k) = EOF
                          /\ (k > 0 => Char(r + k - 1) # Newline)

Returns(t) ==
    LET k == Copied(t) IN
    \/ k = Left(t)
    \/ AtEOF(t)
    \/ k > 0 /\ Char(r + k - 1) = Newline

\* C('D') is passed only by a read that returns nothing else.
EatsEOFAlways(t) == AtEOF(t)

EatsEOF(t) == AtEOF(t) /\ Dst(t) = <<>>

Advance(t) == r' = (r + Copied(t) + (IF EatsEOF(t) THEN 1 ELSE 0)) % WRAP

InRead(c) == OnProc(c) /\ At(c, "read")

ReadReturns(c) ==
    /\ InRead(c)
    /\ Returns(current[c])
    /\ Section(c, "cons")
    /\ Advance(current[c])
    /\ got' = [got EXCEPT ![current[c]] = Dst(current[c])]
    /\ asked' = [asked EXCEPT ![current[c]] = 0]
    /\ Goto(c, "ret")
    /\ UNCHANGED <<buf, w, e, doprocdump, procVars>>

\* return -1
ReadFails(c) ==
    /\ InRead(c)
    /\ ~Returns(current[c])
    /\ current[c] \in killed
    /\ Section(c, "cons")
    /\ Advance(current[c])
    /\ got' = [got EXCEPT ![current[c]] = <<>>]
    /\ asked' = [asked EXCEPT ![current[c]] = 0]
    /\ Goto(c, "ret")
    /\ UNCHANGED <<buf, w, e, doprocdump, procVars>>

\* All input is read; sleep(&input.r, &cons.lock).
ReadWaits(c) ==
    /\ InRead(c)
    /\ ~Returns(current[c])
    /\ current[c] \notin killed
    /\ Enter(c, "cons")
    /\ Advance(current[c])
    /\ got' = [got EXCEPT ![current[c]] = Dst(current[c])]
    /\ Goto(c, "sleep")
    /\ UNCHANGED <<buf, w, e, doprocdump, procVars, asked>>

\* sleep() has ptable.lock, and gives up cons.lock.
Sleep(c) ==
    /\ OnProc(c) /\ At(c, "sleep")
    /\ Xchg(c, "ptable")
    /\ holder' = [holder EXCEPT !["ptable"] = c, !["cons"] = NoCPU]
    /\ state' = [state EXCEPT ![current[c]] = "SLEEPING"]
    /\ Goto(c, "slept")
    /\ Sched(c, current[c], Popcli(Masked(c)))
    /\ UNCHANGED <<inputVars, doprocdump, killed, idx, readVars>>
-----------------------------------------------------------------------------
(* The keyboard interrupt: consoleintr.                                    *)

\* What getc() has to offer is up to who types.
StartIntr(c) ==
    /\ At(c, "kbd")
    /\ Enter(c, "cons")
    /\ Goto(c, "getc")
    /\ UNCHANGED <<inputVars, doprocdump, procVars, readVars>>

Getc(c) == At(c, "getc") /\ UNCHANGED <<spinVars, procVars, readVars>>

\* A character for which there is no room is dropped.
FullWithOneMore == (e - r) % WRAP > INPUT_BUF

Full == (e - r) % WRAP >= INPUT_BUF

List(c) ==
    /\ Getc(c)
    /\ doprocdump' = TRUE
    /\ UNCHANGED <<inputVars, stack>>

\* C('U'): how far back the line being edited goes.
Erasable ==
    Max({k \in 0 .. (e - w) % WRAP : \A i \in 1 .. k : Char(e - i) # Newline})

EraseLine(c) ==
    /\ Getc(c)
    /\ e' = (e - Erasable) % WRAP
    /\ UNCHANGED <<buf, r, w, doprocdump, stack>>

EraseChar(c) ==
    /\ Getc(c)
    /\ e # w
    /\ e' = (e - 1) % WRAP
    /\ UNCHANGED <<buf, r, w, doprocdump, stack>>

EndsLine(ch) == ch \in {Newline, EOF} \/ e' = (r + INPUT_BUF) % WRAP

EnterChar(c, ch) ==
    /\ Getc(c)
    /\ ch \in Chars /\ ~Full
    /\ buf' = [buf EXCEPT ![e % INPUT_BUF] = ch]
    /\ e' = (e + 1) % WRAP
    /\ IF EndsLine(ch)
         THEN w' = e' /\ Goto(c, "wakeup")
         ELSE UNCHANGED <<w, stack>>
    /\ UNCHANGED <<r, doprocdump>>

Key(c) ==
    \E k \in Chars \cup {KillLine, Backspace, Listing} :
       \/ k = Listing /\ List(c)
       \/ k = KillLine /\ EraseLine(c)
       \/ k = Backspace /\ EraseChar(c)
       \/ EnterChar(c, k)

\* wakeup(&input.r)
WakeNobody == state

WakeReaders == [t \in Procs |-> IF state[t] = "SLEEPING" THEN "RUNNABLE" ELSE state[t]]

Wakeup(c) ==
    /\ At(c, "wakeup")
    /\ Section(c, "ptable")
    /\ state' = WakeReaders
    /\ Goto(c, "getc")
    /\ UNCHANGED <<inputVars, doprocdump, killed, current, saved, idx, readVars>>

\* procdump, where the switch has its case.
IntrEndsListing(c) ==
    /\ At(c, "getc")
    /\ IF doprocdump
         THEN UNCHANGED spinVars /\ Goto(c, "dump")
         ELSE Release(c, "cons", cpu[c]) /\ Goto(c, "ret")
    /\ UNCHANGED <<inputVars, doprocdump, procVars, readVars>>

\* No more keys.
IntrEnds(c) ==
    /\ At(c, "getc")
    /\ Release(c, "cons", cpu[c])
    /\ Goto(c, IF doprocdump THEN "dump" ELSE "ret")
    /\ UNCHANGED <<inputVars, doprocdump, procVars, readVars>>

\* procdump: a cprintf, without cons.lock.
Dump(c) ==
    /\ At(c, "dump")
    /\ Section(c, "cons")
    /\ doprocdump' = FALSE
    /\ Goto(c, "ret")
    /\ UNCHANGED <<inputVars, procVars, readVars>>
-----------------------------------------------------------------------------
Scheduling(c) ==
    \/ StartScan(c) \/ NothingToRun(c) \/ GoOnScanning(c) \/ EndScan(c)
    \/ YieldReturns(c) \/ SleepReturns(c) \/ Forkret(c) \/ Yield(c) \/ Exit(c)

Reading(c) ==
    \/ StartRead(c) \/ ReadReturns(c) \/ ReadFails(c) \/ ReadWaits(c) \/ Sleep(c)

Handler(c) ==
    \/ StartIntr(c) \/ Key(c) \/ Wakeup(c) \/ IntrEnds(c) \/ Dump(c)

Next ==
    \/ \E c \in CPUs : \/ Waiting(c) \/ Scheduling(c) \/ Reading(c) \/ Handler(c)
                       \/ StartWrite(c) \/ Write(c)
                       \/ Timer(c) \/ TrapEnds(c)
    \/ Keyboard
    \/ \E t \in Procs : Kill(t)

Spec == Init /\ [][Next]_vars
-----------------------------------------------------------------------------
\* Every variable has its type, and the ring holds at most INPUT_BUF characters.
TypeOK ==
    /\ cpu \in [CPUs -> Masks]
    /\ holder \in [Locks -> CPUs \cup {NoCPU}]
    /\ spinning \subseteq CPUs
    /\ panicked \in BOOLEAN
    /\ buf \in [0 .. INPUT_BUF - 1 -> Chars \cup {Nothing}]
    /\ {r, w, e} \subseteq 0 .. WRAP - 1
    /\ (e - r) % WRAP <= INPUT_BUF /\ (w - r) % WRAP <= (e - r) % WRAP
    /\ doprocdump \in BOOLEAN
    /\ state \in [Procs -> {"RUNNABLE", "RUNNING", "SLEEPING", "ZOMBIE"}]
    /\ killed \subseteq Killable
    /\ current \in [CPUs -> Procs \cup CPUs]
    /\ stack \in [Procs \cup CPUs -> Seq(PCs)]
    /\ saved \in [Procs -> BOOLEAN]
    /\ idx \in [CPUs -> 1 .. NPROC + 1]
    /\ asked \in [Readers -> 0 .. MaxN]
    /\ got \in [Readers -> Seq(Chars)]

\* acquire, release, popcli and sched find the locks as they test for them: the
\* handler lists the processes without cons.lock, and consoleread gives it up
\* before it enters the scheduler.
NoPanic == ~panicked

\* Interrupts are off exactly in critical sections, in acquire's loop and in
\* interrupt handlers, whichever processor a process has been moved to and
\* whatever ran there before it: no handler finds a lock its processor holds,
\* handlers do not pile up on a stack, and no processor stays deaf (pushcli,
\* popcli, and the intena that sched carries over).
InterruptsFollow ==
    \A c \in CPUs :
       cpu[c].ints <=> Held(c) = {} /\ c \notin spinning /\ Len(stack[current[c]]) = 1

\* No reader sleeps on input, except while the handler is about to wake it: a line
\* cannot be completed between consoleread's test and its sleep, and what one reader
\* leaves is not left behind the back of another.
SleepersWait ==
    (\E t \in Procs : state[t] = "SLEEPING") =>
        r = w \/ \E c \in CPUs : At(c, "wakeup")

InCall(t) == Base(t) \in {"read", "sleep", "slept"}

Queue == [i \in 1 .. Avail |-> Char(r + i - 1)]

Line == [i \in 1 .. (e - w) % WRAP |-> Char(w + i - 1)]

Calls == [t \in Readers |-> IF InCall(t) THEN asked[t] ELSE Idle]

T == INSTANCE Terminal WITH Size <- INPUT_BUF, queue <- Queue, edit <- Line, asked <- Calls

\* The ring with its three counters is the queue of lines that Terminal promises:
\* editing never reaches what has been handed over, a read ends with its line or
\* is full, and an end of file is kept for a read of its own.
IsTerminal == T!Spec
=============================================================================
