-------------------------------- MODULE Pipe --------------------------------
(***************************************************************************)
(* A pipe of xv6 (pipe.c) between processes that may sleep, be killed and  *)
(* close their ends.                                                       *)
(*                                                                         *)
(* p->lock makes each turn of pipewrite's and piperead's loops one step,   *)
(* up to the call of sleep; the step in which sleep puts the process to    *)
(* sleep and releases the lock is another, and a kill may come in between: *)
(* kill takes ptable.lock only.  The counters nread and nwrite go round,   *)
(* as C's unsigned integers do.                                            *)
(***************************************************************************)
EXTENDS Integers, Sequences

CONSTANTS
    Writers, Readers,   \* the processes that hold the two ends
    Killable,           \* those that somebody kills
    Bytes,
    PIPESIZE,
    WRAP,               \* 2^32: where the counters go back to 0
    Texts,              \* bound: what a write may have to write
    MaxN,               \* bound: the longest read
    Failed,             \* the result -1 of a read
    Nobody              \* p->lock is free

Procs == Writers \cup Readers

ASSUME PipeConstants ==
    /\ Writers \cap Readers = {} /\ Writers # {} /\ Readers # {}
    /\ Killable \subseteq Procs /\ Bytes # {} /\ Texts \subseteq Seq(Bytes)
    /\ PIPESIZE \in Nat \ {0} /\ MaxN \in Nat \ {0}
    /\ WRAP \in Nat /\ WRAP > PIPESIZE /\ WRAP % PIPESIZE = 0
    /\ Nobody \notin Procs
    /\ Failed \notin Seq(Bytes)

VARIABLES
    nread, nwrite, data, readopen, writeopen,   \* struct pipe
    freed,      \* its page has been given back
    lock,       \* p->lock, where a process holds it from one step to the next
    open,       \* the processes that have their end open (the ends' ref)
    killed,
    pc,
    buf,        \* what a write has still to write
    want,       \* the n of a read
    wrote,      \* the writers whose last write returned n, not -1
    res         \* what a reader's last read returned

pipeVars == <<nread, nwrite, data, readopen, writeopen, freed>>
vars == <<nread, nwrite, data, readopen, writeopen, freed, lock, open, killed,
          pc, buf, want, wrote, res>>

\* A process calls from "idle"; w: in pipewrite, r: in piperead.
Writing == {"write", "wdoze", "wsleep"}
Reading == {"read", "rdoze", "rsleep"}

PCs == {"idle", "close", "gone"} \cup Writing \cup Reading

\* pipealloc, for a family of processes that have just been forked.
Init ==
    /\ nread = 0 /\ nwrite = 0
    /\ data = [i \in 0 .. PIPESIZE - 1 |-> CHOOSE b \in Bytes : TRUE]
    /\ readopen = TRUE /\ writeopen = TRUE
    /\ freed = FALSE
    /\ lock = Nobody
    /\ open = Procs
    /\ killed = {}
    /\ pc = [p \in Procs |-> "idle"]
    /\ buf = [p \in Writers |-> <<>>]
    /\ want = [p \in Readers |-> 0]
    /\ wrote = {}
    /\ res = [p \in Readers |-> Failed]

\* The bytes in the pipe.
Used == (nwrite - nread) % WRAP

SizePlusOne == PIPESIZE + 1

Size == PIPESIZE

Room == Size - Used

At(i) == i % PIPESIZE

Smaller(a, b) == IF a < b THEN a ELSE b

\* The wakeups, on &nread and &nwrite: pcs with the sleepers at from made to go on.
WakeNobody(pcs, from, to) == pcs

Wake(pcs, from, to) == [q \in Procs |-> IF pcs[q] = from THEN to ELSE pcs[q]]

WrongChannel(pcs) == Wake(pcs, "wsleep", "write")

WakeReaders(pcs) == Wake(pcs, "rsleep", "read")
WakeWriters(pcs) == Wake(pcs, "wsleep", "write")

Holds(p) == p \in open /\ pc[p] = "idle" /\ p \notin killed
-----------------------------------------------------------------------------
StartWrite(p) ==
    /\ Holds(p)
    /\ \E s \in Texts : buf' = [buf EXCEPT ![p] = s]
    /\ wrote' = wrote \ {p}
    /\ pc' = [pc EXCEPT ![p] = "write"]
    /\ UNCHANGED <<pipeVars, lock, open, killed, want, res>>

\* As many bytes as there is room for.
Filled(p) == Smaller(Len(buf[p]), Room)

Fill(p) ==
    /\ data' = [i \in DOMAIN data |->
                  LET j == ((i - nwrite) % PIPESIZE) + 1
                  IN  IF j <= Filled(p) THEN buf[p][j] ELSE data[i]]
    /\ nwrite' = (nwrite + Filled(p)) % WRAP
    /\ UNCHANGED <<nread, readopen, writeopen, freed, open, killed, want, res>>

InWrite(p) == pc[p] = "write" /\ lock = Nobody

Complete(p) == Len(buf[p]) <= Room

WriteDone(p) ==
    /\ InWrite(p)
    /\ Complete(p)
    /\ Fill(p)
    /\ buf' = [buf EXCEPT ![p] = <<>>]
    /\ wrote' = wrote \cup {p}
    /\ pc' = [WakeReaders(pc) EXCEPT ![p] = "idle"]
    /\ UNCHANGED lock

\* Where the loop goes on after the sleep: at the first byte that is not yet in the pipe.
FromStart(p) == buf[p]

Rest(p) == SubSeq(buf[p], Filled(p) + 1, Len(buf[p]))

WriteFull(p) ==
    /\ InWrite(p)
    /\ ~Complete(p)
    /\ readopen /\ p \notin killed
    /\ Fill(p)
    /\ buf' = [buf EXCEPT ![p] = Rest(p)]
    /\ pc' = [WakeReaders(pc) EXCEPT ![p] = "wdoze"]
    /\ lock' = p
    /\ UNCHANGED wrote

\* return -1; whoever waits for the bytes written so far is not woken.
WriteFail(p) ==
    /\ InWrite(p)
    /\ ~Complete(p)
    /\ ~readopen \/ p \in killed
    /\ Fill(p)
    /\ buf' = [buf EXCEPT ![p] = <<>>]
    /\ pc' = [pc EXCEPT ![p] = "idle"]
    /\ UNCHANGED <<lock, wrote>>
-----------------------------------------------------------------------------
StartRead(p) ==
    /\ Holds(p)
    /\ \E n \in 0 .. MaxN : want' = [want EXCEPT ![p] = n]
    /\ res' = [res EXCEPT ![p] = Failed]
    /\ pc' = [pc EXCEPT ![p] = "read"]
    /\ UNCHANGED <<pipeVars, lock, open, killed, buf, wrote>>

InRead(p) == pc[p] = "read" /\ lock = Nobody

\* piperead's loop condition.
MustWait == Used = 0 /\ writeopen

Taken(p) == Smaller(want[p], Used)

ReadDone(p) ==
    /\ InRead(p)
    /\ ~MustWait
    /\ res' = [res EXCEPT ![p] =
                 [j \in 1 .. Taken(p) |-> data[At(nread + j - 1)]]]
    /\ nread' = (nread + Taken(p)) % WRAP
    /\ want' = [want EXCEPT ![p] = 0]
    /\ pc' = [WakeWriters(pc) EXCEPT ![p] = "idle"]
    /\ UNCHANGED <<nwrite, data, readopen, writeopen, freed, lock, open, killed, buf,
                   wrote>>

ReadFail(p) ==
    /\ InRead(p)
    /\ MustWait
    /\ p \in killed
    /\ res' = [res EXCEPT ![p] = Failed]
    /\ want' = [want EXCEPT ![p] = 0]
    /\ pc' = [pc EXCEPT ![p] = "idle"]
    /\ UNCHANGED <<pipeVars, lock, open, killed, buf, wrote>>

ReadEmpty(p) ==
    /\ InRead(p)
    /\ MustWait
    /\ p \notin killed
    /\ pc' = [pc EXCEPT ![p] = "rdoze"]
    /\ lock' = p
    /\ UNCHANGED <<pipeVars, open, killed, buf, want, wrote, res>>

\* sleep puts p to sleep and lets p->lock go.
Sleep(p) ==
    /\ lock = p
    /\ pc' = [pc EXCEPT ![p] = IF @ = "wdoze" THEN "wsleep" ELSE "rsleep"]
    /\ lock' = Nobody
    /\ UNCHANGED <<pipeVars, open, killed, buf, want, wrote, res>>
-----------------------------------------------------------------------------
\* fileclose: the last reference to an end calls pipeclose.
End(p) == IF p \in Writers THEN Writers ELSE Readers

AnyOut(p) == TRUE

IsLast(p) == open \cap End(p) = {p}

Close(p) ==
    /\ p \in open /\ pc[p] = "idle"
    /\ open' = open \ {p}
    /\ pc' = [pc EXCEPT ![p] = IF IsLast(p) THEN "close" ELSE "gone"]
    /\ UNCHANGED <<pipeVars, lock, killed, buf, want, wrote, res>>

PipeClose(p) ==
    /\ pc[p] = "close" /\ lock = Nobody
    /\ IF p \in Writers
       THEN /\ writeopen' = FALSE
            /\ pc' = [WakeReaders(pc) EXCEPT ![p] = "gone"]
            /\ UNCHANGED readopen
       ELSE /\ readopen' = FALSE
            /\ pc' = [WakeWriters(pc) EXCEPT ![p] = "gone"]
            /\ UNCHANGED writeopen
    /\ freed' = (~readopen' /\ ~writeopen')
    /\ UNCHANGED <<nread, nwrite, data, lock, open, killed, buf, want, wrote, res>>

\* kill, by somebody outside.
Kill(p) ==
    /\ p \in Killable \ killed
    /\ pc[p] \notin {"close", "gone"}
    /\ killed' = killed \cup {p}
    /\ pc' = [pc EXCEPT ![p] = CASE @ = "wsleep" -> "write"
                                 [] @ = "rsleep" -> "read"
                                 [] OTHER -> @]
    /\ UNCHANGED <<pipeVars, lock, open, buf, want, wrote, res>>

\* Everybody has left; the page serves another pipe.
PipeAlloc ==
    /\ \A p \in Procs : pc[p] = "gone"
    /\ nread' = 0 /\ nwrite' = 0
    /\ readopen' = TRUE /\ writeopen' = TRUE
    /\ freed' = FALSE
    /\ open' = Procs
    /\ killed' = {}
    /\ pc' = [p \in Procs |-> "idle"]
    /\ buf' = [p \in Writers |-> <<>>]
    /\ want' = [p \in Readers |-> 0]
    /\ wrote' = {}
    /\ res' = [p \in Readers |-> Failed]
    /\ UNCHANGED <<data, lock>>
-----------------------------------------------------------------------------
Write(p) == WriteDone(p) \/ WriteFull(p) \/ WriteFail(p)
Read(p)  == ReadDone(p) \/ ReadFail(p) \/ ReadEmpty(p)
User(p)  == (p \in Writers /\ StartWrite(p)) \/ (p \in Readers /\ StartRead(p))

Next ==
    \/ \E p \in Procs : User(p) \/ Sleep(p) \/ Close(p) \/ PipeClose(p) \/ Kill(p)
    \/ \E p \in Writers : Write(p)
    \/ \E p \in Readers : Read(p)
    \/ PipeAlloc

Spec == Init /\ [][Next]_vars

\* The kernel goes on: a process in a call gets the lock if it is free again
\* and again, and trap() makes a killed process exit, which closes its end.
KernelFairness ==
    /\ \A p \in Writers : SF_vars(Write(p))
    /\ \A p \in Readers : SF_vars(Read(p))
    /\ \A p \in Procs : /\ WF_vars(Sleep(p))
                        /\ SF_vars(PipeClose(p))
                        /\ WF_vars(p \in killed /\ Close(p))

KernelSpec == Spec /\ KernelFairness

\* Moreover no process keeps its end open and idle for ever.
FairSpec == KernelSpec /\ \A p \in Procs : WF_vars(User(p) \/ Close(p))
-----------------------------------------------------------------------------
(* Properties.                                                             *)

\* Every variable has its type, and the pipe never holds more than PIPESIZE.
TypeOK ==
    /\ nread \in 0 .. WRAP - 1 /\ nwrite \in 0 .. WRAP - 1
    /\ data \in [0 .. PIPESIZE - 1 -> Bytes]
    /\ readopen \in BOOLEAN /\ writeopen \in BOOLEAN /\ freed \in BOOLEAN
    /\ lock \in Procs \cup {Nobody}
    /\ open \subseteq Procs
    /\ killed \subseteq Killable
    /\ pc \in [Procs -> PCs]
    /\ buf \in [Writers -> Seq(Bytes)]
    /\ want \in [Readers -> 0 .. MaxN]
    /\ wrote \subseteq Writers
    /\ res \in [Readers -> Seq(Bytes) \cup {Failed}]
    /\ Used <= PIPESIZE

Contents == [j \in 1 .. Used |-> data[At(nread + j - 1)]]

\* The processes in pipewrite or piperead.
Busy == {p \in Procs : pc[p] \in Writing \cup Reading}

S == INSTANCE Stream WITH queue <- Contents, eof <- ~writeopen, busy <- Busy,
                          out <- buf, Capacity <- PIPESIZE

\* The pipe is a bounded queue of bytes: a write that returns n has put all its
\* bytes, in order and once, and readers get what was put, in order and once,
\* across the wrap of the counters and of the buffer; a read for some bytes
\* returns 0 only after the last byte of the last writer.
IsStream == S!Spec

\* No process is inside a call, or about to close, when the page is freed.
NotFreedInUse ==
    freed => \A p \in Procs : pc[p] = "gone"

\* A process sleeps in the pipe only while it has reason to: a reader while
\* the pipe is empty and a writer while it is full, with the other end open.
\* The exception is a killed process, whose write may leave bytes behind
\* without a wakeup and whose own sleep may have missed the kill.
SleepersWait ==
    lock = Nobody =>
        /\ \A p \in Writers : pc[p] = "wsleep" => readopen /\ Room = 0
        /\ killed \cap Writers = {} =>
               \A p \in Readers : pc[p] = "rsleep" => writeopen /\ Used = 0

\* Whoever sleeps in the pipe is woken, if the processes at the other end go
\* on or close: no interleaving of calls, closes and kills loses the wakeup for
\* good.
SleepersWoken ==
    \A p \in Procs : pc[p] \in {"rsleep", "wsleep"}
                        ~> pc[p] \notin {"rsleep", "wsleep"}

\* A killed process leaves its call and exits, whatever the others do.
KilledLeaves ==
    \A p \in Procs : p \in killed ~> pc[p] = "gone"
=============================================================================
