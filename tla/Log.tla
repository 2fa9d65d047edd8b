-------------------------------- MODULE Log --------------------------------
(***************************************************************************)
(* The write-ahead log of xv6 (log.c) over its buffer cache (bio.c) and    *)
(* disk, with crashes at any step and recovery at the next boot.           *)
(*                                                                         *)
(* A process runs one operation at a time: begin_op, some modifications of *)
(* buffers each followed by log_write, end_op.  The process whose end_op   *)
(* leaves no operation outstanding commits.  Each write of a disk block is *)
(* a step of its own, so that a crash may fall between any two of them; a  *)
(* single block is written whole or not at all.                            *)
(*                                                                         *)
(* log.lock makes the tests and updates of begin_op and end_op atomic, and *)
(* sleep(&log, &log.lock) releases it and sleeps in one step (what         *)
(* proc.c's sleep promises).  The test at the top of log_write is made     *)
(* before the lock is taken and is a step of its own.                      *)
(***************************************************************************)
EXTENDS Integers, Sequences, FiniteSets

CONSTANTS
    Procs,        \* the processes that run file system operations
    Blocks,       \* the block numbers outside the log
    Data,         \* the contents of a block
    Zero,         \* the contents mkfs gives the log area
    NotCached,    \* cache[b] when no buffer holds b
    NoBlock,      \* cur[p] when p holds no buffer
    LOGSIZE,      \* what begin_op shares out (param.h)
    MAXOPBLOCKS,  \* what begin_op reserves for an operation (param.h)
    NLOG,         \* sb.nlog, the blocks of the log on disk, header included
    OpBlocks      \* bound: the distinct blocks one operation writes

ASSUME LogConstants ==
    /\ IsFiniteSet(Procs) /\ IsFiniteSet(Blocks)
    /\ Zero \in Data
    /\ NotCached \notin Data
    /\ NoBlock \notin Blocks
    /\ LOGSIZE \in Nat /\ MAXOPBLOCKS \in Nat /\ OpBlocks \in Nat
    /\ NLOG \in Nat /\ NLOG > 1
    /\ OpBlocks <= MAXOPBLOCKS

VARIABLES
    disk,         \* home locations on disk
    logdata,      \* the log's data blocks on disk, 1 .. NLOG-1
    head,         \* the header block on disk: block numbers of a committed transaction
    cache,        \* the buffers' contents, or NotCached
    dirty,        \* the blocks whose buffer has B_DIRTY, which pins it
    lh,           \* log.lh, the header in memory
    outstanding,  \* log.outstanding
    committing,   \* log.committing
    pc,           \* where each process is
    cur,          \* the block whose buffer a process holds
    wrote,        \* the blocks the process's operation has logged so far
    tail,         \* the loop index of write_log and install_trans
    mode,         \* the boot: read_head, install, clear, then up
    panic         \* panic() was called: the machine has stopped

diskVars == <<disk, logdata, head>>
procVars == <<pc, cur, wrote>>
memVars  == <<cache, dirty, lh, outstanding, committing, pc, cur, wrote, tail>>
vars     == <<disk, logdata, head, cache, dirty, lh, outstanding, committing,
              pc, cur, wrote, tail, mode, panic>>

LogSlots == 1 .. NLOG - 1

Logged(log) == {log[i] : i \in DOMAIN log}

\* What a read of b returns.
View(b) == IF cache[b] = NotCached THEN disk[b] ELSE cache[b]

CommitPCs == {"write_log", "write_head", "install", "erase", "committed"}
OpPCs     == {"op", "hold", "append"}
PCs       == {"idle", "sleep", "woken"} \cup OpPCs \cup CommitPCs

Active == {p \in Procs : pc[p] \in OpPCs}

Running == mode = "up" /\ ~panic
-----------------------------------------------------------------------------
\* A fresh file system made by mkfs, at boot.
Init ==
    /\ disk \in [Blocks -> Data]
    /\ logdata = [i \in LogSlots |-> Zero]
    /\ head = <<>>
    /\ cache = [b \in Blocks |-> NotCached]
    /\ dirty = {}
    /\ lh = <<>>
    /\ outstanding = 0
    /\ committing = FALSE
    /\ pc = [p \in Procs |-> "idle"]
    /\ cur = [p \in Procs |-> NoBlock]
    /\ wrote = [p \in Procs |-> {}]
    /\ tail = 1
    /\ mode = "read_head"
    /\ panic = FALSE

\* wakeup(&log), and the caller moves to next.
GoNoWake(p, next) == pc' = [pc EXCEPT ![p] = next]

WakeAndGo(p, next) ==
    pc' = [q \in Procs |-> IF q = p THEN next
                           ELSE IF pc[q] = "sleep" THEN "woken" ELSE pc[q]]

\* Room for one operation, whoever else is outstanding.
BusyForOne == committing \/ Len(lh) + MAXOPBLOCKS > LOGSIZE

\* The two conditions on which begin_op sleeps.
LogBusy ==
    \/ committing
    \/ Len(lh) + (outstanding + 1) * MAXOPBLOCKS > LOGSIZE

UncountedOp == outstanding

Counted == outstanding + 1

\* One turn of begin_op's loop.
BeginOp(p) ==
    /\ Running
    /\ pc[p] \in {"idle", "woken"}
    /\ IF LogBusy
       THEN /\ pc' = [pc EXCEPT ![p] = "sleep"]
            /\ UNCHANGED outstanding
       ELSE /\ pc' = [pc EXCEPT ![p] = "op"]
            /\ outstanding' = Counted
    /\ UNCHANGED <<disk, logdata, head, cache, dirty, lh, committing, cur, wrote,
                   tail, mode, panic>>

\* b = bread(...); modify b->data.  The buffer's sleep lock is held until
\* the brelse that follows log_write.
Modify(p, b, v) ==
    /\ Running
    /\ pc[p] = "op"
    /\ \A q \in Procs : cur[q] # b
    /\ b \in wrote[p] \/ Cardinality(wrote[p]) < OpBlocks
    /\ cache' = [cache EXCEPT ![b] = v]
    /\ cur' = [cur EXCEPT ![p] = b]
    /\ pc' = [pc EXCEPT ![p] = "hold"]
    /\ UNCHANGED <<disk, logdata, head, dirty, lh, outstanding, committing, wrote,
                   tail, mode, panic>>

TooBig == Len(lh) >= LOGSIZE \/ Len(lh) >= NLOG - 1

\* log_write's tests, made without log.lock.
LogWriteCheck(p) ==
    /\ Running
    /\ pc[p] = "hold"
    /\ IF TooBig \/ outstanding < 1
       THEN panic' = TRUE /\ UNCHANGED pc
       ELSE pc' = [pc EXCEPT ![p] = "append"] /\ UNCHANGED panic
    /\ UNCHANGED <<disk, logdata, head, cache, dirty, lh, outstanding, committing,
                   cur, wrote, tail, mode>>

\* A block already in the log is not entered again (absorption).
Absorb(b) == IF b \in Logged(lh) THEN lh ELSE Append(lh, b)

\* B_DIRTY keeps the buffer in the cache.
NoPin(b) == dirty

Pin(b) == dirty \cup {b}

\* The rest of log_write, under log.lock, and the caller's brelse.
LogWriteAppend(p) ==
    /\ Running
    /\ pc[p] = "append"
    /\ lh' = Absorb(cur[p])
    /\ dirty' = Pin(cur[p])
    /\ wrote' = [wrote EXCEPT ![p] = @ \cup {cur[p]}]
    /\ cur' = [cur EXCEPT ![p] = NoBlock]
    /\ pc' = [pc EXCEPT ![p] = "op"]
    /\ UNCHANGED <<disk, logdata, head, cache, outstanding, committing, tail, mode,
                   panic>>

\* end_op: the last operation to end takes on the commit, which is empty
\* when nothing was logged; any other wakes those waiting for log space.
EndOp(p) ==
    /\ Running
    /\ pc[p] = "op"
    /\ outstanding' = outstanding - 1
    /\ wrote' = [wrote EXCEPT ![p] = {}]
    /\ IF committing
       THEN panic' = TRUE /\ UNCHANGED <<committing, pc>>
       ELSE /\ IF outstanding = 1
               THEN /\ committing' = TRUE
                    /\ pc' = [pc EXCEPT ![p] = IF lh = <<>> THEN "committed"
                                               ELSE "write_log"]
               ELSE /\ WakeAndGo(p, "idle")
                    /\ UNCHANGED committing
            /\ UNCHANGED panic
    /\ UNCHANGED <<disk, logdata, head, cache, dirty, lh, cur, tail, mode>>
-----------------------------------------------------------------------------
(* commit(), run by the process that set committing.                       *)

\* The end of the loops over the header's entries.
LastTurn == tail = Len(lh)

\* The commit's steps in order.
AfterWriteLogInstall == "install"

AfterWriteLog == "write_head"

\* One turn of write_log's loop: a cached block to its log block.  With more
\* entries than log blocks the write would fall outside the log: LogFits.
WriteLog(p) ==
    /\ Running
    /\ pc[p] = "write_log"
    /\ tail <= NLOG - 1
    /\ logdata' = [logdata EXCEPT ![tail] = View(lh[tail])]
    /\ cache' = [cache EXCEPT ![lh[tail]] = View(lh[tail])]
    /\ IF LastTurn
       THEN pc' = [pc EXCEPT ![p] = AfterWriteLog] /\ tail' = 1
       ELSE UNCHANGED pc /\ tail' = tail + 1
    /\ UNCHANGED <<disk, head, dirty, lh, outstanding, committing, cur, wrote, mode,
                   panic>>

\* write_head: the commit point.
WriteHead(p) ==
    /\ Running
    /\ pc[p] = "write_head"
    /\ head' = lh
    /\ pc' = [pc EXCEPT ![p] = "install"]
    /\ UNCHANGED <<disk, logdata, cache, dirty, lh, outstanding, committing, cur,
                   wrote, tail, mode, panic>>

\* What one turn of install_trans's loop does to the disk and the cache: the
\* log block is copied into the home block's buffer, and bwrite leaves the
\* buffer on disk and clean.
InstallBlock ==
    /\ disk' = [disk EXCEPT ![lh[tail]] = logdata[tail]]
    /\ cache' = [cache EXCEPT ![lh[tail]] = logdata[tail]]
    /\ dirty' = dirty \ {lh[tail]}

InstallTrans(p) ==
    /\ Running
    /\ pc[p] = "install"
    /\ InstallBlock
    /\ IF LastTurn
       THEN pc' = [pc EXCEPT ![p] = "erase"] /\ tail' = 1
       ELSE UNCHANGED pc /\ tail' = tail + 1
    /\ UNCHANGED <<logdata, head, lh, outstanding, committing, cur, wrote, mode,
                   panic>>

\* log.lh.n = 0 and the second write_head.
EraseLog(p) ==
    /\ Running
    /\ pc[p] = "erase"
    /\ lh' = <<>>
    /\ head' = <<>>
    /\ pc' = [pc EXCEPT ![p] = "committed"]
    /\ UNCHANGED <<disk, logdata, cache, dirty, outstanding, committing, cur, wrote,
                   tail, mode, panic>>

StillCommitting == committing

NotCommitting == FALSE

\* The end of end_op: committing is cleared and the sleepers woken.
EndCommit(p) ==
    /\ Running
    /\ pc[p] = "committed"
    /\ committing' = NotCommitting
    /\ WakeAndGo(p, "idle")
    /\ UNCHANGED <<disk, logdata, head, cache, dirty, lh, outstanding, cur, wrote,
                   tail, mode, panic>>
-----------------------------------------------------------------------------
(* The buffer cache: bread brings a block in, bget recycles a buffer that  *)
(* is neither dirty nor in use.                                            *)

Read(b) ==
    /\ Running
    /\ cache[b] = NotCached
    /\ cache' = [cache EXCEPT ![b] = disk[b]]
    /\ UNCHANGED <<disk, logdata, head, dirty, lh, outstanding, committing, pc, cur,
                   wrote, tail, mode, panic>>

Recycle(b) ==
    /\ Running
    /\ cache[b] # NotCached
    /\ b \notin dirty
    /\ \A p \in Procs : cur[p] # b
    /\ cache' = [cache EXCEPT ![b] = NotCached]
    /\ UNCHANGED <<disk, logdata, head, dirty, lh, outstanding, committing, pc, cur,
                   wrote, tail, mode, panic>>
-----------------------------------------------------------------------------
(* Crash, and initlog at the next boot, before any process uses files.     *)

Crash ==
    /\ cache' = [b \in Blocks |-> NotCached]
    /\ dirty' = {}
    /\ lh' = <<>>
    /\ outstanding' = 0
    /\ committing' = FALSE
    /\ pc' = [p \in Procs |-> "idle"]
    /\ cur' = [p \in Procs |-> NoBlock]
    /\ wrote' = [p \in Procs |-> {}]
    /\ tail' = 1
    /\ mode' = "read_head"
    /\ panic' = FALSE
    /\ UNCHANGED diskVars

\* recover_from_log installs what read_head found.
AfterReadHeadClear == "clear"

AfterReadHead == IF head = <<>> THEN "clear" ELSE "install"

ReadHead ==
    /\ mode = "read_head"
    /\ lh' = head
    /\ mode' = AfterReadHead
    /\ UNCHANGED <<disk, logdata, head, cache, dirty, outstanding, committing, pc,
                   cur, wrote, tail, panic>>

TailNext == tail + 1

RecoverInstall ==
    /\ mode = "install"
    /\ InstallBlock
    /\ IF LastTurn
       THEN mode' = "clear" /\ tail' = 1
       ELSE UNCHANGED mode /\ tail' = TailNext
    /\ UNCHANGED <<logdata, head, lh, outstanding, committing, pc, cur, wrote,
                   panic>>

RecoverClear ==
    /\ mode = "clear"
    /\ lh' = <<>>
    /\ head' = <<>>
    /\ mode' = "up"
    /\ UNCHANGED <<disk, logdata, cache, dirty, outstanding, committing, pc, cur,
                   wrote, tail, panic>>
-----------------------------------------------------------------------------
Commit(p) ==
    \/ WriteLog(p)
    \/ WriteHead(p)
    \/ InstallTrans(p)
    \/ EraseLog(p)
    \/ EndCommit(p)

LogWrite(p) == LogWriteCheck(p) \/ LogWriteAppend(p)

Recover == ReadHead \/ RecoverInstall \/ RecoverClear

Next ==
    \/ \E p \in Procs : \/ BeginOp(p)
                        \/ \E b \in Blocks, v \in Data : Modify(p, b, v)
                        \/ LogWrite(p)
                        \/ EndOp(p)
                        \/ Commit(p)
    \/ \E b \in Blocks : Read(b) \/ Recycle(b)
    \/ Crash
    \/ Recover

Spec == Init /\ [][Next]_vars

\* The scheduler runs every runnable process again and again and the disk
\* answers, so a woken process, a log_write, a commit and the recovery go on;
\* an operation is a finite piece of kernel code and reaches its end_op.
\* Nothing makes an idle process start an operation.
Fairness ==
    /\ WF_vars(Recover)
    /\ \A p \in Procs :
         /\ WF_vars(pc[p] = "woken" /\ BeginOp(p))
         /\ WF_vars(LogWrite(p))
         /\ SF_vars(EndOp(p))
         /\ WF_vars(Commit(p))

FairSpec == Spec /\ Fairness
-----------------------------------------------------------------------------
(* Properties.                                                             *)

\* Every variable has its type (struct logheader and struct log, log.c:34-48); how
\* long the log may become is the matter of LogFits.
TypeOK ==
    /\ disk \in [Blocks -> Data]
    /\ logdata \in [LogSlots -> Data]
    /\ head \in Seq(Blocks)
    /\ cache \in [Blocks -> Data \cup {NotCached}]
    /\ dirty \subseteq Blocks
    /\ lh \in Seq(Blocks)
    /\ outstanding \in Nat
    /\ committing \in BOOLEAN
    /\ pc \in [Procs -> PCs]
    /\ cur \in [Procs -> Blocks \cup {NoBlock}]
    /\ wrote \in [Procs -> SUBSET Blocks]
    /\ tail \in Nat \ {0}
    /\ mode \in {"read_head", "install", "clear", "up"}
    /\ panic \in BOOLEAN

\* What is on disk for good: the home blocks, or the logged copy of those a
\* committed transaction names.  This is what recovery would produce.
Durable ==
    [b \in Blocks |->
        IF b \in Logged(head)
        THEN logdata[CHOOSE i \in DOMAIN head : head[i] = b]
        ELSE disk[b]]

\* What the kernel's reads see; nothing is read before recovery is over.
Mem == IF mode = "up" THEN [b \in Blocks |-> View(b)] ELSE Durable

T == INSTANCE Transactions WITH mem <- Mem, durable <- Durable, active <- Active

\* The log implements atomic group commit: whatever the interleaving of
\* operations, commits, evictions and crashes, the disk that a restart finds
\* has the effects of whole operations only (log.c:9-30, commit, recovery).
Atomic == T!Spec

\* Write-ahead: a home block is written only while the header on disk names
\* it, so that a crash in the middle of install_trans can be repaired
\* (commit's order write_log, write_head, install_trans; B_DIRTY pinning).
WriteAhead == [][\A b \in Blocks : disk'[b] # disk[b] => b \in Logged(head)]_vars

\* When no operation is outstanding and no commit is under way, everything
\* that was written is on disk: the end_op that ends a group returns only
\* after the commit (end_op, commit).
QuiescentDurable ==
    mode = "up" /\ outstanding = 0 /\ ~committing => Mem = Durable

\* While operations run, the buffers pinned by B_DIRTY are exactly the blocks
\* the log will write: none is pinned for ever, none can be evicted before
\* it is committed (log_write, bget, install_trans).
PinnedIsLogged ==
    mode = "up" /\ ~committing => dirty = Logged(lh)

\* The log fits its area on disk: write_log never writes past the log's last
\* block.  log_write's test alone does not see to it, as calls that pass it at once
\* all append; begin_op's reservation has to keep the log short of that.
LogFits == Len(lh) <= NLOG - 1

\* Neither log_write nor end_op panics: begin_op's reservation leaves room
\* for every operation it admits (begin_op, log_write).
NoPanic == ~panic

\* A process sleeps in begin_op only as long as its reason to: a change that
\* could let it go on wakes it (the two wakeups of end_op).
SleepersBlocked ==
    Running => \A p \in Procs : pc[p] = "sleep" => LogBusy

\* Every sleeper in begin_op is woken (or the machine crashes).
SleepersWoken == \A p \in Procs : pc[p] = "sleep" ~> pc[p] # "sleep"

\* While somebody waits in begin_op, admission opens again: the operations
\* ahead end, and the commit gives the space back (or the machine crashes).
SpaceReturns ==
    (\E p \in Procs : pc[p] = "sleep") ~> (~LogBusy \/ mode # "up")

=============================================================================
