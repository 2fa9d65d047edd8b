# TLA+ models and proofs of the xv6 kernel

The repository is an archive of operating-systems material: historical sources, course
notes, Windows and Debian resources, and one complete operating system,
`src/learning/pdos.csail.mit.edu/xv6-public`, MIT's multiprocessor teaching kernel (about 6000
lines of C without its user programs). This project models and verifies that kernel. File names
below are relative to its directory.

## 1. The system

| Part | Files | State | Operations | Hard because |
|---|---|---|---|---|
| Processes, scheduler | `proc.c`, `trap.c`, `sysproc.c` | process table, `ptable.lock`, each CPU's current thread | fork, exit, wait, kill, sleep, wakeup, yield, scheduler, timer trap | `ptable.lock` passes between threads across `swtch`; preemption; lost wakeups; orphans; allocation failures |
| Log | `log.c` | `log.lh`, `outstanding`, `committing`; log area and header on disk | begin_op, log_write, end_op, commit, recovery | concurrent operations share a commit; crash between any two disk writes; log space |
| Buffer cache | `bio.c` | buffers: block, flags, reference count, LRU order | bget, bread, bwrite, brelse | one copy per block; recycling against waiters; dirty buffers |
| Disk driver | `ide.c` | request queue | iderw, ideintr, idestart | interrupt against callers; read errors |
| Locks | `spinlock.c`, `sleeplock.c` | owner, `ncli`, `intena` | acquire, release, pushcli, popcli, acquiresleep | interrupts while holding a lock; `intena` across `sched` |
| Pipes | `pipe.c` | ring, `nread`, `nwrite`, open ends | read, write, close | full and empty, closing, killed processes |
| Console | `console.c` | input ring `r`, `w`, `e` | consoleintr, consoleread | interrupt against reader, wrapping counters |
| Open files | `file.c`, `sysfile.c` | `ftable` reference counts | open, dup, close, fork's copies | last close against dup |
| Inodes, directories | `fs.c`, `sysfile.c` | inode cache, link counts, directory entries | ialloc, iget, iput, ilock, link, unlink, create | free-on-last-put races, unlinked directories, crashes |
| Memory | `kalloc.c`, `vm.c`, `exec.c` | free list, page tables | kalloc, kfree, copyuvm, exec | failure half-way |
| Boot, traps entry, device registers, libraries, user programs | the rest | | | assembly and hardware set-up, or clients |

How they interact. System calls run on a process's kernel stack and reach the file system through
`begin_op`/`end_op`. Anything that blocks calls `sleep(chan, lock)`, which enters the scheduler by
`sched`/`swtch`; `wakeup(chan)` is called by other processes and by interrupt handlers (timer,
disk, keyboard). The file system writes blocks only through `log_write`; only the log calls
`bwrite`; the buffer cache calls `iderw`, which sleeps until `ideintr` completes the request. `exit`
closes files and drops the working directory inside a log operation; `fork` copies references to both.

What makes each part correct: processes - a thread runs on one CPU at a time and never on a freed
stack, no wakeup is lost, zombies are always collectable, runnable processes run, killed ones exit.
Log - a crash leaves whole groups of operations, no block is written home before its group commits,
the log never overflows, nobody waits for space for ever. Cache and driver - one buffer per block,
a reader sees the last write, every request completes. Pipes and console - bytes come out in order,
once, and neither side sleeps when it could go on. Files and inodes - counts equal references, an
inode is freed exactly when its last link and reference go. Memory - a page has one owner.

## 2. Modules

| Module | What it is |
|---|---|
| `Transactions` | abstract specification of what the log promises: operations write memory, the disk jumps to memory only when no operation is active, a crash goes back to the disk |
| `Log` | `log.c`, with the part of `bio.c` it relies on; instantiates `Transactions` under a refinement mapping (`T`) |
| `LogProofs` | theorems about `Log` |
| `MCLog` | constants for TLC; `MCLog.cfg`, `MCLogFull.cfg`, `MCLogLive.cfg` |
| `Proc` | `proc.c`, the timer part of `trap.c`, `sys_sleep` |
| `ProcProofs` | theorems about `Proc` |
| `MCProc` | constants for TLC; `MCProc.cfg`, `MCProcLive.cfg`, `MCProcBorn.cfg` |
| `Stream` | abstract specification of what a pipe promises: a bounded queue of bytes, and its end |
| `Pipe` | `pipe.c` with the parts of `fileclose`, `sleep`, `wakeup` and `kill` that meet in it; instantiates `Stream` (`S`) |
| `PipeProofs` | theorems about `Pipe` |
| `Remainders` | lemmas on remainders, for the rings of `PipeProofs` and `ConsoleRing` |
| `MCPipe` | constants for TLC; `MCPipe.cfg`, `MCPipeKill.cfg` |
| `SpinLock` | `spinlock.c`: `pushcli`, `popcli`, `acquire` and `release` as operators on the state of one processor |
| `Terminal` | abstract specification of what the console promises: a line that is edited, and a queue of complete lines |
| `Console` | `console.c` between the keyboard's interrupt, the readers and the writers, with `sleep`, `wakeup`, `kill`, `sched` and the frames of `trap.c`; uses `SpinLock`, instantiates `Terminal` (`T`) |
| `ConsoleProofs` | theorems about `Console`: locks, interrupt nesting, panics |
| `ConsoleRing` | theorems about `Console`: the ring of input, sleepers, the refinement of `Terminal` |
| `MCConsole` | constants and the view for TLC; `MCConsole.cfg` |
| `BlockStore` | abstract specification of what the cache promises: blocks that one process at a time owns, changes and puts on the disk |
| `Bio` | `bio.c`, the buffers' sleep locks (`sleeplock.c`), `ide.c` and the disk; instantiates `BlockStore` (`B`) |
| `BioProofs` | theorems about `Bio` |
| `MCBio` | symmetries for TLC; `MCBio.cfg` |
| `FileTree` | abstract specification of what the inode layer promises: names, the inodes they name, and the inodes processes use |
| `Inode` | the inode cache, directories and path names of `fs.c` under the system calls of `sysfile.c`; instantiates `FileTree` (`T`) |
| `InodeProofs` | theorems about `Inode` |
| `MCInode` | the system calls of the runs; `MCInode.cfg`, `MCInodeLock.cfg` |

In the models one operator mirrors one piece of code, so a small operator that stands for one
expression of the source (`LogBusy`, `AfterWriteLog`, `IntoSched`...) may be preceded by an unused
variant (`BusyForOne`, `ReleasedEarly`...): the variant is the same code with a plausible mistake,
and `PROJECT.json` pairs it with the property that this mistake breaks.

### 2.1 `Log`

State: `disk`, `logdata`, `head` are the home blocks, the log's data blocks and its header on disk;
`cache`, `dirty` the buffers and their `B_DIRTY` flags; `lh`, `outstanding`, `committing` are
`struct log`; `pc`, `cur`, `wrote` tell where each process is in its operation, which buffer it has
locked and which blocks it has logged; `tail` is the loop index of `write_log` and
`install_trans`; `mode` is the progress of `initlog`.

`begin_op` and `end_op` are atomic under `log.lock` (`BeginOp` is one turn of the loop, and it either
sleeps or enters). `Modify` is `bread` and the caller's change of the data, with the buffer's sleep
lock held until `log_write` and `brelse`. `log_write` is two steps, because its first test is made
before the lock is taken: `LogWriteCheck`, then `LogWriteAppend`. `commit` is cut at every disk write
(`WriteLog`, `WriteHead`, `InstallTrans`, `EraseLog`), then `EndCommit`. `Recycle` evicts a buffer
that is clean and unlocked at any time; `Crash` may happen at any time, also during recovery, and a
panic stops everything but the reset button. A single block is written whole or not at all.

`Transactions` is refined with `mem` = what reads would return, `durable` = what recovery would
produce from the disk as it is (`Durable`), `active` = the processes between `begin_op` and `end_op`.

### 2.2 `Proc`

State: the fields of `struct proc` by slot (`state`, `chan`, `killed`, `parent`, `pid`, `kstack`),
`nextpid`; `lk` and `tk`, the CPUs that hold `ptable.lock` and `tickslock`; per CPU, `on` (the thread
whose kernel stack it runs on), `at` (idle in the scheduler, scanning, running a thread, inside
`sched` before the switch, or in the timer interrupt) and `idx` (the scan's position); per thread, `pc`, `back`
(where a preempted thread goes on), `child` (the slot its fork fills) and `left` (`n - (ticks - ticks0)`
of `sys_sleep`, never below 0).

A critical section of `ptable.lock` without a switch is one step, enabled when the lock is free
(`ForkAlloc`, `ForkReady`, `Kill`, `TickWake`). One with a switch is cut there: `Yield`, `Sleep`, `WaitSleep`
and `Exit` change the state and leave `lk` with their CPU, `Swtch` leaves the stack, `SchedPick`
resumes another thread, and that thread's first step (`ForkRet`, `YieldResume`, `SleepResume`, or
`wait`'s next scan) releases the lock. What `fork` does without the lock (`ForkStack`, `ForkCopy`,
`ForkFail` with its unlocked `state = UNUSED`) is a step each. The timer interrupts a CPU wherever interrupts are on
(`InterruptsOn`); on the boot CPU it takes `tickslock`, counts, wakes the sleepers of `&ticks`, and
on every CPU it ends in `yield` when a process was running, or in `exit` for a killed process that was in
user mode. `sys_sleep` stands for every killable loop around `sleep` whose waker is an interrupt handler.

Abstracted: what `exit` does before it takes `ptable.lock` (closing files, `iput` in a log operation) and
what user code does between system calls. The instruction window between two lock operations is one `pc`,
so preemption falls between steps.
### 2.3 `Pipe`

State: the fields of `struct pipe` (`nread` and `nwrite` modulo `WRAP`, which stands for 2^32), `freed` for
its page, `lock` for `p->lock` between two steps, `open` (the processes that still refer to their end), `killed`,
and per process `pc`, what a write has left (`buf`), the size of a read (`want`), whether the last write returned `n` (`wrote`) and what the last read returned (`res`).

A turn of `pipewrite`'s or `piperead`'s loop runs under `p->lock` and is one step: it ends in a return
(`WriteDone`, `WriteFail`, `ReadDone`, `ReadFail`) or goes to sleep (`WriteFull`, `ReadEmpty`). `Sleep` is the step in which
`sleep`, under `ptable.lock`, makes the process `SLEEPING` and drops `p->lock`; until then a wakeup cannot come, for
want of `p->lock`, but `Kill` can. `Close` is `fileclose`'s decrement of the end's count, `PipeClose` the call it
leads to for the last process; a killed process does nothing but leave. `PipeAlloc` makes a new pipe in the freed page,
once everybody is out of it. `Stream` is refined with `queue` = the bytes from `nread` to `nwrite`, `eof` = `~writeopen`,
`busy` = the processes in `pipewrite` or `piperead`, `out` = `buf`. A write chooses its text when it is called, so `Stream` says which bytes each step of it
may add: the next ones of that text, all of them if it returns `n`, and otherwise as many as fill the queue. A write or a read of no bytes is a call like any
other: `piperead` of none waits for a byte and then takes none.
### 2.4 `Bio`

State: `blockno`, `refcnt` and `lru` are `bcache` (`lru` is the list from `head.next`); `valid`, `dirty` and `data` the
flags and contents of the buffers; `holder` the buffers' sleep locks; `idequeue` the driver's queue, `cmd` the command the
disk works at, if any, and `disk` its blocks; per process `pc` and the buffer it has from `bget` (`buf`).

A step is one critical section. `bget` is `BgetHit` or `BgetRecycle` under `bcache.lock`, then `AcquireSleep`, tried again after
each wakeup; `brelse` is `ReleaseSleep`, then `Put`. In between, a buffer is referenced but not locked, which is where
recycling could go wrong. `Iderw` queues a request and starts the disk if it is the only one; `DiskDone` is the disk,
`Ideintr` the whole interrupt handler, `IderwWoken` the test after a wakeup. `Pin` is a change that `log_write` leaves
dirty in the cache, `Bwrite` one that goes to the disk at once. The panics of `bwrite`, `brelse` and `iderw` are for callers that
do not hold the buffer, which the model has none of; `bget`'s
is not a step: a process that would run into it stays where it is, and the others go on.

`BlockStore` is refined with `mem` = the valid buffer of a block, or else the disk; `owner` = who is past `acquiresleep`. So that
two buffers never show one block, a read never returns what was there before a write, and no request is
carried out with another block's data.
### 2.5 `Inode`

State: `dinode` and `ents` are the inodes and directory entries on disk, `ref`, `valid`, `minode` and `lock` the inode cache (an inode
stands for its cache entry as well, so the size of the cache is not a limit); `cwd` and `file` of each process; `k[p]` is where `p` is in its
system call: the call and its paths, the inodes the code calls `ip` and `dp`, and `drop`, those it has yet to `iput`. `lost`
is a history variable: names that went with a removed directory in which something had been created too late.

Every call is cut at every lock it takes while it may hold another and at every place where it holds none: `Visit` is one turn of
`namex`; `link` is `LinkCount`, a second walk, `LinkEntry` and on failure `LinkBad`, `LinkUndo`; `unlink` is `UnlinkFind`,
`UnlinkEntry`, `UnlinkCount` or `UnlinkBad`; `create` is `CreateFind`, then `CreateFound` or `Ialloc`, `IallocIget`,
`CreateEntry`. `Ialloc` is one turn of the scan, because `ialloc` gives back the block of each inode before it reads the next. A lock that is taken and given back around one access, with nothing else to wait for inside, is one step. `iput` is four steps,
because it reads `ref` and lowers it under different holds of `icache.lock`, and because the inode is free on disk before its
cache entry is. `itrunc` and `iupdate` in it are one step, since the inode is locked and nobody else can reach its blocks. The log makes a call atomic
towards a crash (`Atomic` of `Log`), so `Inode` has none. Device and plain files behave alike here.

`FileTree` is refined with `kind` = the type on disk (still free between `ialloc` and the first name), `tree` = the entries other than the
dots, `uses` = current directories and open files. `Free` is enabled there only for what no name and no process has: this is
what `iput`'s test of `nlink` and `ref` has to guarantee against every other call.

### 2.6 `Console` and `SpinLock`

State: per processor, `cpu` (`ncli`, `intena` and the interrupt flag), whether it is spinning in `acquire`, `current` (the stack it is on: a process's or
its scheduler's) and `idx`, its place in the process table; per stack, the frames on it, topmost first: a process's call or the scheduler, and the
interrupt handlers on top of it. Shared: `holder` of `ptable.lock` and `cons.lock`; `panicked`; `buf`, `r`, `w`, `e` (`input`, the counters
modulo `WRAP`, which stands for 2^32) and `doprocdump`; `state` and `killed` of the processes, and `saved`, the `intena` that `sched` keeps on a process's stack;
per reader, `asked` and `got`, the size of its call and what it has copied.

`SpinLock` translates `spinlock.c` once, on the state of one processor, with the panics; every step of `Console` that
takes or gives a lock goes through it. A lock that is free is taken in one step with the section up to the next lock operation; a lock that is
held makes the processor spin with interrupts off. An interrupt pushes a frame wherever the interrupt flag is on: the keyboard's (`consoleintr` over
some characters, one step for each, `wakeup` under `ptable.lock` among them, and `procdump` after the lock is released) or the timer's, of which the model keeps
what nests (`yield`) and leaves `tickslock` and the ticks to `Proc`. `sleep` gives back `cons.lock` once it has `ptable.lock`; `sched` saves
`intena` in the thread that leaves and sets it in the one that comes, and these two need not be on one processor, which is what
`InterruptsFollow` is about.

Abstracted: the inode lock, which `consoleread` and `consolewrite` drop before they take `cons.lock` and take again after it, and what is put on the screen. `'\r'` is the newline it is turned into, the character 0 is dropped as in the code, and `forkret` with `trapret` is
one step, as nothing is locked in between. A kill is another process's call, so it comes from another processor.

`Terminal` is refined with `queue` = the bytes from `r` to `w`, `edit` = those from `w` to `e`, and the calls with what they got so far: a completed line can no
longer be erased, a call never gets bytes of two lines, and what is taken from the queue is given to one reader, in order.

## 3. What the runs check

| Run | Configuration | Shows |
|---|---|---|
| `log_main` | 3 processes, 3 blocks of 2 contents, `LOGSIZE` 4, `MAXOPBLOCKS` 2, 6 log blocks; process symmetry | `Atomic` (refinement of `Transactions`), `WriteAhead`, `PinnedIsLogged`, `SleepersBlocked`, `TypeOK` |
| `log_full` | 3 processes, 6 blocks, `LOGSIZE` 6, `MAXOPBLOCKS` 2, operations of exactly 2 blocks | `NoPanic` is **violated**: finding 1 |
| `log_live` | 3 processes, 5 blocks of one content, `LOGSIZE` and `NLOG` 4, `MAXOPBLOCKS` 2, operations of at most 1 block, fairness | operations below their reservation never overrun the log area (`LogFits`); `SleepersWoken`, `SpaceReturns` |
| `proc` | 2 CPUs, 3 slots, pids to 4 (a slot is used again), `kill(2)`, sleeps of one tick | the scheduling and sleep/wakeup invariants: `RunningOnOneCPU`, `StackInUse`, `NoLostWakeup`, `NoLostChild`, `ParentAlive`, `TypeOK` |
| `proc_live` | 1 CPU, 3 slots, pids to 3, fairness | `Scheduled`, `KilledDies`, `SleepReturns`, `WaitReturns` |
| `proc_born` | 2 CPUs, 3 slots, `kill` of 0, 2, 3, 4 | `BornAlive` is **violated**: finding 2 |
| `pipe` | 2 writers, 1 reader; the reader and a writer may be killed; `PIPESIZE` 2, `WRAP` 4, writes of nothing or of two different bytes, reads of 0 to 2 bytes, fairness | `IsStream` (refinement of `Stream`), `NotFreedInUse`, `SleepersWait`, `SleepersWoken`, `TypeOK` |
| `pipe_kill` | 1 writer, 1 reader that may be killed, kernel fairness | `KilledLeaves` is **violated**: finding 3 |
| `console` | 2 processors, a process that reads, writes and may be killed, one that only computes, lines of one letter, erase, kill-line, end of file, `INPUT_BUF` 2, `WRAP` 4, reads of 1 or 2 bytes | `IsTerminal` (refinement of `Terminal`), `NoPanic` (no `acquire`, `popcli` or `sched` panics), `InterruptsFollow`, `SleepersWait`, `TypeOK` |
| `bio` | 2 processes, 4 blocks of 2 contents, 3 buffers of which the log may pin 2, a disk that does not fail; symmetry of processes and blocks | `IsBlockStore` (refinement of `BlockStore`), `OneBufferPerBlock`, `CleanIsOnDisk`, `BuffersSuffice`, `SleepersWait`, `TypeOK` |
| `files` | 2 processes, 3 inodes, names `a` and `d`, files of at most 2 links; `mkdir ../d`, `creat /d`, `unlink /d`, `open /d` for writing, `chdir /d`, `link /d /d`, `creat /d/a`, `link /d /d/a`, and close | `IsFileTree` (refinement of `FileTree`), `RefCounts`, `LinksCounted`, `CacheAgrees`, `NoPanic`, `TypeOK` |
| `files_lock` | the same | `NoDeadlock` is **violated**: finding 4 |

Bounds of the log runs. `LOGSIZE = 2 * MAXOPBLOCKS` lets two operations run at once and makes a third wait, which
is the smallest log with both concurrency and sleeping; three blocks let two operations of two
blocks overlap in one (absorption) and differ in another; two contents tell an old block from a new
one. In the violations `LOGSIZE = 3 * MAXOPBLOCKS = NLOG`, as shipped (30, 10, 30), so that three
operations run at once.
`log_live` has the smallest `LOGSIZE` with two concurrent operations, and no use for contents: the properties
it checks are about counts and sleepers. Its log area holds `NLOG - 1` = 3 blocks and there are five, so absorption does not keep the log in its area: only the
reservation does (let one operation too many in, and two calls that pass the unlocked test together take the log past the end). `OpBlocks` bounds the distinct blocks an operation writes; the loop of an operation is otherwise unbounded.

Fairness of the log: weak fairness of each process's next step in `log_write`, in the commit and when woken in
`begin_op` (the scheduler runs every runnable process, see `Scheduled`, and the disk answers), and
strong fairness of `end_op`, because an operation is a finite piece of kernel code. Nothing makes
an idle process begin an operation, and nothing forbids crashes.
Bounds of the process runs. Three slots hold init, a parent and a child, so that orphans and orphaned zombies occur. Pids to 4 let a
reaped slot be allocated again. One tick is enough for `sys_sleep`, as the loop sleeps again for each tick still to come.
`MaxPid` bounds the number of forks, and init neither exits nor is killed (`ProcConstants`, as
`init.c` never exits and `kill(1)` panics). The liveness runs have one CPU: races between CPUs are the matter of
the safety run, and one CPU is where scheduling order and preemption matter most.

Fairness of the processes: strong fairness for each CPU's scheduler, its interrupt handler and its timer, and for each
thread's first step after a switch and its later steps in the kernel. Strong, because `acquire` spins
on a lock that others keep taking (`xchg` has no queue, so this is the assumption that spinning does not lose for ever),
and because a thread is on a CPU only now and then. A spinning thread has interrupts off
(`Pushcli`), which is why the timer cannot starve it. User programs are never obliged to make a call.
Bounds of the pipe runs. Two slots put bytes at two places of the ring, and `WRAP` is a multiple of `PIPESIZE` as 2^32 is of 512, so the counters wrap, and
the bytes of a write lie across the end of the ring, in every longer behaviour. A write of two bytes may find room for both, for one or for none: it is cut, the writers' bytes
interleave, and both compete for each wakeup. Its bytes differ, so that one put twice, left out or out of order shows. The reader and a writer may be killed at any point,
also on their way to sleep. In `pipe_kill`, where the reader has to fall asleep only once, one byte value is enough. Larger pipes, more values and several readers are the matter of
the proofs, which bound none of them.

Fairness of the pipe: strong fairness of a process's step in a call (it must get `p->lock` again and again) and of
`pipeclose`; a killed process that is outside a call exits (`trap`). `SleepersWoken` also assumes that no process keeps its end open and idle
for ever; `KilledLeaves` does not, because `kill` promises nothing about other processes.
Bounds of the console run. A line may fill the ring (`INPUT_BUF` 2, when the last character completes the line whatever it is), and a letter may be
waiting behind a completed line; the counters wrap within a few lines. A reader asks for less than a line and for more. With two
processors, one can hold each lock while the other spins, is interrupted, or takes the other lock. `VIEW` leaves out the bytes of `buf` that are
not between `r` and `e`, which no step reads.
Bounds of the cache run. Four blocks and three buffers force recycling with a pinned buffer in the way; two processes meet at one
buffer (one waits behind the other's read) and at the queue (one request behind the other). A process uses one buffer at a time.
`write_log` and `bmap` use two, which for the cache is two processes with one each. With two buffers pinned and one in use the cache of the run is full,
so `BuffersSuffice` is checked up to its limit. It does not say that the limit is never reached: `NBUF` is 30, the log may pin 29 buffers, and the rest must serve everybody
else; it says that `bget` panics for no other reason. `ReadErrors` is `FALSE`: that the disk reads what
it is asked is an assumption, without which `CleanIsOnDisk` and `IsBlockStore` fail, because `ideintr` marks a buffer valid after an error too.
Bounds of the file run. `d` is a directory or a file, in turn or for two processes that disagree; it is the parent and the target of
calls, may be removed while a call is on its way into it, and while it is a current directory or open. Three inodes are the root, `d`, and one
below it, or the next `d`: a freed inode is reused at once. A process has room for one open file, so `OpenFd` fails when there is one. `ialloc`
panics at the end of its scan in the code and in the model (`NoInodes`), and the run gets there; `NoPanic` is about the panics of `ilock` and `sys_unlink`. All directories of the run are in the root.
Deadlock checking is off in both runs, because finding 4 is a deadlock of the code.

### Findings

1. *The reservation is off by one* (`log_full`). `begin_op` shares out `LOGSIZE` blocks
   (`log.c:132`), the log area holds one block less because `mkfs.c` counts the header in `nlog`.
   Three operations of ten blocks are all admitted by 30/10 and `log_write` panics
   (`log.c:218`); the test even comes before absorption. xv6 ships no operation that writes ten
   distinct blocks, and the theorems below show that nine are safe.
2. *A process may be born killed* (`proc_born`). `kill` compares pids only, and free slots have a pid:
   0 when reaped or never used, the old one when their fork failed. `kill(0)` succeeds, marks a free slot, and
   `allocproc` does not clear the mark: the next process in that slot exits before it runs.
3. *A kill can be missed by a process on its way to sleep* (`pipe_kill`). `piperead` and `pipewrite` test `killed` under
   `p->lock` (`pipe.c:86`, `pipe.c:107`), `kill` runs under `ptable.lock` and wakes only who is `SLEEPING` already
   (`proc.c:488-490`). A kill in between leaves the victim asleep until the other end acts. `sys_sleep`
   has the same window, but a tick always comes.
4. *`create` and `unlink` of one name can wait for each other for ever* (`files_lock`). Locks are taken parent before child, but `create` and `sys_unlink`
   call `iunlockput(dp)` with the child locked (`sysfile.c:281`, `sysfile.c:225`), and `iput` takes the inode's lock whatever the counts are (`fs.c:335`). Between the
   unlock and that `acquiresleep` another `unlink` can lock the directory and wait for the child (`sysfile.c:209`). `usertests.c:855` runs a test "to look for
   deadlocks" of this kind.

Seen while modelling, reproducible with the modules here by changing a constant or the invariant, and without a run of its own:

* `log.c:218` tests for a full log without `log.lock`: in the configuration of `log_full`, `LogFits` is violated as well, because two `log_write`s can
  both pass the test and then both append, and `write_log` would go past the log area.
* *An unlinked inode may never be freed* (`UnusedIsFree` in the configuration of `files`): two processes that put its last two references at once both read
  `ref` = 2 (`fs.c:338`) before either lowers it (`fs.c:351`), and neither frees it.
* A link to `x/.` waits for itself: `dirlink` finds the locked directory under the name and puts it (`fs.c:560-561`).
* The `..` of a removed directory is not counted in its parent's links: `mkdir d d/a`, `chdir d/a`, remove both, `chdir ..` ends in
  `ilock: no type`.
* `create` does not see that the directory it locks has been removed since `nameiparent` (`sysfile.c:248-250`): the new file keeps a link that nothing names (`lost`,
  which `LinksCounted` adds to the names; without it TLC refutes the property).
* `ialloc` may panic with an inode free (`NoInodesLeft` in the configuration of `files`): it looks at one inode at a time (`fs.c:202-213`) and misses one
  that is freed behind it.

## 4. What is proved

TLAPS proves the following for every number of processes and blocks and every value of the constants that
`LogConstants` allows.

* `TypeInvariant`, `TypeCorrect`: `Log`'s type invariant. It is not inductive alone: that `tail` indexes the
  header needs to know who is committing. `TypeInv` = `TypeOK` with `ControlInv` (at most one process is
  past the end of its operation, and then `committing` and `outstanding = 0`; the boot phases have
  no process), `LoopInv` (`tail` lies within `lh`) and `HoldInv` (the buffer a process holds is its own).
* `LogNeverOverflows`, `LogNeverPanics`: under `LogRoom`, `LogFits` and `NoPanic`. The argument (`SpaceInv`): the
  blocks in `lh` plus those each active operation may still add are bounded by what `begin_op`
  granted; a process that has passed the test but not yet appended counts as
  having one block to come, so the race on the unlocked test is covered by the margin. `LogRoom` asks
  `OpBlocks < MAXOPBLOCKS` and `LOGSIZE - 2 * (MAXOPBLOCKS - OpBlocks) <= NLOG - 2`: with 30/10/30 an
  operation may write nine blocks.
* `PinnedAreLogged`, `WritesAhead`, `GroupsAreDurable` (in a log with no operation active, the disk after recovery is what memory shows; proved only, as is
  `LogNeverPanics`), `LogIsAtomic`: the refinement of `Transactions` and the invariants it rests on (`LogInv` = `TypeInv` and `DataInv`). `DataInv` says, phase by phase, where
  the committed contents of each block are: the header on disk is empty, or names the blocks whose logged
  copies equal what memory shows; blocks outside `lh` agree on disk and in memory; a
  clean cached block equals its disk block; installed entries equal their home blocks. Each step of
  `Log` is then shown to be a step of `Transactions` (begin, write, end, commit at
  `WriteHead` or at an empty commit, crash) or to leave `Mem`, `Durable` and `Active` unchanged.

* `SleepersAreBlocked`: `SleepersBlocked`, by `SleepInv`, which adds that a process can sleep in `begin_op` only while the kernel is
  up, panicked or not. A step that frees log space is one that wakes everybody; any other leaves a busy log busy (`BusyStays`).

For every number of CPUs and slots, any `MaxPid`, and the kills and boot CPU that `ProcConstants` allows:

* `ProcInvariant`: `ProcInv` = `TypeOK`, `CPUInv`, `ThreadInv`, `ForkInv`, `FamilyInv`, `SleepInv`. None of
  the properties is inductive alone, because `ptable.lock` is taken by one thread and released by another.
  `CPUInv` says where the lock is by what each CPU does (scanning or entering `sched` means holding it); `ThreadInv`
  which `pc` a thread may have in each state of its slot and whether it is on a CPU; `ForkInv` that a slot
  in state `EMBRYO` is filled by one forking thread; `FamilyInv` that slots in use have a parent
  that is in use and not a zombie; `SleepInv` which channel a sleeper has and what is still to come for it.
* `OneThreadPerStack`, `StacksStayInUse`, `ParentsStayAlive`, `NoTickIsLost`, `NoZombieIsMissed` (the safety invariants of run `proc`),
  `SchedNeverPanics`, `EmbryosArePrivate` (proved only): each is a consequence of `ProcInv`.
  The proof that a step preserves `ProcInv` is a lemma for each part (`TypeStep`, `CPUStep`, ...) with one step per action.

`Scheduled`, `KilledDies`, `SleepReturns` and `WaitReturns` are model-checked only.

*`Bio`* (`BioProofs`). All six properties of the run, for every number of processes, blocks and buffers, the refinement of `BlockStore`
among them. `BioInv` is inductive; none of its parts is by itself. `OneBufferPerBlock` needs `UseInv` (who has a buffer, and that a buffer with
contents has a block), since the count must drop to zero only when no process is left on its way to the lock. `LockInv` ties each held lock to
the one process past `acquiresleep`; `FlagInv` says which flags its buffer can have where that process is (a buffer that goes to the disk is not
valid, or is dirty; a buffer that is held is valid). `QueueInv` and `DiskServes` then make the head of the queue, the disk's command and the process that waits one
and the same request, and `CmdInv` says that the command was taken from the flags and data the buffer still has, which is why `ideintr` may read the flags
again. From these follow `SleepersWait` and, with a disk that does not fail to read (`ReadErrors = FALSE`, an assumption of the
theorem), `CleanIsOnDisk`, by one more induction. The refinement uses both: recycling changes nothing a reader sees because the victim is not
dirty and so on the disk; an interrupt changes nothing because it fills a buffer nobody has seen, or cleans one that is on the disk.
`BgetPanicsOnlyWhenFull` counts, with no assumption on the numbers: a buffer without users is not referenced (`OneBufferPerBlock`), so those that cannot be recycled are in use or
pinned, a user has one of them, and the list has all the others (`ListInv`).

*`Console`* (`ConsoleProofs`, `ConsoleRing`). All five properties of the run, for every number of processors and processes, any `INPUT_BUF`, and any `WRAP` that
`INPUT_BUF` divides.

* `NobodyPanics`, `InterruptsFollowLocks`: by `ControlInv`, which says for each processor what its `ncli`, `intena` and interrupt flag
  are where it is, and which locks it holds; that the stacks that run are those of `RUNNING` processes, one each; and where a stack
  that does not run will go on. The argument is local: a step of one processor changes its own record, its own stack, and locks that were
  free or its own, so that `Elsewhere` carries the invariant over for all others, and each action is one of few kinds: on the processor alone (`LocalStep`,
  `SectionStep`, `EnterStep`), or one where it leaves a stack (`LeaveStep`) or arrives on one (`ArriveStep`).
* `InputIsInvariant`, `ConsoleTypeCorrect`: `RingInv` (`r`, `w`, `e` are in order and at most `INPUT_BUF` apart, and a line being edited has no
  newline and no end of file in it, which is why the erasing loop takes all of it and stops at `w`) and `CallOK` (a reader never has more than it asked for).
* `ReadersWait`: `SleepersWait`, by `WaitInv`. Input may come only when the reader that found none is asleep, or when the handler has yet to call
  `wakeup`; in between the reader holds `cons.lock`, and `ptable.lock` is what keeps the two halves of `sleep` together.
* `RingIsTerminal`: the refinement. `EnterLine` shows that storing a character extends the line or moves it whole to the queue, `CopiesPiece` that the
  loop of `consoleread` stops where `Piece` does, `TakeQueue` that what `r` steps over is what the reader got; all three through a wrap of
  the counters and of the ring, by the lemmas of `Remainders`.

*`Pipe`* (`PipeProofs`). Its safety properties, for any number of processes at either end, any `PIPESIZE` and any `WRAP` that `PIPESIZE`
divides. `PipeInv` = `TypeOK`, `OpenInv` (who has left has closed, and the flags of the ends follow), `RoleInv`, `LockInv` (`p->lock` is held
across steps only by a process on its way to sleep) and `DozeInv`: `SleepersWait` is not inductive, because it must hold from the test
on and not only from the moment the process is `SLEEPING`. The refinement of `Stream` is arithmetic: `FillAppends` and `ReadTakes` show that
a turn of the loop changes the bytes from `nread` to `nwrite` as `\o` and `SubSeq` change a sequence, through a wrap of the counters and of
the ring, by lemmas on remainders (`ModShift`, `PlaceOfWrapped`). `BusyFacts` shows that wakeups, kills and sleep leave every call where `Stream` has it.

*`Inode`* (`InodeProofs`). All the properties of run `files`, for every number of processes and inodes and every set of system calls:
four invariants, each on top of the one before.

* `ReferencesAreCounted`: `RefCounts`, by `RefInv`. A call has its inodes in the roles of `ip`, `dp` and `drop`; `Roles` says which of them are there at each
  point, and `Own` counts them. `RefsTo` is a sum over processes, so a step of one process changes its own summand (`CountOwn`): each action
  has to change `ref` by what it changes in its own record, on every error return too. This needs no other hypothesis.
* `CacheIsCurrent`: `CacheAgrees`, by `Fine` = `RefInv`, `LockInv` (a lock is held by the process that is between `ilock` and `iunlock`, and the
  inodes one call holds are different) and `CacheInv` (a locked inode is valid; a valid one is as on the disk and in use there, but for the one that
  `iput` is about to invalidate). `iput` is what makes it hard: it frees the inode on disk while its cache entry still says otherwise, and
  `ialloc` may give it out again before it has cleared `valid`.
* `NeverPanics`, `LinksAreCounted`, `TypesHold`, `KeepsTheTree`: by `Whole`, which has beside `Fine` the tree (`TreeInv`). What a call still needs
  is in use (`LiveInv`), what it knows of an entry or of a new inode is still so (`CallInv`: the directory has been locked since it looked), no
  inode is made twice (`MakeInv`), a directory has its dots and no other inode has entries (`DotsInv`), and links are names (`LinkInv`).
  `iput` frees an inode only when its own reference is the last and no link is left: then nobody needs it, and it has no name, and no new
  reference can come from anywhere (`LiveInv` with `RefCounts` and `LinkInv`). `KeepsTheTree` is the refinement of `FileTree`: a step is shown once
  to be one of a few kinds (it keeps the disk, writes one entry, makes or frees an inode), and each kind to be a step of `FileTree` or a stutter.
* These four assume `[]ParentsThere`: no walk goes by `..` from a directory to a parent without links. The code does not keep that
  from happening: a process may stay in a directory that is removed, its parent can then be removed and freed, and the dangling `..` is
  followed (`fs.c:651`), which ends in `ilock: no type` or in whatever has been made in its place. TLC reaches the panic with two levels of
  directories, so the hypothesis cannot be dropped; the theorems say that it is the *only* way to get there.
  `NeverPanics` says nothing of `ialloc`'s panic, which is a matter of how many inodes there are and of what its scan misses.
  `ParentsThere` holds in run `files`, whose directories hang from the root, and wherever no path has a `..` in it: `KeepsTheTreeBelow` proves the four
  from `NoParents`, an assumption on the requests alone.

Only model-checked: liveness, since fairness and `ENABLED` are outside the prover (`Scheduled`, `KilledDies`, `SleepReturns`, `WaitReturns` of `Proc`
and their like in `Log` and `Pipe`). The four runs that expect a violation have nothing to prove.

## 5. Plan

Most important behaviour first; each step is a milestone of its own.

1. Log, processes and scheduling, pipes: modelled and checked; log and processes proved (done).
2. `Bio` (buffer cache, sleep locks, driver queue) and `Inode` (inode cache, directories, system calls on names): modelled and checked (done).
3. Proofs: `Bio` and its refinement of `BlockStore` (done); `Pipe` and its refinement of `Stream` (done); `Inode` and its refinement of `FileTree` (done).
4. `SpinLock` and `Console`: modelled, checked and proved, the refinement of `Terminal` included (done).
5. `FileTable` (`dup`, `fork` and the last close of a shared `struct file`), `Kalloc`.

Not modelled: see `PROJECT.json`, "components". Page tables, exec, boot, device
registers and libraries are data transformations or hardware protocol without the concurrency that makes model checking pay;
allocation failure appears as a choice where it changes control. The sharing of open files and the page allocator are sections of one lock each
and are left for the last step of the plan. The log's blocks are opaque, and so are the contents of files:
`readi`, `writei`, `bmap` and `balloc` run with the inode locked and inside a log operation, so their interleavings are those of
`Bio` and `Log`. Liveness of the cache is not stated: `acquiresleep` is not fair to the waiters of one buffer, so a reader may starve
behind others, and what can be said (`SleepersWait`) is safety.
