--------------------------------- MODULE Bio ---------------------------------
(***************************************************************************)
(* The buffer cache (bio.c) on its sleep locks (sleeplock.c) and the disk  *)
(* driver (ide.c).  A step is a critical section of bcache.lock, of a      *)
(* buffer's lock, or of idelock; the disk works and interrupts in between. *)
(***************************************************************************)
EXTENDS Integers, Sequences, FiniteSets

CONSTANTS
    Procs, Blocks, Data,
    NBUF,
    MaxPinned,     \* how many blocks the log keeps dirty in the cache
    ReadErrors,    \* whether the disk may fail to read
    NoBlock, Nobody

Bufs == 1 .. NBUF
NoBuf == 0

ASSUME BioConstants ==
    /\ IsFiniteSet(Procs) /\ Blocks # {} /\ Data # {}
    /\ NBUF \in Nat \ {0} /\ MaxPinned \in Nat
    /\ ReadErrors \in BOOLEAN
    /\ NoBlock \notin Blocks /\ Nobody \notin Procs

VARIABLES
    blockno, refcnt, lru,   \* of bcache; lru starts with the most recent
    valid, dirty, data,     \* the flags and contents of the buffers
    holder,                 \* of each buffer's sleep lock
    idequeue,
    cmd,                    \* the disk's commands: none or the one it works at
    disk,
    pc, buf                 \* where a process is, and with which buffer

cacheVars == <<blockno, refcnt, lru>>
bufVars == <<valid, dirty, data>>
ideVars == <<idequeue, cmd, disk>>
vars == <<cacheVars, bufVars, holder, ideVars, pc, buf>>

PCs == {"idle", "lock", "doze", "rw", "io", "woken", "held", "put"}

Init ==
    /\ blockno = [i \in Bufs |-> NoBlock]
    /\ refcnt = [i \in Bufs |-> 0]
    /\ lru = [i \in Bufs |-> NBUF + 1 - i]
    /\ valid = {} /\ dirty = {}
    /\ disk \in [Blocks -> Data]
    /\ data \in [Bufs -> {CHOOSE d \in Data : TRUE}]
    /\ holder = [i \in Bufs |-> Nobody]
    /\ idequeue = <<>> /\ cmd = <<>>
    /\ pc = [p \in Procs |-> "idle"]
    /\ buf = [p \in Procs |-> NoBuf]

Goto(p, l) == pc' = [pc EXCEPT ![p] = l]

\* wakeup on a channel of buffer i: the sleepers at from go on.
WakeNobody(pcs, i, from, to) == pcs

Wakeup(pcs, i, from, to) ==
    [q \in Procs |-> IF pcs[q] = from /\ buf[q] = i THEN to ELSE pcs[q]]
-----------------------------------------------------------------------------
(* bget, brelse: bcache.lock.                                              *)

Cached(b) == {i \in Bufs : blockno[i] = b}

UnreferencedOnly == {i \in Bufs : refcnt[i] = 0}

CleanOnly == Bufs \ dirty

Unused == {i \in Bufs : refcnt[i] = 0 /\ i \notin dirty}

\* The first of a set in the scan from the tail of the list.
Oldest(i, S) ==
    /\ i \in S
    /\ \E k \in Bufs : lru[k] = i /\ \A l \in k + 1 .. NBUF : lru[l] \notin S

NotCounted(i) == refcnt[i]

Counted(i) == refcnt[i] + 1

BgetHit(p, b) ==
    /\ pc[p] = "idle"
    /\ \E i \in Cached(b) :
          /\ refcnt' = [refcnt EXCEPT ![i] = Counted(i)]
          /\ buf' = [buf EXCEPT ![p] = i]
    /\ Goto(p, "lock")
    /\ UNCHANGED <<blockno, lru, bufVars, holder, ideVars>>

BgetRecycle(p, b) ==
    /\ pc[p] = "idle" /\ Cached(b) = {}
    /\ \E i \in Bufs :
           /\ Oldest(i, Unused)
           /\ blockno' = [blockno EXCEPT ![i] = b]
           /\ refcnt' = [refcnt EXCEPT ![i] = 1]
           /\ valid' = valid \ {i}
           /\ dirty' = dirty \ {i}
           /\ buf' = [buf EXCEPT ![p] = i]
    /\ Goto(p, "lock")
    /\ UNCHANGED <<lru, data, holder, ideVars>>

GivenBack(i) == refcnt[i] - 1

MostRecent(i) ==
    LET n == CHOOSE n \in Bufs : lru[n] = i
    IN  [k \in Bufs |-> IF k = 1 THEN i ELSE IF k <= n THEN lru[k - 1] ELSE lru[k]]

Put(p) ==
    /\ pc[p] = "put"
    /\ LET i == buf[p]
       IN  /\ refcnt' = [refcnt EXCEPT ![i] = GivenBack(i)]
           /\ lru' = IF refcnt[i] = 1 THEN MostRecent(i) ELSE lru
    /\ buf' = [buf EXCEPT ![p] = NoBuf]
    /\ Goto(p, "idle")
    /\ UNCHANGED <<blockno, bufVars, holder, ideVars>>
-----------------------------------------------------------------------------
(* acquiresleep, releasesleep: the buffer's lock.                          *)

\* bread goes on to the disk unless the buffer is valid.
AfterLock(i) == IF i \in valid THEN "held" ELSE "rw"

AcquireSleep(p) ==
    /\ pc[p] = "lock"
    /\ IF holder[buf[p]] = Nobody
       THEN holder' = [holder EXCEPT ![buf[p]] = p] /\ Goto(p, AfterLock(buf[p]))
       ELSE Goto(p, "doze") /\ UNCHANGED holder
    /\ UNCHANGED <<cacheVars, bufVars, ideVars, buf>>

ReleaseSleep(p) ==
    /\ pc[p] = "held"
    /\ holder' = [holder EXCEPT ![buf[p]] = Nobody]
    /\ pc' = [Wakeup(pc, buf[p], "doze", "lock") EXCEPT ![p] = "put"]
    /\ UNCHANGED <<cacheVars, bufVars, ideVars, buf>>

\* The owner changes the contents, for log_write or for bwrite.
Modify(p) ==
    /\ pc[p] = "held"
    /\ \E d \in Data : data' = [data EXCEPT ![buf[p]] = d]
    /\ dirty' = dirty \cup {buf[p]}
    /\ UNCHANGED <<cacheVars, valid, holder, ideVars, buf>>

Pin(p) == Modify(p) /\ Cardinality(dirty') <= MaxPinned /\ UNCHANGED pc

Bwrite(p) == Modify(p) /\ Goto(p, "rw")
-----------------------------------------------------------------------------
(* iderw, ideintr: idelock.                                                *)

\* A write command takes the data with it.
Command(i) == <<[write |-> i \in dirty, block |-> blockno[i], data |-> data[i], done |-> FALSE]>>

StartAlways(i) == TRUE

StartNow(i) == idequeue = <<>>

Iderw(p) ==
    /\ pc[p] = "rw"
    /\ idequeue' = Append(idequeue, buf[p])
    /\ cmd' = IF StartNow(buf[p]) THEN Command(buf[p]) ELSE cmd
    /\ Goto(p, "io")
    /\ UNCHANGED <<cacheVars, bufVars, holder, disk, buf>>

\* iderw's loop, after a wakeup.
IderwWoken(p) ==
    /\ pc[p] = "woken"
    /\ Goto(p, IF buf[p] \in valid \ dirty THEN "held" ELSE "io")
    /\ UNCHANGED <<cacheVars, bufVars, holder, ideVars, buf>>

\* The disk carries out its command and raises the interrupt.
DiskDone ==
    /\ cmd # <<>> /\ ~cmd[1].done
    /\ disk' = IF cmd[1].write THEN [disk EXCEPT ![cmd[1].block] = cmd[1].data] ELSE disk
    /\ cmd' = <<[cmd[1] EXCEPT !.done = TRUE]>>
    /\ UNCHANGED <<cacheVars, bufVars, holder, idequeue, pc, buf>>

StopThere(q) == <<>>

StartNext(q) == IF q = <<>> THEN <<>> ELSE Command(Head(q))

Ideintr ==
    /\ cmd # <<>> /\ cmd[1].done
    /\ LET i == Head(idequeue)
       IN  /\ \E ok \in IF ReadErrors THEN BOOLEAN ELSE {TRUE} :
                 data' = IF i \notin dirty /\ ok
                         THEN [data EXCEPT ![i] = disk[cmd[1].block]] ELSE data
           /\ valid' = valid \cup {i}
           /\ dirty' = dirty \ {i}
           /\ pc' = Wakeup(pc, i, "io", "woken")
    /\ idequeue' = Tail(idequeue)
    /\ cmd' = StartNext(Tail(idequeue))
    /\ UNCHANGED <<cacheVars, holder, disk, buf>>
-----------------------------------------------------------------------------
Bread(p) == (\E b \in Blocks : BgetHit(p, b) \/ BgetRecycle(p, b)) \/ AcquireSleep(p)
Use(p)   == Pin(p) \/ Bwrite(p)
Brelse(p) == ReleaseSleep(p) \/ Put(p)
Wait(p)  == Iderw(p) \/ IderwWoken(p)

Next ==
    \/ \E p \in Procs : Bread(p) \/ Use(p) \/ Brelse(p) \/ Wait(p)
    \/ DiskDone
    \/ Ideintr

Spec == Init /\ [][Next]_vars

-----------------------------------------------------------------------------
(* Properties.                                                             *)

Commands == [write : BOOLEAN, block : Blocks, data : Data, done : BOOLEAN]

\* Every variable has its type.
TypeOK ==
    /\ blockno \in [Bufs -> Blocks \cup {NoBlock}]
    /\ refcnt \in [Bufs -> Nat]
    /\ lru \in [Bufs -> Bufs]
    /\ valid \subseteq Bufs /\ dirty \subseteq Bufs
    /\ data \in [Bufs -> Data]
    /\ holder \in [Bufs -> Procs \cup {Nobody}]
    /\ idequeue \in Seq(Bufs)
    /\ cmd \in {<<>>} \cup {<<c>> : c \in Commands}
    /\ disk \in [Blocks -> Data]
    /\ pc \in [Procs -> PCs]
    /\ buf \in [Procs -> Bufs \cup {NoBuf}]

Owns(p) == pc[p] \in {"rw", "io", "woken", "held"}

Mem == [b \in Blocks |->
          IF \E i \in valid : blockno[i] = b
          THEN data[CHOOSE i \in valid : blockno[i] = b] ELSE disk[b]]

Owner == [p \in Procs |-> IF Owns(p) THEN blockno[buf[p]] ELSE NoBlock]

B == INSTANCE BlockStore WITH mem <- Mem, owner <- Owner

\* Whatever is recycled, queued or waited for, a process that gets a block from
\* bread owns it alone and sees what its last owner left, and the disk takes
\* only what an owner has left.
IsBlockStore == B!Spec

\* The processes that have buffer i from bget.
Users(i) == {p \in Procs : buf[p] = i}

\* A block has one buffer, whose refcnt is the number of its users, so that a
\* buffer that somebody waits for or holds is not given to another block.
OneBufferPerBlock ==
    /\ \A i, j \in Bufs : blockno[i] = blockno[j] /\ blockno[i] # NoBlock => i = j
    /\ \A i \in Bufs : refcnt[i] = Cardinality(Users(i))

\* A valid buffer that is not marked dirty agrees with the disk: a bwrite that
\* has returned is on the disk, and such a buffer may be recycled.
CleanIsOnDisk ==
    \A i \in valid \ dirty : data[i] = disk[blockno[i]]

InUse == {p \in Procs : buf[p] # NoBuf}

\* The buffers of blocks that log_write keeps in the cache, and nobody else.
Pinned == {i \in dirty : Users(i) = {}}

\* bget panics only when the cache is full: while the users and the blocks that
\* the log keeps are fewer than the buffers, there is one in the list to recycle.
\* (A process of the code that has two buffers at once counts as two here.)
BuffersSuffice ==
    Cardinality(InUse) + Cardinality(Pinned) < NBUF =>
        \E k \in Bufs : lru[k] \in Unused

\* The disk works at the head of the queue while there is one.
DiskServes ==
    /\ cmd # <<>> <=> idequeue # <<>>
    /\ cmd # <<>> => cmd[1].block = blockno[Head(idequeue)]

\* Nobody sleeps with nothing to wake it: behind a lock there is its holder, and
\* the queue that the disk works through has each request of a process that waits
\* for the disk, once, and no other.
SleepersWait ==
    /\ DiskServes
    /\ \A p \in Procs : /\ pc[p] = "doze" => holder[buf[p]] # Nobody
                        /\ pc[p] = "io" => \E k \in DOMAIN idequeue : idequeue[k] = buf[p]
    /\ \A k \in DOMAIN idequeue :
          /\ \E p \in Procs : holder[idequeue[k]] = p /\ pc[p] = "io" /\ buf[p] = idequeue[k]
          /\ \A l \in DOMAIN idequeue : idequeue[k] = idequeue[l] => k = l
=============================================================================
