----------------------------- MODULE BioProofs -----------------------------
(***************************************************************************)
(* Proofs about Bio: for any number of processes, blocks and buffers, a    *)
(* block has one buffer, a process that sleeps will be woken, and the      *)
(* cache is the store that BlockStore describes.                           *)
(***************************************************************************)
EXTENDS Bio, FiniteSetTheorems, TLAPS

\* A process has a buffer from bget to brelse; a buffer with contents has a block.
UseInv ==
    /\ \A p \in Procs : /\ buf[p] = NoBuf <=> pc[p] = "idle"
                        /\ buf[p] # NoBuf => blockno[buf[p]] \in Blocks
    /\ \A i \in valid : blockno[i] \in Blocks
    /\ dirty \subseteq valid

\* The lock of a buffer is held by its owner, and only by its owner.
LockInv ==
    /\ \A p \in Procs : Owns(p) => holder[buf[p]] = p
    /\ \A i \in Bufs : holder[i] # Nobody => Owns(holder[i]) /\ buf[holder[i]] = i

\* The flags of a buffer fit the place its owner has reached.
FlagInv ==
    \A p \in Procs : /\ pc[p] \in {"rw", "io"} => buf[p] \notin valid \ dirty
                     /\ pc[p] = "woken" => buf[p] \in valid \ dirty
                     /\ pc[p] = "held" => buf[p] \in valid

\* The parts of SleepersWait: behind a lock there is its holder, and the queue has
\* the requests of those who wait for the disk.
DozeInv == \A p \in Procs : pc[p] = "doze" => holder[buf[p]] # Nobody

QueueInv ==
    /\ \A p \in Procs : pc[p] = "io" => \E k \in DOMAIN idequeue : idequeue[k] = buf[p]
    /\ \A k \in DOMAIN idequeue :
          /\ \E p \in Procs : holder[idequeue[k]] = p /\ pc[p] = "io" /\ buf[p] = idequeue[k]
          /\ \A l \in DOMAIN idequeue : idequeue[k] = idequeue[l] => k = l

\* The disk's command is that of the buffer at the head of the queue.
CmdInv ==
    cmd # <<>> =>
        LET i == Head(idequeue)
        IN  /\ cmd[1].write <=> i \in dirty
            /\ cmd[1].write => /\ cmd[1].data = data[i]
                               /\ cmd[1].done => disk[cmd[1].block] = data[i]

\* The list has every buffer.
ListInv == \A i \in Bufs : \E k \in Bufs : lru[k] = i

BioInv ==
    /\ TypeOK /\ ListInv /\ OneBufferPerBlock /\ UseInv
    /\ LockInv /\ FlagInv /\ DozeInv /\ QueueInv /\ DiskServes /\ CmdInv
-----------------------------------------------------------------------------
\* The ends of a queue of buffers.
LEMMA QueueFacts ==
    ASSUME NEW q \in Seq(Bufs)
    PROVE  /\ DOMAIN q = 1 .. Len(q) /\ Len(q) \in Nat
           /\ q # <<>> => /\ Len(q) > 0 /\ Head(q) = q[1] /\ q[1] \in Bufs /\ 1 \in DOMAIN q
                          /\ Tail(q) \in Seq(Bufs)
                          /\ DOMAIN Tail(q) = 1 .. Len(q) - 1
                          /\ \A k \in DOMAIN Tail(q) : k + 1 \in DOMAIN q /\ Tail(q)[k] = q[k + 1]
                          /\ Tail(q) # <<>> => Head(Tail(q)) = q[2] /\ 2 \in DOMAIN q
           /\ \A i \in Bufs : /\ Append(q, i) \in Seq(Bufs) /\ Append(q, i) # <<>>
                              /\ DOMAIN Append(q, i) = 1 .. Len(q) + 1
                              /\ \A k \in DOMAIN q : Append(q, i)[k] = q[k]
                              /\ Append(q, i)[Len(q) + 1] = i
                              /\ Head(Append(q, i)) = IF q = <<>> THEN i ELSE Head(q)
  OBVIOUS

\* The buffer at the front keeps a list complete.
LEMMA MostRecentType ==
    ASSUME TypeOK, ListInv, NEW i \in Bufs
    PROVE  /\ MostRecent(i) \in [Bufs -> Bufs]
           /\ \A j \in Bufs : \E k \in Bufs : MostRecent(i)[k] = j
<1> DEFINE n == CHOOSE n \in Bufs : lru[n] = i
<1>1. n \in Bufs /\ lru[n] = i
  BY DEF ListInv
<1> HIDE DEF n
<1>2. MostRecent(i) = [k \in Bufs |-> IF k = 1 THEN i ELSE IF k <= n THEN lru[k - 1] ELSE lru[k]]
  BY DEF MostRecent, n
<1>3. MostRecent(i) \in [Bufs -> Bufs]
  <2>1. lru \in [Bufs -> Bufs]
    BY DEF TypeOK
  <2>2. ASSUME NEW k \in Bufs, k # 1 PROVE k - 1 \in Bufs
    BY <2>2, BioConstants DEF Bufs
  <2> QED BY <1>2, <2>1, <2>2
<1>4. ASSUME NEW j \in Bufs PROVE \E k \in Bufs : MostRecent(i)[k] = j
  <2>1. PICK k \in Bufs : lru[k] = j
    BY DEF ListInv
  <2>2. CASE k = n
    BY <1>1, <1>2, <2>1, <2>2, BioConstants DEF Bufs
  <2>3. CASE k > n
    BY <1>1, <1>2, <2>1, <2>3, BioConstants DEF Bufs
  <2>4. CASE k < n
    <3>1. k + 1 \in Bufs /\ k + 1 # 1 /\ k + 1 <= n /\ (k + 1) - 1 = k
      BY <1>1, <2>4, BioConstants DEF Bufs
    <3> QED BY <1>2, <2>1, <3>1
  <2> QED BY <1>1, <2>2, <2>3, <2>4, BioConstants DEF Bufs
<1> QED BY <1>3, <1>4

\* The users of a buffer can be counted.
LEMMA UsersFinite ==
    \A i : IsFiniteSet(Users(i)) /\ Cardinality(Users(i)) \in Nat
  BY BioConstants, FS_Subset, FS_CardinalityType DEF Users

LEMMA UserCounted ==
    ASSUME NEW p \in Procs, OneBufferPerBlock, buf[p] \in Bufs
    PROVE  refcnt[buf[p]] \in Nat \ {0}
<1>1. p \in Users(buf[p])
  BY DEF Users
<1>2. Cardinality(Users(buf[p])) # 0
  BY <1>1, UsersFinite, FS_EmptySet
<1> QED BY <1>2, UsersFinite DEF OneBufferPerBlock

LEMMA NoUsers ==
    ASSUME NEW i \in Bufs, OneBufferPerBlock, refcnt[i] = 0
    PROVE  \A p \in Procs : buf[p] # i
  BY UserCounted

LEMMA NoBufFact == NoBuf \notin Bufs
  BY DEF NoBuf, Bufs

\* What is sent to the disk is a command.
LEMMA CommandTypes ==
    ASSUME TypeOK
    PROVE  /\ \A i \in Bufs : blockno[i] \in Blocks => Command(i) \in {<<c>> : c \in Commands}
           /\ cmd # <<>> => /\ cmd[1] \in Commands
                            /\ <<[cmd[1] EXCEPT !.done = TRUE]>> \in {<<c>> : c \in Commands}
<1>1. ASSUME NEW i \in Bufs, blockno[i] \in Blocks PROVE Command(i) \in {<<c>> : c \in Commands}
  <2> DEFINE c == [write |-> i \in dirty, block |-> blockno[i], data |-> data[i], done |-> FALSE]
  <2>1. c \in Commands
    BY <1>1 DEF TypeOK, Commands
  <2> QED BY <2>1 DEF Command
<1>2. ASSUME cmd # <<>>
      PROVE  /\ cmd[1] \in Commands
             /\ <<[cmd[1] EXCEPT !.done = TRUE]>> \in {<<c>> : c \in Commands}
  <2>1. PICK c \in Commands : cmd = <<c>>
    BY <1>2 DEF TypeOK
  <2>2. [c EXCEPT !.done = TRUE] \in Commands
    BY DEF Commands
  <2> QED BY <2>1, <2>2
<1> QED BY <1>1, <1>2

\* Every step keeps the types.
LEMMA TypeStep == BioInv /\ [Next]_vars => TypeOK'
<1> SUFFICES ASSUME BioInv, [Next]_vars PROVE TypeOK'
    OBVIOUS
<1> USE BioConstants DEF BioInv, TypeOK, PCs
<1>0. CASE UNCHANGED vars
  BY <1>0 DEF vars, cacheVars, bufVars, ideVars
<1>1. ASSUME NEW p \in Procs, NEW b \in Blocks, BgetHit(p, b) PROVE TypeOK'
  BY <1>1 DEF BgetHit, cacheVars, bufVars, ideVars, Goto, Cached, Counted
<1>2. ASSUME NEW p \in Procs, NEW b \in Blocks, BgetRecycle(p, b) PROVE TypeOK'
  BY <1>2 DEF BgetRecycle, cacheVars, bufVars, ideVars, Goto, Oldest
<1>3. ASSUME NEW p \in Procs, AcquireSleep(p) PROVE TypeOK'
  BY <1>3 DEF AcquireSleep, cacheVars, bufVars, ideVars, Goto, AfterLock
<1>4. ASSUME NEW p \in Procs, Pin(p) PROVE TypeOK'
  <2>1. buf[p] \in Bufs
    BY <1>4 DEF Pin, Modify, UseInv
  <2> QED BY <1>4, <2>1 DEF Pin, Modify, cacheVars, bufVars, ideVars
<1>5. ASSUME NEW p \in Procs, Bwrite(p) PROVE TypeOK'
  <2>1. buf[p] \in Bufs
    BY <1>5 DEF Bwrite, Modify, UseInv
  <2> QED BY <1>5, <2>1 DEF Bwrite, Modify, cacheVars, bufVars, ideVars, Goto
<1>6. ASSUME NEW p \in Procs, ReleaseSleep(p) PROVE TypeOK'
  BY <1>6 DEF ReleaseSleep, cacheVars, bufVars, ideVars, Wakeup
<1>7. ASSUME NEW p \in Procs, Put(p) PROVE TypeOK'
  <2> DEFINE i == buf[p]
  <2>1. i \in Bufs /\ refcnt[i] \in Nat \ {0}
    BY <1>7, UserCounted DEF Put, UseInv
  <2>2. refcnt[i] - 1 \in Nat
    BY <2>1
  <2>3. lru' \in [Bufs -> Bufs]
    BY <1>7, <2>1, MostRecentType DEF Put
  <2> QED BY <1>7, <2>1, <2>2, <2>3 DEF Put, cacheVars, bufVars, ideVars, Goto, GivenBack
<1>8. ASSUME NEW p \in Procs, Iderw(p) PROVE TypeOK'
  <2>1. buf[p] \in Bufs /\ blockno[buf[p]] \in Blocks
    BY <1>8 DEF Iderw, UseInv
  <2>2. Append(idequeue, buf[p]) \in Seq(Bufs)
    BY <2>1
  <2>3. cmd' \in {<<>>} \cup {<<c>> : c \in Commands}
    BY <1>8, <2>1, CommandTypes DEF Iderw
  <2> QED BY <1>8, <2>2, <2>3 DEF Iderw, cacheVars, bufVars, ideVars, Goto
<1>9. ASSUME NEW p \in Procs, IderwWoken(p) PROVE TypeOK'
  BY <1>9 DEF IderwWoken, cacheVars, bufVars, ideVars, Goto
<1>10. ASSUME DiskDone PROVE TypeOK'
  <2>1. cmd' \in {<<>>} \cup {<<c>> : c \in Commands}
    BY <1>10, CommandTypes DEF DiskDone
  <2>2. disk' \in [Blocks -> Data]
    BY <1>10, CommandTypes DEF DiskDone, Commands
  <2> QED BY <1>10, <2>1, <2>2 DEF DiskDone, cacheVars, bufVars, ideVars
<1>11. ASSUME Ideintr PROVE TypeOK'
  <2> DEFINE i == Head(idequeue)  q == Tail(idequeue)
  <2>1. /\ i \in Bufs /\ q \in Seq(Bufs) /\ blockno[i] \in Blocks
        /\ q # <<>> => Head(q) \in Bufs /\ blockno[Head(q)] \in Blocks
    BY <1>11, QueueFacts DEF Ideintr, DiskServes, QueueInv, UseInv
  <2>2. cmd[1].block \in Blocks
    BY <1>11, CommandTypes DEF Ideintr, Commands
  <2>3. cmd' \in {<<>>} \cup {<<c>> : c \in Commands}
    BY <1>11, <2>1, CommandTypes DEF Ideintr, StartNext
  <2> QED BY <1>11, <2>1, <2>2, <2>3 DEF Ideintr, cacheVars, bufVars, ideVars, Wakeup
<1> QED
  BY <1>0, <1>1, <1>2, <1>3, <1>4, <1>5, <1>6, <1>7, <1>8, <1>9, <1>10, <1>11
     DEF Next, Bread, Use, Brelse, Wait

\* Every step keeps the list complete.
LEMMA ListStep == BioInv /\ [Next]_vars => ListInv'
<1> SUFFICES ASSUME BioInv, [Next]_vars PROVE ListInv'
    OBVIOUS
<1>1. UNCHANGED lru \/ \E p \in Procs : Put(p)
  BY DEF BgetHit, BgetRecycle, AcquireSleep, Pin, Bwrite, Modify, ReleaseSleep, Put,
         Iderw, IderwWoken, DiskDone, Ideintr, Next, Bread, Use, Brelse, Wait,
         vars, cacheVars, bufVars, ideVars
<1>2. CASE UNCHANGED lru
  BY <1>2 DEF BioInv, ListInv
<1>3. ASSUME NEW p \in Procs, Put(p) PROVE ListInv'
  <2>1. buf[p] \in Bufs
    BY <1>3 DEF Put, BioInv, UseInv, TypeOK
  <2>2. lru' = lru \/ lru' = MostRecent(buf[p])
    BY <1>3 DEF Put
  <2>3. \A j \in Bufs : \E k \in Bufs : MostRecent(buf[p])[k] = j
    BY <2>1, MostRecentType DEF BioInv
  <2>4. CASE lru' = lru
    BY <2>4 DEF BioInv, ListInv
  <2>5. CASE lru' = MostRecent(buf[p])
    BY <2>3, <2>5 DEF ListInv
  <2> QED BY <2>2, <2>4, <2>5
<1> QED BY <1>1, <1>2, <1>3

\* Every step keeps buffers with their blocks.
LEMMA UseStep == BioInv /\ [Next]_vars => UseInv'
<1> SUFFICES ASSUME BioInv, [Next]_vars PROVE UseInv'
    OBVIOUS
<1> USE DEF BioInv, TypeOK, UseInv
<1>0. CASE UNCHANGED vars
  BY <1>0 DEF vars, cacheVars, bufVars, ideVars
<1>1. ASSUME NEW p \in Procs, NEW b \in Blocks, BgetHit(p, b) PROVE UseInv'
  BY <1>1, NoBufFact DEF BgetHit, cacheVars, bufVars, ideVars, Goto, Cached
<1>2. ASSUME NEW p \in Procs, NEW b \in Blocks, BgetRecycle(p, b) PROVE UseInv'
  <2>1. PICK i \in Bufs : Oldest(i, Unused) /\ blockno' = [blockno EXCEPT ![i] = b]
                          /\ valid' = valid \ {i} /\ dirty' = dirty \ {i}
                          /\ buf' = [buf EXCEPT ![p] = i]
    BY <1>2 DEF BgetRecycle
  <2>2. \A q \in Procs : buf[q] # i
    BY <2>1, NoUsers DEF Oldest, Unused
  <2> QED BY <1>2, <2>1, <2>2, NoBufFact DEF BgetRecycle, Goto
<1>3. ASSUME NEW p \in Procs, AcquireSleep(p) PROVE UseInv'
  BY <1>3 DEF AcquireSleep, cacheVars, bufVars, ideVars, Goto, AfterLock
<1>4. ASSUME NEW p \in Procs, Pin(p) PROVE UseInv'
  BY <1>4 DEF Pin, Modify, cacheVars, bufVars, ideVars, FlagInv
<1>5. ASSUME NEW p \in Procs, Bwrite(p) PROVE UseInv'
  BY <1>5 DEF Bwrite, Modify, cacheVars, bufVars, ideVars, Goto, FlagInv
<1>6. ASSUME NEW p \in Procs, ReleaseSleep(p) PROVE UseInv'
  BY <1>6 DEF ReleaseSleep, cacheVars, bufVars, ideVars, Wakeup
<1>7. ASSUME NEW p \in Procs, Put(p) PROVE UseInv'
  BY <1>7 DEF Put, cacheVars, bufVars, ideVars, Goto
<1>8. ASSUME NEW p \in Procs, Iderw(p) PROVE UseInv'
  BY <1>8 DEF Iderw, cacheVars, bufVars, ideVars, Goto
<1>9. ASSUME NEW p \in Procs, IderwWoken(p) PROVE UseInv'
  BY <1>9 DEF IderwWoken, cacheVars, bufVars, ideVars, Goto
<1>10. ASSUME DiskDone PROVE UseInv'
  BY <1>10 DEF DiskDone, cacheVars, bufVars, ideVars
<1>11. ASSUME Ideintr PROVE UseInv'
  <2>1. idequeue # <<>> /\ Head(idequeue) \in Bufs /\ blockno[Head(idequeue)] \in Blocks
    BY <1>11, QueueFacts DEF Ideintr, DiskServes, QueueInv
  <2> QED BY <1>11, <2>1 DEF Ideintr, cacheVars, bufVars, ideVars, Wakeup
<1> QED
  BY <1>0, <1>1, <1>2, <1>3, <1>4, <1>5, <1>6, <1>7, <1>8, <1>9, <1>10, <1>11
     DEF Next, Bread, Use, Brelse, Wait

\* One process more, or less, uses buffer i.
LEMMA UserAdded ==
    ASSUME NEW i \in Bufs, NEW p \in Procs, BioInv, buf[p] = NoBuf, buf' = [buf EXCEPT ![p] = i]
    PROVE  \A j \in Bufs : Cardinality(Users(j)') = IF j = i THEN Cardinality(Users(i)) + 1
                                                 ELSE Cardinality(Users(j))
<1>1. buf \in [Procs -> Bufs \cup {NoBuf}]
  BY DEF BioInv, TypeOK
<1>2. Users(i)' = Users(i) \cup {p} /\ p \notin Users(i)
  BY <1>1, NoBufFact DEF Users
<1>3. \A j \in Bufs : j # i => Users(j)' = Users(j)
  BY <1>1, NoBufFact DEF Users
<1> QED BY <1>2, <1>3, UsersFinite, FS_AddElement

LEMMA UserRemoved ==
    ASSUME NEW i \in Bufs, NEW p \in Procs, BioInv, buf[p] = i, buf' = [buf EXCEPT ![p] = NoBuf]
    PROVE  \A j \in Bufs : Cardinality(Users(j)') = IF j = i THEN Cardinality(Users(i)) - 1
                                                 ELSE Cardinality(Users(j))
<1>1. buf \in [Procs -> Bufs \cup {NoBuf}]
  BY DEF BioInv, TypeOK
<1>2. Users(i)' = Users(i) \ {p} /\ p \in Users(i)
  BY <1>1, NoBufFact DEF Users
<1>3. \A j \in Bufs : j # i => Users(j)' = Users(j)
  BY <1>1, NoBufFact DEF Users
<1> QED BY <1>2, <1>3, UsersFinite, FS_RemoveElement

\* Every step keeps one buffer for a block, and its users counted.
LEMMA OneBufferStep == BioInv /\ [Next]_vars => OneBufferPerBlock'
<1> SUFFICES ASSUME BioInv, [Next]_vars PROVE OneBufferPerBlock'
    OBVIOUS
<1>0. TypeOK /\ UseInv /\ OneBufferPerBlock
  BY DEF BioInv
<1>1. \/ UNCHANGED <<blockno, refcnt, buf>>
      \/ \E p \in Procs : Put(p) \/ \E b \in Blocks : BgetHit(p, b) \/ BgetRecycle(p, b)
  BY DEF BgetHit, BgetRecycle, AcquireSleep, Pin, Bwrite, Modify, ReleaseSleep, Put,
         Iderw, IderwWoken, DiskDone, Ideintr, Next, Bread, Use, Brelse, Wait,
         vars, cacheVars, bufVars, ideVars
<1>2. CASE UNCHANGED <<blockno, refcnt, buf>>
  BY <1>2, <1>0 DEF OneBufferPerBlock, Users
<1>3. ASSUME NEW p \in Procs, NEW b \in Blocks, BgetHit(p, b) PROVE OneBufferPerBlock'
  <2>1. PICK i \in Bufs : refcnt' = [refcnt EXCEPT ![i] = refcnt[i] + 1] /\ buf' = [buf EXCEPT ![p] = i]
    BY <1>3 DEF BgetHit, Cached, Counted
  <2>2. buf[p] = NoBuf /\ blockno' = blockno
    BY <1>3, <1>0 DEF BgetHit, UseInv
  <2>3. \A j \in Bufs : Cardinality(Users(j)') = IF j = i THEN Cardinality(Users(i)) + 1
                                               ELSE Cardinality(Users(j))
    BY <2>1, <2>2, UserAdded
  <2> QED BY <1>0, <2>1, <2>2, <2>3 DEF OneBufferPerBlock, TypeOK
<1>4. ASSUME NEW p \in Procs, NEW b \in Blocks, BgetRecycle(p, b) PROVE OneBufferPerBlock'
  <2>1. PICK i \in Bufs : /\ Oldest(i, Unused)
                          /\ blockno' = [blockno EXCEPT ![i] = b]
                          /\ refcnt' = [refcnt EXCEPT ![i] = 1]
                          /\ buf' = [buf EXCEPT ![p] = i]
    BY <1>4 DEF BgetRecycle
  <2>2. buf[p] = NoBuf /\ \A j \in Bufs : blockno[j] # b
    BY <1>4, <1>0 DEF BgetRecycle, UseInv, Cached
  <2>3. refcnt[i] = 0
    BY <2>1 DEF Oldest, Unused
  <2>4. \A j \in Bufs : Cardinality(Users(j)') = IF j = i THEN Cardinality(Users(i)) + 1
                                               ELSE Cardinality(Users(j))
    BY <2>1, <2>2, UserAdded
  <2> QED BY <1>0, <2>1, <2>2, <2>3, <2>4 DEF OneBufferPerBlock, TypeOK
<1>5. ASSUME NEW p \in Procs, Put(p) PROVE OneBufferPerBlock'
  <2>1. /\ buf[p] \in Bufs /\ blockno' = blockno
        /\ refcnt' = [refcnt EXCEPT ![buf[p]] = refcnt[buf[p]] - 1]
        /\ buf' = [buf EXCEPT ![p] = NoBuf]
    BY <1>5, <1>0 DEF Put, UseInv, TypeOK, GivenBack, cacheVars
  <2>2. \A j \in Bufs : Cardinality(Users(j)') = IF j = buf[p] THEN Cardinality(Users(buf[p])) - 1
                                               ELSE Cardinality(Users(j))
    BY <2>1, UserRemoved
  <2> QED BY <1>0, <2>1, <2>2 DEF OneBufferPerBlock, TypeOK
<1> QED BY <1>1, <1>2, <1>3, <1>4, <1>5

\* A process that finds a lock free becomes its holder.
LEMMA LockTaken ==
    ASSUME NEW p \in Procs, NEW l \in {"rw", "held"}, BioInv,
           buf[p] \in Bufs, holder[buf[p]] = Nobody, UNCHANGED buf,
           holder' = [holder EXCEPT ![buf[p]] = p], pc' = [pc EXCEPT ![p] = l]
    PROVE  LockInv'
<1>1. holder \in [Bufs -> Procs \cup {Nobody}] /\ pc \in [Procs -> PCs] /\ LockInv
  BY DEF BioInv, TypeOK
<1>2. ASSUME NEW q \in Procs, Owns(q)' PROVE holder'[buf'[q]] = q
  <2>1. CASE q = p
    BY <1>1, <2>1
  <2>2. CASE q # p
    <3>1. Owns(q)
      BY <1>1, <1>2, <2>2 DEF Owns
    <3>2. holder[buf[q]] = q /\ Nobody \notin Procs
      BY <1>1, <3>1, BioConstants DEF LockInv
    <3> QED BY <1>1, <2>2, <3>2
  <2> QED BY <2>1, <2>2
<1>3. ASSUME NEW i \in Bufs, holder'[i] # Nobody PROVE (Owns(holder[i]) /\ buf[holder[i]] = i)'
  <2>1. CASE i = buf[p]
    BY <1>1, <2>1 DEF Owns
  <2>2. CASE i # buf[p]
    <3>1. holder'[i] = holder[i] /\ holder[i] \in Procs
      BY <1>1, <1>3, <2>2
    <3>2. Owns(holder[i]) /\ buf[holder[i]] = i
      BY <1>1, <1>3, <3>1 DEF LockInv
    <3> QED BY <1>1, <2>2, <3>1, <3>2 DEF Owns
  <2> QED BY <2>1, <2>2
<1> QED BY <1>2, <1>3 DEF LockInv

\* Every step keeps the locks with the owners.
LEMMA LockStep == BioInv /\ [Next]_vars => LockInv'
<1> SUFFICES ASSUME BioInv, [Next]_vars PROVE LockInv'
    OBVIOUS
<1> USE NoBufFact, BioConstants DEF BioInv, TypeOK, UseInv, LockInv, Owns, PCs
<1>0. CASE UNCHANGED vars
  BY <1>0 DEF vars, cacheVars, bufVars, ideVars
<1>1. ASSUME NEW p \in Procs, NEW b \in Blocks, BgetHit(p, b) PROVE LockInv'
  BY <1>1 DEF BgetHit, cacheVars, bufVars, ideVars, Goto, Cached
<1>2. ASSUME NEW p \in Procs, NEW b \in Blocks, BgetRecycle(p, b) PROVE LockInv'
  BY <1>2 DEF BgetRecycle, cacheVars, bufVars, ideVars, Goto, Oldest
<1>3. ASSUME NEW p \in Procs, AcquireSleep(p) PROVE LockInv'
  <2>1. CASE holder[buf[p]] = Nobody
    <3>1. AfterLock(buf[p]) \in {"rw", "held"}
      BY DEF AfterLock
    <3>2. /\ buf[p] \in Bufs /\ UNCHANGED buf
          /\ holder' = [holder EXCEPT ![buf[p]] = p]
          /\ pc' = [pc EXCEPT ![p] = AfterLock(buf[p])]
      BY <1>3, <2>1 DEF AcquireSleep, Goto
    <3> QED BY <2>1, <3>1, <3>2, LockTaken
  <2>2. CASE holder[buf[p]] # Nobody
    <3>1. /\ UNCHANGED <<holder, buf>>
          /\ pc' = [pc EXCEPT ![p] = "doze"]
      BY <1>3, <2>2 DEF AcquireSleep, Goto
    <3>2. \A q \in Procs : Owns(q)' <=> Owns(q)
      BY <1>3, <3>1 DEF AcquireSleep
    <3> QED BY <3>1, <3>2
  <2> QED BY <2>1, <2>2
<1>4. ASSUME NEW p \in Procs, Pin(p) PROVE LockInv'
  BY <1>4 DEF Pin, Modify, cacheVars, bufVars, ideVars
<1>5. ASSUME NEW p \in Procs, Bwrite(p) PROVE LockInv'
  BY <1>5 DEF Bwrite, Modify, cacheVars, bufVars, ideVars, Goto
<1>6. ASSUME NEW p \in Procs, ReleaseSleep(p) PROVE LockInv'
  BY <1>6 DEF ReleaseSleep, cacheVars, bufVars, ideVars, Wakeup
<1>7. ASSUME NEW p \in Procs, Put(p) PROVE LockInv'
  BY <1>7 DEF Put, cacheVars, bufVars, ideVars, Goto
<1>8. ASSUME NEW p \in Procs, Iderw(p) PROVE LockInv'
  BY <1>8 DEF Iderw, cacheVars, bufVars, ideVars, Goto
<1>9. ASSUME NEW p \in Procs, IderwWoken(p) PROVE LockInv'
  BY <1>9 DEF IderwWoken, cacheVars, bufVars, ideVars, Goto
<1>10. ASSUME DiskDone PROVE LockInv'
  BY <1>10 DEF DiskDone, cacheVars, bufVars, ideVars
<1>11. ASSUME Ideintr PROVE LockInv'
  BY <1>11 DEF Ideintr, cacheVars, bufVars, ideVars, Wakeup
<1> QED
  BY <1>0, <1>1, <1>2, <1>3, <1>4, <1>5, <1>6, <1>7, <1>8, <1>9, <1>10, <1>11
     DEF Next, Bread, Use, Brelse, Wait

\* Every step keeps flags that fit the owner.
LEMMA FlagStep == BioInv /\ [Next]_vars => FlagInv'
<1> SUFFICES ASSUME BioInv, [Next]_vars PROVE FlagInv'
    OBVIOUS
<1> USE DEF BioInv, TypeOK, UseInv, LockInv, Owns, FlagInv
<1>0. CASE UNCHANGED vars
  BY <1>0 DEF vars, cacheVars, bufVars, ideVars
<1>1. ASSUME NEW p \in Procs, NEW b \in Blocks, BgetHit(p, b) PROVE FlagInv'
  BY <1>1 DEF BgetHit, cacheVars, bufVars, ideVars, Goto, Cached
<1>2. ASSUME NEW p \in Procs, NEW b \in Blocks, BgetRecycle(p, b) PROVE FlagInv'
  <2>1. PICK i \in Bufs : /\ Oldest(i, Unused)
                          /\ valid' = valid \ {i} /\ dirty' = dirty \ {i}
                          /\ buf' = [buf EXCEPT ![p] = i]
    BY <1>2 DEF BgetRecycle
  <2>2. \A q \in Procs : buf[q] # i
    BY <2>1, NoUsers DEF Oldest, Unused
  <2> QED BY <1>2, <2>1, <2>2 DEF BgetRecycle, Goto
<1>3. ASSUME NEW p \in Procs, AcquireSleep(p) PROVE FlagInv'
  BY <1>3 DEF AcquireSleep, cacheVars, bufVars, ideVars, Goto, AfterLock
<1>4. ASSUME NEW p \in Procs, Pin(p) PROVE FlagInv'
  BY <1>4 DEF Pin, Modify, cacheVars, bufVars, ideVars
<1>5. ASSUME NEW p \in Procs, Bwrite(p) PROVE FlagInv'
  BY <1>5 DEF Bwrite, Modify, cacheVars, bufVars, ideVars, Goto
<1>6. ASSUME NEW p \in Procs, ReleaseSleep(p) PROVE FlagInv'
  BY <1>6 DEF ReleaseSleep, cacheVars, bufVars, ideVars, Wakeup
<1>7. ASSUME NEW p \in Procs, Put(p) PROVE FlagInv'
  BY <1>7 DEF Put, cacheVars, bufVars, ideVars, Goto
<1>8. ASSUME NEW p \in Procs, Iderw(p) PROVE FlagInv'
  BY <1>8 DEF Iderw, cacheVars, bufVars, ideVars, Goto
<1>9. ASSUME NEW p \in Procs, IderwWoken(p) PROVE FlagInv'
  BY <1>9 DEF IderwWoken, cacheVars, bufVars, ideVars, Goto
<1>10. ASSUME DiskDone PROVE FlagInv'
  BY <1>10 DEF DiskDone, cacheVars, bufVars, ideVars
<1>11. ASSUME Ideintr PROVE FlagInv'
  <2> DEFINE i == Head(idequeue)
  <2>1. /\ i \in Bufs /\ valid' = valid \cup {i} /\ dirty' = dirty \ {i} /\ UNCHANGED buf
        /\ pc' = [q \in Procs |-> IF pc[q] = "io" /\ buf[q] = i THEN "woken" ELSE pc[q]]
    BY <1>11, QueueFacts DEF Ideintr, DiskServes, QueueInv, Wakeup
  <2>2. \A p \in Procs : pc[p] = "rw" => buf[p] # i
    BY <1>11, QueueFacts DEF Ideintr, DiskServes, QueueInv
  <2> QED BY <2>1, <2>2
<1> QED
  BY <1>0, <1>1, <1>2, <1>3, <1>4, <1>5, <1>6, <1>7, <1>8, <1>9, <1>10, <1>11
     DEF Next, Bread, Use, Brelse, Wait

\* Every step keeps a holder for each lock that is waited for.
LEMMA DozeStep == BioInv /\ [Next]_vars => DozeInv'
<1> SUFFICES ASSUME BioInv, [Next]_vars PROVE DozeInv'
    OBVIOUS
<1> USE NoBufFact, BioConstants DEF BioInv, TypeOK, UseInv, LockInv, Owns, DozeInv
<1>0. CASE UNCHANGED vars
  BY <1>0 DEF vars, cacheVars, bufVars, ideVars
<1>1. ASSUME NEW p \in Procs, NEW b \in Blocks, BgetHit(p, b) PROVE DozeInv'
  BY <1>1 DEF BgetHit, cacheVars, bufVars, ideVars, Goto
<1>2. ASSUME NEW p \in Procs, NEW b \in Blocks, BgetRecycle(p, b) PROVE DozeInv'
  BY <1>2 DEF BgetRecycle, cacheVars, bufVars, ideVars, Goto, Oldest
<1>3. ASSUME NEW p \in Procs, AcquireSleep(p) PROVE DozeInv'
  <2>1. UNCHANGED buf /\ \A q \in Procs : pc[q] \in {"doze", "lock"} => buf[q] \in Bufs
    BY <1>3 DEF AcquireSleep
  <2>2. \A i \in Bufs : holder[i] # Nobody => holder'[i] # Nobody
    BY <1>3, <2>1 DEF AcquireSleep, Goto
  <2>3. \A q \in Procs : pc'[q] = "doze" => \/ pc[q] = "doze"
                                            \/ q = p /\ holder[buf[p]] # Nobody
    <3>1. AfterLock(buf[p]) # "doze"
      BY DEF AfterLock
    <3>2. CASE holder[buf[p]] = Nobody
      <4>1. pc' = [pc EXCEPT ![p] = AfterLock(buf[p])]
        BY <1>3, <3>2 DEF AcquireSleep, Goto
      <4> QED BY <3>1, <4>1
    <3>3. CASE holder[buf[p]] # Nobody
      BY <1>3, <3>3 DEF AcquireSleep, Goto
    <3> QED BY <3>2, <3>3
  <2>4. pc[p] = "lock"
    BY <1>3 DEF AcquireSleep
  <2>5. \A q \in Procs : pc'[q] = "doze" => buf[q] \in Bufs /\ holder[buf[q]] # Nobody
    BY <2>1, <2>3, <2>4
  <2>6. \A q \in Procs : pc'[q] = "doze" => holder'[buf'[q]] # Nobody
    BY <2>1, <2>2, <2>5
  <2> QED BY <2>6
<1>4. ASSUME NEW p \in Procs, Pin(p) PROVE DozeInv'
  BY <1>4 DEF Pin, Modify, cacheVars, bufVars, ideVars
<1>5. ASSUME NEW p \in Procs, Bwrite(p) PROVE DozeInv'
  BY <1>5 DEF Bwrite, Modify, cacheVars, bufVars, ideVars, Goto
<1>6. ASSUME NEW p \in Procs, ReleaseSleep(p) PROVE DozeInv'
  <2>1. /\ UNCHANGED buf
        /\ \A i \in Bufs : holder'[i] = holder[i] \/ i = buf[p]
        /\ \A q \in Procs : pc'[q] = "doze" => pc[q] = "doze" /\ buf[q] # buf[p]
    BY <1>6 DEF ReleaseSleep, Wakeup
  <2>2. \A q \in Procs : pc[q] = "doze" => buf[q] \in Bufs
    OBVIOUS
  <2> QED BY <2>1, <2>2
<1>7. ASSUME NEW p \in Procs, Put(p) PROVE DozeInv'
  BY <1>7 DEF Put, cacheVars, bufVars, ideVars, Goto
<1>8. ASSUME NEW p \in Procs, Iderw(p) PROVE DozeInv'
  BY <1>8 DEF Iderw, cacheVars, bufVars, ideVars, Goto
<1>9. ASSUME NEW p \in Procs, IderwWoken(p) PROVE DozeInv'
  BY <1>9 DEF IderwWoken, cacheVars, bufVars, ideVars, Goto
<1>10. ASSUME DiskDone PROVE DozeInv'
  BY <1>10 DEF DiskDone, cacheVars, bufVars, ideVars
<1>11. ASSUME Ideintr PROVE DozeInv'
  BY <1>11 DEF Ideintr, cacheVars, bufVars, ideVars, Wakeup
<1> QED
  BY <1>0, <1>1, <1>2, <1>3, <1>4, <1>5, <1>6, <1>7, <1>8, <1>9, <1>10, <1>11
     DEF Next, Bread, Use, Brelse, Wait

\* A step that leaves the queue and those in it alone keeps the two together.
LEMMA QueueKept ==
    ASSUME BioInv, UNCHANGED idequeue,
           \A p \in Procs : pc[p] = "io" \/ pc'[p] = "io" =>
               /\ pc'[p] = pc[p] /\ buf'[p] = buf[p]
               /\ holder'[buf[p]] = holder[buf[p]]
    PROVE  QueueInv'
  BY DEF BioInv, QueueInv

\* Every step keeps the queue with those who wait for the disk.
LEMMA QueueStep == BioInv /\ [Next]_vars => QueueInv'
<1> SUFFICES ASSUME BioInv, [Next]_vars PROVE QueueInv'
    OBVIOUS
<1> USE NoBufFact, BioConstants DEF BioInv, TypeOK, UseInv, LockInv, Owns
<1>0. CASE UNCHANGED vars
  BY <1>0, QueueKept DEF vars, ideVars
<1>1. ASSUME NEW p \in Procs, NEW b \in Blocks, BgetHit(p, b) PROVE QueueInv'
  BY <1>1, QueueKept DEF BgetHit, ideVars, Goto
<1>2. ASSUME NEW p \in Procs, NEW b \in Blocks, BgetRecycle(p, b) PROVE QueueInv'
  BY <1>2, QueueKept DEF BgetRecycle, ideVars, Goto
<1>3. ASSUME NEW p \in Procs, AcquireSleep(p) PROVE QueueInv'
  BY <1>3, QueueKept DEF AcquireSleep, ideVars, Goto, AfterLock
<1>4. ASSUME NEW p \in Procs, Pin(p) PROVE QueueInv'
  BY <1>4, QueueKept DEF Pin, Modify, ideVars
<1>5. ASSUME NEW p \in Procs, Bwrite(p) PROVE QueueInv'
  BY <1>5, QueueKept DEF Bwrite, Modify, ideVars, Goto
<1>6. ASSUME NEW p \in Procs, ReleaseSleep(p) PROVE QueueInv'
  BY <1>6, QueueKept DEF ReleaseSleep, ideVars, Wakeup
<1>7. ASSUME NEW p \in Procs, Put(p) PROVE QueueInv'
  BY <1>7, QueueKept DEF Put, ideVars, Goto
<1>8. ASSUME NEW p \in Procs, Iderw(p) PROVE QueueInv'
  <2> DEFINE i == buf[p]  q == idequeue
  <2>1. /\ i \in Bufs /\ holder[i] = p /\ UNCHANGED <<holder, buf>>
        /\ idequeue' = Append(q, i) /\ pc' = [pc EXCEPT ![p] = "io"]
    BY <1>8 DEF Iderw, Goto, UseInv, LockInv, Owns
  <2>2. /\ DOMAIN q = 1 .. Len(q) /\ Len(q) \in Nat
        /\ DOMAIN idequeue' = 1 .. Len(q) + 1
        /\ \A k \in DOMAIN q : idequeue'[k] = q[k]
        /\ idequeue'[Len(q) + 1] = i
    BY <2>1, QueueFacts
  <2>3. \A k \in DOMAIN q : q[k] # i
    BY <1>8, <2>1 DEF Iderw, QueueInv
  <2>4. ASSUME NEW r \in Procs, pc'[r] = "io"
        PROVE  \E k \in DOMAIN idequeue' : idequeue'[k] = buf'[r]
    <3>1. CASE r = p
      BY <2>1, <2>2, <3>1
    <3>2. CASE r # p
      <4>1. PICK k \in DOMAIN q : q[k] = buf[r]
        BY <2>1, <2>4, <3>2 DEF QueueInv
      <4> QED BY <2>1, <2>2, <4>1
    <3> QED BY <3>1, <3>2
  <2>5. ASSUME NEW k \in DOMAIN idequeue'
        PROVE  \E r \in Procs : holder'[idequeue'[k]] = r /\ pc'[r] = "io" /\ buf'[r] = idequeue'[k]
    <3>1. CASE k = Len(q) + 1
      BY <2>1, <2>2, <3>1
    <3>2. CASE k \in DOMAIN q
      <4>1. PICK r \in Procs : holder[q[k]] = r /\ pc[r] = "io" /\ buf[r] = q[k]
        BY <3>2 DEF QueueInv
      <4> QED BY <2>1, <2>2, <3>2, <4>1
    <3> QED BY <2>2, <2>5, <3>1, <3>2
  <2>6. \A k, l \in DOMAIN idequeue' : idequeue'[k] = idequeue'[l] => k = l
    <3>1. \A k, l \in DOMAIN q : q[k] = q[l] => k = l
      BY DEF QueueInv
    <3>2. \A k \in DOMAIN idequeue' : k \in DOMAIN q \/ k = Len(q) + 1
      BY <2>2
    <3>3. ASSUME NEW k \in DOMAIN idequeue', NEW l \in DOMAIN idequeue', idequeue'[k] = idequeue'[l]
          PROVE  k = l
      <4>1. CASE k = Len(q) + 1 /\ l \in DOMAIN q
        BY <2>2, <2>3, <3>3, <4>1
      <4>2. CASE l = Len(q) + 1 /\ k \in DOMAIN q
        BY <2>2, <2>3, <3>3, <4>2
      <4>3. CASE k \in DOMAIN q /\ l \in DOMAIN q
        BY <2>2, <3>1, <3>3, <4>3
      <4> QED BY <3>2, <4>1, <4>2, <4>3
    <3> QED BY <3>3
  <2> QED BY <2>4, <2>5, <2>6 DEF QueueInv
<1>9. ASSUME NEW p \in Procs, IderwWoken(p) PROVE QueueInv'
  BY <1>9, QueueKept DEF IderwWoken, ideVars, Goto, FlagInv
<1>10. ASSUME DiskDone PROVE QueueInv'
  BY <1>10, QueueKept DEF DiskDone, ideVars
<1>11. ASSUME Ideintr PROVE QueueInv'
  <2> DEFINE i == Head(idequeue)  q == idequeue
  <2>1. q # <<>> /\ idequeue' = Tail(q) /\ UNCHANGED <<holder, buf>>
    BY <1>11 DEF Ideintr, DiskServes
  <2>2. pc' = [r \in Procs |-> IF pc[r] = "io" /\ buf[r] = i THEN "woken" ELSE pc[r]]
    BY <1>11 DEF Ideintr, Wakeup
  <2>3. /\ i = q[1] /\ 1 \in DOMAIN q /\ DOMAIN q = 1 .. Len(q) /\ Len(q) \in Nat
        /\ DOMAIN idequeue' = 1 .. Len(q) - 1
        /\ \A k \in DOMAIN idequeue' : k + 1 \in DOMAIN q /\ idequeue'[k] = q[k + 1]
    BY <2>1, QueueFacts
  <2>4. \A k, l \in DOMAIN q : q[k] = q[l] => k = l
    BY DEF QueueInv
  <2>5. \A k \in DOMAIN idequeue' : idequeue'[k] # i
    BY <2>3, <2>4
  <2>6. ASSUME NEW r \in Procs, pc'[r] = "io"
        PROVE  \E k \in DOMAIN idequeue' : idequeue'[k] = buf'[r]
    <3>1. pc[r] = "io" /\ buf[r] # i
      BY <2>2, <2>6
    <3>2. PICK k \in DOMAIN q : q[k] = buf[r]
      BY <3>1 DEF QueueInv
    <3>3. k - 1 \in DOMAIN idequeue' /\ (k - 1) + 1 = k
      BY <2>3, <3>1, <3>2
    <3> QED BY <2>1, <2>3, <3>2, <3>3
  <2>7. ASSUME NEW k \in DOMAIN idequeue'
        PROVE  \E r \in Procs : holder'[idequeue'[k]] = r /\ pc'[r] = "io" /\ buf'[r] = idequeue'[k]
    <3>1. PICK r \in Procs : holder[q[k + 1]] = r /\ pc[r] = "io" /\ buf[r] = q[k + 1]
      BY <2>3, <2>7 DEF QueueInv
    <3> QED BY <2>1, <2>2, <2>3, <2>5, <2>7, <3>1
  <2>8. \A k, l \in DOMAIN idequeue' : idequeue'[k] = idequeue'[l] => k = l
    BY <2>3, <2>4
  <2> QED BY <2>6, <2>7, <2>8 DEF QueueInv
<1> QED
  BY <1>0, <1>1, <1>2, <1>3, <1>4, <1>5, <1>6, <1>7, <1>8, <1>9, <1>10, <1>11
     DEF Next, Bread, Use, Brelse, Wait

\* Every step keeps the disk at the head of the queue.
LEMMA ServeStep == BioInv /\ [Next]_vars => DiskServes'
<1> SUFFICES ASSUME BioInv, [Next]_vars PROVE DiskServes'
    OBVIOUS
<1>0. TypeOK /\ UseInv /\ DiskServes /\ QueueInv /\ OneBufferPerBlock
  BY DEF BioInv
<1>1. \/ UNCHANGED <<idequeue, cmd, blockno>>
      \/ DiskDone \/ Ideintr
      \/ \E p \in Procs : Iderw(p) \/ \E b \in Blocks : BgetRecycle(p, b)
  BY DEF BgetHit, AcquireSleep, Pin, Bwrite, Modify, ReleaseSleep, Put, IderwWoken,
         Next, Bread, Use, Brelse, Wait, vars, cacheVars, bufVars, ideVars
<1>2. CASE UNCHANGED <<idequeue, cmd, blockno>>
  BY <1>0, <1>2 DEF DiskServes
<1>3. CASE DiskDone
  <2>1. /\ cmd # <<>> /\ UNCHANGED <<idequeue, blockno>>
        /\ cmd' = <<[cmd[1] EXCEPT !.done = TRUE]>>
    BY <1>3 DEF DiskDone, cacheVars
  <2>2. cmd[1] \in Commands
    BY <1>0, <2>1, CommandTypes
  <2>3. cmd' # <<>> /\ cmd'[1].block = cmd[1].block
    BY <2>1, <2>2 DEF Commands
  <2> QED BY <1>0, <2>1, <2>3 DEF DiskServes
<1>4. CASE Ideintr
  <2>1. cmd' = StartNext(Tail(idequeue)) /\ idequeue' = Tail(idequeue) /\ UNCHANGED blockno
    BY <1>4 DEF Ideintr, cacheVars
  <2> QED BY <2>1 DEF DiskServes, StartNext, Command
<1>5. ASSUME NEW p \in Procs, Iderw(p) PROVE DiskServes'
  <2>1. buf[p] \in Bufs /\ idequeue \in Seq(Bufs)
    BY <1>0, <1>5 DEF Iderw, UseInv, TypeOK
  <2>2. /\ idequeue' = Append(idequeue, buf[p]) /\ UNCHANGED blockno
        /\ cmd' = IF idequeue = <<>> THEN Command(buf[p]) ELSE cmd
    BY <1>5 DEF Iderw, StartNow, cacheVars
  <2>3. idequeue' # <<>> /\ Head(idequeue') = IF idequeue = <<>> THEN buf[p] ELSE Head(idequeue)
    BY <2>1, <2>2, QueueFacts
  <2> QED BY <1>0, <2>2, <2>3 DEF DiskServes, Command
<1>6. ASSUME NEW p \in Procs, NEW b \in Blocks, BgetRecycle(p, b) PROVE DiskServes'
  <2>1. PICK i \in Bufs : Oldest(i, Unused) /\ blockno' = [blockno EXCEPT ![i] = b]
    BY <1>6 DEF BgetRecycle
  <2>2. \A q \in Procs : buf[q] # i
    BY <1>0, <2>1, NoUsers DEF Oldest, Unused
  <2>3. idequeue # <<>> => Head(idequeue) \in Bufs /\ Head(idequeue) # i
    BY <1>0, <2>2, QueueFacts DEF QueueInv, TypeOK
  <2>4. UNCHANGED <<idequeue, cmd>>
    BY <1>6 DEF BgetRecycle, ideVars
  <2> QED BY <1>0, <2>1, <2>3, <2>4 DEF DiskServes, TypeOK
<1> QED BY <1>1, <1>3, <1>4, <1>5, <1>6, <1>2

\* The head of the queue has an owner that waits for the disk.
LEMMA HeadOwned ==
    ASSUME BioInv, cmd # <<>>
    PROVE  /\ idequeue # <<>> /\ Head(idequeue) \in Bufs /\ cmd[1] \in Commands
           /\ \E p \in Procs : /\ holder[Head(idequeue)] = p
                               /\ pc[p] = "io" /\ buf[p] = Head(idequeue)
<1>1. idequeue # <<>> /\ idequeue \in Seq(Bufs)
  BY DEF BioInv, DiskServes, TypeOK
<1>2. Head(idequeue) = idequeue[1] /\ idequeue[1] \in Bufs /\ 1 \in DOMAIN idequeue
  BY <1>1, QueueFacts
<1> QED BY <1>1, <1>2, CommandTypes DEF BioInv, QueueInv

\* Every step keeps the command that of the head of the queue.
LEMMA CmdStep == BioInv /\ [Next]_vars => CmdInv'
<1> SUFFICES ASSUME BioInv, [Next]_vars PROVE CmdInv'
    OBVIOUS
<1>0. TypeOK /\ UseInv /\ LockInv /\ DiskServes /\ QueueInv /\ OneBufferPerBlock /\ CmdInv
  BY DEF BioInv
<1>1. \/ UNCHANGED <<idequeue, cmd, dirty, data, disk>>
      \/ DiskDone \/ Ideintr
      \/ \E p \in Procs : Iderw(p) \/ Pin(p) \/ Bwrite(p) \/ \E b \in Blocks : BgetRecycle(p, b)
  BY DEF BgetHit, AcquireSleep, ReleaseSleep, Put, IderwWoken,
         Next, Bread, Use, Brelse, Wait, vars, cacheVars, bufVars, ideVars
<1>2. CASE UNCHANGED <<idequeue, cmd, dirty, data, disk>>
  BY <1>0, <1>2 DEF CmdInv
<1>3. CASE DiskDone
  <2> DEFINE i == Head(idequeue)  c == cmd[1]
  <2>1. cmd # <<>> /\ c \in Commands /\ UNCHANGED <<idequeue, dirty, data>>
    BY <1>3, HeadOwned DEF DiskDone, bufVars
  <2>2. cmd' = <<[c EXCEPT !.done = TRUE]>>
    BY <1>3 DEF DiskDone
  <2>3. cmd' # <<>> /\ cmd'[1].write = c.write /\ cmd'[1].data = c.data /\ cmd'[1].block = c.block
    BY <2>1, <2>2 DEF Commands
  <2>4. /\ c.write <=> i \in dirty
        /\ c.write => c.data = data[i]
    BY <1>0, <2>1 DEF CmdInv
  <2>5. c.write => disk'[c.block] = c.data
    BY <1>0, <1>3, <2>1 DEF DiskDone, TypeOK, Commands
  <2> QED BY <2>1, <2>3, <2>4, <2>5 DEF CmdInv
<1>4. CASE Ideintr
  <2> DEFINE q == Tail(idequeue)  i == Head(idequeue)
  <2>1. /\ idequeue' = q /\ cmd' = StartNext(q) /\ dirty' = dirty \ {i}
        /\ \A j \in Bufs : j # i => data'[j] = data[j]
    BY <1>0, <1>4 DEF Ideintr, TypeOK
  <2>2. CASE q = <<>>
    BY <2>1, <2>2 DEF CmdInv, StartNext
  <2>3. CASE q # <<>>
    <3>1. Head(q) = idequeue[2] /\ i = idequeue[1] /\ 1 \in DOMAIN idequeue /\ 2 \in DOMAIN idequeue
          /\ q \in Seq(Bufs)
      BY <1>0, <1>4, <2>3, QueueFacts DEF Ideintr, DiskServes, TypeOK
    <3>2. Head(q) # i /\ Head(q) \in Bufs
      BY <1>0, <2>3, <3>1 DEF QueueInv
    <3>3. cmd' = Command(Head(q))
      BY <2>1, <2>3 DEF StartNext
    <3>4. /\ cmd'[1].write <=> Head(q) \in dirty
          /\ cmd'[1].data = data[Head(q)] /\ cmd'[1].done = FALSE
      BY <3>3 DEF Command
    <3>5. Head(q) \in dirty <=> Head(q) \in dirty'
      BY <2>1, <3>2
    <3>6. data'[Head(q)] = data[Head(q)]
      BY <2>1, <3>2
    <3> QED BY <2>1, <3>4, <3>5, <3>6 DEF CmdInv
  <2> QED BY <2>2, <2>3
<1>5. ASSUME NEW p \in Procs, Iderw(p) PROVE CmdInv'
  <2>1. buf[p] \in Bufs /\ idequeue \in Seq(Bufs)
    BY <1>0, <1>5 DEF Iderw, UseInv, TypeOK
  <2>2. /\ idequeue' = Append(idequeue, buf[p]) /\ UNCHANGED <<dirty, data, disk>>
        /\ cmd' = IF idequeue = <<>> THEN Command(buf[p]) ELSE cmd
    BY <1>5 DEF Iderw, StartNow, bufVars
  <2>3. Head(idequeue') = IF idequeue = <<>> THEN buf[p] ELSE Head(idequeue)
    BY <2>1, <2>2, QueueFacts
  <2> QED BY <1>0, <2>2, <2>3 DEF CmdInv, Command
<1>6. ASSUME NEW p \in Procs, Modify(p), UNCHANGED <<idequeue, cmd, disk>> PROVE CmdInv'
  <2>1. pc[p] = "held" /\ dirty' = dirty \cup {buf[p]} /\ buf[p] \in Bufs
    BY <1>0, <1>6 DEF Modify, UseInv, TypeOK
  <2>2. \A j \in Bufs : j # buf[p] => data'[j] = data[j]
    BY <1>0, <1>6 DEF Modify, TypeOK
  <2>3. holder[buf[p]] = p
    BY <1>0, <2>1 DEF LockInv, Owns
  <2>4. cmd # <<>> => Head(idequeue) \in Bufs /\ Head(idequeue) # buf[p]
    BY <2>1, <2>3, HeadOwned
  <2> QED BY <1>0, <1>6, <2>1, <2>2, <2>4 DEF CmdInv
<1>7. ASSUME NEW p \in Procs, NEW b \in Blocks, BgetRecycle(p, b) PROVE CmdInv'
  <2>1. PICK i \in Bufs : Oldest(i, Unused) /\ dirty' = dirty \ {i}
    BY <1>7 DEF BgetRecycle
  <2>2. \A q \in Procs : buf[q] # i
    BY <1>0, <2>1, NoUsers DEF Oldest, Unused
  <2>3. cmd # <<>> => Head(idequeue) # i
    BY <2>2, HeadOwned
  <2>4. UNCHANGED <<idequeue, cmd, disk, data>>
    BY <1>7 DEF BgetRecycle, ideVars
  <2> QED BY <1>0, <2>1, <2>3, <2>4 DEF CmdInv
<1> QED BY <1>1, <1>2, <1>3, <1>4, <1>5, <1>6, <1>7 DEF Pin, Bwrite, Modify, ideVars

-----------------------------------------------------------------------------
\* The inductive invariant.
THEOREM BioInvariant == Spec => []BioInv
<1>1. Init => BioInv
  <2> SUFFICES ASSUME Init PROVE BioInv
    OBVIOUS
  <2>1. TypeOK
    BY BioConstants DEF Init, TypeOK, PCs, Bufs
  <2>2. ListInv
    <3>1. \A i \in Bufs : NBUF + 1 - i \in Bufs /\ NBUF + 1 - (NBUF + 1 - i) = i
      BY BioConstants DEF Bufs
    <3> QED BY <3>1 DEF Init, ListInv
  <2>3. OneBufferPerBlock
    <3>1. \A i \in Bufs : Users(i) = {}
      BY NoBufFact DEF Init, Users
    <3> QED BY <3>1, FS_EmptySet DEF Init, OneBufferPerBlock
  <2>4. UseInv /\ LockInv /\ FlagInv /\ DozeInv
    BY DEF Init, UseInv, LockInv, FlagInv, DozeInv, Owns
  <2>5. QueueInv /\ DiskServes /\ CmdInv
    BY DEF Init, QueueInv, DiskServes, CmdInv
  <2> QED BY <2>1, <2>2, <2>3, <2>4, <2>5 DEF BioInv
<1>2. BioInv /\ [Next]_vars => BioInv'
  BY TypeStep, ListStep, OneBufferStep, UseStep, LockStep, FlagStep, DozeStep,
     QueueStep, ServeStep, CmdStep DEF BioInv
<1> QED BY <1>1, <1>2, PTL DEF Spec

\* Variables keep their types, for every number of processes, blocks and buffers.
THEOREM TypesStay == Spec => []TypeOK
BY BioInvariant, PTL DEF BioInv

\* A block never has two buffers, and a buffer somebody waits for or holds is
\* counted, so that bget cannot give it away between its two locks.
THEOREM BlocksHaveOneBuffer == Spec => []OneBufferPerBlock
BY BioInvariant, PTL DEF BioInv

\* A process that sleeps for a lock or for the disk has somebody to wake it: no
\* order of requests, interrupts and wakeups strands it.
THEOREM SleepersAreServed == Spec => []SleepersWait
<1>1. BioInv => SleepersWait
  BY DEF BioInv, SleepersWait, DozeInv, QueueInv
<1> QED BY <1>1, BioInvariant, PTL

-----------------------------------------------------------------------------
\* With a disk that reads what it is asked, clean buffers agree with it.
LEMMA CleanStep ==
    ASSUME ReadErrors = FALSE
    PROVE  BioInv /\ CleanIsOnDisk /\ [Next]_vars => CleanIsOnDisk'
<1> SUFFICES ASSUME BioInv, CleanIsOnDisk, [Next]_vars PROVE CleanIsOnDisk'
    OBVIOUS
<1>0. TypeOK /\ UseInv /\ DiskServes /\ OneBufferPerBlock /\ CmdInv
  BY DEF BioInv
<1>1. \/ UNCHANGED <<blockno, valid, dirty, data, disk>>
      \/ DiskDone \/ Ideintr
      \/ \E p \in Procs : Pin(p) \/ Bwrite(p) \/ \E b \in Blocks : BgetRecycle(p, b)
  BY DEF BgetHit, AcquireSleep, ReleaseSleep, Put, Iderw, IderwWoken,
         Next, Bread, Use, Brelse, Wait, vars, cacheVars, bufVars, ideVars
<1>2. CASE UNCHANGED <<blockno, valid, dirty, data, disk>>
  BY <1>2 DEF CleanIsOnDisk
<1>3. CASE DiskDone
  <2> DEFINE i == Head(idequeue)  c == cmd[1]
  <2>1. /\ i \in Bufs /\ c \in Commands /\ c.block = blockno[i]
        /\ UNCHANGED <<blockno, valid, dirty, data>>
    BY <1>0, <1>3, HeadOwned DEF DiskDone, DiskServes, bufVars, cacheVars
  <2>2. c.write => i \in dirty
    BY <1>0, <1>3 DEF DiskDone, CmdInv
  <2>3. \A b \in Blocks : disk'[b] # disk[b] => c.write /\ b = c.block
    BY <1>0, <1>3 DEF DiskDone, TypeOK
  <2>4. ASSUME NEW j \in valid \ dirty PROVE disk'[blockno[j]] = disk[blockno[j]]
    <3>1. j \in Bufs /\ blockno[j] \in Blocks /\ blockno[j] # NoBlock
      BY <1>0, BioConstants DEF TypeOK, UseInv
    <3> QED BY <1>0, <2>1, <2>2, <2>3, <2>4, <3>1 DEF OneBufferPerBlock
  <2> QED BY <2>1, <2>4 DEF CleanIsOnDisk
<1>4. CASE Ideintr
  <2> DEFINE i == Head(idequeue)  c == cmd[1]
  <2>1. /\ i \in Bufs /\ c.block = blockno[i] /\ UNCHANGED <<blockno, disk>>
        /\ valid' = valid \cup {i} /\ dirty' = dirty \ {i}
    BY <1>0, <1>4, HeadOwned DEF Ideintr, DiskServes, cacheVars
  <2>2. data' = IF i \in dirty THEN data ELSE [data EXCEPT ![i] = disk[c.block]]
    BY <1>4 DEF Ideintr
  <2>3. i \in dirty => data[i] = disk[c.block]
    BY <1>0, <1>4 DEF Ideintr, CmdInv
  <2>4. data'[i] = disk'[blockno'[i]]
    BY <1>0, <2>1, <2>2, <2>3 DEF TypeOK
  <2>5. \A j \in valid : j # i => data'[j] = data[j]
    BY <1>0, <2>2 DEF TypeOK
  <2> QED BY <2>1, <2>4, <2>5 DEF CleanIsOnDisk
<1>5. ASSUME NEW p \in Procs, Modify(p) PROVE CleanIsOnDisk'
  <2>1. /\ dirty' = dirty \cup {buf[p]} /\ UNCHANGED <<blockno, valid, disk>>
        /\ \A j \in Bufs : j # buf[p] => data'[j] = data[j]
    BY <1>0, <1>5 DEF Modify, TypeOK, cacheVars, ideVars
  <2> QED BY <1>0, <2>1 DEF CleanIsOnDisk, TypeOK
<1>6. ASSUME NEW p \in Procs, NEW b \in Blocks, BgetRecycle(p, b) PROVE CleanIsOnDisk'
  <2>1. PICK i \in Bufs : /\ blockno' = [blockno EXCEPT ![i] = b]
                          /\ valid' = valid \ {i} /\ dirty' = dirty \ {i}
    BY <1>6 DEF BgetRecycle
  <2>2. UNCHANGED <<data, disk>>
    BY <1>6 DEF BgetRecycle, ideVars
  <2> QED BY <1>0, <2>1, <2>2 DEF CleanIsOnDisk, TypeOK
<1> QED BY <1>1, <1>2, <1>3, <1>4, <1>5, <1>6 DEF Pin, Bwrite

\* With a disk that reads what it is asked, a buffer that is valid and not dirty is
\* what the disk has: bwrite has returned only when the disk has the block.
THEOREM CleanBuffersAreOnDisk ==
    ASSUME ReadErrors = FALSE
    PROVE  Spec => []CleanIsOnDisk
<1>1. Init => CleanIsOnDisk
  BY DEF Init, CleanIsOnDisk
<1>2. BioInv /\ CleanIsOnDisk /\ [Next]_vars => CleanIsOnDisk'
  BY CleanStep
<1> QED BY <1>1, <1>2, BioInvariant, PTL DEF Spec
-----------------------------------------------------------------------------
\* What a reader sees is the valid buffer of the block, or else the disk.
LEMMA MemValues ==
    BioInv => /\ \A i \in valid : blockno[i] \in Blocks /\ Mem[blockno[i]] = data[i]
              /\ \A b \in Blocks : (\A i \in valid : blockno[i] # b) => Mem[b] = disk[b]
<1> SUFFICES ASSUME BioInv
             PROVE  /\ \A i \in valid : blockno[i] \in Blocks /\ Mem[blockno[i]] = data[i]
                    /\ \A b \in Blocks : (\A i \in valid : blockno[i] # b) => Mem[b] = disk[b]
    OBVIOUS
<1>1. ASSUME NEW i \in valid PROVE blockno[i] \in Blocks /\ Mem[blockno[i]] = data[i]
  <2>1. i \in Bufs /\ blockno[i] \in Blocks /\ valid \subseteq Bufs /\ NoBlock \notin Blocks
    BY BioConstants DEF BioInv, TypeOK, UseInv
  <2>2. \A j \in valid : blockno[j] = blockno[i] => j = i
    BY <2>1 DEF BioInv, OneBufferPerBlock
  <2>3. (CHOOSE j \in valid : blockno[j] = blockno[i]) = i
    BY <2>2
  <2> QED BY <2>1, <2>3 DEF Mem
<1>2. ASSUME NEW b \in Blocks, \A i \in valid : blockno[i] # b PROVE Mem[b] = disk[b]
  BY <1>2 DEF Mem
<1> QED BY <1>1, <1>2

LEMMA MemValuesNext ==
    BioInv' => /\ \A i \in valid' : blockno'[i] \in Blocks /\ Mem'[blockno'[i]] = data'[i]
               /\ \A b \in Blocks : (\A i \in valid' : blockno'[i] # b) => Mem'[b] = disk'[b]
<1> SUFFICES ASSUME BioInv'
             PROVE  /\ \A i \in valid' : blockno'[i] \in Blocks /\ Mem'[blockno'[i]] = data'[i]
                    /\ \A b \in Blocks : (\A i \in valid' : blockno'[i] # b) => Mem'[b] = disk'[b]
    OBVIOUS
<1>1. ASSUME NEW i \in valid' PROVE blockno'[i] \in Blocks /\ Mem'[blockno'[i]] = data'[i]
  <2>1. i \in Bufs /\ blockno'[i] \in Blocks /\ valid' \subseteq Bufs /\ NoBlock \notin Blocks
    BY BioConstants DEF BioInv, TypeOK, UseInv
  <2>2. \A j \in valid' : blockno'[j] = blockno'[i] => j = i
    BY <2>1 DEF BioInv, OneBufferPerBlock
  <2>3. (CHOOSE j \in valid' : blockno'[j] = blockno'[i]) = i
    BY <2>2
  <2> QED BY <2>1, <2>3 DEF Mem
<1>2. ASSUME NEW b \in Blocks, \A i \in valid' : blockno'[i] # b PROVE Mem'[b] = disk'[b]
  BY <1>2 DEF Mem
<1> QED BY <1>1, <1>2


\* The owners change only where a process starts or ends to own a buffer, or a
\* buffer gets another block.
LEMMA OwnerKept ==
    ASSUME NEW S, S = {"rw", "io", "woken", "held"},
           \A p \in Procs : /\ pc'[p] \in S <=> pc[p] \in S
                            /\ pc[p] \in S => blockno'[buf'[p]] = blockno[buf[p]]
    PROVE  Owner' = Owner
  BY DEF Owner, Owns

LEMMA OwnerIs ==
    /\ \A p \in Procs : Owns(p) => Owner[p] = blockno[buf[p]]
    /\ \A p \in Procs : ~Owns(p) => Owner[p] = NoBlock
    /\ DOMAIN Owner = Procs
  BY DEF Owner

\* The blocks that readers see are kept when each is.
LEMMA MemKept ==
    /\ (\A b \in Blocks : Mem'[b] = Mem[b]) => Mem' = Mem
    /\ UNCHANGED <<blockno, valid, data, disk>> => Mem' = Mem
<1>1. ASSUME \A b \in Blocks : Mem'[b] = Mem[b] PROVE Mem' = Mem
  <2>1. Mem = [b \in Blocks |-> Mem[b]] /\ Mem' = [b \in Blocks |-> Mem'[b]]
    BY DEF Mem
  <2> QED BY <1>1, <2>1
<1>2. ASSUME UNCHANGED <<blockno, valid, data, disk>> PROVE Mem' = Mem
  BY <1>2 DEF Mem
<1> QED BY <1>1, <1>2
-----------------------------------------------------------------------------
\* A buffer that is recycled takes nothing with it that the disk does not have.
LEMMA RecycleKeeps ==
    ASSUME BioInv, BioInv', CleanIsOnDisk,
           NEW p \in Procs, NEW b \in Blocks, BgetRecycle(p, b)
    PROVE  UNCHANGED <<Mem, disk, Owner>>
<1>1. PICK i \in Bufs : /\ refcnt[i] = 0 /\ i \notin dirty
                        /\ blockno' = [blockno EXCEPT ![i] = b]
                        /\ valid' = valid \ {i}
                        /\ buf' = [buf EXCEPT ![p] = i]
  BY DEF BgetRecycle, Oldest, Unused
<1>2. /\ pc[p] = "idle" /\ pc' = [pc EXCEPT ![p] = "lock"] /\ UNCHANGED <<data, disk>>
  BY DEF BgetRecycle, Goto, ideVars
<1>3. TypeOK /\ OneBufferPerBlock /\ UseInv
  BY DEF BioInv
<1>4. Owner' = Owner
  <2>1. \A q \in Procs : buf[q] # i
    BY <1>1, <1>3, NoUsers
  <2>2. ASSUME NEW q \in Procs, pc[q] \in {"rw", "io", "woken", "held"}
        PROVE  blockno'[buf'[q]] = blockno[buf[q]]
    <3>1. q # p /\ buf'[q] = buf[q] /\ buf[q] # i
      BY <1>1, <1>2, <1>3, <2>1, <2>2 DEF TypeOK
    <3> QED BY <1>1, <1>3, <3>1 DEF TypeOK
  <2>3. ASSUME NEW q \in Procs
        PROVE  pc'[q] \in {"rw", "io", "woken", "held"} <=> pc[q] \in {"rw", "io", "woken", "held"}
    BY <1>2, <1>3 DEF TypeOK
  <2> QED BY <2>2, <2>3, OwnerKept
<1>5. ASSUME NEW d \in Blocks PROVE Mem'[d] = Mem[d]
  <2>1. CASE \E j \in valid : blockno[j] = d /\ j # i
    <3>1. PICK j \in valid : blockno[j] = d /\ j # i
      BY <2>1
    <3>2. j \in valid' /\ blockno'[j] = d
      BY <1>1, <1>3, <3>1 DEF TypeOK
    <3> QED BY <1>2, <3>1, <3>2, MemValues, MemValuesNext
  <2>2. CASE i \in valid /\ blockno[i] = d
    <3>1. Mem[d] = disk[d]
      BY <1>1, <2>2, MemValues DEF CleanIsOnDisk
    <3>2. \A j \in valid' : blockno'[j] # d
      BY <1>1, <1>3, <2>2, BioConstants DEF TypeOK, OneBufferPerBlock
    <3> QED BY <1>2, <3>1, <3>2, MemValuesNext
  <2>3. CASE \A j \in valid : blockno[j] # d
    <3>1. \A j \in valid' : blockno'[j] # d
      BY <1>1, <1>3, <2>3 DEF TypeOK
    <3> QED BY <1>2, <2>3, <3>1, MemValues, MemValuesNext
  <2> QED BY <2>1, <2>2, <2>3
<1> QED BY <1>2, <1>4, <1>5, MemKept

\* A process that gets the lock of its buffer gets the block, which nobody owns.
LEMMA AcquireGets ==
    ASSUME BioInv, NEW p \in Procs, AcquireSleep(p)
    PROVE  B!Get(p, blockno[buf[p]]) \/ UNCHANGED <<Mem, disk, Owner>>
<1>1. /\ pc[p] = "lock" /\ UNCHANGED <<blockno, valid, data, disk, buf>>
  BY DEF AcquireSleep, cacheVars, bufVars, ideVars
<1>2. Mem' = Mem
  BY <1>1, MemKept
<1>3. TypeOK /\ OneBufferPerBlock /\ UseInv /\ LockInv
  BY DEF BioInv
<1>4. CASE holder[buf[p]] = Nobody
  <2>1. pc' = [pc EXCEPT ![p] = AfterLock(buf[p])] /\ AfterLock(buf[p]) \in {"held", "rw"}
    BY <1>4 DEF AcquireSleep, Goto, AfterLock
  <2>2. Owner[p] = NoBlock
    BY <1>1, OwnerIs DEF Owns
  <2>3. blockno[buf[p]] \in Blocks /\ buf[p] \in Bufs
    BY <1>1, <1>3 DEF UseInv, TypeOK
  <2>4. ASSUME NEW q \in Procs, Owner[q] = blockno[buf[p]] PROVE FALSE
    <3>1. Owns(q) /\ blockno[buf[q]] = blockno[buf[p]]
      BY <2>3, <2>4, OwnerIs, BioConstants
    <3>2. pc[q] # "idle" /\ buf[q] \in Bufs
      BY <1>3, <3>1 DEF Owns, UseInv, TypeOK
    <3>3. buf[q] = buf[p]
      BY <1>3, <2>3, <3>1, <3>2, BioConstants DEF OneBufferPerBlock
    <3> QED BY <1>3, <1>4, <3>1, <3>3, BioConstants DEF LockInv
  <2>5. Owner' = [Owner EXCEPT ![p] = blockno[buf[p]]]
    <3>1. pc'[p] \in {"rw", "held"} /\ \A q \in Procs : q # p => pc'[q] = pc[q]
      BY <1>3, <2>1 DEF TypeOK
    <3> QED BY <1>1, <3>1 DEF Owner, Owns
  <2> QED BY <1>1, <1>2, <2>2, <2>4, <2>5 DEF B!Get
<1>5. CASE holder[buf[p]] # Nobody
  <2>1. pc' = [pc EXCEPT ![p] = "doze"]
    BY <1>5 DEF AcquireSleep, Goto
  <2>2. \A q \in Procs : pc'[q] \in {"rw", "io", "woken", "held"}
                            <=> pc[q] \in {"rw", "io", "woken", "held"}
    BY <1>1, <1>3, <2>1 DEF TypeOK
  <2> QED BY <1>1, <1>2, <2>2, OwnerKept
<1> QED BY <1>4, <1>5

\* A process that releases the lock of its buffer releases the block.
LEMMA ReleaseGivesUp ==
    ASSUME BioInv, NEW p \in Procs, ReleaseSleep(p)
    PROVE  B!Release(p)
<1>1. /\ pc[p] = "held" /\ UNCHANGED <<blockno, valid, data, disk, buf>>
      /\ pc' = [Wakeup(pc, buf[p], "doze", "lock") EXCEPT ![p] = "put"]
  BY DEF ReleaseSleep, cacheVars, bufVars, ideVars
<1>2. Mem' = Mem
  BY <1>1, MemKept
<1>3. TypeOK /\ UseInv
  BY DEF BioInv
<1>4. Owner[p] # NoBlock
  BY <1>1, <1>3, OwnerIs, BioConstants DEF Owns, UseInv
<1>5. Owner' = [Owner EXCEPT ![p] = NoBlock]
  <2>1. /\ pc'[p] = "put"
        /\ \A q \in Procs : q # p => pc'[q] = pc[q] \/ (pc[q] = "doze" /\ pc'[q] = "lock")
    BY <1>1, <1>3 DEF TypeOK, Wakeup
  <2> QED BY <1>1, <2>1 DEF Owner, Owns
<1> QED BY <1>1, <1>2, <1>4, <1>5 DEF B!Release

\* What its owner does to a buffer that it holds, it does to the block.
LEMMA ModifyChanges ==
    ASSUME BioInv, BioInv', NEW p \in Procs, Pin(p) \/ Bwrite(p)
    PROVE  B!Change(p)
<1>1. /\ pc[p] = "held" /\ UNCHANGED <<blockno, valid, disk, buf>>
  BY DEF Pin, Bwrite, Modify, cacheVars, ideVars
<1>2. TypeOK /\ UseInv /\ FlagInv /\ OneBufferPerBlock
  BY DEF BioInv
<1> DEFINE i == buf[p]  b == blockno[buf[p]]
<1>3. i \in valid /\ i \in Bufs /\ b \in Blocks /\ Mem[b] = data[i]
  BY <1>1, <1>2, MemValues DEF FlagInv, UseInv, TypeOK
<1>4. PICK d \in Data : data' = [data EXCEPT ![i] = d]
  BY DEF Pin, Bwrite, Modify
<1>5. Owner[p] = b /\ b # NoBlock
  BY <1>1, <1>3, OwnerIs, BioConstants DEF Owns
<1>6. Owner' = Owner
  <2>1. UNCHANGED pc \/ pc' = [pc EXCEPT ![p] = "rw"]
    BY DEF Pin, Bwrite, Goto
  <2>2. \A q \in Procs : pc'[q] \in {"rw", "io", "woken", "held"}
                            <=> pc[q] \in {"rw", "io", "woken", "held"}
    BY <1>1, <1>2, <2>1 DEF TypeOK
  <2> QED BY <1>1, <2>2, OwnerKept
<1>7. Mem' = [Mem EXCEPT ![b] = d]
  <2>1. Mem = [x \in Blocks |-> Mem[x]] /\ Mem' = [x \in Blocks |-> Mem'[x]]
    BY DEF Mem
  <2>2. Mem'[b] = d
    BY <1>1, <1>2, <1>3, <1>4, MemValuesNext DEF TypeOK
  <2>3. ASSUME NEW x \in Blocks, x # b PROVE Mem'[x] = Mem[x]
    <3>1. CASE \E j \in valid : blockno[j] = x
      <4>1. PICK j \in valid : blockno[j] = x
        BY <3>1
      <4>2. data'[j] = data[j]
        BY <1>2, <1>4, <2>3, <4>1 DEF TypeOK
      <4> QED BY <1>1, <4>1, <4>2, MemValues, MemValuesNext
    <3>2. CASE \A j \in valid : blockno[j] # x
      BY <1>1, <3>2, <2>3, MemValues, MemValuesNext
    <3> QED BY <3>1, <3>2
  <2> HIDE DEF b
  <2> QED BY <2>1, <2>2, <2>3
<1> QED BY <1>1, <1>4, <1>5, <1>6, <1>7 DEF B!Change


\* The disk takes a block as its owner, who waits for it, has left it.
LEMMA DiskSyncs ==
    ASSUME BioInv, BioInv', DiskDone
    PROVE  (\E p \in Procs : B!Sync(p)) \/ UNCHANGED <<Mem, disk, Owner>>
<1> DEFINE i == Head(idequeue)  c == cmd[1]
<1>1. /\ cmd # <<>> /\ UNCHANGED <<blockno, valid, data, pc, buf>>
      /\ disk' = IF c.write THEN [disk EXCEPT ![c.block] = c.data] ELSE disk
  BY DEF DiskDone, cacheVars, bufVars
<1>2. Owner' = Owner
  BY <1>1, OwnerKept
<1>3. CASE c.write
  <2>1. PICK p \in Procs : holder[i] = p /\ pc[p] = "io" /\ buf[p] = i
    BY <1>1, HeadOwned
  <2>2. c.data = data[i] /\ i \in dirty /\ c.block = blockno[i]
    BY <1>1, <1>3 DEF BioInv, CmdInv, DiskServes
  <2>3. i \in valid /\ blockno[i] \in Blocks
    BY <2>2 DEF BioInv, UseInv
  <2>4. Owner[p] = c.block /\ Owner[p] # NoBlock /\ Mem[Owner[p]] = c.data
    BY <2>1, <2>2, <2>3, OwnerIs, MemValues, BioConstants DEF Owns
  <2>5. disk' = [disk EXCEPT ![Owner[p]] = Mem[Owner[p]]]
    BY <1>1, <1>3, <2>4
  <2>6. ASSUME NEW b \in Blocks PROVE Mem'[b] = Mem[b]
    <3>1. CASE \E j \in valid : blockno[j] = b
      BY <1>1, <3>1, MemValues, MemValuesNext
    <3>2. CASE \A j \in valid : blockno[j] # b
      <4>1. b # Owner[p]
        BY <2>2, <2>3, <2>4, <3>2
      <4>2. disk'[b] = disk[b]
        BY <2>5, <4>1 DEF BioInv, TypeOK
      <4> QED BY <1>1, <3>2, <4>2, MemValues, MemValuesNext
    <3> QED BY <3>1, <3>2
  <2> QED BY <1>2, <2>4, <2>5, <2>6, MemKept DEF B!Sync
<1>4. CASE ~c.write
  BY <1>1, <1>2, <1>4, MemKept
<1> QED BY <1>3, <1>4

\* The interrupt gives a buffer what is on the disk, or marks clean what is there.
LEMMA IdeintrKeeps ==
    ASSUME ReadErrors = FALSE, BioInv, BioInv', Ideintr
    PROVE  UNCHANGED <<Mem, disk, Owner>>
<1> DEFINE i == Head(idequeue)  c == cmd[1]
<1>1. /\ cmd # <<>> /\ UNCHANGED <<blockno, disk, buf>>
      /\ valid' = valid \cup {i} /\ pc' = Wakeup(pc, i, "io", "woken")
      /\ data' = IF i \in dirty THEN data ELSE [data EXCEPT ![i] = disk[c.block]]
  BY DEF Ideintr, cacheVars
<1>2. PICK p \in Procs : holder[i] = p /\ pc[p] = "io" /\ buf[p] = i
  BY <1>1, HeadOwned
<1>3. TypeOK /\ UseInv /\ OneBufferPerBlock
  BY DEF BioInv
<1>4. i \in Bufs /\ blockno[i] \in Blocks /\ c.block = blockno[i]
  BY <1>1, <1>2, <1>3, HeadOwned DEF UseInv, BioInv, DiskServes
<1>5. Owner' = Owner
  <2>1. \A q \in Procs : pc'[q] \in {"rw", "io", "woken", "held"}
                            <=> pc[q] \in {"rw", "io", "woken", "held"}
    BY <1>1, <1>3 DEF TypeOK, Wakeup
  <2> QED BY <1>1, <2>1, OwnerKept
<1>6. CASE i \in dirty
  BY <1>1, <1>3, <1>5, <1>6, MemKept DEF UseInv
<1>7. CASE i \notin dirty
  <2>1. i \notin valid
    BY <1>2, <1>7 DEF BioInv, FlagInv
  <2>2. \A j \in valid : blockno[j] # blockno[i]
    BY <1>3, <1>4, <2>1, BioConstants DEF OneBufferPerBlock, TypeOK
  <2>3. ASSUME NEW b \in Blocks PROVE Mem'[b] = Mem[b]
    <3>1. CASE b = blockno[i]
      <4>1. data'[i] = disk[b]
        BY <1>1, <1>3, <1>4, <1>7, <3>1 DEF TypeOK
      <4> QED BY <1>1, <2>2, <3>1, <4>1, MemValues, MemValuesNext
    <3>2. CASE \E j \in valid : blockno[j] = b
      <4>1. PICK j \in valid : blockno[j] = b
        BY <3>2
      <4>2. data'[j] = data[j] /\ j \in valid'
        BY <1>1, <1>3, <2>1, <4>1 DEF TypeOK
      <4> QED BY <1>1, <4>1, <4>2, MemValues, MemValuesNext
    <3>3. CASE b # blockno[i] /\ \A j \in valid : blockno[j] # b
      BY <1>1, <3>3, MemValues, MemValuesNext
    <3> QED BY <3>1, <3>2, <3>3
  <2> QED BY <1>1, <1>5, <2>3, MemKept
<1> QED BY <1>6, <1>7

\* Every other step is of no account to a block's users.
LEMMA OtherKeeps ==
    ASSUME BioInv, NEW p \in Procs,
           Put(p) \/ Iderw(p) \/ IderwWoken(p) \/ \E b \in Blocks : BgetHit(p, b)
    PROVE  UNCHANGED <<Mem, disk, Owner>>
<1>1. UNCHANGED <<blockno, valid, data, disk>>
  BY DEF BgetHit, Put, Iderw, IderwWoken, bufVars, cacheVars, ideVars
<1>2. TypeOK
  BY DEF BioInv
<1>3. /\ \A q \in Procs : q # p => pc'[q] = pc[q] /\ buf'[q] = buf[q]
      /\ \/ pc[p] \in {"idle", "put"} /\ pc'[p] \in {"idle", "lock"}
         \/ pc[p] \in {"rw", "woken"} /\ pc'[p] \in {"io", "held"} /\ buf'[p] = buf[p]
  <2>1. CASE \E b \in Blocks : BgetHit(p, b)
    BY <1>2, <2>1 DEF BgetHit, Goto, TypeOK
  <2>2. CASE Put(p)
    BY <1>2, <2>2 DEF Put, Goto, TypeOK
  <2>3. CASE Iderw(p)
    BY <1>2, <2>3 DEF Iderw, Goto, TypeOK
  <2>4. CASE IderwWoken(p)
    BY <1>2, <2>4 DEF IderwWoken, Goto, TypeOK
  <2> QED BY <2>1, <2>2, <2>3, <2>4
<1>4. \A q \in Procs : /\ pc'[q] \in {"rw", "io", "woken", "held"}
                             <=> pc[q] \in {"rw", "io", "woken", "held"}
                       /\ pc[q] \in {"rw", "io", "woken", "held"} => buf'[q] = buf[q]
  BY <1>3
<1> QED BY <1>1, <1>4, MemKept, OwnerKept
-----------------------------------------------------------------------------
\* With a disk that reads what it is asked, the cache is a store of blocks: one
\* process at a time owns a block, reads what its last owner left, and the disk takes
\* only what an owner has left, whatever is recycled, queued or waited for.
THEOREM CacheIsABlockStore ==
    ASSUME ReadErrors = FALSE
    PROVE  Spec => IsBlockStore
<1>1. Init => B!Init
  <2> SUFFICES ASSUME Init PROVE B!Init
    OBVIOUS
  <2>1. Mem = disk
    <3>1. Mem = [b \in Blocks |-> disk[b]] /\ disk \in [Blocks -> Data]
      BY DEF Init, Mem
    <3> QED BY <3>1
  <2>2. Owner = [p \in Procs |-> NoBlock]
    BY DEF Init, Owner, Owns
  <2> QED BY <2>1, <2>2 DEF Init, B!Init
<1>2. BioInv /\ BioInv' /\ CleanIsOnDisk /\ [Next]_vars => [B!Next]_(B!vars)
  <2> SUFFICES ASSUME BioInv, BioInv', CleanIsOnDisk, [Next]_vars PROVE [B!Next]_(B!vars)
    OBVIOUS
  <2>1. ASSUME UNCHANGED <<Mem, disk, Owner>> PROVE [B!Next]_(B!vars)
    BY <2>1 DEF B!vars
  <2>2. ASSUME NEW p \in Procs, AcquireSleep(p) PROVE [B!Next]_(B!vars)
    <3>1. blockno[buf[p]] \in Blocks
      BY <2>2 DEF BioInv, UseInv, AcquireSleep
    <3> QED BY <2>1, <2>2, <3>1, AcquireGets DEF B!Next
  <2>3. ASSUME NEW p \in Procs, Bread(p) PROVE [B!Next]_(B!vars)
    BY <2>1, <2>2, <2>3, RecycleKeeps, OtherKeeps DEF Bread
  <2>4. ASSUME NEW p \in Procs, Use(p) PROVE [B!Next]_(B!vars)
    BY <2>4, ModifyChanges DEF Use, B!Next
  <2>5. ASSUME NEW p \in Procs, Brelse(p) PROVE [B!Next]_(B!vars)
    BY <2>1, <2>5, ReleaseGivesUp, OtherKeeps DEF Brelse, B!Next
  <2>6. ASSUME NEW p \in Procs, Wait(p) PROVE [B!Next]_(B!vars)
    BY <2>1, <2>6, OtherKeeps DEF Wait
  <2>7. CASE DiskDone
    BY <2>1, <2>7, DiskSyncs DEF B!Next
  <2>8. CASE Ideintr
    BY <2>1, <2>8, IdeintrKeeps
  <2>9. CASE UNCHANGED vars
    <3>1. UNCHANGED <<blockno, valid, data, disk, pc, buf>>
      BY <2>9 DEF vars, cacheVars, bufVars, ideVars
    <3> QED BY <2>1, <3>1, MemKept, OwnerKept
  <2> QED BY <2>3, <2>4, <2>5, <2>6, <2>7, <2>8, <2>9 DEF Next
<1> QED BY <1>1, <1>2, BioInvariant, CleanBuffersAreOnDisk, PTL DEF IsBlockStore, Spec, B!Spec

-----------------------------------------------------------------------------
\* Each process uses one buffer at most, and the log keeps its own.
LEMMA EnoughBuffers ==
    BioInv => BuffersSuffice
<1> SUFFICES ASSUME BioInv, Cardinality(InUse) + Cardinality(Pinned) < NBUF
             PROVE  \E k \in Bufs : lru[k] \in Unused
    BY DEF BuffersSuffice
<1> DEFINE Used == {i \in Bufs : \E q \in Procs : buf[q] = i}
<1>1. TypeOK /\ OneBufferPerBlock
  BY DEF BioInv
<1>2. IsFiniteSet(InUse)
  BY BioConstants, FS_Subset DEF InUse
<1>3. IsFiniteSet(Used) /\ Cardinality(Used) <= Cardinality(InUse)
  <2> DEFINE f == [q \in InUse |-> buf[q]]
  <2>1. f \in [InUse -> Used]
    BY <1>1 DEF TypeOK, InUse
  <2>2. ASSUME NEW i \in Used PROVE \E q \in InUse : f[q] = i
    BY NoBufFact DEF InUse
  <2>3. f \in Surjection(InUse, Used)
    BY <2>1, <2>2 DEF Surjection
  <2> HIDE DEF f
  <2> QED BY <1>2, <2>3, FS_Surjection
<1>4. IsFiniteSet(Pinned) /\ IsFiniteSet(Bufs) /\ Cardinality(Bufs) = NBUF
  <2>1. IsFiniteSet(Bufs) /\ Cardinality(Bufs) = NBUF
    BY FS_Interval, BioConstants DEF Bufs
  <2>2. Pinned \subseteq Bufs
    BY <1>1 DEF Pinned, TypeOK
  <2> QED BY <2>1, <2>2, FS_Subset
<1>5. /\ IsFiniteSet(Used \cup Pinned)
      /\ Cardinality(Used \cup Pinned) <= Cardinality(Used) + Cardinality(Pinned)
  <2> HIDE DEF Used
  <2>1. IsFiniteSet(Used \cap Pinned)
    BY <1>3, FS_Subset
  <2>2. Cardinality(Used \cap Pinned) \in Nat
    BY <2>1, FS_CardinalityType
  <2>3. Cardinality(Used) \in Nat /\ Cardinality(Pinned) \in Nat
    BY <1>3, <1>4, FS_CardinalityType
  <2>4. /\ IsFiniteSet(Used \cup Pinned)
        /\ Cardinality(Used \cup Pinned)
             = Cardinality(Used) + Cardinality(Pinned) - Cardinality(Used \cap Pinned)
    BY <1>3, <1>4, FS_Union
  <2> QED BY <2>2, <2>3, <2>4
<1>6. Cardinality(Used \cup Pinned) < NBUF
  <2> DEFINE u == Cardinality(Used)  n == Cardinality(Pinned)  o == Cardinality(InUse)
             t == Cardinality(Used \cup Pinned)
  <2>1. u \in Nat /\ n \in Nat /\ o \in Nat /\ t \in Nat
    BY <1>2, <1>3, <1>4, <1>5, FS_CardinalityType
  <2>2. t <= u + n /\ u <= o /\ o + n < NBUF
    BY <1>3, <1>5
  <2> HIDE DEF u, n, o, t
  <2>3. t < NBUF
    BY <2>1, <2>2, BioConstants
  <2> QED BY <2>3 DEF t
<1>7. PICK i \in Bufs : i \notin Used \cup Pinned
  <2>1. Used \cup Pinned # Bufs
    <3>1. Cardinality(Used \cup Pinned) # Cardinality(Bufs)
      <4>1. Cardinality(Used \cup Pinned) \in Nat
        BY <1>5, FS_CardinalityType
      <4> HIDE DEF Used
      <4> QED BY <1>4, <1>6, <4>1, BioConstants
    <3> QED BY <3>1
  <2>2. Used \cup Pinned \subseteq Bufs
    BY <1>1 DEF Pinned, TypeOK
  <2> QED BY <2>1, <2>2
<1>8. i \in Unused
  <2>1. Users(i) = {}
    BY <1>7 DEF Users
  <2>2. refcnt[i] = 0
    BY <1>1, <2>1, FS_EmptySet DEF OneBufferPerBlock
  <2>3. i \notin dirty
    BY <1>7, <2>1 DEF Pinned, Users
  <2> QED BY <2>2, <2>3 DEF Unused
<1> QED BY <1>8 DEF BioInv, ListInv

\* bget panics only when the users and the blocks that the log keeps fill the cache,
\* whatever the numbers of processes, blocks and buffers: no order of bget, brelse,
\* log_write and bwrite takes a buffer out of use.
THEOREM BgetPanicsOnlyWhenFull == Spec => []BuffersSuffice
  BY EnoughBuffers, BioInvariant, PTL
=============================================================================
