------------------------------- MODULE Inode -------------------------------
(***************************************************************************)
(* Inodes, directories and path names (fs.c) under the system calls that   *)
(* change the tree (sysfile.c).  A step is what a process does from one    *)
(* lock to the next; a lock taken and given back around a single access is *)
(* one step.  An inode stands for its entry of icache as well.             *)
(***************************************************************************)
EXTENDS Integers, Sequences, FiniteSets

CONSTANTS
    Procs,
    NINODES,     \* sb.ninodes - 1
    Plain,       \* the names other than . and ..
    Requests,    \* the system calls the processes make
    MaxLinks,    \* bounds the links of a file in the model
    Nobody

Inodes == 1 .. NINODES
Root == 1
None == 0
Names == Plain \cup {".", ".."}

ASSUME InodeConstants ==
    /\ Procs # {} /\ IsFiniteSet(Procs) /\ IsFiniteSet(Plain) /\ NINODES \in Nat \ {0} /\ MaxLinks \in Nat
    /\ Plain \cap {".", ".."} = {} /\ Nobody \notin Procs
    /\ Requests \subseteq [sys : {"open", "open_w", "creat", "mkdir", "link", "unlink", "chdir"},
                           abs : BOOLEAN, path : Seq(Names), new : Seq(Names)]
    /\ \A r \in Requests : /\ r.sys \in {"creat", "mkdir", "unlink"} => r.path # <<>>
                           /\ r.sys = "link" => r.new # <<>>

VARIABLES
    dinode, ents,                  \* the inodes on disk, the directories' entries
    ref, valid, minode, lock,      \* icache
    cwd, file,                     \* of each process; it may have one file open
    k,                             \* where each process is in its system call
    lost,                          \* names that went with a freed directory (history)
    panicked

disk == <<dinode, ents, lost>>
icache == <<ref, valid, minode, lock>>
user == <<cwd, file>>
vars == <<disk, icache, user, k, panicked>>

FreeInode == [type |-> "free", nlink |-> 0]
NoEnts == [n \in Names |-> None]

\* ip and dp are the inodes a process refers to, drop those it has yet to iput.
Idle == [pc |-> "idle", sys |-> "none", abs |-> TRUE, path |-> <<>>, new |-> <<>>,
         ip |-> None, dp |-> None, drop |-> <<>>, put |-> "check"]

Init ==
    /\ dinode = [i \in Inodes |-> IF i = Root THEN [type |-> "dir", nlink |-> 1] ELSE FreeInode]
    /\ ents = [i \in Inodes |-> IF i = Root THEN [n \in Names |-> IF n \in Plain THEN None ELSE Root]
                                ELSE NoEnts]
    /\ ref = [i \in Inodes |-> IF i = Root THEN Cardinality(Procs) ELSE 0]
    /\ valid = {} /\ minode = [i \in Inodes |-> FreeInode]
    /\ lock = [i \in Inodes |-> Nobody]
    /\ cwd = [p \in Procs |-> Root] /\ file = [p \in Procs |-> None]
    /\ k = [p \in Procs |-> Idle]
    /\ lost = [i \in Inodes |-> 0]
    /\ panicked = FALSE
-----------------------------------------------------------------------------
(* The inode cache.                                                        *)

At(p, l) == k[p].pc = l /\ k[p].drop = <<>> /\ ~panicked

\* ilock: it waits for the lock, loads the inode, and panics if that is free.
Loaded(i) == IF i \in valid THEN minode[i] ELSE dinode[i]
CanLock(i) == lock[i] = Nobody /\ (i \in valid \/ dinode[i].type # "free")
Load(i) == valid' = valid \cup {i} /\ minode' = [minode EXCEPT ![i] = Loaded(i)]

Lock(p, i) == lock' = [lock EXCEPT ![i] = p]
Unlock(i) == lock' = [lock EXCEPT ![i] = Nobody]

\* iget, of an inode that it may have to bring into the cache, after ilock of j.
Iget(i, j) ==
    /\ ref' = [ref EXCEPT ![i] = @ + 1]
    /\ valid' = (valid \cup {j}) \ (IF ref[i] = 0 THEN {i} ELSE {})
    /\ minode' = [minode EXCEPT ![j] = Loaded(j)]

Iupdate(i, inode) ==
    /\ valid' = valid \cup {i}
    /\ minode' = [minode EXCEPT ![i] = inode]
    /\ dinode' = [dinode EXCEPT ![i] = inode]

Links(i, n) == [Loaded(i) EXCEPT !.nlink = @ + n]

\* The system call ends, but for the inodes it has yet to iput.
Return(p, puts) == k' = [k EXCEPT ![p] = [Idle EXCEPT !.drop = puts]]
-----------------------------------------------------------------------------
(* iput, in a transaction.                                                 *)

At_iput(p, s) == k[p].drop # <<>> /\ k[p].put = s /\ ~panicked

NoLinks(i) == i \in valid /\ minode[i].nlink = 0

\* The reference count is read under icache.lock, with the inode locked.
LastReference(i) == i \in valid /\ minode[i].nlink = 0 /\ ref[i] = 1

IputCheck(p) ==
    LET i == Head(k[p].drop)
    IN  /\ At_iput(p, "check") /\ lock[i] = Nobody
        /\ IF LastReference(i)
           THEN Lock(p, i) /\ k' = [k EXCEPT ![p].put = "free"]
           ELSE k' = [k EXCEPT ![p].put = "unref"] /\ UNCHANGED lock
        /\ UNCHANGED <<disk, ref, valid, minode, user, panicked>>

\* itrunc, and the inode marked free on the disk.
IputFree(p) ==
    LET i == Head(k[p].drop)
    IN  /\ At_iput(p, "free")
        /\ Iupdate(i, FreeInode)
        /\ ents' = [ents EXCEPT ![i] = NoEnts]
        /\ lost' = [j \in Inodes |-> lost[j] + Cardinality({n \in Plain : ents[i][n] = j})]
        /\ k' = [k EXCEPT ![p].put = "clear"]
        /\ UNCHANGED <<ref, lock, user, panicked>>

StillValid(i) == valid

Invalidated(i) == valid \ {i}

IputClear(p) ==
    LET i == Head(k[p].drop)
    IN  /\ At_iput(p, "clear")
        /\ valid' = Invalidated(i) /\ Unlock(i)
        /\ k' = [k EXCEPT ![p].put = "unref"]
        /\ UNCHANGED <<disk, ref, minode, user, panicked>>

IputUnref(p) ==
    /\ At_iput(p, "unref")
    /\ ref' = [ref EXCEPT ![Head(k[p].drop)] = @ - 1]
    /\ k' = [k EXCEPT ![p].drop = Tail(@), ![p].put = "check"]
    /\ UNCHANGED <<disk, valid, minode, lock, user, panicked>>

Iput(p) == IputCheck(p) \/ IputFree(p) \/ IputClear(p) \/ IputUnref(p)
-----------------------------------------------------------------------------
(* namex: from the root or the current directory, an inode at a time.      *)

ByParent == {"creat", "mkdir", "unlink"}

Start(p, abs) == IF abs THEN Root ELSE cwd[p]

\* Where namei and nameiparent return to.
Found(sys, path) == IF path = <<>> THEN sys ELSE "namei"
FoundParent(sys) == IF sys = "mkdir" THEN "creat" ELSE IF sys = "link" THEN "linkdir" ELSE sys

Begin(p, r) ==
    /\ At(p, "idle")
    /\ LET i == Start(p, r.abs)
       IN  /\ ref' = [ref EXCEPT ![i] = @ + 1]
           /\ valid' = IF ref[i] = 0 THEN valid \ {i} ELSE valid
           /\ k' = [k EXCEPT ![p] = [Idle EXCEPT
                       !.pc = IF r.sys \in ByParent THEN "nameiparent" ELSE Found(r.sys, r.path),
                       !.sys = r.sys, !.abs = r.abs, !.path = r.path, !.new = r.new, !.ip = i]]
    /\ UNCHANGED <<disk, minode, lock, user, panicked>>

Forgotten(i) == <<>>

Dropped(i) == <<i>>

\* The path fails at inode i; sys_link still has to take its link back.
NoPath(p, i) ==
    IF k[p].dp = None THEN Return(p, Dropped(i))
    ELSE k' = [k EXCEPT ![p].pc = "bad", ![p].ip = k[p].dp, ![p].dp = None, ![p].drop = Dropped(i)]

Visit(p) ==
    LET i == k[p].ip
        next == ents[i][Head(k[p].path)]
        rest == Tail(k[p].path)
    IN  /\ At(p, "namei") \/ At(p, "nameiparent")
        /\ CanLock(i)
        /\ \/ /\ Loaded(i).type # "dir"
              /\ NoPath(p, i) /\ Load(i) /\ UNCHANGED ref
           \/ /\ Loaded(i).type = "dir" /\ k[p].pc = "nameiparent" /\ rest = <<>>
              /\ k' = [k EXCEPT ![p].pc = FoundParent(k[p].sys)]
              /\ Load(i) /\ UNCHANGED ref
           \/ /\ Loaded(i).type = "dir" /\ (k[p].pc = "namei" \/ rest # <<>>)
              /\ IF next = None THEN NoPath(p, i) /\ Load(i) /\ UNCHANGED ref
                 ELSE /\ Iget(next, i)
                      /\ k' = [k EXCEPT
                               ![p].pc = IF @ = "namei" THEN Found(k[p].sys, rest) ELSE @,
                               ![p].path = rest, ![p].ip = next, ![p].drop = <<i>>]
        /\ UNCHANGED <<disk, lock, user, panicked>>
-----------------------------------------------------------------------------
(* sys_link.                                                               *)

NoLinkYet(i) == Loaded(i)

LinkAdded(i) == Links(i, 1)

LinkCount(p) ==
    LET i == k[p].ip  s == Start(p, k[p].abs)
    IN  /\ At(p, "link") /\ CanLock(i)
        /\ IF Loaded(i).type = "dir"
           THEN Return(p, <<i>>) /\ Load(i) /\ UNCHANGED <<ref, dinode>>
           ELSE /\ Loaded(i).nlink < MaxLinks
                /\ minode' = [minode EXCEPT ![i] = LinkAdded(i)]
                /\ dinode' = [dinode EXCEPT ![i] = LinkAdded(i)]
                /\ ref' = [ref EXCEPT ![s] = @ + 1]
                /\ valid' = (valid \cup {i}) \ (IF ref[s] = 0 THEN {s} ELSE {})
                /\ k' = [k EXCEPT ![p].pc = "nameiparent", ![p].path = k[p].new,
                                  ![p].ip = s, ![p].dp = i]
        /\ UNCHANGED <<ents, lost, lock, user, panicked>>

\* dirlink: with the directory locked.
LinkEntry(p) ==
    LET d == k[p].ip  n == Head(k[p].path)
    IN  /\ At(p, "linkdir") /\ CanLock(d)
        /\ IF ents[d][n] = None
           THEN /\ ents' = [ents EXCEPT ![d][n] = k[p].dp]
                /\ Return(p, <<d, k[p].dp>>)
                /\ Load(d) /\ UNCHANGED <<ref, lock>>
           ELSE /\ Iget(ents[d][n], d) /\ Lock(p, d)
                /\ k' = [k EXCEPT ![p].pc = "linkbad", ![p].drop = <<ents[d][n]>>]
                /\ UNCHANGED ents
        /\ UNCHANGED <<dinode, lost, user, panicked>>

\* The name is taken: the directory is unlocked after dirlink's iput.
LinkBad(p) ==
    /\ At(p, "linkbad")
    /\ Unlock(k[p].ip) /\ NoPath(p, k[p].ip)
    /\ UNCHANGED <<disk, ref, valid, minode, user, panicked>>

LinkUndo(p) ==
    LET i == k[p].ip
    IN  /\ At(p, "bad") /\ CanLock(i)
        /\ Iupdate(i, Links(i, -1)) /\ Return(p, <<i>>)
        /\ UNCHANGED <<ents, lost, ref, lock, user, panicked>>
-----------------------------------------------------------------------------
(* sys_unlink.                                                             *)

UnlinkFind(p) ==
    LET d == k[p].ip  n == Head(k[p].path)
    IN  /\ At(p, "unlink") /\ CanLock(d)
        /\ IF n \notin Plain \/ ents[d][n] = None
           THEN Return(p, <<d>>) /\ Load(d) /\ UNCHANGED <<ref, lock>>
           ELSE /\ Iget(ents[d][n], d) /\ Lock(p, d)
                /\ k' = [k EXCEPT ![p].pc = "unlink_ip", ![p].ip = ents[d][n], ![p].dp = d]
        /\ UNCHANGED <<disk, user, panicked>>

DirEmpty(d) == \A n \in Plain : ents[d][n] = None

UnlinkEntry(p) ==
    LET i == k[p].ip  d == k[p].dp  isDir == Loaded(i).type = "dir"
    IN  /\ At(p, "unlink_ip") /\ CanLock(i)
        /\ Loaded(i).nlink > 0
        /\ IF isDir /\ ~DirEmpty(i)
           THEN /\ k' = [k EXCEPT ![p].pc = "unlink_bad", ![p].ip = None, ![p].drop = <<i>>]
                /\ Load(i) /\ UNCHANGED <<dinode, ents, lock>>
           ELSE /\ ents' = [ents EXCEPT ![d][Head(k[p].path)] = None]
                /\ LET D == IF isDir THEN Links(d, -1) ELSE Loaded(d)
                   IN  /\ dinode' = [dinode EXCEPT ![d] = D]
                       /\ minode' = [minode EXCEPT ![d] = D, ![i] = Loaded(i)]
                       /\ valid' = valid \cup {d, i}
                /\ lock' = [lock EXCEPT ![d] = Nobody, ![i] = p]
                /\ k' = [k EXCEPT ![p].pc = "unlink_count", ![p].dp = None, ![p].drop = <<d>>]
        /\ UNCHANGED <<lost, ref, user, panicked>>

UnlinkCount(p) ==
    LET i == k[p].ip
    IN  /\ At(p, "unlink_count")
        /\ Iupdate(i, Links(i, -1)) /\ Unlock(i) /\ Return(p, <<i>>)
        /\ UNCHANGED <<ents, lost, ref, user, panicked>>

UnlinkBad(p) ==
    /\ At(p, "unlink_bad")
    /\ Unlock(k[p].dp) /\ Return(p, <<k[p].dp>>)
    /\ UNCHANGED <<disk, ref, valid, minode, user, panicked>>
-----------------------------------------------------------------------------
(* create, for sys_open and sys_mkdir.                                     *)

CreateFind(p) ==
    LET d == k[p].ip  i == ents[d][Head(k[p].path)]
    IN  /\ At(p, "creat") /\ CanLock(d)
        /\ IF i # None
           THEN /\ k' = [k EXCEPT ![p].pc = "creat_found", ![p].ip = i, ![p].drop = <<d>>]
                /\ Iget(i, d) /\ UNCHANGED lock
           ELSE /\ k' = [k EXCEPT ![p].pc = "ialloc", ![p].ip = 1, ![p].dp = d]
                /\ Load(d) /\ Lock(p, d) /\ UNCHANGED ref
        /\ UNCHANGED <<disk, user, panicked>>

CreateFound(p) ==
    LET i == k[p].ip
    IN  /\ At(p, "creat_found") /\ CanLock(i)
        /\ IF k[p].sys = "creat" /\ Loaded(i).type = "file"
           THEN Lock(p, i) /\ k' = [k EXCEPT ![p].pc = "open_fd"]
           ELSE Return(p, <<i>>) /\ UNCHANGED lock
        /\ Load(i)
        /\ UNCHANGED <<disk, ref, user, panicked>>

\* One turn of ialloc's loop: ip is the inode it looks at, which it has no reference
\* to.  The block is released before the next turn; what is freed behind it is missed.
Ialloc(p) ==
    LET i == k[p].ip
        type == IF k[p].sys = "mkdir" THEN "dir" ELSE "file"
    IN  /\ At(p, "ialloc")
        /\ \/ /\ dinode[i].type = "free"
              /\ dinode' = [dinode EXCEPT ![i] = [type |-> type, nlink |-> 0]]
              /\ k' = [k EXCEPT ![p].pc = "ialloc_iget"]
           \/ /\ dinode[i].type # "free" /\ i < NINODES
              /\ k' = [k EXCEPT ![p].ip = @ + 1]
              /\ UNCHANGED dinode
        /\ UNCHANGED <<ents, lost, icache, user, panicked>>

IallocIget(p) ==
    LET i == k[p].ip
    IN  /\ At(p, "ialloc_iget")
        /\ Iget(i, k[p].dp)
        /\ k' = [k EXCEPT ![p].pc = "creat_ip"]
        /\ UNCHANGED <<disk, lock, user, panicked>>

CreateEntry(p) ==
    LET i == k[p].ip  d == k[p].dp
        I == [Loaded(i) EXCEPT !.nlink = 1]
        D == IF k[p].sys = "mkdir" THEN Links(d, 1) ELSE Loaded(d)
        dots == [ents[i] EXCEPT !["."] = i, ![".."] = d]
    IN  /\ At(p, "creat_ip") /\ CanLock(i)
        /\ dinode' = [dinode EXCEPT ![i] = I, ![d] = D]
        /\ minode' = [minode EXCEPT ![i] = I, ![d] = D]
        /\ valid' = valid \cup {i, d}
        /\ ents' = [ents EXCEPT ![i] = IF k[p].sys = "mkdir" THEN dots ELSE @,
                                ![d][Head(k[p].path)] = i]
        /\ lock' = [lock EXCEPT ![i] = p, ![d] = Nobody]
        /\ k' = [k EXCEPT ![p].pc = IF k[p].sys = "mkdir" THEN "mkdir_end" ELSE "open_fd",
                          ![p].dp = None, ![p].drop = <<d>>]
        /\ UNCHANGED <<lost, ref, user, panicked>>

MkdirEnd(p) ==
    /\ At(p, "mkdir_end")
    /\ Unlock(k[p].ip) /\ Return(p, <<k[p].ip>>)
    /\ UNCHANGED <<disk, ref, valid, minode, user, panicked>>
-----------------------------------------------------------------------------
(* sys_open, sys_close, sys_chdir.                                         *)

OpenLock(p) ==
    LET i == k[p].ip
    IN  /\ At(p, "open") \/ At(p, "open_w")
        /\ CanLock(i) /\ Load(i)
        /\ IF Loaded(i).type = "dir" /\ k[p].sys = "open_w"
           THEN Return(p, <<i>>) /\ UNCHANGED lock
           ELSE Lock(p, i) /\ k' = [k EXCEPT ![p].pc = "open_fd"]
        /\ UNCHANGED <<disk, ref, user, panicked>>

\* filealloc and fdalloc, which fail for a process with its one file open.
OpenFd(p) ==
    LET i == k[p].ip
    IN  /\ At(p, "open_fd") /\ Unlock(i)
        /\ IF file[p] = None
           THEN file' = [file EXCEPT ![p] = i] /\ Return(p, <<>>)
           ELSE Return(p, <<i>>) /\ UNCHANGED file
        /\ UNCHANGED <<disk, ref, valid, minode, cwd, panicked>>

Close(p) ==
    /\ At(p, "idle") /\ file[p] # None
    /\ file' = [file EXCEPT ![p] = None] /\ Return(p, <<file[p]>>)
    /\ UNCHANGED <<disk, icache, cwd, panicked>>

Chdir(p) ==
    LET i == k[p].ip
    IN  /\ At(p, "chdir") /\ CanLock(i) /\ Load(i)
        /\ IF Loaded(i).type = "dir"
           THEN cwd' = [cwd EXCEPT ![p] = i] /\ Return(p, <<cwd[p]>>)
           ELSE Return(p, <<i>>) /\ UNCHANGED cwd
        /\ UNCHANGED <<disk, ref, lock, file, panicked>>
-----------------------------------------------------------------------------
LocksIp == {"namei", "nameiparent", "link", "linkdir", "bad", "unlink", "unlink_ip",
            "creat", "creat_found", "creat_ip", "open", "open_w", "chdir"}

\* ilock: no type; unlink: nlink < 1.
NoType(p) ==
    LET i == k[p].ip
    IN  /\ k[p].pc \in LocksIp /\ At(p, k[p].pc)
        /\ lock[i] = Nobody /\ i \notin valid /\ dinode[i].type = "free"

NoLink(p) == At(p, "unlink_ip") /\ CanLock(k[p].ip) /\ Loaded(k[p].ip).nlink < 1

\* ialloc: no inodes, at the end of the scan.
NoInodes(p) == At(p, "ialloc") /\ k[p].ip = NINODES /\ dinode[NINODES].type # "free"

Panic(p) ==
    /\ NoType(p) \/ NoLink(p) \/ NoInodes(p)
    /\ panicked' = TRUE
    /\ UNCHANGED <<disk, icache, user, k>>

Halted == panicked /\ UNCHANGED vars

Link(p)   == LinkCount(p) \/ LinkEntry(p) \/ LinkBad(p) \/ LinkUndo(p)
Unlink(p) == UnlinkFind(p) \/ UnlinkEntry(p) \/ UnlinkCount(p) \/ UnlinkBad(p)
Create(p) == CreateFind(p) \/ CreateFound(p) \/ Ialloc(p) \/ IallocIget(p) \/ CreateEntry(p)
             \/ MkdirEnd(p)
Files(p)  == OpenLock(p) \/ OpenFd(p) \/ Close(p) \/ Chdir(p)

Next ==
    \/ \E p \in Procs : \/ \E r \in Requests : Begin(p, r)
                        \/ Iput(p) \/ Visit(p) \/ Link(p) \/ Unlink(p) \/ Create(p) \/ Files(p)
                        \/ Panic(p)
    \/ Halted

Spec == Init /\ [][Next]_vars
-----------------------------------------------------------------------------
(* Properties.                                                             *)

InodeRecs == [type : {"free", "dir", "file"}, nlink : Nat]

PCs == LocksIp \cup {"idle", "linkbad", "unlink_count", "unlink_bad", "ialloc", "ialloc_iget",
                     "open_fd", "mkdir_end"}

\* Every variable has its type.
TypeOK ==
    /\ dinode \in [Inodes -> InodeRecs] /\ minode \in [Inodes -> InodeRecs]
    /\ ents \in [Inodes -> [Names -> Inodes \cup {None}]]
    /\ ref \in [Inodes -> Nat] /\ lost \in [Inodes -> Nat]
    /\ valid \subseteq Inodes
    /\ lock \in [Inodes -> Procs \cup {Nobody}]
    /\ cwd \in [Procs -> Inodes] /\ file \in [Procs -> Inodes \cup {None}]
    /\ \A p \in Procs :
          /\ k[p].pc \in PCs /\ k[p].put \in {"check", "free", "clear", "unref"}
          /\ k[p].path \in Seq(Names) /\ k[p].new \in Seq(Names) /\ k[p].drop \in Seq(Inodes)
          /\ k[p].ip \in Inodes \cup {None} /\ k[p].dp \in Inodes \cup {None}
    /\ panicked \in BOOLEAN

Creating(i) == \E p \in Procs : k[p].pc \in {"ialloc_iget", "creat_ip"} /\ k[p].ip = i

Kind == [i \in Inodes |-> IF Creating(i) THEN "free" ELSE dinode[i].type]
Tree == [i \in Inodes |-> [n \in Plain |-> ents[i][n]]]
Uses == [p \in Procs |-> {cwd[p], file[p]} \ {None}]

T == INSTANCE FileTree WITH kind <- Kind, tree <- Tree, uses <- Uses

\* Whatever the system calls in between, an inode that a directory names or that
\* a process has open or works in is neither freed nor given to another file,
\* and each name comes and goes in one step.
IsFileTree == T!Spec

\* Where process p can have a reference: of its own, or in its system call.
Slots == {"cwd", "file", "ip", "dp", "drop", "drop2"}

Use(p, s) ==
    CASE s = "cwd"   -> cwd[p]
      [] s = "file"  -> file[p]
      [] s = "ip"    -> IF k[p].pc \in {"ialloc", "ialloc_iget"} THEN None ELSE k[p].ip
      [] s = "dp"    -> k[p].dp
      [] s = "drop"  -> IF Len(k[p].drop) > 0 THEN k[p].drop[1] ELSE None
      [] OTHER       -> IF Len(k[p].drop) > 1 THEN k[p].drop[2] ELSE None

RefsTo(i) == Cardinality({u \in Procs \X Slots : Use(u[1], u[2]) = i})

\* An inode's references are counted on every path of every call, the failing
\* ones included: its ref is the number of its uses.
RefCounts == \A i \in Inodes : ref[i] = RefsTo(i)

\* The names of i, the .. of the directories in it, and the root's own.
NamesOf(i) ==
    Cardinality({x \in Inodes \X Plain : ents[x[1]][x[2]] = i})
    + Cardinality({n \in Plain : ents[i][n] # None /\ dinode[ents[i][n]].type = "dir"})
    + (IF i = Root THEN 1 ELSE 0)

\* The calls that count a link of i which is not there yet, or no more.
Pending(i) == Cardinality({p \in Procs : \/ k[p].sys = "link" /\ k[p].dp = i
                                         \/ k[p].pc \in {"bad", "unlink_count"} /\ k[p].ip = i})

\* The links of an inode are its names, those that went with a removed directory
\* included: create enters a file in a directory that has been unlinked since
\* nameiparent found it (sysfile.c:248), and the file's nlink keeps that name for ever.
\* With no call under way and no name lost, nlink counts the directory entries.
LinksCounted ==
    \A i \in Inodes : dinode[i].type # "free" =>
        dinode[i].nlink = NamesOf(i) + Pending(i) + lost[i]

\* An inode that nobody has locked is in the cache as it is on the disk.
CacheAgrees ==
    \A i \in valid : lock[i] = Nobody /\ ref[i] > 0 => minode[i] = dinode[i]

\* The process waits for a lock that one of S holds.
WaitsFor(p, S) ==
    LET i == IF k[p].drop # <<>> THEN Head(k[p].drop) ELSE k[p].ip
    IN  /\ IF k[p].drop # <<>> THEN k[p].put = "check" ELSE k[p].pc \in LocksIp
        /\ lock[i] \in S

\* No processes wait in a circle for each other's locks.
NoDeadlock ==
    \A S \in SUBSET Procs \ {{}} : \E p \in S : ~WaitsFor(p, S)

\* Where all directories are in the root, no race has ilock find a freed inode, or
\* sys_unlink one without links.  The panic of ialloc is the third one, and not
\* excluded: its scan may even end with an inode free, freed behind it.
NoPanic == \A p \in Procs : ~NoType(p) /\ ~NoLink(p)

\* ialloc panics only without a free inode: not so, and TLC shows it.
NoInodesLeft == panicked => \A i \in Inodes : dinode[i].type # "free"

\* An inode whose links and references are all gone is free: iput frees it.
UnusedIsFree ==
    \A i \in Inodes : ref[i] = 0 /\ dinode[i].nlink = 0 /\ ~Creating(i) => dinode[i].type = "free"
=============================================================================
