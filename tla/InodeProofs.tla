---------------------------- MODULE InodeProofs ----------------------------
(***************************************************************************)
(* Proofs about Inode, for every number of processes and inodes and every  *)
(* set of system calls, in four invariants, each on top of the last:       *)
(*   RefInv   what a process has at each point of its call, and that ref   *)
(*            counts it;                                                   *)
(*   Fine     who has which inode locked, and that the cache agrees with   *)
(*            the disk where nobody has;                                   *)
(*   Whole    the tree of names and links, where no walk goes from a       *)
(*            removed directory to a parent that is gone; with it go the   *)
(*            steps of FileTree;                                           *)
(*   GoesDown that no path meets a .., which frees Whole of its condition. *)
(***************************************************************************)
EXTENDS Inode, FiniteSetTheorems, TLAPS

Places == Inodes \cup {None}
Recs   == [type : {"free", "dir", "file"}, nlink : Int]

Callers == [pc : PCs,
            sys : {"none", "open", "open_w", "creat", "mkdir", "link", "unlink", "chdir"},
            abs : BOOLEAN, path : Seq(Names), new : Seq(Names),
            ip : Places, dp : Places, drop : Seq(Inodes),
            put : {"check", "free", "clear", "unref"}]

Types ==
    /\ dinode \in [Inodes -> Recs] /\ minode \in [Inodes -> Recs]
    /\ ents \in [Inodes -> [Names -> Places]]
    /\ ref \in [Inodes -> Int] /\ lost \in [Inodes -> Nat]
    /\ valid \in SUBSET Inodes
    /\ lock \in [Inodes -> Procs \cup {Nobody}]
    /\ cwd \in [Procs -> Inodes] /\ file \in [Procs -> Places]
    /\ panicked \in BOOLEAN

-----------------------------------------------------------------------------
(* What a process has at each point of its call.                           *)

\* The calls that get there.
SysAt ==
    [idle |-> {"none"}, namei |-> {"open", "open_w", "chdir", "link"},
     nameiparent |-> ByParent \cup {"link"},
     link |-> {"link"}, linkdir |-> {"link"}, linkbad |-> {"link"}, bad |-> {"link"},
     unlink |-> {"unlink"}, unlink_ip |-> {"unlink"}, unlink_count |-> {"unlink"},
     unlink_bad |-> {"unlink"},
     creat |-> {"creat", "mkdir"}, creat_found |-> {"creat", "mkdir"},
     ialloc |-> {"creat", "mkdir"}, ialloc_iget |-> {"creat", "mkdir"},
     creat_ip |-> {"creat", "mkdir"}, mkdir_end |-> {"mkdir"},
     open |-> {"open"}, open_w |-> {"open_w"}, open_fd |-> {"creat", "open", "open_w"},
     chdir |-> {"chdir"}]

NoIp   == {"idle", "unlink_bad"}
LinkTo == {"linkdir", "linkbad"}
HoldDp == {"unlink_ip", "unlink_bad", "ialloc", "ialloc_iget", "creat_ip"}
HoldIp == {"linkbad", "unlink_count", "open_fd", "mkdir_end"}
ByName == {"namei", "nameiparent", "linkdir", "unlink", "unlink_ip",
           "creat", "ialloc", "ialloc_iget", "creat_ip"}

HasDp(c) == c.pc \in LinkTo \cup HoldDp \/ (c.pc = "nameiparent" /\ c.sys = "link")

Role(c) ==
    /\ c.sys \in SysAt[c.pc]
    /\ c.ip = None <=> c.pc \in NoIp
    /\ c.dp # None <=> HasDp(c)
    /\ c.pc \in ByName => c.path # <<>>
    /\ c.pc \in {"namei", "link"} /\ c.sys = "link" => c.new # <<>>
    /\ Len(c.drop) <= 2
    /\ c.put # "check" => c.drop # <<>>

Roles == k \in [Procs -> Callers] /\ \A p \in Procs : Role(k[p])

LEMMA Become ==
    ASSUME Roles, NEW p \in Procs, NEW c, c \in Callers /\ Role(c), k' = [k EXCEPT ![p] = c]
    PROVE  Roles'
BY DEF Roles

LEMMA RootIs == Root \in Inodes /\ None \notin Inodes /\ Idle \in Callers
  BY InodeConstants DEF Root, Inodes, None, Idle, Callers, Places, PCs

\* A call is over.
LEMMA Returns ==
    ASSUME Roles, NEW p \in Procs, NEW s \in Seq(Inodes), Len(s) <= 2, Return(p, s)
    PROVE  Roles' /\ k'[p] = [Idle EXCEPT !.drop = s]
<1> DEFINE c == [Idle EXCEPT !.drop = s]
<1>1. c \in Callers
  BY RootIs DEF Callers, Idle
<1>2. Role(c)
  BY DEF Role, Idle, SysAt, NoIp, HasDp, LinkTo, HoldDp, ByName
<1>3. k' = [k EXCEPT ![p] = c]
  BY DEF Return
<1> QED BY <1>1, <1>2, <1>3, Become DEF Roles
-----------------------------------------------------------------------------
(* Counting references: one process's step changes only its own uses.      *)

B(x) == IF x THEN 1 ELSE 0

InDrop(s, i) == B(Len(s) > 0 /\ s[1] = i) + B(Len(s) > 1 /\ s[2] = i)

InCall(c, i) == B(c.pc \notin {"ialloc", "ialloc_iget"} /\ c.ip = i) + B(c.dp = i) + InDrop(c.drop, i)

Own(p, i) == B(cwd[p] = i) + B(file[p] = i) + InCall(k[p], i)

\* The uses of i by others than p.
Others(p, i) == {u \in Procs \X Slots : u[1] # p /\ Use(u[1], u[2]) = i}

Plus(S, x, c) == IF c THEN S \cup {x} ELSE S

LEMMA AddOne ==
    ASSUME NEW S, IsFiniteSet(S), NEW x, x \notin S, NEW c \in BOOLEAN
    PROVE  IsFiniteSet(Plus(S, x, c)) /\ Cardinality(Plus(S, x, c)) = Cardinality(S) + B(c)
<1>1. Cardinality(S) \in Nat
  BY FS_CardinalityType
<1>2. CASE c
  BY <1>2, FS_AddElement DEF Plus, B
<1>3. CASE ~c
  BY <1>1, <1>3 DEF Plus, B
<1> QED BY <1>2, <1>3

LEMMA UsesAre ==
    ASSUME Roles, NEW p \in Procs, NEW i \in Inodes
    PROVE  /\ Use(p, "cwd") = cwd[p] /\ Use(p, "file") = file[p]
           /\ Use(p, "ip") = i <=> k[p].pc \notin {"ialloc", "ialloc_iget"} /\ k[p].ip = i
           /\ Use(p, "dp") = k[p].dp
           /\ Use(p, "drop") = i <=> Len(k[p].drop) > 0 /\ k[p].drop[1] = i
           /\ Use(p, "drop2") = i <=> Len(k[p].drop) > 1 /\ k[p].drop[2] = i
BY RootIs DEF Use

LEMMA CountOwn ==
    ASSUME Roles, NEW p \in Procs, NEW i \in Inodes
    PROVE  /\ RefsTo(i) = Cardinality(Others(p, i)) + Own(p, i)
           /\ Cardinality(Others(p, i)) \in Nat
<1> DEFINE S0 == Others(p, i)
           S1 == Plus(S0, <<p, "cwd">>, Use(p, "cwd") = i)
           S2 == Plus(S1, <<p, "file">>, Use(p, "file") = i)
           S3 == Plus(S2, <<p, "ip">>, Use(p, "ip") = i)
           S4 == Plus(S3, <<p, "dp">>, Use(p, "dp") = i)
           S5 == Plus(S4, <<p, "drop">>, Use(p, "drop") = i)
           S6 == Plus(S5, <<p, "drop2">>, Use(p, "drop2") = i)
<1>1. IsFiniteSet(S0) /\ Cardinality(S0) \in Nat
  <2>1. IsFiniteSet(Slots)
    <3>1. Slots = {} \cup {"cwd"} \cup {"file"} \cup {"ip"} \cup {"dp"} \cup {"drop"} \cup {"drop2"}
      BY DEF Slots
    <3>2. \A S, x : IsFiniteSet(S) => IsFiniteSet(S \cup {x})
      BY FS_AddElement
    <3> QED BY <3>1, <3>2, FS_EmptySet
  <2>2. IsFiniteSet(Procs \X Slots)
    BY <2>1, FS_Product, InodeConstants
  <2>3. S0 \subseteq Procs \X Slots
    BY DEF Others
  <2> QED BY <2>2, <2>3, FS_Subset, FS_CardinalityType
<1>2. {u \in Procs \X Slots : Use(u[1], u[2]) = i} = S6
  <2>1. ASSUME NEW u \in Procs \X Slots
        PROVE  Use(u[1], u[2]) = i <=> u \in S6
    BY DEF Others, Plus, Slots
  <2>2. S6 \subseteq Procs \X Slots
    BY DEF Others, Plus, Slots
  <2> QED BY <2>1, <2>2
<1>3. Cardinality(S6) = Cardinality(S0)
          + B(Use(p, "cwd") = i) + B(Use(p, "file") = i) + B(Use(p, "ip") = i)
          + B(Use(p, "dp") = i) + B(Use(p, "drop") = i) + B(Use(p, "drop2") = i)
  <2>1. <<p, "cwd">> \notin S0
    BY DEF Others
  <2>2. <<p, "file">> \notin S1
    BY DEF Others, Plus
  <2>3. <<p, "ip">> \notin S2
    BY DEF Others, Plus
  <2>4. <<p, "dp">> \notin S3
    BY DEF Others, Plus
  <2>5. <<p, "drop">> \notin S4
    BY DEF Others, Plus
  <2>6. <<p, "drop2">> \notin S5
    BY DEF Others, Plus
  <2> HIDE DEF S0, S1, S2, S3, S4, S5, S6
  <2>7. IsFiniteSet(S1) /\ Cardinality(S1) = Cardinality(S0) + B(Use(p, "cwd") = i)
    BY <1>1, <2>1, AddOne DEF S1
  <2>8. IsFiniteSet(S2) /\ Cardinality(S2) = Cardinality(S1) + B(Use(p, "file") = i)
    BY <2>2, <2>7, AddOne DEF S2
  <2>9. IsFiniteSet(S3) /\ Cardinality(S3) = Cardinality(S2) + B(Use(p, "ip") = i)
    BY <2>3, <2>8, AddOne DEF S3
  <2>10. IsFiniteSet(S4) /\ Cardinality(S4) = Cardinality(S3) + B(Use(p, "dp") = i)
    BY <2>4, <2>9, AddOne DEF S4
  <2>11. IsFiniteSet(S5) /\ Cardinality(S5) = Cardinality(S4) + B(Use(p, "drop") = i)
    BY <2>5, <2>10, AddOne DEF S5
  <2>12. IsFiniteSet(S6) /\ Cardinality(S6) = Cardinality(S5) + B(Use(p, "drop2") = i)
    BY <2>6, <2>11, AddOne DEF S6
  <2> QED BY <2>7, <2>8, <2>9, <2>10, <2>11, <2>12
<1> HIDE DEF S0, S1, S2, S3, S4, S5, S6
<1>4. Own(p, i) = B(Use(p, "cwd") = i) + B(Use(p, "file") = i) + B(Use(p, "ip") = i)
          + B(Use(p, "dp") = i) + B(Use(p, "drop") = i) + B(Use(p, "drop2") = i)
  BY UsesAre DEF Own, InCall, InDrop, B
<1>5. Own(p, i) \in Int /\ \A x \in BOOLEAN : B(x) \in Int
  BY DEF Own, InCall, InDrop, B
<1> QED BY <1>1, <1>2, <1>3, <1>4, <1>5 DEF S0, B, RefsTo

Alone(p) == \A q \in Procs \ {p} : k'[q] = k[q] /\ cwd'[q] = cwd[q] /\ file'[q] = file[q]

\* The references a step takes and gives back are those p has more or fewer.
Balanced(p) == \A i \in Inodes : ref'[i] - ref[i] = Own(p, i)' - Own(p, i)

LEMMA RefStep ==
    ASSUME Roles, Roles', ref \in [Inodes -> Int], ref' \in [Inodes -> Int], RefCounts,
           NEW p \in Procs, Alone(p), Balanced(p)
    PROVE  RefCounts'
<1> SUFFICES ASSUME NEW i \in Inodes
             PROVE  ref'[i] = RefsTo(i)'
  BY DEF RefCounts
<1>1. Others(p, i)' = Others(p, i)
  BY DEF Others, Alone, Use
<1>2. (Roles /\ p \in Procs /\ i \in Inodes =>
          /\ RefsTo(i) = Cardinality(Others(p, i)) + Own(p, i)
          /\ Cardinality(Others(p, i)) \in Nat)'
  BY CountOwn, PTL
<1>3. RefsTo(i)' = Cardinality(Others(p, i)) + Own(p, i)'
  BY <1>1, <1>2
<1>6. Own(p, i) \in Int /\ Own(p, i)' \in Int /\ Cardinality(Others(p, i)) \in Nat
  BY CountOwn DEF Own, InCall, InDrop, B
<1>4. ref[i] = Cardinality(Others(p, i)) + Own(p, i)
  BY CountOwn DEF RefCounts
<1>5. ref'[i] - ref[i] = Own(p, i)' - Own(p, i)
  BY DEF Balanced
<1>7. ref[i] \in Int /\ ref'[i] \in Int
  OBVIOUS
<1> QED BY <1>3, <1>4, <1>5, <1>6, <1>7
-----------------------------------------------------------------------------
(* Each action keeps the types and the roles, is one process's, and is     *)
(* balanced.                                                               *)

Good(p) == Types' /\ Roles' /\ Alone(p) /\ Balanced(p)

LEMMA CallerFacts ==
    ASSUME Roles, NEW p \in Procs
    PROVE  /\ k[p] \in Callers /\ Role(k[p]) /\ k[p].pc \in PCs
           /\ k[p].path \in Seq(Names) /\ k[p].new \in Seq(Names) /\ k[p].drop \in Seq(Inodes)
           /\ k[p].ip \in Places /\ k[p].dp \in Places
           /\ (k[p].path # <<>> => Head(k[p].path) \in Names /\ Tail(k[p].path) \in Seq(Names))
           /\ (k[p].drop # <<>> => Head(k[p].drop) \in Inodes)
BY DEF Roles, Callers

LEMMA LoadedRec ==
    ASSUME Types, NEW i \in Inodes
    PROVE  Loaded(i) \in Recs /\ \A n \in Int : Links(i, n) \in Recs
<1>1. Loaded(i) \in Recs
  BY DEF Types, Loaded
<1>2. ASSUME NEW f \in Recs, NEW n \in Int PROVE [f EXCEPT !.nlink = @ + n] \in Recs
  BY DEF Recs
<1> QED BY <1>1, <1>2 DEF Links

LEMMA TailFacts ==
    ASSUME NEW S, NEW s \in Seq(S), s # <<>>
    PROVE  /\ Tail(s) \in Seq(S) /\ Len(Tail(s)) = Len(s) - 1 /\ Head(s) = s[1] /\ Head(s) \in S
           /\ Len(s) \in Nat /\ Len(s) > 0 /\ (Len(s) > 1 => Tail(s)[1] = s[2])
OBVIOUS

LEMMA LoadTypes ==
    ASSUME Types, NEW i \in Inodes, Load(i) PROVE valid' \in SUBSET Inodes /\ minode' \in [Inodes -> Recs]
BY LoadedRec DEF Load, Types

LEMMA LoadedTypes ==
    ASSUME Types, NEW i \in Inodes, NEW p \in Procs, Load(i), UNCHANGED <<disk, ref, panicked>>,
           cwd' = cwd, file' = file, Lock(p, i) \/ UNCHANGED lock
    PROVE  Types'
<1>1. valid' \in SUBSET Inodes /\ minode' \in [Inodes -> Recs]
  BY LoadTypes
<1>2. lock' \in [Inodes -> Procs \cup {Nobody}]
  BY DEF Types, Lock
<1> QED BY <1>1, <1>2 DEF Types, disk

LEMMA IgetTypes ==
    ASSUME Types, NEW i \in Inodes, NEW j \in Inodes, Iget(i, j)
    PROVE  /\ valid' \in SUBSET Inodes /\ minode' \in [Inodes -> Recs] /\ ref' \in [Inodes -> Int]
           /\ \A x \in Inodes : ref'[x] = ref[x] + B(x = i)
BY LoadedRec DEF Iget, Types, B

LEMMA BeginGood ==
    ASSUME Types, Roles, NEW p \in Procs, NEW r \in Requests, Begin(p, r)
    PROVE  Good(p)
<1> DEFINE i == Start(p, r.abs)
           c == [Idle EXCEPT !.pc = IF r.sys \in ByParent THEN "nameiparent" ELSE Found(r.sys, r.path),
                             !.sys = r.sys, !.abs = r.abs, !.path = r.path, !.new = r.new, !.ip = i]
<1>1. i \in Inodes
  BY RootIs DEF Types, Start
<1>2. /\ r \in [sys : {"open", "open_w", "creat", "mkdir", "link", "unlink", "chdir"},
                abs : BOOLEAN, path : Seq(Names), new : Seq(Names)]
      /\ r.sys \in {"creat", "mkdir", "unlink"} => r.path # <<>>
      /\ r.sys = "link" => r.new # <<>>
  BY InodeConstants
<1>3. c \in Callers
  BY <1>1, <1>2, RootIs DEF Callers, Idle, Found, ByParent, PCs, LocksIp, Places
<1>4. Role(c)
  BY <1>1, <1>2, RootIs DEF Role, Idle, Found, ByParent, SysAt, NoIp, HasDp, LinkTo, HoldDp, ByName
<1>5. k' = [k EXCEPT ![p] = c]
  BY DEF Begin
<1>6. Roles'
  BY <1>3, <1>4, <1>5, Become
<1>7. Types'
  BY <1>1 DEF Types, Begin, disk, user
<1>8. Alone(p)
  BY <1>5 DEF Alone, Begin, user, Roles
<1>9. Balanced(p)
  <2>1. k'[p] = c /\ k[p].ip = None /\ k[p].dp = None /\ k[p].drop = <<>>
    BY <1>5, CallerFacts DEF Roles, Begin, At, Role, NoIp, HasDp, LinkTo, HoldDp
  <2>2. cwd'[p] = cwd[p] /\ file'[p] = file[p] /\ \A x \in Inodes : ref'[x] = ref[x] + B(x = i)
    BY <1>1 DEF Begin, user, Types, B
  <2>3. c.pc \notin {"ialloc", "ialloc_iget"} /\ c.ip = i /\ c.dp = None /\ c.drop = <<>>
    BY <1>2 DEF Idle, Found
  <2> HIDE DEF c, i
  <2>4. ASSUME NEW x \in Inodes PROVE Own(p, x)' - Own(p, x) = B(x = i)
    BY <2>1, <2>2, <2>3, RootIs DEF Own, InCall, InDrop, B
  <2> QED BY <2>2, <2>4 DEF Balanced, Types, B
<1> QED BY <1>6, <1>7, <1>8, <1>9 DEF Good

LEMMA IputGood == ASSUME Types, Roles, NEW p \in Procs, Iput(p) PROVE Good(p)
<1> DEFINE i == Head(k[p].drop)
<1>1. k[p].drop # <<>> /\ i \in Inodes
  BY CallerFacts DEF Iput, IputCheck, IputFree, IputClear, IputUnref, At_iput
<1>2. CASE IputCheck(p)
  <2>1. PICK v \in {"free", "unref"} : k' = [k EXCEPT ![p].put = v]
    BY <1>2 DEF IputCheck
  <2> DEFINE c == [k[p] EXCEPT !.put = v]
  <2>2. c \in Callers /\ Role(c) /\ k' = [k EXCEPT ![p] = c]
    BY <1>1, <2>1, CallerFacts DEF Callers, Role, HasDp
  <2>3. Roles' /\ k'[p] = c
    BY <2>2, Become DEF Roles
  <2>4. Types'
    BY <1>1, <1>2 DEF Types, IputCheck, Lock, disk, user
  <2>5. Alone(p)
    BY <1>2, <2>2 DEF Alone, IputCheck, user, Roles
  <2>6. Balanced(p)
    BY <1>2, <2>3 DEF Balanced, Own, InCall, InDrop, IputCheck, user, B, Types
  <2> QED BY <2>3, <2>4, <2>5, <2>6 DEF Good
<1>3. CASE IputFree(p)
  <2> DEFINE c == [k[p] EXCEPT !.put = "clear"]
  <2>2. c \in Callers /\ Role(c) /\ k' = [k EXCEPT ![p] = c]
    BY <1>1, <1>3, CallerFacts DEF Callers, Role, IputFree, HasDp
  <2>3. Roles' /\ k'[p] = c
    BY <2>2, Become DEF Roles
  <2>4. Types'
    <3>1. ASSUME NEW j \in Inodes PROVE Cardinality({n \in Plain : ents[i][n] = j}) \in Nat
      BY FS_Subset, FS_CardinalityType, InodeConstants
    <3>2. lost' \in [Inodes -> Nat]
      <4> DEFINE n(j) == Cardinality({n \in Plain : ents[i][n] = j})
      <4>1. lost' = [j \in Inodes |-> lost[j] + n(j)] /\ \A j \in Inodes : n(j) \in Nat
        BY <1>3, <3>1 DEF IputFree
      <4> HIDE DEF n
      <4> QED BY <4>1 DEF Types
    <3>3. FreeInode \in Recs /\ NoEnts \in [Names -> Places]
      BY DEF FreeInode, Recs, NoEnts, Places
    <3> QED BY <1>1, <1>3, <3>2, <3>3 DEF Types, IputFree, Iupdate, user
  <2>5. Alone(p)
    BY <1>3, <2>2 DEF Alone, IputFree, user, Roles
  <2>6. Balanced(p)
    BY <1>3, <2>3 DEF Balanced, Own, InCall, InDrop, IputFree, user, B, Types
  <2> QED BY <2>3, <2>4, <2>5, <2>6 DEF Good
<1>4. CASE IputClear(p)
  <2> DEFINE c == [k[p] EXCEPT !.put = "unref"]
  <2>2. c \in Callers /\ Role(c) /\ k' = [k EXCEPT ![p] = c]
    BY <1>1, <1>4, CallerFacts DEF Callers, Role, IputClear, HasDp
  <2>3. Roles' /\ k'[p] = c
    BY <2>2, Become DEF Roles
  <2>4. Types'
    BY <1>1, <1>4 DEF Types, IputClear, Unlock, Invalidated, disk, user
  <2>5. Alone(p)
    BY <1>4, <2>2 DEF Alone, IputClear, user, Roles
  <2>6. Balanced(p)
    BY <1>4, <2>3 DEF Balanced, Own, InCall, InDrop, IputClear, user, B, Types
  <2> QED BY <2>3, <2>4, <2>5, <2>6 DEF Good
<1>5. CASE IputUnref(p)
  <2> DEFINE c == [k[p] EXCEPT !.drop = Tail(@), !.put = "check"]
  <2>1. /\ k[p].drop \in Seq(Inodes) /\ Tail(k[p].drop) \in Seq(Inodes)
        /\ Len(Tail(k[p].drop)) = Len(k[p].drop) - 1 /\ i = k[p].drop[1]
        /\ Len(k[p].drop) \in {1, 2} /\ (Len(k[p].drop) > 1 => Tail(k[p].drop)[1] = k[p].drop[2])
    <3>1. k[p].drop \in Seq(Inodes) /\ Len(k[p].drop) <= 2
      BY CallerFacts DEF Role
    <3> DEFINE s == k[p].drop
    <3>3. /\ Tail(s) \in Seq(Inodes) /\ Len(Tail(s)) = Len(s) - 1 /\ Head(s) = s[1]
          /\ Len(s) \in Nat /\ Len(s) > 0 /\ (Len(s) > 1 => Tail(s)[1] = s[2])
      BY <1>1, <3>1, TailFacts
    <3>4. Len(s) \in {1, 2}
      <4>1. \A n \in Nat : n > 0 /\ n <= 2 => n \in {1, 2}
        OBVIOUS
      <4> QED BY <3>1, <3>3, <4>1
    <3> QED BY <3>1, <3>3, <3>4, Zenon
  <2>2. c \in Callers /\ Role(c) /\ k' = [k EXCEPT ![p] = c]
    <3>1. c \in Callers /\ c.drop = Tail(k[p].drop) /\ c.put = "check"
      BY <2>1, CallerFacts DEF Callers
    <3>2. c.pc = k[p].pc /\ c.sys = k[p].sys /\ c.path = k[p].path /\ c.new = k[p].new
          /\ c.ip = k[p].ip /\ c.dp = k[p].dp
      BY CallerFacts DEF Callers
    <3>3. k' = [k EXCEPT ![p] = c]
      BY <1>5 DEF IputUnref
    <3>4. Role(k[p])
      BY CallerFacts
    <3> HIDE DEF c
    <3>5. Role(c)
      BY <2>1, <3>1, <3>2, <3>4 DEF Role, HasDp
    <3> QED BY <3>1, <3>3, <3>5
  <2>3. Roles' /\ k'[p] = c
    BY <2>2, Become DEF Roles
  <2>4. Types'
    BY <1>1, <1>5 DEF Types, IputUnref, disk, user
  <2>5. Alone(p)
    BY <1>5, <2>2 DEF Alone, IputUnref, user, Roles
  <2>6. Balanced(p)
    <3> SUFFICES ASSUME NEW x \in Inodes PROVE ref'[x] - ref[x] = Own(p, x)' - Own(p, x)
      BY DEF Balanced
    <3>1. ref'[x] - ref[x] = - B(x = i)
      BY <1>1, <1>5 DEF IputUnref, Types, B
    <3>2. /\ Len(c.drop) = Len(k[p].drop) - 1 /\ Len(k[p].drop) \in {1, 2}
          /\ Len(c.drop) > 0 => c.drop[1] = k[p].drop[2]
          /\ i = k[p].drop[1]
      BY <2>1, CallerFacts DEF Callers
    <3>3. c.pc = k[p].pc /\ c.ip = k[p].ip /\ c.dp = k[p].dp /\ cwd' = cwd /\ file' = file
      BY <1>5, CallerFacts DEF IputUnref, user, Callers
    <3>4. k'[p] = c
      BY <2>3
    <3> HIDE DEF c, i
    <3>5. CASE Len(k[p].drop) = 1
      BY <3>1, <3>2, <3>3, <3>4, <3>5 DEF Own, InCall, InDrop, B
    <3>6. CASE Len(k[p].drop) = 2
      BY <3>1, <3>2, <3>3, <3>4, <3>6 DEF Own, InCall, InDrop, B
    <3> QED BY <3>2, <3>5, <3>6
  <2> QED BY <2>3, <2>4, <2>5, <2>6 DEF Good
<1> QED BY <1>2, <1>3, <1>4, <1>5 DEF Iput

\* What a process that goes on at c then has more, or fewer.
Changes(p, c) ==
    \A x \in Inodes : ref'[x] - ref[x] = InCall(c, x) - InCall(k[p], x)
                         + B(cwd'[p] = x) - B(cwd[p] = x) + B(file'[p] = x) - B(file[p] = x)

LEMMA Becomes ==
    ASSUME Types, Roles, Types', NEW p \in Procs, NEW c, c \in Callers, Role(c), k' = [k EXCEPT ![p] = c],
           \A q \in Procs \ {p} : cwd'[q] = cwd[q] /\ file'[q] = file[q],
           Changes(p, c)
    PROVE  Good(p) /\ k'[p] = c
<1>1. Roles' /\ k'[p] = c
  BY Become DEF Roles
<1>2. Alone(p)
  BY DEF Alone, Roles
<1>3. ASSUME NEW x \in Inodes PROVE ref'[x] - ref[x] = Own(p, x)' - Own(p, x)
  <2>1. Own(p, x)' = B(cwd'[p] = x) + B(file'[p] = x) + InCall(c, x)
    BY <1>1 DEF Own, InCall, InDrop, B
  <2>2. InCall(c, x) \in Int /\ InCall(k[p], x) \in Int /\ \A y \in BOOLEAN : B(y) \in Int
    BY DEF InCall, InDrop, B
  <2>3. ref'[x] - ref[x] = InCall(c, x) - InCall(k[p], x)
            + B(cwd'[p] = x) - B(cwd[p] = x) + B(file'[p] = x) - B(file[p] = x)
    BY DEF Changes
  <2>4. ref'[x] \in Int
    BY DEF Types
  <2>5. ref[x] \in Int
    BY DEF Types
  <2> QED BY <2>1, <2>2, <2>3, <2>4, <2>5 DEF Own, B
<1> QED BY <1>1, <1>2, <1>3 DEF Good, Balanced

Moves(p, c) == \A x \in Inodes : ref'[x] - ref[x] = InCall(c, x) - InCall(k[p], x)

\* Within a call, the current directory and the open file stay.
LEMMA GoesOn ==
    ASSUME Types, Roles, Types', NEW p \in Procs, NEW c, c \in Callers, Role(c), k' = [k EXCEPT ![p] = c],
           cwd' = cwd, file' = file,
           Moves(p, c)
    PROVE  Good(p) /\ k'[p] = c
<1>1. ASSUME NEW x \in Inodes
      PROVE  ref'[x] - ref[x] = InCall(c, x) - InCall(k[p], x)
                 + B(cwd'[p] = x) - B(cwd[p] = x) + B(file'[p] = x) - B(file[p] = x)
  <2>1. ref'[x] - ref[x] = InCall(c, x) - InCall(k[p], x)
    BY DEF Moves
  <2>2. InCall(c, x) \in Int /\ InCall(k[p], x) \in Int
    BY DEF InCall, InDrop, B
  <2> QED BY <2>1, <2>2 DEF B
<1>2. \A q \in Procs \ {p} : cwd'[q] = cwd[q] /\ file'[q] = file[q]
  OBVIOUS
<1>3. Changes(p, c)
  BY <1>1 DEF Changes
<1> QED BY <1>2, <1>3, Becomes

\* The call ends; cwd and file may be what it was for.
LEMMA EndsWith ==
    ASSUME Types, Roles, Types', NEW p \in Procs, NEW s \in Seq(Inodes), Len(s) <= 2, Return(p, s),
           ref' = ref,
           \A q \in Procs \ {p} : cwd'[q] = cwd[q] /\ file'[q] = file[q],
           \A x \in Inodes : InDrop(s, x) + B(cwd'[p] = x) + B(file'[p] = x)
                                 = InCall(k[p], x) + B(cwd[p] = x) + B(file[p] = x)
    PROVE  Good(p) /\ k'[p] = [Idle EXCEPT !.drop = s]
<1> DEFINE c == [Idle EXCEPT !.drop = s]
<1>1. c \in Callers /\ c.ip = None /\ c.dp = None /\ c.drop = s
  BY RootIs DEF Callers, Idle
<1>2. Role(c)
  BY DEF Role, Idle, SysAt, NoIp, HasDp, LinkTo, HoldDp, ByName
<1>3. k' = [k EXCEPT ![p] = c]
  BY DEF Return
<1>4. ASSUME NEW x \in Inodes
      PROVE  ref'[x] - ref[x] = InCall(c, x) - InCall(k[p], x)
                 + B(cwd'[p] = x) - B(cwd[p] = x) + B(file'[p] = x) - B(file[p] = x)
  <2>1. InCall(c, x) = InDrop(s, x)
    BY <1>1, RootIs DEF InCall, InDrop, B
  <2>2. InDrop(s, x) \in Int /\ InCall(k[p], x) \in Int /\ \A y \in BOOLEAN : B(y) \in Int
    BY DEF InCall, InDrop, B
  <2>3. InDrop(s, x) + B(cwd'[p] = x) + B(file'[p] = x)
            = InCall(k[p], x) + B(cwd[p] = x) + B(file[p] = x)
    OBVIOUS
  <2>4. ref'[x] - ref[x] = 0
    BY DEF Types
  <2> DEFINE w == B(cwd[p] = x)   w1 == B(cwd'[p] = x)
             f == B(file[p] = x)  f1 == B(file'[p] = x)
  <2>5. w \in Int /\ w1 \in Int /\ f \in Int /\ f1 \in Int
    BY DEF B
  <2>6. InDrop(s, x) + w1 + f1 = InCall(k[p], x) + w + f
    BY <2>3
  <2>7. 0 = InDrop(s, x) - InCall(k[p], x) + w1 - w + f1 - f
    <3> HIDE DEF w, w1, f, f1
    <3> QED BY <2>2, <2>5, <2>6
  <2> HIDE DEF c
  <2> QED BY <2>1, <2>4, <2>7
<1>5. Good(p) /\ k'[p] = c
  <2> HIDE DEF c
  <2>1. Changes(p, c)
    BY <1>4 DEF Changes
  <2> QED BY <1>1, <1>2, <1>3, <2>1, Becomes
<1> QED BY <1>5

\* It ends, and gives back all the inodes it has.
LEMMA GivesBack ==
    ASSUME Types, Roles, Types', NEW p \in Procs, NEW s \in Seq(Inodes), Len(s) <= 2, Return(p, s),
           ref' = ref, cwd' = cwd, file' = file,
           \A x \in Inodes : InDrop(s, x) = InCall(k[p], x)
    PROVE  Good(p) /\ k'[p] = [Idle EXCEPT !.drop = s]
<1>1. ASSUME NEW x \in Inodes
      PROVE  InDrop(s, x) + B(cwd'[p] = x) + B(file'[p] = x)
                 = InCall(k[p], x) + B(cwd[p] = x) + B(file[p] = x)
  OBVIOUS
<1> QED BY <1>1, EndsWith

LEMMA GivesBackOne ==
    ASSUME Types, Roles, Types', NEW p \in Procs, NEW i \in Inodes, Return(p, <<i>>),
           ref' = ref, cwd' = cwd, file' = file, k[p].drop = <<>>, k[p].pc \notin {"ialloc", "ialloc_iget"},
           \/ k[p].ip = i /\ k[p].dp = None
           \/ k[p].ip = None /\ k[p].dp = i
    PROVE  Good(p) /\ k'[p] = [Idle EXCEPT !.drop = <<i>>]
<1>1. ASSUME NEW x \in Inodes PROVE InDrop(<<i>>, x) = InCall(k[p], x)
  BY RootIs DEF InDrop, InCall, B
<1>2. <<i>> \in Seq(Inodes) /\ Len(<<i>>) <= 2
  OBVIOUS
<1> HIDE DEF Return
<1> QED BY <1>1, <1>2, GivesBack

\* A path that fails gives back what the call has, or leaves sys_link its link to take back.
LEMMA NoPathGood ==
    ASSUME Types, Roles, Types', NEW p \in Procs, NEW i \in Inodes, NoPath(p, i),
           ref' = ref, cwd' = cwd, file' = file, k[p].drop = <<>>, k[p].ip = i,
           k[p].pc \in {"namei", "nameiparent", "linkbad"}
    PROVE  Good(p)
<1>1. CASE k[p].dp = None
  BY <1>1, GivesBackOne DEF NoPath, Dropped
<1>2. CASE k[p].dp # None
  <2> DEFINE c == [k[p] EXCEPT !.pc = "bad", !.ip = k[p].dp, !.dp = None, !.drop = <<i>>]
  <2>1. k' = [k EXCEPT ![p] = c]
    BY <1>2 DEF NoPath, Dropped
  <2>2. k[p].dp \in Inodes /\ k[p].sys = "link"
    BY <1>2, CallerFacts DEF Places, Role, HasDp, SysAt, LinkTo, HoldDp
  <2>3. c \in Callers
    <3>1. <<i>> \in Seq(Inodes) /\ "bad" \in PCs /\ k[p].dp \in Places /\ None \in Places
      BY <2>2 DEF PCs, LocksIp, Places
    <3> QED BY <3>1, CallerFacts DEF Callers
  <2>4. Role(c)
    BY <2>2, CallerFacts, RootIs DEF Callers, Role, HasDp, SysAt, LinkTo, HoldDp, NoIp, ByName
  <2>5. ASSUME NEW x \in Inodes PROVE ref'[x] - ref[x] = InCall(c, x) - InCall(k[p], x)
    <3>1. ref'[x] - ref[x] = 0
      BY DEF Types
    <3>2. c.pc = "bad" /\ c.ip = k[p].dp /\ c.dp = None /\ c.drop = <<i>>
      BY CallerFacts DEF Callers
    <3> HIDE DEF c
    <3> QED BY <3>1, <3>2, RootIs DEF InCall, InDrop, B
  <2>6. Moves(p, c)
    BY <2>5 DEF Moves
  <2> HIDE DEF c
  <2> QED BY <2>1, <2>3, <2>4, <2>6, GoesOn
<1> QED BY <1>1, <1>2

LEMMA VisitGood == ASSUME Types, Roles, NEW p \in Procs, Visit(p) PROVE Good(p)
<1> DEFINE i == k[p].ip
           next == ents[i][Head(k[p].path)]
           rest == Tail(k[p].path)
<1>1. k[p].pc \in {"namei", "nameiparent"} /\ k[p].drop = <<>> /\ cwd' = cwd /\ file' = file
  BY DEF Visit, At, user
<1>2. /\ i \in Inodes /\ k[p].path # <<>> /\ Head(k[p].path) \in Names /\ rest \in Seq(Names)
      /\ next \in Places
  <2>1. Role(k[p]) /\ k[p].ip \in Places
    BY CallerFacts
  <2>2. i \in Inodes /\ k[p].path # <<>>
    BY <1>1, <2>1, RootIs DEF Role, NoIp, ByName, Places
  <2>3. Head(k[p].path) \in Names /\ rest \in Seq(Names)
    BY <2>2, CallerFacts
  <2> QED BY <2>2, <2>3 DEF Types
<1>3. Load(i) /\ UNCHANGED <<ref, disk, lock, user, panicked>> => Types' /\ ref' = ref
  BY <1>2, LoadTypes DEF Types, disk, user
<1>4. UNCHANGED <<disk, lock, user, panicked>>
  BY DEF Visit
<1>5. CASE NoPath(p, i) /\ Load(i) /\ UNCHANGED ref
  BY <1>1, <1>2, <1>3, <1>4, <1>5, NoPathGood
<1>6. CASE /\ k[p].pc = "nameiparent" /\ rest = <<>> /\ Load(i) /\ UNCHANGED ref
           /\ k' = [k EXCEPT ![p].pc = FoundParent(k[p].sys)]
  <2> DEFINE c == [k[p] EXCEPT !.pc = FoundParent(k[p].sys)]
  <2>1. k[p].sys \in ByParent \cup {"link"}
    BY <1>6, CallerFacts DEF Role, SysAt
  <2>2. c \in Callers
    BY <2>1, CallerFacts DEF Callers, FoundParent, PCs, LocksIp, ByParent
  <2>3. /\ c.pc = FoundParent(k[p].sys) /\ c.sys = k[p].sys /\ c.path = k[p].path /\ c.new = k[p].new
        /\ c.ip = k[p].ip /\ c.dp = k[p].dp /\ c.drop = k[p].drop /\ c.put = k[p].put
    BY CallerFacts DEF Callers
  <2>4. k' = [k EXCEPT ![p] = c]
    BY <1>6
  <2> HIDE DEF c
  <2>5. Role(c)
    BY <1>2, <1>6, <2>1, <2>3, CallerFacts
       DEF Role, FoundParent, SysAt, NoIp, ByName, HasDp, LinkTo, HoldDp, ByParent
  <2>6. Moves(p, c)
    BY <1>6, <2>1, <2>3 DEF Moves, InCall, FoundParent, ByParent, Types, InDrop, B
  <2> QED BY <1>1, <1>3, <1>4, <1>6, <2>2, <2>4, <2>5, <2>6, GoesOn
<1>7. CASE /\ k[p].pc = "namei" \/ rest # <<>>
           /\ next # None /\ Iget(next, i)
           /\ k' = [k EXCEPT ![p].pc = IF @ = "namei" THEN Found(k[p].sys, rest) ELSE @,
                             ![p].path = rest, ![p].ip = next, ![p].drop = <<i>>]
  <2> DEFINE c == [k[p] EXCEPT !.pc = IF @ = "namei" THEN Found(k[p].sys, rest) ELSE @,
                               !.path = rest, !.ip = next, !.drop = <<i>>]
             l == IF k[p].pc = "namei" THEN Found(k[p].sys, rest) ELSE k[p].pc
  <2>1. next \in Inodes /\ <<i>> \in Seq(Inodes)
    BY <1>2, <1>7 DEF Places
  <2>2. /\ k[p].pc = "namei" => k[p].sys \in {"open", "open_w", "chdir", "link"}
        /\ k[p].pc = "nameiparent" => k[p].sys \in ByParent \cup {"link"}
    BY CallerFacts DEF Role, SysAt
  <2>3. l \in PCs /\ l \notin {"ialloc", "ialloc_iget"}
    BY <1>1, <2>2 DEF Found, PCs, LocksIp
  <2>4. c \in Callers
    BY <1>2, <2>1, <2>3, CallerFacts DEF Callers, Places
  <2>5. /\ c.pc = l /\ c.sys = k[p].sys /\ c.path = rest /\ c.new = k[p].new
        /\ c.ip = next /\ c.dp = k[p].dp /\ c.drop = <<i>> /\ c.put = k[p].put
    BY CallerFacts DEF Callers
  <2>6. k' = [k EXCEPT ![p] = c]
    BY <1>7
  <2>7. Types'
    BY <1>2, <1>4, <1>7, <2>1, IgetTypes DEF Types, disk, user
  <2>8. \A x \in Inodes : ref'[x] = ref[x] + B(x = next)
    BY <1>2, <1>7, <2>1, IgetTypes
  <2> HIDE DEF c, next, rest, i
  <2>9. Role(c)
    <3>1. CASE k[p].pc = "namei"
      <4>1. Role(k[p]) /\ k[p].dp = None /\ k[p].put = "check" /\ k[p].sys \in {"open", "open_w", "chdir", "link"}
        BY <1>1, <2>2, <3>1, CallerFacts DEF Role, HasDp, LinkTo, HoldDp
      <4>2. CASE rest = <<>>
        <5>1. c.pc = k[p].sys /\ c.drop = <<i>> /\ Len(c.drop) <= 2
          BY <2>5, <3>1, <4>2 DEF Found, l
        <5> QED BY <1>2, <2>1, <2>5, <3>1, <4>1, <5>1, RootIs DEF Role, SysAt, NoIp, ByName, HasDp, LinkTo, HoldDp
      <4>3. CASE rest # <<>>
        <5>1. c.pc = "namei" /\ c.drop = <<i>> /\ Len(c.drop) <= 2
          BY <2>5, <3>1, <4>3 DEF Found, l
        <5> QED BY <1>2, <2>1, <2>5, <3>1, <4>1, <4>3, <5>1, RootIs DEF Role, SysAt, NoIp, ByName, HasDp, LinkTo, HoldDp
      <4> QED BY <4>2, <4>3
    <3>2. CASE k[p].pc = "nameiparent"
      <4>1. Role(k[p]) /\ c.pc = "nameiparent" /\ rest # <<>>
        BY <1>7, <2>5, <3>2, CallerFacts
      <4>2. c.ip # None
        BY <2>1, <2>5, RootIs
      <4> HIDE DEF l
      <4> QED
      BY <2>5, <3>2, <4>1, <4>2
         DEF Role, SysAt, NoIp, ByName, HasDp, LinkTo, HoldDp, ByParent
    <3> QED BY <1>1, <3>1, <3>2
  <2>10. Moves(p, c)
    <3>1. ASSUME NEW x \in Inodes PROVE ref'[x] - ref[x] = InCall(c, x) - InCall(k[p], x)
      BY <1>1, <2>1, <2>3, <2>5, <2>8, RootIs DEF InCall, InDrop, B, Types, i
    <3> QED BY <3>1 DEF Moves
  <2> QED BY <1>1, <2>4, <2>6, <2>7, <2>9, <2>10, GoesOn
<1> QED BY <1>5, <1>6, <1>7 DEF Visit

\* Where the code has the inode ip, or the directory dp.
LEMMA HasThem ==
    ASSUME Roles, NEW p \in Procs
    PROVE  /\ k[p].pc \notin NoIp => k[p].ip \in Inodes
           /\ k[p].pc \in NoIp => k[p].ip = None
           /\ HasDp(k[p]) => k[p].dp \in Inodes
           /\ ~HasDp(k[p]) => k[p].dp = None
           /\ k[p].pc \in ByName => Head(k[p].path) \in Names
<1>1. Role(k[p]) /\ k[p].ip \in Places /\ k[p].dp \in Places
  BY CallerFacts
<1>2. k[p].pc \in ByName => Head(k[p].path) \in Names
  BY <1>1, CallerFacts DEF Role
<1> QED BY <1>1, <1>2, RootIs DEF Role, Places

LEMMA LinkCountGood == ASSUME Types, Roles, NEW p \in Procs, LinkCount(p) PROVE Good(p)
<1> DEFINE i == k[p].ip
           s == Start(p, k[p].abs)
<1>1. k[p].pc = "link" /\ k[p].drop = <<>> /\ cwd' = cwd /\ file' = file
      /\ UNCHANGED <<ents, lost, lock, panicked>>
  BY DEF LinkCount, At, user
<1>2. i \in Inodes /\ k[p].dp = None /\ s \in Inodes
  BY <1>1, HasThem, RootIs DEF NoIp, HasDp, LinkTo, HoldDp, Start, Types
<1>3. CASE Return(p, <<i>>) /\ Load(i) /\ UNCHANGED <<ref, dinode>>
  <2>1. Types'
    BY <1>1, <1>2, <1>3, LoadTypes DEF Types
  <2> QED BY <1>1, <1>2, <1>3, <2>1, GivesBackOne
<1>4. CASE /\ minode' = [minode EXCEPT ![i] = LinkAdded(i)]
           /\ dinode' = [dinode EXCEPT ![i] = LinkAdded(i)]
           /\ ref' = [ref EXCEPT ![s] = @ + 1]
           /\ valid' = (valid \cup {i}) \ (IF ref[s] = 0 THEN {s} ELSE {})
           /\ k' = [k EXCEPT ![p].pc = "nameiparent", ![p].path = k[p].new, ![p].ip = s, ![p].dp = i]
  <2> DEFINE c == [k[p] EXCEPT !.pc = "nameiparent", !.path = k[p].new, !.ip = s, !.dp = i]
  <2>1. LinkAdded(i) \in Recs
    BY <1>2, LoadedRec DEF LinkAdded
  <2>2. Types'
    BY <1>1, <1>2, <1>4, <2>1 DEF Types
  <2>3. c \in Callers
    <3>1. "nameiparent" \in PCs /\ s \in Places /\ i \in Places
      BY <1>2 DEF PCs, LocksIp, Places
    <3> HIDE DEF s
    <3> QED BY <3>1, CallerFacts DEF Callers
  <2>4. /\ c.pc = "nameiparent" /\ c.sys = k[p].sys /\ c.path = k[p].new /\ c.new = k[p].new
        /\ c.ip = s /\ c.dp = i /\ c.drop = k[p].drop /\ c.put = k[p].put
    BY CallerFacts DEF Callers
  <2>5. k' = [k EXCEPT ![p] = c]
    BY <1>4
  <2>6. \A x \in Inodes : ref'[x] = ref[x] + B(x = s)
    BY <1>2, <1>4 DEF Types, B
  <2>7. k[p].ip = i
    OBVIOUS
  <2> HIDE DEF c, i, s
  <2>8. Role(c)
    BY <1>1, <1>2, <2>4, CallerFacts, RootIs
       DEF Role, SysAt, NoIp, ByName, HasDp, LinkTo, HoldDp, ByParent
  <2>9. Moves(p, c)
    BY <1>1, <1>2, <2>4, <2>6, <2>7, RootIs DEF Moves, InCall, InDrop, B, Types
  <2> QED BY <1>1, <2>2, <2>3, <2>5, <2>8, <2>9, GoesOn
<1> QED BY <1>3, <1>4 DEF LinkCount

LEMMA LinkEntryGood == ASSUME Types, Roles, NEW p \in Procs, LinkEntry(p) PROVE Good(p)
<1> DEFINE d == k[p].ip
           n == Head(k[p].path)
           j == ents[d][n]
<1>1. k[p].pc = "linkdir" /\ k[p].drop = <<>> /\ cwd' = cwd /\ file' = file
      /\ UNCHANGED <<dinode, lost, panicked>>
  BY DEF LinkEntry, At, user
<1>2. d \in Inodes /\ k[p].dp \in Inodes /\ n \in Names /\ j \in Places
  BY <1>1, HasThem DEF NoIp, HasDp, LinkTo, ByName, Types
<1>3. CASE /\ ents' = [ents EXCEPT ![d][n] = k[p].dp]
           /\ Return(p, <<d, k[p].dp>>)
           /\ Load(d) /\ UNCHANGED <<ref, lock>>
  <2>1. Types'
    BY <1>1, <1>2, <1>3, LoadTypes DEF Types, Places
  <2>2. \A x \in Inodes : InDrop(<<d, k[p].dp>>, x) = InCall(k[p], x)
    BY <1>1, <1>2 DEF InDrop, InCall, B
  <2>3. <<d, k[p].dp>> \in Seq(Inodes) /\ Len(<<d, k[p].dp>>) <= 2
    BY <1>2
  <2>4. Return(p, <<d, k[p].dp>>) /\ ref' = ref
    BY <1>3
  <2> HIDE DEF d, Return
  <2> QED BY <1>1, <2>1, <2>2, <2>3, <2>4, GivesBack
<1>4. CASE /\ j # None
           /\ Iget(j, d) /\ Lock(p, d)
           /\ k' = [k EXCEPT ![p].pc = "linkbad", ![p].drop = <<j>>]
           /\ UNCHANGED ents
  <2> DEFINE c == [k[p] EXCEPT !.pc = "linkbad", !.drop = <<j>>]
  <2>1. j \in Inodes /\ <<j>> \in Seq(Inodes)
    BY <1>2, <1>4 DEF Places
  <2>2. Types' /\ \A x \in Inodes : ref'[x] = ref[x] + B(x = j)
    BY <1>1, <1>2, <1>4, <2>1, IgetTypes DEF Types, Lock
  <2>3. c \in Callers
    <3>1. "linkbad" \in PCs /\ <<j>> \in Seq(Inodes)
      BY <2>1, RootIs DEF PCs, LocksIp, Places
    <3> QED BY <3>1, CallerFacts DEF Callers
  <2>4. /\ c.pc = "linkbad" /\ c.sys = k[p].sys /\ c.path = k[p].path /\ c.new = k[p].new
        /\ c.ip = k[p].ip /\ c.dp = k[p].dp /\ c.drop = <<j>> /\ c.put = k[p].put
    BY CallerFacts DEF Callers
  <2>5. k' = [k EXCEPT ![p] = c]
    BY <1>4
  <2> HIDE DEF c, j
  <2>6. Role(c)
    BY <1>1, <2>4, CallerFacts DEF Role, SysAt, NoIp, ByName, HasDp, LinkTo, HoldDp
  <2>7. Moves(p, c)
    BY <1>1, <2>1, <2>2, <2>4 DEF Moves, InCall, InDrop, B, Types
  <2> QED BY <1>1, <2>2, <2>3, <2>5, <2>6, <2>7, GoesOn
<1> QED BY <1>3, <1>4 DEF LinkEntry

LEMMA LinkBadGood == ASSUME Types, Roles, NEW p \in Procs, LinkBad(p) PROVE Good(p)
<1>1. k[p].pc = "linkbad" /\ k[p].drop = <<>> /\ cwd' = cwd /\ file' = file /\ ref' = ref
      /\ NoPath(p, k[p].ip)
  BY DEF LinkBad, At, user
<1>2. k[p].ip \in Inodes
  BY <1>1, HasThem DEF NoIp
<1>3. Types'
  BY <1>2 DEF Types, LinkBad, Unlock, disk, user
<1> QED BY <1>1, <1>2, <1>3, NoPathGood

LEMMA LinkUndoGood == ASSUME Types, Roles, NEW p \in Procs, LinkUndo(p) PROVE Good(p)
<1> DEFINE i == k[p].ip
<1>1. k[p].pc = "bad" /\ k[p].drop = <<>> /\ cwd' = cwd /\ file' = file /\ ref' = ref
      /\ Return(p, <<i>>)
  BY DEF LinkUndo, At, user
<1>2. i \in Inodes /\ k[p].dp = None
  BY <1>1, HasThem DEF NoIp, HasDp, LinkTo, HoldDp
<1>3. Links(i, -1) \in Recs
  BY <1>2, LoadedRec
<1>4. Types'
  BY <1>2, <1>3 DEF Types, LinkUndo, Iupdate, user
<1> QED BY <1>1, <1>2, <1>4, GivesBackOne

LEMMA UnlinkFindGood == ASSUME Types, Roles, NEW p \in Procs, UnlinkFind(p) PROVE Good(p)
<1> DEFINE d == k[p].ip
           j == ents[d][Head(k[p].path)]
<1>1. k[p].pc = "unlink" /\ k[p].drop = <<>> /\ cwd' = cwd /\ file' = file
      /\ UNCHANGED <<disk, panicked>>
  BY DEF UnlinkFind, At, user
<1>2. d \in Inodes /\ k[p].dp = None /\ j \in Places
  BY <1>1, HasThem DEF NoIp, HasDp, LinkTo, HoldDp, ByName, Types
<1>3. CASE Return(p, <<d>>) /\ Load(d) /\ UNCHANGED <<ref, lock>>
  <2>1. Types'
    BY <1>1, <1>2, <1>3, LoadTypes DEF Types, disk
  <2> QED BY <1>1, <1>2, <1>3, <2>1, GivesBackOne
<1>4. CASE /\ j # None
           /\ Iget(j, d) /\ Lock(p, d)
           /\ k' = [k EXCEPT ![p].pc = "unlink_ip", ![p].ip = j, ![p].dp = d]
  <2> DEFINE c == [k[p] EXCEPT !.pc = "unlink_ip", !.ip = j, !.dp = d]
  <2>1. j \in Inodes
    BY <1>2, <1>4 DEF Places
  <2>2. Types' /\ \A x \in Inodes : ref'[x] = ref[x] + B(x = j)
    BY <1>1, <1>2, <1>4, <2>1, IgetTypes DEF Types, Lock, disk
  <2>3. c \in Callers
    <3>1. "unlink_ip" \in PCs /\ j \in Places /\ d \in Places
      BY <1>2, <2>1, RootIs DEF PCs, LocksIp, Places
    <3> QED BY <3>1, CallerFacts DEF Callers
  <2>4. /\ c.pc = "unlink_ip" /\ c.sys = k[p].sys /\ c.path = k[p].path /\ c.new = k[p].new
        /\ c.ip = j /\ c.dp = k[p].ip /\ c.drop = <<>> /\ c.put = k[p].put
    BY <1>1, CallerFacts DEF Callers
  <2>5. k' = [k EXCEPT ![p] = c]
    BY <1>4
  <2> HIDE DEF c, j
  <2>6. Role(c)
    BY <1>1, <1>2, <2>1, <2>4, RootIs, CallerFacts DEF Role, SysAt, NoIp, ByName, HasDp, LinkTo, HoldDp
  <2>7. Moves(p, c)
    <3>1. ASSUME NEW x \in Inodes PROVE ref'[x] - ref[x] = InCall(c, x) - InCall(k[p], x)
      <4>1. ref'[x] - ref[x] = B(x = j)
        BY <2>2 DEF Types, B
      <4> QED BY <1>1, <1>2, <2>1, <2>4, <4>1, RootIs DEF InCall, InDrop, B
    <3> QED BY <3>1 DEF Moves
  <2> QED BY <1>1, <2>2, <2>3, <2>5, <2>6, <2>7, GoesOn
<1> QED BY <1>3, <1>4 DEF UnlinkFind

LEMMA UnlinkEntryGood == ASSUME Types, Roles, NEW p \in Procs, UnlinkEntry(p) PROVE Good(p)
<1> DEFINE i == k[p].ip
           d == k[p].dp
           D == IF Loaded(i).type = "dir" THEN Links(d, -1) ELSE Loaded(d)
<1>1. k[p].pc = "unlink_ip" /\ k[p].drop = <<>> /\ cwd' = cwd /\ file' = file /\ ref' = ref
      /\ UNCHANGED <<lost, panicked>>
  BY DEF UnlinkEntry, At, user
<1>2. i \in Inodes /\ d \in Inodes /\ Head(k[p].path) \in Names
  BY <1>1, HasThem DEF NoIp, HasDp, HoldDp, ByName
<1>3. CASE /\ k' = [k EXCEPT ![p].pc = "unlink_bad", ![p].ip = None, ![p].drop = <<i>>]
           /\ Load(i) /\ UNCHANGED <<dinode, ents, lock>>
  <2> DEFINE c == [k[p] EXCEPT !.pc = "unlink_bad", !.ip = None, !.drop = <<i>>]
  <2>1. Types'
    BY <1>1, <1>2, <1>3, LoadTypes DEF Types
  <2>2. c \in Callers
    <3>1. "unlink_bad" \in PCs /\ None \in Places /\ <<i>> \in Seq(Inodes)
      BY <1>2, RootIs DEF PCs, LocksIp, Places
    <3> QED BY <3>1, CallerFacts DEF Callers
  <2>3. /\ c.pc = "unlink_bad" /\ c.sys = k[p].sys /\ c.path = k[p].path /\ c.new = k[p].new
        /\ c.ip = None /\ c.dp = k[p].dp /\ c.drop = <<k[p].ip>> /\ c.put = k[p].put
    BY CallerFacts DEF Callers
  <2>4. k' = [k EXCEPT ![p] = c]
    BY <1>3
  <2> HIDE DEF c
  <2>5. Role(c)
    BY <1>1, <1>2, <2>3, CallerFacts DEF Role, SysAt, NoIp, ByName, HasDp, LinkTo, HoldDp
  <2>6. Moves(p, c)
    BY <1>1, <1>2, <2>3, RootIs DEF Moves, InCall, InDrop, B, Types
  <2> QED BY <1>1, <2>1, <2>2, <2>4, <2>5, <2>6, GoesOn
<1>4. CASE /\ ents' = [ents EXCEPT ![d][Head(k[p].path)] = None]
           /\ dinode' = [dinode EXCEPT ![d] = D]
           /\ minode' = [minode EXCEPT ![d] = D, ![i] = Loaded(i)]
           /\ valid' = valid \cup {d, i}
           /\ lock' = [lock EXCEPT ![d] = Nobody, ![i] = p]
           /\ k' = [k EXCEPT ![p].pc = "unlink_count", ![p].dp = None, ![p].drop = <<d>>]
  <2> DEFINE c == [k[p] EXCEPT !.pc = "unlink_count", !.dp = None, !.drop = <<d>>]
  <2>1. D \in Recs /\ Loaded(i) \in Recs
    BY <1>2, LoadedRec
  <2>2. Types'
    <3> HIDE DEF D, i, d
    <3> QED BY <1>1, <1>2, <1>4, <2>1 DEF Types, Places
  <2>3. c \in Callers
    <3>1. "unlink_count" \in PCs /\ None \in Places /\ <<d>> \in Seq(Inodes)
      BY <1>2, RootIs DEF PCs, LocksIp, Places
    <3> QED BY <3>1, CallerFacts DEF Callers
  <2>4. /\ c.pc = "unlink_count" /\ c.sys = k[p].sys /\ c.path = k[p].path /\ c.new = k[p].new
        /\ c.ip = k[p].ip /\ c.dp = None /\ c.drop = <<k[p].dp>> /\ c.put = k[p].put
    BY CallerFacts DEF Callers
  <2>5. k' = [k EXCEPT ![p] = c]
    BY <1>4
  <2> HIDE DEF c
  <2>6. Role(c)
    BY <1>1, <1>2, <2>4, CallerFacts DEF Role, SysAt, NoIp, ByName, HasDp, LinkTo, HoldDp
  <2>7. Moves(p, c)
    BY <1>1, <1>2, <2>4, RootIs DEF Moves, InCall, InDrop, B, Types
  <2> QED BY <1>1, <2>2, <2>3, <2>5, <2>6, <2>7, GoesOn
<1> QED BY <1>3, <1>4 DEF UnlinkEntry

LEMMA UnlinkCountGood == ASSUME Types, Roles, NEW p \in Procs, UnlinkCount(p) PROVE Good(p)
<1> DEFINE i == k[p].ip
<1>1. k[p].pc = "unlink_count" /\ k[p].drop = <<>> /\ cwd' = cwd /\ file' = file /\ ref' = ref
      /\ Return(p, <<i>>)
  BY DEF UnlinkCount, At, user
<1>2. i \in Inodes /\ k[p].dp = None
  BY <1>1, HasThem DEF NoIp, HasDp, LinkTo, HoldDp
<1>3. Links(i, -1) \in Recs
  BY <1>2, LoadedRec
<1>4. Types'
  BY <1>2, <1>3 DEF Types, UnlinkCount, Iupdate, Unlock, user
<1> QED BY <1>1, <1>2, <1>4, GivesBackOne

LEMMA UnlinkBadGood == ASSUME Types, Roles, NEW p \in Procs, UnlinkBad(p) PROVE Good(p)
<1> DEFINE d == k[p].dp
<1>1. k[p].pc = "unlink_bad" /\ k[p].drop = <<>> /\ cwd' = cwd /\ file' = file /\ ref' = ref
      /\ Return(p, <<d>>)
  BY DEF UnlinkBad, At, user
<1>2. d \in Inodes /\ k[p].ip = None
  BY <1>1, HasThem DEF NoIp, HasDp, HoldDp
<1>3. Types'
  BY <1>2 DEF Types, UnlinkBad, Unlock, disk, user
<1> QED BY <1>1, <1>2, <1>3, GivesBackOne

LEMMA CreateFindGood == ASSUME Types, Roles, NEW p \in Procs, CreateFind(p) PROVE Good(p)
<1> DEFINE d == k[p].ip
           j == ents[d][Head(k[p].path)]
<1>1. k[p].pc = "creat" /\ k[p].drop = <<>> /\ cwd' = cwd /\ file' = file
      /\ UNCHANGED <<disk, panicked>>
  BY DEF CreateFind, At, user
<1>2. d \in Inodes /\ k[p].dp = None /\ j \in Places
  BY <1>1, HasThem DEF NoIp, HasDp, LinkTo, HoldDp, ByName, Types
<1>3. CASE /\ j # None
           /\ k' = [k EXCEPT ![p].pc = "creat_found", ![p].ip = j, ![p].drop = <<d>>]
           /\ Iget(j, d) /\ UNCHANGED lock
  <2> DEFINE c == [k[p] EXCEPT !.pc = "creat_found", !.ip = j, !.drop = <<d>>]
  <2>1. j \in Inodes
    BY <1>2, <1>3 DEF Places
  <2>2. Types' /\ \A x \in Inodes : ref'[x] = ref[x] + B(x = j)
    BY <1>1, <1>2, <1>3, <2>1, IgetTypes DEF Types, disk
  <2>3. c \in Callers
    <3>1. "creat_found" \in PCs /\ j \in Places /\ <<d>> \in Seq(Inodes)
      BY <1>2 DEF PCs, LocksIp
    <3> QED BY <3>1, CallerFacts DEF Callers
  <2>4. /\ c.pc = "creat_found" /\ c.sys = k[p].sys /\ c.path = k[p].path /\ c.new = k[p].new
        /\ c.ip = j /\ c.dp = k[p].dp /\ c.drop = <<k[p].ip>> /\ c.put = k[p].put
    BY CallerFacts DEF Callers
  <2>5. k' = [k EXCEPT ![p] = c]
    BY <1>3
  <2> HIDE DEF c, j
  <2>6. Role(c)
    BY <1>1, <1>2, <2>1, <2>4, RootIs, CallerFacts DEF Role, SysAt, NoIp, ByName, HasDp, LinkTo, HoldDp
  <2>7. Moves(p, c)
    <3>1. ASSUME NEW x \in Inodes PROVE ref'[x] - ref[x] = InCall(c, x) - InCall(k[p], x)
      <4>1. ref'[x] - ref[x] = B(x = j)
        BY <2>2 DEF Types, B
      <4> QED BY <1>1, <1>2, <2>1, <2>4, <4>1, RootIs DEF InCall, InDrop, B
    <3> QED BY <3>1 DEF Moves
  <2> QED BY <1>1, <2>2, <2>3, <2>5, <2>6, <2>7, GoesOn
<1>4. CASE /\ k' = [k EXCEPT ![p].pc = "ialloc", ![p].ip = 1, ![p].dp = d]
           /\ Load(d) /\ Lock(p, d) /\ UNCHANGED ref
  <2> DEFINE c == [k[p] EXCEPT !.pc = "ialloc", !.ip = 1, !.dp = d]
  <2>1. Types'
    BY <1>1, <1>2, <1>4, LoadTypes DEF Types, Lock, disk
  <2>2. c \in Callers
    <3>1. "ialloc" \in PCs /\ 1 \in Places /\ d \in Places
      BY <1>2, RootIs DEF Root, PCs, Places
    <3> QED BY <3>1, CallerFacts DEF Callers
  <2>3. /\ c.pc = "ialloc" /\ c.sys = k[p].sys /\ c.path = k[p].path /\ c.new = k[p].new
        /\ c.ip = 1 /\ c.dp = k[p].ip /\ c.drop = <<>> /\ c.put = k[p].put
    BY <1>1, CallerFacts DEF Callers
  <2>4. k' = [k EXCEPT ![p] = c]
    BY <1>4
  <2> HIDE DEF c
  <2>5. Role(c)
    BY <1>1, <1>2, <2>3, RootIs, CallerFacts DEF Role, SysAt, NoIp, ByName, HasDp, LinkTo, HoldDp, None
  <2>6. Moves(p, c)
    BY <1>1, <1>2, <1>4, <2>3, RootIs DEF Moves, InCall, InDrop, B, Types
  <2> QED BY <1>1, <2>1, <2>2, <2>4, <2>5, <2>6, GoesOn
<1> QED BY <1>3, <1>4 DEF CreateFind

\* The process holds the inode that it opens.
LEMMA OpensFile ==
    ASSUME Types, Roles, Types', NEW p \in Procs, k' = [k EXCEPT ![p].pc = "open_fd"],
           k[p].pc \in {"creat_found", "open", "open_w"}, k[p].sys \in {"creat", "open", "open_w"},
           k[p].drop = <<>>, cwd' = cwd, file' = file, ref' = ref
    PROVE  Good(p)
<1> DEFINE c == [k[p] EXCEPT !.pc = "open_fd"]
<1>1. c \in Callers
  <2>1. "open_fd" \in PCs
    BY DEF PCs
  <2> QED BY <2>1, CallerFacts DEF Callers
<1>2. /\ c.pc = "open_fd" /\ c.sys = k[p].sys /\ c.path = k[p].path /\ c.new = k[p].new
      /\ c.ip = k[p].ip /\ c.dp = k[p].dp /\ c.drop = k[p].drop /\ c.put = k[p].put
  BY CallerFacts DEF Callers
<1>3. k' = [k EXCEPT ![p] = c]
  OBVIOUS
<1> HIDE DEF c
<1>4. Role(c)
  BY <1>2, CallerFacts DEF Role, SysAt, NoIp, ByName, HasDp, LinkTo, HoldDp
<1>5. Moves(p, c)
  BY <1>2 DEF Moves, InCall, InDrop, B, Types
<1> QED BY <1>1, <1>3, <1>4, <1>5, GoesOn

LEMMA CreateFoundGood == ASSUME Types, Roles, NEW p \in Procs, CreateFound(p) PROVE Good(p)
<1> DEFINE i == k[p].ip
<1>1. k[p].pc = "creat_found" /\ k[p].drop = <<>> /\ cwd' = cwd /\ file' = file /\ ref' = ref
      /\ Load(i) /\ UNCHANGED <<disk, panicked>>
  BY DEF CreateFound, At, user
<1>2. i \in Inodes /\ k[p].dp = None
  BY <1>1, HasThem DEF NoIp, HasDp, LinkTo, HoldDp
<1>3. Lock(p, i) \/ UNCHANGED lock => Types'
  BY <1>1, <1>2, LoadedTypes
<1>4. CASE k[p].sys = "creat" /\ Lock(p, i) /\ k' = [k EXCEPT ![p].pc = "open_fd"]
  BY <1>1, <1>3, <1>4, OpensFile
<1>5. CASE Return(p, <<i>>) /\ UNCHANGED lock
  BY <1>1, <1>2, <1>3, <1>5, GivesBackOne
<1> QED BY <1>4, <1>5 DEF CreateFound

LEMMA IallocGood == ASSUME Types, Roles, NEW p \in Procs, Ialloc(p) PROVE Good(p)
<1> DEFINE i == k[p].ip
           inode == [type |-> IF k[p].sys = "mkdir" THEN "dir" ELSE "file", nlink |-> 0]
<1>1. k[p].pc = "ialloc" /\ k[p].drop = <<>> /\ cwd' = cwd /\ file' = file /\ ref' = ref
      /\ UNCHANGED <<ents, lost, icache, panicked>>
  BY DEF Ialloc, At, user, icache
<1>2. i \in Inodes
  BY <1>1, HasThem DEF NoIp
<1>3. inode \in Recs
  BY DEF Recs
<1>4. ASSUME NEW l \in {"ialloc", "ialloc_iget"}, NEW j \in Inodes, Types',
             k' = [k EXCEPT ![p] = [k[p] EXCEPT !.pc = l, !.ip = j]]
      PROVE  Good(p)
  <2> DEFINE c == [k[p] EXCEPT !.pc = l, !.ip = j]
  <2>1. c \in Callers
    <3>1. l \in PCs /\ j \in Places
      BY <1>4 DEF PCs, Places
    <3> QED BY <3>1, CallerFacts DEF Callers
  <2>2. /\ c.pc = l /\ c.sys = k[p].sys /\ c.path = k[p].path /\ c.new = k[p].new
        /\ c.ip = j /\ c.dp = k[p].dp /\ c.drop = k[p].drop /\ c.put = k[p].put
    BY CallerFacts DEF Callers
  <2>3. k' = [k EXCEPT ![p] = c]
    BY <1>4
  <2> HIDE DEF c
  <2>4. Role(c)
    BY <1>1, <2>2, RootIs, CallerFacts DEF Role, SysAt, NoIp, ByName, HasDp, LinkTo, HoldDp
  <2>5. Moves(p, c)
    BY <1>1, <2>2, RootIs DEF Moves, InCall, InDrop, B, Types
  <2> QED BY <1>1, <1>4, <2>1, <2>3, <2>4, <2>5, GoesOn
<1>5. CASE dinode' = [dinode EXCEPT ![i] = inode] /\ k' = [k EXCEPT ![p].pc = "ialloc_iget"]
  <2>1. k' = [k EXCEPT ![p] = [k[p] EXCEPT !.pc = "ialloc_iget", !.ip = i]]
    <3>1. k[p] \in Callers
      BY CallerFacts
    <3>2. [k[p] EXCEPT !.pc = "ialloc_iget"] = [k[p] EXCEPT !.pc = "ialloc_iget", !.ip = i]
      BY <3>1 DEF Callers
    <3> QED BY <1>5, <3>2
  <2> HIDE DEF i, inode
  <2>2. Types'
    BY <1>1, <1>2, <1>3, <1>5 DEF Types, icache
  <2> QED BY <1>2, <1>4, <2>1, <2>2
<1>6. CASE i < NINODES /\ k' = [k EXCEPT ![p].ip = @ + 1] /\ dinode' = dinode
  <2>1. i + 1 \in Inodes
    BY <1>2, <1>6, InodeConstants DEF Inodes
  <2>2. k' = [k EXCEPT ![p] = [k[p] EXCEPT !.pc = "ialloc", !.ip = i + 1]]
    <3>1. k[p] \in Callers
      BY CallerFacts
    <3>2. [k[p] EXCEPT !.ip = @ + 1] = [k[p] EXCEPT !.pc = "ialloc", !.ip = i + 1]
      BY <1>1, <3>1 DEF Callers
    <3> QED BY <1>6, <3>2
  <2> HIDE DEF i
  <2>3. Types'
    BY <1>1, <1>6 DEF Types, icache
  <2> QED BY <1>4, <2>1, <2>2, <2>3
<1> QED BY <1>5, <1>6 DEF Ialloc

LEMMA IallocIgetGood == ASSUME Types, Roles, NEW p \in Procs, IallocIget(p) PROVE Good(p)
<1> DEFINE i == k[p].ip
           c == [k[p] EXCEPT !.pc = "creat_ip"]
<1>1. k[p].pc = "ialloc_iget" /\ k[p].drop = <<>> /\ cwd' = cwd /\ file' = file
      /\ Iget(i, k[p].dp) /\ UNCHANGED <<disk, lock, panicked>>
  BY DEF IallocIget, At, user
<1>2. i \in Inodes /\ k[p].dp \in Inodes
  BY <1>1, HasThem DEF NoIp, HasDp, HoldDp
<1>3. Types' /\ \A x \in Inodes : ref'[x] = ref[x] + B(x = i)
  BY <1>1, <1>2, IgetTypes DEF Types, disk
<1>4. c \in Callers
  <2>1. "creat_ip" \in PCs
    BY DEF PCs, LocksIp
  <2> QED BY <2>1, CallerFacts DEF Callers
<1>5. /\ c.pc = "creat_ip" /\ c.sys = k[p].sys /\ c.path = k[p].path /\ c.new = k[p].new
      /\ c.ip = k[p].ip /\ c.dp = k[p].dp /\ c.drop = k[p].drop /\ c.put = k[p].put
  BY CallerFacts DEF Callers
<1>6. k' = [k EXCEPT ![p] = c]
  BY DEF IallocIget
<1> HIDE DEF c
<1>7. Role(c)
  BY <1>1, <1>5, CallerFacts DEF Role, SysAt, NoIp, ByName, HasDp, LinkTo, HoldDp
<1>8. Moves(p, c)
  BY <1>1, <1>3, <1>5 DEF Moves, InCall, InDrop, B, Types
<1> QED BY <1>1, <1>3, <1>4, <1>6, <1>7, <1>8, GoesOn

LEMMA CreateEntryGood == ASSUME Types, Roles, NEW p \in Procs, CreateEntry(p) PROVE Good(p)
<1> DEFINE i == k[p].ip
           d == k[p].dp
           I == [Loaded(i) EXCEPT !.nlink = 1]
           D == IF k[p].sys = "mkdir" THEN Links(d, 1) ELSE Loaded(d)
           dots == [ents[i] EXCEPT !["."] = i, ![".."] = d]
           l == IF k[p].sys = "mkdir" THEN "mkdir_end" ELSE "open_fd"
           c == [k[p] EXCEPT !.pc = l, !.dp = None, !.drop = <<d>>]
<1>1. k[p].pc = "creat_ip" /\ k[p].drop = <<>> /\ cwd' = cwd /\ file' = file /\ ref' = ref
      /\ UNCHANGED <<lost, panicked>>
  BY DEF CreateEntry, At, user
<1>2. i \in Inodes /\ d \in Inodes /\ Head(k[p].path) \in Names
  BY <1>1, HasThem DEF NoIp, HasDp, HoldDp, ByName
<1>3. I \in Recs /\ D \in Recs
  <2>1. Loaded(i) \in Recs /\ D \in Recs
    BY <1>2, LoadedRec
  <2> QED BY <2>1 DEF Recs
<1>4. Types'
  <2>1. /\ dinode' = [dinode EXCEPT ![i] = I, ![d] = D]
        /\ minode' = [minode EXCEPT ![i] = I, ![d] = D]
        /\ valid' = valid \cup {i, d}
        /\ lock' = [lock EXCEPT ![i] = p, ![d] = Nobody]
        /\ ents' = [ents EXCEPT ![i] = IF k[p].sys = "mkdir" THEN dots ELSE ents[i],
                                ![d][Head(k[p].path)] = i]
    BY DEF CreateEntry
  <2>2. dots \in [Names -> Places] /\ ents[i] \in [Names -> Places]
    BY <1>2 DEF Types, Places
  <2> HIDE DEF I, D, dots
  <2>3. ents' \in [Inodes -> [Names -> Places]]
    BY <1>2, <2>1, <2>2 DEF Types, Places
  <2> QED BY <1>1, <1>2, <1>3, <2>1, <2>3 DEF Types
<1>5. c \in Callers
  <2>1. l \in PCs /\ None \in Places /\ <<d>> \in Seq(Inodes)
    BY <1>2 DEF PCs, Places
  <2> QED BY <2>1, CallerFacts DEF Callers
<1>6. /\ c.pc = l /\ c.sys = k[p].sys /\ c.path = k[p].path /\ c.new = k[p].new
      /\ c.ip = k[p].ip /\ c.dp = None /\ c.drop = <<k[p].dp>> /\ c.put = k[p].put
  BY CallerFacts DEF Callers
<1>7. k' = [k EXCEPT ![p] = c]
  BY DEF CreateEntry
<1> HIDE DEF c
<1>8. Role(c)
  BY <1>1, <1>2, <1>6, CallerFacts DEF Role, SysAt, NoIp, ByName, HasDp, LinkTo, HoldDp
<1>9. Moves(p, c)
  BY <1>1, <1>2, <1>6, RootIs DEF Moves, InCall, InDrop, B, Types
<1> QED BY <1>1, <1>4, <1>5, <1>7, <1>8, <1>9, GoesOn

LEMMA MkdirEndGood == ASSUME Types, Roles, NEW p \in Procs, MkdirEnd(p) PROVE Good(p)
<1> DEFINE i == k[p].ip
<1>1. k[p].pc = "mkdir_end" /\ k[p].drop = <<>> /\ cwd' = cwd /\ file' = file /\ ref' = ref
      /\ Return(p, <<i>>)
  BY DEF MkdirEnd, At, user
<1>2. i \in Inodes /\ k[p].dp = None
  BY <1>1, HasThem DEF NoIp, HasDp, LinkTo, HoldDp
<1>3. Types'
  BY <1>2 DEF Types, MkdirEnd, Unlock, disk, user
<1> QED BY <1>1, <1>2, <1>3, GivesBackOne

LEMMA OpenLockGood == ASSUME Types, Roles, NEW p \in Procs, OpenLock(p) PROVE Good(p)
<1> DEFINE i == k[p].ip
<1>1. k[p].pc \in {"open", "open_w"} /\ k[p].drop = <<>> /\ cwd' = cwd /\ file' = file /\ ref' = ref
      /\ Load(i) /\ UNCHANGED <<disk, panicked>>
  BY DEF OpenLock, At, user
<1>2. i \in Inodes /\ k[p].dp = None
  BY <1>1, HasThem DEF NoIp, HasDp, LinkTo, HoldDp
<1>3. Lock(p, i) \/ UNCHANGED lock => Types'
  BY <1>1, <1>2, LoadedTypes
<1>4. CASE Lock(p, i) /\ k' = [k EXCEPT ![p].pc = "open_fd"]
  <2>1. k[p].sys \in {"creat", "open", "open_w"}
    BY <1>1, CallerFacts DEF Role, SysAt
  <2> QED BY <1>1, <1>3, <1>4, <2>1, OpensFile
<1>5. CASE Return(p, <<i>>) /\ UNCHANGED lock
  BY <1>1, <1>2, <1>3, <1>5, GivesBackOne
<1> QED BY <1>4, <1>5 DEF OpenLock

LEMMA OpenFdGood == ASSUME Types, Roles, NEW p \in Procs, OpenFd(p) PROVE Good(p)
<1> DEFINE i == k[p].ip
<1>1. k[p].pc = "open_fd" /\ k[p].drop = <<>> /\ cwd' = cwd /\ ref' = ref
      /\ Unlock(i) /\ UNCHANGED <<disk, valid, minode, panicked>>
  BY DEF OpenFd, At, user
<1>2. i \in Inodes /\ k[p].dp = None
  BY <1>1, HasThem DEF NoIp, HasDp, LinkTo, HoldDp
<1>3. file' \in [Procs -> Places] => Types'
  BY <1>1, <1>2 DEF Types, Unlock, disk
<1>4. CASE file[p] = None /\ file' = [file EXCEPT ![p] = i] /\ Return(p, <<>>)
  <2>1. Types'
    BY <1>2, <1>3, <1>4 DEF Types, Places
  <2>2. file'[p] = i /\ \A q \in Procs \ {p} : cwd'[q] = cwd[q] /\ file'[q] = file[q]
    BY <1>1, <1>4 DEF Types
  <2>3. ASSUME NEW x \in Inodes
        PROVE  InDrop(<<>>, x) + B(cwd'[p] = x) + B(file'[p] = x)
                   = InCall(k[p], x) + B(cwd[p] = x) + B(file[p] = x)
    BY <1>1, <1>2, <1>4, <2>2, RootIs DEF InDrop, InCall, B
  <2>4. <<>> \in Seq(Inodes) /\ Len(<<>>) <= 2
    OBVIOUS
  <2>5. Return(p, <<>>)
    BY <1>4
  <2> HIDE DEF Return, i
  <2> QED BY <1>1, <2>1, <2>2, <2>3, <2>4, <2>5, EndsWith
<1>5. CASE Return(p, <<i>>) /\ UNCHANGED file
  <2>1. Types'
    BY <1>3, <1>5 DEF Types
  <2> QED BY <1>1, <1>2, <1>5, <2>1, GivesBackOne
<1> QED BY <1>4, <1>5 DEF OpenFd

LEMMA CloseGood == ASSUME Types, Roles, NEW p \in Procs, Close(p) PROVE Good(p)
<1> DEFINE f == file[p]
<1>1. k[p].pc = "idle" /\ k[p].drop = <<>> /\ cwd' = cwd /\ ref' = ref /\ f # None
      /\ file' = [file EXCEPT ![p] = None] /\ Return(p, <<f>>)
      /\ UNCHANGED <<disk, icache, panicked>>
  BY DEF Close, At, icache
<1>2. k[p].ip = None /\ k[p].dp = None /\ f \in Inodes
  <2>1. f \in Inodes
    BY <1>1 DEF Types, Places
  <2> QED BY <1>1, <2>1, CallerFacts DEF Role, NoIp, HasDp, LinkTo, HoldDp
<1>3. Types'
  BY <1>1 DEF Types, Places, disk, icache
<1>4. file'[p] = None /\ \A q \in Procs \ {p} : cwd'[q] = cwd[q] /\ file'[q] = file[q]
  BY <1>1 DEF Types
<1>5. ASSUME NEW x \in Inodes
      PROVE  InDrop(<<f>>, x) + B(cwd'[p] = x) + B(file'[p] = x)
                 = InCall(k[p], x) + B(cwd[p] = x) + B(file[p] = x)
  BY <1>1, <1>2, <1>4, RootIs DEF InDrop, InCall, B
<1>6. <<f>> \in Seq(Inodes) /\ Len(<<f>>) <= 2
  BY <1>2
<1>7. ref' = ref /\ Return(p, <<f>>)
  BY <1>1
<1>8. \A x \in Inodes : InDrop(<<f>>, x) + B(cwd'[p] = x) + B(file'[p] = x)
                 = InCall(k[p], x) + B(cwd[p] = x) + B(file[p] = x)
  BY <1>5
<1> HIDE DEF Return, f
<1> QED BY <1>3, <1>4, <1>6, <1>7, <1>8, EndsWith

LEMMA ChdirGood == ASSUME Types, Roles, NEW p \in Procs, Chdir(p) PROVE Good(p)
<1> DEFINE i == k[p].ip
           w == cwd[p]
<1>1. k[p].pc = "chdir" /\ k[p].drop = <<>> /\ file' = file /\ ref' = ref
      /\ Load(i) /\ UNCHANGED <<disk, lock, panicked>>
  BY DEF Chdir, At
<1>2. i \in Inodes /\ k[p].dp = None /\ w \in Inodes
  BY <1>1, HasThem DEF NoIp, HasDp, LinkTo, HoldDp, Types
<1>3. cwd' \in [Procs -> Inodes] => Types'
  BY <1>1, <1>2, LoadTypes DEF Types, disk
<1>4. CASE cwd' = [cwd EXCEPT ![p] = i] /\ Return(p, <<w>>)
  <2>1. Types'
    BY <1>2, <1>3, <1>4 DEF Types
  <2>2. cwd'[p] = i /\ \A q \in Procs \ {p} : cwd'[q] = cwd[q] /\ file'[q] = file[q]
    BY <1>1, <1>4 DEF Types
  <2>3. ASSUME NEW x \in Inodes
        PROVE  InDrop(<<w>>, x) + B(cwd'[p] = x) + B(file'[p] = x)
                   = InCall(k[p], x) + B(cwd[p] = x) + B(file[p] = x)
    BY <1>1, <1>2, <1>4, <2>2, RootIs DEF InDrop, InCall, B
  <2>4. <<w>> \in Seq(Inodes) /\ Len(<<w>>) <= 2
    BY <1>2
  <2>5. ref' = ref /\ Return(p, <<w>>)
    BY <1>1, <1>4
  <2> HIDE DEF Return, w, i
  <2> QED BY <2>1, <2>2, <2>3, <2>4, <2>5, EndsWith
<1>5. CASE Return(p, <<i>>) /\ UNCHANGED cwd
  <2>1. Types'
    BY <1>3, <1>5 DEF Types
  <2> QED BY <1>1, <1>2, <1>5, <2>1, GivesBackOne
<1> QED BY <1>4, <1>5 DEF Chdir
-----------------------------------------------------------------------------
(* References are counted.                                                 *)

CallStep(p) == \/ \E r \in Requests : Begin(p, r)
               \/ Iput(p) \/ Visit(p) \/ Link(p) \/ Unlink(p) \/ Create(p) \/ Files(p)

LEMMA CallGood == ASSUME Types, Roles, NEW p \in Procs, CallStep(p) PROVE Good(p)
BY BeginGood, IputGood, VisitGood, LinkCountGood, LinkEntryGood, LinkBadGood, LinkUndoGood,
   UnlinkFindGood, UnlinkEntryGood, UnlinkCountGood, UnlinkBadGood, CreateFindGood,
   CreateFoundGood, IallocGood, IallocIgetGood, CreateEntryGood, MkdirEndGood, OpenLockGood,
   OpenFdGood, CloseGood, ChdirGood DEF CallStep, Link, Unlink, Create, Files

RefInv == Types /\ Roles /\ RefCounts

LEMMA Stays ==
    ASSUME RefInv, UNCHANGED <<disk, icache, user, k>>, panicked' \in BOOLEAN
    PROVE  RefInv'
<1>1. Types'
  BY DEF RefInv, Types, disk, icache, user
<1>2. Roles'
  BY DEF RefInv, Roles
<1>3. \A p \in Procs, s \in Slots : Use(p, s)' = Use(p, s)
  BY DEF Use, user
<1>4. \A i \in Inodes : RefsTo(i)' = RefsTo(i)
  BY <1>3 DEF RefsTo
<1> QED BY <1>1, <1>2, <1>4 DEF RefInv, RefCounts, icache

LEMMA RefInvNext == RefInv /\ [Next]_vars => RefInv'
<1> SUFFICES ASSUME RefInv, [Next]_vars PROVE RefInv'
  OBVIOUS
<1>1. ASSUME NEW p \in Procs, CallStep(p) PROVE RefInv'
  <2>1. Good(p)
    BY <1>1, CallGood DEF RefInv
  <2>2. ref \in [Inodes -> Int] /\ ref' \in [Inodes -> Int]
    BY <2>1 DEF RefInv, Good, Types
  <2>3. RefCounts'
    BY <2>1, <2>2, RefStep DEF RefInv, Good
  <2> QED BY <2>1, <2>3 DEF RefInv, Good
<1>2. ASSUME NEW p \in Procs, Panic(p) PROVE RefInv'
  BY <1>2, Stays DEF Panic
<1>3. CASE UNCHANGED vars
  BY <1>3, Stays DEF vars, RefInv, Types
<1> QED BY <1>1, <1>2, <1>3 DEF Next, Halted, CallStep

LEMMA RefInvInit == Init => RefInv
<1> SUFFICES ASSUME Init PROVE RefInv
  OBVIOUS
<1>1. FreeInode \in Recs /\ [type |-> "dir", nlink |-> 1] \in Recs /\ NoEnts \in [Names -> Places]
  BY DEF FreeInode, Recs, NoEnts, Places
<1>2. Cardinality(Procs) \in Nat
  BY InodeConstants, FS_CardinalityType
<1>3. Types
  <2>1. [n \in Names |-> IF n \in Plain THEN None ELSE Root] \in [Names -> Places]
    BY RootIs DEF Places
  <2>2. ents \in [Inodes -> [Names -> Places]]
    BY <1>1, <2>1 DEF Init
  <2>3. dinode \in [Inodes -> Recs] /\ minode \in [Inodes -> Recs]
    BY <1>1 DEF Init
  <2>4. ref \in [Inodes -> Int] /\ lost \in [Inodes -> Nat]
    BY <1>2 DEF Init
  <2>5. lock \in [Inodes -> Procs \cup {Nobody}] /\ valid \in SUBSET Inodes /\ panicked \in BOOLEAN
    BY DEF Init
  <2>6. cwd \in [Procs -> Inodes] /\ file \in [Procs -> Places]
    BY RootIs DEF Init, Places
  <2> QED BY <2>2, <2>3, <2>4, <2>5, <2>6 DEF Types
<1>4. Roles
  BY RootIs DEF Init, Roles, Role, Idle, SysAt, NoIp, HasDp, LinkTo, HoldDp, ByName
<1>5. ASSUME NEW i \in Inodes PROVE ref[i] = RefsTo(i)
  <2> DEFINE U == {u \in Procs \X Slots : Use(u[1], u[2]) = i}
  <2>1. \A p \in Procs : /\ Use(p, "cwd") = Root /\ Use(p, "file") = None /\ Use(p, "ip") = None
                         /\ Use(p, "dp") = None /\ Use(p, "drop") = None /\ Use(p, "drop2") = None
    BY DEF Init, Use, Idle
  <2>2. i # None
    BY RootIs
  <2>3. CASE i # Root
    <3>1. U = {}
      BY <2>1, <2>2, <2>3 DEF Slots
    <3>2. RefsTo(i) = 0
      BY <3>1, FS_EmptySet DEF RefsTo
    <3> QED BY <2>3, <3>2 DEF Init
  <2>4. CASE i = Root
    <3> DEFINE f == [p \in Procs |-> <<p, "cwd">>]
    <3>1. U = {u \in Procs \X Slots : u[2] = "cwd"}
      BY <2>1, <2>2, <2>4 DEF Slots
    <3>2. f \in Bijection(Procs, U)
      <4>1. f \in [Procs -> U]
        BY <3>1 DEF Slots
      <4>2. \A p, q \in Procs : f[p] = f[q] => p = q
        OBVIOUS
      <4>3. \A u \in U : \E p \in Procs : f[p] = u
        BY <3>1
      <4> HIDE DEF f, U
      <4> QED BY <4>1, <4>2, <4>3, Zenon DEF Bijection, Injection, Surjection, IsInjective
    <3>3. Cardinality(U) = Cardinality(Procs)
      <4>1. ExistsBijection(Procs, U)
        BY <3>2 DEF ExistsBijection
      <4> QED BY <4>1, FS_Bijection, InodeConstants
    <3> QED BY <2>4, <3>3 DEF Init, RefsTo
  <2> QED BY <2>3, <2>4
<1> QED BY <1>3, <1>4, <1>5 DEF RefInv, RefCounts

\* What each point of a system call relies on: which inodes the call has there, in
\* which roles, and that each of them is counted once in ref.
THEOREM RefInvariant == Spec => []RefInv
<1> QED BY RefInvInit, RefInvNext, PTL DEF Spec

\* However many processes are in whichever calls, and however those fail, the
\* ref of an inode is the number of its uses: none is leaked, and none is given
\* back twice.
THEOREM ReferencesAreCounted == Spec => []RefCounts
<1>1. RefInv => RefCounts
  BY DEF RefInv
<1> QED BY <1>1, RefInvariant, PTL
-----------------------------------------------------------------------------
(* Locks: who has one, and what is then in the cache.                      *)

Clears(c) == c.put \in {"free", "clear"}

\* A process at c has inode i locked.
Holds(c, i) == \/ c.pc \in HoldIp /\ c.ip = i
               \/ c.pc \in HoldDp /\ c.dp = i
               \/ Clears(c) /\ Head(c.drop) = i

\* iput has not locked what the call had.
Apart(c) == Clears(c) => /\ c.pc \in HoldIp => c.ip # Head(c.drop)
                         /\ c.pc \in HoldDp => c.dp # Head(c.drop)

LockInv == \A p \in Procs : Apart(k[p]) /\ \A i \in Inodes : lock[i] = p <=> Holds(k[p], i)

Clearing(i) == \E p \in Procs : k[p].put = "clear" /\ Head(k[p].drop) = i

\* A locked inode is in the cache; an inode that is in the cache is there as it is
\* on the disk, and in use on it, but for one that iput is about to take out.
InCache(i) == /\ lock[i] # Nobody => i \in valid
              /\ i \in valid /\ ~Clearing(i) => minode[i] = dinode[i] /\ dinode[i].type # "free"

CacheInv == \A i \in Inodes : InCache(i)

Fine == RefInv /\ LockInv /\ CacheInv

LEMMA FineTypes == Fine => Types /\ Roles /\ RefCounts /\ LockInv /\ CacheInv
  BY DEF Fine, RefInv

LEMMA InUse ==
    ASSUME Fine, NEW p \in Procs, NEW i \in Inodes, Own(p, i) > 0
    PROVE  ref[i] > 0
<1>1. ref[i] = Cardinality(Others(p, i)) + Own(p, i) /\ Cardinality(Others(p, i)) \in Nat
  BY CountOwn DEF Fine, RefInv, RefCounts
<1>2. Own(p, i) \in Int
  BY DEF Own, InCall, InDrop, B
<1> QED BY <1>1, <1>2

LEMMA OwnsIp ==
    ASSUME Fine, NEW p \in Procs, NEW i \in Inodes,
           \/ k[p].ip = i /\ k[p].pc \notin {"ialloc", "ialloc_iget"}
           \/ k[p].dp = i
           \/ k[p].drop # <<>> /\ Head(k[p].drop) = i
    PROVE  ref[i] > 0
<1>1. k[p].drop # <<>> => Head(k[p].drop) = k[p].drop[1] /\ Len(k[p].drop) > 0
  BY CallerFacts, TailFacts DEF Fine, RefInv
<1>2. Own(p, i) > 0
  BY <1>1 DEF Own, InCall, InDrop, B
<1> QED BY <1>2, InUse

LEMMA HeldIsUsed ==
    ASSUME Fine, NEW i \in Inodes, lock[i] # Nobody
    PROVE  i \in valid /\ ref[i] > 0
<1>1. i \in valid
  BY DEF Fine, CacheInv, InCache
<1>2. lock[i] \in Procs
  BY DEF Fine, RefInv, Types
<1> DEFINE q == lock[i]
<1>3. Holds(k[q], i) /\ Role(k[q])
  BY <1>2, CallerFacts DEF Fine, RefInv, LockInv
<1>4. \/ k[q].ip = i /\ k[q].pc \notin {"ialloc", "ialloc_iget"}
      \/ k[q].dp = i
      \/ k[q].drop # <<>> /\ Head(k[q].drop) = i
  BY <1>3 DEF Holds, HoldIp, Clears, Role
<1> HIDE DEF q
<1>5. q \in Procs
  BY <1>2 DEF q
<1> QED BY <1>1, <1>4, <1>5, OwnsIp

LEMMA ClearingIsHeld ==
    ASSUME Fine, NEW i \in Inodes, NEW q \in Procs, k[q].put = "clear", Head(k[q].drop) = i
    PROVE  lock[i] = q
BY DEF Fine, LockInv, Holds, Clears

\* ilock finds what is on the disk.
LEMMA FreeLock ==
    ASSUME Fine, NEW i \in Inodes, CanLock(i)
    PROVE  Loaded(i) = dinode[i] /\ dinode[i].type # "free" /\ lock[i] = Nobody
<1>1. lock[i] = Nobody
  BY DEF CanLock
<1>2. ~Clearing(i)
  BY <1>1, ClearingIsHeld, InodeConstants DEF Clearing
<1> QED BY <1>1, <1>2 DEF Fine, CacheInv, InCache, CanLock, Loaded

LEMMA MyLock ==
    ASSUME Fine, NEW p \in Procs, NEW i \in Inodes, Holds(k[p], i), k[p].put = "check"
    PROVE  /\ lock[i] = p /\ i \in valid /\ Loaded(i) = dinode[i] /\ minode[i] = dinode[i]
           /\ dinode[i].type # "free"
<1>1. lock[i] = p
  BY DEF Fine, LockInv
<1>2. i \in valid
  BY <1>1, InodeConstants DEF Fine, CacheInv, InCache
<1>3. ~Clearing(i)
  BY <1>1, ClearingIsHeld DEF Clearing
<1> QED BY <1>1, <1>2, <1>3 DEF Fine, CacheInv, InCache, Loaded

\* A step of p changes only the locks p has, or takes.
Locked(p) ==
    /\ Apart(k'[p])
    /\ \A x \in Inodes : /\ lock'[x] = p <=> Holds(k'[p], x)
                         /\ lock'[x] = p => lock[x] \in {p, Nobody}
                         /\ lock'[x] # p => \/ lock'[x] = lock[x]
                                            \/ lock[x] = p /\ lock'[x] = Nobody

LEMMA LockStep ==
    ASSUME LockInv, NEW p \in Procs, Alone(p), Locked(p)
    PROVE  LockInv'
<1>1. ASSUME NEW q \in Procs, q # p, NEW x \in Inodes
      PROVE  Apart(k'[q]) /\ (lock'[x] = q <=> Holds(k'[q], x))
  <2>1. k'[q] = k[q] /\ Apart(k[q]) /\ (lock[x] = q <=> Holds(k[q], x))
    BY <1>1 DEF Alone, LockInv
  <2>2. lock'[x] = q <=> lock[x] = q
    BY <1>1, InodeConstants DEF Locked
  <2> QED BY <2>1, <2>2
<1>2. Root \in Inodes
  BY RootIs
<1> QED BY <1>1, <1>2 DEF LockInv, Locked

\* What the step does to the cached inodes.
Clean(x) == x \in valid' /\ minode'[x] = dinode'[x] /\ dinode'[x].type # "free"

Kept(x) == /\ minode'[x] = minode[x] /\ dinode'[x] = dinode[x]
           /\ x \in valid' => x \in valid
           /\ x \in valid => x \in valid' \/ ref[x] = 0
           /\ lock'[x] # Nobody => lock[x] # Nobody

Cached(p) == /\ k[p].put # "clear" /\ k'[p].put # "clear"
             /\ \A x \in Inodes : Clean(x) \/ Kept(x)

LEMMA CacheStep ==
    ASSUME Fine, NEW p \in Procs, Alone(p), Cached(p)
    PROVE  CacheInv'
<1> SUFFICES ASSUME NEW x \in Inodes PROVE InCache(x)'
  BY DEF CacheInv
<1>1. Clearing(x)' <=> Clearing(x)
  BY DEF Clearing, Alone, Cached
<1>2. CASE Clean(x)
  BY <1>2 DEF Clean, InCache
<1>3. CASE Kept(x)
  <2>1. InCache(x)
    BY DEF Fine, CacheInv
  <2>2. lock[x] # Nobody => ref[x] # 0
    <3>1. lock[x] # Nobody => ref[x] > 0
      BY HeldIsUsed
    <3> QED BY <3>1 DEF Fine, RefInv, Types
  <2> QED BY <1>1, <1>3, <2>1, <2>2 DEF Kept, InCache
<1> QED BY <1>2, <1>3 DEF Cached

\* The locks p has after the step, by those it had.
Keeps(p)    == ~Clears(k'[p]) /\ \A x \in Inodes : Holds(k'[p], x) <=> Holds(k[p], x)
Takes(p, i) == Apart(k'[p]) /\ \A x \in Inodes : Holds(k'[p], x) <=> Holds(k[p], x) \/ x = i
Gives(p, i) == ~Clears(k'[p]) /\ \A x \in Inodes : Holds(k'[p], x) <=> Holds(k[p], x) /\ x # i

LEMMA KeepsLocked ==
    ASSUME Fine, NEW p \in Procs, lock' = lock, Keeps(p)
    PROVE  Locked(p)
BY DEF Fine, LockInv, Locked, Keeps, Apart

LEMMA TakesLocked ==
    ASSUME Fine, NEW p \in Procs, NEW i \in Inodes, lock[i] = Nobody, Lock(p, i), Takes(p, i)
    PROVE  Locked(p)
<1>1. \A x \in Inodes : lock'[x] = IF x = i THEN p ELSE lock[x]
  BY DEF Fine, RefInv, Types, Lock
<1> QED BY <1>1 DEF Fine, LockInv, Locked, Takes

LEMMA GivesLocked ==
    ASSUME Fine, NEW p \in Procs, NEW i \in Inodes, Holds(k[p], i), Unlock(i), Gives(p, i)
    PROVE  Locked(p)
<1>1. \A x \in Inodes : lock'[x] = IF x = i THEN Nobody ELSE lock[x]
  BY DEF Fine, RefInv, Types, Unlock
<1> QED BY <1>1, InodeConstants DEF Fine, LockInv, Locked, Gives, Apart

\* The step locks at most i.
Only(i) == \A x \in Inodes : lock'[x] # Nobody => lock[x] # Nobody \/ x = i

NoClear(p) == k[p].put # "clear" /\ k'[p].put # "clear"

LEMMA QuietCached ==
    ASSUME NEW p \in Procs, NoClear(p), UNCHANGED <<valid, minode, dinode>>, Only(None)
    PROVE  Cached(p)
BY RootIs DEF Cached, Kept, Only, NoClear

LEMMA LoadCached ==
    ASSUME Fine, NEW p \in Procs, NEW i \in Inodes, CanLock(i), Load(i), dinode' = dinode,
           NoClear(p), Only(i)
    PROVE  Cached(p)
<1>1. Clean(i)
  BY FreeLock DEF Load, Clean, Fine, RefInv, Types
<1>2. ASSUME NEW x \in Inodes, x # i PROVE Kept(x)
  BY <1>2 DEF Load, Kept, Only, Fine, RefInv, Types
<1> QED BY <1>1, <1>2 DEF Cached, NoClear

LEMMA IgetCached ==
    ASSUME Fine, NEW p \in Procs, NEW i \in Inodes, NEW j \in Inodes, Iget(j, i), dinode' = dinode,
           CanLock(i) \/ (Holds(k[p], i) /\ k[p].put = "check"), ref[i] > 0, NoClear(p), Only(i)
    PROVE  Cached(p)
<1>1. Clean(i)
  <2>1. Loaded(i) = dinode[i] /\ dinode[i].type # "free"
    BY FreeLock, MyLock
  <2>2. ref[i] # 0
    BY DEF Fine, RefInv, Types
  <2> QED BY <2>1, <2>2 DEF Iget, Clean, Fine, RefInv, Types
<1>2. ASSUME NEW x \in Inodes, x # i PROVE Kept(x)
  BY <1>2 DEF Iget, Kept, Only, Fine, RefInv, Types
<1> QED BY <1>1, <1>2 DEF Cached, NoClear

LEMMA Over ==
    ASSUME Roles, NEW p \in Procs, NEW s, Return(p, s)
    PROVE  /\ k'[p].pc = "idle" /\ k'[p].put = "check" /\ Apart(k'[p]) /\ ~Clears(k'[p])
           /\ \A x \in Inodes : ~Holds(k'[p], x)
<1>1. k'[p] = [Idle EXCEPT !.drop = s]
  BY DEF Return, Roles
<1> QED BY <1>1 DEF Idle, Apart, Clears, Holds, HoldIp, HoldDp

\* Between the locks of a call.
LEMMA Calm ==
    ASSUME Roles, NEW p \in Procs, k[p].drop = <<>>
    PROVE  k[p].put = "check" /\ ~Clears(k[p])
BY CallerFacts DEF Role, Clears

Safe(p) == Locked(p) /\ Cached(p)

LEMMA BeginSafe == ASSUME Fine, NEW p \in Procs, NEW r \in Requests, Begin(p, r) PROVE Safe(p)
<1> DEFINE i == Start(p, r.abs)
<1>1. i \in Inodes
  BY RootIs DEF Fine, RefInv, Types, Start
<1>2. k[p].pc = "idle" /\ k[p].put = "check" /\ lock' = lock
  BY Calm DEF Begin, At, Fine, RefInv
<1>3. /\ k'[p].put = "check"
      /\ k'[p].pc \in {"nameiparent", "namei", r.sys}
  BY DEF Begin, Found, Fine, RefInv, Roles, Idle
<1>4. r.sys \notin HoldIp \cup HoldDp
  <2>1. r.sys \in {"open", "open_w", "creat", "mkdir", "link", "unlink", "chdir"}
    BY InodeConstants
  <2> QED BY <2>1 DEF HoldIp, HoldDp
<1>5. Keeps(p)
  BY <1>2, <1>3, <1>4 DEF Keeps, Holds, Clears, HoldIp, HoldDp
<1>6. Locked(p)
  BY <1>2, <1>5, KeepsLocked
<1>7. \A x \in Inodes : Kept(x)
  BY <1>1, <1>2 DEF Begin, Kept, disk
<1> QED BY <1>2, <1>3, <1>6, <1>7 DEF Safe, Cached

LEMMA NoPathSafe ==
    ASSUME Fine, NEW p \in Procs, NEW i \in Inodes, NoPath(p, i), k[p].drop = <<>>
    PROVE  /\ k'[p].put = "check" /\ ~Clears(k'[p]) /\ \A x \in Inodes : ~Holds(k'[p], x)
<1>1. CASE k[p].dp = None
  BY <1>1, Over DEF NoPath, Fine, RefInv
<1>2. CASE k[p].dp # None
  <2>1. k'[p].pc = "bad" /\ k'[p].put = k[p].put
    BY <1>2, CallerFacts DEF NoPath, Fine, RefInv, Roles, Callers
  <2> QED BY <2>1, Calm DEF Fine, RefInv, Holds, HoldIp, HoldDp, Clears
<1> QED BY <1>1, <1>2

LEMMA VisitSafe == ASSUME Fine, NEW p \in Procs, Visit(p) PROVE Safe(p)
<1> DEFINE i == k[p].ip
           next == ents[i][Head(k[p].path)]
           rest == Tail(k[p].path)
<1>1. /\ k[p].pc \in {"namei", "nameiparent"} /\ k[p].drop = <<>> /\ k[p].put = "check"
      /\ lock' = lock /\ dinode' = dinode /\ CanLock(i)
  BY Calm DEF Visit, At, Fine, RefInv, disk
<1>2. i \in Inodes /\ Head(k[p].path) \in Names /\ next \in Places
  BY <1>1, HasThem DEF NoIp, ByName, Fine, RefInv, Types
<1>3. \A x \in Inodes : ~Holds(k[p], x)
  BY <1>1 DEF Holds, HoldIp, HoldDp, Clears
<1>4. Only(i)
  BY <1>1 DEF Only
<1>5. CASE NoPath(p, i) /\ Load(i)
  <2>1. k'[p].put = "check" /\ ~Clears(k'[p]) /\ \A x \in Inodes : ~Holds(k'[p], x)
    BY <1>1, <1>2, <1>5, NoPathSafe
  <2>2. Locked(p)
    BY <1>1, <1>3, <2>1, KeepsLocked DEF Keeps
  <2>3. Cached(p)
    BY <1>1, <1>2, <1>4, <1>5, <2>1, LoadCached DEF NoClear
  <2> QED BY <2>2, <2>3 DEF Safe
<1>6. CASE k[p].pc = "nameiparent" /\ Load(i) /\ k' = [k EXCEPT ![p].pc = FoundParent(k[p].sys)]
  <2>1. k'[p].put = "check" /\ k'[p].pc = FoundParent(k[p].sys)
    BY <1>1, <1>6, CallerFacts DEF Fine, RefInv, Roles, Callers
  <2>2. k'[p].pc \notin HoldIp \cup HoldDp
    <3>1. k[p].sys \in ByParent \cup {"link"}
      BY <1>6, CallerFacts DEF Fine, RefInv, Role, SysAt
    <3> QED BY <2>1, <3>1 DEF FoundParent, ByParent, HoldIp, HoldDp
  <2>3. Locked(p)
    BY <1>1, <1>3, <2>1, <2>2, KeepsLocked DEF Keeps, Holds, Clears
  <2>4. Cached(p)
    BY <1>1, <1>2, <1>4, <1>6, <2>1, LoadCached DEF NoClear
  <2> QED BY <2>3, <2>4 DEF Safe
<1>7. CASE /\ next # None /\ Iget(next, i)
           /\ k' = [k EXCEPT ![p].pc = IF @ = "namei" THEN Found(k[p].sys, rest) ELSE @,
                             ![p].path = rest, ![p].ip = next, ![p].drop = <<i>>]
  <2>1. k'[p].put = "check" /\ k'[p].pc \in {"nameiparent", "namei", k[p].sys}
    BY <1>1, <1>7, CallerFacts DEF Fine, RefInv, Roles, Callers, Found
  <2>2. k'[p].pc \notin HoldIp \cup HoldDp
    <3>1. k[p].sys \in ByParent \cup {"link", "open", "open_w", "chdir"}
      BY <1>1, CallerFacts DEF Fine, RefInv, Role, SysAt
    <3> QED BY <2>1, <3>1 DEF ByParent, HoldIp, HoldDp
  <2>3. Locked(p)
    BY <1>1, <1>3, <2>1, <2>2, KeepsLocked DEF Keeps, Holds, Clears
  <2>4. next \in Inodes
    BY <1>2, <1>7 DEF Places
  <2>5. ref[i] > 0
    BY <1>1, <1>2, OwnsIp
  <2>6. Cached(p)
    BY <1>1, <1>2, <1>4, <1>7, <2>1, <2>4, <2>5, IgetCached DEF NoClear
  <2> QED BY <2>3, <2>6 DEF Safe
<1> QED BY <1>5, <1>6, <1>7 DEF Visit

LEMMA IputSafe ==
    ASSUME Fine, NEW p \in Procs, Iput(p), Alone(p)
    PROVE  Locked(p) /\ CacheInv'
<1> DEFINE i == Head(k[p].drop)
<1>1. k[p].drop # <<>> /\ i \in Inodes /\ Apart(k[p])
  BY CallerFacts DEF Fine, RefInv, LockInv, Iput, IputCheck, IputFree, IputClear, IputUnref, At_iput
<1>2. CASE IputCheck(p)
  <2>1. k[p].put = "check" /\ lock[i] = Nobody /\ UNCHANGED <<valid, minode, dinode>>
    BY <1>2 DEF IputCheck, At_iput, disk
  <2>2. CASE Lock(p, i) /\ k' = [k EXCEPT ![p].put = "free"]
    <3>1. /\ k'[p].put = "free" /\ k'[p].drop = k[p].drop
          /\ k'[p].pc = k[p].pc /\ k'[p].ip = k[p].ip /\ k'[p].dp = k[p].dp
      BY <2>2, CallerFacts DEF Fine, RefInv, Roles, Callers
    <3>2. ~Holds(k[p], i)
      BY <1>1, <2>1, InodeConstants DEF Fine, LockInv
    <3>3. Apart(k'[p])
      BY <3>1, <3>2 DEF Apart, Holds
    <3>4. Takes(p, i)
      BY <2>1, <3>1, <3>3 DEF Takes, Holds, Clears
    <3>5. Locked(p)
      BY <1>1, <2>1, <2>2, <3>4, TakesLocked
    <3>6. NoClear(p)
      BY <2>1, <3>1 DEF NoClear
    <3>7. CacheInv'
      <4>1. \A q \in Procs : k'[q].put = "clear" <=> k[q].put = "clear"
        BY <3>6 DEF NoClear, Alone
      <4>2. \A x \in Inodes : Clearing(x)' <=> Clearing(x)
        BY <3>6 DEF NoClear, Alone, Clearing
      <4>3. lock' = [lock EXCEPT ![i] = p]
        BY <2>2 DEF Lock
      <4>4. i \in valid
        <5>1. k' # [k EXCEPT ![p].put = "unref"]
          BY <3>1 DEF Fine, RefInv, Roles, Callers
        <5> QED BY <1>2, <5>1 DEF IputCheck, LastReference
      <4> HIDE DEF i
      <4>5. \A x \in Inodes : lock'[x] # Nobody => lock[x] # Nobody \/ x = i
        BY <4>3 DEF Fine, RefInv, Types
      <4>6. ASSUME NEW x \in Inodes PROVE InCache(x)'
        <5>1. InCache(x)
          BY DEF Fine, CacheInv
        <5> QED BY <2>1, <4>2, <4>4, <4>5, <5>1 DEF InCache
      <4> QED BY <4>6 DEF CacheInv
    <3> QED BY <3>5, <3>7
  <2>3. CASE UNCHANGED lock /\ k' = [k EXCEPT ![p].put = "unref"]
    <3>1. /\ k'[p].put = "unref"
          /\ k'[p].pc = k[p].pc /\ k'[p].ip = k[p].ip /\ k'[p].dp = k[p].dp
      BY <2>3, CallerFacts DEF Fine, RefInv, Roles, Callers
    <3>2. Keeps(p)
      BY <2>1, <3>1 DEF Keeps, Holds, Clears
    <3>3. Locked(p)
      BY <2>3, <3>2, KeepsLocked
    <3>4. Cached(p)
      BY <2>1, <2>3, <3>1, QuietCached DEF NoClear, Only
    <3> QED BY <3>3, <3>4, CacheStep
  <2> QED BY <1>2, <2>2, <2>3 DEF IputCheck
<1>3. CASE IputFree(p)
  <2>1. /\ k[p].put = "free" /\ k' = [k EXCEPT ![p].put = "clear"] /\ lock' = lock
        /\ Iupdate(i, FreeInode)
    BY <1>3 DEF IputFree, At_iput
  <2>2. /\ k'[p].put = "clear" /\ k'[p].drop = k[p].drop
        /\ k'[p].pc = k[p].pc /\ k'[p].ip = k[p].ip /\ k'[p].dp = k[p].dp
    BY <2>1, CallerFacts DEF Fine, RefInv, Roles, Callers
  <2>3. Locked(p)
    BY <1>1, <2>1, <2>2 DEF Locked, Fine, LockInv, Apart, Holds, Clears
  <2>4. ASSUME NEW x \in Inodes PROVE InCache(x)'
    <3>1. InCache(x)
      BY DEF Fine, CacheInv
    <3>2. CASE x = i
      <4>1. Clearing(x)'
        BY <2>2, <3>2 DEF Clearing
      <4> QED BY <2>1, <3>2, <4>1 DEF InCache, Iupdate
    <3>3. CASE x # i
      <4>1. Clearing(x)' <=> Clearing(x)
        BY <2>1, <2>2, <3>3 DEF Clearing, Alone
      <4>2. minode'[x] = minode[x] /\ dinode'[x] = dinode[x] /\ (x \in valid' <=> x \in valid)
        BY <2>1, <3>3 DEF Iupdate, Fine, RefInv, Types
      <4> QED BY <2>1, <3>1, <4>1, <4>2 DEF InCache
    <3> QED BY <3>2, <3>3
  <2> QED BY <2>3, <2>4 DEF CacheInv
<1>4. CASE IputClear(p)
  <2>1. /\ k[p].put = "clear" /\ k' = [k EXCEPT ![p].put = "unref"] /\ Unlock(i)
        /\ valid' = valid \ {i} /\ UNCHANGED <<minode, dinode>>
    BY <1>4 DEF IputClear, At_iput, Invalidated, disk
  <2>2. /\ k'[p].put = "unref"
        /\ k'[p].pc = k[p].pc /\ k'[p].ip = k[p].ip /\ k'[p].dp = k[p].dp
    BY <2>1, CallerFacts DEF Fine, RefInv, Roles, Callers
  <2>3. Holds(k[p], i)
    BY <2>1 DEF Holds, Clears
  <2>4. Gives(p, i)
    BY <1>1, <2>1, <2>2 DEF Gives, Holds, Clears, Apart
  <2>5. Locked(p)
    BY <1>1, <2>1, <2>3, <2>4, GivesLocked
  <2>6. ASSUME NEW x \in Inodes PROVE InCache(x)'
    <3>1. InCache(x)
      BY DEF Fine, CacheInv
    <3>2. CASE x = i
      BY <2>1, <3>2 DEF InCache, Unlock, Fine, RefInv, Types
    <3>3. CASE x # i
      <4>1. Clearing(x)' <=> Clearing(x)
        BY <2>1, <2>2, <3>3 DEF Clearing, Alone
      <4>2. lock'[x] = lock[x]
        BY <2>1, <3>3 DEF Unlock, Fine, RefInv, Types
      <4> QED BY <2>1, <3>1, <3>3, <4>1, <4>2 DEF InCache
    <3> QED BY <3>2, <3>3
  <2> QED BY <2>5, <2>6 DEF CacheInv
<1>5. CASE IputUnref(p)
  <2>1. /\ k[p].put = "unref" /\ k' = [k EXCEPT ![p].drop = Tail(@), ![p].put = "check"]
        /\ UNCHANGED <<lock, valid, minode, dinode>>
    BY <1>5 DEF IputUnref, At_iput, disk
  <2>2. /\ k'[p].put = "check"
        /\ k'[p].pc = k[p].pc /\ k'[p].ip = k[p].ip /\ k'[p].dp = k[p].dp
    BY <2>1, CallerFacts DEF Fine, RefInv, Roles, Callers
  <2>3. Keeps(p)
    BY <2>1, <2>2 DEF Keeps, Holds, Clears
  <2>4. Locked(p)
    BY <2>1, <2>3, KeepsLocked
  <2>5. Cached(p)
    BY <2>1, <2>2, QuietCached DEF NoClear, Only
  <2> QED BY <2>4, <2>5, CacheStep
<1> QED BY <1>2, <1>3, <1>4, <1>5 DEF Iput

LEMMA LinkCountSafe == ASSUME Fine, NEW p \in Procs, LinkCount(p) PROVE Safe(p)
<1> DEFINE i == k[p].ip
           s == Start(p, k[p].abs)
<1>1. k[p].pc = "link" /\ k[p].drop = <<>> /\ k[p].put = "check" /\ lock' = lock /\ CanLock(i)
  BY Calm DEF LinkCount, At, Fine, RefInv
<1>2. i \in Inodes
  BY <1>1, HasThem DEF NoIp, Fine, RefInv
<1>3. \A x \in Inodes : ~Holds(k[p], x)
  BY <1>1 DEF Holds, HoldIp, HoldDp, Clears
<1>4. Only(i)
  BY <1>1 DEF Only
<1>5. CASE Return(p, <<i>>) /\ Load(i) /\ UNCHANGED dinode
  <2>1. k'[p].put = "check" /\ ~Clears(k'[p]) /\ \A x \in Inodes : ~Holds(k'[p], x)
    BY <1>5, Over DEF Fine, RefInv
  <2>2. Locked(p)
    BY <1>1, <1>3, <2>1, KeepsLocked DEF Keeps
  <2>3. Cached(p)
    BY <1>1, <1>2, <1>4, <1>5, <2>1, LoadCached DEF NoClear
  <2> QED BY <2>2, <2>3 DEF Safe
<1>6. CASE /\ minode' = [minode EXCEPT ![i] = LinkAdded(i)]
           /\ dinode' = [dinode EXCEPT ![i] = LinkAdded(i)]
           /\ valid' = (valid \cup {i}) \ (IF ref[s] = 0 THEN {s} ELSE {})
           /\ k' = [k EXCEPT ![p].pc = "nameiparent", ![p].path = k[p].new, ![p].ip = s, ![p].dp = i]
  <2>1. k'[p].put = "check" /\ k'[p].pc = "nameiparent"
    BY <1>1, <1>6, CallerFacts DEF Fine, RefInv, Roles, Callers
  <2>2. Locked(p)
    BY <1>1, <1>3, <2>1, KeepsLocked DEF Keeps, Holds, HoldIp, HoldDp, Clears
  <2>3. LinkAdded(i).type = Loaded(i).type /\ Loaded(i).type # "free" /\ ref[i] # 0
    <3>1. Loaded(i) \in Recs
      BY <1>2, LoadedRec DEF Fine, RefInv
    <3>2. ref[i] > 0
      BY <1>1, <1>2, OwnsIp
    <3>3. Loaded(i).type # "free"
      BY <1>1, <1>2, FreeLock
    <3> QED BY <1>2, <3>1, <3>2, <3>3 DEF LinkAdded, Links, Recs, Fine, RefInv, Types
  <2>4. Clean(i)
    BY <1>2, <1>6, <2>3 DEF Clean, Fine, RefInv, Types
  <2>5. ASSUME NEW x \in Inodes, x # i PROVE Kept(x)
    BY <1>1, <1>6, <2>5 DEF Kept, Fine, RefInv, Types
  <2>6. Cached(p)
    BY <1>1, <2>1, <2>4, <2>5 DEF Cached
  <2> QED BY <2>2, <2>6 DEF Safe
<1> QED BY <1>5, <1>6 DEF LinkCount

LEMMA LinkEntrySafe == ASSUME Fine, NEW p \in Procs, LinkEntry(p) PROVE Safe(p)
<1> DEFINE d == k[p].ip
           j == ents[d][Head(k[p].path)]
<1>1. k[p].pc = "linkdir" /\ k[p].drop = <<>> /\ k[p].put = "check" /\ dinode' = dinode /\ CanLock(d)
  BY Calm DEF LinkEntry, At, Fine, RefInv
<1>2. d \in Inodes /\ j \in Places
  BY <1>1, HasThem DEF NoIp, ByName, Fine, RefInv, Types
<1>3. \A x \in Inodes : ~Holds(k[p], x)
  BY <1>1 DEF Holds, HoldIp, HoldDp, Clears
<1>4. CASE Return(p, <<d, k[p].dp>>) /\ Load(d) /\ UNCHANGED lock
  <2>1. k'[p].put = "check" /\ ~Clears(k'[p]) /\ \A x \in Inodes : ~Holds(k'[p], x)
    BY <1>4, Over DEF Fine, RefInv
  <2>2. Locked(p)
    BY <1>3, <1>4, <2>1, KeepsLocked DEF Keeps
  <2>3. Cached(p)
    BY <1>1, <1>2, <1>4, <2>1, LoadCached DEF NoClear, Only
  <2> QED BY <2>2, <2>3 DEF Safe
<1>5. CASE /\ j # None /\ Iget(j, d) /\ Lock(p, d)
           /\ k' = [k EXCEPT ![p].pc = "linkbad", ![p].drop = <<j>>]
  <2>1. k'[p].put = "check" /\ k'[p].pc = "linkbad" /\ k'[p].ip = d
    BY <1>1, <1>5, CallerFacts DEF Fine, RefInv, Roles, Callers
  <2>2. Takes(p, d)
    BY <1>3, <2>1 DEF Takes, Apart, Holds, HoldIp, HoldDp, Clears
  <2>3. Locked(p)
    BY <1>1, <1>2, <1>5, <2>2, TakesLocked DEF CanLock
  <2>4. j \in Inodes /\ ref[d] > 0 /\ Only(d)
    BY <1>1, <1>2, <1>5, OwnsIp DEF Places, Lock, Only, Fine, RefInv, Types
  <2>5. Cached(p)
    BY <1>1, <1>2, <1>5, <2>1, <2>4, IgetCached DEF NoClear
  <2> QED BY <2>3, <2>5 DEF Safe
<1> QED BY <1>4, <1>5 DEF LinkEntry

LEMMA LinkBadSafe == ASSUME Fine, NEW p \in Procs, LinkBad(p) PROVE Safe(p)
<1> DEFINE d == k[p].ip
<1>1. /\ k[p].pc = "linkbad" /\ k[p].drop = <<>> /\ k[p].put = "check" /\ Unlock(d) /\ NoPath(p, d)
      /\ UNCHANGED <<valid, minode, dinode>>
  BY Calm DEF LinkBad, At, Fine, RefInv, disk
<1>2. d \in Inodes
  BY <1>1, HasThem DEF NoIp, Fine, RefInv
<1>3. \A x \in Inodes : Holds(k[p], x) <=> x = d
  BY <1>1 DEF Holds, HoldIp, HoldDp, Clears
<1>4. k'[p].put = "check" /\ ~Clears(k'[p]) /\ \A x \in Inodes : ~Holds(k'[p], x)
  BY <1>1, <1>2, NoPathSafe
<1>5. Locked(p)
  BY <1>1, <1>2, <1>3, <1>4, GivesLocked DEF Gives
<1>6. Only(None)
  BY <1>1, <1>2 DEF Only, Unlock, Fine, RefInv, Types
<1>7. Cached(p)
  BY <1>1, <1>4, <1>6, QuietCached DEF NoClear
<1> QED BY <1>5, <1>7 DEF Safe

LEMMA IupdateCached ==
    ASSUME Fine, NEW p \in Procs, NEW i \in Inodes, NEW inode, Iupdate(i, inode),
           inode.type # "free", NoClear(p), Only(i)
    PROVE  Cached(p)
<1>1. Clean(i)
  BY DEF Iupdate, Clean, Fine, RefInv, Types
<1>2. ASSUME NEW x \in Inodes, x # i PROVE Kept(x)
  BY <1>2 DEF Iupdate, Kept, Only, Fine, RefInv, Types
<1> QED BY <1>1, <1>2 DEF Cached, NoClear

LEMMA LinksType ==
    ASSUME Fine, NEW i \in Inodes, NEW n \in Int
    PROVE  Links(i, n).type = Loaded(i).type
<1>1. Loaded(i) \in Recs
  BY LoadedRec DEF Fine, RefInv
<1> QED BY <1>1 DEF Links, Recs

LEMMA LinkUndoSafe == ASSUME Fine, NEW p \in Procs, LinkUndo(p) PROVE Safe(p)
<1> DEFINE i == k[p].ip
<1>1. /\ k[p].pc = "bad" /\ k[p].drop = <<>> /\ k[p].put = "check" /\ CanLock(i) /\ lock' = lock
      /\ Iupdate(i, Links(i, -1)) /\ Return(p, <<i>>)
  BY Calm DEF LinkUndo, At, Fine, RefInv
<1>2. i \in Inodes
  BY <1>1, HasThem DEF NoIp, Fine, RefInv
<1>3. \A x \in Inodes : ~Holds(k[p], x)
  BY <1>1 DEF Holds, HoldIp, HoldDp, Clears
<1>4. k'[p].put = "check" /\ ~Clears(k'[p]) /\ \A x \in Inodes : ~Holds(k'[p], x)
  BY <1>1, Over DEF Fine, RefInv
<1>5. Locked(p)
  BY <1>1, <1>3, <1>4, KeepsLocked DEF Keeps
<1>6. Links(i, -1).type # "free"
  BY <1>1, <1>2, FreeLock, LinksType
<1>7. Cached(p)
  BY <1>1, <1>2, <1>4, <1>6, IupdateCached DEF NoClear, Only
<1> QED BY <1>5, <1>7 DEF Safe

LEMMA UnlinkFindSafe == ASSUME Fine, NEW p \in Procs, UnlinkFind(p) PROVE Safe(p)
<1> DEFINE d == k[p].ip
           j == ents[d][Head(k[p].path)]
<1>1. k[p].pc = "unlink" /\ k[p].drop = <<>> /\ k[p].put = "check" /\ dinode' = dinode /\ CanLock(d)
  BY Calm DEF UnlinkFind, At, Fine, RefInv, disk
<1>2. d \in Inodes /\ j \in Places
  BY <1>1, HasThem DEF NoIp, ByName, Fine, RefInv, Types
<1>3. \A x \in Inodes : ~Holds(k[p], x)
  BY <1>1 DEF Holds, HoldIp, HoldDp, Clears
<1>4. CASE Return(p, <<d>>) /\ Load(d) /\ UNCHANGED lock
  <2>1. k'[p].put = "check" /\ ~Clears(k'[p]) /\ \A x \in Inodes : ~Holds(k'[p], x)
    BY <1>4, Over DEF Fine, RefInv
  <2>2. Locked(p)
    BY <1>3, <1>4, <2>1, KeepsLocked DEF Keeps
  <2>3. Cached(p)
    BY <1>1, <1>2, <1>4, <2>1, LoadCached DEF NoClear, Only
  <2> QED BY <2>2, <2>3 DEF Safe
<1>5. CASE /\ j # None /\ Iget(j, d) /\ Lock(p, d)
           /\ k' = [k EXCEPT ![p].pc = "unlink_ip", ![p].ip = j, ![p].dp = d]
  <2>1. k'[p].put = "check" /\ k'[p].pc = "unlink_ip" /\ k'[p].dp = d
    BY <1>1, <1>5, CallerFacts DEF Fine, RefInv, Roles, Callers
  <2>2. Takes(p, d)
    BY <1>3, <2>1 DEF Takes, Apart, Holds, HoldIp, HoldDp, Clears
  <2>3. Locked(p)
    BY <1>1, <1>2, <1>5, <2>2, TakesLocked DEF CanLock
  <2>4. j \in Inodes /\ ref[d] > 0 /\ Only(d)
    BY <1>1, <1>2, <1>5, OwnsIp DEF Places, Lock, Only, Fine, RefInv, Types
  <2>5. Cached(p)
    BY <1>1, <1>2, <1>5, <2>1, <2>4, IgetCached DEF NoClear
  <2> QED BY <2>3, <2>5 DEF Safe
<1> QED BY <1>4, <1>5 DEF UnlinkFind

LEMMA UnlinkEntrySafe == ASSUME Fine, NEW p \in Procs, UnlinkEntry(p) PROVE Safe(p)
<1> DEFINE i == k[p].ip
           d == k[p].dp
           D == IF Loaded(i).type = "dir" THEN Links(d, -1) ELSE Loaded(d)
<1>1. k[p].pc = "unlink_ip" /\ k[p].drop = <<>> /\ k[p].put = "check" /\ CanLock(i)
  BY Calm DEF UnlinkEntry, At, Fine, RefInv
<1>2. i \in Inodes /\ d \in Inodes
  BY <1>1, HasThem DEF NoIp, HasDp, HoldDp, Fine, RefInv
<1>3. \A x \in Inodes : Holds(k[p], x) <=> x = d
  BY <1>1 DEF Holds, HoldIp, HoldDp, Clears
<1>4. /\ lock[d] = p /\ lock[i] = Nobody /\ i # d
      /\ Loaded(i) = dinode[i] /\ dinode[i].type # "free"
      /\ Loaded(d) = dinode[d] /\ dinode[d].type # "free"
  BY <1>1, <1>2, <1>3, FreeLock, MyLock, InodeConstants
<1>5. CASE /\ k' = [k EXCEPT ![p].pc = "unlink_bad", ![p].ip = None, ![p].drop = <<i>>]
           /\ Load(i) /\ UNCHANGED <<dinode, ents, lock>>
  <2>1. k'[p].put = "check" /\ k'[p].pc = "unlink_bad" /\ k'[p].dp = d
    BY <1>1, <1>5, CallerFacts DEF Fine, RefInv, Roles, Callers
  <2>2. Locked(p)
    BY <1>3, <1>5, <2>1, KeepsLocked DEF Keeps, Holds, HoldIp, HoldDp, Clears
  <2>3. Cached(p)
    BY <1>1, <1>2, <1>5, <2>1, LoadCached DEF NoClear, Only
  <2> QED BY <2>2, <2>3 DEF Safe
<1>6. CASE /\ dinode' = [dinode EXCEPT ![d] = D]
           /\ minode' = [minode EXCEPT ![d] = D, ![i] = Loaded(i)]
           /\ valid' = valid \cup {d, i}
           /\ lock' = [lock EXCEPT ![d] = Nobody, ![i] = p]
           /\ k' = [k EXCEPT ![p].pc = "unlink_count", ![p].dp = None, ![p].drop = <<d>>]
  <2>1. k'[p].put = "check" /\ k'[p].pc = "unlink_count" /\ k'[p].ip = i
    BY <1>1, <1>6, CallerFacts DEF Fine, RefInv, Roles, Callers
  <2>2. \A x \in Inodes : Holds(k'[p], x) <=> x = i
    BY <2>1 DEF Holds, HoldIp, HoldDp, Clears
  <2>3. \A x \in Inodes : lock'[x] = IF x = i THEN p ELSE IF x = d THEN Nobody ELSE lock[x]
    BY <1>2, <1>4, <1>6 DEF Fine, RefInv, Types
  <2>4. Locked(p)
    <3>1. Apart(k'[p])
      BY <2>1 DEF Apart, Clears
    <3>2. \A x \in Inodes : lock[x] = p <=> x = d
      BY <1>3 DEF Fine, LockInv
    <3> QED BY <1>4, <2>2, <2>3, <3>1, <3>2, InodeConstants DEF Locked
  <2>5. D.type # "free"
    BY <1>2, <1>4, LinksType
  <2>6. Clean(i) /\ Clean(d)
    BY <1>2, <1>4, <1>6, <2>5 DEF Clean, Fine, RefInv, Types
  <2>7. ASSUME NEW x \in Inodes, x # i, x # d PROVE Kept(x)
    BY <1>6, <2>3, <2>7 DEF Kept, Fine, RefInv, Types
  <2>8. Cached(p)
    BY <1>1, <2>1, <2>6, <2>7 DEF Cached
  <2> QED BY <2>4, <2>8 DEF Safe
<1> QED BY <1>5, <1>6 DEF UnlinkEntry

LEMMA UnlinkCountSafe == ASSUME Fine, NEW p \in Procs, UnlinkCount(p) PROVE Safe(p)
<1> DEFINE i == k[p].ip
<1>1. /\ k[p].pc = "unlink_count" /\ k[p].drop = <<>> /\ k[p].put = "check"
      /\ Iupdate(i, Links(i, -1)) /\ Unlock(i) /\ Return(p, <<i>>)
  BY Calm DEF UnlinkCount, At, Fine, RefInv
<1>2. i \in Inodes
  BY <1>1, HasThem DEF NoIp, Fine, RefInv
<1>3. \A x \in Inodes : Holds(k[p], x) <=> x = i
  BY <1>1 DEF Holds, HoldIp, HoldDp, Clears
<1>4. k'[p].put = "check" /\ ~Clears(k'[p]) /\ \A x \in Inodes : ~Holds(k'[p], x)
  BY <1>1, Over DEF Fine, RefInv
<1>5. Locked(p)
  BY <1>1, <1>2, <1>3, <1>4, GivesLocked DEF Gives
<1>6. Links(i, -1).type # "free"
  BY <1>1, <1>2, <1>3, MyLock, LinksType
<1>7. Only(i)
  BY <1>1, <1>2 DEF Only, Unlock, Fine, RefInv, Types
<1>8. Cached(p)
  BY <1>1, <1>2, <1>4, <1>6, <1>7, IupdateCached DEF NoClear
<1> QED BY <1>5, <1>8 DEF Safe

\* The call ends, or goes on, and gives back the lock it has.
LEMMA UnlocksSafe ==
    ASSUME Fine, NEW p \in Procs, NEW i \in Inodes, NEW s, Holds(k[p], i), Unlock(i), Return(p, s),
           k[p].drop = <<>>, k[p].pc \in HoldIp => k[p].ip = i, k[p].pc \in HoldDp => k[p].dp = i,
           UNCHANGED <<valid, minode, dinode>>
    PROVE  Safe(p)
<1>1. k[p].put = "check" /\ \A x \in Inodes : Holds(k[p], x) <=> x = i
  BY Calm DEF Fine, RefInv, Holds, Clears
<1>2. k'[p].put = "check" /\ ~Clears(k'[p]) /\ \A x \in Inodes : ~Holds(k'[p], x)
  BY Over DEF Fine, RefInv
<1>3. Locked(p)
  BY <1>1, <1>2, GivesLocked DEF Gives
<1>4. Only(None)
  BY DEF Only, Unlock, Fine, RefInv, Types
<1>5. Cached(p)
  BY <1>1, <1>2, <1>4, QuietCached DEF NoClear
<1> QED BY <1>3, <1>5 DEF Safe

LEMMA UnlinkBadSafe == ASSUME Fine, NEW p \in Procs, UnlinkBad(p) PROVE Safe(p)
<1> DEFINE d == k[p].dp
<1>1. /\ k[p].pc = "unlink_bad" /\ k[p].drop = <<>> /\ Unlock(d) /\ Return(p, <<d>>)
      /\ UNCHANGED <<valid, minode, dinode>>
  BY DEF UnlinkBad, At, disk
<1>2. d \in Inodes
  BY <1>1, HasThem DEF HasDp, HoldDp, Fine, RefInv
<1>3. Holds(k[p], d) /\ k[p].pc \notin HoldIp
  BY <1>1 DEF Holds, HoldDp, HoldIp
<1> QED BY <1>1, <1>2, <1>3, UnlocksSafe

LEMMA MkdirEndSafe == ASSUME Fine, NEW p \in Procs, MkdirEnd(p) PROVE Safe(p)
<1> DEFINE i == k[p].ip
<1>1. /\ k[p].pc = "mkdir_end" /\ k[p].drop = <<>> /\ Unlock(i) /\ Return(p, <<i>>)
      /\ UNCHANGED <<valid, minode, dinode>>
  BY DEF MkdirEnd, At, disk
<1>2. i \in Inodes
  BY <1>1, HasThem DEF NoIp, Fine, RefInv
<1>3. Holds(k[p], i) /\ k[p].pc \notin HoldDp
  BY <1>1 DEF Holds, HoldDp, HoldIp
<1> QED BY <1>1, <1>2, <1>3, UnlocksSafe

LEMMA OpenFdSafe == ASSUME Fine, NEW p \in Procs, OpenFd(p) PROVE Safe(p)
<1> DEFINE i == k[p].ip
<1>1. /\ k[p].pc = "open_fd" /\ k[p].drop = <<>> /\ Unlock(i) /\ (Return(p, <<>>) \/ Return(p, <<i>>))
      /\ UNCHANGED <<valid, minode, dinode>>
  BY DEF OpenFd, At, disk
<1>2. i \in Inodes
  BY <1>1, HasThem DEF NoIp, Fine, RefInv
<1>3. Holds(k[p], i) /\ k[p].pc \notin HoldDp
  BY <1>1 DEF Holds, HoldDp, HoldIp
<1> QED BY <1>1, <1>2, <1>3, UnlocksSafe

LEMMA CreateFindSafe == ASSUME Fine, NEW p \in Procs, CreateFind(p) PROVE Safe(p)
<1> DEFINE d == k[p].ip
           j == ents[d][Head(k[p].path)]
<1>1. k[p].pc = "creat" /\ k[p].drop = <<>> /\ k[p].put = "check" /\ dinode' = dinode /\ CanLock(d)
  BY Calm DEF CreateFind, At, Fine, RefInv, disk
<1>2. d \in Inodes /\ j \in Places
  BY <1>1, HasThem DEF NoIp, ByName, Fine, RefInv, Types
<1>3. \A x \in Inodes : ~Holds(k[p], x)
  BY <1>1 DEF Holds, HoldIp, HoldDp, Clears
<1>4. CASE /\ j # None /\ Iget(j, d) /\ UNCHANGED lock
           /\ k' = [k EXCEPT ![p].pc = "creat_found", ![p].ip = j, ![p].drop = <<d>>]
  <2>1. k'[p].put = "check" /\ k'[p].pc = "creat_found"
    BY <1>1, <1>4, CallerFacts DEF Fine, RefInv, Roles, Callers
  <2>2. Locked(p)
    BY <1>3, <1>4, <2>1, KeepsLocked DEF Keeps, Holds, HoldIp, HoldDp, Clears
  <2>3. j \in Inodes /\ ref[d] > 0 /\ Only(d)
    BY <1>1, <1>2, <1>4, OwnsIp DEF Places, Only
  <2>4. Cached(p)
    BY <1>1, <1>2, <1>4, <2>1, <2>3, IgetCached DEF NoClear
  <2> QED BY <2>2, <2>4 DEF Safe
<1>5. CASE /\ k' = [k EXCEPT ![p].pc = "ialloc", ![p].ip = 1, ![p].dp = d]
           /\ Load(d) /\ Lock(p, d)
  <2>1. k'[p].put = "check" /\ k'[p].pc = "ialloc" /\ k'[p].dp = d
    BY <1>1, <1>5, CallerFacts DEF Fine, RefInv, Roles, Callers
  <2>2. Takes(p, d)
    BY <1>3, <2>1 DEF Takes, Apart, Holds, HoldIp, HoldDp, Clears
  <2>3. Locked(p)
    BY <1>1, <1>2, <1>5, <2>2, TakesLocked DEF CanLock
  <2>4. Only(d)
    BY <1>2, <1>5 DEF Lock, Only, Fine, RefInv, Types
  <2>5. Cached(p)
    BY <1>1, <1>2, <1>5, <2>1, <2>4, LoadCached DEF NoClear
  <2> QED BY <2>3, <2>5 DEF Safe
<1> QED BY <1>4, <1>5 DEF CreateFind

\* ilock, and the call ends or goes on with or without the lock.
LEMMA OpensSafe ==
    ASSUME Fine, NEW p \in Procs, NEW i \in Inodes, k[p].ip = i, k[p].drop = <<>>,
           k[p].pc \in LocksIp \ HoldDp, CanLock(i), Load(i), dinode' = dinode,
           \/ Lock(p, i) /\ k' = [k EXCEPT ![p].pc = "open_fd"]
           \/ UNCHANGED lock /\ \E s \in Seq(Inodes) : Return(p, s)
    PROVE  Safe(p)
<1>1. k[p].put = "check" /\ \A x \in Inodes : ~Holds(k[p], x)
  BY Calm DEF Holds, LocksIp, HoldIp, HoldDp, Clears, Fine, RefInv
<1>2. CASE Lock(p, i) /\ k' = [k EXCEPT ![p].pc = "open_fd"]
  <2>1. k'[p].put = "check" /\ k'[p].pc = "open_fd" /\ k'[p].ip = i
    BY <1>1, <1>2, CallerFacts DEF Fine, RefInv, Roles, Callers
  <2>2. Takes(p, i)
    BY <1>1, <2>1 DEF Takes, Apart, Holds, HoldIp, HoldDp, Clears
  <2>3. Locked(p)
    BY <1>2, <2>2, TakesLocked DEF CanLock
  <2>4. Only(i)
    BY <1>2 DEF Lock, Only, Fine, RefInv, Types
  <2>5. Cached(p)
    BY <1>1, <2>1, <2>4, LoadCached DEF NoClear
  <2> QED BY <2>3, <2>5 DEF Safe
<1>3. ASSUME UNCHANGED lock, NEW s \in Seq(Inodes), Return(p, s) PROVE Safe(p)
  <2>1. k'[p].put = "check" /\ ~Clears(k'[p]) /\ \A x \in Inodes : ~Holds(k'[p], x)
    BY <1>3, Over DEF Fine, RefInv
  <2>2. Locked(p)
    BY <1>1, <1>3, <2>1, KeepsLocked DEF Keeps
  <2>3. Cached(p)
    BY <1>1, <1>3, <2>1, LoadCached DEF NoClear, Only
  <2> QED BY <2>2, <2>3 DEF Safe
<1> QED BY <1>2, <1>3

LEMMA CreateFoundSafe == ASSUME Fine, NEW p \in Procs, CreateFound(p) PROVE Safe(p)
<1> DEFINE i == k[p].ip
<1>1. /\ k[p].pc = "creat_found" /\ k[p].drop = <<>> /\ CanLock(i) /\ Load(i) /\ dinode' = dinode
  BY DEF CreateFound, At, disk
<1>2. i \in Inodes /\ k[p].pc \in LocksIp \ HoldDp
  BY <1>1, HasThem DEF NoIp, LocksIp, HoldDp, Fine, RefInv
<1>3. <<i>> \in Seq(Inodes)
  BY <1>2
<1>4. \/ Lock(p, i) /\ k' = [k EXCEPT ![p].pc = "open_fd"]
      \/ UNCHANGED lock /\ \E s \in Seq(Inodes) : Return(p, s)
  BY <1>3 DEF CreateFound
<1> QED BY <1>1, <1>2, <1>4, OpensSafe

LEMMA OpenLockSafe == ASSUME Fine, NEW p \in Procs, OpenLock(p) PROVE Safe(p)
<1> DEFINE i == k[p].ip
<1>1. /\ k[p].pc \in {"open", "open_w"} /\ k[p].drop = <<>> /\ CanLock(i) /\ Load(i) /\ dinode' = dinode
  BY DEF OpenLock, At, disk
<1>2. i \in Inodes /\ k[p].pc \in LocksIp \ HoldDp
  BY <1>1, HasThem DEF NoIp, LocksIp, HoldDp, Fine, RefInv
<1>3. <<i>> \in Seq(Inodes)
  BY <1>2
<1>4. \/ Lock(p, i) /\ k' = [k EXCEPT ![p].pc = "open_fd"]
      \/ UNCHANGED lock /\ \E s \in Seq(Inodes) : Return(p, s)
  BY <1>3 DEF OpenLock
<1> QED BY <1>1, <1>2, <1>4, OpensSafe

LEMMA ChdirSafe == ASSUME Fine, NEW p \in Procs, Chdir(p) PROVE Safe(p)
<1> DEFINE i == k[p].ip
<1>1. /\ k[p].pc = "chdir" /\ k[p].drop = <<>> /\ CanLock(i) /\ Load(i) /\ dinode' = dinode
      /\ lock' = lock /\ (Return(p, <<i>>) \/ Return(p, <<cwd[p]>>))
  BY DEF Chdir, At, disk
<1>2. i \in Inodes /\ k[p].pc \in LocksIp \ HoldDp
  BY <1>1, HasThem DEF NoIp, LocksIp, HoldDp, Fine, RefInv
<1>3. <<i>> \in Seq(Inodes) /\ <<cwd[p]>> \in Seq(Inodes)
  BY <1>2 DEF Fine, RefInv, Types
<1>4. UNCHANGED lock /\ \E s \in Seq(Inodes) : Return(p, s)
  BY <1>1, <1>3
<1> QED BY <1>1, <1>2, <1>4, OpensSafe

LEMMA CloseSafe == ASSUME Fine, NEW p \in Procs, Close(p) PROVE Safe(p)
<1>1. /\ k[p].pc = "idle" /\ k[p].drop = <<>> /\ k[p].put = "check" /\ Return(p, <<file[p]>>)
      /\ UNCHANGED <<valid, minode, lock, dinode>>
  BY Calm DEF Close, At, Fine, RefInv, disk, icache
<1>2. \A x \in Inodes : ~Holds(k[p], x)
  BY <1>1 DEF Holds, HoldIp, HoldDp, Clears
<1>3. k'[p].put = "check" /\ ~Clears(k'[p]) /\ \A x \in Inodes : ~Holds(k'[p], x)
  BY <1>1, Over DEF Fine, RefInv
<1>4. Locked(p)
  BY <1>1, <1>2, <1>3, KeepsLocked DEF Keeps
<1>5. Cached(p)
  BY <1>1, <1>3, QuietCached DEF NoClear, Only
<1> QED BY <1>4, <1>5 DEF Safe

\* A free inode is not in the cache, or on its way out of it.
LEMMA IallocSafe ==
    ASSUME Fine, NEW p \in Procs, Ialloc(p), Alone(p)
    PROVE  Locked(p) /\ CacheInv'
<1> DEFINE j == k[p].ip
<1>1. /\ k[p].pc = "ialloc" /\ k[p].drop = <<>> /\ k[p].put = "check"
      /\ UNCHANGED <<lock, valid, minode>>
  BY Calm DEF Ialloc, At, Fine, RefInv, icache
<1>2. j \in Inodes
  BY <1>1, HasThem DEF NoIp, Fine, RefInv
<1>3. /\ dinode'[j] # dinode[j] => dinode[j].type = "free"
      /\ \A x \in Inodes : x # j => dinode'[x] = dinode[x]
  BY DEF Ialloc, Fine, RefInv, Types
<1>4. /\ k'[p].put = "check" /\ k'[p].pc \in {"ialloc", "ialloc_iget"} /\ k'[p].dp = k[p].dp
      /\ k'[p].drop = <<>>
  <2>1. \/ k' = [k EXCEPT ![p].pc = "ialloc_iget"]
        \/ k' = [k EXCEPT ![p].ip = @ + 1]
    BY DEF Ialloc
  <2> QED BY <1>1, <2>1, CallerFacts DEF Fine, RefInv, Roles, Callers
<1> HIDE DEF j
<1>5. Locked(p)
  BY <1>1, <1>4, KeepsLocked DEF Keeps, Holds, HoldIp, HoldDp, Clears
<1>6. ASSUME NEW x \in Inodes PROVE InCache(x)'
  <2>1. InCache(x)
    BY DEF Fine, CacheInv
  <2>2. Clearing(x)' <=> Clearing(x)
    BY <1>1, <1>4 DEF Clearing, Alone
  <2>3. CASE dinode'[x] = dinode[x]
    BY <1>1, <2>1, <2>2, <2>3 DEF InCache
  <2>4. CASE dinode'[x] # dinode[x]
    <3>1. x = j /\ dinode[x].type = "free"
      BY <1>3, <2>4
    <3> QED BY <1>1, <2>1, <2>2, <3>1 DEF InCache
  <2> QED BY <2>3, <2>4
<1> QED BY <1>5, <1>6 DEF CacheInv

LEMMA IallocIgetSafe == ASSUME Fine, NEW p \in Procs, IallocIget(p) PROVE Safe(p)
<1> DEFINE i == k[p].ip
           d == k[p].dp
<1>1. /\ k[p].pc = "ialloc_iget" /\ k[p].drop = <<>> /\ k[p].put = "check" /\ Iget(i, d)
      /\ UNCHANGED <<lock, dinode>> /\ k' = [k EXCEPT ![p].pc = "creat_ip"]
  BY Calm DEF IallocIget, At, Fine, RefInv, disk
<1>2. i \in Inodes /\ d \in Inodes
  BY <1>1, HasThem DEF NoIp, HasDp, HoldDp, Fine, RefInv
<1>3. k'[p].put = "check" /\ k'[p].pc = "creat_ip" /\ k'[p].dp = d
  BY <1>1, CallerFacts DEF Fine, RefInv, Roles, Callers
<1>4. Locked(p)
  BY <1>1, <1>3, KeepsLocked DEF Keeps, Holds, HoldIp, HoldDp, Clears
<1>5. Holds(k[p], d) /\ ref[d] > 0 /\ Only(d)
  BY <1>1, <1>2, OwnsIp DEF Holds, HoldDp, Only
<1>6. Cached(p)
  BY <1>1, <1>2, <1>3, <1>5, IgetCached DEF NoClear
<1> QED BY <1>4, <1>6 DEF Safe

LEMMA CreateEntrySafe == ASSUME Fine, NEW p \in Procs, CreateEntry(p) PROVE Safe(p)
<1> DEFINE i == k[p].ip
           d == k[p].dp
           I == [Loaded(i) EXCEPT !.nlink = 1]
           D == IF k[p].sys = "mkdir" THEN Links(d, 1) ELSE Loaded(d)
           l == IF k[p].sys = "mkdir" THEN "mkdir_end" ELSE "open_fd"
<1>1. /\ k[p].pc = "creat_ip" /\ k[p].drop = <<>> /\ k[p].put = "check" /\ CanLock(i)
      /\ dinode' = [dinode EXCEPT ![i] = I, ![d] = D]
      /\ minode' = [minode EXCEPT ![i] = I, ![d] = D]
      /\ valid' = valid \cup {i, d}
      /\ lock' = [lock EXCEPT ![i] = p, ![d] = Nobody]
      /\ k' = [k EXCEPT ![p].pc = l, ![p].dp = None, ![p].drop = <<d>>]
  BY Calm DEF CreateEntry, At, Fine, RefInv
<1>2. i \in Inodes /\ d \in Inodes
  BY <1>1, HasThem DEF NoIp, HasDp, HoldDp, Fine, RefInv
<1>3. \A x \in Inodes : Holds(k[p], x) <=> x = d
  BY <1>1 DEF Holds, HoldIp, HoldDp, Clears
<1>4. /\ lock[d] = p /\ lock[i] = Nobody /\ i # d
      /\ Loaded(i) = dinode[i] /\ dinode[i].type # "free"
      /\ Loaded(d) = dinode[d] /\ dinode[d].type # "free"
  BY <1>1, <1>2, <1>3, FreeLock, MyLock, InodeConstants
<1>5. k'[p].put = "check" /\ k'[p].pc = l /\ k'[p].ip = i
  BY <1>1, CallerFacts DEF Fine, RefInv, Roles, Callers
<1>6. \A x \in Inodes : Holds(k'[p], x) <=> x = i
  BY <1>5 DEF Holds, HoldIp, HoldDp, Clears
<1>7. \A x \in Inodes : lock'[x] = IF x = i THEN p ELSE IF x = d THEN Nobody ELSE lock[x]
  BY <1>1, <1>2, <1>4 DEF Fine, RefInv, Types
<1>8. Locked(p)
  <2>1. Apart(k'[p])
    BY <1>5 DEF Apart, Clears
  <2>2. \A x \in Inodes : lock[x] = p <=> x = d
    BY <1>3 DEF Fine, LockInv
  <2> QED BY <1>4, <1>6, <1>7, <2>1, <2>2, InodeConstants DEF Locked
<1>9. D.type # "free" /\ I.type # "free"
  <2>1. Loaded(i) \in Recs
    BY <1>2, LoadedRec DEF Fine, RefInv
  <2> QED BY <1>2, <1>4, <2>1, LinksType DEF Recs
<1>10. Clean(i) /\ Clean(d)
  <2> HIDE DEF I, D, l
  <2> QED BY <1>1, <1>2, <1>4, <1>9 DEF Clean, Fine, RefInv, Types
<1>11. ASSUME NEW x \in Inodes, x # i, x # d PROVE Kept(x)
  <2> HIDE DEF I, D, l
  <2> QED BY <1>1, <1>7, <1>11 DEF Kept, Fine, RefInv, Types
<1>12. Cached(p)
  BY <1>1, <1>5, <1>10, <1>11 DEF Cached
<1> QED BY <1>8, <1>12 DEF Safe

LEMMA CallSafe ==
    ASSUME Fine, NEW p \in Procs, CallStep(p), Alone(p)
    PROVE  Locked(p) /\ CacheInv'
<1>1. CASE Iput(p) \/ Ialloc(p)
  BY <1>1, IputSafe, IallocSafe
<1>2. CASE Safe(p)
  BY <1>2, CacheStep DEF Safe
<1> QED BY <1>1, <1>2, BeginSafe, VisitSafe, LinkCountSafe, LinkEntrySafe, LinkBadSafe, LinkUndoSafe,
        UnlinkFindSafe, UnlinkEntrySafe, UnlinkCountSafe, UnlinkBadSafe, CreateFindSafe,
        CreateFoundSafe, IallocIgetSafe, CreateEntrySafe, MkdirEndSafe, OpenLockSafe, OpenFdSafe,
        CloseSafe, ChdirSafe DEF CallStep, Link, Unlink, Create, Files

LEMMA FineInit == Init => Fine
<1> SUFFICES ASSUME Init PROVE Fine
  OBVIOUS
<1>1. LockInv
  BY InodeConstants DEF Init, LockInv, Idle, Apart, Clears, Holds, HoldIp, HoldDp
<1>2. CacheInv
  BY DEF Init, CacheInv, InCache
<1> QED BY <1>1, <1>2, RefInvInit DEF Fine

LEMMA FineNext == Fine /\ [Next]_vars => Fine'
<1> SUFFICES ASSUME Fine, [Next]_vars PROVE Fine'
  OBVIOUS
<1>1. RefInv'
  BY RefInvNext DEF Fine
<1>2. ASSUME NEW p \in Procs, CallStep(p) PROVE LockInv' /\ CacheInv'
  <2>1. Alone(p)
    BY <1>2, CallGood DEF Good, Fine, RefInv
  <2>2. Locked(p) /\ CacheInv'
    BY <1>2, <2>1, CallSafe
  <2> QED BY <2>1, <2>2, LockStep DEF Fine
<1>3. CASE UNCHANGED <<disk, icache, k>>
  <2>1. LockInv'
    BY <1>3 DEF Fine, LockInv, icache
  <2>2. \A x \in Inodes : InCache(x)' <=> InCache(x)
    BY <1>3 DEF InCache, Clearing, disk, icache
  <2>3. CacheInv'
    BY <2>2 DEF Fine, CacheInv
  <2> QED BY <1>1, <2>1, <2>3 DEF Fine
<1> QED BY <1>1, <1>2, <1>3 DEF Next, Halted, Panic, CallStep, vars, Fine

\* A sleep lock of an inode is held exactly by the call that is between its ilock and
\* its iunlock, and minode follows dinode for every valid inode outside iput.
THEOREM CacheInvariant == Spec => []Fine
<1> QED BY FineInit, FineNext, PTL DEF Spec

\* An inode's copy in the cache is never behind the disk, nor ahead of it, while nobody
\* has it locked: what ilock gives a process is the inode itself.
THEOREM CacheIsCurrent == Spec => []CacheAgrees
<1>1. Fine => CacheAgrees
  <2> SUFFICES ASSUME Fine, NEW i \in valid, lock[i] = Nobody PROVE minode[i] = dinode[i]
    BY DEF CacheAgrees
  <2>1. i \in Inodes
    BY DEF Fine, RefInv, Types
  <2>2. ~Clearing(i)
    BY <2>1, ClearingIsHeld, InodeConstants DEF Clearing
  <2> QED BY <2>1, <2>2 DEF Fine, CacheInv, InCache
<1> QED BY <1>1, CacheInvariant, PTL
-----------------------------------------------------------------------------
(* The tree: links, names, and which inodes are in use.                    *)

\* A process makes i: it has a type on the disk, and no name yet.
Makes(c, i) == c.pc \in {"ialloc_iget", "creat_ip"} /\ c.ip = i

\* A call has counted a link of i that is not there yet, or no more.
Owes(c, i) == \/ c.sys = "link" /\ c.dp = i
              \/ c.pc \in {"bad", "unlink_count"} /\ c.ip = i

\* A call needs i to be what it was; not so for what iput is done with.
Needs(c, i) == \/ c.ip = i /\ c.pc \notin {"ialloc", "ialloc_iget", "creat_ip"}
               \/ c.dp = i
               \/ c.drop # <<>> /\ c.drop[1] = i /\ c.put \in {"check", "free"}
               \/ Len(c.drop) > 1 /\ c.drop[2] = i

NeedsAt(p, i) == cwd[p] = i \/ file[p] = i \/ Needs(k[p], i)

Live(i) == dinode[i].type # "free" /\ ~Creating(i)

IsDir(i) == dinode[i].type = "dir"

\* What a call knows of the inodes it has.
Kinds(c) ==
    /\ c.pc \in {"linkdir", "linkbad", "creat", "unlink"} => IsDir(c.ip)
    /\ c.pc \in HoldDp => IsDir(c.dp)
    /\ c.sys = "link" /\ c.dp # None => dinode[c.dp].type = "file"

\* What it knows of the entry it will change, in the directory it has locked.
Entry(c) ==
    /\ c.pc = "unlink_ip" => Head(c.path) \in Plain /\ ents[c.dp][Head(c.path)] = c.ip
    /\ c.pc \in {"ialloc", "ialloc_iget", "creat_ip"} =>
           Head(c.path) \in Plain /\ ents[c.dp][Head(c.path)] = None

Made(c) ==
    c.pc \in {"ialloc_iget", "creat_ip"} =>
        dinode[c.ip] = [type |-> IF c.sys = "mkdir" THEN "dir" ELSE "file", nlink |-> 0]

\* iput frees the inode only when nothing has it but iput.
Frees(c) == c.put = "free" => dinode[Head(c.drop)].nlink = 0 /\ ref[Head(c.drop)] = 1

Dots(i) == IF IsDir(i) /\ ~Creating(i) THEN ents[i]["."] = i /\ ents[i][".."] # None
           ELSE \A n \in Names : ents[i][n] = None

CallInv == \A p \in Procs : Kinds(k[p]) /\ Entry(k[p]) /\ Made(k[p]) /\ Frees(k[p])
MakeInv == \A p, q \in Procs, i \in Inodes : Makes(k[p], i) /\ Makes(k[q], i) => p = q
LiveInv == \A p \in Procs, i \in Inodes : NeedsAt(p, i) => Live(i)
DotsInv == \A i \in Inodes : Dots(i)
LinkInv == \A i \in Inodes : /\ dinode[i].nlink = NamesOf(i) + Pending(i) + lost[i]
                             /\ dinode[i].type = "free" => dinode[i].nlink = 0

TreeInv == CallInv /\ MakeInv /\ LiveInv /\ DotsInv /\ LinkInv

\* No walk takes the .. of a directory to a parent that has lost its names.  It can:
\* a process may stay in a directory that is removed; then its parent is removed, and
\* freed by iput; nothing clears the .. to it, and dirlookup gets what is free or
\* what was made since in its place.
ParentsThere ==
    \A p \in Procs :
        k[p].pc \in {"namei", "nameiparent", "linkdir", "creat"} /\ k[p].path # <<>>
        /\ k[p].ip # None /\ Head(k[p].path) = ".." /\ ents[k[p].ip][".."] # None
        => dinode[ents[k[p].ip][".."]].nlink > 0

Whole == Fine /\ TreeInv

LEMMA WholeFacts ==
    Whole => /\ Fine /\ Types /\ Roles /\ LockInv /\ CacheInv
             /\ CallInv /\ MakeInv /\ LiveInv /\ DotsInv /\ LinkInv
  BY DEF Whole, TreeInv, Fine, RefInv

LEMMA OnePoint ==
    ASSUME NEW S, NEW S2, NEW e, IsFiniteSet(S), IsFiniteSet(S2),
           \A t : t # e => (t \in S <=> t \in S2)
    PROVE  /\ Cardinality(S2) = Cardinality(S) + B(e \in S2) - B(e \in S)
           /\ Cardinality(S) \in Nat /\ Cardinality(S2) \in Nat
<1> DEFINE R == S \ {e}
<1>1. R = S2 \ {e} /\ IsFiniteSet(R) /\ Cardinality(R) \in Nat
  BY FS_Subset, FS_CardinalityType
<1>2. Cardinality(S) = Cardinality(R) + B(e \in S)
  <2>1. CASE e \in S
    <3>1. S = R \cup {e} /\ e \notin R
      BY <2>1
    <3> HIDE DEF R
    <3> QED BY <1>1, <2>1, <3>1, FS_AddElement DEF B
  <2>2. CASE e \notin S
    <3>1. S = R
      BY <2>2
    <3> HIDE DEF R
    <3> QED BY <1>1, <2>2, <3>1 DEF B
  <2> QED BY <2>1, <2>2
<1>3. Cardinality(S2) = Cardinality(R) + B(e \in S2)
  <2>1. CASE e \in S2
    <3>1. S2 = R \cup {e} /\ e \notin R
      BY <1>1, <2>1
    <3> HIDE DEF R
    <3> QED BY <1>1, <2>1, <3>1, FS_AddElement DEF B
  <2>2. CASE e \notin S2
    <3>1. S2 = R
      BY <1>1, <2>2
    <3> HIDE DEF R
    <3> QED BY <1>1, <2>2, <3>1 DEF B
  <2> QED BY <2>1, <2>2
<1> HIDE DEF R
<1> QED BY <1>1, <1>2, <1>3, FS_CardinalityType DEF B

Entries(i) == {x \in Inodes \X Plain : ents[x[1]][x[2]] = i}
Kids(i)    == {n \in Plain : ents[i][n] # None /\ dinode[ents[i][n]].type = "dir"}
Owing(i)   == {p \in Procs : Owes(k[p], i)}

LEMMA LinkSets ==
    ASSUME NEW i
    PROVE  /\ NamesOf(i) = Cardinality(Entries(i)) + Cardinality(Kids(i)) + B(i = Root)
           /\ Pending(i) = Cardinality(Owing(i))
           /\ IsFiniteSet(Entries(i)) /\ IsFiniteSet(Kids(i)) /\ IsFiniteSet(Owing(i))
           /\ Cardinality(Entries(i)) \in Nat /\ Cardinality(Kids(i)) \in Nat
           /\ Cardinality(Owing(i)) \in Nat
<1>1. IsFiniteSet(Inodes) /\ IsFiniteSet(Inodes \X Plain)
  <2>1. IsFiniteSet(Inodes)
    BY FS_Interval, InodeConstants DEF Inodes
  <2> QED BY <2>1, FS_Product, InodeConstants
<1>2. Entries(i) \subseteq Inodes \X Plain /\ Kids(i) \subseteq Plain /\ Owing(i) \subseteq Procs
  BY DEF Entries, Kids, Owing
<1>3. IsFiniteSet(Entries(i)) /\ IsFiniteSet(Kids(i)) /\ IsFiniteSet(Owing(i))
  BY <1>1, <1>2, FS_Subset, InodeConstants
<1>4. Owing(i) = {p \in Procs : \/ k[p].sys = "link" /\ k[p].dp = i
                                \/ k[p].pc \in {"bad", "unlink_count"} /\ k[p].ip = i}
  BY DEF Owing, Owes
<1> QED BY <1>3, <1>4, FS_CardinalityType DEF NamesOf, Pending, Entries, Kids, B

\* An inode with a name, or a debt, has a link; one with a link is in use.
LEMMA LinkFacts ==
    ASSUME Whole, NEW i \in Inodes
    PROVE  /\ dinode[i].nlink \in Nat
           /\ dinode[i].nlink = Cardinality(Entries(i)) + Cardinality(Kids(i)) + B(i = Root)
                                    + Cardinality(Owing(i)) + lost[i]
           /\ lost[i] \in Nat
<1>1. lost[i] \in Nat
  BY WholeFacts DEF Types
<1>2. dinode[i].nlink = NamesOf(i) + Pending(i) + lost[i]
  BY WholeFacts DEF LinkInv
<1> QED BY <1>1, <1>2, LinkSets DEF B

LEMMA MakesFacts ==
    ASSUME Whole, NEW p \in Procs, NEW i \in Inodes, Makes(k[p], i)
    PROVE  dinode[i].type # "free" /\ dinode[i].nlink = 0 /\ ~Live(i)
<1>1. Made(k[p])
  BY WholeFacts DEF CallInv
<1>2. dinode[i] = [type |-> IF k[p].sys = "mkdir" THEN "dir" ELSE "file", nlink |-> 0]
  BY <1>1 DEF Made, Makes
<1> QED BY <1>2 DEF Live, Creating, Makes

LEMMA HasLink ==
    ASSUME Whole, NEW i \in Inodes, dinode[i].nlink > 0
    PROVE  Live(i)
<1>1. dinode[i].nlink # 0
  OBVIOUS
<1>2. dinode[i].type # "free"
  BY <1>1, WholeFacts DEF LinkInv
<1>3. \A p \in Procs : ~Makes(k[p], i)
  BY <1>1, MakesFacts
<1> QED BY <1>2, <1>3 DEF Live, Creating, Makes

LEMMA NonEmpty ==
    ASSUME NEW S, IsFiniteSet(S), NEW e \in S
    PROVE  Cardinality(S) > 0
<1>1. Cardinality(S) \in Nat /\ Cardinality(S) # 0
  BY FS_EmptySet, FS_CardinalityType
<1> QED BY <1>1

LEMMA NamedHasLink ==
    ASSUME Whole, NEW d \in Inodes, NEW n \in Plain, NEW i \in Inodes, ents[d][n] = i
    PROVE  dinode[i].nlink > 0
<1>1. <<d, n>> \in Entries(i)
  BY DEF Entries
<1>2. Cardinality(Entries(i)) > 0
  BY <1>1, LinkSets, NonEmpty
<1> QED BY <1>2, LinkFacts, LinkSets DEF B

LEMMA RootHasLink == Whole => dinode[Root].nlink > 0
<1> SUFFICES ASSUME Whole PROVE dinode[Root].nlink > 0
  OBVIOUS
<1>1. Root \in Inodes
  BY RootIs
<1> QED BY <1>1, LinkFacts, LinkSets DEF B

LEMMA OwesHasLink ==
    ASSUME Whole, NEW p \in Procs, NEW i \in Inodes, Owes(k[p], i)
    PROVE  dinode[i].nlink > 0
<1>1. p \in Owing(i)
  BY DEF Owing
<1>2. Cardinality(Owing(i)) > 0
  BY <1>1, LinkSets, NonEmpty
<1> QED BY <1>2, LinkFacts, LinkSets DEF B

\* A process that needs an inode has a reference to it.
LEMMA NeedsIsOwn ==
    ASSUME Fine, NEW p \in Procs, NEW i \in Inodes, NeedsAt(p, i)
    PROVE  Own(p, i) > 0
<1>1. /\ k[p].drop # <<>> => Len(k[p].drop) > 0
      /\ Len(k[p].drop) \in Nat
  BY CallerFacts, TailFacts DEF Fine, RefInv
<1> QED BY <1>1 DEF NeedsAt, Needs, Own, InCall, InDrop, B

LEMMA TwoUses ==
    ASSUME Fine, NEW p \in Procs, NEW q \in Procs, p # q, NEW i \in Inodes, Own(p, i) > 0, Own(q, i) > 0
    PROVE  ref[i] > 1
<1>1. ref[i] = Cardinality(Others(p, i)) + Own(p, i) /\ Cardinality(Others(p, i)) \in Nat
  BY CountOwn DEF Fine, RefInv, RefCounts
<1>2. PICK s \in Slots : Use(q, s) = i
  <2>1. \/ cwd[q] = i \/ file[q] = i \/ (k[q].pc \notin {"ialloc", "ialloc_iget"} /\ k[q].ip = i) \/ k[q].dp = i
        \/ (Len(k[q].drop) > 0 /\ k[q].drop[1] = i) \/ (Len(k[q].drop) > 1 /\ k[q].drop[2] = i)
    BY DEF Own, InCall, InDrop, B
  <2> QED BY <2>1, UsesAre DEF Slots, Fine, RefInv
<1>3. <<q, s>> \in Others(p, i)
  BY <1>2 DEF Others
<1>4. IsFiniteSet(Others(p, i))
  <2>1. IsFiniteSet(Slots)
    <3>1. Slots = {} \cup {"cwd"} \cup {"file"} \cup {"ip"} \cup {"dp"} \cup {"drop"} \cup {"drop2"}
      BY DEF Slots
    <3>2. \A S, x : IsFiniteSet(S) => IsFiniteSet(S \cup {x})
      BY FS_AddElement
    <3> QED BY <3>1, <3>2, FS_EmptySet
  <2>2. Others(p, i) \subseteq Procs \X Slots
    BY DEF Others
  <2> QED BY <2>1, <2>2, FS_Product, FS_Subset, InodeConstants
<1>5. Cardinality(Others(p, i)) > 0
  BY <1>3, <1>4, NonEmpty
<1>6. Own(p, i) \in Int
  BY DEF Own, InCall, InDrop, B
<1> QED BY <1>1, <1>5, <1>6
-----------------------------------------------------------------------------
(* A step of p leaves the others what they know.                           *)

\* The inodes on the disk that the step changes: p has them, makes them, takes
\* them from the free ones, or is the last to have them.
Touches(p) ==
    /\ \A i \in Inodes : dinode'[i] # dinode[i] =>
          \/ dinode'[i].type = dinode[i].type /\ (Makes(k[p], i) \/ (Own(p, i) > 0 /\ Live(i)))
          \/ dinode[i].type = "free"
          \/ Live(i) /\ \A q \in Procs \ {p} : ~NeedsAt(q, i)
    /\ \A d \in Inodes : ents'[d] # ents[d] => Makes(k[p], d) \/ lock[d] \in {p, Nobody}
    /\ \A i \in Inodes : ref'[i] # ref[i] =>
          Own(p, i) > 0 \/ dinode[i].nlink > 0 \/ Makes(k[p], i)

\* What p has, and makes, after the step.
Holding(p) ==
    \A i \in Inodes :
        /\ Makes(k'[p], i) => Makes(k[p], i) \/ dinode[i].type = "free"
        /\ cwd'[p] = i \/ file'[p] = i \/ Needs(k'[p], i) =>
              /\ dinode'[i].type # "free" /\ ~Makes(k'[p], i)
              /\ Live(i) \/ Makes(k[p], i)

Knows(p) == (Kinds(k[p]) /\ Entry(k[p]) /\ Made(k[p]) /\ Frees(k[p]))'

LEMMA NeedFacts ==
    ASSUME Whole, NEW p \in Procs, NEW q \in Procs \ {p}, Touches(p), NEW i \in Inodes, NeedsAt(q, i)
    PROVE  Live(i) /\ dinode'[i].type = dinode[i].type
<1>1. Live(i)
  BY WholeFacts DEF LiveInv
<1>2. ~Makes(k[p], i)
  BY <1>1 DEF Live, Creating, Makes
<1> QED BY <1>1, <1>2 DEF Touches, Live

LEMMA OthersKnow ==
    ASSUME Whole, NEW p \in Procs, NEW q \in Procs \ {p}, Alone(p), Touches(p)
    PROVE  Knows(q)
<1> DEFINE c == k[q]
<1>1. k'[q] = c /\ Kinds(c) /\ Entry(c) /\ Made(c) /\ Frees(c)
  BY WholeFacts DEF Alone, CallInv
<1>2. c.pc \in {"linkdir", "linkbad", "creat", "unlink"} => IsDir(c.ip) /\ dinode'[c.ip].type = dinode[c.ip].type
  <2>1. SUFFICES ASSUME c.pc \in {"linkdir", "linkbad", "creat", "unlink"}
                 PROVE  IsDir(c.ip) /\ dinode'[c.ip].type = dinode[c.ip].type
    OBVIOUS
  <2>2. c.ip \in Inodes
    BY <2>1, WholeFacts, HasThem DEF NoIp
  <2>3. NeedsAt(q, c.ip)
    BY <2>1 DEF NeedsAt, Needs
  <2> QED BY <1>1, <2>1, <2>2, <2>3, NeedFacts DEF Kinds
<1>3. c.dp # None => dinode'[c.dp].type = dinode[c.dp].type
  <2>1. SUFFICES ASSUME c.dp # None PROVE dinode'[c.dp].type = dinode[c.dp].type
    OBVIOUS
  <2>2. c.dp \in Inodes
    BY <2>1, WholeFacts, CallerFacts DEF Places
  <2>3. NeedsAt(q, c.dp)
    BY DEF NeedsAt, Needs
  <2> QED BY <2>2, <2>3, NeedFacts
<1>4. c.pc \in HoldDp => c.dp \in Inodes
  BY WholeFacts, HasThem DEF HasDp
<1>5. Kinds(c)'
  BY <1>1, <1>2, <1>3, <1>4, RootIs DEF Kinds, IsDir
<1>6. c.pc \in HoldDp => ents'[c.dp] = ents[c.dp]
  <2>1. SUFFICES ASSUME c.pc \in HoldDp PROVE ents'[c.dp] = ents[c.dp]
    OBVIOUS
  <2>2. lock[c.dp] = q
    BY <1>4, <2>1, WholeFacts DEF LockInv, Holds
  <2>3. ~Makes(k[p], c.dp)
    <3>1. Live(c.dp)
      BY <1>4, <2>1, WholeFacts DEF LiveInv, NeedsAt, Needs
    <3> QED BY <3>1 DEF Live, Creating, Makes
  <2> QED BY <1>4, <2>1, <2>2, <2>3, InodeConstants DEF Touches
<1>7. Entry(c)'
  BY <1>1, <1>6 DEF Entry, HoldDp
<1>8. Made(c)'
  <2>1. SUFFICES ASSUME c.pc \in {"ialloc_iget", "creat_ip"} PROVE dinode'[c.ip] = dinode[c.ip]
    BY <1>1 DEF Made
  <2>2. c.ip \in Inodes /\ Makes(c, c.ip)
    BY <2>1, WholeFacts, HasThem DEF NoIp, Makes
  <2>3. ~Live(c.ip)
    BY <2>1 DEF Live, Creating
  <2>4. ~Makes(k[p], c.ip)
    BY <2>2, WholeFacts DEF MakeInv
  <2>5. dinode[c.ip].type # "free"
    BY <1>1, <2>1 DEF Made
  <2> QED BY <2>2, <2>3, <2>4, <2>5 DEF Touches
<1>9. Frees(c)'
  <2>1. SUFFICES ASSUME c.put = "free"
                 PROVE  dinode'[Head(c.drop)] = dinode[Head(c.drop)] /\ ref'[Head(c.drop)] = ref[Head(c.drop)]
    BY <1>1 DEF Frees
  <2> DEFINE i == Head(c.drop)
  <2>2. c.drop # <<>> /\ i \in Inodes /\ i = c.drop[1]
    BY <2>1, WholeFacts, CallerFacts, TailFacts DEF Role
  <2>3. NeedsAt(q, i)
    BY <2>1, <2>2 DEF NeedsAt, Needs
  <2>4. ~(Own(p, i) > 0)
    <3>1. Own(q, i) > 0
      BY <2>2, <2>3, NeedsIsOwn, WholeFacts
    <3>2. ref[i] = 1
      BY <1>1, <2>1 DEF Frees
    <3> HIDE DEF i
    <3>3. Own(p, i) > 0 => ref[i] > 1
      BY <2>2, <3>1, TwoUses, WholeFacts
    <3> QED BY <3>2, <3>3
  <2>5. Live(i) /\ ~Makes(k[p], i) /\ dinode[i].nlink = 0
    BY <1>1, <2>1, <2>2, <2>3, WholeFacts DEF LiveInv, Live, Creating, Makes, Frees
  <2> QED BY <2>2, <2>3, <2>4, <2>5 DEF Touches, Live
<1> QED BY <1>1, <1>5, <1>7, <1>8, <1>9 DEF Knows, Kinds, Entry, Made, Frees

LEMMA CallsStep ==
    ASSUME Whole, NEW p \in Procs, Alone(p), Touches(p), Holding(p), Knows(p)
    PROVE  CallInv' /\ MakeInv' /\ LiveInv'
<1>1. CallInv'
  <2>1. ASSUME NEW q \in Procs PROVE Knows(q)
    BY OthersKnow
  <2> QED BY <2>1 DEF CallInv, Knows
<1>2. ASSUME NEW q \in Procs, q # p, NEW i \in Inodes, Makes(k[q], i)
      PROVE  ~Makes(k'[p], i)
  <2>1. ~Makes(k[p], i)
    BY <1>2, WholeFacts DEF MakeInv
  <2>2. dinode[i].type # "free"
    BY <1>2, MakesFacts
  <2> QED BY <2>1, <2>2 DEF Holding
<1>3. MakeInv'
  BY <1>2, WholeFacts DEF MakeInv, Alone
<1>4. ASSUME NEW q \in Procs, NEW i \in Inodes, NeedsAt(q, i)' PROVE Live(i)'
  <2>1. dinode'[i].type # "free" /\ \A r \in Procs : ~Makes(k'[r], i)
    <3>1. CASE q = p
      <4>1. dinode'[i].type # "free" /\ ~Makes(k'[p], i) /\ (Live(i) \/ Makes(k[p], i))
        BY <1>4, <3>1 DEF Holding, NeedsAt
      <4>2. ASSUME NEW r \in Procs, r # p PROVE ~Makes(k[r], i)
        BY <4>1, <4>2, WholeFacts DEF Live, Creating, Makes, MakeInv
      <4> QED BY <4>1, <4>2 DEF Alone
    <3>2. CASE q # p
      <4>1. NeedsAt(q, i)
        BY <1>4, <3>2 DEF Alone, NeedsAt
      <4>2. Live(i) /\ dinode'[i].type = dinode[i].type
        BY <3>2, <4>1, NeedFacts
      <4>3. \A r \in Procs : ~Makes(k[r], i)
        BY <4>2 DEF Live, Creating, Makes
      <4> QED BY <4>2, <4>3 DEF Holding, Alone, Live
    <3> QED BY <3>1, <3>2
  <2> QED BY <2>1 DEF Live, Creating, Makes
<1>5. LiveInv'
  BY <1>4 DEF LiveInv
<1> QED BY <1>1, <1>3, <1>5

\* The entries and links that a step leaves alone.
LEMMA CreatingStays ==
    ASSUME NEW p \in Procs, Alone(p), NEW i \in Inodes, Makes(k'[p], i) <=> Makes(k[p], i)
    PROVE  Creating(i)' <=> Creating(i)
<1>1. \A q \in Procs : Makes(k'[q], i) <=> Makes(k[q], i)
  BY DEF Alone
<1> QED BY <1>1 DEF Creating, Makes

Same(p) == \A i \in Inodes : /\ Makes(k'[p], i) <=> Makes(k[p], i)
                             /\ Owes(k'[p], i) <=> Owes(k[p], i)

LEMMA DiskStays ==
    ASSUME Whole, NEW p \in Procs, Alone(p), Same(p), disk' = disk
    PROVE  DotsInv' /\ LinkInv'
<1>1. ASSUME NEW i \in Inodes PROVE Dots(i)'
  <2>1. Creating(i)' <=> Creating(i)
    BY CreatingStays DEF Same
  <2>2. Dots(i)
    BY WholeFacts DEF DotsInv
  <2> QED BY <2>1, <2>2 DEF Dots, IsDir, disk
<1>2. ASSUME NEW i \in Inodes
      PROVE  (dinode[i].nlink = NamesOf(i) + Pending(i) + lost[i] /\ (dinode[i].type = "free" => dinode[i].nlink = 0))'
  <2>1. \A q \in Procs : Owes(k'[q], i) <=> Owes(k[q], i)
    BY DEF Alone, Same
  <2>2. Pending(i)' = Pending(i)
    <3>1. Owing(i)' = Owing(i)
      BY <2>1 DEF Owing
    <3>2. Pending(i) = Cardinality(Owing(i)) /\ Pending(i)' = Cardinality(Owing(i)')
      BY DEF Pending, Owing, Owes
    <3> QED BY <3>1, <3>2
  <2>3. NamesOf(i)' = NamesOf(i)
    BY DEF NamesOf, disk
  <2> QED BY <2>2, <2>3, WholeFacts DEF LinkInv, disk
<1> QED BY <1>1, <1>2 DEF DotsInv, LinkInv

\* A step that leaves the disk alone.
Quiet(p) ==
    /\ disk' = disk
    /\ Same(p) /\ Knows(p)
    /\ \A i \in Inodes : cwd'[p] = i \/ file'[p] = i \/ Needs(k'[p], i) => Live(i)
    /\ \A i \in Inodes : ref'[i] # ref[i] => Own(p, i) > 0 \/ dinode[i].nlink > 0 \/ Makes(k[p], i)

LEMMA QuietStep ==
    ASSUME Whole, NEW p \in Procs, Alone(p), Quiet(p)
    PROVE  TreeInv'
<1>1. Touches(p)
  BY DEF Touches, Quiet, disk
<1>2. ASSUME NEW i \in Inodes, Live(i) PROVE dinode'[i].type # "free" /\ ~Makes(k'[p], i)
  <2>1. ~Makes(k[p], i)
    BY <1>2 DEF Live, Creating, Makes
  <2> QED BY <1>2, <2>1 DEF Live, Quiet, Same, disk
<1>3. Holding(p)
  BY <1>2 DEF Holding, Quiet, Same
<1> QED BY <1>1, <1>3, CallsStep, DiskStays DEF Quiet, TreeInv

Listed(s, i) == (Len(s) > 0 /\ s[1] = i) \/ (Len(s) > 1 /\ s[2] = i)

\* The call ends, and has yet to iput inodes that it had.
LEMMA EndsQuiet ==
    ASSUME Whole, NEW p \in Procs, NEW s \in Seq(Inodes), Len(s) <= 2, Return(p, s),
           disk' = disk, ref' = ref,
           k[p].pc \notin {"bad", "unlink_count", "ialloc_iget", "creat_ip"},
           k[p].sys = "link" => k[p].dp = None,
           \A i \in Inodes : cwd'[p] = i \/ file'[p] = i \/ Listed(s, i) => NeedsAt(p, i)
    PROVE  Quiet(p)
<1> DEFINE c == [Idle EXCEPT !.drop = s]
<1>1. k'[p] = c
  BY WholeFacts DEF Return, Roles
<1>2. c.pc = "idle" /\ c.sys = "none" /\ c.ip = None /\ c.dp = None /\ c.drop = s /\ c.put = "check"
  BY DEF Idle
<1> HIDE DEF c
<1>3. Same(p)
  BY <1>1, <1>2, RootIs DEF Same, Makes, Owes
<1>4. Knows(p)
  BY <1>1, <1>2 DEF Knows, Kinds, Entry, Made, Frees, HoldDp
<1>5. ASSUME NEW i \in Inodes, cwd'[p] = i \/ file'[p] = i \/ Needs(k'[p], i) PROVE Live(i)
  <2>1. s # <<>> => Len(s) > 0
    OBVIOUS
  <2>2. cwd'[p] = i \/ file'[p] = i \/ Listed(s, i)
    BY <1>1, <1>2, <1>5, <2>1, RootIs DEF Needs, Listed
  <2>3. NeedsAt(p, i)
    BY <2>2
  <2> QED BY <2>3, WholeFacts DEF LiveInv
<1> QED BY <1>3, <1>4, <1>5 DEF Quiet

LEMMA EndsWithOne ==
    ASSUME Whole, NEW p \in Procs, NEW i \in Inodes, Return(p, <<i>>), NeedsAt(p, i),
           disk' = disk, ref' = ref, cwd' = cwd, file' = file,
           k[p].pc \notin {"bad", "unlink_count", "ialloc_iget", "creat_ip"},
           k[p].sys = "link" => k[p].dp = None
    PROVE  Quiet(p)
<1>1. <<i>> \in Seq(Inodes) /\ Len(<<i>>) <= 2
  OBVIOUS
<1>2. \A x \in Inodes : cwd'[p] = x \/ file'[p] = x \/ Listed(<<i>>, x) => NeedsAt(p, x)
  BY DEF NeedsAt, Listed
<1> HIDE DEF Return
<1> QED BY <1>1, <1>2, EndsQuiet

\* A process that needs an inode has it in use.
LEMMA IsNeeded ==
    ASSUME Whole, NEW p \in Procs, NEW i \in Inodes, NeedsAt(p, i)
    PROVE  Live(i) /\ Own(p, i) > 0
BY WholeFacts, NeedsIsOwn DEF LiveInv

LEMMA BeginQuiet == ASSUME Whole, NEW p \in Procs, NEW r \in Requests, Begin(p, r) PROVE Quiet(p)
<1> DEFINE i == Start(p, r.abs)
           l == IF r.sys \in ByParent THEN "nameiparent" ELSE Found(r.sys, r.path)
           c == [Idle EXCEPT !.pc = l, !.sys = r.sys, !.abs = r.abs, !.path = r.path, !.new = r.new, !.ip = i]
<1>1. i \in Inodes /\ Live(i) /\ (Own(p, i) > 0 \/ dinode[i].nlink > 0)
  <2>1. CASE r.abs
    BY <2>1, RootIs, RootHasLink, HasLink DEF Start
  <2>2. CASE ~r.abs
    <3>1. i = cwd[p] /\ cwd[p] \in Inodes
      BY <2>2, WholeFacts DEF Start, Types
    <3>2. NeedsAt(p, i)
      BY <3>1 DEF NeedsAt
    <3> QED BY <3>1, <3>2, IsNeeded
  <2> QED BY <2>1, <2>2
<1>2. k[p].pc = "idle" /\ k[p].sys = "none" /\ k'[p] = c /\ cwd' = cwd /\ file' = file
      /\ disk' = disk
      /\ \A x \in Inodes : x # i => ref'[x] = ref[x]
  BY WholeFacts, CallerFacts DEF Begin, At, Role, SysAt, Roles, user, Types
<1>3. l \in {"nameiparent", "namei", "open", "open_w", "link", "chdir"}
  <2>1. r.sys \in {"open", "open_w", "creat", "mkdir", "link", "unlink", "chdir"}
    BY InodeConstants
  <2> QED BY <2>1 DEF Found, ByParent
<1>4. c.pc = l /\ c.ip = i /\ c.dp = None /\ c.drop = <<>> /\ c.put = "check"
  BY DEF Idle
<1> HIDE DEF c, l, i
<1>5. Same(p)
  BY <1>2, <1>3, <1>4, RootIs DEF Same, Makes, Owes
<1>6. Knows(p)
  BY <1>2, <1>3, <1>4 DEF Knows, Kinds, Entry, Made, Frees, HoldDp
<1>7. ASSUME NEW x \in Inodes, cwd'[p] = x \/ file'[p] = x \/ Needs(k'[p], x) PROVE Live(x)
  <2>1. x = i \/ NeedsAt(p, x)
    BY <1>2, <1>4, <1>7, RootIs DEF Needs, NeedsAt
  <2> QED BY <1>1, <2>1, IsNeeded
<1>8. \A x \in Inodes : ref'[x] # ref[x] => Own(p, x) > 0 \/ dinode[x].nlink > 0
  BY <1>1, <1>2
<1> QED BY <1>2, <1>5, <1>6, <1>7, <1>8 DEF Quiet

LEMMA IputQuiet ==
    ASSUME Whole, NEW p \in Procs, IputCheck(p) \/ IputClear(p) \/ IputUnref(p)
    PROVE  Quiet(p)
<1> DEFINE i == Head(k[p].drop)
<1>1. k[p].drop # <<>> /\ i \in Inodes /\ i = k[p].drop[1] /\ Len(k[p].drop) \in Nat
      /\ Len(k[p].drop) > 0 /\ Len(k[p].drop) <= 2
  BY WholeFacts, CallerFacts, TailFacts DEF IputCheck, IputClear, IputUnref, At_iput, Role
<1>2. disk' = disk /\ cwd' = cwd /\ file' = file
  BY DEF IputCheck, IputClear, IputUnref, user
<1>3. Kinds(k[p]) /\ Entry(k[p]) /\ Made(k[p])
  BY WholeFacts DEF CallInv
<1>4. ASSUME NEW v, v # "check", k' = [k EXCEPT ![p].put = v], ref' = ref,
             v = "free" => k[p].put = "check" /\ dinode[i].nlink = 0 /\ ref[i] = 1
      PROVE  Quiet(p)
  <2> DEFINE c == k'[p]
  <2>1. c.pc = k[p].pc /\ c.sys = k[p].sys /\ c.path = k[p].path /\ c.ip = k[p].ip /\ c.dp = k[p].dp
        /\ c.drop = k[p].drop /\ c.put = v
    BY <1>4, WholeFacts, CallerFacts DEF Roles, Callers
  <2>2. Same(p)
    BY <2>1 DEF Same, Makes, Owes
  <2>3. Knows(p)
    BY <1>2, <1>3, <1>4, <2>1 DEF Knows, Kinds, Entry, Made, Frees, IsDir, disk
  <2>4. ASSUME NEW x \in Inodes, cwd'[p] = x \/ file'[p] = x \/ Needs(k'[p], x) PROVE Live(x)
    <3>1. NeedsAt(p, x)
      BY <1>2, <1>4, <2>1, <2>4 DEF Needs, NeedsAt
    <3> QED BY <3>1, IsNeeded
  <2> QED BY <1>2, <1>4, <2>2, <2>3, <2>4 DEF Quiet
<1>5. CASE IputCheck(p)
  <2>1. CASE LastReference(i) /\ k' = [k EXCEPT ![p].put = "free"]
    <3>1. lock[i] = Nobody /\ k[p].put = "check" /\ ref' = ref /\ i \in valid /\ minode[i].nlink = 0 /\ ref[i] = 1
      BY <1>5, <2>1 DEF IputCheck, At_iput, LastReference
    <3>2. minode[i] = dinode[i]
      <4>1. ~Clearing(i)
        BY <1>1, <3>1, ClearingIsHeld, WholeFacts, InodeConstants DEF Clearing
      <4> QED BY <1>1, <3>1, <4>1, WholeFacts DEF CacheInv, InCache
    <3> QED BY <1>4, <2>1, <3>1, <3>2
  <2>2. CASE k' = [k EXCEPT ![p].put = "unref"]
    BY <1>4, <1>5, <2>2 DEF IputCheck
  <2> QED BY <1>5, <2>1, <2>2 DEF IputCheck
<1>6. CASE IputClear(p)
  BY <1>4, <1>6 DEF IputClear
<1>7. CASE IputUnref(p)
  <2> DEFINE c == k'[p]
  <2>1. c.pc = k[p].pc /\ c.sys = k[p].sys /\ c.path = k[p].path /\ c.ip = k[p].ip /\ c.dp = k[p].dp
        /\ c.drop = Tail(k[p].drop) /\ c.put = "check"
    BY <1>7, WholeFacts, CallerFacts DEF IputUnref, Roles, Callers
  <2>2. Same(p)
    BY <2>1 DEF Same, Makes, Owes
  <2>3. Knows(p)
    BY <1>2, <1>3, <2>1 DEF Knows, Kinds, Entry, Made, Frees, IsDir, disk
  <2>4. /\ Tail(k[p].drop) # <<>> => Len(k[p].drop) > 1 /\ Tail(k[p].drop)[1] = k[p].drop[2]
        /\ ~(Len(Tail(k[p].drop)) > 1)
    <3>1. k[p].drop \in Seq(Inodes)
      BY WholeFacts, CallerFacts
    <3> DEFINE s == k[p].drop
    <3>2. /\ Tail(s) \in Seq(Inodes) /\ Len(Tail(s)) = Len(s) - 1
          /\ Len(s) \in Nat /\ (Len(s) > 1 => Tail(s)[1] = s[2])
      BY <1>1, <3>1, TailFacts
    <3>3. Tail(s) # <<>> => Len(Tail(s)) > 0
      BY <3>2
    <3> HIDE DEF s
    <3>4. Len(s) <= 2
      BY <1>1 DEF s
    <3>5. Tail(s) # <<>> => Len(s) > 1
      BY <3>2, <3>3
    <3>6. ~(Len(Tail(s)) > 1)
      BY <3>2, <3>4
    <3> QED BY <3>2, <3>5, <3>6 DEF s
  <2>5. ASSUME NEW x \in Inodes, cwd'[p] = x \/ file'[p] = x \/ Needs(k'[p], x) PROVE Live(x)
    <3>1. NeedsAt(p, x)
      BY <1>2, <2>1, <2>4, <2>5 DEF Needs, NeedsAt
    <3> QED BY <3>1, IsNeeded
  <2>6. Own(p, i) > 0
    BY <1>1 DEF Own, InCall, InDrop, B
  <2>7. \A x \in Inodes : x # i => ref'[x] = ref[x]
    BY <1>7, WholeFacts DEF IputUnref, Types
  <2> QED BY <1>2, <2>2, <2>3, <2>5, <2>6, <2>7 DEF Quiet
<1> QED BY <1>5, <1>6, <1>7

\* What a walk finds in a directory is in use, if its parent is there.
LEMMA NextLive ==
    ASSUME Whole, ParentsThere, NEW p \in Procs, NEW d \in Inodes, k[p].ip = d, IsDir(d),
           k[p].pc \in {"namei", "nameiparent", "linkdir", "creat"},
           NEW j \in Inodes, ents[d][Head(k[p].path)] = j
    PROVE  Live(j) /\ (Own(p, j) > 0 \/ dinode[j].nlink > 0)
<1> DEFINE n == Head(k[p].path)
<1>1. n \in Names /\ k[p].path # <<>> /\ d # None /\ j # None
  BY WholeFacts, CallerFacts, RootIs DEF Role, ByName
<1>2. NeedsAt(p, d)
  BY DEF NeedsAt, Needs
<1>3. CASE n \in Plain
  BY <1>3, NamedHasLink, HasLink
<1>4. CASE n = "."
  <2>1. Live(d) /\ Own(p, d) > 0
    BY <1>2, IsNeeded
  <2>2. Dots(d)
    BY WholeFacts DEF DotsInv
  <2>3. j = d
    BY <1>4, <2>1, <2>2 DEF Dots, Live
  <2> QED BY <2>1, <2>3
<1>5. CASE n = ".."
  <2>1. dinode[j].nlink > 0
    BY <1>1, <1>5 DEF ParentsThere
  <2> QED BY <2>1, HasLink
<1> QED BY <1>1, <1>3, <1>4, <1>5 DEF Names

LEMMA NoPathQuiet ==
    ASSUME Whole, NEW p \in Procs, NEW i \in Inodes, NoPath(p, i), k[p].ip = i, k[p].drop = <<>>,
           disk' = disk, ref' = ref, cwd' = cwd, file' = file,
           k[p].pc \in {"namei", "nameiparent", "linkbad"}
    PROVE  Quiet(p)
<1>1. NeedsAt(p, i)
  BY DEF NeedsAt, Needs
<1>2. CASE k[p].dp = None
  BY <1>1, <1>2, EndsWithOne DEF NoPath, Dropped
<1>3. CASE k[p].dp # None
  <2> DEFINE c == k'[p]
  <2>1. k[p].sys = "link" /\ k[p].dp \in Inodes /\ k[p].put = "check"
    BY <1>3, WholeFacts, CallerFacts, Calm DEF Role, HasDp, SysAt, LinkTo, HoldDp, Places
  <2>2. c.pc = "bad" /\ c.sys = "link" /\ c.ip = k[p].dp /\ c.dp = None /\ c.drop = <<i>> /\ c.put = "check"
    BY <1>3, <2>1, WholeFacts, CallerFacts DEF NoPath, Dropped, Roles, Callers
  <2>3. Same(p)
    BY <2>1, <2>2, RootIs DEF Same, Makes, Owes
  <2>4. Knows(p)
    BY <2>2 DEF Knows, Kinds, Entry, Made, Frees, HoldDp
  <2>5. ASSUME NEW x \in Inodes, cwd'[p] = x \/ file'[p] = x \/ Needs(k'[p], x) PROVE Live(x)
    <3>1. NeedsAt(p, x)
      BY <1>1, <2>2, <2>5, RootIs DEF Needs, NeedsAt
    <3> QED BY <3>1, IsNeeded
  <2> QED BY <2>3, <2>4, <2>5 DEF Quiet
<1> QED BY <1>2, <1>3

LEMMA VisitQuiet == ASSUME Whole, ParentsThere, NEW p \in Procs, Visit(p) PROVE Quiet(p)
<1> DEFINE i == k[p].ip
           next == ents[i][Head(k[p].path)]
           rest == Tail(k[p].path)
<1>1. /\ k[p].pc \in {"namei", "nameiparent"} /\ k[p].drop = <<>> /\ k[p].put = "check"
      /\ CanLock(i) /\ disk' = disk /\ cwd' = cwd /\ file' = file
  BY WholeFacts, Calm DEF Visit, At, user
<1>2. i \in Inodes /\ Head(k[p].path) \in Names /\ next \in Places
  BY <1>1, WholeFacts, HasThem DEF NoIp, ByName, Types
<1>3. NeedsAt(p, i)
  BY <1>1 DEF NeedsAt, Needs
<1>4. Loaded(i) = dinode[i]
  BY <1>1, <1>2, WholeFacts, FreeLock
<1>5. /\ k[p].sys = "link" \/ k[p].dp = None
      /\ k[p].pc = "namei" => k[p].sys \in {"open", "open_w", "chdir", "link"}
      /\ k[p].pc = "nameiparent" => k[p].sys \in ByParent \cup {"link"}
      /\ k[p].pc = "namei" => k[p].dp = None
  BY <1>1, WholeFacts, CallerFacts DEF Role, HasDp, SysAt, LinkTo, HoldDp
<1>6. Kinds(k[p])
  BY WholeFacts DEF CallInv
<1>7. CASE NoPath(p, i) /\ ref' = ref
  BY <1>1, <1>2, <1>7, NoPathQuiet
<1>8. CASE /\ IsDir(i) /\ k[p].pc = "nameiparent" /\ ref' = ref
           /\ k' = [k EXCEPT ![p].pc = FoundParent(k[p].sys)]
  <2> DEFINE c == k'[p]
  <2>1. c.pc = FoundParent(k[p].sys) /\ c.sys = k[p].sys /\ c.ip = i /\ c.dp = k[p].dp /\ c.drop = <<>>
        /\ c.put = "check"
    BY <1>1, <1>8, WholeFacts, CallerFacts DEF Roles, Callers
  <2>2. c.pc \in {"creat", "linkdir", "unlink"}
    BY <1>5, <1>8, <2>1 DEF FoundParent, ByParent
  <2>3. Same(p)
    BY <1>1, <2>1, <2>2, RootIs DEF Same, Makes, Owes
  <2>4. Knows(p)
    BY <1>1, <1>6, <1>8, <2>1, <2>2 DEF Knows, Kinds, Entry, Made, Frees, HoldDp, IsDir, disk
  <2>5. ASSUME NEW x \in Inodes, cwd'[p] = x \/ file'[p] = x \/ Needs(k'[p], x) PROVE Live(x)
    <3>1. NeedsAt(p, x)
      BY <1>1, <1>3, <2>1, <2>5 DEF Needs, NeedsAt
    <3> QED BY <3>1, IsNeeded
  <2> QED BY <1>1, <1>8, <2>3, <2>4, <2>5 DEF Quiet
<1>9. CASE /\ IsDir(i) /\ next # None /\ Iget(next, i)
           /\ k' = [k EXCEPT ![p].pc = IF @ = "namei" THEN Found(k[p].sys, rest) ELSE @,
                             ![p].path = rest, ![p].ip = next, ![p].drop = <<i>>]
  <2> DEFINE c == k'[p]
  <2>1. next \in Inodes
    BY <1>2, <1>9 DEF Places
  <2>2. Live(next) /\ (Own(p, next) > 0 \/ dinode[next].nlink > 0)
    BY <1>1, <1>2, <1>9, <2>1, NextLive
  <2>3. /\ c.pc = IF k[p].pc = "namei" THEN Found(k[p].sys, rest) ELSE "nameiparent"
        /\ c.sys = k[p].sys /\ c.ip = next /\ c.dp = k[p].dp /\ c.drop = <<i>> /\ c.put = "check"
    BY <1>1, <1>9, WholeFacts, CallerFacts DEF Roles, Callers
  <2>4. c.pc \in {"open", "open_w", "chdir", "link", "namei", "nameiparent"}
    BY <1>1, <1>5, <2>3 DEF Found
  <2>5. \A x \in Inodes : x # next => ref'[x] = ref[x]
    BY <1>9, <2>1, WholeFacts DEF Iget, Types
  <2> HIDE DEF next
  <2>6. Same(p)
    BY <1>1, <2>3, <2>4, RootIs DEF Same, Makes, Owes
  <2>7. Knows(p)
    BY <1>1, <1>6, <2>3, <2>4 DEF Knows, Kinds, Entry, Made, Frees, HoldDp, disk
  <2>8. ASSUME NEW x \in Inodes, cwd'[p] = x \/ file'[p] = x \/ Needs(k'[p], x) PROVE Live(x)
    <3>1. x = next \/ NeedsAt(p, x)
      BY <1>1, <1>3, <2>3, <2>8, RootIs DEF Needs, NeedsAt
    <3> QED BY <2>2, <3>1, IsNeeded
  <2> QED BY <1>1, <2>2, <2>5, <2>6, <2>7, <2>8 DEF Quiet
<1> QED BY <1>4, <1>7, <1>8, <1>9 DEF Visit, IsDir

LEMMA LinkCountQuiet ==
    ASSUME Whole, NEW p \in Procs, LinkCount(p), IsDir(k[p].ip)
    PROVE  Quiet(p)
<1> DEFINE i == k[p].ip
<1>1. k[p].pc = "link" /\ CanLock(i) /\ k[p].drop = <<>>
  BY DEF LinkCount, At
<1>2. i \in Inodes /\ k[p].dp = None
  BY <1>1, WholeFacts, HasThem DEF NoIp, HasDp, LinkTo, HoldDp
<1>3. Loaded(i).type = "dir"
  BY <1>1, <1>2, WholeFacts, FreeLock DEF IsDir
<1>4. Return(p, <<i>>) /\ disk' = disk /\ ref' = ref /\ cwd' = cwd /\ file' = file
  BY <1>3 DEF LinkCount, disk, user
<1>5. NeedsAt(p, i)
  BY <1>1 DEF NeedsAt, Needs
<1> QED BY <1>1, <1>2, <1>4, <1>5, EndsWithOne

LEMMA LinkEntryQuiet ==
    ASSUME Whole, ParentsThere, NEW p \in Procs, LinkEntry(p), ents[k[p].ip][Head(k[p].path)] # None
    PROVE  Quiet(p)
<1> DEFINE d == k[p].ip
           j == ents[d][Head(k[p].path)]
           c == k'[p]
<1>1. /\ k[p].pc = "linkdir" /\ CanLock(d) /\ k[p].drop = <<>> /\ k[p].put = "check"
      /\ Iget(j, d) /\ k' = [k EXCEPT ![p].pc = "linkbad", ![p].drop = <<j>>]
      /\ disk' = disk /\ cwd' = cwd /\ file' = file
  BY WholeFacts, Calm DEF LinkEntry, At, disk, user
<1>2. d \in Inodes /\ j \in Inodes
  <2>1. d \in Inodes /\ Head(k[p].path) \in Names
    BY <1>1, WholeFacts, HasThem DEF NoIp, ByName
  <2>2. j \in Places /\ j # None
    BY <2>1, WholeFacts DEF Types
  <2> QED BY <2>1, <2>2 DEF Places
<1>3. Kinds(k[p]) /\ IsDir(d)
  BY <1>1, WholeFacts DEF CallInv, Kinds
<1>4. Live(j) /\ (Own(p, j) > 0 \/ dinode[j].nlink > 0)
  BY <1>1, <1>2, <1>3, NextLive
<1>5. /\ c.pc = "linkbad" /\ c.sys = k[p].sys /\ c.ip = d /\ c.dp = k[p].dp /\ c.drop = <<j>> /\ c.put = "check"
  BY <1>1, WholeFacts, CallerFacts DEF Roles, Callers
<1>6. \A x \in Inodes : x # j => ref'[x] = ref[x]
  BY <1>1, <1>2, WholeFacts DEF Iget, Types
<1> HIDE DEF j
<1>7. Same(p)
  BY <1>1, <1>5, RootIs DEF Same, Makes, Owes
<1>8. Knows(p)
  BY <1>1, <1>3, <1>5 DEF Knows, Kinds, Entry, Made, Frees, HoldDp, IsDir, disk
<1>9. ASSUME NEW x \in Inodes, cwd'[p] = x \/ file'[p] = x \/ Needs(k'[p], x) PROVE Live(x)
  <2>1. c.ip = k[p].ip /\ c.dp = k[p].dp /\ c.drop = <<j>>
    BY <1>5
  <2>2. k[p].pc = "linkdir" /\ cwd' = cwd /\ file' = file
    BY <1>1
  <2>3. cwd'[p] = x \/ file'[p] = x \/ Needs(c, x)
    BY <1>9
  <2> HIDE DEF c, d
  <2>4. Needs(c, x) => x = j \/ Needs(k[p], x)
    BY <2>1, <2>2 DEF Needs
  <2>5. x = j \/ NeedsAt(p, x)
    BY <2>2, <2>3, <2>4 DEF NeedsAt
  <2> QED BY <1>4, <2>5, IsNeeded
<1> QED BY <1>1, <1>4, <1>6, <1>7, <1>8, <1>9 DEF Quiet

LEMMA LinkBadQuiet == ASSUME Whole, NEW p \in Procs, LinkBad(p) PROVE Quiet(p)
<1>1. k[p].pc = "linkbad" /\ k[p].drop = <<>> /\ NoPath(p, k[p].ip)
      /\ disk' = disk /\ ref' = ref /\ cwd' = cwd /\ file' = file
  BY DEF LinkBad, At, user
<1>2. k[p].ip \in Inodes
  BY <1>1, WholeFacts, HasThem DEF NoIp
<1> QED BY <1>1, <1>2, NoPathQuiet

LEMMA UnlinkFindQuiet == ASSUME Whole, NEW p \in Procs, UnlinkFind(p) PROVE Quiet(p)
<1> DEFINE d == k[p].ip
           n == Head(k[p].path)
           j == ents[d][n]
           c == k'[p]
<1>1. /\ k[p].pc = "unlink" /\ CanLock(d) /\ k[p].drop = <<>> /\ k[p].put = "check" /\ k[p].sys = "unlink"
      /\ disk' = disk /\ cwd' = cwd /\ file' = file
  BY WholeFacts, Calm, CallerFacts DEF UnlinkFind, At, user, Role, SysAt
<1>2. d \in Inodes /\ j \in Places /\ k[p].dp = None /\ IsDir(d)
  BY <1>1, WholeFacts, HasThem DEF NoIp, ByName, HasDp, LinkTo, HoldDp, Types, CallInv, Kinds
<1>3. NeedsAt(p, d)
  BY <1>1 DEF NeedsAt, Needs
<1>4. CASE Return(p, <<d>>) /\ ref' = ref
  BY <1>1, <1>2, <1>3, <1>4, EndsWithOne
<1>5. CASE /\ n \in Plain /\ j # None /\ Iget(j, d)
           /\ k' = [k EXCEPT ![p].pc = "unlink_ip", ![p].ip = j, ![p].dp = d]
  <2>1. j \in Inodes
    BY <1>2, <1>5 DEF Places
  <2>2. dinode[j].nlink > 0 /\ Live(j)
    BY <1>2, <1>5, <2>1, NamedHasLink, HasLink
  <2>3. c.pc = "unlink_ip" /\ c.sys = "unlink" /\ c.ip = j /\ c.dp = d /\ c.drop = <<>> /\ c.put = "check"
        /\ c.path = k[p].path
    BY <1>1, <1>5, WholeFacts, CallerFacts DEF Roles, Callers
  <2>4. \A x \in Inodes : x # j => ref'[x] = ref[x]
    BY <1>5, <2>1, WholeFacts DEF Iget, Types
  <2>5. Knows(p)
    BY <1>1, <1>2, <1>5, <2>3 DEF Knows, Kinds, Entry, Made, Frees, HoldDp, IsDir, disk
  <2> HIDE DEF j
  <2>6. Same(p)
    BY <1>1, <2>3 DEF Same, Makes, Owes
  <2>7. ASSUME NEW x \in Inodes, cwd'[p] = x \/ file'[p] = x \/ Needs(k'[p], x) PROVE Live(x)
    <3>1. x = j \/ NeedsAt(p, x)
      BY <1>1, <1>3, <2>3, <2>7, RootIs DEF Needs, NeedsAt
    <3> QED BY <2>2, <3>1, IsNeeded
  <2> QED BY <1>1, <2>2, <2>4, <2>5, <2>6, <2>7 DEF Quiet
<1> QED BY <1>4, <1>5 DEF UnlinkFind

LEMMA UnlinkEntryQuiet ==
    ASSUME Whole, NEW p \in Procs, UnlinkEntry(p), IsDir(k[p].ip), ~DirEmpty(k[p].ip)
    PROVE  Quiet(p)
<1> DEFINE i == k[p].ip
           d == k[p].dp
           c == k'[p]
<1>1. /\ k[p].pc = "unlink_ip" /\ CanLock(i) /\ k[p].drop = <<>> /\ k[p].put = "check" /\ k[p].sys = "unlink"
  BY WholeFacts, Calm, CallerFacts DEF UnlinkEntry, At, Role, SysAt
<1>2. i \in Inodes /\ d \in Inodes
  BY <1>1, WholeFacts, HasThem DEF NoIp, HasDp, HoldDp
<1>3. Loaded(i).type = "dir"
  BY <1>1, <1>2, WholeFacts, FreeLock DEF IsDir
<1>4. /\ k' = [k EXCEPT ![p].pc = "unlink_bad", ![p].ip = None, ![p].drop = <<i>>]
      /\ disk' = disk /\ cwd' = cwd /\ file' = file /\ ref' = ref
  BY <1>3 DEF UnlinkEntry, disk, user
<1>5. IsDir(d)
  BY <1>1, WholeFacts DEF CallInv, Kinds, HoldDp
<1>6. c.pc = "unlink_bad" /\ c.sys = "unlink" /\ c.ip = None /\ c.dp = d /\ c.drop = <<i>> /\ c.put = "check"
  BY <1>1, <1>4, WholeFacts, CallerFacts DEF Roles, Callers
<1>7. Same(p)
  BY <1>1, <1>6, RootIs DEF Same, Makes, Owes
<1>8. Knows(p)
  BY <1>4, <1>5, <1>6 DEF Knows, Kinds, Entry, Made, Frees, IsDir, disk
<1>9. ASSUME NEW x \in Inodes, cwd'[p] = x \/ file'[p] = x \/ Needs(k'[p], x) PROVE Live(x)
  <2>1. k[p].pc = "unlink_ip" /\ cwd' = cwd /\ file' = file
    BY <1>1, <1>4
  <2>2. cwd'[p] = x \/ file'[p] = x \/ Needs(c, x)
    BY <1>9
  <2>3. c.ip = None /\ c.dp = k[p].dp /\ c.drop = <<k[p].ip>>
    BY <1>6
  <2> HIDE DEF c, d, i
  <2>4. Needs(c, x) => Needs(k[p], x)
    BY <2>1, <2>3, RootIs DEF Needs
  <2>5. NeedsAt(p, x)
    BY <2>1, <2>2, <2>4 DEF NeedsAt
  <2> QED BY <2>5, IsNeeded
<1> QED BY <1>4, <1>7, <1>8, <1>9 DEF Quiet

LEMMA UnlinkBadQuiet == ASSUME Whole, NEW p \in Procs, UnlinkBad(p) PROVE Quiet(p)
<1> DEFINE d == k[p].dp
<1>1. k[p].pc = "unlink_bad" /\ k[p].drop = <<>> /\ Return(p, <<d>>) /\ k[p].sys = "unlink"
      /\ disk' = disk /\ ref' = ref /\ cwd' = cwd /\ file' = file
  BY WholeFacts, CallerFacts DEF UnlinkBad, At, user, Role, SysAt
<1>2. d \in Inodes
  BY <1>1, WholeFacts, HasThem DEF HasDp, HoldDp
<1>3. NeedsAt(p, d)
  BY DEF NeedsAt, Needs
<1> QED BY <1>1, <1>2, <1>3, EndsWithOne

LEMMA CreateFindQuiet == ASSUME Whole, ParentsThere, NEW p \in Procs, CreateFind(p) PROVE Quiet(p)
<1> DEFINE d == k[p].ip
           n == Head(k[p].path)
           j == ents[d][n]
           c == k'[p]
<1>1. /\ k[p].pc = "creat" /\ CanLock(d) /\ k[p].drop = <<>> /\ k[p].put = "check"
      /\ k[p].sys \in {"creat", "mkdir"}
      /\ disk' = disk /\ cwd' = cwd /\ file' = file
  BY WholeFacts, Calm, CallerFacts DEF CreateFind, At, user, Role, SysAt
<1>2. d \in Inodes /\ n \in Names /\ j \in Places /\ k[p].dp = None /\ IsDir(d)
  BY <1>1, WholeFacts, HasThem DEF NoIp, ByName, HasDp, LinkTo, HoldDp, Types, CallInv, Kinds
<1>3. NeedsAt(p, d)
  BY <1>1 DEF NeedsAt, Needs
<1>4. CASE j # None /\ Iget(j, d) /\ k' = [k EXCEPT ![p].pc = "creat_found", ![p].ip = j, ![p].drop = <<d>>]
  <2>1. j \in Inodes
    BY <1>2, <1>4 DEF Places
  <2>2. Live(j) /\ (Own(p, j) > 0 \/ dinode[j].nlink > 0)
    BY <1>1, <1>2, <2>1, NextLive
  <2>3. c.pc = "creat_found" /\ c.sys = k[p].sys /\ c.ip = j /\ c.dp = None /\ c.drop = <<d>> /\ c.put = "check"
    BY <1>1, <1>2, <1>4, WholeFacts, CallerFacts DEF Roles, Callers
  <2>4. \A x \in Inodes : x # j => ref'[x] = ref[x]
    BY <1>4, <2>1, WholeFacts DEF Iget, Types
  <2> HIDE DEF j
  <2>5. Same(p)
    BY <1>1, <2>3 DEF Same, Makes, Owes
  <2>6. Knows(p)
    BY <2>3 DEF Knows, Kinds, Entry, Made, Frees, HoldDp
  <2>7. ASSUME NEW x \in Inodes, cwd'[p] = x \/ file'[p] = x \/ Needs(k'[p], x) PROVE Live(x)
    <3>1. x = j \/ NeedsAt(p, x)
      BY <1>1, <1>3, <2>3, <2>7, RootIs DEF Needs, NeedsAt
    <3> QED BY <2>2, <3>1, IsNeeded
  <2> QED BY <1>1, <2>2, <2>4, <2>5, <2>6, <2>7 DEF Quiet
<1>5. CASE j = None /\ ref' = ref /\ k' = [k EXCEPT ![p].pc = "ialloc", ![p].ip = 1, ![p].dp = d]
  <2>1. c.pc = "ialloc" /\ c.sys = k[p].sys /\ c.ip = 1 /\ c.dp = d /\ c.drop = <<>> /\ c.put = "check"
        /\ c.path = k[p].path
    BY <1>1, <1>2, <1>5, WholeFacts, CallerFacts DEF Roles, Callers
  <2>2. Live(d) /\ Dots(d)
    BY <1>2, <1>3, WholeFacts, IsNeeded DEF DotsInv
  <2>3. n \in Plain
    BY <1>2, <1>5, <2>2, RootIs DEF Dots, Live, Names
  <2>4. Same(p)
    BY <1>1, <2>1 DEF Same, Makes, Owes
  <2>5. ents'[d][n] = None /\ dinode'[d].type = "dir"
    <3>1. ents' = ents /\ dinode' = dinode
      BY <1>1 DEF disk
    <3>2. ents[d][n] = None
      BY <1>5
    <3> QED BY <1>2, <3>1, <3>2 DEF IsDir
  <2>6. Knows(p)
    <3>1. k[p].sys # "link" /\ Head(c.path) = n
      BY <1>1, <2>1
    <3> HIDE DEF n
    <3>2. (Kinds(k[p]) /\ Made(k[p]) /\ Frees(k[p]))'
      BY <2>1, <2>5, <3>1 DEF Kinds, Made, Frees, HoldDp, IsDir
    <3>3. Entry(k[p])'
      BY <2>1, <2>3, <2>5, <3>1 DEF Entry
    <3> QED BY <3>2, <3>3 DEF Knows, Kinds, Entry, Made, Frees
  <2>7. ASSUME NEW x \in Inodes, cwd'[p] = x \/ file'[p] = x \/ Needs(k'[p], x) PROVE Live(x)
    <3>1. NeedsAt(p, x)
      BY <1>1, <1>3, <2>1, <2>7, RootIs DEF Needs, NeedsAt
    <3> QED BY <3>1, IsNeeded
  <2> QED BY <1>1, <1>5, <2>4, <2>6, <2>7 DEF Quiet
<1> QED BY <1>2, <1>4, <1>5 DEF CreateFind

\* The inode is locked, for a file.
LEMMA OpensQuiet ==
    ASSUME Whole, NEW p \in Procs, k' = [k EXCEPT ![p].pc = "open_fd"],
           k[p].pc \in {"creat_found", "open", "open_w"}, k[p].drop = <<>>,
           disk' = disk, ref' = ref, cwd' = cwd, file' = file
    PROVE  Quiet(p)
<1> DEFINE c == k'[p]
<1>1. c.pc = "open_fd" /\ c.sys = k[p].sys /\ c.ip = k[p].ip /\ c.dp = k[p].dp /\ c.drop = <<>> /\ c.put = "check"
  BY WholeFacts, CallerFacts, Calm DEF Roles, Callers
<1>2. k[p].sys # "link"
  BY WholeFacts, CallerFacts DEF Role, SysAt
<1>3. Same(p)
  BY <1>1, <1>2 DEF Same, Makes, Owes
<1>4. Knows(p)
  BY <1>1, <1>2 DEF Knows, Kinds, Entry, Made, Frees, HoldDp
<1>5. ASSUME NEW x \in Inodes, cwd'[p] = x \/ file'[p] = x \/ Needs(k'[p], x) PROVE Live(x)
  <2>1. NeedsAt(p, x)
    BY <1>1, <1>5 DEF Needs, NeedsAt
  <2> QED BY <2>1, IsNeeded
<1> QED BY <1>3, <1>4, <1>5 DEF Quiet

LEMMA CreateFoundQuiet == ASSUME Whole, NEW p \in Procs, CreateFound(p) PROVE Quiet(p)
<1> DEFINE i == k[p].ip
<1>1. /\ k[p].pc = "creat_found" /\ k[p].drop = <<>>
      /\ disk' = disk /\ ref' = ref /\ cwd' = cwd /\ file' = file
  BY DEF CreateFound, At, user
<1>2. i \in Inodes /\ k[p].dp = None
  BY <1>1, WholeFacts, HasThem DEF NoIp, HasDp, LinkTo, HoldDp
<1>3. NeedsAt(p, i)
  BY <1>1 DEF NeedsAt, Needs
<1>4. CASE k' = [k EXCEPT ![p].pc = "open_fd"]
  BY <1>1, <1>4, OpensQuiet
<1>5. CASE Return(p, <<i>>)
  BY <1>1, <1>2, <1>3, <1>5, EndsWithOne
<1> QED BY <1>4, <1>5 DEF CreateFound

LEMMA OpenLockQuiet == ASSUME Whole, NEW p \in Procs, OpenLock(p) PROVE Quiet(p)
<1> DEFINE i == k[p].ip
<1>1. /\ k[p].pc \in {"open", "open_w"} /\ k[p].drop = <<>>
      /\ disk' = disk /\ ref' = ref /\ cwd' = cwd /\ file' = file
  BY DEF OpenLock, At, user
<1>2. i \in Inodes /\ k[p].dp = None
  BY <1>1, WholeFacts, HasThem DEF NoIp, HasDp, LinkTo, HoldDp
<1>3. NeedsAt(p, i)
  BY <1>1 DEF NeedsAt, Needs
<1>4. CASE k' = [k EXCEPT ![p].pc = "open_fd"]
  BY <1>1, <1>4, OpensQuiet
<1>5. CASE Return(p, <<i>>)
  BY <1>1, <1>2, <1>3, <1>5, EndsWithOne
<1> QED BY <1>4, <1>5 DEF OpenLock

LEMMA IallocIgetQuiet == ASSUME Whole, NEW p \in Procs, IallocIget(p) PROVE Quiet(p)
<1> DEFINE i == k[p].ip
           c == k'[p]
<1>1. /\ k[p].pc = "ialloc_iget" /\ k[p].drop = <<>> /\ k[p].put = "check" /\ k[p].sys \in {"creat", "mkdir"}
      /\ disk' = disk /\ cwd' = cwd /\ file' = file
      /\ k' = [k EXCEPT ![p].pc = "creat_ip"] /\ Iget(i, k[p].dp)
  BY WholeFacts, Calm, CallerFacts DEF IallocIget, At, user, Role, SysAt
<1>2. i \in Inodes /\ Makes(k[p], i)
  BY <1>1, WholeFacts, HasThem DEF NoIp, Makes
<1>3. c.pc = "creat_ip" /\ c.sys = k[p].sys /\ c.path = k[p].path /\ c.ip = i /\ c.dp = k[p].dp
      /\ c.drop = <<>> /\ c.put = "check"
  BY <1>1, WholeFacts, CallerFacts DEF Roles, Callers
<1>4. Kinds(k[p]) /\ Entry(k[p]) /\ Made(k[p])
  BY WholeFacts DEF CallInv
<1>5. \A x \in Inodes : x # i => ref'[x] = ref[x]
  BY <1>1, <1>2, WholeFacts DEF Iget, Types
<1>6. Same(p)
  BY <1>1, <1>3 DEF Same, Makes, Owes
<1>7. Knows(p)
  <2>1. (Kinds(k[p]) /\ Frees(k[p]))'
    BY <1>1, <1>3, <1>4 DEF Kinds, Frees, HoldDp, IsDir, disk
  <2>2. Entry(k[p])'
    BY <1>1, <1>3, <1>4 DEF Entry, disk
  <2>3. Made(k[p])'
    BY <1>1, <1>3, <1>4 DEF Made, disk
  <2> QED BY <2>1, <2>2, <2>3 DEF Knows, Kinds, Entry, Made, Frees
<1>8. ASSUME NEW x \in Inodes, cwd'[p] = x \/ file'[p] = x \/ Needs(k'[p], x) PROVE Live(x)
  <2>1. NeedsAt(p, x)
    BY <1>1, <1>3, <1>8 DEF Needs, NeedsAt
  <2> QED BY <2>1, IsNeeded
<1> QED BY <1>1, <1>2, <1>5, <1>6, <1>7, <1>8 DEF Quiet

LEMMA MkdirEndQuiet == ASSUME Whole, NEW p \in Procs, MkdirEnd(p) PROVE Quiet(p)
<1> DEFINE i == k[p].ip
<1>1. /\ k[p].pc = "mkdir_end" /\ k[p].drop = <<>> /\ Return(p, <<i>>) /\ k[p].sys = "mkdir"
      /\ disk' = disk /\ ref' = ref /\ cwd' = cwd /\ file' = file
  BY WholeFacts, CallerFacts DEF MkdirEnd, At, user, Role, SysAt
<1>2. i \in Inodes
  BY <1>1, WholeFacts, HasThem DEF NoIp
<1>3. NeedsAt(p, i)
  BY <1>1 DEF NeedsAt, Needs
<1> QED BY <1>1, <1>2, <1>3, EndsWithOne

LEMMA OpenFdQuiet == ASSUME Whole, NEW p \in Procs, OpenFd(p) PROVE Quiet(p)
<1> DEFINE i == k[p].ip
<1>1. /\ k[p].pc = "open_fd" /\ k[p].drop = <<>> /\ k[p].sys # "link"
      /\ disk' = disk /\ ref' = ref /\ cwd' = cwd
  BY WholeFacts, CallerFacts DEF OpenFd, At, user, Role, SysAt
<1>2. i \in Inodes
  BY <1>1, WholeFacts, HasThem DEF NoIp
<1>3. NeedsAt(p, i)
  BY <1>1 DEF NeedsAt, Needs
<1>4. CASE Return(p, <<i>>) /\ file' = file
  BY <1>1, <1>2, <1>3, <1>4, EndsWithOne
<1>5. CASE file' = [file EXCEPT ![p] = i] /\ Return(p, <<>>)
  <2>1. file'[p] = i
    BY <1>5, WholeFacts DEF Types
  <2>2. << >> \in Seq(Inodes) /\ Len(<< >>) = 0
    OBVIOUS
  <2>3. \A x \in Inodes : cwd'[p] = x \/ file'[p] = x \/ Listed(<<>>, x) => NeedsAt(p, x)
    BY <1>1, <1>3, <2>1 DEF Listed, NeedsAt
  <2>4. Len(<< >>) <= 2
    OBVIOUS
  <2> HIDE DEF Return
  <2> QED BY <1>1, <1>5, <2>2, <2>3, <2>4, EndsQuiet
<1> QED BY <1>4, <1>5 DEF OpenFd

LEMMA CloseQuiet == ASSUME Whole, NEW p \in Procs, Close(p) PROVE Quiet(p)
<1> DEFINE i == file[p]
<1>1. /\ k[p].pc = "idle" /\ k[p].sys = "none" /\ Return(p, <<i>>) /\ i \in Inodes /\ file'[p] = None
      /\ disk' = disk /\ ref' = ref /\ cwd' = cwd
  BY WholeFacts, CallerFacts DEF Close, At, icache, Role, SysAt, Types, Places
<1>2. NeedsAt(p, i)
  BY DEF NeedsAt
<1> HIDE DEF i
<1>3. <<i>> \in Seq(Inodes) /\ Len(<<i>>) <= 2
  BY <1>1
<1>4. \A x \in Inodes : cwd'[p] = x \/ file'[p] = x \/ Listed(<<i>>, x) => NeedsAt(p, x)
  BY <1>1, <1>2, RootIs DEF NeedsAt, Listed
<1> HIDE DEF Return
<1> QED BY <1>1, <1>3, <1>4, EndsQuiet

LEMMA ChdirQuiet == ASSUME Whole, NEW p \in Procs, Chdir(p) PROVE Quiet(p)
<1> DEFINE i == k[p].ip
           w == cwd[p]
<1>1. /\ k[p].pc = "chdir" /\ k[p].drop = <<>> /\ k[p].sys # "link"
      /\ disk' = disk /\ ref' = ref /\ file' = file
  BY WholeFacts, CallerFacts DEF Chdir, At, Role, SysAt
<1>2. i \in Inodes /\ w \in Inodes
  BY <1>1, WholeFacts, HasThem DEF NoIp, Types
<1>3. NeedsAt(p, i) /\ NeedsAt(p, w)
  BY <1>1 DEF NeedsAt, Needs
<1>4. CASE Return(p, <<i>>) /\ cwd' = cwd
  BY <1>1, <1>2, <1>3, <1>4, EndsWithOne
<1>5. CASE cwd' = [cwd EXCEPT ![p] = i] /\ Return(p, <<w>>)
  <2>1. cwd'[p] = i
    BY <1>5, WholeFacts DEF Types
  <2> HIDE DEF w
  <2>2. <<w>> \in Seq(Inodes) /\ Len(<<w>>) <= 2
    BY <1>2
  <2>3. \A x \in Inodes : cwd'[p] = x \/ file'[p] = x \/ Listed(<<w>>, x) => NeedsAt(p, x)
    BY <1>1, <1>3, <2>1 DEF Listed, NeedsAt
  <2> HIDE DEF Return
  <2> QED BY <1>1, <1>5, <2>2, <2>3, EndsQuiet
<1> QED BY <1>4, <1>5 DEF Chdir
-----------------------------------------------------------------------------
(* How the links and the names change together.                            *)

SameTypes == \A j \in Inodes : dinode'[j].type = dinode[j].type

\* At most this entry changes; the dots are no entries.
Writes(d, n) == \A x \in Inodes, m \in Plain : ents'[x][m] = ents[x][m] \/ (x = d /\ m = n)

LEMMA LinkSetsNext ==
    ASSUME NEW i
    PROVE  /\ NamesOf(i)' = Cardinality(Entries(i)') + Cardinality(Kids(i)') + B(i = Root)
           /\ IsFiniteSet(Entries(i)') /\ IsFiniteSet(Kids(i)')
<1>1. /\ NamesOf(i) = Cardinality(Entries(i)) + Cardinality(Kids(i)) + B(i = Root)
      /\ IsFiniteSet(Entries(i)) /\ IsFiniteSet(Kids(i))
  BY LinkSets
<1>2. (/\ NamesOf(i) = Cardinality(Entries(i)) + Cardinality(Kids(i)) + B(i = Root)
       /\ IsFiniteSet(Entries(i)) /\ IsFiniteSet(Kids(i)))'
  BY <1>1, PTL
<1> QED BY <1>2 DEF Root, B

LEMMA NamesStep ==
    ASSUME Whole, Types', SameTypes, NEW d \in Inodes, NEW n \in Plain, Writes(d, n), NEW i \in Inodes
    PROVE  NamesOf(i)' - NamesOf(i) =
               B(ents'[d][n] = i) - B(ents[d][n] = i)
               + B(i = d /\ ents'[d][n] # None /\ dinode'[ents'[d][n]].type = "dir")
               - B(i = d /\ ents[d][n] # None /\ dinode[ents[d][n]].type = "dir")
<1>1. IsFiniteSet(Entries(i)') /\ IsFiniteSet(Kids(i)')
  BY LinkSetsNext
<1>2. /\ NamesOf(i) = Cardinality(Entries(i)) + Cardinality(Kids(i)) + B(i = Root)
      /\ IsFiniteSet(Entries(i)) /\ IsFiniteSet(Kids(i))
  BY LinkSets
<1>3. Cardinality(Entries(i)') - Cardinality(Entries(i)) = B(ents'[d][n] = i) - B(ents[d][n] = i)
  <2> DEFINE e == <<d, n>>
  <2>1. \A t : t # e => (t \in Entries(i) <=> t \in Entries(i)')
    BY DEF Entries, Writes
  <2>2. (e \in Entries(i) <=> ents[d][n] = i) /\ (e \in Entries(i)' <=> ents'[d][n] = i)
    BY DEF Entries
  <2> HIDE DEF e
  <2>3. /\ Cardinality(Entries(i)') = Cardinality(Entries(i)) + B(e \in Entries(i)') - B(e \in Entries(i))
        /\ Cardinality(Entries(i)) \in Nat /\ Cardinality(Entries(i)') \in Nat
    BY <1>1, <1>2, <2>1, OnePoint
  <2> QED BY <2>2, <2>3 DEF B
<1>4. Cardinality(Kids(i)') - Cardinality(Kids(i)) =
               B(i = d /\ ents'[d][n] # None /\ dinode'[ents'[d][n]].type = "dir")
               - B(i = d /\ ents[d][n] # None /\ dinode[ents[d][n]].type = "dir")
  <2>1. \A m \in Plain : ents'[i][m] = ents[i][m] =>
            ((ents[i][m] # None /\ dinode[ents[i][m]].type = "dir")
              <=> (ents'[i][m] # None /\ dinode'[ents'[i][m]].type = "dir"))
    <3>1. \A m \in Plain : ents[i][m] \in Places
      BY WholeFacts DEF Types, Names
    <3> QED BY <3>1 DEF SameTypes, Places
  <2>2. CASE i # d
    <3>1. Kids(i)' = Kids(i)
      BY <2>1, <2>2 DEF Kids, Writes
    <3>2. Cardinality(Kids(i)) \in Nat
      BY LinkSets
    <3> QED BY <2>2, <3>1, <3>2 DEF B
  <2>3. CASE i = d
    <3>1. \A t : t # n => (t \in Kids(i) <=> t \in Kids(i)')
      BY <2>1 DEF Kids, Writes
    <3>2. /\ n \in Kids(i) <=> ents[d][n] # None /\ dinode[ents[d][n]].type = "dir"
          /\ n \in Kids(i)' <=> ents'[d][n] # None /\ dinode'[ents'[d][n]].type = "dir"
      BY <2>3 DEF Kids
    <3>3. /\ Cardinality(Kids(i)') = Cardinality(Kids(i)) + B(n \in Kids(i)') - B(n \in Kids(i))
          /\ Cardinality(Kids(i)) \in Nat /\ Cardinality(Kids(i)') \in Nat
      BY <1>1, <1>2, <3>1, OnePoint
    <3> QED BY <2>3, <3>2, <3>3 DEF B
  <2> QED BY <2>2, <2>3
<1>5. /\ Cardinality(Entries(i)) \in Nat /\ Cardinality(Entries(i)') \in Nat
      /\ Cardinality(Kids(i)) \in Nat /\ Cardinality(Kids(i)') \in Nat
  BY <1>1, <1>2, FS_CardinalityType
<1>6. NamesOf(i)' = Cardinality(Entries(i)') + Cardinality(Kids(i)') + B(i = Root)
  BY LinkSetsNext
<1> QED BY <1>2, <1>3, <1>4, <1>5, <1>6 DEF B

LEMMA NamesStay ==
    ASSUME Whole, SameTypes, ents' = ents, NEW i \in Inodes
    PROVE  NamesOf(i)' = NamesOf(i)
<1>1. \A m \in Plain : ents[i][m] \in Places
  BY WholeFacts DEF Types, Names
<1>2. {m \in Plain : ents'[i][m] # None /\ dinode'[ents'[i][m]].type = "dir"}
        = {m \in Plain : ents[i][m] # None /\ dinode[ents[i][m]].type = "dir"}
  BY <1>1 DEF SameTypes, Places
<1> QED BY <1>2 DEF NamesOf

LEMMA PendingStep ==
    ASSUME NEW p \in Procs, Alone(p), NEW i \in Inodes
    PROVE  Pending(i)' - Pending(i) = B(Owes(k'[p], i)) - B(Owes(k[p], i))
           /\ Pending(i) \in Nat /\ Pending(i)' \in Nat
<1>1. IsFiniteSet(Owing(i)) /\ IsFiniteSet(Owing(i)')
  BY FS_Subset, InodeConstants DEF Owing
<1>2. \A t : t # p => (t \in Owing(i) <=> t \in Owing(i)')
  BY DEF Owing, Alone
<1>3. (p \in Owing(i) <=> Owes(k[p], i)) /\ (p \in Owing(i)' <=> Owes(k'[p], i))
  BY DEF Owing
<1>4. /\ Cardinality(Owing(i)') = Cardinality(Owing(i)) + B(p \in Owing(i)') - B(p \in Owing(i))
      /\ Cardinality(Owing(i)) \in Nat /\ Cardinality(Owing(i)') \in Nat
  BY <1>1, <1>2, OnePoint
<1>5. Pending(i) = Cardinality(Owing(i)) /\ Pending(i)' = Cardinality(Owing(i)')
  BY DEF Pending, Owing, Owes
<1> QED BY <1>3, <1>4, <1>5 DEF B

\* The links follow the names and the debts.
Follows(p) ==
    \A i \in Inodes : dinode'[i].nlink - dinode[i].nlink =
        (NamesOf(i)' - NamesOf(i)) + (lost'[i] - lost[i]) + B(Owes(k'[p], i)) - B(Owes(k[p], i))

LEMMA NamesNat ==
    ASSUME NEW i \in Inodes
    PROVE  NamesOf(i) \in Nat /\ NamesOf(i)' \in Nat
<1>1. NamesOf(i) \in Nat
  BY LinkSets DEF B
<1>2. (i \in Inodes => NamesOf(i) \in Nat)'
  <2>1. i \in Inodes => NamesOf(i) \in Nat
    BY LinkSets DEF B
  <2> QED BY <2>1, PTL
<1> QED BY <1>1, <1>2

LEMMA LinkStep ==
    ASSUME Whole, Types', NEW p \in Procs, Alone(p), Follows(p),
           \A i \in Inodes : dinode'[i].type = "free" => dinode'[i].nlink = 0
    PROVE  LinkInv'
<1> SUFFICES ASSUME NEW i \in Inodes
             PROVE  dinode'[i].nlink = NamesOf(i)' + Pending(i)' + lost'[i]
  BY DEF LinkInv
<1>1. dinode[i].nlink = NamesOf(i) + Pending(i) + lost[i]
  BY WholeFacts DEF LinkInv
<1>2. /\ dinode[i].nlink \in Int /\ dinode'[i].nlink \in Int /\ lost[i] \in Nat /\ lost'[i] \in Nat
  BY WholeFacts DEF Types, Recs
<1>3. NamesOf(i) \in Nat /\ NamesOf(i)' \in Nat
  BY NamesNat
<1>4. Pending(i)' - Pending(i) = B(Owes(k'[p], i)) - B(Owes(k[p], i)) /\ Pending(i) \in Nat /\ Pending(i)' \in Nat
  BY PendingStep
<1>5. dinode'[i].nlink - dinode[i].nlink =
        (NamesOf(i)' - NamesOf(i)) + (lost'[i] - lost[i]) + B(Owes(k'[p], i)) - B(Owes(k[p], i))
  BY DEF Follows
<1>6. B(Owes(k'[p], i)) \in Int /\ B(Owes(k[p], i)) \in Int
  BY DEF B
<1> QED BY <1>1, <1>2, <1>3, <1>4, <1>5, <1>6

LEMMA DotsStay ==
    ASSUME Whole, NEW p \in Procs, Alone(p), SameTypes,
           \A i \in Inodes : Makes(k'[p], i) <=> Makes(k[p], i),
           \A d \in Inodes, n \in Names : ents'[d][n] # ents[d][n] => n \in Plain /\ Live(d) /\ IsDir(d)
    PROVE  DotsInv'
<1> SUFFICES ASSUME NEW i \in Inodes PROVE Dots(i)'
  BY DEF DotsInv
<1>1. Creating(i)' <=> Creating(i)
  BY CreatingStays
<1>2. Dots(i)
  BY WholeFacts DEF DotsInv
<1>3. IsDir(i)' <=> IsDir(i)
  BY DEF IsDir, SameTypes
<1>4. CASE IsDir(i) /\ ~Creating(i)
  <2>1. "." \in Names /\ ".." \in Names /\ "." \notin Plain /\ ".." \notin Plain
    BY InodeConstants DEF Names
  <2>2. ents'[i]["."] = ents[i]["."] /\ ents'[i][".."] = ents[i][".."]
    BY <2>1
  <2> QED BY <1>1, <1>2, <1>3, <1>4, <2>2 DEF Dots
<1>5. CASE ~(IsDir(i) /\ ~Creating(i))
  <2>1. \A n \in Names : ents'[i][n] = ents[i][n]
    BY <1>5 DEF Live
  <2> QED BY <1>1, <1>2, <1>3, <1>5, <2>1 DEF Dots
<1> QED BY <1>4, <1>5

-----------------------------------------------------------------------------
(* What a step is to the processes that look at the tree (FileTree).       *)

Maps == [T!Next]_(T!vars)

LEMMA Views ==
    /\ DOMAIN Kind = Inodes /\ DOMAIN Tree = Inodes /\ DOMAIN Uses = Procs
    /\ \A i \in Inodes : Kind[i] = IF Creating(i) THEN "free" ELSE dinode[i].type
    /\ \A i \in Inodes : Live(i) <=> Kind[i] # "free"
    /\ \A i \in Inodes, n \in Plain : Tree[i][n] = ents[i][n]
    /\ \A q \in Procs : Uses[q] = {cwd[q], file[q]} \ {None}
BY DEF Kind, Tree, Uses, Live

LEMMA KindStays ==
    ASSUME NEW p \in Procs, Alone(p), SameTypes, \A i \in Inodes : Makes(k'[p], i) <=> Makes(k[p], i)
    PROVE  Kind' = Kind
<1>1. \A i \in Inodes : Creating(i)' <=> Creating(i)
  BY CreatingStays
<1> QED BY <1>1 DEF Kind, SameTypes

LEMMA TreeWritten ==
    ASSUME NEW d \in Inodes, NEW n \in Plain, Writes(d, n), NEW v, ents'[d][n] = v
    PROVE  Tree' = [Tree EXCEPT ![d][n] = v]
BY DEF Tree, Writes

LEMMA TreeStays ==
    ASSUME NEW p \in Procs, Alone(p), SameTypes, \A i \in Inodes : Makes(k'[p], i) <=> Makes(k[p], i),
           ents' = ents, cwd' = cwd, file' = file
    PROVE  Maps
<1>1. Kind' = Kind
  BY KindStays
<1>2. Tree' = Tree /\ Uses' = Uses
  BY DEF Tree, Uses
<1> QED BY <1>1, <1>2 DEF Maps, T!vars

\* A step that leaves the disk alone may open or close a file, or change directory.
LEMMA QuietMaps == ASSUME Whole, Types', NEW p \in Procs, Alone(p), Quiet(p) PROVE Maps
<1>1. Kind' = Kind
  <2>1. SameTypes
    BY DEF Quiet, SameTypes, disk
  <2> QED BY <2>1, KindStays DEF Quiet, Same
<1>2. Tree' = Tree
  BY DEF Tree, Quiet, disk
<1>3. PICK S : S = {cwd'[p], file'[p]} \ {None}
  OBVIOUS
<1>4. S \in SUBSET {i \in Inodes : Kind[i] # "free"}
  <2>1. ASSUME NEW i \in S PROVE i \in Inodes /\ Kind[i] # "free"
    <3>1. i \in Inodes
      BY <1>3, <2>1 DEF Types, Places
    <3> QED BY <1>3, <2>1, <3>1, Views DEF Quiet
  <2> QED BY <2>1
<1>5. Uses' = [Uses EXCEPT ![p] = S]
  BY <1>3 DEF Uses, Alone
<1>6. T!Use(p)
  BY <1>1, <1>2, <1>4, <1>5 DEF T!Use
<1> QED BY <1>6 DEF Maps, T!Next
-----------------------------------------------------------------------------
(* The steps that change the disk.                                         *)

Sound(p) == Touches(p) /\ Holding(p) /\ Knows(p) /\ DotsInv' /\ LinkInv' /\ Maps

LEMMA SoundStep == ASSUME Whole, NEW p \in Procs, Alone(p), Sound(p) PROVE TreeInv'
  BY CallsStep DEF Sound, TreeInv

LEMMA StartFacts ==
    ASSUME Whole, NEW p \in Procs, NEW a \in BOOLEAN
    PROVE  /\ Start(p, a) \in Inodes /\ Live(Start(p, a))
           /\ Own(p, Start(p, a)) > 0 \/ dinode[Start(p, a)].nlink > 0
<1>1. CASE a
  BY <1>1, RootIs, RootHasLink, HasLink DEF Start
<1>2. CASE ~a
  <2>1. Start(p, a) = cwd[p] /\ cwd[p] \in Inodes
    BY <1>2, WholeFacts DEF Start, Types
  <2>2. NeedsAt(p, cwd[p])
    BY DEF NeedsAt
  <2> QED BY <2>1, <2>2, IsNeeded
<1> QED BY <1>1, <1>2

LEMMA HoldsLive ==
    ASSUME Whole, NEW p \in Procs, SameTypes, \A x \in Inodes : ~Makes(k'[p], x),
           \A x \in Inodes : cwd'[p] = x \/ file'[p] = x \/ Needs(k'[p], x) => Live(x)
    PROVE  Holding(p)
BY DEF Holding, SameTypes, Live

LEMMA LinksOf ==
    ASSUME Whole, NEW i \in Inodes, NEW n \in Int, Loaded(i) = dinode[i]
    PROVE  Links(i, n).type = dinode[i].type /\ Links(i, n).nlink = dinode[i].nlink + n
BY WholeFacts DEF Types, Recs, Links

LEMMA StaysFree ==
    ASSUME Whole, SameTypes, \A x \in Inodes : dinode'[x] # dinode[x] => Live(x)
    PROVE  \A x \in Inodes : dinode'[x].type = "free" => dinode'[x].nlink = 0
BY WholeFacts DEF LinkInv, Live, SameTypes

LEMMA LinkCountSound ==
    ASSUME Whole, Types', NEW p \in Procs, Alone(p), LinkCount(p), ~IsDir(k[p].ip)
    PROVE  Sound(p)
<1> DEFINE i == k[p].ip
           s == Start(p, k[p].abs)
           c == k'[p]
<1>1. /\ k[p].pc = "link" /\ CanLock(i) /\ k[p].drop = <<>> /\ k[p].put = "check" /\ k[p].sys = "link"
      /\ k[p].abs \in BOOLEAN
  BY WholeFacts, Calm, CallerFacts DEF LinkCount, At, Role, SysAt, Callers
<1>2. i \in Inodes /\ k[p].dp = None
  BY <1>1, WholeFacts, HasThem DEF NoIp, HasDp, LinkTo, HoldDp
<1>3. Loaded(i) = dinode[i] /\ dinode[i].type = "file"
  <2>1. Loaded(i) = dinode[i] /\ dinode[i].type # "free" /\ dinode[i] \in Recs
    BY <1>1, <1>2, WholeFacts, FreeLock DEF Types
  <2> QED BY <2>1 DEF IsDir, Recs
<1>4. NeedsAt(p, i)
  BY <1>1 DEF NeedsAt, Needs
<1>5. Live(i) /\ Own(p, i) > 0
  BY <1>2, <1>4, IsNeeded
<1>6. s \in Inodes /\ Live(s) /\ (Own(p, s) > 0 \/ dinode[s].nlink > 0)
  BY <1>1, StartFacts
<1>7. /\ dinode' = [dinode EXCEPT ![i] = LinkAdded(i)] /\ ref' = [ref EXCEPT ![s] = @ + 1]
      /\ k' = [k EXCEPT ![p].pc = "nameiparent", ![p].path = k[p].new, ![p].ip = s, ![p].dp = i]
      /\ ents' = ents /\ lost' = lost /\ cwd' = cwd /\ file' = file
  BY <1>3, WholeFacts DEF LinkCount, IsDir, user, At, Types
<1>8. c.pc = "nameiparent" /\ c.sys = "link" /\ c.ip = s /\ c.dp = i /\ c.drop = <<>> /\ c.put = "check"
  BY <1>1, <1>7, WholeFacts, CallerFacts DEF Roles, Callers
<1>9. /\ dinode'[i].type = "file" /\ dinode'[i].nlink = dinode[i].nlink + 1
      /\ \A x \in Inodes : x # i => dinode'[x] = dinode[x]
  <2>1. dinode'[i] = Links(i, 1) /\ \A x \in Inodes : x # i => dinode'[x] = dinode[x]
    BY <1>2, <1>7, WholeFacts DEF LinkAdded, Types
  <2> QED BY <1>2, <1>3, <2>1, LinksOf
<1>10. SameTypes
  BY <1>3, <1>9 DEF SameTypes
<1>11. \A x \in Inodes : x # s => ref'[x] = ref[x]
  BY <1>6, <1>7, WholeFacts DEF Types
<1>12. cwd' = cwd /\ file' = file /\ ents' = ents /\ lost' = lost
  BY <1>7
<1> HIDE DEF c, i, s
<1>13. Touches(p)
  BY <1>3, <1>5, <1>6, <1>9, <1>11, <1>12 DEF Touches
<1>14. ASSUME NEW x \in Inodes, cwd'[p] = x \/ file'[p] = x \/ Needs(k'[p], x) PROVE Live(x)
  <2>1. x = i \/ x = s \/ NeedsAt(p, x)
    BY <1>8, <1>12, <1>14 DEF Needs, NeedsAt, c
  <2> QED BY <1>5, <1>6, <2>1, IsNeeded
<1>15. \A x \in Inodes : ~Makes(k'[p], x) /\ ~Makes(k[p], x) /\ (Owes(k'[p], x) <=> x = i) /\ ~Owes(k[p], x)
  BY <1>1, <1>2, <1>8, RootIs DEF Makes, Owes, c
<1>16. Holding(p)
  BY <1>10, <1>14, <1>15, HoldsLive
<1>17. Knows(p)
  BY <1>8, <1>9 DEF Knows, Kinds, Entry, Made, Frees, HoldDp, c
<1>18. DotsInv'
  BY <1>10, <1>12, <1>15, DotsStay
<1>19. Follows(p)
  <2> SUFFICES ASSUME NEW x \in Inodes
               PROVE  dinode'[x].nlink - dinode[x].nlink =
                        (NamesOf(x)' - NamesOf(x)) + (lost'[x] - lost[x]) + B(Owes(k'[p], x)) - B(Owes(k[p], x))
    BY DEF Follows
  <2>1. NamesOf(x)' = NamesOf(x) /\ NamesOf(x) \in Nat
    BY <1>10, <1>12, NamesStay, NamesNat
  <2>2. dinode'[x].nlink - dinode[x].nlink = B(x = i) /\ lost'[x] - lost[x] = 0
    BY <1>9, <1>12, WholeFacts DEF B, Types, Recs
  <2>3. B(Owes(k'[p], x)) = B(x = i) /\ B(Owes(k[p], x)) = 0 /\ B(x = i) \in Int
    BY <1>15 DEF B
  <2> QED BY <2>1, <2>2, <2>3
<1>20. LinkInv'
  <2>1. \A x \in Inodes : dinode'[x].type = "free" => dinode'[x].nlink = 0
    BY <1>5, <1>9, <1>10, StaysFree
  <2> QED BY <1>19, <2>1, LinkStep
<1>21. Maps
  BY <1>10, <1>12, <1>15, TreeStays
<1> QED BY <1>12, <1>13, <1>16, <1>17, <1>18, <1>20, <1>21 DEF Sound

\* The call ends with an inode that has one link less, for the debt.
LEMMA UndoSound ==
    ASSUME Whole, Types', NEW p \in Procs, Alone(p), NEW i \in Inodes, k[p].ip = i, k[p].dp = None,
           k[p].pc \in {"bad", "unlink_count"}, Loaded(i) = dinode[i],
           Iupdate(i, Links(i, -1)), Return(p, <<i>>),
           ents' = ents, lost' = lost, cwd' = cwd, file' = file, ref' = ref
    PROVE  Sound(p)
<1> DEFINE c == k'[p]
<1>1. NeedsAt(p, i)
  BY DEF NeedsAt, Needs
<1>2. Live(i) /\ Own(p, i) > 0
  BY <1>1, IsNeeded
<1>3. c.pc = "idle" /\ c.sys = "none" /\ c.ip = None /\ c.dp = None /\ c.drop = <<i>> /\ c.put = "check"
  BY WholeFacts DEF Return, Roles, Idle
<1>4. /\ dinode'[i].type = dinode[i].type /\ dinode'[i].nlink = dinode[i].nlink - 1
      /\ \A x \in Inodes : x # i => dinode'[x] = dinode[x]
  <2>1. dinode'[i] = Links(i, -1) /\ \A x \in Inodes : x # i => dinode'[x] = dinode[x]
    BY WholeFacts DEF Iupdate, Types
  <2>2. Links(i, -1).type = dinode[i].type /\ Links(i, -1).nlink = dinode[i].nlink + (-1)
    BY LinksOf
  <2>3. dinode[i].nlink \in Int
    BY WholeFacts DEF Types, Recs
  <2> QED BY <2>1, <2>2, <2>3
<1>5. SameTypes
  BY <1>4 DEF SameTypes
<1> HIDE DEF c
<1>6. Touches(p)
  BY <1>2, <1>4 DEF Touches
<1>7. ASSUME NEW x \in Inodes, cwd'[p] = x \/ file'[p] = x \/ Needs(k'[p], x) PROVE Live(x)
  <2>1. x = i \/ NeedsAt(p, x)
    BY <1>3, <1>7, RootIs DEF Needs, NeedsAt, c
  <2> QED BY <1>2, <2>1, IsNeeded
<1>8. \A x \in Inodes : ~Makes(k'[p], x) /\ ~Makes(k[p], x) /\ ~Owes(k'[p], x) /\ (Owes(k[p], x) <=> x = i)
  BY <1>3, RootIs DEF Makes, Owes, c
<1>9. Holding(p)
  BY <1>5, <1>7, <1>8, HoldsLive
<1>10. Knows(p)
  BY <1>3 DEF Knows, Kinds, Entry, Made, Frees, HoldDp, c
<1>11. DotsInv'
  BY <1>5, <1>8, DotsStay
<1>12. Follows(p)
  <2> SUFFICES ASSUME NEW x \in Inodes
               PROVE  dinode'[x].nlink - dinode[x].nlink =
                        (NamesOf(x)' - NamesOf(x)) + (lost'[x] - lost[x]) + B(Owes(k'[p], x)) - B(Owes(k[p], x))
    BY DEF Follows
  <2>1. NamesOf(x)' = NamesOf(x) /\ NamesOf(x) \in Nat
    BY <1>5, NamesStay, NamesNat
  <2>2. dinode'[x].nlink - dinode[x].nlink = - B(x = i) /\ lost'[x] - lost[x] = 0
    BY <1>4, WholeFacts DEF B, Types, Recs
  <2>3. B(Owes(k[p], x)) = B(x = i) /\ B(Owes(k'[p], x)) = 0 /\ B(x = i) \in Int
    BY <1>8 DEF B
  <2> QED BY <2>1, <2>2, <2>3
<1>13. LinkInv'
  <2>1. \A x \in Inodes : dinode'[x].type = "free" => dinode'[x].nlink = 0
    BY <1>2, <1>4, <1>5, StaysFree
  <2> QED BY <1>12, <2>1, LinkStep
<1>14. Maps
  BY <1>5, <1>8, TreeStays
<1> QED BY <1>6, <1>9, <1>10, <1>11, <1>13, <1>14 DEF Sound

LEMMA LinkUndoSound ==
    ASSUME Whole, Types', NEW p \in Procs, Alone(p), LinkUndo(p)
    PROVE  Sound(p)
<1> DEFINE i == k[p].ip
<1>1. /\ k[p].pc = "bad" /\ CanLock(i) /\ Iupdate(i, Links(i, -1)) /\ Return(p, <<i>>)
      /\ ents' = ents /\ lost' = lost /\ cwd' = cwd /\ file' = file /\ ref' = ref
  BY WholeFacts DEF LinkUndo, At, user, Types
<1>2. i \in Inodes /\ k[p].dp = None
  BY <1>1, WholeFacts, HasThem DEF NoIp, HasDp, LinkTo, HoldDp
<1>3. Loaded(i) = dinode[i]
  BY <1>1, <1>2, WholeFacts, FreeLock
<1> HIDE DEF Iupdate, Return
<1> QED BY <1>1, <1>2, <1>3, UndoSound

LEMMA UnlinkCountSound ==
    ASSUME Whole, Types', NEW p \in Procs, Alone(p), UnlinkCount(p)
    PROVE  Sound(p)
<1> DEFINE i == k[p].ip
<1>1. /\ k[p].pc = "unlink_count" /\ k[p].drop = <<>> /\ Iupdate(i, Links(i, -1)) /\ Return(p, <<i>>)
      /\ ents' = ents /\ lost' = lost /\ cwd' = cwd /\ file' = file /\ ref' = ref
  BY WholeFacts DEF UnlinkCount, At, user, Types
<1>2. i \in Inodes /\ k[p].dp = None
  BY <1>1, WholeFacts, HasThem DEF NoIp, HasDp, LinkTo, HoldDp
<1>3. Loaded(i) = dinode[i]
  <2>1. Holds(k[p], i) /\ k[p].put = "check"
    BY <1>1, WholeFacts, Calm DEF Holds, HoldIp
  <2> QED BY <1>2, <2>1, WholeFacts, MyLock
<1> HIDE DEF Iupdate, Return
<1> QED BY <1>1, <1>2, <1>3, UndoSound

LEMMA LinkEntrySound ==
    ASSUME Whole, Types', NEW p \in Procs, Alone(p), LinkEntry(p), ents[k[p].ip][Head(k[p].path)] = None
    PROVE  Sound(p)
<1> DEFINE d == k[p].ip
           n == Head(k[p].path)
           i == k[p].dp
           c == k'[p]
<1>1. /\ k[p].pc = "linkdir" /\ CanLock(d) /\ k[p].drop = <<>> /\ k[p].sys = "link"
  BY WholeFacts, CallerFacts DEF LinkEntry, At, Role, SysAt
<1>2. d \in Inodes /\ n \in Names /\ i \in Inodes
  BY <1>1, WholeFacts, HasThem DEF NoIp, ByName, HasDp, LinkTo
<1>3. dinode[i].type = "file" /\ IsDir(d)
  BY <1>1, <1>2, WholeFacts, RootIs DEF CallInv, Kinds
<1>4. NeedsAt(p, i) /\ NeedsAt(p, d)
  BY <1>1 DEF NeedsAt, Needs
<1>5. Live(i) /\ Live(d)
  BY <1>2, <1>4, IsNeeded
<1>6. n \in Plain /\ ents[d][n] = None
  <2>1. Dots(d)
    BY <1>2, WholeFacts DEF DotsInv
  <2> QED BY <1>2, <1>3, <1>5, <2>1, RootIs DEF Dots, Live, Names
<1>7. /\ ents' = [ents EXCEPT ![d][n] = i] /\ Return(p, <<d, i>>) /\ ref' = ref
      /\ dinode' = dinode /\ lost' = lost /\ cwd' = cwd /\ file' = file
  BY WholeFacts DEF LinkEntry, user, At, Types
<1>8. c.pc = "idle" /\ c.sys = "none" /\ c.ip = None /\ c.dp = None /\ c.drop = <<d, i>> /\ c.put = "check"
  BY <1>7, WholeFacts DEF Return, Roles, Idle
<1>9. /\ ents'[d][n] = i
      /\ \A x \in Inodes, m \in Names : ents'[x][m] = ents[x][m] \/ (x = d /\ m = n)
      /\ \A x \in Inodes : ents'[x] # ents[x] => x = d
  BY <1>2, <1>7, WholeFacts DEF Types
<1>10. dinode' = dinode /\ lost' = lost /\ cwd' = cwd /\ file' = file /\ ref' = ref
       /\ lock[d] = Nobody /\ k[p].pc = "linkdir" /\ k[p].sys = "link" /\ k[p].dp = i /\ k[p].ip = d
  BY <1>1, <1>7 DEF CanLock
<1> HIDE DEF c, i, d, n
<1>11. SameTypes
  BY <1>10 DEF SameTypes
<1>12. Touches(p)
  BY <1>9, <1>10 DEF Touches
<1>13. ASSUME NEW x \in Inodes, cwd'[p] = x \/ file'[p] = x \/ Needs(k'[p], x) PROVE Live(x)
  <2>1. x = i \/ x = d \/ NeedsAt(p, x)
    BY <1>8, <1>10, <1>13, RootIs DEF Needs, NeedsAt, c
  <2> QED BY <1>5, <2>1, IsNeeded
<1>14. \A x \in Inodes : ~Makes(k'[p], x) /\ ~Makes(k[p], x) /\ ~Owes(k'[p], x) /\ (Owes(k[p], x) <=> x = i)
  BY <1>8, <1>10, RootIs DEF Makes, Owes, c
<1>15. Holding(p)
  BY <1>11, <1>13, <1>14, HoldsLive
<1>16. Knows(p)
  BY <1>8 DEF Knows, Kinds, Entry, Made, Frees, HoldDp, c
<1>17. DotsInv'
  BY <1>3, <1>5, <1>6, <1>9, <1>11, <1>14, DotsStay
<1>18. Follows(p)
  <2> SUFFICES ASSUME NEW x \in Inodes
               PROVE  dinode'[x].nlink - dinode[x].nlink =
                        (NamesOf(x)' - NamesOf(x)) + (lost'[x] - lost[x]) + B(Owes(k'[p], x)) - B(Owes(k[p], x))
    BY DEF Follows
  <2>1. Writes(d, n)
    BY <1>9 DEF Writes, Names
  <2>2. NamesOf(x)' - NamesOf(x) =
               B(ents'[d][n] = x) - B(ents[d][n] = x)
               + B(x = d /\ ents'[d][n] # None /\ dinode'[ents'[d][n]].type = "dir")
               - B(x = d /\ ents[d][n] # None /\ dinode[ents[d][n]].type = "dir")
    BY <1>2, <1>6, <1>11, <2>1, NamesStep
  <2>3. NamesOf(x)' - NamesOf(x) = B(x = i)
    BY <1>3, <1>6, <1>9, <1>10, <2>2, RootIs DEF B
  <2>4. dinode'[x].nlink - dinode[x].nlink = 0 /\ lost'[x] - lost[x] = 0
    BY <1>10, WholeFacts DEF Types, Recs
  <2>5. B(Owes(k[p], x)) = B(x = i) /\ B(Owes(k'[p], x)) = 0 /\ B(x = i) \in Int
    BY <1>14 DEF B
  <2> QED BY <2>3, <2>4, <2>5
<1>19. LinkInv'
  <2>1. \A x \in Inodes : dinode'[x].type = "free" => dinode'[x].nlink = 0
    BY <1>10, <1>11, StaysFree
  <2> QED BY <1>18, <2>1, LinkStep
<1>20. Maps
  <2>1. Kind' = Kind
    BY <1>11, <1>14, KindStays
  <2>2. Tree' = [Tree EXCEPT ![d][n] = i]
    <3>1. Writes(d, n)
      BY <1>9 DEF Writes, Names
    <3> QED BY <1>2, <1>6, <1>9, <3>1, TreeWritten
  <2>3. Uses' = Uses
    BY <1>10 DEF Uses
  <2>4. Kind[d] = "dir" /\ Tree[d][n] = None /\ Kind[i] = "file"
    BY <1>2, <1>3, <1>5, <1>6, Views DEF IsDir, Live
  <2>5. T!Link(d, n, i)
    BY <2>1, <2>2, <2>3, <2>4 DEF T!Link
  <2> QED BY <1>2, <1>6, <2>5 DEF Maps, T!Next
<1> QED BY <1>10, <1>12, <1>15, <1>16, <1>17, <1>19, <1>20 DEF Sound

LEMMA UnlinkEntrySound ==
    ASSUME Whole, Types', NEW p \in Procs, Alone(p), UnlinkEntry(p), ~(IsDir(k[p].ip) /\ ~DirEmpty(k[p].ip))
    PROVE  Sound(p)
<1> DEFINE i == k[p].ip
           d == k[p].dp
           n == Head(k[p].path)
           c == k'[p]
           D == IF IsDir(i) THEN Links(d, -1) ELSE Loaded(d)
<1>1. /\ k[p].pc = "unlink_ip" /\ CanLock(i) /\ k[p].drop = <<>> /\ k[p].put = "check" /\ k[p].sys = "unlink"
  BY WholeFacts, Calm, CallerFacts DEF UnlinkEntry, At, Role, SysAt
<1>2. d \in Inodes /\ i \in Inodes
  BY <1>1, WholeFacts, HasThem DEF NoIp, HasDp, HoldDp
<1>3. Loaded(i) = dinode[i] /\ lock[i] = Nobody /\ dinode[i].type # "free"
  BY <1>1, <1>2, WholeFacts, FreeLock
<1>4. Loaded(d) = dinode[d] /\ lock[d] = p /\ IsDir(d)
  <2>1. Holds(k[p], d)
    BY <1>1 DEF Holds, HoldDp
  <2> QED BY <1>1, <1>2, <2>1, WholeFacts, MyLock DEF CallInv, Kinds, HoldDp
<1>5. n \in Plain /\ ents[d][n] = i
  BY <1>1, WholeFacts DEF CallInv, Entry
<1>6. d # i
  BY <1>3, <1>4, InodeConstants
<1>7. NeedsAt(p, i) /\ NeedsAt(p, d)
  BY <1>1 DEF NeedsAt, Needs
<1>8. Live(i) /\ Live(d) /\ Own(p, d) > 0
  BY <1>2, <1>7, IsNeeded
<1>9. /\ ents' = [ents EXCEPT ![d][n] = None] /\ dinode' = [dinode EXCEPT ![d] = D] /\ ref' = ref
      /\ k' = [k EXCEPT ![p].pc = "unlink_count", ![p].dp = None, ![p].drop = <<d>>]
      /\ lost' = lost /\ cwd' = cwd /\ file' = file
  BY <1>3, WholeFacts DEF UnlinkEntry, user, At, Types, IsDir
<1>10. c.pc = "unlink_count" /\ c.sys = "unlink" /\ c.ip = i /\ c.dp = None /\ c.drop = <<d>> /\ c.put = "check"
  BY <1>1, <1>9, WholeFacts, CallerFacts DEF Roles, Callers
<1>11. /\ ents'[d][n] = None
       /\ \A x \in Inodes, m \in Names : ents'[x][m] = ents[x][m] \/ (x = d /\ m = n)
       /\ \A x \in Inodes : ents'[x] # ents[x] => x = d
  BY <1>2, <1>5, <1>9, WholeFacts DEF Types, Names
<1>12. /\ dinode'[d].type = dinode[d].type
       /\ dinode'[d].nlink - dinode[d].nlink = - B(dinode[i].type = "dir")
       /\ \A x \in Inodes : x # d => dinode'[x] = dinode[x]
  <2>1. dinode'[d] = D /\ \A x \in Inodes : x # d => dinode'[x] = dinode[x]
    BY <1>2, <1>9, WholeFacts DEF Types
  <2>2. Links(d, -1).type = dinode[d].type /\ Links(d, -1).nlink = dinode[d].nlink + (-1)
    BY <1>2, <1>4, LinksOf
  <2>3. dinode[d].nlink \in Int
    BY <1>2, WholeFacts DEF Types, Recs
  <2> QED BY <1>4, <2>1, <2>2, <2>3 DEF B, IsDir
<1>13. lost' = lost /\ cwd' = cwd /\ file' = file /\ ref' = ref
       /\ k[p].pc = "unlink_ip" /\ k[p].sys = "unlink" /\ k[p].dp = d /\ k[p].ip = i
  BY <1>1, <1>9
<1> HIDE DEF c, i, d, n, D
<1>14. SameTypes
  BY <1>12 DEF SameTypes
<1>15. Touches(p)
  BY <1>4, <1>8, <1>11, <1>12, <1>13 DEF Touches
<1>16. ASSUME NEW x \in Inodes, cwd'[p] = x \/ file'[p] = x \/ Needs(k'[p], x) PROVE Live(x)
  <2>1. x = i \/ x = d \/ NeedsAt(p, x)
    BY <1>10, <1>13, <1>16, RootIs DEF Needs, NeedsAt, c
  <2> QED BY <1>8, <2>1, IsNeeded
<1>17. \A x \in Inodes : ~Makes(k'[p], x) /\ ~Makes(k[p], x) /\ ~Owes(k[p], x) /\ (Owes(k'[p], x) <=> x = i)
  BY <1>10, <1>13, RootIs DEF Makes, Owes, c
<1>18. Holding(p)
  BY <1>14, <1>16, <1>17, HoldsLive
<1>19. Knows(p)
  BY <1>10 DEF Knows, Kinds, Entry, Made, Frees, HoldDp, c
<1>20. DotsInv'
  BY <1>4, <1>5, <1>8, <1>11, <1>14, <1>17, DotsStay
<1>21. Follows(p)
  <2> SUFFICES ASSUME NEW x \in Inodes
               PROVE  dinode'[x].nlink - dinode[x].nlink =
                        (NamesOf(x)' - NamesOf(x)) + (lost'[x] - lost[x]) + B(Owes(k'[p], x)) - B(Owes(k[p], x))
    BY DEF Follows
  <2>1. Writes(d, n)
    BY <1>11 DEF Writes, Names
  <2>2. NamesOf(x)' - NamesOf(x) =
               B(ents'[d][n] = x) - B(ents[d][n] = x)
               + B(x = d /\ ents'[d][n] # None /\ dinode'[ents'[d][n]].type = "dir")
               - B(x = d /\ ents[d][n] # None /\ dinode[ents[d][n]].type = "dir")
    BY <1>2, <1>5, <1>14, <2>1, NamesStep
  <2>3. NamesOf(x)' - NamesOf(x) = - B(x = i) - B(x = d /\ dinode[i].type = "dir")
    BY <1>2, <1>5, <1>11, <2>2, RootIs DEF B
  <2>4. dinode'[x].nlink - dinode[x].nlink = - B(x = d /\ dinode[i].type = "dir") /\ lost'[x] - lost[x] = 0
    <3>1. dinode[x].nlink \in Int /\ lost[x] \in Int
      BY WholeFacts DEF Types, Recs
    <3> QED BY <1>12, <1>13, <3>1 DEF B
  <2>5. B(Owes(k'[p], x)) = B(x = i) /\ B(Owes(k[p], x)) = 0 /\ B(x = i) \in Int
        /\ B(x = d /\ dinode[i].type = "dir") \in Int
    BY <1>17 DEF B
  <2> QED BY <2>3, <2>4, <2>5
<1>22. LinkInv'
  <2>1. \A x \in Inodes : dinode'[x].type = "free" => dinode'[x].nlink = 0
    BY <1>8, <1>12, <1>14, StaysFree
  <2> QED BY <1>21, <2>1, LinkStep
<1>23. Maps
  <2>1. Kind' = Kind
    BY <1>14, <1>17, KindStays
  <2>2. Tree' = [Tree EXCEPT ![d][n] = None]
    <3>1. Writes(d, n)
      BY <1>11 DEF Writes, Names
    <3> QED BY <1>2, <1>5, <1>11, <3>1, TreeWritten
  <2>3. Uses' = Uses
    BY <1>13 DEF Uses
  <2>4. Kind[d] = "dir" /\ Tree[d][n] = i /\ i # None
    BY <1>2, <1>4, <1>5, <1>8, RootIs, Views DEF IsDir, Live
  <2>5. Kind[i] = "dir" => T!Empty(i)
    <3>1. SUFFICES ASSUME Kind[i] = "dir", NEW m \in Plain PROVE Tree[i][m] = None
      BY DEF T!Empty
    <3>2. IsDir(i) => DirEmpty(i)
      BY DEF i
    <3>3. IsDir(i)
      BY <1>2, <1>8, <3>1, Views DEF IsDir, Live
    <3> QED BY <1>2, <3>2, <3>3, Views DEF DirEmpty
  <2>6. T!Unlink(d, n)
    BY <2>1, <2>2, <2>3, <2>4, <2>5 DEF T!Unlink
  <2> QED BY <1>2, <1>5, <2>6 DEF Maps, T!Next
<1> QED BY <1>13, <1>15, <1>18, <1>19, <1>20, <1>22, <1>23 DEF Sound

LEMMA CreateEntrySound ==
    ASSUME Whole, Types', NEW p \in Procs, Alone(p), CreateEntry(p)
    PROVE  Sound(p)
<1> DEFINE i == k[p].ip
           d == k[p].dp
           n == Head(k[p].path)
           isDir == k[p].sys = "mkdir"
           c == k'[p]
           I == [Loaded(i) EXCEPT !.nlink = 1]
           D == IF isDir THEN Links(d, 1) ELSE Loaded(d)
           dots == [ents[i] EXCEPT !["."] = i, ![".."] = d]
<1>1. /\ k[p].pc = "creat_ip" /\ CanLock(i) /\ k[p].drop = <<>> /\ k[p].put = "check"
      /\ k[p].sys \in {"creat", "mkdir"}
  BY WholeFacts, Calm, CallerFacts DEF CreateEntry, At, Role, SysAt
<1>2. d \in Inodes /\ i \in Inodes
  BY <1>1, WholeFacts, HasThem DEF NoIp, HasDp, HoldDp
<1>3. Loaded(i) = dinode[i] /\ lock[i] = Nobody /\ dinode[i].type # "free"
  BY <1>1, <1>2, WholeFacts, FreeLock
<1>4. Loaded(d) = dinode[d] /\ lock[d] = p /\ IsDir(d)
  <2>1. Holds(k[p], d)
    BY <1>1 DEF Holds, HoldDp
  <2> QED BY <1>1, <1>2, <2>1, WholeFacts, MyLock DEF CallInv, Kinds, HoldDp
<1>5. n \in Plain /\ ents[d][n] = None
  BY <1>1, WholeFacts DEF CallInv, Entry
<1>6. d # i
  BY <1>3, <1>4, InodeConstants
<1>7. dinode[i] = [type |-> IF isDir THEN "dir" ELSE "file", nlink |-> 0]
  BY <1>1, WholeFacts DEF CallInv, Made
<1>8. Live(d) /\ Own(p, d) > 0 /\ Makes(k[p], i)
  <2>1. NeedsAt(p, d)
    BY DEF NeedsAt, Needs
  <2> QED BY <1>1, <1>2, <2>1, IsNeeded DEF Makes
<1>9. /\ dinode' = [dinode EXCEPT ![i] = I, ![d] = D] /\ ref' = ref
      /\ ents' = [ents EXCEPT ![i] = IF isDir THEN dots ELSE @, ![d][n] = i]
      /\ k' = [k EXCEPT ![p].pc = IF isDir THEN "mkdir_end" ELSE "open_fd", ![p].dp = None, ![p].drop = <<d>>]
      /\ lost' = lost /\ cwd' = cwd /\ file' = file
  BY WholeFacts DEF CreateEntry, user, At, Types
<1>10. c.pc \in {"mkdir_end", "open_fd"} /\ c.sys = k[p].sys /\ c.ip = i /\ c.dp = None /\ c.drop = <<d>>
       /\ c.put = "check"
  BY <1>1, <1>9, WholeFacts, CallerFacts DEF Roles, Callers
<1>11. /\ ents'[d][n] = i
       /\ \A x \in Inodes, m \in Names : x # i => ents'[x][m] = ents[x][m] \/ (x = d /\ m = n)
       /\ \A x \in Inodes : ents'[x] # ents[x] => x = d \/ x = i
       /\ ents'[i] = IF isDir THEN dots ELSE ents[i]
  <2>1. ents \in [Inodes -> [Names -> Places]] /\ n \in Names
    BY <1>5, WholeFacts DEF Types, Names
  <2>2. ents' = [ents EXCEPT ![i] = IF isDir THEN dots ELSE @, ![d][n] = i]
    BY <1>9
  <2> HIDE DEF dots, isDir, i, d, n
  <2>3. ents'[d] = [ents[d] EXCEPT ![n] = i]
    BY <1>2, <1>6, <2>1, <2>2
  <2>4. ents'[i] = IF isDir THEN dots ELSE ents[i]
    BY <1>2, <1>6, <2>1, <2>2
  <2>5. \A x \in Inodes : x # d /\ x # i => ents'[x] = ents[x]
    BY <2>1, <2>2
  <2>6. ents'[d][n] = i /\ \A m \in Names : m # n => ents'[d][m] = ents[d][m]
    BY <1>2, <2>1, <2>3
  <2> QED BY <1>6, <2>4, <2>5, <2>6
<1>12. /\ \A m \in Plain : ents'[i][m] = ents[i][m]
       /\ isDir => ents'[i]["."] = i /\ ents'[i][".."] = d
       /\ ~isDir => \A m \in Names : ents'[i][m] = ents[i][m]
  <2>1. "." \in Names /\ ".." \in Names /\ "." \notin Plain /\ ".." \notin Plain
    BY InodeConstants DEF Names
  <2>2. ents[i] \in [Names -> Places]
    BY <1>2, WholeFacts DEF Types
  <2> QED BY <1>11, <2>1, <2>2 DEF Names
<1>13. /\ dinode'[d].type = dinode[d].type /\ dinode'[i].type = dinode[i].type
       /\ dinode'[d].nlink - dinode[d].nlink = B(isDir)
       /\ dinode'[i].nlink = 1
       /\ \A x \in Inodes : x # d /\ x # i => dinode'[x] = dinode[x]
  <2>1. dinode'[d] = D /\ dinode'[i] = I /\ \A x \in Inodes : x # d /\ x # i => dinode'[x] = dinode[x]
    BY <1>2, <1>6, <1>9, WholeFacts DEF Types
  <2>2. Links(d, 1).type = dinode[d].type /\ Links(d, 1).nlink = dinode[d].nlink + 1
    BY <1>2, <1>4, LinksOf
  <2>3. dinode[d].nlink \in Int
    BY <1>2, WholeFacts DEF Types, Recs
  <2>4. I.type = dinode[i].type /\ I.nlink = 1
    BY <1>3, <1>7
  <2> QED BY <1>4, <2>1, <2>2, <2>3, <2>4 DEF B
<1>14. lost' = lost /\ cwd' = cwd /\ file' = file /\ ref' = ref
       /\ k[p].pc = "creat_ip" /\ k[p].sys \in {"creat", "mkdir"} /\ k[p].dp = d /\ k[p].ip = i
       /\ (dinode[i].type = "dir" <=> isDir) /\ dinode[i].nlink = 0
  BY <1>1, <1>7, <1>9
<1> HIDE DEF c, i, d, n, D, I, dots, isDir
<1>15. SameTypes
  BY <1>13 DEF SameTypes
<1>16. Touches(p)
  BY <1>4, <1>8, <1>11, <1>13, <1>14 DEF Touches
<1>17. \A x \in Inodes : ~Makes(k'[p], x) /\ ~Owes(k[p], x) /\ ~Owes(k'[p], x) /\ (Makes(k[p], x) <=> x = i)
  BY <1>10, <1>14, RootIs DEF Makes, Owes, c
<1>18. Holding(p)
  <2> SUFFICES ASSUME NEW x \in Inodes, cwd'[p] = x \/ file'[p] = x \/ Needs(k'[p], x)
               PROVE  dinode'[x].type # "free" /\ (Live(x) \/ Makes(k[p], x))
    BY <1>17 DEF Holding
  <2>1. x = i \/ x = d \/ NeedsAt(p, x)
    BY <1>10, <1>14, RootIs DEF Needs, NeedsAt, c
  <2>2. x = i \/ Live(x)
    BY <1>8, <2>1, IsNeeded
  <2> QED BY <1>3, <1>8, <1>15, <2>2 DEF SameTypes, Live
<1>19. Knows(p)
  BY <1>10, <1>14 DEF Knows, Kinds, Entry, Made, Frees, HoldDp, c
<1>20. DotsInv'
  <2> SUFFICES ASSUME NEW x \in Inodes PROVE Dots(x)'
    BY DEF DotsInv
  <2>1. Dots(x)
    BY WholeFacts DEF DotsInv
  <2>2. IsDir(x)' <=> IsDir(x)
    BY <1>15 DEF IsDir, SameTypes
  <2>3. CASE x = i
    <3>1. ~Creating(x)'
      <4>1. \A q \in Procs \ {p} : ~Makes(k[q], x)
        BY <1>8, <2>3, WholeFacts DEF MakeInv
      <4>2. \A q \in Procs : ~Makes(k'[q], x)
        BY <1>17, <4>1 DEF Alone
      <4> QED BY <4>2 DEF Creating, Makes
    <3>2. Creating(x)
      BY <1>8, <2>3 DEF Creating, Makes
    <3>3. CASE isDir
      <4>1. ents'[x]["."] = x /\ ents'[x][".."] = d /\ d # None /\ dinode[x].type = "dir"
        BY <1>2, <1>12, <1>14, <2>3, <3>3, RootIs
      <4> QED BY <2>2, <3>1, <4>1 DEF Dots, IsDir
    <3>4. CASE ~isDir
      BY <1>12, <1>14, <2>1, <2>2, <2>3, <3>2, <3>4 DEF Dots, IsDir
    <3> QED BY <3>3, <3>4
  <2>4. CASE x # i
    <3>1. Creating(x)' <=> Creating(x)
      BY <1>17, <2>4, CreatingStays
    <3>2. "." \in Names /\ ".." \in Names /\ "." # n /\ ".." # n
      BY <1>5, InodeConstants DEF Names
    <3>3. CASE x = d
      <4>1. ~Creating(x)
        BY <1>8, <3>3 DEF Live
      <4>2. ents'[x]["."] = ents[x]["."] /\ ents'[x][".."] = ents[x][".."]
        BY <1>11, <2>4, <3>2
      <4> QED BY <1>4, <2>1, <2>2, <3>1, <3>3, <4>1, <4>2 DEF Dots
    <3>4. CASE x # d
      <4>1. ents'[x] = ents[x]
        BY <1>11, <2>4, <3>4
      <4> QED BY <2>1, <2>2, <3>1, <4>1 DEF Dots
    <3> QED BY <3>3, <3>4
  <2> QED BY <2>3, <2>4
<1>21. Follows(p)
  <2> SUFFICES ASSUME NEW x \in Inodes
               PROVE  dinode'[x].nlink - dinode[x].nlink =
                        (NamesOf(x)' - NamesOf(x)) + (lost'[x] - lost[x]) + B(Owes(k'[p], x)) - B(Owes(k[p], x))
    BY DEF Follows
  <2>1. Writes(d, n)
    BY <1>11, <1>12 DEF Writes, Names
  <2>2. NamesOf(x)' - NamesOf(x) =
               B(ents'[d][n] = x) - B(ents[d][n] = x)
               + B(x = d /\ ents'[d][n] # None /\ dinode'[ents'[d][n]].type = "dir")
               - B(x = d /\ ents[d][n] # None /\ dinode[ents[d][n]].type = "dir")
    BY <1>2, <1>5, <1>15, <2>1, NamesStep
  <2>3. NamesOf(x)' - NamesOf(x) = B(x = i) + B(x = d /\ isDir)
    BY <1>2, <1>5, <1>11, <1>13, <1>14, <2>2, RootIs DEF B
  <2>4. dinode'[x].nlink - dinode[x].nlink = B(x = i) + B(x = d /\ isDir) /\ lost'[x] - lost[x] = 0
    <3>1. dinode[x].nlink \in Int /\ lost[x] \in Int
      BY WholeFacts DEF Types, Recs
    <3> QED BY <1>6, <1>13, <1>14, <3>1 DEF B
  <2>5. B(Owes(k'[p], x)) = 0 /\ B(Owes(k[p], x)) = 0 /\ B(x = i) \in Int /\ B(x = d /\ isDir) \in Int
    BY <1>17 DEF B
  <2> QED BY <2>3, <2>4, <2>5
<1>22. LinkInv'
  <2>1. \A x \in Inodes : dinode'[x].type = "free" => dinode'[x].nlink = 0
    BY <1>3, <1>4, <1>13, <1>15, WholeFacts DEF SameTypes, LinkInv, IsDir
  <2> QED BY <1>21, <2>1, LinkStep
<1>23. Maps
  <2> DEFINE t == dinode[i].type
  <2>1. t \in {"dir", "file"}
    BY <1>2, <1>3, WholeFacts DEF Types, Recs
  <2>2. \A x \in Inodes : /\ x # i => (Creating(x)' <=> Creating(x))
                          /\ x = i => Creating(x) /\ ~Creating(x)'
    <3>1. ASSUME NEW x \in Inodes, x # i PROVE Creating(x)' <=> Creating(x)
      BY <1>17, <3>1, CreatingStays
    <3>2. ASSUME NEW x \in Inodes, x = i PROVE Creating(x) /\ ~Creating(x)'
      <4>1. Creating(x) /\ \A q \in Procs \ {p} : ~Makes(k[q], x)
        BY <1>8, <3>2, WholeFacts DEF MakeInv, Creating, Makes
      <4>2. \A q \in Procs : ~Makes(k'[q], x)
        BY <1>17, <4>1 DEF Alone
      <4> QED BY <4>1, <4>2 DEF Creating, Makes
    <3> QED BY <3>1, <3>2
  <2>3. Kind' = [Kind EXCEPT ![i] = t]
    BY <1>2, <1>15, <2>2 DEF Kind, SameTypes
  <2>4. Tree' = [Tree EXCEPT ![d][n] = i]
    <3>1. Writes(d, n)
      BY <1>11, <1>12 DEF Writes, Names
    <3> QED BY <1>2, <1>5, <1>11, <3>1, TreeWritten
  <2>5. Uses' = Uses
    BY <1>14 DEF Uses
  <2>6. Kind[d] = "dir" /\ Tree[d][n] = None /\ Kind[i] = "free"
    BY <1>2, <1>4, <1>5, <1>8, <2>2, Views DEF IsDir, Live
  <2> HIDE DEF t
  <2>7. T!Create(d, n, i)
    BY <2>1, <2>3, <2>4, <2>5, <2>6 DEF T!Create
  <2> QED BY <1>2, <1>5, <2>7 DEF Maps, T!Next
<1> QED BY <1>14, <1>16, <1>18, <1>19, <1>20, <1>22, <1>23 DEF Sound

\* The scan looks at an inode that is in use, and goes on to the next one.
LEMMA IallocNextQuiet ==
    ASSUME Whole, NEW p \in Procs, Ialloc(p), dinode[k[p].ip].type # "free"
    PROVE  Quiet(p)
<1> DEFINE c == k'[p]
<1>1. /\ k[p].pc = "ialloc" /\ k[p].sys \in {"creat", "mkdir"} /\ disk' = disk
      /\ ref' = ref /\ cwd' = cwd /\ file' = file /\ k' = [k EXCEPT ![p].ip = @ + 1]
  BY WholeFacts, CallerFacts DEF Ialloc, At, Role, SysAt, disk, icache, user
<1>2. c.pc = "ialloc" /\ c.sys = k[p].sys /\ c.path = k[p].path /\ c.dp = k[p].dp
      /\ c.drop = k[p].drop /\ c.put = k[p].put
  BY <1>1, WholeFacts, CallerFacts DEF Roles, Callers
<1>3. Kinds(k[p]) /\ Entry(k[p]) /\ Frees(k[p])
  BY WholeFacts DEF CallInv
<1> HIDE DEF c
<1>4. Same(p)
  BY <1>1, <1>2 DEF Same, Makes, Owes, c
<1>5. Knows(p)
  <2>1. Kinds(k[p])' /\ Made(k[p])'
    BY <1>1, <1>2, <1>3 DEF Kinds, Made, HoldDp, IsDir, disk, c
  <2>2. Frees(k[p])'
    BY <1>1, <1>2, <1>3 DEF Frees, disk, c
  <2>3. Entry(k[p])'
    BY <1>1, <1>2, <1>3 DEF Entry, disk, c
  <2> QED BY <2>1, <2>2, <2>3 DEF Knows, Kinds, Entry, Made, Frees
<1>6. ASSUME NEW x \in Inodes, cwd'[p] = x \/ file'[p] = x \/ Needs(k'[p], x) PROVE Live(x)
  <2>1. NeedsAt(p, x)
    BY <1>1, <1>2, <1>6 DEF Needs, NeedsAt, c
  <2> QED BY <2>1, IsNeeded
<1> QED BY <1>1, <1>4, <1>5, <1>6 DEF Quiet

LEMMA IallocSound ==
    ASSUME Whole, Types', NEW p \in Procs, Alone(p), Ialloc(p), dinode[k[p].ip].type = "free"
    PROVE  Sound(p)
<1> DEFINE i == k[p].ip
           d == k[p].dp
           I == [type |-> IF k[p].sys = "mkdir" THEN "dir" ELSE "file", nlink |-> 0]
           c == k'[p]
<1>1. /\ k[p].pc = "ialloc" /\ k[p].drop = <<>> /\ k[p].put = "check" /\ k[p].sys \in {"creat", "mkdir"}
  BY WholeFacts, Calm, CallerFacts DEF Ialloc, At, Role, SysAt
<1>2. d \in Inodes /\ i \in Inodes /\ dinode[i].type = "free"
  BY <1>1, WholeFacts, HasThem DEF NoIp, HasDp, HoldDp
<1>3. dinode[i].nlink = 0 /\ ~Live(i)
  BY <1>2, WholeFacts DEF LinkInv, Live
<1>4. /\ dinode' = [dinode EXCEPT ![i] = I] /\ k' = [k EXCEPT ![p].pc = "ialloc_iget"]
      /\ ref' = ref /\ ents' = ents /\ lost' = lost /\ cwd' = cwd /\ file' = file
  BY WholeFacts DEF Ialloc, icache, user, At, Types
<1>5. c.pc = "ialloc_iget" /\ c.sys = k[p].sys /\ c.path = k[p].path /\ c.ip = i /\ c.dp = d
      /\ c.drop = <<>> /\ c.put = "check"
  BY <1>1, <1>4, WholeFacts, CallerFacts DEF Roles, Callers
<1>6. dinode'[i] = I /\ \A x \in Inodes : x # i => dinode'[x] = dinode[x]
  BY <1>2, <1>4, WholeFacts DEF Types
<1>7. Kinds(k[p]) /\ Entry(k[p])
  BY WholeFacts DEF CallInv
<1>8. I.type # "free" /\ I.nlink = 0
  OBVIOUS
<1>9. ref' = ref /\ ents' = ents /\ lost' = lost /\ cwd' = cwd /\ file' = file
  BY <1>4
<1>10. I = [type |-> IF k[p].sys = "mkdir" THEN "dir" ELSE "file", nlink |-> 0]
  OBVIOUS
<1> HIDE DEF c, i, d, I
<1>11. Touches(p)
  BY <1>2, <1>6, <1>9 DEF Touches
<1>12. \A x \in Inodes : /\ ~Makes(k[p], x) /\ (Makes(k'[p], x) <=> x = i)
                         /\ ~Owes(k[p], x) /\ ~Owes(k'[p], x)
  BY <1>1, <1>5 DEF Makes, Owes, c
<1>13. Holding(p)
  <2>1. ASSUME NEW x \in Inodes, cwd'[p] = x \/ file'[p] = x \/ Needs(k'[p], x)
        PROVE  dinode'[x].type # "free" /\ ~Makes(k'[p], x) /\ Live(x)
    <3>1. x = d \/ NeedsAt(p, x)
      BY <1>5, <1>9, <2>1 DEF Needs, NeedsAt, c
    <3>2. Live(x)
      <4>1. NeedsAt(p, d)
        BY DEF NeedsAt, Needs, d
      <4> QED BY <1>2, <3>1, <4>1, IsNeeded
    <3>3. x # i
      BY <1>3, <3>2
    <3> QED BY <1>6, <1>12, <3>2, <3>3 DEF Live
  <2> QED BY <1>2, <1>12, <2>1 DEF Holding
<1>14. Knows(p)
  <2>1. IsDir(d) /\ d # i
    BY <1>1, <1>2, <1>7 DEF Kinds, HoldDp, IsDir, d
  <2>2. dinode'[d].type = "dir"
    BY <1>2, <1>6, <2>1 DEF IsDir
  <2>3. (Kinds(k[p]) /\ Frees(k[p]))'
    BY <1>1, <1>5, <2>2 DEF Kinds, Frees, IsDir, c
  <2>4. Entry(k[p])'
    BY <1>1, <1>5, <1>7, <1>9 DEF Entry, c, d
  <2>5. Made(k[p])'
    BY <1>5, <1>6, <1>10 DEF Made, c
  <2> QED BY <2>3, <2>4, <2>5 DEF Knows, Kinds, Entry, Made, Frees
<1>15. DotsInv'
  <2> SUFFICES ASSUME NEW x \in Inodes PROVE Dots(x)'
    BY DEF DotsInv
  <2>1. Dots(x)
    BY WholeFacts DEF DotsInv
  <2>2. CASE x = i
    <3>1. Creating(x)'
      BY <1>12, <2>2 DEF Creating, Makes
    <3> QED BY <1>2, <1>9, <2>1, <2>2, <3>1 DEF Dots, IsDir
  <2>3. CASE x # i
    <3>1. Creating(x)' <=> Creating(x)
      BY <1>12, <2>3, CreatingStays
    <3> QED BY <1>6, <1>9, <2>1, <2>3, <3>1 DEF Dots, IsDir
  <2> QED BY <2>2, <2>3
<1>16. Follows(p)
  <2> SUFFICES ASSUME NEW x \in Inodes
               PROVE  dinode'[x].nlink - dinode[x].nlink =
                        (NamesOf(x)' - NamesOf(x)) + (lost'[x] - lost[x]) + B(Owes(k'[p], x)) - B(Owes(k[p], x))
    BY DEF Follows
  <2>1. \A m \in Plain : ents[x][m] \in Places /\ ents[x][m] # i
    <3>1. ASSUME NEW m \in Plain PROVE ents[x][m] # i
      <4>1. ents[x][m] = i => dinode[i].nlink > 0
        BY <1>2, NamedHasLink
      <4> QED BY <1>3, <4>1
    <3> QED BY <3>1, WholeFacts DEF Types, Names
  <2>2. \A m \in Plain : ents[x][m] # None => dinode'[ents[x][m]] = dinode[ents[x][m]]
    BY <1>6, <2>1 DEF Places
  <2>3. {m \in Plain : ents'[x][m] # None /\ dinode'[ents'[x][m]].type = "dir"}
          = {m \in Plain : ents[x][m] # None /\ dinode[ents[x][m]].type = "dir"}
    BY <1>9, <2>2
  <2>4. NamesOf(x)' = NamesOf(x)
    BY <1>9, <2>3 DEF NamesOf
  <2>5. dinode'[x].nlink = dinode[x].nlink /\ dinode[x].nlink \in Int /\ lost'[x] = lost[x] /\ lost[x] \in Int
    <3>1. dinode'[x].nlink = dinode[x].nlink
      BY <1>3, <1>6, <1>8
    <3>2. dinode[x].nlink \in Int /\ lost[x] \in Int
      BY WholeFacts DEF Types, Recs
    <3> QED BY <1>9, <3>1, <3>2
  <2>6. NamesOf(x) \in Nat
    BY NamesNat
  <2> QED BY <1>12, <2>4, <2>5, <2>6 DEF B
<1>17. LinkInv'
  <2>1. \A x \in Inodes : dinode'[x].type = "free" => dinode'[x].nlink = 0
    BY <1>6, <1>8, WholeFacts DEF LinkInv
  <2> QED BY <1>16, <2>1, LinkStep
<1>18. Maps
  <2>1. ASSUME NEW x \in Inodes
        PROVE  (IF Creating(x)' THEN "free" ELSE dinode'[x].type) = IF Creating(x) THEN "free" ELSE dinode[x].type
    <3>1. CASE x = i
      <4>1. Creating(x)'
        BY <1>12, <3>1 DEF Creating, Makes
      <4> QED BY <1>2, <3>1, <4>1
    <3>2. CASE x # i
      <4>1. Creating(x)' <=> Creating(x)
        BY <1>12, <3>2, CreatingStays
      <4> QED BY <1>6, <3>2, <4>1
    <3> QED BY <3>1, <3>2
  <2>2. Kind' = Kind
    BY <2>1 DEF Kind
  <2>3. Tree' = Tree /\ Uses' = Uses
    BY <1>9 DEF Tree, Uses
  <2> QED BY <2>2, <2>3 DEF Maps, T!vars
<1> QED BY <1>9, <1>11, <1>13, <1>14, <1>15, <1>17, <1>18 DEF Sound

LEMMA IputFreeSound ==
    ASSUME Whole, Types', NEW p \in Procs, Alone(p), IputFree(p)
    PROVE  Sound(p)
<1> DEFINE i == Head(k[p].drop)
           c == k'[p]
           gone(j) == {m \in Plain : ents[i][m] = j}
<1>1. k[p].drop # <<>> /\ k[p].put = "free" /\ i \in Inodes /\ i = k[p].drop[1]
  BY WholeFacts, CallerFacts, TailFacts DEF IputFree, At_iput
<1>2. dinode[i].nlink = 0 /\ ref[i] = 1
  BY <1>1, WholeFacts DEF CallInv, Frees
<1>3. NeedsAt(p, i) /\ lock[i] = p
  BY <1>1, WholeFacts DEF NeedsAt, Needs, LockInv, Holds, Clears
<1>4. Live(i) /\ Own(p, i) > 0
  BY <1>1, <1>3, IsNeeded
<1>5. \A q \in Procs \ {p} : ~NeedsAt(q, i)
  <2> SUFFICES ASSUME NEW q \in Procs \ {p}, NeedsAt(q, i) PROVE FALSE
    OBVIOUS
  <2>1. Own(q, i) > 0
    BY <1>1, IsNeeded
  <2>2. ref[i] > 1
    BY <1>1, <1>4, <2>1, TwoUses, WholeFacts
  <2> QED BY <1>2, <2>2
<1>6. \A x \in Inodes, m \in Plain : ents[x][m] # i
  <2>1. ASSUME NEW x \in Inodes, NEW m \in Plain, ents[x][m] = i PROVE FALSE
    <3>1. dinode[i].nlink > 0
      BY <1>1, <2>1, NamedHasLink
    <3> QED BY <1>2, <3>1
  <2> QED BY <2>1
<1>7. /\ dinode' = [dinode EXCEPT ![i] = FreeInode] /\ ents' = [ents EXCEPT ![i] = NoEnts]
      /\ lost' = [j \in Inodes |-> lost[j] + Cardinality(gone(j))] /\ k' = [k EXCEPT ![p].put = "clear"]
      /\ ref' = ref /\ cwd' = cwd /\ file' = file
  BY WholeFacts DEF IputFree, Iupdate, At_iput, user, Types
<1>8. c.pc = k[p].pc /\ c.sys = k[p].sys /\ c.path = k[p].path /\ c.ip = k[p].ip /\ c.dp = k[p].dp
      /\ c.drop = k[p].drop /\ c.put = "clear"
  BY <1>7, WholeFacts, CallerFacts DEF Roles, Callers
<1>9. /\ dinode'[i].type = "free" /\ dinode'[i].nlink = 0
      /\ \A x \in Inodes : x # i => dinode'[x] = dinode[x] /\ ents'[x] = ents[x]
      /\ \A m \in Names : ents'[i][m] = None
  BY <1>1, <1>7, WholeFacts DEF Types, FreeInode, NoEnts
<1>10. \A j \in Inodes : lost'[j] = lost[j] + Cardinality(gone(j))
  BY <1>7
<1>11. ref' = ref /\ cwd' = cwd /\ file' = file
  BY <1>7
<1>12. Kinds(k[p]) /\ Entry(k[p]) /\ Made(k[p])
  BY WholeFacts DEF CallInv
<1> HIDE DEF c, i
<1>13. Touches(p)
  BY <1>3, <1>4, <1>5, <1>9, <1>11 DEF Touches
<1>14. \A x \in Inodes : (Makes(k'[p], x) <=> Makes(k[p], x)) /\ (Owes(k'[p], x) <=> Owes(k[p], x))
  BY <1>8 DEF Makes, Owes, c
<1>15. /\ cwd[p] # i /\ file[p] # i /\ (k[p].ip = i => k[p].pc = "ialloc") /\ k[p].dp # i
       /\ ~(Len(k[p].drop) > 1 /\ k[p].drop[2] = i)
  <2>1. ref[i] = Cardinality(Others(p, i)) + Own(p, i) /\ Cardinality(Others(p, i)) \in Nat
    BY <1>1, CountOwn, WholeFacts DEF Fine, RefInv, RefCounts
  <2>2. Own(p, i) \in Int
    BY DEF Own, InCall, InDrop, B
  <2>3. Own(p, i) <= 1
    BY <1>2, <2>1, <2>2
  <2>4. Len(k[p].drop) > 0 /\ k[p].drop[1] = i
    BY <1>1, WholeFacts, CallerFacts, TailFacts
  <2>5. k[p].ip = i => k[p].pc # "ialloc_iget"
    BY <1>4 DEF Live, Creating
  <2> QED BY <2>3, <2>4, <2>5 DEF Own, InCall, InDrop, B
<1>16. ASSUME NEW x \in Inodes, cwd'[p] = x \/ file'[p] = x \/ Needs(k'[p], x) PROVE x # i /\ Live(x)
  <2>1. x # i
    BY <1>8, <1>11, <1>15, <1>16 DEF Needs, c
  <2>2. NeedsAt(p, x)
    BY <1>8, <1>11, <1>16 DEF Needs, NeedsAt, c
  <2> QED BY <2>1, <2>2, IsNeeded
<1>17. Holding(p)
  <2>1. ASSUME NEW x \in Inodes, Live(x), x # i PROVE dinode'[x].type # "free" /\ ~Makes(k'[p], x)
    BY <1>9, <1>14, <2>1 DEF Live, Creating, Makes
  <2> QED BY <1>14, <1>16, <2>1 DEF Holding
<1>18. Knows(p)
  <2>1. k[p].pc \in {"linkdir", "linkbad", "creat", "unlink", "ialloc_iget", "creat_ip"} =>
            k[p].ip \in Inodes /\ dinode'[k[p].ip] = dinode[k[p].ip]
    BY <1>9, <1>15, WholeFacts, HasThem DEF NoIp
  <2>2. k[p].dp # None => k[p].dp \in Inodes /\ dinode'[k[p].dp] = dinode[k[p].dp] /\ ents'[k[p].dp] = ents[k[p].dp]
    BY <1>9, <1>15, WholeFacts, CallerFacts DEF Places
  <2>3. k[p].pc \in HoldDp => k[p].dp # None
    BY WholeFacts, HasThem, RootIs DEF HasDp
  <2>4. (Kinds(k[p]) /\ Frees(k[p]))'
    BY <1>8, <1>12, <2>1, <2>2, <2>3 DEF Kinds, Frees, IsDir, c
  <2>5. Entry(k[p])'
    BY <1>8, <1>12, <2>2, <2>3 DEF Entry, HoldDp, c
  <2>6. Made(k[p])'
    BY <1>8, <1>12, <2>1 DEF Made, c
  <2> QED BY <2>4, <2>5, <2>6 DEF Knows, Kinds, Entry, Made, Frees
<1>19. DotsInv'
  <2> SUFFICES ASSUME NEW x \in Inodes PROVE Dots(x)'
    BY DEF DotsInv
  <2>1. CASE x = i
    BY <1>9, <2>1 DEF Dots, IsDir
  <2>2. CASE x # i
    <3>1. Creating(x)' <=> Creating(x)
      BY <1>14, CreatingStays
    <3>2. Dots(x)
      BY WholeFacts DEF DotsInv
    <3> QED BY <1>9, <2>2, <3>1, <3>2 DEF Dots, IsDir
  <2> QED BY <2>1, <2>2
<1>20. \A j \in Inodes : /\ IsFiniteSet(gone(j)) /\ Cardinality(gone(j)) \in Nat
                         /\ (Entries(j)' \cup ({i} \X gone(j))) = Entries(j)
                         /\ Entries(j)' \cap ({i} \X gone(j)) = {}
                         /\ Entries(j)' \subseteq Entries(j)
  <2> TAKE j \in Inodes
  <2>1. IsFiniteSet(gone(j)) /\ Cardinality(gone(j)) \in Nat
    BY FS_Subset, FS_CardinalityType, InodeConstants
  <2>2. \A x \in Inodes, m \in Plain : <<x, m>> \in Entries(j)' <=> x # i /\ ents[x][m] = j
    BY <1>9, RootIs DEF Entries, Names
  <2>3. \A x \in Inodes, m \in Plain : <<x, m>> \in Entries(j) <=> ents[x][m] = j
    BY DEF Entries
  <2>4. Entries(j) \subseteq Inodes \X Plain /\ Entries(j)' \subseteq Inodes \X Plain
    BY DEF Entries
  <2>5. \A x \in Inodes, m \in Plain : <<x, m>> \in {i} \X gone(j) <=> x = i /\ ents[x][m] = j
    BY <1>1 DEF i
  <2>6. {i} \X gone(j) \subseteq Inodes \X Plain
    BY <1>1
  <2> HIDE DEF gone
  <2> QED BY <2>1, <2>2, <2>3, <2>4, <2>5, <2>6
<1> HIDE DEF gone
<1>21. Follows(p)
  <2> SUFFICES ASSUME NEW x \in Inodes
               PROVE  dinode'[x].nlink - dinode[x].nlink =
                        (NamesOf(x)' - NamesOf(x)) + (lost'[x] - lost[x]) + B(Owes(k'[p], x)) - B(Owes(k[p], x))
    BY DEF Follows
  <2>1. B(x = Root) \in Int
    BY DEF B
  <2>2. /\ NamesOf(x) = Cardinality(Entries(x)) + Cardinality(Kids(x)) + B(x = Root)
        /\ IsFiniteSet(Entries(x)) /\ Cardinality(Entries(x)) \in Nat /\ Cardinality(Kids(x)) \in Nat
    BY LinkSets
  <2>3. NamesOf(x)' = Cardinality(Entries(x)') + Cardinality(Kids(x)') + B(x = Root)
    BY LinkSetsNext
  <2>4. Cardinality(Entries(x)) = Cardinality(Entries(x)') + Cardinality(gone(x)) /\ Cardinality(Entries(x)') \in Nat
    <3>1. IsFiniteSet(Entries(x)') /\ Cardinality(Entries(x)') \in Nat
      BY <1>20, <2>2, FS_Subset, FS_CardinalityType
    <3>2. IsFiniteSet({i} \X gone(x)) /\ Cardinality({i} \X gone(x)) = Cardinality(gone(x))
      <4>1. IsFiniteSet({i}) /\ Cardinality({i}) = 1
        BY FS_Singleton
      <4>2. Cardinality({i} \X gone(x)) = Cardinality({i}) * Cardinality(gone(x)) /\ IsFiniteSet({i} \X gone(x))
        BY <1>20, <4>1, FS_Product
      <4> QED BY <1>20, <4>1, <4>2
    <3>3. Cardinality(Entries(x)' \cup ({i} \X gone(x)))
            = Cardinality(Entries(x)') + Cardinality({i} \X gone(x)) - Cardinality(Entries(x)' \cap ({i} \X gone(x)))
      BY <3>1, <3>2, FS_Union
    <3>4. Cardinality(Entries(x)' \cap ({i} \X gone(x))) = 0
      BY <1>20, FS_EmptySet
    <3>5. Cardinality(Entries(x)' \cup ({i} \X gone(x))) = Cardinality(Entries(x))
      BY <1>20
    <3>6. Cardinality(gone(x)) \in Nat
      BY <1>20
    <3> QED BY <3>1, <3>2, <3>3, <3>4, <3>5, <3>6
  <2>5. Cardinality(Kids(x)') = Cardinality(Kids(x))
    <3>1. CASE x = i
      <4>1. Kids(x)' = {}
        BY <1>9, <3>1 DEF Kids, Names
      <4>2. Cardinality(Kids(x)') = 0
        BY <4>1, FS_EmptySet
      <4>3. Cardinality(Kids(x)) = 0
        <5>1. dinode[x].nlink = Cardinality(Entries(x)) + Cardinality(Kids(x)) + B(x = Root)
                                    + Cardinality(Owing(x)) + lost[x] /\ lost[x] \in Nat
          BY LinkFacts
        <5>2. Cardinality(Owing(x)) \in Nat /\ B(x = Root) \in Nat
          BY LinkSets DEF B
        <5>3. dinode[x].nlink = 0
          BY <1>2, <3>1
        <5>4. \A a, b, r, o, l \in Nat : 0 = a + b + r + o + l => b = 0
          OBVIOUS
        <5> QED BY <2>2, <5>1, <5>2, <5>3, <5>4
      <4> QED BY <4>2, <4>3
    <3>2. CASE x # i
      <4>1. \A m \in Plain : ents[x][m] \in Places /\ ents[x][m] # i
        BY <1>6, WholeFacts DEF Types, Names
      <4>2. \A m \in Plain : ents[x][m] # None => dinode'[ents[x][m]] = dinode[ents[x][m]]
        BY <1>9, <4>1 DEF Places
      <4>3. Kids(x)' = Kids(x)
        BY <1>9, <3>2, <4>2 DEF Kids
      <4> QED BY <4>3
    <3> QED BY <3>1, <3>2
  <2>6. dinode'[x].nlink = dinode[x].nlink /\ dinode[x].nlink \in Int
    BY <1>2, <1>9, WholeFacts DEF Types, Recs
  <2>7. lost'[x] = lost[x] + Cardinality(gone(x)) /\ lost[x] \in Nat /\ Cardinality(gone(x)) \in Nat
    BY <1>10, <1>20, WholeFacts DEF Types
  <2>8. B(Owes(k'[p], x)) = B(Owes(k[p], x)) /\ B(Owes(k[p], x)) \in Int /\ B(x = Root) \in Int
    BY <1>14 DEF B
  <2> QED BY <2>2, <2>3, <2>4, <2>5, <2>6, <2>7, <2>8
<1>22. LinkInv'
  <2>1. \A x \in Inodes : dinode'[x].type = "free" => dinode'[x].nlink = 0
    BY <1>9, WholeFacts DEF LinkInv
  <2> QED BY <1>21, <2>1, LinkStep
<1>23. Maps
  <2>1. \A x \in Inodes : Creating(x)' <=> Creating(x)
    BY <1>14, CreatingStays
  <2>2. ~Creating(i)
    BY <1>4 DEF Live
  <2>3. Kind' = [Kind EXCEPT ![i] = "free"]
    BY <1>1, <1>9, <2>1 DEF Kind
  <2>4. Tree' = [Tree EXCEPT ![i] = [m \in Plain |-> None]]
    <3>1. \A m \in Plain : ents'[i][m] = None
      BY <1>9 DEF Names
    <3>2. [m \in Plain |-> ents'[i][m]] = [m \in Plain |-> None]
      BY <3>1
    <3>3. \A x \in Inodes : x # i => ents'[x] = ents[x]
      BY <1>9
    <3> QED BY <1>1, <3>2, <3>3 DEF Tree
  <2>5. Uses' = Uses
    BY <1>11 DEF Uses
  <2>6. i # Root /\ Kind[i] # "free"
    BY <1>1, <1>2, <1>4, RootHasLink, Views
  <2>7. ~T!Named(i)
    BY <1>6, Views DEF T!Named
  <2>8. \A q \in Procs : i \notin Uses[q]
    <3>1. cwd[p] # i /\ file[p] # i
      BY <1>15
    <3>2. \A q \in Procs : cwd[q] # i /\ file[q] # i
      BY <1>5, <3>1 DEF NeedsAt
    <3> QED BY <3>2, Views
  <2>9. T!Free(i)
    BY <2>3, <2>4, <2>5, <2>6, <2>7, <2>8 DEF T!Free
  <2> QED BY <1>1, <2>9 DEF Maps, T!Next
<1> QED BY <1>11, <1>13, <1>17, <1>18, <1>19, <1>22, <1>23 DEF Sound
-----------------------------------------------------------------------------
(* Every step keeps the tree.                                              *)

LEMMA QuietTree ==
    ASSUME Whole, Types', NEW p \in Procs, Alone(p), Quiet(p)
    PROVE  TreeInv' /\ Maps
  BY QuietStep, QuietMaps

LEMMA SoundTree ==
    ASSUME Whole, NEW p \in Procs, Alone(p), Sound(p)
    PROVE  TreeInv' /\ Maps
  BY SoundStep DEF Sound

LEMMA CallTree ==
    ASSUME Whole, ParentsThere, Types', NEW p \in Procs, CallStep(p), Alone(p)
    PROVE  TreeInv' /\ Maps
<1>1. Quiet(p) \/ Sound(p)
  <2>1. CASE Iput(p)
    BY <2>1, IputQuiet, IputFreeSound DEF Iput
  <2>2. CASE Link(p)
    <3>1. CASE LinkCount(p)
      BY <3>1, LinkCountQuiet, LinkCountSound
    <3>2. CASE LinkEntry(p)
      BY <3>2, LinkEntryQuiet, LinkEntrySound
    <3> QED BY <2>2, <3>1, <3>2, LinkBadQuiet, LinkUndoSound DEF Link
  <2>3. CASE Unlink(p)
    <3>1. CASE UnlinkEntry(p)
      BY <3>1, UnlinkEntryQuiet, UnlinkEntrySound
    <3> QED BY <2>3, <3>1, UnlinkFindQuiet, UnlinkCountSound, UnlinkBadQuiet DEF Unlink
  <2>4. CASE Create(p)
    BY <2>4, CreateFindQuiet, CreateFoundQuiet, IallocNextQuiet, IallocSound, IallocIgetQuiet, CreateEntrySound, MkdirEndQuiet
       DEF Create
  <2>5. CASE Files(p)
    BY <2>5, OpenLockQuiet, OpenFdQuiet, CloseQuiet, ChdirQuiet DEF Files
  <2> QED BY <2>1, <2>2, <2>3, <2>4, <2>5, BeginQuiet, VisitQuiet DEF CallStep
<1> QED BY <1>1, QuietTree, SoundTree

\* No process finds a free inode to lock, or one without links to unlink.
LEMMA WholeNoPanic ==
    ASSUME Whole, NEW p \in Procs
    PROVE  ~NoType(p) /\ ~NoLink(p)
<1> DEFINE i == k[p].ip
<1>1. ASSUME k[p].pc \in LocksIp, At(p, k[p].pc), dinode[i].type = "free" PROVE FALSE
  <2>1. i \in Inodes /\ k[p].drop = <<>>
    BY <1>1, WholeFacts, HasThem DEF LocksIp, NoIp, At
  <2>2. CASE k[p].pc = "creat_ip"
    <3>1. Makes(k[p], i)
      BY <2>2 DEF Makes
    <3> QED BY <1>1, <2>1, <3>1, MakesFacts
  <2>3. CASE k[p].pc # "creat_ip"
    <3>1. NeedsAt(p, i)
      BY <1>1, <2>3 DEF NeedsAt, Needs, LocksIp
    <3> QED BY <1>1, <2>1, <3>1, IsNeeded DEF Live
  <2> QED BY <2>2, <2>3
<1>2. ASSUME At(p, "unlink_ip"), CanLock(i), Loaded(i).nlink < 1 PROVE FALSE
  <2>1. k[p].pc = "unlink_ip"
    BY <1>2 DEF At
  <2>2. i \in Inodes /\ k[p].dp \in Inodes
    BY <2>1, WholeFacts, HasThem DEF NoIp, HasDp, HoldDp
  <2>3. Head(k[p].path) \in Plain /\ ents[k[p].dp][Head(k[p].path)] = i
    BY <2>1, WholeFacts DEF CallInv, Entry
  <2>4. dinode[i].nlink > 0 /\ dinode[i].nlink \in Nat
    BY <2>2, <2>3, NamedHasLink, LinkFacts
  <2>5. Loaded(i) = dinode[i]
    BY <1>2, <2>2, WholeFacts, FreeLock
  <2> QED BY <1>2, <2>4, <2>5
<1> QED BY <1>1, <1>2 DEF NoType, NoLink

LEMMA StillTree ==
    ASSUME Whole, UNCHANGED <<disk, icache, user, k>>
    PROVE  TreeInv' /\ Maps
<1>1. CallInv' /\ MakeInv'
  BY WholeFacts DEF CallInv, MakeInv, Kinds, Entry, Made, Frees, Makes, IsDir, disk, icache
<1>2. \A i \in Inodes : Creating(i)' <=> Creating(i)
  BY DEF Creating
<1>3. LiveInv' /\ DotsInv'
  BY <1>2, WholeFacts DEF LiveInv, DotsInv, NeedsAt, Needs, Live, Dots, IsDir, disk, user
<1>4. LinkInv'
  BY WholeFacts DEF LinkInv, NamesOf, Pending, disk
<1>5. Kind' = Kind /\ Tree' = Tree /\ Uses' = Uses
  BY <1>2 DEF Kind, Tree, Uses, disk, user
<1> QED BY <1>1, <1>3, <1>4, <1>5 DEF TreeInv, Maps, T!vars

LEMMA WholeNext == Whole /\ ParentsThere /\ [Next]_vars => Whole' /\ Maps
<1> SUFFICES ASSUME Whole, ParentsThere, [Next]_vars PROVE Whole' /\ Maps
  OBVIOUS
<1>1. Fine' /\ Types'
  BY FineNext, WholeFacts DEF Fine, RefInv
<1>2. ASSUME NEW p \in Procs, CallStep(p) PROVE TreeInv' /\ Maps
  <2>1. Alone(p)
    BY <1>2, CallGood, WholeFacts DEF Good
  <2> QED BY <1>1, <1>2, <2>1, CallTree
<1>3. ASSUME NEW p \in Procs, Panic(p) PROVE TreeInv' /\ Maps
  BY <1>3, StillTree DEF Panic
<1>4. ASSUME UNCHANGED vars PROVE TreeInv' /\ Maps
  BY <1>4, StillTree DEF vars
<1>5. TreeInv' /\ Maps
  <2>1. (\E p \in Procs : CallStep(p) \/ Panic(p)) \/ UNCHANGED vars
    BY DEF Next, Halted, CallStep
  <2> QED BY <1>2, <1>3, <1>4, <2>1
<1> QED BY <1>1, <1>5 DEF Whole

LEMMA WholeInit == Init => Whole /\ T!Init
<1> SUFFICES ASSUME Init PROVE Whole /\ T!Init
  OBVIOUS
<1>1. Fine
  BY FineInit
<1>2. \A p \in Procs : k[p] = Idle /\ cwd[p] = Root /\ file[p] = None
  BY DEF Init
<1>3. \A p \in Procs, i \in Inodes : /\ ~Makes(k[p], i) /\ ~Owes(k[p], i)
                                     /\ NeedsAt(p, i) => i = Root
  BY <1>2, RootIs DEF Makes, Owes, NeedsAt, Needs, Idle
<1>4. \A i \in Inodes : ~Creating(i)
  BY <1>3 DEF Creating, Makes
<1>5. CallInv /\ MakeInv
  BY <1>2, <1>3 DEF CallInv, MakeInv, Kinds, Entry, Made, Frees, Idle, HoldDp
<1>6. \A i \in Inodes : dinode[i] = IF i = Root THEN [type |-> "dir", nlink |-> 1] ELSE [type |-> "free", nlink |-> 0]
  BY DEF Init, FreeInode
<1>7. LiveInv
  BY <1>3, <1>4, <1>6 DEF LiveInv, Live
<1>8. /\ \A i \in Inodes, n \in Plain : ents[i][n] = None
      /\ ents[Root]["."] = Root /\ ents[Root][".."] = Root
      /\ \A i \in Inodes : i # Root => \A n \in Names : ents[i][n] = None
  BY InodeConstants, RootIs DEF Init, NoEnts, Names
<1>9. DotsInv
  BY <1>4, <1>6, <1>8, RootIs DEF DotsInv, Dots, IsDir
<1>10. LinkInv
  <2> SUFFICES ASSUME NEW i \in Inodes
               PROVE  dinode[i].nlink = NamesOf(i) + Pending(i) + lost[i] /\ (dinode[i].type = "free" => dinode[i].nlink = 0)
    BY DEF LinkInv
  <2>1. Entries(i) = {} /\ Kids(i) = {} /\ Owing(i) = {}
    BY <1>3, <1>8, RootIs DEF Entries, Kids, Owing
  <2>2. NamesOf(i) = B(i = Root) /\ Pending(i) = 0
    BY <2>1, LinkSets, FS_EmptySet DEF B
  <2>3. lost[i] = 0
    BY DEF Init
  <2> QED BY <1>6, <2>2, <2>3 DEF B
<1>11. Kind = [i \in Inodes |-> IF i = Root THEN "dir" ELSE "free"]
  BY <1>4, <1>6 DEF Kind
<1>12. Tree = [i \in Inodes |-> [n \in Plain |-> None]]
  BY <1>8 DEF Tree
<1>13. Uses = [p \in Procs |-> {Root}]
  BY <1>2, RootIs DEF Uses
<1> QED BY <1>1, <1>5, <1>7, <1>9, <1>10, <1>11, <1>12, <1>13 DEF Whole, TreeInv, T!Init

\* Where every .. that a walk meets still has its parent, the calls keep the tree whole:
\* each finds the directories, the entries and the link counts as it left them,
\* though it had let go of the locks in between.
THEOREM TreeInvariant == Spec /\ []ParentsThere => []Whole
<1> QED BY WholeInit, WholeNext, PTL DEF Spec

\* The links of an inode are its names, but for what calls under way have counted.
THEOREM LinksAreCounted == Spec /\ []ParentsThere => []LinksCounted
<1>1. Whole => LinksCounted
  BY WholeFacts DEF LinkInv, LinksCounted
<1> QED BY <1>1, TreeInvariant, PTL

\* No race of the calls has ilock find a freed inode, or sys_unlink one without links,
\* where every .. that a walk meets still has its parent.  Of the panic of ialloc it says
\* nothing: a scan can miss an inode that is freed behind it.
THEOREM NeverPanics == Spec /\ []ParentsThere => []NoPanic
<1>1. Whole => NoPanic
  BY WholeNoPanic DEF NoPanic
<1> QED BY <1>1, TreeInvariant, PTL

\* The inode layer keeps what it promises: no inode that has a name or that a process
\* uses is freed, and names come and go in single steps.
THEOREM KeepsTheTree == Spec /\ []ParentsThere => IsFileTree
<1>1. Init => T!Init
  BY WholeInit
<1>2. Whole /\ ParentsThere /\ [Next]_vars => [T!Next]_(T!vars)
  BY WholeNext DEF Maps
<1> QED BY <1>1, <1>2, TreeInvariant, PTL DEF Spec, IsFileTree, T!Spec
-----------------------------------------------------------------------------
(* Types: no link is taken that is not there.                              *)

LEMMA MinodeStep ==
    ASSUME Fine, NEW p \in Procs, CallStep(p), Alone(p), NEW x \in Inodes
    PROVE  minode'[x] = minode[x] \/ minode'[x] = dinode'[x]
<1>1. CASE Iput(p)
  <2>1. CASE IputFree(p)
    BY <2>1, FineTypes DEF IputFree, Iupdate, Types
  <2> QED BY <1>1, <2>1 DEF Iput, IputCheck, IputClear, IputUnref
<1>2. CASE Ialloc(p)
  BY <1>2 DEF Ialloc, icache
<1>3. CASE Safe(p)
  BY <1>3 DEF Safe, Cached, Clean, Kept
<1> QED BY <1>1, <1>2, <1>3, BeginSafe, VisitSafe, LinkCountSafe, LinkEntrySafe, LinkBadSafe, LinkUndoSafe,
        UnlinkFindSafe, UnlinkEntrySafe, UnlinkCountSafe, UnlinkBadSafe, CreateFindSafe,
        CreateFoundSafe, IallocIgetSafe, CreateEntrySafe, MkdirEndSafe, OpenLockSafe, OpenFdSafe,
        CloseSafe, ChdirSafe DEF CallStep, Link, Unlink, Create, Files

Counts == \A i \in Inodes : minode[i].nlink \in Nat

LEMMA DiskCounts == Whole => \A i \in Inodes : dinode[i].nlink \in Nat
  BY LinkFacts

LEMMA DiskCountsNext == Whole' => \A i \in Inodes : dinode'[i].nlink \in Nat
<1>1. (Whole => \A i \in Inodes : dinode[i].nlink \in Nat)'
  BY DiskCounts, PTL
<1> QED BY <1>1

LEMMA CountsNext == Whole /\ Whole' /\ Counts /\ [Next]_vars => Counts'
<1> SUFFICES ASSUME Whole, Whole', Counts, [Next]_vars, NEW i \in Inodes PROVE minode'[i].nlink \in Nat
  BY DEF Counts
<1>1. dinode'[i].nlink \in Nat
  BY DiskCountsNext
<1>2. minode'[i] = minode[i] \/ minode'[i] = dinode'[i]
  <2>1. ASSUME NEW p \in Procs, CallStep(p) PROVE minode'[i] = minode[i] \/ minode'[i] = dinode'[i]
    <3>1. Alone(p)
      BY <2>1, CallGood, WholeFacts DEF Good
    <3> QED BY <2>1, <3>1, MinodeStep, WholeFacts
  <2>2. ASSUME UNCHANGED icache PROVE minode'[i] = minode[i]
    BY <2>2 DEF icache
  <2>3. (\E p \in Procs : CallStep(p)) \/ UNCHANGED icache
    BY DEF Next, Halted, CallStep, Panic, vars
  <2> QED BY <2>1, <2>2, <2>3
<1> QED BY <1>1, <1>2 DEF Counts

LEMMA WholeTypes == Whole /\ Counts => TypeOK
<1> SUFFICES ASSUME Whole, Counts PROVE TypeOK
  OBVIOUS
<1>1. Types /\ Roles
  BY WholeFacts
<1>2. dinode \in [Inodes -> InodeRecs] /\ minode \in [Inodes -> InodeRecs]
  BY <1>1, DiskCounts DEF Types, Counts, Recs, InodeRecs
<1>3. ref \in [Inodes -> Nat]
  <2>1. ASSUME NEW i \in Inodes PROVE ref[i] \in Nat
    <3>1. PICK p \in Procs : TRUE
      BY InodeConstants
    <3>2. ref[i] = Cardinality(Others(p, i)) + Own(p, i) /\ Cardinality(Others(p, i)) \in Nat
      BY CountOwn, WholeFacts DEF Fine, RefInv, RefCounts
    <3>3. Own(p, i) \in Nat
      BY DEF Own, InCall, InDrop, B
    <3> QED BY <3>2, <3>3
  <2> QED BY <1>1, <2>1 DEF Types
<1>4. ASSUME NEW p \in Procs
      PROVE  /\ k[p].pc \in PCs /\ k[p].put \in {"check", "free", "clear", "unref"}
             /\ k[p].path \in Seq(Names) /\ k[p].new \in Seq(Names) /\ k[p].drop \in Seq(Inodes)
             /\ k[p].ip \in Inodes \cup {None} /\ k[p].dp \in Inodes \cup {None}
  BY <1>1, CallerFacts DEF Callers, Places
<1> QED BY <1>1, <1>2, <1>3, <1>4 DEF TypeOK, Types, Places

\* Every variable keeps its type; no count falls below zero.
THEOREM TypesHold == Spec /\ []ParentsThere => []TypeOK
<1>1. Init => Counts
  BY RefInvInit DEF Init, Counts, FreeInode
<1> QED BY <1>1, CountsNext, WholeTypes, TreeInvariant, PTL DEF Spec
-----------------------------------------------------------------------------
(* Paths without a .. need no hypothesis.                                  *)

Down == Names \ {".."}

NoParents == \A r \in Requests : r.path \in Seq(Down) /\ r.new \in Seq(Down)

GoesDown == \A p \in Procs : k[p].path \in Seq(Down) /\ k[p].new \in Seq(Down)

LEMMA PathStep ==
    ASSUME NoParents, Types, Roles, GoesDown, NEW p \in Procs, CallStep(p)
    PROVE  k'[p].path \in Seq(Down) /\ k'[p].new \in Seq(Down)
<1>1. /\ k[p].path \in Seq(Down) /\ k[p].new \in Seq(Down) /\ << >> \in Seq(Down)
      /\ k[p].path # <<>> => Tail(k[p].path) \in Seq(Down)
      /\ k[p].pc \in {"namei", "nameiparent"} => k[p].path # <<>>
      /\ k[p] \in Callers
  BY CallerFacts DEF GoesDown, Role, ByName
<1>2. ASSUME NEW s, Return(p, s) PROVE k'[p].path = <<>> /\ k'[p].new = <<>>
  BY <1>2 DEF Return, Roles, Idle
<1>3. ASSUME NEW i, NoPath(p, i)
      PROVE  k'[p].path \in {<<>>, k[p].path} /\ k'[p].new \in {<<>>, k[p].new}
  BY <1>1, <1>2, <1>3 DEF NoPath, Roles, Callers
<1>4. ASSUME NEW r \in Requests, Begin(p, r) PROVE k'[p].path = r.path /\ k'[p].new = r.new
  BY <1>4 DEF Begin, Roles, Idle
<1>5. k \in [Procs -> Callers]
  BY DEF Roles
<1> DEFINE Stay == k'[p].path = k[p].path /\ k'[p].new = k[p].new
           Ends == k'[p].path = << >> /\ k'[p].new = << >>
<1>6. CASE Iput(p)
  <2>1. Stay
    BY <1>5, <1>6 DEF Iput, IputCheck, IputFree, IputClear, IputUnref, Callers
  <2> QED BY <1>1, <2>1
<1>7. CASE Visit(p)
  <2>1. CASE NoPath(p, k[p].ip)
    BY <1>1, <1>3, <2>1
  <2>2. CASE k' = [k EXCEPT ![p].pc = FoundParent(k[p].sys)]
    <3>1. Stay
      BY <1>5, <2>2 DEF Callers
    <3> QED BY <1>1, <3>1
  <2>3. CASE k[p].pc \in {"namei", "nameiparent"} /\ k'[p].path = Tail(k[p].path) /\ k'[p].new = k[p].new
    BY <1>1, <2>3
  <2>4. k[p].pc \in {"namei", "nameiparent"}
    BY <1>7 DEF Visit, At
  <2>5. CASE k' = [k EXCEPT ![p].pc = IF @ = "namei" THEN Found(k[p].sys, Tail(k[p].path)) ELSE @,
                            ![p].path = Tail(k[p].path),
                            ![p].ip = ents[k[p].ip][Head(k[p].path)], ![p].drop = <<k[p].ip>>]
    <3>1. k'[p].path = Tail(k[p].path) /\ k'[p].new = k[p].new
      BY <1>5, <2>5 DEF Callers
    <3> QED BY <2>3, <2>4, <3>1
  <2> QED BY <1>7, <2>1, <2>2, <2>5 DEF Visit
<1>8. CASE Link(p)
  <2>1. CASE LinkCount(p)
    <3>1. CASE Return(p, <<k[p].ip>>)
      BY <1>1, <1>2, <3>1
    <3>2. CASE k' = [k EXCEPT ![p].pc = "nameiparent", ![p].path = k[p].new,
                              ![p].ip = Start(p, k[p].abs), ![p].dp = k[p].ip]
      <4>1. k'[p].path = k[p].new /\ k'[p].new = k[p].new
        BY <1>5, <3>2 DEF Callers
      <4> QED BY <1>1, <4>1
    <3> QED BY <2>1, <3>1, <3>2 DEF LinkCount
  <2>2. CASE LinkEntry(p)
    <3>1. Stay \/ Ends
      BY <1>2, <1>5, <2>2 DEF LinkEntry, Callers
    <3> QED BY <1>1, <3>1
  <2> QED BY <1>1, <1>2, <1>3, <1>8, <2>1, <2>2 DEF Link, LinkBad, LinkUndo
<1>9. CASE Unlink(p)
  <2>1. CASE UnlinkFind(p)
    <3>1. Stay \/ Ends
      BY <1>2, <1>5, <2>1 DEF UnlinkFind, Callers
    <3> QED BY <1>1, <3>1
  <2>2. CASE UnlinkEntry(p)
    <3>1. Stay
      BY <1>5, <2>2 DEF UnlinkEntry, Callers
    <3> QED BY <1>1, <3>1
  <2> QED BY <1>1, <1>2, <1>9, <2>1, <2>2 DEF Unlink, UnlinkCount, UnlinkBad
<1>10. CASE Create(p)
  <2>1. CASE CreateFind(p) \/ Ialloc(p) \/ IallocIget(p) \/ CreateEntry(p)
    <3>1. Stay
      BY <1>5, <2>1 DEF CreateFind, Ialloc, IallocIget, CreateEntry, Callers
    <3> QED BY <1>1, <3>1
  <2>2. CASE CreateFound(p)
    <3>1. Stay \/ Ends
      BY <1>2, <1>5, <2>2 DEF CreateFound, Callers
    <3> QED BY <1>1, <3>1
  <2> QED BY <1>1, <1>2, <1>10, <2>1, <2>2 DEF Create, MkdirEnd
<1>11. CASE Files(p)
  <2>1. CASE OpenLock(p)
    <3>1. Stay \/ Ends
      BY <1>2, <1>5, <2>1 DEF OpenLock, Callers
    <3> QED BY <1>1, <3>1
  <2> QED BY <1>1, <1>2, <1>11, <2>1 DEF Files, OpenFd, Close, Chdir
<1> QED BY <1>1, <1>4, <1>6, <1>7, <1>8, <1>9, <1>10, <1>11 DEF CallStep, NoParents

LEMMA DownInit == Init => GoesDown
<1>1. << >> \in Seq(Down)
  OBVIOUS
<1>2. Idle.path = << >> /\ Idle.new = << >>
  BY DEF Idle
<1>3. Init => \A p \in Procs : k[p] = Idle
  BY DEF Init
<1> QED BY <1>1, <1>2, <1>3 DEF GoesDown

LEMMA DownNext == NoParents /\ RefInv /\ GoesDown /\ [Next]_vars => GoesDown'
<1> SUFFICES ASSUME NoParents, RefInv, GoesDown, [Next]_vars PROVE GoesDown'
  OBVIOUS
<1>1. ASSUME NEW p \in Procs, CallStep(p) PROVE GoesDown'
  <2>1. Alone(p)
    BY <1>1, CallGood DEF Good, RefInv
  <2>2. k'[p].path \in Seq(Down) /\ k'[p].new \in Seq(Down)
    BY <1>1, PathStep DEF RefInv
  <2> QED BY <2>1, <2>2 DEF GoesDown, Alone
<1>2. ASSUME UNCHANGED k PROVE GoesDown'
  BY <1>2 DEF GoesDown
<1>3. (\E p \in Procs : CallStep(p)) \/ UNCHANGED k
  BY DEF Next, Halted, CallStep, Panic, vars
<1> QED BY <1>1, <1>2, <1>3

LEMMA DownIsThere == GoesDown => ParentsThere
<1> SUFFICES ASSUME GoesDown, NEW p \in Procs, k[p].path # <<>>, Head(k[p].path) = ".." PROVE FALSE
  BY DEF ParentsThere
<1>1. k[p].path \in Seq(Down)
  BY DEF GoesDown
<1>2. Head(k[p].path) \in Down
  BY <1>1
<1> QED BY <1>2 DEF Down

\* Where no path has a .. in it, all of it holds without a hypothesis on the parents.
THEOREM KeepsTheTreeBelow ==
    NoParents => (Spec => IsFileTree /\ []LinksCounted /\ []NoPanic /\ []TypeOK)
<1>1. NoParents /\ Spec => []ParentsThere
  <2> SUFFICES ASSUME NoParents PROVE Spec => []ParentsThere
    OBVIOUS
  <2>1. RefInv /\ GoesDown /\ [Next]_vars => GoesDown'
    BY DownNext
  <2> QED BY <2>1, DownInit, RefInvariant, DownIsThere, PTL DEF Spec
<1> QED BY <1>1, KeepsTheTree, LinksAreCounted, NeverPanics, TypesHold
=============================================================================
