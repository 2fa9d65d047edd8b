----------------------------- MODULE LogProofs -----------------------------
(***************************************************************************)
(* Proofs about Log, for every number of processes, blocks and contents.   *)
(***************************************************************************)
EXTENDS Log, FiniteSetTheorems, TLAPS

-----------------------------------------------------------------------------
(* Who counts as outstanding and who commits: the part of the invariant    *)
(* that speaks of the control state only.                                  *)

Committers == {p \in Procs : pc[p] \in CommitPCs}

ControlInv ==
    /\ pc \in [Procs -> PCs]
    /\ committing \in BOOLEAN
    /\ mode \in {"read_head", "install", "clear", "up"}
    /\ panic \in BOOLEAN
    /\ outstanding = Cardinality(Active)
    /\ committing => Active = {}
    /\ Committers # {} => committing
    /\ \A p, q \in Committers : p = q
    /\ mode # "up" => Active = {} /\ Committers = {} /\ ~committing

\* Active is finite, and its cardinality a natural number, since Procs is.
LEMMA ActiveFinite == IsFiniteSet(Active) /\ Cardinality(Active) \in Nat
  BY LogConstants, FS_Subset, FS_CardinalityType DEF Active

LEMMA ActiveFiniteNext == IsFiniteSet(Active') /\ Cardinality(Active') \in Nat
  BY LogConstants, FS_Subset, FS_CardinalityType DEF Active

\* When the only operation outstanding ends, nobody else is in one.
LEMMA LastOperation ==
  ASSUME NEW p \in Procs, pc[p] \in OpPCs, Cardinality(Active) = 1
  PROVE  Active = {p}
  <1>1. p \in Active
    BY DEF Active
  <1>2. PICK x : Active = {x}
    BY ActiveFinite, FS_Singleton
  <1> QED BY <1>1, <1>2

\* A process that moves between two points outside the operation's code, or
\* between two points inside it, leaves Active as it was; entering adds it
\* and leaving removes it.
LEMMA ActiveMoves ==
  ASSUME pc \in [Procs -> PCs], NEW p \in Procs, NEW l \in PCs,
         pc' = [pc EXCEPT ![p] = l]
  PROVE  /\ l \in OpPCs => Active' = Active \cup {p}
         /\ l \notin OpPCs => Active' = Active \ {p}
         /\ l \in CommitPCs => Committers' = Committers \cup {p}
         /\ l \notin CommitPCs => Committers' = Committers \ {p}
  BY DEF Active, Committers

LEMMA ActiveWakes ==
  ASSUME pc \in [Procs -> PCs], NEW p \in Procs, WakeAndGo(p, "idle")
  PROVE  /\ pc' \in [Procs -> PCs]
         /\ Active' = Active \ {p}
         /\ Committers' = Committers \ {p}
  BY DEF Active, Committers, WakeAndGo, PCs, OpPCs, CommitPCs

LEMMA ControlInit == Init => ControlInv
  <1> SUFFICES ASSUME Init PROVE ControlInv
    OBVIOUS
  <1>1. Active = {} /\ Committers = {}
    BY DEF Init, Active, Committers, OpPCs, CommitPCs
  <1>2. Cardinality(Active) = 0
    BY <1>1, FS_EmptySet
  <1> QED BY <1>1, <1>2 DEF Init, ControlInv, PCs

LEMMA ControlStep == ControlInv /\ [Next]_vars => ControlInv'
  <1> SUFFICES ASSUME ControlInv, [Next]_vars PROVE ControlInv'
    OBVIOUS
  <1> USE DEF ControlInv
  <1>0. ASSUME UNCHANGED <<pc, committing, mode, panic, outstanding>>
        PROVE  ControlInv'
    BY <1>0 DEF Active, Committers
  <1>1. ASSUME NEW p \in Procs, BeginOp(p) PROVE ControlInv'
    <2>1. p \notin Active /\ p \notin Committers
      BY <1>1 DEF BeginOp, Active, Committers, OpPCs, CommitPCs
    <2>2. CASE LogBusy
      <3>1. pc' = [pc EXCEPT ![p] = "sleep"] /\ outstanding' = outstanding
        BY <1>1, <2>2 DEF BeginOp
      <3>2. "sleep" \in PCs /\ "sleep" \notin OpPCs /\ "sleep" \notin CommitPCs
        BY DEF PCs, OpPCs, CommitPCs
      <3>3. Active' = Active \ {p} /\ Committers' = Committers \ {p}
        BY <3>1, <3>2, ActiveMoves
      <3> QED BY <1>1, <2>1, <3>1, <3>2, <3>3 DEF BeginOp
    <2>3. CASE ~LogBusy
      <3>1. /\ pc' = [pc EXCEPT ![p] = "op"] /\ outstanding' = outstanding + 1
            /\ ~committing /\ mode = "up"
        BY <1>1, <2>3 DEF BeginOp, LogBusy, Counted, Running
      <3>2. Active' = Active \cup {p} /\ Committers' = Committers
        <4>1. "op" \in PCs /\ "op" \in OpPCs /\ "op" \notin CommitPCs
          BY DEF PCs, OpPCs, CommitPCs
        <4>2. Committers \ {p} = Committers
          BY <2>1, <1>1 DEF Committers, BeginOp, CommitPCs
        <4> QED BY <1>1, <3>1, <4>1, <4>2, ActiveMoves
      <3>3. Cardinality(Active') = Cardinality(Active) + 1
        BY <2>1, <3>2, ActiveFinite, FS_AddElement
      <3> QED BY <1>1, <3>1, <3>2, <3>3 DEF BeginOp, PCs, OpPCs
    <2> QED BY <2>2, <2>3
  <1>2. ASSUME NEW p \in Procs, pc[p] \in OpPCs, NEW l \in OpPCs,
               pc' = [pc EXCEPT ![p] = l],
               panic' \in BOOLEAN, UNCHANGED <<committing, mode, outstanding>>
        PROVE  ControlInv'
    <2>1. Active' = Active /\ Committers' = Committers
      BY <1>2, ActiveMoves DEF PCs, OpPCs, CommitPCs, Active, Committers
    <2> QED BY <1>2, <2>1 DEF PCs
  <1>3. ASSUME NEW p \in Procs, NEW b \in Blocks, NEW v \in Data, Modify(p, b, v)
        PROVE  ControlInv'
    BY <1>2, <1>3 DEF Modify, OpPCs
  <1>4. ASSUME NEW p \in Procs, LogWrite(p) PROVE ControlInv'
    <2>1. CASE LogWriteAppend(p)
      BY <1>2, <2>1 DEF LogWriteAppend, OpPCs
    <2>2. CASE LogWriteCheck(p) /\ (TooBig \/ outstanding < 1)
      BY <2>2 DEF LogWriteCheck, Active, Committers
    <2>3. CASE LogWriteCheck(p) /\ ~(TooBig \/ outstanding < 1)
      BY <1>2, <2>3 DEF LogWriteCheck, OpPCs
    <2> QED BY <1>4, <2>1, <2>2, <2>3 DEF LogWrite
  <1>5. ASSUME NEW p \in Procs, EndOp(p) PROVE ControlInv'
    <2>1. /\ p \in Active /\ ~committing /\ mode = "up" /\ Committers = {}
          /\ outstanding' = outstanding - 1 /\ UNCHANGED <<mode, panic>>
      BY <1>5 DEF EndOp, Active, OpPCs, Running
    <2>2. Cardinality(Active \ {p}) = Cardinality(Active) - 1
      BY <2>1, ActiveFinite, FS_RemoveElement
    <2>3. CASE outstanding = 1
      <3>1. PICK l \in {"committed", "write_log"} : pc' = [pc EXCEPT ![p] = l]
        BY <1>5, <2>1, <2>3 DEF EndOp
      <3>2. Active' = Active \ {p} /\ Committers' = {p}
        BY <2>1, <3>1, ActiveMoves DEF PCs, OpPCs, CommitPCs
      <3>3. Active' = {}
        BY <1>5, <2>3, <3>2, LastOperation DEF EndOp, OpPCs
      <3>4. committing' = TRUE
        BY <1>5, <2>1, <2>3 DEF EndOp
      <3> QED BY <2>1, <2>2, <3>1, <3>2, <3>3, <3>4 DEF PCs, CommitPCs
    <2>4. CASE outstanding # 1
      <3>1. WakeAndGo(p, "idle") /\ UNCHANGED committing
        BY <1>5, <2>1, <2>4 DEF EndOp
      <3> QED BY <2>1, <2>2, <3>1, ActiveWakes
    <2> QED BY <2>3, <2>4
  <1>6. ASSUME NEW p \in Procs, pc[p] \in CommitPCs, NEW l \in CommitPCs,
               pc' = [pc EXCEPT ![p] = l],
               UNCHANGED <<committing, mode, outstanding, panic>>
        PROVE  ControlInv'
    <2>1. Active' = Active /\ Committers' = Committers
      BY <1>6, ActiveMoves DEF PCs, OpPCs, CommitPCs, Active, Committers
    <2> QED BY <1>6, <2>1 DEF PCs
  <1>7. ASSUME NEW p \in Procs, Commit(p) PROVE ControlInv'
    <2>1. CASE WriteLog(p)
      BY <1>0, <1>6, <2>1 DEF WriteLog, AfterWriteLog, CommitPCs
    <2>2. CASE WriteHead(p)
      BY <1>6, <2>2 DEF WriteHead, CommitPCs
    <2>3. CASE InstallTrans(p)
      BY <1>0, <1>6, <2>3 DEF InstallTrans, CommitPCs
    <2>4. CASE EraseLog(p)
      BY <1>6, <2>4 DEF EraseLog, CommitPCs
    <2>5. CASE EndCommit(p)
      <3>1. /\ WakeAndGo(p, "idle") /\ p \in Committers /\ committing' = FALSE
            /\ mode = "up" /\ UNCHANGED <<mode, panic, outstanding>>
        BY <2>5 DEF EndCommit, Committers, CommitPCs, NotCommitting, Running
      <3>2. Active' = Active /\ Committers' = {}
        BY <3>1, ActiveWakes
      <3> QED BY <3>1, <3>2, ActiveWakes
    <2> QED BY <1>7, <2>1, <2>2, <2>3, <2>4, <2>5 DEF Commit
  <1>8. CASE Crash
    <2>1. Active' = {} /\ Committers' = {}
      BY <1>8 DEF Crash, Active, Committers, OpPCs, CommitPCs
    <2>2. Cardinality(Active') = 0
      BY <2>1, FS_EmptySet
    <2> QED BY <1>8, <2>1, <2>2 DEF Crash, PCs
  <1>9. CASE Recover
    <2>1. /\ UNCHANGED <<pc, committing, outstanding, panic>>
          /\ mode # "up" /\ mode' \in {"install", "clear", "up"}
      BY <1>9 DEF Recover, ReadHead, RecoverInstall, RecoverClear, AfterReadHead
    <2>2. Active' = Active /\ Committers' = Committers
      BY <2>1 DEF Active, Committers
    <2> QED BY <2>1, <2>2
  <1>10. ASSUME NEW b \in Blocks, Read(b) \/ Recycle(b) PROVE ControlInv'
    BY <1>0, <1>10 DEF Read, Recycle
  <1>11. CASE UNCHANGED vars
    BY <1>0, <1>11 DEF vars
  <1> HIDE DEF ControlInv
  <1> QED
    BY <1>1, <1>3, <1>4, <1>5, <1>7, <1>8, <1>9, <1>10, <1>11 DEF Next

-----------------------------------------------------------------------------
(* Types, and where the loops over the header's entries stand.             *)

At(l) == \E p \in Procs : pc[p] = l

LoopInv ==
    /\ Len(head) <= NLOG - 1
    /\ At("write_log") \/ At("write_head") \/ At("install") => tail <= Len(lh)
    /\ At("write_head") \/ At("install") \/ At("erase") => Len(lh) <= NLOG - 1
    /\ At("install") \/ At("erase") => lh = head
    /\ At("committed") => lh = <<>>
    /\ ~At("write_log") /\ ~At("install") /\ mode # "install" => tail = 1
    /\ mode = "read_head" => lh = <<>>
    /\ mode = "install" => tail <= Len(lh)
    /\ mode \in {"install", "clear"} => lh = head

\* Who holds a buffer, and what an operation has logged so far.
HoldInv ==
    /\ \A p \in Procs : pc[p] \in {"hold", "append"} <=> cur[p] # NoBlock
    /\ \A p, q \in Procs : p # q /\ cur[p] # NoBlock => cur[p] # cur[q]
    /\ \A p \in Procs : wrote[p] \subseteq Logged(lh)
    /\ \A p \in Procs : pc[p] \notin OpPCs => wrote[p] = {}

TypeInv == TypeOK /\ ControlInv /\ LoopInv /\ HoldInv

LEMMA TypeInit == Init => TypeInv
  <1> SUFFICES ASSUME Init PROVE TypeInv
    OBVIOUS
  <1>1. TypeOK
    <2>1. /\ logdata \in [LogSlots -> Data]
          /\ cache \in [Blocks -> Data \cup {NotCached}]
          /\ pc \in [Procs -> PCs]
          /\ cur \in [Procs -> Blocks \cup {NoBlock}]
      BY LogConstants DEF Init, PCs
    <2>2. wrote \in [Procs -> SUBSET Blocks]
      BY DEF Init
    <2>3. head \in Seq(Blocks) /\ lh \in Seq(Blocks)
      BY DEF Init
    <2>4. outstanding \in Nat /\ tail \in Nat \ {0}
      BY DEF Init
    <2>5. committing \in BOOLEAN /\ panic \in BOOLEAN
      BY DEF Init
    <2>6. /\ dirty \subseteq Blocks /\ disk \in [Blocks -> Data]
          /\ mode \in {"read_head", "install", "clear", "up"}
      BY DEF Init
    <2> QED BY <2>1, <2>2, <2>3, <2>4, <2>5, <2>6 DEF TypeOK
  <1>2. LoopInv
    BY LogConstants DEF Init, LoopInv, At
  <1>3. HoldInv
    BY DEF Init, HoldInv
  <1> QED BY <1>1, <1>2, <1>3, ControlInit DEF TypeInv

\* While a process is at one point of the commit, nobody is at another, in
\* an operation, or booting.
LEMMA CommitAlone ==
  ASSUME ControlInv, NEW p \in Procs, NEW l \in CommitPCs, pc[p] = l
  PROVE  /\ committing
         /\ Active = {}
         /\ \A m \in CommitPCs : At(m) <=> m = l
         /\ mode = "up"
  BY DEF ControlInv, Committers, At, Active, OpPCs, CommitPCs

\* While an operation runs nobody is in the commit.
LEMMA OperationAlone ==
  ASSUME ControlInv, NEW p \in Active
  PROVE  /\ ~committing
         /\ \A m \in CommitPCs : ~At(m)
         /\ mode = "up"
         /\ outstanding \in Nat \ {0}
  <1>1. Cardinality(Active) # 0
    BY ActiveFinite, FS_EmptySet
  <1> QED BY <1>1, ActiveFinite DEF ControlInv, Committers, At

\* A home block named by the header, and its copy in the log.
LEMMA LoggedData ==
  ASSUME TypeOK, tail <= Len(lh)
  PROVE  /\ tail \in DOMAIN lh
         /\ lh[tail] \in Blocks
         /\ View(lh[tail]) \in Data
         /\ tail <= NLOG - 1 => logdata[tail] \in Data
  <1>1. tail \in 1 .. Len(lh) /\ lh[tail] \in Blocks
    BY DEF TypeOK
  <1>2. View(lh[tail]) \in Data
    BY <1>1 DEF TypeOK, View
  <1> QED BY <1>1, <1>2, LogConstants DEF TypeOK, LogSlots

LEMMA TypeStep == TypeInv /\ [Next]_vars => TypeOK'
  <1> SUFFICES ASSUME TypeInv, [Next]_vars PROVE TypeOK'
    OBVIOUS
  <1>0. TypeOK /\ ControlInv /\ LoopInv /\ HoldInv
    BY DEF TypeInv
  <1>a. pc' \in [Procs -> PCs] /\ outstanding' \in Nat
        /\ committing' \in BOOLEAN /\ panic' \in BOOLEAN
        /\ mode' \in {"read_head", "install", "clear", "up"}
    BY <1>0, ControlStep, ActiveFiniteNext DEF ControlInv
  <1>b. <<>> \in Seq(Blocks) /\ head \in Seq(Blocks) /\ lh \in Seq(Blocks)
    BY <1>0 DEF TypeOK
  <1>1. ASSUME NEW p \in Procs, BeginOp(p) \/ LogWriteCheck(p) \/ EndCommit(p)
        PROVE  TypeOK'
    BY <1>0, <1>a, <1>1 DEF TypeOK, BeginOp, LogWriteCheck, EndCommit
  <1>2. ASSUME NEW p \in Procs, EndOp(p) PROVE TypeOK'
    <2>1. wrote' \in [Procs -> SUBSET Blocks]
      BY <1>0, <1>2 DEF TypeOK, EndOp
    <2> QED BY <1>0, <1>a, <1>2, <2>1 DEF TypeOK, EndOp
  <1>3. ASSUME NEW p \in Procs, NEW b \in Blocks, NEW v \in Data, Modify(p, b, v)
        PROVE  TypeOK'
    BY <1>0, <1>a, <1>3 DEF TypeOK, Modify
  <1>4. ASSUME NEW p \in Procs, LogWriteAppend(p) PROVE TypeOK'
    <2>1. cur[p] \in Blocks
      BY <1>0, <1>4 DEF HoldInv, TypeOK, LogWriteAppend
    <2>2. lh' \in Seq(Blocks)
      BY <1>0, <1>4, <2>1 DEF TypeOK, LogWriteAppend, Absorb
    <2>3. wrote' \in [Procs -> SUBSET Blocks]
      BY <1>0, <1>4, <2>1 DEF TypeOK, LogWriteAppend
    <2>4. cur' \in [Procs -> Blocks \cup {NoBlock}]
      BY <1>0, <1>4 DEF TypeOK, LogWriteAppend
    <2> QED
      BY <1>0, <1>a, <1>4, <2>1, <2>2, <2>3, <2>4 DEF TypeOK, LogWriteAppend, Pin
  <1>5. ASSUME NEW p \in Procs, WriteLog(p) PROVE TypeOK'
    <2>1. At("write_log")
      BY <1>5 DEF WriteLog, At
    <2>2. lh[tail] \in Blocks /\ View(lh[tail]) \in Data
      BY <1>0, <2>1, LoggedData DEF LoopInv
    <2>3. tail' \in Nat \ {0}
      BY <1>0, <1>5 DEF TypeOK, WriteLog
    <2>4. /\ logdata' \in [LogSlots -> Data]
          /\ cache' \in [Blocks -> Data \cup {NotCached}]
      BY <1>0, <1>5, <2>2 DEF TypeOK, WriteLog
    <2> QED BY <1>0, <1>a, <1>5, <2>3, <2>4 DEF TypeOK, WriteLog
  <1>6. ASSUME NEW p \in Procs, WriteHead(p) \/ EraseLog(p) PROVE TypeOK'
    <2>1. head' \in Seq(Blocks) /\ lh' \in Seq(Blocks)
      BY <1>b, <1>6 DEF WriteHead, EraseLog
    <2> QED BY <1>0, <1>a, <1>6, <2>1 DEF TypeOK, WriteHead, EraseLog
  <1>7. ASSUME tail <= Len(lh), Len(lh) <= NLOG - 1, InstallBlock
        PROVE  /\ disk' \in [Blocks -> Data]
               /\ cache' \in [Blocks -> Data \cup {NotCached}]
               /\ dirty' \subseteq Blocks
    <2>1. lh \in Seq(Blocks) /\ tail \in Nat \ {0}
      BY <1>0 DEF TypeOK
    <2>2. lh[tail] \in Blocks /\ logdata[tail] \in Data
      BY <1>0, <1>7, <2>1, LoggedData, LogConstants
    <2> QED BY <1>0, <1>7, <2>2 DEF TypeOK, InstallBlock
  <1>8. ASSUME NEW p \in Procs, InstallTrans(p) PROVE TypeOK'
    <2>1. At("install")
      BY <1>8 DEF InstallTrans, At
    <2>2. tail <= Len(lh) /\ Len(lh) <= NLOG - 1
      BY <1>0, <2>1 DEF LoopInv
    <2>3. tail' \in Nat \ {0}
      BY <1>0, <1>8 DEF TypeOK, InstallTrans
    <2> QED BY <1>0, <1>a, <1>7, <1>8, <2>2, <2>3 DEF TypeOK, InstallTrans
  <1>9. CASE Crash
    <2>1. /\ cache' \in [Blocks -> Data \cup {NotCached}]
          /\ cur' \in [Procs -> Blocks \cup {NoBlock}]
      BY <1>9 DEF Crash
    <2>2. wrote' \in [Procs -> SUBSET Blocks]
      BY <1>9 DEF Crash
    <2>3. lh' \in Seq(Blocks)
      BY <1>9 DEF Crash
    <2> QED BY <1>0, <1>a, <1>9, <2>1, <2>2, <2>3 DEF TypeOK, Crash, diskVars
  <1>10. CASE ReadHead \/ RecoverClear
    <2>1. head' \in Seq(Blocks) /\ lh' \in Seq(Blocks)
      BY <1>b, <1>10 DEF ReadHead, RecoverClear
    <2> QED BY <1>0, <1>a, <1>10, <2>1 DEF TypeOK, ReadHead, RecoverClear
  <1>11. CASE RecoverInstall
    <2>1. tail <= Len(lh) /\ Len(lh) <= NLOG - 1
      BY <1>0, <1>11 DEF LoopInv, RecoverInstall
    <2>2. tail' \in Nat \ {0}
      BY <1>0, <1>11 DEF TypeOK, RecoverInstall, TailNext
    <2> QED BY <1>0, <1>a, <1>7, <1>11, <2>1, <2>2 DEF TypeOK, RecoverInstall
  <1>12. ASSUME NEW b \in Blocks, Read(b) \/ Recycle(b) PROVE TypeOK'
    BY <1>0, <1>a, <1>12 DEF TypeOK, Read, Recycle
  <1>13. CASE UNCHANGED vars
    BY <1>0, <1>a, <1>13 DEF TypeOK, vars
  <1> QED
    BY <1>1, <1>2, <1>3, <1>4, <1>5, <1>6, <1>8, <1>9, <1>10, <1>11, <1>12, <1>13
       DEF Next, Commit, LogWrite, Recover

\* How At changes: a process outside the commit that stays outside, the
\* sleepers that are woken, and the committer that moves on.
LEMMA AtUnchanged ==
  ASSUME pc \in [Procs -> PCs], NEW p \in Procs, pc[p] \notin CommitPCs,
         NEW l \in PCs, l \notin CommitPCs, pc' = [pc EXCEPT ![p] = l]
  PROVE  \A m \in CommitPCs : At(m)' <=> At(m)
  BY DEF At

LEMMA AtWakes ==
  ASSUME pc \in [Procs -> PCs], NEW p \in Procs, WakeAndGo(p, "idle")
  PROVE  \A m \in CommitPCs : At(m)' <=> \E q \in Procs \ {p} : pc[q] = m
  BY DEF At, WakeAndGo, CommitPCs

LEMMA AtMoves ==
  ASSUME pc \in [Procs -> PCs], NEW p \in Procs,
         Committers \subseteq {p}, NEW l \in PCs, pc' = [pc EXCEPT ![p] = l]
  PROVE  \A m \in CommitPCs : At(m)' <=> m = l
  BY DEF At, Committers

\* Absorption: the log names exactly one block more, if any.
LEMMA LoggedAbsorb ==
  ASSUME lh \in Seq(Blocks), NEW b \in Blocks, lh' = Absorb(b)
  PROVE  Logged(lh') = Logged(lh) \cup {b}
  <1>1. CASE b \in Logged(lh)
    BY <1>1 DEF Absorb
  <1>2. CASE b \notin Logged(lh)
    <2>1. lh' = Append(lh, b)
      BY <1>2 DEF Absorb
    <2>2. /\ DOMAIN lh' = 1 .. Len(lh) + 1 /\ DOMAIN lh = 1 .. Len(lh)
          /\ Len(lh) \in Nat
          /\ \A i \in 1 .. Len(lh) : lh'[i] = lh[i]
          /\ lh'[Len(lh) + 1] = b
      BY <2>1
    <2>3. DOMAIN lh' = DOMAIN lh \cup {Len(lh) + 1}
      BY <2>2
    <2> QED BY <2>2, <2>3 DEF Logged
  <1> QED BY <1>1, <1>2

LEMMA LoopStep == TypeInv /\ [Next]_vars => LoopInv'
  <1> SUFFICES ASSUME TypeInv, [Next]_vars PROVE LoopInv'
    OBVIOUS
  <1>0. TypeOK /\ ControlInv /\ LoopInv /\ HoldInv /\ pc \in [Procs -> PCs]
    BY DEF TypeInv, ControlInv
  <1>a. ASSUME \A m \in CommitPCs : At(m)' <=> At(m),
               UNCHANGED <<head, lh, tail, mode>>
        PROVE  LoopInv'
    BY <1>0, <1>a DEF LoopInv, CommitPCs
  <1>b. ASSUME \A m \in CommitPCs : ~At(m)', mode' = "up", mode = "up",
               \A m \in CommitPCs : ~At(m), UNCHANGED <<head, tail>>
        PROVE  LoopInv'
    BY <1>0, <1>b DEF LoopInv, CommitPCs
  <1>c. {"idle", "sleep", "woken", "op", "hold", "append"} \subseteq PCs \ CommitPCs
    BY DEF PCs, CommitPCs, OpPCs
  <1>1. ASSUME NEW p \in Procs, BeginOp(p) PROVE LoopInv'
    <2>1. /\ pc[p] \notin CommitPCs /\ UNCHANGED <<head, lh, tail, mode>>
          /\ pc' = [pc EXCEPT ![p] = "sleep"] \/ pc' = [pc EXCEPT ![p] = "op"]
      BY <1>1 DEF BeginOp, CommitPCs
    <2>2. \A m \in CommitPCs : At(m)' <=> At(m)
      BY <1>0, <1>c, <2>1, AtUnchanged
    <2> QED BY <1>a, <2>1, <2>2
  <1>2. ASSUME NEW p \in Procs, NEW b \in Blocks, NEW v \in Data, Modify(p, b, v)
        PROVE  LoopInv'
    <2>1. /\ pc[p] \notin CommitPCs /\ UNCHANGED <<head, lh, tail, mode>>
          /\ pc' = [pc EXCEPT ![p] = "hold"]
      BY <1>2 DEF Modify, CommitPCs
    <2>2. \A m \in CommitPCs : At(m)' <=> At(m)
      BY <1>0, <1>c, <2>1, AtUnchanged
    <2> QED BY <1>a, <2>1, <2>2
  <1>3. ASSUME NEW p \in Procs, LogWriteCheck(p) PROVE LoopInv'
    <2>1. /\ pc[p] \notin CommitPCs /\ UNCHANGED <<head, lh, tail, mode>>
          /\ pc' = pc \/ pc' = [pc EXCEPT ![p] = "append"]
      BY <1>3 DEF LogWriteCheck, CommitPCs
    <2>2. \A m \in CommitPCs : At(m)' <=> At(m)
      BY <1>0, <1>c, <2>1, AtUnchanged DEF At
    <2> QED BY <1>a, <2>1, <2>2
  <1>4. ASSUME NEW p \in Procs, LogWriteAppend(p) PROVE LoopInv'
    <2>1. /\ p \in Active /\ pc[p] \notin CommitPCs /\ UNCHANGED <<head, tail, mode>>
          /\ pc' = [pc EXCEPT ![p] = "op"]
      BY <1>4 DEF LogWriteAppend, Active, OpPCs, CommitPCs
    <2>2. \A m \in CommitPCs : At(m)' <=> At(m)
      BY <1>0, <1>c, <2>1, AtUnchanged
    <2>3. mode = "up" /\ \A m \in CommitPCs : ~At(m)
      BY <1>0, <2>1, OperationAlone
    <2> QED BY <1>b, <2>1, <2>2, <2>3
  <1>5. ASSUME NEW p \in Procs, EndOp(p) PROVE LoopInv'
    <2>1. p \in Active /\ UNCHANGED <<head, lh, tail, mode>>
      BY <1>5 DEF EndOp, Active, OpPCs
    <2>2. /\ mode = "up" /\ ~committing /\ tail = 1 /\ Committers = {}
          /\ \A m \in CommitPCs : ~At(m)
      BY <1>0, <2>1, OperationAlone DEF LoopInv, CommitPCs, ControlInv
    <2>3. CASE outstanding = 1
      <3>1. pc' = [pc EXCEPT ![p] = IF lh = <<>> THEN "committed" ELSE "write_log"]
        BY <1>5, <2>2, <2>3 DEF EndOp
      <3>2. \A m \in CommitPCs :
               At(m)' <=> m = IF lh = <<>> THEN "committed" ELSE "write_log"
        BY <1>0, <2>2, <3>1, AtMoves DEF PCs, CommitPCs
      <3>3. lh # <<>> => 1 <= Len(lh)
        BY <1>0 DEF TypeOK
      <3> QED BY <1>0, <2>1, <2>2, <3>2, <3>3 DEF LoopInv, CommitPCs
    <2>4. CASE outstanding # 1
      <3>1. WakeAndGo(p, "idle")
        BY <1>5, <2>2, <2>4 DEF EndOp
      <3>2. \A m \in CommitPCs : ~At(m)'
        BY <1>0, <2>2, <3>1, AtWakes DEF At
      <3> QED BY <1>b, <2>1, <2>2, <3>2
    <2> QED BY <2>3, <2>4
  <1>6. ASSUME NEW p \in Procs, Commit(p) PROVE LoopInv'
    <2>1. mode = "up" /\ UNCHANGED mode /\ pc[p] \in CommitPCs
      BY <1>6 DEF Commit, WriteLog, WriteHead, InstallTrans, EraseLog, EndCommit,
                  Running, CommitPCs
    <2>2. Committers \subseteq {p}
      BY <1>0, <2>1 DEF ControlInv, Committers
    <2>3. lh \in Seq(Blocks) /\ head \in Seq(Blocks) /\ tail \in Nat \ {0}
      BY <1>0 DEF TypeOK
    <2>4. \A m \in CommitPCs : At(m) <=> pc[p] = m
      BY <2>2 DEF At, Committers
    <2>5. CASE WriteLog(p) /\ ~LastTurn
      <3>1. \A m \in CommitPCs : At(m)' <=> At(m)
        BY <2>5 DEF WriteLog, At
      <3>2. tail' <= Len(lh') /\ At("write_log") /\ UNCHANGED <<head, lh>>
        BY <1>0, <2>3, <2>4, <2>5 DEF WriteLog, LastTurn, LoopInv, CommitPCs
      <3> QED BY <1>0, <2>1, <2>4, <3>1, <3>2 DEF LoopInv, CommitPCs
    <2>6. CASE WriteLog(p) /\ LastTurn
      <3>1. \A m \in CommitPCs : At(m)' <=> m = "write_head"
        BY <1>0, <2>2, <2>6, AtMoves DEF WriteLog, AfterWriteLog, PCs, CommitPCs
      <3>2. Len(lh') <= NLOG - 1 /\ tail' = 1 /\ 1 <= Len(lh') /\ UNCHANGED <<head, lh>>
        BY <2>3, <2>6 DEF WriteLog, LastTurn
      <3> QED BY <1>0, <2>1, <3>1, <3>2 DEF LoopInv, CommitPCs
    <2>7. CASE WriteHead(p)
      <3>1. \A m \in CommitPCs : At(m)' <=> m = "install"
        BY <1>0, <2>2, <2>7, AtMoves DEF WriteHead, PCs, CommitPCs
      <3>2. At("write_head") /\ head' = lh /\ UNCHANGED <<lh, tail>>
        BY <2>4, <2>7 DEF WriteHead, CommitPCs
      <3> QED BY <1>0, <2>1, <2>3, <2>4, <3>1, <3>2 DEF LoopInv, CommitPCs
    <2>8. CASE InstallTrans(p) /\ ~LastTurn
      <3>1. \A m \in CommitPCs : At(m)' <=> At(m)
        BY <2>8 DEF InstallTrans, At
      <3>2. tail' <= Len(lh') /\ At("install") /\ UNCHANGED <<head, lh>>
        BY <1>0, <2>3, <2>4, <2>8 DEF InstallTrans, LastTurn, LoopInv, CommitPCs
      <3> QED BY <1>0, <2>1, <2>4, <3>1, <3>2 DEF LoopInv, CommitPCs
    <2>9. CASE InstallTrans(p) /\ LastTurn
      <3>1. \A m \in CommitPCs : At(m)' <=> m = "erase"
        BY <1>0, <2>2, <2>9, AtMoves DEF InstallTrans, PCs, CommitPCs
      <3>2. tail' = 1 /\ At("install") /\ UNCHANGED <<head, lh>>
        BY <2>4, <2>9 DEF InstallTrans, CommitPCs
      <3> QED BY <1>0, <2>1, <3>1, <3>2 DEF LoopInv, CommitPCs
    <2>10. CASE EraseLog(p)
      <3>1. \A m \in CommitPCs : At(m)' <=> m = "committed"
        BY <1>0, <2>2, <2>10, AtMoves DEF EraseLog, PCs, CommitPCs
      <3>2. tail' = tail /\ At("erase") /\ head' = <<>> /\ lh' = <<>>
        BY <2>4, <2>10 DEF EraseLog, CommitPCs
      <3> QED BY <1>0, <2>1, <2>4, <3>1, <3>2, LogConstants DEF LoopInv, CommitPCs
    <2>11. CASE EndCommit(p)
      <3>1. \A m \in CommitPCs : ~At(m)'
        BY <1>0, <2>2, <2>11, AtWakes DEF EndCommit, Committers
      <3>2. UNCHANGED <<head, lh, tail>> /\ At("committed")
        BY <2>4, <2>11 DEF EndCommit, CommitPCs
      <3> QED BY <1>0, <2>1, <2>4, <3>1, <3>2 DEF LoopInv, CommitPCs
    <2> QED BY <1>6, <2>5, <2>6, <2>7, <2>8, <2>9, <2>10, <2>11 DEF Commit
  <1>7. CASE Crash
    <2>1. \A m \in CommitPCs : ~At(m)'
      BY <1>7 DEF Crash, At, CommitPCs
    <2> QED BY <1>0, <1>7, <2>1 DEF Crash, diskVars, LoopInv, CommitPCs
  <1>8. CASE Recover
    <2>1. /\ mode # "up"
          /\ \A m \in CommitPCs : At(m)' <=> At(m)
          /\ \A m \in CommitPCs : ~At(m)
      BY <1>0, <1>8 DEF Recover, ReadHead, RecoverInstall, RecoverClear, At,
                        ControlInv, Committers
    <2>2. lh \in Seq(Blocks) /\ head \in Seq(Blocks) /\ tail \in Nat \ {0}
      BY <1>0 DEF TypeOK
    <2>3. CASE ReadHead
      <3>1. /\ lh' = head /\ head' = head /\ tail' = 1
            /\ mode' = IF head = <<>> THEN "clear" ELSE "install"
        BY <1>0, <2>1, <2>3 DEF ReadHead, AfterReadHead, LoopInv, CommitPCs
      <3>2. head # <<>> => 1 <= Len(head)
        BY <2>2
      <3> QED BY <1>0, <2>1, <3>1, <3>2 DEF LoopInv, CommitPCs
    <2>4. CASE RecoverInstall
      <3>1. /\ UNCHANGED <<lh, head>> /\ lh = head /\ tail <= Len(lh)
            /\ mode' \in {"install", "clear"}
            /\ mode' = "install" => tail' <= Len(lh)
            /\ mode' = "clear" => tail' = 1
        BY <1>0, <2>2, <2>4
           DEF RecoverInstall, LastTurn, TailNext, LoopInv
      <3> QED BY <1>0, <2>1, <3>1 DEF LoopInv, CommitPCs
    <2>5. CASE RecoverClear
      <3>1. lh' = <<>> /\ head' = <<>> /\ tail' = 1 /\ mode' = "up"
        BY <1>0, <2>1, <2>5 DEF RecoverClear, LoopInv, CommitPCs
      <3> QED BY <1>0, <2>1, <3>1, LogConstants DEF LoopInv, CommitPCs
    <2> QED BY <1>8, <2>3, <2>4, <2>5 DEF Recover
  <1>9. ASSUME NEW b \in Blocks, Read(b) \/ Recycle(b) PROVE LoopInv'
    BY <1>a, <1>9 DEF Read, Recycle, At
  <1>10. CASE UNCHANGED vars
    BY <1>a, <1>10 DEF vars, At
  <1> QED
    BY <1>1, <1>2, <1>3, <1>4, <1>5, <1>6, <1>7, <1>8, <1>9, <1>10
       DEF Next, LogWrite

LEMMA HoldStep == TypeInv /\ [Next]_vars => HoldInv'
  <1> SUFFICES ASSUME TypeInv, [Next]_vars PROVE HoldInv'
    OBVIOUS
  <1>0. TypeOK /\ ControlInv /\ LoopInv /\ HoldInv /\ pc \in [Procs -> PCs]
    BY DEF TypeInv, ControlInv
  <1>a. ASSUME UNCHANGED <<cur, wrote, lh>>, NEW p \in Procs,
               pc[p] \notin {"hold", "append"} <=> pc'[p] \notin {"hold", "append"},
               pc'[p] \notin OpPCs => pc[p] \notin OpPCs,
               \A q \in Procs \ {p} :
                  pc'[q] = pc[q] \/ {pc[q], pc'[q]} \subseteq {"sleep", "woken"}
        PROVE  HoldInv'
    BY <1>a, <1>0 DEF HoldInv, OpPCs
  <1>1. ASSUME NEW p \in Procs, BeginOp(p) \/ LogWriteCheck(p) PROVE HoldInv'
    BY <1>0, <1>a, <1>1 DEF BeginOp, LogWriteCheck, OpPCs
  <1>2. ASSUME NEW p \in Procs, NEW b \in Blocks, NEW v \in Data, Modify(p, b, v)
        PROVE  HoldInv'
    <2>1. /\ cur' = [cur EXCEPT ![p] = b] /\ b # NoBlock /\ b \in Blocks
          /\ \A q \in Procs : cur[q] # b
          /\ pc' = [pc EXCEPT ![p] = "hold"] /\ pc[p] = "op" /\ UNCHANGED <<wrote, lh>>
      BY <1>2, LogConstants DEF Modify
    <2>2. cur \in [Procs -> Blocks \cup {NoBlock}]
      BY <1>0 DEF TypeOK
    <2> QED BY <1>0, <2>1, <2>2 DEF HoldInv, OpPCs
  <1>3. ASSUME NEW p \in Procs, LogWriteAppend(p) PROVE HoldInv'
    <2>1. /\ cur' = [cur EXCEPT ![p] = NoBlock] /\ pc' = [pc EXCEPT ![p] = "op"]
          /\ wrote' = [wrote EXCEPT ![p] = @ \cup {cur[p]}]
          /\ pc[p] = "append" /\ lh' = Absorb(cur[p])
      BY <1>3 DEF LogWriteAppend
    <2>2. /\ cur \in [Procs -> Blocks \cup {NoBlock}] /\ lh \in Seq(Blocks)
          /\ wrote \in [Procs -> SUBSET Blocks] /\ cur[p] \in Blocks
      BY <1>0, <2>1 DEF TypeOK, HoldInv
    <2>3. Logged(lh') = Logged(lh) \cup {cur[p]}
      BY <2>1, <2>2, LoggedAbsorb
    <2>4. \A q \in Procs : wrote'[q] \subseteq Logged(lh')
      BY <1>0, <2>1, <2>2, <2>3 DEF HoldInv
    <2> QED BY <1>0, <2>1, <2>2, <2>4 DEF HoldInv, OpPCs
  <1>4. ASSUME NEW p \in Procs, EndOp(p) PROVE HoldInv'
    <2>1. /\ UNCHANGED <<cur, lh>> /\ wrote' = [wrote EXCEPT ![p] = {}]
          /\ pc[p] = "op" /\ p \in Active
      BY <1>4 DEF EndOp, Active, OpPCs
    <2>2. wrote \in [Procs -> SUBSET Blocks]
      BY <1>0 DEF TypeOK
    <2>3. ~committing
      BY <1>0, <2>1, OperationAlone
    <2>4. /\ pc'[p] \notin OpPCs
          /\ \A q \in Procs \ {p} :
                pc'[q] = pc[q] \/ (pc[q] = "sleep" /\ pc'[q] = "woken")
      BY <1>0, <1>4, <2>3 DEF EndOp, WakeAndGo, OpPCs
    <2> QED BY <1>0, <2>1, <2>2, <2>4 DEF HoldInv, OpPCs
  <1>5. ASSUME NEW p \in Procs, Commit(p) PROVE HoldInv'
    <2>1. committing /\ Active = {} /\ p \in Committers
      BY <1>0, <1>5
         DEF Commit, WriteLog, WriteHead, InstallTrans, EraseLog, EndCommit,
             Committers, CommitPCs, ControlInv
    <2>2. \A q \in Procs : pc[q] \notin OpPCs
      BY <2>1 DEF Active
    <2>3. UNCHANGED <<cur, wrote>>
      BY <1>5 DEF Commit, WriteLog, WriteHead, InstallTrans, EraseLog, EndCommit
    <2>4. \A q \in Procs : pc'[q] \notin OpPCs
      BY <1>0, <1>5, <2>2 DEF Commit, WriteLog, WriteHead, InstallTrans, EraseLog,
             EndCommit, WakeAndGo, OpPCs, AfterWriteLog
    <2> QED BY <1>0, <2>2, <2>3, <2>4 DEF HoldInv, OpPCs
  <1>6. CASE Crash
    BY <1>6 DEF Crash, HoldInv
  <1>7. CASE Recover
    <2>1. UNCHANGED <<pc, cur, wrote>> /\ mode # "up"
      BY <1>7 DEF Recover, ReadHead, RecoverInstall, RecoverClear
    <2>2. \A q \in Procs : pc[q] \notin OpPCs
      BY <1>0, <2>1 DEF ControlInv, Active
    <2> QED BY <1>0, <2>1, <2>2 DEF HoldInv
  <1>8. CASE UNCHANGED <<pc, cur, wrote, lh>>
    BY <1>0, <1>8 DEF HoldInv
  <1> QED
    BY <1>1, <1>2, <1>3, <1>4, <1>5, <1>6, <1>7, <1>8
       DEF Next, LogWrite, Read, Recycle, vars

\* Every reachable state is well typed, with one committer at most, the
\* operations counted, and the loops of commit and recovery inside the header.
THEOREM TypeInvariant == Spec => []TypeInv
  <1>1. TypeInv /\ [Next]_vars => TypeInv'
    BY TypeStep, ControlStep, LoopStep, HoldStep DEF TypeInv
  <1> QED BY TypeInit, <1>1, PTL DEF Spec

\* TypeOK holds in every reachable state, for every number of processes,
\* blocks and contents.
THEOREM TypeCorrect == Spec => []TypeOK
  <1>1. TypeInv => TypeOK
    BY DEF TypeInv
  <1> QED BY TypeInvariant, <1>1, PTL

-----------------------------------------------------------------------------
(* Space in the log.  begin_op's reservation is worth MAXOPBLOCKS an       *)
(* operation; each running operation may still log as many blocks as it    *)
(* has credit.                                                             *)

\* What the constants must satisfy.  The shipped LOGSIZE = NLOG = 30 and
\* MAXOPBLOCKS = 10 do with operations of 9 blocks, and do not with 10.
LogRoom ==
    /\ OpBlocks < MAXOPBLOCKS
    /\ OpBlocks < LOGSIZE /\ OpBlocks <= NLOG - 2
    /\ LOGSIZE - 2 * (MAXOPBLOCKS - OpBlocks) <= NLOG - 2

Fits(n) == n < LOGSIZE /\ n <= NLOG - 2

Credit == {c \in Procs \X (1 .. OpBlocks) :
              pc[c[1]] \in OpPCs /\ Cardinality(wrote[c[1]]) < c[2]}

SpaceInv ==
    /\ ~panic
    /\ Len(lh) <= NLOG - 2 /\ Len(head) <= NLOG - 2
    /\ Active # {} => Fits(Len(lh) + Cardinality(Credit))
    /\ mode = "up" /\ Active = {} /\ ~committing => lh = <<>>
    /\ \A p \in Procs : cur[p] # NoBlock =>
           cur[p] \in wrote[p] \/ Cardinality(wrote[p]) < OpBlocks

\* An operation in progress is counted by at most OpBlocks elements of Credit.
LEMMA CreditFinite ==
  ASSUME TypeOK
  PROVE  /\ IsFiniteSet(Credit) /\ Cardinality(Credit) \in Nat
         /\ Cardinality(Credit) <= Cardinality(Active) * OpBlocks
  <1>1. IsFiniteSet(1 .. OpBlocks) /\ Cardinality(1 .. OpBlocks) = OpBlocks
    BY LogConstants, FS_Interval
  <1>2. /\ IsFiniteSet(Active \X (1 .. OpBlocks))
        /\ Cardinality(Active \X (1 .. OpBlocks)) = Cardinality(Active) * OpBlocks
    BY <1>1, ActiveFinite, FS_Product
  <1>3. Credit \subseteq Active \X (1 .. OpBlocks)
    BY DEF Credit, Active
  <1> QED BY <1>2, <1>3, FS_Subset, FS_CardinalityType

LEMMA CreditFiniteNext == IsFiniteSet(Credit') /\ Cardinality(Credit') \in Nat
  <1>0. IsFiniteSet(1 .. OpBlocks) /\ IsFiniteSet(Procs)
    BY LogConstants, FS_Interval
  <1>1. IsFiniteSet(Procs \X (1 .. OpBlocks))
    BY <1>0, FS_Product
  <1>2. Credit' \subseteq Procs \X (1 .. OpBlocks)
    BY DEF Credit
  <1> QED BY <1>1, <1>2, FS_Subset, FS_CardinalityType

\* The admission test of begin_op leaves room for what all operations may log.
LEMMA Admission ==
  ASSUME LogRoom, NEW n \in Nat, NEW k \in Nat, k >= 1,
         n + (k + 1) * MAXOPBLOCKS <= LOGSIZE
  PROVE  Fits(n + k * OpBlocks + OpBlocks)
  <1> DEFINE d == MAXOPBLOCKS - OpBlocks
  <1>1. d \in Nat /\ d >= 1 /\ MAXOPBLOCKS = OpBlocks + d
    BY LogConstants DEF LogRoom
  <1>2. (k + 1) * d >= 2 * d
    <2>1. (k - 1) * d >= 0
      BY <1>1
    <2>2. (k + 1) * d = (k - 1) * d + 2 * d
      BY <1>1
    <2> QED BY <1>1, <2>1, <2>2
  <1>3. (k + 1) * MAXOPBLOCKS = k * OpBlocks + OpBlocks + (k + 1) * d
    BY <1>1, LogConstants
  <1>4. k * OpBlocks \in Nat /\ (k + 1) * d \in Nat /\ OpBlocks \in Nat /\ LOGSIZE \in Nat
    BY <1>1, LogConstants
  <1>5. LOGSIZE - 2 * d <= NLOG - 2 /\ NLOG \in Nat
    BY LogConstants DEF LogRoom
  <1> HIDE DEF d
  <1> QED BY <1>1, <1>2, <1>3, <1>4, <1>5 DEF Fits

LEMMA SpaceInit == LogRoom /\ Init => SpaceInv
  <1> SUFFICES ASSUME LogRoom, Init PROVE SpaceInv
    OBVIOUS
  <1>1. Active = {}
    BY DEF Init, Active, OpPCs
  <1>2. Len(lh) = 0 /\ Len(head) = 0
    BY DEF Init
  <1>3. NLOG - 2 >= 0
    BY LogConstants DEF LogRoom
  <1> QED BY <1>1, <1>2, <1>3 DEF Init, SpaceInv

LEMMA SpaceStep ==
  ASSUME LogRoom PROVE TypeInv /\ SpaceInv /\ [Next]_vars => SpaceInv'
  <1> SUFFICES ASSUME TypeInv, SpaceInv, [Next]_vars PROVE SpaceInv'
    OBVIOUS
  <1>0. TypeOK /\ ControlInv /\ LoopInv /\ HoldInv /\ pc \in [Procs -> PCs]
    BY DEF TypeInv, ControlInv
  <1>b. lh \in Seq(Blocks) /\ head \in Seq(Blocks) /\ Len(lh) \in Nat
    BY <1>0 DEF TypeOK
  <1>c. IsFiniteSet(Credit) /\ Cardinality(Credit) \in Nat
    BY <1>0, CreditFinite
  <1>d. \A p \in Procs : IsFiniteSet(wrote[p]) /\ Cardinality(wrote[p]) \in Nat
    <2>1. \A p \in Procs : wrote[p] \subseteq Blocks
      BY <1>0 DEF TypeOK
    <2> QED BY <2>1, LogConstants, FS_Subset, FS_CardinalityType
  <1>e. ASSUME UNCHANGED <<lh, head, committing, mode, panic, wrote>>,
               Active' = Active,
               \A p \in Procs : cur'[p] = cur[p]
        PROVE  SpaceInv'
    <2>1. Credit' = Credit
      BY <1>0, <1>e DEF Credit, Active
    <2> QED BY <1>e, <2>1 DEF SpaceInv
  <1>1. ASSUME NEW p \in Procs, BeginOp(p) PROVE SpaceInv'
    <2>1. UNCHANGED <<lh, head, committing, mode, panic, wrote, cur>>
      BY <1>1 DEF BeginOp
    <2>2. CASE LogBusy
      <3>1. Active' = Active
        BY <1>0, <1>1, <2>2 DEF BeginOp, Active, OpPCs, PCs
      <3> QED BY <1>e, <2>1, <3>1
    <2>3. CASE ~LogBusy
      <3>1. /\ pc' = [pc EXCEPT ![p] = "op"] /\ ~committing
            /\ pc[p] \notin OpPCs /\ mode = "up"
            /\ Len(lh) + (outstanding + 1) * MAXOPBLOCKS <= LOGSIZE
        BY <1>0, <1>b, <1>1, <2>3, LogConstants
           DEF BeginOp, LogBusy, OpPCs, Running, TypeOK
      <3>2. Active' = Active \cup {p}
        BY <1>0, <3>1 DEF Active, OpPCs
      <3>3. Credit' \subseteq Credit \cup ({p} \X (1 .. OpBlocks))
        BY <1>0, <2>1, <3>1 DEF Credit, OpPCs
      <3>4. /\ IsFiniteSet({p} \X (1 .. OpBlocks))
            /\ Cardinality({p} \X (1 .. OpBlocks)) = OpBlocks
        <4>1. IsFiniteSet(1 .. OpBlocks) /\ Cardinality(1 .. OpBlocks) = OpBlocks
          BY LogConstants, FS_Interval
        <4>2. IsFiniteSet({p}) /\ Cardinality({p}) = 1
          BY FS_Singleton
        <4>3. /\ IsFiniteSet({p} \X (1 .. OpBlocks))
              /\ Cardinality({p} \X (1 .. OpBlocks)) = 1 * OpBlocks
          BY <4>1, <4>2, FS_Product, ZenonT(60)
        <4>4. 1 * OpBlocks = OpBlocks
          BY LogConstants
        <4> QED BY <4>3, <4>4
      <3>5. /\ Cardinality(Credit') \in Nat
            /\ Cardinality(Credit') <= Cardinality(Credit) + OpBlocks
        <4> DEFINE V == {p} \X (1 .. OpBlocks)
        <4>1. IsFiniteSet(V) /\ Cardinality(V) = OpBlocks
          BY <3>4
        <4> HIDE DEF V
        <4>2. /\ IsFiniteSet(Credit \cup V)
              /\ Cardinality(Credit \cup V)
                     = Cardinality(Credit) + OpBlocks - Cardinality(Credit \cap V)
          BY <1>c, <4>1, FS_Union
        <4>3. Cardinality(Credit \cap V) \in Nat
          BY <1>c, FS_Intersection, FS_CardinalityType
        <4>4. Credit' \subseteq Credit \cup V
          BY <3>3 DEF V
        <4>5. /\ Cardinality(Credit') <= Cardinality(Credit \cup V)
              /\ Cardinality(Credit') \in Nat
          BY <4>2, <4>4, FS_Subset, FS_CardinalityType
        <4> QED BY <1>c, <4>2, <4>3, <4>5, LogConstants
      <3>6. Fits(Len(lh) + Cardinality(Credit'))
        <4>1. CASE Active = {}
          <5>1. Len(lh) = 0
            BY <3>1, <4>1 DEF SpaceInv
          <5>2. Cardinality(Credit) = 0
            <6>1. Credit = {}
              BY <4>1 DEF Credit, Active
            <6> QED BY <6>1, FS_EmptySet
          <5> QED BY <3>5, <5>1, <5>2, LogConstants DEF Fits, LogRoom
        <4>2. CASE Active # {}
          <5>1. outstanding \in Nat /\ outstanding >= 1 /\ outstanding = Cardinality(Active)
            BY <1>0, <4>2, ActiveFinite, FS_EmptySet DEF ControlInv
          <5>2. Cardinality(Credit) <= outstanding * OpBlocks
            BY <1>0, <5>1, CreditFinite
          <5>3. Fits(Len(lh) + outstanding * OpBlocks + OpBlocks)
            BY <1>b, <3>1, <5>1, Admission
          <5>4. outstanding * OpBlocks \in Nat
            BY <5>1, LogConstants
          <5> QED BY <1>b, <1>c, <3>5, <5>2, <5>3, <5>4, LogConstants DEF Fits
        <4> QED BY <4>1, <4>2
      <3> QED BY <2>1, <3>1, <3>2, <3>6 DEF SpaceInv
    <2> QED BY <2>2, <2>3
  <1>2. ASSUME NEW p \in Procs, NEW b \in Blocks, NEW v \in Data, Modify(p, b, v)
        PROVE  SpaceInv'
    <2>1. /\ UNCHANGED <<lh, head, committing, mode, panic, wrote>>
          /\ pc' = [pc EXCEPT ![p] = "hold"] /\ pc[p] = "op"
          /\ cur' = [cur EXCEPT ![p] = b]
          /\ b \in wrote[p] \/ Cardinality(wrote[p]) < OpBlocks
      BY <1>2 DEF Modify
    <2>2. Active' = Active
      BY <1>0, <2>1 DEF Active, OpPCs
    <2>3. Credit' = Credit
      BY <1>0, <2>1 DEF Credit, OpPCs
    <2>4. cur \in [Procs -> Blocks \cup {NoBlock}]
      BY <1>0 DEF TypeOK
    <2> QED BY <2>1, <2>2, <2>3, <2>4 DEF SpaceInv
  <1>3. ASSUME NEW p \in Procs, LogWriteCheck(p) PROVE SpaceInv'
    <2>1. /\ p \in Active /\ pc[p] = "hold" /\ cur[p] # NoBlock
      BY <1>0, <1>3 DEF LogWriteCheck, Active, OpPCs, HoldInv
    <2>2. Fits(Len(lh) + Cardinality(Credit)) /\ outstanding >= 1
      BY <1>0, <2>1, OperationAlone DEF SpaceInv
    <2>3. ~TooBig
      BY <1>b, <1>c, <2>2, LogConstants DEF Fits, TooBig
    <2>4. ~(TooBig \/ outstanding < 1)
      BY <1>0, <2>1, <2>3, OperationAlone
    <2>5. /\ pc' = [pc EXCEPT ![p] = "append"]
          /\ UNCHANGED <<lh, head, committing, mode, panic, wrote, cur>>
      BY <1>3, <2>4 DEF LogWriteCheck
    <2>6. Active' = Active
      BY <1>0, <2>1, <2>5 DEF Active, OpPCs
    <2> QED BY <1>e, <2>5, <2>6
  <1>4. ASSUME NEW p \in Procs, LogWriteAppend(p) PROVE SpaceInv'
    <2>1. /\ cur' = [cur EXCEPT ![p] = NoBlock] /\ pc' = [pc EXCEPT ![p] = "op"]
          /\ wrote' = [wrote EXCEPT ![p] = @ \cup {cur[p]}]
          /\ pc[p] = "append" /\ lh' = Absorb(cur[p])
          /\ UNCHANGED <<head, committing, mode, panic>>
      BY <1>4 DEF LogWriteAppend
    <2>2. /\ cur \in [Procs -> Blocks \cup {NoBlock}] /\ cur[p] \in Blocks
          /\ wrote \in [Procs -> SUBSET Blocks] /\ cur[p] # NoBlock
          /\ wrote[p] \subseteq Logged(lh)
      BY <1>0, <2>1, LogConstants DEF TypeOK, HoldInv
    <2>3. Active' = Active /\ p \in Active
      BY <1>0, <2>1 DEF Active, OpPCs
    <2>4. \A q \in Procs : cur'[q] # NoBlock =>
              cur'[q] \in wrote'[q] \/ Cardinality(wrote'[q]) < OpBlocks
      BY <2>1, <2>2 DEF SpaceInv
    <2>5. Len(lh') \in Nat /\ Fits(Len(lh') + Cardinality(Credit'))
      <3>1. Fits(Len(lh) + Cardinality(Credit))
        BY <2>3 DEF SpaceInv
      <3>2. CASE cur[p] \in wrote[p]
        <4>1. wrote' = wrote
          BY <2>1, <2>2, <3>2
        <4>2. lh' = lh
          BY <2>1, <2>2, <3>2 DEF Absorb
        <4>3. Credit' = Credit
          BY <1>0, <2>1, <4>1 DEF Credit, OpPCs
        <4> QED BY <1>b, <3>1, <4>2, <4>3
      <3>3. CASE cur[p] \notin wrote[p]
        <4> DEFINE n == Cardinality(wrote[p])
                   c == <<p, n + 1>>
        <4>1. n \in Nat /\ n < OpBlocks
          BY <1>d, <2>2, <3>3 DEF SpaceInv
        <4>2. Cardinality(wrote'[p]) = n + 1
          BY <1>d, <2>1, <2>2, <3>3, FS_AddElement
        <4>3. c \in Credit
          BY <1>0, <2>1, <4>1, LogConstants DEF Credit, OpPCs
        <4>4. Credit' \subseteq Credit \ {c}
          <5> SUFFICES ASSUME NEW x \in Credit' PROVE x \in Credit /\ x # c
            OBVIOUS
          <5>1. /\ x \in Procs \X (1 .. OpBlocks) /\ pc'[x[1]] \in OpPCs
                /\ Cardinality(wrote'[x[1]]) < x[2]
            BY DEF Credit
          <5>2. CASE x[1] = p
            <6>1. n + 1 < x[2] /\ x[2] \in Int
              BY <4>2, <5>1, <5>2
            <6>2. n < x[2] /\ x # c
              BY <4>1, <6>1
            <6> QED BY <2>1, <5>1, <5>2, <6>2 DEF Credit, OpPCs
          <5>3. CASE x[1] # p
            <6>1. wrote'[x[1]] = wrote[x[1]] /\ pc'[x[1]] = pc[x[1]]
              BY <1>0, <2>1, <2>2, <5>1, <5>3
            <6> QED BY <5>1, <5>3, <6>1 DEF Credit
          <5> QED BY <5>2, <5>3
        <4> HIDE DEF c, n
        <4>5. /\ Cardinality(Credit') \in Nat
              /\ Cardinality(Credit') <= Cardinality(Credit) - 1
          BY <1>c, <4>3, <4>4, FS_RemoveElement, FS_Subset, FS_CardinalityType
        <4>6. Len(lh') \in Nat /\ Len(lh') <= Len(lh) + 1
          BY <1>b, <2>1, <2>2 DEF Absorb
        <4> QED BY <1>b, <1>c, <3>1, <4>5, <4>6, LogConstants DEF Fits
      <3> QED BY <3>2, <3>3
    <2>6. Cardinality(Credit') \in Nat
      BY CreditFiniteNext
    <2>7. Len(lh') <= NLOG - 2
      BY <2>5, <2>6, LogConstants DEF Fits
    <2>8. ~(mode' = "up" /\ Active' = {} /\ ~committing')
      BY <2>3
    <2> QED BY <2>1, <2>4, <2>5, <2>7, <2>8 DEF SpaceInv
  <1>5. ASSUME NEW p \in Procs, EndOp(p) PROVE SpaceInv'
    <2>1. /\ UNCHANGED <<lh, head, cur, mode>> /\ wrote' = [wrote EXCEPT ![p] = {}]
          /\ pc[p] = "op" /\ p \in Active
      BY <1>5 DEF EndOp, Active, OpPCs
    <2>2. ~committing
      BY <1>0, <2>1, OperationAlone
    <2>3. UNCHANGED panic
      BY <1>5, <2>2 DEF EndOp
    <2>4. wrote \in [Procs -> SUBSET Blocks]
      BY <1>0 DEF TypeOK
    <2>5. /\ pc'[p] \notin OpPCs
          /\ \A q \in Procs \ {p} : pc'[q] \in OpPCs <=> pc[q] \in OpPCs
      BY <1>0, <1>5, <2>2 DEF EndOp, WakeAndGo, OpPCs
    <2>6. Active' = Active \ {p}
      BY <2>5 DEF Active
    <2>7. Credit' \subseteq Credit
      BY <2>1, <2>4, <2>5 DEF Credit
    <2>8. Cardinality(Credit') \in Nat /\ Cardinality(Credit') <= Cardinality(Credit)
      BY <1>c, <2>7, FS_Subset, FS_CardinalityType
    <2>9. Fits(Len(lh) + Cardinality(Credit'))
      BY <1>b, <1>c, <2>1, <2>8, LogConstants DEF SpaceInv, Fits
    <2>10. Active' = {} => committing'
      <3>1. ASSUME Active' = {} PROVE outstanding = 1
        <4>1. Active = {p}
          BY <2>1, <2>6, <3>1
        <4> QED BY <1>0, <4>1, FS_Singleton DEF ControlInv
      <3> QED BY <1>5, <2>2, <3>1 DEF EndOp
    <2>11. \A q \in Procs : cur[q] # NoBlock => q # p
      BY <1>0, <2>1 DEF HoldInv
    <2> QED BY <2>1, <2>3, <2>4, <2>9, <2>10, <2>11 DEF SpaceInv
  <1>6. ASSUME NEW p \in Procs, Commit(p) PROVE SpaceInv'
    <2>1. committing /\ Active = {} /\ p \in Committers
      BY <1>0, <1>6
         DEF Commit, WriteLog, WriteHead, InstallTrans, EraseLog, EndCommit,
             Committers, CommitPCs, ControlInv
    <2>2. Active' = {}
      BY <1>0, <1>6, <2>1 DEF Active, Commit, WriteLog, WriteHead, InstallTrans,
             EraseLog, EndCommit, WakeAndGo, OpPCs, AfterWriteLog
    <2>3. UNCHANGED <<cur, wrote, panic>>
      BY <1>6 DEF Commit, WriteLog, WriteHead, InstallTrans, EraseLog, EndCommit
    <2>4. Len(lh') <= NLOG - 2 /\ Len(head') <= NLOG - 2
      <3>1. Len(<<>>) <= NLOG - 2
        BY LogConstants DEF LogRoom
      <3> QED BY <1>6, <3>1 DEF SpaceInv, Commit, WriteLog, WriteHead, InstallTrans,
                                EraseLog, EndCommit
    <2>5. committing' \/ lh' = <<>>
      <3>1. CASE EndCommit(p)
        <4>1. At("committed")
          BY <3>1 DEF EndCommit, At
        <4> QED BY <1>0, <3>1, <4>1 DEF LoopInv, EndCommit
      <3> QED BY <1>6, <2>1, <3>1 DEF Commit, WriteLog, WriteHead, InstallTrans,
                                      EraseLog
    <2> QED BY <2>2, <2>3, <2>4, <2>5 DEF SpaceInv
  <1>7. CASE Crash
    <2>1. Active' = {}
      BY <1>7 DEF Crash, Active, OpPCs
    <2>2. Len(lh') = 0 /\ NLOG - 2 >= 0
      BY <1>7, LogConstants DEF Crash, LogRoom
    <2> QED BY <1>7, <2>1, <2>2 DEF Crash, diskVars, SpaceInv
  <1>8. CASE Recover
    <2>1. mode # "up" /\ Active = {} /\ UNCHANGED <<pc, cur, wrote, panic>>
      BY <1>0, <1>8 DEF Recover, ReadHead, RecoverInstall, RecoverClear, ControlInv
    <2>2. Active' = {}
      BY <2>1 DEF Active
    <2>3. Len(<<>>) <= NLOG - 2
      BY LogConstants DEF LogRoom
    <2>4. Len(lh') <= NLOG - 2 /\ Len(head') <= NLOG - 2
      BY <1>8, <2>3 DEF Recover, ReadHead, RecoverInstall, RecoverClear, SpaceInv
    <2>5. mode' = "up" => lh' = <<>>
      BY <1>8 DEF Recover, ReadHead, RecoverInstall, RecoverClear, AfterReadHead
    <2> QED BY <2>1, <2>2, <2>4, <2>5 DEF SpaceInv
  <1>9. ASSUME NEW b \in Blocks, Read(b) \/ Recycle(b) PROVE SpaceInv'
    BY <1>e, <1>9 DEF Read, Recycle, Active
  <1>10. CASE UNCHANGED vars
    BY <1>e, <1>10 DEF vars, Active
  <1> QED
    BY <1>1, <1>2, <1>3, <1>4, <1>5, <1>6, <1>7, <1>8, <1>9, <1>10
       DEF Next, LogWrite

\* The reservation of begin_op is enough: whatever the interleaving, no block
\* is ever logged past the end of the log, although log_write tests for room
\* before it takes log.lock.
THEOREM LogNeverOverflows == ASSUME LogRoom PROVE Spec => []LogFits
  <1>1. LogRoom
    OBVIOUS
  <1>2. TypeInv /\ SpaceInv /\ [Next]_vars => SpaceInv'
    BY <1>1, SpaceStep
  <1>3. Init => SpaceInv
    BY <1>1, SpaceInit
  <1>4. TypeInv /\ SpaceInv => LogFits
    <2> SUFFICES ASSUME TypeInv, SpaceInv PROVE LogFits
      OBVIOUS
    <2>1. Len(lh) \in Nat
      BY DEF TypeInv, TypeOK
    <2> QED BY <2>1, LogConstants DEF SpaceInv, LogFits
  <1> QED BY TypeInvariant, <1>2, <1>3, <1>4, PTL DEF Spec

\* No panic of log_write or end_op is reachable under the same condition.
THEOREM LogNeverPanics == ASSUME LogRoom PROVE Spec => []NoPanic
  <1>1. LogRoom
    OBVIOUS
  <1>2. TypeInv /\ SpaceInv /\ [Next]_vars => SpaceInv'
    BY <1>1, SpaceStep
  <1>3. Init => SpaceInv
    BY <1>1, SpaceInit
  <1>4. SpaceInv => NoPanic
    BY DEF SpaceInv, NoPanic
  <1> QED BY TypeInvariant, <1>2, <1>3, <1>4, PTL DEF Spec
-----------------------------------------------------------------------------
(* The processes that wait in begin_op.                                    *)

SleepInv ==
    \A p \in Procs : pc[p] = "sleep" => mode = "up" /\ (panic \/ LogBusy)

\* More open operations hold at least as much log space.
LEMMA MoreHoldMore ==
  ASSUME NEW x \in Nat, NEW y \in Nat, NEW m \in Nat, y >= x
  PROVE  (y + 1) * m >= (x + 1) * m /\ (y + 1) * m \in Nat /\ (x + 1) * m \in Nat
  OBVIOUS

\* A busy log stays busy while space is only taken.
LEMMA BusyStays ==
  ASSUME LogBusy, committing => committing', TypeOK, TypeOK',
         Len(lh') >= Len(lh), outstanding' >= outstanding
  PROVE  LogBusy'
  <1>1. outstanding \in Nat /\ outstanding' \in Nat
    BY DEF TypeOK
  <1>2. Len(lh) \in Nat /\ Len(lh') \in Nat
    BY DEF TypeOK
  <1>3. MAXOPBLOCKS \in Nat /\ LOGSIZE \in Nat
    BY LogConstants
  <1> DEFINE before == (outstanding + 1) * MAXOPBLOCKS
             after == (outstanding' + 1) * MAXOPBLOCKS
  <1>4. after >= before /\ before \in Nat /\ after \in Nat
    BY <1>1, <1>3, MoreHoldMore
  <1> HIDE DEF before, after
  <1>5. ASSUME Len(lh) + before > LOGSIZE PROVE Len(lh') + after > LOGSIZE
    BY <1>2, <1>3, <1>4, <1>5
  <1> QED BY <1>5 DEF LogBusy, before, after

\* Whatever lets a process in begin_op go on wakes it.
THEOREM SleepersAreBlocked == Spec => []SleepersBlocked
  <1>1. Init => SleepInv
    BY DEF Init, SleepInv
  <1>2. TypeInv /\ TypeInv' /\ SleepInv /\ [Next]_vars => SleepInv'
    <2> SUFFICES ASSUME TypeInv, TypeInv', SleepInv, [Next]_vars PROVE SleepInv'
      OBVIOUS
    <2>0. TypeOK /\ TypeOK' /\ ControlInv
      BY DEF TypeInv
    <2>1. ASSUME \A p \in Procs : pc'[p] = "sleep" => pc[p] = "sleep",
                 UNCHANGED mode, panic' \/ UNCHANGED panic,
                 committing => committing',
                 Len(lh') >= Len(lh), outstanding' >= outstanding
          PROVE  SleepInv'
      BY <2>0, <2>1, BusyStays DEF SleepInv
    <2>2. ASSUME \A p \in Procs : pc'[p] # "sleep" PROVE SleepInv'
      BY <2>2 DEF SleepInv
    <2>3. ASSUME UNCHANGED <<lh, outstanding>> PROVE Len(lh') >= Len(lh) /\ outstanding' >= outstanding
      BY <2>0, <2>3 DEF TypeOK
    <2>4. pc \in [Procs -> PCs]
      BY <2>0 DEF TypeOK
    <2>5. ASSUME NEW p \in Procs, BeginOp(p) PROVE SleepInv'
      <3>1. mode = "up" /\ UNCHANGED <<mode, panic, committing, lh>>
        BY <2>5 DEF BeginOp, Running
      <3>2. CASE LogBusy
        <4>1. UNCHANGED outstanding
          BY <2>5, <3>2 DEF BeginOp
        <4>2. LogBusy'
          BY <3>1, <3>2, <4>1 DEF LogBusy
        <4> QED BY <3>1, <4>2 DEF SleepInv
      <3>3. CASE ~LogBusy
        <4>1. outstanding' = outstanding + 1 /\ pc' = [pc EXCEPT ![p] = "op"]
          BY <2>5, <3>3 DEF BeginOp, Counted
        <4>2. Len(lh') >= Len(lh) /\ outstanding' >= outstanding
          BY <2>0, <3>1, <4>1 DEF TypeOK
        <4> QED BY <2>1, <2>4, <3>1, <4>1, <4>2
      <3> QED BY <3>2, <3>3
    <2>6. ASSUME NEW p \in Procs, NEW b \in Blocks, NEW v \in Data, Modify(p, b, v)
          PROVE  SleepInv'
      BY <2>1, <2>3, <2>4, <2>6 DEF Modify
    <2>7. ASSUME NEW p \in Procs, LogWriteCheck(p) PROVE SleepInv'
      BY <2>1, <2>3, <2>4, <2>7 DEF LogWriteCheck
    <2>8. ASSUME NEW p \in Procs, LogWriteAppend(p) PROVE SleepInv'
      <3>1. Len(lh') >= Len(lh)
        BY <2>0, <2>8 DEF LogWriteAppend, Absorb, TypeOK
      <3>2. outstanding' >= outstanding
        BY <2>0, <2>8 DEF LogWriteAppend, TypeOK
      <3> QED BY <2>1, <2>4, <2>8, <3>1, <3>2 DEF LogWriteAppend
    <2>9. ASSUME NEW p \in Procs, EndOp(p) PROVE SleepInv'
      <3>1. p \in Active /\ ~committing /\ mode = "up" /\ UNCHANGED mode
        BY <2>0, <2>9 DEF EndOp, Active, OpPCs, Running, ControlInv
      <3>2. CASE outstanding = 1
        <4>1. committing' = TRUE
          BY <2>9, <3>1, <3>2 DEF EndOp
        <4> QED BY <3>1, <4>1 DEF SleepInv, LogBusy
      <3>3. CASE outstanding # 1
        BY <2>2, <2>9, <3>1, <3>3 DEF EndOp, WakeAndGo
      <3> QED BY <3>2, <3>3
    <2>10. ASSUME NEW p \in Procs, Commit(p) PROVE SleepInv'
      <3>1. CASE EndCommit(p)
        BY <2>2, <3>1 DEF EndCommit, WakeAndGo
      <3>2. CASE ~EndCommit(p)
        <4>1. committing
          BY <2>0, <2>10, <3>2 DEF Commit, WriteLog, WriteHead, InstallTrans, EraseLog,
                                   ControlInv, Committers, CommitPCs
        <4>2. mode = "up" /\ committing' = committing /\ UNCHANGED mode
          BY <2>10, <3>2 DEF Commit, WriteLog, WriteHead, InstallTrans, EraseLog, Running
        <4> QED BY <4>1, <4>2 DEF SleepInv, LogBusy
      <3> QED BY <3>1, <3>2
    <2>11. ASSUME NEW b \in Blocks, Read(b) \/ Recycle(b) PROVE SleepInv'
      BY <2>1, <2>3, <2>11 DEF Read, Recycle
    <2>12. CASE Crash
      BY <2>2, <2>12 DEF Crash
    <2>13. CASE Recover
      <3>1. mode # "up" /\ UNCHANGED pc
        BY <2>13 DEF Recover, ReadHead, RecoverInstall, RecoverClear
      <3> QED BY <2>2, <3>1 DEF SleepInv
    <2>14. CASE UNCHANGED vars
      BY <2>1, <2>3, <2>14 DEF vars
    <2> QED BY <2>5, <2>6, <2>7, <2>8, <2>9, <2>10, <2>11, <2>12, <2>13, <2>14
            DEF Next, LogWrite
  <1>3. SleepInv => SleepersBlocked
    BY DEF SleepInv, SleepersBlocked, Running
  <1> QED BY <1>1, <1>2, <1>3, TypeInvariant, PTL DEF Spec
-----------------------------------------------------------------------------
(* The log implements Transactions: its data invariant, and the refinement *)
(* step by step.                                                           *)

(* The data invariant.                                                     *)

Distinct(s) == \A i, j \in 1 .. Len(s) : s[i] = s[j] => i = j

Held(b) == \E p \in Procs : cur[p] = b

\* The first n entries of lh have their copy in the log, or at home.
Copied(n)    == \A i \in 1 .. n : logdata[i] = View(lh[i])
Installed(n) == \A i \in 1 .. n : disk[lh[i]] = logdata[i]

\* A buffer that differs from the disk is pinned or in use.
CacheInv ==
    \A b \in Blocks :
        /\ b \in dirty \/ Held(b) => cache[b] # NotCached
        /\ cache[b] # NotCached /\ b \notin dirty /\ ~Held(b) => cache[b] = disk[b]

\* What the buffers pinned, the header and the log area have to do with each
\* other at each point of the commit and of the recovery.
PhaseInv ==
    /\ mode = "up" /\ ~At("install") /\ ~At("erase") =>
           head = <<>> /\ dirty = Logged(lh)
    /\ mode = "up" /\ Active = {} /\ ~committing => lh = <<>>
    /\ mode # "up" => dirty = {}
    /\ At("write_log") => Copied(tail - 1)
    /\ At("write_head") \/ At("install") \/ At("erase") => Copied(Len(lh))
    /\ At("install") =>
           Installed(tail - 1) /\ dirty = {lh[i] : i \in tail .. Len(lh)}
    /\ At("erase") => Installed(Len(lh)) /\ dirty = {}
    /\ mode = "install" => Installed(tail - 1)
    /\ mode = "clear" => Installed(Len(lh))

DataInv == Distinct(lh) /\ Distinct(head) /\ CacheInv /\ PhaseInv

LogInv == TypeInv /\ DataInv

LEMMA DataInit == Init => DataInv
  <1> SUFFICES ASSUME Init PROVE DataInv
    OBVIOUS
  <1>1. Distinct(lh) /\ Distinct(head)
    BY DEF Init, Distinct
  <1>2. CacheInv
    BY LogConstants DEF Init, CacheInv, Held
  <1>3. \A m \in CommitPCs : ~At(m)
    BY DEF Init, At, CommitPCs
  <1>4. PhaseInv
    BY <1>3 DEF Init, PhaseInv, CommitPCs
  <1> QED BY <1>1, <1>2, <1>4 DEF DataInv

LEMMA DistinctStep == LogInv /\ [Next]_vars => Distinct(lh)' /\ Distinct(head)'
  <1> SUFFICES ASSUME LogInv, [Next]_vars PROVE Distinct(lh') /\ Distinct(head')
    BY DEF Distinct
  <1>0. /\ Distinct(lh) /\ Distinct(head) /\ lh \in Seq(Blocks)
        /\ cur \in [Procs -> Blocks \cup {NoBlock}] /\ HoldInv
    BY DEF LogInv, DataInv, TypeInv, TypeOK
  <1>1. Distinct(<<>>)
    BY DEF Distinct
  <1>2. ASSUME NEW p \in Procs, LogWriteAppend(p)
        PROVE  Distinct(lh') /\ Distinct(head')
    <2>1. cur[p] \in Blocks
      BY <1>0, <1>2 DEF LogWriteAppend, HoldInv
    <2>2. CASE cur[p] \in Logged(lh)
      BY <1>0, <1>2, <2>2 DEF LogWriteAppend, Absorb
    <2>3. CASE cur[p] \notin Logged(lh)
      <3>1. lh' = Append(lh, cur[p])
        BY <1>2, <2>3 DEF LogWriteAppend, Absorb
      <3>2. /\ Len(lh) \in Nat /\ Len(lh') = Len(lh) + 1
            /\ \A i \in 1 .. Len(lh) : lh'[i] = lh[i] /\ lh[i] # cur[p]
            /\ lh'[Len(lh) + 1] = cur[p]
        BY <1>0, <2>1, <2>3, <3>1 DEF Logged
      <3>3. Distinct(lh')
        BY <1>0, <3>2 DEF Distinct
      <3> QED BY <1>0, <1>2, <3>3 DEF LogWriteAppend
    <2> QED BY <2>2, <2>3
  <1>3. CASE \A p \in Procs : ~LogWriteAppend(p)
    <2>1. lh' \in {lh, head, <<>>} /\ head' \in {lh, head, <<>>}
      BY <1>3 DEF Next, BeginOp, Modify, LogWrite, LogWriteCheck, EndOp, Commit,
         WriteLog, WriteHead, InstallTrans, EraseLog, EndCommit, Read, Recycle, Crash,
         Recover, ReadHead, RecoverInstall, RecoverClear, diskVars, vars
    <2> QED BY <1>0, <1>1, <2>1
  <1> QED BY <1>2, <1>3

\* While the commit runs nobody holds a buffer.
LEMMA NobodyHolds ==
  ASSUME TypeInv, Active = {}
  PROVE  \A b \in Blocks : ~Held(b)
  <1>1. \A p \in Procs : pc[p] \notin OpPCs
    BY DEF Active
  <1>2. \A p \in Procs : cur[p] = NoBlock
    BY <1>1 DEF TypeInv, HoldInv, OpPCs
  <1> QED BY <1>2, LogConstants DEF Held

\* What InstallBlock does, seen from the invariant.
LEMMA InstallFacts ==
  ASSUME TypeOK, tail <= Len(lh), Len(lh) <= NLOG - 1, InstallBlock
  PROVE  /\ lh[tail] \in Blocks /\ logdata[tail] \in Data
         /\ logdata[tail] # NotCached
         /\ disk'[lh[tail]] = logdata[tail] /\ cache'[lh[tail]] = logdata[tail]
         /\ \A b \in Blocks : b # lh[tail] => disk'[b] = disk[b] /\ cache'[b] = cache[b]
         /\ dirty' = dirty \ {lh[tail]}
  <1>1. lh[tail] \in Blocks /\ logdata[tail] \in Data
    BY LoggedData, LogConstants DEF TypeOK
  <1> QED BY <1>1, LogConstants DEF TypeOK, InstallBlock

LEMMA CacheStep == LogInv /\ [Next]_vars => CacheInv'
  <1> SUFFICES ASSUME LogInv, [Next]_vars PROVE CacheInv'
    OBVIOUS
  <1>0. /\ TypeInv /\ TypeOK /\ ControlInv /\ HoldInv /\ LoopInv /\ CacheInv /\ PhaseInv
        /\ cur \in [Procs -> Blocks \cup {NoBlock}]
    BY DEF LogInv, DataInv, TypeInv, TypeOK
  <1>a. ASSUME UNCHANGED <<disk, cache, dirty, cur>> PROVE CacheInv'
    BY <1>0, <1>a DEF CacheInv, Held
  <1>1. ASSUME NEW p \in Procs, NEW b \in Blocks, NEW v \in Data, Modify(p, b, v)
        PROVE  CacheInv'
    <2>1. /\ cache' = [cache EXCEPT ![b] = v] /\ cur' = [cur EXCEPT ![p] = b]
          /\ UNCHANGED <<disk, dirty>> /\ pc[p] = "op"
      BY <1>1 DEF Modify
    <2>2. cur[p] = NoBlock /\ v # NotCached
      BY <1>0, <2>1, LogConstants DEF HoldInv
    <2>3. Held(b)' /\ \A c \in Blocks : c # b => (Held(c)' <=> Held(c))
      BY <1>0, <2>1, <2>2, LogConstants DEF Held
    <2>4. cache'[b] = v /\ \A c \in Blocks : c # b => cache'[c] = cache[c]
      BY <1>0, <2>1 DEF TypeOK
    <2> QED BY <1>0, <2>1, <2>2, <2>3, <2>4 DEF CacheInv
  <1>2. ASSUME NEW p \in Procs, LogWriteAppend(p) PROVE CacheInv'
    <2>1. /\ cur' = [cur EXCEPT ![p] = NoBlock] /\ dirty' = dirty \cup {cur[p]}
          /\ UNCHANGED <<disk, cache>>
      BY <1>2 DEF LogWriteAppend, Pin
    <2>2. cur[p] \in Blocks
      BY <1>0, <1>2 DEF LogWriteAppend, HoldInv
    <2>3. \A c \in Blocks : c # cur[p] => (Held(c)' <=> Held(c))
      BY <1>0, <2>1, LogConstants DEF Held
    <2>4. Held(cur[p])
      BY DEF Held
    <2> QED BY <1>0, <2>1, <2>2, <2>3, <2>4 DEF CacheInv
  <1>3. ASSUME NEW p \in Procs, WriteLog(p) PROVE CacheInv'
    <2>1. At("write_log")
      BY <1>3 DEF WriteLog, At
    <2>2. mode = "up" /\ ~At("install") /\ ~At("erase")
      BY <1>0, <1>3, CommitAlone DEF WriteLog, CommitPCs, Running
    <2>3. tail \in DOMAIN lh /\ lh[tail] \in Blocks
      BY <1>0, <2>1, LoggedData DEF LoopInv
    <2>4. lh[tail] \in dirty
      BY <1>0, <2>2, <2>3 DEF PhaseInv, Logged
    <2>5. View(lh[tail]) = cache[lh[tail]]
      BY <1>0, <2>3, <2>4 DEF CacheInv, View
    <2>6. UNCHANGED <<disk, cache, dirty, cur>>
      BY <1>0, <1>3, <2>5 DEF WriteLog, TypeOK
    <2> QED BY <1>a, <2>6
  <1>4. ASSUME tail <= Len(lh), Len(lh) <= NLOG - 1, InstallBlock,
               UNCHANGED cur
        PROVE  CacheInv'
    <2>1. /\ lh[tail] \in Blocks /\ logdata[tail] # NotCached
          /\ disk'[lh[tail]] = logdata[tail] /\ cache'[lh[tail]] = logdata[tail]
          /\ \A b \in Blocks : b # lh[tail] => disk'[b] = disk[b] /\ cache'[b] = cache[b]
          /\ dirty' = dirty \ {lh[tail]}
      BY <1>0, <1>4, InstallFacts
    <2>2. \A b \in Blocks : Held(b)' <=> Held(b)
      BY <1>4 DEF Held
    <2> QED BY <1>0, <2>1, <2>2 DEF CacheInv
  <1>5. ASSUME NEW p \in Procs, InstallTrans(p) PROVE CacheInv'
    <2>1. At("install")
      BY <1>5 DEF InstallTrans, At
    <2> QED BY <1>0, <1>4, <1>5, <2>1 DEF InstallTrans, LoopInv
  <1>6. CASE RecoverInstall
    BY <1>0, <1>4, <1>6 DEF RecoverInstall, LoopInv
  <1>7. ASSUME NEW b \in Blocks, Read(b) \/ Recycle(b) PROVE CacheInv'
    <2>1. UNCHANGED <<disk, dirty, cur>>
      BY <1>7 DEF Read, Recycle
    <2>2. \A c \in Blocks : Held(c)' <=> Held(c)
      BY <2>1 DEF Held
    <2>3. \A c \in Blocks : c # b => cache'[c] = cache[c]
      BY <1>0, <1>7 DEF Read, Recycle, TypeOK
    <2>4. CASE Read(b)
      <3>1. cache'[b] = disk[b] /\ disk[b] # NotCached
        BY <1>0, <2>4, LogConstants DEF Read, TypeOK
      <3> QED BY <1>0, <2>1, <2>2, <2>3, <3>1 DEF CacheInv
    <2>5. CASE Recycle(b)
      <3>1. cache'[b] = NotCached /\ b \notin dirty /\ ~Held(b)
        BY <1>0, <2>5 DEF Recycle, Held, TypeOK
      <3> QED BY <1>0, <2>1, <2>2, <2>3, <3>1 DEF CacheInv
    <2> QED BY <1>7, <2>4, <2>5
  <1>8. CASE Crash
    <2>1. \A b \in Blocks : ~Held(b)'
      BY <1>8, LogConstants DEF Crash, Held
    <2> QED BY <1>8, <2>1 DEF Crash, CacheInv
  <1>9. CASE UNCHANGED <<disk, cache, dirty, cur>>
    BY <1>a, <1>9
  <1> QED
    BY <1>1, <1>2, <1>3, <1>5, <1>6, <1>7, <1>8, <1>9
       DEF Next, BeginOp, LogWrite, LogWriteCheck, EndOp, Commit, WriteHead, EraseLog,
           EndCommit, Recover, ReadHead, RecoverClear, vars

\* Only a modification changes what reads see while the system is up.
LEMMA ViewUnchanged ==
  ASSUME LogInv, [Next]_vars, mode = "up", mode' = "up",
         ~ \E p \in Procs, b \in Blocks, v \in Data : Modify(p, b, v)
  PROVE  \A b \in Blocks : View(b)' = View(b)
  <1>0. /\ TypeInv /\ TypeOK /\ ControlInv /\ HoldInv /\ LoopInv /\ CacheInv /\ PhaseInv
    BY DEF LogInv, DataInv, TypeInv
  <1>1. ASSUME NEW p \in Procs, WriteLog(p) PROVE \A b \in Blocks : View(b)' = View(b)
    <2>1. At("write_log")
      BY <1>1 DEF WriteLog, At
    <2>2. lh[tail] \in Blocks /\ View(lh[tail]) \in Data
      BY <1>0, <2>1, LoggedData DEF LoopInv
    <2>3. cache'[lh[tail]] = View(lh[tail])
      BY <1>0, <1>1, <2>2 DEF WriteLog, TypeOK
    <2>4. \A b \in Blocks : b # lh[tail] => cache'[b] = cache[b]
      BY <1>0, <1>1 DEF WriteLog, TypeOK
    <2> QED BY <1>1, <2>2, <2>3, <2>4, LogConstants DEF WriteLog, View
  <1>2. ASSUME NEW p \in Procs, InstallTrans(p)
        PROVE  \A b \in Blocks : View(b)' = View(b)
    <2>1. At("install")
      BY <1>2 DEF InstallTrans, At
    <2>2. tail <= Len(lh) /\ Len(lh) <= NLOG - 1 /\ Copied(Len(lh))
      BY <1>0, <2>1 DEF LoopInv, PhaseInv
    <2>3. tail \in 1 .. Len(lh)
      BY <1>0, <2>2 DEF TypeOK
    <2>4. logdata[tail] = View(lh[tail])
      BY <2>2, <2>3 DEF Copied
    <2> QED BY <1>0, <1>2, <2>2, <2>4, InstallFacts DEF InstallTrans, View
  <1>3. ASSUME NEW c \in Blocks, Read(c) \/ Recycle(c)
        PROVE  \A b \in Blocks : View(b)' = View(b)
    <2>1. UNCHANGED disk
      BY <1>3 DEF Read, Recycle
    <2>2. \A b \in Blocks : b # c => cache'[b] = cache[b]
      BY <1>0, <1>3 DEF Read, Recycle, TypeOK
    <2>3. cache[c] = NotCached \/ cache[c] = disk[c]
      BY <1>0, <1>3 DEF Read, Recycle, CacheInv, Held
    <2>4. cache'[c] = disk[c] \/ cache'[c] = NotCached
      BY <1>0, <1>3 DEF Read, Recycle, TypeOK
    <2> QED BY <2>1, <2>2, <2>3, <2>4 DEF View
  <1>4. CASE UNCHANGED <<disk, cache>>
    BY <1>4 DEF View
  <1> QED
    BY <1>1, <1>2, <1>3, <1>4
       DEF Next, BeginOp, LogWrite, LogWriteCheck, LogWriteAppend, EndOp, Commit,
           WriteHead, EraseLog, EndCommit, Recover, ReadHead, RecoverInstall,
           RecoverClear, Crash, vars

\* A turn of install_trans's loop makes the installed prefix one longer.
LEMMA InstalledNext ==
  ASSUME TypeOK, Distinct(lh), Installed(tail - 1), tail \in 1 .. Len(lh),
         Len(lh) <= NLOG - 1, InstallBlock
  PROVE  \A i \in 1 .. tail : disk'[lh[i]] = logdata[i]
  <1>1. \A i \in 1 .. Len(lh) : lh[i] \in Blocks /\ (i # tail => lh[i] # lh[tail])
    BY DEF TypeOK, Distinct
  <1>2. /\ disk'[lh[tail]] = logdata[tail]
        /\ \A b \in Blocks : b # lh[tail] => disk'[b] = disk[b]
    BY InstallFacts
  <1>3. tail \in Nat \ {0} /\ Len(lh) \in Nat
    BY DEF TypeOK
  <1> SUFFICES ASSUME NEW i \in 1 .. tail PROVE disk'[lh[i]] = logdata[i]
    OBVIOUS
  <1>4. CASE i = tail
    BY <1>2, <1>4
  <1>5. CASE i # tail
    <2>1. i \in 1 .. (tail - 1) /\ i \in 1 .. Len(lh)
      BY <1>3, <1>5
    <2>2. lh[i] \in Blocks /\ lh[i] # lh[tail]
      BY <1>1, <1>5, <2>1
    <2>3. disk[lh[i]] = logdata[i]
      BY <2>1 DEF Installed
    <2> QED BY <1>2, <2>2, <2>3
  <1> QED BY <1>4, <1>5

LEMMA PhaseStep == LogInv /\ [Next]_vars => PhaseInv'
  <1> SUFFICES ASSUME LogInv, [Next]_vars PROVE PhaseInv'
    OBVIOUS
  <1>0. /\ TypeInv /\ TypeOK /\ ControlInv /\ HoldInv /\ LoopInv /\ CacheInv /\ PhaseInv
        /\ Distinct(lh) /\ Distinct(head) /\ pc \in [Procs -> PCs]
    BY DEF LogInv, DataInv, TypeInv, TypeOK
  <1>s. /\ lh \in Seq(Blocks) /\ head \in Seq(Blocks) /\ Len(lh) \in Nat
        /\ tail \in Nat \ {0}
    BY <1>0 DEF TypeOK
  <1>b. {"idle", "sleep", "woken", "op", "hold", "append"} \subseteq PCs \ CommitPCs
    BY DEF PCs, CommitPCs, OpPCs
  <1>a. ASSUME mode = "up", mode' = "up", \A m \in CommitPCs : ~At(m),
               \A m \in CommitPCs : ~At(m)', UNCHANGED head, dirty' = Logged(lh'),
               Active' = {} /\ ~committing' => lh' = <<>>
        PROVE  PhaseInv'
    BY <1>0, <1>a DEF PhaseInv, CommitPCs
  <1>1. ASSUME NEW p \in Procs, NEW l \in {"idle", "sleep", "woken", "op", "hold", "append"},
               pc[p] \notin CommitPCs, pc' = [pc EXCEPT ![p] = l],
               UNCHANGED <<disk, logdata, head, cache, dirty, lh, committing, tail, mode>>,
               l \in OpPCs \/ pc[p] \notin OpPCs
        PROVE  PhaseInv'
    <2>1. \A m \in CommitPCs : At(m)' <=> At(m)
      BY <1>0, <1>1, <1>b, AtUnchanged
    <2>2. Active' = {} => Active = {}
      BY <1>0, <1>1 DEF Active
    <2>3. /\ Logged(lh)' = Logged(lh)
          /\ \A n \in Int : (Copied(n)' <=> Copied(n)) /\ (Installed(n)' <=> Installed(n))
      BY <1>1 DEF Logged, Copied, Installed, View
    <2> QED BY <1>0, <1>s, <1>1, <2>1, <2>2, <2>3 DEF PhaseInv, CommitPCs
  <1>2. ASSUME NEW p \in Procs, BeginOp(p) PROVE PhaseInv'
    BY <1>1, <1>2 DEF BeginOp, OpPCs, CommitPCs
  <1>3. ASSUME NEW p \in Active, UNCHANGED <<head, mode>>,
               pc' = [pc EXCEPT ![p] = "op"] \/ pc' = [pc EXCEPT ![p] = "hold"],
               dirty' = Logged(lh')
        PROVE  PhaseInv'
    <2>1. mode = "up" /\ \A m \in CommitPCs : ~At(m)
      BY <1>0, <1>3, OperationAlone
    <2>2. p \in Procs /\ pc[p] \notin CommitPCs
      BY <1>3 DEF Active, OpPCs, CommitPCs
    <2>3. \A m \in CommitPCs : At(m)' <=> At(m)
      BY <1>0, <1>b, <1>3, <2>2, AtUnchanged
    <2>4. Active' # {}
      BY <1>0, <1>3, <2>2 DEF Active, OpPCs
    <2> QED BY <1>a, <1>3, <2>1, <2>3, <2>4
  <1>4. ASSUME NEW p \in Procs, NEW b \in Blocks, NEW v \in Data, Modify(p, b, v)
        PROVE  PhaseInv'
    <2>1. /\ p \in Active /\ UNCHANGED <<head, lh, dirty, mode>>
          /\ pc' = [pc EXCEPT ![p] = "hold"]
      BY <1>4 DEF Modify, Active, OpPCs
    <2>2. dirty = Logged(lh)
      BY <1>0, <2>1, OperationAlone DEF PhaseInv, CommitPCs
    <2> QED BY <1>3, <2>1, <2>2 DEF Logged
  <1>5. ASSUME NEW p \in Procs, LogWriteAppend(p) PROVE PhaseInv'
    <2>1. /\ p \in Active /\ UNCHANGED <<head, mode>>
          /\ pc' = [pc EXCEPT ![p] = "op"] /\ lh' = Absorb(cur[p])
          /\ dirty' = dirty \cup {cur[p]} /\ cur[p] # NoBlock
      BY <1>0, <1>5 DEF LogWriteAppend, Active, OpPCs, Pin, HoldInv
    <2>2. dirty = Logged(lh)
      BY <1>0, <2>1, OperationAlone DEF PhaseInv, CommitPCs
    <2>3. cur[p] \in Blocks
      BY <1>0, <1>5, <2>1 DEF TypeOK
    <2>4. Logged(lh') = Logged(lh) \cup {cur[p]}
      BY <1>s, <2>1, <2>3, LoggedAbsorb
    <2> QED BY <1>3, <2>1, <2>2, <2>4
  <1>6. ASSUME NEW p \in Procs, LogWriteCheck(p) PROVE PhaseInv'
    <2>1. p \in Active /\ UNCHANGED <<disk, logdata, head, cache, dirty, lh, committing, tail, mode>>
      BY <1>6 DEF LogWriteCheck, Active, OpPCs
    <2>2. CASE pc' = [pc EXCEPT ![p] = "append"]
      BY <1>1, <1>6, <2>1, <2>2 DEF LogWriteCheck, OpPCs, CommitPCs
    <2>3. CASE pc' = pc
      <3>1. /\ \A m \in CommitPCs : At(m)' <=> At(m)
            /\ Active' = Active
        BY <2>3 DEF At, Active
      <3>2. mode = "up" /\ \A m \in CommitPCs : ~At(m)
        BY <1>0, <2>1, OperationAlone
      <3>3. dirty' = Logged(lh')
        BY <1>0, <2>1, <3>2 DEF PhaseInv, CommitPCs, Logged
      <3> QED BY <1>a, <2>1, <3>1, <3>2, <3>3
    <2> QED BY <1>6, <2>2, <2>3 DEF LogWriteCheck
  <1>7. ASSUME NEW p \in Procs, EndOp(p) PROVE PhaseInv'
    <2>1. p \in Active /\ UNCHANGED <<disk, logdata, head, cache, dirty, lh, tail, mode>>
      BY <1>7 DEF EndOp, Active, OpPCs
    <2>2. /\ mode = "up" /\ ~committing /\ Committers = {} /\ tail = 1 /\ pc[p] \in OpPCs
          /\ head = <<>> /\ dirty = Logged(lh) /\ \A m \in CommitPCs : ~At(m)
      BY <1>0, <2>1, OperationAlone
         DEF PhaseInv, CommitPCs, ControlInv, LoopInv, Active
    <2>3. CASE outstanding = 1
      <3>1. pc' = [pc EXCEPT ![p] = IF lh = <<>> THEN "committed" ELSE "write_log"]
        BY <1>7, <2>2, <2>3 DEF EndOp
      <3>2. \A m \in CommitPCs :
               At(m)' => m \in {"committed", "write_log"}
        BY <1>0, <2>2, <3>1, AtMoves DEF PCs, CommitPCs
      <3>3. committing'
        BY <1>7, <2>2, <2>3 DEF EndOp
      <3>4. Copied(tail - 1)'
        BY <2>1, <2>2 DEF Copied
      <3>5. head' = <<>> /\ dirty' = Logged(lh')
        BY <2>1, <2>2 DEF Logged
      <3> QED BY <2>1, <2>2, <3>2, <3>3, <3>4, <3>5 DEF PhaseInv, CommitPCs
    <2>4. CASE outstanding # 1
      <3>1. WakeAndGo(p, "idle")
        BY <1>7, <2>2, <2>4 DEF EndOp
      <3>2. \A m \in CommitPCs : ~At(m)'
        BY <1>0, <2>2, <3>1, AtWakes DEF At
      <3>3. Active' # {}
        <4>1. Active # {p}
          BY <1>0, <2>4, FS_Singleton DEF ControlInv
        <4> QED BY <1>0, <2>1, <3>1, <4>1, ActiveWakes
      <3> QED BY <1>a, <2>1, <2>2, <3>2, <3>3
    <2> QED BY <2>3, <2>4
  <1>8. ASSUME NEW p \in Procs, Commit(p) PROVE PhaseInv'
    <2>1. /\ mode = "up" /\ mode' = "up" /\ pc[p] \in CommitPCs
          /\ UNCHANGED outstanding
      BY <1>8 DEF Commit, WriteLog, WriteHead, InstallTrans, EraseLog, EndCommit,
                  Running, CommitPCs
    <2>2. Committers \subseteq {p}
      BY <1>0, <2>1 DEF ControlInv, Committers
    <2>3. \A m \in CommitPCs : At(m) <=> pc[p] = m
      BY <2>2 DEF At, Committers
    <2>4. committing /\ Active = {}
      BY <1>0, <2>1 DEF ControlInv, Committers
    <2>5. \A b \in Blocks : View(b)' = View(b)
      <3>1. \A b \in Blocks, v \in Data, q \in Procs : ~Modify(q, b, v)
        BY <2>4 DEF Modify, Active, OpPCs
      <3> QED BY <2>1, <3>1, ViewUnchanged
    <2>6. ASSUME UNCHANGED lh
          PROVE  \A i \in 1 .. Len(lh) : View(lh[i])' = View(lh[i])
      <3>1. \A i \in 1 .. Len(lh) : lh[i] \in Blocks
        BY <1>s
      <3> QED BY <2>5, <2>6, <3>1 DEF View
    <2>7. CASE WriteLog(p)
      <3>1. /\ At("write_log") /\ ~At("install") /\ ~At("erase") /\ tail \in 1 .. Len(lh)
            /\ UNCHANGED <<lh, head, dirty, committing>>
        BY <1>0, <1>s, <2>3, <2>7 DEF WriteLog, LoopInv, CommitPCs
      <3>2. Copied(tail - 1) /\ head = <<>> /\ dirty = Logged(lh)
        BY <1>0, <2>1, <3>1 DEF PhaseInv
      <3>3. /\ logdata'[tail] = View(lh[tail])
            /\ \A i \in 1 .. tail - 1 : logdata'[i] = logdata[i]
        BY <1>0, <1>s, <2>7, LogConstants DEF WriteLog, TypeOK, LogSlots
      <3>4. \A i \in 1 .. tail : logdata'[i] = View(lh[i])'
        BY <1>s, <2>6, <3>1, <3>2, <3>3 DEF Copied
      <3>5. head' = <<>> /\ dirty' = Logged(lh') /\ committing'
        BY <2>4, <3>1, <3>2 DEF Logged
      <3>6. CASE LastTurn
        <4>1. \A m \in CommitPCs : At(m)' <=> m = "write_head"
          BY <1>0, <2>2, <2>7, <3>6, AtMoves DEF WriteLog, AfterWriteLog, PCs, CommitPCs
        <4>2. Copied(Len(lh))'
          BY <3>1, <3>4, <3>6 DEF LastTurn, Copied
        <4> QED BY <2>1, <3>5, <4>1, <4>2 DEF PhaseInv, CommitPCs
      <3>7. CASE ~LastTurn
        <4>1. \A m \in CommitPCs : At(m)' <=> At(m)
          BY <2>7, <3>7 DEF WriteLog, At
        <4>2. Copied(tail - 1)'
          BY <1>s, <2>7, <3>1, <3>4, <3>7 DEF WriteLog, Copied
        <4>3. ~At("write_head")
          BY <2>3, <2>7 DEF WriteLog, CommitPCs
        <4> QED BY <2>1, <3>1, <3>5, <4>1, <4>2, <4>3 DEF PhaseInv, CommitPCs
      <3> QED BY <3>6, <3>7
    <2>8. CASE WriteHead(p)
      <3>1. /\ At("write_head") /\ ~At("install") /\ ~At("erase") /\ tail = 1
            /\ UNCHANGED <<lh, tail, dirty, logdata, disk, committing>>
        BY <1>0, <2>1, <2>3, <2>8 DEF WriteHead, LoopInv, CommitPCs
      <3>2. Copied(Len(lh)) /\ dirty = Logged(lh)
        BY <1>0, <2>1, <3>1 DEF PhaseInv
      <3>3. \A m \in CommitPCs : At(m)' <=> m = "install"
        BY <1>0, <2>2, <2>8, AtMoves DEF WriteHead, PCs, CommitPCs
      <3>4. Copied(Len(lh))' /\ Installed(tail - 1)'
        BY <1>s, <2>6, <3>1, <3>2 DEF Copied, Installed
      <3>5. dirty' = {lh'[i] : i \in tail' .. Len(lh')}
        BY <1>s, <3>1, <3>2 DEF Logged
      <3> QED BY <2>1, <2>4, <3>1, <3>3, <3>4, <3>5 DEF PhaseInv, CommitPCs
    <2>9. CASE InstallTrans(p)
      <3>1. /\ At("install") /\ ~At("erase") /\ tail \in 1 .. Len(lh)
            /\ Len(lh) <= NLOG - 1
            /\ UNCHANGED <<lh, head, logdata, committing>> /\ InstallBlock
        BY <1>0, <1>s, <2>3, <2>9 DEF InstallTrans, LoopInv, CommitPCs
      <3>2. /\ Copied(Len(lh)) /\ Installed(tail - 1)
            /\ dirty = {lh[i] : i \in tail .. Len(lh)}
        BY <1>0, <2>1, <3>1 DEF PhaseInv
      <3>3. Copied(Len(lh))'
        BY <2>6, <3>1, <3>2 DEF Copied
      <3>4. \A i \in 1 .. tail : disk'[lh[i]] = logdata[i]
        BY <1>0, <1>s, <3>1, <3>2, InstalledNext
      <3>5. dirty' = {lh[i] : i \in tail + 1 .. Len(lh)}
        BY <1>0, <1>s, <3>1, <3>2 DEF InstallBlock, Distinct
      <3>6. CASE LastTurn
        <4>1. \A m \in CommitPCs : At(m)' <=> m = "erase"
          BY <1>0, <2>2, <2>9, <3>6, AtMoves DEF InstallTrans, PCs, CommitPCs
        <4>2. Installed(Len(lh))' /\ dirty' = {}
          BY <1>s, <3>1, <3>4, <3>5, <3>6 DEF LastTurn, Installed
        <4> QED BY <2>1, <2>4, <3>1, <3>3, <4>1, <4>2 DEF PhaseInv, CommitPCs
      <3>7. CASE ~LastTurn
        <4>1. \A m \in CommitPCs : At(m)' <=> At(m)
          BY <2>9, <3>7 DEF InstallTrans, At
        <4>2. tail' = tail + 1
          BY <2>9, <3>7 DEF InstallTrans
        <4>3. Installed(tail - 1)' /\ dirty' = {lh'[i] : i \in tail' .. Len(lh')}
          BY <1>s, <3>1, <3>4, <3>5, <4>2 DEF Installed
        <4>4. \A m \in CommitPCs : At(m)' <=> m = "install"
          BY <2>3, <2>9, <4>1 DEF InstallTrans
        <4> QED BY <2>1, <2>4, <3>1, <3>3, <4>3, <4>4 DEF PhaseInv, CommitPCs
      <3> QED BY <3>6, <3>7
    <2>10. CASE EraseLog(p)
      <3>1. \A m \in CommitPCs : At(m)' <=> m = "committed"
        BY <1>0, <2>2, <2>10, AtMoves DEF EraseLog, PCs, CommitPCs
      <3>2. At("erase") /\ lh' = <<>> /\ head' = <<>> /\ dirty' = dirty
        BY <2>3, <2>10 DEF EraseLog, CommitPCs
      <3>3. dirty' = Logged(lh')
        BY <1>0, <3>2 DEF PhaseInv, Logged
      <3> QED BY <2>1, <3>1, <3>2, <3>3 DEF PhaseInv, CommitPCs
    <2>11. CASE EndCommit(p)
      <3>1. \A m \in CommitPCs : ~At(m)'
        BY <1>0, <2>2, <2>11, AtWakes DEF EndCommit, Committers
      <3>2. /\ At("committed") /\ ~At("install") /\ ~At("erase")
            /\ UNCHANGED <<lh, head, dirty>>
        BY <2>3, <2>11 DEF EndCommit, CommitPCs
      <3>3. lh' = <<>> /\ head' = <<>> /\ dirty' = Logged(lh')
        BY <1>0, <2>1, <3>2 DEF PhaseInv, LoopInv, Logged
      <3> QED BY <2>1, <3>1, <3>3 DEF PhaseInv, CommitPCs
    <2> QED BY <1>8, <2>7, <2>8, <2>9, <2>10, <2>11 DEF Commit
  <1>9. CASE Crash
    <2>1. \A m \in CommitPCs : ~At(m)'
      BY <1>9 DEF Crash, At, CommitPCs
    <2> QED BY <1>9, <2>1 DEF Crash, PhaseInv, CommitPCs
  <1>10. CASE Recover
    <2>1. /\ mode # "up" /\ dirty = {} /\ UNCHANGED <<pc, committing, logdata>>
          /\ Active = {} /\ ~committing
      BY <1>0, <1>10 DEF Recover, ReadHead, RecoverInstall, RecoverClear, PhaseInv,
                         ControlInv
    <2>2. \A m \in CommitPCs : ~At(m)'
      BY <1>0, <2>1 DEF ControlInv, Committers, At
    <2>3. CASE ReadHead
      <3>1. /\ lh' = head /\ head' = head /\ tail' = 1 /\ dirty' = {}
            /\ mode' = IF head = <<>> THEN "clear" ELSE "install"
        BY <1>0, <2>1, <2>3, CommitAlone
           DEF ReadHead, AfterReadHead, LoopInv, ControlInv, At, Committers, CommitPCs
      <3>2. Installed(tail - 1)'
        BY <3>1 DEF Installed
      <3>3. head = <<>> => Installed(Len(lh))'
        BY <3>1 DEF Installed
      <3> QED BY <2>2, <3>1, <3>2, <3>3 DEF PhaseInv, CommitPCs
    <2>4. CASE RecoverInstall
      <3>1. /\ Installed(tail - 1) /\ tail \in 1 .. Len(lh) /\ Len(lh) <= NLOG - 1
            /\ lh' = lh /\ InstallBlock /\ logdata' = logdata
        BY <1>0, <1>s, <2>4 DEF RecoverInstall, PhaseInv, LoopInv
      <3>2. \A i \in 1 .. tail : disk'[lh[i]] = logdata[i]
        BY <1>0, <1>s, <3>1, InstalledNext
      <3>3. dirty' = {}
        BY <2>1, <3>1 DEF InstallBlock
      <3>4. CASE LastTurn
        <4>1. mode' = "clear" /\ Installed(Len(lh))'
          BY <2>4, <3>1, <3>2, <3>4 DEF RecoverInstall, LastTurn, Installed
        <4> QED BY <2>2, <3>3, <4>1 DEF PhaseInv, CommitPCs
      <3>5. CASE ~LastTurn
        <4>1. mode' = "install" /\ tail' = tail + 1
          BY <2>4, <3>5 DEF RecoverInstall, TailNext
        <4>2. Installed(tail - 1)'
          BY <1>s, <3>1, <3>2, <4>1 DEF Installed
        <4> QED BY <2>2, <3>3, <4>1, <4>2 DEF PhaseInv, CommitPCs
      <3> QED BY <3>4, <3>5
    <2>5. CASE RecoverClear
      <3>1. mode' = "up" /\ lh' = <<>> /\ head' = <<>> /\ dirty' = {}
        BY <2>1, <2>5 DEF RecoverClear
      <3>2. dirty' = Logged(lh')
        BY <3>1 DEF Logged
      <3> QED BY <2>2, <3>1, <3>2 DEF PhaseInv, CommitPCs
    <2> QED BY <1>10, <2>3, <2>4, <2>5 DEF Recover
  <1>11. ASSUME UNCHANGED <<disk, logdata, head, dirty, lh, committing, tail, mode, pc>>,
                mode = "up" => \A b \in Blocks : View(b)' = View(b)
         PROVE  PhaseInv'
    <2>1. /\ Active' = Active /\ Logged(lh)' = Logged(lh)
          /\ \A m \in CommitPCs : At(m)' <=> At(m)
          /\ \A n \in Int : Installed(n)' <=> Installed(n)
      BY <1>11 DEF Active, Logged, At, Installed
    <2>2. \A i \in 1 .. Len(lh) : lh[i] \in Blocks
      BY <1>s
    <2>3. \A i \in 1 .. Len(lh) : mode = "up" => View(lh[i])' = View(lh[i])
      BY <1>11, <2>2 DEF View
    <2>4. \A n \in Int : n <= Len(lh) /\ mode = "up" => (Copied(n)' <=> Copied(n))
      BY <1>11, <2>3, <1>s DEF Copied
    <2>5. \A m \in CommitPCs : At(m) => mode = "up"
      BY <1>0 DEF ControlInv, Committers, At
    <2>6. At("write_log") => tail - 1 <= Len(lh)
      BY <1>0, <1>s DEF LoopInv
    <2> QED BY <1>0, <1>s, <1>11, <2>1, <2>4, <2>5, <2>6 DEF PhaseInv, CommitPCs
  <1>12. ASSUME NEW b \in Blocks, Read(b) \/ Recycle(b) PROVE PhaseInv'
    <2>1. /\ UNCHANGED <<disk, logdata, head, dirty, lh, committing, tail, mode, pc>>
          /\ mode = "up" /\ UNCHANGED cur
      BY <1>12 DEF Read, Recycle, Running
    <2>2. \A c \in Blocks, v \in Data, q \in Procs : ~Modify(q, c, v)
      BY <2>1, <1>0 DEF Modify, TypeOK
    <2> QED BY <1>11, <2>1, <2>2, ViewUnchanged
  <1>13. CASE UNCHANGED vars
    BY <1>11, <1>13 DEF vars, View
  <1> QED
    BY <1>2, <1>4, <1>5, <1>6, <1>7, <1>8, <1>9, <1>10, <1>12, <1>13
       DEF Next, LogWrite

\* The log's data invariant holds in every reachable state.
THEOREM LogInvariant == Spec => []LogInv
  <1>1. Init => LogInv
    BY TypeInit, DataInit DEF LogInv
  <1>2. LogInv /\ [Next]_vars => LogInv'
    <2>1. LogInv /\ [Next]_vars => TypeInv'
      BY TypeStep, ControlStep, LoopStep, HoldStep DEF LogInv, TypeInv
    <2>2. LogInv /\ [Next]_vars => DataInv'
      BY DistinctStep, CacheStep, PhaseStep DEF DataInv
    <2> QED BY <2>1, <2>2 DEF LogInv
  <1> QED BY <1>1, <1>2, PTL DEF Spec

-----------------------------------------------------------------------------
(* The properties of the runs, for every value of the constants.           *)

\* B_DIRTY pins exactly the blocks the log will write while operations run.
THEOREM PinnedAreLogged == Spec => []PinnedIsLogged
  <1>1. LogInv => PinnedIsLogged
    <2> SUFFICES ASSUME LogInv, mode = "up", ~committing PROVE dirty = Logged(lh)
      BY DEF PinnedIsLogged
    <2>1. \A m \in CommitPCs : ~At(m)
      BY DEF LogInv, TypeInv, ControlInv, Committers, At
    <2> QED BY <2>1 DEF LogInv, DataInv, PhaseInv, CommitPCs
  <1> QED BY LogInvariant, <1>1, PTL

\* install_trans and the recovery write a home block only under a header on
\* disk that names it: the write-ahead rule.
THEOREM WritesAhead == Spec => WriteAhead
  <1>1. LogInv /\ [Next]_vars =>
            [\A b \in Blocks : disk'[b] # disk[b] => b \in Logged(head)]_vars
    <2> SUFFICES ASSUME LogInv, [Next]_vars, NEW b \in Blocks, disk'[b] # disk[b]
                 PROVE  b \in Logged(head)
      OBVIOUS
    <2>0. TypeOK /\ LoopInv /\ lh \in Seq(Blocks) /\ tail \in Nat \ {0}
      BY DEF LogInv, TypeInv, TypeOK
    <2>1. ASSUME InstallBlock, tail <= Len(lh), lh = head PROVE b \in Logged(head)
      <3>1. b = lh[tail]
        BY <2>0, <2>1 DEF InstallBlock, TypeOK
      <3> QED BY <2>0, <2>1, <3>1 DEF Logged
    <2>2. ASSUME NEW p \in Procs, InstallTrans(p) PROVE b \in Logged(head)
      <3>1. At("install")
        BY <2>2 DEF InstallTrans, At
      <3> QED BY <2>0, <2>1, <2>2, <3>1 DEF InstallTrans, LoopInv
    <2>3. CASE RecoverInstall
      BY <2>0, <2>1, <2>3 DEF RecoverInstall, LoopInv
    <2>4. CASE UNCHANGED disk
      BY <2>4
    <2> QED
      BY <2>2, <2>3, <2>4
         DEF Next, BeginOp, Modify, LogWrite, LogWriteCheck, LogWriteAppend, EndOp,
             Commit, WriteLog, WriteHead, EraseLog, EndCommit, Read, Recycle, Crash,
             diskVars, Recover, ReadHead, RecoverClear, vars
  <1> QED BY LogInvariant, <1>1, PTL DEF Spec, WriteAhead

\* What a restart would find for a block, by cases.
LEMMA DurableIs ==
  ASSUME head \in Seq(Blocks), Distinct(head)
  PROVE  /\ DOMAIN Durable = Blocks
         /\ \A i \in 1 .. Len(head) : Durable[head[i]] = logdata[i]
         /\ \A b \in Blocks : b \notin Logged(head) => Durable[b] = disk[b]
  <1>1. ASSUME NEW i \in 1 .. Len(head) PROVE Durable[head[i]] = logdata[i]
    <2>1. head[i] \in Blocks /\ head[i] \in Logged(head) /\ i \in DOMAIN head
      BY DEF Logged
    <2>2. i = CHOOSE j \in DOMAIN head : head[j] = head[i]
      BY <2>1 DEF Distinct
    <2> QED BY <2>1, <2>2 DEF Durable
  <1> QED BY <1>1 DEF Durable

\* Outside install_trans everything the kernel sees but the pinned and held
\* buffers is on disk.
LEMMA ViewIsDisk ==
  ASSUME LogInv, NEW b \in Blocks, b \notin dirty, ~Held(b)
  PROVE  View(b) = disk[b]
  BY DEF LogInv, DataInv, CacheInv, View

\* A group of operations is on disk once the last end_op has returned.
THEOREM GroupsAreDurable == Spec => []QuiescentDurable
  <1>1. LogInv => QuiescentDurable
    <2> SUFFICES ASSUME LogInv, mode = "up", outstanding = 0, ~committing
                 PROVE  Mem = Durable
      BY DEF QuiescentDurable
    <2>1. Active = {}
      BY ActiveFinite, FS_EmptySet DEF LogInv, TypeInv, ControlInv
    <2>2. \A m \in CommitPCs : ~At(m)
      BY DEF LogInv, TypeInv, ControlInv, Committers, At
    <2>3. lh = <<>> /\ head = <<>> /\ dirty = Logged(lh)
      BY <2>1, <2>2 DEF LogInv, DataInv, PhaseInv, CommitPCs
    <2>4. dirty = {} /\ Logged(head) = {}
      BY <2>3 DEF Logged
    <2>5. \A b \in Blocks : View(b) = disk[b]
      BY <2>1, <2>4, NobodyHolds, ViewIsDisk DEF LogInv
    <2> QED BY <2>4, <2>5 DEF Mem, Durable
  <1> QED BY LogInvariant, <1>1, PTL

-----------------------------------------------------------------------------
(* The refinement.                                                         *)

LEMMA DurableUnchanged ==
  ASSUME UNCHANGED <<head, logdata>>,
         \A b \in Blocks : b \notin Logged(head) => disk'[b] = disk[b]
  PROVE  Durable' = Durable
  BY DEF Durable, Logged

LEMMA DurableEmpty ==
  /\ head = <<>> => Durable = [b \in Blocks |-> disk[b]]
  /\ head' = <<>> => Durable' = [b \in Blocks |-> disk'[b]]
  BY DEF Durable, Logged

LEMMA RefinementInit == Init => T!Init
  <1> SUFFICES ASSUME Init PROVE T!Init
    OBVIOUS
  <1>1. Durable = disk
    BY DurableEmpty DEF Init
  <1>2. Mem = Durable
    BY DEF Init, Mem
  <1>3. Active = {}
    BY DEF Init, Active, OpPCs
  <1> QED BY <1>1, <1>2, <1>3 DEF Init, T!Init

\* The commit point: writing the header makes durable what reads see.
LEMMA CommitPoint ==
  ASSUME LogInv, NEW p \in Procs, WriteHead(p)
  PROVE  Durable' = Mem /\ Mem' = Mem
  <1>1. At("write_head") /\ mode = "up" /\ mode' = "up" /\ UNCHANGED <<disk, logdata, cache>>
    BY DEF WriteHead, At, Running
  <1>2. Active = {} /\ ~At("install") /\ ~At("erase")
    BY CommitAlone DEF LogInv, TypeInv, WriteHead, CommitPCs
  <1>3. Copied(Len(lh)) /\ dirty = Logged(lh) /\ Distinct(lh) /\ lh \in Seq(Blocks)
    BY <1>1, <1>2 DEF LogInv, DataInv, PhaseInv, TypeInv, TypeOK
  <1>4. head' = lh
    BY DEF WriteHead
  <1>5. ASSUME NEW b \in Blocks PROVE Durable'[b] = View(b)
    <2>1. CASE b \in Logged(lh)
      <3>1. PICK i \in 1 .. Len(lh) : lh[i] = b
        BY <1>3, <2>1 DEF Logged
      <3>2. i = CHOOSE j \in DOMAIN lh : lh[j] = b
        BY <1>3, <3>1 DEF Distinct
      <3>3. Durable'[b] = logdata[i]
        BY <1>1, <1>4, <2>1, <3>2 DEF Durable, Logged
      <3> QED BY <1>3, <3>1, <3>3 DEF Copied
    <2>2. CASE b \notin Logged(lh)
      <3>1. Durable'[b] = disk[b]
        BY <1>1, <1>4, <2>2 DEF Durable, Logged
      <3> QED BY <1>2, <1>3, <2>2, <3>1, NobodyHolds, ViewIsDisk DEF LogInv
    <2> QED BY <2>1, <2>2
  <1>6. Durable' = [b \in Blocks |-> View(b)]
    BY <1>5 DEF Durable
  <1> QED BY <1>1, <1>6 DEF Mem, View

\* Clearing an installed log changes nothing a restart would find.
LEMMA ClearedIsDurable ==
  ASSUME LogInv, Installed(Len(lh)), lh = head, head' = <<>>, disk' = disk
  PROVE  Durable' = Durable
  <1>1. head \in Seq(Blocks) /\ Distinct(head)
    BY DEF LogInv, DataInv, TypeInv, TypeOK
  <1>2. ASSUME NEW b \in Blocks PROVE Durable[b] = disk[b]
    <2>1. CASE b \in Logged(head)
      <3>1. PICK i \in 1 .. Len(head) : head[i] = b
        BY <1>1, <2>1 DEF Logged
      <3> QED BY <1>1, <3>1, DurableIs DEF Installed
    <2>2. CASE b \notin Logged(head)
      BY <1>1, <2>2, DurableIs
    <2> QED BY <2>1, <2>2
  <1>3. Durable = [b \in Blocks |-> disk[b]]
    BY <1>2 DEF Durable
  <1> QED BY <1>3, DurableEmpty

LEMMA RefinementStep == LogInv /\ [Next]_vars => [T!Next]_(T!vars)
  <1> SUFFICES ASSUME LogInv, [Next]_vars PROVE [T!Next]_(T!vars)
    OBVIOUS
  <1>0. /\ TypeInv /\ TypeOK /\ ControlInv /\ LoopInv /\ PhaseInv /\ HoldInv
        /\ pc \in [Procs -> PCs] /\ Distinct(head) /\ head \in Seq(Blocks)
    BY DEF LogInv, DataInv, TypeInv, TypeOK
  <1>s. ASSUME Mem' = Mem, Durable' = Durable, Active' = Active
        PROVE  [T!Next]_(T!vars)
    BY <1>s DEF T!vars
  \* A step of the running system that modifies no buffer and no disk block.
  <1>a. ASSUME mode = "up", UNCHANGED <<mode, disk, logdata, head, cache>>
        PROVE  Mem' = Mem /\ Durable' = Durable
    BY <1>a, DurableUnchanged DEF Mem, View
  <1>1. ASSUME NEW p \in Procs, BeginOp(p) PROVE [T!Next]_(T!vars)
    <2>1. /\ mode = "up" /\ pc[p] \notin OpPCs
          /\ UNCHANGED <<mode, disk, logdata, head, cache>>
      BY <1>1 DEF BeginOp, Running, OpPCs
    <2>2. Mem' = Mem /\ Durable' = Durable
      BY <1>a, <2>1
    <2>3. CASE LogBusy
      <3>1. Active' = Active
        BY <1>0, <1>1, <2>1, <2>3 DEF BeginOp, Active, OpPCs
      <3> QED BY <1>s, <2>2, <3>1
    <2>4. CASE ~LogBusy
      <3>1. p \notin Active /\ Active' = Active \cup {p}
        BY <1>0, <1>1, <2>1, <2>4 DEF BeginOp, Active, OpPCs
      <3>2. T!Begin(p)
        BY <2>2, <3>1 DEF T!Begin
      <3> QED BY <3>2 DEF T!Next
    <2> QED BY <2>3, <2>4
  <1>2. ASSUME NEW p \in Procs, NEW b \in Blocks, NEW v \in Data, Modify(p, b, v)
        PROVE  [T!Next]_(T!vars)
    <2>1. /\ mode = "up" /\ pc[p] = "op" /\ UNCHANGED <<mode, disk, logdata, head>>
          /\ cache' = [cache EXCEPT ![b] = v] /\ pc' = [pc EXCEPT ![p] = "hold"]
      BY <1>2 DEF Modify, Running
    <2>2. p \in Active /\ Active' = Active
      BY <1>0, <2>1 DEF Active, OpPCs
    <2>3. Durable' = Durable
      BY <2>1, DurableUnchanged
    <2>4. Mem = [c \in Blocks |-> View(c)] /\ Mem' = [c \in Blocks |-> View(c)']
      BY <2>1 DEF Mem
    <2>5. \A c \in Blocks : View(c)' = IF c = b THEN v ELSE View(c)
      BY <1>0, <2>1, LogConstants DEF View, TypeOK
    <2>6. Mem' = [Mem EXCEPT ![b] = v]
      BY <2>4, <2>5
    <2>7. T!Write(p, b, v)
      BY <2>2, <2>3, <2>6 DEF T!Write
    <2> QED BY <2>7 DEF T!Next
  <1>3. ASSUME NEW p \in Procs, LogWrite(p) PROVE [T!Next]_(T!vars)
    <2>1. mode = "up" /\ UNCHANGED <<mode, disk, logdata, head, cache>>
      BY <1>3 DEF LogWrite, LogWriteCheck, LogWriteAppend, Running
    <2>2. Active' = Active
      BY <1>0, <1>3 DEF LogWrite, LogWriteCheck, LogWriteAppend, Active, OpPCs
    <2> QED BY <1>a, <1>s, <2>1, <2>2
  <1>4. ASSUME NEW p \in Procs, EndOp(p) PROVE [T!Next]_(T!vars)
    <2>1. /\ mode = "up" /\ UNCHANGED <<mode, disk, logdata, head, cache>>
          /\ p \in Active
      BY <1>4 DEF EndOp, Running, Active, OpPCs
    <2>2. ~committing
      BY <1>0, <2>1, OperationAlone
    <2>3. Active' = Active \ {p}
      <3>1. pc'[p] \notin OpPCs /\ \A q \in Procs \ {p} : pc'[q] \in OpPCs <=> pc[q] \in OpPCs
        BY <1>0, <1>4, <2>2 DEF EndOp, WakeAndGo, OpPCs
      <3> QED BY <3>1 DEF Active
    <2>4. T!End(p)
      BY <1>a, <2>1, <2>3 DEF T!End
    <2> QED BY <2>4 DEF T!Next
  <1>5. ASSUME NEW p \in Procs, Commit(p) PROVE [T!Next]_(T!vars)
    <2>1. /\ mode = "up" /\ mode' = "up" /\ pc[p] \in CommitPCs
      BY <1>5 DEF Commit, WriteLog, WriteHead, InstallTrans, EraseLog, EndCommit,
                  Running, CommitPCs
    <2>2. Active = {} /\ \A m \in CommitPCs : At(m) <=> pc[p] = m
      BY <1>0, <2>1, CommitAlone
    <2>3. Active' = Active
      BY <1>0, <1>5, <2>2 DEF Active, Commit, WriteLog, WriteHead, InstallTrans,
             EraseLog, EndCommit, WakeAndGo, OpPCs, AfterWriteLog
    <2>4. Mem' = Mem
      <3>1. \A b \in Blocks, v \in Data, q \in Procs : ~Modify(q, b, v)
        BY <2>2 DEF Modify, Active, OpPCs
      <3>2. \A b \in Blocks : View(b)' = View(b)
        BY <2>1, <3>1, ViewUnchanged
      <3> QED BY <2>1, <3>2 DEF Mem
    <2>5. CASE WriteLog(p)
      <3>1. head = <<>> /\ head' = <<>> /\ disk' = disk
        BY <1>0, <2>1, <2>2, <2>5 DEF WriteLog, PhaseInv, CommitPCs
      <3>2. Durable' = Durable
        BY <3>1, DurableEmpty
      <3> QED BY <1>s, <2>3, <2>4, <3>2
    <2>6. CASE WriteHead(p)
      <3>1. T!Commit
        BY <2>2, <2>3, <2>6, CommitPoint DEF T!Commit
      <3> QED BY <3>1 DEF T!Next
    <2>7. CASE InstallTrans(p)
      <3>1. /\ UNCHANGED <<head, logdata>> /\ lh = head /\ tail \in DOMAIN lh
            /\ disk' = [disk EXCEPT ![lh[tail]] = logdata[tail]]
        <4>1. At("install")
          BY <2>7 DEF InstallTrans, At
        <4> QED BY <1>0, <2>7, <4>1, LoggedData DEF InstallTrans, InstallBlock, LoopInv
      <3>2. \A b \in Blocks : b \notin Logged(head) => disk'[b] = disk[b]
        BY <1>0, <3>1 DEF Logged, TypeOK
      <3>3. Durable' = Durable
        BY <3>1, <3>2, DurableUnchanged
      <3> QED BY <1>s, <2>3, <2>4, <3>3
    <2>8. CASE EraseLog(p)
      <3>1. At("erase") /\ head' = <<>> /\ disk' = disk
        BY <2>8 DEF EraseLog, At
      <3>2. Installed(Len(lh)) /\ lh = head
        BY <1>0, <3>1 DEF PhaseInv, LoopInv
      <3>3. Durable' = Durable
        BY <3>1, <3>2, ClearedIsDurable DEF LogInv
      <3> QED BY <1>s, <2>3, <2>4, <3>3
    <2>9. CASE EndCommit(p)
      BY <1>a, <1>s, <2>1, <2>3, <2>9 DEF EndCommit
    <2> QED BY <1>5, <2>5, <2>6, <2>7, <2>8, <2>9 DEF Commit
  <1>6. ASSUME NEW b \in Blocks, Read(b) \/ Recycle(b) PROVE [T!Next]_(T!vars)
    <2>1. mode = "up" /\ mode' = "up" /\ UNCHANGED <<disk, logdata, head, pc, cur>>
      BY <1>6 DEF Read, Recycle, Running
    <2>2. \A c \in Blocks, v \in Data, q \in Procs : ~Modify(q, c, v)
      BY <2>1, <1>0 DEF Modify, TypeOK
    <2>3. Mem' = Mem
      <3>1. \A c \in Blocks : View(c)' = View(c)
        BY <2>1, <2>2, ViewUnchanged
      <3> QED BY <2>1, <3>1 DEF Mem
    <2>4. Durable' = Durable /\ Active' = Active
      BY <2>1, DurableUnchanged DEF Active
    <2> QED BY <1>s, <2>3, <2>4
  <1>7. CASE Crash
    <2>1. Durable' = Durable
      BY <1>7, DurableUnchanged DEF Crash, diskVars
    <2>2. Mem' = Durable /\ Active' = {}
      BY <1>7, <2>1 DEF Crash, Mem, Active, OpPCs
    <2>3. T!Crash
      BY <2>1, <2>2 DEF T!Crash
    <2> QED BY <2>3 DEF T!Next
  <1>8. CASE Recover
    <2>2. mode # "up" /\ Active = {} /\ UNCHANGED pc /\ dirty = {}
      BY <1>0, <1>8 DEF Recover, ReadHead, RecoverInstall, RecoverClear, PhaseInv,
                        ControlInv
    <2>3. Active' = Active
      BY <2>2 DEF Active
    <2>4. Mem = Durable
      BY <2>2 DEF Mem
    <2>5. CASE ReadHead
      <3>1. mode' # "up" /\ Durable' = Durable
        BY <2>5, DurableUnchanged DEF ReadHead, AfterReadHead
      <3> QED BY <1>s, <2>3, <2>4, <3>1 DEF Mem
    <2>6. CASE RecoverInstall
      <3>1. /\ UNCHANGED <<head, logdata>> /\ lh = head /\ tail \in DOMAIN lh
            /\ disk' = [disk EXCEPT ![lh[tail]] = logdata[tail]] /\ mode' # "up"
        BY <1>0, <2>6, LoggedData DEF RecoverInstall, InstallBlock, LoopInv
      <3>2. \A b \in Blocks : b \notin Logged(head) => disk'[b] = disk[b]
        BY <1>0, <3>1 DEF Logged, TypeOK
      <3>3. Durable' = Durable
        BY <3>1, <3>2, DurableUnchanged
      <3> QED BY <1>s, <2>3, <2>4, <3>1, <3>3 DEF Mem
    <2>7. CASE RecoverClear
      <3>1. /\ mode = "clear" /\ head' = <<>> /\ mode' = "up"
            /\ UNCHANGED <<disk, cache>>
        BY <2>7 DEF RecoverClear
      <3>2. Installed(Len(lh)) /\ lh = head
        BY <1>0, <3>1 DEF PhaseInv, LoopInv
      <3>3. Durable' = Durable
        BY <3>1, <3>2, ClearedIsDurable DEF LogInv
      <3>4. \A b \in Blocks : View(b) = disk[b]
        BY <1>0, <2>2, NobodyHolds, ViewIsDisk
      <3>5. Mem' = [b \in Blocks |-> disk[b]]
        BY <3>1, <3>4 DEF Mem, View
      <3>6. Durable' = [b \in Blocks |-> disk[b]]
        BY <3>1, DurableEmpty
      <3> QED BY <1>s, <2>3, <2>4, <3>3, <3>5, <3>6
    <2> QED BY <1>8, <2>5, <2>6, <2>7 DEF Recover
  <1>9. CASE UNCHANGED vars
    <2>1. Active' = Active /\ Mem' = Mem /\ Durable' = Durable
      BY <1>9 DEF vars, Active, Mem, View, Durable, Logged
    <2> QED BY <1>s, <2>1
  <1> QED
    BY <1>1, <1>2, <1>3, <1>4, <1>5, <1>6, <1>7, <1>8, <1>9 DEF Next

\* The log implements atomic group commit: every behaviour of begin_op,
\* log_write, end_op, the cache, crashes and recovery is one of Transactions.
THEOREM LogIsAtomic == Spec => Atomic
  <1> QED BY LogInvariant, RefinementInit, RefinementStep, PTL DEF Spec, Atomic, T!Spec
=============================================================================
