----------------------------- MODULE PipeProofs -----------------------------
(***************************************************************************)
(* Proofs about Pipe: for any number of processes at either end, any size  *)
(* of the ring and any width of the counters that the size divides, the    *)
(* pipe is the stream of bytes that Stream describes.                      *)
(***************************************************************************)
EXTENDS Pipe, Remainders, SequenceTheorems, TLAPS

\* Who has left has closed; the last one at an end closes it.
OpenInv ==
    /\ \A p \in Procs : p \notin open <=> pc[p] \in {"close", "gone"}
    /\ \A p \in Procs : pc[p] = "close" => \A q \in End(p) : q # p => pc[q] = "gone"
    /\ writeopen <=> \E p \in Writers : pc[p] # "gone"
    /\ readopen <=> \E p \in Readers : pc[p] # "gone"
    /\ freed <=> ~readopen /\ ~writeopen

\* Who is in pipewrite has the writing end, and who is in piperead the other.
RoleInv ==
    \A p \in Procs : /\ pc[p] \in {"write", "wdoze", "wsleep"} => p \in Writers
                     /\ pc[p] \in {"read", "rdoze", "rsleep"} => p \in Readers

\* p->lock is held across steps by the process on its way to sleep.
LockInv ==
    /\ lock \in Procs => pc[lock] \in {"wdoze", "rdoze"}
    /\ \A p \in Procs : pc[p] \in {"wdoze", "rdoze"} => lock = p

\* SleepersWait, from the test on.
DozeInv ==
    /\ \A p \in Writers : pc[p] \in {"wdoze", "wsleep"} => readopen /\ Room = 0
    /\ killed \cap Writers = {} =>
           \A p \in Readers : pc[p] \in {"rdoze", "rsleep"} => writeopen /\ Used = 0

PipeInv == TypeOK /\ OpenInv /\ RoleInv /\ LockInv /\ DozeInv
-----------------------------------------------------------------------------
(* The ring.                                                               *)

\* A place in the ring is the same before and after a counter wraps.
LEMMA PlaceOfWrapped ==
    ASSUME NEW a \in Int, NEW b \in Int
    PROVE  ((a % WRAP) + b) % PIPESIZE = (a + b) % PIPESIZE
<1>1. PIPESIZE \in Nat \ {0} /\ WRAP \in Nat \ {0} /\ WRAP % PIPESIZE = 0
  BY PipeConstants
<1> QED BY <1>1, WrappedPlace

LEMMA UsedFacts ==
    ASSUME TypeOK
    PROVE  /\ Used = IF nread <= nwrite THEN nwrite - nread ELSE (nwrite - nread) + WRAP
           /\ Used \in 0 .. PIPESIZE /\ Room = PIPESIZE - Used /\ Room \in 0 .. PIPESIZE
           /\ Contents \in Seq(Bytes) /\ Len(Contents) = Used
<1>1. /\ WRAP \in Nat \ {0} /\ PIPESIZE \in Nat \ {0} /\ WRAP > PIPESIZE
      /\ nread \in 0 .. WRAP - 1 /\ nwrite \in 0 .. WRAP - 1
  BY PipeConstants DEF TypeOK
<1> DEFINE a == nwrite - nread
<1>2. a \in Int /\ a \in -WRAP .. WRAP - 1 /\ (a >= 0 <=> nread <= nwrite)
  BY <1>1
<1> HIDE DEF a
<1>3. a % WRAP = IF a >= 0 THEN a ELSE a + WRAP
  <2>1. CASE a >= 0
    <3>1. a \in 0 .. WRAP - 1
      BY <1>1, <1>2, <2>1
    <3> QED BY <1>1, <1>2, <2>1, <3>1, ModSmall
  <2>2. CASE ~(a >= 0)
    <3>1. a \in -WRAP .. -1
      BY <1>1, <1>2, <2>2
    <3> QED BY <1>1, <1>2, <2>2, <3>1, ModSmall
  <2> QED BY <2>1, <2>2
<1>4. Used = IF nread <= nwrite THEN nwrite - nread ELSE (nwrite - nread) + WRAP
  BY <1>2, <1>3 DEF a, Used
<1>5. Used \in 0 .. PIPESIZE /\ Room = PIPESIZE - Used /\ Room \in 0 .. PIPESIZE
  BY <1>1, <1>4 DEF TypeOK, Room, Size
<1>6. ASSUME NEW j \in 1 .. Used PROVE data[At(nread + j - 1)] \in Bytes
  <2>1. nread + j - 1 \in Int
    BY <1>1, <1>5
  <2>2. At(nread + j - 1) \in 0 .. PIPESIZE - 1
    BY <1>1, <2>1, DivMod DEF At
  <2> QED BY <2>2 DEF TypeOK
<1> QED BY <1>4, <1>5, <1>6 DEF Contents

\* A write appends to the bytes in the pipe, wherever in the ring they lie.
LEMMA FillAppends ==
    ASSUME TypeOK, NEW p \in Writers, Fill(p)
    PROVE  /\ Filled(p) \in 0 .. Room /\ Filled(p) <= Len(buf[p])
           /\ Filled(p) = Len(buf[p]) \/ Filled(p) = Room
           /\ nwrite' \in 0 .. WRAP - 1 /\ data' \in [0 .. PIPESIZE - 1 -> Bytes]
           /\ Used' = Used + Filled(p) /\ Room' = Room - Filled(p)
           /\ Contents' = Contents \o SubSeq(buf[p], 1, Filled(p))
<1> DEFINE f == Filled(p)
<1>1. /\ WRAP \in Nat \ {0} /\ PIPESIZE \in Nat \ {0} /\ WRAP > PIPESIZE
      /\ nread \in 0 .. WRAP - 1 /\ nwrite \in 0 .. WRAP - 1
  BY PipeConstants DEF TypeOK
<1>2. buf[p] \in Seq(Bytes) /\ Len(buf[p]) \in Nat
  BY DEF TypeOK
<1>3. /\ Used = IF nread <= nwrite THEN nwrite - nread ELSE (nwrite - nread) + WRAP
      /\ Used \in 0 .. PIPESIZE /\ Room = PIPESIZE - Used /\ Room \in 0 .. PIPESIZE
      /\ Contents \in Seq(Bytes) /\ Len(Contents) = Used
  BY UsedFacts
<1>4. f \in 0 .. Room /\ f <= Len(buf[p]) /\ (f = Len(buf[p]) \/ f = Room)
  BY <1>2, <1>3 DEF Filled, Smaller
<1>5. /\ nread' = nread /\ nwrite' = (nwrite + f) % WRAP
      /\ data' = [i \in 0 .. PIPESIZE - 1 |->
                    LET j == ((i - nwrite) % PIPESIZE) + 1
                    IN  IF j <= f THEN buf[p][j] ELSE data[i]]
  BY DEF Fill, TypeOK
<1> HIDE DEF f
<1>6. nwrite' \in 0 .. WRAP - 1
  <2>1. nwrite + f \in Int
    BY <1>1, <1>3, <1>4
  <2> QED BY <1>1, <1>5, <2>1, DivMod
<1>7. data' \in [0 .. PIPESIZE - 1 -> Bytes]
  <2>1. ASSUME NEW i \in 0 .. PIPESIZE - 1
        PROVE  data'[i] \in Bytes
    <3> DEFINE j == ((i - nwrite) % PIPESIZE) + 1
    <3>1. i - nwrite \in Int
      BY <1>1
    <3>2. j \in 1 .. PIPESIZE
      BY <1>1, <3>1, DivMod
    <3>3. data'[i] = IF j <= f THEN buf[p][j] ELSE data[i]
      BY <1>5
    <3> HIDE DEF j
    <3>4. j <= f => buf[p][j] \in Bytes
      BY <1>2, <1>4, <3>2
    <3> QED BY <3>3, <3>4 DEF TypeOK
  <2> QED BY <1>5, <2>1
<1>8. Used' = Used + f
  <2>1. Used' = (((nwrite + f) % WRAP) - nread) % WRAP
    BY <1>5 DEF Used
  <2>2. ((nwrite + f) % WRAP) + (-nread) = ((nwrite + f) % WRAP) - nread
    BY <1>1, <1>5, <1>6
  <2>3. nwrite + f \in Int /\ -nread \in Int /\ nwrite - nread \in Int /\ f \in Int
    BY <1>1, <1>3, <1>4
  <2>4. (((nwrite + f) % WRAP) + (-nread)) % WRAP = ((nwrite + f) + (-nread)) % WRAP
    BY <1>1, <2>3, ModAdd
  <2>5. (((nwrite - nread) % WRAP) + f) % WRAP = ((nwrite - nread) + f) % WRAP
    BY <1>1, <2>3, ModAdd
  <2>6. (nwrite + f) + (-nread) = (nwrite - nread) + f
    BY <1>1, <2>3
  <2>7. Used' = (Used + f) % WRAP
    BY <2>1, <2>2, <2>4, <2>5, <2>6 DEF Used
  <2>8. Used + f \in 0 .. WRAP - 1
    BY <1>1, <1>3, <1>4
  <2> QED BY <1>1, <2>7, <2>8, ModSmall
<1>9. Room' = Room - f
  BY <1>1, <1>3, <1>4, <1>8 DEF Room, Size
<1>10. Contents' = Contents \o SubSeq(buf[p], 1, f)
  <2> DEFINE s == SubSeq(buf[p], 1, f)
  <2>1. s \in Seq(Bytes) /\ Len(s) = f /\ \A j \in 1 .. f : s[j] = buf[p][j]
    <3>1. \A j \in 1 .. f : buf[p][j] \in Bytes
      BY <1>2, <1>4
    <3>2. 1 \in Int /\ f \in Int
      BY <1>3, <1>4
    <3>3. /\ s \in Seq(Bytes) /\ Len(s) = (IF 1 <= f THEN f - 1 + 1 ELSE 0)
          /\ \A j \in 1 .. f - 1 + 1 : s[j] = buf[p][1 + j - 1]
      BY <3>1, <3>2, SubSeqProperties
    <3> QED BY <1>3, <1>4, <3>3
  <2> HIDE DEF s
  <2>2. Contents' = [j \in 1 .. Used + f |-> data'[At(nread + j - 1)]]
    BY <1>5, <1>8 DEF Contents, At
  <2>3. ASSUME NEW j \in 1 .. Used + f
        PROVE  data'[At(nread + j - 1)] = IF j <= Used THEN Contents[j] ELSE s[j - Used]
    <3> DEFINE a == nread + j - 1  i == a % PIPESIZE  d == j - 1 - Used
    <3>1. a \in Int /\ d \in -PIPESIZE .. PIPESIZE - 1 /\ d \in Int /\ -nwrite \in Int
      BY <1>1, <1>3, <1>4
    <3>2. i \in 0 .. PIPESIZE - 1
      BY <1>1, <3>1, DivMod
    <3>3. (i - nwrite) % PIPESIZE = d % PIPESIZE
      <4>1. (i + (-nwrite)) % PIPESIZE = (a + (-nwrite)) % PIPESIZE
        BY <1>1, <3>1, ModAdd
      <4>2. i + (-nwrite) = i - nwrite
        BY <1>1, <3>2
      <4>3. CASE nread <= nwrite
        <5>1. a + (-nwrite) = d
          BY <1>1, <1>3, <4>3
        <5> QED BY <4>1, <4>2, <5>1
      <4>4. CASE ~(nread <= nwrite)
        <5>1. a + (-nwrite) = WRAP + d
          BY <1>1, <1>3, <4>4
        <5>2. (WRAP + d) % PIPESIZE = d % PIPESIZE
          <6>1. WRAP = PIPESIZE * (WRAP \div PIPESIZE) + (WRAP % PIPESIZE) /\ WRAP \div PIPESIZE \in Int
            BY <1>1, DivMod
          <6>2. WRAP % PIPESIZE = 0
            BY PipeConstants
          <6> DEFINE k == WRAP \div PIPESIZE
          <6>3. k \in Int /\ WRAP = PIPESIZE * k
            BY <1>1, <6>1, <6>2
          <6> HIDE DEF k
          <6>4. (PIPESIZE * k + d) % PIPESIZE = d % PIPESIZE
            BY <1>1, <3>1, <6>3, ModShift
          <6> QED BY <6>3, <6>4
        <5> QED BY <4>1, <4>2, <5>1, <5>2
      <4> QED BY <4>3, <4>4
    <3>4. d % PIPESIZE = IF j <= Used THEN d + PIPESIZE ELSE d
      <4>1. CASE j <= Used
        <5>1. d \in -PIPESIZE .. -1
          BY <1>1, <1>3, <4>1
        <5> QED BY <1>1, <3>1, <4>1, <5>1, ModSmall
      <4>2. CASE ~(j <= Used)
        <5>1. d \in 0 .. PIPESIZE - 1
          BY <1>1, <1>3, <3>1, <4>2
        <5> QED BY <1>1, <3>1, <4>2, <5>1, ModSmall
      <4> QED BY <4>1, <4>2
    <3>5. data'[i] = LET m == (d % PIPESIZE) + 1 IN IF m <= f THEN buf[p][m] ELSE data[i]
      BY <1>5, <3>2, <3>3
    <3>6. CASE j <= Used
      <4>1. ~((d % PIPESIZE) + 1 <= f)
        BY <1>1, <1>3, <1>4, <3>4, <3>6
      <4>2. data'[i] = data[i]
        BY <3>5, <4>1
      <4>3. Contents[j] = data[i]
        BY <1>3, <3>6 DEF Contents, At
      <4> QED BY <3>6, <4>2, <4>3 DEF At
    <3>7. CASE ~(j <= Used)
      <4>1. (d % PIPESIZE) + 1 = j - Used /\ j - Used \in 1 .. f
        BY <1>1, <1>3, <1>4, <3>4, <3>7
      <4>2. data'[i] = buf[p][j - Used]
        BY <1>3, <1>4, <3>5, <4>1
      <4> QED BY <2>1, <3>7, <4>1, <4>2 DEF At
    <3> QED BY <3>6, <3>7
  <2>4. Contents' = [j \in 1 .. Used + f |-> IF j <= Used THEN Contents[j] ELSE s[j - Used]]
    BY <2>2, <2>3
  <2>5. /\ Contents \o s \in Seq(Bytes) /\ Len(Contents \o s) = Used + f
        /\ \A j \in 1 .. Used + f :
              (Contents \o s)[j] = IF j <= Used THEN Contents[j] ELSE s[j - Used]
    <3>1. Contents \in Seq(Bytes) /\ s \in Seq(Bytes)
      BY <1>3, <2>1
    <3>2. /\ Contents \o s \in Seq(Bytes)
          /\ Len(Contents \o s) = Len(Contents) + Len(s)
          /\ \A i \in 1 .. Len(Contents) + Len(s) :
                (Contents \o s)[i] = IF i <= Len(Contents) THEN Contents[i] ELSE s[i - Len(Contents)]
      BY <3>1, ConcatProperties, Zenon
    <3> QED BY <1>3, <2>1, <3>2
  <2>6. Used + f \in Nat
    BY <1>3, <1>4
  <2>7. \A j \in 1 .. Used + f : Contents'[j] = (Contents \o s)[j] /\ Contents'[j] \in Bytes
    <3> SUFFICES ASSUME NEW j \in 1 .. Used + f
                 PROVE  Contents'[j] = (Contents \o s)[j] /\ Contents'[j] \in Bytes
      OBVIOUS
    <3>1. (Contents \o s)[j] \in Bytes
      BY <2>5, <2>6
    <3> QED BY <2>4, <2>5, <3>1
  <2>8. Contents' \in Seq(Bytes) /\ Len(Contents') = Used + f
    BY <2>4, <2>6, <2>7
  <2> QED BY <2>5, <2>7, <2>8, SeqEqual DEF s
<1> QED BY <1>4, <1>6, <1>7, <1>8, <1>9, <1>10 DEF f

\* A read takes the first of them.
LEMMA ReadTakes ==
    ASSUME TypeOK, NEW p \in Readers, ReadDone(p)
    PROVE  /\ Taken(p) \in 0 .. Used /\ (Taken(p) = want[p] \/ Taken(p) = Used)
           /\ nread' \in 0 .. WRAP - 1
           /\ Used' = Used - Taken(p) /\ Room' = Room + Taken(p)
           /\ res' = [res EXCEPT ![p] = SubSeq(Contents, 1, Taken(p))]
           /\ SubSeq(Contents, 1, Taken(p)) \in Seq(Bytes)
           /\ Contents' = SubSeq(Contents, Taken(p) + 1, Len(Contents))
<1> DEFINE t == Taken(p)
<1>1. /\ WRAP \in Nat \ {0} /\ PIPESIZE \in Nat \ {0} /\ WRAP > PIPESIZE
      /\ nread \in 0 .. WRAP - 1 /\ nwrite \in 0 .. WRAP - 1
  BY PipeConstants DEF TypeOK
<1>2. want[p] \in Nat
  BY PipeConstants DEF TypeOK
<1>3. /\ Used \in 0 .. PIPESIZE /\ Room = PIPESIZE - Used
      /\ Contents \in Seq(Bytes) /\ Len(Contents) = Used
  BY UsedFacts
<1>4. t \in 0 .. Used /\ (t = want[p] \/ t = Used) /\ t \in Int
  BY <1>2, <1>3 DEF Taken, Smaller
<1>5. /\ nread' = (nread + t) % WRAP /\ UNCHANGED <<nwrite, data>>
      /\ res' = [res EXCEPT ![p] = [j \in 1 .. t |-> data[At(nread + j - 1)]]]
  BY DEF ReadDone
<1> HIDE DEF t
<1>6. nread + t \in Int /\ nwrite - nread \in Int /\ -t \in Int
  BY <1>1, <1>4
<1>7. nread' \in 0 .. WRAP - 1
  BY <1>1, <1>5, <1>6, DivMod
<1>8. Used' = Used - t
  <2>1. Used' = (nwrite - ((nread + t) % WRAP)) % WRAP
    BY <1>5 DEF Used
  <2>2. (nwrite - ((nread + t) % WRAP)) % WRAP = (nwrite - (nread + t)) % WRAP
    BY <1>1, <1>6, ModSub
  <2>3. nwrite - (nread + t) = (nwrite - nread) + (-t)
    BY <1>1, <1>4
  <2>4. (((nwrite - nread) % WRAP) + (-t)) % WRAP = ((nwrite - nread) + (-t)) % WRAP
    BY <1>1, <1>6, ModAdd
  <2>5. Used' = (Used + (-t)) % WRAP
    BY <2>1, <2>2, <2>3, <2>4 DEF Used
  <2>6. Used + (-t) \in 0 .. WRAP - 1 /\ Used + (-t) = Used - t
    BY <1>1, <1>3, <1>4
  <2> QED BY <1>1, <2>5, <2>6, ModSmall
<1>9. Room' = Room + t
  BY <1>1, <1>3, <1>4, <1>8 DEF Room, Size
<1>10. \A j \in 1 .. Used : Contents[j] = data[At(nread + j - 1)] /\ Contents[j] \in Bytes
  BY <1>3 DEF Contents
<1>11. /\ [j \in 1 .. t |-> data[At(nread + j - 1)]] = SubSeq(Contents, 1, t)
       /\ SubSeq(Contents, 1, t) \in Seq(Bytes)
  <2> DEFINE s == SubSeq(Contents, 1, t)  r == [j \in 1 .. t |-> data[At(nread + j - 1)]]
  <2>1. \A j \in 1 .. t : j \in 1 .. Used
    BY <1>3, <1>4
  <2>2. s \in Seq(Bytes) /\ Len(s) = t /\ \A j \in 1 .. t : s[j] = Contents[j]
    <3>1. 1 \in Int /\ \A j \in 1 .. t : Contents[j] \in Bytes
      BY <1>10, <2>1
    <3>2. /\ s \in Seq(Bytes) /\ Len(s) = (IF 1 <= t THEN t - 1 + 1 ELSE 0)
          /\ \A j \in 1 .. t - 1 + 1 : s[j] = Contents[1 + j - 1]
      BY <1>4, <3>1, SubSeqProperties
    <3> QED BY <1>3, <1>4, <3>2
  <2> HIDE DEF s
  <2>3. \A j \in 1 .. t : r[j] = s[j] /\ r[j] \in Bytes
    BY <1>10, <2>1, <2>2
  <2>4. t \in Nat
    BY <1>3, <1>4
  <2>5. r \in Seq(Bytes) /\ Len(r) = t
    BY <2>3, <2>4
  <2>6. r = s
    BY <2>2, <2>3, <2>5, SeqEqual
  <2> QED BY <2>2, <2>6 DEF s
<1>12. Contents' = SubSeq(Contents, t + 1, Len(Contents))
  <2> DEFINE s == SubSeq(Contents, t + 1, Len(Contents))
  <2>1. /\ s \in Seq(Bytes) /\ Len(s) = Used - t
        /\ \A j \in 1 .. Used - t : s[j] = Contents[t + j]
    <3>1. t + 1 \in Int /\ Used \in Int /\ \A j \in t + 1 .. Used : Contents[j] \in Bytes
      BY <1>3, <1>4, <1>10
    <3>2. /\ s \in Seq(Bytes)
          /\ Len(s) = (IF t + 1 <= Used THEN Used - (t + 1) + 1 ELSE 0)
          /\ \A j \in 1 .. Used - (t + 1) + 1 : s[j] = Contents[(t + 1) + j - 1]
      BY <1>3, <3>1, SubSeqProperties
    <3> QED BY <1>3, <1>4, <3>2
  <2> HIDE DEF s
  <2>2. Contents' = [j \in 1 .. Used - t |-> data[At(nread' + j - 1)]]
    BY <1>5, <1>8 DEF Contents, At
  <2>3. ASSUME NEW j \in 1 .. Used - t
        PROVE  Contents'[j] = s[j] /\ Contents'[j] \in Bytes
    <3>1. j - 1 \in Int /\ nread' + j - 1 = ((nread + t) % WRAP) + (j - 1)
      BY <1>1, <1>3, <1>4, <1>5, <1>7
    <3>2. (((nread + t) % WRAP) + (j - 1)) % PIPESIZE = ((nread + t) + (j - 1)) % PIPESIZE
      BY <1>6, <3>1, PlaceOfWrapped
    <3>3. (nread + t) + (j - 1) = nread + (t + j) - 1 /\ t + j \in 1 .. Used
      BY <1>1, <1>3, <1>4
    <3>4. At(nread' + j - 1) = At(nread + (t + j) - 1)
      BY <3>1, <3>2, <3>3 DEF At
    <3> QED BY <1>10, <2>1, <2>2, <3>3, <3>4
  <2>4. Used - t \in Nat
    BY <1>3, <1>4
  <2>5. Contents' \in Seq(Bytes) /\ Len(Contents') = Used - t
    BY <2>2, <2>3, <2>4
  <2> QED BY <2>1, <2>3, <2>5, SeqEqual DEF s
<1> QED BY <1>4, <1>5, <1>7, <1>8, <1>9, <1>11, <1>12 DEF t
-----------------------------------------------------------------------------
(* The invariant.                                                          *)

LEMMA WakeType ==
    ASSUME NEW f \in [Procs -> PCs], NEW from \in PCs, NEW to \in PCs
    PROVE  Wake(f, from, to) \in [Procs -> PCs]
  BY DEF Wake

LEMMA TypeStep ==
    PipeInv /\ [Next]_vars => TypeOK'
<1> SUFFICES ASSUME PipeInv, [Next]_vars PROVE TypeOK'
    OBVIOUS
<1>0. TypeOK /\ RoleInv /\ LockInv /\ OpenInv
  BY DEF PipeInv
<1>1. WakeReaders(pc) \in [Procs -> PCs] /\ WakeWriters(pc) \in [Procs -> PCs]
  BY <1>0, WakeType DEF WakeReaders, WakeWriters, TypeOK, PCs, Writing, Reading
<1>2. Writers \subseteq Procs /\ Readers \subseteq Procs
  BY DEF Procs
<1>3. PIPESIZE \in Nat /\ WRAP \in Nat /\ MaxN \in Nat
  BY PipeConstants
<1>4. ASSUME UNCHANGED <<nread, nwrite>> PROVE Used' = Used
  BY <1>4 DEF Used
<1>5. ASSUME NEW p \in Writers, StartWrite(p) PROVE TypeOK'
  <2>1. PICK s \in Texts : buf' = [buf EXCEPT ![p] = s]
    BY <1>5 DEF StartWrite
  <2>2. s \in Seq(Bytes)
    BY PipeConstants
  <2> QED BY <1>0, <1>2, <1>4, <1>5, <2>1, <2>2 DEF StartWrite, pipeVars, TypeOK, PCs, Writing, Reading
<1>6. ASSUME NEW p \in Writers, Fill(p), buf' \in [Writers -> Seq(Bytes)],
             pc' \in [Procs -> PCs], lock' \in Procs \cup {Nobody}, wrote' \subseteq Writers
      PROVE  TypeOK'
  <2>1. /\ nwrite' \in 0 .. WRAP - 1 /\ data' \in [0 .. PIPESIZE - 1 -> Bytes]
        /\ Used' <= PIPESIZE
    <3>1. Filled(p) \in 0 .. Room /\ Used' = Used + Filled(p)
      BY <1>0, <1>6, FillAppends
    <3>2. Used \in 0 .. PIPESIZE /\ Room = PIPESIZE - Used
      BY <1>0, UsedFacts
    <3>3. Used' <= PIPESIZE
      BY <1>3, <3>1, <3>2
    <3> QED BY <1>0, <1>6, <3>3, FillAppends
  <2> QED BY <1>0, <1>6, <2>1 DEF Fill, TypeOK
<1>7. ASSUME NEW p \in Writers, WriteDone(p) PROVE TypeOK'
  <2>1. /\ Fill(p) /\ UNCHANGED lock /\ wrote' = wrote \cup {p}
        /\ buf' = [buf EXCEPT ![p] = <<>>] /\ pc' = [WakeReaders(pc) EXCEPT ![p] = "idle"]
    BY <1>7 DEF WriteDone
  <2>2. buf' \in [Writers -> Seq(Bytes)] /\ wrote' \subseteq Writers
    BY <1>0, <2>1 DEF TypeOK
  <2>3. pc' \in [Procs -> PCs] /\ lock' \in Procs \cup {Nobody}
    BY <1>0, <1>1, <1>2, <2>1 DEF TypeOK, PCs
  <2> QED BY <1>6, <2>1, <2>2, <2>3
<1>8. ASSUME NEW p \in Writers, WriteFull(p) PROVE TypeOK'
  <2>1. Filled(p) \in 0 .. Room /\ Filled(p) <= Len(buf[p])
    BY <1>0, <1>8, FillAppends DEF WriteFull
  <2>2. Rest(p) \in Seq(Bytes)
    <3>1. buf[p] \in Seq(Bytes) /\ Filled(p) \in Nat
      BY <1>0, <2>1, UsedFacts DEF TypeOK
    <3>2. \A j \in Filled(p) + 1 .. Len(buf[p]) : buf[p][j] \in Bytes
      BY <3>1
    <3>3. Filled(p) + 1 \in Int /\ Len(buf[p]) \in Int
      BY <3>1
    <3> QED BY <3>2, <3>3, SubSeqProperties DEF Rest
  <2>3. /\ buf' \in [Writers -> Seq(Bytes)] /\ pc' \in [Procs -> PCs] /\ lock' \in Procs
        /\ wrote' \subseteq Writers
    BY <1>0, <1>1, <1>2, <1>8, <2>2 DEF WriteFull, TypeOK, PCs, Writing, Reading
  <2> QED BY <1>6, <1>8, <2>3 DEF WriteFull
<1>9. ASSUME NEW p \in Writers, WriteFail(p) PROVE TypeOK'
  <2>1. /\ Fill(p) /\ UNCHANGED <<lock, wrote>>
        /\ buf' = [buf EXCEPT ![p] = <<>>] /\ pc' = [pc EXCEPT ![p] = "idle"]
    BY <1>9 DEF WriteFail
  <2>2. /\ buf' \in [Writers -> Seq(Bytes)] /\ pc' \in [Procs -> PCs]
        /\ lock' \in Procs \cup {Nobody} /\ wrote' \subseteq Writers
    BY <1>0, <1>2, <2>1 DEF TypeOK, PCs, Writing, Reading
  <2> QED BY <1>6, <2>1, <2>2
<1>10. ASSUME NEW p \in Readers, StartRead(p) PROVE TypeOK'
  BY <1>0, <1>2, <1>3, <1>4, <1>10 DEF StartRead, pipeVars, TypeOK, PCs, Writing, Reading
<1>11. ASSUME NEW p \in Readers, ReadDone(p) PROVE TypeOK'
  <2>1. /\ nread' \in 0 .. WRAP - 1 /\ res' \in [Readers -> Seq(Bytes) \cup {Failed}]
        /\ Used' <= PIPESIZE
    <3>1. Used \in 0 .. PIPESIZE
      BY <1>0, UsedFacts
    <3>2. /\ Taken(p) \in 0 .. Used /\ nread' \in 0 .. WRAP - 1 /\ Used' = Used - Taken(p)
          /\ res' = [res EXCEPT ![p] = SubSeq(Contents, 1, Taken(p))]
          /\ SubSeq(Contents, 1, Taken(p)) \in Seq(Bytes)
      BY <1>0, <1>11, ReadTakes
    <3>3. Used' <= PIPESIZE
      BY <1>3, <3>1, <3>2
    <3>4. res' \in [Readers -> Seq(Bytes) \cup {Failed}]
      BY <1>0, <3>2 DEF TypeOK
    <3> QED BY <3>2, <3>3, <3>4
  <2> QED BY <1>0, <1>1, <1>2, <1>3, <1>11, <2>1 DEF ReadDone, TypeOK, PCs, Writing, Reading
<1>12. ASSUME NEW p \in Readers, ReadFail(p) PROVE TypeOK'
  BY <1>0, <1>2, <1>3, <1>4, <1>12 DEF ReadFail, pipeVars, TypeOK, PCs, Writing, Reading
<1>13. ASSUME NEW p \in Readers, ReadEmpty(p) PROVE TypeOK'
  BY <1>0, <1>2, <1>3, <1>4, <1>13 DEF ReadEmpty, pipeVars, TypeOK, PCs, Writing, Reading
<1>14. ASSUME NEW p \in Procs, Sleep(p) PROVE TypeOK'
  BY <1>0, <1>4, <1>14 DEF Sleep, pipeVars, TypeOK, PCs, Writing, Reading
<1>15. ASSUME NEW p \in Procs, Close(p) PROVE TypeOK'
  BY <1>0, <1>4, <1>15 DEF Close, pipeVars, TypeOK, PCs, Writing, Reading
<1>16. ASSUME NEW p \in Procs, PipeClose(p) PROVE TypeOK'
  BY <1>0, <1>1, <1>4, <1>16 DEF PipeClose, TypeOK, PCs, Writing, Reading
<1>17. ASSUME NEW p \in Procs, Kill(p) PROVE TypeOK'
  BY <1>0, <1>4, <1>17 DEF Kill, pipeVars, TypeOK, PCs, Writing, Reading
<1>18. CASE PipeAlloc
  <2>1. Used' = 0
    BY <1>18, PipeConstants, ModSmall DEF PipeAlloc, Used
  <2>2. killed' \subseteq Killable /\ 0 \in 0 .. WRAP - 1 /\ 0 <= PIPESIZE
    BY <1>18, PipeConstants DEF PipeAlloc
  <2>3. /\ pc' \in [Procs -> PCs] /\ res' \in [Readers -> Seq(Bytes) \cup {Failed}]
        /\ buf' \in [Writers -> Seq(Bytes)] /\ want' \in [Readers -> 0 .. MaxN]
    BY <1>3, <1>18 DEF PipeAlloc, PCs, Writing, Reading
  <2> QED BY <1>0, <1>18, <2>1, <2>2, <2>3 DEF PipeAlloc, TypeOK
<1>19. CASE UNCHANGED vars
  BY <1>0, <1>4, <1>19 DEF vars, TypeOK
<1> QED BY <1>5, <1>7, <1>8, <1>9, <1>10, <1>11, <1>12, <1>13, <1>14, <1>15, <1>16, <1>17, <1>18, <1>19
        DEF Next, User, Write, Read

\* Steps other than those that close leave alone who has closed.
LEMMA Stay ==
    TypeOK /\ LockInv /\ [Next]_vars =>
        \/ PipeAlloc
        \/ \E p \in Procs : Close(p) \/ PipeClose(p)
        \/ /\ UNCHANGED <<open, readopen, writeopen, freed>>
           /\ \A q \in Procs : pc[q] \in {"close", "gone"} \/ pc'[q] \in {"close", "gone"}
                                  => pc'[q] = pc[q]
<1> SUFFICES ASSUME TypeOK, LockInv, [Next]_vars, ~PipeAlloc,
                    \A p \in Procs : ~Close(p) /\ ~PipeClose(p)
             PROVE  /\ UNCHANGED <<open, readopen, writeopen, freed>>
                    /\ \A q \in Procs : pc[q] \in {"close", "gone"} \/ pc'[q] \in {"close", "gone"}
                                           => pc'[q] = pc[q]
    OBVIOUS
<1>1. pc \in [Procs -> PCs] /\ Writers \subseteq Procs /\ Readers \subseteq Procs
  BY DEF TypeOK, Procs
<1>2. ASSUME NEW p \in Writers, Write(p)
      PROVE  /\ UNCHANGED <<open, readopen, writeopen, freed>>
             /\ \A q \in Procs : pc[q] \in {"close", "gone"} \/ pc'[q] \in {"close", "gone"}
                                    => pc'[q] = pc[q]
  <2>1. UNCHANGED <<open, readopen, writeopen, freed>> /\ pc[p] = "write"
    BY <1>2 DEF Write, WriteDone, WriteFull, WriteFail, Fill, InWrite
  <2>2. \/ pc' = [WakeReaders(pc) EXCEPT ![p] = "idle"]
        \/ pc' = [WakeReaders(pc) EXCEPT ![p] = "wdoze"]
        \/ pc' = [pc EXCEPT ![p] = "idle"]
    BY <1>2 DEF Write, WriteDone, WriteFull, WriteFail
  <2> QED BY <1>1, <2>1, <2>2 DEF WakeReaders, Wake
<1>3. ASSUME NEW p \in Readers, Read(p)
      PROVE  /\ UNCHANGED <<open, readopen, writeopen, freed>>
             /\ \A q \in Procs : pc[q] \in {"close", "gone"} \/ pc'[q] \in {"close", "gone"}
                                    => pc'[q] = pc[q]
  <2>1. UNCHANGED <<open, readopen, writeopen, freed>> /\ pc[p] = "read"
    BY <1>3 DEF Read, ReadDone, ReadFail, ReadEmpty, InRead, pipeVars
  <2>2. \/ pc' = [WakeWriters(pc) EXCEPT ![p] = "idle"]
        \/ pc' = [pc EXCEPT ![p] = "rdoze"]
        \/ pc' = [pc EXCEPT ![p] = "idle"]
    BY <1>3 DEF Read, ReadDone, ReadFail, ReadEmpty
  <2> QED BY <1>1, <2>1, <2>2 DEF WakeWriters, Wake
<1>4. ASSUME NEW p \in Procs, User(p)
      PROVE  /\ UNCHANGED <<open, readopen, writeopen, freed>>
             /\ \A q \in Procs : pc[q] \in {"close", "gone"} \/ pc'[q] \in {"close", "gone"}
                                    => pc'[q] = pc[q]
  BY <1>1, <1>4 DEF User, StartWrite, StartRead, Holds, pipeVars
<1>5. ASSUME NEW p \in Procs, Sleep(p)
      PROVE  /\ UNCHANGED <<open, readopen, writeopen, freed>>
             /\ \A q \in Procs : pc[q] \in {"close", "gone"} \/ pc'[q] \in {"close", "gone"}
                                    => pc'[q] = pc[q]
  BY <1>1, <1>5 DEF Sleep, pipeVars, LockInv
<1>6. ASSUME NEW p \in Procs, Kill(p)
      PROVE  /\ UNCHANGED <<open, readopen, writeopen, freed>>
             /\ \A q \in Procs : pc[q] \in {"close", "gone"} \/ pc'[q] \in {"close", "gone"}
                                    => pc'[q] = pc[q]
  BY <1>1, <1>6 DEF Kill, pipeVars
<1> QED BY <1>2, <1>3, <1>4, <1>5, <1>6 DEF Next, vars

LEMMA OpenStep ==
    PipeInv /\ [Next]_vars => OpenInv'
<1> SUFFICES ASSUME PipeInv, [Next]_vars PROVE OpenInv'
    OBVIOUS
<1>0. TypeOK /\ OpenInv /\ LockInv
  BY DEF PipeInv
<1>1. /\ pc \in [Procs -> PCs] /\ Writers \subseteq Procs /\ Readers \subseteq Procs
      /\ Writers \cap Readers = {} /\ Writers # {} /\ Readers # {}
  BY <1>0, PipeConstants DEF TypeOK, Procs
<1>2. /\ \A p \in Writers : End(p) = Writers
      /\ \A p \in Readers : End(p) = Readers
      /\ \A p \in Procs : End(p) \subseteq Procs
      /\ \A p, q \in Procs : q \in End(p) => End(q) = End(p)
  BY <1>1 DEF End, Procs
<1>3. ASSUME UNCHANGED <<open, readopen, writeopen, freed>>,
             \A q \in Procs : pc[q] \in {"close", "gone"} \/ pc'[q] \in {"close", "gone"}
                                 => pc'[q] = pc[q]
      PROVE  OpenInv'
  <2>1. \A q \in Procs : /\ pc'[q] = "gone" <=> pc[q] = "gone"
                         /\ pc'[q] = "close" <=> pc[q] = "close"
    BY <1>3
  <2> QED BY <1>0, <1>1, <1>2, <1>3, <2>1 DEF OpenInv, End
<1>4. ASSUME NEW p \in Procs, Close(p) PROVE OpenInv'
  <2>1. /\ p \in open /\ pc[p] = "idle" /\ open' = open \ {p}
        /\ UNCHANGED <<readopen, writeopen, freed>>
        /\ pc' = [pc EXCEPT ![p] = IF IsLast(p) THEN "close" ELSE "gone"]
    BY <1>4 DEF Close, pipeVars
  <2>2. \A q \in Procs : q # p => pc'[q] = pc[q]
    BY <1>1, <2>1
  <2>3. \A q \in Procs : p \in End(q) => pc[q] # "close"
    BY <1>0, <1>2, <2>1 DEF OpenInv
  <2>4. CASE IsLast(p)
    <3>1. pc'[p] = "close"
      BY <1>1, <2>1, <2>4
    <3>2. \A q \in End(p) : q # p => pc[q] = "gone"
      BY <1>0, <1>2, <2>1, <2>3, <2>4 DEF IsLast, OpenInv
    <3>3. \A q \in Procs : q \notin open' <=> pc'[q] \in {"close", "gone"}
      BY <1>0, <2>1, <2>2, <3>1 DEF OpenInv
    <3>4. ASSUME NEW r \in Procs, pc'[r] = "close", NEW q \in End(r), q # r PROVE pc'[q] = "gone"
      <4>1. CASE r = p
        BY <1>2, <2>2, <3>2, <3>4, <4>1
      <4>2. CASE r # p
        <5>1. pc[r] = "close" /\ pc[q] = "gone" /\ q # p
          BY <1>0, <1>2, <2>1, <2>2, <3>4, <4>2 DEF OpenInv
        <5> QED BY <1>2, <2>2, <5>1
      <4> QED BY <4>1, <4>2
    <3>5. \A q \in Procs : pc'[q] = "gone" <=> pc[q] = "gone"
      BY <2>1, <2>2, <3>1
    <3> QED BY <1>0, <1>1, <1>2, <2>1, <3>3, <3>4, <3>5 DEF OpenInv, End
  <2>5. CASE ~IsLast(p)
    <3>1. pc'[p] = "gone"
      BY <1>1, <2>1, <2>5
    <3>2. \A q \in Procs : q \notin open' <=> pc'[q] \in {"close", "gone"}
      BY <1>0, <2>1, <2>2, <3>1 DEF OpenInv
    <3>3. ASSUME NEW r \in Procs, pc'[r] = "close", NEW q \in End(r), q # r PROVE pc'[q] = "gone"
      <4>1. r # p /\ pc[r] = "close" /\ pc[q] = "gone"
        BY <1>0, <2>2, <3>1, <3>3 DEF OpenInv
      <4> QED BY <1>2, <2>2, <3>1, <4>1
    <3>4. PICK q \in open \cap End(p) : q # p
      <4>1. p \in End(p)
        BY <1>1, <1>2 DEF Procs
      <4> QED BY <2>1, <2>5, <4>1 DEF IsLast
    <3>5. q \in Procs /\ pc[q] # "gone" /\ pc'[q] = pc[q] /\ q \in End(p)
      BY <1>0, <1>2, <2>2, <3>4 DEF OpenInv
    <3>6. /\ (\E r \in Writers : pc'[r] # "gone") <=> (\E r \in Writers : pc[r] # "gone")
          /\ (\E r \in Readers : pc'[r] # "gone") <=> (\E r \in Readers : pc[r] # "gone")
      BY <1>1, <2>1, <2>2, <3>1, <3>5 DEF End, Procs
    <3> QED BY <1>0, <1>1, <1>2, <2>1, <3>2, <3>3, <3>6 DEF OpenInv, End
  <2> QED BY <2>4, <2>5
<1>5. ASSUME NEW p \in Procs, PipeClose(p) PROVE OpenInv'
  <2>1. /\ pc[p] = "close" /\ UNCHANGED open
        /\ freed' = (~readopen' /\ ~writeopen')
        /\ p \in Writers => writeopen' = FALSE /\ UNCHANGED readopen
        /\ p \notin Writers => readopen' = FALSE /\ UNCHANGED writeopen
    BY <1>5 DEF PipeClose
  <2>2. \A q \in End(p) : q # p => pc[q] = "gone"
    BY <1>0, <2>1 DEF OpenInv
  <2>3. pc'[p] = "gone" /\ \A q \in Procs : pc[q] \in {"close", "gone"} /\ q # p => pc'[q] = pc[q]
    BY <1>1, <1>5 DEF PipeClose, WakeReaders, WakeWriters, Wake
  <2>4. \A q \in Procs : pc'[q] \in {"close", "gone"} => pc[q] \in {"close", "gone"}
    BY <1>1, <1>5 DEF PipeClose, WakeReaders, WakeWriters, Wake
  <2>5. \A q \in Procs : q \notin open' <=> pc'[q] \in {"close", "gone"}
    BY <1>0, <2>1, <2>3, <2>4 DEF OpenInv
  <2>6. ASSUME NEW r \in Procs, pc'[r] = "close", NEW q \in End(r), q # r PROVE pc'[q] = "gone"
    <3>1. r # p /\ pc[r] = "close"
      BY <2>3, <2>4, <2>6
    <3>2. pc[q] = "gone" /\ q \in Procs
      BY <1>0, <1>2, <2>6, <3>1 DEF OpenInv
    <3> QED BY <2>1, <2>3, <3>2
  <2>7. \A q \in End(p) : pc'[q] = "gone"
    BY <1>2, <2>1, <2>2, <2>3
  <2>8. \A q \in Procs : q \notin End(p) => (pc'[q] = "gone" <=> pc[q] = "gone")
    BY <1>2, <1>1, <2>1, <2>3, <2>4, <1>5 DEF PipeClose, WakeReaders, WakeWriters, Wake, End, Procs
  <2>9. CASE p \in Writers
    <3>1. End(p) = Writers /\ \A q \in Readers : q \notin End(p)
      BY <1>1, <1>2, <2>9
    <3>2. \A r \in Writers : pc'[r] = "gone"
      BY <2>7, <3>1
    <3>3. (\E r \in Readers : pc'[r] # "gone") <=> (\E r \in Readers : pc[r] # "gone")
      BY <1>1, <2>8, <3>1
    <3>4. writeopen' = FALSE /\ readopen' = readopen /\ (readopen <=> \E r \in Readers : pc[r] # "gone")
      BY <1>0, <2>1, <2>9 DEF OpenInv
    <3> QED BY <2>1, <2>5, <2>6, <3>2, <3>3, <3>4 DEF OpenInv
  <2>10. CASE p \notin Writers
    <3>1. End(p) = Readers /\ \A q \in Writers : q \notin End(p)
      BY <1>1, <1>2, <2>10 DEF Procs
    <3>2. \A r \in Readers : pc'[r] = "gone"
      BY <2>7, <3>1
    <3>3. (\E r \in Writers : pc'[r] # "gone") <=> (\E r \in Writers : pc[r] # "gone")
      BY <1>1, <2>8, <3>1
    <3>4. readopen' = FALSE /\ writeopen' = writeopen /\ (writeopen <=> \E r \in Writers : pc[r] # "gone")
      BY <1>0, <2>1, <2>10 DEF OpenInv
    <3> QED BY <2>1, <2>5, <2>6, <3>2, <3>3, <3>4 DEF OpenInv
  <2> QED BY <2>9, <2>10
<1>6. CASE PipeAlloc
  BY <1>1, <1>6 DEF PipeAlloc, OpenInv
<1> QED BY <1>0, <1>3, <1>4, <1>5, <1>6, Stay

LEMMA RoleStep ==
    PipeInv /\ [Next]_vars => RoleInv'
<1> SUFFICES ASSUME PipeInv, [Next]_vars PROVE RoleInv'
    OBVIOUS
<1>0. TypeOK /\ RoleInv /\ LockInv
  BY DEF PipeInv
<1>1. /\ pc \in [Procs -> PCs] /\ Writers \subseteq Procs /\ Readers \subseteq Procs
      /\ Writers \cap Readers = {}
  BY <1>0, PipeConstants DEF TypeOK, Procs
<1>2. ASSUME NEW p \in Writers, User(p) \/ Write(p) PROVE RoleInv'
  <2>1. /\ pc'[p] \in {"idle", "write", "wdoze"}
        /\ \A q \in Procs : q # p => pc'[q] = pc[q] \/ (pc[q] = "rsleep" /\ pc'[q] = "read")
    BY <1>1, <1>2 DEF User, StartWrite, Write, WriteDone, WriteFull, WriteFail, WakeReaders, Wake
  <2> QED BY <1>0, <2>1 DEF RoleInv
<1>3. ASSUME NEW p \in Readers, User(p) \/ Read(p) PROVE RoleInv'
  <2>1. /\ pc'[p] \in {"idle", "read", "rdoze"}
        /\ \A q \in Procs : q # p => pc'[q] = pc[q] \/ (pc[q] = "wsleep" /\ pc'[q] = "write")
    BY <1>1, <1>3 DEF User, StartRead, Read, ReadDone, ReadFail, ReadEmpty, WakeWriters, Wake
  <2> QED BY <1>0, <2>1 DEF RoleInv
<1>4. ASSUME NEW p \in Procs, Sleep(p) PROVE RoleInv'
  BY <1>0, <1>1, <1>4 DEF Sleep, RoleInv, LockInv
<1>5. ASSUME NEW p \in Procs, Close(p) PROVE RoleInv'
  BY <1>0, <1>1, <1>5 DEF Close, RoleInv
<1>6. ASSUME NEW p \in Procs, PipeClose(p) PROVE RoleInv'
  BY <1>0, <1>1, <1>6 DEF PipeClose, WakeReaders, WakeWriters, Wake, RoleInv
<1>7. ASSUME NEW p \in Procs, Kill(p) PROVE RoleInv'
  BY <1>0, <1>1, <1>7 DEF Kill, RoleInv
<1>8. CASE PipeAlloc
  BY <1>8 DEF PipeAlloc, RoleInv
<1>9. CASE UNCHANGED vars
  BY <1>0, <1>9 DEF vars, RoleInv
<1>10. \A p \in Procs : User(p) => p \in Writers \/ p \in Readers
  BY DEF User
<1> QED BY <1>2, <1>3, <1>4, <1>5, <1>6, <1>7, <1>8, <1>9, <1>10 DEF Next

LEMMA LockStep ==
    PipeInv /\ [Next]_vars => LockInv'
<1> SUFFICES ASSUME PipeInv, [Next]_vars PROVE LockInv'
    OBVIOUS
<1>0. TypeOK /\ LockInv
  BY DEF PipeInv
<1>1. /\ pc \in [Procs -> PCs] /\ Writers \subseteq Procs /\ Readers \subseteq Procs
      /\ lock \in Procs \cup {Nobody} /\ Nobody \notin Procs
  BY <1>0, PipeConstants DEF TypeOK, Procs
<1>2. ASSUME UNCHANGED lock,
             \A q \in Procs : pc'[q] \in {"wdoze", "rdoze"} <=> pc[q] \in {"wdoze", "rdoze"}
      PROVE  LockInv'
  BY <1>0, <1>1, <1>2 DEF LockInv
<1>3. ASSUME lock = Nobody, NEW p \in Procs, lock' = p, pc'[p] \in {"wdoze", "rdoze"},
             \A q \in Procs : q # p => pc'[q] = pc[q] \/ pc'[q] \in {"write", "read"}
      PROVE  LockInv'
  BY <1>0, <1>1, <1>3 DEF LockInv
<1>4. ASSUME NEW p \in Procs, User(p) PROVE LockInv'
  BY <1>1, <1>2, <1>4 DEF User, StartWrite, StartRead, Holds
<1>5. ASSUME NEW p \in Writers, WriteFull(p) PROVE LockInv'
  BY <1>1, <1>3, <1>5 DEF WriteFull, InWrite, WakeReaders, Wake
<1>6. ASSUME NEW p \in Writers, WriteDone(p) \/ WriteFail(p) PROVE LockInv'
  BY <1>1, <1>2, <1>6 DEF WriteDone, WriteFail, InWrite, WakeReaders, Wake
<1>7. ASSUME NEW p \in Readers, ReadEmpty(p) PROVE LockInv'
  BY <1>1, <1>3, <1>7 DEF ReadEmpty, InRead
<1>8. ASSUME NEW p \in Readers, ReadDone(p) \/ ReadFail(p) PROVE LockInv'
  BY <1>1, <1>2, <1>8 DEF ReadDone, ReadFail, InRead, pipeVars, WakeWriters, Wake
<1>9. ASSUME NEW p \in Procs, Sleep(p) PROVE LockInv'
  BY <1>0, <1>1, <1>9 DEF Sleep, LockInv
<1>10. ASSUME NEW p \in Procs, Close(p) PROVE LockInv'
  BY <1>1, <1>2, <1>10 DEF Close
<1>11. ASSUME NEW p \in Procs, PipeClose(p) PROVE LockInv'
  BY <1>1, <1>2, <1>11 DEF PipeClose, WakeReaders, WakeWriters, Wake
<1>12. ASSUME NEW p \in Procs, Kill(p) PROVE LockInv'
  BY <1>1, <1>2, <1>12 DEF Kill
<1>13. CASE PipeAlloc
  BY <1>1, <1>2, <1>13 DEF PipeAlloc
<1>14. CASE UNCHANGED vars
  BY <1>2, <1>14 DEF vars
<1> QED BY <1>4, <1>5, <1>6, <1>7, <1>8, <1>9, <1>10, <1>11, <1>12, <1>13, <1>14
        DEF Next, Write, Read

LEMMA DozeStep ==
    PipeInv /\ [Next]_vars => DozeInv'
<1> SUFFICES ASSUME PipeInv, [Next]_vars PROVE DozeInv'
    OBVIOUS
<1>0. TypeOK /\ OpenInv /\ RoleInv /\ LockInv /\ DozeInv
  BY DEF PipeInv
<1>1. /\ pc \in [Procs -> PCs] /\ Writers \subseteq Procs /\ Readers \subseteq Procs
      /\ Writers \cap Readers = {} /\ PIPESIZE \in Nat \ {0}
  BY <1>0, PipeConstants DEF TypeOK, Procs
<1>2. Used \in 0 .. PIPESIZE /\ Room = PIPESIZE - Used /\ Room \in 0 .. PIPESIZE
  BY <1>0, UsedFacts
<1>3. ASSUME UNCHANGED <<nread, nwrite>> PROVE Used' = Used /\ Room' = Room
  BY <1>3 DEF Used, Room
<1>4. ASSUME UNCHANGED <<nread, nwrite, readopen, writeopen>>, killed \subseteq killed',
             \A q \in Writers : pc'[q] \in {"wdoze", "wsleep"} => pc[q] \in {"wdoze", "wsleep"},
             \A q \in Readers : pc'[q] \in {"rdoze", "rsleep"} => pc[q] \in {"rdoze", "rsleep"}
      PROVE  DozeInv'
  BY <1>0, <1>3, <1>4 DEF DozeInv
<1>5. ASSUME NEW p \in Writers, InWrite(p), Fill(p)
      PROVE  /\ Used' = Used + Filled(p) /\ Room' = Room - Filled(p) /\ Filled(p) \in 0 .. Room
             /\ UNCHANGED <<readopen, writeopen, killed>>
             /\ \A q \in Procs : pc[q] \notin {"wdoze", "rdoze"}
             /\ Room = 0 => Room' = 0
  <2>1. /\ Used' = Used + Filled(p) /\ Room' = Room - Filled(p) /\ Filled(p) \in 0 .. Room
    BY <1>0, <1>5, FillAppends
  <2>2. Room = 0 => Room' = 0
    BY <1>2, <2>1
  <2>3. \A q \in Procs : pc[q] \notin {"wdoze", "rdoze"}
    BY <1>0, <1>5, PipeConstants DEF InWrite, LockInv
  <2> QED BY <1>5, <2>1, <2>2, <2>3 DEF Fill
<1>6. ASSUME NEW p \in Procs, User(p) PROVE DozeInv'
  BY <1>1, <1>4, <1>6 DEF User, StartWrite, StartRead, Holds, pipeVars
<1>7. ASSUME NEW p \in Writers, WriteDone(p) PROVE DozeInv'
  <2>1. InWrite(p) /\ Fill(p) /\ pc' = [WakeReaders(pc) EXCEPT ![p] = "idle"]
    BY <1>7 DEF WriteDone
  <2>2. /\ \A q \in Writers : pc'[q] \in {"wdoze", "wsleep"} => pc[q] \in {"wdoze", "wsleep"}
        /\ \A q \in Readers : pc'[q] \in {"rdoze", "rsleep"} => pc[q] = "rdoze"
    BY <1>1, <2>1 DEF WakeReaders, Wake
  <2> QED BY <1>0, <1>1, <1>5, <2>1, <2>2 DEF DozeInv
<1>8. ASSUME NEW p \in Writers, WriteFull(p) PROVE DozeInv'
  <2>1. /\ InWrite(p) /\ Fill(p) /\ pc' = [WakeReaders(pc) EXCEPT ![p] = "wdoze"]
        /\ readopen /\ ~Complete(p)
    BY <1>8 DEF WriteFull
  <2>2. /\ \A q \in Writers : q # p /\ pc'[q] \in {"wdoze", "wsleep"} => pc[q] \in {"wdoze", "wsleep"}
        /\ \A q \in Readers : pc'[q] \in {"rdoze", "rsleep"} => pc[q] = "rdoze"
    BY <1>1, <2>1 DEF WakeReaders, Wake
  <2>3. Room' = 0
    <3>1. Len(buf[p]) \in Nat /\ ~(Len(buf[p]) <= Room)
      BY <1>0, <2>1 DEF TypeOK, Complete
    <3>2. Filled(p) = Room
      BY <1>2, <3>1 DEF Filled, Smaller
    <3>3. Room' = Room - Filled(p)
      BY <1>5, <2>1
    <3>4. Room \in Int
      BY <1>1, <1>2
    <3> QED BY <3>2, <3>3, <3>4
  <2> QED BY <1>0, <1>1, <1>5, <2>1, <2>2, <2>3 DEF DozeInv
<1>9. ASSUME NEW p \in Writers, WriteFail(p) PROVE DozeInv'
  <2>1. /\ InWrite(p) /\ Fill(p) /\ pc' = [pc EXCEPT ![p] = "idle"]
        /\ (~readopen \/ p \in killed)
    BY <1>9 DEF WriteFail
  <2>2. /\ \A q \in Writers : pc'[q] \in {"wdoze", "wsleep"} => pc[q] \in {"wdoze", "wsleep"}
        /\ \A q \in Readers : pc'[q] = pc[q]
    BY <1>1, <2>1
  <2>3. \A q \in Writers : pc'[q] \in {"wdoze", "wsleep"} => readopen' /\ Room' = 0
    BY <1>0, <1>1, <1>5, <2>1, <2>2 DEF DozeInv
  <2>4. CASE p \in killed
    BY <1>5, <2>1, <2>3, <2>4 DEF DozeInv
  <2>5. CASE ~readopen
    <3>1. \A q \in Readers : pc'[q] = "gone"
      BY <1>0, <2>2, <2>5 DEF OpenInv
    <3> QED BY <2>3, <3>1 DEF DozeInv
  <2> QED BY <2>1, <2>4, <2>5
<1>10. ASSUME NEW p \in Readers, ReadDone(p) PROVE DozeInv'
  <2>1. /\ InRead(p) /\ pc' = [WakeWriters(pc) EXCEPT ![p] = "idle"]
        /\ UNCHANGED <<readopen, writeopen, killed>> /\ ~MustWait
    BY <1>10 DEF ReadDone
  <2>2. \A q \in Procs : pc[q] \notin {"wdoze", "rdoze"}
    BY <1>0, <2>1, PipeConstants DEF InRead, LockInv
  <2>3. /\ \A q \in Writers : pc'[q] \notin {"wdoze", "wsleep"}
        /\ \A q \in Readers : pc'[q] \in {"rdoze", "rsleep"} => pc[q] \in {"rdoze", "rsleep"}
    BY <1>1, <2>1, <2>2 DEF WakeWriters, Wake
  <2>4. killed \cap Writers = {} => \A q \in Readers : pc'[q] \notin {"rdoze", "rsleep"}
    BY <1>0, <2>1, <2>3 DEF DozeInv, MustWait
  <2> QED BY <2>1, <2>3, <2>4 DEF DozeInv
<1>11. ASSUME NEW p \in Readers, ReadFail(p) PROVE DozeInv'
  BY <1>1, <1>4, <1>11 DEF ReadFail, pipeVars
<1>12. ASSUME NEW p \in Readers, ReadEmpty(p) PROVE DozeInv'
  <2>1. /\ Used = 0 /\ writeopen /\ pc' = [pc EXCEPT ![p] = "rdoze"]
        /\ UNCHANGED <<nread, nwrite, readopen, writeopen, killed>>
    BY <1>12 DEF ReadEmpty, MustWait, pipeVars
  <2>2. Used' = 0 /\ writeopen' /\ Room' = Room
    BY <1>3, <2>1
  <2>3. \A q \in Writers : pc'[q] = pc[q]
    BY <1>1, <2>1
  <2> QED BY <1>0, <2>1, <2>2, <2>3 DEF DozeInv
<1>13. ASSUME NEW p \in Procs, Sleep(p) PROVE DozeInv'
  <2>1. pc[p] \in {"wdoze", "rdoze"}
    BY <1>0, <1>13 DEF Sleep, LockInv
  <2> QED BY <1>1, <1>4, <1>13, <2>1 DEF Sleep, pipeVars
<1>14. ASSUME NEW p \in Procs, Close(p) PROVE DozeInv'
  BY <1>1, <1>4, <1>14 DEF Close, pipeVars
<1>15. ASSUME NEW p \in Procs, PipeClose(p) PROVE DozeInv'
  <2>1. UNCHANGED <<nread, nwrite, killed>> /\ lock = Nobody
    BY <1>15 DEF PipeClose
  <2>2. \A q \in Procs : pc[q] \notin {"wdoze", "rdoze"}
    BY <1>0, <2>1, PipeConstants DEF LockInv
  <2>3. CASE p \in Writers
    <3>1. pc' = [WakeReaders(pc) EXCEPT ![p] = "gone"] /\ UNCHANGED readopen
      BY <1>15, <2>3 DEF PipeClose
    <3>2. /\ \A q \in Writers : pc'[q] \in {"wdoze", "wsleep"} => pc[q] \in {"wdoze", "wsleep"}
          /\ \A q \in Readers : pc'[q] \notin {"rdoze", "rsleep"}
      BY <1>1, <2>2, <3>1 DEF WakeReaders, Wake
    <3> QED BY <1>0, <1>3, <2>1, <3>1, <3>2 DEF DozeInv
  <2>4. CASE p \notin Writers
    <3>1. pc' = [WakeWriters(pc) EXCEPT ![p] = "gone"] /\ UNCHANGED writeopen
      BY <1>15, <2>4 DEF PipeClose
    <3>2. /\ \A q \in Writers : pc'[q] \notin {"wdoze", "wsleep"}
          /\ \A q \in Readers : pc'[q] \in {"rdoze", "rsleep"} => pc[q] \in {"rdoze", "rsleep"}
      BY <1>1, <2>2, <3>1 DEF WakeWriters, Wake
    <3> QED BY <1>0, <1>3, <2>1, <3>1, <3>2 DEF DozeInv
  <2> QED BY <2>3, <2>4
<1>16. ASSUME NEW p \in Procs, Kill(p) PROVE DozeInv'
  BY <1>1, <1>4, <1>16 DEF Kill, pipeVars
<1>17. CASE PipeAlloc
  BY <1>1, <1>17 DEF PipeAlloc, DozeInv
<1>18. CASE UNCHANGED vars
  BY <1>4, <1>18 DEF vars
<1> QED BY <1>6, <1>7, <1>8, <1>9, <1>10, <1>11, <1>12, <1>13, <1>14, <1>15, <1>16, <1>17, <1>18
        DEF Next, Write, Read
-----------------------------------------------------------------------------
\* PipeInv holds in every state of the pipe.
THEOREM PipeInvariant == Spec => []PipeInv
<1>1. Init => PipeInv
  <2> SUFFICES ASSUME Init PROVE PipeInv
    OBVIOUS
  <2>1. Used = 0
    BY PipeConstants, ModSmall DEF Init, Used
  <2>2. (CHOOSE b \in Bytes : TRUE) \in Bytes
    BY PipeConstants
  <2>3. TypeOK
    <3>1. 0 \in 0 .. WRAP - 1 /\ 0 \in 0 .. MaxN /\ 0 <= PIPESIZE
      BY PipeConstants
    <3>2. data \in [0 .. PIPESIZE - 1 -> Bytes]
      BY <2>2 DEF Init
    <3>3. /\ buf \in [Writers -> Seq(Bytes)] /\ want \in [Readers -> 0 .. MaxN]
          /\ res \in [Readers -> Seq(Bytes) \cup {Failed}] /\ pc \in [Procs -> PCs]
      BY <3>1 DEF Init, PCs, Writing, Reading
    <3> QED BY <2>1, <3>1, <3>2, <3>3 DEF Init, TypeOK
  <2>4. \A p \in Procs : pc[p] = "idle" /\ p \in open
    BY DEF Init
  <2>5. OpenInv
    BY <2>4, PipeConstants DEF Init, OpenInv, Procs
  <2>6. RoleInv /\ LockInv /\ DozeInv
    BY <2>4, PipeConstants DEF Init, RoleInv, LockInv, DozeInv, Procs
  <2> QED BY <2>3, <2>5, <2>6 DEF PipeInv
<1>2. PipeInv /\ [Next]_vars => PipeInv'
  BY TypeStep, OpenStep, RoleStep, LockStep, DozeStep DEF PipeInv
<1> QED BY <1>1, <1>2, PTL DEF Spec

\* Every variable keeps its type, and the pipe never holds more than PIPESIZE bytes.
THEOREM PipeTypeCorrect == Spec => []TypeOK
<1>1. PipeInv => TypeOK
  BY DEF PipeInv
<1> QED BY <1>1, PipeInvariant, PTL

\* However the two ends close, the page is given back when everybody has left.
THEOREM PageOutlivesCalls == Spec => []NotFreedInUse
<1>1. PipeInv => NotFreedInUse
  BY DEF PipeInv, OpenInv, NotFreedInUse, Procs
<1> QED BY <1>1, PipeInvariant, PTL

\* A writer sleeps only while the pipe is full and a reader while it is empty, with the
\* other end open, except behind a writer that was killed.
THEOREM SleepersHaveReason == Spec => []SleepersWait
<1>1. PipeInv => SleepersWait
  BY DEF PipeInv, DozeInv, SleepersWait
<1> QED BY <1>1, PipeInvariant, PTL
-----------------------------------------------------------------------------
(* The refinement.                                                         *)

\* Only the user's calls and their returns change who is busy: a wakeup, a kill and the
\* way to sleep do not.
LEMMA BusyFacts ==
    ASSUME PipeInv, [Next]_vars
    PROVE  /\ \A p \in Writers : Write(p) /\ ~WriteFull(p) => Busy' = Busy \ {p}
           /\ \A p \in Readers : Read(p) /\ ~ReadEmpty(p) => Busy' = Busy \ {p}
           /\ \A p \in Procs : User(p) => Busy' = Busy \cup {p}
           /\ \/ \E p \in Writers : Write(p) /\ ~WriteFull(p)
              \/ \E p \in Readers : Read(p) /\ ~ReadEmpty(p)
              \/ \E p \in Procs : User(p)
              \/ Busy' = Busy
<1>0. TypeOK /\ OpenInv /\ RoleInv /\ LockInv
  BY DEF PipeInv
<1>1. pc \in [Procs -> PCs] /\ Writers \subseteq Procs /\ Readers \subseteq Procs
  BY <1>0 DEF TypeOK, Procs
<1> DEFINE B == Writing \cup Reading
<1>2. ASSUME \A q \in Procs : pc'[q] \in B <=> pc[q] \in B
      PROVE  Busy' = Busy
  BY <1>2 DEF Busy
<1>3. ASSUME NEW p \in Procs, \A q \in Procs \ {p} : pc'[q] \in B <=> pc[q] \in B, pc'[p] \notin B
      PROVE  Busy' = Busy \ {p}
  BY <1>3 DEF Busy
<1>4. ASSUME NEW p \in Procs, \A q \in Procs \ {p} : pc'[q] \in B <=> pc[q] \in B, pc'[p] \in B
      PROVE  Busy' = Busy \cup {p}
  BY <1>4 DEF Busy
<1>5. \A q \in Procs : /\ WakeReaders(pc)[q] \in B <=> pc[q] \in B
                       /\ WakeWriters(pc)[q] \in B <=> pc[q] \in B
  BY DEF WakeReaders, WakeWriters, Wake, Writing, Reading
<1>6. WakeReaders(pc) \in [Procs -> PCs] /\ WakeWriters(pc) \in [Procs -> PCs]
  BY <1>1, WakeType DEF WakeReaders, WakeWriters, PCs, Writing, Reading
<1>7. "idle" \notin B /\ "close" \notin B /\ "gone" \notin B
  BY DEF Writing, Reading
<1>8. ASSUME NEW p \in Writers, Write(p), ~WriteFull(p) PROVE Busy' = Busy \ {p}
  <2>1. pc' = [WakeReaders(pc) EXCEPT ![p] = "idle"] \/ pc' = [pc EXCEPT ![p] = "idle"]
    BY <1>8 DEF Write, WriteDone, WriteFail
  <2>2. p \in Procs /\ pc'[p] = "idle" /\ \A q \in Procs \ {p} : pc'[q] \in B <=> pc[q] \in B
    BY <1>1, <1>5, <1>6, <2>1
  <2> HIDE DEF B
  <2> QED BY <1>3, <1>7, <2>2
<1>9. ASSUME NEW p \in Readers, Read(p), ~ReadEmpty(p) PROVE Busy' = Busy \ {p}
  <2>1. pc' = [WakeWriters(pc) EXCEPT ![p] = "idle"] \/ pc' = [pc EXCEPT ![p] = "idle"]
    BY <1>9 DEF Read, ReadDone, ReadFail
  <2>2. p \in Procs /\ pc'[p] = "idle" /\ \A q \in Procs \ {p} : pc'[q] \in B <=> pc[q] \in B
    BY <1>1, <1>5, <1>6, <2>1
  <2> HIDE DEF B
  <2> QED BY <1>3, <1>7, <2>2
<1>10. ASSUME NEW p \in Procs, User(p) PROVE Busy' = Busy \cup {p}
  <2>1. pc' = [pc EXCEPT ![p] = "write"] \/ pc' = [pc EXCEPT ![p] = "read"]
    BY <1>10 DEF User, StartWrite, StartRead
  <2>2. pc'[p] \in B /\ \A q \in Procs \ {p} : pc'[q] \in B <=> pc[q] \in B
    BY <1>1, <2>1 DEF Writing, Reading
  <2> QED BY <1>4, <2>2
<1>11. ASSUME NEW p \in Writers, WriteFull(p) PROVE Busy' = Busy
  <2>1. pc[p] \in B /\ pc' = [WakeReaders(pc) EXCEPT ![p] = "wdoze"] /\ "wdoze" \in B
    BY <1>11 DEF WriteFull, InWrite, Writing
  <2> QED BY <1>1, <1>2, <1>5, <1>6, <2>1
<1>12. ASSUME NEW p \in Readers, ReadEmpty(p) PROVE Busy' = Busy
  BY <1>1, <1>2, <1>12 DEF ReadEmpty, InRead, Reading
<1>13. ASSUME NEW p \in Procs, Sleep(p) PROVE Busy' = Busy
  BY <1>0, <1>1, <1>2, <1>13 DEF Sleep, LockInv, Writing, Reading
<1>14. ASSUME NEW p \in Procs, Close(p) PROVE Busy' = Busy
  BY <1>1, <1>2, <1>7, <1>14 DEF Close
<1>15. ASSUME NEW p \in Procs, PipeClose(p) PROVE Busy' = Busy
  <2>1. /\ pc[p] = "close"
        /\ \/ pc' = [WakeReaders(pc) EXCEPT ![p] = "gone"]
           \/ pc' = [WakeWriters(pc) EXCEPT ![p] = "gone"]
    BY <1>15 DEF PipeClose
  <2> QED BY <1>1, <1>2, <1>5, <1>6, <1>7, <2>1
<1>16. ASSUME NEW p \in Procs, Kill(p) PROVE Busy' = Busy
  BY <1>1, <1>2, <1>16 DEF Kill, Writing, Reading
<1>17. ASSUME PipeAlloc PROVE Busy' = Busy
  <2>1. \A q \in Procs : pc[q] = "gone" /\ pc'[q] = "idle"
    BY <1>17 DEF PipeAlloc
  <2> QED BY <1>2, <1>7, <2>1
<1>18. ASSUME UNCHANGED vars PROVE Busy' = Busy
  BY <1>2, <1>18 DEF vars
<1> QED BY <1>8, <1>9, <1>10, <1>11, <1>12, <1>13, <1>14, <1>15, <1>16, <1>17, <1>18
        DEF Next, Write, Read

\* A turn of pipewrite's loop puts the next bytes of the write at the end of the queue,
\* all of them or as many as fill it.
LEMMA WritePuts ==
    ASSUME PipeInv, [Next]_vars, NEW p \in Writers, Write(p)
    PROVE  S!Put(p) \/ S!PutSome(p)
<1>1. TypeOK /\ Fill(p) /\ pc[p] = "write"
  BY DEF PipeInv, Write, WriteDone, WriteFull, WriteFail, InWrite
<1> DEFINE f == Filled(p)
<1>2. /\ f \in 0 .. Room /\ f <= Len(buf[p]) /\ (f = Len(buf[p]) \/ f = Room)
      /\ Contents' = Contents \o SubSeq(buf[p], 1, f)
  BY <1>1, FillAppends
<1>3. /\ Used \in 0 .. PIPESIZE /\ Room = PIPESIZE - Used /\ PIPESIZE \in Nat
      /\ Len(Contents) = Used /\ Len(buf[p]) \in Nat
  BY <1>1, UsedFacts, PipeConstants DEF TypeOK
<1>4. p \in Busy /\ p \in Procs /\ ~(~writeopen)
  BY <1>1 DEF PipeInv, OpenInv, Busy, Writing, Procs
<1>5. f = Filled(p)
  OBVIOUS
<1> HIDE DEF f
<1>6. S!Enter(p, f)
  <2>1. UNCHANGED <<writeopen, want, res>>
    BY <1>1 DEF Fill
  <2>2. Len(Contents) + f <= PIPESIZE
    BY <1>2, <1>3
  <2> QED BY <1>2, <1>4, <2>1, <2>2 DEF S!Enter
<1>7. CASE WriteDone(p)
  <2>1. /\ Complete(p) /\ buf' = [buf EXCEPT ![p] = <<>>] /\ wrote' = wrote \cup {p}
        /\ ~WriteFull(p)
    BY <1>7 DEF WriteDone, WriteFull
  <2>2. f = Len(buf[p])
    BY <1>2, <1>3, <2>1 DEF Complete
  <2>3. Busy' = Busy \ {p}
    BY <2>1, BusyFacts
  <2> QED BY <1>6, <2>1, <2>2, <2>3 DEF S!Put
<1>8. CASE ~WriteDone(p)
  <2>1. ~Complete(p) /\ UNCHANGED wrote
    BY <1>8 DEF Write, WriteFull, WriteFail
  <2>2. f \in 0 .. Len(buf[p]) - 1 /\ Len(Contents) + f = PIPESIZE
    BY <1>2, <1>3, <2>1 DEF Complete
  <2>3. \/ buf' = [buf EXCEPT ![p] = SubSeq(@, f + 1, Len(@))] /\ Busy' = Busy
        \/ buf' = [buf EXCEPT ![p] = <<>>] /\ Busy' = Busy \ {p}
    <3>1. CASE WriteFull(p)
      <4>1. buf' = [buf EXCEPT ![p] = SubSeq(@, f + 1, Len(@))]
        BY <1>5, <3>1 DEF WriteFull, Rest
      <4>2. Busy' = Busy
        <5>1. pc' = [WakeReaders(pc) EXCEPT ![p] = "wdoze"]
          BY <3>1 DEF WriteFull
        <5>2. \A q \in Procs : pc'[q] \in Writing \cup Reading <=> pc[q] \in Writing \cup Reading
          BY <1>1, <5>1 DEF WakeReaders, Wake, Writing, Reading
        <5> QED BY <5>2 DEF Busy
      <4> QED BY <4>1, <4>2
    <3>2. CASE ~WriteFull(p)
      <4>1. WriteFail(p)
        BY <1>8, <3>2 DEF Write
      <4> QED BY <3>2, <4>1, BusyFacts DEF WriteFail
    <3> QED BY <3>1, <3>2
  <2> QED BY <1>6, <2>1, <2>2, <2>3 DEF S!PutSome
<1> QED BY <1>7, <1>8

\* A read takes the first bytes of the queue, all it asks for or all there is, or finds
\* the end of the stream.
LEMMA ReadGets ==
    ASSUME PipeInv, [Next]_vars, NEW p \in Readers, ReadDone(p)
    PROVE  S!Get(p)
<1>1. TypeOK /\ pc[p] = "read" /\ ~MustWait /\ p \in Procs
  BY DEF PipeInv, ReadDone, InRead, Procs
<1> DEFINE t == Taken(p)
<1>2. /\ t \in 0 .. Used /\ res' = [res EXCEPT ![p] = SubSeq(Contents, 1, t)]
      /\ Contents' = SubSeq(Contents, t + 1, Len(Contents))
  BY <1>1, ReadTakes
<1>3. Contents \in Seq(Bytes) /\ Len(Contents) = Used /\ Used \in Nat /\ want[p] \in Nat
  BY <1>1, UsedFacts, PipeConstants DEF TypeOK
<1>4. t = want[p] \/ (t < want[p] /\ t = Len(Contents))
  BY <1>3 DEF Taken, Smaller
<1> HIDE DEF t
<1>5. Contents # <<>> \/ ~writeopen
  BY <1>1, <1>3 DEF MustWait
<1>6. S!Take(p, t)
  BY <1>2, <1>4 DEF S!Take
<1>7. S!EndRead(p)
  <2>1. Read(p) /\ ~ReadEmpty(p)
    BY DEF Read, ReadDone, ReadEmpty
  <2>2. Busy' = Busy \ {p}
    BY <2>1, BusyFacts
  <2>3. p \in Busy
    BY <1>1 DEF Busy, Reading
  <2> QED BY <2>2, <2>3 DEF S!EndRead, ReadDone
<1> QED BY <1>2, <1>3, <1>5, <1>6, <1>7 DEF S!Get

\* The pipe is a bounded queue of bytes: a write that returns n has put all its bytes, in
\* order and once, and readers get what was put, in order and once, whatever the size, the
\* width of the counters and the interleaving; a read for some bytes returns 0 only after
\* the last byte of the last writer.
THEOREM PipeIsAStream == Spec => IsStream
<1>1. Init => S!Init
  <2> SUFFICES ASSUME Init PROVE S!Init
    OBVIOUS
  <2>1. Used = 0
    BY PipeConstants, ModSmall DEF Init, Used
  <2>2. Contents = <<>>
    BY <2>1 DEF Contents
  <2>3. Busy = {}
    BY DEF Init, Busy, Writing, Reading
  <2> QED BY <2>2, <2>3 DEF Init, S!Init
<1>2. PipeInv /\ [Next]_vars => [S!Next]_(S!vars)
  <2> SUFFICES ASSUME PipeInv, [Next]_vars PROVE [S!Next]_(S!vars)
    OBVIOUS
  <2>0. TypeOK /\ OpenInv /\ RoleInv
    BY DEF PipeInv
  <2>1. ASSUME UNCHANGED <<nread, nwrite, data>> PROVE UNCHANGED Contents
    BY <2>1 DEF Contents, Used, At
  <2>2. ASSUME UNCHANGED <<nread, nwrite, data, writeopen, buf, want, wrote, res>>, Busy' = Busy
        PROVE  [S!Next]_(S!vars)
    BY <2>1, <2>2 DEF S!vars
  <2>3. ASSUME NEW p \in Writers, Write(p) PROVE [S!Next]_(S!vars)
    BY <2>3, WritePuts DEF S!Next
  <2>4. ASSUME NEW p \in Readers, ReadDone(p) PROVE [S!Next]_(S!vars)
    BY <2>4, ReadGets DEF S!Next
  <2>5. ASSUME NEW p \in Readers, ReadFail(p) PROVE [S!Next]_(S!vars)
    <3>1. /\ Used = 0 /\ writeopen /\ res' = [res EXCEPT ![p] = Failed]
          /\ want' = [want EXCEPT ![p] = 0] /\ pc[p] = "read"
          /\ UNCHANGED <<nread, nwrite, data, writeopen, buf, wrote>> /\ ~ReadEmpty(p)
      BY <2>5 DEF ReadFail, ReadEmpty, InRead, MustWait, pipeVars
    <3>2. Contents = <<>> /\ UNCHANGED Contents
      BY <2>1, <3>1 DEF Contents
    <3>3. p \in Busy /\ Busy' = Busy \ {p}
      BY <2>5, <3>1, BusyFacts DEF Busy, Reading, Read, Procs
    <3>4. S!EndRead(p)
      BY <3>1, <3>3 DEF S!EndRead
    <3> QED BY <3>1, <3>2, <3>4 DEF S!Next, S!GiveUp
  <2>6. ASSUME NEW p \in Procs, User(p) PROVE [S!Next]_(S!vars)
    <3>1. pc[p] = "idle" /\ p \in open
      BY <2>6 DEF User, StartWrite, StartRead, Holds
    <3>2. p \notin Busy /\ Busy' = Busy \cup {p}
      BY <2>6, <3>1, BusyFacts DEF Busy, Writing, Reading
    <3>3. UNCHANGED <<nread, nwrite, data, writeopen>>
      BY <2>6 DEF User, StartWrite, StartRead, pipeVars
    <3>4. UNCHANGED Contents
      BY <2>1, <3>3
    <3>5. CASE p \in Writers /\ StartWrite(p)
      <4>1. writeopen
        BY <2>0, <3>1, <3>5 DEF OpenInv
      <4>2. S!StartWrite(p)
        BY <3>2, <3>3, <3>4, <3>5, <4>1 DEF StartWrite, S!StartWrite
      <4> QED BY <3>5, <4>2 DEF S!Next
    <3>6. CASE p \in Readers /\ StartRead(p)
      <4>1. S!StartRead(p)
        BY <3>2, <3>3, <3>4, <3>6 DEF StartRead, S!StartRead
      <4> QED BY <3>6, <4>1 DEF S!Next
    <3> QED BY <2>6, <3>5, <3>6 DEF User
  <2>7. CASE \A p \in Writers : ~Write(p)
    <3>1. CASE \E p \in Procs : User(p)
      BY <2>6, <3>1
    <3>2. CASE \E p \in Readers : Read(p) /\ ~ReadEmpty(p)
      BY <2>4, <2>5, <3>2 DEF Read
    <3>3. CASE ~(\E p \in Procs : User(p)) /\ ~(\E p \in Readers : Read(p) /\ ~ReadEmpty(p))
      <4>1. Busy' = Busy
        BY <2>7, <3>3, BusyFacts
      <4>2. ASSUME NEW p \in Readers, ReadEmpty(p) PROVE [S!Next]_(S!vars)
        BY <2>2, <4>1, <4>2 DEF ReadEmpty, pipeVars
      <4>3. ASSUME NEW p \in Procs, Sleep(p) \/ Close(p) \/ Kill(p) PROVE [S!Next]_(S!vars)
        BY <2>2, <4>1, <4>3 DEF Sleep, Close, Kill, pipeVars
      <4>4. ASSUME NEW p \in Procs, PipeClose(p) PROVE [S!Next]_(S!vars)
        <5>1. UNCHANGED <<nread, nwrite, data, buf, want, wrote, res>> /\ pc[p] = "close"
          BY <4>4 DEF PipeClose
        <5>2. CASE p \in Writers
          <6>1. writeopen /\ writeopen' = FALSE
            BY <2>0, <4>4, <5>1, <5>2 DEF PipeClose, OpenInv
          <6>2. \A q \in Writers : pc[q] \in {"close", "gone"}
            BY <2>0, <5>1, <5>2 DEF OpenInv, End, Procs
          <6>3. Busy \cap Writers = {}
            BY <6>2 DEF Busy, Writing, Reading
          <6> QED BY <2>1, <4>1, <5>1, <6>1, <6>3 DEF S!Next, S!Close
        <5>3. CASE p \notin Writers
          BY <2>2, <4>1, <4>4, <5>1, <5>3 DEF PipeClose
        <5> QED BY <5>2, <5>3
      <4>5. CASE PipeAlloc
        <5>1. ~writeopen /\ Busy = {}
          BY <2>0, <4>5 DEF PipeAlloc, OpenInv, Busy, Writing, Reading, Procs
        <5>2. Used' = 0
          BY <4>5, PipeConstants, ModSmall DEF PipeAlloc, Used
        <5>3. Contents' = <<>>
          BY <5>2 DEF Contents
        <5> QED BY <4>1, <4>5, <5>1, <5>3 DEF PipeAlloc, S!Next, S!Renew, S!Init
      <4>6. CASE UNCHANGED vars
        BY <2>2, <4>1, <4>6 DEF vars
      <4> QED BY <2>7, <3>3, <4>2, <4>3, <4>4, <4>5, <4>6 DEF Next
    <3> QED BY <3>1, <3>2, <3>3
  <2> QED BY <2>3, <2>7
<1> QED BY <1>1, <1>2, PipeInvariant, PTL DEF IsStream, Spec, S!Spec
=============================================================================
