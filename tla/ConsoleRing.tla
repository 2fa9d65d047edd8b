---------------------------- MODULE ConsoleRing ----------------------------
(***************************************************************************)
(* Proofs about Console's input: for any size of the ring and any width of *)
(* its counters that the size divides, for any number of readers on any    *)
(* number of processors, the ring is the queue of lines that Terminal      *)
(* describes, and no reader sleeps while there is input.                   *)
(***************************************************************************)
EXTENDS ConsoleProofs, Remainders

Used    == (e - r) % WRAP
Editing == (e - w) % WRAP

\* The ring from r to w to e, with no complete line from w on.
RingInv ==
    /\ buf \in [0 .. INPUT_BUF - 1 -> Chars \cup {Nothing}]
    /\ r \in 0 .. WRAP - 1 /\ w \in 0 .. WRAP - 1 /\ e \in 0 .. WRAP - 1
    /\ Used <= INPUT_BUF /\ Avail <= Used
    /\ \A i \in 0 .. Used - 1 : Char(r + i) \in Chars
    /\ \A i \in Avail .. Used - 1 : Char(r + i) \notin {Newline, EOF}

\* What a process does, below the handler that may have interrupted it.
base == [x \in Threads |-> IF low[x] = "none" THEN top[x] ELSE low[x]]

CallPCs == {"read", "sleep", "slept"}
IdlePCs == {"user", "forkret"}

\* A call has its reader, and not more than it asked for; the caller of the next one has
\* what the last one returned.
CallOK(t) ==
    /\ base[t] \in CallPCs => t \in Readers /\ Len(got[t]) <= asked[t]
    /\ base[t] \in IdlePCs /\ t \in Readers => got[t] = <<>>
    /\ top[t] = "exit" => base[t] \in {"exit", "user"}

InputInv ==
    /\ RingInv
    /\ doprocdump \in BOOLEAN /\ killed \subseteq Killable
    /\ idx \in [CPUs -> 1 .. NPROC + 1]
    /\ asked \in [Readers -> 0 .. MaxN] /\ got \in [Readers -> Seq(Chars)]
    /\ \A t \in Procs : CallOK(t)
-----------------------------------------------------------------------------
(* The ring.                                                               *)

LEMMA Sizes ==
    /\ INPUT_BUF \in Nat \ {0} /\ WRAP \in Nat \ {0} /\ WRAP > INPUT_BUF
    /\ WRAP % INPUT_BUF = 0
  BY ConsoleConstants

LEMMA CharOfWrapped ==
    ASSUME NEW a \in Int, NEW i \in Int
    PROVE  Char((a % WRAP) + i) = Char(a + i)
<1>1. ((a % WRAP) + i) % INPUT_BUF = (a + i) % INPUT_BUF
  BY Sizes, WrappedPlace
<1> QED BY <1>1 DEF Char

LEMMA RingFacts ==
    ASSUME RingInv
    PROVE  /\ Used \in 0 .. INPUT_BUF /\ Avail \in 0 .. Used /\ Editing = Used - Avail
           /\ Used \in 0 .. WRAP - 1
           /\ w = (r + Avail) % WRAP /\ e = (r + Used) % WRAP
           /\ \A i \in Int : Char(w + i) = Char(r + Avail + i)
           /\ \A i \in Int : Char(e + i) = Char(r + Used + i)
<1> PICK n : n = WRAP
  OBVIOUS
<1>1. n \in Nat \ {0} /\ n > INPUT_BUF /\ INPUT_BUF \in Nat
  BY Sizes
<1>2. /\ r \in Int /\ w \in 0 .. n - 1 /\ e \in 0 .. n - 1 /\ w \in Int /\ e \in Int
      /\ w - r \in Int /\ e - r \in Int
  BY <1>1 DEF RingInv
<1>3. Used \in 0 .. n - 1 /\ Avail \in 0 .. n - 1
  BY <1>1, <1>2, DivMod DEF Used, Avail
<1>4. Used \in 0 .. INPUT_BUF /\ Avail \in 0 .. Used
  BY <1>1, <1>3 DEF RingInv
<1>5. w = (r + Avail) % WRAP /\ e = (r + Used) % WRAP
  <2>1. (r + ((w - r) % n)) % n = w
    BY <1>1, <1>2, Travel
  <2>2. (r + ((e - r) % n)) % n = e
    BY <1>1, <1>2, Travel
  <2> QED BY <2>1, <2>2 DEF Used, Avail
<1> PICK k : k = Avail
  OBVIOUS
<1> PICK u : u = Used
  OBVIOUS
<1>6. Editing = u - k
  <2>1. (e - ((r + k) % n)) % n = (((e - r) % n) - k) % n
    <3>1. n \in Nat \ {0} /\ r \in Int /\ e \in Int /\ k \in Int
      BY <1>1, <1>2, <1>3
    <3> QED BY <3>1, Remaining
  <2>2. (u - k) % n = u - k
    <3>1. u - k \in 0 .. n - 1 /\ u - k \in Int
      BY <1>1, <1>3, <1>4
    <3> QED BY <1>1, <3>1, ModSmall
  <2>3. (e - r) % n = u
    BY DEF Used
  <2>4. (e - w) % n = (e - ((r + k) % n)) % n
    BY <1>5
  <2> QED BY <2>1, <2>2, <2>3, <2>4 DEF Editing
<1>7. ASSUME NEW i \in Int
      PROVE  Char(w + i) = Char(r + Avail + i) /\ Char(e + i) = Char(r + Used + i)
  <2>1. r + k \in Int /\ r + u \in Int
    BY <1>2, <1>3
  <2>2. Char(((r + k) % WRAP) + i) = Char((r + k) + i)
    BY <2>1, CharOfWrapped
  <2>3. Char(((r + u) % WRAP) + i) = Char((r + u) + i)
    BY <2>1, CharOfWrapped
  <2> QED BY <1>5, <2>2, <2>3
<1> QED BY <1>3, <1>4, <1>5, <1>6, <1>7

\* A reader takes the first j characters.
LEMMA TakeRing ==
    ASSUME RingInv, NEW j \in 0 .. Avail, r' = (r + j) % WRAP, UNCHANGED <<buf, w, e>>
    PROVE  /\ RingInv' /\ Used' = Used - j /\ Avail' = Avail - j
           /\ \A i \in Int : Char(r + i)' = Char(r + j + i)
<1> PICK n : n = WRAP
  OBVIOUS
<1>1. n \in Nat \ {0} /\ n > INPUT_BUF /\ INPUT_BUF \in Nat
  BY Sizes
<1>2. /\ r \in Int /\ w \in Int /\ e \in Int /\ j \in Int /\ r + j \in Int
      /\ Used \in 0 .. INPUT_BUF /\ Avail \in 0 .. Used
  <2>1. r \in Int /\ w \in Int /\ e \in Int
    BY <1>1 DEF RingInv
  <2>2. Used \in 0 .. INPUT_BUF /\ Avail \in 0 .. Used
    BY RingFacts
  <2> QED BY <1>1, <2>1, <2>2
<1>3. r' \in 0 .. WRAP - 1
  BY <1>1, <1>2, DivMod
<1>4. Used' = Used - j
  <2>1. (e - ((r + j) % n)) % n = (((e - r) % n) - j) % n
    BY <1>1, <1>2, Remaining
  <2>2. Used - j \in 0 .. n - 1 /\ Used - j \in Int
    BY <1>1, <1>2
  <2>3. (Used - j) % n = Used - j
    BY <1>1, <2>2, ModSmall
  <2> QED BY <2>1, <2>3 DEF Used
<1>5. Avail' = Avail - j
  <2>1. (w - ((r + j) % n)) % n = (((w - r) % n) - j) % n
    BY <1>1, <1>2, Remaining
  <2>2. Avail - j \in 0 .. n - 1 /\ Avail - j \in Int
    BY <1>1, <1>2
  <2>3. (Avail - j) % n = Avail - j
    BY <1>1, <2>2, ModSmall
  <2> QED BY <2>1, <2>3 DEF Avail
<1>6. ASSUME NEW i \in Int PROVE Char(r + i)' = Char(r + j + i)
  <2>1. Char(r + i)' = Char(((r + j) % WRAP) + i)
    BY DEF Char
  <2>2. Char(((r + j) % WRAP) + i) = Char((r + j) + i)
    BY <1>2, CharOfWrapped
  <2> QED BY <2>1, <2>2
<1>7. \A i \in 0 .. Used' - 1 : Char(r + i)' \in Chars
  <2> SUFFICES ASSUME NEW i \in 0 .. Used' - 1 PROVE Char(r + i)' \in Chars
    OBVIOUS
  <2>1. i \in Int /\ j + i \in 0 .. Used - 1 /\ r + j + i = r + (j + i)
    BY <1>2, <1>4
  <2>2. Char(r + (j + i)) \in Chars
    BY <2>1 DEF RingInv
  <2> QED BY <1>6, <2>1, <2>2
<1>8. \A i \in Avail' .. Used' - 1 : Char(r + i)' \notin {Newline, EOF}
  <2> SUFFICES ASSUME NEW i \in Avail' .. Used' - 1 PROVE Char(r + i)' \notin {Newline, EOF}
    OBVIOUS
  <2>1. i \in Int /\ j + i \in Avail .. Used - 1 /\ r + j + i = r + (j + i)
    BY <1>2, <1>4, <1>5
  <2>2. Char(r + (j + i)) \notin {Newline, EOF}
    BY <2>1 DEF RingInv
  <2> QED BY <1>6, <2>1, <2>2
<1>9. Used' <= INPUT_BUF /\ Avail' <= Used'
  BY <1>1, <1>2, <1>4, <1>5
<1>10. RingInv'
  BY <1>3, <1>7, <1>8, <1>9 DEF RingInv
<1> QED BY <1>4, <1>5, <1>6, <1>10

\* The last j characters of the line being typed go.
LEMMA EraseRing ==
    ASSUME RingInv, NEW j \in 0 .. Editing, e' = (e - j) % WRAP, UNCHANGED <<buf, r, w>>
    PROVE  /\ RingInv' /\ Used' = Used - j /\ Avail' = Avail
           /\ \A i : Char(i)' = Char(i)
<1> PICK n : n = WRAP
  OBVIOUS
<1>1. n \in Nat \ {0} /\ n > INPUT_BUF /\ INPUT_BUF \in Nat
  BY Sizes
<1>2. /\ r \in Int /\ w \in Int /\ e \in Int /\ Used \in 0 .. INPUT_BUF
      /\ Avail \in 0 .. Used /\ Editing = Used - Avail
  <2>1. r \in Int /\ w \in Int /\ e \in Int
    BY <1>1 DEF RingInv
  <2>2. /\ Used \in 0 .. INPUT_BUF /\ Avail \in 0 .. Used /\ Editing = Used - Avail
    BY RingFacts
  <2> QED BY <2>1, <2>2
<1>3. j \in Int /\ -j \in Int /\ e - j \in Int /\ e + (-j) = e - j
  BY <1>2
<1>4. e' \in 0 .. WRAP - 1
  BY <1>1, <1>3, DivMod
<1>5. Used' = Used - j
  <2>1. (((e + (-j)) % n) - r) % n = (((e - r) % n) + (-j)) % n
    <3>1. n \in Nat \ {0} /\ r \in Int /\ e \in Int /\ -j \in Int
      BY <1>1, <1>2, <1>3
    <3> QED BY <3>1, Advanced
  <2>2. Used + (-j) \in 0 .. n - 1 /\ Used + (-j) \in Int /\ Used + (-j) = Used - j
    BY <1>1, <1>2
  <2>3. (Used + (-j)) % n = Used - j
    BY <1>1, <2>2, ModSmall
  <2>4. Used' = (((e + (-j)) % n) - r) % n
    BY <1>3 DEF Used
  <2> QED BY <2>1, <2>3, <2>4 DEF Used
<1>6. Avail' = Avail
  BY DEF Avail
<1>7. \A i : Char(i)' = Char(i)
  BY DEF Char
<1>8. \A i : Char(r + i)' = Char(r + i)
  BY DEF Char
<1>9. \A i \in 0 .. Used' - 1 : Char(r + i)' \in Chars
  <2>1. \A i \in 0 .. Used' - 1 : i \in 0 .. Used - 1
    BY <1>2, <1>5
  <2> QED BY <1>8, <2>1 DEF RingInv
<1>10. \A i \in Avail' .. Used' - 1 : Char(r + i)' \notin {Newline, EOF}
  <2>1. \A i \in Avail' .. Used' - 1 : i \in Avail .. Used - 1
    BY <1>2, <1>5, <1>6
  <2> QED BY <1>8, <2>1 DEF RingInv
<1>11. Used' <= INPUT_BUF /\ Avail' <= Used'
  BY <1>1, <1>2, <1>5, <1>6
<1>12. RingInv'
  BY <1>4, <1>9, <1>10, <1>11 DEF RingInv
<1> QED BY <1>5, <1>6, <1>7, <1>12

\* A character is entered.
LEMMA EnterRing ==
    ASSUME RingInv, NEW ch \in Chars, ~Full, buf' = [buf EXCEPT ![e % INPUT_BUF] = ch],
           e' = (e + 1) % WRAP, UNCHANGED r,
           \/ w' = e'
           \/ w' = w /\ ch \notin {Newline, EOF}
    PROVE  /\ RingInv' /\ Used' = Used + 1
           /\ w' = e' => Avail' = Used + 1
           /\ w' = w => Avail' = Avail
           /\ \A i \in 0 .. Used - 1 : Char(r + i)' = Char(r + i)
           /\ \A i : i = Used => Char(r + i)' = ch
           /\ e' = (r + INPUT_BUF) % WRAP <=> Used + 1 = INPUT_BUF
<1> PICK n : n = WRAP
  OBVIOUS
<1> PICK b : b = INPUT_BUF
  OBVIOUS
<1> PICK u : u = Used
  OBVIOUS
<1>1. n \in Nat \ {0} /\ n > b /\ b \in Nat \ {0}
  BY Sizes
<1>2. /\ r \in 0 .. n - 1 /\ e \in 0 .. n - 1 /\ w \in 0 .. n - 1
      /\ buf \in [0 .. b - 1 -> Chars \cup {Nothing}]
  BY DEF RingInv
<1>3. r \in Int /\ e \in Int /\ w \in Int
  BY <1>1, <1>2
<1>4. u \in 0 .. b - 1 /\ Avail \in 0 .. u /\ e = (r + u) % n /\ u \in Int /\ u + 1 \in 0 .. n - 1
  <2>1. Used \in 0 .. INPUT_BUF /\ Avail \in 0 .. Used /\ e = (r + Used) % WRAP
    BY RingFacts
  <2>2. ~(Used >= b)
    BY DEF Full, Used
  <2> QED BY <1>1, <2>1, <2>2
<1>5. e' \in 0 .. n - 1 /\ w' \in 0 .. n - 1
  <2>1. e + 1 \in Int
    BY <1>3
  <2> QED BY <1>1, <1>2, <2>1, DivMod
<1>6. Used' = u + 1
  <2>1. (((e + 1) % n) - r) % n = (((e - r) % n) + 1) % n
    <3>1. n \in Nat \ {0} /\ r \in Int /\ e \in Int /\ 1 \in Int
      BY <1>1, <1>3
    <3> QED BY <3>1, Advanced
  <2>2. (u + 1) % n = u + 1
    <3>1. u + 1 \in 0 .. n - 1 /\ u + 1 \in Int
      BY <1>4
    <3> QED BY <1>1, <3>1, ModSmall
  <2> QED BY <2>1, <2>2 DEF Used
<1>7. w' = e' => Avail' = u + 1
  BY <1>6 DEF Avail, Used
<1>8. w' = w => Avail' = Avail
  BY DEF Avail
<1>9. e % b = (r + u) % b
  <2>1. r + u \in Int /\ WRAP % INPUT_BUF = 0
    BY <1>3, <1>4, Sizes
  <2>2. ((r + u) % n) % b = (r + u) % b
    BY <1>1, <2>1, ModOfMultiple
  <2> QED BY <1>4, <2>2
<1>10. (r + u) % b \in 0 .. b - 1
  <2>1. r + u \in Int
    BY <1>3, <1>4
  <2> QED BY <1>1, <2>1, DivMod
<1>11. ASSUME NEW i \in 0 .. u - 1 PROVE Char(r + i)' = Char(r + i)
  <2> DEFINE d == u - i   a == r + i
  <2>1. d \in 1 .. b - 1 /\ a \in Int /\ a + d = r + u
    BY <1>1, <1>3, <1>4
  <2> HIDE DEF d, a
  <2>2. (a + d) % b # a % b
    BY <1>1, <2>1, Apart
  <2>3. a % b # e % b
    BY <1>9, <2>1, <2>2
  <2>4. buf'[a % b] = buf[a % b]
    BY <1>2, <2>3
  <2>5. Char(r + i)' = buf'[a % b] /\ Char(r + i) = buf[a % b]
    BY DEF Char, a
  <2> QED BY <2>4, <2>5
<1>12. Char(r + u)' = ch
  <2>1. buf'[(r + u) % b] = ch
    BY <1>2, <1>9, <1>10
  <2> QED BY <2>1 DEF Char
<1>13. e' = (r + b) % n <=> u + 1 = b
  <2>1. (e' - r) % n = u + 1
    BY <1>6 DEF Used
  <2>2. (((r + b) % n) - r) % n = b
    <3>1. b \in 0 .. n - 1
      BY <1>1
    <3> QED BY <1>1, <1>3, <3>1, Distance
  <2>3. ASSUME u + 1 = b PROVE e' = (r + b) % n
    <3>1. (r + ((e' - r) % n)) % n = e'
      BY <1>1, <1>3, <1>5, Travel
    <3> QED BY <2>1, <2>3, <3>1
  <2> QED BY <2>1, <2>2, <2>3
<1>14. buf' \in [0 .. b - 1 -> Chars \cup {Nothing}]
  BY <1>2
<1>15. \A i \in 0 .. Used' - 1 : Char(r + i)' \in Chars
  <2> SUFFICES ASSUME NEW i \in 0 .. Used' - 1 PROVE Char(r + i)' \in Chars
    OBVIOUS
  <2>1. i \in 0 .. u - 1 \/ i = u
    BY <1>4, <1>6
  <2> QED BY <1>11, <1>12, <2>1 DEF RingInv
<1>16. \A i \in Avail' .. Used' - 1 : Char(r + i)' \notin {Newline, EOF}
  <2> SUFFICES ASSUME NEW i \in Avail' .. Used' - 1 PROVE Char(r + i)' \notin {Newline, EOF}
    OBVIOUS
  <2>1. CASE w' = e'
    BY <1>4, <1>6, <1>7, <2>1
  <2>2. CASE w' = w /\ ch \notin {Newline, EOF}
    <3>1. i \in Avail .. u - 1 \/ i = u
      BY <1>4, <1>6, <1>8, <2>2
    <3>2. i \in Avail .. u - 1 => i \in 0 .. u - 1
      BY <1>4
    <3> QED BY <1>11, <1>12, <2>2, <3>1, <3>2 DEF RingInv
  <2> QED BY <2>1, <2>2
<1>17. Used' <= b /\ Avail' <= Used'
  BY <1>1, <1>4, <1>6, <1>7, <1>8
<1>18. RingInv'
  <2>1. /\ buf' \in [0 .. INPUT_BUF - 1 -> Chars \cup {Nothing}]
        /\ r' \in 0 .. WRAP - 1 /\ w' \in 0 .. WRAP - 1 /\ e' \in 0 .. WRAP - 1
        /\ Used' <= INPUT_BUF /\ Avail' <= Used'
    BY <1>2, <1>5, <1>14, <1>17
  <2> QED BY <1>15, <1>16, <2>1 DEF RingInv
<1>19. /\ Used' = Used + 1
       /\ w' = e' => Avail' = Used + 1
       /\ w' = w => Avail' = Avail
  BY <1>6, <1>7, <1>8
<1>20. \A i \in 0 .. Used - 1 : Char(r + i)' = Char(r + i)
  BY <1>11
<1>21. \A i : i = Used => Char(r + i)' = ch
  BY <1>12
<1>22. e' = (r + INPUT_BUF) % WRAP <=> Used + 1 = INPUT_BUF
  BY <1>13
<1> QED BY <1>18, <1>19, <1>20, <1>21, <1>22
-----------------------------------------------------------------------------
(* Reading.                                                                *)

LEMMA CopiedFacts ==
    ASSUME RingInv, NEW t
    PROVE  /\ Copied(t) \in 0 .. Avail /\ Stops(t, Copied(t))
           /\ \A m \in 0 .. Avail : Stops(t, m) => Copied(t) <= m
<1> DEFINE S == {k \in 0 .. Avail : Stops(t, k)}
<1>1. Avail \in Nat
  <2>1. Avail \in 0 .. Used /\ Used \in 0 .. INPUT_BUF
    BY RingFacts
  <2> QED BY <2>1
<1>2. Avail \in S
  BY <1>1 DEF Stops
<1>3. S \in SUBSET Nat
  BY <1>1
<1>4. Copied(t) = Min(S)
  BY DEF Copied
<1> HIDE DEF S
<1>5. Min(S) \in S /\ \A y \in S : Min(S) <= y
  BY <1>2, <1>3, MinFacts
<1> QED BY <1>4, <1>5 DEF S

\* What consoleread passes lies between r and w.
LEMMA AdvanceFacts ==
    ASSUME RingInv, NEW t, Advance(t)
    PROVE  \E j \in 0 .. Avail : /\ r' = (r + j) % WRAP
                                 /\ j = Copied(t) + IF EatsEOF(t) THEN 1 ELSE 0
<1> PICK k : k = Copied(t)
  OBVIOUS
<1>1. k \in 0 .. Avail /\ Avail \in Nat /\ r \in Int
  <2>1. Copied(t) \in 0 .. Avail
    BY CopiedFacts
  <2>2. Avail \in 0 .. Used /\ Used \in 0 .. INPUT_BUF
    BY RingFacts
  <2>3. r \in 0 .. WRAP - 1 /\ WRAP \in Nat
    BY Sizes DEF RingInv
  <2> QED BY <2>1, <2>2, <2>3
<1>2. EatsEOF(t) => k < Avail
  BY DEF EatsEOF, AtEOF
<1> DEFINE j == k + IF EatsEOF(t) THEN 1 ELSE 0
<1>3. j \in 0 .. Avail
  BY <1>1, <1>2
<1>4. r' = (r + j) % WRAP
  <2>1. r' = (r + k + (IF EatsEOF(t) THEN 1 ELSE 0)) % WRAP
    BY DEF Advance
  <2>2. CASE EatsEOF(t)
    BY <1>1, <2>1, <2>2
  <2>3. CASE ~EatsEOF(t)
    BY <1>1, <2>1, <2>3
  <2> QED BY <2>2, <2>3
<1> QED BY <1>3, <1>4

LEMMA DstFacts ==
    ASSUME RingInv, NEW t, got[t] \in Seq(Chars)
    PROVE  /\ Dst(t) \in Seq(Chars)
           /\ Len(Dst(t)) = Len(got[t]) + Copied(t)
<1> PICK k : k = Copied(t)
  OBVIOUS
<1> DEFINE s == [i \in 1 .. k |-> Char(r + i - 1)]
<1>1. k \in 0 .. Avail /\ Avail \in 0 .. Used /\ Used \in 0 .. INPUT_BUF /\ r \in Int
      /\ INPUT_BUF \in Nat
  <2>1. Copied(t) \in 0 .. Avail
    BY CopiedFacts
  <2>2. Avail \in 0 .. Used /\ Used \in 0 .. INPUT_BUF
    BY RingFacts
  <2>3. r \in 0 .. WRAP - 1 /\ WRAP \in Nat /\ INPUT_BUF \in Nat
    BY Sizes DEF RingInv
  <2> QED BY <2>1, <2>2, <2>3
<1>2. \A i \in 1 .. k : s[i] \in Chars
  <2> SUFFICES ASSUME NEW i \in 1 .. k PROVE Char(r + i - 1) \in Chars
    OBVIOUS
  <2>1. i - 1 \in 0 .. Used - 1 /\ r + i - 1 = r + (i - 1)
    BY <1>1
  <2> QED BY <2>1 DEF RingInv
<1>3. s \in Seq(Chars) /\ Len(s) = k
  BY <1>1, <1>2
<1>4. Dst(t) = got[t] \o s
  BY DEF Dst
<1> HIDE DEF s
<1>5. got[t] \o s \in Seq(Chars) /\ Len(got[t] \o s) = Len(got[t]) + Len(s)
  BY <1>3, ConcatProperties
<1> QED BY <1>3, <1>4, <1>5

\* A read that does not return has taken all there was.
LEMMA ReadsAll ==
    ASSUME RingInv, NEW t, got[t] \in Seq(Chars), asked[t] \in Nat, Len(got[t]) <= asked[t],
           Advance(t), ~Returns(t)
    PROVE  /\ Copied(t) = Avail /\ Copied(t) < Left(t) /\ ~EatsEOF(t)
           /\ r' = w
<1> PICK k : k = Copied(t)
  OBVIOUS
<1> PICK n : n = Left(t)
  OBVIOUS
<1> PICK v : v = Avail
  OBVIOUS
<1>1. k \in 0 .. v /\ Stops(t, k) /\ \A m \in 0 .. v : Stops(t, m) => k <= m
  BY CopiedFacts
<1>2. v \in Nat /\ n \in Nat
  <2>1. Avail \in 0 .. Used /\ Used \in 0 .. INPUT_BUF
    BY RingFacts
  <2> QED BY <2>1 DEF Left
<1>3. k # n /\ ~AtEOF(t) /\ ~(k > 0 /\ Char(r + k - 1) = Newline)
  BY DEF Returns
<1>4. k < n
  <2>1. CASE n <= v
    <3>1. n \in 0 .. v /\ Stops(t, n)
      BY <1>2, <2>1 DEF Stops
    <3> QED BY <1>1, <1>2, <1>3, <3>1
  <2>2. CASE ~(n <= v)
    BY <1>1, <1>2, <2>2
  <2> QED BY <2>1, <2>2
<1>5. k = v
  <2> SUFFICES ASSUME k # v PROVE FALSE
    OBVIOUS
  <2>1. k < v
    BY <1>1, <1>2
  <2>2. Char(r + k) = EOF
    BY <1>1, <1>3 DEF Stops
  <2>3. AtEOF(t)
    BY <1>3, <1>4, <2>1, <2>2 DEF AtEOF
  <2> QED BY <1>3, <2>3
<1>6. ~EatsEOF(t)
  BY <1>3 DEF EatsEOF
<1>7. r' = (r + k) % WRAP
  <2>1. PICK j \in 0 .. Avail : r' = (r + j) % WRAP /\ j = Copied(t) + IF EatsEOF(t) THEN 1 ELSE 0
    BY AdvanceFacts
  <2>2. j = k
    BY <1>1, <1>6, <2>1
  <2> QED BY <2>1, <2>2
<1>8. w = (r + v) % WRAP
  BY RingFacts
<1> QED BY <1>4, <1>5, <1>6, <1>7, <1>8

\* How far C('U') goes back: to the beginning of the line.
LEMMA ErasesLine == ASSUME RingInv PROVE Erasable = Editing
<1> DEFINE S == {k \in 0 .. Editing : \A i \in 1 .. k : Char(e - i) # Newline}
<1> PICK d : d = Editing
  OBVIOUS
<1>1. /\ Used \in 0 .. INPUT_BUF /\ Avail \in 0 .. Used /\ d = Used - Avail
      /\ \A i \in Int : Char(e + i) = Char(r + Used + i)
      /\ r \in Int /\ e \in Int /\ INPUT_BUF \in Nat
  <2>1. r \in 0 .. WRAP - 1 /\ e \in 0 .. WRAP - 1 /\ WRAP \in Nat /\ INPUT_BUF \in Nat
    BY Sizes DEF RingInv
  <2>2. /\ Used \in 0 .. INPUT_BUF /\ Avail \in 0 .. Used /\ Editing = Used - Avail
        /\ \A i \in Int : Char(e + i) = Char(r + Used + i)
    BY RingFacts
  <2> QED BY <2>1, <2>2
<1>2. ASSUME NEW i \in 1 .. d PROVE Char(e - i) # Newline
  <2>1. -i \in Int /\ e + (-i) = e - i /\ Used - i \in Avail .. Used - 1
        /\ r + Used + (-i) = r + (Used - i)
    BY <1>1
  <2>2. Char(e - i) = Char(r + (Used - i))
    BY <1>1, <2>1
  <2> QED BY <2>1, <2>2 DEF RingInv
<1>3. d \in S /\ \A y \in S : y <= d
  BY <1>1, <1>2
<1>4. Erasable = Max(S)
  BY DEF Erasable, Editing
<1> HIDE DEF S
<1>5. Max(S) \in S /\ \A y \in S : Max(S) >= y
  BY <1>3 DEF Max
<1>6. Max(S) = d
  <2>1. Max(S) <= d /\ Max(S) >= d
    BY <1>3, <1>5
  <2>2. Max(S) \in Int /\ d \in Int
    BY <1>1, <1>5 DEF S
  <2> QED BY <2>1, <2>2
<1> QED BY <1>4, <1>6
-----------------------------------------------------------------------------
(* Calls.                                                                  *)

\* A step that neither reads nor types, and leaves every call where it is.
Quiet ==
    /\ UNCHANGED <<inputVars, readVars>>
    /\ \A t \in Procs :
          /\ base'[t] \in CallPCs <=> base[t] \in CallPCs
          /\ base'[t] \in IdlePCs => base[t] \in IdlePCs
          /\ top'[t] = "exit" => base'[t] \in {"exit", "user"}

LEMMA StackBase ==
    ASSUME StackType, NEW x \in Threads
    PROVE  Base(x) = base[x]
<1>1. stack[x] \in Seq(PCs) /\ Len(stack[x]) \in {1, 2}
  BY DEF StackType
<1>2. Head(stack[x]) = stack[x][1]
  BY <1>1
<1> PICK s : s = stack[x]
  OBVIOUS
<1>3. base[x] = IF (IF Len(s) = 1 THEN "none" ELSE s[2]) = "none" THEN s[1]
                ELSE (IF Len(s) = 1 THEN "none" ELSE s[2])
  BY <1>2 DEF base, top, low
<1>4. Len(s) = 2 => s[2] # "none"
  <2>1. "none" \notin PCs
    BY DEF PCs, Wants
  <2> QED BY <1>1, <2>1
<1>5. Base(x) = s[Len(s)]
  BY DEF Base
<1> QED BY <1>1, <1>3, <1>4, <1>5

\* A handler on a process's stack has a frame below it.
LEMMA HandlerBelow ==
    ASSUME ControlInv, NEW c \in CPUs, current[c] \in Procs
    PROVE  /\ low[current[c]] = "none" =>
                 top[current[c]] \in OpenPCs \cup {"sleep", "slept", "forkret"}
           /\ top[current[c]] \in {"user", "read", "write", "sleep", "slept", "forkret"} =>
                 low[current[c]] = "none"
  BY Here DEF OpenPCs, HandlerPCs, KeyPCs

LEMMA GotoBase ==
    ASSUME ControlInv, NEW c \in CPUs, NEW p \in PCs, Goto(c, p)
    PROVE  /\ current[c] \in Threads
           /\ top' = [top EXCEPT ![current[c]] = p] /\ low' = low
           /\ base' = IF low[current[c]] = "none" THEN [base EXCEPT ![current[c]] = p] ELSE base
<1> PICK x \in Threads : x = current[c]
  BY Here
<1>1. StackType /\ top \in [Threads -> PCs]
  BY Here
<1>2. top' = [top EXCEPT ![x] = p] /\ low' = low
  BY <1>1, GotoTop DEF Goto
<1>3. CASE low[x] = "none"
  <2>1. \A y \in Threads : base'[y] = IF y = x THEN p ELSE base[y]
    BY <1>1, <1>2, <1>3 DEF base
  <2>2. base' = [base EXCEPT ![x] = p]
    BY <2>1 DEF base
  <2> QED BY <1>2, <1>3, <2>2
<1>4. CASE low[x] # "none"
  <2>1. \A y \in Threads : base'[y] = base[y]
    BY <1>1, <1>2, <1>4 DEF base
  <2>2. base' = base
    BY <2>1 DEF base
  <2> QED BY <1>2, <1>4, <2>2
<1> QED BY <1>3, <1>4

LEMMA QuietGoto ==
    ASSUME ControlInv, InputInv, NEW c \in CPUs, NEW p \in PCs, Goto(c, p),
           UNCHANGED <<inputVars, readVars>>,
           current[c] \in Procs /\ low[current[c]] = "none" =>
              /\ p \in CallPCs <=> top[current[c]] \in CallPCs
              /\ p \in IdlePCs => top[current[c]] \in IdlePCs,
           p = "exit" => low[current[c]] = "none"
    PROVE  Quiet
<1> PICK x \in Threads : x = current[c]
  BY Here
<1>1. /\ top' = [top EXCEPT ![x] = p] /\ top \in [Threads -> PCs]
      /\ base' = IF low[x] = "none" THEN [base EXCEPT ![x] = p] ELSE base
  BY GotoBase, Here
<1>2. ASSUME NEW t \in Procs
      PROVE  /\ base'[t] \in CallPCs <=> base[t] \in CallPCs
             /\ base'[t] \in IdlePCs => base[t] \in IdlePCs
             /\ top'[t] = "exit" => base'[t] \in {"exit", "user"}
  <2>1. CallOK(t) /\ t \in Threads
    BY DEF InputInv, Threads
  <2>2. CASE t # x
    <3>1. base'[t] = base[t] /\ top'[t] = top[t]
      BY <1>1, <2>1, <2>2 DEF base
    <3> QED BY <2>1, <3>1 DEF CallOK
  <2>3. CASE t = x /\ low[x] = "none"
    <3>1. base'[t] = p /\ top'[t] = p /\ base[t] = top[t]
      BY <1>1, <2>1, <2>3 DEF base
    <3> QED BY <2>3, <3>1
  <2>4. CASE t = x /\ low[x] # "none"
    <3>1. base'[t] = base[t] /\ top'[t] # "exit"
      BY <1>1, <2>1, <2>4
    <3> QED BY <3>1
  <2> QED BY <2>2, <2>3, <2>4
<1> QED BY <1>2 DEF Quiet

LEMMA QuietStacks ==
    ASSUME InputInv, \A t \in Procs : top'[t] = top[t] /\ low'[t] = low[t],
           UNCHANGED <<inputVars, readVars>>
    PROVE  Quiet
<1> SUFFICES ASSUME NEW t \in Procs
             PROVE  base'[t] = base[t] /\ top'[t] = top[t] /\ CallOK(t)
  BY DEF Quiet, CallOK
<1> QED BY DEF base, Threads, InputInv

LEMMA QuietScheduling ==
    ASSUME ControlInv, InputInv, NEW c \in CPUs, Waiting(c) \/ Scheduling(c)
    PROVE  Quiet
<1> PICK x \in Threads : x = current[c]
  BY Here
<1>1. UNCHANGED <<inputVars, readVars>>
  BY DEF Waiting, Scheduling, StartScan, NothingToRun, GoOnScanning, EndScan, YieldReturns,
         SleepReturns, Resume, Forkret, Yield, Exit, SwitchTo
<1>2. CASE Waiting(c) \/ NothingToRun(c) \/ GoOnScanning(c)
  <2>1. UNCHANGED stack
    BY <1>2 DEF Waiting, NothingToRun, GoOnScanning
  <2>2. top' = top /\ low' = low
    BY <2>1 DEF top, low
  <2> QED BY <1>1, <2>2, QuietStacks
<1>3. CASE StartScan(c)
  <2>1. StackType /\ top \in [Threads -> PCs] /\ DOMAIN low = Threads /\ c \in Threads
    BY Here DEF Threads, low
  <2>2. stack' = [stack EXCEPT ![c] = <<"scan">>] /\ "scan" \in PCs
    BY <1>3 DEF StartScan, PCs
  <2>3. top' = [top EXCEPT ![c] = "scan"] /\ low' = [low EXCEPT ![c] = "none"]
    BY <2>1, <2>2, SetTop
  <2>4. \A t \in Procs : t \in Threads /\ t # c
    BY Names DEF Threads
  <2> QED BY <1>1, <2>1, <2>3, <2>4, QuietStacks
<1>4. CASE EndScan(c)
  <2>1. Goto(c, "idle") /\ top[x] = "scan" /\ "idle" \in PCs
    BY <1>4, Here DEF EndScan, At, PCs, Wants
  <2>2. current[c] \notin Procs
    BY <2>1, Here DEF OpenPCs, HandlerPCs, KeyPCs
  <2>3. "idle" # "exit"
    OBVIOUS
  <2> QED BY <1>1, <2>1, <2>2, <2>3, QuietGoto
<1>5. CASE YieldReturns(c)
  <2>1. Goto(c, "ret") /\ top[x] = "yielded" /\ x \in Procs /\ "ret" \in PCs
    BY <1>5, Here DEF YieldReturns, Resume, At, OnProc, PCs
  <2>2. low[x] # "none"
    BY <2>1, HandlerBelow DEF OpenPCs
  <2> QED BY <1>1, <2>1, <2>2, QuietGoto
<1>6. CASE SleepReturns(c)
  <2>1. Goto(c, "read") /\ top[x] = "slept" /\ "read" \in PCs
    BY <1>6, Here DEF SleepReturns, Resume, At, PCs, Wants
  <2> QED BY <1>1, <2>1, QuietGoto DEF CallPCs, IdlePCs
<1>7. CASE Forkret(c)
  <2>1. Goto(c, "user") /\ top[x] = "forkret" /\ "user" \in PCs
    BY <1>7, Here DEF Forkret, At, PCs
  <2> QED BY <1>1, <2>1, QuietGoto DEF CallPCs, IdlePCs
<1>8. CASE Yield(c)
  <2>1. Goto(c, "yielded") /\ top[x] = "yield" /\ x \in Procs /\ "yielded" \in PCs
    BY <1>8, Here DEF Yield, At, OnProc, PCs
  <2>2. low[x] # "none"
    BY <2>1, HandlerBelow DEF OpenPCs
  <2> QED BY <1>1, <2>1, <2>2, QuietGoto
<1>9. CASE Exit(c)
  <2>1. /\ stack' = [stack EXCEPT ![x] = <<"dead">>] /\ top[x] = "exit" /\ x \in Procs
        /\ "dead" \in PCs /\ StackType /\ top \in [Threads -> PCs] /\ DOMAIN low = Threads
    BY <1>9, Here DEF Exit, At, OnProc, PCs, low
  <2>2. top' = [top EXCEPT ![x] = "dead"] /\ low' = [low EXCEPT ![x] = "none"]
    BY <2>1, SetTop
  <2>3. base[x] \in {"exit", "user"}
    BY <2>1 DEF InputInv, CallOK
  <2>4. ASSUME NEW t \in Procs
        PROVE  /\ base'[t] \in CallPCs <=> base[t] \in CallPCs
               /\ base'[t] \in IdlePCs => base[t] \in IdlePCs
               /\ top'[t] = "exit" => base'[t] \in {"exit", "user"}
    <3>1. CallOK(t) /\ t \in Threads
      BY DEF InputInv, Threads
    <3>2. CASE t # x
      <4>1. base'[t] = base[t] /\ top'[t] = top[t]
        BY <2>1, <2>2, <3>1, <3>2 DEF base
      <4> QED BY <3>1, <4>1 DEF CallOK
    <3>3. CASE t = x
      <4>1. base'[t] = "dead" /\ top'[t] = "dead"
        BY <2>1, <2>2, <3>1, <3>3 DEF base
      <4> QED BY <2>3, <3>3, <4>1 DEF CallPCs, IdlePCs
    <3> QED BY <3>2, <3>3
  <2> QED BY <1>1, <2>4 DEF Quiet
<1> QED BY <1>2, <1>3, <1>4, <1>5, <1>6, <1>7, <1>8, <1>9 DEF Scheduling

LEMMA QuietInterrupt ==
    ASSUME ControlInv, InputInv, NEW c \in CPUs, (Keyboard /\ c = BootCPU) \/ Timer(c)
    PROVE  Quiet
<1> PICK x \in Threads : x = current[c]
  BY Here
<1> PICK p \in {"kbd", "exit", "yield"} :
       Interrupt(c, p) /\ (p = "exit" => top[x] = "user")
  BY Here DEF Keyboard, Timer, At
<1>1. /\ StackType /\ top \in [Threads -> PCs] /\ DOMAIN low = Threads /\ cpu[c].ints
      /\ stack' = [stack EXCEPT ![x] = <<p>> \o @] /\ p \in PCs
  BY Here DEF Interrupt, PCs, Wants, low
<1>2. low[x] = "none"
  BY <1>1 DEF ControlInv, MaskOK
<1>3. top' = [top EXCEPT ![x] = p] /\ low' = [low EXCEPT ![x] = top[x]]
  BY <1>1, <1>2, PushTop
<1>4. top[x] # "none"
  BY <1>1 DEF PCs, Wants
<1>5. ASSUME NEW t \in Procs
      PROVE  base'[t] = base[t] /\ (top'[t] = "exit" => base'[t] \in {"exit", "user"})
  <2>1. CallOK(t) /\ t \in Threads
    BY DEF InputInv, Threads
  <2>2. CASE t # x
    BY <1>1, <1>3, <2>1, <2>2 DEF base, CallOK
  <2>3. CASE t = x
    BY <1>1, <1>2, <1>3, <1>4, <2>1, <2>3 DEF base
  <2> QED BY <2>2, <2>3
<1>6. UNCHANGED <<inputVars, readVars>>
  BY DEF Interrupt
<1> QED BY <1>5, <1>6 DEF Quiet

LEMMA QuietCalls ==
    ASSUME ControlInv, InputInv, NEW c \in CPUs,
           \/ StartWrite(c) \/ Write(c) \/ Sleep(c)
           \/ StartIntr(c) \/ Wakeup(c) \/ IntrEnds(c) \/ Dump(c)
    PROVE  Quiet
<1> PICK x \in Threads : x = current[c]
  BY Here
<1>1. UNCHANGED <<inputVars, readVars>>
  BY DEF StartWrite, Call, Write, Sleep, StartIntr, Wakeup, IntrEnds, Dump
<1>2. CASE StartWrite(c)
  <2> PICK p \in {"write", "exit"} : Goto(c, p)
    BY <1>2 DEF StartWrite, Call
  <2>1. top[x] = "user" /\ p \in PCs /\ x \in Procs
    BY <1>2, Here DEF StartWrite, Call, At, OnProc, PCs, Wants
  <2>2. low[x] = "none"
    BY <2>1, HandlerBelow
  <2> QED BY <1>1, <2>1, <2>2, QuietGoto DEF CallPCs, IdlePCs
<1>3. CASE Write(c)
  <2>1. Goto(c, "ret") /\ top[x] = "write" /\ "ret" \in PCs
    BY <1>3, Here DEF Write, At, PCs
  <2> QED BY <1>1, <2>1, QuietGoto DEF CallPCs, IdlePCs
<1>4. CASE Sleep(c)
  <2>1. Goto(c, "slept") /\ top[x] = "sleep" /\ "slept" \in PCs
    BY <1>4, Here DEF Sleep, At, PCs
  <2> QED BY <1>1, <2>1, QuietGoto DEF CallPCs, IdlePCs
<1>5. CASE StartIntr(c) \/ Wakeup(c) \/ IntrEnds(c) \/ Dump(c)
  <2> PICK p \in {"getc", "dump", "ret"} : Goto(c, p)
    BY <1>5 DEF StartIntr, Wakeup, IntrEnds, Dump
  <2>1. top[x] \in {"kbd", "wakeup", "getc", "dump"} /\ p \in PCs
    BY <1>5, Here DEF StartIntr, Wakeup, IntrEnds, Dump, At, PCs, Wants
  <2>2. x \in Procs => low[x] # "none"
    BY <2>1, HandlerBelow DEF OpenPCs
  <2> QED BY <1>1, <2>1, <2>2, QuietGoto
<1> QED BY <1>2, <1>3, <1>4, <1>5

LEMMA QuietKill == ASSUME ControlInv, InputInv, NEW t \in Procs, Kill(t) PROVE Quiet
<1>1. UNCHANGED <<inputVars, readVars, stack>>
  BY DEF Kill
<1>2. top' = top /\ low' = low
  BY <1>1 DEF top, low
<1> QED BY <1>1, <1>2, QuietStacks

LEMMA QuietNothing == ASSUME ControlInv, InputInv, UNCHANGED vars PROVE Quiet
<1>1. UNCHANGED <<inputVars, readVars, stack>>
  BY DEF vars
<1>2. top' = top /\ low' = low
  BY <1>1 DEF top, low
<1> QED BY <1>1, <1>2, QuietStacks

\* What else InputInv says.
OtherTypes == /\ doprocdump \in BOOLEAN /\ killed \subseteq Killable
              /\ idx \in [CPUs -> 1 .. NPROC + 1]

LEMMA QuietInput == ASSUME InputInv, Quiet, OtherTypes' PROVE InputInv'
<1>1. UNCHANGED <<buf, r, w, e, asked, got>>
  BY DEF Quiet, inputVars, readVars
<1>2. RingInv'
  BY <1>1 DEF InputInv, RingInv, Used, Avail, Char
<1>3. ASSUME NEW t \in Procs PROVE CallOK(t)'
  BY <1>1 DEF InputInv, Quiet, CallOK
<1> QED BY <1>1, <1>2, <1>3 DEF InputInv, OtherTypes

LEMMA KeepsTypes ==
    ASSUME ControlInv, InputInv, [Next]_vars
    PROVE  OtherTypes'
<1>1. OtherTypes
  BY DEF OtherTypes, InputInv
<1>2. CASE UNCHANGED <<doprocdump, killed, idx>>
  BY <1>1, <1>2 DEF OtherTypes
<1>3. ASSUME NEW c \in CPUs, StartScan(c) \/ GoOnScanning(c) PROVE OtherTypes'
  <2>1. UNCHANGED <<doprocdump, killed>>
    BY <1>3 DEF StartScan, GoOnScanning, SwitchTo
  <2> PICK t \in Procs : idx' = [idx EXCEPT ![c] = t + 1]
    BY <1>3, CandidateFacts DEF StartScan, GoOnScanning, SwitchTo
  <2>2. t + 1 \in 1 .. NPROC + 1
    BY ConsoleConstants DEF Procs
  <2> QED BY <1>1, <2>1, <2>2 DEF OtherTypes
<1>4. ASSUME NEW c \in CPUs, EndScan(c) PROVE OtherTypes'
  <2>1. UNCHANGED <<doprocdump, killed>> /\ idx' = [idx EXCEPT ![c] = 1]
    BY <1>4 DEF EndScan
  <2>2. 1 \in 1 .. NPROC + 1
    BY ConsoleConstants
  <2> QED BY <1>1, <2>1, <2>2 DEF OtherTypes
<1>5. ASSUME NEW c \in CPUs, Key(c) \/ Dump(c) PROVE OtherTypes'
  <2>1. UNCHANGED <<killed, idx>>
    BY <1>5 DEF Key, List, EraseLine, EraseChar, EnterChar, Getc, Dump, procVars
  <2>2. doprocdump' \in {doprocdump, TRUE, FALSE}
    BY <1>5 DEF Key, List, EraseLine, EraseChar, EnterChar, Dump
  <2> QED BY <1>1, <2>1, <2>2 DEF OtherTypes
<1>6. ASSUME NEW t \in Procs, Kill(t) PROVE OtherTypes'
  <2>1. UNCHANGED <<doprocdump, idx>> /\ killed' = killed \cup {t} /\ t \in Killable
    BY <1>6 DEF Kill
  <2> QED BY <1>1, <2>1 DEF OtherTypes
<1>7. ASSUME NEW c \in CPUs, Waiting(c) \/ Scheduling(c)
      PROVE  OtherTypes'
  <2>1. CASE \/ Waiting(c) \/ NothingToRun(c) \/ YieldReturns(c) \/ SleepReturns(c)
             \/ Forkret(c) \/ Yield(c) \/ Exit(c)
    <3>1. UNCHANGED <<doprocdump, killed, idx>>
      BY <2>1 DEF Waiting, NothingToRun, YieldReturns, SleepReturns, Resume, Forkret, Yield,
                  Exit, procVars
    <3> QED BY <1>2, <3>1
  <2> QED BY <1>3, <1>4, <1>7, <2>1 DEF Scheduling
<1>8. ASSUME NEW c \in CPUs, Reading(c) PROVE OtherTypes'
  <2>1. UNCHANGED <<doprocdump, killed, idx>>
    BY <1>8 DEF Reading, StartRead, Call, ReadReturns, ReadFails, ReadWaits, Sleep, procVars
  <2> QED BY <1>2, <2>1
<1>9. ASSUME NEW c \in CPUs, Handler(c) PROVE OtherTypes'
  <2>1. CASE StartIntr(c) \/ Wakeup(c) \/ IntrEnds(c)
    <3>1. UNCHANGED <<doprocdump, killed, idx>>
      BY <2>1 DEF StartIntr, Wakeup, IntrEnds, procVars
    <3> QED BY <1>2, <3>1
  <2> QED BY <1>5, <1>9, <2>1 DEF Handler
<1>10. ASSUME NEW c \in CPUs, \/ StartWrite(c) \/ Write(c) \/ Timer(c) \/ TrapEnds(c)
                              \/ Keyboard
       PROVE  OtherTypes'
  <2>1. UNCHANGED <<doprocdump, killed, idx>>
    BY <1>10 DEF StartWrite, Call, Write, Timer, TrapEnds, Keyboard, Interrupt, procVars
  <2> QED BY <1>2, <2>1
<1>11. CASE UNCHANGED vars
  <2>1. UNCHANGED <<doprocdump, killed, idx>>
    BY <1>11 DEF vars, procVars
  <2> QED BY <1>2, <2>1
<1>12. BootCPU \in CPUs
  BY ConsoleConstants
<1> QED BY <1>6, <1>7, <1>8, <1>9, <1>10, <1>11, <1>12 DEF Next
-----------------------------------------------------------------------------
(* The steps that read, type, or hand over what was read.                  *)

LEMMA InReadFacts ==
    ASSUME ControlInv, InputInv, NEW c \in CPUs, InRead(c)
    PROVE  /\ current[c] \in Procs /\ current[c] \in Readers /\ current[c] \in Threads
           /\ top[current[c]] = "read" /\ low[current[c]] = "none" /\ base[current[c]] = "read"
           /\ got[current[c]] \in Seq(Chars) /\ asked[current[c]] \in 0 .. MaxN
           /\ asked[current[c]] \in Nat /\ Len(got[current[c]]) <= asked[current[c]]
<1> PICK x \in Threads : x = current[c]
  BY Here
<1>1. x \in Procs /\ top[x] = "read" /\ low[x] = "none"
  BY Here, HandlerBelow DEF InRead, OnProc, At
<1>2. base[x] = "read"
  BY <1>1 DEF base
<1>3. x \in Readers /\ Len(got[x]) <= asked[x]
  BY <1>1, <1>2 DEF InputInv, CallOK, CallPCs
<1>4. got[x] \in Seq(Chars) /\ asked[x] \in 0 .. MaxN /\ MaxN \in Nat
  BY <1>3, ConsoleConstants DEF InputInv
<1> QED BY <1>1, <1>2, <1>3, <1>4

LEMMA OtherCalls ==
    ASSUME InputInv, NEW x \in Threads, NEW p, NEW t \in Procs, t # x,
           top' = [top EXCEPT ![x] = p], base'[t] = base[t],
           t \in Readers => got'[t] = got[t] /\ asked'[t] = asked[t]
    PROVE  CallOK(t)'
<1>1. CallOK(t) /\ t \in Threads
  BY DEF InputInv, Threads
<1>2. top'[t] = top[t]
  BY <1>1 DEF top
<1> QED BY <1>1, <1>2 DEF CallOK

LEMMA ReadInput ==
    ASSUME ControlInv, InputInv, NEW c \in CPUs,
           ReadReturns(c) \/ ReadFails(c) \/ ReadWaits(c), OtherTypes'
    PROVE  InputInv'
<1> PICK x \in Threads : x = current[c]
  BY Here
<1>1. /\ InRead(c) /\ Advance(x) /\ UNCHANGED <<buf, w, e>>
  BY DEF ReadReturns, ReadFails, ReadWaits
<1>2. /\ x \in Procs /\ x \in Readers /\ low[x] = "none" /\ base[x] = "read"
      /\ got[x] \in Seq(Chars) /\ asked[x] \in 0 .. MaxN
      /\ asked[x] \in Nat /\ Len(got[x]) <= asked[x]
  BY <1>1, InReadFacts
<1>3. RingInv /\ got \in [Readers -> Seq(Chars)] /\ asked \in [Readers -> 0 .. MaxN]
  BY DEF InputInv
<1>4. RingInv'
  <2>1. PICK j \in 0 .. Avail : r' = (r + j) % WRAP
    BY <1>1, <1>3, AdvanceFacts
  <2> QED BY <1>1, <1>3, <2>1, TakeRing
<1>5. Dst(x) \in Seq(Chars) /\ Len(Dst(x)) = Len(got[x]) + Copied(x)
  BY <1>2, <1>3, DstFacts
<1> PICK p \in {"ret", "sleep"} : Goto(c, p) /\ (p = "sleep" => ReadWaits(c))
  BY DEF ReadReturns, ReadFails, ReadWaits
<1>6. p \in PCs
  BY DEF PCs, Wants
<1>7. top' = [top EXCEPT ![x] = p] /\ base' = [base EXCEPT ![x] = p]
  BY <1>2, <1>6, GotoBase
<1>8. /\ got' \in [Readers -> Seq(Chars)] /\ asked' \in [Readers -> 0 .. MaxN]
      /\ \A t \in Readers : t # x => got'[t] = got[t] /\ asked'[t] = asked[t]
  <2>1. <<>> \in Seq(Chars) /\ 0 \in 0 .. MaxN
    BY ConsoleConstants
  <2>2. got' \in {[got EXCEPT ![x] = Dst(x)], [got EXCEPT ![x] = <<>>]}
    BY DEF ReadReturns, ReadFails, ReadWaits
  <2>3. asked' \in {[asked EXCEPT ![x] = 0], asked}
    BY DEF ReadReturns, ReadFails, ReadWaits
  <2> QED BY <1>3, <1>5, <2>1, <2>2, <2>3
<1>9. ASSUME NEW t \in Procs PROVE CallOK(t)'
  <2>1. CASE t # x
    <3>1. base'[t] = base[t]
      BY <1>7, <2>1 DEF base, Threads
    <3> QED BY <1>7, <1>8, <2>1, <3>1, OtherCalls
  <2>2. CASE t = x /\ p = "ret"
    <3>1. base'[t] = "ret" /\ top'[t] = "ret"
      BY <1>7, <2>2 DEF base, top
    <3> QED BY <3>1 DEF CallOK, CallPCs, IdlePCs
  <2>3. CASE t = x /\ p = "sleep"
    <3>1. base'[t] = "sleep" /\ top'[t] = "sleep"
      BY <1>7, <2>3 DEF base, top
    <3>2. /\ UNCHANGED asked /\ got' = [got EXCEPT ![x] = Dst(x)] /\ ~Returns(x)
      BY <2>3 DEF ReadWaits
    <3>3. got'[x] = Dst(x) /\ asked'[x] = asked[x]
      BY <1>2, <1>3, <3>2
    <3>4. Copied(x) < Left(x)
      BY <1>1, <1>2, <1>3, <3>2, ReadsAll
    <3>5. Len(got[x]) + Copied(x) <= asked[x]
      <4>1. Copied(x) \in 0 .. Avail /\ Avail \in Nat
        <5>1. Avail \in 0 .. Used /\ Used \in 0 .. INPUT_BUF
          BY <1>3, RingFacts
        <5> QED BY <1>3, <5>1, CopiedFacts
      <4> QED BY <1>2, <3>4, <4>1 DEF Left
    <3>6. Len(got'[t]) <= asked'[t]
      BY <1>5, <2>3, <3>3, <3>5
    <3> QED BY <1>2, <2>3, <3>1, <3>6 DEF CallOK, IdlePCs
  <2> QED BY <2>1, <2>2, <2>3
<1> QED BY <1>4, <1>8, <1>9 DEF InputInv, OtherTypes

LEMMA StartReadInput ==
    ASSUME ControlInv, InputInv, NEW c \in CPUs, StartRead(c), OtherTypes'
    PROVE  InputInv'
<1> PICK x \in Threads : x = current[c]
  BY Here
<1>1. /\ x \in Procs /\ x \in Readers /\ top[x] = "user" /\ UNCHANGED <<buf, r, w, e, got>>
  BY Here DEF StartRead, Call, OnProc, At, inputVars, readVars
<1>2. low[x] = "none"
  BY <1>1, HandlerBelow
<1>3. got \in [Readers -> Seq(Chars)] /\ asked \in [Readers -> 0 .. MaxN] /\ MaxN \in Nat
  BY ConsoleConstants DEF InputInv
<1> PICK p \in {"read", "exit"} : Goto(c, p)
  BY DEF StartRead, Call
<1>4. p \in PCs
  BY DEF PCs, Wants
<1>5. top' = [top EXCEPT ![x] = p] /\ base' = [base EXCEPT ![x] = p]
  BY <1>2, <1>4, GotoBase
<1>6. /\ asked' \in [Readers -> 0 .. MaxN]
      /\ \A t \in Readers : t # x => asked'[t] = asked[t]
  <2>1. UNCHANGED asked \/ \E n \in 0 .. MaxN : asked' = [asked EXCEPT ![x] = n]
    BY DEF StartRead, readVars
  <2> QED BY <1>3, <2>1
<1>7. got[x] = <<>>
  <2>1. base[x] = "user" /\ CallOK(x)
    BY <1>1, <1>2 DEF base, InputInv
  <2> QED BY <1>1, <2>1 DEF CallOK, IdlePCs
<1>8. RingInv'
  BY <1>1 DEF InputInv, RingInv, Used, Avail, Char
<1>9. ASSUME NEW t \in Procs PROVE CallOK(t)'
  <2>1. CASE t # x
    <3>1. base'[t] = base[t]
      BY <1>5, <2>1 DEF base, Threads
    <3> QED BY <1>1, <1>5, <1>6, <2>1, <3>1, OtherCalls
  <2>2. CASE t = x
    <3>1. base'[t] = p /\ top'[t] = p
      BY <1>5, <2>2 DEF base, top
    <3>2. Len(got'[x]) = 0 /\ asked'[x] \in Nat
      BY <1>1, <1>3, <1>6, <1>7
    <3>3. Len(got'[x]) <= asked'[x]
      BY <3>2
    <3> QED BY <1>1, <2>2, <3>1, <3>3 DEF CallOK, CallPCs, IdlePCs
  <2> QED BY <2>1, <2>2
<1> QED BY <1>1, <1>3, <1>6, <1>8, <1>9 DEF InputInv, OtherTypes

\* What a return from a trap does to a stack.
LEMMA TrapBase ==
    ASSUME ControlInv, NEW c \in CPUs, TrapEnds(c)
    PROVE  /\ top[current[c]] = "ret" /\ current[c] \in Threads
           /\ \E p : top' = [top EXCEPT ![current[c]] = p]
           /\ \A t \in Threads : t # current[c] => base'[t] = base[t]
           /\ low[current[c]] # "none" => base'[current[c]] = base[current[c]]
           /\ low[current[c]] = "none" =>
                 base[current[c]] = "ret" /\ base'[current[c]] \in {"user", "exit"}
           /\ top'[current[c]] = "exit" => base'[current[c]] \in {"exit", "user"}
<1> PICK x \in Threads : x = current[c]
  BY Here
<1>1. /\ StackType /\ top \in [Threads -> PCs] /\ low \in [Threads -> PCs \cup {"none"}]
      /\ top[x] = "ret" /\ (low[x] = "none" <=> Len(stack[x]) = 1)
  BY Here, LowFacts DEF TrapEnds, At
<1>2. CASE FromUser(x) /\ Goto(c, "exit")
  <2>1. "exit" \in PCs
    BY DEF PCs, Wants
  <2>2. /\ top' = [top EXCEPT ![x] = "exit"]
        /\ base' = IF low[x] = "none" THEN [base EXCEPT ![x] = "exit"] ELSE base
    BY <1>2, <2>1, GotoBase
  <2>3. low[x] # "none" => low[x] = "user"
    BY <1>1, <1>2 DEF FromUser, low
  <2>4. base[x] = IF low[x] = "none" THEN "ret" ELSE "user"
    BY <1>1, <2>3 DEF base
  <2>5. DOMAIN base = Threads
    BY DEF base
  <2> QED BY <1>1, <2>2, <2>4, <2>5
<1>3. CASE Iret(c)
  <2> PICK p : p = IF low[x] = "none" THEN "user" ELSE low[x]
    OBVIOUS
  <2>1. top' = [top EXCEPT ![x] = p] /\ low' = [low EXCEPT ![x] = "none"]
    <3>1. CASE low[x] = "none"
      <4>1. stack' = [stack EXCEPT ![x] = <<"user">>] /\ "user" \in PCs
        BY <1>1, <1>3, <3>1 DEF Iret, PCs
      <4> QED BY <1>1, <3>1, <4>1, SetTop
    <3>2. CASE low[x] # "none"
      <4>1. stack' = [stack EXCEPT ![x] = Tail(@)]
        BY <1>1, <1>3, <3>2 DEF Iret
      <4> QED BY <1>1, <3>2, <4>1, PopTop
    <3> QED BY <3>1, <3>2
  <2>2. top'[x] = p /\ low'[x] = "none"
    BY <1>1, <2>1
  <2>3. base'[x] = p
    BY <2>2 DEF base
  <2>4. \A t \in Threads : t # x => base'[t] = base[t]
    BY <1>1, <2>1 DEF base
  <2>5. base[x] = IF low[x] = "none" THEN "ret" ELSE low[x]
    BY <1>1 DEF base
  <2> QED BY <1>1, <2>1, <2>2, <2>3, <2>4, <2>5
<1> QED BY <1>2, <1>3 DEF TrapEnds

LEMMA TrapEndsInput ==
    ASSUME ControlInv, InputInv, NEW c \in CPUs, TrapEnds(c), OtherTypes'
    PROVE  InputInv'
<1> PICK x \in Threads : x = current[c]
  BY Here
<1> PICK p : top' = [top EXCEPT ![x] = p]
  BY TrapBase
<1>1. /\ top[x] = "ret"
      /\ \A t \in Threads : t # x => base'[t] = base[t]
      /\ low[x] # "none" => base'[x] = base[x]
      /\ low[x] = "none" => base'[x] \in {"user", "exit"}
      /\ top'[x] = "exit" => base'[x] \in {"exit", "user"}
  BY TrapBase
<1>2. UNCHANGED <<buf, r, w, e, asked>>
  BY DEF TrapEnds, inputVars
<1>3. low[x] = "none" <=> Len(stack[x]) = 1
  BY LowFacts DEF ControlInv
<1>4. got' = IF x \in Readers /\ low[x] = "none" THEN [got EXCEPT ![x] = <<>>] ELSE got
  BY <1>3 DEF TrapEnds
<1>5. got \in [Readers -> Seq(Chars)]
  BY DEF InputInv
<1>6. /\ got' \in [Readers -> Seq(Chars)]
      /\ \A t \in Readers : t # x => got'[t] = got[t]
      /\ x \in Readers => got'[x] = IF low[x] = "none" THEN <<>> ELSE got[x]
  <2>1. <<>> \in Seq(Chars)
    OBVIOUS
  <2> QED BY <1>4, <1>5, <2>1
<1>7. RingInv'
  BY <1>2 DEF InputInv, RingInv, Used, Avail, Char
<1>8. ASSUME NEW t \in Procs PROVE CallOK(t)'
  <2>1. CASE t # x
    <3>1. base'[t] = base[t]
      BY <1>1, <2>1 DEF Threads
    <3> QED BY <1>2, <1>6, <2>1, <3>1, OtherCalls
  <2>2. CASE t = x
    <3>1. CallOK(x)
      BY <2>2 DEF InputInv
    <3>2. CASE low[x] = "none"
      BY <1>1, <1>6, <2>2, <3>2 DEF CallOK, CallPCs
    <3>3. CASE low[x] # "none"
      <4>1. /\ base'[x] = base[x] /\ UNCHANGED asked /\ (x \in Readers => got'[x] = got[x])
            /\ top'[x] = "exit" => base'[x] \in {"exit", "user"}
        BY <1>1, <1>2, <1>6, <3>3
      <4>2. /\ base[x] \in CallPCs => x \in Readers /\ Len(got[x]) <= asked[x]
            /\ base[x] \in IdlePCs /\ x \in Readers => got[x] = <<>>
        BY <3>1 DEF CallOK
      <4> QED BY <2>2, <4>1, <4>2 DEF CallOK
    <3> QED BY <3>2, <3>3
  <2> QED BY <2>1, <2>2
<1> QED BY <1>2, <1>6, <1>7, <1>8 DEF InputInv, OtherTypes

LEMMA KeyBase ==
    ASSUME ControlInv, NEW c \in CPUs, Key(c)
    PROVE  /\ UNCHANGED <<asked, got>>
           /\ \A t \in Procs : base'[t] = base[t] /\ (top'[t] = "exit" => top[t] = "exit")
<1> PICK x \in Threads : x = current[c]
  BY Here
<1>1. /\ top[x] = "getc" /\ top \in [Threads -> PCs] /\ UNCHANGED <<asked, got>>
  BY Here DEF Key, List, EraseLine, EraseChar, EnterChar, Getc, At, readVars
<1>2. CASE Goto(c, "wakeup")
  <2>1. "wakeup" \in PCs
    BY DEF PCs, Wants
  <2>2. /\ top' = [top EXCEPT ![x] = "wakeup"]
        /\ base' = IF low[x] = "none" THEN [base EXCEPT ![x] = "wakeup"] ELSE base
    BY <1>2, <2>1, GotoBase
  <2>3. x \in Procs => low[x] # "none"
    BY <1>1, HandlerBelow DEF OpenPCs
  <2>4. \A t \in Procs : t \in Threads
    BY DEF Threads
  <2>5. DOMAIN base = Threads
    BY DEF base
  <2> QED BY <1>1, <2>2, <2>3, <2>4, <2>5
<1>3. CASE UNCHANGED stack
  <2>1. top' = top /\ low' = low
    BY <1>3 DEF top, low
  <2>2. base' = base
    BY <2>1 DEF base
  <2> QED BY <1>1, <2>1, <2>2
<1>4. Goto(c, "wakeup") \/ UNCHANGED stack
  BY DEF Key, List, EraseLine, EraseChar, EnterChar
<1> QED BY <1>2, <1>3, <1>4

\* What a key does to the ring: nothing, or it erases j characters, or adds one.
Erases(j) == e' = (e - j) % WRAP /\ UNCHANGED <<buf, r, w>>

Enters(ch) ==
    /\ ~Full /\ UNCHANGED r
    /\ buf' = [buf EXCEPT ![e % INPUT_BUF] = ch]
    /\ e' = (e + 1) % WRAP
    /\ w' = IF ch \in {Newline, EOF} \/ e' = (r + INPUT_BUF) % WRAP THEN e' ELSE w

LEMMA KeyRing ==
    ASSUME RingInv, NEW c \in CPUs, Key(c)
    PROVE  \/ UNCHANGED inputVars
           \/ Editing \in Nat \ {0} /\ \E j \in {1, Editing} : Erases(j)
           \/ \E ch \in Chars : Enters(ch)
<1>1. /\ Editing \in Nat /\ (e # w => Editing # 0)
      /\ Editing = 0 => e = w
  <2>1. /\ Used \in 0 .. INPUT_BUF /\ Avail \in 0 .. Used /\ Editing = Used - Avail
        /\ w = (r + Avail) % WRAP /\ e = (r + Used) % WRAP
    BY RingFacts
  <2>2. Editing = 0 => Used = Avail
    BY <2>1
  <2>3. Editing \in Nat
    BY <2>1
  <2> QED BY <2>1, <2>2, <2>3
<1>2. CASE List(c)
  BY <1>2 DEF List
<1>3. CASE EraseLine(c)
  <2>1. e' = (e - Editing) % WRAP /\ UNCHANGED <<buf, r, w>>
    BY <1>3, ErasesLine DEF EraseLine
  <2>2. CASE Editing = 0
    <3>1. e \in 0 .. WRAP - 1 /\ WRAP \in Nat \ {0}
      BY Sizes DEF RingInv
    <3>2. e - Editing = e /\ e \in Int
      BY <2>2, <3>1
    <3>3. e % WRAP = e
      BY <3>1, <3>2, ModSmall
    <3> QED BY <2>1, <3>2, <3>3 DEF inputVars
  <2>3. CASE Editing # 0
    BY <1>1, <2>1, <2>3 DEF Erases
  <2> QED BY <2>2, <2>3
<1>4. CASE EraseChar(c)
  <2>1. e' = (e - 1) % WRAP /\ UNCHANGED <<buf, r, w>> /\ e # w
    BY <1>4 DEF EraseChar
  <2> QED BY <1>1, <2>1 DEF Erases
<1>5. ASSUME NEW k, EnterChar(c, k) PROVE \E ch \in Chars : Enters(ch)
  <2>1. k \in Chars /\ ~Full /\ UNCHANGED r /\ e' = (e + 1) % WRAP
        /\ buf' = [buf EXCEPT ![e % INPUT_BUF] = k]
    BY <1>5 DEF EnterChar
  <2>2. w' = IF k \in {Newline, EOF} \/ e' = (r + INPUT_BUF) % WRAP THEN e' ELSE w
    BY <1>5 DEF EnterChar, EndsLine
  <2> QED BY <2>1, <2>2 DEF Enters
<1> QED BY <1>2, <1>3, <1>4, <1>5 DEF Key

LEMMA KeyInput ==
    ASSUME ControlInv, InputInv, NEW c \in CPUs, Key(c), OtherTypes'
    PROVE  InputInv'
<1>1. RingInv
  BY DEF InputInv
<1>2. RingInv'
  <2>1. CASE UNCHANGED inputVars
    BY <1>1, <2>1 DEF inputVars, RingInv, Used, Avail, Char
  <2>2. ASSUME Editing \in Nat \ {0}, NEW j \in {1, Editing}, Erases(j) PROVE RingInv'
    <3>1. j \in 0 .. Editing
      BY <2>2
    <3>2. e' = (e - j) % WRAP /\ UNCHANGED <<buf, r, w>>
      BY <2>2 DEF Erases
    <3> QED BY <1>1, <3>1, <3>2, EraseRing
  <2>3. ASSUME NEW ch \in Chars, Enters(ch) PROVE RingInv'
    <3>1. /\ ~Full /\ UNCHANGED r /\ buf' = [buf EXCEPT ![e % INPUT_BUF] = ch]
          /\ e' = (e + 1) % WRAP
          /\ w' = e' \/ (w' = w /\ ch \notin {Newline, EOF})
      BY <2>3 DEF Enters
    <3> QED BY <1>1, <3>1, EnterRing
  <2> QED BY <1>1, <2>1, <2>2, <2>3, KeyRing
<1>3. UNCHANGED <<asked, got>>
      /\ \A t \in Procs : base'[t] = base[t] /\ (top'[t] = "exit" => top[t] = "exit")
  BY KeyBase
<1>4. ASSUME NEW t \in Procs PROVE CallOK(t)'
  BY <1>3 DEF InputInv, CallOK
<1> QED BY <1>2, <1>3, <1>4 DEF InputInv, OtherTypes

LEMMA InitInput == Init => InputInv
<1> SUFFICES ASSUME Init PROVE InputInv
  OBVIOUS
<1>1. r = 0 /\ w = 0 /\ e = 0 /\ WRAP \in Nat \ {0} /\ INPUT_BUF \in Nat
  BY Sizes DEF Init
<1>2. Used = 0 /\ Avail = 0
  <2>1. 0 % WRAP = 0 /\ 0 - 0 = 0
    <3>1. 0 \in 0 .. WRAP - 1 /\ 0 \in Int
      BY <1>1
    <3> QED BY <1>1, <3>1, ModSmall
  <2> QED BY <1>1, <2>1 DEF Used, Avail
<1>3. RingInv
  BY <1>1, <1>2 DEF RingInv, Init
<1>4. /\ \A t \in Readers : got[t] = <<>>
      /\ got \in [Readers -> Seq(Chars)] /\ asked \in [Readers -> 0 .. MaxN]
      /\ idx \in [CPUs -> 1 .. NPROC + 1] /\ doprocdump \in BOOLEAN /\ killed \subseteq Killable
  <2>1. <<>> \in Seq(Chars) /\ 0 \in 0 .. MaxN /\ 1 \in 1 .. NPROC + 1
    BY ConsoleConstants
  <2> QED BY <2>1 DEF Init
<1>5. ASSUME NEW t \in Procs PROVE CallOK(t)
  <2>1. stack[t] = <<"forkret">> /\ t \in Threads
    BY DEF Init, Threads
  <2>2. top[t] = "forkret" /\ low[t] = "none"
    <3>1. Len(<<"forkret">>) = 1 /\ Head(<<"forkret">>) = "forkret"
      OBVIOUS
    <3> QED BY <2>1, <3>1 DEF top, low
  <2>3. base[t] = "forkret"
    BY <2>1, <2>2 DEF base
  <2> QED BY <1>4, <2>2, <2>3 DEF CallOK, CallPCs
<1> QED BY <1>3, <1>4, <1>5 DEF InputInv

LEMMA NextInput == ControlInv /\ InputInv /\ [Next]_vars => InputInv'
<1> SUFFICES ASSUME ControlInv, InputInv, [Next]_vars PROVE InputInv'
  OBVIOUS
<1>1. OtherTypes'
  BY KeepsTypes
<1>2. CASE Quiet
  BY <1>1, <1>2, QuietInput
<1>3. ASSUME NEW c \in CPUs, Waiting(c) \/ Scheduling(c) PROVE InputInv'
  BY <1>2, <1>3, QuietScheduling
<1>4. ASSUME NEW c \in CPUs, Reading(c) PROVE InputInv'
  <2>1. CASE StartRead(c)
    BY <1>1, <2>1, StartReadInput
  <2>2. CASE ReadReturns(c) \/ ReadFails(c) \/ ReadWaits(c)
    BY <1>1, <2>2, ReadInput
  <2>3. CASE Sleep(c)
    BY <1>2, <2>3, QuietCalls
  <2> QED BY <1>4, <2>1, <2>2, <2>3 DEF Reading
<1>5. ASSUME NEW c \in CPUs, Handler(c) PROVE InputInv'
  <2>1. CASE Key(c)
    BY <1>1, <2>1, KeyInput
  <2> QED BY <1>2, <1>5, <2>1, QuietCalls DEF Handler
<1>6. ASSUME NEW c \in CPUs, StartWrite(c) \/ Write(c) PROVE InputInv'
  BY <1>2, <1>6, QuietCalls
<1>7. ASSUME NEW c \in CPUs, (Keyboard /\ c = BootCPU) \/ Timer(c) PROVE InputInv'
  BY <1>2, <1>7, QuietInterrupt
<1>8. ASSUME NEW c \in CPUs, TrapEnds(c) PROVE InputInv'
  BY <1>1, <1>8, TrapEndsInput
<1>9. ASSUME NEW t \in Procs, Kill(t) PROVE InputInv'
  BY <1>2, <1>9, QuietKill
<1>10. CASE UNCHANGED vars
  BY <1>2, <1>10, QuietNothing
<1>11. BootCPU \in CPUs
  BY ConsoleConstants
<1> QED BY <1>3, <1>4, <1>5, <1>6, <1>7, <1>8, <1>9, <1>10, <1>11 DEF Next

\* The ring, the calls, and what they have read.
THEOREM InputIsInvariant == Spec => []InputInv
<1> QED BY InitInput, NextInput, ControlIsInvariant, PTL DEF Spec

PanicType == panicked \in BOOLEAN

LEMMA PanickedIsBoolean == PanicType /\ [Next]_vars => PanicType'
<1> SUFFICES ASSUME panicked \in BOOLEAN, [Next]_vars PROVE panicked' \in BOOLEAN
  BY DEF PanicType
<1>1. \A x, y : (x \/ y) \in BOOLEAN
  BY Zenon
<1>2. ASSUME NEW x, panicked' = (panicked \/ x) PROVE panicked' \in BOOLEAN
  BY <1>1, <1>2, Zenon
<1>3. CASE panicked' \in {panicked, TRUE}
  BY <1>3
<1>4. ASSUME NEW c \in CPUs, NEW k, Section(c, k) PROVE panicked' \in BOOLEAN
  BY <1>2, <1>4, Zenon DEF Section
<1>5. ASSUME NEW c \in CPUs, NEW k, NEW m, Release(c, k, m) PROVE panicked' \in BOOLEAN
  BY <1>1, <1>5, Zenon DEF Release
<1>6. ASSUME NEW c \in CPUs, NEW t, NEW m, Sched(c, t, m) PROVE panicked' \in BOOLEAN
  BY <1>1, <1>6, Zenon DEF Sched
<1>7. ASSUME NEW c \in CPUs, Waiting(c) PROVE panicked' \in BOOLEAN
  BY <1>3, <1>7 DEF Waiting, Spin
<1>8. ASSUME NEW c \in CPUs, Scheduling(c) PROVE panicked' \in BOOLEAN
  <2>1. CASE StartScan(c) \/ NothingToRun(c) \/ GoOnScanning(c) \/ EndScan(c) \/ Forkret(c)
    BY <1>3, <2>1 DEF StartScan, NothingToRun, GoOnScanning, EndScan, Forkret, Enter, spinVars
  <2>2. CASE YieldReturns(c) \/ SleepReturns(c)
    BY <1>5, <2>2 DEF YieldReturns, SleepReturns, Resume
  <2>3. CASE Yield(c) \/ Exit(c)
    BY <1>6, <2>3 DEF Yield, Exit
  <2> QED BY <1>8, <2>1, <2>2, <2>3 DEF Scheduling
<1>9. ASSUME NEW c \in CPUs, Reading(c) PROVE panicked' \in BOOLEAN
  <2>1. CASE StartRead(c) \/ ReadWaits(c)
    BY <1>3, <2>1 DEF StartRead, Call, ReadWaits, Enter, spinVars
  <2>2. CASE ReadReturns(c) \/ ReadFails(c)
    BY <1>4, <2>2 DEF ReadReturns, ReadFails
  <2>3. CASE Sleep(c)
    BY <1>6, <2>3 DEF Sleep
  <2> QED BY <1>9, <2>1, <2>2, <2>3 DEF Reading
<1>10. ASSUME NEW c \in CPUs, Handler(c) PROVE panicked' \in BOOLEAN
  <2>1. CASE StartIntr(c)
    BY <1>3, <2>1 DEF StartIntr, Enter
  <2>2. CASE Key(c)
    BY <1>3, <2>2 DEF Key, List, EraseLine, EraseChar, EnterChar, Getc, spinVars
  <2>3. CASE Wakeup(c) \/ Dump(c)
    BY <1>4, <2>3 DEF Wakeup, Dump
  <2>4. CASE IntrEnds(c)
    BY <1>5, <2>4 DEF IntrEnds
  <2> QED BY <1>10, <2>1, <2>2, <2>3, <2>4 DEF Handler
<1>11. ASSUME NEW c \in CPUs, StartWrite(c) \/ Timer(c) \/ TrapEnds(c) \/ Keyboard
       PROVE  panicked' \in BOOLEAN
  BY <1>3, <1>11 DEF StartWrite, Call, Timer, TrapEnds, Keyboard, Interrupt, spinVars
<1>12. ASSUME NEW c \in CPUs, Write(c) PROVE panicked' \in BOOLEAN
  BY <1>4, <1>12 DEF Write
<1>13. ASSUME NEW t \in Procs, Kill(t) PROVE panicked' \in BOOLEAN
  BY <1>3, <1>13 DEF Kill, spinVars
<1>14. CASE UNCHANGED vars
  BY <1>3, <1>14 DEF vars, spinVars
<1>15. BootCPU \in CPUs
  BY ConsoleConstants
<1> QED BY <1>7, <1>8, <1>9, <1>10, <1>11, <1>12, <1>13, <1>14, <1>15 DEF Next

LEMMA InvType == ControlInv /\ InputInv /\ PanicType => TypeOK
<1> SUFFICES ASSUME ControlInv, InputInv, PanicType PROVE TypeOK
  OBVIOUS
<1>1. /\ cpu \in [CPUs -> Masks] /\ holder \in [Locks -> CPUs \cup {NoCPU}]
      /\ spinning \subseteq CPUs /\ panicked \in BOOLEAN
      /\ state \in [Procs -> {"RUNNABLE", "RUNNING", "SLEEPING", "ZOMBIE"}]
      /\ current \in [CPUs -> Procs \cup CPUs] /\ saved \in [Procs -> BOOLEAN]
      /\ stack \in [Procs \cup CPUs -> Seq(PCs)]
  BY DEF ControlInv, ControlType, StackType, Threads, PanicType
<1>2. /\ buf \in [0 .. INPUT_BUF - 1 -> Chars \cup {Nothing}]
      /\ {r, w, e} \subseteq 0 .. WRAP - 1
      /\ (e - r) % WRAP <= INPUT_BUF /\ (w - r) % WRAP <= (e - r) % WRAP
  BY DEF InputInv, RingInv, Used, Avail
<1> QED BY <1>1, <1>2 DEF TypeOK, InputInv

\* Console's type invariant: the ring never holds more than INPUT_BUF characters.
THEOREM ConsoleTypeCorrect == Spec => []TypeOK
<1>1. Init => PanicType
  BY DEF Init, SpinInit, PanicType
<1>2. Spec => []PanicType
  BY <1>1, PanickedIsBoolean, PTL DEF Spec
<1> QED BY <1>2, InvType, ControlIsInvariant, InputIsInvariant, PTL
-----------------------------------------------------------------------------
(* Who sleeps, and who is about to wake him.                               *)

Parking == \/ \E t \in Procs : state[t] = "SLEEPING"
           \/ \E c \in CPUs : top[current[c]] = "sleep"

Waking == \E c \in CPUs : top[current[c]] = "wakeup"

WaitInv == Parking => r = w \/ Waking

LEMMA OnlyHere ==
    ASSUME ControlInv, NEW c \in CPUs, NEW p, top' = [top EXCEPT ![current[c]] = p]
    PROVE  /\ top'[current[c]] = p
           /\ \A d \in CPUs \ {c} : top'[current[d]] = top[current[d]]
<1>1. ASSUME NEW d \in CPUs PROVE current[d] \in Threads /\ (current[d] = current[c] => d = c)
  BY TopFacts DEF ControlInv, RunningOK
<1> QED BY <1>1 DEF top

\* A step of c that does not change r or w, puts nobody to sleep and is not wakeup.
LEMMA CalmStep ==
    ASSUME WaitInv, NEW c \in CPUs, UNCHANGED <<r, w>>,
           \A d \in CPUs \ {c} : current'[d] = current[d] /\ top'[current[d]] = top[current[d]],
           top[current[c]] # "wakeup", top'[current'[c]] # "sleep",
           \A t \in Procs : state'[t] = "SLEEPING" => state[t] = "SLEEPING"
    PROVE  WaitInv'
<1>1. Parking' => Parking
  <2>1. ASSUME NEW d \in CPUs, top'[current'[d]] = "sleep" PROVE top[current[d]] = "sleep"
    BY <2>1
  <2> QED BY <2>1 DEF Parking
<1>2. Waking => Waking'
  <2>1. ASSUME NEW d \in CPUs, top[current[d]] = "wakeup" PROVE top'[current'[d]] = "wakeup"
    BY <2>1
  <2> QED BY <2>1 DEF Waking
<1> QED BY <1>1, <1>2 DEF WaitInv

LEMMA CalmGoto ==
    ASSUME ControlInv, WaitInv, NEW c \in CPUs, NEW p \in PCs \ {"sleep"}, Goto(c, p),
           top[current[c]] # "wakeup", UNCHANGED <<r, w, current>>,
           \A t \in Procs : state'[t] = "SLEEPING" => state[t] = "SLEEPING"
    PROVE  WaitInv'
<1>1. top' = [top EXCEPT ![current[c]] = p]
  BY GotoBase
<1>2. /\ top'[current[c]] = p
      /\ \A d \in CPUs \ {c} : top'[current[d]] = top[current[d]]
  BY <1>1, OnlyHere
<1> QED BY <1>2, CalmStep

LEMMA CalmStacks ==
    ASSUME WaitInv, UNCHANGED <<r, w, stack, current>>,
           \A t \in Procs : state'[t] = "SLEEPING" => state[t] = "SLEEPING"
    PROVE  WaitInv'
<1>1. top' = top
  BY DEF top
<1> QED BY <1>1 DEF WaitInv, Parking, Waking

\* The scheduler has found t, which does not sleep, nor wake anybody.
LEMMA CalmSwitch ==
    ASSUME ControlInv, WaitInv, NEW c \in CPUs, NEW t \in Procs, state[t] = "RUNNABLE",
           SwitchTo(c, t), top[current[c]] # "wakeup", UNCHANGED <<r, w>>,
           \A x \in Threads \ {c} : top'[x] = top[x]
    PROVE  WaitInv'
<1>1. top[t] \in {"slept", "forkret", "yielded"} /\ t \in Threads /\ t # c
  BY Names DEF ControlInv, ThreadOK, Threads
<1>2. /\ current' = [current EXCEPT ![c] = t] /\ state' = [state EXCEPT ![t] = "RUNNING"]
      /\ state \in [Procs -> {"RUNNABLE", "RUNNING", "SLEEPING", "ZOMBIE"}]
      /\ current \in [CPUs -> Procs \cup CPUs]
  BY DEF SwitchTo, ControlInv, ControlType
<1>3. ASSUME NEW d \in CPUs \ {c}
      PROVE  current'[d] = current[d] /\ top'[current[d]] = top[current[d]]
  <2>1. current[d] \in Threads /\ current[d] # c
    BY Names DEF ControlInv, PlaceOK, Threads
  <2> QED BY <1>2, <2>1
<1>4. current'[c] = t /\ top'[t] = top[t]
  BY <1>1, <1>2
<1>5. \A s \in Procs : state'[s] = "SLEEPING" => state[s] = "SLEEPING"
  BY <1>2
<1> QED BY <1>1, <1>3, <1>4, <1>5, CalmStep

\* A process has gone to the scheduler of its processor.
LEMMA CalmSched ==
    ASSUME ControlInv, WaitInv, NEW c \in CPUs, NEW p, NEW st, st # "SLEEPING",
           current[c] \in Procs, top' = [top EXCEPT ![current[c]] = p],
           current' = [current EXCEPT ![c] = c], state' = [state EXCEPT ![current[c]] = st],
           top[current[c]] # "wakeup", UNCHANGED <<r, w>>
    PROVE  WaitInv'
<1>1. top[c] = "scan" /\ c # current[c] /\ c \in Threads
  BY Names DEF ControlInv, PlaceOK, Threads
<1>2. /\ state \in [Procs -> {"RUNNABLE", "RUNNING", "SLEEPING", "ZOMBIE"}]
      /\ current \in [CPUs -> Procs \cup CPUs]
  BY DEF ControlInv, ControlType
<1>3. \A d \in CPUs \ {c} : current'[d] = current[d] /\ top'[current[d]] = top[current[d]]
  BY <1>2, OnlyHere
<1>4. current'[c] = c /\ top'[c] = "scan"
  BY <1>1, <1>2 DEF top
<1>5. \A s \in Procs : state'[s] = "SLEEPING" => state[s] = "SLEEPING"
  BY <1>2
<1> QED BY <1>3, <1>4, <1>5, CalmStep

LEMMA WaitScheduling ==
    ASSUME ControlInv, WaitInv, NEW c \in CPUs, Waiting(c) \/ Scheduling(c)
    PROVE  WaitInv'
<1> PICK x \in Threads : x = current[c]
  BY Here
<1>0. /\ StackType /\ top \in [Threads -> PCs] /\ top[x] = Top(c)
      /\ state \in [Procs -> {"RUNNABLE", "RUNNING", "SLEEPING", "ZOMBIE"}]
  BY Here DEF ControlInv, ControlType
<1>1. CASE Waiting(c) \/ NothingToRun(c)
  <2>1. UNCHANGED <<r, w, stack, current, state>>
    BY <1>1 DEF Waiting, NothingToRun, inputVars, procVars
  <2> QED BY <2>1, CalmStacks
<1>2. CASE StartScan(c)
  <2> PICK t \in Procs : state[t] = "RUNNABLE" /\ SwitchTo(c, t)
    BY <1>2, CandidateFacts DEF StartScan
  <2>1. /\ stack' = [stack EXCEPT ![c] = <<"scan">>] /\ "scan" \in PCs /\ c \in Threads
        /\ UNCHANGED <<r, w>> /\ top[x] # "wakeup"
    BY <1>0, <1>2 DEF StartScan, SwitchTo, inputVars, PCs, At, Threads
  <2>2. top' = [top EXCEPT ![c] = "scan"]
    BY <1>0, <2>1, SetTop
  <2>3. \A y \in Threads \ {c} : top'[y] = top[y]
    BY <1>0, <2>2
  <2> QED BY <2>1, <2>3, CalmSwitch
<1>3. CASE GoOnScanning(c)
  <2> PICK t \in Procs : state[t] = "RUNNABLE" /\ SwitchTo(c, t)
    BY <1>3, CandidateFacts DEF GoOnScanning
  <2>1. UNCHANGED <<r, w, stack>> /\ top[x] # "wakeup"
    BY <1>0, <1>3 DEF GoOnScanning, SwitchTo, inputVars, At
  <2>2. top' = top
    BY <2>1 DEF top
  <2> QED BY <2>1, <2>2, CalmSwitch
<1>4. CASE EndScan(c) \/ YieldReturns(c) \/ SleepReturns(c) \/ Forkret(c)
  <2>1. PICK p \in {"idle", "ret", "read", "user"} : Goto(c, p)
    BY <1>4 DEF EndScan, YieldReturns, SleepReturns, Resume, Forkret
  <2>2. UNCHANGED <<r, w, state, current>> /\ top[x] # "wakeup" /\ p \in PCs \ {"sleep"}
    BY <1>0, <1>4 DEF EndScan, YieldReturns, SleepReturns, Resume, Forkret, inputVars,
                      procVars, At, PCs, Wants
  <2> QED BY <2>1, <2>2, CalmGoto
<1>5. CASE Yield(c)
  <2>1. Goto(c, "yielded") /\ "yielded" \in PCs
    BY <1>5 DEF Yield, PCs
  <2>2. top' = [top EXCEPT ![x] = "yielded"]
    BY <2>1, GotoBase
  <2>3. /\ x \in Procs /\ state' = [state EXCEPT ![x] = "RUNNABLE"] /\ "RUNNABLE" # "SLEEPING"
        /\ current' = [current EXCEPT ![c] = c] /\ UNCHANGED <<r, w>> /\ top[x] # "wakeup"
    BY <1>0, <1>5 DEF Yield, Sched, OnProc, At, inputVars
  <2> QED BY <2>2, <2>3, CalmSched
<1>6. CASE Exit(c)
  <2>1. stack' = [stack EXCEPT ![x] = <<"dead">>] /\ "dead" \in PCs
    BY <1>6 DEF Exit, PCs
  <2>2. top' = [top EXCEPT ![x] = "dead"]
    BY <1>0, <2>1, SetTop
  <2>3. /\ x \in Procs /\ state' = [state EXCEPT ![x] = "ZOMBIE"] /\ "ZOMBIE" # "SLEEPING"
        /\ current' = [current EXCEPT ![c] = c] /\ UNCHANGED <<r, w>> /\ top[x] # "wakeup"
    BY <1>0, <1>6 DEF Exit, Sched, OnProc, At, inputVars
  <2> QED BY <2>2, <2>3, CalmSched
<1> QED BY <1>1, <1>2, <1>3, <1>4, <1>5, <1>6 DEF Scheduling

LEMMA WaitTraps ==
    ASSUME ControlInv, WaitInv, NEW c \in CPUs,
           (Keyboard /\ c = BootCPU) \/ Timer(c) \/ TrapEnds(c)
    PROVE  WaitInv'
<1> PICK x \in Threads : x = current[c]
  BY Here
<1>1. /\ StackType /\ top \in [Threads -> PCs] /\ low \in [Threads -> PCs \cup {"none"}]
      /\ low[x] \in OpenPCs \cup {"idle", "none"} /\ top[x] = Top(c)
  BY Here
<1>2. UNCHANGED <<r, w, current, state>>
  BY DEF Keyboard, Timer, Interrupt, TrapEnds, inputVars, procVars
<1>3. ASSUME NEW p, p # "sleep", top' = [top EXCEPT ![x] = p], top[x] # "wakeup"
      PROVE  WaitInv'
  <2>1. top'[x] = p /\ \A d \in CPUs \ {c} : top'[current[d]] = top[current[d]]
    BY <1>3, OnlyHere
  <2> QED BY <1>2, <1>3, <2>1, CalmStep
<1>4. CASE (Keyboard /\ c = BootCPU) \/ Timer(c)
  <2> PICK p \in {"kbd", "exit", "yield"} : Interrupt(c, p)
    BY <1>4 DEF Keyboard, Timer
  <2>1. cpu[c].ints /\ stack' = [stack EXCEPT ![x] = <<p>> \o @] /\ p \in PCs
    BY DEF Interrupt, PCs, Wants
  <2>2. low[x] = "none"
    BY <2>1 DEF ControlInv, MaskOK
  <2>3. top' = [top EXCEPT ![x] = p]
    BY <1>1, <2>1, <2>2, PushTop
  <2>4. top[x] # "wakeup"
    <3>1. cpu[c].ncli = 0
      BY <2>1 DEF ControlInv, MaskOK
    <3>2. top[x] \in ConsPCs => cpu[c].ncli \in {1, 2}
      BY DEF ControlInv, MaskOK
    <3> QED BY <3>1, <3>2 DEF ConsPCs
  <2> QED BY <1>3, <2>3, <2>4
<1>5. CASE TrapEnds(c)
  <2>1. top[x] = "ret"
    BY <1>1, <1>5 DEF TrapEnds, At
  <2>2. CASE Goto(c, "exit")
    <3>1. "exit" \in PCs
      BY DEF PCs, Wants
    <3>2. top' = [top EXCEPT ![x] = "exit"]
      BY <2>2, <3>1, GotoBase
    <3> QED BY <1>3, <2>1, <3>2
  <2>3. CASE Iret(c)
    <3>1. CASE low[x] = "none"
      <4>1. stack' = [stack EXCEPT ![x] = <<"user">>] /\ "user" \in PCs
        BY <1>1, <2>3, <3>1, LowFacts DEF Iret, PCs
      <4>2. top' = [top EXCEPT ![x] = "user"]
        BY <1>1, <4>1, SetTop
      <4> QED BY <1>3, <2>1, <4>2
    <3>2. CASE low[x] # "none"
      <4>1. stack' = [stack EXCEPT ![x] = Tail(@)]
        BY <1>1, <2>3, <3>2, LowFacts DEF Iret
      <4>2. top' = [top EXCEPT ![x] = low[x]]
        BY <1>1, <3>2, <4>1, PopTop
      <4>3. low[x] # "sleep"
        BY <1>1 DEF OpenPCs
      <4> QED BY <1>3, <2>1, <4>2, <4>3
    <3> QED BY <3>1, <3>2
  <2> QED BY <1>5, <2>2, <2>3 DEF TrapEnds
<1> QED BY <1>4, <1>5

\* A step that finds the other processors without cons.lock.
LEMMA HolderAlone ==
    ASSUME ControlInv, NEW c \in CPUs, NEW d \in CPUs \ {c},
           holder["cons"] \in {c, NoCPU}
    PROVE  top[current[d]] \notin ConsPCs
<1>1. holder["cons"] # d
  BY Names
<1> QED BY <1>1 DEF ControlInv, PlaceOK

LEMMA WaitReads ==
    ASSUME ControlInv, InputInv, WaitInv, NEW c \in CPUs,
           ReadReturns(c) \/ ReadFails(c) \/ ReadWaits(c)
    PROVE  WaitInv'
<1> PICK x \in Threads : x = current[c]
  BY Here
<1>1. /\ InRead(c) /\ Advance(x) /\ UNCHANGED <<w, current, state>> /\ RingInv
  BY DEF ReadReturns, ReadFails, ReadWaits, procVars, InputInv
<1>2. /\ top[x] = "read" /\ got[x] \in Seq(Chars) /\ asked[x] \in Nat
      /\ Len(got[x]) <= asked[x]
  BY <1>1, InReadFacts
<1>3. CASE ReadWaits(c)
  <2>1. ~Returns(x)
    BY <1>3 DEF ReadWaits
  <2>2. r' = w
    BY <1>1, <1>2, <2>1, ReadsAll
  <2> QED BY <1>1, <2>2 DEF WaitInv
<1>4. CASE ReadReturns(c) \/ ReadFails(c)
  <2>1. Goto(c, "ret") /\ "ret" \in PCs \ {"sleep"} /\ top[x] # "wakeup"
    BY <1>2, <1>4 DEF ReadReturns, ReadFails, PCs
  <2>2. top' = [top EXCEPT ![x] = "ret"]
    BY <2>1, GotoBase
  <2>3. top'[x] = "ret" /\ \A d \in CPUs \ {c} : top'[current[d]] = top[current[d]]
    BY <2>2, OnlyHere
  <2>4. Parking' => Parking
    <3>1. ASSUME NEW d \in CPUs, top'[current'[d]] = "sleep" PROVE top[current[d]] = "sleep"
      BY <1>1, <2>3, <3>1
    <3> QED BY <1>1, <3>1 DEF Parking
  <2>5. Waking => Waking'
    <3>1. ASSUME NEW d \in CPUs, top[current[d]] = "wakeup" PROVE top'[current'[d]] = "wakeup"
      BY <1>1, <2>1, <2>3, <3>1
    <3> QED BY <3>1 DEF Waking
  <2>6. r = w => r' = r
    <3>1. SUFFICES ASSUME r = w PROVE r' = r
      OBVIOUS
    <3>2. r \in 0 .. WRAP - 1 /\ WRAP \in Nat \ {0} /\ r \in Int
      BY <1>1, Sizes DEF RingInv
    <3>3. Avail = 0
      <4>1. w - r = 0 /\ 0 \in 0 .. WRAP - 1 /\ 0 \in Int
        BY <3>1, <3>2
      <4>2. 0 % WRAP = 0
        BY <3>2, <4>1, ModSmall
      <4> QED BY <4>1, <4>2 DEF Avail
    <3>4. PICK j \in 0 .. Avail : r' = (r + j) % WRAP
      BY <1>1, AdvanceFacts
    <3>5. r + j = r
      BY <3>2, <3>3, <3>4
    <3>6. r % WRAP = r
      BY <3>2, ModSmall
    <3> QED BY <3>4, <3>5, <3>6
  <2> QED BY <1>1, <2>4, <2>5, <2>6 DEF WaitInv
<1> QED BY <1>3, <1>4

LEMMA WaitCalls ==
    ASSUME ControlInv, WaitInv, NEW c \in CPUs,
           \/ StartRead(c) \/ StartWrite(c) \/ Write(c)
           \/ StartIntr(c) \/ IntrEnds(c) \/ Dump(c)
    PROVE  WaitInv'
<1> PICK x \in Threads : x = current[c]
  BY Here
<1>1. top[x] = Top(c)
  BY Here
<1>2. PICK p \in {"read", "exit", "write", "ret", "getc", "dump"} : Goto(c, p)
  BY DEF StartRead, StartWrite, Call, Write, StartIntr, IntrEnds, Dump
<1>3. UNCHANGED <<r, w, state, current>> /\ top[x] # "wakeup" /\ p \in PCs \ {"sleep"}
  BY <1>1 DEF StartRead, StartWrite, Call, Write, StartIntr, IntrEnds, Dump, inputVars,
              procVars, At, PCs, Wants
<1> QED BY <1>2, <1>3, CalmGoto

LEMMA WaitSleep == ASSUME ControlInv, WaitInv, NEW c \in CPUs, Sleep(c) PROVE WaitInv'
<1> PICK x \in Threads : x = current[c]
  BY Here
<1>1. /\ top[x] = "sleep" /\ Goto(c, "slept") /\ "slept" \in PCs /\ UNCHANGED <<r, w>>
      /\ current' = [current EXCEPT ![c] = c] /\ current \in [CPUs -> Procs \cup CPUs]
  BY Here DEF Sleep, At, Sched, PCs, inputVars, ControlInv, ControlType
<1>2. r = w \/ Waking
  BY <1>1 DEF WaitInv, Parking
<1>3. top' = [top EXCEPT ![x] = "slept"]
  BY <1>1, GotoBase
<1>4. \A d \in CPUs \ {c} : top'[current[d]] = top[current[d]]
  BY <1>3, OnlyHere
<1>5. Waking => Waking'
  <2>1. ASSUME NEW d \in CPUs, top[current[d]] = "wakeup" PROVE top'[current'[d]] = "wakeup"
    <3>1. d # c
      BY <1>1, <2>1
    <3> QED BY <1>1, <1>4, <2>1, <3>1
  <2> QED BY <2>1 DEF Waking
<1> QED BY <1>1, <1>2, <1>5 DEF WaitInv

LEMMA WaitKey == ASSUME ControlInv, WaitInv, NEW c \in CPUs, Key(c) PROVE WaitInv'
<1>1. UNCHANGED <<current, state, r>>
  BY DEF Key, List, EraseLine, EraseChar, EnterChar, Getc, procVars, inputVars
<1>2. CASE UNCHANGED <<w, stack>>
  BY <1>1, <1>2, CalmStacks
<1>3. CASE Goto(c, "wakeup")
  <2>1. "wakeup" \in PCs
    BY DEF PCs, Wants
  <2>2. top' = [top EXCEPT ![current[c]] = "wakeup"]
    BY <1>3, <2>1, GotoBase
  <2>3. top'[current'[c]] = "wakeup"
    BY <1>1, <2>2, OnlyHere
  <2> QED BY <2>3 DEF WaitInv, Waking
<1> QED BY <1>2, <1>3 DEF Key, List, EraseLine, EraseChar, EnterChar, inputVars

\* Nobody sleeps after it, and nobody can be on the way to sleep.
LEMMA WaitWakeup == ASSUME ControlInv, NEW c \in CPUs, Wakeup(c) PROVE WaitInv'
<1> PICK x \in Threads : x = current[c]
  BY Here
<1>1. /\ top[x] = "wakeup" /\ Goto(c, "getc") /\ "getc" \in PCs /\ UNCHANGED current
      /\ state' = WakeReaders
  BY Here DEF Wakeup, At, PCs
<1>2. \A t \in Procs : state'[t] # "SLEEPING"
  BY <1>1 DEF WakeReaders
<1>3. top' = [top EXCEPT ![x] = "getc"]
  BY <1>1, GotoBase
<1>4. top'[x] = "getc" /\ \A d \in CPUs \ {c} : top'[current[d]] = top[current[d]]
  BY <1>3, OnlyHere
<1>5. holder["cons"] = c
  BY <1>1 DEF ControlInv, PlaceOK, ConsPCs
<1>6. ASSUME NEW d \in CPUs PROVE top'[current'[d]] # "sleep"
  <2>1. CASE d = c
    BY <1>1, <1>4, <2>1
  <2>2. CASE d # c
    <3>1. top[current[d]] \notin ConsPCs
      BY <1>5, <2>2, HolderAlone
    <3> QED BY <1>1, <1>4, <2>2, <3>1 DEF ConsPCs
  <2> QED BY <2>1, <2>2
<1> QED BY <1>2, <1>6 DEF WaitInv, Parking

LEMMA InitWait == Init => WaitInv
<1> SUFFICES ASSUME Init PROVE r = w
  BY DEF WaitInv
<1> QED BY DEF Init

LEMMA NextWait == ControlInv /\ InputInv /\ WaitInv /\ [Next]_vars => WaitInv'
<1> SUFFICES ASSUME ControlInv, InputInv, WaitInv, [Next]_vars PROVE WaitInv'
  OBVIOUS
<1>1. ASSUME NEW c \in CPUs, Waiting(c) \/ Scheduling(c) PROVE WaitInv'
  BY <1>1, WaitScheduling
<1>2. ASSUME NEW c \in CPUs, Reading(c) PROVE WaitInv'
  BY <1>2, WaitReads, WaitCalls, WaitSleep DEF Reading
<1>3. ASSUME NEW c \in CPUs, Handler(c) PROVE WaitInv'
  BY <1>3, WaitCalls, WaitKey, WaitWakeup DEF Handler
<1>4. ASSUME NEW c \in CPUs, StartWrite(c) \/ Write(c) PROVE WaitInv'
  BY <1>4, WaitCalls
<1>5. ASSUME NEW c \in CPUs, (Keyboard /\ c = BootCPU) \/ Timer(c) \/ TrapEnds(c)
      PROVE  WaitInv'
  BY <1>5, WaitTraps
<1>6. ASSUME NEW t \in Procs, Kill(t) PROVE WaitInv'
  <2>1. UNCHANGED <<r, w, stack, current>>
    BY <1>6 DEF Kill, inputVars
  <2>2. state' = [state EXCEPT ![t] = IF @ = "SLEEPING" THEN "RUNNABLE" ELSE @]
    BY <1>6 DEF Kill
  <2>3. \A s \in Procs : state'[s] = "SLEEPING" => state[s] = "SLEEPING"
    BY <2>2 DEF ControlInv, ControlType
  <2> QED BY <2>1, <2>3, CalmStacks
<1>7. CASE UNCHANGED vars
  <2>1. UNCHANGED <<r, w, stack, current, state>>
    BY <1>7 DEF vars, inputVars, procVars
  <2> QED BY <2>1, CalmStacks
<1>8. BootCPU \in CPUs
  BY ConsoleConstants
<1> QED BY <1>1, <1>2, <1>3, <1>4, <1>5, <1>6, <1>7, <1>8 DEF Next

\* No reader sleeps on input that is there, on any number of processors: between
\* consoleread's test and its sleep the handler cannot complete a line, because the
\* reader has cons.lock.
THEOREM ReadersWait == Spec => []SleepersWait
<1>1. ControlInv /\ WaitInv => SleepersWait
  <2> SUFFICES ASSUME ControlInv, WaitInv, \E t \in Procs : state[t] = "SLEEPING"
               PROVE  r = w \/ \E c \in CPUs : At(c, "wakeup")
    BY DEF SleepersWait
  <2>1. r = w \/ Waking
    BY DEF WaitInv, Parking
  <2>2. ASSUME NEW c \in CPUs, top[current[c]] = "wakeup" PROVE At(c, "wakeup")
    BY <2>2, TopFacts DEF At
  <2> QED BY <2>1, <2>2 DEF Waking
<1>2. Spec => []WaitInv
  BY InitWait, NextWait, ControlIsInvariant, InputIsInvariant, PTL DEF Spec
<1> QED BY <1>1, <1>2, ControlIsInvariant, PTL

-----------------------------------------------------------------------------
(* The queue of lines.                                                     *)

LEMMA RingSeqs ==
    ASSUME RingInv
    PROVE  /\ Queue \in Seq(Chars) /\ Len(Queue) = Avail /\ Avail \in Nat
           /\ \A i \in 1 .. Avail : Queue[i] = Char(r + (i - 1))
           /\ Line \in Seq(Chars) /\ Len(Line) = Editing /\ Editing \in Nat
           /\ \A i \in 1 .. Editing : Line[i] = Char(r + (Avail + i - 1))
<1> PICK k : k = Avail
  OBVIOUS
<1> PICK d : d = Editing
  OBVIOUS
<1>1. /\ Used \in Nat /\ k \in 0 .. Used /\ d = Used - k /\ r \in Int /\ w \in Int
      /\ \A i \in Int : Char(w + i) = Char(r + Avail + i)
  <2>1. /\ Used \in 0 .. INPUT_BUF /\ Avail \in 0 .. Used /\ Editing = Used - Avail
        /\ \A i \in Int : Char(w + i) = Char(r + Avail + i)
    BY RingFacts
  <2>2. r \in 0 .. WRAP - 1 /\ w \in 0 .. WRAP - 1 /\ WRAP \in Nat /\ INPUT_BUF \in Nat
    BY Sizes DEF RingInv
  <2> QED BY <2>1, <2>2
<1>2. k \in Nat /\ d \in Nat
  BY <1>1
<1>3. ASSUME NEW i \in 1 .. k
      PROVE  Char(r + i - 1) = Char(r + (i - 1)) /\ Char(r + (i - 1)) \in Chars
  <2>1. i - 1 \in 0 .. Used - 1 /\ r + i - 1 = r + (i - 1)
    BY <1>1
  <2> QED BY <2>1 DEF RingInv
<1>4. ASSUME NEW i \in 1 .. d
      PROVE  Char(w + i - 1) = Char(r + (k + i - 1)) /\ Char(r + (k + i - 1)) \in Chars
  <2>1. /\ i - 1 \in Int /\ w + i - 1 = w + (i - 1) /\ k + i - 1 \in 0 .. Used - 1
        /\ r + k + (i - 1) = r + (k + i - 1)
    BY <1>1
  <2>2. Char(w + (i - 1)) = Char(r + k + (i - 1))
    BY <1>1, <2>1
  <2> QED BY <2>1, <2>2 DEF RingInv
<1>5. Queue = [i \in 1 .. k |-> Char(r + i - 1)] /\ Line = [i \in 1 .. d |-> Char(w + i - 1)]
  BY DEF Queue, Line, Editing
<1>6. Queue \in Seq(Chars) /\ Len(Queue) = k /\ \A i \in 1 .. k : Queue[i] = Char(r + (i - 1))
  BY <1>2, <1>3, <1>5
<1>7. Line \in Seq(Chars) /\ Len(Line) = d /\ \A i \in 1 .. d : Line[i] = Char(r + (k + i - 1))
  BY <1>2, <1>4, <1>5
<1> QED BY <1>2, <1>6, <1>7

LEMMA SeqIsFunction ==
    ASSUME NEW S, NEW s \in Seq(S)
    PROVE  s = [i \in 1 .. Len(s) |-> s[i]]
  OBVIOUS

\* A prefix of a queue is taken, a suffix of a line is erased.
LEMMA Slices ==
    ASSUME NEW S, NEW s \in Seq(S), NEW j \in 0 .. Len(s)
    PROVE  /\ SubSeq(s, j + 1, Len(s)) = [i \in 1 .. Len(s) - j |-> s[j + i]]
           /\ SubSeq(s, 1, j) = [i \in 1 .. j |-> s[i]]
<1> DEFINE a == [i \in 1 .. Len(s) - j |-> s[j + i]]   b == [i \in 1 .. j |-> s[i]]
<1>1. Len(s) \in Nat /\ j \in Nat /\ Len(s) - j \in Nat
  BY LenProperties
<1>2. a \in Seq(S) /\ Len(a) = Len(s) - j /\ \A i \in 1 .. Len(s) - j : a[i] = s[j + i]
  BY <1>1
<1>3. b \in Seq(S) /\ Len(b) = j /\ \A i \in 1 .. j : b[i] = s[i]
  BY <1>1
<1> HIDE DEF a, b
<1>4. SubSeq(s, j + 1, Len(s)) = a
  <2>1. /\ SubSeq(s, j + 1, Len(s)) \in Seq(S) /\ Len(SubSeq(s, j + 1, Len(s))) = Len(s) - j
        /\ \A i \in 1 .. Len(s) - j : SubSeq(s, j + 1, Len(s))[i] = s[j + i]
    BY <1>1
  <2> QED BY <1>2, <2>1, SeqEqual
<1>5. SubSeq(s, 1, j) = b
  <2>1. /\ SubSeq(s, 1, j) \in Seq(S) /\ Len(SubSeq(s, 1, j)) = j
        /\ \A i \in 1 .. j : SubSeq(s, 1, j)[i] = s[i]
    BY <1>1
  <2> QED BY <1>3, <2>1, SeqEqual
<1> QED BY <1>4, <1>5 DEF a, b

LEMMA TakeQueue ==
    ASSUME RingInv, NEW j \in 0 .. Avail, r' = (r + j) % WRAP, UNCHANGED <<buf, w, e>>
    PROVE  Queue' = SubSeq(Queue, j + 1, Len(Queue)) /\ Line' = Line
<1>1. Avail' = Avail - j /\ \A i \in Int : Char(r + i)' = Char(r + j + i)
  BY TakeRing
<1>2. /\ Queue \in Seq(Chars) /\ Len(Queue) = Avail /\ Avail \in Nat
      /\ \A i \in 1 .. Avail : Queue[i] = Char(r + (i - 1))
  BY RingSeqs
<1>3. r \in Int /\ r' \in Int
  <2>1. r \in 0 .. WRAP - 1 /\ WRAP \in Nat \ {0}
    BY Sizes DEF RingInv
  <2>2. r \in Int /\ r + j \in Int
    BY <1>2, <2>1
  <2> QED BY <2>1, <2>2, DivMod
<1>4. Queue' = [i \in 1 .. Avail' |-> Char(r + i - 1)']
  BY DEF Queue
<1>5. ASSUME NEW i \in 1 .. Avail - j PROVE Char(r + i - 1)' = Queue[j + i]
  <2>1. r' + i - 1 = r' + (i - 1) /\ i - 1 \in Int /\ r + j + (i - 1) = r + (j + i - 1)
        /\ j + i \in 1 .. Avail
    BY <1>2, <1>3
  <2>2. Char(r + i - 1)' = Char(r + (i - 1))'
    BY <2>1 DEF Char
  <2>3. Char(r + (i - 1))' = Char(r + j + (i - 1))
    BY <1>1, <2>1
  <2> QED BY <1>2, <2>1, <2>2, <2>3
<1>6. Queue' = [i \in 1 .. Avail - j |-> Queue[j + i]]
  BY <1>1, <1>4, <1>5
<1>7. SubSeq(Queue, j + 1, Len(Queue)) = [i \in 1 .. Len(Queue) - j |-> Queue[j + i]]
  <2>1. j \in 0 .. Len(Queue)
    BY <1>2
  <2> QED BY <1>2, <2>1, Slices
<1>8. Line' = Line
  BY DEF Line, Char
<1> QED BY <1>2, <1>6, <1>7, <1>8

LEMMA LengthOfLine == RingInv => Editing = Used - Avail
  BY RingFacts

LEMMA LineInRing == RingInv => \A i \in Int : Char(w + i) = Char(r + Avail + i)
  BY RingFacts

LEMMA EraseLineOf ==
    ASSUME RingInv, NEW j \in 0 .. Editing, e' = (e - j) % WRAP, UNCHANGED <<buf, r, w>>
    PROVE  Queue' = Queue /\ Line' = SubSeq(Line, 1, Len(Line) - j)
<1>1. RingInv' /\ Used' = Used - j /\ Avail' = Avail
  BY EraseRing
<1>2. (RingInv => Editing = Used - Avail)'
  BY LengthOfLine, PTL
<1>3. Editing' = Used' - Avail'
  BY <1>1, <1>2
<1>4. /\ Line \in Seq(Chars) /\ Len(Line) = Editing /\ Editing \in Nat
      /\ Editing = Used - Avail /\ Used \in Int /\ Avail \in Int
  <2>1. Used \in 0 .. INPUT_BUF /\ Avail \in 0 .. Used /\ Editing = Used - Avail
    BY RingFacts
  <2>2. INPUT_BUF \in Nat
    BY Sizes
  <2> QED BY <2>1, <2>2, RingSeqs
<1> PICK d : d = Editing - j
  OBVIOUS
<1>5. Editing' = d /\ d \in 0 .. Len(Line) /\ Len(Line) - j = d
  BY <1>1, <1>3, <1>4
<1>6. Line' = [i \in 1 .. d |-> Char(w + i - 1)]
  <2>1. Line' = [i \in 1 .. Editing' |-> Char(w + i - 1)']
    BY DEF Line, Editing
  <2>2. \A i : Char(w + i - 1)' = Char(w + i - 1)
    BY DEF Char
  <2> QED BY <1>5, <2>1, <2>2
<1>7. \A i \in 1 .. d : Line[i] = Char(w + i - 1)
  <2>1. Line = [i \in 1 .. Editing |-> Char(w + i - 1)]
    BY DEF Line, Editing
  <2>2. \A i \in 1 .. d : i \in 1 .. Editing
    BY <1>4, <1>5
  <2> QED BY <2>1, <2>2
<1>8. SubSeq(Line, 1, d) = [i \in 1 .. d |-> Line[i]]
  BY <1>4, <1>5, Slices
<1>9. Line' = SubSeq(Line, 1, d)
  BY <1>6, <1>7, <1>8
<1>10. Queue' = Queue
  BY DEF Queue, Avail, Char
<1> QED BY <1>5, <1>9, <1>10

\* A character that does not complete the line is added to it; one that does hands it over.
LEMMA EnterLine ==
    ASSUME RingInv, NEW ch \in Chars, Enters(ch)
    PROVE  LET s == Append(Line, ch) IN
           /\ Len(Queue) + Len(Line) < INPUT_BUF
           /\ IF ch \in {Newline, EOF} \/ Len(Queue) + Len(s) = INPUT_BUF
                THEN Queue' = Queue \o s /\ Line' = <<>>
                ELSE Line' = s /\ UNCHANGED Queue
<1> PICK u : u = Used
  OBVIOUS
<1> PICK k : k = Avail
  OBVIOUS
<1> PICK d : d = Editing
  OBVIOUS
<1> DEFINE s == Append(Line, ch)   complete == ch \in {Newline, EOF} \/ u + 1 = INPUT_BUF
<1>1. /\ u \in Nat /\ k \in 0 .. u /\ d = u - k /\ d \in Nat /\ k \in Nat
      /\ r \in Int /\ INPUT_BUF \in Nat /\ u < INPUT_BUF
  <2>1. Used \in 0 .. INPUT_BUF /\ Avail \in 0 .. Used /\ Editing = Used - Avail
    BY RingFacts
  <2>2. r \in 0 .. WRAP - 1 /\ WRAP \in Nat /\ INPUT_BUF \in Nat
    BY Sizes DEF RingInv
  <2>3. ~(Used >= INPUT_BUF)
    BY DEF Enters, Full, Used
  <2> QED BY <2>1, <2>2, <2>3
<1>2. /\ Queue \in Seq(Chars) /\ Len(Queue) = k
      /\ \A i \in 1 .. k : Queue[i] = Char(r + (i - 1))
      /\ Line \in Seq(Chars) /\ Len(Line) = d
      /\ \A i \in 1 .. d : Line[i] = Char(r + (k + i - 1))
  BY RingSeqs
<1>3. s \in Seq(Chars) /\ Len(s) = d + 1 /\ (\A i \in 1 .. d : s[i] = Line[i]) /\ s[d + 1] = ch
  <2>1. Line \in Seq(Chars) /\ Len(Line) = d /\ ch \in Chars
    BY <1>2
  <2>2. /\ Append(Line, ch) \in Seq(Chars) /\ Len(Append(Line, ch)) = Len(Line) + 1
        /\ \A i \in 1 .. Len(Line) : Append(Line, ch)[i] = Line[i]
        /\ Append(Line, ch)[Len(Line) + 1] = ch
    BY <2>1, AppendProperties
  <2> QED BY <2>1, <2>2
<1> HIDE DEF s
<1>4. /\ ~Full /\ buf' = [buf EXCEPT ![e % INPUT_BUF] = ch] /\ e' = (e + 1) % WRAP
      /\ UNCHANGED r
      /\ w' = IF ch \in {Newline, EOF} \/ e' = (r + INPUT_BUF) % WRAP THEN e' ELSE w
  BY DEF Enters
<1>5. /\ RingInv' /\ Used' = u + 1
      /\ w' = e' => Avail' = u + 1
      /\ w' = w => Avail' = k
      /\ \A i \in 0 .. u - 1 : Char(r + i)' = Char(r + i)
      /\ \A i : i = u => Char(r + i)' = ch
      /\ e' = (r + INPUT_BUF) % WRAP <=> u + 1 = INPUT_BUF
  <2>1. w' = e' \/ (w' = w /\ ch \notin {Newline, EOF})
    BY <1>4
  <2> QED BY <1>4, <2>1, EnterRing
<1>6. w' = IF complete THEN e' ELSE w
  BY <1>4, <1>5
<1>7. Queue' = [i \in 1 .. Avail' |-> Char(r + i - 1)'] /\ Line' = [i \in 1 .. Editing' |-> Char(w + i - 1)']
  BY DEF Queue, Line, Editing
<1>8. (RingInv => Editing = Used - Avail)'
  BY LengthOfLine, PTL
<1>9. Editing' = Used' - Avail'
  BY <1>5, <1>8
<1>10. ASSUME complete PROVE Queue' = Queue \o s /\ Line' = <<>>
  <2>1. Avail' = u + 1 /\ Editing' = 0
    BY <1>1, <1>5, <1>6, <1>9, <1>10
  <2> PICK q : q = Queue \o s
    OBVIOUS
  <2>2. /\ q \in Seq(Chars) /\ Len(q) = u + 1
        /\ \A i \in 1 .. k : q[i] = Queue[i]
        /\ \A i \in k + 1 .. u + 1 : q[i] = s[i - k]
    <3>1. Queue \in Seq(Chars) /\ s \in Seq(Chars) /\ Len(Queue) = k /\ Len(s) = d + 1
      BY <1>2, <1>3
    <3>2. /\ q \in Seq(Chars) /\ Len(q) = Len(Queue) + Len(s)
          /\ \A i \in 1 .. Len(Queue) + Len(s) :
                q[i] = IF i <= Len(Queue) THEN Queue[i] ELSE s[i - Len(Queue)]
      BY <3>1, ConcatProperties
    <3>3. /\ Len(q) = u + 1
          /\ \A i \in 1 .. u + 1 : q[i] = IF i <= k THEN Queue[i] ELSE s[i - k]
      BY <1>1, <3>1, <3>2
    <3> QED BY <1>1, <3>2, <3>3
  <2>3. ASSUME NEW i \in 1 .. u + 1 PROVE Char(r + i - 1)' = q[i]
    <3>1. Char(r + i - 1)' = Char(r + (i - 1))'
      <4>1. r + i - 1 = r + (i - 1) /\ r' = r
        BY <1>1, <1>4
      <4> QED BY <4>1 DEF Char
    <3>2. CASE i \in 1 .. k
      <4>1. i - 1 \in 0 .. u - 1
        BY <1>1, <3>2
      <4> QED BY <1>2, <1>5, <2>2, <3>1, <3>2, <4>1
    <3>3. CASE i \in k + 1 .. u
      <4>1. i - 1 \in 0 .. u - 1 /\ i - k \in 1 .. d /\ k + (i - k) - 1 = i - 1
        BY <1>1, <3>3
      <4>2. q[i] = Line[i - k]
        BY <1>1, <1>3, <2>2, <3>3, <4>1
      <4>3. Line[i - k] = Char(r + (k + (i - k) - 1))
        BY <1>2, <4>1
      <4> QED BY <1>5, <3>1, <4>1, <4>2, <4>3
    <3>4. CASE i = u + 1
      <4>1. i - 1 = u /\ i - k = d + 1 /\ i \in k + 1 .. u + 1
        BY <1>1, <3>4
      <4> QED BY <1>3, <1>5, <2>2, <3>1, <4>1
    <3>5. i \in 1 .. k \/ i \in k + 1 .. u \/ i = u + 1
      BY <1>1
    <3> QED BY <3>2, <3>3, <3>4, <3>5
  <2>4. q = [i \in 1 .. u + 1 |-> q[i]]
    <3>1. q \in Seq(Chars) /\ Len(q) = u + 1
      BY <2>2
    <3>2. q = [i \in 1 .. Len(q) |-> q[i]]
      BY <3>1, SeqIsFunction
    <3> QED BY <3>1, <3>2
  <2>5. Queue' = q
    BY <1>7, <2>1, <2>3, <2>4
  <2>6. Line' = <<>>
    BY <1>7, <2>1
  <2> QED BY <2>5, <2>6
<1>11. ASSUME ~complete PROVE Line' = s /\ Queue' = Queue
  <2>1. Avail' = k /\ Editing' = d + 1 /\ w' = w
    BY <1>1, <1>5, <1>6, <1>9, <1>11
  <2>2. ASSUME NEW i \in 1 .. k PROVE Char(r + i - 1)' = Queue[i]
    <3>1. r + i - 1 = r + (i - 1) /\ r' = r /\ i - 1 \in 0 .. u - 1
      BY <1>1, <1>4
    <3>2. Char(r + i - 1)' = Char(r + (i - 1))'
      BY <3>1 DEF Char
    <3> QED BY <1>2, <1>5, <3>1, <3>2
  <2>3. Queue = [i \in 1 .. k |-> Queue[i]]
    BY <1>1, <1>2
  <2>4. Queue' = Queue
    BY <1>7, <2>1, <2>2, <2>3
  <2>5. (RingInv => \A i \in Int : Char(w + i) = Char(r + Avail + i))'
    BY LineInRing, PTL
  <2>6. \A i \in Int : Char(w + i)' = Char(r + Avail + i)'
    BY <1>5, <2>5
  <2>7. ASSUME NEW i \in 1 .. d + 1 PROVE Char(w + i - 1)' = s[i]
    <3>0. w' \in Int
      <4>1. w' \in 0 .. WRAP - 1 /\ WRAP \in Nat
        BY <1>5, Sizes DEF RingInv
      <4> QED BY <4>1
    <3>1. /\ w' + i - 1 = w' + (i - 1) /\ i - 1 \in Int
          /\ r + k + (i - 1) = r + (k + i - 1) /\ k + i - 1 \in 0 .. u
      BY <1>1, <3>0
    <3>2. Char(w + i - 1)' = Char(w + (i - 1))'
      BY <3>1 DEF Char
    <3>3. Char(w + (i - 1))' = Char(r + Avail + (i - 1))'
      BY <2>6, <3>1
    <3>4. Char(r + Avail + (i - 1))' = Char(r + (k + i - 1))'
      BY <1>4, <2>1, <3>1 DEF Char
    <3>5. CASE i \in 1 .. d
      <4>1. k + i - 1 \in 0 .. u - 1
        BY <1>1, <3>5
      <4> QED BY <1>2, <1>3, <1>5, <3>2, <3>3, <3>4, <3>5, <4>1
    <3>6. CASE i = d + 1
      <4>1. k + i - 1 = u
        BY <1>1, <3>6
      <4> QED BY <1>3, <1>5, <3>2, <3>3, <3>4, <3>6, <4>1
    <3> QED BY <1>1, <3>5, <3>6
  <2>8. s = [i \in 1 .. d + 1 |-> s[i]]
    BY <1>1, <1>3
  <2>9. Line' = s
    BY <1>7, <2>1, <2>7, <2>8
  <2> QED BY <2>4, <2>9
<1>12. /\ Len(Queue) + Len(Line) < INPUT_BUF
       /\ Len(Queue) + Len(s) = INPUT_BUF <=> u + 1 = INPUT_BUF
  BY <1>1, <1>2, <1>3
<1> QED BY <1>10, <1>11, <1>12 DEF s

\* What consoleread copies is what the abstract reader takes.
LEMMA CopiesPiece ==
    ASSUME RingInv, NEW t, Left(t) \in Nat
    PROVE  T!Piece(Left(t)) = Copied(t)
<1> PICK n : n = Left(t)
  OBVIOUS
<1> PICK v : v = Avail
  OBVIOUS
<1> PICK c : c = Copied(t)
  OBVIOUS
<1> DEFINE S == {k \in 0 .. n : /\ k <= Len(Queue)
                                /\ \A i \in 1 .. k : Queue[i] # EOF
                                /\ \A i \in 1 .. k - 1 : Queue[i] # Newline}
<1>1. /\ n \in Nat /\ v \in Nat /\ Len(Queue) = v /\ r \in Int
      /\ \A i \in 1 .. v : Queue[i] = Char(r + (i - 1))
  <2>1. r \in 0 .. WRAP - 1 /\ WRAP \in Nat
    BY Sizes DEF RingInv
  <2> QED BY <2>1, RingSeqs
<1>2. /\ c \in 0 .. v /\ \A m \in 0 .. v : Stops(t, m) => c <= m
      /\ \/ c = n
         \/ c = v
         \/ Char(r + c) = EOF
         \/ c > 0 /\ Char(r + c - 1) = Newline
  <2>1. Stops(t, c) /\ c \in 0 .. v /\ \A m \in 0 .. v : Stops(t, m) => c <= m
    BY CopiedFacts
  <2> QED BY <2>1 DEF Stops
<1>3. ASSUME NEW m \in 0 .. c - 1
      PROVE  /\ m # n /\ Char(r + m) # EOF
             /\ m > 0 => Char(r + m - 1) # Newline
  <2>1. m \in 0 .. v /\ ~(c <= m)
    BY <1>1, <1>2
  <2>2. ~Stops(t, m)
    BY <1>2, <2>1
  <2> QED BY <2>2 DEF Stops
<1>4. c <= n
  <2> SUFFICES ASSUME ~(c <= n) PROVE FALSE
    OBVIOUS
  <2>1. n \in 0 .. c - 1
    BY <1>1, <1>2
  <2> QED BY <1>3, <2>1
<1>5. c \in S
  <2>1. ASSUME NEW i \in 1 .. c PROVE Queue[i] # EOF
    <3>1. i \in 1 .. v /\ i - 1 \in 0 .. c - 1
      BY <1>1, <1>2
    <3> QED BY <1>1, <1>3, <3>1
  <2>2. ASSUME NEW i \in 1 .. c - 1 PROVE Queue[i] # Newline
    <3>1. i \in 1 .. v /\ i \in 0 .. c - 1 /\ i > 0 /\ r + (i - 1) = r + i - 1
      BY <1>1, <1>2
    <3> QED BY <1>1, <1>3, <3>1
  <2> QED BY <1>1, <1>2, <1>4, <2>1, <2>2
<1>6. ASSUME NEW k \in S PROVE k <= c
  <2> SUFFICES ASSUME ~(k <= c) PROVE FALSE
    OBVIOUS
  <2>1. k \in 0 .. n /\ k <= v /\ c < k /\ c # n /\ c # v
    BY <1>1, <1>2
  <2>2. CASE Char(r + c) = EOF
    <3>1. c + 1 \in 1 .. k /\ c + 1 \in 1 .. v /\ (c + 1) - 1 = c
      BY <1>1, <1>2, <2>1
    <3>2. Queue[c + 1] = EOF
      BY <1>1, <2>2, <3>1
    <3> QED BY <3>1, <3>2
  <2>3. CASE c > 0 /\ Char(r + c - 1) = Newline
    <3>1. c \in 1 .. k - 1 /\ c \in 1 .. v /\ r + (c - 1) = r + c - 1
      BY <1>1, <1>2, <2>1, <2>3
    <3>2. Queue[c] = Newline
      BY <1>1, <2>3, <3>1
    <3> QED BY <3>1, <3>2
  <2> QED BY <1>2, <2>1, <2>2, <2>3
<1>7. T!Piece(n) = CHOOSE m \in S : \A k \in S : m >= k
  BY DEF T!Piece, T!Max
<1>8. S \subseteq Int
  OBVIOUS
<1> HIDE DEF S
<1> PICK m : m = CHOOSE z \in S : \A k \in S : z >= k
  OBVIOUS
<1>9. c \in S /\ \A k \in S : c >= k
  BY <1>1, <1>2, <1>5, <1>6, <1>8
<1>10. m \in S /\ \A k \in S : m >= k
  BY <1>9
<1>11. m = c
  BY <1>8, <1>9, <1>10
<1> QED BY <1>7, <1>11

LEMMA CallsAre ==
    StackType => Calls = [t \in Readers |-> IF base[t] \in CallPCs THEN asked[t] ELSE Idle]
<1> SUFFICES ASSUME StackType, NEW t \in Readers PROVE InCall(t) <=> base[t] \in CallPCs
  BY DEF Calls
<1>1. t \in Threads
  BY ConsoleConstants DEF Threads
<1>2. Base(t) = base[t]
  BY <1>1, StackBase
<1> QED BY <1>2 DEF InCall, CallPCs

\* A step of one reader's call.
LEMMA CallsStep ==
    ASSUME StackType, StackType', NEW x \in Readers, NEW p, base' = [base EXCEPT ![x] = p],
           asked \in [Readers -> 0 .. MaxN],
           \A t \in Readers : t # x => asked'[t] = asked[t]
    PROVE  Calls' = [Calls EXCEPT ![x] = IF p \in CallPCs THEN asked'[x] ELSE Idle]
<1>1. Calls = [t \in Readers |-> IF base[t] \in CallPCs THEN asked[t] ELSE Idle]
  BY CallsAre
<1>2. (StackType => Calls = [t \in Readers |-> IF base[t] \in CallPCs THEN asked[t] ELSE Idle])'
  BY CallsAre, PTL
<1>3. Calls' = [t \in Readers |-> IF base'[t] \in CallPCs THEN asked'[t] ELSE Idle]
  BY <1>2
<1>4. \A t \in Readers : base'[t] = IF t = x THEN p ELSE base[t]
  <2>1. \A t \in Readers : t \in Threads
    BY ConsoleConstants DEF Threads
  <2> QED BY <2>1 DEF base
<1> QED BY <1>1, <1>3, <1>4

\* A step that leaves every call where it is.
LEMMA CallsSame ==
    ASSUME StackType, StackType', UNCHANGED asked,
           \A t \in Procs : base'[t] \in CallPCs <=> base[t] \in CallPCs
    PROVE  Calls' = Calls
<1>1. Calls = [t \in Readers |-> IF base[t] \in CallPCs THEN asked[t] ELSE Idle]
  BY CallsAre
<1>2. (StackType => Calls = [t \in Readers |-> IF base[t] \in CallPCs THEN asked[t] ELSE Idle])'
  BY CallsAre, PTL
<1>3. Calls' = [t \in Readers |-> IF base'[t] \in CallPCs THEN asked'[t] ELSE Idle]
  BY <1>2
<1>4. Readers \subseteq Procs
  BY ConsoleConstants
<1> QED BY <1>1, <1>3, <1>4

-----------------------------------------------------------------------------
(* The refinement.                                                         *)

LEMMA QuietStutters ==
    ASSUME Quiet, StackType, StackType'
    PROVE  UNCHANGED <<Queue, Line, Calls, got>>
<1>1. UNCHANGED <<buf, r, w, e, asked, got>>
  BY DEF Quiet, inputVars, readVars
<1>2. Queue' = Queue /\ Line' = Line
  BY <1>1 DEF Queue, Line, Avail, Char
<1>3. Calls' = Calls
  BY <1>1, CallsSame DEF Quiet
<1> QED BY <1>1, <1>2, <1>3

LEMMA KeyTypes ==
    ASSUME ControlInv, RingInv, StackType', NEW c \in CPUs, Key(c)
    PROVE  [T!Next]_(T!vars)
<1>1. /\ UNCHANGED <<asked, got>> /\ StackType
      /\ \A t \in Procs : base'[t] = base[t]
  BY KeyBase DEF ControlInv
<1>2. Calls' = Calls
  BY <1>1, CallsSame
<1>3. /\ Editing \in 0 .. INPUT_BUF /\ Len(Line) = Editing /\ Line \in Seq(Chars)
      /\ INPUT_BUF \in Nat
  <2>1. Used \in 0 .. INPUT_BUF /\ Avail \in 0 .. Used /\ Editing = Used - Avail
    BY RingFacts
  <2>2. INPUT_BUF \in Nat
    BY Sizes
  <2> QED BY <2>1, <2>2, RingSeqs
<1>4. CASE UNCHANGED inputVars
  <2>1. Queue' = Queue /\ Line' = Line
    BY <1>4 DEF inputVars, Queue, Line, Avail, Char
  <2> QED BY <1>1, <1>2, <2>1 DEF T!vars
<1>5. ASSUME Editing \in Nat \ {0}, NEW j \in {1, Editing}, Erases(j) PROVE T!Next
  <2>1. j \in 0 .. Editing /\ j \in 1 .. INPUT_BUF /\ Line # <<>> /\ j \in {1, Len(Line)}
    BY <1>3, <1>5
  <2>2. e' = (e - j) % WRAP /\ UNCHANGED <<buf, r, w>>
    BY <1>5 DEF Erases
  <2>3. Queue' = Queue /\ Line' = SubSeq(Line, 1, Len(Line) - j)
    BY <2>1, <2>2, EraseLineOf
  <2>4. T!Erase(j)
    BY <1>1, <1>2, <2>1, <2>3 DEF T!Erase
  <2> QED BY <2>1, <2>4 DEF T!Next
<1>6. ASSUME NEW ch \in Chars, Enters(ch) PROVE T!Next
  <2>1. LET s == Append(Line, ch) IN
        /\ Len(Queue) + Len(Line) < INPUT_BUF
        /\ IF ch \in {Newline, EOF} \/ Len(Queue) + Len(s) = INPUT_BUF
             THEN Queue' = Queue \o s /\ Line' = <<>>
             ELSE Line' = s /\ UNCHANGED Queue
    BY <1>6, EnterLine
  <2>2. T!Type(ch)
    BY <1>1, <1>2, <2>1 DEF T!Type, T!Complete
  <2>3. ch \in Letters \cup {Newline, EOF}
    BY DEF Chars
  <2> QED BY <2>2, <2>3 DEF T!Next
<1> QED BY <1>4, <1>5, <1>6, KeyRing

LEMMA ReadTakes ==
    ASSUME ControlInv, InputInv, StackType', NEW c \in CPUs, ReadReturns(c) \/ ReadWaits(c)
    PROVE  T!Next
<1> PICK x \in Threads : x = current[c]
  BY Here
<1> PICK k : k = Copied(x)
  OBVIOUS
<1> PICK n : n = Left(x)
  OBVIOUS
<1>1. /\ InRead(c) /\ Advance(x) /\ UNCHANGED <<buf, w, e>> /\ RingInv /\ StackType
      /\ got' = [got EXCEPT ![x] = Dst(x)]
  BY DEF ReadReturns, ReadWaits, InputInv, ControlInv
<1>2. /\ x \in Readers /\ low[x] = "none" /\ base[x] = "read"
      /\ got[x] \in Seq(Chars) /\ asked[x] \in Nat /\ Len(got[x]) <= asked[x]
      /\ got \in [Readers -> Seq(Chars)] /\ asked \in [Readers -> 0 .. MaxN]
  BY <1>1, InReadFacts DEF InputInv
<1>3. n \in Nat /\ n = asked[x] - Len(got[x])
  BY <1>2 DEF Left
<1>4. T!Piece(n) = k
  BY <1>1, <1>3, CopiesPiece
<1>5. /\ k \in 0 .. Avail /\ Avail \in Nat /\ Len(Queue) = Avail /\ Queue \in Seq(Chars)
      /\ \A i \in 1 .. Avail : Queue[i] = Char(r + (i - 1))
      /\ r \in Int /\ k \in Nat
  <2>1. k \in 0 .. Avail
    BY <1>1, CopiedFacts
  <2>2. r \in 0 .. WRAP - 1 /\ WRAP \in Nat
    BY <1>1, Sizes DEF RingInv
  <2> QED BY <1>1, <2>1, <2>2, RingSeqs
<1>6. Dst(x) = got[x] \o SubSeq(Queue, 1, k)
  <2>1. SubSeq(Queue, 1, k) = [i \in 1 .. k |-> Queue[i]]
    <3>1. k \in 0 .. Len(Queue)
      BY <1>5
    <3> QED BY <1>5, <3>1, Slices
  <2>2. ASSUME NEW i \in 1 .. k PROVE Char(r + i - 1) = Queue[i]
    <3>1. r + i - 1 = r + (i - 1) /\ i \in 1 .. Avail
      BY <1>5
    <3> QED BY <1>5, <3>1
  <2>3. [i \in 1 .. k |-> Char(r + i - 1)] = [i \in 1 .. k |-> Queue[i]]
    BY <2>2
  <2>4. Dst(x) = got[x] \o [i \in 1 .. k |-> Char(r + i - 1)]
    BY DEF Dst
  <2> QED BY <2>1, <2>3, <2>4
<1> DEFINE mine == got[x] \o SubSeq(Queue, 1, k)
           ends == k < n /\ k < Len(Queue) /\ Queue[k + 1] = EOF
           done == Len(mine) = asked[x] \/ ends \/ (k > 0 /\ Queue[k] = Newline)
<1>7. mine = Dst(x) /\ Len(mine) = Len(got[x]) + k
  BY <1>1, <1>2, <1>6, DstFacts
<1>8. /\ k < Avail => Queue[k + 1] = Char(r + k)
      /\ k > 0 => Queue[k] = Char(r + k - 1)
  <2>1. ASSUME k < Avail PROVE Queue[k + 1] = Char(r + k)
    <3>1. k + 1 \in 1 .. Avail /\ r + ((k + 1) - 1) = r + k
      BY <1>5, <2>1
    <3> QED BY <1>5, <3>1
  <2>2. ASSUME k > 0 PROVE Queue[k] = Char(r + k - 1)
    <3>1. k \in 1 .. Avail /\ r + (k - 1) = r + k - 1
      BY <1>5, <2>2
    <3> QED BY <1>5, <3>1
  <2> QED BY <2>1, <2>2
<1>9. AtEOF(x) <=> ends /\ (k > 0 => Queue[k] # Newline)
  BY <1>5, <1>8 DEF AtEOF
<1>10. done <=> Returns(x)
  <2>1. Len(mine) = asked[x] <=> k = n
    <3>1. Len(got[x]) \in Nat
      BY <1>2
    <3>2. Len(mine) = Len(got[x]) + k
      BY <1>7
    <3> HIDE DEF mine
    <3> QED BY <1>2, <1>3, <1>5, <3>1, <3>2
  <2>2. Returns(x) <=> k = n \/ AtEOF(x) \/ (k > 0 /\ Char(r + k - 1) = Newline)
    BY DEF Returns
  <2> HIDE DEF mine, ends
  <2> QED BY <1>8, <1>9, <2>1, <2>2
<1>11. EatsEOF(x) <=> ends /\ mine = <<>>
  <2>1. mine = <<>> => k = 0
    <3>1. Len(got[x]) \in Nat
      BY <1>2
    <3>2. mine = <<>> => Len(mine) = 0
      OBVIOUS
    <3>3. Len(mine) = Len(got[x]) + k
      BY <1>7
    <3> HIDE DEF mine
    <3> QED BY <1>5, <3>1, <3>2, <3>3
  <2> HIDE DEF mine, ends
  <2>2. k = 0 => (AtEOF(x) <=> ends)
    BY <1>9
  <2>3. EatsEOF(x) <=> AtEOF(x) /\ mine = <<>>
    BY <1>7 DEF EatsEOF
  <2> QED BY <2>1, <2>2, <2>3
<1>12. /\ Queue' = SubSeq(Queue, (IF ends /\ mine = <<>> THEN k + 2 ELSE k + 1), Len(Queue))
       /\ Line' = Line
  <2> HIDE DEF mine, ends
  <2>1. PICK j \in 0 .. Avail : /\ r' = (r + j) % WRAP
                                /\ j = Copied(x) + IF EatsEOF(x) THEN 1 ELSE 0
    BY <1>1, AdvanceFacts
  <2>2. Queue' = SubSeq(Queue, j + 1, Len(Queue)) /\ Line' = Line
    BY <1>1, <2>1, TakeQueue
  <2>3. j + 1 = IF ends /\ mine = <<>> THEN k + 2 ELSE k + 1
    BY <1>5, <1>11, <2>1
  <2> QED BY <2>2, <2>3
<1>13. Calls[x] = asked[x] /\ Calls[x] # Idle
  <2>1. Calls = [t \in Readers |-> IF base[t] \in CallPCs THEN asked[t] ELSE Idle]
    BY <1>1, CallsAre
  <2>2. Idle \notin Nat
    BY ConsoleConstants
  <2> QED BY <1>2, <2>1, <2>2 DEF CallPCs
<1>14. Calls' = IF done THEN [Calls EXCEPT ![x] = Idle] ELSE Calls
  <2> HIDE DEF done
  <2> PICK p : p = IF Returns(x) THEN "ret" ELSE "sleep"
    OBVIOUS
  <2>1. Goto(c, p) /\ p \in PCs
    BY DEF ReadReturns, ReadWaits, PCs, Wants
  <2>2. base' = [base EXCEPT ![x] = p]
    BY <1>2, <2>1, GotoBase
  <2>3. /\ \A t \in Readers : t # x => asked'[t] = asked[t]
        /\ ~Returns(x) => asked' = asked
    BY <1>2 DEF ReadReturns, ReadWaits
  <2>4. Calls' = [Calls EXCEPT ![x] = IF p \in CallPCs THEN asked'[x] ELSE Idle]
    BY <1>1, <1>2, <2>2, <2>3, CallsStep
  <2>5. Calls = [Calls EXCEPT ![x] = asked[x]]
    BY <1>13 DEF Calls
  <2> QED BY <1>10, <2>3, <2>4, <2>5 DEF CallPCs
<1>15. T!Take(x)
  <2>1. /\ Calls[x] - Len(got[x]) = n /\ Calls[x] # Idle
        /\ got' = [got EXCEPT ![x] = mine]
    BY <1>1, <1>3, <1>7, <1>13
  <2>2. Calls' = IF Len(mine) = Calls[x] \/ ends \/ (k > 0 /\ Queue[k] = Newline)
                   THEN [Calls EXCEPT ![x] = Idle] ELSE Calls
    BY <1>13, <1>14
  <2> QED BY <1>4, <1>12, <2>1, <2>2 DEF T!Take
<1> QED BY <1>2, <1>15 DEF T!Next

LEMMA ReadGivesUp ==
    ASSUME ControlInv, InputInv, StackType', NEW c \in CPUs, ReadFails(c)
    PROVE  T!Next
<1> PICK x \in Threads : x = current[c]
  BY Here
<1>1. /\ InRead(c) /\ Advance(x) /\ UNCHANGED <<buf, w, e>> /\ RingInv /\ StackType
      /\ got' = [got EXCEPT ![x] = <<>>] /\ asked' = [asked EXCEPT ![x] = 0]
      /\ ~Returns(x) /\ Goto(c, "ret") /\ "ret" \in PCs
  BY DEF ReadFails, InputInv, ControlInv, PCs
<1>2. /\ x \in Readers /\ low[x] = "none" /\ base[x] = "read"
      /\ got[x] \in Seq(Chars) /\ asked[x] \in Nat /\ Len(got[x]) <= asked[x]
      /\ asked \in [Readers -> 0 .. MaxN]
  BY <1>1, InReadFacts DEF InputInv
<1> PICK v : v = Avail
  OBVIOUS
<1>3. /\ v \in Nat /\ Len(Queue) = v /\ Queue \in Seq(Chars) /\ r \in Int
      /\ \A i \in 1 .. v : Queue[i] = Char(r + (i - 1))
  <2>1. r \in 0 .. WRAP - 1 /\ WRAP \in Nat
    BY <1>1, Sizes DEF RingInv
  <2> QED BY <1>1, <2>1, RingSeqs
<1>4. Copied(x) = v /\ v < Left(x)
  BY <1>1, <1>2, ReadsAll
<1>5. Left(x) \in Nat /\ Left(x) = asked[x] - Len(got[x])
  BY <1>2 DEF Left
<1>6. T!Piece(Left(x)) = v
  BY <1>1, <1>4, <1>5, CopiesPiece
<1>7. ASSUME NEW i \in 1 .. Len(Queue) PROVE Queue[i] # Newline
  <2>0. i \in 1 .. v
    BY <1>3
  <2>1. CASE i = v
    <3>1. v > 0 /\ r + (v - 1) = r + v - 1
      BY <1>3, <2>0, <2>1
    <3>2. Char(r + v - 1) # Newline
      BY <1>1, <1>4, <3>1 DEF Returns
    <3> QED BY <1>3, <2>0, <2>1, <3>1, <3>2
  <2>2. CASE i # v
    <3>1. i \in 0 .. v /\ ~(v <= i) /\ i > 0 /\ r + (i - 1) = r + i - 1
      BY <1>3, <2>0, <2>2
    <3>2. \A m \in 0 .. Avail : Stops(x, m) => Copied(x) <= m
      BY <1>1, CopiedFacts
    <3>3. ~Stops(x, i)
      BY <1>4, <3>1, <3>2
    <3>4. Char(r + i - 1) # Newline
      BY <3>1, <3>3 DEF Stops
    <3> QED BY <1>3, <2>0, <3>1, <3>4
  <2> QED BY <2>1, <2>2
<1>8. Queue' = <<>> /\ Line' = Line
  <2>1. PICK j \in 0 .. Avail : /\ r' = (r + j) % WRAP
                                /\ j = Copied(x) + IF EatsEOF(x) THEN 1 ELSE 0
    BY <1>1, AdvanceFacts
  <2>2. j = v
    BY <1>3, <1>4, <2>1
  <2>3. Queue' = SubSeq(Queue, j + 1, Len(Queue)) /\ Line' = Line
    BY <1>1, <2>1, TakeQueue
  <2>4. SubSeq(Queue, v + 1, v) = <<>>
    BY <1>3
  <2> QED BY <1>3, <2>2, <2>3, <2>4
<1>9. Calls[x] = asked[x] /\ Calls[x] # Idle
  <2>1. Calls = [t \in Readers |-> IF base[t] \in CallPCs THEN asked[t] ELSE Idle]
    BY <1>1, CallsAre
  <2>2. Idle \notin Nat
    BY ConsoleConstants
  <2> QED BY <1>2, <2>1, <2>2 DEF CallPCs
<1>10. Calls' = [Calls EXCEPT ![x] = Idle]
  <2>1. base' = [base EXCEPT ![x] = "ret"]
    BY <1>1, <1>2, GotoBase
  <2>2. \A t \in Readers : t # x => asked'[t] = asked[t]
    BY <1>1, <1>2
  <2>3. Calls' = [Calls EXCEPT ![x] = IF "ret" \in CallPCs THEN asked'[x] ELSE Idle]
    BY <1>1, <1>2, <2>1, <2>2, CallsStep
  <2> QED BY <2>3 DEF CallPCs
<1>11. T!GiveUp(x)
  <2>1. LET n == Calls[x] - Len(got[x]) IN T!Piece(n) = Len(Queue) /\ Len(Queue) < n
    BY <1>3, <1>4, <1>5, <1>6, <1>9
  <2> QED BY <1>1, <1>7, <1>8, <1>9, <1>10, <2>1 DEF T!GiveUp
<1> QED BY <1>2, <1>11 DEF T!Next

LEMMA ReadStarts ==
    ASSUME ControlInv, InputInv, StackType', NEW c \in CPUs, StartRead(c)
    PROVE  [T!Next]_(T!vars)
<1> PICK x \in Threads : x = current[c]
  BY Here
<1>1. /\ x \in Procs /\ x \in Readers /\ top[x] = "user" /\ UNCHANGED <<buf, r, w, e, got>>
      /\ StackType
  BY Here DEF StartRead, Call, OnProc, At, inputVars, readVars
<1>2. low[x] = "none" /\ base[x] = "user"
  BY <1>1, HandlerBelow DEF base
<1>3. Queue' = Queue /\ Line' = Line
  BY <1>1 DEF Queue, Line, Avail, Char
<1>4. asked \in [Readers -> 0 .. MaxN] /\ MaxN \in Nat /\ got[x] = <<>>
  BY <1>1, <1>2, ConsoleConstants DEF InputInv, CallOK, IdlePCs
<1>5. Calls = [t \in Readers |-> IF base[t] \in CallPCs THEN asked[t] ELSE Idle]
  BY <1>1, CallsAre
<1>6. Calls[x] = Idle
  BY <1>1, <1>2, <1>5 DEF CallPCs
<1>7. CASE x \in killed
  <2>1. Goto(c, "exit") /\ "exit" \in PCs /\ UNCHANGED asked
    BY <1>7 DEF StartRead, Call, PCs, Wants, readVars
  <2>2. base' = [base EXCEPT ![x] = "exit"]
    BY <1>2, <2>1, GotoBase
  <2>3. Calls' = [Calls EXCEPT ![x] = IF "exit" \in CallPCs THEN asked'[x] ELSE Idle]
    BY <1>1, <1>4, <2>1, <2>2, CallsStep
  <2>4. Calls' = Calls
    BY <1>5, <1>6, <2>3 DEF CallPCs
  <2> QED BY <1>1, <1>3, <2>4 DEF T!vars
<1>8. CASE x \notin killed
  <2>1. Goto(c, "read") /\ "read" \in PCs
    BY <1>8 DEF StartRead, Call, PCs, Wants
  <2>2. base' = [base EXCEPT ![x] = "read"]
    BY <1>2, <2>1, GotoBase
  <2>3. PICK n \in 0 .. MaxN : asked' = [asked EXCEPT ![x] = n]
    BY <1>8 DEF StartRead
  <2>4. asked'[x] = n /\ n \in Nat /\ \A t \in Readers : t # x => asked'[t] = asked[t]
    BY <1>1, <1>4, <2>3
  <2>5. Calls' = [Calls EXCEPT ![x] = IF "read" \in CallPCs THEN asked'[x] ELSE Idle]
    BY <1>1, <1>4, <2>2, <2>4, CallsStep
  <2>6. Calls' = [Calls EXCEPT ![x] = n]
    BY <2>4, <2>5 DEF CallPCs
  <2>7. Calls'[x] = n
    BY <1>1, <1>5, <2>6
  <2>8. T!Start(x)
    BY <1>1, <1>3, <1>4, <1>6, <2>4, <2>6, <2>7 DEF T!Start
  <2> QED BY <1>1, <2>8 DEF T!Next
<1> QED BY <1>7, <1>8

LEMMA TrapCollects ==
    ASSUME ControlInv, InputInv, StackType', NEW c \in CPUs, TrapEnds(c)
    PROVE  [T!Next]_(T!vars)
<1> PICK x \in Threads : x = current[c]
  BY Here
<1>1. /\ StackType /\ UNCHANGED <<buf, r, w, e, asked>>
      /\ low[x] = "none" <=> Len(stack[x]) = 1
  BY LowFacts DEF TrapEnds, inputVars, ControlInv
<1>2. Queue' = Queue /\ Line' = Line
  BY <1>1 DEF Queue, Line, Avail, Char
<1>3. /\ \A t \in Threads : t # x => base'[t] = base[t]
      /\ low[x] # "none" => base'[x] = base[x]
      /\ low[x] = "none" => base[x] = "ret" /\ base'[x] \in {"user", "exit"}
  BY TrapBase
<1>4. Calls' = Calls
  <2>1. \A t \in Procs : base'[t] \in CallPCs <=> base[t] \in CallPCs
    BY <1>3 DEF CallPCs, Threads
  <2> QED BY <1>1, <2>1, CallsSame
<1>5. CASE x \in Readers /\ low[x] = "none"
  <2>1. got' = [got EXCEPT ![x] = <<>>]
    BY <1>1, <1>5 DEF TrapEnds
  <2>2. Calls = [t \in Readers |-> IF base[t] \in CallPCs THEN asked[t] ELSE Idle]
    BY <1>1, CallsAre
  <2>3. Calls[x] = Idle
    BY <1>3, <1>5, <2>2 DEF CallPCs
  <2>4. T!Collect(x)
    BY <1>2, <1>4, <2>1, <2>3 DEF T!Collect
  <2> QED BY <1>5, <2>4 DEF T!Next
<1>6. CASE ~(x \in Readers /\ low[x] = "none")
  <2>1. got' = got
    BY <1>1, <1>6 DEF TrapEnds
  <2> QED BY <1>2, <1>4, <2>1 DEF T!vars
<1> QED BY <1>5, <1>6

LEMMA InitTerminal == Init => T!Init
<1> SUFFICES ASSUME Init PROVE T!Init
  OBVIOUS
<1>1. ControlInv /\ InputInv /\ StackType
  BY InitControl, InitInput DEF ControlInv
<1>2. Avail = 0 /\ (e - w) % WRAP = 0
  <2>1. 0 % WRAP = 0 /\ 0 - 0 = 0
    <3>1. WRAP \in Nat \ {0} /\ 0 \in 0 .. WRAP - 1 /\ 0 \in Int
      BY Sizes
    <3> QED BY <3>1, ModSmall
  <2> QED BY <2>1 DEF Init, Avail
<1>3. Queue = <<>> /\ Line = <<>>
  BY <1>2 DEF Queue, Line
<1>4. Calls = [t \in Readers |-> IF base[t] \in CallPCs THEN asked[t] ELSE Idle]
  BY <1>1, CallsAre
<1>5. ASSUME NEW t \in Readers PROVE base[t] \notin CallPCs
  <2>1. stack[t] = <<"forkret">> /\ t \in Threads
    BY ConsoleConstants DEF Init, Threads
  <2>2. Base(t) = "forkret"
    <3>1. Len(<<"forkret">>) = 1 /\ <<"forkret">>[1] = "forkret"
      OBVIOUS
    <3> QED BY <2>1, <3>1 DEF Base
  <2>3. Base(t) = base[t]
    BY <1>1, <2>1, StackBase
  <2> QED BY <2>2, <2>3 DEF CallPCs
<1>6. Calls = [t \in Readers |-> Idle]
  BY <1>4, <1>5
<1>7. got = [t \in Readers |-> <<>>]
  BY DEF Init
<1> QED BY <1>3, <1>6, <1>7 DEF T!Init

LEMMA NextTerminal == ControlInv /\ InputInv /\ [Next]_vars => [T!Next]_(T!vars)
<1> SUFFICES ASSUME ControlInv, InputInv, [Next]_vars PROVE [T!Next]_(T!vars)
  OBVIOUS
<1>1. ControlInv' /\ StackType' /\ StackType /\ RingInv
  BY NextControl DEF ControlInv, InputInv
<1>2. CASE Quiet
  <2>1. UNCHANGED <<Queue, Line, Calls, got>>
    BY <1>1, <1>2, QuietStutters
  <2> QED BY <2>1 DEF T!vars
<1>3. ASSUME NEW c \in CPUs, Waiting(c) \/ Scheduling(c) PROVE [T!Next]_(T!vars)
  BY <1>2, <1>3, QuietScheduling
<1>4. ASSUME NEW c \in CPUs, Reading(c) PROVE [T!Next]_(T!vars)
  <2>1. CASE StartRead(c)
    BY <1>1, <2>1, ReadStarts
  <2>2. CASE ReadReturns(c) \/ ReadWaits(c)
    BY <1>1, <2>2, ReadTakes
  <2>3. CASE ReadFails(c)
    BY <1>1, <2>3, ReadGivesUp
  <2>4. CASE Sleep(c)
    BY <1>2, <2>4, QuietCalls
  <2> QED BY <1>4, <2>1, <2>2, <2>3, <2>4 DEF Reading
<1>5. ASSUME NEW c \in CPUs, Handler(c) PROVE [T!Next]_(T!vars)
  <2>1. CASE Key(c)
    BY <1>1, <2>1, KeyTypes
  <2> QED BY <1>2, <1>5, <2>1, QuietCalls DEF Handler
<1>6. ASSUME NEW c \in CPUs, StartWrite(c) \/ Write(c) PROVE [T!Next]_(T!vars)
  BY <1>2, <1>6, QuietCalls
<1>7. ASSUME NEW c \in CPUs, (Keyboard /\ c = BootCPU) \/ Timer(c) PROVE [T!Next]_(T!vars)
  BY <1>2, <1>7, QuietInterrupt
<1>8. ASSUME NEW c \in CPUs, TrapEnds(c) PROVE [T!Next]_(T!vars)
  BY <1>1, <1>8, TrapCollects
<1>9. ASSUME NEW t \in Procs, Kill(t) PROVE [T!Next]_(T!vars)
  BY <1>2, <1>9, QuietKill
<1>10. CASE UNCHANGED vars
  BY <1>2, <1>10, QuietNothing
<1>11. BootCPU \in CPUs
  BY ConsoleConstants
<1> QED BY <1>3, <1>4, <1>5, <1>6, <1>7, <1>8, <1>9, <1>10, <1>11 DEF Next

\* The ring is the queue of lines that Terminal promises, whatever its size, for any
\* number of readers on any number of processors.
THEOREM RingIsTerminal == Spec => IsTerminal
<1> QED BY InitTerminal, NextTerminal, ControlIsInvariant, InputIsInvariant, PTL
        DEF Spec, IsTerminal, T!Spec
=============================================================================
