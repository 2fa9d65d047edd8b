---------------------------- MODULE Remainders ----------------------------
(***************************************************************************)
(* Remainders, as counters that wrap and rings that they index need them.  *)
(***************************************************************************)
EXTENDS Integers, TLAPS

LEMMA DivMod ==
    ASSUME NEW a \in Int, NEW n \in Nat \ {0}
    PROVE  /\ a % n \in 0 .. n - 1 /\ a \div n \in Int
           /\ a = n * (a \div n) + (a % n)
  OBVIOUS

LEMMA Between ==
    ASSUME NEW n \in Nat \ {0}, NEW d \in Int, n * d < n, -n < n * d
    PROVE  d = 0
<1>1. CASE d >= 1
  <2>1. n * d >= n
     BY <1>1
  <2> QED BY <2>1
<1>2. CASE d <= -1
  <2>1. n * d <= -n
     BY <1>2
  <2> QED BY <2>1
<1> QED BY <1>1, <1>2

LEMMA ModUnique ==
    ASSUME NEW n \in Nat \ {0}, NEW q \in Int, NEW r \in 0 .. n - 1
    PROVE  (n * q + r) % n = r
<1> DEFINE a == n * q + r   d == (a \div n) - q
<1>1. a \in Int
  OBVIOUS
<1>2. a % n \in 0 .. n - 1 /\ a \div n \in Int /\ a = n * (a \div n) + (a % n)
  BY <1>1, DivMod
<1>3. d \in Int /\ n * d = r - (a % n)
  BY <1>2
<1>4. d = 0
  <2>1. n * d < n /\ -n < n * d
    BY <1>2, <1>3
  <2> HIDE DEF d
  <2> QED BY <1>3, <2>1, Between
<1> QED BY <1>2, <1>3, <1>4

LEMMA ModShift ==
    ASSUME NEW n \in Nat \ {0}, NEW a \in Int, NEW k \in Int
    PROVE  (n * k + a) % n = a % n
<1> DEFINE q == a \div n   r == a % n
<1>1. r \in 0 .. n - 1 /\ q \in Int /\ a = n * q + r
  BY DivMod
<1> HIDE DEF q, r
<1>2. n * k + a = n * (k + q) + r /\ k + q \in Int
  BY <1>1
<1>3. (n * (k + q) + r) % n = r
  BY <1>1, <1>2, ModUnique
<1> QED BY <1>2, <1>3 DEF r

LEMMA ModAdd ==
    ASSUME NEW n \in Nat \ {0}, NEW a \in Int, NEW b \in Int
    PROVE  ((a % n) + b) % n = (a + b) % n
<1> DEFINE q == a \div n   r == a % n
<1>1. r \in 0 .. n - 1 /\ q \in Int /\ a = n * q + r
  BY DivMod
<1> HIDE DEF q, r
<1>2. a + b = n * q + (r + b) /\ r + b \in Int
  BY <1>1
<1>3. (n * q + (r + b)) % n = (r + b) % n
  BY <1>1, <1>2, ModShift
<1> QED BY <1>2, <1>3 DEF r

LEMMA ModSmall ==
    ASSUME NEW n \in Nat \ {0}, NEW a \in Int
    PROVE  /\ a \in 0 .. n - 1 => a % n = a
           /\ a \in -n .. -1 => a % n = a + n
           /\ a \in n .. (n + n) - 1 => a % n = a - n
<1>1. ASSUME a \in 0 .. n - 1 PROVE a % n = a
  <2>1. n * 0 + a = a
    OBVIOUS
  <2> QED BY <1>1, <2>1, ModUnique
<1>2. ASSUME a \in -n .. -1 PROVE a % n = a + n
  <2>1. n * (-1) + (a + n) = a /\ a + n \in 0 .. n - 1
    BY <1>2
  <2> QED BY <2>1, ModUnique
<1>3. ASSUME a \in n .. (n + n) - 1 PROVE a % n = a - n
  <2>1. n * 1 + (a - n) = a /\ a - n \in 0 .. n - 1
    BY <1>3
  <2> QED BY <2>1, ModUnique
<1> QED BY <1>1, <1>2, <1>3

LEMMA ModOfMultiple ==
    ASSUME NEW n \in Nat \ {0}, NEW w \in Nat \ {0}, w % n = 0, NEW a \in Int
    PROVE  (a % w) % n = a % n
<1> DEFINE q == a \div w   r == a % w   k == w \div n
<1>1. r \in Int /\ q \in Int /\ a = w * q + r
  BY DivMod
<1>2. k \in Int /\ w = n * k
  BY DivMod
<1> HIDE DEF q, r, k
<1>3. w * q = n * (k * q) /\ k * q \in Int
  BY <1>1, <1>2
<1>4. a = n * (k * q) + r
  BY <1>1, <1>3
<1>5. (n * (k * q) + r) % n = r % n
  BY <1>1, <1>3, ModShift
<1> QED BY <1>4, <1>5 DEF r

LEMMA ModSub ==
    ASSUME NEW n \in Nat \ {0}, NEW a \in Int, NEW b \in Int
    PROVE  (a - (b % n)) % n = (a - b) % n
<1> DEFINE q == b \div n   r == b % n
<1>1. r \in 0 .. n - 1 /\ q \in Int /\ b = n * q + r
  BY DivMod
<1> HIDE DEF q, r
<1>2. a - r = n * q + (a - b) /\ a - b \in Int
  BY <1>1
<1>3. (n * q + (a - b)) % n = (a - b) % n
  BY <1>1, <1>2, ModShift
<1> QED BY <1>2, <1>3 DEF r

\* A place in a ring of n is the same before and after a counter wraps at w.
LEMMA WrappedPlace ==
    ASSUME NEW n \in Nat \ {0}, NEW w \in Nat \ {0}, w % n = 0, NEW a \in Int, NEW b \in Int
    PROVE  ((a % w) + b) % n = (a + b) % n
<1> DEFINE r == a % w
<1>1. r \in Int
  BY DivMod
<1>2. ((r % n) + b) % n = (r + b) % n
  BY <1>1, ModAdd
<1>3. r % n = a % n
  BY ModOfMultiple
<1>4. ((a % n) + b) % n = (a + b) % n
  BY ModAdd
<1> QED BY <1>2, <1>3, <1>4

\* How far a counter is ahead of another, before and after it wraps.
LEMMA Distance ==
    ASSUME NEW n \in Nat \ {0}, NEW a \in Int, NEW d \in 0 .. n - 1
    PROVE  (((a + d) % n) - a) % n = d
<1>1. a + d \in Int /\ -a \in Int /\ (a + d) % n \in Int
  BY DivMod
<1>2. (((a + d) % n) + (-a)) % n = ((a + d) + (-a)) % n
  BY <1>1, ModAdd
<1>3. (a + d) + (-a) = d /\ ((a + d) % n) + (-a) = ((a + d) % n) - a
  BY <1>1
<1>4. d % n = d
  BY ModSmall
<1> QED BY <1>2, <1>3, <1>4

LEMMA Travel ==
    ASSUME NEW n \in Nat \ {0}, NEW a \in Int, NEW b \in 0 .. n - 1
    PROVE  (a + ((b - a) % n)) % n = b
<1>1. b - a \in Int /\ (b - a) % n \in Int
  BY DivMod
<1>2. (((b - a) % n) + a) % n = ((b - a) + a) % n
  BY <1>1, ModAdd
<1>3. (b - a) + a = b /\ ((b - a) % n) + a = a + ((b - a) % n)
  BY <1>1
<1>4. b % n = b
  BY ModSmall
<1> QED BY <1>2, <1>3, <1>4

LEMMA Remaining ==
    ASSUME NEW n \in Nat \ {0}, NEW a \in Int, NEW b \in Int, NEW d \in Int
    PROVE  (b - ((a + d) % n)) % n = (((b - a) % n) - d) % n
<1>1. a + d \in Int /\ b - a \in Int /\ (b - a) % n \in Int /\ -d \in Int
  BY DivMod
<1>2. (b - ((a + d) % n)) % n = (b - (a + d)) % n
  BY <1>1, ModSub
<1>3. (((b - a) % n) + (-d)) % n = ((b - a) + (-d)) % n
  BY <1>1, ModAdd
<1>4. b - (a + d) = (b - a) + (-d) /\ ((b - a) % n) + (-d) = ((b - a) % n) - d
  BY <1>1
<1> QED BY <1>2, <1>3, <1>4

LEMMA Advanced ==
    ASSUME NEW n \in Nat \ {0}, NEW a \in Int, NEW b \in Int, NEW d \in Int
    PROVE  (((b + d) % n) - a) % n = (((b - a) % n) + d) % n
<1>1. b + d \in Int /\ b - a \in Int /\ (b + d) % n \in Int /\ -a \in Int
  BY DivMod
<1>2. (((b + d) % n) + (-a)) % n = ((b + d) + (-a)) % n
  BY <1>1, ModAdd
<1>3. (((b - a) % n) + d) % n = ((b - a) + d) % n
  BY <1>1, ModAdd
<1>4. (b + d) + (-a) = (b - a) + d /\ ((b + d) % n) + (-a) = ((b + d) % n) - a
  BY <1>1
<1> QED BY <1>2, <1>3, <1>4

\* Places less than a ring apart are different.
LEMMA Apart ==
    ASSUME NEW n \in Nat \ {0}, NEW a \in Int, NEW d \in 1 .. n - 1
    PROVE  (a + d) % n # a % n
<1>1. a + d \in Int /\ a % n \in Int /\ d \in Int
  BY DivMod
<1>2. ((a + d) - (a % n)) % n = ((a + d) - a) % n
  BY <1>1, ModSub
<1>3. ((a + d) - ((a + d) % n)) % n = ((a + d) - (a + d)) % n
  BY <1>1, ModSub
<1>4. (a + d) - a = d /\ (a + d) - (a + d) = 0
  BY <1>1
<1>5. d % n = d /\ 0 % n = 0
  BY ModSmall
<1> QED BY <1>2, <1>3, <1>4, <1>5
=============================================================================
