--------------------------- MODULE RingArithmetic ---------------------------
(***************************************************************************)
(* Remainders, for the indices of rings: an index counts modulo m, and     *)
(* the position it stands for is its remainder by the size n of the ring,  *)
(* which divides m.  Pipes and the virtio rings are built this way.        *)
(***************************************************************************)
EXTENDS Integers, TLAPS

\* Quotient and remainder.
LEMMA Division ==
  ASSUME NEW n \in Nat \ {0}, NEW x \in Int
  PROVE  /\ x \div n \in Int /\ (x % n) \in 0 .. n - 1
         /\ x = n * (x \div n) + (x % n)
OBVIOUS

\* There is one remainder only.
LEMMA Remainder ==
  ASSUME NEW n \in Nat \ {0}, NEW q \in Int, NEW r \in 0 .. n - 1
  PROVE  (n * q + r) % n = r
<1> DEFINE x == n * q + r
<1>1. x \in Int
  OBVIOUS
<1>2. /\ (x % n) \in 0 .. n - 1 /\ x \div n \in Int
      /\ x = n * (x \div n) + (x % n)
  BY <1>1, Division
<1> HIDE DEF x
<1> DEFINE d == (x \div n) - q
<1>3. d \in Int /\ n * d = r - (x % n)
  BY <1>2 DEF x
<1> HIDE DEF d
<1>4. d < 1
  <2>1. ASSUME d >= 1 PROVE n * d >= n
    BY <1>3, <2>1
  <2>2. n * d \in Int /\ n * d < n
    BY <1>2, <1>3
  <2> QED
    BY <1>3, <2>1, <2>2
<1>5. d > -1
  <2>1. ASSUME d <= -1 PROVE n * d <= -n
    BY <1>3, <2>1
  <2>2. n * d \in Int /\ n * d > -n
    BY <1>2, <1>3
  <2> QED
    BY <1>3, <2>1, <2>2
<1>6. d = 0
  BY <1>3, <1>4, <1>5
<1>7. r = x % n
  <2> DEFINE e == x % n
  <2>1. e \in Int /\ n * d = r - e
    BY <1>2, <1>3
  <2>2. n * d = 0
    BY <1>6
  <2> HIDE DEF e
  <2>3. r = e
    BY <2>1, <2>2
  <2> QED
    BY <2>3 DEF e
<1> QED
  BY <1>7 DEF x

\* Multiples of n do not change a remainder.
LEMMA Congruent ==
  ASSUME NEW n \in Nat \ {0}, NEW x \in Int, NEW k \in Int
  PROVE  (x + n * k) % n = x % n
<1> DEFINE q == x \div n
           r == x % n
<1>1. q \in Int /\ r \in 0 .. n - 1 /\ x = n * q + r
  BY Division
<1> HIDE DEF q, r
<1>2. x + n * k = n * (q + k) + r /\ q + k \in Int
  BY <1>1
<1>3. (n * (q + k) + r) % n = r
  BY <1>1, <1>2, Remainder
<1> QED
  BY <1>2, <1>3 DEF r

\* Of two numbers n apart in range one is the remainder.
LEMMA Small ==
  ASSUME NEW n \in Nat \ {0}, NEW x \in Int
  PROVE  /\ x \in 0 .. n - 1 => x % n = x
         /\ x \in n .. n + n - 1 => x % n = x - n
         /\ x \in -n .. -1 => x % n = x + n
<1>1. ASSUME x \in 0 .. n - 1 PROVE x % n = x
  BY <1>1
<1>2. ASSUME x \in n .. n + n - 1 PROVE x % n = x - n
  <2>1. (n * 1 + (x - n)) % n = x - n
    BY <1>2, Remainder
  <2>2. n * 1 + (x - n) = x
    OBVIOUS
  <2> QED
    BY <2>1, <2>2
<1>3. ASSUME x \in -n .. -1 PROVE x % n = x + n
  <2>1. (n * (-1) + (x + n)) % n = x + n
    BY <1>3, Remainder
  <2>2. n * (-1) + (x + n) = x
    OBVIOUS
  <2> QED
    BY <2>1, <2>2
<1> QED
  BY <1>1, <1>2, <1>3

\* Counting down modulo n.
LEMMA Before ==
  ASSUME NEW n \in Nat \ {0}, NEW x \in Int
  PROVE  (x - 1) % n = IF x % n = 0 THEN n - 1 ELSE (x % n) - 1
<1> DEFINE q == x \div n
           r == x % n
<1>1. q \in Int /\ r \in 0 .. n - 1 /\ x = n * q + r
  BY Division
<1> HIDE DEF q, r
<1>2. CASE r = 0
  <2>1. x - 1 = n * (q - 1) + (n - 1)
    BY <1>1, <1>2
  <2>2. (n * (q - 1) + (n - 1)) % n = n - 1
    BY <1>1, Remainder
  <2> QED
    BY <2>1, <2>2, <1>2 DEF r
<1>3. CASE r # 0
  <2>1. x - 1 = n * q + (r - 1) /\ r - 1 \in 0 .. n - 1
    BY <1>1, <1>3
  <2>2. (n * q + (r - 1)) % n = r - 1
    BY <1>1, <2>1, Remainder
  <2> QED
    BY <2>1, <2>2, <1>3 DEF r
<1> QED
  BY <1>2, <1>3

\* The ring position that is k entries after index s.
LEMMA After ==
  ASSUME NEW n \in Nat \ {0}, NEW s \in Int, NEW k \in 0 .. n - 1
  PROVE  (((s + k) % n) - s) % n = k
<1> DEFINE x == s + k
           q == x \div n
           r == x % n
<1>1. x \in Int
  OBVIOUS
<1>2. q \in Int /\ r \in 0 .. n - 1 /\ x = n * q + r
  BY <1>1, Division
<1> HIDE DEF q, r
<1> DEFINE p == -q
<1>3. p \in Int /\ r - s = n * p + k
  BY <1>2
<1> HIDE DEF p, x
<1>4. (n * p + k) % n = k
  BY <1>3, Remainder
<1> QED
  BY <1>3, <1>4 DEF r, x

\* The position that is k entries after index s, and back.
LEMMA Reach ==
  ASSUME NEW n \in Nat \ {0}, NEW s \in Int, NEW j \in 0 .. n - 1
  PROVE  (s + ((j - s) % n)) % n = j
<1> DEFINE x == j - s
           q == x \div n
           r == x % n
<1>1. x \in Int
  OBVIOUS
<1>2. q \in Int /\ r \in 0 .. n - 1 /\ x = n * q + r
  BY <1>1, Division
<1> HIDE DEF q, r
<1> DEFINE p == -q
<1>3. p \in Int /\ s + r = n * p + j
  BY <1>2
<1> HIDE DEF p, x
<1>4. (n * p + j) % n = j
  BY <1>3, Remainder
<1> QED
  BY <1>3, <1>4 DEF r, x

\* Different numbers of entries lead to different positions.
LEMMA Apart ==
  ASSUME NEW n \in Nat \ {0}, NEW s \in Int,
         NEW j \in 0 .. n - 1, NEW k \in 0 .. n - 1, j # k
  PROVE  (s + j) % n # (s + k) % n
<1>1. (((s + j) % n) - s) % n = j
  BY After
<1>2. (((s + k) % n) - s) % n = k
  BY After
<1> QED
  BY <1>1, <1>2

\* n divides m.
LEMMA Whole ==
  ASSUME NEW n \in Nat \ {0}, NEW m \in Nat, m % n = 0
  PROVE  \E c \in Int : m = n * c
<1>1. /\ m = n * (m \div n) + (m % n)
      /\ m \div n \in Int
  BY Division
<1> DEFINE c == m \div n
<1>2. c \in Int /\ m = n * c
  BY <1>1
<1> HIDE DEF c
<1> QED
  BY <1>2

\* The remainder by n of what is taken modulo m.
LEMMA Twice ==
  ASSUME NEW n \in Nat \ {0}, NEW m \in Nat \ {0}, m % n = 0, NEW x \in Int
  PROVE  (x % m) % n = x % n
<1>1. PICK c \in Int : m = n * c
  BY Whole
<1> DEFINE q == x \div m
           r == x % m
           k == c * q
<1>2. q \in Int /\ r \in Int /\ x = m * q + r
  BY Division
<1> HIDE DEF q, r
<1>3. k \in Int /\ x = r + n * k
  BY <1>1, <1>2
<1> HIDE DEF k
<1>4. (r + n * k) % n = r % n
  BY <1>2, <1>3, Congruent
<1> QED
  BY <1>3, <1>4 DEF r

\* The number of entries between two indices when one moves on.
LEMMA Between ==
  ASSUME NEW m \in Nat \ {0, 1}, NEW s \in 0 .. m - 1, NEW a \in 0 .. m - 1
  PROVE  /\ (a - s) % m \in 0 .. m - 1
         /\ (a - s) % m = 0 <=> a = s
         /\ (a - s) % m < m - 1 =>
              (((a + 1) % m) - s) % m = ((a - s) % m) + 1
         /\ a # s => (a - ((s + 1) % m)) % m = ((a - s) % m) - 1
<1>0. m \in Nat \ {0} /\ a \in Int /\ s \in Int /\ m > 1
  OBVIOUS
<1> DEFINE Gap(x, y) == IF x >= y THEN x - y ELSE (x - y) + m
<1>1. ASSUME NEW x \in 0 .. m - 1, NEW y \in 0 .. m - 1
      PROVE  (x - y) % m = Gap(x, y)
  <2> DEFINE z == x - y
  <2>1. z \in Int /\ (x >= y => z \in 0 .. m - 1) /\ (x < y => z \in -m .. -1)
    BY <1>0
  <2> HIDE DEF z
  <2>2. /\ z \in 0 .. m - 1 => z % m = z
        /\ z \in -m .. -1 => z % m = z + m
    BY <1>0, <2>1, Small
  <2>3. z % m = IF x >= y THEN z ELSE z + m
    BY <1>0, <2>1, <2>2
  <2> QED
    BY <2>3 DEF z
<1>2. ASSUME NEW x \in 0 .. m - 1
      PROVE  (x + 1) % m = IF x + 1 = m THEN 0 ELSE x + 1
  <2> DEFINE z == x + 1
  <2>1. z \in Int /\ (z = m \/ z \in 0 .. m - 1)
    BY <1>0
  <2> HIDE DEF z
  <2>2. /\ z \in 0 .. m - 1 => z % m = z
        /\ z \in m .. m + m - 1 => z % m = z - m
    BY <1>0, <2>1, Small
  <2>3. z % m = IF z = m THEN 0 ELSE z
    BY <1>0, <2>1, <2>2
  <2> QED
    BY <2>3 DEF z
<1> DEFINE b == (a + 1) % m
           t == (s + 1) % m
<1>3. b \in 0 .. m - 1 /\ b = IF a + 1 = m THEN 0 ELSE a + 1
  BY <1>0, <1>2
<1>4. t \in 0 .. m - 1 /\ t = IF s + 1 = m THEN 0 ELSE s + 1
  BY <1>0, <1>2
<1> HIDE DEF b, t
<1>5. /\ (a - s) % m = Gap(a, s) /\ (b - s) % m = Gap(b, s)
      /\ (a - t) % m = Gap(a, t)
  BY <1>1, <1>3, <1>4
<1>6. /\ Gap(a, s) \in 0 .. m - 1
      /\ Gap(a, s) = 0 <=> a = s
      /\ Gap(a, s) < m - 1 => Gap(b, s) = Gap(a, s) + 1
      /\ a # s => Gap(a, t) = Gap(a, s) - 1
  BY <1>0, <1>3, <1>4
<1> HIDE DEF Gap
<1> QED
  BY <1>5, <1>6 DEF b, t
=============================================================================
