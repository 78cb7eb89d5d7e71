----------------------------- MODULE RingFacts -----------------------------
(***************************************************************************)
(* Arithmetic of a ring of N slots, numbered from 0: the slot k steps      *)
(* after slot p is (p + k) % N; the least number of a set, which is how a  *)
(* slot is searched for; and the powers of two that number a word's bits.  *)
(***************************************************************************)
EXTENDS Integers, WellFoundedInduction, TLAPS

\* The remainder is the sum, or the sum less N.
LEMMA RingSum ==
  ASSUME NEW N \in Nat \ {0}, NEW a \in 0..(N - 1), NEW b \in 0..N
  PROVE  /\ (a + b) % N \in 0..(N - 1)
         /\ (a + b) % N = IF a + b < N THEN a + b ELSE a + b - N
  OBVIOUS

\* Two slots less than a round apart are different.
LEMMA RingInjective ==
  ASSUME NEW N \in Nat \ {0}, NEW p \in 0..(N - 1),
         NEW i \in 0..(N - 1), NEW j \in 0..(N - 1), (p + i) % N = (p + j) % N
  PROVE  i = j
<1>0. i \in 0..N /\ j \in 0..N
  OBVIOUS
<1>1. (p + i) % N = IF p + i < N THEN p + i ELSE p + i - N
  BY <1>0, RingSum
<1>2. (p + j) % N = IF p + j < N THEN p + j ELSE p + j - N
  BY <1>0, RingSum
<1>3. (IF p + i < N THEN p + i ELSE p + i - N) = (IF p + j < N THEN p + j ELSE p + j - N)
  BY <1>1, <1>2
<1> QED
  BY <1>3

\* No step, and a whole round, lead back to the slot.
LEMMA RingEnds ==
  ASSUME NEW N \in Nat \ {0}, NEW p \in 0..(N - 1)
  PROVE  (p + 0) % N = p /\ (p + N) % N = p
<1>0. 0 \in 0..N /\ N \in 0..N
  OBVIOUS
<1>1. (p + 0) % N = p
  BY <1>0, RingSum
<1>2. (p + N) % N = p
  BY <1>0, RingSum
<1> QED
  BY <1>1, <1>2

\* k steps from the next slot are k + 1 steps.
LEMMA RingShift ==
  ASSUME NEW N \in Nat \ {0}, NEW p \in 0..(N - 1), NEW k \in 0..(N - 1)
  PROVE  (((p + 1) % N) + k) % N = (p + (k + 1)) % N
<1>0. 1 \in 0..N /\ k \in 0..N /\ k + 1 \in 0..N
  OBVIOUS
<1>1. /\ (p + 1) % N \in 0..(N - 1)
      /\ (p + 1) % N = IF p + 1 < N THEN p + 1 ELSE p + 1 - N
  BY <1>0, RingSum
<1> DEFINE q == (p + 1) % N
<1> HIDE DEF q
<1>2. q \in 0..(N - 1) /\ q = IF p + 1 < N THEN p + 1 ELSE p + 1 - N
  BY <1>1 DEF q
<1>3. (q + k) % N = IF q + k < N THEN q + k ELSE q + k - N
  BY <1>0, <1>2, RingSum
<1>4. (p + (k + 1)) % N = IF p + (k + 1) < N THEN p + (k + 1) ELSE p + (k + 1) - N
  BY <1>0, RingSum
<1>5. (q + k) % N = (p + (k + 1)) % N
  BY <1>2, <1>3, <1>4
<1> QED
  BY <1>5 DEF q

\* The slot after the one k steps away is k + 1 steps away.
LEMMA RingNext ==
  ASSUME NEW N \in Nat \ {0}, NEW p \in 0..(N - 1), NEW k \in 0..(N - 1)
  PROVE  (((p + k) % N) + 1) % N = (p + (k + 1)) % N
<1>0. 1 \in 0..N /\ k \in 0..N /\ k + 1 \in 0..N
  OBVIOUS
<1>1. /\ (p + k) % N \in 0..(N - 1)
      /\ (p + k) % N = IF p + k < N THEN p + k ELSE p + k - N
  BY <1>0, RingSum
<1> DEFINE q == (p + k) % N
<1> HIDE DEF q
<1>2. q \in 0..(N - 1) /\ q = IF p + k < N THEN p + k ELSE p + k - N
  BY <1>1 DEF q
<1>3. (q + 1) % N = IF q + 1 < N THEN q + 1 ELSE q + 1 - N
  BY <1>0, <1>2, RingSum
<1>4. (p + (k + 1)) % N = IF p + (k + 1) < N THEN p + (k + 1) ELSE p + (k + 1) - N
  BY <1>0, RingSum
<1>5. (q + 1) % N = (p + (k + 1)) % N
  BY <1>2, <1>3, <1>4
<1> QED
  BY <1>5 DEF q

\* A set of natural numbers that is not empty has a least one.
LEMMA LeastNumber ==
  ASSUME NEW S \in SUBSET Nat, S # {}
  PROVE  \E n \in S : \A m \in S : n <= m
<1> DEFINE Less == {p \in Nat \X Nat : p[1] < p[2]}
<1>1. IsWellFoundedOn(Less, Nat)
  BY NatLessThanWellFounded, Zenon DEF OpToRel
<1>2. PICK n \in S : \A m \in S : <<m, n>> \notin Less
  <2> HIDE DEF Less
  <2> QED
    BY <1>1, WFMin
<1>3. \A m \in S : ~(m < n)
  BY <1>2
<1> QED
  BY <1>3

-----------------------------------------------------------------------------
\* The powers of two up to 2^30, and what is needed of their order.
Power(i) == 2^i

LEMMA PowersOfTwo ==
  /\ \A i \in 0..30 : Power(i) \in Nat \ {0}
  /\ \A i \in 11..30 : 2048 <= Power(i)
  /\ \A i \in 12..30 : 4096 <= Power(i)
  /\ \A i \in 20..30 : 1048576 <= Power(i)
  /\ \A i \in 1..19 : 2 <= Power(i) /\ Power(i) % 2 = 0 /\ Power(i) <= Power(19)
  /\ \A i \in 1..18 : Power(i) < Power(19)
  /\ \A i \in 1..11 : Power(i) <= Power(11)
  /\ \A i \in 1..10 : Power(i) < Power(11)
  /\ Power(0) = 1 /\ Power(11) = 2048 /\ Power(19) = 524288
<1>1. \A i \in 0..30 : i \in {0,1,2,3,4,5,6,7,8,9,10,11,12,13,14,15,
                            16,17,18,19,20,21,22,23,24,25,26,27,28,29,30}
  OBVIOUS
<1>2. /\ Power(0) = 1 /\ Power(1) = 2 /\ Power(2) = 4 /\ Power(3) = 8
      /\ Power(4) = 16 /\ Power(5) = 32 /\ Power(6) = 64 /\ Power(7) = 128
      /\ Power(8) = 256 /\ Power(9) = 512 /\ Power(10) = 1024 /\ Power(11) = 2048
      /\ Power(12) = 4096 /\ Power(13) = 8192 /\ Power(14) = 16384 /\ Power(15) = 32768
      /\ Power(16) = 65536 /\ Power(17) = 131072 /\ Power(18) = 262144 /\ Power(19) = 524288
      /\ Power(20) = 1048576 /\ Power(21) = 2097152 /\ Power(22) = 4194304 /\ Power(23) = 8388608
      /\ Power(24) = 16777216 /\ Power(25) = 33554432 /\ Power(26) = 67108864 /\ Power(27) = 134217728
      /\ Power(28) = 268435456 /\ Power(29) = 536870912 /\ Power(30) = 1073741824
  BY SMT DEF Power
<1>3. \A i \in 0..30 : Power(i) \in Nat \ {0}
  BY <1>1, <1>2, SMT
<1>4. /\ \A i \in 11..30 : 2048 <= Power(i)
      /\ \A i \in 12..30 : 4096 <= Power(i)
      /\ \A i \in 20..30 : 1048576 <= Power(i)
  BY <1>1, <1>2, SMT
<1>5. \A i \in 1..19 : 2 <= Power(i) /\ Power(i) % 2 = 0 /\ Power(i) <= Power(19)
  BY <1>1, <1>2, SMT
<1>6. /\ \A i \in 1..18 : Power(i) < Power(19)
      /\ \A i \in 1..11 : Power(i) <= Power(11)
      /\ \A i \in 1..10 : Power(i) < Power(11)
  BY <1>1, <1>2, SMT
<1> QED  BY <1>2, <1>3, <1>4, <1>5, <1>6, SMT

\* Of a number of less than d, the bit above is its sign.
LEMMA SignBit ==
  ASSUME NEW d \in Nat \ {0}, NEW n \in Int, -d <= n, n < d
  PROVE  (n \div d) % 2 = 1 <=> n < 0
<1>1. CASE n >= 0
  <2>1. n \div d = 0  BY <1>1
  <2> QED  BY <1>1, <2>1
<1>2. CASE n < 0
  <2>1. n \div d = -1  BY <1>2
  <2> QED  BY <1>2, <2>1
<1> QED  BY <1>1, <1>2
=============================================================================
