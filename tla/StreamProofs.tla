--------------------------- MODULE StreamProofs -----------------------------
(***************************************************************************)
(* Proofs about the bytes of a connection.  First the ring of kfifo, for   *)
(* every size and every word width: facts on remainders and powers of two  *)
(* for which the provers need help, the rounding of the size, the ring.    *)
(* Then one connection of tcpserver.cpp: its framing, for every head       *)
(* length, read buffer and limit and every way of cutting the stream into  *)
(* reads, and its idle timeout, for every interval, timeout, number of     *)
(* connections and length of a run.                                        *)
(***************************************************************************)
EXTENDS Kfifo, TcpFraming, IdleTimeout, WellFoundedInduction, TLAPS

-----------------------------------------------------------------------------
(* Facts about sequences.                                                   *)

\* what \o does to lengths and elements
LEMMA Joined ==
  ASSUME NEW S, NEW s \in Seq(S), NEW t \in Seq(S)
  PROVE  /\ s \o t \in Seq(S) /\ Len(s \o t) = Len(s) + Len(t)
         /\ \A i \in 1..(Len(s) + Len(t)) :
                (s \o t)[i] = IF i <= Len(s) THEN s[i] ELSE t[i - Len(s)]
  OBVIOUS

\* sequences with the same elements are equal
LEMMA SameSeq ==
  ASSUME NEW S, NEW s \in Seq(S), NEW t \in Seq(S), Len(s) = Len(t),
         \A i \in 1..Len(s) : s[i] = t[i]
  PROVE  s = t
  OBVIOUS

-----------------------------------------------------------------------------
(* Arithmetic.                                                              *)

\* a set of natural numbers has a least element: the induction of this module
LEMMA LeastNat ==
    ASSUME NEW S, S \subseteq Nat, S # {}
    PROVE  \E x \in S : \A y \in S : x <= y
<1> DEFINE R == OpToRel(<, Nat)
<1>1. \A i, j \in Nat : i < j => <<i, j>> \in R
  BY DEF OpToRel
<1>2. IsWellFoundedOn(R, Nat)
  BY NatLessThanWellFounded, Zenon
<1> HIDE DEF R
<1>3. PICK x \in S : \A y \in S : <<y, x>> \notin R
  BY <1>2, WFMin, Zenon
<1>4. \A y \in S : ~(y < x)
  BY <1>1, <1>3, Zenon
<1> QED
  BY <1>4

\* quotient and remainder
LEMMA DivMod ==
    ASSUME NEW x \in Int, NEW n \in Nat \ {0}
    PROVE  x \div n \in Int /\ (x % n) \in 0..(n - 1) /\ x = n * (x \div n) + (x % n)
  OBVIOUS

\* a remainder found by exhibiting the quotient
LEMMA ModOf ==
    ASSUME NEW d \in Int, NEW n \in Nat \ {0}, NEW a \in 0..(n - 1)
    PROVE  (n * d + a) % n = a
  OBVIOUS

\* a number below the modulus is its own remainder
LEMMA SmallMod ==
    ASSUME NEW n \in Nat \ {0}, NEW x \in 0..(n - 1)
    PROVE  x % n = x
  OBVIOUS

\* multiples of a positive number are ordered as their factors
LEMMA TimesLess ==
    ASSUME NEW n \in Nat \ {0}, NEW d \in Int, NEW e \in Int, d < e
    PROVE  n * d + n <= n * e
  OBVIOUS

(***************************************************************************)
(* Where the index x + j lies in the ring: wrapping it at a multiple of    *)
(* the size s first makes no difference.                                   *)
(***************************************************************************)
LEMMA RingIndex ==
    ASSUME NEW s \in Nat \ {0}, NEW q \in Nat \ {0}, NEW x \in 0..(s * q - 1), NEW j \in 0..s
    PROVE  ((x + j) % (s * q)) % s = IF (x % s) + j < s THEN (x % s) + j ELSE (x % s) + j - s
<1> DEFINE a == x % s
           d == x \div s
<1>1. d \in Int /\ a \in 0..(s - 1) /\ x = s * d + a
  BY DivMod
<1>2. s * q \in Nat \ {0} /\ x \in Nat
  OBVIOUS
<1> HIDE DEF a, d
<1>3. d < q
  <2>1. SUFFICES ASSUME ~(d < q) PROVE FALSE
    OBVIOUS
  <2>2. d = q \/ q < d
    BY <1>1, <2>1
  <2>3. s * d >= s * q
    BY <1>1, <2>2, TimesLess
  <2> QED
    BY <1>1, <1>2, <2>3
<1>4. s * d \in Int /\ s * (d + 1) = s * d + s /\ s * (d + 1) \in Int
  BY <1>1
<1>5. CASE a + j < s
  <2>1. x + j = s * d + (a + j)
    BY <1>1, <1>4
  <2>2. s * d + s <= s * q
    BY <1>1, <1>3, TimesLess
  <2>3. (x + j) % (s * q) = x + j
    <3>1. x + j \in 0..(s * q - 1)
      BY <1>1, <1>2, <1>4, <1>5, <2>1, <2>2
    <3> QED
      BY <1>2, <3>1, SmallMod
  <2>4. (s * d + (a + j)) % s = a + j
    BY <1>1, <1>5, ModOf
  <2> QED
    BY <1>5, <2>1, <2>3, <2>4 DEF a
<1>6. CASE ~(a + j < s) /\ d + 1 < q
  <2>1. x + j = s * (d + 1) + (a + j - s) /\ a + j - s \in 0..(s - 1)
    BY <1>1, <1>4, <1>6
  <2>2. s * (d + 1) + s <= s * q
    BY <1>1, <1>6, TimesLess
  <2>3. (x + j) % (s * q) = x + j
    <3>1. x + j \in 0..(s * q - 1)
      BY <1>1, <1>2, <1>4, <2>1, <2>2
    <3> QED
      BY <1>2, <3>1, SmallMod
  <2>4. (s * (d + 1) + (a + j - s)) % s = a + j - s
    <3>1. d + 1 \in Int
      BY <1>1
    <3> QED
      BY <2>1, <3>1, ModOf, Zenon
  <2> QED
    BY <1>6, <2>1, <2>3, <2>4 DEF a
<1>7. CASE ~(a + j < s) /\ d + 1 = q
  <2>1. x + j = s * q + (a + j - s) /\ a + j - s \in 0..(s - 1)
    BY <1>1, <1>4, <1>7
  <2>2. s <= s * q
    BY <1>2, TimesLess
  <2>3. (x + j) % (s * q) = a + j - s
    BY <1>2, <2>1, <2>2
  <2>4. (a + j - s) % s = a + j - s
    BY <2>1
  <2> QED
    BY <1>7, <2>3, <2>4 DEF a
<1> QED
  BY <1>1, <1>3, <1>5, <1>6, <1>7

(***************************************************************************)
(* Powers of two, as far as an unsigned int goes.                          *)
(***************************************************************************)
LEMMA PowerStep == \A w \in 0..31 : 2^(w + 1) = 2 * 2^w /\ 2^w \in Nat \ {0}
<1> SUFFICES ASSUME NEW w \in 0..31 PROVE 2^(w + 1) = 2 * 2^w /\ 2^w \in Nat \ {0}
  BY Zenon
<1>1. \/ w = 0 \/ w = 1 \/ w = 2 \/ w = 3 \/ w = 4 \/ w = 5 \/ w = 6 \/ w = 7
      \/ w = 8 \/ w = 9 \/ w = 10 \/ w = 11 \/ w = 12 \/ w = 13 \/ w = 14 \/ w = 15
      \/ w = 16 \/ w = 17 \/ w = 18 \/ w = 19 \/ w = 20 \/ w = 21 \/ w = 22 \/ w = 23
      \/ w = 24 \/ w = 25 \/ w = 26 \/ w = 27 \/ w = 28 \/ w = 29 \/ w = 30 \/ w = 31
  OBVIOUS
<1>2. /\ 2^(0 + 1) = 2 * 2^0 /\ 2^(1 + 1) = 2 * 2^1 /\ 2^(2 + 1) = 2 * 2^2 /\ 2^(3 + 1) = 2 * 2^3
      /\ 2^(4 + 1) = 2 * 2^4 /\ 2^(5 + 1) = 2 * 2^5 /\ 2^(6 + 1) = 2 * 2^6 /\ 2^(7 + 1) = 2 * 2^7
      /\ 2^(8 + 1) = 2 * 2^8 /\ 2^(9 + 1) = 2 * 2^9 /\ 2^(10 + 1) = 2 * 2^10 /\ 2^(11 + 1) = 2 * 2^11
      /\ 2^(12 + 1) = 2 * 2^12 /\ 2^(13 + 1) = 2 * 2^13 /\ 2^(14 + 1) = 2 * 2^14 /\ 2^(15 + 1) = 2 * 2^15
      /\ 2^(16 + 1) = 2 * 2^16 /\ 2^(17 + 1) = 2 * 2^17 /\ 2^(18 + 1) = 2 * 2^18 /\ 2^(19 + 1) = 2 * 2^19
      /\ 2^(20 + 1) = 2 * 2^20 /\ 2^(21 + 1) = 2 * 2^21 /\ 2^(22 + 1) = 2 * 2^22 /\ 2^(23 + 1) = 2 * 2^23
      /\ 2^(24 + 1) = 2 * 2^24 /\ 2^(25 + 1) = 2 * 2^25 /\ 2^(26 + 1) = 2 * 2^26 /\ 2^(27 + 1) = 2 * 2^27
      /\ 2^(28 + 1) = 2 * 2^28 /\ 2^(29 + 1) = 2 * 2^29 /\ 2^(30 + 1) = 2 * 2^30 /\ 2^(31 + 1) = 2 * 2^31
  OBVIOUS
<1>3. /\ 2^0 \in Nat \ {0} /\ 2^1 \in Nat \ {0} /\ 2^2 \in Nat \ {0} /\ 2^3 \in Nat \ {0}
      /\ 2^4 \in Nat \ {0} /\ 2^5 \in Nat \ {0} /\ 2^6 \in Nat \ {0} /\ 2^7 \in Nat \ {0}
      /\ 2^8 \in Nat \ {0} /\ 2^9 \in Nat \ {0} /\ 2^10 \in Nat \ {0} /\ 2^11 \in Nat \ {0}
      /\ 2^12 \in Nat \ {0} /\ 2^13 \in Nat \ {0} /\ 2^14 \in Nat \ {0} /\ 2^15 \in Nat \ {0}
      /\ 2^16 \in Nat \ {0} /\ 2^17 \in Nat \ {0} /\ 2^18 \in Nat \ {0} /\ 2^19 \in Nat \ {0}
      /\ 2^20 \in Nat \ {0} /\ 2^21 \in Nat \ {0} /\ 2^22 \in Nat \ {0} /\ 2^23 \in Nat \ {0}
      /\ 2^24 \in Nat \ {0} /\ 2^25 \in Nat \ {0} /\ 2^26 \in Nat \ {0} /\ 2^27 \in Nat \ {0}
      /\ 2^28 \in Nat \ {0} /\ 2^29 \in Nat \ {0} /\ 2^30 \in Nat \ {0} /\ 2^31 \in Nat \ {0}
  OBVIOUS
<1>4. 2^(w + 1) = 2 * 2^w
  BY <1>1, <1>2, Zenon
<1>5. 2^w \in Nat \ {0}
  BY <1>1, <1>3, Zenon
<1> QED
  BY <1>4, <1>5, Zenon

\* the exponents of a product add up
LEMMA PowerSum ==
    ASSUME NEW v \in 0..32, NEW w \in 0..(32 - v)
    PROVE  2^(v + w) = 2^v * 2^w /\ 2^v \in Nat \ {0} /\ 2^w \in Nat \ {0}
<1>1. \A i \in 0..32 : 2^i \in Nat \ {0}
  <2> SUFFICES ASSUME NEW i \in 0..32 PROVE 2^i \in Nat \ {0}
    BY Zenon
  <2>1. CASE i \in 0..31
    BY <2>1, PowerStep, Zenon
  <2>2. CASE i = 32
    BY <2>2
  <2> QED
    BY <2>1, <2>2
<1> DEFINE Bad == {i \in 0..(32 - v) : 2^(v + i) # 2^v * 2^i}
<1>2. ASSUME Bad # {} PROVE FALSE
  <2>0. Bad \subseteq Nat
    OBVIOUS
  <2>1. PICK i \in Bad : \A j \in Bad : i <= j
    <3> HIDE DEF Bad
    <3> QED
      BY <1>2, <2>0, LeastNat, Zenon
  <2>2. i # 0
    <3>1. 2^(v + 0) = 2^v * 2^0
      BY <1>1
    <3> QED
      BY <2>1, <3>1, Zenon
  <2>3. i - 1 \in 0..31 /\ i - 1 \in 0..32 /\ i - 1 \in 0..(32 - v) /\ v + (i - 1) \in 0..31
        /\ (i - 1) + 1 = i /\ (v + (i - 1)) + 1 = v + i
    BY <2>1, <2>2
  <2>4. 2^(v + (i - 1)) = 2^v * 2^(i - 1)
    BY <2>1, <2>3
  <2>5. 2^i = 2 * 2^(i - 1) /\ 2^(v + i) = 2 * 2^(v + (i - 1))
    BY <2>3, PowerStep, Zenon
  <2>6. \A x, y \in Nat : 2 * (x * y) = x * (2 * y)
    OBVIOUS
  <2>7. 2^v \in Nat /\ 2^(i - 1) \in Nat
    BY <1>1, <2>3, Zenon
  <2>8. 2 * (2^v * 2^(i - 1)) = 2^v * (2 * 2^(i - 1))
    BY <2>6, <2>7, Zenon
  <2>9. 2^(v + i) = 2^v * 2^i
    BY <2>4, <2>5, <2>8, Zenon
  <2> QED
    BY <2>1, <2>9
<1>3. w \in 0..32
  OBVIOUS
<1> QED
  BY <1>1, <1>2, <1>3, Zenon

\* of two powers the smaller divides the larger
LEMMA PowerDivides ==
    ASSUME NEW v \in 0..32, NEW w \in 0..32, 2^w < 2^v
    PROVE  w < v /\ \E q \in Nat \ {0} : 2^v = 2^w * q
<1>1. \A x, y \in Nat \ {0} : x * y >= x
  OBVIOUS
<1>2. w < v
  <2> SUFFICES ASSUME v <= w PROVE FALSE
    OBVIOUS
  <2>1. w - v \in 0..(32 - v) /\ v + (w - v) = w
    OBVIOUS
  <2>2. 2^w = 2^v * 2^(w - v) /\ 2^v \in Nat \ {0} /\ 2^(w - v) \in Nat \ {0}
    BY <2>1, PowerSum, Zenon
  <2>3. 2^w >= 2^v
    BY <1>1, <2>2
  <2> QED
    BY <2>2, <2>3
<1>3. v - w \in 0..(32 - w) /\ w + (v - w) = v
  BY <1>2
<1>4. 2^v = 2^w * 2^(v - w) /\ 2^(v - w) \in Nat \ {0}
  BY <1>3, PowerSum, Zenon
<1> QED
  BY <1>2, <1>4

-----------------------------------------------------------------------------
(* The size.                                                                *)

\* during fls(n): x is what is left of n when its lowest r bits are dropped, and has b bits
Left(a, n, b) ==
    \E x \in 1..(2^b - 1), r \in 0..(32 - b) :
        a = [x |-> x, r |-> r] /\ x * 2^r <= n /\ n < (x + 1) * 2^r

\* a product grows with its factor
LEMMA TimesOrder ==
    ASSUME NEW u \in Nat, NEW v \in Nat, NEW t \in Nat, u <= v
    PROVE  u * t <= v * t /\ u * t \in Nat /\ v * t \in Nat
  OBVIOUS

\* an if of fls halves the number of bits that are left
LEMMA ShiftLeft ==
    ASSUME NEW n \in Nat, NEW a, NEW b \in 1..16, Left(a, n, b + b)
    PROVE  Left(Shift(a, b), n, b)
<1> DEFINE P == 2^b
<1>1. PICK x \in 1..(2^(b + b) - 1), r \in 0..(32 - (b + b)) :
          a = [x |-> x, r |-> r] /\ x * 2^r <= n /\ n < (x + 1) * 2^r
  BY DEF Left
<1>2. a.x = x /\ a.r = r
  BY <1>1
<1>3. b \in 0..32 /\ b \in 0..(32 - b) /\ r \in 0..32 /\ b \in 0..(32 - r)
  BY <1>1
<1>4. 2^(b + b) = P * P /\ P \in Nat \ {0}
  BY <1>3, PowerSum, Zenon
<1>5. 2^(r + b) = 2^r * P /\ 2^r \in Nat \ {0}
  BY <1>3, PowerSum, Zenon
<1>6. CASE x >= P
  <2> DEFINE d == x \div P
             m == x % P
  <2>1. Shift(a, b) = [x |-> d, r |-> r + b]
    BY <1>2, <1>6 DEF Shift
  <2> HIDE DEF P
  <2>2. x \in Int
    OBVIOUS
  <2>3. d \in Int /\ m \in 0..(P - 1) /\ x = P * d + m
    BY <1>4, <2>2, DivMod
  <2> HIDE DEF d, m
  <2>4. d >= 1
    BY <1>4, <1>6, <2>3
  <2>5. d < P
    BY <1>1, <1>4, <2>3
  <2>6. d \in Nat /\ P * d \in Nat /\ P * (d + 1) = P * d + P /\ P * (d + 1) \in Nat
    BY <1>4, <2>3, <2>4
  <2>7. (P * d) * 2^r <= x * 2^r
    BY <1>5, <2>2, <2>3, <2>6, TimesOrder
  <2>8. (x + 1) * 2^r <= (P * (d + 1)) * 2^r
    BY <1>4, <1>5, <2>2, <2>3, <2>6, TimesOrder
  <2>9. \A u, v, t \in Nat : (u * v) * t = v * (t * u)
    OBVIOUS
  <2>10. (P * d) * 2^r = d * 2^(r + b) /\ (P * (d + 1)) * 2^r = (d + 1) * 2^(r + b)
    <3>1. P \in Nat /\ d \in Nat /\ d + 1 \in Nat /\ 2^r \in Nat
      BY <1>4, <1>5, <2>6
    <3>2. (P * d) * 2^r = d * (2^r * P)
      BY <2>9, <3>1, Zenon
    <3>3. (P * (d + 1)) * 2^r = (d + 1) * (2^r * P)
      BY <2>9, <3>1, Zenon
    <3> QED
      BY <1>5, <3>2, <3>3, Zenon
  <2>11. d * 2^(r + b) <= n /\ n < (d + 1) * 2^(r + b)
    BY <1>1, <1>5, <2>2, <2>6, <2>7, <2>8, <2>10
  <2>12. d \in 1..(P - 1) /\ r + b \in 0..(32 - b)
    BY <1>1, <1>3, <1>4, <2>4, <2>5, <2>6
  <2> QED
    BY <2>1, <2>11, <2>12 DEF Left, P
<1>7. CASE x < P
  <2>1. Shift(a, b) = [x |-> x, r |-> r]
    BY <1>1, <1>2, <1>4, <1>7 DEF Shift
  <2>2. x \in 1..(P - 1) /\ r \in 0..(32 - b)
    BY <1>1, <1>3, <1>4, <1>7
  <2> QED
    BY <1>1, <2>1, <2>2 DEF Left
<1> QED
  BY <1>4, <1>6, <1>7

\* fls finds the highest bit
LEMMA FlsBit ==
    ASSUME NEW n \in 1..(2^32 - 1)
    PROVE  Fls(n) \in 0..31 /\ 2^Fls(n) <= n /\ n < 2^(Fls(n) + 1)
<1> DEFINE a0 == [x |-> n, r |-> 0]
           a1 == Shift(a0, 16)
           a2 == Shift(a1, 8)
           a3 == Shift(a2, 4)
           a4 == Shift(a3, 2)
           a5 == Shift(a4, 1)
<1>1. n \in 1..(2^32 - 1) /\ n \in Nat /\ 2^0 = 1
  OBVIOUS
<1>2. Left(a0, n, 32)
  <2>1. 0 \in 0..(32 - 32) /\ n * 2^0 <= n /\ n < (n + 1) * 2^0
    BY <1>1
  <2> QED
    BY <1>1, <2>1, Zenon DEF Left
<1> HIDE DEF a0
<1>3. /\ 32 = 16 + 16 /\ 16 = 8 + 8 /\ 8 = 4 + 4 /\ 4 = 2 + 2 /\ 2 = 1 + 1
      /\ 16 \in 1..16 /\ 8 \in 1..16 /\ 4 \in 1..16 /\ 2 \in 1..16 /\ 1 \in 1..16
  OBVIOUS
<1>4. Left(a1, n, 16)
  BY <1>1, <1>2, <1>3, ShiftLeft, Zenon
<1> HIDE DEF a1
<1>5. Left(a2, n, 8)
  BY <1>1, <1>3, <1>4, ShiftLeft, Zenon
<1> HIDE DEF a2
<1>6. Left(a3, n, 4)
  BY <1>1, <1>3, <1>5, ShiftLeft, Zenon
<1> HIDE DEF a3
<1>7. Left(a4, n, 2)
  BY <1>1, <1>3, <1>6, ShiftLeft, Zenon
<1> HIDE DEF a4
<1>8. Left(a5, n, 1)
  BY <1>1, <1>3, <1>7, ShiftLeft, Zenon
<1> HIDE DEF a5
<1>9. PICK x \in 1..(2^1 - 1), r \in 0..(32 - 1) :
          a5 = [x |-> x, r |-> r] /\ x * 2^r <= n /\ n < (x + 1) * 2^r
  BY <1>8, Zenon DEF Left
<1>10. x = 1 /\ r \in 0..31
  <2>1. 2^1 - 1 = 1
    OBVIOUS
  <2> QED
    BY <1>9, <2>1
<1>11. 2^r \in Nat \ {0} /\ 2^(r + 1) = 2 * 2^r
  BY <1>10, PowerStep, Zenon
<1>12. 2^r <= n /\ n < 2^(r + 1)
  BY <1>9, <1>10, <1>11
<1>13. Fls(n) = r
  BY <1>9 DEF Fls, a0, a1, a2, a3, a4, a5
<1> QED
  BY <1>10, <1>12, <1>13, Zenon

\* kfifo_alloc rounds up to the next power of two
LEMMA Rounding ==
    ASSUME NEW n \in 1..2^(Bits - 1)
    PROVE  IsPowerOf2(SizeFor(n)) /\ n <= SizeFor(n) /\ SizeFor(n) < 2 * n
<1> DEFINE m == Bits - 1
           r == Fls(n)
<1>1. CASE IsPowerOf2(n)
  <2>1. SizeFor(n) = n
    BY <1>1 DEF SizeFor
  <2> QED
    BY <1>1, <2>1
<1>2. CASE ~IsPowerOf2(n)
  <2>1. m \in 0..31 /\ m \in 0..32 /\ m \in 0..m
    BY BitsAssumption
  <2>2. 2^m \in Nat \ {0} /\ n \in 1..2^m
    BY <2>1, PowerStep, Zenon
  <2>3. n < 2^m
    <3>1. n # 2^m
      BY <1>2, <2>1, Zenon DEF IsPowerOf2
    <3> QED
      BY <2>2, <3>1
  <2>4. n \in 1..(2^32 - 1)
    <3>1. 31 \in 0..31 /\ 31 \in 0..32
      OBVIOUS
    <3>2. 2^31 \in Nat \ {0} /\ 2^(31 + 1) = 2 * 2^31
      BY <3>1, PowerStep, Zenon
    <3>3. 2^m <= 2^31
      <4> SUFFICES ASSUME 2^31 < 2^m PROVE FALSE
        BY <2>2, <3>2
      <4>1. 31 < m
        BY <2>1, <3>1, PowerDivides, Zenon
      <4> QED
        BY <2>1, <4>1
    <3> QED
      BY <2>2, <3>2, <3>3
  <2>5. r \in 0..31 /\ 2^r <= n /\ n < 2^(r + 1)
    BY <2>4, FlsBit, Zenon
  <2> HIDE DEF r
  <2>6. 2^r \in Nat \ {0} /\ 2^(r + 1) = 2 * 2^r
    BY <2>5, PowerStep, Zenon
  <2>7. r \in 0..m /\ r + 1 \in 0..m
    <3>1. r \in 0..32 /\ 2^r < 2^m
      BY <2>2, <2>3, <2>5, <2>6
    <3>2. r < m
      BY <2>1, <3>1, PowerDivides, Zenon
    <3> QED
      BY <2>1, <2>5, <3>2
  <2>8. n # 2^r
    BY <1>2, <2>7, Zenon DEF IsPowerOf2
  <2>9. SizeFor(n) = 2^(r + 1)
    <3>1. n # 0 /\ ~(n >= 2^m)
      BY <2>2, <2>3
    <3> QED
      BY <1>2, <3>1 DEF SizeFor, RoundupPowOfTwo, r
  <2>10. IsPowerOf2(SizeFor(n))
    BY <2>7, <2>9, Zenon DEF IsPowerOf2
  <2> QED
    BY <2>2, <2>5, <2>6, <2>8, <2>9, <2>10
<1> QED
  BY <1>1, <1>2, Zenon

-----------------------------------------------------------------------------
(* The ring.                                                                *)

\* a sum of unsigned numbers wraps at most once
LEMMA SumWraps ==
    ASSUME NEW n \in Nat \ {0}, NEW x \in 0..(n - 1), NEW y \in 0..(n - 1)
    PROVE  (x + y) % n = IF x + y < n THEN x + y ELSE x + y - n
  OBVIOUS

\* and so does a difference
LEMMA DifferenceWraps ==
    ASSUME NEW n \in Nat \ {0}, NEW x \in 0..(n - 1), NEW y \in 0..(n - 1)
    PROVE  (x - y) % n = IF x >= y THEN x - y ELSE x - y + n
  OBVIOUS

\* the place k after the start of a buffer of s bytes, k < 2 * s
Wrap(s, k) == IF k < s THEN k ELSE k - s

\* the u bytes from place a on
Ring(b, s, a, u) == [i \in 1..u |-> b[Wrap(s, a + i - 1)]]

\* a function on 1..n is a sequence of length n
LEMMA FunctionSeq ==
    ASSUME NEW n \in Nat, NEW B, NEW f \in [1..n -> B]
    PROVE  f \in Seq(B) /\ Len(f) = n
  OBVIOUS

\* a buffer b of s bytes of B, with u of them from place a on
IsRing(b, s, a, u, B) ==
    s \in Nat \ {0} /\ a \in 0..(s - 1) /\ u \in 0..s /\ b \in [0..(s - 1) -> B]

\* the bytes of a ring are a sequence
LEMMA RingSeq ==
    ASSUME NEW b, NEW s, NEW a, NEW u, NEW B, IsRing(b, s, a, u, B)
    PROVE  Ring(b, s, a, u) \in Seq(B) /\ Len(Ring(b, s, a, u)) = u
<1>0. s \in Nat \ {0} /\ a \in 0..(s - 1) /\ u \in 0..s /\ b \in [0..(s - 1) -> B] /\ u \in Nat
  BY DEF IsRing
<1>1. \A i \in 1..u : Wrap(s, a + i - 1) \in 0..(s - 1)
  BY <1>0 DEF Wrap
<1>2. Ring(b, s, a, u) \in [1..u -> B]
  BY <1>0, <1>1, Zenon DEF Ring
<1> QED
  BY <1>0, <1>2, FunctionSeq, Zenon

\* the two memcpys of put of n bytes at place p, of which l fit before the end
Copied(b, s, p, l, n, bs) ==
    [i \in 0..(s - 1) |-> IF p <= i /\ i < p + l THEN bs[i - p + 1]
                          ELSE IF i < n - l THEN bs[i + l + 1] ELSE b[i]]

\* c is b after n bytes of bs are appended to its u bytes from place a on
Appended(c, b, s, a, u, n, bs, B) ==
    /\ c \in [0..(s - 1) -> B]
    /\ Ring(c, s, a, u + n) = Ring(b, s, a, u) \o SubSeq(bs, 1, n)

\* what kfifo_put copies is appended to what the ring held
LEMMA RingPut ==
    ASSUME NEW s \in Nat \ {0}, NEW a \in 0..(s - 1), NEW u \in 0..s, NEW n \in 0..(s - u),
           NEW B, NEW b \in [0..(s - 1) -> B], NEW bs \in Seq(B), n <= Len(bs),
           NEW p, p = Wrap(s, a + u), NEW l, l = Min2(n, s - p)
    PROVE  Appended(Copied(b, s, p, l, n, bs), b, s, a, u, n, bs, B)
<1> DEFINE c == Copied(b, s, p, l, n, bs)
<1>0. \A i \in 0..(s - 1) : c[i] = IF p <= i /\ i < p + l THEN bs[i - p + 1]
                                   ELSE IF i < n - l THEN bs[i + l + 1] ELSE b[i]
  BY DEF Copied
<1>1. p \in 0..(s - 1) /\ l \in 0..n /\ p + l <= s /\ Len(bs) \in Nat
  BY DEF Wrap, Min2
<1>2. \A i \in 1..Len(bs) : bs[i] \in B
  OBVIOUS
<1>3. c \in [0..(s - 1) -> B]
  <2> SUFFICES ASSUME NEW i \in 0..(s - 1) PROVE c[i] \in B
    BY DEF Copied
  <2>0. c[i] = IF p <= i /\ i < p + l THEN bs[i - p + 1]
               ELSE IF i < n - l THEN bs[i + l + 1] ELSE b[i]
    BY <1>0, Zenon
  <2>4. i \in Int /\ p \in Int /\ l \in Int /\ n \in Int /\ Len(bs) \in Int
    BY <1>1
  <2> HIDE DEF c
  <2>1. CASE p <= i /\ i < p + l
    <3>0. 0 <= i - p /\ i - p < l /\ l <= n
      BY <1>1, <2>1, <2>4
    <3>1. i - p + 1 \in 1..Len(bs)
      BY <2>4, <3>0
    <3> QED
      BY <1>2, <2>0, <2>1, <3>1
  <2>2. CASE ~(p <= i /\ i < p + l) /\ i < n - l
    <3>0. 0 <= i /\ 0 <= l /\ i + l < n
      BY <1>1, <2>2
    <3>1. i + l + 1 \in 1..Len(bs)
      BY <2>4, <3>0
    <3> QED
      BY <1>2, <2>0, <2>2, <3>1
  <2>3. CASE ~(p <= i /\ i < p + l) /\ ~(i < n - l)
    BY <2>0, <2>3
  <2> QED
    BY <2>1, <2>2, <2>3
<1> HIDE DEF c
<1> DEFINE old == Ring(b, s, a, u)
           new == Ring(c, s, a, u + n)
           add == SubSeq(bs, 1, n)
<1>4. old \in Seq(B) /\ Len(old) = u /\ \A i \in 1..u : old[i] = b[Wrap(s, a + i - 1)]
  <2>1. old \in Seq(B) /\ Len(old) = u
    <3>1. IsRing(b, s, a, u, B)
      BY DEF IsRing
    <3> QED
      BY <3>1, RingSeq
  <2>2. \A i \in 1..u : old[i] = b[Wrap(s, a + i - 1)]
    BY DEF Ring
  <2> QED
    BY <2>1, <2>2, Zenon
<1>5. u + n \in 0..s
  OBVIOUS
<1>6. new \in Seq(B) /\ Len(new) = u + n /\ \A i \in 1..(u + n) : new[i] = c[Wrap(s, a + i - 1)]
  <2>1. new \in Seq(B) /\ Len(new) = u + n
    <3>1. IsRing(c, s, a, u + n, B)
      BY <1>3, <1>5 DEF IsRing
    <3> QED
      BY <3>1, RingSeq
  <2>2. \A i \in 1..(u + n) : new[i] = c[Wrap(s, a + i - 1)]
    BY DEF Ring
  <2> QED
    BY <2>1, <2>2, Zenon
<1>7. add \in Seq(B) /\ Len(add) = n /\ \A i \in 1..n : add[i] = bs[i]
  BY <1>1, <1>2
<1>8. \A i \in 1..u : c[Wrap(s, a + i - 1)] = b[Wrap(s, a + i - 1)]
  <2> SUFFICES ASSUME NEW i \in 1..u PROVE c[Wrap(s, a + i - 1)] = b[Wrap(s, a + i - 1)]
    BY Zenon
  <2> DEFINE k == Wrap(s, a + i - 1)
  <2>1. k \in 0..(s - 1) /\ ~(p <= k /\ k < p + l) /\ ~(k < n - l)
    BY DEF Wrap, Min2
  <2> QED
    BY <1>0, <2>1
<1>9. \A i \in (u + 1)..(u + n) : c[Wrap(s, a + i - 1)] = bs[i - u]
  <2> SUFFICES ASSUME NEW i \in (u + 1)..(u + n) PROVE c[Wrap(s, a + i - 1)] = bs[i - u]
    BY Zenon
  <2> DEFINE k == Wrap(s, a + i - 1)
  <2>1. k \in 0..(s - 1)
    BY DEF Wrap
  <2>2. \/ p <= k /\ k < p + l /\ k - p + 1 = i - u
        \/ ~(p <= k /\ k < p + l) /\ k < n - l /\ k + l + 1 = i - u
    BY DEF Wrap, Min2
  <2> QED
    BY <1>0, <2>1, <2>2
<1> HIDE DEF old, new, add
<1>10. /\ old \o add \in Seq(B) /\ Len(old \o add) = u + n
       /\ \A i \in 1..(u + n) : (old \o add)[i] = IF i <= u THEN old[i] ELSE add[i - u]
  <2>1. /\ old \o add \in Seq(B) /\ Len(old \o add) = Len(old) + Len(add)
        /\ \A i \in 1..(Len(old) + Len(add)) :
               (old \o add)[i] = IF i <= Len(old) THEN old[i] ELSE add[i - Len(old)]
    BY <1>4, <1>7, Joined, Zenon
  <2> QED
    BY <1>4, <1>7, <2>1, Zenon
<1>11. \A i \in 1..(u + n) : new[i] = (old \o add)[i]
  <2> SUFFICES ASSUME NEW i \in 1..(u + n) PROVE new[i] = (old \o add)[i]
    BY Zenon
  <2>1. CASE i \in 1..u
    <3>1. (old \o add)[i] = old[i]
      BY <1>10, <2>1
    <3> QED
      BY <1>4, <1>6, <1>8, <2>1, <3>1, Zenon
  <2>2. CASE i \in (u + 1)..(u + n)
    <3>1. (old \o add)[i] = add[i - u] /\ i - u \in 1..n
      BY <1>10, <2>2
    <3> QED
      BY <1>6, <1>7, <1>9, <2>2, <3>1, Zenon
  <2>3. i \in 1..u \/ i \in (u + 1)..(u + n)
    OBVIOUS
  <2> QED
    BY <2>1, <2>2, <2>3, Zenon
<1>12. new = old \o add
  BY <1>6, <1>10, <1>11, SameSeq, Zenon
<1> QED
  BY <1>3, <1>12 DEF new, old, add, c, Appended

\* the two memcpys of get read the first n bytes, of which l are before the end
Reads(b, s, a, u, n, l) ==
    [i \in 1..n |-> IF i <= l THEN b[a + i - 1] ELSE b[i - l - 1]] = SubSeq(Ring(b, s, a, u), 1, n)

\* what kfifo_get copies is the beginning of what the ring held
LEMMA RingGet ==
    ASSUME NEW s \in Nat \ {0}, NEW a \in 0..(s - 1), NEW u \in 0..s, NEW n \in 0..u,
           NEW B, NEW b \in [0..(s - 1) -> B], NEW l, l = Min2(n, s - a)
    PROVE  Reads(b, s, a, u, n, l)
<1> DEFINE all == Ring(b, s, a, u)
           part == Ring(b, s, a, n)
<1>1. all \in Seq(B) /\ Len(all) = u /\ \A i \in 1..u : all[i] = b[Wrap(s, a + i - 1)]
  <2>1. all \in Seq(B) /\ Len(all) = u
    <3>1. IsRing(b, s, a, u, B)
      BY DEF IsRing
    <3> QED
      BY <3>1, RingSeq
  <2>2. \A i \in 1..u : all[i] = b[Wrap(s, a + i - 1)]
    BY DEF Ring
  <2> QED
    BY <2>1, <2>2, Zenon
<1>2. n \in 0..s
  OBVIOUS
<1>3. part \in Seq(B) /\ Len(part) = n /\ \A i \in 1..n : part[i] = b[Wrap(s, a + i - 1)]
  <2>1. part \in Seq(B) /\ Len(part) = n
    <3>1. IsRing(b, s, a, n, B)
      BY <1>2 DEF IsRing
    <3> QED
      BY <3>1, RingSeq
  <2>2. \A i \in 1..n : part[i] = b[Wrap(s, a + i - 1)]
    BY DEF Ring
  <2> QED
    BY <2>1, <2>2, Zenon
<1>4. \A i \in 1..n : Wrap(s, a + i - 1) = IF i <= l THEN a + i - 1 ELSE i - l - 1
  BY DEF Wrap, Min2
<1>5. [i \in 1..n |-> IF i <= l THEN b[a + i - 1] ELSE b[i - l - 1]] = part
  <2>1. \A i \in 1..n : (IF i <= l THEN b[a + i - 1] ELSE b[i - l - 1]) = b[Wrap(s, a + i - 1)]
    BY <1>4
  <2> QED
    BY <2>1, Zenon DEF Ring
<1> HIDE DEF all, part
<1>6. \A i \in 1..n : all[i] \in B /\ all[i] = part[i]
  <2>1. \A i \in 1..n : i \in 1..u /\ i \in 1..Len(all)
    BY <1>1
  <2> QED
    BY <1>1, <1>3, <2>1
<1>7. /\ SubSeq(all, 1, n) \in Seq(B) /\ Len(SubSeq(all, 1, n)) = n
      /\ \A i \in 1..n : SubSeq(all, 1, n)[i] = all[i]
  BY <1>6
<1>8. part = SubSeq(all, 1, n)
  BY <1>3, <1>6, <1>7
<1> QED
  BY <1>5, <1>8, Zenon DEF all, Reads

\* what get leaves
Leaves(b, s, a, u, n) ==
    Ring(b, s, Wrap(s, a + n), u - n) = SubSeq(Ring(b, s, a, u), n + 1, u)

\* and what stays is the rest
LEMMA RingRest ==
    ASSUME NEW s \in Nat \ {0}, NEW a \in 0..(s - 1), NEW u \in 0..s, NEW n \in 0..u,
           NEW B, NEW b \in [0..(s - 1) -> B]
    PROVE  Leaves(b, s, a, u, n)
<1> DEFINE all == Ring(b, s, a, u)
           w == Wrap(s, a + n)
           rest == Ring(b, s, w, u - n)
<1>1. all \in Seq(B) /\ Len(all) = u /\ \A i \in 1..u : all[i] = b[Wrap(s, a + i - 1)]
  <2>1. all \in Seq(B) /\ Len(all) = u
    <3>1. IsRing(b, s, a, u, B)
      BY DEF IsRing
    <3> QED
      BY <3>1, RingSeq
  <2>2. \A i \in 1..u : all[i] = b[Wrap(s, a + i - 1)]
    BY DEF Ring
  <2> QED
    BY <2>1, <2>2, Zenon
<1>2. w \in 0..(s - 1) /\ u - n \in 0..s
  <2>1. u - n \in 0..s /\ n \in 0..s
    OBVIOUS
  <2>2. w \in 0..(s - 1)
    BY <2>1 DEF Wrap
  <2> QED
    BY <2>1, <2>2
<1>3. \A i \in 1..(u - n) : Wrap(s, w + i - 1) = Wrap(s, a + (n + i) - 1)
  BY DEF Wrap
<1> HIDE DEF w
<1>4. /\ rest \in Seq(B) /\ Len(rest) = u - n
      /\ \A i \in 1..(u - n) : rest[i] = b[Wrap(s, w + i - 1)]
  <2>1. rest \in Seq(B) /\ Len(rest) = u - n
    <3>1. IsRing(b, s, w, u - n, B)
      BY <1>2 DEF IsRing
    <3> QED
      BY <3>1, RingSeq
  <2>2. \A i \in 1..(u - n) : rest[i] = b[Wrap(s, w + i - 1)]
    BY DEF Ring
  <2> QED
    BY <2>1, <2>2, Zenon
<1> HIDE DEF all, rest
<1>5. \A i \in 1..(u - n) : n + i \in 1..u
  OBVIOUS
<1>6. \A i \in 1..(u - n) : rest[i] = all[n + i]
  BY <1>1, <1>3, <1>4, <1>5, Zenon
<1>7. \A i \in (n + 1)..u : all[i] \in B
  <2>1. \A i \in (n + 1)..u : i \in 1..Len(all)
    BY <1>1
  <2> QED
    BY <1>1, <2>1
<1>8. /\ SubSeq(all, n + 1, u) \in Seq(B) /\ Len(SubSeq(all, n + 1, u)) = u - n
      /\ \A i \in 1..(u - n) : SubSeq(all, n + 1, u)[i] = all[n + i]
  <2>1. n + 1 \in Int /\ u \in Int
    OBVIOUS
  <2>2. /\ SubSeq(all, n + 1, u) \in Seq(B)
        /\ Len(SubSeq(all, n + 1, u)) = IF n + 1 <= u THEN u - (n + 1) + 1 ELSE 0
        /\ \A i \in 1..(u - (n + 1) + 1) : SubSeq(all, n + 1, u)[i] = all[(n + 1) + i - 1]
    BY <1>7, <2>1
  <2>3. u - (n + 1) + 1 = u - n /\ \A i \in Int : (n + 1) + i - 1 = n + i
    OBVIOUS
  <2>4. Len(SubSeq(all, n + 1, u)) = u - n
    BY <2>2
  <2>5. \A i \in 1..(u - n) : SubSeq(all, n + 1, u)[i] = all[n + i]
    <3>1. \A i \in 1..(u - n) : i \in Int
      OBVIOUS
    <3> QED
      BY <2>2, <2>3, <3>1, Zenon
  <2> QED
    BY <2>2, <2>4, <2>5, Zenon
<1>9. rest = SubSeq(all, n + 1, u)
  BY <1>4, <1>6, <1>8
<1> QED
  BY <1>9 DEF rest, all, w, Leaves

\* index x wraps at W; it is at place x % s, and the next u bytes are a ring from there
Marks(s, W, x, u, b) ==
    /\ x % s \in 0..(s - 1)
    /\ [i \in 1..u |-> b[((x + i - 1) % W) % s]] = Ring(b, s, x % s, u)
    /\ ((x + u) % W) % s = Wrap(s, (x % s) + u)

\* indices that wrap at a multiple of the size mark the bytes of a ring
LEMMA RingContents ==
    ASSUME NEW s \in Nat \ {0}, NEW q \in Nat \ {0}, NEW x \in 0..(s * q - 1), NEW u \in 0..s, NEW b
    PROVE  Marks(s, s * q, x, u, b)
<1>1. x \in Int /\ x % s \in 0..(s - 1)
  BY DivMod
<1>2. \A j \in 0..s : ((x + j) % (s * q)) % s = Wrap(s, (x % s) + j)
  <2> SUFFICES ASSUME NEW j \in 0..s PROVE ((x + j) % (s * q)) % s = Wrap(s, (x % s) + j)
    BY Zenon
  <2>1. ((x + j) % (s * q)) % s
            = IF (x % s) + j < s THEN (x % s) + j ELSE (x % s) + j - s
    BY RingIndex, Zenon
  <2> QED
    BY <2>1 DEF Wrap
<1>3. \A i \in 1..u : ((x + i - 1) % (s * q)) % s = Wrap(s, (x % s) + i - 1)
  <2> SUFFICES ASSUME NEW i \in 1..u
               PROVE  ((x + i - 1) % (s * q)) % s = Wrap(s, (x % s) + i - 1)
    BY Zenon
  <2> DEFINE r == x % s
  <2>1. r \in Int
    BY <1>1
  <2>2. i - 1 \in 0..s
    OBVIOUS
  <2>3. ((x + (i - 1)) % (s * q)) % s = Wrap(s, r + (i - 1))
    BY <1>2, <2>2, Zenon
  <2> HIDE DEF r
  <2>4. x + (i - 1) = x + i - 1 /\ r + (i - 1) = r + i - 1
    BY <1>1, <2>1
  <2> QED
    BY <2>3, <2>4, Zenon DEF r
<1>4. [i \in 1..u |-> b[((x + i - 1) % (s * q)) % s]] = Ring(b, s, x % s, u)
  BY <1>3, Zenon DEF Ring
<1> QED
  BY <1>1, <1>2, <1>4, Zenon DEF Marks

\* the number of bytes between indices x = in and y = out
LEMMA Used ==
    ASSUME NEW W \in Nat \ {0}, NEW x \in 0..(W - 1), NEW y \in 0..(W - 1)
    PROVE  (x - y) % W \in 0..(W - 1) /\ (y + ((x - y) % W)) % W = x
<1> DEFINE u == (x - y) % W
<1>1. u = (IF x >= y THEN x - y ELSE x - y + W)
  BY DifferenceWraps, Zenon
<1> HIDE DEF u
<1>2. u \in 0..(W - 1)
  BY <1>1
<1>3. (y + u) % W = IF y + u < W THEN y + u ELSE y + u - W
  BY <1>2, SumWraps, Zenon
<1>4. (y + u) % W = x
  BY <1>1, <1>3
<1> QED
  BY <1>2, <1>4 DEF u

\* after a put of n bytes
Grows(W, x, y, u, n) == (x + n) % W \in 0..(W - 1) /\ (((x + n) % W) - y) % W = u + n

\* the number of bytes in use after a put
LEMMA UsedPut ==
    ASSUME NEW W \in Nat \ {0}, NEW x \in 0..(W - 1), NEW y \in 0..(W - 1),
           NEW u, u = (x - y) % W, NEW n \in Nat, u + n < W
    PROVE  Grows(W, x, y, u, n)
<1> DEFINE z == (x + n) % W
<1>0. u = IF x >= y THEN x - y ELSE x - y + W
  BY DifferenceWraps, Zenon
<1>1. n \in 0..(W - 1)
  BY <1>0
<1>2. z = IF x + n < W THEN x + n ELSE x + n - W
  BY <1>1, SumWraps, Zenon
<1> HIDE DEF z
<1>3. z \in 0..(W - 1)
  BY <1>1, <1>2
<1>4. (z - y) % W = IF z >= y THEN z - y ELSE z - y + W
  BY <1>3, DifferenceWraps, Zenon
<1>5. (z - y) % W = u + n
  BY <1>0, <1>1, <1>2, <1>4
<1> QED
  BY <1>3, <1>5 DEF z, Grows

\* after a get of n bytes
Shrinks(W, x, y, u, n) ==
    /\ (y + n) % W \in 0..(W - 1)
    /\ (x - ((y + n) % W)) % W = u - n
    /\ (y + n) % W = x <=> n = u

\* and after a get
LEMMA UsedGet ==
    ASSUME NEW W \in Nat \ {0}, NEW x \in 0..(W - 1), NEW y \in 0..(W - 1),
           NEW u, u = (x - y) % W, NEW n \in 0..u
    PROVE  Shrinks(W, x, y, u, n)
<1> DEFINE z == (y + n) % W
<1>0. u = IF x >= y THEN x - y ELSE x - y + W
  BY DifferenceWraps, Zenon
<1>1. u \in 0..(W - 1) /\ n \in 0..(W - 1)
  BY <1>0
<1>2. z = IF y + n < W THEN y + n ELSE y + n - W
  BY <1>1, SumWraps, Zenon
<1> HIDE DEF z
<1>3. z \in 0..(W - 1)
  BY <1>1, <1>2
<1>4. (x - z) % W = IF x >= z THEN x - z ELSE x - z + W
  BY <1>3, DifferenceWraps, Zenon
<1>5. (x - z) % W = u - n /\ (z = x <=> n = u)
  BY <1>0, <1>1, <1>2, <1>4
<1> QED
  BY <1>3, <1>5 DEF z, Shrinks

-----------------------------------------------------------------------------
(* The invariant.                                                           *)

Cells == Bytes \cup {NoByte}

(***************************************************************************)
(* The size divides Width, so that masking an index that has wrapped gives *)
(* the right place, and is less than Width, so that a full buffer is not   *)
(* taken for an empty one.                                                 *)
(***************************************************************************)
KfifoInv ==
    /\ IsPowerOf2(size) /\ size \in Nat \ {0} /\ size < Width
    /\ buffer \in [0..(size - 1) -> Cells]
    /\ in \in 0..(Width - 1) /\ out \in 0..(Width - 1)
    /\ Minus(in, out) <= size

\* the width of an index is positive
LEMMA WidthNat == Width \in Nat \ {0} /\ Width - 1 \in Nat
<1>1. Bits \in 0..32 /\ 0 \in 0..(32 - Bits)
  BY BitsAssumption
<1>2. Width \in Nat \ {0}
  BY <1>1, PowerSum, Zenon DEF Width
<1> QED
  BY <1>2

\* the size divides the width: both are powers of two
LEMMA SizeDivides ==
    ASSUME NEW s, IsPowerOf2(s), s < Width
    PROVE  \E q \in Nat \ {0} : Width = s * q
<1>1. PICK w \in 0..(Bits - 1) : s = 2^w
  BY Zenon DEF IsPowerOf2
<1>2. Bits \in 0..32 /\ w \in 0..32
  BY BitsAssumption
<1>3. 2^w < 2^Bits
  BY <1>1, Zenon DEF Width
<1>4. \E q \in Nat \ {0} : 2^Bits = 2^w * q
  BY <1>2, <1>3, PowerDivides, Zenon
<1> QED
  BY <1>1, <1>4, Zenon DEF Width

\* a new kfifo is empty and of a valid size
LEMMA KfifoInitInv == KfifoInit => KfifoInv /\ Queue!Start
<1> SUFFICES ASSUME KfifoInit PROVE KfifoInv /\ Queue!Start
  OBVIOUS
<1>1. PICK n \in Sizes : size = SizeFor(n)
  BY DEF KfifoInit
<1>2. n \in 1..2^(Bits - 1)
  BY SizeAssumption
<1>3. IsPowerOf2(size) /\ n <= size /\ size < 2 * n
  BY <1>1, <1>2, Rounding, Zenon
<1>4. PICK w \in 0..(Bits - 1) : size = 2^w
  BY <1>3, Zenon DEF IsPowerOf2
<1>5. size \in Nat \ {0} /\ size < Width
  <2>1. w \in 0..31 /\ w \in 0..32 /\ Bits \in 0..32 /\ w < Bits
    BY BitsAssumption
  <2>2. size \in Nat \ {0}
    BY <1>4, <2>1, PowerStep, Zenon
  <2>3. ~(Width < size)
    <3> SUFFICES ASSUME Width < size PROVE FALSE
      BY Zenon
    <3>1. 2^Bits < 2^w
      BY <1>4, Zenon DEF Width
    <3>2. Bits < w
      BY <2>1, <3>1, PowerDivides, Zenon
    <3> QED
      BY <2>1, <3>2
  <2>4. Width # size
    <3>1. w + 1 \in 0..32 /\ Bits - (w + 1) \in 0..(32 - (w + 1)) /\ (w + 1) + (Bits - (w + 1)) = Bits
      BY <2>1
    <3>2. Width = 2^(w + 1) * 2^(Bits - (w + 1)) /\ 2^(Bits - (w + 1)) \in Nat \ {0}
      BY <3>1, PowerSum, Zenon DEF Width
    <3>3. 2^(w + 1) = 2 * size
      BY <1>4, <2>1, PowerStep, Zenon
    <3>4. \A x, y \in Nat \ {0} : (2 * x) * y # x
      OBVIOUS
    <3> QED
      BY <2>2, <3>2, <3>3, <3>4
  <2> QED
    BY <2>2, <2>3, <2>4, WidthNat
<1>6. in = 0 /\ out = 0 /\ 0 \in 0..(Width - 1) /\ Minus(in, out) = 0
  BY WidthNat DEF KfifoInit, Minus
<1>7. buffer \in [0..(size - 1) -> Cells]
  BY DEF KfifoInit, Cells
<1>8. Contents = <<>>
  BY <1>6 DEF Contents
<1> QED
  BY <1>3, <1>5, <1>6, <1>7, <1>8 DEF KfifoInv, KfifoInit, Queue!Start

\* the bytes from index y on are a ring
LEMMA MarksRing ==
    ASSUME NEW s \in Nat \ {0}, IsPowerOf2(s), s < Width,
           NEW y \in 0..(Width - 1), NEW u \in 0..s, NEW b
    PROVE  Marks(s, Width, y, u, b)
<1>1. PICK q \in Nat \ {0} : Width = s * q
  BY SizeDivides, Zenon
<1>2. y \in 0..(s * q - 1)
  BY <1>1, Zenon
<1>3. Marks(s, s * q, y, u, b)
  BY <1>2, RingContents, Zenon
<1> QED
  BY <1>1, <1>3, Zenon

\* and so are the bytes between the indices y = out and x = in
LEMMA MarkedRing ==
    ASSUME NEW s \in Nat \ {0}, IsPowerOf2(s), s < Width,
           NEW x \in 0..(Width - 1), NEW y \in 0..(Width - 1),
           NEW u, u = Minus(x, y), u <= s, NEW b
    PROVE  u \in 0..s /\ u < Width /\ (y + u) % Width = x /\ Marks(s, Width, y, u, b)
<1>1. u \in 0..(Width - 1) /\ (y + u) % Width = x
  BY WidthNat, Used, Zenon DEF Minus
<1>2. u \in 0..s /\ u < Width
  BY <1>1, WidthNat
<1> QED
  BY <1>1, <1>2, MarksRing, Zenon

\* kfifo_put keeps the invariant and is the put of the abstract queue
LEMMA PutStep ==
    ASSUME KfifoInv, NEW len \in 0..MaxLen, NEW bs \in [1..len -> Bytes], KfifoPut(bs)
    PROVE  KfifoInv' /\ Queue!Put(bs)
<1> DEFINE u == Minus(in, out)
           a == At(out)
           p == At(in)
           n == Min2(Len(bs), Free)
           l == Min2(n, size - p)
<1>1. /\ IsPowerOf2(size) /\ size \in Nat \ {0} /\ size < Width
      /\ buffer \in [0..(size - 1) -> Cells]
      /\ in \in 0..(Width - 1) /\ out \in 0..(Width - 1) /\ u <= size
  BY DEF KfifoInv
<1>2. /\ u \in 0..size /\ u < Width /\ a \in 0..(size - 1)
      /\ Contents = Ring(buffer, size, a, u) /\ p = Wrap(size, a + u)
  <2>1. u = Minus(in, out)
    OBVIOUS
  <2> HIDE DEF u
  <2>2. u \in 0..size /\ u < Width /\ (out + u) % Width = in /\ Marks(size, Width, out, u, buffer)
    BY <1>1, <2>1, MarkedRing
  <2> QED
    BY <2>1, <2>2, Zenon DEF Marks, Contents, At
<1> HIDE DEF u, a, p
<1>3. Free = size - u
  <2>1. size - u \in 0..(Width - 1)
    BY <1>1, <1>2, WidthNat
  <2>2. (size - u) % Width = size - u
    BY <2>1, WidthNat, SmallMod, Zenon
  <2> QED
    BY <2>2 DEF Free, Minus, u
<1>4. bs \in Seq(Cells) /\ Len(bs) \in Nat
  BY BoundAssumption DEF Cells
<1>5. n \in 0..(size - u) /\ n <= Len(bs)
  BY <1>1, <1>2, <1>3, <1>4 DEF Min2
<1>6. /\ buffer' = IF n = 0 THEN buffer ELSE CopyIn(bs, n)
      /\ in' = (in + n) % Width /\ Called("put", bs, n) /\ size' = size /\ out' = out
  BY DEF KfifoPut
<1> HIDE DEF n
<1>7. in' \in 0..(Width - 1) /\ Minus(in', out) = u + n
  <2>1. n \in Nat /\ u + n < Width
    BY <1>1, <1>2, <1>5, WidthNat
  <2>2. u = (in - out) % Width
    BY DEF u, Minus
  <2>3. Grows(Width, in, out, u, n)
    BY <1>1, <2>1, <2>2, WidthNat, UsedPut, Zenon
  <2> QED
    BY <1>6, <2>3, Zenon DEF Minus, Grows
<1>8. buffer' = Copied(buffer, size, p, l, n, bs)
  <2>1. CASE n = 0
    <3>1. p \in 0..(size - 1)
      BY <1>1, <1>2 DEF Wrap
    <3>2. l = 0
      BY <1>1, <2>1, <3>1 DEF Min2
    <3>3. \A i \in 0..(size - 1) : ~(p <= i /\ i < p + l) /\ ~(i < n - l)
      BY <2>1, <3>1, <3>2
    <3>4. Copied(buffer, size, p, l, n, bs) = buffer
      BY <1>1, <3>3 DEF Copied
    <3> QED
      BY <1>6, <2>1, <3>4
  <2>2. CASE n # 0
    <3>1. DOMAIN buffer = 0..(size - 1)
      BY <1>1
    <3> QED
      BY <1>6, <2>2, <3>1, Zenon DEF CopyIn, Copied, p
  <2> QED
    BY <2>1, <2>2
<1>17. l = Min2(n, size - p)
  OBVIOUS
<1> HIDE DEF l
<1>9. /\ buffer' \in [0..(size - 1) -> Cells]
      /\ Ring(buffer', size, a, u + n) = Ring(buffer, size, a, u) \o SubSeq(bs, 1, n)
  <2>1. Appended(Copied(buffer, size, p, l, n, bs), buffer, size, a, u, n, bs, Cells)
    BY <1>1, <1>2, <1>4, <1>5, <1>17, RingPut, Zenon
  <2> QED
    BY <1>8, <2>1, Zenon DEF Appended
<1>10. u + n <= size
  BY <1>1, <1>2, <1>5
<1>11. KfifoInv'
  BY <1>1, <1>6, <1>7, <1>9, <1>10, Zenon DEF KfifoInv, Minus, IsPowerOf2, Cells
<1>12. Contents' = Ring(buffer', size, a, u + n)
  <2>1. Marks(size, Width, out, u + n, buffer')
    BY <1>1, <1>7, <1>10, MarkedRing, Zenon
  <2> QED
    BY <1>6, <1>7, <2>1, Zenon DEF Marks, Contents, At, a, Minus
<1>13. Len(Contents) = u
  <2>1. IsRing(buffer, size, a, u, Cells)
    BY <1>1, <1>2 DEF IsRing
  <2> QED
    BY <1>2, <2>1, RingSeq
<1>14. n = Queue!Least(Len(bs), size - Len(Contents))
  BY <1>3, <1>13, Zenon DEF n, Min2, Queue!Least
<1>15. Contents' = Contents \o SubSeq(bs, 1, n)
  BY <1>2, <1>9, <1>12, Zenon
<1>16. Queue!Put(bs)
  BY <1>6, <1>14, <1>15, Zenon DEF Queue!Put, Queue!Called, Called
<1> QED
  BY <1>11, <1>16

\* kfifo_get keeps the invariant and is the get of the abstract queue
LEMMA GetStep ==
    ASSUME KfifoInv, NEW len \in 0..MaxLen, KfifoGet(len)
    PROVE  KfifoInv' /\ Queue!Get(len)
<1> DEFINE u == Minus(in, out)
           a == At(out)
           n == Min2(len, u)
           l == Min2(n, size - a)
<1>1. /\ IsPowerOf2(size) /\ size \in Nat \ {0} /\ size < Width
      /\ buffer \in [0..(size - 1) -> Cells]
      /\ in \in 0..(Width - 1) /\ out \in 0..(Width - 1) /\ u <= size
  BY DEF KfifoInv
<1>2. /\ u \in 0..size /\ u < Width /\ a \in 0..(size - 1)
      /\ Contents = Ring(buffer, size, a, u)
  <2>1. u = Minus(in, out)
    OBVIOUS
  <2> HIDE DEF u
  <2>2. u \in 0..size /\ u < Width /\ (out + u) % Width = in /\ Marks(size, Width, out, u, buffer)
    BY <1>1, <2>1, MarkedRing
  <2> QED
    BY <2>1, <2>2, Zenon DEF Marks, Contents, At
<1>3. /\ Called("get", IF n = 0 THEN <<>> ELSE CopyOut(n), n)
      /\ out' = IF (out + n) % Width = in THEN 0 ELSE (out + n) % Width
      /\ in' = IF (out + n) % Width = in THEN 0 ELSE in
      /\ size' = size /\ buffer' = buffer
  BY DEF KfifoGet
<1> HIDE DEF u, a
<1>4. n \in 0..u /\ n \in 0..size
  BY <1>1, <1>2, BoundAssumption DEF Min2
<1> HIDE DEF n
<1>5. Shrinks(Width, in, out, u, n)
  <2>1. u = (in - out) % Width
    BY DEF u, Minus
  <2> QED
    BY <1>1, <1>4, <2>1, WidthNat, UsedGet, Zenon
<1>6. Contents \in Seq(Cells) /\ Len(Contents) = u
  <2>1. IsRing(buffer, size, a, u, Cells)
    BY <1>1, <1>2 DEF IsRing
  <2> QED
    BY <1>2, <2>1, RingSeq
<1>7. Called("get", SubSeq(Contents, 1, n), n)
  <2>1. CASE n = 0
    <3>1. SubSeq(Contents, 1, n) = <<>>
      BY <2>1
    <3> QED
      BY <1>3, <2>1, <3>1, Zenon
  <2>2. CASE n # 0
    <3>1. Reads(buffer, size, a, u, n, l)
      BY <1>1, <1>2, <1>4, RingGet, Zenon
    <3>2. CopyOut(n) = [i \in 1..n |-> IF i <= l THEN buffer[a + i - 1] ELSE buffer[i - l - 1]]
      BY Zenon DEF CopyOut, a
    <3> QED
      BY <1>2, <1>3, <2>2, <3>1, <3>2, Zenon DEF Reads
  <2> QED
    BY <2>1, <2>2, Zenon
<1>8. KfifoInv' /\ Contents' = SubSeq(Contents, n + 1, Len(Contents))
  <2>1. CASE n = u
    <3>1. in' = 0 /\ out' = 0
      BY <1>3, <1>5, <2>1, Zenon DEF Shrinks
    <3>2. Minus(in, out)' = 0 /\ 0 \in 0..(Width - 1)
      BY <3>1, WidthNat DEF Minus
    <3>3. KfifoInv'
      <4>1. size' = size /\ Minus(in, out)' <= size
        BY <1>1, <1>3, <3>2
      <4> QED
        BY <1>1, <1>3, <3>1, <3>2, <4>1, Zenon DEF KfifoInv, IsPowerOf2, Cells
    <3>4. Contents' = <<>>
      BY <3>2 DEF Contents
    <3>5. SubSeq(Contents, n + 1, Len(Contents)) = <<>>
      BY <1>4, <1>6, <2>1
    <3> QED
      BY <3>3, <3>4, <3>5, Zenon
  <2>2. CASE n # u
    <3>1. in' = in /\ out' = (out + n) % Width /\ out' \in 0..(Width - 1)
      BY <1>3, <1>5, <2>2, Zenon DEF Shrinks
    <3>2. Minus(in, out)' = u - n
      BY <1>5, <3>1, Zenon DEF Shrinks, Minus
    <3>3. u - n <= size /\ u - n \in 0..size
      BY <1>1, <1>2, <1>4
    <3>4. KfifoInv'
      BY <1>1, <1>3, <3>1, <3>2, <3>3, Zenon DEF KfifoInv, IsPowerOf2, Cells
    <3>5. Marks(size, Width, out', u - n, buffer)
      BY <1>1, <3>1, <3>3, MarksRing, Zenon
    <3>6. Contents' = Ring(buffer, size, out' % size, u - n)
      BY <1>3, <3>2, <3>5, Zenon DEF Marks, Contents, At
    <3>7. Marks(size, Width, out, n, buffer)
      BY <1>1, <1>4, MarksRing, Zenon
    <3>8. out' % size = Wrap(size, a + n)
      BY <3>1, <3>7, Zenon DEF Marks, a, At
    <3>9. Leaves(buffer, size, a, u, n)
      BY <1>1, <1>2, <1>4, RingRest, Zenon
    <3> QED
      BY <1>2, <1>6, <3>4, <3>6, <3>8, <3>9, Zenon DEF Leaves
  <2> QED
    BY <2>1, <2>2, Zenon
<1>9. n = Queue!Least(len, Len(Contents))
  BY <1>6, Zenon DEF n, Min2, Queue!Least
<1>10. Queue!Get(len)
  BY <1>3, <1>7, <1>8, <1>9, Zenon DEF Queue!Get, Queue!Called, Called
<1> QED
  BY <1>8, <1>10

\* every step keeps the invariant, and is a step of the queue
LEMMA KfifoNextInv == KfifoInv /\ [KfifoNext]_kfifoVars => KfifoInv' /\ [Queue!Step]_<<size, Contents, call>>
<1> SUFFICES ASSUME KfifoInv, [KfifoNext]_kfifoVars PROVE KfifoInv' /\ [Queue!Step]_<<size, Contents, call>>
  OBVIOUS
<1>1. CASE KfifoReset
  <2>1. Minus(in, out)' = 0 /\ 0 \in 0..(Width - 1)
    BY <1>1, WidthNat DEF KfifoReset, Minus
  <2>2. KfifoInv'
    <3>1. size' = size /\ Minus(in, out)' <= size
      BY <1>1, <2>1 DEF KfifoReset, KfifoInv
    <3> QED
      BY <1>1, <2>1, <3>1, Zenon DEF KfifoReset, KfifoInv, IsPowerOf2, Cells
  <2>3. Contents' = <<>>
    BY <2>1 DEF Contents
  <2>4. Queue!Reset
    BY <1>1, <2>3 DEF KfifoReset, Queue!Reset, Queue!Called, Called
  <2> QED
    BY <2>2, <2>4 DEF Queue!Step
<1>2. CASE KfifoLen
  <2>1. KfifoInv'
    BY <1>2, Zenon DEF KfifoLen, KfifoInv, IsPowerOf2, Cells, Minus
  <2>2. Contents' = Contents
    BY <1>2 DEF KfifoLen, Contents, Minus, At
  <2>3. Len(Contents) = Minus(in, out)
    <3> DEFINE u == Minus(in, out)
    <3>1. u = Minus(in, out)
      OBVIOUS
    <3>2. /\ IsPowerOf2(size) /\ size \in Nat \ {0} /\ size < Width
          /\ in \in 0..(Width - 1) /\ out \in 0..(Width - 1) /\ u <= size
      BY DEF KfifoInv
    <3> HIDE DEF u
    <3>3. u \in 0..size
      BY <3>1, <3>2, MarkedRing
    <3>4. Contents \in [1..u -> {Contents[i] : i \in 1..u}] /\ u \in Nat
      BY <3>1, <3>3 DEF Contents
    <3> QED
      BY <3>1, <3>4, FunctionSeq
  <2>4. Queue!Length
    BY <1>2, <2>2, <2>3 DEF KfifoLen, Queue!Length, Queue!Called, Called
  <2> QED
    BY <2>1, <2>4 DEF Queue!Step
<1>3. ASSUME NEW len \in 0..MaxLen, KfifoGet(len)
      PROVE  KfifoInv' /\ Queue!Step
  BY <1>3, GetStep, Zenon DEF Queue!Step
<1>4. ASSUME NEW len \in 0..MaxLen, NEW bs \in [1..len -> Bytes], KfifoPut(bs)
      PROVE  KfifoInv' /\ Queue!Step
  BY <1>4, PutStep, Zenon DEF Queue!Step
<1>5. CASE UNCHANGED kfifoVars
  <2>1. KfifoInv'
    BY <1>5, Zenon DEF kfifoVars, KfifoInv, IsPowerOf2, Cells, Minus
  <2>2. UNCHANGED <<size, Contents, call>>
    BY <1>5 DEF kfifoVars, Contents, Minus, At
  <2> QED
    BY <2>1, <2>2
<1> QED
  BY <1>1, <1>2, <1>3, <1>4, <1>5, Zenon DEF KfifoNext

-----------------------------------------------------------------------------
(* The theorems.                                                            *)

\* the inductive invariant of the ring
LEMMA KfifoInvariance == KfifoSpec => []KfifoInv
<1>1. KfifoInit => KfifoInv
  BY KfifoInitInv
<1>2. KfifoInv /\ [KfifoNext]_kfifoVars => KfifoInv'
  BY KfifoNextInv
<1> QED
  BY <1>1, <1>2, PTL DEF KfifoSpec

(***************************************************************************)
(* However the indices of a kfifo have wrapped, they mark no more bytes    *)
(* than the buffer has, and the two memcpys of put stay inside it.         *)
(***************************************************************************)
THEOREM KfifoTypeCorrect == KfifoSpec => []KfifoTypeOK
<1>1. KfifoInv => KfifoTypeOK
  BY DEF KfifoInv, KfifoTypeOK, Cells
<1> QED
  BY <1>1, KfifoInvariance, PTL

(***************************************************************************)
(* For every size up to 2^31 kfifo_alloc gives the least power of two that *)
(* is not less: the five halving steps of fls find the highest bit.        *)
(***************************************************************************)
THEOREM Rounded == KfifoSpec => []SizeRounded
<1>1. KfifoInv => SizeRounded
  <2>1. \A n \in Sizes : IsPowerOf2(SizeFor(n)) /\ n <= SizeFor(n) /\ SizeFor(n) < 2 * n
    BY SizeAssumption, Rounding, Zenon
  <2> QED
    BY <2>1 DEF KfifoInv, SizeRounded
<1> QED
  BY <1>1, KfifoInvariance, PTL

(***************************************************************************)
(* kfifo_put, kfifo_get, kfifo_reset and kfifo_len are the operations of a *)
(* bounded queue of bytes, for a buffer of any size and indices that wrap  *)
(* at any larger power of two.                                             *)
(***************************************************************************)
THEOREM KfifoRefinement == KfifoSpec => ImplementsByteFifo
<1>1. KfifoInit => Queue!Start
  BY KfifoInitInv
<1>2. KfifoInv /\ [KfifoNext]_kfifoVars => [Queue!Step]_<<size, Contents, call>>
  BY KfifoNextInv
<1> QED
  BY <1>1, <1>2, KfifoInvariance, PTL DEF KfifoSpec, ImplementsByteFifo, Queue!ByteSpec, Queue!fifo

-----------------------------------------------------------------------------
(* The framing of a connection.                                            *)

\* what appending does to a sequence, for the two kinds the model has
LEMMA AppendBodies ==
    \A s \in Seq(Bodies), n \in Bodies :
        /\ Append(s, n) \in Seq(Bodies) /\ Len(Append(s, n)) = Len(s) + 1
        /\ \A i \in 1 .. Len(s) : Append(s, n)[i] = s[i]
        /\ Append(s, n)[Len(s) + 1] = n
OBVIOUS

\* a sequence of lengths with one more length
LEMMA AppendNat ==
    \A s \in Seq(Nat), n \in Nat :
        /\ Append(s, n) \in Seq(Nat) /\ Len(Append(s, n)) = Len(s) + 1
        /\ \A i \in 1 .. Len(s) : Append(s, n)[i] = s[i]
        /\ Append(s, n)[Len(s) + 1] = n
OBVIOUS

(***************************************************************************)
(* The frames lie one behind the other in the stream.                      *)
(***************************************************************************)
StreamInv ==
    /\ Len(ends) = Len(sent) + 1
    /\ \A k \in 1 .. Len(sent) : ends[k + 1] = ends[k] + HeadLen + sent[k]
    /\ \A j, k \in 1 .. Len(sent) + 1 : j < k => ends[j] < ends[k]

\* no more is read than was sent, and no more frames are handed on
ReadInv ==
    /\ Len(got) <= Len(sent)
    /\ \A k \in 1 .. Len(got) : got[k] = sent[k]
    /\ read <= ends[Len(sent) + 1]
    /\ recved <= read

Inv == TypeOK /\ StreamInv /\ ReadInv /\ Aligned /\ WithinFrame

(***************************************************************************)
(* While the buffer is aligned, the head that is looked at is that of the  *)
(* first frame that was not handed on.                                     *)
(***************************************************************************)
LEMMA HeadOfNext ==
    TypeOK /\ StreamInv /\ ReadInv /\ Aligned /\ closed = "no" /\ Len(got) < Len(sent)
        => Announced = sent[Len(got) + 1] /\ Announced \in Bodies
<1> SUFFICES ASSUME TypeOK, StreamInv, ReadInv, Aligned, closed = "no", Len(got) < Len(sent)
             PROVE  Announced = sent[Len(got) + 1] /\ Announced \in Bodies
  OBVIOUS
<1>1. Len(got) \in Nat /\ Len(sent) \in Nat /\ Len(got) + 1 \in 1 .. Len(sent)
  BY DEF TypeOK
<1>2. ends[Len(got) + 1] = Start
  BY DEF Aligned, Start
<1>3. \A k \in 1 .. Len(sent) : ends[k] = Start => k = Len(got) + 1
  <2> SUFFICES ASSUME NEW k \in 1 .. Len(sent), ends[k] = Start, k # Len(got) + 1
               PROVE  FALSE
    OBVIOUS
  <2>1. ends[k] < ends[Len(got) + 1] \/ ends[Len(got) + 1] < ends[k]
    BY <1>1 DEF StreamInv
  <2>2. ends[k] \in Nat
    BY <1>1 DEF TypeOK, StreamInv
  <2> QED
    BY <1>2, <2>1, <2>2
<1>4. Frame = Len(got) + 1
  BY <1>1, <1>2, <1>3 DEF Frame
<1>5. Announced = sent[Len(got) + 1]
  BY <1>1, <1>2, <1>4 DEF Announced
<1> QED
  BY <1>1, <1>5 DEF TypeOK

\* bytes in the buffer belong to a frame that was sent
LEMMA BufferInFrame ==
    ASSUME TypeOK, StreamInv, ReadInv, Aligned, closed = "no",
           recved > 0 \/ Unread > 0
    PROVE  Len(got) < Len(sent)
<1>1. Len(got) \in Nat /\ Len(sent) \in Nat /\ read \in Nat /\ recved \in Nat
  BY DEF TypeOK
<1>2. ends[Len(sent) + 1] \in Nat /\ Len(ends) = Len(sent) + 1
  BY <1>1 DEF TypeOK, StreamInv
<1>3. read - recved = ends[Len(got) + 1]
  BY DEF Aligned
<1>4. read - recved < ends[Len(sent) + 1]
  BY <1>1, <1>2 DEF ReadInv, Unread
<1> QED
  BY <1>1, <1>2, <1>3, <1>4 DEF ReadInv

\* the invariant holds before the first read
LEMMA InitInv == Init => Inv
<1> SUFFICES ASSUME Init PROVE Inv
  OBVIOUS
<1>1. ends = <<0>> /\ Len(ends) = 1 /\ ends[1] = 0 /\ ends \in Seq(Nat)
  BY DEF Init
<1>2. Len(sent) = 0 /\ Len(got) = 0 /\ sent \in Seq(Bodies) /\ got \in Seq(Bodies)
  BY DEF Init
<1> QED
  BY <1>1, <1>2, LengthAssumption DEF Init, Inv, TypeOK, StreamInv, ReadInv, Aligned, WithinFrame

\* a frame is sent
LEMMA SendInv ==
    ASSUME Inv, NEW n \in Bodies, PeerSend(n) PROVE Inv'
<1>1. /\ sent \in Seq(Bodies) /\ ends \in Seq(Nat) /\ Len(sent) \in Nat /\ Len(got) \in Nat
      /\ n \in Nat /\ HeadLen \in Nat \ {0} /\ Len(ends) = Len(sent) + 1
      /\ \A k \in 1 .. Len(sent) + 1 : ends[k] \in Nat
  BY LengthAssumption DEF Inv, TypeOK, StreamInv
<1>2. /\ sent' = Append(sent, n)
      /\ ends' = Append(ends, ends[Len(sent) + 1] + HeadLen + n)
      /\ UNCHANGED <<got, read, recved, closed>>
  BY <1>1 DEF PeerSend
<1>3. /\ Len(sent') = Len(sent) + 1 /\ sent'[Len(sent) + 1] = n /\ sent' \in Seq(Bodies)
      /\ \A k \in 1 .. Len(sent) : sent'[k] = sent[k]
  BY <1>1, <1>2, AppendBodies
<1>4. /\ Len(ends') = Len(sent) + 2 /\ ends' \in Seq(Nat)
      /\ ends'[Len(sent) + 2] = ends[Len(sent) + 1] + HeadLen + n
      /\ \A k \in 1 .. Len(sent) + 1 : ends'[k] = ends[k]
  BY <1>1, <1>2, AppendNat
<1>5. TypeOK'
  BY <1>2, <1>3, <1>4 DEF Inv, TypeOK
<1>6. StreamInv'
  <2>1. \A k \in 1 .. Len(sent') : ends'[k + 1] = ends'[k] + HeadLen + sent'[k]
    <3> SUFFICES ASSUME NEW k \in 1 .. Len(sent) + 1
                 PROVE  ends'[k + 1] = ends'[k] + HeadLen + sent'[k]
      BY <1>1, <1>3
    <3>1. CASE k \in 1 .. Len(sent)
      <4>1. k + 1 \in 1 .. Len(sent) + 1 /\ k \in 1 .. Len(sent) + 1
        BY <1>1, <3>1
      <4>2. ends'[k + 1] = ends[k + 1] /\ ends'[k] = ends[k] /\ sent'[k] = sent[k]
        BY <1>3, <1>4, <3>1, <4>1
      <4> QED
        BY <3>1, <4>2 DEF Inv, StreamInv
    <3>2. CASE k = Len(sent) + 1
      <4>1. k + 1 = Len(sent) + 2
        BY <1>1, <3>2
      <4> QED
        BY <1>1, <1>3, <1>4, <3>2, <4>1, Zenon
    <3> QED
      BY <1>1, <3>1, <3>2
  <2>2. \A j, k \in 1 .. Len(sent') + 1 : j < k => ends'[j] < ends'[k]
    <3> SUFFICES ASSUME NEW j \in 1 .. Len(sent) + 2, NEW k \in 1 .. Len(sent) + 2, j < k
                 PROVE  ends'[j] < ends'[k]
      BY <1>1, <1>3
    <3>1. CASE k <= Len(sent) + 1
      <4>1. j \in 1 .. Len(sent) + 1 /\ k \in 1 .. Len(sent) + 1
        BY <1>1, <3>1
      <4>2. ends'[j] = ends[j] /\ ends'[k] = ends[k]
        BY <1>4, <4>1
      <4> QED
        BY <4>1, <4>2 DEF Inv, StreamInv
    <3>2. CASE k = Len(sent) + 2
      <4>1. ends[j] <= ends[Len(sent) + 1]
        BY <1>1, <3>2 DEF Inv, StreamInv
      <4> QED
        BY <1>1, <1>4, <3>2, <4>1
    <3> QED
      BY <1>1, <3>1, <3>2
  <2> QED
    BY <1>1, <1>3, <1>4, <2>1, <2>2 DEF StreamInv
<1>7. ReadInv'
  BY <1>1, <1>2, <1>3, <1>4 DEF Inv, ReadInv, TypeOK
<1>8. Aligned'
  BY <1>1, <1>2, <1>4 DEF Inv, ReadInv, Aligned
<1>9. WithinFrame'
  <2> SUFFICES ASSUME closed = "no", recved > HeadLen
               PROVE  recved < HeadLen + BodyLength(Announced)'
    BY <1>2 DEF WithinFrame
  <2>1. Len(got) < Len(sent)
    BY <1>1, BufferInFrame DEF Inv, TypeOK
  <2>2. Announced = sent[Len(got) + 1]
    BY <2>1, HeadOfNext DEF Inv
  <2>3. Announced' = sent'[Len(got) + 1]
    <3>1. Len(got') < Len(sent') /\ closed' = "no"
      BY <1>1, <1>2, <1>3, <2>1
    <3>2. (TypeOK /\ StreamInv /\ ReadInv /\ Aligned /\ closed = "no" /\ Len(got) < Len(sent)
             => Announced = sent[Len(got) + 1] /\ Announced \in Bodies)'
      BY HeadOfNext, PTL
    <3> QED
      BY <1>2, <1>5, <1>6, <1>7, <1>8, <3>1, <3>2
  <2>4. Announced' = Announced
    <3>1. Len(got) + 1 \in 1 .. Len(sent)
      BY <1>1, <2>1
    <3> QED
      BY <1>3, <2>2, <2>3, <3>1
  <2> QED
    BY <2>4 DEF Inv, WithinFrame, BodyLength
<1> QED
  BY <1>5, <1>6, <1>7, <1>8, <1>9 DEF Inv

(***************************************************************************)
(* One read.  In the buffer there is then a part of one frame, or the      *)
(* frame was complete and handed on.                                       *)
(***************************************************************************)
Partial(n) ==
    /\ read' = read + n /\ recved' = recved + n
    /\ UNCHANGED <<sent, ends, got, closed>>

\* a read that leaves the frame incomplete
LEMMA PartialInv ==
    ASSUME Inv, closed = "no", NEW n \in Nat, n <= Unread, Partial(n),
           recved + n > HeadLen => recved + n < HeadLen + BodyLength(Announced)
    PROVE  Inv'
<1>1. Len(sent) \in Nat /\ Len(got) \in Nat /\ read \in Nat /\ recved \in Nat
  BY DEF Inv, TypeOK
<1>2. /\ Len(ends) = Len(sent) + 1 /\ ends[Len(sent) + 1] \in Nat
      /\ ends[Len(got) + 1] \in Nat
  BY <1>1 DEF Inv, TypeOK, StreamInv, ReadInv
<1>3. TypeOK' /\ StreamInv'
  BY <1>1 DEF Partial, Inv, TypeOK, StreamInv
<1>4. ReadInv'
  BY <1>1, <1>2 DEF Partial, Inv, ReadInv, Unread
<1>5. Start' = Start /\ Aligned'
  BY <1>1, <1>2 DEF Partial, Inv, Aligned, Start
<1>6. Announced' = Announced
  BY <1>5 DEF Partial, Announced, Frame
<1>7. WithinFrame'
  BY <1>6 DEF Partial, WithinFrame, BodyLength
<1> QED
  BY <1>3, <1>4, <1>5, <1>7 DEF Inv

\* dealwith_recv with a body still to come reads for the first frame not handed on
LEMMA BodyFacts ==
    ASSUME Inv, closed = "no", recved >= HeadLen, BodyLength(Announced) # -1
    PROVE  /\ Len(got) < Len(sent) /\ Announced = sent[Len(got) + 1]
           /\ Announced \in Bodies /\ Announced \in Nat \ {0}
           /\ BodyLength(Announced) = Announced
           /\ recved < HeadLen + Announced /\ recved \in Nat
<1>1. recved \in Nat /\ HeadLen \in Nat \ {0}
  BY LengthAssumption DEF Inv, TypeOK
<1>2. Len(got) < Len(sent)
  BY <1>1, BufferInFrame DEF Inv
<1>3. Announced = sent[Len(got) + 1] /\ Announced \in Bodies
  BY <1>2, HeadOfNext DEF Inv
<1>4. Announced \in Nat \ {0} /\ BodyLength(Announced) = Announced
  BY <1>3, LengthAssumption DEF BodyLength
<1>5. recved < HeadLen + Announced
  BY <1>1, <1>4 DEF Inv, WithinFrame
<1> QED
  BY <1>1, <1>2, <1>3, <1>4, <1>5

\* the read that completes the frame: the message is the next one of the peer
LEMMA CompleteInv ==
    ASSUME Inv, RecvBodyAll, recved + BodyWanted = HeadLen + BodyLength(Announced)
    PROVE  /\ Inv'
           /\ Len(got) < Len(sent) /\ got' = Append(got, sent[Len(got) + 1]) /\ sent' = sent
<1>1. /\ Len(got) < Len(sent) /\ Announced = sent[Len(got) + 1]
      /\ Announced \in Bodies /\ Announced \in Nat \ {0}
      /\ BodyLength(Announced) = Announced
      /\ recved < HeadLen + Announced /\ recved \in Nat
  BY BodyFacts DEF RecvBodyAll
<1>2. /\ got' = Append(got, Announced) /\ recved' = 0
      /\ UNCHANGED <<sent, ends, closed>> /\ read' = read + BodyWanted
      /\ BodyWanted <= Unread /\ closed = "no"
  BY DEF RecvBodyAll
<1>3. /\ Len(sent) \in Nat /\ Len(got) \in Nat /\ read \in Nat /\ got \in Seq(Bodies)
      /\ Len(ends) = Len(sent) + 1 /\ HeadLen \in Nat \ {0} /\ Chunk \in Nat
  BY LengthAssumption DEF Inv, TypeOK, StreamInv
<1>4. ends[Len(got) + 1] \in Nat /\ ends[Len(got) + 2] \in Nat /\ ends[Len(sent) + 1] \in Nat
  <2>1. \A k \in 1 .. Len(ends) : ends[k] \in Nat
    BY DEF Inv, TypeOK
  <2>2. \A g, n, m \in Nat : g < n /\ m = n + 1 =>
            g + 1 \in 1 .. m /\ g + 2 \in 1 .. m /\ n + 1 \in 1 .. m
    OBVIOUS
  <2>3. /\ Len(got) + 1 \in 1 .. Len(ends) /\ Len(got) + 2 \in 1 .. Len(ends)
        /\ Len(sent) + 1 \in 1 .. Len(ends)
    <3>1. Len(got) < Len(sent) /\ Len(ends) \in Nat
      BY <1>1, <1>3
    <3> QED
      BY <1>3, <2>2, <3>1
  <2> QED
    BY <2>1, <2>3
<1>5. /\ Len(got') = Len(got) + 1 /\ got'[Len(got) + 1] = Announced /\ got' \in Seq(Bodies)
      /\ \A k \in 1 .. Len(got) : got'[k] = got[k]
  BY <1>1, <1>2, <1>3, AppendBodies
<1>6. BodyWanted = HeadLen + Announced - recved /\ BodyWanted \in Nat
  <2>1. BodyWanted \in Int
    BY <1>1, <1>3 DEF BodyWanted, AtMost
  <2>2. recved + BodyWanted = HeadLen + Announced
    BY <1>1
  <2>3. \A r, h, a \in Nat : \A b \in Int : r + b = h + a /\ r < h + a => b = h + a - r /\ b \in Nat
    OBVIOUS
  <2>4. HeadLen \in Nat /\ Announced \in Nat /\ recved \in Nat /\ recved < HeadLen + Announced
    BY <1>1, <1>3
  <2> QED
    BY <2>1, <2>2, <2>3, <2>4, Zenon
<1>7. read - recved = ends[Len(got) + 1]
  BY <1>2 DEF Inv, Aligned
<1>8. ends[Len(got) + 2] = ends[Len(got) + 1] + HeadLen + Announced
  <2>1. Len(got) + 1 \in 1 .. Len(sent) /\ (Len(got) + 1) + 1 = Len(got) + 2
    BY <1>1, <1>3
  <2> QED
    BY <1>1, <2>1 DEF Inv, StreamInv
<1>9. read' = ends[Len(got) + 2] /\ read' \in Nat
  <2>1. read' = read + (HeadLen + Announced - recved)
    BY <1>2, <1>6
  <2>2. /\ read \in Int /\ recved \in Int /\ HeadLen \in Int /\ Announced \in Int
        /\ ends[Len(got) + 1] \in Int
    BY <1>1, <1>3, <1>4, SMTT(20)
  <2>3. read' = ends[Len(got) + 1] + HeadLen + Announced
    BY <1>7, <2>1, <2>2
  <2> QED
    BY <1>4, <1>8, <2>3
<1>10. TypeOK' /\ StreamInv'
  BY <1>2, <1>5, <1>9 DEF Inv, TypeOK, StreamInv
<1>11. ReadInv'
  <2>1. read' <= ends[Len(sent) + 1]
    BY <1>2, <1>3, <1>4, <1>6, <1>9 DEF Unread
  <2>2. \A k \in 1 .. Len(got') : got'[k] = sent[k]
    <3> SUFFICES ASSUME NEW k \in 1 .. Len(got) + 1 PROVE got'[k] = sent[k]
      BY <1>5
    <3>1. CASE k \in 1 .. Len(got)
      BY <1>5, <3>1 DEF Inv, ReadInv
    <3>2. CASE k = Len(got) + 1
      BY <1>1, <1>5, <3>2
    <3> QED
      BY <1>3, <3>1, <3>2
  <2>3. Len(got') <= Len(sent)
    BY <1>1, <1>3, <1>5
  <2>4. recved' <= read'
    BY <1>2, <1>9
  <2>5. sent' = sent /\ ends' = ends
    BY <1>2
  <2> QED
    BY <2>1, <2>2, <2>3, <2>4, <2>5 DEF ReadInv
<1>12. Aligned'
  BY <1>2, <1>3, <1>5, <1>9 DEF Aligned
<1>13. WithinFrame'
  BY <1>2, <1>3 DEF WithinFrame
<1> QED
  BY <1>1, <1>2, <1>10, <1>11, <1>12, <1>13 DEF Inv

(***************************************************************************)
(* A step keeps the invariant and is a step of the FIFO queue.             *)
(***************************************************************************)
LEMMA NextInv == Inv /\ [Next]_vars => Inv' /\ [Fifo!Next]_(Fifo!vars)
<1> SUFFICES ASSUME Inv, [Next]_vars PROVE Inv' /\ [Fifo!Next]_(Fifo!vars)
  OBVIOUS
<1> USE DEF Fifo!Next, Fifo!vars
<1>1. ASSUME NEW n \in Bodies, PeerSend(n) PROVE Inv' /\ [Fifo!Next]_(Fifo!vars)
  <2>1. Fifo!Put(n)
    BY <1>1 DEF PeerSend, Fifo!Put
  <2> QED
    BY <1>1, <2>1, SendInv
<1>2. CASE RecvHead
  <2>1. recved \in Nat /\ HeadLen \in Nat /\ read \in Nat /\ Unread \in Int
    <3>1. ends \in Seq(Nat) /\ Len(ends) = Len(sent) + 1 /\ Len(sent) \in Nat /\ read \in Nat
      BY DEF Inv, TypeOK, StreamInv
    <3>2. ends[Len(ends)] \in Nat
      BY <3>1
    <3> QED
      BY <3>1, <3>2, LengthAssumption DEF Inv, TypeOK, Unread
  <2>2. PICK n \in 1 .. AtMost(HeadLen - recved, Unread) :
            recved' = recved + n /\ read' = read + n
    BY <1>2 DEF RecvHead
  <2>3. n \in Nat /\ n <= Unread /\ recved + n <= HeadLen
    BY <2>1 DEF AtMost
  <2>4. closed = "no" /\ Partial(n)
    BY <1>2, <2>2 DEF RecvHead, Partial
  <2>5. Inv'
    BY <2>1, <2>3, <2>4, PartialInv
  <2> QED
    BY <2>4, <2>5 DEF Partial
<1>3. CASE RefuseHead
  BY <1>3 DEF RefuseHead, Inv, TypeOK, StreamInv, ReadInv, Aligned, WithinFrame
<1>4. CASE RecvBodyPart
  <2>1. closed = "no" /\ recved >= HeadLen /\ BodyLength(Announced) # -1
    BY <1>4 DEF RecvBodyPart
  <2>2. /\ Announced \in Nat \ {0} /\ BodyLength(Announced) = Announced
        /\ recved < HeadLen + Announced /\ recved \in Nat
    BY <2>1, BodyFacts
  <2>3. HeadLen \in Nat /\ Chunk \in Nat /\ Unread \in Int
    <3>1. ends \in Seq(Nat) /\ Len(ends) = Len(sent) + 1 /\ Len(sent) \in Nat /\ read \in Nat
      BY DEF Inv, TypeOK, StreamInv
    <3>2. ends[Len(ends)] \in Nat
      BY <3>1
    <3> QED
      BY <3>1, <3>2, LengthAssumption DEF Unread
  <2>4. BodyWanted \in Int /\ BodyWanted <= HeadLen + Announced - recved
    BY <2>2, <2>3 DEF BodyWanted, AtMost
  <2>5. PICK n \in 1 .. AtMost(BodyWanted - 1, Unread) :
            recved' = recved + n /\ read' = read + n
    BY <1>4 DEF RecvBodyPart
  <2>6. n \in Nat /\ n <= Unread /\ recved + n < HeadLen + BodyLength(Announced)
    BY <2>2, <2>3, <2>4 DEF AtMost
  <2>7. Partial(n)
    BY <1>4, <2>5 DEF RecvBodyPart, Partial
  <2>8. Inv'
    BY <2>1, <2>6, <2>7, PartialInv
  <2> QED
    BY <2>7, <2>8 DEF Partial
<1>5. CASE RecvBodyAll /\ recved + BodyWanted = HeadLen + BodyLength(Announced)
  <2>1. /\ Inv'
        /\ Len(got) < Len(sent) /\ got' = Append(got, sent[Len(got) + 1]) /\ sent' = sent
    BY <1>5, CompleteInv
  <2>2. Fifo!Get
    BY <2>1 DEF Fifo!Get
  <2> QED
    BY <2>1, <2>2
<1>6. CASE RecvBodyAll /\ recved + BodyWanted # HeadLen + BodyLength(Announced)
  <2>1. /\ closed' = "length" /\ recved' = recved + BodyWanted /\ read' = read + BodyWanted
        /\ UNCHANGED <<sent, ends, got>> /\ BodyWanted > 0 /\ BodyWanted <= Unread
        /\ closed = "no" /\ recved >= HeadLen /\ BodyLength(Announced) # -1
    BY <1>6 DEF RecvBodyAll
  <2>2. /\ Announced \in Nat \ {0} /\ BodyLength(Announced) = Announced
        /\ recved \in Nat /\ HeadLen \in Nat /\ Chunk \in Nat /\ read \in Nat
    BY <2>1, BodyFacts, LengthAssumption DEF Inv, TypeOK
  <2>3. BodyWanted \in Nat
    BY <2>1, <2>2 DEF BodyWanted, AtMost
  <2>4. Len(ends) = Len(sent) + 1 /\ ends[Len(sent) + 1] \in Nat
    BY DEF Inv, TypeOK, StreamInv
  <2>5. TypeOK' /\ StreamInv'
    BY <2>1, <2>2, <2>3 DEF Inv, TypeOK, StreamInv
  <2>6. ReadInv'
    BY <2>1, <2>2, <2>3, <2>4 DEF Inv, ReadInv, Unread
  <2> QED
    BY <2>1, <2>5, <2>6 DEF Inv, Aligned, WithinFrame
<1>7. CASE Disconnect
  BY <1>7 DEF Disconnect, Inv, TypeOK, StreamInv, ReadInv, Aligned, WithinFrame
<1>8. CASE UNCHANGED vars
  <2>1. Announced' = Announced
    BY <1>8 DEF vars, Announced, Frame, Start
  <2> QED
    BY <1>8, <2>1 DEF vars, Inv, TypeOK, StreamInv, ReadInv, Aligned, WithinFrame, BodyLength
<1> QED
  BY <1>1, <1>2, <1>3, <1>4, <1>5, <1>6, <1>7, <1>8 DEF Next, Recv

\* the inductive invariant of the receiving side
THEOREM Invariance == Spec => []Inv
BY InitInv, NextInv, PTL DEF Spec

(***************************************************************************)
(* dealwith_recv never loses the frame boundary, however reads are cut.    *)
(***************************************************************************)
THEOREM AlignedSafe == Spec => []Aligned
<1>1. Inv => Aligned
  BY DEF Inv
<1> QED
  BY <1>1, Invariance, PTL

(***************************************************************************)
(* It never asks for zero bytes, nor for bytes of the next frame.          *)
(***************************************************************************)
THEOREM WithinFrameSafe == Spec => []WithinFrame
<1>1. Inv => WithinFrame
  BY DEF Inv
<1> QED
  BY <1>1, Invariance, PTL

(***************************************************************************)
(* The messages given to data_notify_callback are those the peer sent, in  *)
(* order, each once.                                                       *)
(***************************************************************************)
THEOREM Refinement == Spec => ImplementsFifo
<1>1. Init => Fifo!Init
  BY DEF Init, Fifo!Init
<1> QED
  BY <1>1, NextInv, Invariance, PTL DEF Spec, ImplementsFifo, Fifo!Spec

\* no body that get_body_length accepts is longer than charbody
ShortBodies == \A n \in Bodies : n < BodyLimit => n <= Chunk

(***************************************************************************)
(* When accepted bodies fit in charbody, none is ever cut short: the 4096  *)
(* of dealwith_recv and the 5000 of get_body_length disagree on exactly    *)
(* the bodies in between.                                                  *)
(***************************************************************************)
THEOREM ShortBodiesReceived ==
    ASSUME ShortBodies PROVE Spec => []AcceptedBodyReceived
<1>1. Init => AcceptedBodyReceived
  BY DEF Init, AcceptedBodyReceived
<1>2. Inv /\ AcceptedBodyReceived /\ [Next]_vars => AcceptedBodyReceived'
  <2> SUFFICES ASSUME Inv, AcceptedBodyReceived, [Next]_vars
               PROVE  AcceptedBodyReceived'
    OBVIOUS
  <2>1. CASE RecvBodyAll
    <3>1. closed = "no" /\ recved >= HeadLen /\ BodyLength(Announced) # -1
      BY <2>1 DEF RecvBodyAll
    <3>2. /\ Announced \in Bodies /\ Announced \in Nat \ {0}
          /\ BodyLength(Announced) = Announced
          /\ recved < HeadLen + Announced /\ recved \in Nat
      BY <3>1, BodyFacts
    <3>3. Announced <= Chunk /\ Chunk \in Nat /\ HeadLen \in Nat
      BY <3>2, LengthAssumption DEF ShortBodies, BodyLength
    <3>4. recved + BodyWanted = HeadLen + BodyLength(Announced)
      BY <3>1, <3>2, <3>3 DEF BodyWanted, AtMost
    <3> QED
      BY <2>1, <3>1, <3>4 DEF RecvBodyAll, AcceptedBodyReceived
  <2>2. CASE ~RecvBodyAll
    BY <2>2 DEF Next, Recv, PeerSend, RecvHead, RefuseHead, RecvBodyPart, Disconnect, vars,
                AcceptedBodyReceived
  <2> QED
    BY <2>1, <2>2
<1> QED
  BY <1>1, <1>2, Invariance, PTL DEF Spec

\* the receive buffer, its length and the counters of dealwith_recv keep their types
THEOREM TypeCorrect == Spec => []TypeOK
<1>1. Inv => TypeOK
  BY DEF Inv
<1> QED
  BY <1>1, Invariance, PTL

-----------------------------------------------------------------------------
\* the unsigned difference is the true one when it cannot wrap
LEMMA ElapsedExact ==
    ASSUME NEW a \in 0..MaxTime, NEW b \in 0..MaxTime, b <= a
    PROVE  Elapsed(a, b) = a - b
<1>1. Seconds \in Nat /\ MaxTime \in Nat /\ MaxTime < Seconds
  BY TimeAssumption
<1>2. \A x \in Int, w \in Nat : 0 <= x /\ x < w => x % w = x
  OBVIOUS
<1> QED
  BY <1>1, <1>2 DEF Elapsed

(***************************************************************************)
(* On the clock a connection looks at most as old as it is, and older only *)
(* by what the clock was put forward: setting it back makes it look        *)
(* younger.                                                                *)
(***************************************************************************)
LooksYounger ==
    \A c \in Clients : last[c] # Gone => now - last[c] <= (real - since[c]) + skipped[c]

\* while nothing sets the clock back, nobody looks younger than they are
ClockTrue == ~disturbed =>
    \A c \in Clients : last[c] # Gone => last[c] <= now /\ real - since[c] <= now - last[c]

(***************************************************************************)
(* r can be the second of the last check that was due: the clock has moved *)
(* on since then by no less than the time, the next one was not overdue    *)
(* when epoll_wait was called, and nobody who is still there had been idle *)
(* for too long.                                                           *)
(***************************************************************************)
WasCheck(r) ==
    /\ r <= real /\ real - r <= now - checked
    /\ real - waiting <= r \/ (real - waiting) - r < Interval
    /\ \A c \in Clients : last[c] # Gone => r - since[c] <= Timeout

CheckedInTime == ~disturbed => \E r \in 0..MaxTime : WasCheck(r)

IdleInv ==
    /\ IdleTypeOK
    /\ LooksYounger
    /\ ClockTrue
    /\ CheckedInTime

\* the invariant holds before the first connection
LEMMA IdleInitInv == IdleInit => IdleInv
<1> SUFFICES ASSUME IdleInit PROVE IdleInv
  OBVIOUS
<1>0. disturbed \in BOOLEAN
  BY Zenon DEF IdleInit
<1>1. IdleTypeOK
  <2>1. /\ 0 \in 0..MaxTime /\ 0 \in 0..EpollTimeout /\ 0 \in 0..MaxSkip
    BY TimeAssumption
  <2>2. /\ last \in [Clients -> (0..MaxTime) \cup {Gone}] /\ since \in [Clients -> 0..MaxTime]
        /\ skipped \in [Clients -> 0..MaxSkip]
    BY <2>1 DEF IdleInit
  <2> QED
    BY <1>0, <2>1, <2>2 DEF IdleInit, IdleTypeOK
<1>2. \A c \in Clients : last[c] = Gone
  BY DEF IdleInit
<1>3. LooksYounger
  BY <1>2 DEF LooksYounger
<1>4. ClockTrue
  BY <1>2 DEF ClockTrue
<1>5. 0 <= 0 /\ 0 - 0 <= 0 - 0 /\ 0 - 0 <= 0 /\ 0 \in 0..MaxTime
  BY TimeAssumption
<1>6. WasCheck(0)
  BY <1>2, <1>5 DEF IdleInit, WasCheck
<1>7. CheckedInTime
  BY <1>5, <1>6, Zenon DEF CheckedInTime
<1> QED
  BY <1>1, <1>3, <1>4, <1>7 DEF IdleInv

\* every step of the clock, the reactor and the clients keeps the types
LEMMA IdleNextTypes == IdleTypeOK /\ [IdleNext]_idleVars => IdleTypeOK'
<1> SUFFICES ASSUME IdleTypeOK, [IdleNext]_idleVars PROVE IdleTypeOK'
  OBVIOUS
<1> USE TimeAssumption
<1>1. CASE Tick
  BY <1>1 DEF Tick, IdleTypeOK
<1>2. CASE SetBack
  BY <1>2 DEF SetBack, IdleTypeOK
<1>3. CASE SetForward
  BY <1>3 DEF SetForward, IdleTypeOK
<1>4. CASE Wake
  BY <1>4 DEF Wake, IdleTypeOK
<1>5. CASE CheckTimeout
  BY <1>5 DEF CheckTimeout, IdleTypeOK
<1>6. ASSUME NEW c \in Clients, Connect(c) \/ Send(c) PROVE IdleTypeOK'
  BY <1>6 DEF Connect, Send, Update, IdleTypeOK
<1>7. ASSUME NEW c \in Clients, Close(c) PROVE IdleTypeOK'
  BY <1>7 DEF Close, IdleTypeOK
<1>8. CASE UNCHANGED idleVars
  BY <1>8 DEF idleVars, IdleTypeOK
<1>9. CASE Interrupted
  BY <1>9 DEF Interrupted, IdleTypeOK
<1> QED
  BY <1>1, <1>2, <1>3, <1>4, <1>5, <1>6, <1>7, <1>8, <1>9 DEF IdleNext

\* a connection that an update leaves there looks no older than before
LEMMA UpdateInv ==
    ASSUME IdleInv, NEW c \in Clients, Connect(c) \/ Send(c)
    PROVE  LooksYounger' /\ ClockTrue' /\ CheckedInTime'
<1> USE TimeAssumption
<1>1. /\ real \in 0..MaxTime /\ now \in 0..MaxTime /\ checked \in 0..MaxTime
      /\ waiting \in 0..EpollTimeout
      /\ since \in [Clients -> 0..MaxTime] /\ skipped \in [Clients -> 0..MaxSkip]
      /\ last \in [Clients -> (0..MaxTime) \cup {Gone}]
  BY DEF IdleInv, IdleTypeOK
<1>2. /\ last' = [last EXCEPT ![c] = now] /\ since' = [since EXCEPT ![c] = real]
      /\ skipped' = [skipped EXCEPT ![c] = 0]
      /\ UNCHANGED <<real, now, checked, waiting, disturbed>>
  BY DEF Connect, Send, Update
<1>3. \A d \in Clients : d # c => last'[d] = last[d] /\ since'[d] = since[d] /\ skipped'[d] = skipped[d]
  BY <1>1, <1>2
<1>4. last'[c] = now /\ since'[c] = real /\ skipped'[c] = 0
  BY <1>1, <1>2
<1>5. LooksYounger'
  BY <1>1, <1>2, <1>3, <1>4 DEF IdleInv, LooksYounger
<1>6. ClockTrue'
  BY <1>1, <1>2, <1>3, <1>4 DEF IdleInv, ClockTrue
<1>7. ASSUME NEW r \in 0..MaxTime, WasCheck(r) PROVE WasCheck(r)'
  <2>1. \A d \in Clients : last'[d] # Gone => r - since'[d] <= Timeout
    BY <1>1, <1>3, <1>4, <1>7 DEF WasCheck
  <2> QED
    BY <1>2, <1>7, <2>1 DEF WasCheck
<1> QED
  BY <1>2, <1>5, <1>6, <1>7 DEF IdleInv, CheckedInTime

\* a check leaves nobody there who had been idle for too long
LEMMA CheckInv ==
    ASSUME IdleInv, CheckTimeout PROVE LooksYounger' /\ ClockTrue' /\ CheckedInTime'
<1> USE TimeAssumption
<1>1. /\ now \in 0..MaxTime /\ checked \in 0..MaxTime /\ real \in 0..MaxTime
      /\ since \in [Clients -> 0..MaxTime]
      /\ \A c \in Clients : last[c] # Gone => last[c] \in 0..MaxTime
  BY DEF IdleInv, IdleTypeOK
<1>2. Due <=> now > checked /\ now - checked >= Interval
  BY <1>1, ElapsedExact DEF Due
<1>3. \A c \in Clients : last[c] # Gone =>
          (Idle(c) <=> last[c] < now /\ now - last[c] > Timeout)
  BY <1>1, ElapsedExact DEF Idle
<1>4. \A c \in Clients : last'[c] # Gone =>
          /\ last'[c] = last[c] /\ last[c] # Gone
          /\ Due => now - last[c] <= Timeout
  BY <1>1, <1>3 DEF CheckTimeout
<1>5. /\ UNCHANGED <<real, now, since, skipped, disturbed>> /\ waiting' = 0
      /\ checked' = IF Due THEN now ELSE checked
  BY DEF CheckTimeout
<1>6. LooksYounger' /\ ClockTrue'
  BY <1>4, <1>5 DEF IdleInv, LooksYounger, ClockTrue
<1>7. CASE Due /\ ~disturbed
  <2>1. \A c \in Clients : last'[c] # Gone => real - since[c] <= Timeout
    BY <1>1, <1>4, <1>7 DEF IdleInv, ClockTrue
  <2>2. WasCheck(real)'
    BY <1>1, <1>5, <1>7, <2>1 DEF WasCheck
  <2> QED
    BY <1>1, <1>5, <1>6, <2>2 DEF CheckedInTime
<1>8. CASE ~Due /\ ~disturbed
  <2>1. PICK r \in 0..MaxTime : WasCheck(r)
    BY <1>8 DEF IdleInv, CheckedInTime
  <2>2. real - 0 <= r \/ (real - 0) - r < Interval
    BY <1>1, <1>2, <1>8, <2>1 DEF WasCheck
  <2>3. WasCheck(r)'
    BY <1>4, <1>5, <1>8, <2>1, <2>2 DEF WasCheck
  <2> QED
    BY <1>6, <2>3 DEF CheckedInTime
<1> QED
  BY <1>5, <1>6, <1>7, <1>8 DEF CheckedInTime

\* every step of the clock, the reactor and the clients keeps the invariant
LEMMA IdleNextInv == IdleInv /\ [IdleNext]_idleVars => IdleInv'
<1> SUFFICES ASSUME IdleInv, [IdleNext]_idleVars
             PROVE  LooksYounger' /\ ClockTrue' /\ CheckedInTime'
  BY IdleNextTypes DEF IdleInv
<1>0. /\ real \in 0..MaxTime /\ now \in 0..MaxTime /\ checked \in 0..MaxTime
      /\ waiting \in 0..EpollTimeout
      /\ since \in [Clients -> 0..MaxTime] /\ skipped \in [Clients -> 0..MaxSkip]
      /\ last \in [Clients -> (0..MaxTime) \cup {Gone}]
  BY DEF IdleInv, IdleTypeOK
<1> USE TimeAssumption
<1>1. CASE Tick
  <2>1. UNCHANGED <<last, since, skipped, checked, disturbed>>
        /\ real' = real + 1 /\ now' = now + 1 /\ waiting' = waiting + 1 /\ real' \in 0..MaxTime
    BY <1>0, <1>1 DEF Tick
  <2>2. LooksYounger' /\ ClockTrue'
    BY <1>0, <2>1 DEF IdleInv, LooksYounger, ClockTrue
  <2>3. \A r \in 0..MaxTime : WasCheck(r) => WasCheck(r)'
    BY <1>0, <2>1 DEF WasCheck
  <2> QED
    BY <2>1, <2>2, <2>3 DEF IdleInv, CheckedInTime
<1>2. CASE SetBack
  BY <1>0, <1>2 DEF SetBack, IdleInv, LooksYounger, ClockTrue, CheckedInTime
<1>3. CASE SetForward
  <2>1. PICK d \in 1..MaxSkip : /\ now' = now + d
                                /\ skipped' = [c \in Clients |-> skipped[c] + d]
    BY <1>3 DEF SetForward
  <2>2. UNCHANGED <<real, last, since, checked, waiting, disturbed>>
    BY <1>3 DEF SetForward
  <2>3. LooksYounger' /\ ClockTrue'
    BY <1>0, <2>1, <2>2 DEF IdleInv, LooksYounger, ClockTrue
  <2>4. \A r \in 0..MaxTime : WasCheck(r) => WasCheck(r)'
    BY <1>0, <2>1, <2>2 DEF WasCheck
  <2> QED
    BY <2>2, <2>3, <2>4 DEF IdleInv, CheckedInTime
<1>4. CASE Interrupted
  BY <1>4 DEF Interrupted, IdleInv, LooksYounger, ClockTrue, CheckedInTime
<1>5. CASE Wake \/ UNCHANGED idleVars
  BY <1>5 DEF Wake, idleVars, IdleInv, LooksYounger, ClockTrue, CheckedInTime, WasCheck
<1>6. ASSUME NEW c \in Clients, Close(c) PROVE LooksYounger' /\ ClockTrue' /\ CheckedInTime'
  <2>1. UNCHANGED <<real, now, since, skipped, checked, waiting, disturbed>>
    BY <1>6 DEF Close
  <2>2. \A e \in Clients : last'[e] # Gone => last'[e] = last[e]
    BY <1>0, <1>6 DEF Close
  <2>3. LooksYounger' /\ ClockTrue'
    BY <2>1, <2>2 DEF IdleInv, LooksYounger, ClockTrue
  <2>4. \A r \in 0..MaxTime : WasCheck(r) => WasCheck(r)'
    BY <2>1, <2>2 DEF WasCheck
  <2> QED
    BY <2>1, <2>3, <2>4 DEF IdleInv, CheckedInTime
<1> QED
  BY <1>1, <1>2, <1>3, <1>4, <1>5, <1>6, UpdateInv, CheckInv DEF IdleNext

\* the inductive invariant of the reactor's clock
THEOREM IdleInvariance == IdleSpec => []IdleInv
BY IdleInitInv, IdleNextInv, PTL DEF IdleSpec

(***************************************************************************)
(* An idle connection is closed in time: the bound that the configuration  *)
(* of the timeouts in tcpserver.cpp promises.                              *)
(***************************************************************************)
THEOREM ClosedInTime == IdleSpec => []NeverTooLate
<1>1. IdleInv => NeverTooLate
  <2> SUFFICES ASSUME IdleInv, ~disturbed, NEW c \in Clients, last[c] # Gone
               PROVE  real - since[c] <= Timeout + Interval + EpollTimeout
    BY DEF NeverTooLate
  <2>1. PICK r \in 0..MaxTime : WasCheck(r)
    BY DEF IdleInv, CheckedInTime
  <2>2. /\ real \in 0..MaxTime /\ since[c] \in 0..MaxTime /\ waiting \in 0..EpollTimeout
    BY DEF IdleInv, IdleTypeOK
  <2> QED
    BY <2>1, <2>2, TimeAssumption DEF WasCheck
<1> QED
  BY <1>1, IdleInvariance, PTL

(***************************************************************************)
(* check_timeout closes no connection before its timeout, whatever is done *)
(* to the clock, if the seconds by which it was put forward count.         *)
(***************************************************************************)
THEOREM NotClosedEarly == IdleSpec => NeverTooEarly
<1>1. IdleInv /\ [IdleNext]_idleVars =>
        [ \A c \in Clients : CheckTimeout /\ last[c] # Gone /\ last'[c] = Gone
            => real - since[c] + skipped[c] > Timeout ]_idleVars
  <2> SUFFICES ASSUME IdleInv, CheckTimeout,
                      NEW c \in Clients, last[c] # Gone, last'[c] = Gone
               PROVE  real - since[c] + skipped[c] > Timeout
    OBVIOUS
  <2>1. /\ now \in 0..MaxTime /\ last[c] \in 0..MaxTime
        /\ real \in 0..MaxTime /\ since[c] \in 0..MaxTime /\ skipped[c] \in 0..MaxSkip
    BY DEF IdleInv, IdleTypeOK
  <2>2. last[c] < now /\ Elapsed(now, last[c]) > Timeout
    BY DEF CheckTimeout, Idle
  <2>3. now - last[c] > Timeout
    BY <2>1, <2>2, ElapsedExact
  <2>4. now - last[c] <= (real - since[c]) + skipped[c]
    BY DEF IdleInv, LooksYounger
  <2> QED
    BY <2>1, <2>3, <2>4, TimeAssumption, SMTT(20)
<1> QED
  BY <1>1, IdleInvariance, PTL DEF IdleSpec, NeverTooEarly

\* the clocks, times and places of the idle check keep their types; no time is negative
THEOREM IdleTypeCorrect == IdleSpec => []IdleTypeOK
<1>1. IdleInv => IdleTypeOK
  BY DEF IdleInv
<1> QED
  BY <1>1, IdleInvariance, PTL

=============================================================================
