----------------------------- MODULE NumberFacts -----------------------------
(***************************************************************************)
(* Facts about numbers: remainders; induction, from the least member of a  *)
(* set of naturals; and the period of the generator x' = (a * x + c)       *)
(* modulo a power of two when a is one more than a multiple of four and c  *)
(* is odd.                                                                 *)
(***************************************************************************)
EXTENDS Integers, FiniteSetTheorems, FunctionTheorems, TLAPS

(* Division with remainder. *)
LEMMA Remainder ==
    ASSUME NEW n \in Nat \ {0}, NEW i \in Int
    PROVE  /\ i % n \in 0 .. n - 1
           /\ \E q \in Int : i = n * q + (i % n)
<1>1. i = n * (i \div n) + (i % n) /\ i \div n \in Int
  OBVIOUS
<1>2. i % n \in 0 .. n - 1
  OBVIOUS
<1>3. \E q \in Int : i = n * q + (i % n)
  <2> WITNESS i \div n \in Int
  <2> QED  BY <1>1
<1> QED  BY <1>2, <1>3

(* No other multiple of n is that near to 0. *)
LEMMA SmallMultiple ==
    ASSUME NEW n \in Nat \ {0}, NEW d \in Int, n * d < n, -n < n * d
    PROVE  d = 0
<1>1. CASE d >= 1
  <2> n * d >= n * 1
    BY <1>1
  <2> QED  OBVIOUS
<1>2. CASE d <= -1
  <2> n * d <= n * (-1)
    BY <1>2
  <2> QED  OBVIOUS
<1> QED  BY <1>1, <1>2

(* Multiples of n do not change the remainder. *)
LEMMA SameRemainder ==
    ASSUME NEW n \in Nat \ {0}, NEW i \in Int, NEW k \in Int
    PROVE  (i + n * k) % n = i % n
<1> DEFINE r == i % n
           s == (i + n * k) % n
<1>1. r \in 0 .. n - 1 /\ s \in 0 .. n - 1 /\ i + n * k \in Int
  BY Remainder
<1>2. PICK p \in Int : i = n * p + r
  BY Remainder
<1>3. PICK q \in Int : i + n * k = n * q + s
  BY <1>1, Remainder
<1> HIDE DEF r, s
<1>4. n * (p + k - q) = s - r
  <2>1. n * p + n * k - n * q = s - r
    BY <1>1, <1>2, <1>3
  <2>2. n * (p + k - q) = n * p + n * k - n * q
    OBVIOUS
  <2> QED  BY <2>1, <2>2
<1>5. p + k - q = 0
  BY <1>1, <1>4, SmallMultiple
<1>6. s = r
  BY <1>1, <1>4, <1>5
<1> QED  BY <1>6 DEF r, s

(* So the remainders of two numbers differ as the numbers do. *)
LEMMA DifferenceOfRemainders ==
    ASSUME NEW n \in Nat \ {0}, NEW i \in Int, NEW j \in Int
    PROVE  ((j % n) - (i % n)) % n = (j - i) % n
<1> DEFINE x == i % n
           y == j % n
<1>1. x \in Int /\ y \in Int
  BY Remainder
<1>2. PICK a \in Int : i = n * a + x
  BY Remainder
<1>3. PICK b \in Int : j = n * b + y
  BY Remainder
<1> HIDE DEF x, y
<1>4. j - i = (y - x) + n * (b - a)
  <2>1. n * (b - a) = n * b - n * a /\ n * a \in Int /\ n * b \in Int
    OBVIOUS
  <2>2. \A u, v \in Int : (v + y) - (u + x) = (y - x) + (v - u)
    BY <1>1
  <2> QED  BY <1>2, <1>3, <2>1, <2>2
<1>5. y - x \in Int /\ b - a \in Int
  BY <1>1
<1>6. ((y - x) + n * (b - a)) % n = (y - x) % n
  BY <1>5, SameRemainder
<1> QED  BY <1>4, <1>6 DEF x, y

(* One more, before the remainder is taken or after. *)
LEMMA OneMore ==
    ASSUME NEW n \in Nat \ {0}, NEW i \in Int
    PROVE  (i + 1) % n = ((i % n) + 1) % n
<1> DEFINE r == i % n
<1>1. r \in Int
  BY Remainder
<1>2. PICK q \in Int : i = n * q + r
  BY Remainder
<1> HIDE DEF r
<1>3. i + 1 = (r + 1) + n * q
  <2>1. \A m \in Int : (m + r) + 1 = (r + 1) + m
    BY <1>1
  <2>2. n * q \in Int
    OBVIOUS
  <2> QED  BY <1>2, <2>1, <2>2
<1>4. ((r + 1) + n * q) % n = (r + 1) % n
  <2>1. r + 1 \in Int
    BY <1>1
  <2> QED  BY <2>1, SameRemainder
<1> QED  BY <1>3, <1>4 DEF r

(* A set of naturals has a least member. *)
LEMMA LeastMember ==
    ASSUME NEW S \in SUBSET Nat, S # {}
    PROVE  \E m \in S : \A k \in S : m <= k
<1> DEFINE UpTo(m) == {k \in S : k <= m}
           Starts == {UpTo(m) : m \in S}
           Order == StrictSubsetOrdering(Nat)
<1>1. Starts \subseteq FiniteSubsetsOf(Nat)
  <2>1. ASSUME NEW m \in S PROVE UpTo(m) \in SUBSET Nat /\ IsFiniteSet(UpTo(m))
    <3>1. m \in Nat /\ \A k \in UpTo(m) : k \in Nat /\ k <= m
      OBVIOUS
    <3>2. UpTo(m) \subseteq 0 .. m
      <4> HIDE DEF UpTo
      <4> QED  BY <3>1
    <3>3. IsFiniteSet(0 .. m)
      BY <3>1, FS_Interval
    <3> QED  BY <3>1, <3>2, <3>3, FS_Subset
  <2> QED  BY <2>1 DEF FiniteSubsetsOf
<1>2. IsWellFoundedOn(Order, FiniteSubsetsOf(Nat))
  BY FS_StrictSubsetOrderingWellFounded
<1> HIDE DEF Order
<1>3. PICK start \in Starts : \A other \in Starts : ~(<<other, start>> \in Order)
  <2>1. Starts # {}
    OBVIOUS
  <2> HIDE DEF Starts
  <2> QED  BY <1>1, <1>2, <2>1, WFMin
<1>4. PICK m \in S : start = UpTo(m)
  OBVIOUS
<1>5. ASSUME NEW k \in S, k < m PROVE FALSE
  <2>1. k \in Nat /\ m \in Nat
    OBVIOUS
  <2>2. \A j \in UpTo(k) : j \in UpTo(m)
    BY <1>5, <2>1
  <2>3. m \in UpTo(m) /\ ~(m \in UpTo(k))
    BY <1>5, <2>1
  <2>4. UpTo(k) \in SUBSET Nat /\ UpTo(m) \in SUBSET Nat
    OBVIOUS
  <2>5. <<UpTo(k), UpTo(m)>> \in Order
    <3> HIDE DEF UpTo
    <3> QED  BY <2>2, <2>3, <2>4 DEF Order, StrictSubsetOrdering
  <2> QED  BY <1>3, <1>4, <2>5
<1>6. \A k \in S : k \in Nat /\ m \in Nat /\ ~(k < m)
  BY <1>5
<1> QED  BY <1>6

(* What holds of 0 and passes from n to n + 1 holds of all. *)
LEMMA NaturalInduction ==
    ASSUME NEW S, 0 \in S, \A n \in Nat : n \in S => n + 1 \in S
    PROVE  \A n \in Nat : n \in S
<1> SUFFICES ASSUME Nat \ S # {} PROVE FALSE
  OBVIOUS
<1>1. PICK m \in Nat \ S : \A k \in Nat \ S : m <= k
  BY LeastMember
<1>2. m # 0 /\ m - 1 \in Nat /\ m - 1 + 1 = m
  BY <1>1
<1>3. m - 1 \in S
  BY <1>1, <1>2
<1> QED  BY <1>2, <1>3

(* x and y have the same remainder modulo n. *)
Congruent(n, x, y) == \E q \in Int : x - y = n * q

(* The least set with 1 that doubling does not leave. *)
PowersOfTwo ==
    {p \in Nat : \A S \in SUBSET Nat : 1 \in S /\ (\A q \in S : 2 * q \in S) => p \in S}

(* x[i] is the generator's value after i rounds, modulo n. *)
Recurs(n, x, a, c) == \A i \in Nat : Congruent(n, x[i + 1], a * x[i] + c)

(* Congruence is an equivalence. *)
LEMMA CongruentRules ==
    ASSUME NEW n \in Int, NEW x \in Int, NEW y \in Int, NEW z \in Int
    PROVE  /\ Congruent(n, x, x)
           /\ Congruent(n, x, y) => Congruent(n, y, x)
           /\ Congruent(n, x, y) /\ Congruent(n, y, z) => Congruent(n, x, z)
<1>1. Congruent(n, x, x)
  <2>1. x - x = n * 0
    OBVIOUS
  <2> QED  BY <2>1 DEF Congruent
<1>2. ASSUME Congruent(n, x, y) PROVE Congruent(n, y, x)
  <2>1. PICK q \in Int : x - y = n * q
    BY <1>2 DEF Congruent
  <2>2. y - x = n * (-q) /\ -q \in Int
    BY <2>1
  <2> QED  BY <2>2 DEF Congruent
<1>3. ASSUME Congruent(n, x, y), Congruent(n, y, z) PROVE Congruent(n, x, z)
  <2>1. PICK q \in Int : x - y = n * q
    BY <1>3 DEF Congruent
  <2>2. PICK r \in Int : y - z = n * r
    BY <1>3 DEF Congruent
  <2>3. x - z = n * (q + r) /\ q + r \in Int
    BY <2>1, <2>2
  <2> QED  BY <2>3 DEF Congruent
<1> QED  BY <1>1, <1>2, <1>3

(* A round of the generator keeps congruent values congruent. *)
LEMMA CongruentLinear ==
    ASSUME NEW n \in Int, NEW x \in Int, NEW y \in Int, NEW a \in Int, NEW c \in Int,
           Congruent(n, x, y)
    PROVE  Congruent(n, a * x + c, a * y + c)
<1>1. PICK q \in Int : x - y = n * q
  BY DEF Congruent
<1>2. (a * x + c) - (a * y + c) = n * (a * q) /\ a * q \in Int
  <2>1. x = y + n * q
    BY <1>1
  <2>2. a * (y + n * q) = a * y + a * (n * q)
    OBVIOUS
  <2>3. a * (n * q) = n * (a * q)
    OBVIOUS
  <2> QED  BY <2>1, <2>2, <2>3
<1> QED  BY <1>2 DEF Congruent

(* A remainder is congruent to what it is the remainder of. *)
LEMMA ModOf ==
    ASSUME NEW x \in Int, NEW m \in Nat \ {0}
    PROVE  x % m \in 0 .. m - 1 /\ Congruent(m, x % m, x)
<1>1. x % m \in 0 .. m - 1
  OBVIOUS
<1>2. x = m * (x \div m) + (x % m) /\ x \div m \in Int
  OBVIOUS
<1>3. (x % m) - x = m * (-(x \div m)) /\ -(x \div m) \in Int
  BY <1>1, <1>2
<1> HIDE DEF Congruent
<1> QED  BY <1>1, <1>3 DEF Congruent

(* p steps at once: the multiplier is one and the increment p, as far as   *)
(* twice p can tell. *)
LeapMultiplier(p, q) == 1 + (4 * p) * q
LeapIncrement(p, r) == p + (2 * p) * r
Leaps(p, a, c, q, r) ==
    \A n \in Nat, x \in [Nat -> Int] : Recurs(n, x, a, c) =>
        \A i \in Nat : Congruent(n, x[i + p], LeapMultiplier(p, q) * x[i] + LeapIncrement(p, r))

(* Two leaps of p steps are a leap of 2p steps. *)
LEMMA LeapTwice ==
    ASSUME NEW p \in Nat, NEW a \in Int, NEW c \in Int, NEW q \in Int, NEW r \in Int,
           Leaps(p, a, c, q, r)
    PROVE  Leaps(2 * p, a, c, q + 2 * ((p * q) * q), r + p * q + 2 * ((p * q) * r))
<1> DEFINE A == LeapMultiplier(p, q)
           C == LeapIncrement(p, r)
           AA == LeapMultiplier(2 * p, q + 2 * ((p * q) * q))
           CC == LeapIncrement(2 * p, r + p * q + 2 * ((p * q) * r))
<1>1. A \in Int /\ C \in Int /\ AA \in Int /\ CC \in Int
  BY DEF LeapMultiplier, LeapIncrement
<1>2. A * A = AA
  BY DEF LeapMultiplier
<1>3. A * C + C = CC
  BY DEF LeapMultiplier, LeapIncrement
<1> SUFFICES ASSUME NEW n \in Nat, NEW x \in [Nat -> Int], Recurs(n, x, a, c), NEW i \in Nat
             PROVE  Congruent(n, x[i + 2 * p], AA * x[i] + CC)
  BY DEF Leaps
<1>4. /\ x[i] \in Int /\ x[i + p] \in Int /\ x[i + 2 * p] \in Int
      /\ i + p \in Nat /\ (i + p) + p = i + 2 * p
  OBVIOUS
<1> HIDE DEF A, C, AA, CC
<1>5. Congruent(n, x[i + p], A * x[i] + C)
  BY DEF Leaps, A, C
<1>6. Congruent(n, x[i + 2 * p], A * x[i + p] + C)
  BY <1>4 DEF Leaps, A, C
<1>7. A * x[i] + C \in Int /\ A * x[i + p] + C \in Int /\ AA * x[i] + CC \in Int
  BY <1>1, <1>4
<1>8. Congruent(n, A * x[i + p] + C, A * (A * x[i] + C) + C)
  BY <1>1, <1>4, <1>5, <1>7, CongruentLinear
<1>9. A * (A * x[i] + C) + C = AA * x[i] + CC
  <2>1. A * (A * x[i] + C) + C = (A * A) * x[i] + (A * C + C)
    BY <1>1, <1>4
  <2> QED  BY <1>2, <1>3, <2>1
<1>10. Congruent(n, A * x[i + p] + C, AA * x[i] + CC)
  BY <1>8, <1>9
<1> DEFINE y == A * x[i + p] + C
           z == AA * x[i] + CC
<1>11. y \in Int /\ z \in Int /\ n \in Int
  BY <1>7
<1>12. Congruent(n, x[i + 2 * p], y) /\ Congruent(n, y, z)
  BY <1>6, <1>10
<1> HIDE DEF y, z
<1>13. Congruent(n, x[i + 2 * p], z)
  BY <1>4, <1>11, <1>12, CongruentRules
<1> QED  BY <1>13 DEF z

(* What holds of 1 and passes from p to 2p holds of the powers of two.     *)
LEMMA PowerInduction ==
    ASSUME NEW S, 1 \in S, \A p \in Nat \ {0} : p \in S => 2 * p \in S
    PROVE  \A p \in PowersOfTwo : p \in S /\ p \in Nat \ {0}
<1> DEFINE T == S \cap (Nat \ {0})
<1>1. T \in SUBSET Nat /\ 1 \in T /\ \A q \in T : 2 * q \in T
  OBVIOUS
<1> HIDE DEF T
<1>2. \A p \in PowersOfTwo : p \in T
  BY <1>1 DEF PowersOfTwo
<1> QED  BY <1>2 DEF T

(* So there is a leap of every power of two. *)
LEMMA LeapsExist ==
    ASSUME NEW a \in Int, NEW c \in Int, NEW s \in Int, NEW t \in Int,
           a = 1 + 4 * s, c = 1 + 2 * t
    PROVE  \A p \in PowersOfTwo : \E q, r \in Int : Leaps(p, a, c, q, r)
<1> DEFINE S == {p \in Nat : \E q, r \in Int : Leaps(p, a, c, q, r)}
<1>1. 1 \in S
  <2>1. LeapMultiplier(1, s) = a /\ LeapIncrement(1, t) = c
    BY DEF LeapMultiplier, LeapIncrement
  <2>2. Leaps(1, a, c, s, t)
    BY <2>1 DEF Leaps, Recurs
  <2> QED  BY <2>2
<1>2. ASSUME NEW p \in Nat \ {0}, p \in S PROVE 2 * p \in S
  <2>1. PICK q \in Int, r \in Int : Leaps(p, a, c, q, r)
    BY <1>2
  <2>2. /\ q + 2 * ((p * q) * q) \in Int /\ r + p * q + 2 * ((p * q) * r) \in Int
        /\ 2 * p \in Nat
    OBVIOUS
  <2>3. Leaps(2 * p, a, c, q + 2 * ((p * q) * q), r + p * q + 2 * ((p * q) * r))
    BY <2>1, LeapTwice
  <2> QED  BY <2>2, <2>3
<1> HIDE DEF S
<1>3. \A p \in PowersOfTwo : p \in S
  BY <1>1, <1>2, PowerInduction
<1> QED  BY <1>3 DEF S

(* The sequence comes back to a value after a multiple of p steps, and not *)
(* before. *)
HasPeriod(p, x) ==
    \A i, d \in Nat : Congruent(p, x[i + d], x[i]) <=> \E e \in Nat : d = p * e

(* Modulo twice p the period is twice the one modulo p. *)
LEMMA PeriodDoubles ==
    ASSUME NEW a \in Int, NEW c \in Int, NEW q \in Int, NEW r \in Int, NEW p \in Nat \ {0},
           Leaps(p, a, c, q, r),
           NEW x \in [Nat -> Int], Recurs(2 * p, x, a, c), HasPeriod(p, x)
    PROVE  HasPeriod(2 * p, x)
<1>1. ASSUME NEW i \in Nat PROVE Congruent(2 * p, x[i + p], x[i] + p)
  <2> DEFINE y == LeapMultiplier(p, q) * x[i] + LeapIncrement(p, r)
  <2>1. x[i] \in Int /\ x[i + p] \in Int /\ x[i] + p \in Int /\ y \in Int /\ 2 * p \in Nat
    BY DEF LeapMultiplier, LeapIncrement
  <2>2. Congruent(2 * p, x[i + p], y)
    BY <2>1 DEF Leaps
  <2>3. y - (x[i] + p) = (2 * p) * (2 * (q * x[i]) + r) /\ 2 * (q * x[i]) + r \in Int
    BY <2>1 DEF LeapMultiplier, LeapIncrement
  <2> HIDE DEF y
  <2>4. Congruent(2 * p, y, x[i] + p)
    BY <2>3 DEF Congruent
  <2> QED  BY <2>1, <2>2, <2>4, CongruentRules
<1>2. ASSUME NEW i \in Nat PROVE Congruent(2 * p, x[i + 2 * p], x[i])
  <2>1. PICK u \in Int : x[i + p] - (x[i] + p) = (2 * p) * u
    BY <1>1 DEF Congruent
  <2>2. i + p \in Nat /\ (i + p) + p = i + 2 * p
    OBVIOUS
  <2>3. PICK v \in Int : x[i + 2 * p] - (x[i + p] + p) = (2 * p) * v
    BY <1>1, <2>2 DEF Congruent
  <2>4. x[i] \in Int /\ x[i + p] \in Int /\ x[i + 2 * p] \in Int
    OBVIOUS
  <2>5. x[i + 2 * p] - x[i] = (2 * p) * (u + v + 1) /\ u + v + 1 \in Int
    BY <2>1, <2>3, <2>4
  <2> QED  BY <2>5 DEF Congruent
<1>3. ASSUME NEW i \in Nat PROVE \A e \in Nat : Congruent(2 * p, x[i + (2 * p) * e], x[i])
  <2> DEFINE S == {e \in Nat : Congruent(2 * p, x[i + (2 * p) * e], x[i])}
  <2>1. 0 \in S
    <3>1. i + (2 * p) * 0 = i /\ x[i] \in Int /\ 2 * p \in Int
      OBVIOUS
    <3> QED  BY <3>1, CongruentRules
  <2>2. ASSUME NEW e \in Nat, e \in S PROVE e + 1 \in S
    <3>1. /\ i + (2 * p) * e \in Nat /\ i + (2 * p) * (e + 1) = (i + (2 * p) * e) + 2 * p
          /\ i + (2 * p) * (e + 1) \in Nat
      OBVIOUS
    <3> DEFINE y == x[i + (2 * p) * (e + 1)]
               z == x[i + (2 * p) * e]
    <3>2. Congruent(2 * p, y, z)
      BY <1>2, <3>1
    <3>3. Congruent(2 * p, z, x[i])
      BY <2>2
    <3>4. y \in Int /\ z \in Int /\ x[i] \in Int /\ 2 * p \in Int
      BY <3>1
    <3> HIDE DEF y, z
    <3>5. Congruent(2 * p, y, x[i])
      BY <3>2, <3>3, <3>4, CongruentRules
    <3> QED  BY <3>5 DEF y
  <2> HIDE DEF S
  <2>3. \A e \in Nat : e \in S
    BY <2>1, <2>2, NaturalInduction
  <2> QED  BY <2>3 DEF S
<1>4. ASSUME NEW i \in Nat, NEW d \in Nat, Congruent(2 * p, x[i + d], x[i])
      PROVE  \E e \in Nat : d = (2 * p) * e
  <2>1. Congruent(p, x[i + d], x[i])
    <3>1. PICK u \in Int : x[i + d] - x[i] = (2 * p) * u
      BY <1>4 DEF Congruent
    <3>2. (2 * p) * u = p * (2 * u) /\ 2 * u \in Int
      OBVIOUS
    <3> QED  BY <3>1, <3>2 DEF Congruent
  <2>2. PICK e \in Nat : d = p * e
    BY <2>1 DEF HasPeriod
  <2>3. PICK f \in Nat : e = 2 * f \/ e = 2 * f + 1
    <3>1. e \div 2 \in Nat /\ (e = 2 * (e \div 2) \/ e = 2 * (e \div 2) + 1)
      OBVIOUS
    <3> QED  BY <3>1
  <2>4. CASE e = 2 * f
    <3>1. d = (2 * p) * f
      BY <2>2, <2>4
    <3> QED  BY <3>1
  <2>5. CASE e = 2 * f + 1
    <3>1. i + d = (i + p) + (2 * p) * f /\ i + p \in Nat /\ i + d \in Nat
      BY <2>2, <2>5
    <3>2. PICK u \in Int : x[i + d] - x[i + p] = (2 * p) * u
      <4>1. Congruent(2 * p, x[(i + p) + (2 * p) * f], x[i + p])
        BY <1>3, <3>1
      <4> QED  BY <3>1, <4>1 DEF Congruent
    <3>3. PICK v \in Int : x[i + p] - (x[i] + p) = (2 * p) * v
      BY <1>1 DEF Congruent
    <3>4. PICK w \in Int : x[i + d] - x[i] = (2 * p) * w
      BY <1>4 DEF Congruent
    <3>5. x[i] \in Int /\ x[i + p] \in Int /\ x[i + d] \in Int
      BY <3>1
    <3>6. p = p * (2 * (w - u - v))
      BY <3>2, <3>3, <3>4, <3>5
    <3>7. 2 * (w - u - v) = 1
      <4> DEFINE k == 2 * (w - u - v)
      <4>1. k \in Int
        OBVIOUS
      <4> HIDE DEF k
      <4>2. p = p * k
        BY <3>6 DEF k
      <4>3. k = 1
        BY <4>1, <4>2
      <4> QED  BY <4>3 DEF k
    <3> QED  BY <3>7
  <2> QED  BY <2>3, <2>4, <2>5
<1> QED  BY <1>3, <1>4 DEF HasPeriod

(* Modulo a power of two the generator comes back after as many steps: it  *)
(* goes through all the values.                                            *)
LEMMA Period ==
    ASSUME NEW a \in Int, NEW c \in Int, NEW s \in Int, NEW t \in Int,
           a = 1 + 4 * s, c = 1 + 2 * t
    PROVE  \A p \in PowersOfTwo, x \in [Nat -> Int] : Recurs(p, x, a, c) => HasPeriod(p, x)
<1> DEFINE Short(p) == \A x \in [Nat -> Int] : Recurs(p, x, a, c) => HasPeriod(p, x)
           S == {p \in PowersOfTwo : Short(p)}
<1>1. 1 \in PowersOfTwo /\ \A p \in PowersOfTwo : 2 * p \in PowersOfTwo
  BY DEF PowersOfTwo
<1>2. Short(1)
  <2>1. ASSUME NEW x \in [Nat -> Int], NEW i \in Nat, NEW d \in Nat
        PROVE  Congruent(1, x[i + d], x[i]) /\ d = 1 * d
    <3>1. x[i + d] - x[i] = 1 * (x[i + d] - x[i]) /\ x[i + d] - x[i] \in Int
      OBVIOUS
    <3> QED  BY <3>1 DEF Congruent
  <2> QED  BY <2>1 DEF HasPeriod
<1>3. ASSUME NEW p \in Nat \ {0}, p \in PowersOfTwo, Short(p) PROVE Short(2 * p)
  <2>1. SUFFICES ASSUME NEW x \in [Nat -> Int], Recurs(2 * p, x, a, c) PROVE HasPeriod(2 * p, x)
    OBVIOUS
  <2>2. Recurs(p, x, a, c)
    <3>1. ASSUME NEW i \in Nat PROVE Congruent(p, x[i + 1], a * x[i] + c)
      <4>1. PICK u \in Int : x[i + 1] - (a * x[i] + c) = (2 * p) * u
        BY <2>1 DEF Recurs, Congruent
      <4>2. (2 * p) * u = p * (2 * u) /\ 2 * u \in Int
        OBVIOUS
      <4> QED  BY <4>1, <4>2 DEF Congruent
    <3> QED  BY <3>1 DEF Recurs
  <2>3. HasPeriod(p, x)
    BY <1>3, <2>2
  <2>4. PICK q \in Int, r \in Int : Leaps(p, a, c, q, r)
    BY <1>3, LeapsExist
  <2> QED  BY <2>1, <2>3, <2>4, PeriodDoubles
<1> HIDE DEF Short
<1>4. \A p \in PowersOfTwo : p \in S
  <2>1. 1 \in S
    BY <1>1, <1>2
  <2>2. \A p \in Nat \ {0} : p \in S => 2 * p \in S
    BY <1>1, <1>3
  <2> HIDE DEF S
  <2> QED  BY <2>1, <2>2, PowerInduction
<1> QED  BY <1>4 DEF Short

(* The sequence x that starts with s and goes on as F says. *)
Maps(S, F, s) == F \in [S -> S] /\ s \in S
Iterates(S, F, s, x) == x \in [Nat -> S] /\ x[0] = s /\ \A i \in Nat : x[i + 1] = F[x[i]]
(* There is one. *)
LEMMA Iteration ==
    ASSUME NEW S, NEW F, NEW s, Maps(S, F, s)
    PROVE  \E x : Iterates(S, F, s, x)
<1>0. F \in [S -> S] /\ s \in S
  BY DEF Maps
<1> DEFINE Begins(f, n) == f[0] = s /\ \A i \in 0 .. n - 1 : f[i + 1] = F[f[i]]
           Known == {n \in Nat : \E f \in [0 .. n -> S] : Begins(f, n)}
           First(n) == CHOOSE f \in [0 .. n -> S] : Begins(f, n)
           x == [n \in Nat |-> First(n)[n]]
<1>1. \A n \in Nat : n \in Known
  <2>1. 0 \in Known
    <3> DEFINE f == [i \in 0 .. 0 |-> s]
    <3>1. f \in [0 .. 0 -> S] /\ Begins(f, 0)
      BY <1>0
    <3> QED  BY <3>1
  <2>2. ASSUME NEW n \in Nat, n \in Known PROVE n + 1 \in Known
    <3>1. PICK f \in [0 .. n -> S] : Begins(f, n)
      BY <2>2
    <3> DEFINE g == [i \in 0 .. n + 1 |-> IF i = n + 1 THEN F[f[n]] ELSE f[i]]
    <3>2. g \in [0 .. n + 1 -> S] /\ n + 1 \in Nat
      BY <1>0
    <3>3. g[0] = s
      BY <3>1
    <3>4. ASSUME NEW i \in 0 .. n + 1 - 1 PROVE g[i + 1] = F[g[i]]
      <4>1. CASE i = n
        BY <4>1
      <4>2. CASE i # n
        <5>1. i \in 0 .. n - 1 /\ i + 1 \in 0 .. n
          BY <4>2
        <5> QED  BY <3>1, <5>1
      <4> QED  BY <4>1, <4>2
    <3>5. Begins(g, n + 1)
      <4> HIDE DEF g
      <4> QED  BY <3>3, <3>4
    <3> HIDE DEF g, Begins
    <3> QED  BY <3>2, <3>5
  <2> HIDE DEF Known
  <2> QED  BY <2>1, <2>2, NaturalInduction
<1>2. ASSUME NEW n \in Nat PROVE First(n) \in [0 .. n -> S] /\ Begins(First(n), n)
  <2>1. \E f \in [0 .. n -> S] : Begins(f, n)
    BY <1>1
  <2> HIDE DEF Begins
  <2> QED  BY <2>1
<1>3. ASSUME NEW n \in Nat, NEW f \in [0 .. n -> S], NEW m \in Nat, NEW g \in [0 .. m -> S],
             Begins(f, n), Begins(g, m), n <= m
      PROVE  \A i \in Nat : i <= n => f[i] = g[i]
  <2> DEFINE Same == {i \in Nat : i <= n => f[i] = g[i]}
  <2>1. 0 \in Same
    BY <1>3
  <2>2. ASSUME NEW i \in Nat, i \in Same PROVE i + 1 \in Same
    <3>1. SUFFICES ASSUME i + 1 <= n PROVE f[i + 1] = g[i + 1]
      OBVIOUS
    <3>2. i \in 0 .. n - 1 /\ i \in 0 .. m - 1 /\ f[i] = g[i]
      BY <1>3, <2>2, <3>1
    <3> QED  BY <1>3, <3>2
  <2> HIDE DEF Same
  <2>3. \A i \in Nat : i \in Same
    BY <2>1, <2>2, NaturalInduction
  <2> QED  BY <2>3 DEF Same
<1> HIDE DEF First
<1>4. x \in [Nat -> S]
  BY <1>2
<1>5. x[0] = s
  BY <1>2
<1>6. ASSUME NEW i \in Nat PROVE x[i + 1] = F[x[i]]
  <2>1. /\ First(i) \in [0 .. i -> S] /\ Begins(First(i), i)
        /\ First(i + 1) \in [0 .. i + 1 -> S] /\ Begins(First(i + 1), i + 1)
    BY <1>2
  <2>2. First(i)[i] = First(i + 1)[i]
    <3> HIDE DEF Begins
    <3>1. i + 1 \in Nat /\ i <= i + 1 /\ i <= i
      OBVIOUS
    <3> QED  BY <1>3, <2>1, <3>1
  <2>3. First(i + 1)[i + 1] = F[First(i + 1)[i]]
    BY <2>1
  <2>4. x[i] = First(i)[i] /\ x[i + 1] = First(i + 1)[i + 1]
    OBVIOUS
  <2> QED  BY <2>2, <2>3, <2>4
<1> HIDE DEF x
<1> QED  BY <1>4, <1>5, <1>6 DEF Iterates

(* In p steps a sequence of period p visits every number below p.          *)
LEMMA VisitsAll ==
    ASSUME NEW p \in Nat \ {0}, NEW x \in [Nat -> Int], HasPeriod(p, x), NEW s \in Nat,
           \A j \in s .. s + p - 1 : x[j] \in 0 .. p - 1
    PROVE  \A v \in 0 .. p - 1 : \E j \in s .. s + p - 1 : x[j] = v
<1> DEFINE D == s .. s + p - 1
           V == 0 .. p - 1
           f == [j \in D |-> x[j]]
<1>1. f \in Injection(D, V)
  <2>1. f \in [D -> V]
    OBVIOUS
  <2>2. ASSUME NEW i \in D, NEW j \in D, i < j, x[i] = x[j] PROVE FALSE
    <3>1. i \in Nat /\ j - i \in Nat /\ i + (j - i) = j /\ 0 < j - i /\ j - i < p
      BY <2>2
    <3>2. Congruent(p, x[i + (j - i)], x[i])
      <4>1. x[i] \in Int /\ x[j] = x[i] /\ p \in Int
        BY <2>2, <3>1
      <4> QED  BY <3>1, <4>1, CongruentRules
    <3>3. PICK e \in Nat : j - i = p * e
      BY <3>1, <3>2 DEF HasPeriod
    <3> DEFINE d == j - i
    <3>4. d \in Nat /\ 0 < d /\ d < p /\ d = p * e
      BY <3>1, <3>3
    <3> HIDE DEF d
    <3>5. e = 0 \/ e >= 1
      OBVIOUS
    <3>6. e >= 1 => p * e >= p
      OBVIOUS
    <3> QED  BY <3>4, <3>5, <3>6
  <2>3. \A i, j \in D : x[i] = x[j] => i = j
    <3>1. \A i, j \in D : i < j \/ j < i \/ i = j
      OBVIOUS
    <3> QED  BY <2>2, <3>1
  <2> QED  BY <2>1, <2>3, Fun_IsInj
<1>2. IsFiniteSet(D) /\ IsFiniteSet(V) /\ Cardinality(D) = p /\ Cardinality(V) = p
  <2> DEFINE t == s + p - 1
             u == p - 1
  <2>1. s \in Int /\ t \in Int /\ ~(s > t) /\ t - s + 1 = p
    OBVIOUS
  <2>2. 0 \in Int /\ u \in Int /\ ~(0 > u) /\ u - 0 + 1 = p
    OBVIOUS
  <2> HIDE DEF t, u
  <2>3. IsFiniteSet(s .. t) /\ Cardinality(s .. t) = p
    BY <2>1, FS_Interval
  <2>4. IsFiniteSet(0 .. u) /\ Cardinality(0 .. u) = p
    BY <2>2, FS_Interval
  <2> QED  BY <2>3, <2>4 DEF t, u
<1> HIDE DEF D, V
<1>3. f \in Surjection(D, V)
  BY <1>1, <1>2, FS_Injection
<1>4. ASSUME NEW v \in V PROVE \E j \in D : x[j] = v
  BY <1>3 DEF Surjection
<1> QED  BY <1>4 DEF D, V
=============================================================================
