----------------------------- MODULE ItestShuffle -----------------------------
(***************************************************************************)
(* Proofs, for every seed and every block, that a shuffled block runs each *)
(* call it selects exactly once, the generator having full period, and     *)
(* that every step of the process leaves less to do.                       *)
(***************************************************************************)
EXTENDS ItestDocumented, NumberFacts

(***************************************************************************)
(* A loop and its generator.                                               *)
(***************************************************************************)

(* Where the calls of a shuffled block stand: R holds the positions of     *)
(* those that pass the filters, and Place(R, i) is the number that the     *)
(* counter has when the pass comes to position i.                          *)
Place(R, i) == Cardinality({j \in R : j < i})

(* The selected positions of a block of n calls. *)
Positions(R, n) == n \in Nat /\ R \in SUBSET (1 .. n)

(* What a pass that drew v has run before position i, and what the first k *)
(* draws x[0], x[1], ... have run.                                         *)
RunNow(R, i, v) == {j \in R : j < i /\ Place(R, j) = v}
Visited(R, x, k) == {j \in R : \E i \in 0 .. k - 1 : x[i] = Place(R, j)}

(* The generator's next value, and the sequences of values it goes through. *)
Round(a, m, v) == ((a % m) * (v % m) + (Increment % m)) % m
Orbit(a, m, x) == x \in [Nat -> Nat] /\ \A i \in Nat : x[i + 1] = Round(a, m, x[i])

(* The calls that f has run: by all the draws but the last, and by that.   *)
Ran(f) == {f.ran[i] : i \in DOMAIN f.ran}
RanBy(f, g, R) ==
    \E x \in [Nat -> Nat], k \in Nat :
        /\ Orbit(g.a, g.m, x) /\ x[k] = g.state
        /\ Ran(f) = Visited(R, x, k) \union RunNow(R, f.pos, g.state)

(* The phases of a loop f with its generator g: the pass that counts, the  *)
(* loop that doubles the modulus, a block with nothing to run, and the     *)
(* passes that run one call each.  at: "top", when f is on top of the      *)
(* stack, "setup", when the setup hook of its test runs, or "call", when   *)
(* its test or suite does; failures: those that end it in first-fail mode. *)
Counting(f, g, R, at, failures) ==
    /\ ~g.initialized /\ at = "top" /\ f.ran = <<>> /\ g.count_run = 0
    /\ f.pos = 0 => g.count = 0
    /\ f.pos # 0 => f.pos <= Len(f.body) + 1 /\ failures = 0 /\ g.count = Place(R, f.pos)
Doubling(f, g, R, at) ==
    /\ g.initialized /\ at = "top" /\ f.ran = <<>> /\ g.count_run = 0
    /\ f.pos = Len(f.body) + 2
    /\ g.count = Cardinality(R) /\ g.count_ceil = Cardinality(R) /\ g.count # 0
    /\ g.m \in PowersOfTwo
Idle(f, g, R, at) ==
    /\ g.initialized /\ at = "top" /\ f.ran = <<>> /\ f.pos = 0
    /\ g.count_ceil = 0 /\ R = {}
Picking(f, g, R, at, failures) ==
    /\ g.initialized /\ f.pos <= Len(f.body) + 1
    /\ g.count_ceil = Cardinality(R) /\ g.count_ceil # 0
    /\ g.m \in PowersOfTwo /\ g.m >= g.count_ceil
    /\ Len(f.ran) = IF at = "setup" THEN g.count_run + 1 ELSE g.count_run
    /\ \A i, j \in DOMAIN f.ran : f.ran[i] = f.ran[j] => i = j
    /\ RanBy(f, g, R)
    /\ f.pos = 0 => g.count = 0
    /\ f.pos # 0 => failures # 0 \/ g.count = Place(R, f.pos)
    /\ f.pos \in DOMAIN f.body /\ RunNow(R, f.pos, g.state) = {}
         => failures = 0 /\ Len(f.ran) < g.count_ceil
    /\ at # "top" => RunNow(R, f.pos, g.state) # {}
LoopOK(f, g, R, at, failures) ==
    /\ g.random_order /\ \E s \in Nat : g.a = 1 + 4 * s
    /\ \/ Counting(f, g, R, at, failures)
       \/ Doubling(f, g, R, at)
       \/ Idle(f, g, R, at)
       \/ Picking(f, g, R, at, failures)

(***************************************************************************)
(* Places.                                                                 *)
(***************************************************************************)

(* The numbers the counter gives to the selected calls, in order.          *)
LEMMA Places ==
    ASSUME NEW n, NEW R, Positions(R, n)
    PROVE  /\ Cardinality(R) \in Nat /\ (Cardinality(R) = 0 => R = {})
           /\ \A i \in Nat : Place(R, i) \in Nat
           /\ \A i \in R : Place(R, i + 1) = Place(R, i) + 1 /\ Place(R, i) < Cardinality(R)
           /\ \A i \in Nat : i \notin R => Place(R, i + 1) = Place(R, i)
           /\ \A i, j \in R : i < j => Place(R, i) < Place(R, j)
           /\ Place(R, 1) = 0 /\ Place(R, n + 1) = Cardinality(R)
<1> DEFINE Before(i) == {j \in R : j < i}
<1>0. n \in Nat /\ R \in SUBSET (1 .. n)
  BY DEF Positions
<1>a. \A i \in R : i \in Nat /\ 1 <= i /\ i < n + 1 /\ ~(i < i) /\ ~(i < 1)
  BY <1>0
<1>b. \A i \in Nat, j \in R : j < i + 1 <=> j < i \/ j = i
  BY <1>0
<1>1. IsFiniteSet(R)
  <2>1. IsFiniteSet(1 .. n)
    BY <1>0, FS_Interval
  <2> QED  BY <1>0, <2>1, FS_Subset
<1>2. ASSUME NEW i \in Nat
      PROVE  IsFiniteSet(Before(i)) /\ Place(R, i) \in Nat /\ Place(R, i) = Cardinality(Before(i))
  <2>1. Before(i) \subseteq R
    OBVIOUS
  <2>2. Place(R, i) = Cardinality(Before(i))
    BY DEF Place
  <2> HIDE DEF Before
  <2> QED  BY <1>1, <2>1, <2>2, FS_Subset, FS_CardinalityType
<1>3. Cardinality(R) \in Nat /\ (Cardinality(R) = 0 => R = {})
  BY <1>1, FS_CardinalityType, FS_EmptySet
<1>4. ASSUME NEW i \in R PROVE i \in Nat /\ Place(R, i + 1) = Place(R, i) + 1
  <2>1. i \in Nat /\ Before(i + 1) = Before(i) \union {i} /\ i \notin Before(i)
    <3>1. i \in Nat /\ i \notin Before(i)
      BY <1>a
    <3>2. \A j \in R : j < i + 1 <=> j < i \/ j = i
      BY <1>b, <3>1
    <3> QED  BY <3>1, <3>2
  <2> HIDE DEF Before
  <2>2. Cardinality(Before(i) \union {i}) = Cardinality(Before(i)) + 1
    BY <1>2, <2>1, FS_AddElement
  <2> QED  BY <1>2, <2>1, <2>2
<1>5. ASSUME NEW i \in Nat, i \notin R PROVE Place(R, i + 1) = Place(R, i)
  <2>1. Before(i + 1) = Before(i)
    BY <1>b, <1>5
  <2> HIDE DEF Before
  <2> QED  BY <1>2, <2>1
<1>6. ASSUME NEW i \in R, NEW j \in R, i < j PROVE Place(R, i) < Place(R, j)
  <2>1. Before(i + 1) \subseteq Before(j) /\ i \in Nat /\ j \in Nat
    <3>1. \A l \in R : l < i + 1 => l < j
      BY <1>6, <1>a
    <3> QED  BY <1>a, <3>1
  <2> HIDE DEF Before
  <2>2. Place(R, i + 1) <= Place(R, j)
    BY <1>2, <2>1, FS_Subset
  <2> QED  BY <1>2, <1>4, <2>1, <2>2
<1>7. ASSUME NEW i \in R PROVE Place(R, i) < Cardinality(R)
  <2>1. Before(i + 1) \subseteq R /\ i \in Nat
    BY <1>a
  <2> HIDE DEF Before
  <2>2. Place(R, i + 1) <= Cardinality(R)
    BY <1>1, <1>2, <2>1, FS_Subset
  <2> QED  BY <1>2, <1>3, <1>4, <2>1, <2>2
<1>8. Place(R, 1) = 0
  <2>1. Before(1) = {}
    BY <1>a
  <2> HIDE DEF Before
  <2> QED  BY <1>2, <2>1, FS_EmptySet
<1>9. Place(R, n + 1) = Cardinality(R)
  <2>1. n + 1 \in Nat
    BY <1>0
  <2>a. Before(n + 1) = R
    BY <1>a
  <2> HIDE DEF Before
  <2>2. Place(R, n + 1) = Cardinality(Before(n + 1))
    BY <1>2, <2>1
  <2> QED  BY <2>a, <2>2
<1> HIDE DEF Before
<1> QED  BY <1>0, <1>2, <1>3, <1>4, <1>5, <1>6, <1>7, <1>8, <1>9

(* What a pass runs as it goes by a call, and what the draws have run.     *)
LEMMA PassRuns ==
    ASSUME NEW n, NEW R, Positions(R, n), NEW v \in Nat
    PROVE  /\ RunNow(R, 0, v) = {} /\ RunNow(R, 1, v) = {}
           /\ \A i \in Nat : i \notin R \/ Place(R, i) # v => RunNow(R, i + 1, v) = RunNow(R, i, v)
           /\ \A i \in R : Place(R, i) = v => RunNow(R, i, v) = {} /\ RunNow(R, i + 1, v) = {i}
           /\ \A i \in R : RunNow(R, i, v) # {} => Place(R, i) # v
           /\ v >= Cardinality(R) => \A i \in Nat : RunNow(R, i, v) = {}
           /\ \A i \in Nat : RunNow(R, i, v) \subseteq R /\ i \notin RunNow(R, i, v)
<1>1. \A i \in R : i \in Nat /\ ~(i < 0) /\ ~(i < 1) /\ i < n + 1
  BY DEF Positions
<1>2. RunNow(R, 0, v) = {} /\ RunNow(R, 1, v) = {}
  BY <1>1 DEF RunNow
<1>3. ASSUME NEW i \in Nat, i \notin R \/ Place(R, i) # v
      PROVE  RunNow(R, i + 1, v) = RunNow(R, i, v)
  <2>1. \A j \in R : j < i + 1 <=> j < i \/ j = i
    BY <1>1
  <2> QED  BY <1>3, <2>1 DEF RunNow
<1>4. ASSUME NEW i \in R, Place(R, i) = v
      PROVE  RunNow(R, i, v) = {} /\ RunNow(R, i + 1, v) = {i}
  <2>1. \A j \in R : j < i => Place(R, j) < Place(R, i)
    BY Places
  <2>2. \A j \in R : Place(R, j) \in Nat
    BY <1>1, Places
  <2>3. \A j \in R : j < i => Place(R, j) # v
    BY <1>4, <2>1, <2>2
  <2>4. \A j \in R : j < i + 1 <=> j < i \/ j = i
    BY <1>1
  <2> QED  BY <1>4, <2>3, <2>4 DEF RunNow
<1>5. ASSUME v >= Cardinality(R), NEW i \in Nat PROVE RunNow(R, i, v) = {}
  <2>1. \A j \in R : Place(R, j) \in Nat /\ Place(R, j) < Cardinality(R) /\ Cardinality(R) \in Nat
    BY <1>1, Places
  <2>2. \A j \in R : Place(R, j) # v
    BY <1>5, <2>1
  <2> QED  BY <2>2 DEF RunNow
<1>6. \A i \in Nat : RunNow(R, i, v) \subseteq R /\ i \notin RunNow(R, i, v)
  BY DEF RunNow
<1> QED  BY <1>2, <1>3, <1>4, <1>5, <1>6

(* The draws one by one. *)
LEMMA NextVisited ==
    ASSUME NEW n, NEW R, Positions(R, n), NEW x \in [Nat -> Nat], NEW k \in Nat
    PROVE  /\ Visited(R, x, 0) = {}
           /\ Visited(R, x, k + 1) = Visited(R, x, k) \union RunNow(R, n + 1, x[k])
<1>1. Visited(R, x, 0) = {}
  BY DEF Visited
<1>2. \A i : i \in 0 .. k + 1 - 1 <=> i \in 0 .. k - 1 \/ i = k
  OBVIOUS
<1>3. \A j \in R : j < n + 1
  BY DEF Positions
<1>4. Visited(R, x, k + 1) = Visited(R, x, k) \union RunNow(R, n + 1, x[k])
  <2>1. \A j \in R : (\E i \in 0 .. k + 1 - 1 : x[i] = Place(R, j))
                    <=> (\E i \in 0 .. k - 1 : x[i] = Place(R, j)) \/ x[k] = Place(R, j)
    BY <1>2
  <2> DEFINE V == Visited(R, x, k + 1)
             W == Visited(R, x, k) \union RunNow(R, n + 1, x[k])
  <2>2. \A j \in R : j \in V <=> j \in W
    BY <1>3, <2>1 DEF Visited, RunNow
  <2>3. V \subseteq R /\ W \subseteq R
    BY DEF Visited, RunNow
  <2> HIDE DEF V, W
  <2>4. V = W
    BY <2>2, <2>3
  <2> QED  BY <2>4 DEF V, W
<1> QED  BY <1>1, <1>4

(***************************************************************************)
(* The generator.                                                          *)
(***************************************************************************)

(* A round of the generator, for any words. *)
LEMMA RoundFacts ==
    ASSUME NEW a \in Nat, NEW m \in Nat \ {0}, NEW v \in Nat
    PROVE  Round(a, m, v) \in 0 .. m - 1 /\ Congruent(m, Round(a, m, v), a * v + Increment)
<1> DEFINE p == a % m
           q == v % m
           r == Increment % m
           w == p * q + r
<1>1. Increment \in Nat
  BY DEF Increment
<1>2. /\ p \in Nat /\ Congruent(m, p, a) /\ q \in Nat /\ Congruent(m, q, v)
      /\ r \in Nat /\ Congruent(m, r, Increment)
  <2>1. ASSUME NEW y \in Nat PROVE y % m \in Nat /\ Congruent(m, y % m, y)
    <3>1. y \in Int
      OBVIOUS
    <3>2. y % m \in 0 .. m - 1 /\ Congruent(m, y % m, y)
      BY <3>1, ModOf
    <3> QED  BY <3>2
  <2> QED  BY <1>1, <2>1
<1>3. Round(a, m, v) = w % m
  BY DEF Round
<1> DEFINE c == Increment
<1>4. c \in Nat /\ Congruent(m, r, c)
  BY <1>1, <1>2
<1> HIDE DEF p, q, r, c
<1>5. w \in Nat
  BY <1>2
<1>6. Congruent(m, w, a * v + c)
  <2>1. PICK i \in Int : p - a = m * i
    BY <1>2 DEF Congruent
  <2>2. PICK j \in Int : q - v = m * j
    BY <1>2 DEF Congruent
  <2>3. PICK l \in Int : r - c = m * l
    BY <1>4 DEF Congruent
  <2> DEFINE e == i * q + a * j + l
  <2>4. e \in Int
    BY <1>2
  <2>5. w - (a * v + c) = m * e
    <3>1. p = a + m * i /\ q = v + m * j /\ r = c + m * l
      BY <1>2, <1>4, <2>1, <2>2, <2>3
    <3>2. p * q = a * q + (m * i) * q
      BY <1>2, <3>1
    <3>3. a * q = a * v + a * (m * j)
      BY <1>2, <3>1
    <3>4. (m * i) * q = m * (i * q) /\ a * (m * j) = m * (a * j)
      BY <1>2
    <3>5. m * e = m * (i * q) + m * (a * j) + m * l
      BY <1>2
    <3> DEFINE b1 == a * v
               b2 == m * (i * q)
               b3 == m * (a * j)
               b4 == m * l
    <3>6. w = b1 + b3 + b2 + (c + b4) /\ m * e = b2 + b3 + b4
      BY <3>1, <3>2, <3>3, <3>4, <3>5
    <3>7. b1 \in Int /\ b2 \in Int /\ b3 \in Int /\ b4 \in Int
      BY <1>2
    <3> HIDE DEF b1, b2, b3, b4, w, e
    <3>8. w - (b1 + c) = m * e
      BY <1>4, <3>6, <3>7
    <3> QED  BY <3>8 DEF b1
  <2> HIDE DEF e
  <2> QED  BY <2>4, <2>5 DEF Congruent
<1> HIDE DEF w
<1> DEFINE b == a * v + c
<1>7. b \in Int /\ w % m \in 0 .. m - 1 /\ Congruent(m, w % m, w) /\ Congruent(m, w, b)
  BY <1>4, <1>5, <1>6, ModOf
<1> HIDE DEF b
<1>8. Congruent(m, w % m, b)
  <2>1. w % m \in Int /\ w \in Int /\ m \in Int
    BY <1>5, <1>7
  <2> HIDE DEF Congruent
  <2> QED  BY <1>7, <2>1, CongruentRules
<1> QED  BY <1>3, <1>7, <1>8 DEF b, c

(* The modulus is positive, and doubling it gives another. *)
LEMMA PowerPositive == \A p \in PowersOfTwo : p \in Nat \ {0} /\ 2 * p \in PowersOfTwo
<1> DEFINE S == Nat \ {0}
<1>1. 1 \in S /\ \A p \in Nat \ {0} : p \in S => 2 * p \in S
  OBVIOUS
<1>2. \A p \in PowersOfTwo : p \in Nat \ {0}
  <2> HIDE DEF S
  <2> QED  BY <1>1, PowerInduction
<1>3. \A p \in PowersOfTwo : 2 * p \in PowersOfTwo
  BY DEF PowersOfTwo
<1> QED  BY <1>2, <1>3

(* The values of a generator repeat after as many rounds as its modulus.   *)
LEMMA OrbitPeriod ==
    ASSUME NEW s \in Nat, NEW a, a = 1 + 4 * s, NEW m \in PowersOfTwo, NEW x, Orbit(a, m, x)
    PROVE  /\ HasPeriod(m, x) /\ x \in [Nat -> Int] /\ \A l \in Nat : x[l] \in Nat
           /\ \A l \in Nat : x[l + 1] \in 0 .. m - 1
<1>1. m \in Nat \ {0} /\ a \in Nat /\ x \in [Nat -> Int] /\ \A l \in Nat : x[l] \in Nat
  BY PowerPositive DEF Orbit
<1>2. \A l \in Nat : x[l + 1] \in 0 .. m - 1 /\ Congruent(m, x[l + 1], a * x[l] + Increment)
  <2>1. ASSUME NEW l \in Nat
        PROVE  x[l + 1] \in 0 .. m - 1 /\ Congruent(m, x[l + 1], a * x[l] + Increment)
    <3>1. x[l] \in Nat /\ x[l + 1] = Round(a, m, x[l])
      BY <1>1 DEF Orbit
    <3> QED  BY <1>1, <3>1, RoundFacts
  <2> QED  BY <2>1
<1>3. HasPeriod(m, x)
  <2> DEFINE t == 1073741823
             c == Increment
  <2>1. t \in Int /\ s \in Int /\ a \in Int /\ c \in Int /\ c = 1 + 2 * t
    BY <1>1 DEF Increment
  <2>2. Recurs(m, x, a, c)
    BY <1>2 DEF Recurs
  <2> HIDE DEF t, c
  <2> QED  BY <1>1, <2>1, <2>2, Period
<1> QED  BY <1>1, <1>2, <1>3

(* A place comes up a second time only after all the others: by then every *)
(* selected call has been drawn.                                           *)
DrawnAgain(R, a, m, x, k) ==
    /\ \E n \in Nat : Positions(R, n)
    /\ m \in PowersOfTwo /\ m >= Cardinality(R) /\ \E s \in Nat : a = 1 + 4 * s
    /\ Orbit(a, m, x) /\ k \in Nat
    /\ \E i \in 0 .. k - 1, j \in R : x[i] = Place(R, j) /\ x[k] = Place(R, j)
(* By the full period of the generator. *)
LEMMA AllDrawn ==
    ASSUME NEW R, NEW a, NEW m, NEW x, NEW k, DrawnAgain(R, a, m, x, k)
    PROVE  Visited(R, x, k) = R
<1>0. /\ m \in PowersOfTwo /\ m >= Cardinality(R) /\ Orbit(a, m, x) /\ x \in [Nat -> Nat]
      /\ k \in Nat
  BY DEF DrawnAgain, Orbit
<1>n. PICK n \in Nat : Positions(R, n)
  BY DEF DrawnAgain
<1>s. PICK s \in Nat : a = 1 + 4 * s
  BY DEF DrawnAgain
<1>i. PICK i \in 0 .. k - 1, j \in R : x[i] = x[k] /\ x[k] = Place(R, j)
  BY DEF DrawnAgain
<1>1. /\ m \in Nat \ {0} /\ a \in Nat /\ i \in Nat /\ i < k
      /\ x \in [Nat -> Int] /\ \A l \in Nat : x[l] \in Nat
  BY <1>0, <1>s, PowerPositive
<1>2. HasPeriod(m, x) /\ \A l \in Nat : x[l + 1] \in 0 .. m - 1
  BY <1>0, <1>s, OrbitPeriod
<1>3. k - i >= m
  <2> DEFINE d == k - i
  <2>1. d \in Nat /\ 0 < d /\ i + d = k
    BY <1>0, <1>1
  <2> HIDE DEF d
  <2>2. x[i + d] \in Int /\ x[i + d] = x[i] /\ m \in Int
    BY <1>1, <1>i, <2>1
  <2>3. Congruent(m, x[i + d], x[i])
    BY <2>2, CongruentRules
  <2>4. PICK e \in Nat : d = m * e
    <3>1. Congruent(m, x[i + d], x[i]) <=> \E e \in Nat : d = m * e
      BY <1>1, <1>2, <2>1 DEF HasPeriod
    <3> QED  BY <2>3, <3>1
  <2>5. e = 0 \/ e >= 1
    OBVIOUS
  <2>6. e >= 1 => m * e >= m
    BY <1>1
  <2>7. m * 0 = 0
    BY <1>1
  <2>8. d >= m
    BY <1>1, <2>1, <2>4, <2>5, <2>6, <2>7
  <2> QED  BY <2>8 DEF d
<1>4. \A l \in R : Place(R, l) \in 0 .. m - 1
  <2>1. \A l \in R : l \in Nat /\ Place(R, l) \in Nat /\ Place(R, l) < Cardinality(R)
                   /\ Cardinality(R) \in Nat
    <3>1. Cardinality(R) \in Nat /\ \A l \in Nat : Place(R, l) \in Nat
      BY <1>n, Places
    <3>2. \A l \in R : Place(R, l) < Cardinality(R)
      BY <1>n, Places
    <3>3. \A l \in R : l \in Nat
      BY <1>n DEF Positions
    <3> QED  BY <3>1, <3>2, <3>3
  <2> QED  BY <1>0, <1>1, <2>1
<1>5. PICK b \in {0, 1} : b <= i /\ \A l \in b .. b + m - 1 : x[l] \in 0 .. m - 1
  <2>1. ASSUME NEW l \in Nat, l >= 1 PROVE x[l] \in 0 .. m - 1
    <3>1. l - 1 \in Nat /\ l - 1 + 1 = l
      BY <2>1
    <3> QED  BY <1>2, <3>1
  <2>2. CASE i = 0
    <3>1. x[0] \in 0 .. m - 1
      BY <1>4, <1>i, <2>2
    <3>2. \A l \in 0 .. 0 + m - 1 : l \in Nat /\ (l = 0 \/ l >= 1)
      BY <1>1
    <3>3. \A l \in 0 .. 0 + m - 1 : x[l] \in 0 .. m - 1
      BY <2>1, <3>1, <3>2
    <3> QED  BY <1>1, <3>3
  <2>3. CASE i >= 1
    <3>1. \A l \in 1 .. 1 + m - 1 : l \in Nat /\ l >= 1
      BY <1>1
    <3>2. \A l \in 1 .. 1 + m - 1 : x[l] \in 0 .. m - 1
      BY <2>1, <3>1
    <3> QED  BY <2>3, <3>2
  <2> QED  BY <1>1, <2>2, <2>3
<1>6. \A v \in 0 .. m - 1 : \E l \in b .. b + m - 1 : x[l] = v
  <2>1. b \in Nat
    OBVIOUS
  <2> QED  BY <1>1, <1>2, <1>5, <2>1, VisitsAll
<1>7. \A l \in b .. b + m - 1 : l \in 0 .. k - 1
  BY <1>0, <1>1, <1>3, <1>5
<1>8. \A l \in R : \E q \in 0 .. k - 1 : x[q] = Place(R, l)
  BY <1>4, <1>6, <1>7
<1> QED  BY <1>8 DEF Visited

(***************************************************************************)
(* Steps of a loop.                                                        *)
(***************************************************************************)

(* Calls run without repetition are all of R when they are as many.        *)
LEMMA RanCounts ==
    ASSUME NEW n, NEW R, Positions(R, n), NEW ran \in Seq(Nat),
           \A i, j \in DOMAIN ran : ran[i] = ran[j] => i = j,
           {ran[i] : i \in DOMAIN ran} \subseteq R
    PROVE  /\ Len(ran) <= Cardinality(R)
           /\ Len(ran) = Cardinality(R) <=> {ran[i] : i \in DOMAIN ran} = R
<1> DEFINE D == 1 .. Len(ran)
           run == {ran[i] : i \in D}
<1>1. Len(ran) \in Nat /\ DOMAIN ran = D /\ run \subseteq R /\ IsFiniteSet(R)
  <2>1. n \in Nat /\ R \in SUBSET (1 .. n) /\ IsFiniteSet(1 .. n)
    BY FS_Interval DEF Positions
  <2>2. IsFiniteSet(R)
    BY <2>1, FS_Subset
  <2>3. Len(ran) \in Nat /\ DOMAIN ran = D
    OBVIOUS
  <2> QED  BY <2>2, <2>3
<1>2. ran \in [D -> R]
  BY <1>1
<1>3. IsFiniteSet(D) /\ Cardinality(D) = Len(ran)
  <2> DEFINE k == Len(ran)
  <2>1. 1 \in Int /\ k \in Int /\ k - 1 + 1 = k /\ (1 > k => k = 0)
    BY <1>1
  <2> HIDE DEF k
  <2>2. IsFiniteSet(1 .. k) /\ Cardinality(1 .. k) = k
    BY <2>1, FS_Interval
  <2> QED  BY <2>2 DEF k
<1>4. \A i, j \in D : ran[i] = ran[j] => i = j
  BY <1>1
<1> HIDE DEF D
<1>5. ran \in Injection(D, R)
  BY <1>2, <1>4, Fun_IsInj
<1>6. Len(ran) <= Cardinality(R) /\ (Len(ran) = Cardinality(R) <=> ran \in Surjection(D, R))
  BY <1>1, <1>3, <1>5, FS_Injection
<1>7. ran \in Surjection(D, R) <=> run = R
  <2>1. ran \in Surjection(D, R) <=> \A r \in R : \E i \in D : ran[i] = r
    BY <1>2 DEF Surjection
  <2>2. run = R <=> \A r \in R : \E i \in D : ran[i] = r
    BY <1>1
  <2> QED  BY <2>1, <2>2
<1> QED  BY <1>1, <1>6, <1>7

(* No call of a loop has run twice. *)
LEMMA NoneTwice ==
    ASSUME NEW f, NEW g, NEW R, NEW at, NEW failures,
           LoopOK(f, g, R, at, failures)
    PROVE  \A i, j \in DOMAIN f.ran : f.ran[i] = f.ran[j] => i = j
<1>1. f.ran = <<>> => \A i, j \in DOMAIN f.ran : f.ran[i] = f.ran[j] => i = j
  OBVIOUS
<1> QED  BY <1>1 DEF LoopOK, Counting, Doubling, Idle, Picking

(* The positions of a block. *)
LEMMA BodyFacts ==
    ASSUME NEW f \in Frames
    PROVE  /\ Len(f.body) \in Nat /\ DOMAIN f.body = 1 .. Len(f.body)
           /\ f.pos \in Nat /\ f.ran \in Seq(Nat)
           /\ \A i \in DOMAIN f.ran : f.ran[i] \in Nat
  BY DEF Frames

(* What a block selects are positions of it. *)
LEMMA BlockPositions ==
    ASSUME NEW f \in Frames, NEW R \in SUBSET (DOMAIN f.body)
    PROVE  Positions(R, Len(f.body))
  BY BodyFacts DEF Positions

(* Which phase a loop is in. *)
LEMMA Phase ==
    ASSUME NEW f \in Frames, NEW g, NEW R, NEW at, NEW failures,
           LoopOK(f, g, R, at, failures)
    PROVE  /\ ~g.initialized => Counting(f, g, R, at, failures)
           /\ f.pos = Len(f.body) + 2 => Doubling(f, g, R, at)
           /\ g.initialized /\ f.pos # Len(f.body) + 2 /\ f.pos # 0
                => Picking(f, g, R, at, failures)
           /\ g.initialized /\ f.pos = 0
                => Picking(f, g, R, at, failures) \/ Idle(f, g, R, at)
  BY BodyFacts DEF LoopOK, Counting, Doubling, Idle, Picking

(* A loop that ends has run everything, and nothing twice.                 *)
LEMMA LoopDone ==
    ASSUME NEW f \in Frames, NEW g \in Prng, NEW R \in SUBSET (DOMAIN f.body), NEW failures,
           LoopOK(f, g, R, "top", failures), g.initialized, f.pos = 0,
           ~(g.count_run < g.count_ceil)
    PROVE  Ran(f) = R
<1> DEFINE run == Ran(f)
<1>1. CASE Idle(f, g, R, "top")
  BY <1>1 DEF Idle, Ran
<1>2. CASE Picking(f, g, R, "top", failures)
  <2>1. run \subseteq R
    <3>1. PICK x, k : run = Visited(R, x, k) \union RunNow(R, f.pos, g.state)
      BY <1>2 DEF Picking, RanBy
    <3> QED  BY <3>1 DEF Visited, RunNow
  <2>2. /\ Len(f.body) \in Nat /\ Positions(R, Len(f.body)) /\ f.ran \in Seq(Nat)
        /\ \A i, j \in DOMAIN f.ran : f.ran[i] = f.ran[j] => i = j
    BY <1>2, BodyFacts, BlockPositions DEF Picking
  <2>3. Len(f.ran) <= Cardinality(R) /\ (Len(f.ran) = Cardinality(R) <=> run = R)
    BY <2>1, <2>2, RanCounts DEF Ran
  <2>4. /\ g.count_run = Len(f.ran) /\ g.count_ceil = Cardinality(R)
        /\ g.count_run \in Nat /\ g.count_ceil \in Nat
    BY <1>2 DEF Picking, Prng
  <2> QED  BY <2>3, <2>4
<1> QED  BY <1>1, <1>2, Phase, BodyFacts

(* A call that is drawn has not run before. *)
LEMMA FreshCall ==
    ASSUME NEW f \in Frames, NEW g \in Prng, NEW R \in SUBSET (DOMAIN f.body),
           LoopOK(f, g, R, "top", 0), g.initialized, f.pos \in R,
           g.count = g.state
    PROVE  /\ Picking(f, g, R, "top", 0)
           /\ Place(R, f.pos) = g.state /\ Len(f.ran) < g.count_ceil
           /\ RunNow(R, f.pos, g.state) = {} /\ RunNow(R, f.pos + 1, g.state) = {f.pos}
           /\ f.pos \notin Ran(f) /\ Place(R, f.pos + 1) = Place(R, f.pos) + 1
<1> DEFINE n == Len(f.body)
           run == Ran(f)
<1>1. /\ n \in Nat /\ Positions(R, n) /\ f.pos \in DOMAIN f.body
      /\ f.pos \in Nat /\ f.pos # 0 /\ f.pos # n + 2 /\ f.ran \in Seq(Nat)
  <2>1. Positions(R, n) /\ f.pos \in DOMAIN f.body
    BY BlockPositions
  <2> QED  BY <2>1, BodyFacts
<1>2. Picking(f, g, R, "top", 0)
  BY <1>1, Phase
<1>3. g.state \in Nat /\ g.count_ceil \in Nat /\ Place(R, f.pos) = g.state
  BY <1>1, <1>2 DEF Picking, Prng
<1>4. RunNow(R, f.pos, g.state) = {} /\ RunNow(R, f.pos + 1, g.state) = {f.pos}
  <2>1. \A i \in R : Place(R, i) = g.state
                     => RunNow(R, i, g.state) = {} /\ RunNow(R, i + 1, g.state) = {i}
    BY <1>1, <1>3, PassRuns
  <2> QED  BY <1>3, <2>1
<1>5. Len(f.ran) < g.count_ceil
  BY <1>1, <1>2, <1>4 DEF Picking
<1>6. ASSUME f.pos \in run PROVE FALSE
  <2>1. PICK x \in [Nat -> Nat], k \in Nat :
             /\ Orbit(g.a, g.m, x) /\ x[k] = g.state
             /\ run = Visited(R, x, k) \union RunNow(R, f.pos, g.state)
    BY <1>2 DEF Picking, RanBy
  <2>2. \E i \in 0 .. k - 1 : x[i] = Place(R, f.pos)
    BY <1>4, <1>6, <2>1 DEF Visited
  <2>3. g.m \in PowersOfTwo /\ g.m >= Cardinality(R) /\ g.count_ceil = Cardinality(R)
        /\ \A q, r \in DOMAIN f.ran : f.ran[q] = f.ran[r] => q = r
    BY <1>2 DEF Picking
  <2>4. x[k] = Place(R, f.pos)
    BY <1>3, <2>1
  <2>5. DrawnAgain(R, g.a, g.m, x, k)
    BY <1>1, <2>1, <2>2, <2>3, <2>4 DEF DrawnAgain, LoopOK
  <2>6. Visited(R, x, k) = R
    BY <2>5, AllDrawn
  <2>7. run = R
    BY <1>4, <2>1, <2>6
  <2>8. Len(f.ran) = Cardinality(R)
    BY <1>1, <2>3, <2>7, RanCounts DEF Ran
  <2> QED  BY <1>3, <1>5, <2>3, <2>8
<1>7. Place(R, f.pos + 1) = Place(R, f.pos) + 1
  <2>1. \A i \in R : Place(R, i + 1) = Place(R, i) + 1
    BY <1>1, Places
  <2> QED  BY <2>1
<1> QED  BY <1>2, <1>3, <1>4, <1>5, <1>6, <1>7

(* It runs: the loop goes on to its next call, and its test or suite, or   *)
(* the test's setup hook, is above it.                                     *)
LEMMA CallRuns ==
    ASSUME NEW f \in Frames, NEW g \in Prng, NEW R \in SUBSET (DOMAIN f.body),
           LoopOK(f, g, R, "top", 0), g.initialized, f.pos \in R,
           g.count = g.state,
           NEW h \in Frames, h.body = f.body, h.pos = f.pos + 1, h.ran = Append(f.ran, f.pos),
           NEW p \in Prng, p.random_order = g.random_order, p.initialized = g.initialized,
           p.state = g.state, p.a = g.a, p.m = g.m, p.count_ceil = g.count_ceil,
           p.count = g.count + 1, NEW at \in {"setup", "call"},
           p.count_run = IF at = "setup" THEN g.count_run ELSE g.count_run + 1
    PROVE  LoopOK(h, p, R, at, 0)
<1> DEFINE n == Len(f.body)
           run == Ran(f)
<1>1. /\ Picking(f, g, R, "top", 0)
      /\ Place(R, f.pos) = g.state
      /\ RunNow(R, f.pos, g.state) = {} /\ RunNow(R, f.pos + 1, g.state) = {f.pos}
      /\ f.pos \notin run /\ Place(R, f.pos + 1) = Place(R, f.pos) + 1
  <2>1. /\ Picking(f, g, R, "top", 0)
        /\ Place(R, f.pos) = g.state /\ Len(f.ran) < g.count_ceil
        /\ RunNow(R, f.pos, g.state) = {} /\ RunNow(R, f.pos + 1, g.state) = {f.pos}
        /\ f.pos \notin Ran(f) /\ Place(R, f.pos + 1) = Place(R, f.pos) + 1
    BY FreshCall
  <2> QED  BY <2>1
<1>2. /\ n \in Nat /\ DOMAIN f.body = 1 .. n /\ f.pos \in 1 .. n
      /\ f.ran \in Seq(Nat) /\ f.pos \in Nat
  BY BodyFacts
<1>3. /\ Len(h.ran) = Len(f.ran) + 1 /\ DOMAIN h.ran = 1 .. Len(f.ran) + 1
      /\ Len(f.ran) \in Nat /\ DOMAIN f.ran = 1 .. Len(f.ran)
      /\ h.ran[Len(f.ran) + 1] = f.pos /\ \A i \in 1 .. Len(f.ran) : h.ran[i] = f.ran[i]
  BY <1>2
<1>4. Ran(h) = run \union {f.pos}
  <2>1. \A i : i \in DOMAIN h.ran <=> i \in DOMAIN f.ran \/ i = Len(f.ran) + 1
    BY <1>3
  <2> QED  BY <1>3, <2>1 DEF Ran
<1>5. \A i, j \in DOMAIN h.ran : h.ran[i] = h.ran[j] => i = j
  <2>1. \A i \in DOMAIN h.ran : i \in DOMAIN f.ran \/ i = Len(f.ran) + 1
    BY <1>3
  <2>2. \A i \in DOMAIN f.ran : f.ran[i] \in run
    BY DEF Ran
  <2> HIDE DEF run
  <2> QED  BY <1>1, <1>3, <2>1, <2>2 DEF Picking
<1>6. RanBy(h, p, R)
  <2>1. PICK x \in [Nat -> Nat], k \in Nat :
             /\ Orbit(g.a, g.m, x) /\ x[k] = g.state
             /\ run = Visited(R, x, k) \union RunNow(R, f.pos, g.state)
    BY <1>1 DEF Picking, RanBy
  <2>2. run \union {f.pos} = Visited(R, x, k) \union RunNow(R, h.pos, p.state)
    BY <1>1, <2>1
  <2> QED  BY <1>4, <2>1, <2>2 DEF RanBy
<1>7. p.count = Place(R, h.pos)
  <2>1. g.count = Place(R, f.pos)
    BY <1>1
  <2> QED  BY <1>1, <2>1
<1>8. g.count_run \in Nat /\ p.count_run \in Nat /\ g.count_run = Len(f.ran)
  BY <1>1 DEF Picking, Prng
<1>9. /\ h.pos # 0 /\ h.pos <= Len(h.body) + 1 /\ RunNow(R, h.pos, p.state) # {}
      /\ Len(h.ran) = IF at = "setup" THEN p.count_run + 1 ELSE p.count_run
  <2>1. h.pos # 0 /\ h.pos <= Len(h.body) + 1
    BY <1>2
  <2>2. RunNow(R, h.pos, p.state) # {}
    BY <1>1
  <2>3. Len(h.ran) = IF at = "setup" THEN p.count_run + 1 ELSE p.count_run
    BY <1>3, <1>8
  <2> QED  BY <2>1, <2>2, <2>3
<1>10. Picking(h, p, R, at, 0)
  BY <1>1, <1>5, <1>6, <1>7, <1>9 DEF Picking
<1> QED  BY <1>10 DEF LoopOK

(* A call that is passed by: it is not selected, or no longer in           *)
(* first-fail mode, or it is counted and not the one drawn.                *)
LEMMA CallPasses ==
    ASSUME NEW f \in Frames, NEW g \in Prng, NEW R \in SUBSET (DOMAIN f.body), NEW failures,
           LoopOK(f, g, R, "top", failures), f.pos \in DOMAIN f.body,
           NEW h \in Frames, h.body = f.body, h.pos = f.pos + 1, h.ran = f.ran,
           NEW p \in Prng, p.random_order = g.random_order, p.initialized = g.initialized,
           p.state = g.state, p.a = g.a, p.m = g.m, p.count_ceil = g.count_ceil,
           p.count_run = g.count_run,
           \/ f.pos \notin R /\ p.count = g.count
           \/ f.pos \in R /\ failures # 0 /\ p.count = g.count
           \/ /\ f.pos \in R /\ failures = 0 /\ ~(g.initialized /\ g.count = g.state)
              /\ p.count = g.count + 1
    PROVE  LoopOK(h, p, R, "top", failures)
<1>1. /\ f.pos \in Nat /\ f.pos # 0 /\ f.pos <= Len(f.body) /\ Len(f.body) \in Nat
      /\ h.pos # 0 /\ h.pos <= Len(h.body) + 1 /\ f.pos # Len(f.body) + 2
      /\ Positions(R, Len(f.body)) /\ Ran(h) = Ran(f)
  <2>1. Positions(R, Len(f.body)) /\ Ran(h) = Ran(f)
    BY BlockPositions DEF Ran
  <2> QED  BY <2>1, BodyFacts
<1>2. g.count \in Nat /\ g.state \in Nat
  BY DEF Prng
<1>3. /\ f.pos \in R => Place(R, h.pos) = Place(R, f.pos) + 1
      /\ f.pos \notin R => Place(R, h.pos) = Place(R, f.pos)
  <2>1. \A i \in R : Place(R, i + 1) = Place(R, i) + 1
    BY <1>1, Places
  <2>2. \A i \in Nat : i \notin R => Place(R, i + 1) = Place(R, i)
    BY <1>1, Places
  <2> QED  BY <1>1, <2>1, <2>2
<1>4. CASE ~g.initialized
  <2>1. Counting(f, g, R, "top", failures)
    BY <1>4, Phase
  <2>2. p.count = Place(R, h.pos)
    BY <1>1, <1>2, <1>3, <2>1 DEF Counting
  <2>3. Counting(h, p, R, "top", failures)
    BY <1>1, <1>2, <2>1, <2>2 DEF Counting
  <2> QED  BY <1>2, <2>3 DEF LoopOK
<1>5. CASE g.initialized
  <2>1. Picking(f, g, R, "top", failures)
    BY <1>1, <1>5, Phase
  <2>2. failures # 0 \/ p.count = Place(R, h.pos)
    BY <1>1, <1>2, <1>3, <2>1 DEF Picking
  <2>3. RunNow(R, h.pos, g.state) = RunNow(R, f.pos, g.state)
    <3>1. f.pos \notin R \/ Place(R, f.pos) # g.state
      <4>1. CASE f.pos \in R /\ failures # 0
        <5>1. RunNow(R, f.pos, g.state) # {}
          BY <2>1, <4>1 DEF Picking
        <5>2. \A i \in R : RunNow(R, i, g.state) # {} => Place(R, i) # g.state
          BY <1>1, <1>2, PassRuns
        <5> QED  BY <4>1, <5>1, <5>2
      <4>2. CASE f.pos \in R /\ failures = 0
        BY <1>1, <1>2, <1>5, <2>1, <4>2 DEF Picking
      <4> QED  BY <4>1, <4>2
    <3>2. \A i \in Nat : i \notin R \/ Place(R, i) # g.state
                            => RunNow(R, i + 1, g.state) = RunNow(R, i, g.state)
      BY <1>1, <1>2, PassRuns
    <3> QED  BY <1>1, <3>1, <3>2
  <2>4. RanBy(h, p, R)
    BY <1>1, <1>2, <2>1, <2>3 DEF Picking, RanBy
  <2>5. h.pos \in DOMAIN h.body => f.pos \in DOMAIN f.body
    OBVIOUS
  <2>6. Picking(h, p, R, "top", failures)
    BY <1>1, <1>2, <2>1, <2>2, <2>3, <2>4 DEF Picking
  <2> QED  BY <1>2, <2>6 DEF LoopOK
<1> QED  BY <1>4, <1>5

(* A round of the loop begins. *)
LEMMA RoundBegins ==
    ASSUME NEW f \in Frames, NEW g \in Prng, NEW R \in SUBSET (DOMAIN f.body),
           NEW failures, LoopOK(f, g, R, "top", failures), f.pos = 0,
           ~g.initialized \/ g.count_run < g.count_ceil,
           NEW h \in Frames, h.body = f.body, h.pos = 1, h.ran = f.ran
    PROVE  LoopOK(h, g, R, "top", 0)
<1>2. /\ Len(f.body) \in Nat /\ h.pos <= Len(h.body) + 1 /\ Positions(R, Len(f.body))
      /\ Ran(h) = Ran(f) /\ h.pos # 0 /\ g.state \in Nat /\ g.count_run \in Nat
      /\ g.count_ceil \in Nat
  <2>1. Positions(R, Len(f.body)) /\ Ran(h) = Ran(f)
    BY BlockPositions DEF Ran
  <2> QED  BY <2>1, BodyFacts DEF Prng
<1>3. Place(R, h.pos) = 0 /\ RunNow(R, 0, g.state) = {} /\ RunNow(R, h.pos, g.state) = {}
  <2>1. Place(R, 1) = 0
    BY <1>2, Places
  <2>2. RunNow(R, 0, g.state) = {} /\ RunNow(R, 1, g.state) = {}
    BY <1>2, PassRuns
  <2> QED  BY <2>1, <2>2
<1>4. CASE ~g.initialized
  <2>1. Counting(f, g, R, "top", failures)
    BY <1>4, Phase
  <2>2. Counting(h, g, R, "top", 0)
    BY <1>2, <1>3, <2>1 DEF Counting
  <2> QED  BY <2>2 DEF LoopOK
<1>5. CASE g.initialized
  <2>1. Picking(f, g, R, "top", failures)
    BY <1>2, <1>5, Phase DEF Idle
  <2>2. RanBy(h, g, R)
    BY <1>2, <1>3, <2>1 DEF Picking, RanBy
  <2>3. Picking(h, g, R, "top", 0)
    BY <1>2, <1>3, <1>5, <2>1, <2>2 DEF Picking
  <2> QED  BY <2>3 DEF LoopOK
<1> QED  BY <1>4, <1>5

(* The generator's next value: it is drawn again, or a new pass begins.    *)
LEMMA NextDraw ==
    ASSUME NEW f \in Frames, NEW g \in Prng, NEW R \in SUBSET (DOMAIN f.body), NEW failures,
           LoopOK(f, g, R, "top", failures), g.initialized, f.pos = Len(f.body) + 1,
           NEW h \in Frames, h.body = f.body, h.ran = f.ran,
           NEW p \in Prng, p.random_order = g.random_order, p.initialized = g.initialized,
           p.state = Round(g.a, g.m, g.state), p.a = g.a, p.m = g.m,
           p.count_ceil = g.count_ceil, p.count_run = g.count_run,
           IF p.state >= g.count_ceil THEN h.pos = f.pos /\ p.count = g.count
                                      ELSE h.pos = 0 /\ p.count = 0
    PROVE  LoopOK(h, p, R, "top", failures)
<1>1. /\ Len(f.body) \in Nat /\ Positions(R, Len(f.body)) /\ Ran(h) = Ran(f)
      /\ f.pos # 0 /\ f.pos # Len(f.body) + 2 /\ f.pos \in Nat /\ h.pos \notin DOMAIN h.body
      /\ h.pos <= Len(h.body) + 1 /\ p.state \in Nat /\ g.count_ceil \in Nat
  <2>1. Positions(R, Len(f.body)) /\ Ran(h) = Ran(f)
    BY BlockPositions DEF Ran
  <2>2. p.state \in Nat /\ g.count_ceil \in Nat
    BY DEF Prng
  <2> QED  BY <2>1, <2>2, BodyFacts
<1>2. Picking(f, g, R, "top", failures)
  BY <1>1, Phase
<1>3. RunNow(R, h.pos, p.state) = {}
  <2>1. CASE h.pos = 0
    BY <1>1, <2>1, PassRuns
  <2>2. CASE p.state >= g.count_ceil
    <3>1. p.state >= Cardinality(R) => \A i \in Nat : RunNow(R, i, p.state) = {}
      BY <1>1, PassRuns
    <3>2. h.pos = f.pos /\ p.state >= Cardinality(R)
      BY <1>2, <2>2 DEF Picking
    <3> QED  BY <1>1, <3>1, <3>2
  <2> QED  BY <2>1, <2>2
<1>4. RanBy(h, p, R)
  <2>1. PICK x \in [Nat -> Nat], k \in Nat :
             /\ Orbit(g.a, g.m, x) /\ x[k] = g.state
             /\ Ran(f) = Visited(R, x, k) \union RunNow(R, f.pos, g.state)
    BY <1>2 DEF Picking, RanBy
  <2>2. x[k + 1] = p.state /\ k + 1 \in Nat
    <3>1. \A i \in Nat : x[i + 1] = Round(g.a, g.m, x[i])
      BY <2>1 DEF Orbit
    <3>2. x[k + 1] = Round(g.a, g.m, x[k])
      BY <3>1
    <3> QED  BY <2>1, <3>2
  <2>3. Visited(R, x, k + 1) = Visited(R, x, k) \union RunNow(R, f.pos, g.state)
    <3> DEFINE n == Len(f.body)
    <3>1. n \in Nat /\ Positions(R, n) /\ f.pos = n + 1 /\ x[k] = g.state
      BY <1>1, <2>1
    <3> HIDE DEF n
    <3>2. Visited(R, x, k + 1) = Visited(R, x, k) \union RunNow(R, n + 1, x[k])
      BY ONLY <2>1, <3>1, NextVisited
    <3> QED  BY <3>1, <3>2
  <2>4. Ran(h) = Visited(R, x, k + 1) \union RunNow(R, h.pos, p.state)
    BY <1>1, <1>3, <2>1, <2>3
  <2> QED  BY <2>1, <2>2, <2>4 DEF RanBy
<1>5. Picking(h, p, R, "top", failures)
  BY <1>1, <1>2, <1>4 DEF Picking
<1> QED  BY <1>5 DEF LoopOK

(* The first pass ends, which counted the calls.                           *)
LEMMA CountEnds ==
    ASSUME NEW f \in Frames, NEW g \in Prng, NEW R \in SUBSET (DOMAIN f.body), NEW failures,
           LoopOK(f, g, R, "top", failures), ~g.initialized, f.pos = Len(f.body) + 1,
           NEW h \in Frames, h.body = f.body, h.ran = f.ran,
           NEW p \in Prng, p.random_order = g.random_order, p.initialized,
           p.a = g.a, p.count = g.count, p.count_ceil = g.count, p.count_run = g.count_run,
           IF g.count = 0 THEN h.pos = 0 ELSE h.pos = Len(h.body) + 2 /\ p.m = 1
    PROVE  LoopOK(h, p, R, "top", failures)
<1>1. /\ Len(f.body) \in Nat /\ Positions(R, Len(f.body)) /\ f.pos # 0
  <2>1. Positions(R, Len(f.body))
    BY BlockPositions
  <2> QED  BY <2>1, BodyFacts
<1>2. Counting(f, g, R, "top", failures)
  BY Phase
<1>3. g.count = Cardinality(R) /\ (Cardinality(R) = 0 => R = {})
  <2>1. Place(R, Len(f.body) + 1) = Cardinality(R) /\ (Cardinality(R) = 0 => R = {})
    BY <1>1, Places
  <2> QED  BY <1>1, <1>2, <2>1 DEF Counting
<1>4. CASE g.count = 0
  <2>1. Idle(h, p, R, "top")
    BY <1>2, <1>3, <1>4 DEF Counting, Idle
  <2> QED  BY <2>1 DEF LoopOK
<1>5. CASE g.count # 0
  <2>1. 1 \in PowersOfTwo
    BY DEF PowersOfTwo
  <2>2. Doubling(h, p, R, "top")
    BY <1>2, <1>3, <1>5, <2>1 DEF Counting, Doubling
  <2> QED  BY <2>2 DEF LoopOK
<1> QED  BY <1>4, <1>5

(* The modulus doubles up to the count; then the passes that run begin,    *)
(* with the seed as the first value.                                       *)
LEMMA ModulusDoubles ==
    ASSUME NEW f \in Frames, NEW g \in Prng, NEW R \in SUBSET (DOMAIN f.body), NEW failures,
           LoopOK(f, g, R, "top", failures), f.pos = Len(f.body) + 2,
           NEW h \in Frames, h.body = f.body, h.ran = f.ran,
           NEW p \in Prng, p.random_order = g.random_order, p.initialized = g.initialized,
           p.a = g.a, p.state = g.state, p.count_ceil = g.count_ceil, p.count_run = g.count_run,
           IF g.m < g.count THEN p.m = 2 * g.m /\ p.count = g.count /\ h.pos = f.pos
                            ELSE p.m = g.m /\ p.count = 0 /\ h.pos = 0
    PROVE  LoopOK(h, p, R, "top", failures)
<1>1. Doubling(f, g, R, "top")
  BY Phase
<1>2. CASE g.m < g.count
  <2>1. p.m \in PowersOfTwo
    BY <1>1, <1>2, PowerPositive DEF Doubling
  <2>2. Doubling(h, p, R, "top")
    BY <1>1, <1>2, <2>1 DEF Doubling
  <2> QED  BY <2>2 DEF LoopOK
<1>3. CASE ~(g.m < g.count)
  <2>1. /\ Len(f.body) \in Nat /\ Positions(R, Len(f.body)) /\ h.ran = <<>>
        /\ h.pos = 0 /\ h.pos \notin DOMAIN h.body /\ h.pos <= Len(h.body) + 1
        /\ p.m \in Nat \ {0} /\ p.a \in Nat /\ p.state \in Nat /\ p.m >= p.count_ceil
    <3>1. Len(f.body) \in Nat /\ Positions(R, Len(f.body))
      BY BodyFacts, BlockPositions
    <3>2. h.ran = <<>> /\ h.pos = 0 /\ h.pos \notin DOMAIN h.body /\ h.pos <= Len(h.body) + 1
      BY <1>1, <1>3, <3>1, BodyFacts DEF Doubling
    <3>3. p.m \in Nat \ {0}
      BY <1>1, <1>3, PowerPositive DEF Doubling
    <3>4. p.a \in Nat /\ p.state \in Nat /\ g.count \in Nat /\ g.m \in Nat
      BY DEF Prng
    <3>5. p.m >= p.count_ceil
      BY <1>1, <1>3, <3>4 DEF Doubling
    <3> QED  BY <3>1, <3>2, <3>3, <3>4, <3>5
  <2>2. RanBy(h, p, R)
    <3> DEFINE F == [v \in Nat |-> Round(p.a, p.m, v)]
    <3>1. F \in [Nat -> Nat]
      <4>1. \A v \in Nat : Round(p.a, p.m, v) \in 0 .. p.m - 1
        BY <2>1, RoundFacts
      <4>2. ASSUME NEW v \in Nat PROVE Round(p.a, p.m, v) \in Nat
        <5>1. Round(p.a, p.m, v) \in 0 .. p.m - 1
          BY <4>1
        <5> QED  BY <2>1, <5>1
      <4> QED  BY <4>2
    <3>2. PICK x \in [Nat -> Nat] : x[0] = p.state /\ \A i \in Nat : x[i + 1] = F[x[i]]
      <4>1. Maps(Nat, F, p.state)
        BY <2>1, <3>1 DEF Maps
      <4> HIDE DEF F
      <4>2. PICK x : Iterates(Nat, F, p.state, x)
        BY <4>1, Iteration
      <4> QED  BY <4>2 DEF Iterates
    <3>3. Orbit(p.a, p.m, x)
      BY <3>2 DEF Orbit
    <3>4. Ran(h) = {}
      BY <2>1 DEF Ran
    <3>5. RunNow(R, h.pos, p.state) = {}
      BY <2>1, PassRuns
    <3>6. Visited(R, x, 0) = {}
      BY DEF Visited
    <3>7. Ran(h) = Visited(R, x, 0) \union RunNow(R, h.pos, p.state)
      BY <3>4, <3>5, <3>6
    <3> QED  BY <3>2, <3>3, <3>7 DEF RanBy
  <2>3. /\ \A i, j \in DOMAIN h.ran : h.ran[i] = h.ran[j] => i = j
        /\ Len(h.ran) = 0
    BY <2>1
  <2>4. Picking(h, p, R, "top", failures)
    BY <1>1, <1>3, <2>1, <2>2, <2>3 DEF Doubling, Picking
  <2> QED  BY <2>4 DEF LoopOK
<1> QED  BY <1>2, <1>3

(* Under a running call nothing changes for its loop, whatever fails.      *)
LEMMA CallReturns ==
    ASSUME NEW f \in Frames, NEW g \in Prng, NEW R \in SUBSET (DOMAIN f.body), NEW at, NEW failures,
           LoopOK(f, g, R, at, failures), at # "top", failures = 0,
           NEW to \in {"top", "call"}, NEW more,
           NEW p \in Prng, p.random_order = g.random_order, p.initialized = g.initialized,
           p.state = g.state, p.a = g.a, p.m = g.m, p.count_ceil = g.count_ceil,
           p.count = g.count, p.count_run = IF at = "setup" THEN g.count_run + 1 ELSE g.count_run
    PROVE  LoopOK(f, p, R, to, more)
<1>1. Picking(f, g, R, at, failures)
  BY DEF LoopOK, Counting, Doubling, Idle
<1>3. RanBy(f, p, R)
  BY <1>1 DEF Picking, RanBy
<1>4. RunNow(R, f.pos, g.state) # {} /\ g.count_run \in Nat
  BY <1>1 DEF Picking, Prng
<1>5. g.state \in Nat /\ Positions(R, Len(f.body))
  BY BlockPositions DEF Prng
<1>6. RunNow(R, 0, g.state) = {}
  BY <1>5, PassRuns
<1>7. f.pos # 0
  BY <1>4, <1>6
<1>8. Len(f.ran) = IF to = "setup" THEN p.count_run + 1 ELSE p.count_run
  BY <1>1, <1>4 DEF Picking
<1>9. Picking(f, p, R, to, more)
  <2>1. /\ p.initialized /\ f.pos <= Len(f.body) + 1
        /\ p.count_ceil = Cardinality(R) /\ p.count_ceil # 0
        /\ p.m \in PowersOfTwo /\ p.m >= p.count_ceil
        /\ \A i, j \in DOMAIN f.ran : f.ran[i] = f.ran[j] => i = j
    BY <1>1 DEF Picking
  <2>2. f.pos # 0 => more # 0 \/ p.count = Place(R, f.pos)
    BY <1>1 DEF Picking
  <2> QED  BY <1>3, <1>4, <1>7, <1>8, <2>1, <2>2 DEF Picking
<1> QED  BY <1>9 DEF LoopOK

(***************************************************************************)
(* The invariant of the stack.                                             *)
(***************************************************************************)

(* What passes the filters in a block, and the failures that end it.       *)
Selects(body, fl) ==
    {i \in DOMAIN body :
        \/ body[i][1] = "RUN_TEST" /\ <<body[i][2], NULL>> \in Matching /\ "LIST_ONLY" \notin fl
        \/ body[i][1] = "RUN_SUITE" /\ body[i][2] \in MatchingSuites /\ "ABORT_ON_FAIL" \notin fl}
Failures(kind, fl, failed) ==
    IF kind = "SHUFFLE_TESTS" /\ "FIRST_FAIL" \in fl THEN failed ELSE 0

(* A frame f with the generators g: a loop as above, and nothing else      *)
(* keeps a list of what ran.                                               *)
InOrder(f, g, fl, at, failed) ==
    IF f.kind \in LoopKinds
    THEN /\ f.body \in Blocks[f.kind]
         /\ LoopOK(f, g[f.kind], Selects(f.body, fl), at, Failures(f.kind, fl, failed))
    ELSE f.ran = <<>>

(* Suites are run by main and its blocks, tests by these, suites and their *)
(* blocks: kinds rise from the bottom of the stack to its top.             *)
Rank(kind) == IF kind = "main" THEN 0 ELSE
              IF kind = "SHUFFLE_SUITES" THEN 1 ELSE
              IF kind = "suite" THEN 2 ELSE
              IF kind = "SHUFFLE_TESTS" THEN 3 ELSE 4
Ranked(s) == \A d, e \in DOMAIN s : d < e => Rank(s[d].kind) < Rank(s[e].kind)

At(s, d) == IF d = Len(s) THEN "top" ELSE
            IF s[d].kind = "SHUFFLE_TESTS" /\ s[Len(s)].kind = "setup" THEN "setup" ELSE "call"
SInv ==
    /\ ShuffledUse /\ Ranked(stack)
    /\ \A d \in DOMAIN stack : InOrder(stack[d], prng, flags, At(stack, d), suite.failed)

(* What a block selects is in it. *)
LEMMA SelectsBlock == ASSUME NEW body, NEW fl PROVE Selects(body, fl) \in SUBSET (DOMAIN body)
  BY DEF Selects
(* Selects names what ShuffleComplete is about. *)
LEMMA SelectsToRun == ASSUME NEW f PROVE ToRun(f) = Selects(f.body, flags)
  BY DEF ToRun, Runs, SuiteSelected, Selects

(* The ranks. *)
LEMMA RankValues == \A k : Rank(k) \in 0 .. 4 /\ (k \in Leaves => Rank(k) = 4)
  BY DEF Rank, Leaves

(* What can be above what. *)
LEMMA Above ==
    ASSUME TypeOK, Ranked(stack), NEW d \in DOMAIN stack, d # Len(stack)
    PROVE  /\ Rank(stack[d].kind) < Rank(Top.kind)
           /\ stack[d].kind = "SHUFFLE_TESTS" => Top.kind \in Leaves
           /\ stack[d].kind = "SHUFFLE_SUITES" => Top.kind \notin {"main", "SHUFFLE_SUITES"}
<1>1. d < Len(stack) /\ Len(stack) \in DOMAIN stack
  BY TopFrame
<1>2. Rank(stack[d].kind) < Rank(Top.kind)
  BY <1>1 DEF Ranked, Top
<1>3. Top.kind \in Kinds
  BY TopFrame DEF Frames
<1> QED  BY <1>2, <1>3 DEF Rank, Kinds, Callbacks, LoopKinds, Leaves

(* A loop under a call that goes on or returns. *)
Resumed(p, q, at) ==
    q = IF at = "setup" THEN [p EXCEPT !.count_run = @ + 1] ELSE p
(* The fields of its generator. *)
LEMMA ResumedFields ==
    ASSUME NEW p \in Prng, NEW q, NEW at, Resumed(p, q, at)
    PROVE  /\ q \in Prng
           /\ q.random_order = p.random_order /\ q.initialized = p.initialized
           /\ q.state = p.state /\ q.a = p.a /\ q.m = p.m /\ q.count_ceil = p.count_ceil
           /\ q.count = p.count
           /\ q.count_run = IF at = "setup" THEN p.count_run + 1 ELSE p.count_run
  BY DEF Resumed, Prng
(* Such a loop stays in order. *)
LEMMA Beneath ==
    ASSUME NEW f \in Frames, NEW g \in [LoopKinds -> Prng], NEW q \in [LoopKinds -> Prng],
           NEW fl, NEW at \in {"setup", "call"}, NEW to \in {"top", "call"}, NEW failed, NEW more,
           InOrder(f, g, fl, at, failed),
           f.kind \in LoopKinds => /\ Failures(f.kind, fl, failed) = 0
                                   /\ Resumed(g[f.kind], q[f.kind], at)
    PROVE  InOrder(f, q, fl, to, more)
<1>1. CASE f.kind \notin LoopKinds
  BY <1>1 DEF InOrder
<1>2. CASE f.kind \in LoopKinds
  <2> DEFINE p == g[f.kind]
             r == q[f.kind]
             R == Selects(f.body, fl)
             a == Failures(f.kind, fl, failed)
             b == Failures(f.kind, fl, more)
  <2>1. p \in Prng /\ r \in Prng /\ R \in SUBSET (DOMAIN f.body) /\ a = 0
        /\ LoopOK(f, p, R, at, a) /\ Resumed(p, r, at) /\ at # "top"
    BY <1>2, SelectsBlock DEF InOrder
  <2>2. LoopOK(f, r, R, to, b)
    <3> HIDE DEF p, r, R, a, b
    <3>1. /\ r.random_order = p.random_order /\ r.initialized = p.initialized
          /\ r.state = p.state /\ r.a = p.a /\ r.m = p.m /\ r.count_ceil = p.count_ceil
          /\ r.count = p.count
          /\ r.count_run = IF at = "setup" THEN p.count_run + 1 ELSE p.count_run
      BY <2>1, ResumedFields
    <3> QED  BY <2>1, <3>1, CallReturns
  <2> QED  BY <1>2, <2>2 DEF InOrder
<1> QED  BY <1>1, <1>2

(***************************************************************************)
(* Steps of the stack.                                                     *)
(***************************************************************************)

(* The constants do not change. *)
LEMMA UseStays == ShuffledUse => ShuffledUse'
  BY DEF ShuffledUse, DocumentedUse, DocumentedCalls

(* A frame under the top one, as its call goes on or returns. *)
LEMMA UnderTop ==
    ASSUME TypeOK, TypeOK', DInv, SInv, UNCHANGED flags,
           NEW d \in DOMAIN stack, d # Len(stack), d \in DOMAIN stack', stack'[d] = stack[d],
           stack[d].kind = "SHUFFLE_TESTS" => stack'[Len(stack')].kind # "setup",
           \A k \in LoopKinds : k = stack[d].kind => Resumed(prng[k], prng'[k], At(stack, d))
    PROVE  InOrder(stack'[d], prng', flags', At(stack', d), suite'.failed)
<1> DEFINE f == stack[d]
           at == At(stack, d)
           to == At(stack', d)
           failed == suite.failed
           more == suite'.failed
           g == prng
           q == prng'
           fl == flags
<1>1. at \in {"setup", "call"} /\ to \in {"top", "call"}
  BY DEF At
<1>2. /\ f \in Frames /\ g \in [LoopKinds -> Prng] /\ q \in [LoopKinds -> Prng]
      /\ InOrder(f, g, fl, at, failed)
  BY TopFrame DEF TypeOK, SInv
<1>3. f.kind \in LoopKinds => Failures(f.kind, fl, failed) = 0
  <2>1. f.kind = "SHUFFLE_TESTS" => Top.kind \in Leaves
    BY Above DEF SInv
  <2>2. FrameOK(Top)
    BY TopFrame DEF DInv, Top
  <2> QED  BY <2>1, <2>2 DEF Failures, FrameOK, FailFrameOK, LoopKinds
<1>4. f.kind \in LoopKinds => Resumed(g[f.kind], q[f.kind], at)
  OBVIOUS
<1> HIDE DEF f, at, to, failed, more, g, q, fl
<1>5. InOrder(f, q, fl, to, more)
  BY ONLY <1>1, <1>2, <1>3, <1>4, Beneath
<1> QED  BY <1>5 DEF f, to, more, q, fl

(* A call or a block that returns. *)
LEMMA PopShuffled ==
    ASSUME TypeOK, TypeOK', DInv, SInv, UNCHANGED flags, Len(stack) - 1 \in 1 .. Len(stack),
           Len(stack') = Len(stack) - 1, \A d \in 1 .. Len(stack) - 1 : stack'[d] = stack[d],
           Top.kind # "setup",
           \A k \in LoopKinds : k = Top.kind \/ prng'[k] = prng[k]
    PROVE  SInv'
<1>1. /\ DOMAIN stack' = 1 .. Len(stack) - 1 /\ DOMAIN stack = 1 .. Len(stack)
      /\ \A d \in DOMAIN stack' : d \in DOMAIN stack /\ d # Len(stack) /\ stack'[d] = stack[d]
      /\ Len(stack') \in DOMAIN stack'
  <2>1. DOMAIN stack = 1 .. Len(stack) /\ Len(stack) \in Nat
    BY TopFrame
  <2>2. DOMAIN stack' = 1 .. Len(stack')
    BY DEF TypeOK
  <2> QED  BY <2>1, <2>2
<1>2. Ranked(stack)'
  BY <1>1 DEF SInv, Ranked
<1>3. ASSUME NEW d \in DOMAIN stack'
      PROVE  InOrder(stack'[d], prng', flags', At(stack', d), suite'.failed)
  <2>1. d \in DOMAIN stack /\ d # Len(stack) /\ stack'[d] = stack[d]
    BY <1>1
  <2>2. stack'[Len(stack')].kind # "setup"
    BY <1>1 DEF DInv, LeafOnTop, Leaves
  <2>3. At(stack, d) = "call"
    BY <2>1 DEF At, Top
  <2>4. stack[d].kind # Top.kind
    <3>1. Rank(stack[d].kind) < Rank(Top.kind)
      BY <2>1, Above DEF SInv
    <3> QED  BY <3>1, RankValues
  <2>5. \A k \in LoopKinds : k = stack[d].kind => Resumed(prng[k], prng'[k], At(stack, d))
    BY <2>3, <2>4 DEF Resumed
  <2> QED  BY <2>1, <2>2, <2>5, UnderTop
<1> QED  BY <1>2, <1>3, UseStays DEF SInv

(* A test that goes on to its next stage. *)
LEMMA StageShuffled ==
    ASSUME TypeOK, TypeOK', DInv, SInv, UNCHANGED flags, Len(stack') = Len(stack),
           \A d \in 1 .. Len(stack) - 1 : stack'[d] = stack[d],
           Top.kind \in Leaves, stack'[Len(stack)].kind \in {"test", "teardown"},
           stack'[Len(stack)].ran = <<>>,
           prng'["SHUFFLE_SUITES"] = prng["SHUFFLE_SUITES"],
           Resumed(prng["SHUFFLE_TESTS"], prng'["SHUFFLE_TESTS"], Top.kind)
    PROVE  SInv'
<1> DEFINE n == Len(stack)
<1>1. /\ DOMAIN stack' = 1 .. n /\ DOMAIN stack = 1 .. n /\ n \in Nat \ {0}
      /\ \A d \in DOMAIN stack : d # n => d \in 1 .. n - 1
  BY TopFrame DEF TypeOK
<1>2. Ranked(stack)'
  <2>1. \A d \in DOMAIN stack : Rank(stack'[d].kind) = Rank(stack[d].kind)
    <3>1. stack'[n].kind \in Leaves
      BY DEF Leaves
    <3> QED  BY <1>1, <3>1, RankValues DEF Top
  <2> QED  BY <1>1, <2>1 DEF SInv, Ranked
<1>3. ASSUME NEW d \in DOMAIN stack'
      PROVE  InOrder(stack'[d], prng', flags', At(stack', d), suite'.failed)
  <2>1. CASE d = n
    BY <2>1 DEF InOrder, LoopKinds
  <2>2. CASE d # n
    <3>1. d \in DOMAIN stack /\ stack'[d] = stack[d] /\ stack'[Len(stack')].kind # "setup"
      BY <1>1, <2>2
    <3>2. \A k \in LoopKinds : k = stack[d].kind => Resumed(prng[k], prng'[k], At(stack, d))
      BY <2>2 DEF Resumed, At, Top, LoopKinds
    <3> QED  BY <2>2, <3>1, <3>2, UnderTop
  <2> QED  BY <2>1, <2>2
<1> QED  BY <1>2, <1>3, UseStays DEF SInv

(* A step of the loop on top. *)
LEMMA LoopShuffled ==
    ASSUME TypeOK, TypeOK', DInv, SInv, UNCHANGED flags, Len(stack') = Len(stack),
           \A d \in 1 .. Len(stack) - 1 : stack'[d] = stack[d],
           InLoop, stack'[Len(stack)].kind = Top.kind,
           InOrder(stack'[Len(stack)], prng', flags, "top", suite'.failed),
           \A k \in LoopKinds : k = Top.kind \/ prng'[k] = prng[k]
    PROVE  SInv'
<1> DEFINE n == Len(stack)
<1>1. /\ DOMAIN stack' = 1 .. n /\ DOMAIN stack = 1 .. n /\ n \in Nat \ {0}
      /\ \A d \in DOMAIN stack : d # n => d \in 1 .. n - 1
  BY TopFrame DEF TypeOK
<1>2. Ranked(stack)'
  <2>1. \A d \in DOMAIN stack : stack'[d].kind = stack[d].kind
    BY <1>1 DEF Top
  <2> QED  BY <1>1, <2>1 DEF SInv, Ranked
<1>3. ASSUME NEW d \in DOMAIN stack'
      PROVE  InOrder(stack'[d], prng', flags', At(stack', d), suite'.failed)
  <2>1. CASE d = n
    BY <2>1 DEF At
  <2>2. CASE d # n
    <3>1. d \in DOMAIN stack /\ stack'[d] = stack[d] /\ stack'[Len(stack')].kind # "setup"
      BY <1>1, <2>2 DEF InLoop, LoopKinds
    <3>2. stack[d].kind # Top.kind /\ At(stack, d) = "call"
      <4>1. Rank(stack[d].kind) < Rank(Top.kind)
        BY <2>2, <3>1, Above DEF SInv
      <4> QED  BY <2>2, <4>1, RankValues DEF At, Top, InLoop, LoopKinds
    <3>3. \A k \in LoopKinds : k = stack[d].kind => Resumed(prng[k], prng'[k], At(stack, d))
      BY <3>2 DEF Resumed
    <3> QED  BY <2>2, <3>1, <3>3, UnderTop
  <2> QED  BY <2>1, <2>2
<1> QED  BY <1>2, <1>3, UseStays DEF SInv

(* A call that starts something, or a block. *)
LEMMA PushShuffled ==
    ASSUME TypeOK, TypeOK', DInv, SInv, UNCHANGED flags, Top.kind \notin Leaves,
           Len(stack') = Len(stack) + 1,
           \A d \in 1 .. Len(stack) - 1 : stack'[d] = stack[d],
           stack'[Len(stack)].kind = Top.kind,
           Rank(Top.kind) < Rank(stack'[Len(stack) + 1].kind),
           InOrder(stack'[Len(stack) + 1], prng', flags, "top", suite'.failed),
           InOrder(stack'[Len(stack)], prng', flags, At(stack', Len(stack)), suite'.failed),
           Top.kind \in {"main", "SHUFFLE_SUITES"}
             \/ prng'["SHUFFLE_SUITES"] = prng["SHUFFLE_SUITES"]
    PROVE  SInv'
<1> DEFINE n == Len(stack)
<1>1. /\ DOMAIN stack' = 1 .. n + 1 /\ DOMAIN stack = 1 .. n /\ n \in Nat \ {0}
      /\ \A d \in DOMAIN stack : d # n => d \in 1 .. n - 1
      /\ \A d \in DOMAIN stack' : d \in DOMAIN stack \/ d = n + 1
      /\ \A d \in DOMAIN stack : d <= n /\ d # n + 1
  BY TopFrame DEF TypeOK
<1>2. Ranked(stack)'
  <2>1. \A d \in DOMAIN stack : stack'[d].kind = stack[d].kind
    BY <1>1 DEF Top
  <2>2. SUFFICES ASSUME NEW d \in DOMAIN stack', NEW e \in DOMAIN stack', d < e
                 PROVE  Rank(stack'[d].kind) < Rank(stack'[e].kind)
    BY DEF Ranked
  <2>3. CASE e # n + 1
    <3>1. e \in DOMAIN stack /\ d \in DOMAIN stack
      BY <1>1, <2>2, <2>3
    <3> QED  BY <2>1, <2>2, <3>1 DEF SInv, Ranked
  <2>4. CASE e = n + 1
    <3>1. d \in DOMAIN stack
      BY <1>1, <2>2, <2>4
    <3>2. d = n \/ Rank(stack[d].kind) < Rank(Top.kind)
      BY <3>1, Above DEF SInv
    <3>3. Rank(stack'[d].kind) <= Rank(Top.kind)
      BY <2>1, <3>1, <3>2, RankValues DEF Top
    <3>4. /\ Rank(stack'[d].kind) \in 0 .. 4 /\ Rank(Top.kind) \in 0 .. 4
          /\ Rank(stack'[n + 1].kind) \in 0 .. 4
      BY RankValues
    <3> QED  BY <2>4, <3>3, <3>4
  <2> QED  BY <2>3, <2>4
<1>3. ASSUME NEW d \in DOMAIN stack'
      PROVE  InOrder(stack'[d], prng', flags', At(stack', d), suite'.failed)
  <2>1. CASE d = n + 1
    BY <2>1 DEF At
  <2>2. CASE d = n
    BY <2>2
  <2>3. CASE d \in DOMAIN stack /\ d # n
    <3>1. stack'[d] = stack[d]
      BY <1>1, <2>3
    <3>2. /\ stack[d].kind # "SHUFFLE_TESTS"
          /\ stack[d].kind = "SHUFFLE_SUITES" => Top.kind \notin {"main", "SHUFFLE_SUITES"}
      BY <2>3, Above DEF SInv
    <3>3. At(stack, d) = "call"
      BY <2>3, <3>2 DEF At
    <3>4. \A k \in LoopKinds : k = stack[d].kind => Resumed(prng[k], prng'[k], At(stack, d))
      BY <3>2, <3>3 DEF Resumed, LoopKinds
    <3> QED  BY <2>3, <3>1, <3>2, <3>4, UnderTop
  <2> QED  BY <1>1, <2>1, <2>2, <2>3
<1> QED  BY <1>2, <1>3, UseStays DEF SInv

(* A step that leaves all of it alone. *)
LEMMA SameShuffled ==
    ASSUME SInv, UNCHANGED <<flags, stack, prng, suite>> PROVE SInv'
  BY UseStays DEF SInv

(***************************************************************************)
(* The loop on top.                                                        *)
(***************************************************************************)

(* Only the top of the stack changes. *)
LEMMA TopReplaced ==
    ASSUME TypeOK, NEW f \in Frames, NEW s, s = ReplaceTop(f)
    PROVE  /\ s \in Seq(Frames) /\ Len(s) = Len(stack) /\ s[Len(stack)] = f
           /\ \A d \in 1 .. Len(stack) - 1 : s[d] = stack[d]
<1>1. stack \in Seq(Frames) /\ s = [stack EXCEPT ![Len(stack)] = f]
  BY DEF TypeOK, ReplaceTop
<1>2. /\ s \in Seq(Frames) /\ Len(s) = Len(stack)
      /\ \A d \in 1 .. Len(stack) : s[d] = IF d = Len(stack) THEN f ELSE stack[d]
  BY <1>1, TopFrame, ExceptSeq
<1> QED  BY <1>2, TopFrame

(* The loop on top at another position. *)
LEMMA TopMoved ==
    ASSUME TypeOK, NEW n \in Nat, NEW h, h = [Top EXCEPT !.pos = n]
    PROVE  /\ h \in Frames /\ h.kind = Top.kind /\ h.body = Top.body /\ h.ran = Top.ran
           /\ h.pos = n
  BY TopFrame DEF Frames

(* What a loop on top has to say. *)
LEMMA TopLoop ==
    ASSUME TypeOK, SInv, InLoop
    PROVE  /\ Top \in Frames /\ Top.kind \in LoopKinds /\ Top.body \in Blocks[Top.kind]
           /\ prng[Top.kind] \in Prng /\ Selects(Top.body, flags) \in SUBSET (DOMAIN Top.body)
           /\ LoopOK(Top, prng[Top.kind], Selects(Top.body, flags), "top",
                     Failures(Top.kind, flags, suite.failed))
<1>1. Top \in Frames /\ Top.kind \in LoopKinds /\ Len(stack) \in DOMAIN stack
  BY TopFrame DEF InLoop
<1>2. InOrder(Top, prng, flags, "top", suite.failed)
  <2>1. At(stack, Len(stack)) = "top"
    BY DEF At
  <2> QED  BY <1>1, <2>1 DEF SInv, Top
<1>3. prng[Top.kind] \in Prng
  BY <1>1 DEF TypeOK
<1> QED  BY <1>1, <1>2, <1>3, SelectsBlock DEF InOrder

(* It goes on, to be what h is with the generator p. *)
LEMMA LoopGoesOn ==
    ASSUME TypeOK, TypeOK', DInv, SInv, UNCHANGED flags, InLoop,
           NEW h \in Frames, stack' = ReplaceTop(h), h.kind = Top.kind, h.body = Top.body,
           NEW p \in Prng, prng' = [prng EXCEPT ![Top.kind] = p],
           LoopOK(h, p, Selects(Top.body, flags), "top",
                  Failures(Top.kind, flags, suite'.failed))
    PROVE  SInv'
<1>1. /\ Len(stack') = Len(stack) /\ stack'[Len(stack)] = h
      /\ \A d \in 1 .. Len(stack) - 1 : stack'[d] = stack[d]
  BY TopReplaced
<1>2. Top.kind \in LoopKinds /\ Top.body \in Blocks[Top.kind]
  BY TopLoop
<1>3. prng'[Top.kind] = p /\ \A k \in LoopKinds : k = Top.kind \/ prng'[k] = prng[k]
  BY <1>2 DEF TypeOK
<1>4. InOrder(h, prng', flags, "top", suite'.failed)
  BY <1>2, <1>3 DEF InOrder
<1> QED  BY <1>1, <1>3, <1>4, LoopShuffled

(* It passes by the call it is at. *)
LEMMA PassShuffled ==
    ASSUME TypeOK, TypeOK', DInv, SInv, UNCHANGED <<flags, suite>>, InLoop,
           Top.pos \in DOMAIN Top.body, stack' = Caller,
           NEW p \in Prng, prng' = [prng EXCEPT ![Top.kind] = p],
           \/ /\ Top.pos \notin Selects(Top.body, flags)
                   \/ Failures(Top.kind, flags, suite.failed) # 0
              /\ p = prng[Top.kind]
           \/ /\ Top.pos \in Selects(Top.body, flags)
              /\ Failures(Top.kind, flags, suite.failed) = 0
              /\ ~(prng[Top.kind].initialized /\ prng[Top.kind].count = prng[Top.kind].state)
              /\ p = [prng[Top.kind] EXCEPT !.count = @ + 1]
    PROVE  SInv'
<1> DEFINE f == Top
           g == prng[Top.kind]
           R == Selects(Top.body, flags)
           failures == Failures(Top.kind, flags, suite.failed)
           h == Advanced
<1>1. /\ f \in Frames /\ g \in Prng /\ R \in SUBSET (DOMAIN f.body)
      /\ LoopOK(f, g, R, "top", failures) /\ f.pos \in DOMAIN f.body /\ f.pos + 1 \in Nat
  BY TopLoop DEF Frames
<1>2. /\ h \in Frames /\ h.kind = f.kind /\ h.body = f.body /\ h.ran = f.ran
      /\ h.pos = f.pos + 1
  BY <1>1, TopMoved DEF Advanced
<1>3. stack' = ReplaceTop(h)
  BY DEF Caller
<1>4. LoopOK(h, p, R, "top", failures)
  <2>1. /\ p.random_order = g.random_order /\ p.initialized = g.initialized
        /\ p.state = g.state /\ p.a = g.a /\ p.m = g.m /\ p.count_ceil = g.count_ceil
        /\ p.count_run = g.count_run
    BY <1>1 DEF Prng
  <2>2. \/ f.pos \notin R /\ p.count = g.count
        \/ f.pos \in R /\ failures # 0 /\ p.count = g.count
        \/ /\ f.pos \in R /\ failures = 0 /\ ~(g.initialized /\ g.count = g.state)
           /\ p.count = g.count + 1
    BY <1>1 DEF Prng
  <2> HIDE DEF f, g, R, failures, h
  <2> QED  BY <1>1, <1>2, <2>1, <2>2, CallPasses
<1> HIDE DEF h, failures
<1> QED  BY <1>2, <1>3, <1>4, LoopGoesOn DEF failures

(***************************************************************************)
(* SInv is inductive: calls that run nothing.                              *)
(***************************************************************************)

(* Only a loop's caller advances. *)
LEMMA OutOfLoop == ASSUME ~InLoop PROVE Caller = stack /\ CallerRan = stack
  BY DEF Caller, CallerRan

(* A block holds calls of its kind. *)
LEMMA BlockCall ==
    ASSUME TypeOK, SInv, NEW fn, NEW arg, Invoked(fn, arg), InLoop
    PROVE  /\ Top.pos \in DOMAIN Top.body /\ Top.body[Top.pos] = <<fn, arg>>
           /\ fn \in {"RUN_TEST", "RUN_SUITE", "SET_SUFFIX"}
           /\ fn = "RUN_TEST" => Top.kind = "SHUFFLE_TESTS" /\ "SHUFFLE_TESTS" \in LoopKinds
           /\ fn = "RUN_SUITE" => Top.kind = "SHUFFLE_SUITES" /\ "SHUFFLE_SUITES" \in LoopKinds
<1>1. Top.pos \in DOMAIN Top.body /\ Top.body[Top.pos] = <<fn, arg>>
  BY DEF Invoked
<1>2. Top.body \in Blocks[Top.kind] /\ Top.kind \in LoopKinds
  BY TopLoop
<1>3. Top.body[Top.pos][1] = fn
  BY <1>1
<1>4. Top.body[Top.pos] \in Items
  <2>1. Top.body \in Seq(Items)
    BY TopFrame DEF Frames
  <2> QED  BY <1>1, <2>1
<1>5. fn \in {"RUN_TEST", "RUN_SUITE", "SET_SUFFIX"}
  BY <1>1, <1>4 DEF Items
<1> QED  BY <1>1, <1>2, <1>3, <1>5 DEF SInv, ShuffledUse, DocumentedUse, LoopKinds

(* Setting a hook or a suffix. *)
LEMMA QuietShuffled ==
    ASSUME TypeOK, TypeOK', DInv, SInv,
           SetSetup \/ SetTeardown \/ \E suffix \in Suffixes : SetSuffix(suffix)
    PROVE  SInv'
<1>1. UNCHANGED <<flags, suite, prng>> /\ stack' = Caller
  BY DEF SetSetup, SetTeardown, SetSuffix
<1>2. CASE ~InLoop
  BY <1>1, <1>2, OutOfLoop, SameShuffled
<1>3. CASE InLoop
  <2>1. PICK fn, arg : fn \in {"SET_SETUP", "SET_TEARDOWN", "SET_SUFFIX"} /\ Invoked(fn, arg)
    BY DEF SetSetup, SetTeardown, SetSuffix
  <2>2. Top.pos \in DOMAIN Top.body /\ Top.body[Top.pos] = <<fn, arg>>
    BY <1>3, <2>1, BlockCall
  <2>3. Top.pos \notin Selects(Top.body, flags)
    BY <2>1, <2>2 DEF Selects
  <2>4. prng[Top.kind] \in Prng /\ prng' = [prng EXCEPT ![Top.kind] = prng[Top.kind]]
    BY <1>1, <1>3, TopLoop DEF TypeOK
  <2> QED  BY <1>1, <1>3, <2>2, <2>3, <2>4, PassShuffled
<1> QED  BY <1>2, <1>3

(* Only main prints reports, when nothing else is on the stack. *)
LEMMA ReportShuffled ==
    ASSUME TypeOK, TypeOK', MainAtBottom, DInv, SInv, PrintReport \/ MainReturn
    PROVE  SInv'
<1>1. Top.kind = "main" /\ UNCHANGED <<flags, prng, stack>>
  <2>1. CASE PrintReport
    <3>1. Invoked("PRINT_REPORT", NULL) /\ UNCHANGED <<flags, prng>> /\ stack' = Caller
      BY <2>1 DEF PrintReport
    <3>2. ~InLoop
      BY <3>1, BlockCall
    <3>3. <<Top.kind, "PRINT_REPORT">> \in DocumentedCalls
      BY <3>1, <3>2 DEF Invoked, DInv, DocumentedUse
    <3> QED  BY <3>1, <3>2, <3>3, OutOfLoop DEF DocumentedCalls, LoopKinds
  <2>2. CASE MainReturn
    BY <2>2 DEF MainReturn
  <2> QED  BY <2>1, <2>2
<1>2. \A d \in DOMAIN stack : stack[d].kind \notin LoopKinds
  <2>1. ASSUME NEW d \in DOMAIN stack PROVE d = Len(stack)
    <3>1. Len(stack) \in DOMAIN stack /\ stack[Len(stack)].kind = "main"
      BY <1>1, TopFrame DEF Top
    <3>2. Len(stack) = 1
      BY <3>1 DEF MainAtBottom
    <3> QED  BY <3>2, TopFrame
  <2> QED  BY <1>1, <2>1 DEF Top, LoopKinds
<1>3. \A d \in DOMAIN stack' : InOrder(stack'[d], prng', flags', At(stack', d), suite'.failed)
  BY <1>1, <1>2 DEF SInv, InOrder
<1>4. Ranked(stack)'
  BY <1>1 DEF SInv, Ranked
<1> QED  BY <1>3, <1>4, UseStays DEF SInv

(* A test or a hook that calls nothing, or that a failure aborts. *)
LEMMA AssertShuffled ==
    ASSUME TypeOK, DInv, SInv, Assert(TRUE) PROVE SInv'
  BY SameShuffled DEF Assert, Unwound

(* No test is run inside a test. *)
LEMMA NoNestedTest ==
    ASSUME TypeOK, OneTest, DInv, NEW test, NestedTest(test) PROVE FALSE
<1>1. Invoked("RUN_TEST", test) /\ running_test
  BY DEF NestedTest
<1>2. Top.kind \notin Leaves
  BY <1>1, CallerIsNoLeaf
<1>3. PICK d \in RunningFrames : d = jump_dest
  BY <1>1 DEF OneTest
<1>4. d \in DOMAIN stack /\ stack[d].kind \in Leaves
  BY DEF RunningFrames, TestKinds, Leaves
<1>5. d = Len(stack)
  BY <1>4 DEF DInv, LeafOnTop
<1> QED  BY <1>2, <1>4, <1>5 DEF Top

(* Whether a call of a block is selected: the filters see the same name    *)
(* whatever the suffix. *)
LEMMA SelectedCall ==
    ASSUME TypeOK, SInv, InLoop, NEW test, Invoked("RUN_TEST", test)
    PROVE  Selected(<<test, name_suffix>>) <=>
             /\ Top.pos \in Selects(Top.body, flags)
             /\ Failures(Top.kind, flags, suite.failed) = 0
<1>1. /\ Top.pos \in DOMAIN Top.body /\ Top.body[Top.pos] = <<"RUN_TEST", test>>
      /\ Top.kind = "SHUFFLE_TESTS" /\ Top.body \in Blocks[Top.kind]
  BY BlockCall, TopLoop
<1>2. Top.body[Top.pos][1] = "RUN_TEST" /\ Top.body[Top.pos][2] = test
  BY <1>1
<1>3. <<test, name_suffix>> \in Matching <=> <<test, NULL>> \in Matching
  <2>1. name_suffix \in Suffixes \/ name_suffix = NULL
    BY DEF TypeOK
  <2> QED  BY <1>1, <1>2, <2>1 DEF SInv, ShuffledUse
<1> QED  BY <1>1, <1>2, <1>3 DEF Selected, Selects, Failures

(* Out of a loop, under a call that runs nothing, only a block of suites   *)
(* may be waiting: its generator is left alone.                            *)
LEMMA IdleShuffled ==
    ASSUME TypeOK, TypeOK', DInv, SInv, UNCHANGED <<flags, suite, stack>>, ~InLoop,
           Top.kind \notin Leaves,
           Top.kind = "main" \/ prng'["SHUFFLE_SUITES"] = prng["SHUFFLE_SUITES"]
    PROVE  SInv'
<1>1. ASSUME NEW d \in DOMAIN stack
      PROVE  InOrder(stack[d], prng', flags, At(stack, d), suite.failed)
  <2>1. InOrder(stack[d], prng, flags, At(stack, d), suite.failed)
    BY DEF SInv
  <2>2. stack[d].kind \notin LoopKinds \/ prng'[stack[d].kind] = prng[stack[d].kind]
    <3>1. CASE d = Len(stack)
      BY <3>1 DEF InLoop, Top
    <3>2. CASE d # Len(stack)
      BY <3>2, Above DEF SInv, LoopKinds
    <3> QED  BY <3>1, <3>2
  <2> QED  BY <2>1, <2>2 DEF InOrder
<1>2. Ranked(stack)'
  BY DEF SInv, Ranked
<1> QED  BY <1>1, <1>2, UseStays DEF SInv

(* A test that is not run is passed by, counted if it was selected.        *)
LEMMA RejectTestShuffled ==
    ASSUME TypeOK, TypeOK', DInv, SInv, NEW test \in Tests, RejectTest(test) PROVE SInv'
<1> DEFINE k == "SHUFFLE_TESTS"
<1>1. /\ Invoked("RUN_TEST", test) /\ stack' = Caller /\ UNCHANGED <<flags, suite>>
      /\ IF Selected(<<test, name_suffix>>)
         THEN ~Drawn(prng[k]) /\ prng' = [prng EXCEPT ![k] = Tick(@)]
         ELSE UNCHANGED prng
  BY DEF RejectTest
<1>2. Top.kind \notin Leaves
  BY <1>1, CallerIsNoLeaf
<1>3. CASE InLoop
  <2>1. /\ Top.pos \in DOMAIN Top.body /\ Top.kind = k /\ k \in LoopKinds
        /\ Selected(<<test, name_suffix>>) <=>
             /\ Top.pos \in Selects(Top.body, flags)
             /\ Failures(Top.kind, flags, suite.failed) = 0
    BY <1>1, <1>3, BlockCall, SelectedCall
  <2>2. prng[Top.kind] \in Prng /\ prng[Top.kind].random_order
    BY <1>3, TopLoop DEF LoopOK
  <2>3. CASE Selected(<<test, name_suffix>>)
    <3> DEFINE p == [prng[Top.kind] EXCEPT !.count = @ + 1]
    <3>1. p \in Prng
      BY <2>2 DEF Prng
    <3>2. /\ prng' = [prng EXCEPT ![Top.kind] = p]
          /\ ~(prng[Top.kind].initialized /\ prng[Top.kind].count = prng[Top.kind].state)
      BY <1>1, <2>1, <2>2, <2>3 DEF Drawn, Tick
    <3> QED  BY <1>1, <1>3, <2>1, <2>3, <3>1, <3>2, PassShuffled
  <2>4. CASE ~Selected(<<test, name_suffix>>)
    <3>1. prng' = [prng EXCEPT ![Top.kind] = prng[Top.kind]]
      BY <1>1, <2>1, <2>4 DEF TypeOK
    <3> QED  BY <1>1, <1>3, <2>1, <2>2, <2>4, <3>1, PassShuffled
  <2> QED  BY <2>3, <2>4
<1>4. CASE ~InLoop
  <2>1. UNCHANGED <<stack, flags, suite>> /\ prng'["SHUFFLE_SUITES"] = prng["SHUFFLE_SUITES"]
    BY <1>1, <1>4, OutOfLoop DEF TypeOK, LoopKinds
  <2> QED  BY <1>2, <1>4, <2>1, IdleShuffled
<1> QED  BY <1>3, <1>4

(* So is a suite. *)
LEMMA RejectSuiteShuffled ==
    ASSUME TypeOK, TypeOK', DInv, SInv, NEW name \in Suites, RejectSuite(name) PROVE SInv'
<1> DEFINE k == "SHUFFLE_SUITES"
<1>1. /\ Invoked("RUN_SUITE", name) /\ stack' = Caller /\ UNCHANGED <<flags, suite>>
      /\ IF SuiteSelected(name)
         THEN ~Drawn(prng[k]) /\ prng' = [prng EXCEPT ![k] = Tick(@)]
         ELSE UNCHANGED prng
  BY DEF RejectSuite
<1>2. Top.kind \notin Leaves
  BY <1>1, CallerIsNoLeaf
<1>3. CASE InLoop
  <2>1. /\ Top.pos \in DOMAIN Top.body /\ Top.kind = k /\ k \in LoopKinds
        /\ Top.body[Top.pos] = <<"RUN_SUITE", name>>
    BY <1>1, <1>3, BlockCall
  <2>2. prng[Top.kind] \in Prng /\ prng[Top.kind].random_order
    BY <1>3, TopLoop DEF LoopOK
  <2>3. /\ Failures(Top.kind, flags, suite.failed) = 0
        /\ SuiteSelected(name) <=> Top.pos \in Selects(Top.body, flags)
    <3>1. Top.body[Top.pos][1] = "RUN_SUITE" /\ Top.body[Top.pos][2] = name
      BY <2>1
    <3> QED  BY <2>1, <3>1 DEF Failures, Selects, SuiteSelected
  <2>4. CASE SuiteSelected(name)
    <3> DEFINE p == [prng[Top.kind] EXCEPT !.count = @ + 1]
    <3>1. p \in Prng
      BY <2>2 DEF Prng
    <3>2. /\ prng' = [prng EXCEPT ![Top.kind] = p]
          /\ ~(prng[Top.kind].initialized /\ prng[Top.kind].count = prng[Top.kind].state)
      BY <1>1, <2>1, <2>2, <2>4 DEF Drawn, Tick
    <3> QED  BY <1>1, <1>3, <2>1, <2>3, <2>4, <3>1, <3>2, PassShuffled
  <2>5. CASE ~SuiteSelected(name)
    <3>1. prng' = [prng EXCEPT ![Top.kind] = prng[Top.kind]]
      BY <1>1, <2>1, <2>5 DEF TypeOK
    <3> QED  BY <1>1, <1>3, <2>1, <2>2, <2>3, <2>5, <3>1, PassShuffled
  <2> QED  BY <2>4, <2>5
<1>4. CASE ~InLoop
  <2>1. UNCHANGED <<stack, flags, suite>>
    BY <1>1, <1>4, OutOfLoop
  <2>2. Top.kind = "main"
    <3>1. <<Top.kind, "RUN_SUITE">> \in DocumentedCalls
      BY <1>1, <1>4 DEF Invoked, DInv, DocumentedUse
    <3> QED  BY <3>1 DEF DocumentedCalls, LoopKinds
  <2> QED  BY <1>2, <1>4, <2>1, <2>2, IdleShuffled
<1> QED  BY <1>3, <1>4

(***************************************************************************)
(* Calls that start something.                                             *)
(***************************************************************************)

(* s is the stack with f started on it. *)
Starts(s, f) ==
    /\ s \in Seq(Frames) /\ Len(s) = Len(stack) + 1
    /\ \A d \in 1 .. Len(stack) - 1 : s[d] = stack[d]
    /\ s[Len(stack)] = CallerRan[Len(stack)] /\ s[Len(stack) + 1] = f

(* The caller of what is started, its call noted. *)
LEMMA RanTop ==
    ASSUME TypeOK
    PROVE  /\ CallerRan \in Seq(Frames) /\ Len(CallerRan) = Len(stack)
           /\ \A d \in 1 .. Len(stack) - 1 : CallerRan[d] = stack[d]
           /\ ~InLoop => CallerRan[Len(stack)] = Top
           /\ InLoop => /\ CallerRan[Len(stack)] \in Frames
                        /\ CallerRan[Len(stack)].kind = Top.kind
                        /\ CallerRan[Len(stack)].body = Top.body
                        /\ CallerRan[Len(stack)].pos = Top.pos + 1
                        /\ CallerRan[Len(stack)].ran = Append(Top.ran, Top.pos)
<1>1. CASE ~InLoop
  BY <1>1, OutOfLoop, TopFrame DEF TypeOK, Top
<1>2. CASE InLoop
  <2> DEFINE f == Advanced
             g == [Advanced EXCEPT !.ran = Append(@, Top.pos)]
  <2>1. /\ f \in Frames /\ f.kind = Top.kind /\ f.body = Top.body /\ f.ran = Top.ran
        /\ f.pos = Top.pos + 1 /\ Top.pos \in Nat
    <3>1. Top.pos \in Nat
      BY TopFrame DEF Frames
    <3>2. Top.pos + 1 \in Nat /\ f = [Top EXCEPT !.pos = Top.pos + 1]
      BY <3>1 DEF Advanced
    <3> HIDE DEF f
    <3> QED  BY <3>1, <3>2, TopMoved
  <2>2. CallerRan = ReplaceTop(g)
    BY <1>2 DEF CallerRan
  <2>3. g = [f EXCEPT !.ran = Append(f.ran, Top.pos)]
    OBVIOUS
  <2> HIDE DEF f
  <2>4. Append(f.ran, Top.pos) \in Seq(Nat)
    BY <2>1 DEF Frames
  <2> HIDE DEF g
  <2>5. /\ g \in Frames /\ g.kind = f.kind /\ g.body = f.body /\ g.pos = f.pos
        /\ g.ran = Append(f.ran, Top.pos)
    <3> DEFINE r == Append(f.ran, Top.pos)
    <3> HIDE DEF r
    <3>1. r \in Seq(Nat) /\ g = [f EXCEPT !.ran = r]
      BY <2>3, <2>4 DEF r
    <3>2. g \in Frames /\ g.kind = f.kind /\ g.body = f.body /\ g.pos = f.pos /\ g.ran = r
      BY <2>1, <3>1 DEF Frames
    <3> QED  BY <3>2 DEF r
  <2>6. /\ CallerRan \in Seq(Frames) /\ Len(CallerRan) = Len(stack) /\ CallerRan[Len(stack)] = g
        /\ \A d \in 1 .. Len(stack) - 1 : CallerRan[d] = stack[d]
    BY <2>2, <2>5, TopReplaced
  <2> QED  BY <1>2, <2>1, <2>5, <2>6
<1> QED  BY <1>1, <1>2

(* The stack as a test is started with or without a setup hook. *)
LEMMA Started ==
    ASSUME TypeOK, NEW f \in Frames, NEW g \in Frames, g = [f EXCEPT !.kind = "test"],
           NEW s, s = Append(CallerRan, f)
    PROVE  Starts(s, f) /\ Starts([s EXCEPT ![Len(s)].kind = "test"], g)
<1> DEFINE c == CallerRan
           n == Len(stack)
           t == [s EXCEPT ![n + 1] = g]
<1>1. /\ c \in Seq(Frames) /\ Len(c) = n /\ n \in Nat \ {0}
      /\ \A d \in 1 .. n - 1 : c[d] = stack[d]
  BY RanTop, TopFrame
<1> HIDE DEF c
<1>2. /\ s \in Seq(Frames) /\ Len(s) = n + 1 /\ s[n + 1] = f
      /\ \A d \in 1 .. n : s[d] = c[d]
  <2>1. s = Append(c, f)
    BY DEF c
  <2> QED  BY <1>1, <2>1
<1>3. Starts(s, f)
  <2>1. \A d \in 1 .. n - 1 : s[d] = stack[d]
    BY <1>1, <1>2
  <2>2. s[n] = c[n]
    BY <1>1, <1>2
  <2> QED  BY <1>2, <2>1, <2>2 DEF Starts, c
<1>4. [s EXCEPT ![Len(s)].kind = "test"] = t /\ n + 1 \in 1 .. Len(s)
  <2>1. n + 1 \in 1 .. Len(s) /\ Len(s) = n + 1 /\ s[n + 1] = f
    BY <1>1, <1>2
  <2>2. n + 1 \in DOMAIN s
    BY <1>2, <2>1
  <2> QED  BY <2>1, <2>2
<1>5. /\ t \in Seq(Frames) /\ Len(t) = n + 1
      /\ \A d \in 1 .. n + 1 : t[d] = IF d = n + 1 THEN g ELSE s[d]
  <2> DEFINE q == n + 1
  <2>1. /\ s \in Seq(Frames) /\ q \in 1 .. Len(s) /\ g \in Frames /\ t = [s EXCEPT ![q] = g]
        /\ Len(s) = q
    BY <1>2, <1>4
  <2> HIDE DEF q, t
  <2>2. /\ t \in Seq(Frames) /\ Len(t) = Len(s)
        /\ \A d \in 1 .. Len(s) : t[d] = IF d = q THEN g ELSE s[d]
    BY ONLY <2>1, ExceptSeq
  <2> QED  BY <2>1, <2>2 DEF q
<1> HIDE DEF t
<1>6. Starts(t, g)
  <2>1. \A d \in 1 .. n - 1 : t[d] = s[d]
    <3>1. \A d \in 1 .. n - 1 : d \in 1 .. n + 1 /\ d # n + 1
      BY <1>1
    <3> QED  BY <1>5, <3>1
  <2>2. t[n] = s[n] /\ t[n + 1] = g
    <3>1. n \in 1 .. n + 1 /\ n # n + 1 /\ n + 1 \in 1 .. n + 1
      BY <1>1
    <3> QED  BY <1>5, <3>1
  <2> QED  BY <1>3, <1>5, <2>1, <2>2 DEF Starts
<1> QED  BY <1>3, <1>4, <1>6

(* The generator of a block whose call starts a frame of this kind.        *)
Counts(p, kind) ==
    LET q == [p EXCEPT !.count = @ + 1]
    IN  IF kind = "setup" THEN q ELSE [q EXCEPT !.count_run = @ + 1]
(* Its fields. *)
LEMMA CountsFields ==
    ASSUME NEW p \in Prng, NEW q, NEW kind, q = Counts(p, kind)
    PROVE  /\ q \in Prng
           /\ q.random_order = p.random_order /\ q.initialized = p.initialized
           /\ q.state = p.state /\ q.a = p.a /\ q.m = p.m /\ q.count_ceil = p.count_ceil
           /\ q.count = p.count + 1
           /\ q.count_run = IF kind = "setup" THEN p.count_run ELSE p.count_run + 1
<1> DEFINE r == [p EXCEPT !.count = @ + 1]
<1>1. /\ r \in Prng /\ r.random_order = p.random_order /\ r.initialized = p.initialized
      /\ r.state = p.state /\ r.a = p.a /\ r.m = p.m /\ r.count_ceil = p.count_ceil
      /\ r.count = p.count + 1 /\ r.count_run = p.count_run
  BY DEF Prng
<1>2. q = IF kind = "setup" THEN r ELSE [r EXCEPT !.count_run = @ + 1]
  BY DEF Counts
<1> HIDE DEF r
<1> QED  BY <1>1, <1>2 DEF Prng

(* Something is started on top of the stack. *)
LEMMA StartShuffled ==
    ASSUME TypeOK, TypeOK', DInv, SInv, UNCHANGED flags, Top.kind \notin Leaves,
           NEW k \in LoopKinds, InLoop => Top.kind = k,
           NEW f \in Frames, Starts(stack', f), f.kind \in {"setup", "test", "suite"},
           f.ran = <<>>, Rank(Top.kind) < Rank(f.kind),
           InLoop => /\ Failures(k, flags, suite.failed) = 0
                     /\ Failures(k, flags, suite'.failed) = 0
                     /\ Top.pos \in Selects(Top.body, flags)
                     /\ prng[k].initialized /\ prng[k].count = prng[k].state,
           NEW p \in Prng, prng' = [prng EXCEPT ![k] = p],
           InLoop => p = Counts(prng[k], f.kind),
           k = "SHUFFLE_SUITES" => Top.kind \in {"main", "SHUFFLE_SUITES"} /\ f.kind = "suite"
    PROVE  SInv'
<1> DEFINE n == Len(stack)
           h == stack'[n]
           at == At(stack', n)
           g == prng[k]
           R == Selects(Top.body, flags)
<1>1. /\ n \in Nat /\ Len(stack') = n + 1 /\ stack'[n + 1] = f
      /\ \A d \in 1 .. n - 1 : stack'[d] = stack[d]
      /\ h = CallerRan[n]
      /\ h.kind = Top.kind
  BY RanTop, TopFrame DEF Starts
<1>2. /\ prng'[k] = p /\ g \in Prng
      /\ k # "SHUFFLE_SUITES" => prng'["SHUFFLE_SUITES"] = prng["SHUFFLE_SUITES"]
  BY DEF TypeOK, LoopKinds
<1>3. InOrder(f, prng', flags, "top", suite'.failed)
  BY DEF InOrder, LoopKinds
<1>4. CASE ~InLoop
  <2>1. h = Top /\ Top.kind \notin LoopKinds
    BY <1>1, <1>4, RanTop DEF InLoop
  <2>2. InOrder(Top, prng, flags, At(stack, n), suite.failed)
    BY TopFrame DEF SInv, Top
  <2>3. InOrder(h, prng', flags, at, suite'.failed)
    BY <2>1, <2>2 DEF InOrder
  <2> QED  BY <1>1, <1>2, <1>3, <2>3, PushShuffled
<1>5. CASE InLoop
  <2>1. /\ Top \in Frames /\ Top.kind = k /\ Top.body \in Blocks[k]
        /\ R \in SUBSET (DOMAIN Top.body) /\ LoopOK(Top, g, R, "top", 0)
        /\ Top.pos \in R /\ g.initialized /\ g.count = g.state
    BY <1>5, TopLoop
  <2>2. /\ h \in Frames /\ h.kind = k /\ h.body = Top.body /\ h.pos = Top.pos + 1
        /\ h.ran = Append(Top.ran, Top.pos)
    BY <1>1, <1>5, <2>1, RanTop
  <2>3. at \in {"setup", "call"} /\ (at = "setup" <=> f.kind = "setup")
    BY <1>1, <2>2 DEF At, LoopKinds
  <2>4. /\ p.random_order = g.random_order /\ p.initialized = g.initialized
        /\ p.state = g.state /\ p.a = g.a /\ p.m = g.m /\ p.count_ceil = g.count_ceil
        /\ p.count = g.count + 1
        /\ p.count_run = IF at = "setup" THEN g.count_run ELSE g.count_run + 1
    <3>1. p = Counts(g, f.kind)
      BY <1>5
    <3> HIDE DEF g
    <3>2. /\ p.random_order = g.random_order /\ p.initialized = g.initialized
          /\ p.state = g.state /\ p.a = g.a /\ p.m = g.m /\ p.count_ceil = g.count_ceil
          /\ p.count = g.count + 1
          /\ p.count_run = IF f.kind = "setup" THEN g.count_run ELSE g.count_run + 1
      BY <1>2, <3>1, CountsFields
    <3> QED  BY <2>3, <3>2
  <2>5. LoopOK(h, p, R, at, 0)
    <3> DEFINE e == Top
    <3>1. /\ e \in Frames /\ g \in Prng /\ R \in SUBSET (DOMAIN e.body)
          /\ LoopOK(e, g, R, "top", 0) /\ g.initialized /\ e.pos \in R /\ g.count = g.state
      BY <1>2, <2>1
    <3>2. /\ h \in Frames /\ h.body = e.body /\ h.pos = e.pos + 1
          /\ h.ran = Append(e.ran, e.pos) /\ p \in Prng /\ at \in {"setup", "call"}
      BY <2>2, <2>3
    <3> HIDE DEF h, at, g, R, e
    <3> QED  BY ONLY <2>4, <3>1, <3>2, CallRuns
  <2>6. InOrder(h, prng', flags, at, suite'.failed)
    BY <1>2, <1>5, <2>1, <2>2, <2>5 DEF InOrder
  <2> QED  BY <1>1, <1>2, <1>3, <2>6, PushShuffled
<1> QED  BY <1>4, <1>5

(* The loop that a test or suite is started from: the call is the one that *)
(* was drawn.                                                              *)
LEMMA DrawnCall ==
    ASSUME TypeOK, SInv, InLoop, Drawn(prng[Top.kind])
    PROVE  /\ prng[Top.kind].initialized /\ prng[Top.kind].count = prng[Top.kind].state
           /\ Tick(prng[Top.kind]) = Counts(prng[Top.kind], "setup")
           /\ \A kind \in {"test", "suite"} :
                [Tick(prng[Top.kind]) EXCEPT !.count_run = @ + 1] = Counts(prng[Top.kind], kind)
<1>1. prng[Top.kind].random_order
  BY TopLoop DEF LoopOK
<1> QED  BY <1>1 DEF Drawn, Tick, Counts

(* Only leaves rank as high as a test. *)
LEMMA BelowLeaf ==
    ASSUME TypeOK, Top.kind \notin Leaves
    PROVE  Rank(Top.kind) < Rank("setup") /\ Rank(Top.kind) < Rank("test")
<1>1. Top.kind \in Kinds
  BY TopFrame DEF Frames
<1> QED  BY <1>1 DEF Rank, Kinds, Callbacks, LoopKinds, Leaves

(* A test. *)
LEMMA StartTestShuffled ==
    ASSUME TypeOK, TypeOK', DInv, SInv, NEW test \in Tests, StartTest(test) PROVE SInv'
<1> DEFINE k     == "SHUFFLE_TESTS"
           name  == <<test, name_suffix>>
           f     == Frame("setup", name, Top.owner)
           frame == [f EXCEPT !.hook = setup]
           fTest == [frame EXCEPT !.kind = "test"]
           s     == Append(CallerRan, frame)
           p     == Tick(prng[k])
           q     == [p EXCEPT !.count_run = @ + 1]
<1>1. /\ Invoked("RUN_TEST", test) /\ UNCHANGED <<flags, suite>>
      /\ Selected(name) /\ Drawn(prng[k])
  BY DEF StartTest
<1>2. Top.kind \notin Leaves /\ k \in LoopKinds /\ k # "SHUFFLE_SUITES"
  BY <1>1, CallerIsNoLeaf, KindFacts
<1>3. name \in Names /\ setup \in Owners \union {NULL} /\ Top.owner \in Owners
  BY TopFrame DEF TypeOK, Names, Frames
<1>4. InLoop => /\ Top.kind = k /\ Failures(k, flags, suite.failed) = 0
                /\ Failures(k, flags, suite'.failed) = 0
                /\ Top.pos \in Selects(Top.body, flags)
                /\ prng[k].initialized /\ prng[k].count = prng[k].state
                /\ p = Counts(prng[k], "setup") /\ q = Counts(prng[k], "test")
  <2>1. SUFFICES ASSUME InLoop
                 PROVE  /\ Top.kind = k /\ Failures(k, flags, suite.failed) = 0
                        /\ Failures(k, flags, suite'.failed) = 0
                        /\ Top.pos \in Selects(Top.body, flags)
                        /\ prng[k].initialized /\ prng[k].count = prng[k].state
                        /\ p = Counts(prng[k], "setup") /\ q = Counts(prng[k], "test")
    OBVIOUS
  <2>2. Top.kind = k
    BY <1>1, <2>1, BlockCall
  <2>3. Top.pos \in Selects(Top.body, flags) /\ Failures(k, flags, suite.failed) = 0
    BY <1>1, <2>1, <2>2, SelectedCall
  <2>4. /\ prng[k].initialized /\ prng[k].count = prng[k].state
        /\ p = Counts(prng[k], "setup") /\ q = Counts(prng[k], "test")
    BY <1>1, <2>1, <2>2, DrawnCall
  <2> QED  BY <1>1, <2>2, <2>3, <2>4
<1>5. p \in Prng /\ q \in Prng
  BY <1>2, TickType DEF TypeOK
<1>6. f \in Frames /\ f.kind = "setup" /\ f.ran = <<>>
  BY <1>3, FrameType, KindFacts DEF Frame
<1> HIDE DEF f, name
<1>7. frame \in Frames /\ frame.kind = "setup" /\ frame.ran = <<>>
  BY <1>3, <1>6 DEF Frames
<1> HIDE DEF frame
<1>8. fTest \in Frames /\ fTest.kind = "test" /\ fTest.ran = <<>>
  BY <1>7, KindFacts DEF Frames
<1>9. Starts(s, frame) /\ Starts([s EXCEPT ![Len(s)].kind = "test"], fTest)
  BY <1>7, <1>8, Started
<1>10. Rank(Top.kind) < Rank(frame.kind) /\ Rank(Top.kind) < Rank(fTest.kind)
  BY <1>2, <1>7, <1>8, BelowLeaf
<1> HIDE DEF fTest, s, p, q, k
<1>11. CASE setup # NULL
  <2>1. Starts(stack', frame) /\ prng' = [prng EXCEPT ![k] = p]
    BY <1>9, <1>11 DEF StartTest, s, frame, f, name, p, k
  <2>2. InLoop => p = Counts(prng[k], frame.kind)
    BY <1>4, <1>7
  <2> QED  BY <1>1, <1>2, <1>4, <1>5, <1>7, <1>10, <2>1, <2>2, StartShuffled
<1>12. CASE setup = NULL
  <2>1. EnterTest(s, p)
    BY <1>12 DEF StartTest, s, frame, f, name, p, k
  <2>2. Starts(stack', fTest) /\ prng' = [prng EXCEPT ![k] = q]
    BY <1>9, <2>1 DEF EnterTest, k, q
  <2>3. InLoop => q = Counts(prng[k], fTest.kind)
    BY <1>4, <1>8
  <2> QED  BY <1>1, <1>2, <1>4, <1>5, <1>8, <1>10, <2>2, <2>3, StartShuffled
<1> QED  BY <1>11, <1>12

(* A suite. *)
LEMMA StartSuiteShuffled ==
    ASSUME TypeOK, TypeOK', DInv, SInv, NEW name \in Suites, StartSuite(name) PROVE SInv'
<1> DEFINE k    == "SHUFFLE_SUITES"
           base == Printed
           f    == Frame("suite", Top.name, name)
           g    == [f EXCEPT !.base = base]
           s    == Append(CallerRan, g)
           p    == [Tick(prng[k]) EXCEPT !.count_run = @ + 1]
<1>1. /\ Invoked("RUN_SUITE", name) /\ UNCHANGED flags /\ stack' = s
      /\ prng' = [prng EXCEPT ![k] = p] /\ SuiteSelected(name) /\ Drawn(prng[k])
  BY DEF StartSuite
<1>2. Top.kind \in {"main", k} /\ Top.kind \notin Leaves /\ k \in LoopKinds
  <2>1. CASE InLoop
    BY <1>1, <2>1, BlockCall DEF Leaves
  <2>2. CASE ~InLoop
    <3>1. <<Top.kind, "RUN_SUITE">> \in DocumentedCalls
      BY <1>1, <2>2 DEF Invoked, DInv, DocumentedUse
    <3> QED  BY <3>1 DEF DocumentedCalls, LoopKinds, Leaves
  <2> QED  BY <2>1, <2>2
<1>3. f \in Frames /\ f.kind = "suite" /\ f.ran = <<>>
  <2>1. f.ran = <<>>
    BY DEF Frame
  <2> QED  BY <2>1, NewFrame, KindFacts DEF Owners
<1>4. base \in Counters
  BY PrintedType
<1> HIDE DEF f, base
<1>5. g \in Frames /\ g.kind = "suite" /\ g.ran = <<>>
  BY <1>3, <1>4 DEF Frames
<1>6. InLoop => /\ Top.kind = k /\ Failures(k, flags, suite.failed) = 0
                /\ Failures(k, flags, suite'.failed) = 0
                /\ Top.pos \in Selects(Top.body, flags)
                /\ prng[k].initialized /\ prng[k].count = prng[k].state
                /\ p = Counts(prng[k], "suite")
  <2>1. SUFFICES ASSUME InLoop
                 PROVE  /\ Top.kind = k /\ Failures(k, flags, suite.failed) = 0
                        /\ Failures(k, flags, suite'.failed) = 0
                        /\ Top.pos \in Selects(Top.body, flags)
                        /\ prng[k].initialized /\ prng[k].count = prng[k].state
                        /\ p = Counts(prng[k], "suite")
    OBVIOUS
  <2>2. /\ Top.kind = k /\ Top.pos \in DOMAIN Top.body
        /\ Top.body[Top.pos] = <<"RUN_SUITE", name>>
    BY <1>1, <2>1, BlockCall
  <2>3. /\ prng[k].initialized /\ prng[k].count = prng[k].state
        /\ p = Counts(prng[k], "suite")
    BY <1>1, <2>1, <2>2, DrawnCall
  <2>4. Top.body[Top.pos][1] = "RUN_SUITE" /\ Top.body[Top.pos][2] = name
    BY <2>2
  <2>5. Top.pos \in Selects(Top.body, flags)
    BY <1>1, <2>2, <2>4 DEF Selects, SuiteSelected
  <2> QED  BY <2>2, <2>3, <2>5 DEF Failures
<1>7. p \in Prng
  <2> DEFINE t == Tick(prng[k])
  <2>1. t \in Prng
    BY <1>2, TickType DEF TypeOK
  <2>2. p = [t EXCEPT !.count_run = @ + 1]
    OBVIOUS
  <2> HIDE DEF t, p
  <2> QED  BY <2>1, <2>2, TickType
<1>8. Starts(stack', g)
  <2>1. [g EXCEPT !.kind = "test"] \in Frames
    BY <1>5, KindFacts DEF Frames
  <2> QED  BY <1>1, <1>5, <2>1, Started
<1>9. Rank(Top.kind) < Rank(g.kind)
  BY <1>2, <1>5 DEF Rank
<1>10. InLoop => p = Counts(prng[k], g.kind)
  BY <1>5, <1>6
<1> HIDE DEF g, s, p
<1> QED  BY <1>1, <1>2, <1>5, <1>6, <1>7, <1>8, <1>9, <1>10, StartShuffled

(* The multiplier of every seed. *)
LEMMA MultiplierForm ==
    ASSUME NEW seed \in Seeds PROVE \E s \in Nat : Multiplier(MaskedSeed(seed)) = 1 + 4 * s
<1> DEFINE t == MaskedSeed(seed)
<1>1. t \in Nat
  BY SeedsAssumption DEF MaskedSeed
<1> HIDE DEF t
<1>2. t = 0 => Multiplier(t) = 1 + 4 * 1
  BY DEF Multiplier
<1>3. t # 0 => Multiplier(t) = 1 + 4 * t
  BY <1>1 DEF Multiplier
<1> QED  BY <1>1, <1>2, <1>3 DEF t

(* A block: it begins to count. *)
LEMMA ShuffleInitShuffled ==
    ASSUME TypeOK, TypeOK', DInv, SInv, NEW kind \in LoopKinds, ShuffleInit(kind) PROVE SInv'
<1>1. /\ ~InLoop /\ Invoked(kind, NULL) /\ UNCHANGED <<flags, suite>>
  BY DEF ShuffleInit
<1>2. PICK seed \in Seeds, body \in Blocks[kind] :
        /\ prng' = [prng EXCEPT ![kind] =
                      [ZeroPrng EXCEPT !.random_order = TRUE,
                                       !.state = MaskedSeed(seed),
                                       !.a = Multiplier(MaskedSeed(seed)),
                                       !.m = prng[kind].m,
                                       !.count_ceil = prng[kind].count_ceil]]
        /\ stack' = Append(stack, [Frame(kind, Top.name, Top.owner) EXCEPT !.body = body])
  BY DEF ShuffleInit
<1> DEFINE n == Len(stack)
           x == MaskedSeed(seed)
           a == Multiplier(x)
           q == [ZeroPrng EXCEPT !.random_order = TRUE, !.state = x, !.a = a,
                                 !.m = prng[kind].m, !.count_ceil = prng[kind].count_ceil]
           f == Frame(kind, Top.name, Top.owner)
           g == [f EXCEPT !.body = body]
<1>3. q.random_order /\ ~q.initialized /\ q.count = 0 /\ q.count_run = 0 /\ q.a = a
  BY DEF ZeroPrng
<1>4. prng' = [prng EXCEPT ![kind] = q] /\ stack' = Append(stack, g)
  BY <1>2
<1> HIDE DEF q, x
<1>5. f \in Frames /\ f.kind = kind /\ f.ran = <<>> /\ f.pos = 0
  <2>1. Top.owner \in Owners /\ kind \in Kinds
    BY TopFrame, KindFacts DEF Frames
  <2>2. f.ran = <<>> /\ f.pos = 0
    BY DEF Frame
  <2> QED  BY <2>1, <2>2, NewFrame
<1> HIDE DEF f
<1>6. body \in Seq(Items)
  BY BlocksAssumption
<1>7. g \in Frames /\ g.kind = kind /\ g.body = body /\ g.ran = <<>> /\ g.pos = 0
  BY <1>5, <1>6 DEF Frames
<1> HIDE DEF g
<1>8. /\ n \in Nat \ {0} /\ stack \in Seq(Frames) /\ Len(stack') = n + 1 /\ stack'[n + 1] = g
      /\ \A d \in 1 .. n : stack'[d] = stack[d]
  <2>1. n \in Nat \ {0} /\ stack \in Seq(Frames)
    BY TopFrame DEF TypeOK
  <2> QED  BY <1>4, <1>7, <2>1
<1>9. stack'[n] = Top /\ \A d \in 1 .. n - 1 : stack'[d] = stack[d]
  BY <1>8 DEF Top
<1>10. /\ prng'[kind] = q
       /\ kind # "SHUFFLE_SUITES" => prng'["SHUFFLE_SUITES"] = prng["SHUFFLE_SUITES"]
  BY <1>4, KindFacts DEF TypeOK
<1>11. /\ Top.kind \in {"main", "suite"} /\ Top.kind \notin Leaves
       /\ kind = "SHUFFLE_SUITES" => Top.kind = "main"
  <2>1. <<Top.kind, kind>> \in DocumentedCalls
    BY <1>1 DEF Invoked, DInv, DocumentedUse
  <2> QED  BY <2>1 DEF DocumentedCalls, LoopKinds, Leaves
<1>12. Rank(Top.kind) < Rank(g.kind)
  BY <1>7, <1>11 DEF Rank, LoopKinds
<1>13. InOrder(g, prng', flags, "top", suite'.failed)
  <2> DEFINE R == Selects(g.body, flags)
             failures == Failures(g.kind, flags, suite'.failed)
  <2>1. Counting(g, q, R, "top", failures)
    BY <1>3, <1>7 DEF Counting
  <2>2. \E s \in Nat : q.a = 1 + 4 * s
    BY <1>3, MultiplierForm DEF x
  <2>3. LoopOK(g, q, R, "top", failures)
    BY <1>3, <2>1, <2>2 DEF LoopOK
  <2> QED  BY <1>7, <1>10, <2>3 DEF InOrder
<1>14. InOrder(Top, prng', flags, At(stack', n), suite'.failed)
  <2>1. InOrder(Top, prng, flags, At(stack, n), suite.failed)
    BY TopFrame DEF SInv, Top
  <2> QED  BY <1>1, <2>1 DEF InOrder, InLoop
<1> QED  BY <1>1, <1>7, <1>8, <1>9, <1>10, <1>11, <1>12, <1>13, <1>14, PushShuffled

(***************************************************************************)
(* SInv is inductive: the steps of a block.                                *)
(***************************************************************************)

(* The top replaced by itself. *)
LEMMA ReplaceSelf == ASSUME TypeOK PROVE ReplaceTop(Top) = stack
<1>1. stack \in Seq(Frames) /\ Len(stack) \in DOMAIN stack
  BY TopFrame DEF TypeOK
<1> QED  BY <1>1 DEF ReplaceTop, Top

(* The loop's condition. *)
LEMMA ShuffleRunningShuffled ==
    ASSUME TypeOK, TypeOK', MainAtBottom, DInv, SInv, ShuffleRunning PROVE SInv'
<1> DEFINE k == Top.kind
           g == prng[k]
           R == Selects(Top.body, flags)
           failures == Failures(k, flags, suite.failed)
           more == Failures(k, flags, suite'.failed)
<1>1. InLoop /\ Top.pos = 0 /\ UNCHANGED <<flags, suite>>
  BY DEF ShuffleRunning
<1>2. /\ k \in LoopKinds /\ g \in Prng /\ R \in SUBSET (DOMAIN Top.body)
      /\ LoopOK(Top, g, R, "top", failures)
  BY <1>1, TopLoop
<1>3. CASE Running(g)
  <2> DEFINE h == [Top EXCEPT !.pos = 1]
  <2>1. stack' = ReplaceTop(h) /\ UNCHANGED prng
    BY <1>3 DEF ShuffleRunning, Goto
  <2>2. prng' = [prng EXCEPT ![k] = g]
    BY <1>2, <2>1 DEF TypeOK
  <2>3. ~g.initialized \/ g.count_run < g.count_ceil
    BY <1>3 DEF Running
  <2>4. more = 0
    <3>1. suite.failed \in Nat
      BY DEF TypeOK, Counters
    <3> QED  BY <1>1, <1>3, <3>1 DEF Running, Failures
  <2>5. /\ h \in Frames /\ h.kind = Top.kind /\ h.body = Top.body /\ h.ran = Top.ran
        /\ h.pos = 1
    <3>1. 1 \in Nat
      OBVIOUS
    <3> QED  BY <3>1, TopMoved
  <2> HIDE DEF h
  <2>6. LoopOK(h, g, R, "top", 0)
    <3> DEFINE f == Top
    <3>1. /\ f \in Frames /\ LoopOK(f, g, R, "top", failures) /\ f.pos = 0
          /\ R \in SUBSET (DOMAIN f.body) /\ h \in Frames /\ h.body = f.body /\ h.pos = 1
          /\ h.ran = f.ran
      BY <1>1, <1>2, <2>5, TopFrame
    <3> HIDE DEF f, g, R, failures
    <3> QED  BY ONLY <1>2, <2>3, <3>1, RoundBegins
  <2>7. LoopOK(h, g, R, "top", more)
    BY <2>4, <2>6
  <2> HIDE DEF more
  <2> QED  BY <1>1, <1>2, <2>1, <2>2, <2>5, <2>7, LoopGoesOn DEF more
<1>4. CASE ~Running(g)
  <2>1. /\ stack' = SubSeq(stack, 1, Len(stack) - 1)
        /\ prng' = [prng EXCEPT ![k] = ZeroPrng]
    BY <1>4 DEF ShuffleRunning
  <2>2. stack \in Seq(Frames) /\ Len(stack) - 1 \in 1 .. Len(stack) /\ k # "setup"
    BY <1>1, NotAtBottom DEF TypeOK, InLoop, LoopKinds
  <2>3. /\ Len(stack') = Len(stack) - 1
        /\ \A d \in 1 .. Len(stack) - 1 : stack'[d] = stack[d]
    BY <2>1, <2>2, PopFrames
  <2>4. \A l \in LoopKinds : l = k \/ prng'[l] = prng[l]
    BY <2>1 DEF TypeOK
  <2> QED  BY <1>1, <2>2, <2>3, <2>4, PopShuffled
<1> QED  BY <1>3, <1>4

(* A round of the generator. *)
LEMMA ShuffleNextShuffled ==
    ASSUME IInv, TypeOK', DInv, SInv, ShuffleNext PROVE SInv'
<1> DEFINE k == Top.kind
           g == prng[k]
           R == Selects(Top.body, flags)
           failures == Failures(k, flags, suite.failed)
           drawn == Draw(g)
           reset == [drawn EXCEPT !.count = 0]
           h == [Top EXCEPT !.pos = 0]
<1>1. /\ TypeOK /\ InLoop /\ Top.pos = Len(Top.body) + 1 /\ g.initialized
      /\ UNCHANGED <<flags, suite>>
  BY DEF IInv, ShuffleNext, AtNext
<1>2. /\ k \in LoopKinds /\ g \in Prng /\ R \in SUBSET (DOMAIN Top.body)
      /\ LoopOK(Top, g, R, "top", failures) /\ Top \in Frames
  BY <1>1, TopLoop
<1>3. g.m > 0
  BY <1>1, <1>2, PastCalls, ModulusNow
<1>4. /\ drawn \in Prng /\ drawn.state = Round(g.a, g.m, g.state)
      /\ drawn.random_order = g.random_order /\ drawn.initialized = g.initialized
      /\ drawn.a = g.a /\ drawn.m = g.m /\ drawn.count_ceil = g.count_ceil
      /\ drawn.count_run = g.count_run /\ drawn.count = g.count
  <2> DEFINE v == Round(g.a, g.m, g.state)
  <2>1. drawn = [g EXCEPT !.state = v]
    BY DEF Draw, Round
  <2>2. drawn \in Prng
    BY <1>2, <1>3, DrawType
  <2> HIDE DEF v, drawn, g
  <2>3. /\ drawn.state = v
        /\ drawn.random_order = g.random_order /\ drawn.initialized = g.initialized
        /\ drawn.a = g.a /\ drawn.m = g.m /\ drawn.count_ceil = g.count_ceil
        /\ drawn.count_run = g.count_run /\ drawn.count = g.count
    BY <1>2, <2>1 DEF Prng
  <2> QED  BY <2>2, <2>3 DEF v
<1>5. \/ drawn.state >= drawn.count_ceil /\ prng' = [prng EXCEPT ![k] = drawn] /\ UNCHANGED stack
      \/ /\ ~(drawn.state >= drawn.count_ceil) /\ prng' = [prng EXCEPT ![k] = reset]
         /\ stack' = ReplaceTop(h)
  BY DEF ShuffleNext, Goto
<1>6. /\ h \in Frames /\ h.kind = k /\ h.body = Top.body /\ h.ran = Top.ran /\ h.pos = 0
  <2>1. 0 \in Nat
    OBVIOUS
  <2> QED  BY <1>1, <2>1, TopMoved
<1> HIDE DEF drawn, h
<1>7. /\ reset \in Prng /\ reset.state = drawn.state /\ reset.random_order = drawn.random_order
      /\ reset.initialized = drawn.initialized /\ reset.a = drawn.a /\ reset.m = drawn.m
      /\ reset.count_ceil = drawn.count_ceil /\ reset.count_run = drawn.count_run
      /\ reset.count = 0
  BY <1>4 DEF Prng
<1> HIDE DEF reset
<1> DEFINE f == Top
<1>8. /\ f \in Frames /\ g \in Prng /\ R \in SUBSET (DOMAIN f.body)
      /\ LoopOK(f, g, R, "top", failures) /\ g.initialized /\ f.pos = Len(f.body) + 1
  BY <1>1, <1>2
<1>9. CASE drawn.state >= drawn.count_ceil
  <2>1. LoopOK(f, drawn, R, "top", failures)
    <3> HIDE DEF f, g, R, failures
    <3> QED  BY ONLY <1>4, <1>8, <1>9, NextDraw
  <2>2. prng' = [prng EXCEPT ![k] = drawn] /\ stack' = ReplaceTop(f)
    BY <1>1, <1>5, <1>9, ReplaceSelf
  <2> QED  BY <1>1, <1>2, <1>4, <2>1, <2>2, LoopGoesOn
<1>10. CASE ~(drawn.state >= drawn.count_ceil)
  <2>1. LoopOK(h, reset, R, "top", failures)
    <3>1. h \in Frames /\ h.body = f.body /\ h.ran = f.ran /\ h.pos = 0
      BY <1>6
    <3>2. /\ reset.random_order = g.random_order /\ reset.initialized = g.initialized
          /\ reset.state = Round(g.a, g.m, g.state) /\ reset.a = g.a /\ reset.m = g.m
          /\ reset.count_ceil = g.count_ceil /\ reset.count_run = g.count_run
          /\ reset.count = 0 /\ ~(reset.state >= g.count_ceil)
      BY <1>4, <1>7, <1>10
    <3> HIDE DEF f, g, R, failures
    <3> QED  BY ONLY <1>7, <1>8, <3>1, <3>2, NextDraw
  <2>2. prng' = [prng EXCEPT ![k] = reset] /\ stack' = ReplaceTop(h)
    BY <1>5, <1>10
  <2> QED  BY <1>1, <1>2, <1>6, <1>7, <2>1, <2>2, LoopGoesOn
<1> QED  BY <1>9, <1>10

(* The end of the pass that counts. *)
LEMMA InitSecondPassShuffled ==
    ASSUME TypeOK, TypeOK', DInv, SInv, InitSecondPass PROVE SInv'
<1> DEFINE k == Top.kind
           g == prng[k]
           n == IF g.count = 0 THEN 0 ELSE Len(Top.body) + 2
           R == Selects(Top.body, flags)
           failures == Failures(k, flags, suite.failed)
           counted == [g EXCEPT !.initialized = TRUE, !.count_ceil = g.count]
           doubling == [counted EXCEPT !.m = 1]
           p == IF g.count = 0 THEN counted ELSE doubling
           h == [Top EXCEPT !.pos = n]
<1>1. /\ InLoop /\ Top.pos = Len(Top.body) + 1 /\ ~g.initialized /\ UNCHANGED <<flags, suite>>
      /\ prng' = [prng EXCEPT ![k] = p] /\ stack' = ReplaceTop(h)
  BY DEF InitSecondPass, AtNext, Goto
<1>2. /\ k \in LoopKinds /\ g \in Prng /\ R \in SUBSET (DOMAIN Top.body)
      /\ LoopOK(Top, g, R, "top", failures) /\ Top \in Frames
  BY <1>1, TopLoop
<1>3. n \in Nat
  BY PastCalls
<1>4. /\ h \in Frames /\ h.kind = k /\ h.body = Top.body /\ h.ran = Top.ran /\ h.pos = n
  <2> HIDE DEF n
  <2> QED  BY <1>3, TopMoved
<1> DEFINE f == Top
<1>5. /\ f \in Frames /\ g \in Prng /\ R \in SUBSET (DOMAIN f.body)
      /\ LoopOK(f, g, R, "top", failures) /\ ~g.initialized /\ f.pos = Len(f.body) + 1
      /\ h.body = f.body /\ h.ran = f.ran
  BY <1>1, <1>2, <1>4
<1> HIDE DEF h, g
<1>6. /\ counted \in Prng /\ counted.random_order = g.random_order /\ counted.initialized
      /\ counted.a = g.a /\ counted.count = g.count /\ counted.count_ceil = g.count
      /\ counted.count_run = g.count_run
  BY <1>2 DEF Prng
<1> HIDE DEF counted
<1>7. /\ doubling \in Prng /\ doubling.random_order = counted.random_order
      /\ doubling.initialized = counted.initialized
      /\ doubling.a = counted.a /\ doubling.count = counted.count
      /\ doubling.count_ceil = counted.count_ceil
      /\ doubling.count_run = counted.count_run /\ doubling.m = 1
  BY <1>6 DEF Prng
<1> HIDE DEF doubling
<1>8. /\ p \in Prng /\ p.random_order = g.random_order /\ p.initialized
      /\ p.a = g.a /\ p.count = g.count /\ p.count_ceil = g.count
      /\ p.count_run = g.count_run
  BY <1>6, <1>7
<1>9. IF g.count = 0 THEN h.pos = 0 ELSE h.pos = Len(h.body) + 2 /\ p.m = 1
  BY <1>4, <1>7
<1> HIDE DEF p
<1>10. LoopOK(h, p, R, "top", failures)
  <2> HIDE DEF f, R, failures
  <2> QED  BY ONLY <1>4, <1>5, <1>8, <1>9, CountEnds
<1> QED  BY <1>1, <1>2, <1>4, <1>8, <1>10, LoopGoesOn

(* The loop that doubles the modulus. *)
LEMMA DoubleModulusShuffled ==
    ASSUME TypeOK, TypeOK', DInv, SInv, DoubleModulus PROVE SInv'
<1> DEFINE k == Top.kind
           g == prng[k]
           R == Selects(Top.body, flags)
           failures == Failures(k, flags, suite.failed)
           doubled == [g EXCEPT !.m = 2 * @]
           reset == [g EXCEPT !.count = 0]
           p == IF g.m < g.count THEN doubled ELSE reset
           m == [Top EXCEPT !.pos = 0]
           h == IF g.m < g.count THEN Top ELSE m
<1>1. /\ InLoop /\ Top.pos = Len(Top.body) + 2 /\ UNCHANGED <<flags, suite>>
  BY DEF DoubleModulus
<1>2. /\ k \in LoopKinds /\ g \in Prng /\ R \in SUBSET (DOMAIN Top.body)
      /\ LoopOK(Top, g, R, "top", failures) /\ Top \in Frames
  BY <1>1, TopLoop
<1>3. prng' = [prng EXCEPT ![k] = p] /\ stack' = ReplaceTop(h)
  <2>1. CASE g.m < g.count
    BY <2>1, ReplaceSelf DEF DoubleModulus
  <2>2. CASE ~(g.m < g.count)
    BY <2>2 DEF DoubleModulus, Goto
  <2> QED  BY <2>1, <2>2
<1>4. /\ m \in Frames /\ m.kind = k /\ m.body = Top.body /\ m.ran = Top.ran /\ m.pos = 0
  <2>1. 0 \in Nat
    OBVIOUS
  <2> QED  BY <2>1, TopMoved
<1> HIDE DEF m
<1>5. /\ h \in Frames /\ h.kind = k /\ h.body = Top.body /\ h.ran = Top.ran
      /\ IF g.m < g.count THEN h.pos = Top.pos ELSE h.pos = 0
  BY <1>2, <1>4
<1> DEFINE f == Top
<1>6. /\ f \in Frames /\ g \in Prng /\ R \in SUBSET (DOMAIN f.body)
      /\ LoopOK(f, g, R, "top", failures) /\ f.pos = Len(f.body) + 2
      /\ h \in Frames /\ h.body = f.body /\ h.ran = f.ran
  BY <1>1, <1>2, <1>5
<1> HIDE DEF h, g
<1>7. /\ doubled \in Prng /\ doubled.random_order = g.random_order
      /\ doubled.initialized = g.initialized /\ doubled.a = g.a /\ doubled.state = g.state
      /\ doubled.count_ceil = g.count_ceil /\ doubled.count_run = g.count_run
      /\ doubled.m = 2 * g.m /\ doubled.count = g.count
  BY <1>2 DEF Prng
<1>8. /\ reset \in Prng /\ reset.random_order = g.random_order
      /\ reset.initialized = g.initialized /\ reset.a = g.a /\ reset.state = g.state
      /\ reset.count_ceil = g.count_ceil /\ reset.count_run = g.count_run
      /\ reset.m = g.m /\ reset.count = 0
  BY <1>2 DEF Prng
<1> HIDE DEF doubled, reset
<1>9. /\ p \in Prng /\ p.random_order = g.random_order
      /\ p.initialized = g.initialized /\ p.a = g.a /\ p.state = g.state
      /\ p.count_ceil = g.count_ceil /\ p.count_run = g.count_run
      /\ IF g.m < g.count THEN p.m = 2 * g.m /\ p.count = g.count ELSE p.m = g.m /\ p.count = 0
  BY <1>7, <1>8
<1> HIDE DEF p
<1>10. IF g.m < g.count THEN p.m = 2 * g.m /\ p.count = g.count /\ h.pos = f.pos
                         ELSE p.m = g.m /\ p.count = 0 /\ h.pos = 0
  BY <1>5, <1>9
<1>11. LoopOK(h, p, R, "top", failures)
  <2> HIDE DEF f, R, failures
  <2> QED  BY ONLY <1>6, <1>9, <1>10, ModulusDoubles
<1> QED  BY <1>1, <1>2, <1>3, <1>5, <1>9, <1>11, LoopGoesOn

(***************************************************************************)
(* SInv is inductive: the stages of a test, and what returns.              *)
(***************************************************************************)

(* Only loops keep a list of what ran. *)
LEMMA NoListOnTop == ASSUME TypeOK, SInv, ~InLoop PROVE Top.ran = <<>>
<1>1. InOrder(Top, prng, flags, At(stack, Len(stack)), suite.failed)
  BY TopFrame DEF SInv, Top
<1> QED  BY <1>1 DEF InOrder, InLoop

(* The setup hook returns: the test counts as run. *)
LEMMA SetupReturnShuffled ==
    ASSUME TypeOK, TypeOK', DInv, SInv, SetupReturn PROVE SInv'
<1> DEFINE n == Len(stack)
           k == "SHUFFLE_TESTS"
           p == [prng[k] EXCEPT !.count_run = @ + 1]
           g == [Top EXCEPT !.kind = "test"]
<1>1. /\ Top.kind = "setup" /\ stack' = [stack EXCEPT ![n].kind = "test"]
      /\ UNCHANGED flags /\ prng' = [prng EXCEPT ![k] = p]
  BY DEF SetupReturn, EnterTest
<1>2. Top.ran = <<>>
  BY <1>1, NoListOnTop DEF InLoop, LoopKinds
<1>3. /\ g \in Frames /\ g.kind = "test" /\ g.ran = <<>>
      /\ n \in 1 .. Len(stack) /\ stack \in Seq(Frames)
  BY <1>2, TopFrame, KindFacts DEF TypeOK, Frames
<1>4. stack' = [stack EXCEPT ![n] = g]
  BY <1>1 DEF Top
<1> HIDE DEF g
<1>5. Len(stack') = n /\ \A d \in 1 .. n : stack'[d] = IF d = n THEN g ELSE stack[d]
  BY <1>3, <1>4, ExceptSeq
<1>6. stack'[n] = g /\ \A d \in 1 .. Len(stack) - 1 : stack'[d] = stack[d]
  BY <1>3, <1>5, TopFrame
<1>7. prng'[k] = p /\ prng'["SHUFFLE_SUITES"] = prng["SHUFFLE_SUITES"]
  BY <1>1, KindFacts DEF TypeOK
<1>8. Resumed(prng[k], prng'[k], Top.kind)
  BY <1>1, <1>7 DEF Resumed
<1> HIDE DEF p
<1> QED  BY <1>1, <1>3, <1>5, <1>6, <1>7, <1>8, StageShuffled DEF Leaves

(* A test is over. *)
LEMMA FinishShuffled ==
    ASSUME TypeOK, TypeOK', MainAtBottom, DInv, SInv, UNCHANGED <<flags, prng>>,
           Top.kind \in TestKinds, NEW res, NEW frames \in Seq(Frames), Len(frames) = Len(stack),
           \A d \in 1 .. Len(stack) : frames[d] = stack[d], FinishTest(frames, res)
    PROVE  SInv'
<1>1. Top.kind # "setup" /\ Len(stack) - 1 \in 1 .. Len(stack)
  BY NotAtBottom DEF TestKinds
<1>2. stack' = SubSeq(frames, 1, Len(frames) - 1)
  BY DEF FinishTest
<1>3. Len(stack') = Len(stack) - 1 /\ \A d \in 1 .. Len(stack) - 1 : stack'[d] = stack[d]
  BY <1>1, <1>2, PopFrames
<1> QED  BY <1>1, <1>3, PopShuffled

(* A test goes on to its teardown hook, or is over. *)
LEMMA TestPostShuffled ==
    ASSUME TypeOK, TypeOK', MainAtBottom, DInv, SInv, UNCHANGED <<flags, prng>>,
           Top.kind = "test", NEW res \in Verdicts,
           NEW frames \in Seq(Frames), Len(frames) = Len(stack),
           \A d \in 1 .. Len(stack) : frames[d] = stack[d], TestPost(frames, res)
    PROVE  SInv'
<1>1. CASE teardown = NULL
  BY <1>1, FinishShuffled DEF TestPost, TestKinds
<1>2. CASE teardown # NULL
  <2> DEFINE n == Len(stack)
             g == [Top EXCEPT !.kind = "teardown", !.res = res, !.hook = teardown]
  <2>1. n \in 1 .. n /\ frames[n] = Top
    BY TopFrame DEF Top
  <2>2. stack' = [frames EXCEPT ![n] = g]
    BY <1>2, <2>1 DEF TestPost
  <2>3. Top.ran = <<>>
    BY NoListOnTop DEF InLoop, LoopKinds
  <2>4. g \in Frames
    BY TopFrame, KindFacts DEF TypeOK, Frames
  <2>5. g.kind = "teardown" /\ g.ran = <<>>
    BY <2>3, TopFrame DEF Frames
  <2> HIDE DEF g
  <2>6. /\ Len(stack') = n
        /\ \A d \in 1 .. n : stack'[d] = IF d = n THEN g ELSE frames[d]
    BY <2>1, <2>2, <2>4, ExceptSeq
  <2>7. stack'[n] = g /\ \A d \in 1 .. Len(stack) - 1 : stack'[d] = stack[d]
    BY <2>1, <2>6, TopFrame
  <2>8. Resumed(prng["SHUFFLE_TESTS"], prng'["SHUFFLE_TESTS"], Top.kind)
    BY DEF Resumed
  <2> QED  BY <2>5, <2>6, <2>7, <2>8, StageShuffled DEF Leaves
<1> QED  BY <1>1, <1>2

(* The test or its teardown hook returns. *)
LEMMA ReturnShuffled ==
    ASSUME TypeOK, TypeOK', MainAtBottom, DInv, SInv, TestReturn \/ TeardownReturn
    PROVE  SInv'
<1>1. stack \in Seq(Frames)
  BY DEF TypeOK
<1>2. CASE TestReturn
  <2>1. TestPost(stack, "passed") /\ Top.kind = "test" /\ UNCHANGED <<flags, prng>>
    BY <1>2 DEF TestReturn
  <2> QED  BY <1>1, <2>1, TestPostShuffled DEF Verdicts
<1>3. CASE TeardownReturn
  <2>1. FinishTest(stack, Top.res) /\ Top.kind = "teardown" /\ UNCHANGED <<flags, prng>>
    BY <1>3 DEF TeardownReturn
  <2> QED  BY <1>1, <2>1, FinishShuffled DEF TestKinds
<1> QED  BY <1>2, <1>3

(* A jump leads to the test that makes it. *)
LEMMA JumpShuffled ==
    ASSUME TypeOK, TypeOK', MainAtBottom, OneTest, DInv, SInv, Top.kind = "test",
           NEW res \in Verdicts, Jump(res), Unwound
    PROVE  SInv'
<1> DEFINE frames == SubSeq(stack, 1, Len(stack))
<1>1. JumpLive /\ jump_dest = Len(stack)
  BY TestJumps
<1>2. TestPost(frames, res) /\ UNCHANGED <<flags, prng>>
  BY <1>1 DEF Jump, Unwound
<1>3. Len(stack) \in 1 .. Len(stack) /\ frames \in Seq(Frames) /\ Len(frames) = Len(stack)
      /\ \A d \in 1 .. Len(stack) : frames[d] = stack[d]
  BY TopFrame, CutFrames DEF CutTo
<1> HIDE DEF frames
<1> QED  BY <1>2, <1>3, TestPostShuffled

(* A failure or a skip. *)
LEMMA UnwindShuffled ==
    ASSUME TypeOK, TypeOK', MainAtBottom, OneTest, DInv, SInv, Fail \/ Skip \/ Assert(FALSE)
    PROVE  SInv'
<1>1. /\ Unwound
      /\ \/ Raise /\ <<Top.kind, "FAIL">> \in Calls
         \/ Raise /\ <<Top.kind, "ASSERT_FALSE">> \in Calls
         \/ Jump("skipped") /\ <<Top.kind, "SKIP">> \in Calls
  BY DEF Fail, Skip, Assert
<1>2. Top.kind = "test"
  BY <1>1 DEF DInv, DocumentedUse, DocumentedCalls, LoopKinds
<1>3. CASE Raise /\ "ABORT_ON_FAIL" \in flags
  BY <1>1, <1>3, SameShuffled DEF Raise, Unwound
<1>4. CASE Jump("failed") \/ Jump("skipped")
  BY <1>1, <1>2, <1>4, JumpShuffled DEF Verdicts
<1> QED  BY <1>1, <1>3, <1>4 DEF Raise

(* A suite returns. *)
LEMMA SuiteReturnShuffled ==
    ASSUME TypeOK, TypeOK', MainAtBottom, DInv, SInv, SuiteReturn PROVE SInv'
<1>1. /\ Top.kind = "suite" /\ stack' = SubSeq(stack, 1, Len(stack) - 1)
      /\ UNCHANGED <<flags, prng>>
  BY DEF SuiteReturn
<1>2. stack \in Seq(Frames) /\ Len(stack) - 1 \in 1 .. Len(stack)
  BY <1>1, NotAtBottom DEF TypeOK
<1>3. Len(stack') = Len(stack) - 1 /\ \A d \in 1 .. Len(stack) - 1 : stack'[d] = stack[d]
  BY <1>1, <1>2, PopFrames
<1> QED  BY <1>1, <1>2, <1>3, PopShuffled

(***************************************************************************)
(* SInv is an invariant of shuffled use, and what follows from it.         *)
(***************************************************************************)

(* It holds at first. *)
LEMMA InitSInv == ShuffledUse /\ Init => SInv
<1> SUFFICES ASSUME ShuffledUse, Init PROVE SInv
  OBVIOUS
<1>1. /\ DOMAIN stack = {1} /\ stack[1].kind = "main" /\ stack[1].ran = <<>>
  BY DEF Init, Frame
<1>2. Ranked(stack)
  BY <1>1 DEF Ranked
<1>3. \A d \in DOMAIN stack : InOrder(stack[d], prng, flags, At(stack, d), suite.failed)
  BY <1>1 DEF InOrder, LoopKinds
<1> QED  BY <1>2, <1>3 DEF SInv

(* Every step keeps it. *)
LEMMA NextSInv == IInv /\ IInv' /\ DInv /\ SInv /\ [Next]_vars => SInv'
<1> SUFFICES ASSUME IInv, IInv', DInv, SInv, [Next]_vars PROVE SInv'
  OBVIOUS
<1>1. TypeOK /\ TypeOK' /\ MainAtBottom /\ OneTest
  BY DEF IInv, FramesOK
<1>2. CASE SetSetup \/ SetTeardown \/ \E suffix \in Suffixes : SetSuffix(suffix)
  BY <1>1, <1>2, QuietShuffled
<1>3. ASSUME NEW test \in Tests, RejectTest(test) \/ NestedTest(test) \/ StartTest(test)
      PROVE  SInv'
  BY <1>1, <1>3, RejectTestShuffled, NoNestedTest, StartTestShuffled
<1>4. CASE SetupReturn \/ TestReturn \/ TeardownReturn
  BY <1>1, <1>4, SetupReturnShuffled, ReturnShuffled
<1>5. CASE Fail \/ Skip \/ \E holds \in BOOLEAN : Assert(holds)
  <2>1. Fail \/ Skip \/ Assert(TRUE) \/ Assert(FALSE)
    BY <1>5
  <2> QED  BY <1>1, <2>1, AssertShuffled, UnwindShuffled
<1>6. ASSUME NEW name \in Suites, RejectSuite(name) \/ StartSuite(name) PROVE SInv'
  BY <1>1, <1>6, RejectSuiteShuffled, StartSuiteShuffled
<1>7. CASE SuiteReturn
  BY <1>1, <1>7, SuiteReturnShuffled
<1>8. ASSUME NEW kind \in LoopKinds, ShuffleInit(kind) PROVE SInv'
  BY <1>1, <1>8, ShuffleInitShuffled
<1>9. CASE ShuffleRunning \/ ShuffleNext \/ InitSecondPass \/ DoubleModulus
  BY <1>1, <1>9, ShuffleRunningShuffled, ShuffleNextShuffled, InitSecondPassShuffled,
     DoubleModulusShuffled
<1>10. CASE PrintReport \/ MainReturn
  BY <1>1, <1>10, ReportShuffled
<1>11. CASE Terminated \/ UNCHANGED vars
  BY <1>11, SameShuffled DEF Terminated, vars
<1> QED  BY <1>2, <1>3, <1>4, <1>5, <1>6, <1>7, <1>8, <1>9, <1>10, <1>11 DEF Next

(* For every client that keeps to shuffled use: each block's list of what  *)
(* has run, its counters and its generator agree in every state.           *)
THEOREM ShuffledInvariant == ShuffledUse /\ Spec => []SInv
<1>1. ShuffledUse => DocumentedUse
  BY DEF ShuffledUse
<1>2. DocumentedUse /\ Spec => []DInv
  BY DocumentedInvariant
<1> QED  BY <1>1, <1>2, RunnerInvariant, InitSInv, NextSInv, PTL DEF Spec

(* No call of a shuffled block runs its test or suite a second time,       *)
(* whatever the seed (itest_shuffle_next, itest.c:871-896).                *)
THEOREM ShuffleOnceCorrect == ShuffledUse /\ Spec => []ShuffleOnce
<1>1. SInv => ShuffleOnce
  <2> SUFFICES ASSUME SInv, NEW d \in DOMAIN stack
               PROVE  \A i, j \in DOMAIN stack[d].ran : stack[d].ran[i] = stack[d].ran[j] => i = j
    BY DEF ShuffleOnce
  <2> DEFINE f == stack[d]
  <2>1. InOrder(f, prng, flags, At(stack, d), suite.failed)
    BY DEF SInv
  <2>2. CASE f.kind \in LoopKinds
    <3>1. LoopOK(f, prng[f.kind], Selects(f.body, flags), At(stack, d),
                 Failures(f.kind, flags, suite.failed))
      BY <2>1, <2>2 DEF InOrder
    <3> QED  BY <3>1, NoneTwice
  <2>3. CASE f.kind \notin LoopKinds
    BY <2>1, <2>3 DEF InOrder
  <2> QED  BY <2>2, <2>3
<1> QED  BY <1>1, ShuffledInvariant, PTL

(* A step that shortens the stack under a block's feet is the block's end. *)
LEMMA OnlyBlockEnds ==
    ASSUME TypeOK, [Next]_vars, InLoop, Len(stack') < Len(stack)
    PROVE  ShuffleRunning /\ ~Running(prng[Top.kind])
<1> DEFINE n == Len(stack)
<1>1. n \in Nat /\ Top.kind \in LoopKinds /\ ~(n < n) /\ ~(n + 1 < n)
  BY TopFrame DEF InLoop
<1>2. ASSUME LikeStack(stack') PROVE FALSE
  BY <1>1, <1>2 DEF LikeStack
<1>3. ~(stack' = Caller)
  BY <1>2, CallerLike
<1>4. ASSUME NEW f \in Frames, PushedOn(stack', f) PROVE FALSE
  BY <1>1, <1>4 DEF PushedOn
<1>5. ASSUME NEW test \in Tests, StartTest(test) PROVE FALSE
  <2> DEFINE name  == <<test, name_suffix>>
             f     == Frame("setup", name, Top.owner)
             frame == [f EXCEPT !.hook = setup]
             fTest == [frame EXCEPT !.kind = "test"]
             s     == Append(CallerRan, frame)
  <2>1. name \in Names /\ setup \in Owners \union {NULL} /\ Top.owner \in Owners
    BY TopFrame DEF TypeOK, Names, Frames
  <2>2. f \in Frames
    BY <2>1, FrameType, KindFacts
  <2>3. stack' = s \/ stack' = [s EXCEPT ![Len(s)].kind = "test"]
    BY <1>5 DEF StartTest, EnterTest
  <2> HIDE DEF f
  <2>4. frame \in Frames /\ fTest \in Frames
    BY <2>1, <2>2, KindFacts DEF Frames
  <2> HIDE DEF frame
  <2>5. PushedOn(s, frame)
    BY <2>4, CallerLike, PushLike
  <2> HIDE DEF s
  <2>6. PushedOn([s EXCEPT ![Len(s)].kind = "test"], fTest)
    BY <2>4, <2>5, PushTest
  <2> HIDE DEF fTest
  <2> QED  BY <1>4, <2>3, <2>4, <2>5, <2>6
<1>6. ASSUME NEW name \in Suites, StartSuite(name) PROVE FALSE
  <2> DEFINE f == Frame("suite", Top.name, name)
             base == Printed
             g == [f EXCEPT !.base = base]
  <2>1. f \in Frames /\ stack' = Append(CallerRan, g) /\ base \in Counters
    BY <1>6, NewFrame, KindFacts, PrintedType DEF StartSuite, Owners
  <2> HIDE DEF f, base
  <2>2. g \in Frames
    BY <2>1 DEF Frames
  <2> HIDE DEF g
  <2> QED  BY <1>4, <2>1, <2>2, CallerLike, PushLike
<1>7. ~(ShuffleNext \/ InitSecondPass \/ DoubleModulus)
  <2>1. Len(Top.body) + 2 \in Nat /\ 0 \in Nat
    BY PastCalls
  <2> QED  BY <1>2, <2>1, StackLike, GotoLike DEF ShuffleNext, InitSecondPass, DoubleModulus,
           LikeStack, Like
<1>8. /\ \A fn : <<Top.kind, fn>> \notin Calls
      /\ Top.kind \notin {"setup", "test", "teardown", "suite", "main"}
  BY <1>1, CallbackCalls DEF LoopKinds
<1>9. ShuffleRunning
  <2>1. /\ ~Fail /\ ~Skip /\ \A holds \in BOOLEAN : ~Assert(holds)
        /\ ~SetupReturn /\ ~TestReturn /\ ~TeardownReturn /\ ~SuiteReturn /\ ~MainReturn
    BY <1>8 DEF Fail, Skip, Assert, SetupReturn, TestReturn, TeardownReturn, SuiteReturn, MainReturn
  <2>2. /\ ~SetSetup /\ ~SetTeardown /\ \A suffix \in Suffixes : ~SetSuffix(suffix)
        /\ \A test \in Tests : ~RejectTest(test) /\ ~NestedTest(test)
        /\ \A name \in Suites : ~RejectSuite(name)
        /\ ~PrintReport
    BY <1>3 DEF SetSetup, SetTeardown, SetSuffix, RejectTest, NestedTest, RejectSuite, PrintReport
  <2>3. \A kind \in LoopKinds : ~ShuffleInit(kind)
    BY DEF ShuffleInit
  <2>4. ~Terminated /\ ~UNCHANGED vars
    BY <1>1 DEF Terminated, vars
  <2> QED  BY <1>5, <1>6, <1>7, <2>1, <2>2, <2>3, <2>4 DEF Next
<1>10. ASSUME Running(prng[Top.kind]) PROVE FALSE
  <2>1. Goto(1) /\ 1 \in Nat
    BY <1>9, <1>10 DEF ShuffleRunning
  <2> QED  BY <1>2, <2>1, GotoLike
<1> QED  BY <1>9, <1>10

(* A block that ends has run all that it selects, or first-fail mode has   *)
(* stopped it.                                                             *)
LEMMA BlockEnds ==
    ASSUME TypeOK, SInv, [Next]_vars, InLoop, Len(stack') < Len(stack)
    PROVE  \/ {Top.ran[i] : i \in DOMAIN Top.ran} = ToRun(Top)
           \/ "FIRST_FAIL" \in flags /\ TallyOf("failed") > 0
<1> DEFINE g == prng[Top.kind]
           R == Selects(Top.body, flags)
           failures == Failures(Top.kind, flags, suite.failed)
<1>1. ShuffleRunning /\ ~Running(g)
  BY OnlyBlockEnds
<1>2. /\ Top \in Frames /\ g \in Prng /\ R \in SUBSET (DOMAIN Top.body) /\ Top.pos = 0
      /\ LoopOK(Top, g, R, "top", failures)
  BY <1>1, TopLoop DEF ShuffleRunning
<1>3. CASE "FIRST_FAIL" \in flags /\ (suite.failed > 0 \/ total.failed > 0)
  <2>1. suite.failed \in Nat /\ total.failed \in Nat
    BY DEF TypeOK, Counters
  <2>2. TallyOf("failed") = total.failed + suite.failed
    BY DEF TallyOf
  <2> QED  BY <1>3, <2>1, <2>2
<1>4. CASE ~("FIRST_FAIL" \in flags /\ (suite.failed > 0 \/ total.failed > 0))
  <2>1. g.initialized /\ ~(g.count_run < g.count_ceil)
    BY <1>1, <1>4 DEF Running
  <2>2. Ran(Top) = R
    <3> DEFINE f == Top
    <3>1. /\ f \in Frames /\ R \in SUBSET (DOMAIN f.body) /\ f.pos = 0
          /\ LoopOK(f, g, R, "top", failures)
      BY <1>2
    <3> HIDE DEF f, g, R, failures
    <3>2. Ran(f) = R
      BY ONLY <1>2, <2>1, <3>1, LoopDone
    <3> QED  BY <3>2 DEF f
  <2> QED  BY <2>2, SelectsToRun DEF Ran
<1> QED  BY <1>3, <1>4

(* A shuffled block that ends has run everything selected in it, whatever  *)
(* the seed, unless first-fail mode stopped it (itest_shuffle_running,     *)
(* itest.c:900-911).                                                       *)
THEOREM ShuffleCompleteCorrect == ShuffledUse /\ Spec => ShuffleComplete
<1>1. TypeOK /\ SInv /\ [Next]_vars =>
        [InLoop /\ Len(stack') < Len(stack) =>
           \/ {Top.ran[i] : i \in DOMAIN Top.ran} = ToRun(Top)
           \/ "FIRST_FAIL" \in flags /\ TallyOf("failed") > 0]_vars
  BY BlockEnds
<1>2. IInv => TypeOK
  BY DEF IInv
<1> QED  BY <1>1, <1>2, ShuffledInvariant, RunnerInvariant, PTL DEF Spec, ShuffleComplete

(***************************************************************************)
(* Why it ends: a loop's draws.                                            *)
(***************************************************************************)

(* A generator past the first pass, and what one that is like it draws.    *)
Draws(p) == p \in Prng /\ p.m \in Nat \ {0}
SameDraws(p, q) == q.a = p.a /\ q.m = p.m /\ q.count_ceil = p.count_ceil

(* Its values are those of the rounds. *)
LEMMA UpcomingOrbit ==
    ASSUME NEW p, Draws(p)
    PROVE  Orbit(p.a, p.m, Upcoming(p)) /\ Upcoming(p)[0] = p.state
<1> DEFINE F == [v \in Nat |-> Round(p.a, p.m, v)]
           Next0(y, n) == IF n = 0 THEN p.state
                                   ELSE Draw([p EXCEPT !.state = y[n - 1]]).state
           Is(y) == y = [n \in Nat |-> Next0(y, n)]
<1>1. p.a \in Nat /\ p.m \in Nat \ {0} /\ p.state \in Nat /\ p \in Prng
  BY DEF Draws, Prng
<1>2. F \in [Nat -> Nat]
  <2>1. ASSUME NEW v \in Nat PROVE Round(p.a, p.m, v) \in Nat
    <3>1. Round(p.a, p.m, v) \in 0 .. p.m - 1
      BY <1>1, RoundFacts
    <3> QED  BY <1>1, <3>1
  <2> QED  BY <2>1
<1>3. PICK x : x \in [Nat -> Nat] /\ x[0] = p.state /\ \A i \in Nat : x[i + 1] = F[x[i]]
  <2>1. Maps(Nat, F, p.state)
    BY <1>1, <1>2 DEF Maps
  <2> HIDE DEF F
  <2>2. PICK x : Iterates(Nat, F, p.state, x)
    BY <2>1, Iteration
  <2> QED  BY <2>2 DEF Iterates
<1>4. \A v : Draw([p EXCEPT !.state = v]).state = Round(p.a, p.m, v)
  BY <1>1 DEF Draw, Round, Prng
<1>5. Is(x)
  <2>1. ASSUME NEW n \in Nat PROVE x[n] = Next0(x, n)
    <3>1. CASE n = 0
      BY <1>3, <3>1
    <3>2. CASE n # 0
      <4>1. n - 1 \in Nat /\ n - 1 + 1 = n
        BY <3>2
      <4>2. x[n] = F[x[n - 1]] /\ x[n - 1] \in Nat
        BY <1>3, <4>1
      <4> QED  BY <1>4, <3>2, <4>2
    <3> QED  BY <3>1, <3>2
  <2> HIDE DEF Next0
  <2> QED  BY <1>3, <2>1
<1>6. Is(Upcoming(p))
  <2>1. Upcoming(p) = CHOOSE y : Is(y)
    BY DEF Upcoming
  <2> HIDE DEF Is
  <2> QED  BY <1>5, <2>1
<1> DEFINE u == Upcoming(p)
<1>7. u[0] = p.state /\ \A n \in Nat : u[n + 1] = Round(p.a, p.m, u[n])
  <2> HIDE DEF u
  <2>1. u = [n \in Nat |-> Next0(u, n)]
    BY <1>6 DEF u
  <2>2. u[0] = p.state
    BY <2>1
  <2>3. ASSUME NEW n \in Nat PROVE u[n + 1] = Round(p.a, p.m, u[n])
    <3>1. n + 1 \in Nat /\ n + 1 # 0 /\ n + 1 - 1 = n
      OBVIOUS
    <3>2. u[n + 1] = Next0(u, n + 1)
      BY <2>1, <3>1
    <3> QED  BY <1>4, <3>1, <3>2
  <2> QED  BY <2>2, <2>3
<1>8. u = [n \in Nat |-> u[n]]
  <2> HIDE DEF u, Next0
  <2>1. u = [n \in Nat |-> Next0(u, n)]
    BY <1>6 DEF u
  <2> QED  BY <2>1
<1>9. \A n \in Nat : u[n] \in Nat
  <2> DEFINE S == {n \in Nat : u[n] \in Nat}
  <2> HIDE DEF u
  <2>1. 0 \in S
    BY <1>1, <1>7
  <2>2. \A n \in Nat : n \in S => n + 1 \in S
    <3>1. ASSUME NEW n \in Nat, n \in S PROVE n + 1 \in S
      <4>1. u[n] \in Nat
        BY <3>1
      <4>2. Round(p.a, p.m, u[n]) \in 0 .. p.m - 1
        BY <1>1, <4>1, RoundFacts
      <4> QED  BY <1>1, <1>7, <4>2
    <3> QED  BY <3>1
  <2> HIDE DEF S
  <2>3. \A n \in Nat : n \in S
    BY <2>1, <2>2, NaturalInduction
  <2> QED  BY <2>3 DEF S
<1> HIDE DEF u
<1>10. u \in [Nat -> Nat]
  BY <1>8, <1>9
<1> QED  BY <1>7, <1>10 DEF u, Orbit

(* Orbits that meet stay together. *)
LEMMA OrbitsMeet ==
    ASSUME NEW a, NEW m, NEW x, NEW y, Orbit(a, m, x), Orbit(a, m, y),
           NEW k \in Nat, x[k] = y[0]
    PROVE  \A n \in Nat : x[k + n] = y[n]
<1> DEFINE S == {n \in Nat : x[k + n] = y[n]}
<1>1. 0 \in S
  OBVIOUS
<1>2. ASSUME NEW n \in Nat, n \in S PROVE n + 1 \in S
  <2>1. k + n \in Nat /\ k + (n + 1) = (k + n) + 1 /\ x[k + n] = y[n]
    BY <1>2
  <2>2. x[(k + n) + 1] = Round(a, m, x[k + n]) /\ y[n + 1] = Round(a, m, y[n])
    BY <2>1 DEF Orbit
  <2> QED  BY <2>1, <2>2
<1> HIDE DEF S
<1>3. \A n \in Nat : n \in S
  BY <1>1, <1>2, NaturalInduction
<1> QED  BY <1>3 DEF S

(***************************************************************************)
(* Why it ends: tuples and their order.                                    *)
(***************************************************************************)

(* Where the first difference of two tuples can be. *)
LEMMA LowerTuple ==
    ASSUME NEW a, NEW b,
           \/ /\ 1 \in DOMAIN b /\ b[1] \in Nat /\ a[1] \in Int /\ a[1] < b[1]
           \/ /\ 2 \in DOMAIN b /\ a[1] = b[1] /\ b[2] \in Nat /\ a[2] \in Int /\ a[2] < b[2]
           \/ /\ 3 \in DOMAIN b /\ a[1] = b[1] /\ a[2] = b[2]
              /\ b[3] \in Nat /\ a[3] \in Int /\ a[3] < b[3]
           \/ /\ 4 \in DOMAIN b /\ a[1] = b[1] /\ a[2] = b[2] /\ a[3] = b[3]
              /\ b[4] \in Nat /\ a[4] \in Int /\ a[4] < b[4]
    PROVE  Lower(a, b)
<1>1. /\ \A j \in 1 .. 1 - 1 : FALSE
      /\ \A j \in 1 .. 2 - 1 : j = 1
      /\ \A j \in 1 .. 3 - 1 : j = 1 \/ j = 2
      /\ \A j \in 1 .. 4 - 1 : j = 1 \/ j = 2 \/ j = 3
  OBVIOUS
<1> QED  BY <1>1 DEF Lower

(* The measure is below another if the first part that differs is lower.   *)
LEMMA BelowTuple ==
    ASSUME NEW a, NEW b, DOMAIN b = 1 .. 4,
           \/ Lower(a[1], b[1])
           \/ a[1] = b[1] /\ Lower(a[2], b[2])
           \/ a[1] = b[1] /\ a[2] = b[2] /\ Lower(a[3], b[3])
           \/ a[1] = b[1] /\ a[2] = b[2] /\ a[3] = b[3] /\ Lower(a[4], b[4])
    PROVE  Below(a, b)
<1>1. /\ \A j \in 1 .. 1 - 1 : FALSE
      /\ \A j \in 1 .. 2 - 1 : j = 1
      /\ \A j \in 1 .. 3 - 1 : j = 1 \/ j = 2
      /\ \A j \in 1 .. 4 - 1 : j = 1 \/ j = 2 \/ j = 3
  OBVIOUS
<1> QED  BY <1>1 DEF Below

(* The first draw that is a position. *)
HitAt(p, d) ==
    /\ d \in 1 .. p.m /\ Upcoming(p)[d] < p.count_ceil
    /\ \A i \in 1 .. d - 1 : Upcoming(p)[i] >= p.count_ceil

(* Hunt counts the draws up to it. *)
LEMMA HuntValue ==
    ASSUME NEW p, Draws(p), NEW d, HitAt(p, d)
    PROVE  Hunt(p) = d
<1> DEFINE u == Upcoming(p)
           m == p.m
           c == p.count_ceil
           S == {n \in 0 .. m : \A i \in 1 .. n : u[i] >= c}
           e == d - 1
<1>1. /\ m \in Nat /\ c \in Nat /\ \A n \in Nat : u[n] \in Nat
      /\ d \in 1 .. m /\ u[d] < c /\ \A i \in 1 .. e : u[i] >= c
  BY UpcomingOrbit DEF HitAt, Draws, Prng, Orbit
<1>2. Hunt(p) = Cardinality(S)
  BY DEF Hunt
<1> HIDE DEF u, m, c
<1>3. S = 0 .. e
  <2>1. ASSUME NEW n \in 0 .. e PROVE n \in S
    <3>1. n \in 0 .. m /\ \A i \in 1 .. n : i \in 1 .. e
      BY <1>1
    <3> QED  BY <1>1, <3>1
  <2>2. ASSUME NEW n \in S PROVE n \in 0 .. e
    <3>1. n \in Nat /\ d \in Nat /\ ~(u[d] >= c)
      BY <1>1
    <3>2. d \notin 1 .. n
      BY <3>1
    <3> QED  BY <1>1, <3>1, <3>2
  <2> HIDE DEF S
  <2> QED  BY <2>1, <2>2
<1>4. 0 \in Int /\ e \in Int /\ ~(0 > e) /\ e - 0 + 1 = d
  BY <1>1
<1> HIDE DEF S, e
<1>5. Cardinality(0 .. e) = d
  BY <1>4, FS_Interval
<1> QED  BY <1>2, <1>3, <1>5

(* There is one: the generator goes through all values below its modulus.  *)
LEMMA HitExists ==
    ASSUME NEW p, Draws(p), p.m \in PowersOfTwo, p.count_ceil # 0,
           \E s \in Nat : p.a = 1 + 4 * s
    PROVE  \E d : HitAt(p, d)
<1> DEFINE u == Upcoming(p)
           m == p.m
           c == p.count_ceil
           S == {n \in 1 .. m : u[n] < c}
<1>1. m \in Nat \ {0} /\ c \in Nat \ {0} /\ m \in PowersOfTwo /\ Orbit(p.a, m, u)
  BY UpcomingOrbit DEF Draws, Prng
<1>2. PICK s \in Nat : p.a = 1 + 4 * s
  OBVIOUS
<1>3. /\ HasPeriod(m, u) /\ u \in [Nat -> Int] /\ \A l \in Nat : u[l] \in Nat
      /\ \A l \in Nat : u[l + 1] \in 0 .. m - 1
  <2> HIDE DEF u, m
  <2> QED  BY ONLY <1>1, <1>2, OrbitPeriod
<1> HIDE DEF u, m, c
<1>4. \A j \in 1 .. 1 + m - 1 : u[j] \in 0 .. m - 1
  <2>1. ASSUME NEW j \in 1 .. 1 + m - 1 PROVE u[j] \in 0 .. m - 1
    <3>1. j - 1 \in Nat /\ j - 1 + 1 = j
      BY <1>1
    <3> QED  BY <1>3, <3>1
  <2> QED  BY <2>1
<1>5. \A v \in 0 .. m - 1 : \E j \in 1 .. 1 + m - 1 : u[j] = v
  <2>1. 1 \in Nat
    OBVIOUS
  <2> QED  BY <1>1, <1>3, <1>4, <2>1, VisitsAll
<1>6. PICK j \in 1 .. 1 + m - 1 : u[j] = 0
  <2>1. 0 \in 0 .. m - 1
    BY <1>1
  <2> QED  BY <1>5, <2>1
<1>7. j \in S /\ S \in SUBSET Nat
  BY <1>1, <1>6
<1> HIDE DEF S
<1>8. PICK d \in S : \A n \in S : d <= n
  BY <1>7, LeastMember
<1>9. d \in 1 .. m /\ u[d] < c
  BY <1>8 DEF S
<1>10. ASSUME NEW i \in 1 .. d - 1 PROVE u[i] >= c
  <2>1. i \in 1 .. m /\ ~(d <= i) /\ u[i] \in Nat
    BY <1>1, <1>3, <1>9
  <2>2. i \notin S
    BY <1>8, <2>1
  <2> QED  BY <1>1, <2>1, <2>2 DEF S
<1>11. HitAt(p, d)
  BY <1>9, <1>10 DEF HitAt, u, m, c
<1> QED  BY <1>11

(* Generators that agree on what they draw have as far to go.              *)
LEMMA SameHunt ==
    ASSUME NEW p, Draws(p), p.m \in PowersOfTwo, p.count_ceil # 0,
           \E s \in Nat : p.a = 1 + 4 * s,
           NEW q, Draws(q), SameDraws(p, q), q.state = p.state
    PROVE  Hunt(q) = Hunt(p)
<1>1. PICK d : HitAt(p, d)
  BY HitExists
<1>2. /\ Orbit(p.a, p.m, Upcoming(p)) /\ Orbit(p.a, p.m, Upcoming(q))
      /\ Upcoming(p)[0] = Upcoming(q)[0]
  BY UpcomingOrbit DEF SameDraws
<1>3. ASSUME NEW n \in Nat PROVE Upcoming(p)[n] = Upcoming(q)[n]
  <2>1. 0 \in Nat /\ 0 + n = n
    OBVIOUS
  <2>2. Upcoming(p)[0 + n] = Upcoming(q)[n]
    BY <1>2, <2>1, OrbitsMeet
  <2> QED  BY <2>1, <2>2
<1>4. HitAt(q, d)
  <2>1. d \in 1 .. p.m /\ p.m \in Nat
    BY <1>1 DEF HitAt, Draws
  <2>2. d \in Nat /\ \A i \in 1 .. d - 1 : i \in Nat
    BY <2>1
  <2> QED  BY <1>1, <1>3, <2>2 DEF HitAt, SameDraws
<1> QED  BY <1>1, <1>4, HuntValue

(* A draw brings it nearer. *)
LEMMA HuntNearer ==
    ASSUME NEW p, Draws(p), p.m \in PowersOfTwo, p.count_ceil # 0,
           \E s \in Nat : p.a = 1 + 4 * s,
           NEW q, Draws(q), SameDraws(p, q), q.state = Round(p.a, p.m, p.state)
    PROVE  /\ Hunt(p) \in Nat \ {0}
           /\ q.state >= p.count_ceil => Hunt(q) = Hunt(p) - 1
<1>1. PICK d : HitAt(p, d)
  BY HitExists
<1>2. d \in Nat \ {0} /\ d \in 1 .. p.m /\ p.m \in Nat
  BY <1>1 DEF HitAt, Draws
<1>3. Hunt(p) = d
  BY <1>1, HuntValue
<1>4. ASSUME q.state >= p.count_ceil PROVE Hunt(q) = d - 1
  <2> DEFINE u == Upcoming(p)
             v == Upcoming(q)
  <2>1. Orbit(p.a, p.m, u) /\ Orbit(p.a, p.m, v) /\ u[0] = p.state /\ v[0] = q.state
    BY UpcomingOrbit DEF SameDraws
  <2> HIDE DEF u, v
  <2>2. u[1] = v[0] /\ 1 \in Nat
    <3>1. u[0 + 1] = Round(p.a, p.m, u[0])
      BY <2>1 DEF Orbit
    <3> QED  BY <2>1, <3>1
  <2>3. \A n \in Nat : u[1 + n] = v[n]
    BY <2>1, <2>2, OrbitsMeet
  <2>4. d # 1
    <3>1. u[d] < p.count_ceil
      BY <1>1 DEF HitAt, u
    <3>2. u[1] >= p.count_ceil /\ u[1] \in Nat /\ p.count_ceil \in Nat
      <4>1. u[1] \in Nat
        BY <2>1 DEF Orbit
      <4> QED  BY <1>4, <2>1, <2>2, <4>1 DEF Draws, Prng
    <3> QED  BY <3>1, <3>2
  <2>5. /\ d - 1 \in 1 .. q.m /\ v[d - 1] < q.count_ceil
        /\ \A i \in 1 .. d - 1 - 1 : v[i] >= q.count_ceil
    <3>1. d - 1 \in Nat /\ 1 + (d - 1) = d /\ d - 1 \in 1 .. p.m
      BY <1>2, <2>4
    <3>2. u[d] < p.count_ceil /\ \A i \in 1 .. d - 1 : u[i] >= p.count_ceil
      BY <1>1 DEF HitAt, u
    <3>3. ASSUME NEW i \in 1 .. d - 1 - 1 PROVE v[i] >= p.count_ceil
      <4>1. i \in Nat /\ 1 + i \in 1 .. d - 1
        BY <3>1
      <4> QED  BY <2>3, <3>2, <4>1
    <3>4. v[d - 1] = u[d]
      BY <2>3, <3>1
    <3> QED  BY <3>1, <3>2, <3>3, <3>4 DEF SameDraws
  <2>6. HitAt(q, d - 1)
    BY <2>5 DEF HitAt, v
  <2> QED  BY <2>6, HuntValue
<1> QED  BY <1>2, <1>3, <1>4

(* Every number below theirs is the place of a selected call. *)
LEMMA PlaceTaken ==
    ASSUME NEW n, NEW R, Positions(R, n), NEW v \in Nat, v < Cardinality(R)
    PROVE  \E j \in R : Place(R, j) = v
<1> DEFINE S == {i \in Nat : v < Place(R, i + 1) => \E j \in R : Place(R, j) = v}
<1>1. /\ \A i \in Nat : Place(R, i) \in Nat
      /\ \A i \in R : Place(R, i + 1) = Place(R, i) + 1
      /\ \A i \in Nat : i \notin R => Place(R, i + 1) = Place(R, i)
      /\ Place(R, 1) = 0 /\ Place(R, n + 1) = Cardinality(R) /\ n \in Nat
  <2>1. \A i \in R : Place(R, i + 1) = Place(R, i) + 1
    BY Places
  <2> QED  BY <2>1, Places DEF Positions
<1>2. 0 \in S
  BY <1>1
<1>3. ASSUME NEW i \in Nat, i \in S PROVE i + 1 \in S
  <2>1. i + 1 \in Nat /\ Place(R, i + 1) \in Nat
    BY <1>1
  <2>2. CASE v < Place(R, i + 1)
    BY <1>3, <2>2
  <2>3. CASE i + 1 \in R /\ ~(v < Place(R, i + 1))
    BY <1>1, <2>1, <2>3
  <2>4. CASE i + 1 \notin R /\ ~(v < Place(R, i + 1))
    BY <1>1, <2>1, <2>4
  <2> QED  BY <2>2, <2>3, <2>4
<1> HIDE DEF S
<1>4. \A i \in Nat : i \in S
  BY <1>2, <1>3, NaturalInduction
<1> QED  BY <1>1, <1>4 DEF S

(***************************************************************************)
(* Why it ends: the work of a loop.                                        *)
(***************************************************************************)

(* The work is less if a part of it is and those before it are the same.   *)
LEMMA LessWork ==
    ASSUME NEW f, NEW p, NEW R, NEW h, NEW q,
           \/ LoopPhase(f, p) \in Nat /\ LoopPhase(h, q) \in Int
              /\ LoopPhase(h, q) < LoopPhase(f, p)
           \/ /\ LoopPhase(h, q) = LoopPhase(f, p)
              /\ \/ /\ Cardinality(R) - Len(f.ran) \in Nat /\ Cardinality(R) - Len(h.ran) \in Int
                    /\ Cardinality(R) - Len(h.ran) < Cardinality(R) - Len(f.ran)
                 \/ /\ h.ran = f.ran
                    /\ \/ /\ Search(f, p, R) \in Nat /\ Search(h, q, R) \in Int
                          /\ Search(h, q, R) < Search(f, p, R)
                       \/ /\ Search(h, q, R) = Search(f, p, R)
                          /\ ToGo(f) \in Nat /\ ToGo(h) \in Int /\ ToGo(h) < ToGo(f)
    PROVE  Lower(Work(h, q, R), Work(f, p, R))
<1> DEFINE a == Work(h, q, R)
           b == Work(f, p, R)
<1>1. /\ a[1] = LoopPhase(h, q) /\ a[2] = Cardinality(R) - Len(h.ran)
      /\ a[3] = Search(h, q, R) /\ a[4] = ToGo(h)
      /\ b[1] = LoopPhase(f, p) /\ b[2] = Cardinality(R) - Len(f.ran)
      /\ b[3] = Search(f, p, R) /\ b[4] = ToGo(f)
      /\ DOMAIN b = 1 .. 4
  BY DEF Work
<1> HIDE DEF a, b
<1>2. \/ b[1] \in Nat /\ a[1] \in Int /\ a[1] < b[1]
      \/ /\ a[1] = b[1] /\ b[2] \in Nat /\ a[2] \in Int /\ a[2] < b[2]
      \/ /\ a[1] = b[1] /\ a[2] = b[2] /\ b[3] \in Nat /\ a[3] \in Int /\ a[3] < b[3]
      \/ /\ a[1] = b[1] /\ a[2] = b[2] /\ a[3] = b[3] /\ b[4] \in Nat /\ a[4] \in Int
         /\ a[4] < b[4]
  BY <1>1
<1>3. Lower(a, b)
  BY ONLY <1>1, <1>2, LowerTuple
<1> QED  BY <1>3 DEF a, b

(* The phase of a loop that stands at a call, before them or after them.   *)
LEMMA PhaseValue ==
    ASSUME NEW f \in Frames, NEW p
    PROVE  /\ LoopPhase(f, p) \in {1, 2, 3}
           /\ LoopPhase(f, p) = 3 <=> ~p.initialized
           /\ LoopPhase(f, p) = 2 <=> p.initialized /\ f.pos = Len(f.body) + 2
  BY DEF LoopPhase

(* What the search is worth while calls are run. *)
LEMMA PickingSearch ==
    ASSUME NEW f \in Frames, NEW p, NEW R, p.initialized, f.pos # Len(f.body) + 2
    PROVE  /\ Due(f, p, R) => Search(f, p, R) = 0
           /\ f.pos = 0 /\ Cardinality(R) = Len(f.ran) => Search(f, p, R) = 0
           /\ ~Due(f, p, R) /\ ~(f.pos = 0 /\ Cardinality(R) = Len(f.ran))
                => Search(f, p, R) = Hunt(p)
<1>1. LoopPhase(f, p) = 1
  BY DEF LoopPhase
<1> QED  BY <1>1 DEF Search

(* Generators of a loop that has begun to pick draw. *)
LEMMA PickingDraws ==
    ASSUME NEW f \in Frames, NEW g \in Prng, NEW R, NEW at, NEW failures,
           LoopOK(f, g, R, at, failures), Picking(f, g, R, at, failures)
    PROVE  /\ Draws(g) /\ g.m \in PowersOfTwo /\ g.count_ceil # 0
           /\ \E s \in Nat : g.a = 1 + 4 * s
  BY PowerPositive DEF LoopOK, Picking, Draws

(* Another generator that differs in its counts alone, at another call.    *)
LEMMA SameSearch ==
    ASSUME NEW f \in Frames, NEW g \in Prng, NEW R, NEW at, NEW failures,
           LoopOK(f, g, R, at, failures), f.pos # Len(f.body) + 2,
           NEW h \in Frames, h.body = f.body, h.ran = f.ran, h.pos # Len(f.body) + 2,
           f.pos = 0 \/ h.pos = 0 => h.pos = f.pos \/ ~g.initialized \/ Len(f.ran) # Cardinality(R),
           NEW p \in Prng, p.initialized = g.initialized, SameDraws(g, p), p.state = g.state
    PROVE  LoopPhase(h, p) = LoopPhase(f, g) /\ Search(h, p, R) = Search(f, g, R)
<1>1. LoopPhase(h, p) = LoopPhase(f, g) /\ LoopPhase(f, g) # 2
  BY DEF LoopPhase
<1>2. CASE ~g.initialized
  BY <1>1, <1>2, PhaseValue DEF Search
<1>3. CASE g.initialized /\ Idle(f, g, R, at)
  <2>1. R = {} /\ Cardinality(R) = 0 /\ Len(f.ran) = 0 /\ f.pos = 0
    BY <1>3, FS_EmptySet DEF Idle
  <2>2. h.pos = 0 /\ p.initialized
    BY <1>3, <2>1
  <2> QED  BY <1>1, <1>3, <2>1, <2>2, PickingSearch
<1>4. CASE g.initialized /\ Picking(f, g, R, at, failures)
  <2>1. /\ Draws(g) /\ g.m \in PowersOfTwo /\ g.count_ceil # 0
        /\ \E s \in Nat : g.a = 1 + 4 * s
    BY <1>4, PickingDraws
  <2>2. Draws(p)
    BY <2>1 DEF Draws, SameDraws
  <2>3. Hunt(p) = Hunt(g)
    BY <2>1, <2>2, SameHunt
  <2>4. Due(h, p, R) <=> Due(f, g, R)
    BY DEF Due
  <2>5. p.initialized /\ (h.pos = 0 /\ Cardinality(R) = Len(h.ran) <=>
                          f.pos = 0 /\ Cardinality(R) = Len(f.ran))
    BY <1>4
  <2>6. CASE Due(f, g, R)
    BY <1>1, <1>4, <2>4, <2>5, <2>6, PickingSearch
  <2>7. CASE ~Due(f, g, R) /\ f.pos = 0 /\ Cardinality(R) = Len(f.ran)
    BY <1>1, <1>4, <2>5, <2>7, PickingSearch
  <2>8. CASE ~Due(f, g, R) /\ ~(f.pos = 0 /\ Cardinality(R) = Len(f.ran))
    BY <1>1, <1>4, <2>3, <2>4, <2>5, <2>8, PickingSearch
  <2> QED  BY <2>6, <2>7, <2>8
<1> QED  BY <1>2, <1>3, <1>4, Phase

(* The calls that are left to go by. *)
LEMMA ToGoFacts ==
    ASSUME NEW f \in Frames, NEW h \in Frames, h.body = f.body, h.pos = f.pos + 1,
           f.pos <= Len(f.body) + 1
    PROVE  ToGo(f) \in Nat /\ ToGo(h) \in Int /\ ToGo(h) < ToGo(f)
  BY BodyFacts DEF ToGo

(* A call that is passed by, or a round that begins. *)
LEMMA WorkPasses ==
    ASSUME NEW f \in Frames, NEW g \in Prng, NEW R, NEW failures,
           LoopOK(f, g, R, "top", failures), f.pos <= Len(f.body),
           f.pos = 0 => ~g.initialized \/ g.count_run < g.count_ceil,
           NEW h \in Frames, h.body = f.body, h.ran = f.ran, h.pos = f.pos + 1,
           NEW p \in Prng, p.initialized = g.initialized, SameDraws(g, p), p.state = g.state
    PROVE  Lower(Work(h, p, R), Work(f, g, R))
<1>1. /\ f.pos \in Nat /\ Len(f.body) \in Nat /\ f.pos # Len(f.body) + 2
      /\ h.pos # Len(f.body) + 2 /\ h.pos # 0
  BY BodyFacts
<1>2. ASSUME f.pos = 0, g.initialized PROVE Len(f.ran) # Cardinality(R)
  <2>1. g.count_run < g.count_ceil /\ g.count_run \in Nat /\ g.count_ceil \in Nat
    BY <1>2 DEF Prng
  <2>2. CASE Idle(f, g, R, "top")
    BY <2>1, <2>2 DEF Idle
  <2>3. CASE Picking(f, g, R, "top", failures)
    BY <2>1, <2>3 DEF Picking
  <2> QED  BY <1>2, <2>2, <2>3, Phase
<1>3. LoopPhase(h, p) = LoopPhase(f, g) /\ Search(h, p, R) = Search(f, g, R)
  BY <1>1, <1>2, SameSearch
<1>4. ToGo(f) \in Nat /\ ToGo(h) \in Int /\ ToGo(h) < ToGo(f)
  BY <1>1, ToGoFacts
<1> QED  BY <1>3, <1>4, LessWork

(* A call that runs. *)
LEMMA WorkRuns ==
    ASSUME NEW f \in Frames, NEW g \in Prng, NEW R \in SUBSET (DOMAIN f.body),
           LoopOK(f, g, R, "top", 0), g.initialized, f.pos \in R, g.count = g.state,
           NEW h \in Frames, h.body = f.body, h.pos = f.pos + 1, h.ran = Append(f.ran, f.pos),
           NEW p \in Prng, p.initialized = g.initialized
    PROVE  Lower(Work(h, p, R), Work(f, g, R))
<1>1. Picking(f, g, R, "top", 0) /\ Len(f.ran) < g.count_ceil
  <2>1. /\ Picking(f, g, R, "top", 0)
        /\ Place(R, f.pos) = g.state /\ Len(f.ran) < g.count_ceil
        /\ RunNow(R, f.pos, g.state) = {} /\ RunNow(R, f.pos + 1, g.state) = {f.pos}
        /\ f.pos \notin Ran(f) /\ Place(R, f.pos + 1) = Place(R, f.pos) + 1
    BY FreshCall
  <2> QED  BY <2>1
<1>2. /\ f.pos \in 1 .. Len(f.body) /\ Len(f.body) \in Nat /\ f.ran \in Seq(Nat)
      /\ g.count_ceil \in Nat /\ g.count_ceil = Cardinality(R)
  BY <1>1, BodyFacts DEF Picking, Prng
<1>3. LoopPhase(h, p) = LoopPhase(f, g)
  BY <1>2 DEF LoopPhase
<1>4. Len(h.ran) = Len(f.ran) + 1 /\ Len(f.ran) \in Nat
  BY <1>2
<1>5. /\ Cardinality(R) - Len(f.ran) \in Nat /\ Cardinality(R) - Len(h.ran) \in Int
      /\ Cardinality(R) - Len(h.ran) < Cardinality(R) - Len(f.ran)
  BY <1>1, <1>2, <1>4
<1> QED  BY <1>3, <1>5, LessWork

(* At the end of a pass nothing is due any more. *)
LEMMA NothingDue ==
    ASSUME NEW f \in Frames, NEW g \in Prng, NEW R \in SUBSET (DOMAIN f.body), NEW at,
           NEW failures, Picking(f, g, R, at, failures), f.pos = Len(f.body) + 1
    PROVE  ~Due(f, g, R)
<1> SUFFICES ASSUME NEW i \in R, \A k \in DOMAIN f.ran : f.ran[k] # i,
                    Cardinality({j \in R : j < i}) = g.state
             PROVE  FALSE
  BY DEF Due
<1>1. i < f.pos /\ Place(R, i) = g.state
  BY BodyFacts DEF Place
<1>2. i \in RunNow(R, f.pos, g.state)
  BY <1>1 DEF RunNow
<1>3. i \in Ran(f)
  BY <1>2 DEF Picking, RanBy
<1> QED  BY <1>3 DEF Ran

(* When a pass begins, what it will run is due, or all has been run.       *)
LEMMA DueOrDone ==
    ASSUME NEW h \in Frames, NEW p \in Prng, NEW R \in SUBSET (DOMAIN h.body), NEW failures,
           LoopOK(h, p, R, "top", failures), Picking(h, p, R, "top", failures),
           h.pos = 0, p.state < p.count_ceil
    PROVE  Due(h, p, R) \/ Cardinality(R) = Len(h.ran)
<1> DEFINE n == Len(h.body)
<1>1. /\ n \in Nat /\ Positions(R, n) /\ h.ran \in Seq(Nat) /\ p.state \in Nat
      /\ p.count_ceil = Cardinality(R) /\ p.m \in PowersOfTwo /\ p.m >= Cardinality(R)
      /\ \A q, r \in DOMAIN h.ran : h.ran[q] = h.ran[r] => q = r
  BY BodyFacts, BlockPositions DEF Picking, Prng
<1>2. PICK j \in R : Place(R, j) = p.state
  BY <1>1, PlaceTaken
<1>3. CASE j \notin Ran(h)
  BY <1>2, <1>3 DEF Due, Ran, Place
<1>4. CASE j \in Ran(h)
  <2>1. PICK x \in [Nat -> Nat], k \in Nat :
             /\ Orbit(p.a, p.m, x) /\ x[k] = p.state
             /\ Ran(h) = Visited(R, x, k) \union RunNow(R, h.pos, p.state)
    BY DEF Picking, RanBy
  <2>2. RunNow(R, h.pos, p.state) = {}
    BY <1>1, PassRuns
  <2>3. Ran(h) = Visited(R, x, k)
    BY <2>1, <2>2
  <2>4. \E i \in 0 .. k - 1 : x[i] = Place(R, j)
    BY <1>4, <2>3 DEF Visited
  <2>5. DrawnAgain(R, p.a, p.m, x, k)
    BY <1>1, <1>2, <2>1, <2>4 DEF DrawnAgain, LoopOK
  <2>6. Ran(h) = R
    BY <2>3, <2>5, AllDrawn
  <2> QED  BY <1>1, <2>6, RanCounts DEF Ran
<1> QED  BY <1>3, <1>4

(* A round of the generator: the search comes nearer, or to its end.       *)
LEMMA WorkDraws ==
    ASSUME NEW f \in Frames, NEW g \in Prng, NEW R \in SUBSET (DOMAIN f.body), NEW failures,
           LoopOK(f, g, R, "top", failures), g.initialized, f.pos = Len(f.body) + 1,
           NEW h \in Frames, h.body = f.body, h.ran = f.ran,
           NEW p \in Prng, p.initialized = g.initialized, SameDraws(g, p),
           p.state = Round(g.a, g.m, g.state), NEW more, LoopOK(h, p, R, "top", more),
           IF p.state >= g.count_ceil THEN h.pos = f.pos ELSE h.pos = 0
    PROVE  Lower(Work(h, p, R), Work(f, g, R))
<1>1. /\ Len(f.body) \in Nat /\ f.pos # 0 /\ f.pos # Len(f.body) + 2 /\ h.pos # Len(f.body) + 2
      /\ g.count_ceil \in Nat /\ p.state \in Nat
  <2>1. Len(f.body) \in Nat
    BY BodyFacts
  <2>2. g.count_ceil \in Nat /\ p.state \in Nat
    BY DEF Prng
  <2>3. f.pos # 0 /\ f.pos # Len(f.body) + 2
    BY <2>1
  <2>4. h.pos = Len(f.body) + 1 \/ h.pos = 0
    OBVIOUS
  <2>5. h.pos # Len(f.body) + 2
    BY <2>1, <2>4
  <2> QED  BY <2>1, <2>2, <2>3, <2>5
<1>2. Picking(f, g, R, "top", failures)
  BY <1>1, Phase
<1>3. /\ Draws(g) /\ g.m \in PowersOfTwo /\ g.count_ceil # 0
      /\ \E s \in Nat : g.a = 1 + 4 * s
  BY <1>2, PickingDraws
<1>4. Draws(p)
  BY <1>3 DEF Draws, SameDraws
<1>5. /\ Hunt(g) \in Nat \ {0}
      /\ p.state >= g.count_ceil => Hunt(p) = Hunt(g) - 1
  BY <1>3, <1>4, HuntNearer
<1>6. ~Due(f, g, R)
  BY <1>2, NothingDue
<1>7. Search(f, g, R) = Hunt(g)
  BY <1>1, <1>6, PickingSearch
<1>8. LoopPhase(h, p) = LoopPhase(f, g)
  BY <1>1 DEF LoopPhase
<1>9. CASE p.state >= g.count_ceil
  <2>1. h.pos # 0
    BY <1>1, <1>9
  <2>2. Search(h, p, R) = 0 \/ Search(h, p, R) = Hunt(g) - 1
    BY <1>1, <1>5, <1>9, <2>1, PickingSearch
  <2>3. Search(f, g, R) \in Nat /\ Search(h, p, R) \in Int /\ Search(h, p, R) < Search(f, g, R)
    BY <1>5, <1>7, <2>2
  <2> QED  BY <1>8, <2>3, LessWork
<1>10. CASE ~(p.state >= g.count_ceil)
  <2>1. h.pos = 0 /\ p.count_ceil = g.count_ceil /\ p.state < p.count_ceil
    BY <1>1, <1>10 DEF SameDraws
  <2>2. Picking(h, p, R, "top", more)
    <3>1. ~Idle(h, p, R, "top")
      BY <1>3, <2>1 DEF Idle
    <3> QED  BY <2>1, <3>1, Phase
  <2>3. R \in SUBSET (DOMAIN h.body)
    OBVIOUS
  <2>4. Due(h, p, R) \/ Cardinality(R) = Len(h.ran)
    BY <2>1, <2>2, <2>3, DueOrDone
  <2>5. Search(h, p, R) = 0
    BY <1>1, <2>1, <2>4, PickingSearch
  <2>6. Search(f, g, R) \in Nat /\ Search(h, p, R) \in Int /\ Search(h, p, R) < Search(f, g, R)
    BY <1>5, <1>7, <2>5
  <2> QED  BY <1>8, <2>6, LessWork
<1> QED  BY <1>9, <1>10

(* The end of the pass that counts. *)
LEMMA WorkCounted ==
    ASSUME NEW f \in Frames, NEW g, NEW R, ~g.initialized,
           NEW h \in Frames, NEW p, p.initialized
    PROVE  Lower(Work(h, p, R), Work(f, g, R))
<1>1. LoopPhase(f, g) = 3 /\ LoopPhase(h, p) \in {1, 2}
  BY DEF LoopPhase
<1>2. LoopPhase(f, g) \in Nat /\ LoopPhase(h, p) \in Int /\ LoopPhase(h, p) < LoopPhase(f, g)
  BY <1>1
<1> QED  BY <1>2, LessWork

(* The modulus doubles, or is great enough. *)
LEMMA WorkDoubles ==
    ASSUME NEW f \in Frames, NEW g \in Prng, NEW R, NEW failures,
           LoopOK(f, g, R, "top", failures), f.pos = Len(f.body) + 2,
           NEW h \in Frames, h.body = f.body, h.ran = f.ran,
           NEW p \in Prng, p.initialized = g.initialized,
           IF g.m < g.count THEN p.m = 2 * g.m /\ p.count = g.count /\ h.pos = f.pos
                            ELSE h.pos = 0
    PROVE  Lower(Work(h, p, R), Work(f, g, R))
<1>1. g.initialized /\ g.m \in Nat \ {0} /\ g.count \in Nat /\ LoopPhase(f, g) = 2
  BY Phase, PowerPositive DEF Doubling, LoopPhase, Prng
<1>2. CASE g.m < g.count
  <2>1. LoopPhase(h, p) = 2
    BY <1>1, <1>2 DEF LoopPhase
  <2>2. Search(f, g, R) = g.count - g.m /\ Search(h, p, R) = g.count - 2 * g.m
    BY <1>1, <1>2, <2>1 DEF Search
  <2>3. Search(f, g, R) \in Nat /\ Search(h, p, R) \in Int /\ Search(h, p, R) < Search(f, g, R)
    BY <1>1, <1>2, <2>2
  <2> QED  BY <1>1, <2>1, <2>3, LessWork
<1>3. CASE ~(g.m < g.count)
  <2>1. LoopPhase(h, p) = 1
    BY <1>1, <1>3, BodyFacts DEF LoopPhase
  <2>2. LoopPhase(f, g) \in Nat /\ LoopPhase(h, p) \in Int /\ LoopPhase(h, p) < LoopPhase(f, g)
    BY <1>1, <2>1
  <2> QED  BY <2>2, LessWork
<1> QED  BY <1>2, <1>3

(* The loop ends. *)
LEMMA WorkEnds ==
    ASSUME NEW f \in Frames, NEW g, NEW R
    PROVE  Lower(<<0, 0, 0, 0>>, Work(f, g, R))
<1> DEFINE a == <<0, 0, 0, 0>>
           b == Work(f, g, R)
<1>1. 1 \in DOMAIN b /\ b[1] = LoopPhase(f, g) /\ a[1] = 0
  BY DEF Work
<1>2. b[1] \in Nat /\ a[1] \in Int /\ a[1] < b[1]
  BY <1>1, PhaseValue
<1> HIDE DEF a, b
<1>3. Lower(a, b)
  BY ONLY <1>1, <1>2, LowerTuple
<1> QED  BY <1>3 DEF a, b

(* A call that goes on or returns leaves the loop under it as it is.       *)
LEMMA WorkStays ==
    ASSUME NEW f \in Frames, NEW g \in Prng, NEW R, NEW at, NEW failures,
           LoopOK(f, g, R, at, failures), at # "top",
           NEW p \in Prng, p.initialized = g.initialized, SameDraws(g, p), p.state = g.state
    PROVE  Work(f, p, R) = Work(f, g, R)
<1>1. f.pos # Len(f.body) + 2
  BY Phase DEF Doubling
<1>2. LoopPhase(f, p) = LoopPhase(f, g) /\ Search(f, p, R) = Search(f, g, R)
  BY <1>1, SameSearch
<1> QED  BY <1>2 DEF Work

(***************************************************************************)
(* Why it ends: the loops on a stack.                                      *)
(***************************************************************************)

(* LoopWork of a stack s with the generators g and the flags fl. *)
LoopIn(s, g, fl, kind) ==
    IF \E d \in DOMAIN s : s[d].kind = kind
    THEN LET f == s[CHOOSE d \in DOMAIN s : s[d].kind = kind]
         IN  Work(f, g[kind], Selects(f.body, fl))
    ELSE <<0, 0, 0, 0>>

(* It is that of the state before a step and of the state after it. *)
LEMMA LoopWorkIn ==
    ASSUME NEW kind
    PROVE  /\ LoopWork(kind) = LoopIn(stack, prng, flags, kind)
           /\ LoopWork(kind)' = LoopIn(stack', prng', flags', kind)
<1>1. /\ \A f : ToRun(f) = Selects(f.body, flags)
      /\ \A f : ToRun(f)' = Selects(f.body, flags')
  BY DEF ToRun, Runs, SuiteSelected, Selects
<1> QED  BY <1>1 DEF LoopWork, LoopIn

(* A ranked stack has one loop of a kind at most. *)
LEMMA OneLoop ==
    ASSUME NEW s \in Seq(Frames), Ranked(s), NEW d \in DOMAIN s, NEW e \in DOMAIN s,
           s[d].kind = s[e].kind
    PROVE  d = e
<1>1. d \in Nat /\ e \in Nat
  OBVIOUS
<1>2. ~(d < e) /\ ~(e < d)
  BY RankValues DEF Ranked
<1> QED  BY <1>1, <1>2

(* So its work is that of this loop. *)
LoopAt(s, d, kind) == s \in Seq(Frames) /\ Ranked(s) /\ d \in DOMAIN s /\ s[d].kind = kind
(* Its frame and its generator give it. *)
LEMMA LoopOf ==
    ASSUME NEW s, NEW g, NEW fl, NEW d, NEW kind, LoopAt(s, d, kind)
    PROVE  LoopIn(s, g, fl, kind) = Work(s[d], g[kind], Selects(s[d].body, fl))
<1> DEFINE e == CHOOSE c \in DOMAIN s : s[c].kind = kind
<1>1. e \in DOMAIN s /\ s[e].kind = kind
  BY DEF LoopAt
<1>2. e = d
  <2> HIDE DEF e
  <2> QED  BY <1>1, OneLoop DEF LoopAt
<1> QED  BY <1>1, <1>2 DEF LoopIn

(* Nothing is left of one that is not there. *)
LEMMA NoLoop ==
    ASSUME NEW s, NEW g, NEW fl, NEW kind, \A d \in DOMAIN s : s[d].kind # kind
    PROVE  LoopIn(s, g, fl, kind) = <<0, 0, 0, 0>>
  BY DEF LoopIn

(* A loop whose frame and whose work stay. *)
LEMMA LoopStays ==
    ASSUME NEW s \in Seq(Frames), Ranked(s), NEW t \in Seq(Frames), Ranked(t),
           NEW g, NEW q, NEW fl, NEW kind,
           \A d \in DOMAIN s : s[d].kind = kind =>
             /\ d \in DOMAIN t /\ t[d] = s[d]
             /\ Work(s[d], q[kind], Selects(s[d].body, fl))
                  = Work(s[d], g[kind], Selects(s[d].body, fl)),
           \A d \in DOMAIN t : t[d].kind = kind => d \in DOMAIN s /\ s[d].kind = kind
    PROVE  LoopIn(t, q, fl, kind) = LoopIn(s, g, fl, kind)
<1>1. CASE \E d \in DOMAIN s : s[d].kind = kind
  <2>1. PICK d \in DOMAIN s : s[d].kind = kind
    BY <1>1
  <2>2. d \in DOMAIN t /\ t[d] = s[d]
    BY <2>1
  <2>3. LoopIn(s, g, fl, kind) = Work(s[d], g[kind], Selects(s[d].body, fl))
    <3>1. LoopAt(s, d, kind)
      BY <2>1 DEF LoopAt
    <3> QED  BY <3>1, LoopOf
  <2>4. LoopIn(t, q, fl, kind) = Work(s[d], q[kind], Selects(s[d].body, fl))
    <3>1. LoopAt(t, d, kind)
      BY <2>1, <2>2 DEF LoopAt
    <3> QED  BY <2>2, <3>1, LoopOf
  <2> QED  BY <2>1, <2>3, <2>4
<1>2. CASE \A d \in DOMAIN s : s[d].kind # kind
  BY <1>2, NoLoop
<1> QED  BY <1>1, <1>2

(***************************************************************************)
(* Why it ends: the steps.                                                 *)
(***************************************************************************)

(* The budget of the client. *)
LEMMA BudgetLowers ==
    ASSUME TypeOK, status = "running",
           \/ status' # "running"
           \/ status' = "running" /\ calls < MaxCalls /\ calls' = calls + 1
           \/ /\ status' = "running" /\ calls' = calls
              /\ assertions < MaxAssertions /\ assertions' = assertions + 1
    PROVE  Below(Measure', Measure)
<1> DEFINE a == Budget'
           b == Budget
<1>1. /\ a[1] = (IF status' = "running" THEN 1 ELSE 0) /\ a[2] = MaxCalls - calls'
      /\ a[3] = MaxAssertions - assertions'
      /\ b[1] = 1 /\ b[2] = MaxCalls - calls /\ b[3] = MaxAssertions - assertions
      /\ DOMAIN b = 1 .. 3
  BY DEF Budget
<1>2. calls \in Nat /\ assertions \in Nat /\ MaxCalls \in Nat /\ MaxAssertions \in Nat
  BY BoundsAssumption DEF TypeOK
<1> HIDE DEF a, b
<1>3. \/ b[1] \in Nat /\ a[1] \in Int /\ a[1] < b[1]
      \/ /\ a[1] = b[1] /\ b[2] \in Nat /\ a[2] \in Int /\ a[2] < b[2]
      \/ /\ a[1] = b[1] /\ a[2] = b[2] /\ b[3] \in Nat /\ a[3] \in Int /\ a[3] < b[3]
  <2>1. CASE status' # "running"
    BY <1>1, <2>1
  <2>2. CASE status' = "running" /\ calls < MaxCalls /\ calls' = calls + 1
    BY <1>1, <1>2, <2>2
  <2>3. CASE /\ status' = "running" /\ calls' = calls
             /\ assertions < MaxAssertions /\ assertions' = assertions + 1
    BY <1>1, <1>2, <2>3
  <2> QED  BY <2>1, <2>2, <2>3
<1>4. Lower(a, b)
  BY ONLY <1>1, <1>3, LowerTuple
<1>5. Lower(Measure'[1], Measure[1]) /\ DOMAIN Measure = 1 .. 4
  BY <1>4 DEF Measure, a, b
<1> QED  BY <1>5, BelowTuple

(* The rest of the measure. *)
LEMMA RestLowers ==
    ASSUME UNCHANGED <<status, calls, assertions>>,
           \/ Lower(LoopIn(stack', prng', flags', "SHUFFLE_SUITES"),
                    LoopIn(stack, prng, flags, "SHUFFLE_SUITES"))
           \/ /\ LoopIn(stack', prng', flags', "SHUFFLE_SUITES")
                   = LoopIn(stack, prng, flags, "SHUFFLE_SUITES")
              /\ \/ Lower(LoopIn(stack', prng', flags', "SHUFFLE_TESTS"),
                          LoopIn(stack, prng, flags, "SHUFFLE_TESTS"))
                 \/ /\ LoopIn(stack', prng', flags', "SHUFFLE_TESTS")
                         = LoopIn(stack, prng, flags, "SHUFFLE_TESTS")
                    /\ Lower(Unreturned', Unreturned)
    PROVE  Below(Measure', Measure)
<1> DEFINE a == Measure'
           b == Measure
<1>1. /\ a[1] = b[1] /\ a[2] = LoopIn(stack', prng', flags', "SHUFFLE_SUITES")
      /\ b[2] = LoopIn(stack, prng, flags, "SHUFFLE_SUITES")
      /\ a[3] = LoopIn(stack', prng', flags', "SHUFFLE_TESTS")
      /\ b[3] = LoopIn(stack, prng, flags, "SHUFFLE_TESTS")
      /\ a[4] = Unreturned' /\ b[4] = Unreturned /\ DOMAIN b = 1 .. 4
  BY LoopWorkIn DEF Measure, Budget
<1> HIDE DEF a, b
<1>2. Below(a, b)
  BY <1>1, BelowTuple
<1> QED  BY <1>2 DEF a, b

(* A step of the loop on top: its work is less, and that of a loop of      *)
(* suites under one of tests the same.                                     *)
LEMMA LoopLowers ==
    ASSUME TypeOK, TypeOK', SInv, SInv', InLoop,
           UNCHANGED <<flags, status, calls, assertions>>,
           \A d \in 1 .. Len(stack) - 1 : d \in DOMAIN stack' /\ stack'[d] = stack[d],
           \A d \in DOMAIN stack' : d > Len(stack) => stack'[d].kind \notin LoopKinds,
           \A k \in LoopKinds : k = Top.kind \/ prng'[k] = prng[k],
           \/ Len(stack) \notin DOMAIN stack'
           \/ /\ Len(stack) \in DOMAIN stack'
              /\ stack'[Len(stack)].kind = Top.kind /\ stack'[Len(stack)].body = Top.body
              /\ Lower(Work(stack'[Len(stack)], prng'[Top.kind], Selects(Top.body, flags)),
                       Work(Top, prng[Top.kind], Selects(Top.body, flags)))
    PROVE  Below(Measure', Measure)
<1> DEFINE n == Len(stack)
           k == Top.kind
           In == LoopIn(stack, prng, flags, k)
           Out == LoopIn(stack', prng', flags', k)
<1>1. /\ stack \in Seq(Frames) /\ stack' \in Seq(Frames) /\ Ranked(stack) /\ Ranked(stack')
      /\ n \in DOMAIN stack /\ DOMAIN stack = 1 .. n /\ n \in Nat \ {0} /\ k \in LoopKinds
      /\ \A d \in DOMAIN stack' : d \in Nat \ {0}
  BY TopFrame DEF TypeOK, SInv, InLoop
<1>2. In = Work(Top, prng[k], Selects(Top.body, flags))
  <2>1. LoopAt(stack, n, k) /\ stack[n] = Top
    BY <1>1 DEF LoopAt, Top
  <2> HIDE DEF n, k
  <2> QED  BY <2>1, LoopOf
<1>3. Lower(Out, In)
  <2>1. CASE n \notin DOMAIN stack'
    <3>1. ASSUME NEW d \in DOMAIN stack' PROVE stack'[d].kind # k
      <4>1. CASE d > n
        BY <1>1, <4>1
      <4>2. CASE d < n
        <5>1. d \in 1 .. n - 1 /\ d \in DOMAIN stack
          BY <1>1, <4>2
        <5>2. stack'[d] = stack[d] /\ d # n
          BY <4>2, <5>1, <1>1
        <5> QED  BY <1>1, <5>1, <5>2, OneLoop DEF Top
      <4> QED  BY <1>1, <2>1, <4>1, <4>2
    <3>2. Out = <<0, 0, 0, 0>>
      BY <3>1, NoLoop
    <3> QED  BY <1>2, <3>2, TopFrame, WorkEnds
  <2>2. CASE n \in DOMAIN stack'
    <3>1. Out = Work(stack'[n], prng'[k], Selects(Top.body, flags))
      <4>1. LoopAt(stack', n, k) /\ stack'[n].body = Top.body /\ flags' = flags
        BY <1>1, <2>2 DEF LoopAt
      <4> HIDE DEF n, k
      <4> QED  BY <4>1, LoopOf
    <3> QED  BY <1>2, <2>2, <3>1
  <2> QED  BY <2>1, <2>2
<1>4. CASE k = "SHUFFLE_SUITES"
  BY <1>3, <1>4, RestLowers
<1>5. CASE k = "SHUFFLE_TESTS"
  <2> DEFINE o == "SHUFFLE_SUITES"
  <2>1. prng'[o] = prng[o] /\ o \in LoopKinds /\ o # k
    BY <1>5 DEF LoopKinds
  <2>2. ASSUME NEW d \in DOMAIN stack, stack[d].kind = o
        PROVE  d \in DOMAIN stack' /\ stack'[d] = stack[d]
    <3>1. d # n
      BY <2>1, <2>2 DEF Top
    <3>2. d \in 1 .. n - 1
      BY <1>1, <3>1
    <3> QED  BY <3>2
  <2>3. ASSUME NEW d \in DOMAIN stack', stack'[d].kind = o
        PROVE  d \in DOMAIN stack /\ stack[d].kind = o
    <3>1. ~(d > n) /\ d # n
      BY <2>1, <2>3
    <3>2. d \in 1 .. n - 1 /\ d \in DOMAIN stack
      BY <1>1, <3>1
    <3> QED  BY <2>3, <3>2
  <2>4. LoopIn(stack', prng', flags, o) = LoopIn(stack, prng, flags, o)
    <3> HIDE DEF o
    <3> QED  BY <1>1, <2>1, <2>2, <2>3, LoopStays
  <2> QED  BY <1>3, <1>5, <2>4, RestLowers
<1> QED  BY <1>1, <1>4, <1>5 DEF LoopKinds

(* A call out of every block uses up one of the client's calls. *)
LEMMA CallLowers ==
    ASSUME TypeOK, ~InLoop, NEW fn, NEW arg, Invoked(fn, arg), Counted, UNCHANGED status
    PROVE  Below(Measure', Measure)
  BY BudgetLowers DEF Invoked, Counted

(* The loop on top goes on as h, with the generator p. *)
LEMMA LoopGoesLower ==
    ASSUME TypeOK, TypeOK', SInv, SInv', InLoop,
           UNCHANGED <<flags, status, calls, assertions>>,
           NEW h \in Frames, stack' = ReplaceTop(h), h.kind = Top.kind, h.body = Top.body,
           NEW p \in Prng, prng' = [prng EXCEPT ![Top.kind] = p],
           Lower(Work(h, p, Selects(Top.body, flags)),
                 Work(Top, prng[Top.kind], Selects(Top.body, flags)))
    PROVE  Below(Measure', Measure)
<1> DEFINE n == Len(stack)
<1>1. /\ Len(stack') = n /\ stack'[n] = h /\ \A d \in 1 .. n - 1 : stack'[d] = stack[d]
  BY TopReplaced
<1>2. DOMAIN stack' = 1 .. n /\ n \in Nat \ {0}
  BY <1>1, TopFrame DEF TypeOK
<1>3. /\ \A d \in 1 .. n - 1 : d \in DOMAIN stack' /\ stack'[d] = stack[d]
      /\ \A d \in DOMAIN stack' : d > n => stack'[d].kind \notin LoopKinds
      /\ n \in DOMAIN stack'
  BY <1>1, <1>2
<1>4. prng'[Top.kind] = p /\ \A k \in LoopKinds : k = Top.kind \/ prng'[k] = prng[k]
  BY TopLoop DEF TypeOK
<1> QED  BY <1>1, <1>3, <1>4, LoopLowers

(* It passes by a call. *)
LEMMA PassLowers ==
    ASSUME TypeOK, TypeOK', SInv, SInv', InLoop,
           UNCHANGED <<flags, status, calls, assertions>>,
           Top.pos \in DOMAIN Top.body, stack' = Caller,
           NEW p \in Prng, prng' = [prng EXCEPT ![Top.kind] = p],
           p = prng[Top.kind] \/ p = [prng[Top.kind] EXCEPT !.count = @ + 1]
    PROVE  Below(Measure', Measure)
<1> DEFINE f == Top
           g == prng[Top.kind]
           R == Selects(Top.body, flags)
           failures == Failures(Top.kind, flags, suite.failed)
           h == Advanced
<1>1. /\ f \in Frames /\ g \in Prng /\ R \in SUBSET (DOMAIN f.body)
      /\ LoopOK(f, g, R, "top", failures) /\ f.pos \in 1 .. Len(f.body) /\ Len(f.body) \in Nat
      /\ f.pos + 1 \in Nat
  BY TopLoop, BodyFacts
<1>2. /\ h \in Frames /\ h.kind = f.kind /\ h.body = f.body /\ h.ran = f.ran
      /\ h.pos = f.pos + 1
  BY <1>1, TopMoved DEF Advanced
<1>3. stack' = ReplaceTop(h)
  BY DEF Caller
<1>4. p.initialized = g.initialized /\ SameDraws(g, p) /\ p.state = g.state
  BY <1>1 DEF Prng, SameDraws
<1>5. Lower(Work(h, p, R), Work(f, g, R))
  <2>1. f.pos <= Len(f.body) /\ f.pos # 0
    BY <1>1
  <2> HIDE DEF f, g, R, failures, h
  <2> QED  BY <1>1, <1>2, <1>4, <2>1, WorkPasses
<1> HIDE DEF h
<1> QED  BY <1>2, <1>3, <1>5, LoopGoesLower

(* A test that is not run, a suite that is not run, and a suffix. *)
LEMMA RejectLowers ==
    ASSUME TypeOK, TypeOK', DInv, SInv, SInv',
           \/ \E test \in Tests : RejectTest(test)
           \/ \E name \in Suites : RejectSuite(name)
           \/ \E suffix \in Suffixes : SetSuffix(suffix)
    PROVE  Below(Measure', Measure)
<1>1. PICK fn, arg : /\ Invoked(fn, arg) /\ stack' = Caller /\ Counted
                     /\ UNCHANGED <<flags, status, assertions>>
  BY DEF RejectTest, RejectSuite, SetSuffix, testVars
<1>2. CASE ~InLoop
  BY <1>1, <1>2, CallLowers
<1>3. CASE InLoop
  <2>1. /\ Top.pos \in DOMAIN Top.body /\ UNCHANGED calls /\ prng[Top.kind] \in Prng
        /\ prng[Top.kind].random_order
    BY <1>1, <1>3, BlockCall, TopLoop DEF Counted, LoopOK
  <2>2. \/ UNCHANGED prng
        \/ prng' = [prng EXCEPT ![Top.kind] = Tick(@)]
    <3>1. ASSUME NEW test \in Tests, RejectTest(test)
          PROVE  UNCHANGED prng \/ prng' = [prng EXCEPT ![Top.kind] = Tick(@)]
      <4>1. Top.kind = "SHUFFLE_TESTS"
        BY <1>3, <3>1, BlockCall DEF RejectTest
      <4> QED  BY <3>1, <4>1 DEF RejectTest
    <3>2. ASSUME NEW name \in Suites, RejectSuite(name)
          PROVE  UNCHANGED prng \/ prng' = [prng EXCEPT ![Top.kind] = Tick(@)]
      <4>1. Top.kind = "SHUFFLE_SUITES"
        BY <1>3, <3>2, BlockCall DEF RejectSuite
      <4> QED  BY <3>2, <4>1 DEF RejectSuite
    <3> QED  BY <3>1, <3>2 DEF SetSuffix
  <2>3. CASE UNCHANGED prng
    <3>1. prng' = [prng EXCEPT ![Top.kind] = prng[Top.kind]]
      BY <2>3 DEF TypeOK
    <3> QED  BY <1>1, <1>3, <2>1, <3>1, PassLowers
  <2>4. CASE prng' = [prng EXCEPT ![Top.kind] = Tick(@)]
    <3> DEFINE p == [prng[Top.kind] EXCEPT !.count = @ + 1]
    <3>1. p \in Prng /\ prng' = [prng EXCEPT ![Top.kind] = p]
      BY <2>1, <2>4 DEF Tick, Prng
    <3> QED  BY <1>1, <1>3, <2>1, <3>1, PassLowers
  <2> QED  BY <2>2, <2>3, <2>4
<1> QED  BY <1>2, <1>3

(* The other calls are made out of blocks. *)
LEMMA QuietLowers ==
    ASSUME TypeOK, OneTest, DInv, SInv,
           \/ SetSetup \/ SetTeardown \/ PrintReport
           \/ \E test \in Tests : NestedTest(test)
           \/ \E kind \in LoopKinds : ShuffleInit(kind)
    PROVE  Below(Measure', Measure)
<1>1. CASE SetSetup \/ SetTeardown \/ PrintReport
  <2>1. PICK fn \in {"SET_SETUP", "SET_TEARDOWN", "PRINT_REPORT"} :
             Invoked(fn, NULL) /\ Counted /\ UNCHANGED status
    BY <1>1 DEF SetSetup, SetTeardown, PrintReport
  <2>2. ~InLoop
    BY <2>1, BlockCall
  <2> QED  BY <2>1, <2>2, CallLowers
<1>2. ASSUME NEW test \in Tests, NestedTest(test) PROVE FALSE
  BY <1>2, NoNestedTest
<1>3. ASSUME NEW kind \in LoopKinds, ShuffleInit(kind) PROVE Below(Measure', Measure)
  BY <1>3, CallLowers DEF ShuffleInit
<1> QED  BY <1>1, <1>2, <1>3

(* Something is started: by the loop on top, which has one call less to run. *)
LEMMA StartLowers ==
    ASSUME TypeOK, TypeOK', SInv, SInv', InLoop,
           UNCHANGED <<flags, status, calls, assertions>>,
           NEW f \in Frames, Starts(stack', f), f.kind \notin LoopKinds,
           Failures(Top.kind, flags, suite.failed) = 0,
           Top.pos \in Selects(Top.body, flags),
           prng[Top.kind].initialized, prng[Top.kind].count = prng[Top.kind].state,
           NEW p \in Prng, prng' = [prng EXCEPT ![Top.kind] = p], p.initialized
    PROVE  Below(Measure', Measure)
<1> DEFINE n == Len(stack)
           h == stack'[n]
           g == prng[Top.kind]
           R == Selects(Top.body, flags)
           e == Top
<1>1. /\ n \in Nat \ {0} /\ Len(stack') = n + 1 /\ stack'[n + 1] = f
      /\ \A d \in 1 .. n - 1 : stack'[d] = stack[d]
      /\ h = CallerRan[n] /\ DOMAIN stack' = 1 .. n + 1
  BY TopFrame DEF Starts, TypeOK
<1>2. /\ h \in Frames /\ h.kind = Top.kind /\ h.body = Top.body /\ h.pos = Top.pos + 1
      /\ h.ran = Append(Top.ran, Top.pos)
  BY <1>1, RanTop
<1>3. /\ e \in Frames /\ g \in Prng /\ R \in SUBSET (DOMAIN e.body)
      /\ LoopOK(e, g, R, "top", 0)
  BY TopLoop
<1>4. Lower(Work(h, p, R), Work(e, g, R))
  <2>1. /\ h.body = e.body /\ h.pos = e.pos + 1 /\ h.ran = Append(e.ran, e.pos)
        /\ e.pos \in R /\ g.initialized /\ g.count = g.state
    BY <1>2
  <2> HIDE DEF h, g, R, e
  <2> QED  BY <1>2, <1>3, <2>1, WorkRuns
<1>5. prng'[Top.kind] = p /\ \A k \in LoopKinds : k = Top.kind \/ prng'[k] = prng[k]
  BY TopLoop DEF TypeOK
<1>6. /\ \A d \in 1 .. n - 1 : d \in DOMAIN stack' /\ stack'[d] = stack[d]
      /\ \A d \in DOMAIN stack' : d > n => stack'[d].kind \notin LoopKinds
      /\ n \in DOMAIN stack'
  <2>1. \A d \in DOMAIN stack' : d > n => d = n + 1
    BY <1>1
  <2> QED  BY <1>1, <2>1
<1> QED  BY <1>2, <1>4, <1>5, <1>6, LoopLowers

(* A test is started. *)
LEMMA StartTestLowers ==
    ASSUME TypeOK, TypeOK', DInv, SInv, SInv', NEW test \in Tests, StartTest(test)
    PROVE  Below(Measure', Measure)
<1> DEFINE k     == "SHUFFLE_TESTS"
           name  == <<test, name_suffix>>
           f     == Frame("setup", name, Top.owner)
           frame == [f EXCEPT !.hook = setup]
           fTest == [frame EXCEPT !.kind = "test"]
           s     == Append(CallerRan, frame)
           p     == Tick(prng[k])
           q     == [p EXCEPT !.count_run = @ + 1]
<1>1. /\ Invoked("RUN_TEST", test) /\ UNCHANGED <<flags, suite, status, assertions>>
      /\ Selected(name) /\ Drawn(prng[k]) /\ Counted
  BY DEF StartTest
<1>2. CASE ~InLoop
  BY <1>1, <1>2, CallLowers
<1>3. CASE InLoop
  <2>1. Top.kind = k /\ k \in LoopKinds /\ UNCHANGED calls
    BY <1>1, <1>3, BlockCall DEF Counted
  <2>2. Top.pos \in Selects(Top.body, flags) /\ Failures(k, flags, suite.failed) = 0
    BY <1>1, <1>3, <2>1, SelectedCall
  <2>3. /\ prng[k].initialized /\ prng[k].count = prng[k].state /\ prng[k] \in Prng
        /\ p = Counts(prng[k], "setup") /\ q = Counts(prng[k], "test")
    BY <1>1, <1>3, <2>1, DrawnCall, TopLoop
  <2>4. p \in Prng /\ p.initialized /\ q \in Prng /\ q.initialized
    <3> HIDE DEF p, q, k
    <3> QED  BY <2>3, CountsFields
  <2>5. name \in Names /\ setup \in Owners \union {NULL} /\ Top.owner \in Owners
    BY TopFrame DEF TypeOK, Names, Frames
  <2>6. f \in Frames /\ f.kind = "setup"
    BY <2>5, FrameType, KindFacts DEF Frame
  <2> HIDE DEF f, name
  <2>7. frame \in Frames /\ frame.kind = "setup"
    BY <2>5, <2>6 DEF Frames
  <2> HIDE DEF frame
  <2>8. fTest \in Frames /\ fTest.kind = "test"
    BY <2>7, KindFacts DEF Frames
  <2>9. Starts(s, frame) /\ Starts([s EXCEPT ![Len(s)].kind = "test"], fTest)
    BY <2>7, <2>8, Started
  <2> HIDE DEF fTest, s, p, q, k
  <2>10. CASE setup # NULL
    <3>1. Starts(stack', frame) /\ prng' = [prng EXCEPT ![k] = p]
      BY <2>9, <2>10 DEF StartTest, s, frame, f, name, p, k
    <3>2. frame.kind \notin LoopKinds
      BY <2>7 DEF LoopKinds
    <3> QED  BY <1>1, <1>3, <2>1, <2>2, <2>3, <2>4, <2>7, <3>1, <3>2, StartLowers
  <2>11. CASE setup = NULL
    <3>1. EnterTest(s, p)
      BY <2>11 DEF StartTest, s, frame, f, name, p, k
    <3>2. Starts(stack', fTest) /\ prng' = [prng EXCEPT ![k] = q]
      BY <2>9, <3>1 DEF EnterTest, k, q
    <3>3. fTest.kind \notin LoopKinds
      BY <2>8 DEF LoopKinds
    <3> QED  BY <1>1, <1>3, <2>1, <2>2, <2>3, <2>4, <2>8, <3>2, <3>3, StartLowers
  <2> QED  BY <2>10, <2>11
<1> QED  BY <1>2, <1>3

(* A suite is started. *)
LEMMA StartSuiteLowers ==
    ASSUME TypeOK, TypeOK', DInv, SInv, SInv', NEW name \in Suites, StartSuite(name)
    PROVE  Below(Measure', Measure)
<1> DEFINE k    == "SHUFFLE_SUITES"
           base == Printed
           f    == Frame("suite", Top.name, name)
           g    == [f EXCEPT !.base = base]
           s    == Append(CallerRan, g)
           p    == [Tick(prng[k]) EXCEPT !.count_run = @ + 1]
<1>1. /\ Invoked("RUN_SUITE", name) /\ UNCHANGED <<flags, status, assertions>> /\ stack' = s
      /\ prng' = [prng EXCEPT ![k] = p] /\ SuiteSelected(name) /\ Drawn(prng[k]) /\ Counted
  BY DEF StartSuite, testVars
<1>2. CASE ~InLoop
  BY <1>1, <1>2, CallLowers
<1>3. CASE InLoop
  <2>1. /\ Top.kind = k /\ k \in LoopKinds /\ UNCHANGED calls
        /\ Top.pos \in DOMAIN Top.body /\ Top.body[Top.pos] = <<"RUN_SUITE", name>>
    BY <1>1, <1>3, BlockCall DEF Counted
  <2>2. /\ prng[k].initialized /\ prng[k].count = prng[k].state /\ prng[k] \in Prng
        /\ p = Counts(prng[k], "suite")
    BY <1>1, <1>3, <2>1, DrawnCall, TopLoop
  <2>3. Top.pos \in Selects(Top.body, flags) /\ Failures(k, flags, suite.failed) = 0
    <3>1. Top.body[Top.pos][1] = "RUN_SUITE" /\ Top.body[Top.pos][2] = name
      BY <2>1
    <3> QED  BY <1>1, <2>1, <3>1 DEF Selects, SuiteSelected, Failures
  <2>4. p \in Prng /\ p.initialized
    <3> HIDE DEF p, k
    <3> QED  BY <2>2, CountsFields
  <2>5. f \in Frames /\ f.kind = "suite" /\ base \in Counters
    BY NewFrame, KindFacts, PrintedType DEF Owners
  <2> HIDE DEF f, base
  <2>6. g \in Frames /\ g.kind = "suite" /\ [g EXCEPT !.kind = "test"] \in Frames
    BY <2>5, KindFacts DEF Frames
  <2>7. Starts(stack', g)
    BY <1>1, <2>6, Started
  <2>8. g.kind \notin LoopKinds
    BY <2>6 DEF LoopKinds
  <2> HIDE DEF g, s, p, k
  <2> QED  BY <1>1, <1>3, <2>1, <2>2, <2>3, <2>4, <2>6, <2>7, <2>8, StartLowers
<1> QED  BY <1>2, <1>3

(* The loop's condition: a round begins, or the block ends. *)
LEMMA ShuffleRunningLowers ==
    ASSUME TypeOK, TypeOK', MainAtBottom, SInv, SInv', ShuffleRunning
    PROVE  Below(Measure', Measure)
<1> DEFINE k == Top.kind
           f == Top
           g == prng[k]
           R == Selects(Top.body, flags)
           failures == Failures(k, flags, suite.failed)
<1>1. InLoop /\ f.pos = 0 /\ UNCHANGED <<flags, calls, assertions, status>>
  BY DEF ShuffleRunning, testVars
<1>2. /\ k \in LoopKinds /\ g \in Prng /\ R \in SUBSET (DOMAIN f.body)
      /\ LoopOK(f, g, R, "top", failures) /\ f \in Frames
  BY <1>1, TopLoop
<1>3. CASE Running(g)
  <2> DEFINE h == [Top EXCEPT !.pos = 1]
  <2>1. stack' = ReplaceTop(h) /\ prng' = [prng EXCEPT ![k] = g]
    BY <1>2, <1>3 DEF ShuffleRunning, Goto, TypeOK
  <2>2. h \in Frames /\ h.kind = f.kind /\ h.body = f.body /\ h.ran = f.ran /\ h.pos = 1
    <3>1. 1 \in Nat
      OBVIOUS
    <3> QED  BY <3>1, TopMoved
  <2> HIDE DEF h
  <2>3. Lower(Work(h, g, R), Work(f, g, R))
    <3>1. /\ ~g.initialized \/ g.count_run < g.count_ceil
          /\ f.pos = 0 /\ f.pos <= Len(f.body) /\ h.pos = f.pos + 1 /\ SameDraws(g, g)
      BY <1>1, <1>2, <1>3, <2>2, BodyFacts DEF Running, SameDraws
    <3> HIDE DEF f, g, R, failures
    <3> QED  BY <1>2, <2>2, <3>1, WorkPasses
  <2> QED  BY <1>1, <1>2, <2>1, <2>2, <2>3, LoopGoesLower
<1>4. CASE ~Running(g)
  <2> DEFINE n == Len(stack)
  <2>1. /\ stack' = SubSeq(stack, 1, n - 1)
        /\ prng' = [prng EXCEPT ![k] = ZeroPrng]
    BY <1>4 DEF ShuffleRunning
  <2>2. stack \in Seq(Frames) /\ n - 1 \in 1 .. n
    BY <1>1, NotAtBottom DEF TypeOK, InLoop, LoopKinds
  <2>3. /\ Len(stack') = n - 1
        /\ \A d \in 1 .. n - 1 : stack'[d] = stack[d]
    BY <2>1, <2>2, PopFrames
  <2>4. DOMAIN stack' = 1 .. n - 1 /\ n \in Nat
    BY <2>3, TopFrame DEF TypeOK
  <2>5. /\ \A d \in 1 .. n - 1 : d \in DOMAIN stack' /\ stack'[d] = stack[d]
        /\ \A d \in DOMAIN stack' : d > n => stack'[d].kind \notin LoopKinds
        /\ n \notin DOMAIN stack'
    BY <2>3, <2>4
  <2>6. \A l \in LoopKinds : l = k \/ prng'[l] = prng[l]
    BY <2>1 DEF TypeOK
  <2> QED  BY <1>1, <2>5, <2>6, LoopLowers
<1> QED  BY <1>3, <1>4

(* A round of the generator. *)
LEMMA ShuffleNextLowers ==
    ASSUME IInv, TypeOK', SInv, SInv', ShuffleNext PROVE Below(Measure', Measure)
<1> DEFINE k == Top.kind
           f == Top
           g == prng[k]
           R == Selects(Top.body, flags)
           failures == Failures(k, flags, suite.failed)
           drawn == Draw(g)
           reset == [drawn EXCEPT !.count = 0]
           h == [Top EXCEPT !.pos = 0]
<1>1. /\ TypeOK /\ InLoop /\ f.pos = Len(f.body) + 1 /\ g.initialized
      /\ UNCHANGED <<flags, suite, calls, assertions, status>>
  BY DEF IInv, ShuffleNext, AtNext, testVars
<1>2. /\ k \in LoopKinds /\ g \in Prng /\ R \in SUBSET (DOMAIN f.body)
      /\ LoopOK(f, g, R, "top", failures) /\ f \in Frames
  BY <1>1, TopLoop
<1>3. g.m > 0
  BY <1>1, <1>2, PastCalls, ModulusNow
<1>4. /\ drawn \in Prng /\ drawn.state = Round(g.a, g.m, g.state)
      /\ drawn.initialized = g.initialized /\ SameDraws(g, drawn)
  <2> DEFINE v == Round(g.a, g.m, g.state)
  <2>1. drawn = [g EXCEPT !.state = v]
    BY DEF Draw, Round
  <2>2. drawn \in Prng
    BY <1>2, <1>3, DrawType
  <2> HIDE DEF v, drawn, g
  <2>3. drawn.state = v /\ drawn.initialized = g.initialized /\ SameDraws(g, drawn)
    BY <1>2, <2>1 DEF Prng, SameDraws
  <2> QED  BY <2>2, <2>3 DEF v
<1>5. \/ drawn.state >= drawn.count_ceil /\ prng' = [prng EXCEPT ![k] = drawn] /\ UNCHANGED stack
      \/ /\ ~(drawn.state >= drawn.count_ceil) /\ prng' = [prng EXCEPT ![k] = reset]
         /\ stack' = ReplaceTop(h)
  BY DEF ShuffleNext, Goto
<1>6. h \in Frames /\ h.kind = k /\ h.body = f.body /\ h.ran = f.ran /\ h.pos = 0
  <2>1. 0 \in Nat
    OBVIOUS
  <2> QED  BY <1>1, <2>1, TopMoved
<1> HIDE DEF drawn, h
<1>7. /\ reset \in Prng /\ reset.state = drawn.state /\ reset.initialized = drawn.initialized
      /\ SameDraws(g, reset)
  BY <1>4 DEF Prng, SameDraws
<1> HIDE DEF reset
<1> DEFINE to == IF drawn.state >= drawn.count_ceil THEN f ELSE h
           p == IF drawn.state >= drawn.count_ceil THEN drawn ELSE reset
<1>8. stack' = ReplaceTop(to) /\ prng' = [prng EXCEPT ![k] = p]
  BY <1>1, <1>5, ReplaceSelf
<1>9. /\ to \in Frames /\ to.kind = f.kind /\ to.body = f.body /\ to.ran = f.ran
      /\ p \in Prng /\ p.initialized = g.initialized /\ SameDraws(g, p)
      /\ p.state = Round(g.a, g.m, g.state)
      /\ IF p.state >= g.count_ceil THEN to.pos = f.pos ELSE to.pos = 0
  <2>1. drawn.count_ceil = g.count_ceil /\ f.kind = k
    BY <1>4 DEF SameDraws
  <2> HIDE DEF f, g
  <2> QED  BY <1>2, <1>4, <1>6, <1>7, <2>1
<1> HIDE DEF to, p
<1>10. LoopOK(to, p, R, "top", failures)
  <2> DEFINE n == Len(stack)
  <2>1. Len(stack') = n /\ stack'[n] = to /\ n \in DOMAIN stack'
    <3>1. Len(stack') = n /\ stack'[n] = to
      BY <1>1, <1>8, <1>9, TopReplaced
    <3> QED  BY <1>1, <3>1, TopFrame DEF TypeOK
  <2>2. InOrder(stack'[n], prng', flags', At(stack', n), suite'.failed)
    BY <2>1 DEF SInv
  <2>3. At(stack', n) = "top" /\ prng'[k] = p
    BY <1>1, <1>2, <1>8, <2>1 DEF At, TypeOK
  <2>4. to.kind = k /\ to.body = Top.body
    BY <1>9
  <2> QED  BY <1>1, <1>2, <2>1, <2>2, <2>3, <2>4 DEF InOrder
<1>11. Lower(Work(to, p, R), Work(f, g, R))
  <2> HIDE DEF f, g, R, failures
  <2> QED  BY <1>1, <1>2, <1>9, <1>10, WorkDraws
<1> QED  BY <1>1, <1>8, <1>9, <1>11, LoopGoesLower

(* The end of the pass that counts. *)
LEMMA InitSecondPassLowers ==
    ASSUME TypeOK, TypeOK', SInv, SInv', InitSecondPass PROVE Below(Measure', Measure)
<1> DEFINE k == Top.kind
           g == prng[k]
           n == IF g.count = 0 THEN 0 ELSE Len(Top.body) + 2
           R == Selects(Top.body, flags)
           counted == [g EXCEPT !.initialized = TRUE, !.count_ceil = g.count]
           p == IF g.count = 0 THEN counted ELSE [counted EXCEPT !.m = 1]
           h == [Top EXCEPT !.pos = n]
<1>1. /\ InLoop /\ ~g.initialized /\ UNCHANGED <<flags, calls, assertions, status>>
      /\ prng' = [prng EXCEPT ![k] = p] /\ stack' = ReplaceTop(h)
  BY DEF InitSecondPass, AtNext, Goto, testVars
<1>2. k \in LoopKinds /\ g \in Prng /\ Top \in Frames
  BY <1>1, TopLoop
<1>3. n \in Nat
  BY PastCalls
<1>4. h \in Frames /\ h.kind = k /\ h.body = Top.body
  <2> HIDE DEF n
  <2> QED  BY <1>3, TopMoved
<1>5. p \in Prng /\ p.initialized
  <2>1. counted \in Prng /\ counted.initialized
    BY <1>2 DEF Prng
  <2> HIDE DEF counted, g
  <2> QED  BY <2>1 DEF Prng
<1> HIDE DEF h, p, g
<1>6. Lower(Work(h, p, R), Work(Top, g, R))
  BY <1>1, <1>2, <1>4, <1>5, WorkCounted
<1> QED  BY <1>1, <1>4, <1>5, <1>6, LoopGoesLower DEF g

(* The loop that doubles the modulus. *)
LEMMA DoubleModulusLowers ==
    ASSUME TypeOK, TypeOK', SInv, SInv', DoubleModulus PROVE Below(Measure', Measure)
<1> DEFINE k == Top.kind
           f == Top
           g == prng[k]
           R == Selects(Top.body, flags)
           failures == Failures(k, flags, suite.failed)
           doubled == [g EXCEPT !.m = 2 * @]
           reset == [g EXCEPT !.count = 0]
           p == IF g.m < g.count THEN doubled ELSE reset
           m == [Top EXCEPT !.pos = 0]
           h == IF g.m < g.count THEN Top ELSE m
<1>1. /\ InLoop /\ f.pos = Len(f.body) + 2 /\ UNCHANGED <<flags, calls, assertions, status>>
  BY DEF DoubleModulus, testVars
<1>2. /\ k \in LoopKinds /\ g \in Prng /\ R \in SUBSET (DOMAIN f.body)
      /\ LoopOK(f, g, R, "top", failures) /\ f \in Frames
  BY <1>1, TopLoop
<1>3. prng' = [prng EXCEPT ![k] = p] /\ stack' = ReplaceTop(h)
  <2>1. CASE g.m < g.count
    BY <1>1, <2>1, ReplaceSelf DEF DoubleModulus
  <2>2. CASE ~(g.m < g.count)
    BY <1>1, <2>2 DEF DoubleModulus, Goto
  <2> QED  BY <2>1, <2>2
<1>4. /\ m \in Frames /\ m.kind = k /\ m.body = f.body /\ m.ran = f.ran /\ m.pos = 0
  <2>1. 0 \in Nat
    OBVIOUS
  <2> QED  BY <2>1, TopMoved
<1> HIDE DEF m
<1>5. /\ doubled \in Prng /\ doubled.initialized = g.initialized
      /\ doubled.m = 2 * g.m /\ doubled.count = g.count
      /\ reset \in Prng /\ reset.initialized = g.initialized
  BY <1>2 DEF Prng
<1> HIDE DEF doubled, reset
<1>6. /\ h \in Frames /\ h.kind = k /\ h.body = f.body /\ h.ran = f.ran
      /\ p \in Prng /\ p.initialized = g.initialized
      /\ IF g.m < g.count THEN p.m = 2 * g.m /\ p.count = g.count /\ h.pos = f.pos
                          ELSE h.pos = 0
  BY <1>2, <1>4, <1>5
<1> HIDE DEF h, p
<1>7. Lower(Work(h, p, R), Work(f, g, R))
  <2> HIDE DEF f, g, R, failures
  <2> QED  BY <1>1, <1>2, <1>6, WorkDoubles
<1> QED  BY <1>1, <1>3, <1>6, <1>7, LoopGoesLower

(* A callback that returns, or a test that goes on to its next stage: the  *)
(* loops under it stay as they are. *)
LEMMA ReturnLowers ==
    ASSUME TypeOK, TypeOK', SInv, SInv', ~InLoop,
           UNCHANGED <<flags, status, calls, assertions>>,
           \A d \in 1 .. Len(stack) - 1 : stack'[d] = stack[d],
           \A k \in LoopKinds : /\ prng'[k].initialized = prng[k].initialized
                                /\ SameDraws(prng[k], prng'[k])
                                /\ prng'[k].state = prng[k].state,
           \/ Len(stack') = Len(stack) - 1
           \/ /\ Len(stack') = Len(stack)
              /\ \/ Top.kind = "setup" /\ stack'[Len(stack)].kind = "test"
                 \/ Top.kind = "test" /\ stack'[Len(stack)].kind = "teardown"
    PROVE  Below(Measure', Measure)
<1> DEFINE n == Len(stack)
<1>1. /\ stack \in Seq(Frames) /\ stack' \in Seq(Frames) /\ Ranked(stack) /\ Ranked(stack')
      /\ n \in DOMAIN stack /\ DOMAIN stack = 1 .. n /\ n \in Nat \ {0}
      /\ DOMAIN stack' = 1 .. Len(stack')
  BY TopFrame DEF TypeOK, SInv
<1>a. /\ \A d \in DOMAIN stack : d # n => d \in 1 .. n - 1 /\ d \in DOMAIN stack'
      /\ \A d \in DOMAIN stack' : d # n => d \in 1 .. n - 1 /\ d \in DOMAIN stack
      /\ n \in DOMAIN stack' => stack'[n].kind \notin LoopKinds
  <2>1. CASE Len(stack') = n - 1
    <3>1. DOMAIN stack' = 1 .. n - 1
      BY <1>1, <2>1
    <3> HIDE DEF n
    <3> QED  BY <1>1, <3>1
  <2>2. CASE /\ Len(stack') = n
             /\ \/ Top.kind = "setup" /\ stack'[n].kind = "test"
                \/ Top.kind = "test" /\ stack'[n].kind = "teardown"
    <3>1. DOMAIN stack' = 1 .. n /\ stack'[n].kind \notin LoopKinds
      BY <1>1, <2>2 DEF LoopKinds
    <3> HIDE DEF n
    <3> QED  BY <1>1, <3>1
  <2> QED  BY <2>1, <2>2
<1>2. ASSUME NEW k \in LoopKinds
      PROVE  LoopIn(stack', prng', flags', k) = LoopIn(stack, prng, flags, k)
  <2>1. ASSUME NEW d \in DOMAIN stack, stack[d].kind = k
        PROVE  /\ d \in DOMAIN stack' /\ stack'[d] = stack[d]
               /\ Work(stack[d], prng'[k], Selects(stack[d].body, flags))
                    = Work(stack[d], prng[k], Selects(stack[d].body, flags))
    <3>1. d # n
      BY <2>1 DEF InLoop, Top
    <3>2. d \in 1 .. n - 1 /\ d \in DOMAIN stack'
      BY <1>a, <3>1
    <3>3. LoopOK(stack[d], prng[k], Selects(stack[d].body, flags), At(stack, d),
                 Failures(k, flags, suite.failed))
      BY <2>1 DEF SInv, InOrder
    <3>4. At(stack, d) # "top"
      BY <3>1 DEF At
    <3>5. stack[d] \in Frames /\ prng[k] \in Prng /\ prng'[k] \in Prng
      BY TopFrame DEF TypeOK
    <3> QED  BY <3>2, <3>3, <3>4, <3>5, WorkStays
  <2>2. ASSUME NEW d \in DOMAIN stack', stack'[d].kind = k
        PROVE  d \in DOMAIN stack /\ stack[d].kind = k
    <3>1. d # n
      BY <1>a, <2>2
    <3>2. d \in 1 .. n - 1 /\ d \in DOMAIN stack
      BY <1>a, <3>1
    <3> QED  BY <2>2, <3>2
  <2> DEFINE s == stack
             t == stack'
             g == prng
             q == prng'
             fl == flags
  <2>3. /\ s \in Seq(Frames) /\ Ranked(s) /\ t \in Seq(Frames) /\ Ranked(t)
        /\ \A d \in DOMAIN s : s[d].kind = k =>
             /\ d \in DOMAIN t /\ t[d] = s[d]
             /\ Work(s[d], q[k], Selects(s[d].body, fl)) = Work(s[d], g[k], Selects(s[d].body, fl))
        /\ \A d \in DOMAIN t : t[d].kind = k => d \in DOMAIN s /\ s[d].kind = k
    BY <1>1, <2>1, <2>2
  <2> HIDE DEF s, t, g, q, fl
  <2>4. LoopIn(t, q, fl, k) = LoopIn(s, g, fl, k)
    BY ONLY <2>3, LoopStays
  <2> QED  BY <2>4 DEF s, t, g, q, fl
<1>3. Lower(Unreturned', Unreturned)
  <2> DEFINE a == Unreturned'
             b == Unreturned
  <2>1. /\ a[1] = Len(stack') /\ b[1] = n /\ DOMAIN b = 1 .. 2
        /\ Top.kind = "setup" => b[2] = 3
        /\ Top.kind = "test" => b[2] = 2
        /\ stack'[Len(stack')].kind = "test" => a[2] = 2
        /\ stack'[Len(stack')].kind = "teardown" => a[2] = 1
    BY DEF Unreturned, Top
  <2>n. n \in Nat \ {0}
    BY <1>1
  <2> HIDE DEF a, b, n
  <2>2. \/ b[1] \in Nat /\ a[1] \in Int /\ a[1] < b[1]
        \/ a[1] = b[1] /\ b[2] \in Nat /\ a[2] \in Int /\ a[2] < b[2]
    <3>1. CASE Len(stack') = n - 1
      BY ONLY <2>1, <2>n, <3>1
    <3>2. CASE /\ Len(stack') = n
               /\ \/ Top.kind = "setup" /\ stack'[n].kind = "test"
                  \/ Top.kind = "test" /\ stack'[n].kind = "teardown"
      BY ONLY <2>1, <2>n, <3>2
    <3> QED  BY <3>1, <3>2 DEF n
  <2>3. Lower(a, b)
    BY ONLY <2>1, <2>2, LowerTuple
  <2> QED  BY <2>3 DEF a, b
<1> QED  BY <1>2, <1>3, RestLowers, KindFacts

(* The setup hook returns. *)
LEMMA SetupReturnLowers ==
    ASSUME TypeOK, TypeOK', SInv, SInv', SetupReturn PROVE Below(Measure', Measure)
<1> DEFINE n == Len(stack)
           k == "SHUFFLE_TESTS"
           p == [prng[k] EXCEPT !.count_run = @ + 1]
           g == [Top EXCEPT !.kind = "test"]
<1>1. /\ Top.kind = "setup" /\ stack' = [stack EXCEPT ![n].kind = "test"]
      /\ UNCHANGED <<flags, status, calls, assertions>> /\ prng' = [prng EXCEPT ![k] = p]
  BY DEF SetupReturn, EnterTest
<1>2. /\ g \in Frames /\ g.kind = "test" /\ n \in 1 .. Len(stack) /\ stack \in Seq(Frames)
      /\ ~InLoop
  BY <1>1, TopFrame, KindFacts DEF TypeOK, Frames, InLoop
<1>3. stack' = [stack EXCEPT ![n] = g]
  BY <1>1 DEF Top
<1> HIDE DEF g
<1>4. Len(stack') = n /\ \A d \in 1 .. n : stack'[d] = IF d = n THEN g ELSE stack[d]
  BY <1>2, <1>3, ExceptSeq
<1>5. stack'[n] = g /\ \A d \in 1 .. n - 1 : stack'[d] = stack[d]
  BY <1>2, <1>4, TopFrame
<1>6. ASSUME NEW l \in LoopKinds
      PROVE  /\ prng'[l].initialized = prng[l].initialized /\ SameDraws(prng[l], prng'[l])
             /\ prng'[l].state = prng[l].state
  <2>1. prng[k] \in Prng /\ (prng'[l] = prng[l] \/ (l = k /\ prng'[l] = p))
    BY <1>1, KindFacts DEF TypeOK
  <2>2. p.initialized = prng[k].initialized /\ SameDraws(prng[k], p) /\ p.state = prng[k].state
    BY <2>1 DEF Prng, SameDraws
  <2> HIDE DEF p
  <2> QED  BY <2>1, <2>2 DEF SameDraws
<1> QED  BY <1>1, <1>2, <1>4, <1>5, <1>6, ReturnLowers

(* A test is over. *)
LEMMA FinishLowers ==
    ASSUME TypeOK, TypeOK', MainAtBottom, SInv, SInv',
           UNCHANGED <<flags, prng, status, calls, assertions>>,
           Top.kind \in TestKinds, NEW res, NEW frames \in Seq(Frames), Len(frames) = Len(stack),
           \A d \in 1 .. Len(stack) : frames[d] = stack[d], FinishTest(frames, res)
    PROVE  Below(Measure', Measure)
<1>1. Len(stack) - 1 \in 1 .. Len(stack) /\ ~InLoop
  BY NotAtBottom DEF TestKinds, InLoop, LoopKinds
<1>2. stack' = SubSeq(frames, 1, Len(frames) - 1)
  BY DEF FinishTest
<1>3. Len(stack') = Len(stack) - 1 /\ \A d \in 1 .. Len(stack) - 1 : stack'[d] = stack[d]
  BY <1>1, <1>2, PopFrames
<1> QED  BY <1>1, <1>3, ReturnLowers DEF SameDraws

(* A test goes on to its teardown hook, or is over. *)
LEMMA TestPostLowers ==
    ASSUME TypeOK, TypeOK', MainAtBottom, SInv, SInv',
           UNCHANGED <<flags, prng, status, calls, assertions>>,
           Top.kind = "test", NEW res \in Verdicts,
           NEW frames \in Seq(Frames), Len(frames) = Len(stack),
           \A d \in 1 .. Len(stack) : frames[d] = stack[d], TestPost(frames, res)
    PROVE  Below(Measure', Measure)
<1>1. CASE teardown = NULL
  BY <1>1, FinishLowers DEF TestPost, TestKinds
<1>2. CASE teardown # NULL
  <2> DEFINE n == Len(stack)
             g == [Top EXCEPT !.kind = "teardown", !.res = res, !.hook = teardown]
  <2>1. n \in 1 .. n /\ frames[n] = Top /\ ~InLoop
    BY TopFrame DEF Top, InLoop, LoopKinds
  <2>2. stack' = [frames EXCEPT ![n] = g]
    BY <1>2, <2>1 DEF TestPost
  <2>3. g \in Frames /\ g.kind = "teardown"
    BY TopFrame, KindFacts DEF TypeOK, Frames
  <2> HIDE DEF g
  <2>4. /\ Len(stack') = n
        /\ \A d \in 1 .. n : stack'[d] = IF d = n THEN g ELSE frames[d]
    BY <2>1, <2>2, <2>3, ExceptSeq
  <2>5. stack'[n] = g /\ \A d \in 1 .. Len(stack) - 1 : stack'[d] = stack[d]
    BY <2>1, <2>4, TopFrame
  <2> QED  BY <2>1, <2>3, <2>4, <2>5, ReturnLowers DEF SameDraws
<1> QED  BY <1>1, <1>2

(* What returns or is unwound. *)
LEMMA UnwindLowers ==
    ASSUME TypeOK, TypeOK', MainAtBottom, OneTest, DInv, SInv, SInv',
           \/ TestReturn \/ TeardownReturn \/ SuiteReturn \/ Fail \/ Skip
           \/ \E holds \in BOOLEAN : Assert(holds)
    PROVE  Below(Measure', Measure)
<1>1. stack \in Seq(Frames)
  BY DEF TypeOK
<1>2. CASE TestReturn
  <2>1. /\ TestPost(stack, "passed") /\ Top.kind = "test"
        /\ UNCHANGED <<flags, prng, status, calls, assertions>>
    BY <1>2 DEF TestReturn
  <2> QED  BY <1>1, <2>1, TestPostLowers DEF Verdicts
<1>3. CASE TeardownReturn
  <2>1. /\ FinishTest(stack, Top.res) /\ Top.kind = "teardown"
        /\ UNCHANGED <<flags, prng, status, calls, assertions>>
    BY <1>3 DEF TeardownReturn
  <2> QED  BY <1>1, <2>1, FinishLowers DEF TestKinds
<1>4. CASE SuiteReturn
  <2>1. /\ Top.kind = "suite" /\ stack' = SubSeq(stack, 1, Len(stack) - 1) /\ ~InLoop
        /\ UNCHANGED <<flags, prng, status, calls, assertions>>
    BY <1>4 DEF SuiteReturn, testVars, InLoop, LoopKinds
  <2>2. Len(stack) - 1 \in 1 .. Len(stack)
    BY <2>1, NotAtBottom
  <2>3. Len(stack') = Len(stack) - 1 /\ \A d \in 1 .. Len(stack) - 1 : stack'[d] = stack[d]
    BY <1>1, <2>1, <2>2, PopFrames
  <2> QED  BY <2>1, <2>3, ReturnLowers DEF SameDraws
<1>5. ASSUME NEW holds \in BOOLEAN, Assert(holds) PROVE Below(Measure', Measure)
  <2>1. /\ status = "running" /\ assertions < MaxAssertions /\ assertions' = assertions + 1
        /\ UNCHANGED calls
    BY <1>5 DEF Assert, Unwound
  <2> QED  BY <2>1, BudgetLowers
<1>6. CASE Fail \/ Skip
  <2>1. /\ Unwound /\ UNCHANGED assertions /\ status = "running"
        /\ \/ Raise /\ <<Top.kind, "FAIL">> \in Calls
           \/ Jump("skipped") /\ <<Top.kind, "SKIP">> \in Calls
    BY <1>6 DEF Fail, Skip
  <2>2. Top.kind = "test"
    BY <2>1 DEF DInv, DocumentedUse, DocumentedCalls, LoopKinds
  <2>3. CASE status' # "running"
    BY <2>1, <2>3, BudgetLowers
  <2>4. ASSUME status' = "running", NEW res \in Verdicts, Jump(res)
        PROVE  Below(Measure', Measure)
    <3> DEFINE frames == SubSeq(stack, 1, Len(stack))
    <3>1. JumpLive /\ jump_dest = Len(stack)
      BY <2>2, TestJumps
    <3>2. TestPost(frames, res) /\ UNCHANGED <<flags, prng, status, calls, assertions>>
      BY <2>1, <2>4, <3>1 DEF Jump, Unwound
    <3>3. frames \in Seq(Frames) /\ Len(frames) = Len(stack)
          /\ \A d \in 1 .. Len(stack) : frames[d] = stack[d]
      BY TopFrame, CutFrames DEF CutTo
    <3> HIDE DEF frames
    <3> QED  BY <2>2, <2>4, <3>2, <3>3, TestPostLowers
  <2> QED  BY <2>1, <2>3, <2>4 DEF Raise, Verdicts
<1> QED  BY <1>2, <1>3, <1>4, <1>5, <1>6

(* Every step lowers the measure. *)
LEMMA NextLowers ==
    ASSUME IInv, IInv', DInv, SInv, SInv', Next
    PROVE  Below(Measure', Measure) \/ UNCHANGED vars
<1>1. TypeOK /\ TypeOK' /\ MainAtBottom /\ OneTest
  BY DEF IInv, FramesOK
<1>2. CASE \/ SetSetup \/ SetTeardown \/ PrintReport
           \/ \E test \in Tests : NestedTest(test)
           \/ \E kind \in LoopKinds : ShuffleInit(kind)
  BY <1>1, <1>2, QuietLowers
<1>3. CASE \/ \E test \in Tests : RejectTest(test)
           \/ \E name \in Suites : RejectSuite(name)
           \/ \E suffix \in Suffixes : SetSuffix(suffix)
  BY <1>1, <1>3, RejectLowers
<1>4. CASE (\E test \in Tests : StartTest(test)) \/ (\E name \in Suites : StartSuite(name))
  BY <1>1, <1>4, StartTestLowers, StartSuiteLowers
<1>5. CASE SetupReturn
  BY <1>1, <1>5, SetupReturnLowers
<1>6. CASE \/ TestReturn \/ TeardownReturn \/ SuiteReturn \/ Fail \/ Skip
           \/ \E holds \in BOOLEAN : Assert(holds)
  BY <1>1, <1>6, UnwindLowers
<1>7. CASE ShuffleRunning \/ ShuffleNext \/ InitSecondPass \/ DoubleModulus
  BY <1>1, <1>7, ShuffleRunningLowers, ShuffleNextLowers, InitSecondPassLowers,
     DoubleModulusLowers
<1>8. CASE MainReturn
  <2>1. status = "running" /\ status' # "running"
    BY <1>8 DEF MainReturn
  <2> QED  BY <1>1, <2>1, BudgetLowers
<1>9. CASE Terminated
  BY <1>9 DEF Terminated
<1> QED  BY <1>2, <1>3, <1>4, <1>5, <1>6, <1>7, <1>8, <1>9 DEF Next

(* Every step of the process leaves less to do, whatever the seed and the  *)
(* blocks: the loop that draws until a value is a position, the one that   *)
(* doubles the modulus and the passes over a block all come to an end      *)
(* (itest_shuffle_next and itest_shuffle_running, itest.c:871-911).        *)
THEOREM DescendsCorrect == ShuffledUse /\ Spec => Descends
<1>1. IInv /\ IInv' /\ DInv /\ SInv /\ SInv' /\ [Next]_vars
        => [\E before \in {Measure}, after \in {Measure'} : Below(after, before)]_vars
  <2> SUFFICES ASSUME IInv, IInv', DInv, SInv, SInv', [Next]_vars
               PROVE  Below(Measure', Measure) \/ UNCHANGED vars
    OBVIOUS
  <2> QED  BY NextLowers
<1>2. ShuffledUse => DocumentedUse
  BY DEF ShuffledUse
<1>3. DocumentedUse /\ Spec => []DInv
  BY DocumentedInvariant
<1> QED  BY <1>1, <1>2, <1>3, RunnerInvariant, ShuffledInvariant, PTL DEF Spec, Descends
=============================================================================
