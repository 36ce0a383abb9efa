----------------------------- MODULE Arithmetic -----------------------------
(***************************************************************************)
(* What the proofs about several components need.  Induction as lemmas      *)
(* about sets: the induction theorems of the library take a predicate,      *)
(* which the installed provers cannot instantiate; a set of numbers, or of  *)
(* sets, can be.  The arithmetic of Fractions, from Euclid's algorithm up:  *)
(* a fraction in lowest terms is the only one of its number (SameNumber),   *)
(* so that equal amounts are equal values.  Sums over finite sets (Total).  *)
(***************************************************************************)
EXTENDS Fractions, FiniteSets, FiniteSetTheorems, WellFoundedInduction, TLAPS

-----------------------------------------------------------------------------
(* Induction. *)

\* The intervals from 1 to the numbers of a set are well founded by inclusion.
LEMMA LeastNumber ==
    ASSUME NEW T \in SUBSET Nat, T # {}
    PROVE  \E x \in T : \A y \in T : x <= y
<1> DEFINE R == StrictSubsetOrdering(Nat)
           F == {1..n : n \in T}
<1>1. IsWellFoundedOn(R, FiniteSubsetsOf(Nat))
  BY FS_StrictSubsetOrderingWellFounded
<1>2. F \subseteq FiniteSubsetsOf(Nat) /\ F # {}
  <2>1. \A n \in T : IsFiniteSet(1..n) /\ 1..n \subseteq Nat
    BY FS_Interval
  <2> QED
    BY <2>1 DEF FiniteSubsetsOf
<1> HIDE DEF R, F
<1>3. PICK A \in F : \A B \in F : ~(<<B, A>> \in R)
  BY <1>1, <1>2, WFMin
<1>4. PICK x \in T : A = 1..x
  BY DEF F
<1>5. ASSUME NEW y \in T, y < x
      PROVE  FALSE
  <2>1. 1..y \in F /\ 1..y \subseteq 1..x /\ 1..y # 1..x
    BY <1>5 DEF F
  <2>2. <<1..y, A>> \in R
    BY <1>4, <2>1 DEF R, StrictSubsetOrdering
  <2> QED
    BY <1>3, <2>1, <2>2
<1> QED
  BY <1>5

LEMMA EveryNumber ==
    ASSUME NEW S, 0 \in S, \A n \in Nat : n \in S => n + 1 \in S
    PROVE  Nat \subseteq S
<1> SUFFICES ASSUME Nat \ S # {} PROVE FALSE
  OBVIOUS
<1>1. PICK x \in Nat \ S : \A y \in Nat \ S : x <= y
  BY LeastNumber
<1>2. x - 1 \in Nat /\ x - 1 \in S
  BY <1>1
<1> QED
  BY <1>1, <1>2

\* The functions on 0..k that start with v and go on with H.
Runs(k, V, v, H) ==
    {s \in [0..k -> V] : s[0] = v /\ \A i \in 1..k : s[i] = H[<<i, s[i - 1]>>]}

\* The function that a recursive definition over 0..n chooses exists.
LEMMA Recursion ==
    ASSUME NEW n \in Nat, NEW V, NEW v \in V, NEW H \in [(1..n) \X V -> V]
    PROVE  Runs(n, V, v, H) # {}
<1> DEFINE R(k) == Runs(k, V, v, H)
           T == {k \in Nat : k <= n => R(k) # {}}
<1>1. R(0) # {}
  <2>1. [i \in 0..0 |-> v] \in R(0)
    BY DEF Runs
  <2> QED
    BY <2>1
<1>2. ASSUME NEW k \in Nat, k + 1 <= n, R(k) # {}
      PROVE  R(k + 1) # {}
  <2>1. PICK s \in [0..k -> V] : s[0] = v /\ \A i \in 1..k : s[i] = H[<<i, s[i - 1]>>]
    BY <1>2 DEF Runs
  <2> DEFINE z == H[<<k + 1, s[k]>>]
             t == [i \in 0..(k + 1) |-> IF i = k + 1 THEN z ELSE s[i]]
  <2>2. z \in V
    BY <1>2
  <2> HIDE DEF z
  <2>3. t \in [0..(k + 1) -> V] /\ t[k + 1] = z /\ \A i \in 0..k : t[i] = s[i]
    BY <2>2
  <2> HIDE DEF t
  <2>4. t[0] = v /\ \A i \in 1..(k + 1) : t[i] = H[<<i, t[i - 1]>>]
    <3>1. t[0] = v /\ t[k] = s[k]
      BY <2>1, <2>3
    <3>2. \A i \in 1..k : t[i] = H[<<i, t[i - 1]>>]
      BY <2>1, <2>3
    <3>3. (k + 1) - 1 = k
      OBVIOUS
    <3>4. t[k + 1] = H[<<k + 1, t[(k + 1) - 1]>>]
      BY <2>3, <3>1, <3>3 DEF z
    <3>5. \A i \in 1..(k + 1) : i \in 1..k \/ i = k + 1
      OBVIOUS
    <3> QED
      BY <3>1, <3>2, <3>4, <3>5
  <2> QED
    BY <2>3, <2>4 DEF Runs
<1> HIDE DEF R
<1>3. 0 \in T /\ \A k \in Nat : k \in T => k + 1 \in T
  BY <1>1, <1>2
<1> HIDE DEF T
<1>4. n \in T
  BY <1>3, EveryNumber
<1> QED
  BY <1>4 DEF T, R

\* In particular the sums of the first numbers of a sequence.
LEMMA RunningSum ==
    ASSUME NEW n \in Nat, NEW w \in [1..n -> Int]
    PROVE  \E s \in [0..n -> Int] : s[0] = 0 /\ \A i \in 1..n : s[i] = s[i - 1] + w[i]
<1> DEFINE V == Int
           v == 0
           H == [x \in (1..n) \X V |-> x[2] + w[x[1]]]
<1>0. v \in V /\ H \in [(1..n) \X V -> V]
  OBVIOUS
<1>1. \A i \in 1..n, a \in V : H[<<i, a>>] = a + w[i]
  OBVIOUS
<1> HIDE DEF H, V, v
<1>2. Runs(n, V, v, H) # {}
  BY <1>0, Recursion
<1>3. PICK s \in [0..n -> V] : s[0] = v /\ \A i \in 1..n : s[i] = H[<<i, s[i - 1]>>]
  BY <1>2 DEF Runs
<1>4. ASSUME NEW i \in 1..n
      PROVE  s[i] = s[i - 1] + w[i]
  <2>1. i - 1 \in 0..n
    OBVIOUS
  <2>2. s[i - 1] \in V
    BY <2>1
  <2> QED
    BY <1>1, <1>3, <2>2
<1> QED
  BY <1>3, <1>4 DEF V, v

-----------------------------------------------------------------------------
(* Common divisors.                                                         *)

Divides(d, n) == \E k \in Int : n = k * d

\* g is the greatest common divisor of a and b: their combination.
IsGcd(g, a, b) ==
    /\ g \in Nat /\ Divides(g, a) /\ Divides(g, b)
    /\ \E x, y \in Int : g = x * a + y * b

LEMMA DividesCombination ==
    ASSUME NEW d \in Int, NEW a \in Int, NEW b \in Int, Divides(d, a), Divides(d, b),
           NEW x \in Int, NEW y \in Int
    PROVE  Divides(d, x * a + y * b)
<1>1. PICK k \in Int : a = k * d
  BY DEF Divides
<1>2. PICK l \in Int : b = l * d
  BY DEF Divides
<1>3. x * k + y * l \in Int /\ x * a + y * b = (x * k + y * l) * d
  BY <1>1, <1>2
<1> QED
  BY <1>3 DEF Divides

LEMMA DividesEachOther ==
    ASSUME NEW g \in Nat, NEW h \in Nat, Divides(g, h), Divides(h, g)
    PROVE  g = h
<1>1. PICK k \in Int : h = k * g
  BY DEF Divides
<1>2. PICK l \in Int : g = l * h
  BY DEF Divides
<1>3. CASE g = 0
  BY <1>1, <1>3
<1>4. CASE g > 0
  <2>1. k > 0 /\ h > 0
    <3>1. h # 0
      BY <1>2, <1>4
    <3>2. k > 0
      BY <1>1, <1>4, <3>1
    <3> QED
      BY <3>1, <3>2
  <2>2. l > 0
    BY <1>2, <1>4, <2>1
  <2>3. h >= g
    BY <1>1, <1>4, <2>1
  <2>4. g >= h
    BY <1>2, <2>1, <2>2
  <2> QED
    BY <2>3, <2>4
<1> QED
  BY <1>3, <1>4

LEMMA OneGcd ==
    ASSUME NEW a \in Nat, NEW b \in Nat, NEW g, NEW h, IsGcd(g, a, b), IsGcd(h, a, b)
    PROVE  g = h
<1>1. g \in Nat /\ h \in Nat
  BY DEF IsGcd
<1>2. Divides(g, h)
  <2>1. PICK x \in Int, y \in Int : h = x * a + y * b
    BY DEF IsGcd
  <2>2. Divides(g, a) /\ Divides(g, b)
    BY DEF IsGcd
  <2>3. Divides(g, x * a + y * b)
    BY <1>1, <2>2, DividesCombination
  <2> QED
    BY <2>1, <2>3
<1>3. Divides(h, g)
  <2>1. PICK x \in Int, y \in Int : g = x * a + y * b
    BY DEF IsGcd
  <2>2. Divides(h, a) /\ Divides(h, b)
    BY DEF IsGcd
  <2>3. Divides(h, x * a + y * b)
    BY <1>1, <2>2, DividesCombination
  <2> QED
    BY <2>1, <2>3
<1> QED
  BY <1>1, <1>2, <1>3, DividesEachOther

LEMMA SomeGcd ==
    ASSUME NEW a \in Nat, NEW b \in Nat
    PROVE  \E g \in Nat : IsGcd(g, a, b)
<1> DEFINE T == {n \in Nat : n > 0 /\ \E x, y \in Int : n = x * a + y * b}
<1>1. CASE a = 0 /\ b = 0
  <2>1. IsGcd(0, 0, 0)
    <3>1. 0 = 1 * 0 /\ 0 = 0 * 0 + 0 * 0
      OBVIOUS
    <3> QED
      BY <3>1 DEF IsGcd, Divides
  <2> QED
    BY <1>1, <2>1
<1>2. CASE a > 0 \/ b > 0
  <2>1. a + b \in T
    <3>1. a + b = 1 * a + 1 * b
      OBVIOUS
    <3> QED
      BY <1>2, <3>1
  <2>2. PICK g \in T : \A n \in T : g <= n
    BY <2>1, LeastNumber
  <2>3. PICK x \in Int, y \in Int : g = x * a + y * b
    OBVIOUS
  <2>4. g \in Nat /\ g > 0
    OBVIOUS
  <2>5. ASSUME NEW c \in Nat, NEW u \in Int, NEW v \in Int, c = u * a + v * b
        PROVE  Divides(g, c)
    <3> DEFINE q == c \div g
               r == c % g
    <3>1. q \in Int /\ r \in Nat /\ r < g /\ c = g * q + r
      BY <2>4
    <3>2. u - q * x \in Int /\ v - q * y \in Int
      BY <3>1
    <3>3. r = (u - q * x) * a + (v - q * y) * b
      <4>1. r = c - g * q
        BY <2>4, <3>1
      <4>2. g * q = q * x * a + q * y * b
        BY <2>3, <3>1
      <4> QED
        BY <2>5, <3>1, <4>1, <4>2
    <3>4. ~(r > 0)
      <4>1. r > 0 => \E m, n \in Int : r = m * a + n * b
        BY <3>2, <3>3
      <4> HIDE DEF r
      <4>2. r > 0 => r \in T
        BY <3>1, <4>1
      <4> HIDE DEF T
      <4> QED
        BY <2>2, <2>4, <3>1, <4>2
    <3>5. c = q * g
      BY <2>4, <3>1, <3>4
    <3> QED
      BY <3>1, <3>5 DEF Divides
  <2>6. Divides(g, a)
    <3>1. a = 1 * a + 0 * b
      OBVIOUS
    <3> QED
      BY <2>5, <3>1
  <2>7. Divides(g, b)
    <3>1. b = 0 * a + 1 * b
      OBVIOUS
    <3> QED
      BY <2>5, <3>1
  <2> QED
    BY <2>3, <2>4, <2>6, <2>7 DEF IsGcd
<1> QED
  BY <1>1, <1>2

\* The step of Euclid's algorithm.
LEMMA EuclidStep ==
    ASSUME NEW a \in Nat, NEW b \in Nat, b > 0, NEW g, IsGcd(g, b, a % b)
    PROVE  IsGcd(g, a, b)
<1> DEFINE q == a \div b
           r == a % b
<1>1. q \in Int /\ r \in Nat /\ a = b * q + r
  OBVIOUS
<1> HIDE DEF q, r
<1>2. g \in Nat /\ Divides(g, b) /\ Divides(g, r)
  BY DEF IsGcd, r
<1>3. PICK x \in Int, y \in Int : g = x * b + y * r
  BY DEF IsGcd, r
<1>4. Divides(g, a)
  <2>1. Divides(g, q * b + 1 * r)
    <3>1. 1 \in Int /\ r \in Int /\ b \in Int /\ g \in Int
      BY <1>1, <1>2
    <3> QED
      BY <1>1, <1>2, <3>1, DividesCombination
  <2>2. q * b + 1 * r = a
    BY <1>1
  <2> QED
    BY <2>1, <2>2
<1>5. x - y * q \in Int /\ g = y * a + (x - y * q) * b
  <2>1. r = a - b * q
    BY <1>1
  <2>2. g = x * b + y * (a - b * q)
    BY <1>3, <2>1
  <2> QED
    BY <1>1, <2>2
<1> QED
  BY <1>2, <1>4, <1>5 DEF IsGcd

LEMMA GcdFacts ==
    ASSUME NEW a \in Nat, NEW b \in Nat
    PROVE  IsGcd(Gcd[<<a, b>>], a, b)
<1> DEFINE G == [x \in Nat \X Nat |-> CHOOSE g \in Nat : IsGcd(g, x[1], x[2])]
<1>1. \A m, n \in Nat : G[<<m, n>>] \in Nat /\ IsGcd(G[<<m, n>>], m, n)
  BY SomeGcd
<1>2. \A m \in Nat : IsGcd(m, m, 0)
  <2>1. \A m \in Nat : m = 1 * m /\ 0 = 0 * m /\ m = 1 * m + 0 * 0
    OBVIOUS
  <2> QED
    BY <2>1 DEF IsGcd, Divides
<1>3. \A m, n \in Nat : n > 0 => m % n \in Nat /\ m % n < n
  OBVIOUS
<1>4. \A x \in Nat \X Nat : x = <<x[1], x[2]>> /\ x[1] \in Nat /\ x[2] \in Nat
  OBVIOUS
<1> HIDE DEF G
<1>5. \A x \in Nat \X Nat : G[x] = IF x[2] = 0 THEN x[1] ELSE G[<<x[2], x[1] % x[2]>>]
  <2> TAKE x \in Nat \X Nat
  <2> DEFINE m == x[1]
             n == x[2]
  <2>1. m \in Nat /\ n \in Nat /\ x = <<m, n>>
    BY <1>4
  <2> HIDE DEF m, n
  <2>2. CASE n = 0
    <3>1. G[<<m, n>>] = m
      BY <1>1, <1>2, <2>1, <2>2, OneGcd
    <3> QED
      BY <2>1, <2>2, <3>1 DEF m, n
  <2>3. CASE n > 0
    <3>1. m % n \in Nat
      BY <1>3, <2>1, <2>3
    <3>2. IsGcd(G[<<n, m % n>>], n, m % n)
      BY <1>1, <2>1, <3>1
    <3>3. IsGcd(G[<<n, m % n>>], m, n)
      BY <2>1, <2>3, <3>2, EuclidStep
    <3>4. G[<<m, n>>] = G[<<n, m % n>>]
      BY <1>1, <2>1, <3>3, OneGcd
    <3> QED
      BY <2>1, <2>3, <3>4 DEF m, n
  <2> QED
    BY <2>1, <2>2, <2>3
<1>6. G = [x \in Nat \X Nat |-> IF x[2] = 0 THEN x[1] ELSE G[<<x[2], x[1] % x[2]>>]]
  <2>1. G = [x \in Nat \X Nat |-> G[x]]
    BY DEF G
  <2> QED
    BY <1>5, <2>1
<1>7. Gcd = [x \in Nat \X Nat |-> IF x[2] = 0 THEN x[1] ELSE Gcd[<<x[2], x[1] % x[2]>>]]
  BY <1>6 DEF Gcd
<1>8. \A m, n \in Nat : Gcd[<<m, n>>] = IF n = 0 THEN m ELSE Gcd[<<n, m % n>>]
  BY <1>7
<1> DEFINE T == {k \in Nat : \A m, n \in Nat : n <= k => IsGcd(Gcd[<<m, n>>], m, n)}
<1>9. 0 \in T
  <2>1. \A m, n \in Nat : n <= 0 => n = 0
    OBVIOUS
  <2>2. \A m \in Nat : Gcd[<<m, 0>>] = m
    BY <1>8
  <2>3. \A m, n \in Nat : n <= 0 => IsGcd(Gcd[<<m, n>>], m, n)
    BY <1>2, <2>1, <2>2
  <2> QED
    BY <2>3
<1>10. ASSUME NEW k \in Nat, k \in T
       PROVE  k + 1 \in T
  <2> SUFFICES ASSUME NEW m \in Nat, NEW n \in Nat, n <= k + 1
               PROVE  IsGcd(Gcd[<<m, n>>], m, n)
    OBVIOUS
  <2>1. CASE n = 0
    BY <1>2, <1>8, <2>1
  <2>2. CASE n > 0
    <3>1. m % n \in Nat /\ m % n <= k
      BY <1>3, <2>2
    <3>2. IsGcd(Gcd[<<n, m % n>>], n, m % n)
      BY <1>10, <3>1
    <3> QED
      BY <1>8, <2>2, <3>2, EuclidStep
  <2> QED
    BY <2>1, <2>2
<1> HIDE DEF T
<1>11. b \in T
  BY <1>9, <1>10, EveryNumber
<1> QED
  BY <1>11 DEF T

-----------------------------------------------------------------------------
(* Fractions.                                                               *)

\* Lowest terms, as a combination that gives 1.
Lowest(n, d) == \E x, y \in Int : x * n + y * d = 1

Fraction == {a \in Int \X (Nat \ {0}) : Lowest(a[1], a[2])}

\* The fraction a is the number n / d.
Is(a, n, d) == a[1] * d = n * a[2]

LEMMA Parts ==
    ASSUME NEW a \in Fraction
    PROVE  a[1] \in Int /\ a[2] \in Int /\ a[2] > 0 /\ a = <<a[1], a[2]>>
BY DEF Fraction

LEMMA Cancel ==
    ASSUME NEW m \in Int, NEW n \in Int, NEW d \in Int, d # 0, m * d = n * d
    PROVE  m = n
OBVIOUS

LEMMA LowestProduct ==
    ASSUME NEW m \in Int, NEW n \in Int, NEW d \in Int, Lowest(m, d), Lowest(n, d)
    PROVE  Lowest(m * n, d)
<1>1. PICK x \in Int, y \in Int : x * m + y * d = 1
  BY DEF Lowest
<1>2. PICK u \in Int, v \in Int : u * n + v * d = 1
  BY DEF Lowest
<1> DEFINE z == x * m * v + y * u * n + y * v * d
<1>3. x * u \in Int /\ z \in Int
  OBVIOUS
<1>4. (x * u) * (m * n) + z * d = (x * m + y * d) * (u * n + v * d)
  OBVIOUS
<1>5. (x * u) * (m * n) + z * d = 1
  BY <1>1, <1>2, <1>4
<1> QED
  BY <1>3, <1>5 DEF Lowest

LEMMA LowestTurned ==
    ASSUME NEW m \in Int, NEW n \in Int, Lowest(m, n)
    PROVE  Lowest(n, m)
BY DEF Lowest

\* What is left of two numbers without their common divisor.
LEMMA Divided ==
    ASSUME NEW a \in Int, NEW b \in Nat, b > 0
    PROVE  LET g == Gcd[<<Abs(a), b>>] IN
           /\ g \in Nat /\ g > 0
           /\ a \div g \in Int /\ b \div g \in Nat /\ b \div g > 0
           /\ a = (a \div g) * g /\ b = (b \div g) * g
           /\ Lowest(a \div g, b \div g)
<1> DEFINE g == Gcd[<<Abs(a), b>>]
<1>1. Abs(a) \in Nat /\ (Abs(a) = a \/ Abs(a) = -a)
  BY DEF Abs
<1>2. IsGcd(g, Abs(a), b)
  BY <1>1, GcdFacts
<1> HIDE DEF g
<1>3. g \in Nat
  BY <1>2 DEF IsGcd
<1>4. PICK k \in Int : b = k * g
  BY <1>2 DEF IsGcd, Divides
<1>5. PICK l \in Int : Abs(a) = l * g
  BY <1>2 DEF IsGcd, Divides
<1>6. g > 0
  <2>1. g # 0
    BY <1>4
  <2> QED
    BY <1>3, <2>1
<1>7. k > 0
  BY <1>3, <1>4, <1>6
<1>8. b \div g = k
  BY <1>3, <1>4, <1>6
<1>9. PICK j \in Int : (j = l \/ j = -l) /\ a = j * g
  <2>1. CASE Abs(a) = a
    BY <1>5, <2>1
  <2>2. CASE Abs(a) = -a
    <3>1. -l \in Int /\ a = (-l) * g
      BY <1>3, <1>5, <2>2
    <3> QED
      BY <3>1
  <2> QED
    BY <1>1, <2>1, <2>2
<1>10. a \div g = j
  BY <1>3, <1>6, <1>9
<1>11. PICK x \in Int, y \in Int : g = x * Abs(a) + y * b
  BY <1>2 DEF IsGcd
<1>12. 1 = x * l + y * k
  <2>1. 1 * g = (x * l + y * k) * g
    BY <1>3, <1>4, <1>5, <1>11
  <2>2. x * l + y * k \in Int
    OBVIOUS
  <2> QED
    BY <1>3, <1>6, <2>1, <2>2, Cancel
<1>13. Lowest(j, k)
  <2>1. CASE j = l
    BY <1>12, <2>1 DEF Lowest
  <2>2. CASE j = -l
    <3>1. -x \in Int /\ (-x) * j + y * k = 1
      BY <1>12, <2>2
    <3> QED
      BY <3>1 DEF Lowest
  <2> QED
    BY <1>9, <2>1, <2>2
<1>14. k \in Nat
  BY <1>7
<1> QED
  BY <1>3, <1>4, <1>6, <1>7, <1>8, <1>9, <1>10, <1>13, <1>14 DEF g

\* Equal numbers are equal fractions.
LEMMA SameNumber ==
    ASSUME NEW a \in Fraction, NEW b \in Fraction, a[1] * b[2] = b[1] * a[2]
    PROVE  a = b
<1> DEFINE n == a[1]
           d == a[2]
           m == b[1]
           e == b[2]
<1>1. n \in Int /\ d \in Int /\ d > 0 /\ m \in Int /\ e \in Int /\ e > 0 /\ n * e = m * d
  BY Parts
<1>2. Lowest(n, d) /\ Lowest(m, e)
  BY DEF Fraction
<1>3. a = <<n, d>> /\ b = <<m, e>>
  BY Parts
<1> HIDE DEF n, d, m, e
<1>4. Divides(d, e)
  <2>1. PICK x \in Int, y \in Int : x * n + y * d = 1
    BY <1>2 DEF Lowest
  <2>2. e = e * (x * n + y * d)
    BY <1>1, <2>1
  <2>3. e * (x * n + y * d) = x * (n * e) + (y * e) * d
    BY <1>1
  <2>4. e = (x * m + y * e) * d /\ x * m + y * e \in Int
    BY <1>1, <2>2, <2>3
  <2> QED
    BY <2>4 DEF Divides
<1>5. Divides(e, d)
  <2>1. PICK x \in Int, y \in Int : x * m + y * e = 1
    BY <1>2 DEF Lowest
  <2>2. d = d * (x * m + y * e)
    BY <1>1, <2>1
  <2>3. d * (x * m + y * e) = x * (m * d) + (y * d) * e
    BY <1>1
  <2>4. d = (x * n + y * d) * e /\ x * n + y * d \in Int
    BY <1>1, <2>2, <2>3
  <2> QED
    BY <2>4 DEF Divides
<1>6. d = e
  BY <1>1, <1>4, <1>5, DividesEachOther
<1>7. n = m
  BY <1>1, <1>6, Cancel
<1> QED
  BY <1>3, <1>6, <1>7

LEMMA OneNumber ==
    ASSUME NEW a \in Fraction, NEW b \in Fraction, NEW n \in Int, NEW d \in Int, d # 0,
           Is(a, n, d), Is(b, n, d)
    PROVE  a = b
<1> DEFINE p == a[1]
           q == a[2]
           r == b[1]
           s == b[2]
<1>1. p \in Int /\ q \in Int /\ q > 0 /\ r \in Int /\ s \in Int /\ s > 0
  BY Parts
<1>2. p * d = n * q /\ r * d = n * s
  BY DEF Is
<1> HIDE DEF p, q, r, s
<1>3. (p * s) * d = (r * q) * d
  <2>1. (p * s) * d = (p * d) * s /\ (r * q) * d = (r * d) * q
    BY <1>1
  <2>2. (n * q) * s = (n * s) * q
    BY <1>1
  <2> QED
    BY <1>2, <2>1, <2>2
<1>4. p * s = r * q
  <2>1. p * s \in Int /\ r * q \in Int
    BY <1>1
  <2> QED
    BY <1>3, <2>1, Cancel
<1> QED
  BY <1>4, SameNumber DEF p, q, r, s

LEMMA Scaled ==
    ASSUME NEW a \in Fraction, NEW n \in Int, NEW d \in Int, d # 0, Is(a, n, d),
           NEW m \in Int, NEW e \in Int, n * e = m * d
    PROVE  Is(a, m, e)
<1> DEFINE p == a[1]
           q == a[2]
<1>1. p \in Int /\ q \in Int /\ p * d = n * q
  BY Parts DEF Is
<1> HIDE DEF p, q
<1>2. (p * e) * d = (m * q) * d
  <2>1. (p * e) * d = (p * d) * e /\ (m * q) * d = (m * d) * q
    BY <1>1
  <2>2. (n * q) * e = (n * e) * q
    BY <1>1
  <2> QED
    BY <1>1, <2>1, <2>2
<1>3. p * e = m * q
  <2>1. p * e \in Int /\ m * q \in Int
    BY <1>1
  <2> QED
    BY <1>2, <2>1, Cancel
<1> QED
  BY <1>3 DEF p, q, Is

LEMMA FracIs ==
    ASSUME NEW n \in Int, NEW d \in Nat, d > 0
    PROVE  Frac(n, d) \in Fraction /\ Is(Frac(n, d), n, d)
<1> DEFINE g == Gcd[<<Abs(n), d>>]
           j == n \div g
           k == d \div g
<1>1. g \in Int /\ j \in Int /\ k \in Nat /\ k > 0 /\ n = j * g /\ d = k * g /\ Lowest(j, k)
  BY Divided
<1>2. Frac(n, d) = <<j, k>>
  BY DEF Frac, Reduced, Abs
<1> HIDE DEF g, j, k
<1>3. j * d = n * k
  BY <1>1
<1>4. <<j, k>> \in Fraction
  BY <1>1 DEF Fraction
<1> QED
  BY <1>2, <1>3, <1>4 DEF Is

LEMMA WholeIs ==
    ASSUME NEW n \in Int
    PROVE  Whole(n) \in Fraction /\ Is(Whole(n), n, 1) /\ Whole(n)[1] = n /\ Whole(n)[2] = 1
<1>1. 0 * n + 1 * 1 = 1
  OBVIOUS
<1> QED
  BY <1>1 DEF Whole, Fraction, Lowest, Is

\* The common divisor of two denominators.
LEMMA Denominators ==
    ASSUME NEW a \in Fraction, NEW b \in Fraction
    PROVE  LET g == Gcd[<<a[2], b[2]>>] IN
           /\ g \in Nat /\ g > 0
           /\ a[2] \div g \in Nat /\ a[2] \div g > 0 /\ b[2] \div g \in Nat /\ b[2] \div g > 0
           /\ a[2] = (a[2] \div g) * g /\ b[2] = (b[2] \div g) * g
<1>1. a[2] \in Int /\ b[2] \in Nat /\ b[2] > 0 /\ a[2] > 0
  BY Parts
<1>2. Abs(a[2]) = a[2]
  BY <1>1 DEF Abs
<1> DEFINE g == Gcd[<<a[2], b[2]>>]
           k == a[2] \div g
<1>3. /\ g \in Nat /\ g > 0 /\ k \in Int /\ b[2] \div g \in Nat /\ b[2] \div g > 0
      /\ a[2] = k * g /\ b[2] = (b[2] \div g) * g
  BY <1>1, <1>2, Divided
<1>4. k > 0
  <2> HIDE DEF k, g
  <2> QED
    BY <1>1, <1>3
<1> QED
  BY <1>3, <1>4

LEMMA PlusIs ==
    ASSUME NEW a \in Fraction, NEW b \in Fraction
    PROVE  Plus(a, b) \in Fraction /\ Is(Plus(a, b), a[1] * b[2] + b[1] * a[2], a[2] * b[2])
<1> DEFINE g == Gcd[<<a[2], b[2]>>]
           n == a[1]
           m == b[1]
           d == a[2]
           e == b[2]
           k == d \div g
           l == e \div g
<1>1. n \in Int /\ m \in Int /\ d \in Int /\ d > 0 /\ e \in Int /\ e > 0
  BY Parts
<1>2. g \in Int /\ g > 0 /\ k \in Int /\ k > 0 /\ l \in Int /\ l > 0 /\ d = k * g /\ e = l * g
  BY Denominators
<1>3. Plus(a, b) = Frac(n * l + m * k, d * l)
  BY DEF Plus, Summed
<1> HIDE DEF g, n, m, d, e, k, l
<1>4. n * l + m * k \in Int /\ d * l \in Nat /\ d * l > 0
  BY <1>1, <1>2
<1>5. Plus(a, b) \in Fraction /\ Is(Plus(a, b), n * l + m * k, d * l)
  BY <1>3, <1>4, FracIs
<1>6. (n * l + m * k) * (d * e) = (n * e + m * d) * (d * l)
  <2>1. (n * l + m * k) * (d * (l * g)) = (n * (l * g) + m * (k * g)) * (d * l)
    BY <1>1, <1>2
  <2> QED
    BY <1>2, <2>1
<1>7. n * e + m * d \in Int /\ d * e \in Int
  BY <1>1
<1>8. Is(Plus(a, b), n * e + m * d, d * e)
  BY <1>4, <1>5, <1>6, <1>7, Scaled
<1> QED
  BY <1>5, <1>8 DEF n, m, d, e

LEMMA TimesIs ==
    ASSUME NEW a \in Fraction, NEW b \in Fraction
    PROVE  Times(a, b) \in Fraction /\ Is(Times(a, b), a[1] * b[1], a[2] * b[2])
<1> DEFINE n == a[1]
           m == b[1]
           d == a[2]
           e == b[2]
           g == Gcd[<<Abs(n), e>>]
           h == Gcd[<<Abs(m), d>>]
           p == n \div g
           q == e \div g
           r == m \div h
           s == d \div h
<1>1. n \in Int /\ m \in Int /\ d \in Nat /\ d > 0 /\ e \in Nat /\ e > 0
  BY Parts
<1>2. Lowest(n, d) /\ Lowest(m, e)
  BY DEF Fraction
<1>3. Times(a, b) = <<p * r, s * q>>
  BY DEF Times, Crossed
<1> HIDE DEF n, m, d, e
<1>4. g \in Int /\ p \in Int /\ q \in Int /\ q > 0 /\ n = p * g /\ e = q * g /\ Lowest(p, q)
  BY <1>1, Divided
<1>5. h \in Int /\ r \in Int /\ s \in Int /\ s > 0 /\ m = r * h /\ d = s * h /\ Lowest(r, s)
  BY <1>1, Divided
<1> HIDE DEF p, q, r, s, g, h
<1>6. Lowest(p, s)
  <2>1. PICK x \in Int, y \in Int : x * (p * g) + y * (s * h) = 1
    BY <1>2, <1>4, <1>5 DEF Lowest
  <2>2. (x * g) * p + (y * h) * s = 1 /\ x * g \in Int /\ y * h \in Int
    BY <1>4, <1>5, <2>1
  <2> QED
    BY <2>2 DEF Lowest
<1>7. Lowest(r, q)
  <2>1. PICK x \in Int, y \in Int : x * (r * h) + y * (q * g) = 1
    BY <1>2, <1>4, <1>5 DEF Lowest
  <2>2. (x * h) * r + (y * g) * q = 1 /\ x * h \in Int /\ y * g \in Int
    BY <1>4, <1>5, <2>1
  <2> QED
    BY <2>2 DEF Lowest
<1>8. Lowest(p * r, s * q)
  <2>1. Lowest(p * r, s) /\ Lowest(p * r, q) /\ p * r \in Int
    BY <1>4, <1>5, <1>6, <1>7, LowestProduct
  <2>2. Lowest(s, p * r) /\ Lowest(q, p * r)
    BY <1>4, <1>5, <2>1, LowestTurned
  <2>3. Lowest(s * q, p * r) /\ s * q \in Int
    BY <1>4, <1>5, <2>1, <2>2, LowestProduct
  <2> QED
    BY <2>1, <2>3, LowestTurned
<1>9. p * r \in Int /\ s * q \in Nat /\ s * q > 0
  BY <1>4, <1>5
<1>10. <<p * r, s * q>> \in Fraction
  BY <1>8, <1>9 DEF Fraction
<1>11. (p * r) * (d * e) = (n * m) * (s * q)
  <2>1. (p * r) * ((s * h) * (q * g)) = ((p * g) * (r * h)) * (s * q)
    BY <1>4, <1>5
  <2> QED
    BY <1>4, <1>5, <2>1
<1> QED
  BY <1>3, <1>10, <1>11 DEF Is, n, m, d, e

LEMMA Turned ==
    ASSUME NEW a \in Fraction, Positive(a)
    PROVE  <<a[2], a[1]>> \in Fraction
<1>1. a[1] \in Nat \ {0} /\ a[2] \in Int /\ Lowest(a[1], a[2])
  BY Parts DEF Positive, Fraction
<1>2. Lowest(a[2], a[1])
  BY <1>1, LowestTurned
<1> QED
  BY <1>1, <1>2 DEF Fraction

LEMMA OverIs ==
    ASSUME NEW a \in Fraction, NEW b \in Fraction, Positive(b)
    PROVE  Over(a, b) \in Fraction /\ Is(Over(a, b), a[1] * b[2], a[2] * b[1])
<1> DEFINE c == <<b[2], b[1]>>
<1>1. c \in Fraction /\ c[1] = b[2] /\ c[2] = b[1]
  BY Turned
<1> HIDE DEF c
<1>2. Over(a, b) = Times(a, c)
  BY DEF Over, c
<1> QED
  BY <1>1, <1>2, TimesIs

Negated(a) == <<-a[1], a[2]>>

LEMMA NegatedIs ==
    ASSUME NEW a \in Fraction
    PROVE  Negated(a) \in Fraction /\ Negated(a)[1] = -a[1] /\ Negated(a)[2] = a[2]
<1>1. a[1] \in Int /\ a[2] \in Nat \ {0}
  BY DEF Fraction
<1>2. PICK x \in Int, y \in Int : x * a[1] + y * a[2] = 1
  BY DEF Fraction, Lowest
<1>3. -x \in Int /\ (-x) * (-a[1]) + y * a[2] = 1
  BY <1>1, <1>2
<1>4. Lowest(-a[1], a[2])
  BY <1>3 DEF Lowest
<1> QED
  BY <1>1, <1>4 DEF Negated, Fraction

LEMMA MinusIs ==
    ASSUME NEW a \in Fraction, NEW b \in Fraction
    PROVE  Minus(a, b) \in Fraction /\ Is(Minus(a, b), a[1] * b[2] - b[1] * a[2], a[2] * b[2])
<1>1. Minus(a, b) = Plus(a, Negated(b))
  BY DEF Minus, Negated
<1>2. Negated(b) \in Fraction /\ Negated(b)[1] = -b[1] /\ Negated(b)[2] = b[2]
  BY NegatedIs
<1>3. Is(Minus(a, b), a[1] * b[2] + (-b[1]) * a[2], a[2] * b[2]) /\ Minus(a, b) \in Fraction
  BY <1>1, <1>2, PlusIs
<1>4. a[1] * b[2] + (-b[1]) * a[2] = a[1] * b[2] - b[1] * a[2]
  BY Parts
<1> QED
  BY <1>3, <1>4

LEMMA AtMostIs ==
    ASSUME NEW a \in Fraction, NEW b \in Fraction
    PROVE  AtMost(a, b) <=> a[1] * b[2] <= b[1] * a[2]
<1> DEFINE g == Gcd[<<a[2], b[2]>>]
           n == a[1]
           m == b[1]
           d == a[2]
           e == b[2]
           k == d \div g
           l == e \div g
<1>1. n \in Int /\ m \in Int /\ d \in Int /\ d > 0 /\ e \in Int /\ e > 0
  BY Parts
<1>2. g \in Int /\ g > 0 /\ k \in Int /\ k > 0 /\ l \in Int /\ l > 0 /\ d = k * g /\ e = l * g
  BY Denominators
<1>3. AtMost(a, b) <=> n * l - m * k <= 0
  BY DEF AtMost, Apart
<1> HIDE DEF g, n, m, d, e, k, l
<1>4. n * e - m * d = (n * l - m * k) * g
  BY <1>1, <1>2
<1>5. n * e \in Int /\ m * d \in Int /\ n * l - m * k \in Int
  BY <1>1, <1>2
<1> DEFINE z == n * l - m * k
<1>6. z <= 0 <=> z * g <= 0
  <2> HIDE DEF z
  <2>1. z \in Int
    BY <1>5 DEF z
  <2>2. z > 0 => z * g > 0
    BY <1>2, <2>1
  <2>3. z <= 0 => z * g <= 0
    BY <1>2, <2>1
  <2> QED
    BY <1>2, <2>1, <2>2, <2>3
<1>7. n * e <= m * d <=> z * g <= 0
  BY <1>4, <1>5
<1> QED
  BY <1>3, <1>6, <1>7 DEF n, m, d, e

-----------------------------------------------------------------------------
(* Arithmetic of fractions.  Fractions on a common denominator add and      *)
(* compare as their numerators do.                                          *)

LEMMA SameDenominator ==
    ASSUME NEW a \in Fraction, NEW b \in Fraction, NEW n \in Int, NEW m \in Int,
           NEW d \in Int, d > 0, Is(a, n, d), Is(b, m, d)
    PROVE  /\ Is(Plus(a, b), n + m, d)
           /\ Is(Minus(a, b), n - m, d)
           /\ AtMost(a, b) <=> n <= m
           /\ a = b <=> n = m
<1> DEFINE p == a[1]
           q == a[2]
           r == b[1]
           s == b[2]
<1>1. p \in Int /\ q \in Int /\ q > 0 /\ r \in Int /\ s \in Int /\ s > 0
  BY Parts
<1>2. p * d = n * q /\ r * d = m * s
  BY DEF Is
<1>3. /\ Plus(a, b) \in Fraction /\ Is(Plus(a, b), p * s + r * q, q * s)
      /\ Minus(a, b) \in Fraction /\ Is(Minus(a, b), p * s - r * q, q * s)
      /\ AtMost(a, b) <=> p * s <= r * q
  BY PlusIs, MinusIs, AtMostIs
<1> HIDE DEF p, q, r, s
<1>4. (p * s) * d = n * (q * s) /\ (r * q) * d = m * (q * s)
  <2>1. (p * s) * d = (p * d) * s /\ (r * q) * d = (r * d) * q
    BY <1>1
  <2>2. (n * q) * s = n * (q * s) /\ (m * s) * q = m * (q * s)
    BY <1>1
  <2> QED
    BY <1>2, <2>1, <2>2
<1> DEFINE x == p * s
           y == r * q
           z == q * s
<1>5. x \in Int /\ y \in Int /\ z \in Int /\ z > 0
  BY <1>1
<1> HIDE DEF x, y, z
<1>6. x * d = n * z /\ y * d = m * z
  BY <1>4 DEF x, y, z
<1>7. Is(Plus(a, b), n + m, d)
  <2>1. (x + y) * d = (n + m) * z /\ x + y \in Int /\ n + m \in Int
    BY <1>5, <1>6
  <2> QED
    BY <1>3, <1>5, <2>1, Scaled DEF x, y, z
<1>8. Is(Minus(a, b), n - m, d)
  <2>1. (x - y) * d = (n - m) * z /\ x - y \in Int /\ n - m \in Int
    BY <1>5, <1>6
  <2> QED
    BY <1>3, <1>5, <2>1, Scaled DEF x, y, z
<1>9. x <= y <=> n <= m
  <2>1. (x - y) * d = (n - m) * z
    BY <1>5, <1>6
  <2>2. x > y => (x - y) * d > 0
    BY <1>5
  <2>3. n > m => (n - m) * z > 0
    BY <1>5
  <2>4. x <= y => (x - y) * d <= 0
    BY <1>5
  <2>5. n <= m => (n - m) * z <= 0
    BY <1>5
  <2> QED
    BY <1>5, <2>1, <2>2, <2>3, <2>4, <2>5
<1>10. n = m => a = b
  BY OneNumber
<1>11. a = b => n = m
  <2>1. a = b => n * q = m * q
    BY <1>2 DEF p, q, r, s
  <2> QED
    BY <1>1, <2>1, Cancel
<1> QED
  BY <1>3, <1>7, <1>8, <1>9, <1>10, <1>11 DEF x, y

LEMMA CommonDenominator ==
    ASSUME NEW a \in Fraction, NEW b \in Fraction, NEW c \in Fraction
    PROVE  \E d \in Int, n \in Int, m \in Int, k \in Int :
             d > 0 /\ Is(a, n, d) /\ Is(b, m, d) /\ Is(c, k, d)
<1> DEFINE p == a[1]
           q == a[2]
           r == b[1]
           s == b[2]
           t == c[1]
           u == c[2]
<1>1. /\ p \in Int /\ q \in Int /\ q > 0 /\ r \in Int /\ s \in Int /\ s > 0
      /\ t \in Int /\ u \in Int /\ u > 0
  BY Parts
<1> HIDE DEF p, q, r, s, t, u
<1> DEFINE d == q * s * u
<1>2. d \in Int /\ d > 0
  <2>1. q * s \in Int /\ q * s > 0
    BY <1>1
  <2> QED
    BY <1>1, <2>1
<1>3. p * d = (p * s * u) * q /\ r * d = (r * q * u) * s /\ t * d = (t * q * s) * u
  BY <1>1
<1>4. p * s * u \in Int /\ r * q * u \in Int /\ t * q * s \in Int
  BY <1>1
<1>5. Is(a, p * s * u, d) /\ Is(b, r * q * u, d) /\ Is(c, t * q * s, d)
  BY <1>3 DEF Is, p, q, r, s, t, u
<1> HIDE DEF d
<1> QED
  BY <1>2, <1>4, <1>5

LEMMA ZeroIs == Zero \in Fraction /\ \A d \in Int : Is(Zero, 0, d)
<1>1. Zero \in Fraction /\ Zero[1] = 0 /\ Zero[2] = 1
  BY WholeIs DEF Zero
<1> QED
  BY <1>1 DEF Is

LEMMA Sums ==
    ASSUME NEW a \in Fraction, NEW b \in Fraction, NEW c \in Fraction
    PROVE  /\ Plus(a, b) \in Fraction /\ Minus(a, b) \in Fraction
           /\ Plus(a, b) = Plus(b, a)
           /\ Plus(Plus(a, b), c) = Plus(a, Plus(b, c))
           /\ Plus(a, Zero) = a /\ Plus(Zero, a) = a
           /\ Minus(a, Zero) = a /\ Minus(a, a) = Zero
           /\ Plus(Minus(a, b), b) = a /\ Plus(b, Minus(a, b)) = a
           /\ c = Minus(a, b) <=> Plus(c, b) = a
<1>1. PICK d \in Int, n \in Int, m \in Int, k \in Int :
         d > 0 /\ Is(a, n, d) /\ Is(b, m, d) /\ Is(c, k, d)
  BY CommonDenominator
<1>2. Zero \in Fraction /\ Is(Zero, 0, d) /\ 0 \in Int
  BY ZeroIs
<1> DEFINE ab == Plus(a, b)
           ba == Plus(b, a)
           bc == Plus(b, c)
           mi == Minus(a, b)
           cb == Plus(c, b)
<1>3. ab \in Fraction /\ ba \in Fraction /\ bc \in Fraction /\ mi \in Fraction /\ cb \in Fraction
  BY PlusIs, MinusIs
<1>4. /\ n + m \in Int /\ m + n \in Int /\ m + k \in Int /\ n - m \in Int /\ k + m \in Int
      /\ n + 0 = n /\ 0 + n = n /\ n - 0 = n /\ n - n = 0 /\ (n - m) + m = n /\ m + (n - m) = n
      /\ n + m = m + n /\ (n + m) + k = n + (m + k)
      /\ (k = n - m <=> k + m = n)
      /\ (n + m) + k \in Int
  OBVIOUS
<1>5. Is(ab, n + m, d) /\ Is(ba, m + n, d) /\ Is(bc, m + k, d) /\ Is(mi, n - m, d) /\ Is(cb, k + m, d)
  BY <1>1, SameDenominator
<1>6. ab = ba
  BY <1>1, <1>3, <1>4, <1>5, SameDenominator
<1>7. Plus(ab, c) = Plus(a, bc)
  <2>1. Is(Plus(ab, c), (n + m) + k, d) /\ Plus(ab, c) \in Fraction
    BY <1>1, <1>3, <1>4, <1>5, SameDenominator, PlusIs
  <2>2. Is(Plus(a, bc), n + (m + k), d) /\ Plus(a, bc) \in Fraction
    BY <1>1, <1>3, <1>4, <1>5, SameDenominator, PlusIs
  <2> QED
    BY <1>1, <1>4, <2>1, <2>2, SameDenominator
<1>8. Plus(a, Zero) = a /\ Plus(Zero, a) = a /\ Minus(a, Zero) = a /\ Minus(a, a) = Zero
  <2>1. /\ Is(Plus(a, Zero), n + 0, d) /\ Plus(a, Zero) \in Fraction
        /\ Is(Plus(Zero, a), 0 + n, d) /\ Plus(Zero, a) \in Fraction
        /\ Is(Minus(a, Zero), n - 0, d) /\ Minus(a, Zero) \in Fraction
        /\ Is(Minus(a, a), n - n, d) /\ Minus(a, a) \in Fraction
    BY <1>1, <1>2, SameDenominator, PlusIs, MinusIs
  <2> QED
    BY <1>1, <1>2, <1>4, <2>1, SameDenominator
<1>9. Plus(mi, b) = a /\ Plus(b, mi) = a
  <2>1. /\ Is(Plus(mi, b), (n - m) + m, d) /\ Plus(mi, b) \in Fraction
        /\ Is(Plus(b, mi), m + (n - m), d) /\ Plus(b, mi) \in Fraction
    BY <1>1, <1>3, <1>4, <1>5, SameDenominator, PlusIs
  <2> QED
    BY <1>1, <1>4, <2>1, SameDenominator
<1>10. c = mi <=> cb = a
  <2>1. c = mi <=> k = n - m
    BY <1>1, <1>3, <1>4, <1>5, SameDenominator
  <2>2. cb = a <=> k + m = n
    BY <1>1, <1>3, <1>4, <1>5, SameDenominator
  <2> QED
    BY <1>4, <2>1, <2>2
<1> QED
  BY <1>3, <1>6, <1>7, <1>8, <1>9, <1>10

LEMMA Exchange ==
    ASSUME NEW a \in Fraction, NEW b \in Fraction, NEW c \in Fraction
    PROVE  Plus(a, Plus(b, c)) = Plus(b, Plus(a, c))
<1>1. Plus(a, Plus(b, c)) = Plus(Plus(a, b), c) /\ Plus(b, Plus(a, c)) = Plus(Plus(b, a), c)
  BY Sums
<1>2. Plus(a, b) = Plus(b, a)
  BY Sums
<1> QED
  BY <1>1, <1>2

LEMMA Order ==
    ASSUME NEW a \in Fraction, NEW b \in Fraction, NEW c \in Fraction
    PROVE  /\ AtMost(a, a)
           /\ AtMost(a, b) \/ AtMost(b, a)
           /\ AtMost(a, b) /\ AtMost(b, a) => a = b
           /\ AtMost(a, b) /\ AtMost(b, c) => AtMost(a, c)
           /\ AtMost(a, b) <=> AtMost(Plus(a, c), Plus(b, c))
           /\ AtMost(a, b) <=> AtMost(Zero, Minus(b, a))
           /\ AtMost(Zero, b) => AtMost(a, Plus(a, b)) /\ AtMost(Minus(a, b), a)
<1>1. PICK d \in Int, n \in Int, m \in Int, k \in Int :
         d > 0 /\ Is(a, n, d) /\ Is(b, m, d) /\ Is(c, k, d)
  BY CommonDenominator
<1>2. Zero \in Fraction /\ Is(Zero, 0, d) /\ 0 \in Int
  BY ZeroIs
<1>3. /\ AtMost(a, a) <=> n <= n
      /\ AtMost(a, b) <=> n <= m
      /\ AtMost(b, a) <=> m <= n
      /\ AtMost(b, c) <=> m <= k
      /\ AtMost(a, c) <=> n <= k
      /\ AtMost(Zero, b) <=> 0 <= m
      /\ a = b <=> n = m
  BY <1>1, <1>2, SameDenominator
<1>4. /\ Plus(a, c) \in Fraction /\ Is(Plus(a, c), n + k, d) /\ n + k \in Int
      /\ Plus(b, c) \in Fraction /\ Is(Plus(b, c), m + k, d) /\ m + k \in Int
      /\ Minus(b, a) \in Fraction /\ Is(Minus(b, a), m - n, d) /\ m - n \in Int
      /\ Minus(a, b) \in Fraction /\ Is(Minus(a, b), n - m, d) /\ n - m \in Int
      /\ Plus(a, b) \in Fraction /\ Is(Plus(a, b), n + m, d) /\ n + m \in Int
  BY <1>1, SameDenominator, PlusIs, MinusIs
<1>5. /\ AtMost(Plus(a, c), Plus(b, c)) <=> n + k <= m + k
      /\ AtMost(Zero, Minus(b, a)) <=> 0 <= m - n
      /\ AtMost(a, Plus(a, b)) <=> n <= n + m
      /\ AtMost(Minus(a, b), a) <=> n - m <= n
  BY <1>1, <1>2, <1>4, SameDenominator
<1> QED
  BY <1>3, <1>5

LEMMA ProductIs ==
    ASSUME NEW a \in Fraction, NEW b \in Fraction, NEW n \in Int, NEW m \in Int,
           NEW d \in Int, NEW e \in Int, d # 0, e # 0, Is(a, n, d), Is(b, m, e)
    PROVE  Times(a, b) \in Fraction /\ Is(Times(a, b), n * m, d * e)
<1> DEFINE p == a[1]
           q == a[2]
           r == b[1]
           s == b[2]
<1>1. p \in Int /\ q \in Int /\ q > 0 /\ r \in Int /\ s \in Int /\ s > 0
  BY Parts
<1>2. p * d = n * q /\ r * e = m * s
  BY DEF Is
<1>3. Times(a, b) \in Fraction /\ Is(Times(a, b), p * r, q * s)
  BY TimesIs
<1> HIDE DEF p, q, r, s
<1>4. (p * r) * (d * e) = (n * m) * (q * s)
  <2>1. (p * r) * (d * e) = (p * d) * (r * e) /\ (n * m) * (q * s) = (n * q) * (m * s)
    BY <1>1
  <2> QED
    BY <1>2, <2>1
<1>5. p * r \in Int /\ q * s \in Int /\ q * s # 0 /\ n * m \in Int /\ d * e \in Int
  BY <1>1
<1> QED
  BY <1>3, <1>4, <1>5, Scaled

LEMMA OneIs == Whole(1) \in Fraction /\ Is(Whole(1), 1, 1)
BY WholeIs

LEMMA Products ==
    ASSUME NEW a \in Fraction, NEW b \in Fraction, NEW c \in Fraction
    PROVE  /\ Times(a, b) \in Fraction
           /\ Times(a, b) = Times(b, a)
           /\ Times(Times(a, b), c) = Times(a, Times(b, c))
           /\ Times(a, Plus(b, c)) = Plus(Times(a, b), Times(a, c))
           /\ Times(a, Zero) = Zero /\ Times(Zero, a) = Zero
           /\ Times(a, Whole(1)) = a /\ Times(Whole(1), a) = a
<1>1. PICK d \in Int, n \in Int, m \in Int, k \in Int :
         d > 0 /\ Is(a, n, d) /\ Is(b, m, d) /\ Is(c, k, d)
  BY CommonDenominator
<1> DEFINE ab == Times(a, b)
           ba == Times(b, a)
           bc == Times(b, c)
           ac == Times(a, c)
           sum == Plus(b, c)
           dd == d * d
<1>2. dd \in Int /\ dd # 0 /\ dd > 0
  BY <1>1
<1>3. n * m \in Int /\ m * n \in Int /\ m * k \in Int /\ n * k \in Int /\ m + k \in Int /\ n * m = m * n
  OBVIOUS
<1>4. /\ ab \in Fraction /\ Is(ab, n * m, dd)
      /\ ba \in Fraction /\ Is(ba, m * n, dd)
      /\ bc \in Fraction /\ Is(bc, m * k, dd)
      /\ ac \in Fraction /\ Is(ac, n * k, dd)
      /\ sum \in Fraction /\ Is(sum, m + k, d)
  <2>1. ab \in Fraction /\ Is(ab, n * m, dd) /\ ba \in Fraction /\ Is(ba, m * n, dd)
    BY <1>1, ProductIs
  <2>2. bc \in Fraction /\ Is(bc, m * k, dd) /\ ac \in Fraction /\ Is(ac, n * k, dd)
    BY <1>1, ProductIs
  <2>3. sum \in Fraction /\ Is(sum, m + k, d)
    BY <1>1, SameDenominator, PlusIs
  <2> QED
    BY <2>1, <2>2, <2>3
<1> HIDE DEF ab, ba, bc, ac, sum
<1>5. ab = ba
  BY <1>2, <1>3, <1>4, OneNumber
<1>6. Times(ab, c) = Times(a, bc)
  <2>1. Times(ab, c) \in Fraction /\ Is(Times(ab, c), (n * m) * k, dd * d)
    BY <1>1, <1>2, <1>3, <1>4, ProductIs
  <2>2. Times(a, bc) \in Fraction /\ Is(Times(a, bc), n * (m * k), d * dd)
    BY <1>1, <1>2, <1>3, <1>4, ProductIs
  <2>3. (n * m) * k = n * (m * k) /\ (n * m) * k \in Int /\ dd * d = d * dd /\ dd * d \in Int /\ dd * d # 0
    BY <1>1, <1>2
  <2> QED
    BY <2>1, <2>2, <2>3, OneNumber
<1>7. Times(a, sum) = Plus(ab, ac)
  <2>1. Times(a, sum) \in Fraction /\ Is(Times(a, sum), n * (m + k), dd)
    BY <1>1, <1>3, <1>4, ProductIs
  <2>2. Plus(ab, ac) \in Fraction /\ Is(Plus(ab, ac), n * m + n * k, dd)
    BY <1>2, <1>3, <1>4, SameDenominator, PlusIs
  <2>3. n * (m + k) = n * m + n * k /\ n * (m + k) \in Int
    OBVIOUS
  <2> QED
    BY <1>2, <2>1, <2>2, <2>3, OneNumber
<1>8. Times(a, Zero) = Zero /\ Times(Zero, a) = Zero
  <2>1. Zero \in Fraction /\ Is(Zero, 0, d) /\ 0 \in Int
    BY ZeroIs
  <2>2. /\ Times(a, Zero) \in Fraction /\ Is(Times(a, Zero), n * 0, dd)
        /\ Times(Zero, a) \in Fraction /\ Is(Times(Zero, a), 0 * n, dd)
        /\ Is(Zero, 0, dd)
    BY <1>1, <1>2, <2>1, ProductIs, ZeroIs
  <2>3. n * 0 = 0 /\ 0 * n = 0
    OBVIOUS
  <2> QED
    BY <1>2, <2>1, <2>2, <2>3, OneNumber
<1>9. Times(a, Whole(1)) = a /\ Times(Whole(1), a) = a
  <2>1. /\ Times(a, Whole(1)) \in Fraction /\ Is(Times(a, Whole(1)), n * 1, d * 1)
        /\ Times(Whole(1), a) \in Fraction /\ Is(Times(Whole(1), a), 1 * n, 1 * d)
    BY <1>1, OneIs, ProductIs
  <2>2. n * 1 = n /\ 1 * n = n /\ d * 1 = d /\ 1 * d = d
    OBVIOUS
  <2> QED
    BY <1>1, <2>1, <2>2, OneNumber
<1> QED
  BY <1>4, <1>5, <1>6, <1>7, <1>8, <1>9 DEF ab, ba, bc, ac, sum

LEMMA PositiveIs ==
    ASSUME NEW a \in Fraction
    PROVE  /\ Positive(a) <=> ~AtMost(a, Zero)
           /\ AtMost(Zero, a) <=> a[1] >= 0
           /\ AtMost(Zero, a) /\ a # Zero => Positive(a)
           /\ Positive(a) => a # Zero /\ AtMost(Zero, a)
<1> DEFINE n == a[1]
           d == a[2]
<1>1. n \in Int /\ d \in Int /\ d > 0
  BY Parts
<1>2. Zero \in Fraction /\ Is(Zero, 0, d) /\ 0 \in Int
  BY <1>1, ZeroIs
<1>3. Is(a, n, d)
  BY DEF Is
<1>4. (AtMost(a, Zero) <=> n <= 0) /\ (AtMost(Zero, a) <=> 0 <= n) /\ (a = Zero <=> n = 0)
  BY <1>1, <1>2, <1>3, SameDenominator
<1>5. Positive(a) <=> n > 0
  BY DEF Positive
<1> HIDE DEF n
<1>6. n >= 0 <=> 0 <= n
  BY <1>1
<1> QED
  BY <1>1, <1>4, <1>5, <1>6 DEF n

LEMMA Signs ==
    ASSUME NEW a \in Fraction, NEW b \in Fraction
    PROVE  /\ AtMost(Zero, a) /\ AtMost(Zero, b) => AtMost(Zero, Times(a, b)) /\ AtMost(Zero, Plus(a, b))
           /\ Positive(a) /\ Positive(b) => Positive(Times(a, b))
           /\ Positive(a) /\ Positive(b) => Positive(Over(a, b))
           /\ AtMost(Zero, a) /\ Positive(b) => AtMost(Zero, Over(a, b))
           /\ Positive(a) /\ AtMost(Zero, b) => Positive(Plus(a, b))
<1>1. a[1] \in Int /\ a[2] \in Int /\ a[2] > 0 /\ b[1] \in Int /\ b[2] \in Int /\ b[2] > 0
  BY Parts
<1> DEFINE t == Times(a, b)
           o == Over(a, b)
           l == Plus(a, b)
           n == a[1]
           m == b[1]
           d == a[2]
           e == b[2]
<1>2. /\ t \in Fraction /\ t[1] * (d * e) = (n * m) * t[2]
      /\ l \in Fraction /\ l[1] * (d * e) = (n * e + m * d) * l[2]
  BY TimesIs, PlusIs DEF Is
<1>3. m > 0 => o \in Fraction /\ o[1] * (d * m) = (n * e) * o[2]
  BY OverIs DEF Is, Positive
<1>4. t[1] \in Int /\ t[2] \in Int /\ t[2] > 0 /\ l[1] \in Int /\ l[2] \in Int /\ l[2] > 0
  BY <1>2, Parts
<1>5. m > 0 => o[1] \in Int /\ o[2] \in Int /\ o[2] > 0
  BY <1>3, Parts
<1>6. /\ (AtMost(Zero, a) <=> n >= 0) /\ (AtMost(Zero, b) <=> m >= 0)
      /\ (Positive(a) <=> n > 0) /\ (Positive(b) <=> m > 0)
      /\ (AtMost(Zero, t) <=> t[1] >= 0) /\ (Positive(t) <=> t[1] > 0)
      /\ (AtMost(Zero, l) <=> l[1] >= 0) /\ (Positive(l) <=> l[1] > 0)
      /\ (m > 0 => (AtMost(Zero, o) <=> o[1] >= 0)) /\ (Positive(o) <=> o[1] > 0)
  BY <1>2, <1>3, PositiveIs DEF Positive
<1> HIDE DEF t, o, l, n, m, d, e
<1>7. ASSUME NEW x \in Int, NEW y \in Int, NEW z \in Int, NEW w \in Int,
             y > 0, w > 0, x * y = z * w
      PROVE  (z >= 0 => x >= 0) /\ (z > 0 => x > 0)
  <2>1. z >= 0 => z * w >= 0
    BY <1>7
  <2>2. z > 0 => z * w > 0
    BY <1>7
  <2>3. x < 0 => x * y < 0
    BY <1>7
  <2>4. x = 0 => x * y = 0
    BY <1>7
  <2> QED
    BY <1>7, <2>1, <2>2, <2>3, <2>4
<1>8. n \in Int /\ d \in Int /\ d > 0 /\ m \in Int /\ e \in Int /\ e > 0
  BY <1>1 DEF n, m, d, e
<1>9. /\ n * m \in Int /\ n * e + m * d \in Int /\ n * e \in Int /\ d * e \in Int /\ d * e > 0
      /\ d * m \in Int /\ (m > 0 => d * m > 0)
      /\ (n >= 0 /\ m >= 0 => n * m >= 0 /\ n * e + m * d >= 0)
      /\ (n > 0 /\ m > 0 => n * m > 0)
      /\ (n >= 0 => n * e >= 0) /\ (n > 0 => n * e > 0) /\ (m >= 0 => m * d >= 0)
  BY <1>8
<1>10. n > 0 /\ m >= 0 => n * e + m * d > 0
  <2> DEFINE x == n * e
             y == m * d
  <2>1. x \in Int /\ y \in Int /\ (n > 0 => x > 0) /\ (m >= 0 => y >= 0)
    BY <1>8, <1>9
  <2> HIDE DEF x, y
  <2>2. n > 0 /\ m >= 0 => x + y > 0
    BY <2>1
  <2> QED
    BY <2>2 DEF x, y
<1>11. (n * m >= 0 => t[1] >= 0) /\ (n * m > 0 => t[1] > 0)
  BY <1>2, <1>4, <1>7, <1>9
<1>12. (n * e + m * d >= 0 => l[1] >= 0) /\ (n * e + m * d > 0 => l[1] > 0)
  BY <1>2, <1>4, <1>7, <1>9
<1>13. m > 0 => (n * e >= 0 => o[1] >= 0) /\ (n * e > 0 => o[1] > 0)
  BY <1>3, <1>5, <1>7, <1>9
<1> DEFINE A == n >= 0
           B == m >= 0
           C == n > 0
           D == m > 0
<1>14. (A /\ B => t[1] >= 0 /\ l[1] >= 0) /\ (C /\ D => t[1] > 0) /\ (C /\ B => l[1] > 0)
  BY <1>9, <1>10, <1>11, <1>12
<1>15. D => (A => o[1] >= 0) /\ (C => o[1] > 0)
  BY <1>9, <1>13
<1> QED
  BY <1>6, <1>14, <1>15 DEF t, o, l

LEMMA Quotients ==
    ASSUME NEW a \in Fraction, NEW b \in Fraction, Positive(b)
    PROVE  /\ Over(a, b) \in Fraction
           /\ Times(Over(a, b), b) = a
           /\ Over(Times(a, b), b) = a
           /\ Over(Zero, b) = Zero
           /\ Over(b, b) = Whole(1)
<1> DEFINE c == <<b[2], b[1]>>
<1>1. c \in Fraction
  BY Turned
<1>2. \A x : Over(x, b) = Times(x, c)
  BY DEF Over
<1>3. Times(b, c) = Whole(1) /\ Times(c, b) = Whole(1)
  <2>1. b[1] \in Int /\ b[2] \in Int /\ b[1] > 0 /\ b[2] > 0
    BY Parts DEF Positive
  <2>2. /\ Times(b, c) \in Fraction /\ Is(Times(b, c), b[1] * b[2], b[2] * b[1])
        /\ Times(c, b) \in Fraction /\ Is(Times(c, b), b[2] * b[1], b[1] * b[2])
    BY <1>1, TimesIs
  <2> DEFINE x == b[1] * b[2]
  <2>3. x \in Int /\ x # 0 /\ b[2] * b[1] = x
    BY <2>1
  <2>4. Is(Times(b, c), x, x) /\ Is(Times(c, b), x, x)
    BY <2>2, <2>3
  <2> HIDE DEF x, c
  <2>5. x * 1 = 1 * x
    BY <2>3
  <2>6. Is(Times(b, c), 1, 1) /\ Is(Times(c, b), 1, 1)
    BY <2>2, <2>3, <2>4, <2>5, Scaled
  <2>7. 1 \in Int /\ 1 # 0
    OBVIOUS
  <2> QED
    BY <2>2, <2>6, <2>7, OneIs, OneNumber
<1> HIDE DEF c
<1>4. Over(a, b) \in Fraction
  BY <1>1, <1>2, Products
<1>5. Times(Over(a, b), b) = a
  BY <1>1, <1>2, <1>3, Products
<1>6. Over(Times(a, b), b) = a
  BY <1>1, <1>2, <1>3, Products
<1>7. Over(Zero, b) = Zero
  BY <1>1, <1>2, Products
<1> QED
  BY <1>2, <1>3, <1>4, <1>5, <1>6, <1>7

LEMMA Scaling ==
    ASSUME NEW a \in Fraction, NEW b \in Fraction, NEW c \in Fraction
    PROVE  /\ AtMost(a, b) /\ AtMost(Zero, c) => AtMost(Times(a, c), Times(b, c))
           /\ Positive(c) => (AtMost(a, b) <=> AtMost(Over(a, c), Over(b, c)))
           /\ Positive(c) => (AtMost(a, Times(b, c)) <=> AtMost(Over(a, c), b))
           /\ Times(a, Minus(b, c)) = Minus(Times(a, b), Times(a, c))
           /\ Positive(c) => Over(Plus(a, b), c) = Plus(Over(a, c), Over(b, c))
<1>1. ASSUME NEW x \in Fraction, NEW y \in Fraction, NEW z \in Fraction
      PROVE  Times(x, Minus(y, z)) = Minus(Times(x, y), Times(x, z))
  <2> DEFINE m == Minus(y, z)
  <2>1. m \in Fraction /\ Plus(m, z) = y
    BY Sums
  <2> HIDE DEF m
  <2>2. /\ Times(x, m) \in Fraction /\ Times(x, z) \in Fraction /\ Times(x, y) \in Fraction
        /\ Plus(Times(x, m), Times(x, z)) = Times(x, y)
    BY <2>1, Products
  <2>3. Times(x, m) = Minus(Times(x, y), Times(x, z))
    BY <2>2, Sums
  <2> QED
    BY <2>3 DEF m
<1>2. ASSUME NEW x \in Fraction, NEW y \in Fraction, NEW z \in Fraction,
             AtMost(x, y), AtMost(Zero, z)
      PROVE  AtMost(Times(x, z), Times(y, z))
  <2> DEFINE m == Minus(y, x)
  <2>1. m \in Fraction /\ AtMost(Zero, m)
    BY <1>2, Sums, Order
  <2>2. Times(z, m) \in Fraction /\ AtMost(Zero, Times(z, m))
    BY <1>2, <2>1, Signs, Products
  <2>3. Times(z, m) = Minus(Times(z, y), Times(z, x))
    BY <1>1
  <2>4. AtMost(Times(z, x), Times(z, y))
    BY <2>2, <2>3, Order, Products
  <2> QED
    BY <2>4, Products
<1>3. ASSUME Positive(c)
      PROVE  AtMost(a, b) <=> AtMost(Over(a, c), Over(b, c))
  <2> DEFINE d == <<c[2], c[1]>>
  <2>1. d \in Fraction /\ AtMost(Zero, d) /\ AtMost(Zero, c)
    <3>1. d \in Fraction
      BY <1>3, Turned
    <3>2. d[1] >= 0
      BY Parts
    <3> QED
      BY <1>3, <3>1, <3>2, PositiveIs
  <2>2. Over(a, c) = Times(a, d) /\ Over(b, c) = Times(b, d)
    BY DEF Over
  <2>3. Over(a, c) \in Fraction /\ Over(b, c) \in Fraction /\ Times(Over(a, c), c) = a /\ Times(Over(b, c), c) = b
    BY <1>3, Quotients
  <2> HIDE DEF d
  <2>4. AtMost(a, b) => AtMost(Over(a, c), Over(b, c))
    BY <1>2, <2>1, <2>2
  <2>5. ASSUME AtMost(Over(a, c), Over(b, c))
        PROVE  AtMost(a, b)
    <3>1. AtMost(Times(Over(a, c), c), Times(Over(b, c), c))
      BY <1>2, <2>1, <2>3, <2>5
    <3> QED
      BY <2>3, <3>1
  <2> QED
    BY <2>4, <2>5
<1>4. ASSUME Positive(c)
      PROVE  AtMost(a, Times(b, c)) <=> AtMost(Over(a, c), b)
  <2>1. Over(a, c) \in Fraction /\ Times(Over(a, c), c) = a /\ Over(Times(b, c), c) = b /\ Times(b, c) \in Fraction
    BY <1>4, Quotients, Products
  <2>2. AtMost(Zero, c)
    BY <1>4, PositiveIs
  <2>3. ASSUME AtMost(Over(a, c), b)
        PROVE  AtMost(a, Times(b, c))
    <3>1. AtMost(Times(Over(a, c), c), Times(b, c))
      BY <1>2, <2>1, <2>2, <2>3
    <3> QED
      BY <2>1, <3>1
  <2>4. AtMost(a, Times(b, c)) => AtMost(Over(a, c), b)
    <3> DEFINE d == <<c[2], c[1]>>
    <3>1. d \in Fraction /\ AtMost(Zero, d)
      <4>1. d \in Fraction
        BY <1>4, Turned
      <4>2. d[1] >= 0
        BY Parts
      <4> QED
        BY <4>1, <4>2, PositiveIs
    <3>2. Over(a, c) = Times(a, d) /\ Over(Times(b, c), c) = Times(Times(b, c), d)
      BY DEF Over
    <3> HIDE DEF d
    <3> QED
      BY <1>2, <2>1, <3>1, <3>2
  <2> QED
    BY <2>3, <2>4
<1>5. ASSUME Positive(c)
      PROVE  Over(Plus(a, b), c) = Plus(Over(a, c), Over(b, c))
  <2> DEFINE d == <<c[2], c[1]>>
  <2>1. d \in Fraction
    BY <1>5, Turned
  <2>2. \A x : Over(x, c) = Times(x, d)
    BY DEF Over
  <2> HIDE DEF d
  <2>3. Plus(a, b) \in Fraction /\ Times(d, Plus(a, b)) = Plus(Times(d, a), Times(d, b))
    BY <2>1, Sums, Products
  <2>4. Times(d, Plus(a, b)) = Times(Plus(a, b), d) /\ Times(d, a) = Times(a, d) /\ Times(d, b) = Times(b, d)
    BY <2>1, <2>3, Products
  <2> QED
    BY <2>2, <2>3, <2>4
<1> QED
  BY <1>1, <1>2, <1>3, <1>4, <1>5

-----------------------------------------------------------------------------
(* Recursion and induction over the subsets of a finite set.                *)

LEMMA EverySubset ==
    ASSUME NEW S, IsFiniteSet(S), NEW P, {} \in P,
           \A T \in SUBSET S : T # {} /\ (\A x \in T : T \ {x} \in P) => T \in P
    PROVE  SUBSET S \subseteq P
<1> DEFINE N == {k \in Nat : \A T \in SUBSET S : Cardinality(T) <= k => T \in P}
<1>1. \A T \in SUBSET S : IsFiniteSet(T) /\ Cardinality(T) \in Nat
  BY FS_Subset, FS_CardinalityType
<1>2. 0 \in N
  <2>1. \A T \in SUBSET S : Cardinality(T) <= 0 => T = {}
    BY <1>1, FS_EmptySet
  <2> QED
    BY <2>1
<1>3. ASSUME NEW k \in Nat, k \in N
      PROVE  k + 1 \in N
  <2> SUFFICES ASSUME NEW T \in SUBSET S, Cardinality(T) <= k + 1
               PROVE  T \in P
    OBVIOUS
  <2>1. \A x \in T : Cardinality(T \ {x}) <= k /\ T \ {x} \in SUBSET S
    <3> TAKE x \in T
    <3>1. Cardinality(T \ {x}) = Cardinality(T) - 1
      BY <1>1, FS_RemoveElement
    <3> QED
      BY <1>1, <3>1
  <2>2. \A x \in T : T \ {x} \in P
    BY <1>3, <2>1
  <2> QED
    BY <2>2
<1> HIDE DEF N
<1>4. Nat \subseteq N
  BY <1>2, <1>3, EveryNumber
<1> QED
  BY <1>1, <1>4 DEF N

Picks(S, pick) == \A T \in SUBSET S : T # {} => pick[T] \in T

\* The functions on subsets that start with v and go on with H.
Sweeps(S, V, v, H, pick) ==
    {s \in [SUBSET S -> V] : \A T \in SUBSET S :
        s[T] = IF T = {} THEN v ELSE H[<<pick[T], s[T \ {pick[T]}]>>]}

LEMMA SubsetRecursion ==
    ASSUME NEW S, IsFiniteSet(S), NEW V, NEW v \in V, NEW H \in [S \X V -> V], NEW pick,
           Picks(S, pick)
    PROVE  Sweeps(S, V, v, H, pick) # {}
<1> DEFINE D(k) == {T \in SUBSET S : Cardinality(T) <= k}
           R(k) == {s \in [D(k) -> V] :
                      \A T \in D(k) : s[T] = IF T = {} THEN v ELSE H[<<pick[T], s[T \ {pick[T]}]>>]}
           N == {k \in Nat : R(k) # {}}
<1>1. \A T \in SUBSET S : IsFiniteSet(T) /\ Cardinality(T) \in Nat
  BY FS_Subset, FS_CardinalityType
<1>2. 0 \in N
  <2>1. \A T \in SUBSET S : Cardinality(T) <= 0 => T = {}
    BY <1>1, FS_EmptySet
  <2> DEFINE s == [T \in D(0) |-> v]
  <2>2. s \in R(0)
    BY <2>1
  <2> QED
    BY <2>2
<1>3. ASSUME NEW k \in Nat, k \in N
      PROVE  k + 1 \in N
  <2>1. PICK s \in R(k) : TRUE
    BY <1>3
  <2> DEFINE t == [T \in D(k + 1) |-> IF T = {} THEN v ELSE H[<<pick[T], s[T \ {pick[T]}]>>]]
  <2>2. s \in [D(k) -> V] /\ \A T \in D(k) : s[T] = IF T = {} THEN v ELSE H[<<pick[T], s[T \ {pick[T]}]>>]
    BY <2>1
  <2>3. \A T \in D(k) : T \in D(k + 1)
    BY <1>1
  <2>4. \A T \in D(k + 1) : T # {} => T \ {pick[T]} \in D(k) /\ pick[T] \in S
    <3> SUFFICES ASSUME NEW T \in SUBSET S, Cardinality(T) <= k + 1, T # {}
                 PROVE  T \ {pick[T]} \in D(k) /\ pick[T] \in S
      OBVIOUS
    <3>1. pick[T] \in T
      BY DEF Picks
    <3>2. Cardinality(T \ {pick[T]}) = Cardinality(T) - 1
      BY <1>1, <3>1, FS_RemoveElement
    <3> QED
      BY <1>1, <3>1, <3>2
  <2> HIDE DEF D, R
  <2>5. \A T \in D(k + 1) : t[T] \in V
    <3> TAKE T \in D(k + 1)
    <3>1. CASE T = {}
      BY <3>1
    <3>2. CASE T # {}
      <4>1. s[T \ {pick[T]}] \in V
        BY <2>2, <2>4, <3>2
      <4>2. <<pick[T], s[T \ {pick[T]}]>> \in S \X V
        BY <2>4, <3>2, <4>1
      <4> QED
        BY <3>2, <4>2
    <3> QED
      BY <3>1, <3>2
  <2>6. \A T \in D(k) : t[T] = s[T]
    BY <2>2, <2>3
  <2>7. t \in [D(k + 1) -> V]
    BY <2>5
  <2>8. \A T \in D(k + 1) : t[T] = IF T = {} THEN v ELSE H[<<pick[T], t[T \ {pick[T]}]>>]
    BY <2>4, <2>6
  <2> HIDE DEF t
  <2>9. t \in R(k + 1)
    BY <2>7, <2>8 DEF R
  <2> QED
    BY <2>9
<1> HIDE DEF N
<1>4. Nat \subseteq N
  BY <1>2, <1>3, EveryNumber
<1>5. Cardinality(S) \in Nat /\ D(Cardinality(S)) = SUBSET S
  BY FS_CardinalityType, FS_Subset
<1>6. PICK s \in R(Cardinality(S)) : TRUE
  BY <1>4, <1>5 DEF N
<1> HIDE DEF D
<1>7. s \in [SUBSET S -> V] /\ \A T \in SUBSET S : s[T] = IF T = {} THEN v ELSE H[<<pick[T], s[T \ {pick[T]}]>>]
  BY <1>5, <1>6
<1> QED
  BY <1>7 DEF Sweeps

-----------------------------------------------------------------------------
(* Sums.                                                                    *)

\* All of f over S are fractions.
Summable(f, S) == IsFiniteSet(S) /\ \A x \in S : f[x] \in Fraction

First(T) == CHOOSE x \in T : TRUE

LEMMA TotalRuns ==
    ASSUME NEW f, NEW S, Summable(f, S)
    PROVE  \E c \in [SUBSET S -> Fraction] :
             /\ c = [T \in SUBSET S |-> IF T = {} THEN Zero ELSE Plus(f[First(T)], c[T \ {First(T)}])]
             /\ Total(f, S) = c[S]
<1> DEFINE H == [x \in S \X Fraction |-> Plus(f[x[1]], x[2])]
           pick == [T \in SUBSET S |-> First(T)]
           c == CHOOSE g : g = [T \in SUBSET S |->
                   IF T = {} THEN Zero ELSE Plus(f[CHOOSE x \in T : TRUE], g[T \ {CHOOSE x \in T : TRUE}])]
<1>1. Zero \in Fraction /\ IsFiniteSet(S)
  BY ZeroIs DEF Summable
<1>2. H \in [S \X Fraction -> Fraction]
  BY PlusIs DEF Summable
<1>3. Picks(S, pick)
  BY DEF First, Picks
<1>4. PICK s \in [SUBSET S -> Fraction] : \A T \in SUBSET S :
         s[T] = IF T = {} THEN Zero ELSE H[<<pick[T], s[T \ {pick[T]}]>>]
  <2> HIDE DEF H, pick, c
  <2> DEFINE v == Zero
             V == Fraction
  <2>1. v \in V /\ H \in [S \X V -> V] /\ IsFiniteSet(S)
    BY <1>1, <1>2
  <2> HIDE DEF v, V
  <2>2. Sweeps(S, V, v, H, pick) # {}
    BY <1>3, <2>1, SubsetRecursion
  <2> QED
    BY <2>2 DEF v, V, Sweeps
<1>5. \A T \in SUBSET S : s[T] = IF T = {} THEN Zero ELSE Plus(f[First(T)], s[T \ {First(T)}])
  <2> TAKE T \in SUBSET S
  <2>1. s[T] = IF T = {} THEN Zero ELSE H[<<pick[T], s[T \ {pick[T]}]>>]
    BY <1>4
  <2>2. T # {} => First(T) \in S
    BY DEF First
  <2>3. T # {} => H[<<First(T), s[T \ {First(T)}]>>] = Plus(f[First(T)], s[T \ {First(T)}])
    BY <2>2
  <2> QED
    BY <2>1, <2>3
<1>6. s = [T \in SUBSET S |-> IF T = {} THEN Zero ELSE Plus(f[First(T)], s[T \ {First(T)}])]
  BY <1>5
<1>7. c = [T \in SUBSET S |-> IF T = {} THEN Zero ELSE Plus(f[First(T)], c[T \ {First(T)}])]
  BY <1>6 DEF First
<1>8. Total(f, S) = c[S]
  BY DEF Total, MapThenFoldSet
<1> HIDE DEF c
<1>9. \A T \in SUBSET S : c[T] \in Fraction
  <2> DEFINE P == {T \in SUBSET S : c[T] \in Fraction}
  <2>1. {} \in P
    BY <1>1, <1>7
  <2>2. ASSUME NEW T \in SUBSET S, T # {}, \A x \in T : T \ {x} \in P
        PROVE  T \in P
    <3>1. First(T) \in T
      BY <2>2 DEF First
    <3>2. c[T \ {First(T)}] \in Fraction /\ f[First(T)] \in Fraction
      BY <2>2, <3>1 DEF Summable
    <3>3. c[T] = Plus(f[First(T)], c[T \ {First(T)}])
      BY <1>7, <2>2
    <3> QED
      BY <3>2, <3>3, PlusIs
  <2> HIDE DEF P
  <2>3. SUBSET S \subseteq P
    BY <1>1, <2>1, <2>2, EverySubset
  <2> QED
    BY <2>3 DEF P
<1>10. c \in [SUBSET S -> Fraction]
  BY <1>7, <1>9
<1> QED
  BY <1>7, <1>8, <1>10

\* The value of a recursion over the subsets does not depend on the set.
LEMMA TotalStep ==
    ASSUME NEW f, NEW S, Summable(f, S)
    PROVE  /\ Total(f, S) \in Fraction
           /\ Total(f, S) = IF S = {} THEN Zero ELSE Plus(f[First(S)], Total(f, S \ {First(S)}))
<1>1. PICK c \in [SUBSET S -> Fraction] :
         /\ c = [T \in SUBSET S |-> IF T = {} THEN Zero ELSE Plus(f[First(T)], c[T \ {First(T)}])]
         /\ Total(f, S) = c[S]
  BY TotalRuns
<1>2. Total(f, S) \in Fraction
  BY <1>1
<1>3. CASE S = {}
  BY <1>1, <1>3
<1>4. CASE S # {}
  <2> DEFINE U == S \ {First(S)}
  <2>1. Summable(f, U)
    BY FS_Subset DEF Summable
  <2>2. PICK d \in [SUBSET U -> Fraction] :
           /\ d = [T \in SUBSET U |-> IF T = {} THEN Zero ELSE Plus(f[First(T)], d[T \ {First(T)}])]
           /\ Total(f, U) = d[U]
    BY <2>1, TotalRuns
  <2> HIDE DEF U
  <2> DEFINE P == {T \in SUBSET U : c[T] = d[T]}
  <2>3. U \subseteq S /\ IsFiniteSet(U)
    BY <2>1 DEF U, Summable
  <2>4. \A T \in SUBSET U : /\ c[T] = IF T = {} THEN Zero ELSE Plus(f[First(T)], c[T \ {First(T)}])
                            /\ d[T] = IF T = {} THEN Zero ELSE Plus(f[First(T)], d[T \ {First(T)}])
    <3> TAKE T \in SUBSET U
    <3>1. T \in SUBSET S
      BY <2>3
    <3> QED
      BY <1>1, <2>2, <3>1
  <2>5. {} \in P
    BY <2>4
  <2>6. ASSUME NEW T \in SUBSET U, T # {}, \A x \in T : T \ {x} \in P
        PROVE  T \in P
    <3>1. First(T) \in T
      BY <2>6 DEF First
    <3>2. c[T \ {First(T)}] = d[T \ {First(T)}]
      BY <2>6, <3>1
    <3> QED
      BY <2>4, <2>6, <3>2
  <2> HIDE DEF P
  <2>7. U \in P
    BY <2>3, <2>5, <2>6, EverySubset
  <2>8. c[U] = Total(f, U)
    BY <2>2, <2>7 DEF P
  <2>9. c[S] = Plus(f[First(S)], c[U])
    BY <1>1, <1>4 DEF U
  <2> QED
    BY <1>1, <1>4, <2>8, <2>9 DEF U
<1> QED
  BY <1>2, <1>3, <1>4

LEMMA SummablePart ==
    ASSUME NEW f, NEW S, Summable(f, S), NEW T \in SUBSET S
    PROVE  Summable(f, T) /\ IsFiniteSet(S)
BY FS_Subset DEF Summable

\* One element of a sum, whichever.
LEMMA TotalSplit ==
    ASSUME NEW f, NEW S, Summable(f, S), NEW x \in S
    PROVE  Total(f, S) = Plus(f[x], Total(f, S \ {x}))
<1> DEFINE P == {T \in SUBSET S : \A y \in T : Total(f, T) = Plus(f[y], Total(f, T \ {y}))}
<1>1. {} \in P
  OBVIOUS
<1>2. ASSUME NEW T \in SUBSET S, T # {}, \A y \in T : T \ {y} \in P
      PROVE  T \in P
  <2> SUFFICES ASSUME NEW y \in T
               PROVE  Total(f, T) = Plus(f[y], Total(f, T \ {y}))
    OBVIOUS
  <2> DEFINE z == First(T)
  <2>1. z \in T
    BY DEF First
  <2>2. Summable(f, T) /\ Total(f, T) = Plus(f[z], Total(f, T \ {z}))
    BY <1>2, SummablePart, TotalStep
  <2> HIDE DEF z
  <2>3. CASE z = y
    BY <2>2, <2>3
  <2>4. CASE z # y
    <3> DEFINE U == T \ {y, z}
    <3>1. (T \ {z}) \ {y} = U /\ (T \ {y}) \ {z} = U
      OBVIOUS
    <3>2. T \ {z} \in P /\ T \ {y} \in P
      BY <1>2, <2>1
    <3>3. Total(f, T \ {z}) = Plus(f[y], Total(f, U)) /\ Total(f, T \ {y}) = Plus(f[z], Total(f, U))
      BY <2>1, <2>4, <3>1, <3>2
    <3>4. Summable(f, U)
      BY SummablePart
    <3> HIDE DEF U
    <3>5. Total(f, U) \in Fraction /\ f[y] \in Fraction /\ f[z] \in Fraction
      BY <2>1, <3>4, TotalStep DEF Summable
    <3>6. Plus(f[z], Plus(f[y], Total(f, U))) = Plus(f[y], Plus(f[z], Total(f, U)))
      BY <3>5, Exchange
    <3> QED
      BY <2>2, <3>3, <3>6
  <2> QED
    BY <2>3, <2>4
<1>3. IsFiniteSet(S)
  BY DEF Summable
<1> HIDE DEF P
<1>4. S \in P
  BY <1>1, <1>2, <1>3, EverySubset
<1> QED
  BY <1>4 DEF P

LEMMA TotalEmpty ==
    ASSUME NEW f
    PROVE  Total(f, {}) = Zero
<1>1. Summable(f, {})
  BY FS_EmptySet DEF Summable
<1> QED
  BY <1>1, TotalStep

LEMMA TotalIs ==
    ASSUME NEW f, NEW S, Summable(f, S)
    PROVE  Total(f, S) \in Fraction
BY TotalStep

LEMMA TotalAdded ==
    ASSUME NEW f, NEW S, Summable(f, S), NEW x, x \notin S, f[x] \in Fraction
    PROVE  Total(f, S \cup {x}) = Plus(f[x], Total(f, S))
<1> DEFINE T == S \cup {x}
<1>1. Summable(f, T)
  BY FS_AddElement DEF Summable
<1>2. x \in T /\ T \ {x} = S
  OBVIOUS
<1> HIDE DEF T
<1>3. Total(f, T) = Plus(f[x], Total(f, S))
  BY <1>1, <1>2, TotalSplit
<1> QED
  BY <1>3 DEF T

LEMMA TotalSame ==
    ASSUME NEW f, NEW g, NEW S, Summable(f, S), \A x \in S : g[x] = f[x]
    PROVE  Total(g, S) = Total(f, S)
<1> DEFINE P == {T \in SUBSET S : Total(g, T) = Total(f, T)}
<1>1. {} \in P
  BY TotalEmpty
<1>2. ASSUME NEW T \in SUBSET S, T # {}, \A y \in T : T \ {y} \in P
      PROVE  T \in P
  <2>1. PICK y \in T : TRUE
    BY <1>2
  <2>2. Summable(f, T) /\ Summable(g, T)
    BY SummablePart DEF Summable
  <2>3. Total(f, T) = Plus(f[y], Total(f, T \ {y})) /\ Total(g, T) = Plus(g[y], Total(g, T \ {y}))
    BY <2>2, TotalSplit
  <2> QED
    BY <1>2, <2>3
<1>3. IsFiniteSet(S)
  BY DEF Summable
<1> HIDE DEF P
<1>4. S \in P
  BY <1>1, <1>2, <1>3, EverySubset
<1> QED
  BY <1>4 DEF P

LEMMA TotalZero ==
    ASSUME NEW f, NEW S, IsFiniteSet(S), \A x \in S : f[x] = Zero
    PROVE  Total(f, S) = Zero
<1> DEFINE P == {T \in SUBSET S : Total(f, T) = Zero}
<1>0. Summable(f, S)
  BY ZeroIs DEF Summable
<1>1. {} \in P
  BY TotalEmpty
<1>2. ASSUME NEW T \in SUBSET S, T # {}, \A y \in T : T \ {y} \in P
      PROVE  T \in P
  <2>1. PICK y \in T : TRUE
    BY <1>2
  <2>2. Total(f, T) = Plus(f[y], Total(f, T \ {y}))
    BY <1>0, SummablePart, TotalSplit
  <2>3. Plus(Zero, Zero) = Zero
    BY ZeroIs, Sums
  <2> QED
    BY <1>2, <2>2, <2>3
<1> HIDE DEF P
<1>4. S \in P
  BY <1>1, <1>2, EverySubset
<1> QED
  BY <1>4 DEF P

LEMMA TotalPlus ==
    ASSUME NEW f, NEW g, NEW h, NEW S, Summable(f, S), Summable(g, S),
           \A x \in S : h[x] = Plus(f[x], g[x])
    PROVE  Total(h, S) = Plus(Total(f, S), Total(g, S))
<1> DEFINE P == {T \in SUBSET S : Total(h, T) = Plus(Total(f, T), Total(g, T))}
<1>1. {} \in P
  BY TotalEmpty, ZeroIs, Sums
<1>2. ASSUME NEW T \in SUBSET S, T # {}, \A y \in T : T \ {y} \in P
      PROVE  T \in P
  <2>1. PICK y \in T : TRUE
    BY <1>2
  <2> DEFINE a == f[y]
             b == g[y]
             u == Total(f, T \ {y})
             v == Total(g, T \ {y})
  <2>2. Summable(f, T) /\ Summable(g, T) /\ Summable(h, T)
    <3>1. \A x \in S : h[x] \in Fraction
      BY PlusIs DEF Summable
    <3>2. Summable(h, S)
      BY <3>1 DEF Summable
    <3> QED
      BY <3>2, SummablePart
  <2>3. /\ Total(f, T) = Plus(a, u) /\ Total(g, T) = Plus(b, v)
        /\ Total(h, T) = Plus(h[y], Total(h, T \ {y}))
    BY <2>2, TotalSplit
  <2>4. h[y] = Plus(a, b) /\ Total(h, T \ {y}) = Plus(u, v)
    BY <1>2
  <2>5. a \in Fraction /\ b \in Fraction /\ u \in Fraction /\ v \in Fraction
    <3>1. Summable(f, T \ {y}) /\ Summable(g, T \ {y})
      BY <2>2, SummablePart
    <3> QED
      BY <3>1, TotalIs DEF Summable
  <2> HIDE DEF a, b, u, v
  <2>6. Plus(Plus(a, b), Plus(u, v)) = Plus(Plus(a, u), Plus(b, v))
    <3>1. Plus(b, Plus(u, v)) = Plus(u, Plus(b, v))
      BY <2>5, Exchange
    <3>2. Plus(u, v) \in Fraction /\ Plus(b, v) \in Fraction
      BY <2>5, Sums
    <3>3. Plus(Plus(a, b), Plus(u, v)) = Plus(a, Plus(b, Plus(u, v)))
      BY <2>5, <3>2, Sums
    <3>4. Plus(Plus(a, u), Plus(b, v)) = Plus(a, Plus(u, Plus(b, v)))
      BY <2>5, <3>2, Sums
    <3> QED
      BY <3>1, <3>3, <3>4
  <2> QED
    BY <2>3, <2>4, <2>6
<1>3. IsFiniteSet(S)
  BY DEF Summable
<1> HIDE DEF P
<1>4. S \in P
  BY <1>1, <1>2, <1>3, EverySubset
<1> QED
  BY <1>4 DEF P

LEMMA TotalTimes ==
    ASSUME NEW f, NEW h, NEW S, Summable(f, S), NEW c \in Fraction,
           \A x \in S : h[x] = Times(f[x], c)
    PROVE  Total(h, S) = Times(Total(f, S), c)
<1> DEFINE P == {T \in SUBSET S : Total(h, T) = Times(Total(f, T), c)}
<1>1. {} \in P
  BY TotalEmpty, Products
<1>2. ASSUME NEW T \in SUBSET S, T # {}, \A y \in T : T \ {y} \in P
      PROVE  T \in P
  <2>1. PICK y \in T : TRUE
    BY <1>2
  <2> DEFINE a == f[y]
             u == Total(f, T \ {y})
  <2>2. Summable(f, T) /\ Summable(h, T)
    <3>1. \A x \in S : h[x] \in Fraction
      BY TimesIs DEF Summable
    <3>2. Summable(h, S)
      BY <3>1 DEF Summable
    <3> QED
      BY <3>2, SummablePart
  <2>3. Total(f, T) = Plus(a, u) /\ Total(h, T) = Plus(h[y], Total(h, T \ {y}))
    BY <2>2, TotalSplit
  <2>4. h[y] = Times(a, c) /\ Total(h, T \ {y}) = Times(u, c)
    BY <1>2
  <2>5. a \in Fraction /\ u \in Fraction
    <3>1. Summable(f, T \ {y})
      BY <2>2, SummablePart
    <3> QED
      BY <3>1, TotalIs DEF Summable
  <2> HIDE DEF a, u
  <2>6. Times(Plus(a, u), c) = Plus(Times(a, c), Times(u, c))
    <3>1. Plus(a, u) \in Fraction
      BY <2>5, Sums
    <3>2. Times(Plus(a, u), c) = Times(c, Plus(a, u)) /\ Times(a, c) = Times(c, a) /\ Times(u, c) = Times(c, u)
      BY <2>5, <3>1, Products
    <3> QED
      BY <2>5, <3>2, Products
  <2> QED
    BY <2>3, <2>4, <2>6
<1>3. IsFiniteSet(S)
  BY DEF Summable
<1> HIDE DEF P
<1>4. S \in P
  BY <1>1, <1>2, <1>3, EverySubset
<1> QED
  BY <1>4 DEF P

LEMMA TotalAtMost ==
    ASSUME NEW f, NEW g, NEW S, Summable(f, S), Summable(g, S), \A x \in S : AtMost(f[x], g[x])
    PROVE  AtMost(Total(f, S), Total(g, S))
<1> DEFINE P == {T \in SUBSET S : AtMost(Total(f, T), Total(g, T))}
<1>1. {} \in P
  BY TotalEmpty, ZeroIs, Order
<1>2. ASSUME NEW T \in SUBSET S, T # {}, \A y \in T : T \ {y} \in P
      PROVE  T \in P
  <2>1. PICK y \in T : TRUE
    BY <1>2
  <2> DEFINE a == f[y]
             b == g[y]
             u == Total(f, T \ {y})
             v == Total(g, T \ {y})
  <2>2. Summable(f, T) /\ Summable(g, T) /\ Summable(f, T \ {y}) /\ Summable(g, T \ {y})
    BY SummablePart
  <2>3. Total(f, T) = Plus(a, u) /\ Total(g, T) = Plus(b, v)
    BY <2>2, TotalSplit
  <2>4. AtMost(a, b) /\ AtMost(u, v)
    BY <1>2
  <2>5. a \in Fraction /\ b \in Fraction /\ u \in Fraction /\ v \in Fraction
    BY <2>2, TotalIs DEF Summable
  <2> HIDE DEF a, b, u, v
  <2>6. AtMost(Plus(a, u), Plus(b, v))
    <3>1. AtMost(Plus(a, u), Plus(b, u))
      BY <2>4, <2>5, Order
    <3>2. AtMost(Plus(u, b), Plus(v, b))
      BY <2>4, <2>5, Order
    <3>3. Plus(u, b) = Plus(b, u) /\ Plus(v, b) = Plus(b, v)
      BY <2>5, Sums
    <3>4. Plus(a, u) \in Fraction /\ Plus(b, u) \in Fraction /\ Plus(b, v) \in Fraction
      BY <2>5, Sums
    <3>5. AtMost(Plus(b, u), Plus(b, v))
      BY <3>2, <3>3
    <3> QED
      BY <3>1, <3>4, <3>5, Order
  <2> QED
    BY <2>3, <2>6
<1>3. IsFiniteSet(S)
  BY DEF Summable
<1> HIDE DEF P
<1>4. S \in P
  BY <1>1, <1>2, <1>3, EverySubset
<1> QED
  BY <1>4 DEF P

\* g is f with d more at y.
Raised(f, g, S, y, d) ==
    y \in S /\ d \in Fraction /\ g[y] = Plus(f[y], d) /\ \A x \in S \ {y} : g[x] = f[x]

LEMMA TotalRaised ==
    ASSUME NEW f, NEW g, NEW S, Summable(f, S), NEW y, NEW d, Raised(f, g, S, y, d)
    PROVE  Total(g, S) = Plus(Total(f, S), d)
<1>0. y \in S /\ d \in Fraction /\ g[y] = Plus(f[y], d) /\ \A x \in S \ {y} : g[x] = f[x]
  BY DEF Raised
<1> DEFINE a == f[y]
           u == Total(f, S \ {y})
<1>1. Summable(f, S \ {y}) /\ a \in Fraction
  BY <1>0, SummablePart DEF Summable
<1>2. Total(f, S) = Plus(a, u) /\ u \in Fraction
  BY <1>0, <1>1, TotalSplit, TotalIs
<1>3. \A x \in S : g[x] \in Fraction
  BY <1>0, <1>1, PlusIs DEF Summable
<1>4. Summable(g, S)
  BY <1>3 DEF Summable
<1>5. Total(g, S) = Plus(Plus(a, d), Total(g, S \ {y}))
  BY <1>0, <1>4, TotalSplit
<1>6. Total(g, S \ {y}) = u
  BY <1>0, <1>1, TotalSame
<1> HIDE DEF a, u
<1>7. Plus(Plus(a, d), u) = Plus(Plus(a, u), d)
  <2>1. Plus(Plus(a, d), u) = Plus(a, Plus(d, u)) /\ Plus(Plus(a, u), d) = Plus(a, Plus(u, d))
    BY <1>0, <1>1, <1>2, Sums
  <2>2. Plus(d, u) = Plus(u, d)
    BY <1>0, <1>2, Sums
  <2> QED
    BY <2>1, <2>2
<1> QED
  BY <1>2, <1>5, <1>6, <1>7

LEMMA TotalNotNegative ==
    ASSUME NEW f, NEW S, Summable(f, S), \A x \in S : AtMost(Zero, f[x])
    PROVE  AtMost(Zero, Total(f, S))
<1> DEFINE z == [x \in S |-> Zero]
<1>1. Summable(z, S) /\ \A x \in S : z[x] = Zero
  BY ZeroIs DEF Summable
<1> HIDE DEF z
<1>2. Total(z, S) = Zero
  BY <1>1, TotalZero DEF Summable
<1>3. \A x \in S : AtMost(z[x], f[x])
  BY <1>1
<1>4. AtMost(Total(z, S), Total(f, S))
  BY <1>1, <1>3, TotalAtMost
<1> QED
  BY <1>2, <1>4

\* No summand exceeds a sum of numbers that are not negative.
LEMMA TotalCovers ==
    ASSUME NEW f, NEW S, Summable(f, S), \A x \in S : AtMost(Zero, f[x]), NEW y \in S
    PROVE  AtMost(f[y], Total(f, S))
<1>1. Summable(f, S \ {y}) /\ f[y] \in Fraction
  BY SummablePart DEF Summable
<1>2. Total(f, S) = Plus(f[y], Total(f, S \ {y})) /\ Total(f, S \ {y}) \in Fraction
  BY <1>1, TotalSplit, TotalIs
<1>3. AtMost(Zero, Total(f, S \ {y}))
  BY <1>1, TotalNotNegative
<1> QED
  BY <1>1, <1>2, <1>3, Order

LEMMA TotalConstant ==
    ASSUME NEW f, NEW S, IsFiniteSet(S), NEW c \in Fraction, \A x \in S : f[x] = c
    PROVE  Total(f, S) = Times(Whole(Cardinality(S)), c)
<1> DEFINE P == {T \in SUBSET S : Total(f, T) = Times(Whole(Cardinality(T)), c)}
<1>0. Summable(f, S)
  BY DEF Summable
<1>1. {} \in P
  <2>1. Whole(Cardinality({})) = Zero
    BY FS_EmptySet DEF Zero
  <2> QED
    BY <2>1, TotalEmpty, Products
<1>2. ASSUME NEW T \in SUBSET S, T # {}, \A y \in T : T \ {y} \in P
      PROVE  T \in P
  <2>1. PICK y \in T : TRUE
    BY <1>2
  <2> DEFINE k == Cardinality(T \ {y})
  <2>2. IsFiniteSet(T) /\ IsFiniteSet(T \ {y})
    BY FS_Subset
  <2>3. k \in Nat /\ Cardinality(T) = k + 1
    BY <2>2, FS_RemoveElement, FS_CardinalityType
  <2>4. Total(f, T) = Plus(f[y], Total(f, T \ {y}))
    BY <1>0, SummablePart, TotalSplit
  <2>5. Total(f, T \ {y}) = Times(Whole(k), c) /\ f[y] = c
    BY <1>2
  <2> HIDE DEF k
  <2>6. Whole(k) \in Fraction /\ Whole(1) \in Fraction /\ Whole(k + 1) \in Fraction
    BY <2>3, WholeIs
  <2>7. Whole(k + 1) = Plus(Whole(1), Whole(k))
    <3>1. Is(Whole(1), 1, 1) /\ Is(Whole(k), k, 1) /\ Is(Whole(k + 1), k + 1, 1)
      BY <2>3, WholeIs
    <3> DEFINE a == Whole(1)
               b == Whole(k)
               n == 1
    <3>2. n \in Int /\ n > 0 /\ k \in Int /\ a \in Fraction /\ b \in Fraction /\ Is(a, n, n) /\ Is(b, k, n)
      BY <2>3, <2>6, <3>1
    <3> HIDE DEF a, b, n
    <3>3. Is(Plus(a, b), n + k, n)
      BY <3>2, SameDenominator
    <3>4. Plus(a, b) \in Fraction
      BY <3>2, PlusIs
    <3>5. n + k = k + 1 /\ k + 1 \in Int
      BY <2>3 DEF n
    <3> QED
      BY <2>6, <3>1, <3>2, <3>3, <3>4, <3>5, OneNumber DEF a, b, n
  <2>8. Times(Plus(Whole(1), Whole(k)), c) = Plus(c, Times(Whole(k), c))
    <3> DEFINE p == Plus(Whole(1), Whole(k))
    <3>1. p \in Fraction
      BY <2>6, Sums
    <3>2. Times(p, c) = Times(c, p) /\ Times(c, p) = Plus(Times(c, Whole(1)), Times(c, Whole(k)))
      BY <2>6, <3>1, Products
    <3>3. Times(c, Whole(1)) = c /\ Times(c, Whole(k)) = Times(Whole(k), c)
      BY <2>6, Products
    <3> QED
      BY <3>2, <3>3
  <2> QED
    BY <2>3, <2>4, <2>5, <2>7, <2>8
<1> HIDE DEF P
<1>4. S \in P
  BY <1>1, <1>2, EverySubset
<1> QED
  BY <1>4 DEF P

\* Rows and columns of a table have the same sum.
Transposed(F, G, X, Y) ==
  /\ IsFiniteSet(X) /\ IsFiniteSet(Y)
  /\ \A x \in X, y \in Y : F[x][y] \in Fraction /\ G[y][x] = F[x][y]

RowTotals(F, X, Y, rows) == \A x \in X : rows[x] = Total(F[x], Y)

LEMMA TotalSwap ==
    ASSUME NEW F, NEW G, NEW X, NEW Y, Transposed(F, G, X, Y),
           NEW rows, RowTotals(F, X, Y, rows), NEW cols, RowTotals(G, Y, X, cols)
    PROVE  Total(rows, X) = Total(cols, Y)
<1>0. /\ IsFiniteSet(X) /\ IsFiniteSet(Y)
      /\ \A x \in X, y \in Y : F[x][y] \in Fraction /\ G[y][x] = F[x][y]
      /\ \A x \in X : rows[x] = Total(F[x], Y)
      /\ \A y \in Y : cols[y] = Total(G[y], X)
  BY DEF Transposed, RowTotals
<1> DEFINE part(U) == [y \in Y |-> Total(G[y], U)]
           P == {U \in SUBSET X : Total(rows, U) = Total(part(U), Y)}
<1>1. \A x \in X : Summable(F[x], Y)
  BY <1>0 DEF Summable
<1>2. Summable(rows, X)
  BY <1>0, <1>1, TotalIs DEF Summable
<1>3. \A y \in Y, U \in SUBSET X : Summable(G[y], U)
  BY <1>0, FS_Subset DEF Summable
<1>4. \A U \in SUBSET X : Summable(part(U), Y) /\ \A y \in Y : part(U)[y] = Total(G[y], U)
  BY <1>0, <1>3, TotalIs DEF Summable
<1> HIDE DEF part
<1>5. {} \in P
  <2>1. \A y \in Y : part({})[y] = Zero
    BY <1>4, TotalEmpty
  <2>2. Total(part({}), Y) = Zero
    BY <1>0, <2>1, TotalZero
  <2> QED
    BY <2>2, TotalEmpty
<1>6. ASSUME NEW U \in SUBSET X, U # {}, \A x \in U : U \ {x} \in P
      PROVE  U \in P
  <2>1. PICK x \in U : TRUE
    BY <1>0, <1>6
  <2> DEFINE V == U \ {x}
  <2>2. Total(rows, U) = Plus(rows[x], Total(rows, V))
    BY <1>2, SummablePart, TotalSplit
  <2>3. Total(rows, V) = Total(part(V), Y) /\ rows[x] = Total(F[x], Y)
    BY <1>0, <1>6
  <2>4. \A y \in Y : part(U)[y] = Plus(F[x][y], part(V)[y])
    <3> TAKE y \in Y
    <3>1. Total(G[y], U) = Plus(G[y][x], Total(G[y], V))
      BY <1>3, TotalSplit
    <3> QED
      BY <1>0, <1>4, <3>1
  <2>5. Summable(part(V), Y) /\ Summable(F[x], Y)
    BY <1>1, <1>4
  <2> HIDE DEF V
  <2>6. Total(part(U), Y) = Plus(Total(F[x], Y), Total(part(V), Y))
    BY <2>4, <2>5, TotalPlus
  <2> QED
    BY <2>2, <2>3, <2>6
<1> HIDE DEF P
<1>7. X \in P
  BY <1>0, <1>5, <1>6, EverySubset
<1>8. Total(rows, X) = Total(part(X), Y)
  BY <1>7 DEF P
<1>9. Total(cols, Y) = Total(part(X), Y)
  BY <1>0, <1>4, TotalSame
<1> QED
  BY <1>8, <1>9

LEMMA LeastOfSet ==
    ASSUME NEW S \in SUBSET Fraction, IsFiniteSet(S), S # {}
    PROVE  LeastOf(S) \in S /\ \A b \in S : AtMost(LeastOf(S), b)
<1> DEFINE P == {T \in SUBSET S : T # {} => \E a \in T : \A b \in T : AtMost(a, b)}
<1>1. {} \in P
  OBVIOUS
<1>2. ASSUME NEW T \in SUBSET S, T # {}, \A y \in T : T \ {y} \in P
      PROVE  T \in P
  <2>1. PICK y \in T : TRUE
    BY <1>2
  <2>2. CASE T = {y}
    BY <2>2, Order
  <2>3. CASE T # {y}
    <3>1. PICK a \in T \ {y} : \A b \in T \ {y} : AtMost(a, b)
      BY <1>2, <2>3
    <3>2. a \in Fraction /\ y \in Fraction /\ \A b \in T : b \in Fraction
      OBVIOUS
    <3>3. CASE AtMost(a, y)
      BY <3>1, <3>3
    <3>4. CASE AtMost(y, a)
      <4>1. \A b \in T : AtMost(y, b)
        BY <3>1, <3>2, <3>4, Order
      <4> QED
        BY <4>1
    <3> QED
      BY <3>2, <3>3, <3>4, Order
  <2> QED
    BY <2>2, <2>3
<1> HIDE DEF P
<1>3. S \in P
  BY <1>1, <1>2, EverySubset
<1>4. \E a \in S : \A b \in S : AtMost(a, b)
  BY <1>3 DEF P
<1> QED
  BY <1>4 DEF LeastOf

LEMMA LargestOfSet ==
    ASSUME NEW S \in SUBSET Fraction, IsFiniteSet(S), S # {}
    PROVE  LargestOf(S) \in S /\ \A b \in S : AtMost(b, LargestOf(S))
<1> DEFINE P == {T \in SUBSET S : T # {} => \E a \in T : \A b \in T : AtMost(b, a)}
<1>1. {} \in P
  OBVIOUS
<1>2. ASSUME NEW T \in SUBSET S, T # {}, \A y \in T : T \ {y} \in P
      PROVE  T \in P
  <2>1. PICK y \in T : TRUE
    BY <1>2
  <2>2. CASE T = {y}
    BY <2>2, Order
  <2>3. CASE T # {y}
    <3>1. PICK a \in T \ {y} : \A b \in T \ {y} : AtMost(b, a)
      BY <1>2, <2>3
    <3>2. a \in Fraction /\ y \in Fraction /\ \A b \in T : b \in Fraction
      OBVIOUS
    <3>3. CASE AtMost(y, a)
      BY <3>1, <3>3
    <3>4. CASE AtMost(a, y)
      <4>1. \A b \in T : AtMost(b, y)
        BY <3>1, <3>2, <3>4, Order
      <4> QED
        BY <4>1
    <3> QED
      BY <3>2, <3>3, <3>4, Order
  <2> QED
    BY <2>2, <2>3
<1> HIDE DEF P
<1>3. S \in P
  BY <1>1, <1>2, EverySubset
<1>4. \E a \in S : \A b \in S : AtMost(b, a)
  BY <1>3 DEF P
<1> QED
  BY <1>4 DEF LargestOf

-----------------------------------------------------------------------------
(* Numbers that are not negative.                                           *)

Quantity == {a \in Fraction : AtMost(Zero, a)}

LEMMA AmountIs ==
    ASSUME NEW a, Amount(a)
    PROVE  a \in Quantity
<1>1. a[1] \in Int /\ a[2] \in Nat /\ a[2] > 0 /\ a = Frac(a[1], a[2]) /\ a[1] >= 0
  BY DEF Amount
<1>2. a \in Fraction
  BY <1>1, FracIs
<1> QED
  BY <1>1, <1>2, PositiveIs DEF Quantity

LEMMA WholeQuantity ==
    ASSUME NEW n \in Nat
    PROVE  Whole(n) \in Quantity /\ (Positive(Whole(n)) <=> n > 0)
<1>1. Whole(n) \in Fraction /\ Whole(n)[1] = n
  BY WholeIs
<1> QED
  BY <1>1, PositiveIs DEF Quantity, Positive

LEMMA PartIs ==
    ASSUME NEW n \in Nat, NEW d \in Nat, n > 0, d > 0
    PROVE  Frac(n, d) \in Quantity /\ Positive(Frac(n, d))
<1>1. Frac(n, d) \in Fraction /\ Is(Frac(n, d), n, d)
  BY FracIs
<1>2. Frac(n, d)[1] \in Int /\ Frac(n, d)[2] \in Nat /\ Frac(n, d)[2] > 0
  BY <1>1, Parts
<1>3. Frac(n, d)[1] * d > 0
  <2>1. Frac(n, d)[1] * d = n * Frac(n, d)[2]
    BY <1>1 DEF Is
  <2> DEFINE m == Frac(n, d)[2]
  <2> HIDE DEF m
  <2>2. m \in Nat /\ m > 0
    BY <1>2 DEF m
  <2>3. n * m > 0
    BY <2>2
  <2> QED
    BY <2>1, <2>3 DEF m
<1>4. Frac(n, d)[1] > 0
  <2> DEFINE m == Frac(n, d)[1]
  <2> HIDE DEF m
  <2>1. m \in Int /\ m * d > 0
    BY <1>2, <1>3 DEF m
  <2>2. m > 0
    BY <2>1
  <2> QED
    BY <2>2 DEF m
<1> QED
  BY <1>1, <1>4, PositiveIs DEF Positive, Quantity

LEMMA QuantityIs ==
    ASSUME NEW a \in Quantity, NEW b \in Quantity
    PROVE  /\ a \in Fraction /\ AtMost(Zero, a)
           /\ Plus(a, b) \in Quantity /\ Times(a, b) \in Quantity
           /\ Positive(b) => Over(a, b) \in Quantity
           /\ AtMost(b, a) => Minus(a, b) \in Quantity
           /\ Zero \in Quantity
           /\ ~Positive(a) => a = Zero
<1>1. a \in Fraction /\ b \in Fraction /\ AtMost(Zero, a) /\ AtMost(Zero, b)
  BY DEF Quantity
<1>2. Plus(a, b) \in Quantity /\ Times(a, b) \in Quantity
  BY <1>1, Sums, Products, Signs DEF Quantity
<1>3. Positive(b) => Over(a, b) \in Quantity
  BY <1>1, OverIs, Signs DEF Quantity
<1>4. AtMost(b, a) => Minus(a, b) \in Quantity
  BY <1>1, Sums, Order DEF Quantity
<1>5. Zero \in Quantity
  BY ZeroIs, Order DEF Quantity
<1> QED
  BY <1>1, <1>2, <1>3, <1>4, <1>5, PositiveIs

LEMMA LeastIs ==
    ASSUME NEW a \in Quantity, NEW b \in Quantity
    PROVE  /\ Least(a, b) \in Quantity
           /\ AtMost(Least(a, b), a) /\ AtMost(Least(a, b), b)
           /\ Positive(Minus(a, Least(a, b))) => Least(a, b) = b
<1>1. a \in Fraction /\ b \in Fraction
  BY DEF Quantity
<1>2. CASE AtMost(a, b)
  <2>1. Least(a, b) = a
    BY <1>2 DEF Least
  <2>2. Minus(a, a) = Zero /\ AtMost(a, a)
    BY <1>1, Sums, Order
  <2>3. ~Positive(Zero)
    BY ZeroIs, Order, PositiveIs
  <2> QED
    BY <1>2, <2>1, <2>2, <2>3
<1>3. CASE ~AtMost(a, b)
  <2>1. Least(a, b) = b
    BY <1>3 DEF Least
  <2> QED
    BY <1>1, <1>3, <2>1, Order
<1> QED
  BY <1>2, <1>3

LEMMA FiniteImage ==
    ASSUME NEW K, IsFiniteSet(K), NEW f
    PROVE  IsFiniteSet({f[k] : k \in K})
<1> DEFINE g == [k \in K |-> f[k]]
           T == {f[k] : k \in K}
<1>1. g \in Surjection(K, T)
  BY DEF Surjection
<1> HIDE DEF g, T
<1>2. IsFiniteSet(T)
  BY <1>1, FS_Surjection
<1> QED
  BY <1>2 DEF T

\* Sums, products, quotients and choices of numbers that are not negative.
LEMMA Numbers ==
    /\ Zero \in Quantity /\ \A n \in Nat : Whole(n) \in Quantity
    /\ \A a, b \in Quantity :
          /\ a ++ b \in Quantity /\ a ** b \in Quantity
          /\ Largest(a, b) \in Quantity /\ Least(a, b) \in Quantity
          /\ Positive(b) => a // b \in Quantity
    /\ \A a \in Fraction : Largest(Zero, a) \in Quantity /\ Largest(a, Zero) \in Quantity
    /\ \A a \in Fraction, b \in Fraction : a -- b \in Fraction
    /\ \A a \in Quantity : a \in Fraction
<1>1. Zero \in Quantity /\ \A n \in Nat : Whole(n) \in Quantity
  BY WholeQuantity DEF Zero
<1>2. ASSUME NEW a \in Quantity, NEW b \in Quantity
      PROVE  /\ a ++ b \in Quantity /\ a ** b \in Quantity
             /\ Largest(a, b) \in Quantity /\ Least(a, b) \in Quantity
             /\ Positive(b) => a // b \in Quantity
  BY QuantityIs DEF ++, **, //, Largest, Least
<1>3. ASSUME NEW a \in Fraction
      PROVE  Largest(Zero, a) \in Quantity /\ Largest(a, Zero) \in Quantity
  <2>1. Zero \in Fraction
    BY ZeroIs
  <2>2. AtMost(Zero, a) \/ AtMost(a, Zero)
    BY <2>1, Order
  <2> QED
    BY <1>1, <2>1, <2>2, Order DEF Largest, Quantity
<1>4. \A a \in Fraction, b \in Fraction : a -- b \in Fraction
  BY Sums DEF --
<1> QED
  BY <1>1, <1>2, <1>3, <1>4 DEF Quantity

LEMMA Positives ==
    /\ \A n \in Nat : n > 0 => Positive(Whole(n))
    /\ \A a, b \in Quantity :
          /\ Positive(a) => Positive(a ++ b) /\ Positive(b ++ a) /\ Positive(Largest(a, b))
          /\ Positive(a) => Positive(Largest(b, a))
          /\ Positive(a) /\ Positive(b) => Positive(a ** b) /\ Positive(a // b)
<1>1. \A n \in Nat : n > 0 => Positive(Whole(n))
  BY WholeQuantity
<1>2. ASSUME NEW a \in Quantity, NEW b \in Quantity
      PROVE  /\ Positive(a) => Positive(a ++ b) /\ Positive(b ++ a)
             /\ Positive(a) /\ Positive(b) => Positive(a ** b) /\ Positive(a // b)
  <2>1. a \in Fraction /\ b \in Fraction /\ AtMost(Zero, a) /\ AtMost(Zero, b)
    BY DEF Quantity
  <2>2. Plus(a, b) = Plus(b, a)
    BY <2>1, Sums
  <2> QED
    BY <2>1, <2>2, Signs DEF ++, **, //
<1>3. ASSUME NEW a \in Quantity, NEW b \in Quantity, Positive(a)
      PROVE  Positive(Largest(a, b)) /\ Positive(Largest(b, a))
  <2>1. a \in Fraction /\ b \in Fraction /\ Zero \in Fraction
    BY ZeroIs DEF Quantity
  <2>2. AtMost(a, b) => Positive(b)
    BY <1>3, <2>1, PositiveIs, Order
  <2>3. AtMost(b, a) \/ AtMost(a, b)
    BY <2>1, Order
  <2> QED
    BY <1>3, <2>2, <2>3 DEF Largest
<1> QED
  BY <1>1, <1>2, <1>3

\* Comparisons that the bounds below need.
LEMMA Comparisons ==
    /\ \A a, b, c \in Quantity : a \preceq b /\ b \preceq c => a \preceq c
    /\ \A a \in Quantity : a \preceq a /\ Zero \preceq a
    /\ \A a, b, c, d \in Quantity :
          a \preceq b /\ c \preceq d => a ++ c \preceq b ++ d /\ a ** c \preceq b ** d
    /\ \A a, b, c \in Quantity : a \preceq b /\ Positive(c) => a // c \preceq b // c
<1>1. ASSUME NEW a \in Quantity, NEW b \in Quantity, NEW c \in Quantity
      PROVE  /\ a \preceq b /\ b \preceq c => a \preceq c
             /\ a \preceq a /\ Zero \preceq a
             /\ a \preceq b => a ++ c \preceq b ++ c /\ c ++ a \preceq c ++ b
             /\ a \preceq b => a ** c \preceq b ** c /\ c ** a \preceq c ** b
             /\ a \preceq b /\ Positive(c) => a // c \preceq b // c
  <2>1. a \in Fraction /\ b \in Fraction /\ c \in Fraction /\ AtMost(Zero, a) /\ AtMost(Zero, c)
    BY DEF Quantity
  <2>2. /\ Plus(a, c) = Plus(c, a) /\ Plus(b, c) = Plus(c, b)
        /\ Times(a, c) = Times(c, a) /\ Times(b, c) = Times(c, b)
    BY <2>1, Sums, Products
  <2> QED
    BY <2>1, <2>2, Order, Scaling DEF \preceq, ++, **, //
<1>2. ASSUME NEW a \in Quantity, NEW b \in Quantity, NEW c \in Quantity, NEW d \in Quantity,
             a \preceq b, c \preceq d
      PROVE  a ++ c \preceq b ++ d /\ a ** c \preceq b ** d
  <2>1. a ++ c \in Quantity /\ b ++ c \in Quantity /\ b ++ d \in Quantity
    BY Numbers
  <2>2. a ** c \in Quantity /\ b ** c \in Quantity /\ b ** d \in Quantity
    BY Numbers
  <2>3. a ++ c \preceq b ++ c /\ b ++ c \preceq b ++ d
    BY <1>1, <1>2
  <2>4. a ** c \preceq b ** c /\ b ** c \preceq b ** d
    BY <1>1, <1>2
  <2> QED
    BY <1>1, <2>1, <2>2, <2>3, <2>4
<1> QED
  BY <1>1, <1>2

-----------------------------------------------------------------------------
(* Sums, roundings and powers of these numbers.                            *)

LEMMA WholeSum ==
    ASSUME NEW S, IsFiniteSet(S), NEW f \in [S -> Nat]
    PROVE  SumOf(f) \in Nat
<1> DEFINE H == [x \in S \X Nat |-> f[x[1]] + x[2]]
           pick == [T \in SUBSET S |-> First(T)]
           c == CHOOSE g : g = [T \in SUBSET S |->
                   IF T = {} THEN 0 ELSE f[CHOOSE x \in T : TRUE] + g[T \ {CHOOSE x \in T : TRUE}]]
<1>1. H \in [S \X Nat -> Nat] /\ DOMAIN f = S
  OBVIOUS
<1>2. Picks(S, pick)
  BY DEF First, Picks
<1>3. PICK s \in [SUBSET S -> Nat] : \A T \in SUBSET S :
         s[T] = IF T = {} THEN 0 ELSE H[<<pick[T], s[T \ {pick[T]}]>>]
  <2> HIDE DEF H, pick, c
  <2> DEFINE v == 0
             V == Nat
  <2>1. v \in V /\ H \in [S \X V -> V]
    BY <1>1
  <2> HIDE DEF v, V
  <2>2. Sweeps(S, V, v, H, pick) # {}
    BY <1>2, <2>1, SubsetRecursion
  <2> QED
    BY <2>2 DEF v, V, Sweeps
<1>4. \A T \in SUBSET S : s[T] = IF T = {} THEN 0 ELSE f[First(T)] + s[T \ {First(T)}]
  <2> TAKE T \in SUBSET S
  <2>1. s[T] = IF T = {} THEN 0 ELSE H[<<pick[T], s[T \ {pick[T]}]>>]
    BY <1>3
  <2>2. T # {} => First(T) \in S
    BY DEF First
  <2>3. T # {} => H[<<First(T), s[T \ {First(T)}]>>] = f[First(T)] + s[T \ {First(T)}]
    BY <2>2
  <2> QED
    BY <2>1, <2>3
<1>5. s = [T \in SUBSET S |-> IF T = {} THEN 0 ELSE f[First(T)] + s[T \ {First(T)}]]
  BY <1>4
<1>6. c = [T \in SUBSET S |-> IF T = {} THEN 0 ELSE f[First(T)] + c[T \ {First(T)}]]
  BY <1>5 DEF First
<1>7. SumOf(f) = c[S]
  BY <1>1 DEF SumOf, MapThenFoldSet
<1> HIDE DEF c
<1> DEFINE P == {T \in SUBSET S : c[T] \in Nat}
<1>8. {} \in P
  BY <1>6
<1>9. ASSUME NEW T \in SUBSET S, T # {}, \A x \in T : T \ {x} \in P
      PROVE  T \in P
  <2>1. First(T) \in T
    BY <1>9 DEF First
  <2>2. c[T \ {First(T)}] \in Nat /\ f[First(T)] \in Nat
    BY <1>9, <2>1
  <2>3. c[T] = f[First(T)] + c[T \ {First(T)}]
    BY <1>6, <1>9
  <2> QED
    BY <2>2, <2>3
<1> HIDE DEF P
<1>10. S \in P
  BY <1>8, <1>9, EverySubset
<1> QED
  BY <1>7, <1>10 DEF P

LEMMA RoundIs ==
    ASSUME NEW a \in Fraction
    PROVE  /\ FloorOf(a) \in Int /\ RoundOf(a) \in Int
           /\ a \in Quantity => FloorOf(a) \in Nat /\ RoundOf(a) \in Nat
<1> DEFINE n == a[1]
           d == a[2]
<1>1. n \in Int /\ d \in Nat /\ d > 0 /\ (a \in Quantity => n >= 0)
  BY Parts, PositiveIs DEF Quantity
<1>2. n \div d \in Int /\ (n >= 0 => n \div d \in Nat)
  <2> HIDE DEF n, d
  <2> QED
    BY <1>1
<1>3. FloorOf(a) \in Int /\ (a \in Quantity => FloorOf(a) \in Nat)
  BY <1>1, <1>2 DEF FloorOf
<1>4. RoundOf(a) = FloorOf(a) \/ RoundOf(a) = FloorOf(a) + 1
  BY DEF RoundOf
<1> QED
  BY <1>3, <1>4

\* A sum of numbers that are not negative.
LEMMA SumIs ==
    ASSUME NEW S, IsFiniteSet(S), NEW f, \A x \in S : f[x] \in Quantity
    PROVE  Total(f, S) \in Quantity
<1>1. Summable(f, S) /\ \A x \in S : AtMost(Zero, f[x])
  BY DEF Summable, Quantity
<1> QED
  BY <1>1, TotalIs, TotalNotNegative DEF Quantity

\* A sum is positive when a number of it is.
LEMMA SumPositive ==
    ASSUME NEW S, IsFiniteSet(S), NEW f, \A x \in S : f[x] \in Quantity, NEW y \in S, Positive(f[y])
    PROVE  Total(f, S) \in Quantity /\ Positive(Total(f, S))
<1>1. Summable(f, S) /\ \A x \in S : AtMost(Zero, f[x])
  BY DEF Summable, Quantity
<1>2. AtMost(f[y], Total(f, S)) /\ Total(f, S) \in Fraction /\ f[y] \in Fraction
  BY <1>1, TotalCovers, TotalIs DEF Quantity
<1>3. Zero \in Fraction /\ ~AtMost(f[y], Zero)
  BY <1>2, ZeroIs, PositiveIs
<1>4. ~AtMost(Total(f, S), Zero)
  BY <1>2, <1>3, Order
<1>5. Total(f, S) \in Quantity
  BY SumIs
<1> QED
  BY <1>2, <1>4, <1>5, PositiveIs

Endless(V, v, H) ==
    {s \in [Nat -> V] : s[0] = v /\ \A i \in Nat : i > 0 => s[i] = H[<<i, s[i - 1]>>]}

\* The function that a recursive definition over all numbers chooses exists.
LEMMA Iteration ==
    ASSUME NEW V, NEW v \in V, NEW H \in [Nat \X V -> V]
    PROVE  Endless(V, v, H) # {}
<1> DEFINE Run(n, s) == s \in [0..n -> V] /\ s[0] = v /\ \A i \in 1..n : s[i] = H[<<i, s[i - 1]>>]
           r(n) == CHOOSE s : Run(n, s)
           all == [n \in Nat |-> r(n)[n]]
<1>1. ASSUME NEW n \in Nat PROVE Run(n, r(n))
  <2> DEFINE G == [x \in (1..n) \X V |-> H[x]]
  <2>1. G \in [(1..n) \X V -> V] /\ \A i \in 1..n, a \in V : G[<<i, a>>] = H[<<i, a>>]
    OBVIOUS
  <2> HIDE DEF G
  <2>0. Runs(n, V, v, G) # {}
    BY <2>1, Recursion
  <2>2. PICK s \in [0..n -> V] : s[0] = v /\ \A i \in 1..n : s[i] = G[<<i, s[i - 1]>>]
    BY <2>0 DEF Runs
  <2>3. ASSUME NEW i \in 1..n PROVE s[i] = H[<<i, s[i - 1]>>]
    <3>1. i - 1 \in 0..n
      OBVIOUS
    <3>2. s[i - 1] \in V
      BY <3>1
    <3> QED
      BY <2>1, <2>2, <3>2
  <2>4. Run(n, s)
    BY <2>2, <2>3
  <2> HIDE DEF Run
  <2> QED
    BY <2>4
<1> HIDE DEF r
<1>2. ASSUME NEW n \in Nat PROVE \A i \in 0..n : r(n + 1)[i] = r(n)[i]
  <2> DEFINE P == {i \in Nat : i <= n => r(n + 1)[i] = r(n)[i]}
  <2>1. Run(n, r(n)) /\ Run(n + 1, r(n + 1))
    BY <1>1
  <2>2. 0 \in P
    BY <2>1
  <2>3. ASSUME NEW i \in Nat, i \in P PROVE i + 1 \in P
    <3> SUFFICES ASSUME i + 1 <= n PROVE r(n + 1)[i + 1] = r(n)[i + 1]
      OBVIOUS
    <3>1. r(n + 1)[i] = r(n)[i]
      BY <2>3
    <3>2. i + 1 \in 1..n /\ i + 1 \in 1..(n + 1) /\ (i + 1) - 1 = i
      OBVIOUS
    <3> QED
      BY <2>1, <3>1, <3>2
  <2> HIDE DEF P
  <2>4. Nat \subseteq P
    BY <2>2, <2>3, EveryNumber
  <2> QED
    BY <2>4 DEF P
<1>3. all \in [Nat -> V]
  BY <1>1
<1>4. all[0] = v
  BY <1>1
<1>5. ASSUME NEW i \in Nat, i > 0 PROVE all[i] = H[<<i, all[i - 1]>>]
  <2>1. i - 1 \in Nat /\ (i - 1) + 1 = i /\ i - 1 \in 0..(i - 1) /\ i \in 1..i
    BY <1>5
  <2>2. r(i)[i - 1] = r(i - 1)[i - 1]
    BY <1>2, <2>1
  <2>3. r(i)[i] = H[<<i, r(i)[i - 1]>>]
    BY <1>1, <2>1
  <2> QED
    BY <2>1, <2>2, <2>3
<1> HIDE DEF all
<1> QED
  BY <1>3, <1>4, <1>5 DEF Endless

LEMMA TimesClosed ==
    ASSUME NEW a \in Nat \X (Nat \ {0}), NEW b \in Nat \X (Nat \ {0})
    PROVE  Times(a, b) \in Nat \X (Nat \ {0})
<1> DEFINE g == Gcd[<<Abs(a[1]), b[2]>>]
           h == Gcd[<<Abs(b[1]), a[2]>>]
<1>1. /\ a[1] \in Nat /\ a[2] \in Nat /\ a[2] > 0
      /\ b[1] \in Nat /\ b[2] \in Nat /\ b[2] > 0
  OBVIOUS
<1>2. /\ g \in Nat /\ g > 0 /\ a[1] \div g \in Int /\ b[2] \div g \in Nat /\ b[2] \div g > 0
  BY <1>1, Divided
<1>3. /\ h \in Nat /\ h > 0 /\ b[1] \div h \in Int /\ a[2] \div h \in Nat /\ a[2] \div h > 0
  BY <1>1, Divided
<1>4. Times(a, b) = <<(a[1] \div g) * (b[1] \div h), (a[2] \div h) * (b[2] \div g)>>
  BY DEF Times, Crossed
<1> HIDE DEF g, h
<1>5. a[1] \div g \in Nat /\ b[1] \div h \in Nat
  BY <1>1, <1>2, <1>3
<1> DEFINE p == a[1] \div g
           q == b[1] \div h
           s == a[2] \div h
           t == b[2] \div g
<1>6. p \in Nat /\ q \in Nat /\ s \in Nat /\ s > 0 /\ t \in Nat /\ t > 0
  BY <1>2, <1>3, <1>5
<1>7. Times(a, b) = <<p * q, s * t>>
  BY <1>4
<1> HIDE DEF p, q, s, t
<1>8. p * q \in Nat /\ s * t \in Nat /\ s * t > 0
  BY <1>6
<1> QED
  BY <1>7, <1>8

LEMMA PowerStep ==
    ASSUME NEW a \in Nat \X (Nat \ {0}), NEW k \in Nat
    PROVE  Power[<<a, k>>] = IF k = 0 THEN Whole(1) ELSE Times(a, Power[<<a, k - 1>>])
<1> DEFINE A == Nat \X (Nat \ {0})
           good(b, s) == s[0] = Whole(1) /\ \A i \in Nat : i > 0 => s[i] = Times(b, s[i - 1])
           run(b) == CHOOSE s : good(b, s)
           f == [x \in A \X Nat |-> run(x[1])[x[2]]]
           P == CHOOSE g : g = [x \in A \X Nat |->
                                  IF x[2] = 0 THEN Whole(1) ELSE Times(x[1], g[<<x[1], x[2] - 1>>])]
<1>1. ASSUME NEW b \in A PROVE good(b, run(b))
  <2> DEFINE H == [x \in Nat \X A |-> Times(b, x[2])]
             v == Whole(1)
  <2>1. v \in A
    BY DEF Whole
  <2>2. \A i \in Nat, x \in A : H[<<i, x>>] = Times(b, x)
    OBVIOUS
  <2>6. H \in [Nat \X A -> A]
    BY TimesClosed
  <2> HIDE DEF H, A, v
  <2>7. Endless(A, v, H) # {}
    BY <2>1, <2>6, Iteration
  <2>3. PICK s \in [Nat -> A] : s[0] = v /\ \A i \in Nat : i > 0 => s[i] = H[<<i, s[i - 1]>>]
    BY <2>7 DEF Endless
  <2>4. ASSUME NEW i \in Nat, i > 0 PROVE s[i] = Times(b, s[i - 1])
    <3>1. i - 1 \in Nat
      BY <2>4
    <3> QED
      BY <2>2, <2>3, <2>4, <3>1
  <2>5. good(b, s)
    BY <2>3, <2>4 DEF v
  <2> HIDE DEF good
  <2> QED
    BY <2>5
<1> HIDE DEF run
<1>2. f = [x \in A \X Nat |-> IF x[2] = 0 THEN Whole(1) ELSE Times(x[1], f[<<x[1], x[2] - 1>>])]
  <2>1. ASSUME NEW x \in A \X Nat
        PROVE  f[x] = IF x[2] = 0 THEN Whole(1) ELSE Times(x[1], f[<<x[1], x[2] - 1>>])
    <3>1. x[1] \in A /\ x[2] \in Nat /\ f[x] = run(x[1])[x[2]]
      BY DEF A
    <3>2. ASSUME x[2] > 0 PROVE f[<<x[1], x[2] - 1>>] = run(x[1])[x[2] - 1]
      <4>1. <<x[1], x[2] - 1>> \in A \X Nat
        BY <3>1, <3>2
      <4> QED
        BY <4>1
    <3>3. good(x[1], run(x[1]))
      BY <1>1, <3>1
    <3> HIDE DEF f
    <3> QED
      BY <3>1, <3>2, <3>3
  <2>2. f = [x \in A \X Nat |-> f[x]]
    OBVIOUS
  <2> HIDE DEF f, A
  <2> QED
    BY <2>1, <2>2
<1> HIDE DEF f
<1>3. P = [x \in A \X Nat |-> IF x[2] = 0 THEN Whole(1) ELSE Times(x[1], P[<<x[1], x[2] - 1>>])]
  <2> HIDE DEF A
  <2> QED
    BY <1>2
<1>4. Power = P
  BY DEF Power
<1> HIDE DEF P
<1>5. <<a, k>> \in A \X Nat /\ <<a, k>>[1] = a /\ <<a, k>>[2] = k
  OBVIOUS
<1> HIDE DEF A
<1> DEFINE x == <<a, k>>
<1>6. P[x] = IF x[2] = 0 THEN Whole(1) ELSE Times(x[1], P[<<x[1], x[2] - 1>>])
  <2> HIDE DEF x
  <2>1. x \in A \X Nat
    BY <1>5 DEF x
  <2> QED
    BY <1>3, <2>1
<1> QED
  BY <1>4, <1>5, <1>6

LEMMA PowerIs ==
    ASSUME NEW a \in Quantity, NEW k \in Nat
    PROVE  Power[<<a, k>>] \in Quantity
<1> DEFINE P == {i \in Nat : Power[<<a, i>>] \in Quantity}
<1>1. a \in Nat \X (Nat \ {0})
  <2>1. a[1] \in Int /\ a[2] \in Int /\ a[2] > 0 /\ a = <<a[1], a[2]>> /\ a[1] >= 0
    BY Parts, PositiveIs DEF Quantity
  <2> QED
    BY <2>1
<1>2. 0 \in P
  <2>1. Power[<<a, 0>>] = Whole(1)
    BY <1>1, PowerStep
  <2>2. Whole(1) \in Quantity
    BY Numbers
  <2> QED
    BY <2>1, <2>2
<1>3. ASSUME NEW i \in Nat, i \in P PROVE i + 1 \in P
  <2>1. (i + 1) - 1 = i /\ i + 1 # 0 /\ i + 1 \in Nat
    OBVIOUS
  <2>2. Power[<<a, i + 1>>] = Times(a, Power[<<a, i>>])
    BY <1>1, <2>1, PowerStep
  <2>3. Power[<<a, i>>] \in Quantity
    BY <1>3
  <2>4. Times(a, Power[<<a, i>>]) \in Quantity
    BY <2>3, QuantityIs
  <2> QED
    BY <2>2, <2>4
<1> HIDE DEF P
<1>4. k \in P
  BY <1>2, <1>3, EveryNumber
<1> QED
  BY <1>4 DEF P
=============================================================================
