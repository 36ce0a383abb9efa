--------------------------- MODULE UseCasesProofs ---------------------------
(***************************************************************************)
(* The properties of the demand side of a panel, for every library, file    *)
(* and number of projects.                                                  *)
(*                                                                         *)
(* A handler always finds the panel as a read leaves it (Found): the list   *)
(* with distinct keys and in normal form, the index its keys, every project *)
(* following its definition, the blend that of the demand.  Left says what  *)
(* a handler may leave of that when it was asked to edit certain projects;  *)
(* one lemma per handler shows that it does, and NormalGood that the next   *)
(* read finds it in order again.  Only the index may be missing in between, *)
(* never wrong.                                                             *)
(***************************************************************************)
EXTENDS UseCases, Arithmetic, FunctionTheorems

-----------------------------------------------------------------------------
(* Volumes. *)

LEMMA TokensNat ==
    ASSUME NEW s \in Nat, NEW k \in ScaleKinds
    PROVE  Tokens(s, k) \in Nat /\ s <= Tokens(s, k)
<1>1. k.quadratic \in BOOLEAN /\ k.factor \in Nat \ {0}
  BY VolumeAssumption
<1> DEFINE f == k.factor
<1>2. f \in Nat /\ f >= 1
  BY <1>1
<1> HIDE DEF f
<1>3. s * f \in Nat /\ s * f >= s
  <2>1. s * f = s + s * (f - 1) /\ s * (f - 1) >= 0
    BY <1>2
  <2> QED
    BY <1>2, <2>1
<1>4. s * s \in Nat /\ s * s >= s
  OBVIOUS
<1>5. (s * s) * f \in Nat /\ (s * s) * f >= s
  <2> DEFINE q == s * s
  <2>1. q \in Nat /\ q >= s
    BY <1>4
  <2> HIDE DEF q
  <2>2. q * f = q + q * (f - 1) /\ q * (f - 1) >= 0
    BY <1>2, <2>1
  <2>3. q * f \in Nat /\ q * f >= s
    BY <1>2, <2>1, <2>2
  <2> QED
    BY <2>3 DEF q
<1> QED
  BY <1>3, <1>5 DEF Tokens, f

\* What a scale gives is a volume, and its scale gives it back.
LEMMA VolumeOfTokens ==
    ASSUME NEW s \in Nat, NEW k \in ScaleKinds
    PROVE  IsVolume(Tokens(s, k), k)
BY TokensNat DEF IsVolume

LEMMA ScaleGivesBack ==
    ASSUME NEW t \in Nat, NEW k, IsVolume(t, k)
    PROVE  ScaleOf(t, k) \in Nat /\ Tokens(ScaleOf(t, k), k) = t
BY DEF IsVolume, ScaleOf

LEMMA BoundedVolume ==
    ASSUME NEW t \in Nat, NEW k \in ScaleKinds, IsVolume(t, k)
    PROVE  Bounded(t) \in Nat /\ IsVolume(Bounded(t), k) /\ Bounded(Bounded(t)) = Bounded(t)
BY VolumeAssumption DEF Bounded

-----------------------------------------------------------------------------
(* The library. *)

\* The definitions before their numbers are known to be small.
AnyKeys == Bases \X (Nat \ {0})
AnyDefinitions ==
    [ key : AnyKeys, terms : DOMAIN Terms, sk : ScaleKinds, seed : Nat, max : Nat,
      batch : BOOLEAN ]

DistinctKeys(lib) == \A i, j \in DOMAIN lib : lib[i].key = lib[j].key => i = j

LEMMA FewKeys ==
    ASSUME NEW D, NEW lib \in Seq(D)
    PROVE  /\ IsFiniteSet(KeysOf(lib))
           /\ Cardinality(KeysOf(lib)) \in Nat
           /\ Cardinality(KeysOf(lib)) <= Len(lib)
<1>1. Len(lib) \in Nat /\ DOMAIN lib = 1..Len(lib)
  OBVIOUS
<1>2. IsFiniteSet(1..Len(lib)) /\ Cardinality(1..Len(lib)) = Len(lib)
  BY <1>1, FS_Interval
<1> DEFINE f == [i \in 1..Len(lib) |-> lib[i].key]
<1>3. f \in Surjection(1..Len(lib), KeysOf(lib))
  BY <1>1, Fun_IsSurj DEF KeysOf
<1> QED
  BY <1>2, <1>3, FS_Surjection, FS_CardinalityType

LEMMA AllKeysCounted ==
    ASSUME NEW D, NEW lib \in Seq(D), DistinctKeys(lib)
    PROVE  Cardinality(KeysOf(lib)) = Len(lib)
<1>1. Len(lib) \in Nat /\ DOMAIN lib = 1..Len(lib)
  OBVIOUS
<1>2. IsFiniteSet(1..Len(lib)) /\ Cardinality(1..Len(lib)) = Len(lib)
  BY <1>1, FS_Interval
<1> DEFINE f == [i \in 1..Len(lib) |-> lib[i].key]
<1>3. f \in Bijection(1..Len(lib), KeysOf(lib))
  <2>1. f \in Surjection(1..Len(lib), KeysOf(lib))
    BY <1>1, Fun_IsSurj DEF KeysOf
  <2>2. f \in Injection(1..Len(lib), KeysOf(lib))
    BY <1>1, <2>1, Fun_IsInj DEF DistinctKeys, Surjection
  <2> QED
    BY <2>1, <2>2 DEF Bijection
<1>4. ExistsBijection(1..Len(lib), KeysOf(lib))
  BY <1>3 DEF ExistsBijection
<1> QED
  BY <1>2, <1>4, FS_Bijection

\* Among one more number than there are keys, one is free.
LEMMA FreeNumber ==
    ASSUME NEW base, NEW taken, IsFiniteSet(taken)
    PROVE  \E n \in 1..(Cardinality(taken) + 1) :
              <<base, n>> \notin taken /\ \A m \in 1..(n - 1) : <<base, m>> \in taken
<1> DEFINE c == Cardinality(taken)
           N == {n \in 1..(c + 1) : <<base, n>> \notin taken}
<1>0. c \in Nat
  BY FS_CardinalityType
<1> HIDE DEF c
<1>1. ASSUME N = {}
      PROVE  FALSE
  <2> DEFINE f == [n \in 1..(c + 1) |-> <<base, n>>]
  <2>1. f \in [1..(c + 1) -> taken]
    BY <1>1
  <2>2. f \in Injection(1..(c + 1), taken)
    BY <2>1, Fun_IsInj
  <2>3. Cardinality(1..(c + 1)) <= c
    BY <2>2, FS_Injection DEF c
  <2>4. Cardinality(1..(c + 1)) = c + 1
    BY <1>0, FS_Interval
  <2> QED
    BY <1>0, <2>3, <2>4
<1>2. N \in SUBSET Nat
  BY <1>0
<1>3. PICK n \in N : \A m \in N : n <= m
  BY <1>1, <1>2, LeastNumber
<1>4. \A m \in 1..(n - 1) : <<base, m>> \in taken
  BY <1>0, <1>3
<1> QED
  BY <1>3, <1>4 DEF c

LEMMA UniqueKeyGood ==
    ASSUME NEW base, NEW taken, IsFiniteSet(taken)
    PROVE  \E n \in 1..(Cardinality(taken) + 1) :
              UniqueKey(base, taken) = <<base, n>> /\ <<base, n>> \notin taken
BY FreeNumber DEF UniqueKey

\* A definition is renamed at most, with a small number.
LEMMA RenamedGood ==
    ASSUME NEW d \in AnyDefinitions, NEW taken, IsFiniteSet(taken)
    PROVE  /\ Renamed(d, taken) \in AnyDefinitions
           /\ Renamed(d, taken).key \notin taken
           /\ Renamed(d, taken) = [d EXCEPT !.key = Renamed(d, taken).key]
           /\ Renamed(d, taken).key[2] <= Cardinality(taken) + 1 \/ Renamed(d, taken) = d
           /\ d.key \notin taken => Renamed(d, taken) = d
<1>1. d.key \in AnyKeys /\ d.key[1] \in Bases
  BY DEF AnyDefinitions, AnyKeys
<1>2. CASE d.key \notin taken
  <2>1. d = [d EXCEPT !.key = d.key]
    BY DEF AnyDefinitions
  <2> QED
    BY <1>2, <2>1 DEF Renamed
<1>3. CASE d.key \in taken
  <2>1. PICK n \in 1..(Cardinality(taken) + 1) :
           UniqueKey(d.key[1], taken) = <<d.key[1], n>> /\ <<d.key[1], n>> \notin taken
    BY UniqueKeyGood
  <2> DEFINE k == <<d.key[1], n>>
  <2>2. Renamed(d, taken) = [d EXCEPT !.key = k]
    BY <1>3, <2>1 DEF Renamed
  <2>3. k \in AnyKeys /\ k[2] = n /\ k \notin taken /\ n <= Cardinality(taken) + 1
    BY <1>1, <2>1, FS_CardinalityType DEF AnyKeys
  <2> HIDE DEF k
  <2>4. [d EXCEPT !.key = k] \in AnyDefinitions /\ [d EXCEPT !.key = k].key = k
    BY <2>3 DEF AnyDefinitions
  <2> QED
    BY <1>3, <2>2, <2>3, <2>4
<1> QED
  BY <1>2, <1>3

\* The i-th step of Keyed.
KeyedStep(items, i, s) == Append(s, Renamed(items[i], KeysOf(s)))

LEMMA KeyedRuns ==
    ASSUME NEW items \in Seq(AnyDefinitions)
    PROVE  \E c : /\ c = [i \in 0..Len(items) |-> IF i = 0 THEN <<>> ELSE KeyedStep(items, i, c[i - 1])]
                  /\ Keyed(items) = c[Len(items)]
<1> DEFINE n == Len(items)
           V == Seq(AnyDefinitions)
           H == [x \in (1..n) \X V |-> KeyedStep(items, x[1], x[2])]
           v == <<>>
<1>1. n \in Nat /\ v \in V /\ \A i \in 1..n : items[i] \in AnyDefinitions
  OBVIOUS
<1>2. ASSUME NEW i \in 1..n, NEW s \in V
      PROVE  KeyedStep(items, i, s) \in V
  <2>1. Renamed(items[i], KeysOf(s)) \in AnyDefinitions
    BY <1>1, RenamedGood, FewKeys
  <2> QED
    BY <2>1 DEF KeyedStep
<1>3. H \in [(1..n) \X V -> V] /\ \A i \in 1..n, s \in V : H[<<i, s>>] = KeyedStep(items, i, s)
  BY <1>2
<1> HIDE DEF H, V, v, n
<1>4. PICK s \in [0..n -> V] : s[0] = v /\ \A i \in 1..n : s[i] = H[<<i, s[i - 1]>>]
  <2>1. Runs(n, V, v, H) # {}
    BY <1>1, <1>3, Recursion
  <2> QED
    BY <2>1 DEF Runs
<1>5. ASSUME NEW i \in 1..n
      PROVE  s[i] = KeyedStep(items, i, s[i - 1])
  <2>1. s[i - 1] \in V
    BY <1>1, <1>4
  <2> QED
    BY <1>3, <1>4, <2>1
<1> DEFINE K(c) == [i \in 0..n |-> IF i = 0 THEN <<>> ELSE KeyedStep(items, i, c[i - 1])]
<1>6. s = K(s)
  BY <1>1, <1>4, <1>5 DEF v
<1> DEFINE c == CHOOSE c : c = K(c)
<1>7. c = K(c)
  BY <1>6
<1>8. Keyed(items) = c[n]
  BY DEF Keyed, KeyedStep, n
<1> HIDE DEF c
<1> QED
  BY <1>7, <1>8 DEF n

\* Keyed keeps everything but repeated keys, which get new ones.
LEMMA KeyedGood ==
    ASSUME NEW items \in Seq(AnyDefinitions)
    PROVE  /\ Keyed(items) \in Seq(AnyDefinitions)
           /\ Len(Keyed(items)) = Len(items)
           /\ DistinctKeys(Keyed(items))
           /\ \A i \in 1..Len(items) :
                 /\ Keyed(items)[i] = [items[i] EXCEPT !.key = Keyed(items)[i].key]
                 /\ Keyed(items)[i].key[2] <= Len(items) \/ Keyed(items)[i] = items[i]
           /\ DistinctKeys(items) => Keyed(items) = items
<1> DEFINE n == Len(items)
           OK(i, s) ==
             /\ s \in Seq(AnyDefinitions) /\ Len(s) = i /\ DistinctKeys(s)
             /\ \A j \in 1..i :
                   /\ s[j] = [items[j] EXCEPT !.key = s[j].key]
                   /\ s[j].key[2] <= i \/ s[j] = items[j]
             /\ DistinctKeys(items) => \A j \in 1..i : s[j] = items[j]
<1>1. n \in Nat /\ DOMAIN items = 1..n /\ \A i \in 1..n : items[i] \in AnyDefinitions
  OBVIOUS
<1>2. PICK c : /\ c = [i \in 0..n |-> IF i = 0 THEN <<>> ELSE KeyedStep(items, i, c[i - 1])]
               /\ Keyed(items) = c[n]
  BY KeyedRuns
<1>3. c[0] = <<>> /\ \A i \in 1..n : c[i] = KeyedStep(items, i, c[i - 1])
  BY <1>1, <1>2
<1>4. OK(0, c[0])
  BY <1>3 DEF DistinctKeys
<1>5. ASSUME NEW i \in Nat, i + 1 <= n, OK(i, c[i])
      PROVE  OK(i + 1, c[i + 1])
  <2> DEFINE s == c[i]
             d == Renamed(items[i + 1], KeysOf(s))
             t == Append(s, d)
  <2>1. c[i + 1] = t
    <3>1. i + 1 \in 1..n /\ (i + 1) - 1 = i
      BY <1>1, <1>5
    <3>2. c[i + 1] = KeyedStep(items, i + 1, c[i])
      BY <1>3, <3>1
    <3> QED
      BY <3>2 DEF KeyedStep
  <2>2. items[i + 1] \in AnyDefinitions /\ s \in Seq(AnyDefinitions) /\ Len(s) = i
    <3>1. i + 1 \in 1..n
      BY <1>1, <1>5
    <3>2. s \in Seq(AnyDefinitions) /\ Len(s) = i
      BY <1>5
    <3> QED
      BY <1>1, <3>1, <3>2
  <2>3. IsFiniteSet(KeysOf(s)) /\ Cardinality(KeysOf(s)) \in Nat /\ Cardinality(KeysOf(s)) <= i
    BY <2>2, FewKeys
  <2>4. /\ d \in AnyDefinitions
        /\ d.key \notin KeysOf(s)
        /\ d = [items[i + 1] EXCEPT !.key = d.key]
        /\ d.key[2] <= Cardinality(KeysOf(s)) + 1 \/ d = items[i + 1]
        /\ items[i + 1].key \notin KeysOf(s) => d = items[i + 1]
    BY <2>2, <2>3, RenamedGood
  <2>5. d.key[2] \in Nat /\ \A j \in 1..i : s[j].key[2] \in Nat
    <3>1. \A e \in AnyDefinitions : e.key[2] \in Nat
      BY DEF AnyDefinitions, AnyKeys
    <3>2. \A j \in 1..i : s[j] \in AnyDefinitions
      BY <2>2
    <3> QED
      BY <2>4, <3>1, <3>2
  <2> HIDE DEF d, s
  <2>6. /\ t \in Seq(AnyDefinitions) /\ Len(t) = i + 1
        /\ \A j \in 1..i : t[j] = s[j]
        /\ t[i + 1] = d
    BY <2>2, <2>4
  <2> HIDE DEF t
  <2>7. OK(i, s)
    BY <1>5 DEF s
  <2>8. \A j \in 1..i : s[j].key # d.key
    BY <2>2, <2>4 DEF KeysOf
  <2>9. DistinctKeys(t)
    <3>1. DOMAIN t = 1..(i + 1) /\ DOMAIN s = 1..i
      BY <2>2, <2>6
    <3>2. ASSUME NEW j \in DOMAIN t, NEW k \in DOMAIN t, t[j].key = t[k].key
          PROVE  j = k
      <4>1. (j \in 1..i \/ j = i + 1) /\ (k \in 1..i \/ k = i + 1)
        BY <3>1, <1>5
      <4> QED
        BY <2>6, <2>7, <2>8, <3>1, <3>2, <4>1 DEF DistinctKeys
    <3> QED
      BY <3>2 DEF DistinctKeys
  <2>10. \A j \in 1..(i + 1) :
            /\ t[j] = [items[j] EXCEPT !.key = t[j].key]
            /\ t[j].key[2] <= i + 1 \/ t[j] = items[j]
    <3>1. ASSUME NEW j \in 1..(i + 1)
          PROVE  /\ t[j] = [items[j] EXCEPT !.key = t[j].key]
                 /\ t[j].key[2] <= i + 1 \/ t[j] = items[j]
      <4>1. CASE j \in 1..i
        <5>1. /\ s[j] = [items[j] EXCEPT !.key = s[j].key]
              /\ s[j].key[2] <= i \/ s[j] = items[j]
          BY <2>7, <4>1
        <5>2. t[j] = s[j] /\ s[j].key[2] \in Nat
          BY <2>5, <2>6, <4>1
        <5> QED
          BY <1>5, <5>1, <5>2
      <4>2. CASE j = i + 1
        <5>1. t[j] = d /\ items[j] = items[i + 1]
          BY <2>6, <4>2
        <5>2. d.key[2] <= i + 1 \/ d = items[i + 1]
          <6> DEFINE k == d.key[2]
                     m == Cardinality(KeysOf(s))
          <6>1. k \in Nat /\ m \in Nat /\ m <= i /\ (k <= m + 1 \/ d = items[i + 1])
            BY <2>3, <2>4, <2>5
          <6> HIDE DEF k, m
          <6>2. k <= i + 1 \/ d = items[i + 1]
            BY <1>5, <6>1
          <6> QED
            BY <6>2 DEF k
        <5> QED
          BY <2>4, <5>1, <5>2
      <4> QED
        BY <4>1, <4>2
    <3> QED
      BY <3>1
  <2>11. ASSUME DistinctKeys(items)
         PROVE  \A j \in 1..(i + 1) : t[j] = items[j]
    <3>1. items[i + 1].key \notin KeysOf(s)
      <4>1. \A j \in 1..i : s[j] = items[j]
        BY <2>7, <2>11
      <4>2. \A j \in 1..i : items[j].key # items[i + 1].key
        BY <1>1, <1>5, <2>11 DEF DistinctKeys
      <4>3. DOMAIN s = 1..i
        BY <2>2
      <4> QED
        BY <4>1, <4>2, <4>3 DEF KeysOf
    <3> QED
      BY <2>4, <2>6, <2>7, <2>11, <3>1
  <2> QED
    BY <2>1, <2>6, <2>9, <2>10, <2>11
<1> DEFINE T == {i \in Nat : i <= n => OK(i, c[i])}
<1> HIDE DEF OK
<1>6. 0 \in T /\ \A i \in Nat : i \in T => i + 1 \in T
  BY <1>1, <1>4, <1>5
<1>7. n \in T
  BY <1>1, <1>6, EveryNumber
<1>8. OK(n, Keyed(items))
  BY <1>2, <1>7
<1>9. DistinctKeys(items) => Keyed(items) = items
  BY <1>1, <1>8 DEF OK
<1> QED
  BY <1>8, <1>9 DEF OK

\* The definitions with another key, in their order.
WithoutStep(lib, key, i, s) == IF lib[i].key = key THEN s ELSE Append(s, lib[i])

LEMMA WithoutKeyGood ==
    ASSUME NEW D, NEW lib \in Seq(D), NEW key
    PROVE  /\ WithoutKey(lib, key) \in Seq(D)
           /\ Len(WithoutKey(lib, key)) <= Len(lib)
           /\ KeysOf(WithoutKey(lib, key)) = KeysOf(lib) \ {key}
           /\ \A i \in DOMAIN lib : lib[i].key # key =>
                 \E j \in DOMAIN WithoutKey(lib, key) : WithoutKey(lib, key)[j] = lib[i]
           /\ \A j \in DOMAIN WithoutKey(lib, key) :
                 \E i \in DOMAIN lib : WithoutKey(lib, key)[j] = lib[i]
           /\ DistinctKeys(lib) => DistinctKeys(WithoutKey(lib, key))
<1> DEFINE n == Len(lib)
           V == Seq(D)
           H == [x \in (1..n) \X V |-> WithoutStep(lib, key, x[1], x[2])]
           v == <<>>
<1>1. n \in Nat /\ v \in V /\ DOMAIN lib = 1..n /\ \A i \in 1..n : lib[i] \in D
  OBVIOUS
<1>2. \A i \in 1..n, s \in V : WithoutStep(lib, key, i, s) \in V
  BY <1>1 DEF WithoutStep
<1>3. H \in [(1..n) \X V -> V] /\ \A i \in 1..n, s \in V : H[<<i, s>>] = WithoutStep(lib, key, i, s)
  BY <1>2
<1> HIDE DEF H, V, v, n
<1>4. PICK s \in [0..n -> V] : s[0] = v /\ \A i \in 1..n : s[i] = H[<<i, s[i - 1]>>]
  <2>1. Runs(n, V, v, H) # {}
    BY <1>1, <1>3, Recursion
  <2> QED
    BY <2>1 DEF Runs
<1>5. ASSUME NEW i \in 1..n
      PROVE  s[i] = WithoutStep(lib, key, i, s[i - 1])
  <2>1. s[i - 1] \in V
    BY <1>1, <1>4
  <2> QED
    BY <1>3, <1>4, <2>1
<1> DEFINE K(c) == [i \in 0..n |-> IF i = 0 THEN <<>> ELSE WithoutStep(lib, key, i, c[i - 1])]
<1>6. s = K(s)
  BY <1>1, <1>4, <1>5 DEF v
<1> DEFINE c == CHOOSE c : c = K(c)
<1>7. c = K(c)
  BY <1>6
<1>8. WithoutKey(lib, key) = c[n]
  BY DEF WithoutKey, WithoutStep, n
<1> HIDE DEF c
<1>9. c[0] = <<>> /\ \A i \in 1..n : c[i] = WithoutStep(lib, key, i, c[i - 1])
  BY <1>1, <1>7
<1> DEFINE Kept(i, q) ==
             /\ q \in Seq(D) /\ Len(q) <= i
             /\ \A k \in 1..i : lib[k].key # key => \E j \in 1..Len(q) : q[j] = lib[k]
             /\ \A j \in 1..Len(q) : \E k \in 1..i : q[j] = lib[k] /\ lib[k].key # key
             /\ DistinctKeys(lib) => DistinctKeys(q)
<1>10. Kept(0, c[0])
  BY <1>9 DEF DistinctKeys
<1>11. ASSUME NEW i \in Nat, i + 1 <= n, Kept(i, c[i])
       PROVE  Kept(i + 1, c[i + 1])
  <2> DEFINE q == c[i]
             d == lib[i + 1]
             t == c[i + 1]
  <2>1. t = IF d.key = key THEN q ELSE Append(q, d)
    BY <1>1, <1>9, <1>11 DEF WithoutStep
  <2>2. Kept(i, q) /\ d \in D
    BY <1>1, <1>11
  <2> HIDE DEF q, t
  <2> SUFFICES Kept(i + 1, t)
    BY DEF t
  <2>3. i + 1 \in Nat /\ \A k \in 1..(i + 1) : k \in 1..i \/ k = i + 1
    BY <1>11
  <2>4. CASE d.key = key
    <3>1. t = q
      BY <2>1, <2>4
    <3>2. Len(q) \in Nat /\ Len(q) <= i + 1 /\ \A k \in 1..i : k \in 1..(i + 1)
      BY <2>2
    <3> QED
      BY <2>2, <2>3, <2>4, <3>1, <3>2
  <2>5. CASE d.key # key
    <3>1. /\ t \in Seq(D) /\ Len(t) = Len(q) + 1 /\ Len(q) \in Nat
          /\ \A j \in 1..Len(q) : t[j] = q[j]
          /\ t[Len(q) + 1] = d
      BY <2>1, <2>2, <2>5
    <3>2. ASSUME NEW k \in 1..(i + 1), lib[k].key # key
          PROVE  \E j \in 1..Len(t) : t[j] = lib[k]
      <4>1. CASE k \in 1..i
        <5>1. PICK j \in 1..Len(q) : q[j] = lib[k]
          BY <2>2, <3>2, <4>1
        <5>2. j \in 1..Len(t) /\ t[j] = lib[k]
          BY <3>1, <5>1
        <5> QED
          BY <5>2
      <4>2. CASE k = i + 1
        <5>1. Len(q) + 1 \in 1..Len(t) /\ t[Len(q) + 1] = lib[k]
          BY <3>1, <4>2
        <5> QED
          BY <5>1
      <4> QED
        BY <2>3, <4>1, <4>2
    <3>3. ASSUME NEW j \in 1..Len(t)
          PROVE  \E k \in 1..(i + 1) : t[j] = lib[k] /\ lib[k].key # key
      <4>1. CASE j \in 1..Len(q)
        <5>1. PICK k \in 1..i : q[j] = lib[k] /\ lib[k].key # key
          BY <2>2, <4>1
        <5>2. k \in 1..(i + 1) /\ t[j] = lib[k] /\ lib[k].key # key
          BY <3>1, <4>1, <5>1
        <5> QED
          BY <5>2
      <4>2. CASE j = Len(q) + 1
        <5>1. i + 1 \in 1..(i + 1) /\ t[j] = lib[i + 1] /\ lib[i + 1].key # key
          BY <2>5, <3>1, <4>2
        <5> QED
          BY <5>1
      <4> QED
        BY <3>1, <4>1, <4>2
    <3>4. ASSUME DistinctKeys(lib)
          PROVE  DistinctKeys(t)
      <4>1. \A j \in 1..Len(q) : q[j].key # d.key
        <5>1. \A k \in 1..i : k \in DOMAIN lib /\ i + 1 \in DOMAIN lib /\ k # i + 1
          BY <1>1, <1>11
        <5> QED
          BY <2>2, <3>4, <5>1 DEF DistinctKeys
      <4>2. DOMAIN t = 1..(Len(q) + 1) /\ DOMAIN q = 1..Len(q)
        BY <2>2, <3>1
      <4>3. ASSUME NEW j \in DOMAIN t, NEW k \in DOMAIN t, t[j].key = t[k].key
            PROVE  j = k
        <5>1. (j \in 1..Len(q) \/ j = Len(q) + 1) /\ (k \in 1..Len(q) \/ k = Len(q) + 1)
          BY <3>1, <4>2
        <5> QED
          BY <2>2, <3>1, <3>4, <4>1, <4>2, <4>3, <5>1 DEF DistinctKeys
      <4> QED
        BY <4>3 DEF DistinctKeys
    <3>5. Len(t) <= i + 1
      BY <2>2, <3>1
    <3> QED
      BY <3>1, <3>2, <3>3, <3>4, <3>5
  <2> QED
    BY <2>4, <2>5
<1> DEFINE T == {i \in Nat : i <= n => Kept(i, c[i])}
<1> HIDE DEF Kept
<1>12. 0 \in T /\ \A i \in Nat : i \in T => i + 1 \in T
  BY <1>1, <1>10, <1>11
<1>13. n \in T
  BY <1>1, <1>12, EveryNumber
<1>14. Kept(n, WithoutKey(lib, key))
  BY <1>1, <1>8, <1>13
<1> DEFINE w == WithoutKey(lib, key)
<1> HIDE DEF w
<1>15. /\ w \in Seq(D) /\ Len(w) <= n /\ DOMAIN w = 1..Len(w)
       /\ \A k \in 1..n : lib[k].key # key => \E j \in 1..Len(w) : w[j] = lib[k]
       /\ \A j \in 1..Len(w) : \E k \in 1..n : w[j] = lib[k] /\ lib[k].key # key
       /\ DistinctKeys(lib) => DistinctKeys(w)
  BY <1>14 DEF Kept, w
<1>16. KeysOf(w) = KeysOf(lib) \ {key}
  <2>1. KeysOf(w) = {w[j].key : j \in 1..Len(w)} /\ KeysOf(lib) = {lib[k].key : k \in 1..n}
    BY <1>1, <1>15 DEF KeysOf
  <2>2. \A j \in 1..Len(w) : w[j].key # key /\ \E k \in 1..n : w[j].key = lib[k].key
    BY <1>15
  <2>3. ASSUME NEW k \in 1..n, lib[k].key # key
        PROVE  \E j \in 1..Len(w) : w[j].key = lib[k].key
    <3>1. PICK j \in 1..Len(w) : w[j] = lib[k]
      BY <1>15, <2>3
    <3> QED
      BY <3>1
  <2>4. KeysOf(w) \subseteq KeysOf(lib) \ {key}
    BY <2>1, <2>2
  <2>5. ASSUME NEW x \in KeysOf(lib) \ {key}
        PROVE  x \in KeysOf(w)
    <3>1. PICK k \in 1..n : x = lib[k].key
      BY <2>1, <2>5
    <3> QED
      BY <2>1, <2>3, <2>5, <3>1
  <2> QED
    BY <2>4, <2>5
<1> QED
  BY <1>1, <1>15, <1>16 DEF w, n

\* What a panel's list is between two calls, and what the index is built from.
Library(lib) == lib \in Seq(Definitions) /\ Len(lib) <= MaxDefs /\ DistinctKeys(lib)
Current(lib) == lib # <<>> /\ \A i \in DOMAIN lib : lib[i].seed <= lib[i].max

LEMMA AnyDefinition == Keys \subseteq AnyKeys /\ Definitions \subseteq AnyDefinitions
<1>1. Keys \subseteq AnyKeys
  BY LibraryAssumption DEF Keys, AnyKeys
<1> QED
  BY <1>1 DEF Definitions, AnyDefinitions

LEMMA WidenedGood ==
    ASSUME NEW d \in Definitions
    PROVE  /\ Widened(d) \in Definitions
           /\ Widened(d).key = d.key
           /\ Widened(d).seed <= Widened(d).max
           /\ d.seed <= d.max => Widened(d) = d
BY DEF Definitions, Widened, Larger

LEMMA KeyedLibrary ==
    ASSUME NEW items \in Seq(Definitions), Len(items) <= MaxDefs
    PROVE  /\ Library(Keyed(items))
           /\ Len(Keyed(items)) = Len(items)
           /\ \A i \in 1..Len(items) :
                 Keyed(items)[i].seed = items[i].seed /\ Keyed(items)[i].max = items[i].max
<1> DEFINE k == Keyed(items)
           n == Len(items)
<1>1. n \in Nat /\ n <= MaxDefs /\ MaxDefs \in Nat /\ \A i \in 1..n : items[i] \in Definitions
  BY LibraryAssumption
<1>2. items \in Seq(AnyDefinitions)
  BY <1>1, AnyDefinition
<1>3. /\ k \in Seq(AnyDefinitions) /\ Len(k) = n /\ DistinctKeys(k)
      /\ \A i \in 1..n : /\ k[i] = [items[i] EXCEPT !.key = k[i].key]
                         /\ k[i].key[2] <= n \/ k[i] = items[i]
  BY <1>2, KeyedGood
<1>4. \A i \in 1..n : k[i] \in AnyDefinitions
  BY <1>3
<1> HIDE DEF k, n
<1>5. ASSUME NEW i \in 1..n
      PROVE  k[i] \in Definitions /\ k[i].seed = items[i].seed /\ k[i].max = items[i].max
  <2>1. items[i] \in Definitions /\ k[i] = [items[i] EXCEPT !.key = k[i].key]
    BY <1>1, <1>3
  <2>2. k[i].key \in AnyKeys /\ k[i] \in AnyDefinitions
    BY <1>4 DEF AnyDefinitions
  <2>3. k[i].key \in Keys
    <3>1. CASE k[i] = items[i]
      BY <2>1, <3>1 DEF Definitions
    <3>2. CASE k[i].key[2] <= n
      <4> DEFINE x == k[i].key
      <4>1. x \in Bases \X (Nat \ {0}) /\ x[2] <= n
        BY <2>2, <3>2 DEF AnyKeys
      <4> HIDE DEF x
      <4>2. x[1] \in Bases /\ x[2] \in 1..(MaxDefs + 1) /\ x = <<x[1], x[2]>>
        BY <1>1, <4>1
      <4>3. x \in Keys
        BY <4>2 DEF Keys
      <4> QED
        BY <4>3 DEF x
    <3> QED
      BY <1>3, <3>1, <3>2
  <2>4. k[i].seed = items[i].seed /\ k[i].max = items[i].max
    <3> DEFINE x == k[i].key
    <3>1. k[i] = [items[i] EXCEPT !.key = x]
      BY <2>1
    <3> HIDE DEF x
    <3> QED
      BY <2>1, <3>1 DEF Definitions
  <2>5. k[i] \in Definitions
    BY <2>2, <2>3 DEF Definitions, AnyDefinitions
  <2> QED
    BY <2>4, <2>5
<1>6. k \in Seq(Definitions)
  BY <1>3, <1>5
<1> QED
  BY <1>1, <1>3, <1>5, <1>6 DEF Library, k, n

LEMMA WidenedKeyed ==
    ASSUME NEW l \in Seq(Definitions), Len(l) <= MaxDefs
    PROVE  LET k == Keyed([i \in DOMAIN l |-> Widened(l[i])])
           IN  /\ Library(k) /\ Len(k) = Len(l)
               /\ \A i \in DOMAIN k : k[i].seed <= k[i].max
<1> DEFINE w == [i \in DOMAIN l |-> Widened(l[i])]
<1>1. Len(l) \in Nat /\ DOMAIN l = 1..Len(l) /\ \A i \in 1..Len(l) : l[i] \in Definitions
  OBVIOUS
<1>2. \A i \in 1..Len(l) : Widened(l[i]) \in Definitions /\ Widened(l[i]).seed <= Widened(l[i]).max
  BY <1>1, WidenedGood
<1>3. w \in Seq(Definitions) /\ Len(w) = Len(l)
  BY <1>1, <1>2
<1>4. \A i \in 1..Len(l) : w[i].seed <= w[i].max
  BY <1>1, <1>2
<1> HIDE DEF w
<1>5. /\ Library(Keyed(w)) /\ Len(Keyed(w)) = Len(l)
      /\ \A i \in 1..Len(l) : Keyed(w)[i].seed = w[i].seed /\ Keyed(w)[i].max = w[i].max
  BY <1>3, KeyedLibrary
<1>6. DOMAIN Keyed(w) = 1..Len(l)
  BY <1>5 DEF Library
<1> QED
  BY <1>4, <1>5, <1>6 DEF w

LEMMA NormalLibraryGood ==
    ASSUME NEW lib, Library(lib)
    PROVE  /\ Library(NormalLibrary(lib))
           /\ Current(NormalLibrary(lib))
           /\ Current(lib) => NormalLibrary(lib) = lib
<1>1. CASE lib = <<>>
  BY <1>1, LibraryAssumption DEF NormalLibrary, Library, Current, DistinctKeys
<1>2. CASE lib # <<>>
  <2> DEFINE w == [i \in DOMAIN lib |-> Widened(lib[i])]
  <2>1. NormalLibrary(lib) = Keyed(w)
    BY <1>2 DEF NormalLibrary
  <2>2. /\ Library(Keyed(w)) /\ Len(Keyed(w)) = Len(lib)
        /\ \A i \in DOMAIN Keyed(w) : Keyed(w)[i].seed <= Keyed(w)[i].max
    BY WidenedKeyed DEF Library
  <2>3. Keyed(w) # <<>>
    BY <1>2, <2>2 DEF Library
  <2>4. ASSUME Current(lib)
        PROVE  Keyed(w) = lib
    <3>1. \A i \in DOMAIN lib : lib[i] \in Definitions /\ lib[i].seed <= lib[i].max
      BY <2>4 DEF Library, Current
    <3>2. \A i \in DOMAIN lib : Widened(lib[i]) = lib[i]
      BY <3>1, WidenedGood
    <3>3. w = lib
      BY <3>2 DEF Library
    <3>4. lib \in Seq(AnyDefinitions)
      BY AnyDefinition DEF Library
    <3> HIDE DEF w
    <3>5. Keyed(lib) = lib
      BY <3>4, KeyedGood DEF Library
    <3> QED
      BY <3>3, <3>5
  <2> QED
    BY <2>1, <2>2, <2>3, <2>4 DEF Current
<1> QED
  BY <1>1, <1>2

-----------------------------------------------------------------------------
(* Projects. *)

Fits(r) == r.tokens = Tokens(r.scale, r.sk)
FollowsIn(lib, r) ==
    /\ Fits(r)
    /\ r.kind # Custom =>
         \E i \in DOMAIN lib :
            lib[i].key = r.kind /\ r.terms = lib[i].terms /\ r.sk = lib[i].sk

Own(r, x) == x.batch = r.batch /\ x.shape = r.shape

LEMMA ProjectRow ==
    ASSUME NEW kind \in Keys \cup {Custom}, NEW terms \in DOMAIN Terms, NEW sk \in ScaleKinds,
           NEW scale \in Nat, NEW locked \in BOOLEAN, NEW batch \in BOOLEAN, NEW shape \in Shapes
    PROVE  LET r == Project(kind, terms, sk, scale, locked, batch, shape)
           IN  r \in Row /\ r # None /\ Fits(r)
<1>1. Tokens(scale, sk) \in Nat
  BY TokensNat
<1>2. Project(kind, terms, sk, scale, locked, batch, shape) \in Row
  BY <1>1 DEF Project, Row
<1>3. Fits(Project(kind, terms, sk, scale, locked, batch, shape))
  BY DEF Project, Fits
<1> QED
  BY <1>2, <1>3, LibraryAssumption

\* A project that has the definition's kind keeps its scale and its schedule.
LEMMA AppliedAgain ==
    ASSUME NEW r \in Row, NEW d \in Definitions, r.kind = d.key
    PROVE  /\ Apply(r, d) \in Row /\ Apply(r, d) # None
           /\ Fits(Apply(r, d)) /\ Own(r, Apply(r, d))
           /\ Apply(r, d).kind = d.key /\ Apply(r, d).terms = d.terms /\ Apply(r, d).sk = d.sk
<1>1. Apply(r, d) = Project(d.key, d.terms, d.sk, r.scale, r.locked, r.batch, r.shape)
  BY DEF Apply
<1>2. /\ d.key \in Keys /\ d.terms \in DOMAIN Terms /\ d.sk \in ScaleKinds
      /\ r.scale \in Nat /\ r.locked \in BOOLEAN /\ r.batch \in BOOLEAN /\ r.shape \in Shapes
  BY DEF Row, Definitions
<1>3. Apply(r, d) \in Row /\ Apply(r, d) # None /\ Fits(Apply(r, d))
  BY <1>1, <1>2, ProjectRow
<1> QED
  BY <1>1, <1>3 DEF Project, Own

\* One that takes the kind keeps its volume.
LEMMA AppliedFirst ==
    ASSUME NEW r \in Row, NEW d \in Definitions, IsVolume(r.tokens, d.sk)
    PROVE  Apply(r, d) \in Row /\ Apply(r, d) # None
<1>1. /\ d.key \in Keys /\ d.terms \in DOMAIN Terms /\ d.sk \in ScaleKinds /\ d.batch \in BOOLEAN
      /\ r.scale \in Nat /\ r.locked \in BOOLEAN /\ r.batch \in BOOLEAN /\ r.shape \in Shapes
      /\ r.tokens \in Nat /\ FALSE \in BOOLEAN /\ "office" \in Shapes
  BY LibraryAssumption DEF Row, Definitions
<1>2. ScaleOf(r.tokens, d.sk) \in Nat
  BY <1>1, ScaleGivesBack
<1> QED
  BY <1>1, <1>2, ProjectRow DEF Apply

LEMMA NewProjects ==
    /\ \A d \in Definitions : FromDefinition(d) \in Row /\ FromDefinition(d) # None
    /\ BlankProject \in Row /\ BlankProject # None
<1>1. FALSE \in BOOLEAN /\ "office" \in Shapes
  BY LibraryAssumption
<1>2. ASSUME NEW d \in Definitions
      PROVE  FromDefinition(d) \in Row /\ FromDefinition(d) # None
  <2>1. /\ d.key \in Keys /\ d.terms \in DOMAIN Terms /\ d.sk \in ScaleKinds
        /\ d.seed \in Nat /\ d.batch \in BOOLEAN
    BY DEF Definitions
  <2> QED
    BY <1>1, <2>1, ProjectRow DEF FromDefinition
<1>3. BlankProject \in Row /\ BlankProject # None
  BY <1>1, LibraryAssumption, ProjectRow DEF BlankProject
<1> QED
  BY <1>2, <1>3

-----------------------------------------------------------------------------
(* Panels. *)

Panel(p) ==
    /\ p = [lib |-> p.lib, index |-> p.index, rows |-> p.rows, blend |-> p.blend, mult |-> p.mult]
    /\ Library(p.lib)
    /\ p.rows \in [Uid -> Row \cup {None}]
    /\ p.mult \in Multipliers

\* The index, when there is one, is the list's; a lookup has made it.
Cached(p) == p.index # None => p.index = KeysOf(p.lib) /\ Current(p.lib)
Looked(p) == p.index = KeysOf(p.lib) /\ Current(p.lib)

LEMMA IndexedGood ==
    ASSUME NEW p, Panel(p), Cached(p)
    PROVE  /\ Panel(Indexed(p)) /\ Looked(Indexed(p))
           /\ Indexed(p).rows = p.rows /\ Indexed(p).mult = p.mult /\ Indexed(p).blend = p.blend
<1>1. CASE p.index # None
  BY <1>1 DEF Indexed, Cached, Looked
<1>2. CASE p.index = None
  <2> DEFINE lib == NormalLibrary(p.lib)
  <2>1. Library(lib) /\ Current(lib)
    BY NormalLibraryGood DEF Panel
  <2> HIDE DEF lib
  <2>2. Indexed(p) = [p EXCEPT !.lib = lib, !.index = KeysOf(lib)]
    BY <1>2 DEF Indexed, lib
  <2>3. Indexed(p) = [lib |-> lib, index |-> KeysOf(lib), rows |-> p.rows,
                      blend |-> p.blend, mult |-> p.mult]
    BY <2>2 DEF Panel
  <2> QED
    BY <2>1, <2>3 DEF Panel, Looked
<1> QED
  BY <1>1, <1>2

LEMMA FoundDefinition ==
    ASSUME NEW p, Panel(p), NEW key \in KeysOf(p.lib)
    PROVE  /\ Definition(p, key) \in Definitions
           /\ Definition(p, key).key = key
           /\ \E i \in DOMAIN p.lib : p.lib[i] = Definition(p, key)
<1>1. \E i \in DOMAIN p.lib : p.lib[i].key = key
  BY DEF KeysOf
<1>2. \A i \in DOMAIN p.lib : p.lib[i] \in Definitions
  BY DEF Panel, Library
<1> QED
  BY <1>1, <1>2 DEF Definition

LEMMA BlendedGood ==
    ASSUME NEW p, Panel(p)
    PROVE  /\ Panel(Blended(p)) /\ Blended(p).blend = Blend(Blended(p))
           /\ Blended(p).lib = p.lib /\ Blended(p).index = p.index
           /\ Blended(p).rows = p.rows /\ Blended(p).mult = p.mult
<1> DEFINE b == Blend(p)
           q == Blended(p)
<1>1. q = [lib |-> p.lib, index |-> p.index, rows |-> p.rows, blend |-> b, mult |-> p.mult]
  BY DEF Blended, Panel
<1>2. Panel(q)
  BY <1>1 DEF Panel
<1>3. Demand(q) = Demand(p)
  BY <1>1 DEF Demand, Uids
<1>4. CASE DOMAIN Demand(p) = {}
  <2>1. /\ b = [lengths |-> p.blend.lengths, reuse |-> Zero]
        /\ Blend(q) = [lengths |-> q.blend.lengths, reuse |-> Zero]
    BY <1>3, <1>4 DEF Blend
  <2>2. q.blend = b
    BY <1>1
  <2>3. Blend(q) = b
    BY <2>1, <2>2
  <2> HIDE DEF b
  <2> QED
    BY <1>1, <1>2, <2>2, <2>3
<1>5. CASE DOMAIN Demand(p) # {}
  BY <1>1, <1>2, <1>3, <1>5 DEF Blend
<1> QED
  BY <1>4, <1>5

\* The demand is what the projects' terms and tokens say.
Weighs(r, x) == x.terms = r.terms /\ x.tokens = r.tokens

LEMMA SameDemand ==
    ASSUME NEW p, NEW q,
           \A u \in Uid : q.rows[u] = None <=> p.rows[u] = None,
           \A u \in Uid : p.rows[u] # None => Weighs(p.rows[u], q.rows[u]),
           q.blend = p.blend
    PROVE  Blend(q) = Blend(p)
<1>1. Uids(q) = Uids(p)
  BY DEF Uids
<1>2. \A u \in Uids(p) : p.rows[u].terms = q.rows[u].terms /\ p.rows[u].tokens = q.rows[u].tokens
  BY DEF Uids, Weighs
<1>3. Demand(q) = Demand(p)
  BY <1>1, <1>2 DEF Demand
<1> QED
  BY <1>3 DEF Blend

\* What the definitions make of a project that follows one of them.
Synced(q, r) ==
    IF r = None \/ r.kind = Custom THEN r
    ELSE IF Finds(q, r.kind) THEN Apply(r, Definition(q, r.kind)) ELSE [r EXCEPT !.kind = Custom]

LEMMA FreedRow ==
    ASSUME NEW r \in Row
    PROVE  LET x == [r EXCEPT !.kind = Custom]
           IN  /\ x \in Row /\ x # None /\ Own(r, x) /\ Weighs(r, x)
               /\ x.kind = Custom /\ (Fits(r) => Fits(x))
<1>1. [r EXCEPT !.kind = Custom] \in Row
  BY DEF Row
<1>2. [r EXCEPT !.kind = Custom] # None
  BY <1>1, LibraryAssumption
<1> QED
  BY <1>1, <1>2 DEF Row, Own, Weighs, Fits

LEMMA AppliedFollows ==
    ASSUME NEW q, Panel(q), Looked(q), NEW r \in Row, r.kind # Custom, Finds(q, r.kind)
    PROVE  LET x == Apply(r, Definition(q, r.kind))
           IN  /\ x \in Row /\ x # None /\ Own(r, x) /\ FollowsIn(q.lib, x) /\ x.kind = r.kind
               /\ x.terms = Definition(q, r.kind).terms /\ x.sk = Definition(q, r.kind).sk
<1> DEFINE d == Definition(q, r.kind)
           x == Apply(r, d)
<1>1. r.kind \in KeysOf(q.lib)
  BY DEF Looked, Finds
<1>2. d \in Definitions /\ d.key = r.kind /\ \E i \in DOMAIN q.lib : q.lib[i] = d
  BY <1>1, FoundDefinition
<1> HIDE DEF d
<1>3. /\ x \in Row /\ x # None /\ Fits(x) /\ Own(r, x)
      /\ x.kind = d.key /\ x.terms = d.terms /\ x.sk = d.sk
  BY <1>2, AppliedAgain
<1> HIDE DEF x
<1>4. FollowsIn(q.lib, x)
  BY <1>2, <1>3 DEF FollowsIn
<1> QED
  BY <1>2, <1>3, <1>4 DEF x, d

LEMMA SyncedRow ==
    ASSUME NEW q, Panel(q), Looked(q), NEW r \in Row
    PROVE  /\ Synced(q, r) \in Row /\ Synced(q, r) # None /\ Own(r, Synced(q, r))
           /\ Fits(r) => FollowsIn(q.lib, Synced(q, r))
<1>1. r # None
  BY LibraryAssumption
<1>2. CASE r.kind = Custom
  BY <1>1, <1>2 DEF Synced, Own, FollowsIn
<1>3. CASE r.kind # Custom /\ Finds(q, r.kind)
  BY <1>1, <1>3, AppliedFollows DEF Synced
<1>4. CASE r.kind # Custom /\ ~Finds(q, r.kind)
  BY <1>1, <1>4, FreedRow DEF Synced, FollowsIn
<1> QED
  BY <1>2, <1>3, <1>4

\* New projects on a panel whose index is made: the shape of every call that
\* goes over all of them.
LEMMA RowsReplaced ==
    ASSUME NEW q, Panel(q), NEW rows, rows \in [Uid -> Row \cup {None}]
    PROVE  LET s == Blended([q EXCEPT !.rows = rows])
           IN  /\ Panel(s) /\ (Looked(q) => Looked(s)) /\ s.blend = Blend(s)
               /\ s.lib = q.lib /\ s.index = q.index /\ s.rows = rows /\ s.mult = q.mult
<1> DEFINE p == [q EXCEPT !.rows = rows]
           s == Blended(p)
<1>1. p = [lib |-> q.lib, index |-> q.index, rows |-> rows, blend |-> q.blend, mult |-> q.mult]
  BY DEF Panel
<1>2. Panel(p) /\ p.lib = q.lib /\ p.index = q.index /\ p.rows = rows /\ p.mult = q.mult
  BY <1>1 DEF Panel
<1> HIDE DEF p
<1>3. /\ Panel(s) /\ s.blend = Blend(s)
      /\ s.lib = q.lib /\ s.index = q.index /\ s.rows = rows /\ s.mult = q.mult
  BY <1>2, BlendedGood
<1> HIDE DEF s
<1>4. Looked(q) => Looked(s)
  BY <1>3 DEF Looked
<1> QED
  BY <1>3, <1>4 DEF s, p

\* Every project whose tokens fit its scale follows its definition afterwards;
\* none is lost, and all keep their schedules.
LEMMA SyncGood ==
    ASSUME NEW p, Panel(p), Cached(p)
    PROVE  /\ Panel(Sync(p)) /\ Looked(Sync(p)) /\ Sync(p).mult = p.mult
           /\ Sync(p).blend = Blend(Sync(p))
           /\ \A u \in Uid :
                 /\ Sync(p).rows[u] = None <=> p.rows[u] = None
                 /\ p.rows[u] # None =>
                      /\ Own(p.rows[u], Sync(p).rows[u])
                      /\ Fits(p.rows[u]) => FollowsIn(Sync(p).lib, Sync(p).rows[u])
<1> DEFINE q == Indexed(p)
           rows == [u \in Uid |-> Synced(q, q.rows[u])]
           s == Blended([q EXCEPT !.rows = rows])
<1>1. Sync(p) = s
  BY DEF Sync, Synced
<1>2. Panel(q) /\ Looked(q) /\ q.rows = p.rows /\ q.mult = p.mult
  BY IndexedGood
<1> HIDE DEF q
<1>3. ASSUME NEW u \in Uid
      PROVE  IF p.rows[u] = None THEN Synced(q, q.rows[u]) = None
             ELSE /\ Synced(q, q.rows[u]) \in Row /\ Synced(q, q.rows[u]) # None
                  /\ Own(p.rows[u], Synced(q, q.rows[u]))
                  /\ Fits(p.rows[u]) => FollowsIn(q.lib, Synced(q, q.rows[u]))
  <2>1. CASE p.rows[u] = None
    BY <1>2, <2>1 DEF Synced
  <2>2. CASE p.rows[u] # None
    <3>1. p.rows[u] \in Row
      BY <2>2 DEF Panel
    <3> QED
      BY <1>2, <2>2, <3>1, SyncedRow
  <2> QED
    BY <2>1, <2>2
<1>4. rows \in [Uid -> Row \cup {None}] /\ \A u \in Uid : rows[u] = Synced(q, q.rows[u])
  BY <1>3
<1> HIDE DEF rows
<1>5. /\ Panel(s) /\ Looked(s) /\ s.blend = Blend(s)
      /\ s.lib = q.lib /\ s.rows = rows /\ s.mult = q.mult
  BY <1>2, <1>4, RowsReplaced
<1> HIDE DEF s
<1> QED
  BY <1>1, <1>2, <1>3, <1>4, <1>5

-----------------------------------------------------------------------------
(* Reading a panel. *)

\* A project as a read leaves it: within the bounds, its scale counted back
\* from its tokens, its kind custom or in the library.
Counted(r) == r.tokens = Bounded(r.tokens) /\ r.scale = ScaleOf(r.tokens, r.sk)

LEMMA InferredKind ==
    ASSUME NEW q, Panel(q), Looked(q), NEW r \in Row
    PROVE  /\ InferKind(q, r) = Custom \/ Finds(q, InferKind(q, r))
           /\ InferKind(q, r) \in Keys \cup {Custom}
<1> DEFINE named == {i \in DOMAIN q.lib : q.lib[i].terms = r.terms}
<1>1. r.kind \in Keys \cup {Custom}
  BY DEF Row
<1>2. CASE r.kind = Custom \/ Finds(q, r.kind)
  BY <1>1, <1>2 DEF InferKind
<1>3. CASE ~(r.kind = Custom \/ Finds(q, r.kind)) /\ named = {}
  BY <1>3 DEF InferKind
<1>4. CASE ~(r.kind = Custom \/ Finds(q, r.kind)) /\ named # {}
  <2> DEFINE i == CHOOSE i \in named : \A j \in named : i <= j
  <2>1. DOMAIN q.lib \subseteq Nat /\ named \in SUBSET Nat
    BY DEF Panel, Library
  <2>2. \E k \in named : \A j \in named : k <= j
    BY <1>4, <2>1, LeastNumber
  <2>3. i \in named
    BY <2>2
  <2>4. InferKind(q, r) = q.lib[i].key
    BY <1>4 DEF InferKind
  <2> HIDE DEF i
  <2>5. q.lib[i] \in Definitions /\ q.lib[i].key \in KeysOf(q.lib)
    BY <2>3 DEF Panel, Library, KeysOf
  <2> QED
    BY <2>4, <2>5 DEF Looked, Finds, Definitions
<1> QED
  BY <1>2, <1>3, <1>4

LEMMA NormalRow ==
    ASSUME NEW q, Panel(q), Looked(q), NEW r \in Row
    PROVE  LET x == NormalProject(q, r)
           IN  /\ x \in Row /\ x # None /\ Own(r, x)
               /\ FollowsIn(q.lib, x) /\ Counted(x)
               /\ x.kind = Custom \/ Finds(q, x.kind)
<1> DEFINE k == [r EXCEPT !.kind = InferKind(q, r)]
           a == IF k.kind = Custom THEN [k EXCEPT !.tokens = Tokens(k.scale, k.sk)]
                ELSE Apply(k, Definition(q, k.kind))
           t == Bounded(a.tokens)
           x == [a EXCEPT !.tokens = t, !.scale = ScaleOf(t, a.sk)]
<1>1. NormalProject(q, r) = x
  BY DEF NormalProject
<1>2. k \in Row /\ k.kind = InferKind(q, r) /\ Own(r, k)
  BY InferredKind DEF Row, Own
<1>3. k.kind = Custom \/ Finds(q, k.kind)
  BY <1>2, InferredKind
<1> HIDE DEF k
<1>4. /\ a \in Row /\ Own(k, a) /\ FollowsIn(q.lib, a)
      /\ a.kind = Custom \/ Finds(q, a.kind)
  <2>1. CASE k.kind = Custom
    <3>1. Tokens(k.scale, k.sk) \in Nat
      BY <1>2, TokensNat DEF Row
    <3>2. a = [k EXCEPT !.tokens = Tokens(k.scale, k.sk)]
      BY <2>1
    <3> DEFINE n == Tokens(k.scale, k.sk)
    <3>3. n \in Nat /\ a = [k EXCEPT !.tokens = n]
      BY <3>1, <3>2
    <3> HIDE DEF a, n
    <3>4. /\ a \in Row /\ Own(k, a) /\ a.kind = Custom
          /\ a.tokens = n /\ a.scale = k.scale /\ a.sk = k.sk
      BY <1>2, <2>1, <3>3 DEF Row, Own
    <3> QED
      BY <3>4 DEF FollowsIn, Fits, n
  <2>2. CASE k.kind # Custom
    <3>1. a = Apply(k, Definition(q, k.kind)) /\ Finds(q, k.kind)
      BY <1>3, <2>2
    <3> HIDE DEF a
    <3> QED
      BY <1>2, <2>2, <3>1, AppliedFollows
  <2> QED
    BY <2>1, <2>2
<1> HIDE DEF a
<1>5. a.scale \in Nat /\ a.sk \in ScaleKinds /\ a.tokens \in Nat /\ a.tokens = Tokens(a.scale, a.sk)
  BY <1>4 DEF Row, FollowsIn, Fits
<1>6. t \in Nat /\ IsVolume(t, a.sk) /\ Bounded(t) = t
  BY <1>5, VolumeOfTokens, BoundedVolume
<1> DEFINE c == ScaleOf(t, a.sk)
<1> HIDE DEF t
<1>7. c \in Nat /\ Tokens(c, a.sk) = t
  BY <1>5, <1>6, ScaleGivesBack
<1>8. x = [a EXCEPT !.tokens = t, !.scale = c]
  OBVIOUS
<1> HIDE DEF x, c
<1>9. /\ x \in Row /\ Own(a, x) /\ x.tokens = t /\ x.scale = c
      /\ x.kind = a.kind /\ x.terms = a.terms /\ x.sk = a.sk
  BY <1>4, <1>6, <1>7, <1>8 DEF Row, Own
<1>10. FollowsIn(q.lib, x) /\ Counted(x)
  BY <1>4, <1>6, <1>7, <1>9 DEF FollowsIn, Fits, Counted, c
<1>11. Own(r, x) /\ x # None
  BY <1>2, <1>4, <1>9, LibraryAssumption DEF Own
<1> QED
  BY <1>1, <1>4, <1>9, <1>10, <1>11

LEMMA NormalGood ==
    ASSUME NEW p, Panel(p), Cached(p)
    PROVE  LET n == Normal(p)
           IN  /\ Panel(n) /\ Looked(n) /\ n.mult = p.mult /\ n.blend = Blend(n)
               /\ \A u \in Uid :
                     /\ n.rows[u] = None <=> p.rows[u] = None
                     /\ p.rows[u] # None =>
                          /\ Own(p.rows[u], n.rows[u])
                          /\ FollowsIn(n.lib, n.rows[u]) /\ Counted(n.rows[u])
                          /\ n.rows[u].kind = Custom \/ Finds(n, n.rows[u].kind)
<1> DEFINE q == Indexed(p)
           rows == [u \in Uid |-> IF q.rows[u] = None THEN None ELSE NormalProject(q, q.rows[u])]
           s == Blended([q EXCEPT !.rows = rows])
<1>1. Normal(p) = s
  BY DEF Normal
<1>2. Panel(q) /\ Looked(q) /\ q.rows = p.rows /\ q.mult = p.mult
  BY IndexedGood
<1> HIDE DEF q
<1>3. ASSUME NEW u \in Uid, p.rows[u] # None
      PROVE  LET x == NormalProject(q, p.rows[u])
             IN  /\ x \in Row /\ x # None /\ Own(p.rows[u], x)
                 /\ FollowsIn(q.lib, x) /\ Counted(x)
                 /\ x.kind = Custom \/ Finds(q, x.kind)
  <2>1. p.rows[u] \in Row
    BY <1>3 DEF Panel
  <2> QED
    BY <1>2, <2>1, NormalRow
<1>4. /\ rows \in [Uid -> Row \cup {None}]
      /\ \A u \in Uid : rows[u] = IF p.rows[u] = None THEN None ELSE NormalProject(q, p.rows[u])
  BY <1>2, <1>3
<1> HIDE DEF rows
<1>5. /\ Panel(s) /\ Looked(s) /\ s.blend = Blend(s)
      /\ s.lib = q.lib /\ s.index = q.index /\ s.rows = rows /\ s.mult = q.mult
  BY <1>2, <1>4, RowsReplaced
<1> HIDE DEF s
<1>6. \A x : Finds(q, x) <=> Finds(s, x)
  BY <1>5 DEF Finds
<1>7. ASSUME NEW u \in Uid
      PROVE  /\ s.rows[u] = None <=> p.rows[u] = None
             /\ p.rows[u] # None =>
                  /\ Own(p.rows[u], s.rows[u])
                  /\ FollowsIn(s.lib, s.rows[u]) /\ Counted(s.rows[u])
                  /\ s.rows[u].kind = Custom \/ Finds(s, s.rows[u].kind)
  BY <1>3, <1>4, <1>5, <1>6
<1> QED
  BY <1>1, <1>2, <1>5, <1>7

-----------------------------------------------------------------------------
(* Requests. *)

EndlessOK == endless \in [rows : SUBSET Uid, defs : SUBSET Keys]

\* A panel as get_state hands it to a handler.
Found(p) ==
    /\ Panel(p) /\ Looked(p) /\ p.blend = Blend(p) /\ EndlessOK
    /\ \A u \in Uid : p.rows[u] # None => FollowsIn(p.lib, p.rows[u])

\* What a handler that found p and was asked to edit the projects in rows, and
\* the schedules of those in when, may leave.
Left(p, q, op, rows, when) ==
    /\ Panel(q) /\ Cached(q)
    /\ \A u \in Uid \ rows : q.rows[u] # None => FollowsIn(q.lib, q.rows[u])
    /\ op # "lock" => q.blend.reuse = Blend(q).reuse
    /\ op \notin {"lock", "draw"} => q.blend = Blend(q)
    /\ \A u \in Uid \ when : p.rows[u] # None /\ q.rows[u] # None => Own(p.rows[u], q.rows[u])

UseCaseInv ==
    /\ Panel(panel) /\ Cached(panel) /\ EndlessOK
    /\ \A u \in Uid \ (last.rows \cup endless.rows) :
          panel.rows[u] # None => FollowsIn(panel.lib, panel.rows[u])
    /\ endless.rows # {} => last.rows = endless.rows
    /\ BlendCurrent

\* The handler is over, and the panel can be read again.
Done(p) ==
    /\ Left(p, panel', last'.op, last'.rows, last'.when)
    /\ EndlessOK' /\ endless'.rows = {}

\* It raised and left the projects in endless'.rows with an infinite volume.
Stopped(p) ==
    /\ Panel(panel') /\ Cached(panel') /\ EndlessOK'
    /\ last'.op = "raise"
    /\ endless'.rows # {} /\ last'.rows = endless'.rows
    /\ \A u \in Uid \ endless'.rows : panel'.rows[u] = p.rows[u]
    /\ panel'.lib = p.lib
    /\ \A u \in Uid : p.rows[u] # None => Own(p.rows[u], panel'.rows[u])

LEMMA HandlerLeft ==
    ASSUME NEW p, Found(p), NEW q, NEW op, NEW rows, NEW when,
           Leaves(q, op, rows, when), Left(p, q, op, rows, when)
    PROVE  Done(p)
<1>1. endless'.rows = {} /\ endless'.defs \subseteq Keys
  BY DEF Leaves, Leave, Found, EndlessOK
<1>2. endless' = [rows |-> endless'.rows, defs |-> endless'.defs]
  BY DEF Leaves, Leave
<1> QED
  BY <1>1, <1>2 DEF Leaves, Leave, Done, EndlessOK

\* A handler that raises before the panel, or with one project it has touched.
LEMMA RaisedEarly ==
    ASSUME NEW p, Found(p), NEW D \in SUBSET Keys, Raises(p, {}, D)
    PROVE  Done(p)
<1>1. Left(p, p, "raise", {}, {})
  BY DEF Found, Left, Looked, Cached, Own
<1>2. /\ endless' = [rows |-> {}, defs |-> endless.defs \cup D]
      /\ panel' = p /\ last' = [op |-> "raise", rows |-> {}, when |-> {}]
  BY DEF Raises, Leave
<1>3. EndlessOK'
  BY <1>2 DEF Found, EndlessOK
<1> QED
  BY <1>1, <1>2, <1>3 DEF Done

LEMMA ReadLeft ==
    ASSUME NEW p, Found(p)
    PROVE  Left(p, p, "read", {}, {})
BY DEF Found, Left, Looked, Cached, Own

LEMMA RowEdited ==
    ASSUME NEW p, Panel(p), NEW u \in Uid, NEW r \in Row \cup {None}
    PROVE  LET q == EditRow(p, u, r)
           IN  /\ Panel(q) /\ q.lib = p.lib /\ q.index = p.index
               /\ q.mult = p.mult /\ q.blend = p.blend
               /\ q.rows \in [Uid -> Row \cup {None}]
               /\ q.rows[u] = r /\ \A w \in Uid \ {u} : q.rows[w] = p.rows[w]
<1> DEFINE rows == [p.rows EXCEPT ![u] = r]
           q == EditRow(p, u, r)
<1>1. q = [lib |-> p.lib, index |-> p.index, rows |-> rows, blend |-> p.blend, mult |-> p.mult]
  BY DEF EditRow, Panel
<1>2. rows \in [Uid -> Row \cup {None}] /\ rows[u] = r /\ \A w \in Uid \ {u} : rows[w] = p.rows[w]
  BY DEF Panel
<1> HIDE DEF rows
<1> QED
  BY <1>1, <1>2 DEF Panel

LEMMA RaisedLate ==
    ASSUME NEW p, Found(p), NEW u \in Uid, NEW r \in Row,
           p.rows[u] # None => Own(p.rows[u], r),
           Raises(EditRow(p, u, r), {u}, {})
    PROVE  Stopped(p)
<1> DEFINE q == EditRow(p, u, r)
<1>1. /\ Panel(q) /\ q.lib = p.lib /\ q.index = p.index
      /\ q.rows[u] = r /\ \A w \in Uid \ {u} : q.rows[w] = p.rows[w]
  BY RowEdited DEF Found
<1>2. /\ endless' = [rows |-> {u}, defs |-> endless.defs]
      /\ panel' = q /\ last' = [op |-> "raise", rows |-> {u}, when |-> {}]
  BY DEF Raises, Leave
<1> HIDE DEF q
<1>3. EndlessOK'
  BY <1>2 DEF Found, EndlessOK
<1>4. Cached(q)
  BY <1>1 DEF Found, Looked, Cached
<1>5. \A w \in Uid : p.rows[w] # None => Own(p.rows[w], q.rows[w])
  BY <1>1 DEF Own
<1> QED
  BY <1>1, <1>2, <1>3, <1>4, <1>5 DEF Stopped

\* A handler that changes one project and blends again.
LEMMA RowBlended ==
    ASSUME NEW p, Found(p), NEW u \in Uid, NEW r \in Row \cup {None}, NEW when,
           \/ u \in when
           \/ p.rows[u] # None => Own(p.rows[u], r)
    PROVE  Left(p, Blended(EditRow(p, u, r)), "row", {u}, when)
<1> DEFINE e == EditRow(p, u, r)
           q == Blended(e)
<1>1. /\ Panel(e) /\ e.lib = p.lib /\ e.index = p.index
      /\ e.rows[u] = r /\ \A w \in Uid \ {u} : e.rows[w] = p.rows[w]
  BY RowEdited DEF Found
<1> HIDE DEF e
<1>2. /\ Panel(q) /\ q.lib = p.lib /\ q.index = p.index /\ q.blend = Blend(q)
      /\ q.rows[u] = r /\ \A w \in Uid \ {u} : q.rows[w] = p.rows[w]
  BY <1>1, BlendedGood
<1> HIDE DEF q
<1>3. Cached(q)
  BY <1>2 DEF Found, Looked, Cached
<1>4. Left(p, q, "row", {u}, when)
  BY <1>2, <1>3 DEF Found, Left, Own
<1> QED
  BY <1>4 DEF q, e

\* One that leaves the blend as it is, where the weights stay or it is the lock.
LEMMA RowKept ==
    ASSUME NEW p, Found(p), NEW u \in Uid, p.rows[u] # None, NEW r \in Row, NEW when, NEW op,
           u \in when \/ Own(p.rows[u], r),
           op = "lock" \/ Weighs(p.rows[u], r)
    PROVE  Left(p, EditRow(p, u, r), op, {u}, when)
<1> DEFINE q == EditRow(p, u, r)
<1>1. /\ Panel(q) /\ q.lib = p.lib /\ q.index = p.index /\ q.blend = p.blend
      /\ q.rows[u] = r /\ \A w \in Uid \ {u} : q.rows[w] = p.rows[w]
  BY RowEdited DEF Found
<1>2. r # None
  BY LibraryAssumption
<1> HIDE DEF q
<1>3. Cached(q)
  BY <1>1 DEF Found, Looked, Cached
<1>4. op = "lock" \/ q.blend = Blend(q)
  <2>1. ASSUME Weighs(p.rows[u], r)
        PROVE  q.blend = Blend(q)
    <3>1. \A w \in Uid : q.rows[w] = None <=> p.rows[w] = None
      BY <1>1, <1>2
    <3>2. \A w \in Uid : p.rows[w] # None => Weighs(p.rows[w], q.rows[w])
      BY <1>1, <2>1 DEF Weighs
    <3>3. Blend(q) = Blend(p)
      BY <1>1, <3>1, <3>2, SameDemand
    <3> QED
      BY <1>1, <3>3 DEF Found
  <2> QED
    BY <2>1
<1>5. Left(p, q, op, {u}, when)
  BY <1>1, <1>3, <1>4 DEF Found, Left, Own
<1> QED
  BY <1>5 DEF q

\* Lengths picked or drawn: the prefix reuse stays that of the demand.
LEMMA DrawnLeft ==
    ASSUME NEW p, Found(p), NEW d
    PROVE  Left(p, [p EXCEPT !.blend = [lengths |-> d, reuse |-> p.blend.reuse]], "draw", {}, {})
<1> DEFINE b == [lengths |-> d, reuse |-> p.blend.reuse]
           q == [p EXCEPT !.blend = b]
<1>1. q = [lib |-> p.lib, index |-> p.index, rows |-> p.rows, blend |-> b, mult |-> p.mult]
  BY DEF Found, Panel
<1>2. /\ Panel(q) /\ q.lib = p.lib /\ q.index = p.index /\ q.rows = p.rows
      /\ q.blend.reuse = p.blend.reuse
  BY <1>1 DEF Panel, Found
<1> HIDE DEF q, b
<1>3. Demand(q) = Demand(p)
  BY <1>2 DEF Demand, Uids
<1>4. Blend(q).reuse = Blend(p).reuse
  BY <1>3 DEF Blend
<1>5. Left(p, q, "draw", {}, {})
  BY <1>2, <1>4 DEF Found, Left, Own, Looked, Cached
<1> QED
  BY <1>5 DEF q, b

\* A handler that changes neither projects nor list.
LEMMA CompanyLeft ==
    ASSUME NEW p, Found(p), NEW m \in Multipliers
    PROVE  Left(p, [p EXCEPT !.mult = m], "company", {}, {})
<1> DEFINE q == [p EXCEPT !.mult = m]
<1>1. q = [lib |-> p.lib, index |-> p.index, rows |-> p.rows, blend |-> p.blend, mult |-> m]
  BY DEF Found, Panel
<1>2. /\ Panel(q) /\ q.lib = p.lib /\ q.index = p.index /\ q.rows = p.rows /\ q.blend = p.blend
  BY <1>1 DEF Panel, Found
<1> HIDE DEF q
<1>3. Blend(q) = Blend(p)
  BY <1>2, SameDemand DEF Weighs
<1>4. Left(p, q, "company", {}, {})
  BY <1>2, <1>3 DEF Found, Left, Own, Looked, Cached
<1> QED
  BY <1>4 DEF q

-----------------------------------------------------------------------------
(* One project. *)

LEMMA AddProjectGood ==
    ASSUME NEW p, Found(p), NEW key, AddProject(p, key)
    PROVE  Done(p) \/ Stopped(p)
<1>1. PICK u \in Uid \ Uids(p) :
         LET r == IF Finds(p, key) THEN FromDefinition(Definition(p, key)) ELSE BlankProject
         IN  \/ Leaves(Blended(EditRow(p, u, r)), "row", {u}, {u})
             \/ Raises(EditRow(p, u, r), {u}, {})
  BY DEF AddProject
<1> DEFINE r == IF Finds(p, key) THEN FromDefinition(Definition(p, key)) ELSE BlankProject
<1>2. r \in Row
  <2>1. CASE Finds(p, key)
    <3>1. Definition(p, key) \in Definitions
      BY <2>1, FoundDefinition DEF Found, Looked, Finds
    <3> QED
      BY <2>1, <3>1, NewProjects
  <2>2. CASE ~Finds(p, key)
    BY <2>2, NewProjects
  <2> QED
    BY <2>1, <2>2
<1> HIDE DEF r
<1>3. Left(p, Blended(EditRow(p, u, r)), "row", {u}, {u})
  BY <1>2, RowBlended
<1>4. u \in Uid /\ p.rows[u] = None
  BY DEF Uids
<1>5. Leaves(Blended(EditRow(p, u, r)), "row", {u}, {u}) \/ Raises(EditRow(p, u, r), {u}, {})
  BY <1>1 DEF r
<1>6. ASSUME Raises(EditRow(p, u, r), {u}, {})
      PROVE  Stopped(p)
  BY <1>2, <1>4, <1>6, RaisedLate
<1> QED
  BY <1>3, <1>5, <1>6, HandlerLeft

LEMMA RemoveProjectGood ==
    ASSUME NEW p, Found(p), NEW u \in Uids(p), RemoveProject(p, u)
    PROVE  Done(p)
<1>1. u \in Uid
  BY DEF Uids
<1>2. Left(p, Blended(EditRow(p, u, None)), "row", {u}, {u})
  BY <1>1, RowBlended
<1> QED
  BY <1>2, HandlerLeft DEF RemoveProject

LEMMA SetKindGood ==
    ASSUME NEW p, Found(p), NEW u \in Uids(p), NEW key, SetKind(p, u, key)
    PROVE  Done(p)
<1> DEFINE r == p.rows[u]
           d == Definition(p, key)
<1>1. u \in Uid /\ r \in Row /\ r # None
  BY DEF Uids, Found, Panel
<1>2. CASE Leaves(EditRow(p, u, [r EXCEPT !.kind = Custom]), "row", {u}, {u})
  <2> DEFINE x == [r EXCEPT !.kind = Custom]
  <2>1. x \in Row /\ Weighs(r, x)
    BY <1>1, FreedRow
  <2> HIDE DEF x
  <2>2. Left(p, EditRow(p, u, x), "row", {u}, {u})
    BY <1>1, <2>1, RowKept
  <2> QED
    BY <1>2, <2>2, HandlerLeft DEF x
<1>3. CASE /\ Finds(p, key) /\ IsVolume(r.tokens, d.sk)
           /\ Leaves(Blended(EditRow(p, u, Apply(r, d))), "row", {u}, {u})
  <2>1. d \in Definitions
    BY <1>3, FoundDefinition DEF Found, Looked, Finds
  <2>2. Apply(r, d) \in Row
    BY <1>1, <1>3, <2>1, AppliedFirst
  <2>3. Left(p, Blended(EditRow(p, u, Apply(r, d))), "row", {u}, {u})
    BY <1>1, <2>2, RowBlended
  <2> QED
    BY <1>3, <2>3, HandlerLeft
<1> QED
  BY <1>2, <1>3 DEF SetKind

LEMMA SetTermsGood ==
    ASSUME NEW p, Found(p), NEW u \in Uids(p), NEW t \in DOMAIN Terms, SetTerms(p, u, t)
    PROVE  Done(p)
<1> DEFINE r == p.rows[u]
           x == [r EXCEPT !.terms = t]
<1>1. u \in Uid /\ r \in Row /\ r # None
  BY DEF Uids, Found, Panel
<1>2. x \in Row /\ Own(r, x)
  BY <1>1 DEF Row, Own
<1> HIDE DEF x
<1>3. Left(p, Blended(EditRow(p, u, x)), "row", {u}, {})
  BY <1>1, <1>2, RowBlended
<1> QED
  BY <1>3, HandlerLeft DEF SetTerms, x

LEMMA SetTokensGood ==
    ASSUME NEW p, Found(p), NEW u \in Uids(p), NEW v \in Typed, SetTokens(p, u, v)
    PROVE  Done(p)
<1> DEFINE r == p.rows[u]
           t == Bounded(v)
           s == ScaleOf(t, r.sk)
           x == [r EXCEPT !.tokens = t, !.scale = s]
<1>1. u \in Uid /\ r \in Row /\ r # None
  BY DEF Uids, Found, Panel
<1>2. t \in Nat /\ IsVolume(t, r.sk)
  BY VolumeAssumption DEF SetTokens, Bounded
<1>3. Leaves(Blended(EditRow(p, u, x)), "row", {u}, {})
  BY DEF SetTokens
<1> HIDE DEF t
<1>4. s \in Nat
  BY <1>2, ScaleGivesBack
<1> HIDE DEF s
<1>5. x \in Row /\ Own(r, x)
  BY <1>1, <1>2, <1>4 DEF Row, Own
<1> HIDE DEF x
<1>6. Left(p, Blended(EditRow(p, u, x)), "row", {u}, {})
  BY <1>1, <1>5, RowBlended
<1> QED
  BY <1>3, <1>6, HandlerLeft

LEMMA MultiplierGood ==
    ASSUME NEW p, Found(p), NEW r
    PROVE  MultiplierOf(p, r) \in Nat \ {0}
BY VolumeAssumption DEF MultiplierOf, Found, Panel

LEMMA SetScaleValueGood ==
    ASSUME NEW p, Found(p), NEW u \in Uids(p), NEW v \in Typed \cup {Unbounded},
           SetScaleValue(p, u, v)
    PROVE  Done(p) \/ Stopped(p)
<1> DEFINE r  == p.rows[u]
           sk == IF Finds(p, r.kind) THEN Definition(p, r.kind).sk ELSE r.sk
           m  == MultiplierOf(p, r)
           s  == v \div m
           t  == Bounded(Tokens(s, sk))
           x  == [r EXCEPT !.sk = sk, !.scale = s, !.tokens = t]
           y  == [r EXCEPT !.sk = sk]
<1>1. u \in Uid /\ r \in Row /\ r # None
  BY DEF Uids, Found, Panel
<1>2. \/ Raises(EditRow(p, u, y), {u}, {})
      \/ v # Unbounded /\ Leaves(Blended(EditRow(p, u, x)), "row", {u}, {})
  BY DEF SetScaleValue
<1>3. sk \in ScaleKinds
  <2>1. CASE Finds(p, r.kind)
    <3>1. Definition(p, r.kind) \in Definitions
      BY <2>1, FoundDefinition DEF Found, Looked, Finds
    <3> QED
      BY <2>1, <3>1 DEF Definitions
  <2>2. CASE ~Finds(p, r.kind)
    BY <1>1, <2>2 DEF Row
  <2> QED
    BY <2>1, <2>2
<1> HIDE DEF sk
<1>4. y \in Row /\ Own(r, y)
  BY <1>1, <1>3 DEF Row, Own
<1> HIDE DEF y
<1>5. ASSUME Raises(EditRow(p, u, y), {u}, {})
      PROVE  Stopped(p)
  BY <1>1, <1>4, <1>5, RaisedLate
<1>6. ASSUME v # Unbounded, Leaves(Blended(EditRow(p, u, x)), "row", {u}, {})
      PROVE  Done(p)
  <2>1. v \in Nat /\ m \in Nat \ {0}
    BY <1>6, MultiplierGood, VolumeAssumption
  <2> HIDE DEF m
  <2>2. s \in Nat
    BY <2>1
  <2> HIDE DEF s
  <2>3. t \in Nat
    BY <1>3, <2>2, VolumeOfTokens, TokensNat, BoundedVolume
  <2> HIDE DEF t
  <2>4. x \in Row /\ Own(r, x)
    BY <1>1, <1>3, <2>2, <2>3 DEF Row, Own
  <2> HIDE DEF x
  <2>5. Left(p, Blended(EditRow(p, u, x)), "row", {u}, {})
    BY <1>1, <2>4, RowBlended
  <2> QED
    BY <1>6, <2>5, HandlerLeft
<1> QED
  BY <1>2, <1>5, <1>6

LEMMA SetBatchGood ==
    ASSUME NEW p, Found(p), NEW u \in Uids(p), NEW b \in BOOLEAN, SetBatchEligible(p, u, b)
    PROVE  Done(p)
<1> DEFINE r == p.rows[u]
           x == [r EXCEPT !.batch = b]
<1>1. u \in Uid /\ r \in Row /\ r # None
  BY DEF Uids, Found, Panel
<1>2. x \in Row /\ Weighs(r, x)
  BY <1>1 DEF Row, Weighs
<1> HIDE DEF x
<1>3. Left(p, EditRow(p, u, x), "row", {u}, {u})
  BY <1>1, <1>2, RowKept
<1> QED
  BY <1>3, HandlerLeft DEF SetBatchEligible, x

LEMMA SetDayShapeGood ==
    ASSUME NEW p, Found(p), NEW u \in Uids(p), NEW value \in Shapes \cup {"batch"},
           SetDayShape(p, u, value)
    PROVE  Done(p)
<1> DEFINE r == p.rows[u]
           x == IF value = "batch" THEN [r EXCEPT !.batch = TRUE]
                ELSE [r EXCEPT !.batch = FALSE, !.shape = value]
<1>1. u \in Uid /\ r \in Row /\ r # None
  BY DEF Uids, Found, Panel
<1>2. x \in Row /\ Weighs(r, x)
  <2>1. CASE value = "batch"
    BY <1>1, <2>1 DEF Row, Weighs
  <2>2. CASE value # "batch"
    BY <1>1, <2>2 DEF Row, Weighs
  <2> QED
    BY <2>1, <2>2
<1>3. Leaves(EditRow(p, u, x), "row", {u}, {u})
  BY DEF SetDayShape
<1> HIDE DEF x
<1>4. Left(p, EditRow(p, u, x), "row", {u}, {u})
  BY <1>1, <1>2, RowKept
<1> QED
  BY <1>3, <1>4, HandlerLeft

LEMMA SetScaleLockedGood ==
    ASSUME NEW p, Found(p), NEW u \in Uids(p), NEW lock \in BOOLEAN, SetScaleLocked(p, u, lock)
    PROVE  Done(p)
<1> DEFINE r == p.rows[u]
           s == IF lock THEN r.scale * p.mult ELSE r.scale \div p.mult
           t == Tokens(s, r.sk)
           x == [r EXCEPT !.locked = lock, !.scale = s, !.tokens = t]
<1>1. u \in Uid /\ r \in Row /\ r # None
  BY DEF Uids, Found, Panel
<1>2. Leaves(EditRow(p, u, x), "lock", {u}, {})
  BY DEF SetScaleLocked
<1>3. s \in Nat
  <2>1. r.scale \in Nat /\ p.mult \in Nat \ {0}
    BY <1>1, VolumeAssumption DEF Row, Found, Panel
  <2> QED
    BY <2>1
<1> HIDE DEF s
<1>4. t \in Nat
  BY <1>1, <1>3, TokensNat DEF Row
<1> HIDE DEF t
<1>5. x \in Row /\ Own(r, x)
  BY <1>1, <1>3, <1>4 DEF Row, Own
<1> HIDE DEF x
<1>6. Left(p, EditRow(p, u, x), "lock", {u}, {})
  BY <1>1, <1>5, RowKept
<1> QED
  BY <1>2, <1>6, HandlerLeft

-----------------------------------------------------------------------------
(* The library. *)

\* Another list, with the index made invalid.
LEMMA ListReplaced ==
    ASSUME NEW p, Panel(p), NEW lib, Library(lib), NEW rows \in [Uid -> Row \cup {None}],
           NEW q,
           q = [lib |-> lib, index |-> None, rows |-> rows, blend |-> p.blend, mult |-> p.mult]
    PROVE  /\ Panel(q) /\ Cached(q)
           /\ q.lib = lib /\ q.rows = rows /\ q.mult = p.mult /\ q.blend = p.blend
BY DEF Panel, Cached

LEMMA AddDefinitionGood ==
    ASSUME NEW p, Found(p), AddDefinition(p)
    PROVE  Done(p)
<1> DEFINE key == UniqueKey("new_use_case", KeysOf(p.lib))
           d   == [key |-> key, terms |-> NewTerms, sk |-> NewScaleKind, seed |-> NewScale,
                   max |-> NewScale, batch |-> FALSE]
           lib == Append(p.lib, d)
           q   == [p EXCEPT !.lib = lib, !.index = None]
<1>1. Library(p.lib) /\ p.lib \in Seq(Definitions) /\ Len(p.lib) \in Nat /\ DOMAIN p.lib = 1..Len(p.lib)
  BY DEF Found, Panel, Library
<1>2. Len(p.lib) < MaxDefs /\ Leaves(q, "library", {}, {})
  BY DEF AddDefinition
<1>3. /\ IsFiniteSet(KeysOf(p.lib)) /\ Cardinality(KeysOf(p.lib)) \in Nat
      /\ Cardinality(KeysOf(p.lib)) <= Len(p.lib)
  BY <1>1, FewKeys
<1>4. key \in Keys /\ key \notin KeysOf(p.lib)
  <2>1. PICK n \in 1..(Cardinality(KeysOf(p.lib)) + 1) :
           key = <<"new_use_case", n>> /\ <<"new_use_case", n>> \notin KeysOf(p.lib)
    BY <1>3, UniqueKeyGood
  <2>2. n \in 1..(MaxDefs + 1) /\ "new_use_case" \in Bases
    BY <1>1, <1>2, <1>3, LibraryAssumption DEF Bases
  <2> HIDE DEF key
  <2> QED
    BY <2>1, <2>2 DEF Keys
<1> HIDE DEF key
<1>5. d \in Definitions /\ d.key = key
  BY <1>4, LibraryAssumption DEF Definitions
<1> HIDE DEF d
<1>6. /\ lib \in Seq(Definitions) /\ Len(lib) = Len(p.lib) + 1 /\ DOMAIN lib = 1..(Len(p.lib) + 1)
      /\ lib[Len(p.lib) + 1] = d /\ \A i \in 1..Len(p.lib) : lib[i] = p.lib[i]
  BY <1>1, <1>5
<1> HIDE DEF lib
<1>7. DistinctKeys(lib)
  <2>1. \A i \in 1..Len(p.lib) : p.lib[i].key # key
    BY <1>1, <1>4 DEF KeysOf
  <2>2. ASSUME NEW i \in DOMAIN lib, NEW j \in DOMAIN lib, lib[i].key = lib[j].key
        PROVE  i = j
    <3>1. (i \in 1..Len(p.lib) \/ i = Len(p.lib) + 1) /\ (j \in 1..Len(p.lib) \/ j = Len(p.lib) + 1)
      BY <1>1, <1>6
    <3> QED
      BY <1>1, <1>5, <1>6, <2>1, <2>2, <3>1 DEF Library, DistinctKeys
  <2> QED
    BY <2>2 DEF DistinctKeys
<1>8. Library(lib)
  BY <1>1, <1>2, <1>6, <1>7, LibraryAssumption DEF Library
<1>9. /\ Panel(q) /\ Cached(q)
      /\ q.lib = lib /\ q.rows = p.rows /\ q.mult = p.mult /\ q.blend = p.blend
  <2>1. q = [lib |-> lib, index |-> None, rows |-> p.rows, blend |-> p.blend, mult |-> p.mult]
    <3>1. p = [lib |-> p.lib, index |-> p.index, rows |-> p.rows, blend |-> p.blend, mult |-> p.mult]
      BY DEF Found, Panel
    <3>2. q = [p EXCEPT !.lib = lib, !.index = None]
      OBVIOUS
    <3> HIDE DEF q
    <3> QED
      BY <3>1, <3>2
  <2>2. Panel(p) /\ p.rows \in [Uid -> Row \cup {None}]
    BY DEF Found, Panel
  <2> HIDE DEF q
  <2> QED
    BY <1>8, <2>1, <2>2, ListReplaced
<1> HIDE DEF q
<1>10. \A u \in Uid : p.rows[u] # None => FollowsIn(lib, p.rows[u])
  <2>1. \A i \in DOMAIN p.lib : i \in DOMAIN lib /\ lib[i] = p.lib[i]
    BY <1>1, <1>6
  <2> QED
    BY <2>1 DEF Found, FollowsIn
<1>11. Blend(q) = Blend(p)
  BY <1>9, SameDemand DEF Weighs
<1>12. Left(p, q, "library", {}, {})
  BY <1>9, <1>10, <1>11 DEF Found, Left, Own
<1> QED
  BY <1>2, <1>12, HandlerLeft

LEMMA RemoveDefinitionGood ==
    ASSUME NEW p, Found(p), NEW key, RemoveDefinition(p, key)
    PROVE  Done(p)
<1> DEFINE freed(r) == IF r # None /\ r.kind = key THEN [r EXCEPT !.kind = Custom] ELSE r
           lib  == WithoutKey(p.lib, key)
           rows == [u \in Uid |-> freed(p.rows[u])]
           q    == [p EXCEPT !.lib = lib, !.index = None, !.rows = rows]
<1>1. Leaves(q, "library", {}, {})
  <2>1. [p EXCEPT !.lib = WithoutKey(@, key), !.index = None,
                  !.rows = [u \in Uid |-> IF @[u] # None /\ @[u].kind = key
                                          THEN [@[u] EXCEPT !.kind = Custom] ELSE @[u]]] = q
    OBVIOUS
  <2> QED
    BY <2>1 DEF RemoveDefinition
<1>2. Library(p.lib) /\ p.lib \in Seq(Definitions) /\ Len(p.lib) \in Nat
  BY DEF Found, Panel, Library
<1>3. /\ lib \in Seq(Definitions) /\ Len(lib) <= Len(p.lib) /\ DistinctKeys(lib)
      /\ \A i \in DOMAIN p.lib : p.lib[i].key # key => \E j \in DOMAIN lib : lib[j] = p.lib[i]
  BY <1>2, WithoutKeyGood DEF Library
<1> HIDE DEF lib
<1>4. Library(lib)
  BY <1>2, <1>3, LibraryAssumption DEF Library
<1>5. ASSUME NEW u \in Uid
      PROVE  /\ freed(p.rows[u]) \in Row \cup {None}
             /\ freed(p.rows[u]) = None <=> p.rows[u] = None
             /\ p.rows[u] # None => /\ Own(p.rows[u], freed(p.rows[u]))
                                    /\ Weighs(p.rows[u], freed(p.rows[u]))
                                    /\ FollowsIn(lib, freed(p.rows[u]))
  <2> DEFINE r == p.rows[u]
  <2>1. CASE r = None
    BY <2>1
  <2>2. CASE r # None /\ r.kind = key
    <3> DEFINE x == [r EXCEPT !.kind = Custom]
    <3>1. r \in Row
      BY <2>2 DEF Found, Panel
    <3>2. /\ x \in Row /\ x # None /\ Own(r, x) /\ Weighs(r, x)
          /\ x.kind = Custom /\ (Fits(r) => Fits(x))
      BY <3>1, FreedRow
    <3>3. freed(r) = x
      BY <2>2
    <3>4. Fits(r)
      BY <2>2 DEF Found, FollowsIn
    <3> HIDE DEF x, freed
    <3> QED
      BY <2>2, <3>2, <3>3, <3>4 DEF FollowsIn
  <2>3. CASE r # None /\ r.kind # key
    <3>1. r \in Row /\ freed(r) = r /\ FollowsIn(p.lib, r)
      BY <2>3 DEF Found, Panel
    <3>2. FollowsIn(lib, r)
      BY <1>3, <2>3, <3>1 DEF FollowsIn
    <3> HIDE DEF freed
    <3> QED
      BY <2>3, <3>1, <3>2 DEF Own, Weighs
  <2> QED
    BY <2>1, <2>2, <2>3
<1>6. rows \in [Uid -> Row \cup {None}] /\ \A u \in Uid : rows[u] = freed(p.rows[u])
  BY <1>5
<1> HIDE DEF freed, rows
<1>7. /\ Panel(q) /\ Cached(q)
      /\ q.lib = lib /\ q.rows = rows /\ q.mult = p.mult /\ q.blend = p.blend
  <2>1. q = [lib |-> lib, index |-> None, rows |-> rows, blend |-> p.blend, mult |-> p.mult]
    <3>1. p = [lib |-> p.lib, index |-> p.index, rows |-> p.rows, blend |-> p.blend, mult |-> p.mult]
      BY DEF Found, Panel
    <3>2. q = [p EXCEPT !.lib = lib, !.index = None, !.rows = rows]
      OBVIOUS
    <3> HIDE DEF q
    <3> QED
      BY <3>1, <3>2
  <2> HIDE DEF q
  <2> QED
    BY <1>4, <1>6, <2>1, ListReplaced DEF Found
<1> HIDE DEF q
<1>8. Blend(q) = Blend(p)
  BY <1>5, <1>6, <1>7, SameDemand
<1>9. Left(p, q, "library", {}, {})
  BY <1>5, <1>6, <1>7, <1>8 DEF Found, Left
<1> QED
  BY <1>1, <1>9, HandlerLeft

\* A list edited in place keeps its keys.
LEMMA ReplacedDef ==
    ASSUME NEW lib, Library(lib), NEW d \in Definitions
    PROVE  Library([i \in DOMAIN lib |-> IF lib[i].key = d.key THEN d ELSE lib[i]])
<1> DEFINE n == [i \in DOMAIN lib |-> IF lib[i].key = d.key THEN d ELSE lib[i]]
<1>1. Len(lib) \in Nat /\ DOMAIN lib = 1..Len(lib) /\ \A i \in 1..Len(lib) : lib[i] \in Definitions
  BY DEF Library
<1>2. n \in Seq(Definitions) /\ Len(n) = Len(lib) /\ DOMAIN n = DOMAIN lib
  BY <1>1
<1>3. \A i \in DOMAIN lib : n[i].key = lib[i].key
  OBVIOUS
<1> HIDE DEF n
<1>4. DistinctKeys(n)
  BY <1>2, <1>3 DEF Library, DistinctKeys
<1>5. Library(n)
  BY <1>2, <1>4 DEF Library
<1> QED
  BY <1>5 DEF n

\* Editing a definition and syncing: the projects may have been given other
\* schedules before.
LEMMA DefinitionEdited ==
    ASSUME NEW p, Panel(p), NEW d \in Definitions,
           \A u \in Uid : p.rows[u] # None => Fits(p.rows[u])
    PROVE  LET s == Sync([ReplaceDef(p, d) EXCEPT !.index = None])
           IN  /\ Panel(s) /\ Cached(s) /\ s.blend = Blend(s)
               /\ \A u \in Uid :
                     /\ s.rows[u] = None <=> p.rows[u] = None
                     /\ p.rows[u] # None =>
                          Own(p.rows[u], s.rows[u]) /\ FollowsIn(s.lib, s.rows[u])
<1> DEFINE lib == [i \in DOMAIN p.lib |-> IF p.lib[i].key = d.key THEN d ELSE p.lib[i]]
           e == [ReplaceDef(p, d) EXCEPT !.index = None]
           s == Sync(e)
<1>1. Library(lib)
  BY ReplacedDef DEF Panel
<1>2. e = [lib |-> lib, index |-> None, rows |-> p.rows, blend |-> p.blend, mult |-> p.mult]
  <2>1. p = [lib |-> p.lib, index |-> p.index, rows |-> p.rows, blend |-> p.blend, mult |-> p.mult]
    BY DEF Panel
  <2>2. e = [[p EXCEPT !.lib = lib] EXCEPT !.index = None]
    BY DEF ReplaceDef
  <2> HIDE DEF lib, e
  <2> QED
    BY <2>1, <2>2
<1> HIDE DEF lib, e
<1>3. Panel(e) /\ Cached(e) /\ e.rows = p.rows
  <2>1. p.rows \in [Uid -> Row \cup {None}]
    BY DEF Panel
  <2> QED
    BY <1>1, <1>2, <2>1, ListReplaced
<1>4. /\ Panel(s) /\ Looked(s) /\ s.blend = Blend(s)
      /\ \A u \in Uid :
            /\ s.rows[u] = None <=> p.rows[u] = None
            /\ p.rows[u] # None =>
                 Own(p.rows[u], s.rows[u]) /\ FollowsIn(s.lib, s.rows[u])
  BY <1>3, SyncGood
<1> HIDE DEF s
<1>5. Cached(s)
  BY <1>4 DEF Looked, Cached
<1> QED
  BY <1>4, <1>5 DEF s, e

LEMMA EditDefinitionGood ==
    ASSUME NEW p, Found(p), NEW d \in Definitions, EditDefinition(p, d, {})
    PROVE  Done(p)
<1> DEFINE s == Sync([ReplaceDef(p, d) EXCEPT !.index = None])
<1>1. /\ Panel(s) /\ Cached(s) /\ s.blend = Blend(s)
      /\ \A u \in Uid :
            /\ s.rows[u] = None <=> p.rows[u] = None
            /\ p.rows[u] # None => Own(p.rows[u], s.rows[u]) /\ FollowsIn(s.lib, s.rows[u])
  BY DefinitionEdited DEF Found, FollowsIn
<1>2. Leaves(s, "library", {}, {})
  BY DEF EditDefinition
<1> HIDE DEF s
<1>3. Left(p, s, "library", {}, {})
  BY <1>1 DEF Left
<1> QED
  BY <1>2, <1>3, HandlerLeft

LEMMA SetDefinitionGood ==
    ASSUME NEW p, Found(p), NEW key \in KeysOf(p.lib),
           \/ \E t \in DOMAIN Terms : SetDefTerms(p, key, t)
           \/ \E s \in Typed \cup {Unbounded} : SetDefSeed(p, key, s)
           \/ \E k \in ScaleKinds : SetDefScale(p, key, k)
    PROVE  Done(p)
<1> DEFINE d == Definition(p, key)
<1>1. d \in Definitions
  BY FoundDefinition DEF Found
<1> HIDE DEF d
<1>2. ASSUME NEW t \in DOMAIN Terms, SetDefTerms(p, key, t)
      PROVE  Done(p)
  <2>1. [d EXCEPT !.terms = t] \in Definitions
    BY <1>1 DEF Definitions
  <2> QED
    BY <1>2, <2>1, EditDefinitionGood DEF SetDefTerms, d
<1>3. ASSUME NEW s \in Typed \cup {Unbounded}, SetDefSeed(p, key, s)
      PROVE  Done(p)
  <2>1. ASSUME s # Unbounded
        PROVE  [d EXCEPT !.seed = s] \in Definitions
    BY <1>1, <2>1, VolumeAssumption DEF Definitions
  <2>2. key \in Keys
    BY <1>1, FoundDefinition DEF Definitions, Found, d
  <2>3. {key} \in SUBSET Keys
    BY <2>2
  <2> QED
    BY <1>3, <2>1, <2>3, EditDefinitionGood, RaisedEarly DEF SetDefSeed, d
<1>4. ASSUME NEW k \in ScaleKinds, SetDefScale(p, key, k)
      PROVE  Done(p)
  <2>1. [d EXCEPT !.sk = k] \in Definitions
    BY <1>1 DEF Definitions
  <2> QED
    BY <1>4, <2>1, EditDefinitionGood DEF SetDefScale, d
<1> QED
  BY <1>2, <1>3, <1>4

\* The batch switch reaches the projects of the kind, and no others.
LEMMA SetDefBatchGood ==
    ASSUME NEW p, Found(p), NEW key \in KeysOf(p.lib), NEW b \in BOOLEAN, SetDefBatch(p, key, b)
    PROVE  Done(p)
<1> DEFINE kin == {u \in Uids(p) : p.rows[u].kind = key}
           rows == [u \in Uid |-> IF u \in kin THEN [p.rows[u] EXCEPT !.batch = b] ELSE p.rows[u]]
           q == [p EXCEPT !.rows = rows]
           d == [Definition(p, key) EXCEPT !.batch = b]
           s == Sync([ReplaceDef(q, d) EXCEPT !.index = None])
<1>1. Leaves(s, "library", {}, kin)
  BY DEF SetDefBatch
<1>2. d \in Definitions
  <2> DEFINE c == Definition(p, key)
  <2>1. c \in Definitions
    BY FoundDefinition DEF Found
  <2> HIDE DEF c
  <2>2. [c EXCEPT !.batch = b] \in Definitions
    BY <2>1 DEF Definitions
  <2> QED
    BY <2>2 DEF c
<1> HIDE DEF d
<1>3. ASSUME NEW r \in Row
      PROVE  LET x == [r EXCEPT !.batch = b]
             IN  x \in Row /\ x # None /\ (Fits(r) => Fits(x))
  <2>1. [r EXCEPT !.batch = b] \in Row
    BY DEF Row
  <2> QED
    BY <2>1, LibraryAssumption DEF Row, Fits
<1>4. \A u \in Uid : p.rows[u] # None => p.rows[u] \in Row /\ Fits(p.rows[u])
  BY DEF Found, Panel, FollowsIn
<1>5. /\ rows \in [Uid -> Row \cup {None}]
      /\ \A u \in Uid : rows[u] = None <=> p.rows[u] = None
      /\ \A u \in Uid : rows[u] # None => Fits(rows[u])
      /\ \A u \in Uid \ kin : rows[u] = p.rows[u]
  <2>1. \A u \in kin : u \in Uid /\ p.rows[u] # None
    BY DEF Uids
  <2>2. ASSUME NEW u \in Uid
        PROVE  /\ rows[u] \in Row \cup {None}
               /\ rows[u] = None <=> p.rows[u] = None
               /\ rows[u] # None => Fits(rows[u])
               /\ u \notin kin => rows[u] = p.rows[u]
    <3>1. CASE u \in kin
      <4>1. rows[u] = [p.rows[u] EXCEPT !.batch = b]
        BY <3>1
      <4>2. p.rows[u] # None /\ p.rows[u] \in Row /\ Fits(p.rows[u])
        BY <1>4, <2>1, <3>1
      <4> HIDE DEF rows, kin
      <4> QED
        BY <1>3, <3>1, <4>1, <4>2
    <3>2. CASE u \notin kin
      <4>1. rows[u] = p.rows[u] /\ p.rows[u] \in Row \cup {None}
        BY <3>2 DEF Found, Panel
      <4> HIDE DEF rows, kin
      <4> QED
        BY <1>4, <3>2, <4>1
    <3> QED
      BY <3>1, <3>2
  <2>3. rows = [u \in Uid |-> rows[u]]
    OBVIOUS
  <2> HIDE DEF rows, kin
  <2> QED
    BY <2>2, <2>3
<1> HIDE DEF kin, rows
<1>6. q = [lib |-> p.lib, index |-> p.index, rows |-> rows, blend |-> p.blend, mult |-> p.mult]
  BY DEF Found, Panel
<1>7. Panel(q) /\ q.rows = rows
  BY <1>5, <1>6 DEF Found, Panel
<1> HIDE DEF q
<1>8. /\ Panel(s) /\ Cached(s) /\ s.blend = Blend(s)
      /\ \A u \in Uid :
            /\ s.rows[u] = None <=> rows[u] = None
            /\ rows[u] # None => Own(rows[u], s.rows[u]) /\ FollowsIn(s.lib, s.rows[u])
  BY <1>2, <1>5, <1>7, DefinitionEdited
<1> HIDE DEF s
<1>9. Left(p, s, "library", {}, kin)
  BY <1>5, <1>8 DEF Left
<1> QED
  BY <1>1, <1>9, HandlerLeft

-----------------------------------------------------------------------------
(* Files. *)

LEMMA ImportLibraryGood ==
    ASSUME NEW p, Panel(p), NEW l \in Libraries
    PROVE  LET s == WithLibrary(p, l)
           IN  /\ Panel(s) /\ Looked(s) /\ s.blend = Blend(s) /\ s.mult = p.mult
               /\ \A u \in Uid :
                     /\ s.rows[u] = None <=> p.rows[u] = None
                     /\ p.rows[u] # None =>
                          /\ Own(p.rows[u], s.rows[u])
                          /\ Fits(p.rows[u]) => FollowsIn(s.lib, s.rows[u])
<1> DEFINE lib == Keyed([i \in DOMAIN l |-> Widened(l[i])])
           e == [p EXCEPT !.lib = lib, !.index = None]
           s == Sync(e)
<1>1. l \in Seq(Definitions) /\ Len(l) <= MaxDefs
  BY LibraryAssumption
<1>2. Library(lib)
  BY <1>1, WidenedKeyed
<1>3. WithLibrary(p, l) = s
  BY DEF WithLibrary
<1> HIDE DEF lib
<1>4. p = [lib |-> p.lib, index |-> p.index, rows |-> p.rows, blend |-> p.blend, mult |-> p.mult]
  BY DEF Panel
<1>5. e = [p EXCEPT !.lib = lib, !.index = None]
  OBVIOUS
<1> HIDE DEF e
<1>6. e = [lib |-> lib, index |-> None, rows |-> p.rows, blend |-> p.blend, mult |-> p.mult]
  BY <1>4, <1>5
<1>7. p.rows \in [Uid -> Row \cup {None}]
  BY DEF Panel
<1>8. Panel(e) /\ Cached(e) /\ e.rows = p.rows /\ e.mult = p.mult
  BY <1>2, <1>6, <1>7, ListReplaced
<1>9. /\ Panel(s) /\ Looked(s) /\ s.blend = Blend(s) /\ s.mult = p.mult
      /\ \A u \in Uid :
            /\ s.rows[u] = None <=> p.rows[u] = None
            /\ p.rows[u] # None =>
                 /\ Own(p.rows[u], s.rows[u])
                 /\ Fits(p.rows[u]) => FollowsIn(s.lib, s.rows[u])
  BY <1>8, SyncGood
<1> HIDE DEF s
<1> QED
  BY <1>3, <1>9

LEMMA LoadedRow ==
    ASSUME NEW q, Panel(q), Looked(q), NEW item, Saves(item)
    PROVE  Loaded(q, item) \in Row
<1> DEFINE kind == IF item.kind \in q.index \cup KeysOf(PRESETS) THEN item.kind ELSE Custom
<1>1. KeysOf(q.lib) \subseteq Keys /\ KeysOf(PRESETS) \subseteq Keys
  <2>1. ASSUME NEW l \in Seq(Definitions)
        PROVE  KeysOf(l) \subseteq Keys
    <3>1. \A i \in DOMAIN l : l[i] \in Definitions
      OBVIOUS
    <3>2. \A d \in Definitions : d.key \in Keys
      BY DEF Definitions
    <3> QED
      BY <3>1, <3>2 DEF KeysOf
  <2> QED
    BY <2>1, LibraryAssumption DEF Panel, Library
<1>2. kind \in Keys \cup {Custom}
  BY <1>1 DEF Looked
<1>3. Loaded(q, item) = Project(kind, item.terms, item.sk, item.scale, item.locked, item.batch,
                                item.shape)
  BY DEF Loaded
<1> HIDE DEF kind
<1>4. /\ item.terms \in DOMAIN Terms /\ item.sk \in ScaleKinds /\ item.scale \in Nat
      /\ item.locked \in BOOLEAN /\ item.batch \in BOOLEAN /\ item.shape \in Shapes
  BY DEF Saves
<1>5. Project(kind, item.terms, item.sk, item.scale, item.locked, item.batch, item.shape) \in Row
  BY <1>2, <1>4, ProjectRow
<1> QED
  BY <1>3, <1>5

LEMMA ImportSetGood ==
    ASSUME NEW p, Panel(p), Cached(p), NEW f \in ProjectSets \cup {DefaultSet}
    PROVE  LET s == WithSet(p, f)
           IN  Panel(s) /\ Looked(s) /\ s.blend = Blend(s) /\ s.mult = p.mult
<1> DEFINE q == Indexed(p)
           rows == [u \in Uid |-> IF u \in DOMAIN f THEN Loaded(q, f[u]) ELSE None]
           s == Blended([q EXCEPT !.rows = rows])
<1>1. Panel(q) /\ Looked(q) /\ q.mult = p.mult
  BY IndexedGood
<1>2. WithSet(p, f) = s
  BY DEF WithSet
<1> HIDE DEF q
<1>3. \A u \in Uid : u \in DOMAIN f => Loaded(q, f[u]) \in Row
  BY <1>1, LoadedRow, LibraryAssumption
<1>4. rows \in [Uid -> Row \cup {None}]
  BY <1>3
<1> HIDE DEF rows
<1>5. Panel(s) /\ Looked(s) /\ s.blend = Blend(s) /\ s.mult = q.mult
  BY <1>1, <1>4, RowsReplaced
<1> HIDE DEF s
<1> QED
  BY <1>1, <1>2, <1>5

LEMMA FreshGood == Panel(FreshPanel) /\ Cached(FreshPanel)
<1>1. Library(PRESETS)
  BY LibraryAssumption DEF Library, DistinctKeys
<1>2. 1 \in Multipliers
  BY VolumeAssumption
<1> QED
  BY <1>1, <1>2 DEF Panel, Cached, FreshPanel

LEMMA ScenarioGood ==
    ASSUME NEW l \in Libraries \cup {None}, NEW f \in ProjectSets \cup {DefaultSet},
           NEW m \in Multipliers
    PROVE  LET s == Scenario(l, f, m)
           IN  Panel(s) /\ Looked(s) /\ s.blend = Blend(s)
<1> DEFINE q == IF l = None THEN FreshPanel ELSE WithLibrary(FreshPanel, l)
           w == WithSet(q, f)
           s == [w EXCEPT !.mult = m]
<1>1. Panel(q) /\ Cached(q)
  <2>1. CASE l = None
    BY <2>1, FreshGood
  <2>2. CASE l # None
    <3> DEFINE x == WithLibrary(FreshPanel, l)
    <3>1. Panel(x) /\ Looked(x)
      BY <2>2, FreshGood, ImportLibraryGood
    <3> HIDE DEF x
    <3>2. Cached(x)
      BY <3>1 DEF Looked, Cached
    <3> QED
      BY <2>2, <3>1, <3>2 DEF x
  <2> QED
    BY <2>1, <2>2
<1>2. Scenario(l, f, m) = s
  BY DEF Scenario
<1> HIDE DEF q
<1>3. Panel(w) /\ Looked(w) /\ w.blend = Blend(w)
  BY <1>1, ImportSetGood
<1> HIDE DEF w
<1>4. w = [lib |-> w.lib, index |-> w.index, rows |-> w.rows, blend |-> w.blend, mult |-> w.mult]
  BY <1>3 DEF Panel
<1>5. s = [w EXCEPT !.mult = m]
  OBVIOUS
<1> HIDE DEF s
<1>6. s = [lib |-> w.lib, index |-> w.index, rows |-> w.rows, blend |-> w.blend, mult |-> m]
  BY <1>4, <1>5
<1>7. Panel(s) /\ Looked(s) /\ s.rows = w.rows /\ s.blend = w.blend
  BY <1>3, <1>6 DEF Panel, Looked
<1>8. Blend(s) = Blend(w)
  BY <1>7, SameDemand DEF Weighs
<1> QED
  BY <1>2, <1>3, <1>7, <1>8

\* What is loaded replaces every project.
LEMMA ImportsGood ==
    ASSUME NEW p, Found(p),
           \/ \E l \in Libraries : ImportLibrary(p, l)
           \/ \E f \in ProjectSets : ImportSet(p, f)
           \/ ScenarioNext
    PROVE  Done(p)
<1>1. ASSUME NEW l \in Libraries, ImportLibrary(p, l)
      PROVE  Done(p)
  <2> DEFINE s == WithLibrary(p, l)
  <2>1. /\ Panel(s) /\ Looked(s) /\ s.blend = Blend(s)
        /\ \A u \in Uid :
              /\ s.rows[u] = None <=> p.rows[u] = None
              /\ p.rows[u] # None =>
                   /\ Own(p.rows[u], s.rows[u])
                   /\ Fits(p.rows[u]) => FollowsIn(s.lib, s.rows[u])
    BY ImportLibraryGood DEF Found
  <2>2. Leaves(s, "library", {}, {})
    BY <1>1 DEF ImportLibrary
  <2> HIDE DEF s
  <2>3. Left(p, s, "library", {}, {})
    BY <2>1 DEF Left, Found, FollowsIn, Looked, Cached
  <2> QED
    BY <2>2, <2>3, HandlerLeft
<1>2. ASSUME NEW s, NEW op, Panel(s), Looked(s), s.blend = Blend(s), Leaves(s, op, Uid, Uid)
      PROVE  Done(p)
  <2>1. Left(p, s, op, Uid, Uid)
    BY <1>2 DEF Left, Looked, Cached
  <2> QED
    BY <1>2, <2>1, HandlerLeft
<1>3. ASSUME NEW f \in ProjectSets, ImportSet(p, f)
      PROVE  Done(p)
  <2>1. Cached(p) /\ Panel(p)
    BY DEF Found, Looked, Cached
  <2> DEFINE s == WithSet(p, f)
  <2>2. Panel(s) /\ Looked(s) /\ s.blend = Blend(s)
    BY <2>1, ImportSetGood
  <2>3. Leaves(s, "set", Uid, Uid)
    BY <1>3 DEF ImportSet
  <2> HIDE DEF s
  <2> QED
    BY <1>2, <2>2, <2>3
<1>4. ASSUME NEW l \in Libraries \cup {None}, NEW f \in ProjectSets, NEW m \in Multipliers,
             ImportScenario(l, f, m)
      PROVE  Done(p)
  <2> DEFINE s == Scenario(l, f, m)
  <2>1. Panel(s) /\ Looked(s) /\ s.blend = Blend(s)
    BY ScenarioGood
  <2>2. Leaves(s, "import", Uid, Uid)
    BY <1>4 DEF ImportScenario
  <2> HIDE DEF s
  <2> QED
    BY <1>2, <2>1, <2>2
<1> QED
  BY <1>1, <1>3, <1>4 DEF ScenarioNext

\* It does so too in a panel that cannot be read.
LEMMA ScenarioInstalled ==
    ASSUME EndlessOK, ScenarioNext
    PROVE  UseCaseInv' /\ last'.when = Uid
<1>1. PICK l \in Libraries \cup {None}, f \in ProjectSets, m \in Multipliers :
         ImportScenario(l, f, m)
  BY DEF ScenarioNext
<1> DEFINE s == Scenario(l, f, m)
<1>2. Panel(s) /\ Looked(s) /\ s.blend = Blend(s)
  BY ScenarioGood
<1>3. /\ panel' = s /\ last' = [op |-> "import", rows |-> Uid, when |-> Uid]
      /\ endless' = [rows |-> {}, defs |-> {}]
  BY <1>1 DEF ImportScenario, Leaves, Leave
<1> HIDE DEF s
<1>4. EndlessOK'
  BY <1>3 DEF EndlessOK
<1>5. Cached(s)
  BY <1>2 DEF Looked, Cached
<1> QED
  BY <1>2, <1>3, <1>4, <1>5 DEF UseCaseInv, BlendCurrent

-----------------------------------------------------------------------------
(* The invariant. *)

LEMMA RequestGood ==
    ASSUME NEW p, Found(p), Request(p)
    PROVE  Done(p) \/ Stopped(p)
<1>1. CASE Read(p)
  BY <1>1, ReadLeft, HandlerLeft DEF Read
<1>2. ASSUME NEW u \in Uids(p), RowNext(p, u)
      PROVE  Done(p) \/ Stopped(p)
  BY <1>2, RemoveProjectGood, SetKindGood, SetTermsGood, SetTokensGood, SetScaleValueGood,
     SetBatchGood, SetScaleLockedGood, SetDayShapeGood DEF RowNext
<1>3. ASSUME NEW m \in Multipliers, SetCompany(p, m)
      PROVE  Done(p)
  BY <1>3, CompanyLeft, HandlerLeft DEF SetCompany
<1>4. ASSUME NEW key \in KeysOf(p.lib), LibraryNext(p, key)
      PROVE  Done(p)
  BY <1>4, RemoveDefinitionGood, SetDefinitionGood, SetDefBatchGood DEF LibraryNext
<1>5. ASSUME NEW d \in Drawn, SetDist(p, d)
      PROVE  Done(p)
  BY <1>5, DrawnLeft, HandlerLeft DEF SetDist
<1> QED
  BY <1>1, <1>2, <1>3, <1>4, <1>5, AddProjectGood, AddDefinitionGood, ImportsGood DEF Request

LEMMA FoundByRead ==
    ASSUME UseCaseInv, endless.rows = {}
    PROVE  /\ Found(Normal(panel))
           /\ \A u \in Uid :
                 /\ Normal(panel).rows[u] = None <=> panel.rows[u] = None
                 /\ panel.rows[u] # None =>
                      /\ Own(panel.rows[u], Normal(panel).rows[u])
                      /\ Counted(Normal(panel).rows[u])
                      /\ \/ Normal(panel).rows[u].kind = Custom
                         \/ Finds(Normal(panel), Normal(panel).rows[u].kind)
<1> DEFINE n == Normal(panel)
<1>1. /\ Panel(n) /\ Looked(n) /\ n.mult = panel.mult /\ n.blend = Blend(n)
      /\ \A u \in Uid :
            /\ n.rows[u] = None <=> panel.rows[u] = None
            /\ panel.rows[u] # None =>
                 /\ Own(panel.rows[u], n.rows[u])
                 /\ FollowsIn(n.lib, n.rows[u]) /\ Counted(n.rows[u])
                 /\ n.rows[u].kind = Custom \/ Finds(n, n.rows[u].kind)
  BY NormalGood DEF UseCaseInv
<1> HIDE DEF n
<1>2. Found(n)
  BY <1>1 DEF Found, UseCaseInv
<1> QED
  BY <1>1, <1>2 DEF n

SchedulesKept ==
    \A u \in Uids(panel) \cap Uids(panel') :
        \/ u \in last'.when
        \/ /\ panel'.rows[u].batch = panel.rows[u].batch
           /\ panel'.rows[u].shape = panel.rows[u].shape

LEMMA UseCaseStep ==
    ASSUME UseCaseInv, [UseCaseNext]_useCaseVars
    PROVE  UseCaseInv' /\ [SchedulesKept]_useCaseVars
<1>1. CASE UNCHANGED useCaseVars
  <2>1. panel' = panel /\ last' = last /\ endless' = endless
    BY <1>1 DEF useCaseVars
  <2> QED
    BY <1>1, <2>1 DEF UseCaseInv, BlendCurrent, EndlessOK
<1>2. CASE endless.rows = {} /\ Request(Normal(panel))
  <2> DEFINE p == Normal(panel)
  <2>1. Request(p)
    BY <1>2
  <2>2. /\ Found(p)
        /\ \A u \in Uid :
              /\ p.rows[u] = None <=> panel.rows[u] = None
              /\ panel.rows[u] # None => Own(panel.rows[u], p.rows[u])
    BY <1>2, FoundByRead
  <2> HIDE DEF p
  <2>3. CASE Done(p)
    <3>1. UseCaseInv'
      BY <2>3 DEF Done, Left, UseCaseInv, BlendCurrent
    <3>2. SchedulesKept
      BY <2>2, <2>3 DEF Done, Left, SchedulesKept, Own, Uids
    <3> QED
      BY <3>1, <3>2
  <2>4. CASE Stopped(p)
    <3>1. UseCaseInv'
      BY <2>2, <2>4 DEF Stopped, Found, UseCaseInv, BlendCurrent
    <3>2. SchedulesKept
      BY <2>2, <2>4 DEF Stopped, SchedulesKept, Own, Uids
    <3> QED
      BY <3>1, <3>2
  <2> QED
    BY <2>1, <2>2, <2>3, <2>4, RequestGood
<1>3. CASE endless.rows # {} /\ ReadRaises
  <2>1. /\ panel' = panel /\ last' = [op |-> "raise", rows |-> endless.rows, when |-> {}]
        /\ endless' = [rows |-> endless.rows, defs |-> endless.defs \cup {}]
    BY <1>3 DEF ReadRaises, Raises, Leave
  <2>2. EndlessOK'
    BY <2>1 DEF UseCaseInv, EndlessOK
  <2>3. \A u \in Uid \ endless'.rows : panel.rows[u] # None => FollowsIn(panel.lib, panel.rows[u])
    BY <1>3, <2>1 DEF UseCaseInv
  <2> QED
    BY <1>3, <2>1, <2>2, <2>3 DEF UseCaseInv, BlendCurrent, SchedulesKept
<1>4. CASE endless.rows # {} /\ ScenarioNext
  BY <1>4, ScenarioInstalled DEF UseCaseInv, SchedulesKept, Uids
<1> QED
  BY <1>1, <1>2, <1>3, <1>4 DEF UseCaseNext

LEMMA UseCaseStart == UseCaseInit => UseCaseInv
<1> SUFFICES ASSUME UseCaseInit PROVE UseCaseInv
  OBVIOUS
<1> DEFINE s == Scenario(None, DefaultSet, 1)
<1>1. Panel(s) /\ Looked(s) /\ s.blend = Blend(s)
  BY ScenarioGood, VolumeAssumption
<1>2. panel = s /\ last.rows = Uids(panel) /\ EndlessOK /\ endless.rows = {}
  BY DEF UseCaseInit, EndlessOK
<1> HIDE DEF s
<1> QED
  BY <1>1, <1>2 DEF UseCaseInv, Looked, Cached, BlendCurrent, Uids

\* The list and its index, the projects and the blend of a panel, together: a
\* blend or a project is only current because the index it went through is.
THEOREM UseCaseInvariantHolds == UseCaseSpec => []UseCaseInv
<1>1. UseCaseInv /\ [UseCaseNext]_useCaseVars => UseCaseInv'
  BY UseCaseStep
<1> QED
  BY <1>1, UseCaseStart, PTL DEF UseCaseSpec

\* Whatever is added, renamed or imported, no two definitions of a library ever
\* share a key, and everything keeps its type.
THEOREM UseCasesTyped == UseCaseSpec => []UseCaseTypeOK
<1>1. UseCaseInv => UseCaseTypeOK
  <2> SUFFICES ASSUME UseCaseInv PROVE UseCaseTypeOK
    OBVIOUS
  <2>1. Cardinality(KeysOf(panel.lib)) = Len(panel.lib)
    BY AllKeysCounted DEF UseCaseInv, Panel, Library
  <2> QED
    BY <2>1 DEF UseCaseInv, Panel, Library, UseCaseTypeOK, EndlessOK
<1> QED
  BY <1>1, UseCaseInvariantHolds, PTL

\* The cached index is compared with the identity of the list only; it is
\* nevertheless never stale, whatever is appended, edited or replaced.
THEOREM IndexNeverStale == UseCaseSpec => []LookupsCurrent
<1>1. UseCaseInv => LookupsCurrent
  BY NormalLibraryGood DEF UseCaseInv, Panel, Cached, LookupsCurrent
<1> QED
  BY <1>1, UseCaseInvariantHolds, PTL

\* Every project the last handler was not asked to edit follows its definition,
\* unless its volume is infinite.
THEOREM ProjectsAlwaysFollow == UseCaseSpec => []ProjectsFollow
<1>1. UseCaseInv => ProjectsFollow
  BY DEF UseCaseInv, ProjectsFollow, Follows, FollowsIn, Fits, Uids
<1> QED
  BY <1>1, UseCaseInvariantHolds, PTL

\* As long as a panel can be read, its workload shape is that of the present
\* demand after every handler but the lock toggle and a drawn distribution, and
\* its prefix reuse that of the present demand after the latter too.
THEOREM BlendNeverStale == UseCaseSpec => []BlendCurrent
<1>1. UseCaseInv => BlendCurrent
  BY DEF UseCaseInv
<1> QED
  BY <1>1, UseCaseInvariantHolds, PTL

\* Saving the projects and loading them again in the same panel changes nothing.
THEOREM SavedSetsReload == UseCaseSpec => []SavedSetReloads
<1>1. UseCaseInv => SavedSetReloads
  <2> SUFFICES ASSUME UseCaseInv, endless.rows = {}, NEW u \in Uids(Normal(panel))
               PROVE  LET q == Normal(panel)
                      IN  NormalProject(q, Loaded(q, Saved(q.rows[u]))) = q.rows[u]
    BY DEF SavedSetReloads
  <2> DEFINE q == Normal(panel)
             r == q.rows[u]
             l == Loaded(q, Saved(r))
  <2>1. /\ u \in Uid /\ r # None /\ Found(q)
        /\ Counted(r) /\ (r.kind = Custom \/ Finds(q, r.kind))
    BY FoundByRead DEF Uids
  <2>2. r \in Row /\ FollowsIn(q.lib, r)
    BY <2>1 DEF Found, Panel
  <2>3. l = r
    <3>1. l = Project(r.kind, r.terms, r.sk, r.scale, r.locked, r.batch, r.shape)
      BY <2>1 DEF Loaded, Saved, Finds
    <3> HIDE DEF l, r
    <3>2. l = [ kind |-> r.kind, terms |-> r.terms, sk |-> r.sk, scale |-> r.scale,
                tokens |-> r.tokens, locked |-> r.locked, batch |-> r.batch, shape |-> r.shape ]
      BY <2>2, <3>1 DEF Project, FollowsIn, Fits
    <3> QED
      BY <2>2, <3>2 DEF Row
  <2> HIDE DEF l, r, q
  <2>4. InferKind(q, r) = r.kind
    BY <2>1 DEF InferKind
  <2> DEFINE k == [r EXCEPT !.kind = InferKind(q, r)]
             a == IF k.kind = Custom THEN [k EXCEPT !.tokens = Tokens(k.scale, k.sk)]
                  ELSE Apply(k, Definition(q, k.kind))
             t == Bounded(a.tokens)
  <2>5. k = r
    BY <2>2, <2>4 DEF Row
  <2>6. NormalProject(q, r) = [a EXCEPT !.tokens = t, !.scale = ScaleOf(t, a.sk)]
    BY DEF NormalProject
  <2> HIDE DEF k
  <2>7. a = r
    <3>1. CASE r.kind = Custom
      BY <2>2, <2>5, <3>1 DEF Row, FollowsIn, Fits
    <3>2. CASE r.kind # Custom
      <4> DEFINE d == Definition(q, r.kind)
      <4>1. r.kind \in KeysOf(q.lib) /\ Panel(q)
        BY <2>1, <3>2 DEF Found, Looked, Finds
      <4>2. /\ d \in Definitions /\ d.key = r.kind
            /\ \E i \in DOMAIN q.lib : q.lib[i] = d
        BY <4>1, FoundDefinition
      <4> HIDE DEF d
      <4>3. r.terms = d.terms /\ r.sk = d.sk
        BY <2>2, <3>2, <4>1, <4>2 DEF FollowsIn, Panel, Library, DistinctKeys
      <4>4. Apply(r, d) = Project(d.key, d.terms, d.sk, r.scale, r.locked, r.batch, r.shape)
        BY <4>2 DEF Apply
      <4>5. Apply(r, d) = [ kind |-> r.kind, terms |-> r.terms, sk |-> r.sk, scale |-> r.scale,
                            tokens |-> r.tokens, locked |-> r.locked, batch |-> r.batch,
                            shape |-> r.shape ]
        BY <2>2, <4>2, <4>3, <4>4 DEF Project, FollowsIn, Fits
      <4>6. Apply(r, d) = r
        BY <2>2, <4>5 DEF Row
      <4> QED
        BY <2>5, <3>2, <4>6 DEF d
    <3> QED
      BY <3>1, <3>2
  <2> HIDE DEF a
  <2>8. t = r.tokens /\ ScaleOf(t, a.sk) = r.scale
    BY <2>1, <2>7 DEF Counted
  <2>9. [r EXCEPT !.tokens = r.tokens, !.scale = r.scale] = r
    BY <2>2 DEF Row
  <2>10. NormalProject(q, r) = r
    BY <2>6, <2>7, <2>8, <2>9
  <2> QED
    BY <2>3, <2>10 DEF l, r, q
<1> QED
  BY <1>1, UseCaseInvariantHolds, PTL

\* Nothing but its own edits, its kind and the batch switch of its definition
\* moves a project's schedule.
THEOREM SchedulesStay == UseCaseSpec => ScheduleIsItsOwn
<1> DEFINE Step ==
        \A u \in Uids(panel) \cap Uids(panel') :
          \/ u \in last'.when
          \/ /\ panel'.rows[u].batch = panel.rows[u].batch
             /\ panel'.rows[u].shape = panel.rows[u].shape
<1>1. UseCaseInv /\ [UseCaseNext]_useCaseVars => [Step]_useCaseVars
  BY UseCaseStep DEF SchedulesKept
<1> QED
  BY <1>1, UseCaseInvariantHolds, PTL DEF UseCaseSpec, ScheduleIsItsOwn
=============================================================================
