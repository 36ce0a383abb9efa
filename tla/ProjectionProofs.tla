-------------------------- MODULE ProjectionProofs --------------------------
(***************************************************************************)
(* The properties of the projection for every fleet, portfolio, catalog and *)
(* policy that the assumptions of Projection allow.                         *)
(*                                                                         *)
(* Booked says what one use case does to the supply: the deployments it     *)
(* wants give it hours and are charged for them, those it does not want     *)
(* stay as they were, and what it is still short of met them full.  It      *)
(* holds of Book by a recursion over the candidates (BookingRuns) whose     *)
(* steps keep Met.  The invariant ProjInv says what the routed use cases    *)
(* have done to the supply together, and that those that wait come after    *)
(* them; Turn is one turn of the loop seen from there.                      *)
(***************************************************************************)
EXTENDS Projection, Arithmetic, FunctionTheorems

-----------------------------------------------------------------------------
(* Sorting. *)

StrictOrder(S, R) ==
    /\ \A x \in S : <<x, x>> \notin R
    /\ \A x, y, z \in S : <<x, y>> \in R /\ <<y, z>> \in R => <<x, z>> \in R
    /\ \A x, y \in S : x # y => <<x, y>> \in R \/ <<y, x>> \in R

Sorted(S, R) ==
    {q \in [1..Cardinality(S) -> S] :
       \A i, j \in 1..Cardinality(S) : i < j => <<q[i], q[j]>> \in R}

\* A finite nonempty set has a last member.
LEMMA LastMember ==
    ASSUME NEW S, IsFiniteSet(S), NEW R, StrictOrder(S, R), S # {}
    PROVE  \E x \in S : \A y \in S \ {x} : <<y, x>> \in R
<1> DEFINE P == {T \in SUBSET S : T # {} => \E x \in T : \A y \in T \ {x} : <<y, x>> \in R}
<1>1. {} \in P
  OBVIOUS
<1>2. ASSUME NEW T \in SUBSET S, T # {}, \A x \in T : T \ {x} \in P
      PROVE  T \in P
  <2>1. PICK t \in T : TRUE
    BY <1>2
  <2>2. CASE T = {t}
    BY <2>2
  <2>3. CASE T # {t}
    <3>1. PICK x \in T \ {t} : \A y \in T \ {t} : y # x => <<y, x>> \in R
      BY <1>2, <2>1, <2>3
    <3>2. CASE <<t, x>> \in R
      BY <3>1, <3>2
    <3>3. CASE <<x, t>> \in R
      <4>1. \A y \in T \ {t} : <<y, t>> \in R
        BY <2>1, <3>1, <3>3 DEF StrictOrder
      <4> QED
        BY <2>1, <4>1
    <3> QED
      BY <2>1, <3>1, <3>2, <3>3 DEF StrictOrder
  <2> QED
    BY <2>2, <2>3
<1> HIDE DEF P
<1>3. SUBSET S \subseteq P
  BY <1>1, <1>2, EverySubset
<1> QED
  BY <1>3 DEF P

\* A finite set can be sorted.
LEMMA SortedExists ==
    ASSUME NEW S, IsFiniteSet(S), NEW R, StrictOrder(S, R)
    PROVE  Sorted(S, R) # {}
<1> DEFINE P == {T \in SUBSET S : Sorted(T, R) # {}}
<1>1. {} \in P
  <2> DEFINE q == [i \in 1..0 |-> 0]
  <2>1. q \in Sorted({}, R)
    BY FS_EmptySet DEF Sorted
  <2> QED
    BY <2>1
<1>2. ASSUME NEW T \in SUBSET S, T # {}, \A x \in T : T \ {x} \in P
      PROVE  T \in P
  <2>1. IsFiniteSet(T) /\ Cardinality(T) \in Nat /\ Cardinality(T) # 0
    BY <1>2, FS_Subset, FS_CardinalityType, FS_EmptySet
  <2>2. PICK x \in T : \A y \in T \ {x} : <<y, x>> \in R
    <3>1. StrictOrder(T, R)
      BY DEF StrictOrder
    <3> QED
      BY <1>2, <2>1, <3>1, LastMember
  <2>3. Cardinality(T \ {x}) = Cardinality(T) - 1
    BY <2>1, FS_RemoveElement
  <2>4. PICK q : q \in Sorted(T \ {x}, R)
    BY <1>2
  <2>5. /\ q \in [1..(Cardinality(T) - 1) -> T \ {x}]
        /\ \A i, j \in 1..(Cardinality(T) - 1) : i < j => <<q[i], q[j]>> \in R
    BY <2>3, <2>4 DEF Sorted
  <2> DEFINE n == Cardinality(T)
             r == [i \in 1..n |-> IF i = n THEN x ELSE q[i]]
  <2> HIDE DEF n
  <2>6. r \in [1..n -> T]
    BY <2>1, <2>5 DEF n
  <2>7. ASSUME NEW i \in 1..n, NEW j \in 1..n, i < j
        PROVE  <<r[i], r[j]>> \in R
    <3>1. n \in Nat /\ i \in 1..(n - 1)
      BY <2>1, <2>7 DEF n
    <3>2. r[i] = q[i] /\ q[i] \in T \ {x}
      BY <2>5, <3>1 DEF n
    <3>3. CASE j = n
      BY <2>2, <3>2, <3>3
    <3>4. CASE j # n
      BY <2>5, <2>7, <3>1, <3>2, <3>4 DEF n
    <3> QED
      BY <3>3, <3>4
  <2>8. r \in Sorted(T, R)
    BY <2>6, <2>7 DEF Sorted, n
  <2> QED
    BY <2>8
<1> HIDE DEF P
<1>3. SUBSET S \subseteq P
  BY <1>1, <1>2, EverySubset
<1> QED
  BY <1>3 DEF P

\* A sorted sequence has every member once.
LEMMA SortedCovers ==
    ASSUME NEW S, IsFiniteSet(S), NEW R, StrictOrder(S, R), NEW q \in Sorted(S, R)
    PROVE  /\ Cardinality(S) \in Nat
           /\ \A i, j \in 1..Cardinality(S) : q[i] = q[j] => i = j
           /\ \A x \in S : \E i \in 1..Cardinality(S) : q[i] = x
<1> DEFINE n == Cardinality(S)
<1>1. n \in Nat
  BY FS_CardinalityType
<1> HIDE DEF n
<1>2. q \in [1..n -> S] /\ \A i, j \in 1..n : i < j => <<q[i], q[j]>> \in R
  BY DEF Sorted, n
<1>3. \A i, j \in 1..n : q[i] = q[j] => i = j
  <2> SUFFICES ASSUME NEW i \in 1..n, NEW j \in 1..n, q[i] = q[j], i < j
               PROVE  FALSE
    OBVIOUS
  <2> QED
    BY <1>2 DEF StrictOrder
<1>4. q \in Injection(1..n, S)
  BY <1>2, <1>3 DEF Injection, IsInjective
<1>5. IsFiniteSet(1..n) /\ Cardinality(1..n) = n
  BY <1>1, FS_Interval
<1>6. q \in Surjection(1..n, S)
  BY <1>4, <1>5, FS_Injection DEF n
<1> QED
  BY <1>1, <1>3, <1>6 DEF Surjection, n

-----------------------------------------------------------------------------
(* The order of the use cases. *)

LEMMA KeyIs ==
    ASSUME FleetAssumption, DemandAssumption, NEW p \in Projects
    PROVE  /\ Key(p) \in [1..5 -> Int]
           /\ Key(p)[1] = IF panel.batch[p] THEN 1 ELSE 0
           /\ Key(p)[2] = -Demand[p].wtp
           /\ Key(p)[5] = p
<1>1. Cardinality(Demand[p].requires) \in Int
  <2>1. IsFiniteSet(Demand[p].requires)
    BY DEF DemandAssumption
  <2> HIDE DemandAssumption
  <2>2. Cardinality(Demand[p].requires) \in Nat
    BY <2>1, FS_CardinalityType
  <2> QED
    BY <2>2
<1>2. RequiredQuality(Demand[p]) \in Int
  BY DEF DemandAssumption, RequiredQuality
<1>3. Demand[p].wtp \in Nat /\ p \in Int
  BY DEF DemandAssumption, FleetAssumption
<1> DEFINE a == IF panel.batch[p] THEN 1 ELSE 0
           b == -Demand[p].wtp
           c == -RequiredQuality(Demand[p])
           d == -Cardinality(Demand[p].requires)
<1>4. a \in Int /\ b \in Int /\ c \in Int /\ d \in Int /\ p \in Int
  BY <1>1, <1>2, <1>3
<1>5. Key(p) = <<a, b, c, d, p>>
  BY DEF Key
<1> HIDE DEF a, b, c, d
<1>6. /\ Key(p) \in [1..5 -> Int]
      /\ Key(p)[1] = a /\ Key(p)[2] = b /\ Key(p)[5] = p
  BY <1>4, <1>5
<1> QED
  BY <1>6 DEF a, b

\* One tuple of numbers comes before another at the first place where they differ.
Earlier(k, l) == \E i \in 1..5 : k[i] < l[i] /\ \A j \in 1..(i - 1) : k[j] = l[j]

LEMMA EarlierOrders ==
    ASSUME NEW k \in [1..5 -> Int], NEW l \in [1..5 -> Int], NEW m \in [1..5 -> Int]
    PROVE  /\ ~Earlier(k, k)
           /\ Earlier(k, l) /\ Earlier(l, m) => Earlier(k, m)
           /\ k[5] # l[5] => Earlier(k, l) \/ Earlier(l, k)
<1>1. ~Earlier(k, k)
  BY DEF Earlier
<1>2. ASSUME Earlier(k, l), Earlier(l, m)
      PROVE  Earlier(k, m)
  <2>1. PICK a \in 1..5 : k[a] < l[a] /\ \A j \in 1..(a - 1) : k[j] = l[j]
    BY <1>2 DEF Earlier
  <2>2. PICK b \in 1..5 : l[b] < m[b] /\ \A j \in 1..(b - 1) : l[j] = m[j]
    BY <1>2 DEF Earlier
  <2>3. PICK i \in 1..5 : i = IF a < b THEN a ELSE b
    OBVIOUS
  <2>4. k[i] < m[i]
    BY <2>1, <2>2, <2>3
  <2>5. \A j \in 1..(i - 1) : k[j] = m[j]
    BY <2>1, <2>2, <2>3
  <2> QED
    BY <2>4, <2>5 DEF Earlier
<1>3. ASSUME k[5] # l[5]
      PROVE  Earlier(k, l) \/ Earlier(l, k)
  <2> DEFINE T == {j \in 1..5 : k[j] # l[j]}
  <2>1. PICK i \in T : \A j \in T : i <= j
    <3>1. 5 \in T /\ T \in SUBSET Nat
      BY <1>3
    <3> QED
      BY <3>1, LeastNumber
  <2>2. \A j \in 1..(i - 1) : k[j] = l[j]
    BY <2>1
  <2>3. k[i] < l[i] \/ l[i] < k[i]
    BY <2>1
  <2> QED
    BY <2>1, <2>2, <2>3 DEF Earlier
<1> QED
  BY <1>1, <1>2, <1>3

\* The pairs of use cases of which one comes before the other.
InTurn == {x \in Projects \X Projects : Precedes(x[1], x[2])}

LEMMA PrecedesOrders ==
    ASSUME FleetAssumption, DemandAssumption
    PROVE  StrictOrder(Projects, InTurn)
<1>1. \A p, q \in Projects : <<p, q>> \in InTurn <=> Earlier(Key(p), Key(q))
  BY DEF InTurn, Precedes, Earlier
<1>2. \A p \in Projects : Key(p) \in [1..5 -> Int] /\ Key(p)[5] = p
  BY KeyIs
<1>3. \A x \in Projects : ~Earlier(Key(x), Key(x))
  BY <1>2, EarlierOrders
<1>4. \A x, y, z \in Projects : Earlier(Key(x), Key(y)) /\ Earlier(Key(y), Key(z)) => Earlier(Key(x), Key(z))
  BY <1>2, EarlierOrders
<1>5. \A x, y \in Projects : x # y => Earlier(Key(x), Key(y)) \/ Earlier(Key(y), Key(x))
  <2> SUFFICES ASSUME NEW x \in Projects, NEW y \in Projects, x # y
               PROVE  Earlier(Key(x), Key(y)) \/ Earlier(Key(y), Key(x))
    OBVIOUS
  <2>1. Key(x) \in [1..5 -> Int] /\ Key(y) \in [1..5 -> Int] /\ Key(x)[5] # Key(y)[5]
    BY <1>2
  <2> QED
    BY <2>1, EarlierOrders
<1> QED
  BY <1>1, <1>3, <1>4, <1>5 DEF StrictOrder

LEMMA OutranksPrecedes ==
    ASSUME FleetAssumption, DemandAssumption, NEW p \in Projects, NEW q \in Projects, Outranks(p, q),
           panel.batch \in [Projects -> BOOLEAN]
    PROVE  Precedes(p, q)
<1>1. /\ Key(p)[1] = IF panel.batch[p] THEN 1 ELSE 0
      /\ Key(q)[1] = IF panel.batch[q] THEN 1 ELSE 0
      /\ Key(p)[2] = -Demand[p].wtp /\ Key(q)[2] = -Demand[q].wtp
  BY KeyIs
<1>2. Demand[p].wtp \in Nat /\ Demand[q].wtp \in Nat
  BY DEF DemandAssumption
<1>3. CASE ~panel.batch[p] /\ panel.batch[q]
  <2>1. Key(p)[1] < Key(q)[1] /\ \A j \in 1..(1 - 1) : Key(p)[j] = Key(q)[j]
    BY <1>1, <1>3
  <2> QED
    BY <2>1 DEF Precedes
<1>4. CASE panel.batch[p] = panel.batch[q] /\ Demand[p].wtp > Demand[q].wtp
  <2>1. Key(p)[1] = Key(q)[1] /\ Key(p)[2] < Key(q)[2]
    BY <1>1, <1>2, <1>4
  <2>2. \A j \in 1..(2 - 1) : Key(p)[j] = Key(q)[j]
    BY <2>1
  <2> QED
    BY <2>1, <2>2 DEF Precedes
<1> QED
  BY <1>3, <1>4 DEF Outranks

\* What ClassifyDemand leaves: every use case once, in order.
LEMMA QueueSorted ==
    ASSUME FleetAssumption, DemandAssumption
    PROVE  /\ Cardinality(Projects) \in Nat
           /\ Ranked(Projects, Precedes) \in [1..Cardinality(Projects) -> Projects]
           /\ \A i, j \in 1..Cardinality(Projects) : i < j =>
                Precedes(Ranked(Projects, Precedes)[i], Ranked(Projects, Precedes)[j])
           /\ \A p \in Projects : \E i \in 1..Cardinality(Projects) : Ranked(Projects, Precedes)[i] = p
<1> DEFINE q == Ranked(Projects, Precedes)
           n == Cardinality(Projects)
<1>1. IsFiniteSet(Projects) /\ StrictOrder(Projects, InTurn)
  BY PrecedesOrders DEF FleetAssumption
<1>2. \E r \in [1..n -> Projects] : \A i, j \in 1..n : i < j => Precedes(r[i], r[j])
  <2>1. PICK r \in Sorted(Projects, InTurn) : TRUE
    BY <1>1, SortedExists
  <2>2. r \in [1..n -> Projects] /\ \A i, j \in 1..n : i < j => Precedes(r[i], r[j])
    BY <2>1 DEF Sorted, InTurn
  <2> QED
    BY <2>2
<1>3. q \in [1..n -> Projects] /\ \A i, j \in 1..n : i < j => Precedes(q[i], q[j])
  BY <1>2 DEF Ranked
<1> HIDE DEF q
<1>4. q \in Sorted(Projects, InTurn)
  BY <1>3 DEF Sorted, InTurn
<1>5. n \in Nat /\ \A p \in Projects : \E i \in 1..n : q[i] = p
  BY <1>1, <1>4, SortedCovers
<1> QED
  BY <1>3, <1>5 DEF q

-----------------------------------------------------------------------------
(* Amounts, prices and shares.                                              *)

LEMMA SuccessIs ==
    ASSUME NEW q, NEW d
    PROVE  SuccessRate(q, d) \in Quantity /\ Positive(SuccessRate(q, d))
<1>1. Whole(1) \in Quantity /\ Positive(Whole(1))
  BY WholeQuantity
<1>2. Frac(1, 2) \in Quantity /\ Positive(Frac(1, 2))
  BY PartIs
<1>3. Frac(1, 100) \in Quantity /\ Positive(Frac(1, 100))
  BY PartIs
<1> QED
  BY <1>1, <1>2, <1>3 DEF SuccessRate

LEMMA TokenMultIs ==
    ASSUME NEW pn, NEW s, NEW p
    PROVE  TokenMult(pn, s, p) \in Quantity /\ Positive(TokenMult(pn, s, p))
<1>1. SuccessOn(pn, s, p) \in Fraction /\ Positive(SuccessOn(pn, s, p))
  BY SuccessIs, WholeQuantity DEF SuccessOn, Quantity
<1> DEFINE w == Whole(IF ModelOf(pn, s).efficient THEN 1 ELSE 2)
           d == SuccessOn(pn, s, p)
<1>2. w \in Fraction /\ Positive(w)
  BY WholeQuantity DEF Quantity
<1>3. TokenMult(pn, s, p) = Over(w, d)
  BY DEF TokenMult
<1> HIDE DEF w, d
<1>4. Over(w, d) \in Fraction /\ Positive(Over(w, d))
  BY <1>1, <1>2, OverIs, Signs DEF d
<1> QED
  BY <1>3, <1>4, PositiveIs DEF Quantity

LEMMA SuppliedIs ==
    ASSUME FleetAssumption, NEW pn
    PROVE  Supplied(pn) \in SUBSET Slots /\ IsFiniteSet(Supplied(pn))
<1>1. Supplied(pn) \in SUBSET Slots /\ IsFiniteSet(Slots)
  BY DEF Supplied, FleetAssumption
<1> QED
  BY <1>1, FS_Subset

LEMMA CandidateIs ==
    ASSUME NEW pn, NEW p, NEW s \in Candidates(pn, p)
    PROVE  s \in Slots /\ s \in Supplied(pn) /\ Runnable(pn, s) /\ Capacity(pn, s, p) > 0
BY DEF Candidates, SloSlots, FloorSlots, CapableSlots, KindSlots, Supplied

LEMMA RateIs ==
    ASSUME FleetAssumption, DemandAssumption, NEW pn, PanelOK(pn),
           NEW s \in Slots, NEW p \in Projects, Capacity(pn, s, p) > 0
    PROVE  /\ Whole(Capacity(pn, s, p)) \in Fraction /\ Positive(Whole(Capacity(pn, s, p)))
           /\ PerFrac(pn, s, p) \in Fraction /\ Positive(PerFrac(pn, s, p))
<1>1. Capacity(pn, s, p) \in Nat
  <2>1. pn.model[s] \in DOMAIN Models /\ pn.count[s] \in 1..MaxGpus
    BY DEF PanelOK
  <2>2. LengthOf(p) \in DOMAIN Lengths
    BY DEF LengthOf, FleetAssumption, DemandAssumption
  <2>3. Throughput[<<pn.model[s], pn.count[s], LengthOf(p)>>] \in Nat
    BY <2>1, <2>2 DEF FleetAssumption
  <2> QED
    BY <2>3 DEF Capacity
<1> DEFINE w == Whole(Capacity(pn, s, p))
           d == TokenMult(pn, s, p)
<1>2. w \in Fraction /\ Positive(w)
  BY <1>1, WholeQuantity DEF Quantity
<1>3. d \in Fraction /\ Positive(d)
  BY TokenMultIs DEF Quantity
<1>4. PerFrac(pn, s, p) = Over(w, d)
  BY DEF PerFrac
<1> HIDE DEF w, d
<1>5. Over(w, d) \in Fraction /\ Positive(Over(w, d))
  BY <1>2, <1>3, OverIs, Signs
<1> QED
  BY <1>2, <1>4, <1>5 DEF w

LEMMA ShareIs ==
    ASSUME FleetAssumption, PanelOK(panel), NEW p \in Projects, NEW h \in Hours
    PROVE  HourShare(p, h) \in Quantity
<1> DEFINE w == Shapes[panel.shape[p]]
           f == [k \in Hours |-> Whole(w[k])]
<1>1. (\A k \in Hours : w[k] \in Nat) /\ \E k \in Hours : w[k] > 0
  BY DEF FleetAssumption, PanelOK
<1>2. PICK k \in Hours : w[k] > 0
  BY <1>1
<1>3. HourShare(p, h) = Over(Whole(w[h]), Total(f, Hours))
  BY DEF HourShare
<1> HIDE DEF w
<1>4. \A j \in Hours : f[j] \in Fraction /\ AtMost(Zero, f[j])
  BY <1>1, WholeQuantity DEF Quantity
<1>5. f[k] = Whole(w[k]) /\ Positive(f[k])
  BY <1>1, <1>2, WholeQuantity
<1>6. Whole(w[h]) \in Fraction /\ AtMost(Zero, Whole(w[h]))
  BY <1>1, WholeQuantity DEF Quantity
<1> HIDE DEF f
<1>7. Summable(f, Hours)
  BY <1>4 DEF Summable, FleetAssumption
<1> DEFINE T == Total(f, Hours)
<1>8. T \in Fraction /\ AtMost(f[k], T)
  BY <1>4, <1>7, TotalIs, TotalCovers
<1>9. Positive(T)
  <2>1. ~AtMost(f[k], Zero)
    BY <1>4, <1>5, PositiveIs
  <2>2. ~AtMost(T, Zero)
    BY <1>4, <1>8, <2>1, ZeroIs, Order
  <2> QED
    BY <1>8, <2>2, PositiveIs
<1> HIDE DEF T
<1>10. Over(Whole(w[h]), T) \in Fraction /\ AtMost(Zero, Over(Whole(w[h]), T))
  BY <1>6, <1>8, <1>9, OverIs, Signs
<1> QED
  BY <1>3, <1>10 DEF Quantity, T

LEMMA PeakIs ==
    ASSUME FleetAssumption, PanelOK(panel), NEW p \in Projects
    PROVE  PeakOverMean(p) \in Fraction
<1> DEFINE S == {HourShare(p, h) : h \in Hours}
           f == [h \in Hours |-> HourShare(p, h)]
<1>1. S \in SUBSET Fraction /\ S # {}
  BY ShareIs DEF Quantity, FleetAssumption
<1>2. IsFiniteSet(S)
  <2>1. IsFiniteSet({f[h] : h \in Hours})
    <3> HIDE DEF f
    <3> QED
      BY FiniteImage DEF FleetAssumption
  <2>2. S = {f[h] : h \in Hours}
    OBVIOUS
  <2> QED
    BY <2>1, <2>2
<1> HIDE DEF S
<1>3. LargestOf(S) \in Fraction
  BY <1>1, <1>2, LargestOfSet
<1>4. Cardinality(Hours) \in Nat
  BY FS_CardinalityType DEF FleetAssumption
<1>5. Whole(Cardinality(Hours)) \in Fraction /\ Whole(1) \in Fraction
  BY <1>4, WholeIs
<1>6. Times(LargestOf(S), Whole(Cardinality(Hours))) \in Fraction
  BY <1>3, <1>5, TimesIs
<1> QED
  BY <1>5, <1>6 DEF PeakOverMean, S

LEMMA PriceIs ==
    ASSUME FleetAssumption, DemandAssumption, PanelOK(panel),
           NEW p \in Projects, NEW s \in Slots, Capacity(panel, s, p) > 0
    PROVE  InternalPm(panel, s, p) \in Fraction /\ EffectivePm(panel, s, p) \in Fraction
<1>1. GpuCost * panel.count[s] \in Int
  BY DEF FleetAssumption, PanelOK
<1> DEFINE w == Whole(GpuCost * panel.count[s])
           c == Whole(Capacity(panel, s, p))
           k == PeakOverMean(p)
           m == TokenMult(panel, s, p)
<1>2. w \in Fraction
  BY <1>1, WholeIs
<1>3. c \in Fraction /\ Positive(c) /\ k \in Fraction /\ m \in Fraction
  BY RateIs, PeakIs, TokenMultIs DEF Quantity
<1>4. InternalPm(panel, s, p) = Over(Times(w, k), c) /\ EffectivePm(panel, s, p) = Times(Over(Times(w, k), c), m)
  BY DEF InternalPm, EffectivePm
<1> HIDE DEF w, c, k, m
<1>5. Times(w, k) \in Fraction
  BY <1>2, <1>3, TimesIs
<1>6. Over(Times(w, k), c) \in Fraction
  BY <1>3, <1>5, OverIs
<1>7. Times(Over(Times(w, k), c), m) \in Fraction
  BY <1>3, <1>6, TimesIs
<1> QED
  BY <1>4, <1>6, <1>7

LEMMA DemandIs ==
    ASSUME FleetAssumption, DemandAssumption, PanelOK(panel), NEW p \in Projects, NEW order
    PROVE  TotalDemand(p, order) \in Quantity
<1>1. panel.tokens[p] \in Quantity
  BY AmountIs DEF PanelOK
<1>2. DemandScale(p) \in Nat /\ Demand[p].latent \in Nat
  BY DEF DemandScale, PanelOK, DemandAssumption
<1>3. \A x : Activation(x, Demand[p].unlock) \in Quantity
  <2>1. Zero \in Quantity /\ Frac(3, 4) \in Quantity /\ Frac(1, 2) \in Quantity
    BY PartIs, QuantityIs
  <2> QED
    BY <2>1 DEF Activation
<1> DEFINE t == panel.tokens[p]
           w == Whole(DemandScale(p))
           v == Whole(Demand[p].latent * DemandScale(p))
           a == Activation(order[1].pm, Demand[p].unlock)
           l == IF ~panel.price_driven \/ ~panel.latent \/ order = <<>> THEN Zero ELSE Times(v, a)
<1>4. t \in Quantity /\ w \in Quantity /\ v \in Quantity /\ a \in Quantity
  BY <1>1, <1>2, <1>3, WholeQuantity
<1>5. TotalDemand(p, order) = Plus(Times(t, w), l)
  BY DEF TotalDemand
<1> HIDE DEF t, w, v, a
<1>6. Times(t, w) \in Quantity /\ Times(v, a) \in Quantity /\ Zero \in Quantity
  BY <1>4, Products, Signs, ZeroIs, Order DEF Quantity
<1>7. l \in Quantity
  BY <1>6
<1> HIDE DEF l
<1>8. Plus(Times(t, w), l) \in Quantity
  BY <1>6, <1>7, Sums, Signs DEF Quantity
<1> QED
  BY <1>5, <1>8

\* The policy in force is one of those configured, and valid.
PolicyOK == policy \in Policies /\ ValidPolicy(policy)

LEMMA OffersAre ==
    ASSUME DemandAssumption, PolicyOK, NEW p \in Projects
    PROVE  CloudOffers(p) \in SUBSET Fraction /\ IsFiniteSet(CloudOffers(p))
<1> DEFINE d == Demand[p]
           asked == Lengths[d.length]
           K == { j \in GatewayModels(panel.gateway) :
                    /\ panel.cloud_enabled
                    /\ d.kind = "llm"
                    /\ CloudModels[j].caps = Unlisted \/ d.requires \subseteq CloudModels[j].caps
                    /\ CloudModels[j].quality >= d.floor
                    /\ AtMost(d.slo, SuccessRate(CloudModels[j].quality, d.difficulty))
                    /\ asked.in + asked.out <= CloudModels[j].context
                    /\ asked.out <= CloudModels[j].output }
           f == [k \in K |-> Over(Whole(CloudPrice(k, asked.in)), SuccessRate(CloudModels[k].quality, d.difficulty))]
<1>1. CloudOffers(p) = {f[k] : k \in K}
  BY DEF CloudOffers
<1>2. K \subseteq DOMAIN CloudModels
  BY DEF GatewayModels, PolicyOK, ValidPolicy
<1>3. \A k \in K : f[k] \in Fraction
  <2> SUFFICES ASSUME NEW k \in K
               PROVE  Over(Whole(CloudPrice(k, asked.in)), SuccessRate(CloudModels[k].quality, d.difficulty)) \in Fraction
    OBVIOUS
  <2>1. CloudPrice(k, asked.in) \in Nat
    <3>1. CloudModels[k].base \in Nat /\ CloudModels[k].long \in Nat \cup {Unlisted}
      BY <1>2 DEF DemandAssumption, EntryOK
    <3>2. \A tier : k \in DOMAIN policy.price /\ tier \in DOMAIN policy.price[k] => policy.price[k][tier] \in Nat
      BY DEF PolicyOK, DemandAssumption, PricesOK
    <3>3. Listed(k, "base") \in Nat /\ Listed(k, "long") \in Nat \cup {Unlisted}
      BY <3>1, <3>2 DEF Listed
    <3> QED
      BY <3>3 DEF CloudPrice
  <2>2. SuccessRate(CloudModels[k].quality, d.difficulty) \in Fraction
        /\ Positive(SuccessRate(CloudModels[k].quality, d.difficulty))
    BY SuccessIs DEF Quantity
  <2>3. Whole(CloudPrice(k, asked.in)) \in Fraction
    BY <2>1, WholeIs
  <2> QED
    BY <2>2, <2>3, OverIs
<1>4. IsFiniteSet(K)
  BY <1>2, FS_Subset DEF DemandAssumption
<1> HIDE DEF K, f
<1>5. IsFiniteSet({f[k] : k \in K})
  BY <1>4, FiniteImage
<1> QED
  BY <1>1, <1>3, <1>5

LEMMA CapIs ==
    ASSUME DemandAssumption, PolicyOK, NEW p \in Projects
    PROVE  /\ PriceCap(p) \in Fraction
           /\ Whole(Demand[p].wtp) \in Fraction
           /\ AtMost(PriceCap(p), Whole(Demand[p].wtp))
           /\ CloudRoute(p) # NoCloud => CloudRoute(p) \in Fraction /\ AtMost(PriceCap(p), CloudRoute(p))
<1> DEFINE w == Whole(Demand[p].wtp)
           O == CloudOffers(p)
           S == {w} \cup O
<1>1. w \in Fraction
  BY WholeIs DEF DemandAssumption
<1>2. O \in SUBSET Fraction /\ IsFiniteSet(O)
  BY OffersAre
<1>3. PriceCap(p) = LeastOf(S)
  BY DEF PriceCap
<1>4. CloudRoute(p) = IF O = {} THEN NoCloud ELSE LeastOf(O)
  BY DEF CloudRoute, Cheapest
<1> HIDE DEF O, w
<1>5. IsFiniteSet(S) /\ S # {} /\ S \in SUBSET Fraction
  <2>1. IsFiniteSet(O \cup {w}) /\ S = O \cup {w}
    BY <1>2, FS_AddElement
  <2> QED
    BY <1>1, <1>2, <2>1
<1> HIDE DEF S
<1>6. LeastOf(S) \in S /\ \A b \in S : AtMost(LeastOf(S), b)
  BY <1>5, LeastOfSet
<1>7. O # {} => LeastOf(O) \in O
  BY <1>2, LeastOfSet
<1> QED
  BY <1>1, <1>2, <1>3, <1>4, <1>5, <1>6, <1>7 DEF w, S

-----------------------------------------------------------------------------
(* Taking hours.                                                            *)

\* Interactive work in one hour: l tokens arrive, r of the day is free.
LEMMA HourTaken ==
    ASSUME NEW l \in Quantity, NEW r \in Quantity, NEW rate \in Fraction, Positive(rate)
    PROVE  LET t == Least(l, Times(r, rate)) IN
           /\ t \in Quantity /\ Minus(l, t) \in Quantity /\ Minus(r, Over(t, rate)) \in Quantity
           /\ AtMost(Minus(l, t), l)
           /\ Plus(Minus(r, Over(t, rate)), Over(t, rate)) = r
           /\ r = Zero => t = Zero
           /\ Positive(Minus(l, t)) => Minus(r, Over(t, rate)) = Zero
<1> DEFINE c == Times(r, rate)
           t == Least(l, c)
           o == Over(t, rate)
<1>1. rate \in Quantity /\ l \in Fraction /\ r \in Fraction
  BY PositiveIs DEF Quantity
<1>2. c \in Quantity
  BY <1>1, QuantityIs
<1> HIDE DEF c
<1>3. t \in Quantity /\ AtMost(t, l) /\ AtMost(t, c) /\ (Positive(Minus(l, t)) => t = c)
  BY <1>2, LeastIs
<1> HIDE DEF t
<1>4. o \in Quantity /\ t \in Fraction
  BY <1>1, <1>3, QuantityIs DEF Quantity
<1>5. AtMost(o, r)
  BY <1>1, <1>3, <1>4, Scaling DEF c
<1>6. t = c => o = r
  BY <1>1, Quotients DEF c
<1> HIDE DEF o
<1>7. Minus(l, t) \in Quantity /\ Minus(r, o) \in Quantity
  BY <1>3, <1>4, <1>5, QuantityIs
<1>8. AtMost(Minus(l, t), l)
  BY <1>1, <1>3, <1>4, Order, ZeroIs DEF Quantity
<1>9. Plus(Minus(r, o), o) = r /\ Minus(r, r) = Zero
  BY <1>1, <1>4, Sums DEF Quantity
<1>10. r = Zero => t = Zero
  <2> SUFFICES ASSUME r = Zero PROVE t = Zero
    OBVIOUS
  <2>1. c = Zero
    BY <1>1, Products DEF c
  <2>2. AtMost(Zero, t) /\ Zero \in Fraction
    BY <1>3, ZeroIs DEF Quantity
  <2> QED
    BY <1>3, <1>4, <2>1, <2>2, Order
<1>11. Positive(Minus(l, t)) => Minus(r, o) = Zero
  BY <1>3, <1>6, <1>9
<1>12. c = Times(r, rate) /\ t = Least(l, c) /\ o = Over(t, rate)
  BY DEF c, t, o
<1> QED
  BY <1>3, <1>7, <1>8, <1>9, <1>10, <1>11, <1>12

\* Batch work over the day: l tokens wait, r[h] of the day is free in hour h.
LEMMA DayTaken ==
    ASSUME NEW S, IsFiniteSet(S), NEW r \in [S -> Quantity], Positive(Total(r, S)),
           NEW l \in Quantity, NEW rate \in Fraction, Positive(rate),
           NEW t, t = Least(l, Times(Total(r, S), rate)),
           NEW gone, gone = Over(Over(t, rate), Total(r, S)),
           NEW took, \A h \in S : took[h] = Times(Times(r[h], gone), rate),
           NEW rest, \A h \in S : rest[h] = Times(r[h], Minus(Whole(1), gone))
    PROVE  /\ t \in Quantity /\ Minus(l, t) \in Quantity /\ AtMost(Minus(l, t), l)
           /\ Plus(Minus(l, t), Total(took, S)) = l
           /\ \A h \in S : /\ took[h] \in Quantity /\ rest[h] \in Quantity
                           /\ Plus(rest[h], Over(took[h], rate)) = r[h]
                           /\ r[h] = Zero => took[h] = Zero
                           /\ Positive(Minus(l, t)) => rest[h] = Zero
<1> DEFINE free == Total(r, S)
           c    == Times(free, rate)
           o    == Over(t, rate)
           k    == Minus(Whole(1), gone)
           part == [h \in S |-> Times(r[h], gone)]
<1>0. t = Least(l, c) /\ gone = Over(o, free)
  OBVIOUS
<1>1. /\ rate \in Quantity /\ l \in Fraction /\ Summable(r, S)
      /\ \A h \in S : r[h] \in Quantity /\ r[h] \in Fraction /\ AtMost(Zero, r[h])
  BY PositiveIs DEF Quantity, Summable
<1>2. free \in Quantity /\ free \in Fraction /\ Positive(free)
  BY <1>1, TotalIs, TotalNotNegative DEF Quantity
<1> HIDE DEF free
<1>3. c \in Quantity /\ c \in Fraction
  BY <1>1, <1>2, QuantityIs
<1>4. t \in Quantity /\ AtMost(t, l) /\ AtMost(t, c) /\ (Positive(Minus(l, t)) => t = c)
  <2> HIDE DEF c
  <2> QED
    BY <1>0, <1>3, LeastIs
<1>5. o \in Quantity /\ o \in Fraction /\ t \in Fraction
  BY <1>1, <1>4, QuantityIs DEF Quantity
<1>6. AtMost(o, free) /\ (t = c => o = free) /\ Times(o, rate) = t
  BY <1>1, <1>2, <1>4, <1>5, Scaling, Quotients DEF c
<1> HIDE DEF o, c
<1>7. gone \in Quantity /\ gone \in Fraction /\ Times(gone, free) = o /\ (t = c => gone = Whole(1))
  BY <1>0, <1>2, <1>5, <1>6, QuantityIs, Quotients DEF Quantity
<1>8. Whole(1) \in Quantity /\ Whole(1) \in Fraction
  BY WholeQuantity DEF Quantity
<1>9. AtMost(gone, Whole(1))
  <2>1. Over(free, free) = Whole(1)
    BY <1>2, Quotients
  <2>2. AtMost(Over(o, free), Over(free, free))
    BY <1>2, <1>5, <1>6, Scaling
  <2> QED
    BY <1>0, <2>1, <2>2
<1>10. k \in Quantity /\ k \in Fraction /\ Plus(k, gone) = Whole(1) /\ (gone = Whole(1) => k = Zero)
  <2>1. k \in Quantity
    BY <1>7, <1>8, <1>9, QuantityIs
  <2>2. Plus(k, gone) = Whole(1) /\ (gone = Whole(1) => k = Zero)
    BY <1>7, <1>8, Sums
  <2> QED
    BY <2>1, <2>2 DEF Quantity
<1> HIDE DEF k
<1>11. Minus(l, t) \in Quantity /\ AtMost(Minus(l, t), l) /\ Plus(Minus(l, t), t) = l
  <2>1. Minus(l, t) \in Quantity
    BY <1>4, QuantityIs
  <2>2. AtMost(Minus(l, t), l)
    BY <1>1, <1>4, <1>5, Order, ZeroIs DEF Quantity
  <2> QED
    BY <1>1, <1>5, <2>1, <2>2, Sums
<1>12. ASSUME NEW h \in S
       PROVE  /\ part[h] \in Quantity /\ part[h] \in Fraction
              /\ took[h] = Times(part[h], rate) /\ took[h] \in Quantity
              /\ rest[h] \in Quantity
              /\ Plus(rest[h], Over(took[h], rate)) = r[h]
              /\ r[h] = Zero => took[h] = Zero
              /\ k = Zero => rest[h] = Zero
  <2>1. part[h] = Times(r[h], gone) /\ took[h] = Times(part[h], rate) /\ rest[h] = Times(r[h], k)
    BY DEF k
  <2>2. part[h] \in Quantity /\ part[h] \in Fraction /\ rest[h] \in Quantity
    BY <1>1, <1>7, <1>10, <2>1, QuantityIs
  <2>3. took[h] \in Quantity
    BY <1>1, <2>1, <2>2, QuantityIs
  <2>4. Over(took[h], rate) = part[h]
    BY <2>1, <2>2, Quotients
  <2>5. Plus(rest[h], part[h]) = r[h]
    <3>1. Times(r[h], Plus(k, gone)) = Plus(Times(r[h], k), Times(r[h], gone))
      BY <1>1, <1>7, <1>10, Products
    <3>2. Times(r[h], Whole(1)) = r[h]
      BY <1>1, <1>8, Products
    <3> QED
      BY <1>10, <2>1, <3>1, <3>2
  <2>6. r[h] = Zero => took[h] = Zero
    <3>1. Times(Zero, gone) = Zero
      BY <1>7, ZeroIs, Products
    <3>2. Times(Zero, rate) = Zero
      BY <1>1, ZeroIs, Products
    <3> QED
      BY <2>1, <3>1, <3>2
  <2>7. Times(r[h], Zero) = Zero
    BY <1>1, ZeroIs, Products
  <2> QED
    BY <2>1, <2>2, <2>3, <2>4, <2>5, <2>6, <2>7
<1>13. Total(took, S) = t
  <2>1. Total(part, S) = Times(free, gone)
    <3>1. \A h \in S : part[h] = Times(r[h], gone)
      OBVIOUS
    <3> HIDE DEF part
    <3> QED
      BY <1>1, <1>7, <3>1, TotalTimes DEF free
  <2>2. Total(took, S) = Times(Total(part, S), rate)
    <3>1. Summable(part, S)
      BY <1>1, <1>12 DEF Summable
    <3>2. \A h \in S : took[h] = Times(part[h], rate)
      BY <1>12
    <3> HIDE DEF part
    <3> QED
      BY <3>1, <3>2, TotalTimes
  <2>3. Times(free, gone) = o
    BY <1>2, <1>7, Products
  <2> QED
    BY <1>6, <2>1, <2>2, <2>3
<1>14. Positive(Minus(l, t)) => k = Zero
  BY <1>4, <1>7, <1>10
<1>15. Plus(Minus(l, t), Total(took, S)) = l
  BY <1>11, <1>13
<1> QED
  BY <1>4, <1>11, <1>12, <1>14, <1>15

-----------------------------------------------------------------------------
(* One deployment.                                                          *)

SupplyRow == [remaining : [Hours -> Quantity], used : Fraction, served : Fraction]
Supplies  == [Supplied(panel) -> SupplyRow]
Deliveries == [Slots -> [Hours -> Quantity]]
Bookings  == [total : Quantity, left : [Hours -> Quantity], pending : Quantity,
              supply : Supplies, took : Deliveries]

\* Booking b becomes c by hours of s that deliver the useful tokens c.took[s].
HoursMoved(s, rate, b, c) ==
    /\ c \in Bookings
    /\ c.total = b.total
    /\ \A t \in Supplied(panel) \ {s} : c.supply[t] = b.supply[t]
    /\ \A t \in Slots \ {s} : c.took[t] = b.took[t]
    /\ \A h \in Hours :
         /\ Plus(c.supply[s].remaining[h], Over(c.took[s][h], rate)) = b.supply[s].remaining[h]
         /\ b.supply[s].remaining[h] = Zero => c.took[s][h] = Zero

\* Interactive demand that is left after s met it in a full hour.
LeftIsFull(s, b, c) ==
    \A h \in Hours : /\ AtMost(c.left[h], b.left[h])
                     /\ Positive(c.left[h]) => c.supply[s].remaining[h] = Zero

\* Batch demand: what is left pending met a full day.
PendingIsFull(s, b, c) ==
    /\ Plus(c.pending, AllHours(c.took[s])) = b.pending
    /\ AtMost(c.pending, b.pending)
    /\ Positive(c.pending) => \A h \in Hours : c.supply[s].remaining[h] = Zero

\* A booking stays one when a deployment gets other hours, deliveries and times.
LEMMA HoursKept ==
    ASSUME NEW b \in Bookings, NEW s \in Supplied(panel), NEW L \in [Hours -> Quantity],
           NEW R \in [Hours -> Quantity], NEW T \in [Hours -> Quantity]
    PROVE  [b EXCEPT !.left = L, !.supply[s].remaining = R, !.took[s] = T] \in Bookings
<1> DEFINE M == [b.supply EXCEPT ![s].remaining = R]
           N == [b.took EXCEPT ![s] = T]
<1>1. M \in Supplies /\ N \in Deliveries
  BY DEF Bookings, Supplies, SupplyRow, Deliveries, Supplied
<1>2. [b EXCEPT !.left = L, !.supply[s].remaining = R, !.took[s] = T] = [b EXCEPT !.left = L, !.supply = M, !.took = N]
  OBVIOUS
<1> HIDE DEF M, N
<1>3. [b EXCEPT !.left = L, !.supply = M, !.took = N] \in Bookings
  BY <1>1 DEF Bookings
<1> QED
  BY <1>2, <1>3

LEMMA DayKept ==
    ASSUME NEW b \in Bookings, NEW s \in Supplied(panel), NEW P \in Quantity,
           NEW R \in [Hours -> Quantity], NEW T \in [Hours -> Quantity]
    PROVE  [b EXCEPT !.pending = P, !.supply[s].remaining = R, !.took[s] = T] \in Bookings
<1> DEFINE M == [b.supply EXCEPT ![s].remaining = R]
           N == [b.took EXCEPT ![s] = T]
<1>1. M \in Supplies /\ N \in Deliveries
  BY DEF Bookings, Supplies, SupplyRow, Deliveries, Supplied
<1>2. [b EXCEPT !.pending = P, !.supply[s].remaining = R, !.took[s] = T] = [b EXCEPT !.pending = P, !.supply = M, !.took = N]
  OBVIOUS
<1> HIDE DEF M, N
<1>3. [b EXCEPT !.pending = P, !.supply = M, !.took = N] \in Bookings
  BY <1>1 DEF Bookings
<1> QED
  BY <1>2, <1>3

LEMMA TimesKept ==
    ASSUME NEW b \in Bookings, NEW s \in Supplied(panel), NEW U \in Fraction, NEW V \in Fraction
    PROVE  [b EXCEPT !.supply[s].used = U, !.supply[s].served = V] \in Bookings
<1> DEFINE O == [b.supply EXCEPT ![s].used = U, ![s].served = V]
<1>1. O \in Supplies
  BY DEF Bookings, Supplies, SupplyRow
<1>2. [b EXCEPT !.supply[s].used = U, !.supply[s].served = V] = [b EXCEPT !.supply = O]
  BY DEF Bookings, Supplies
<1> HIDE DEF O
<1>3. [b EXCEPT !.supply = O] \in Bookings
  BY <1>1 DEF Bookings
<1> QED
  BY <1>2, <1>3

LEMMA BookHoursIs ==
    ASSUME FleetAssumption, DemandAssumption, PanelOK(panel), NEW p \in Projects,
           NEW s \in Supplied(panel), Capacity(panel, s, p) > 0, NEW b \in Bookings
    PROVE  LET c == BookHours(panel, p, s, b) IN
           /\ HoursMoved(s, PerFrac(panel, s, p), b, c)
           /\ LeftIsFull(s, b, c)
           /\ c.supply[s].used = b.supply[s].used
<1> DEFINE rate == PerFrac(panel, s, p)
           r    == b.supply[s].remaining
           take == [h \in Hours |-> Least(b.left[h], Times(r[h], rate))]
           L    == [h \in Hours |-> Minus(b.left[h], take[h])]
           R    == [h \in Hours |-> Minus(r[h], Over(take[h], rate))]
           c    == [b EXCEPT !.left = L, !.supply[s].remaining = R, !.took[s] = take]
<1>1. rate \in Fraction /\ Positive(rate) /\ s \in Slots
  BY RateIs, SuppliedIs
<1>2. /\ r \in [Hours -> Quantity] /\ b.left \in [Hours -> Quantity]
      /\ b.supply \in Supplies /\ b.took \in Deliveries /\ b.total \in Quantity /\ b.pending \in Quantity
      /\ b.supply[s] \in SupplyRow
  BY DEF Bookings, Supplies, SupplyRow
<1>3. BookHours(panel, p, s, b) = c
  BY <1>2 DEF BookHours, Bookings, Supplies, SupplyRow
<1> HIDE DEF rate, r
<1>4. ASSUME NEW h \in Hours
      PROVE  /\ take[h] \in Quantity /\ L[h] \in Quantity /\ R[h] \in Quantity
             /\ AtMost(L[h], b.left[h])
             /\ Plus(R[h], Over(take[h], rate)) = r[h]
             /\ r[h] = Zero => take[h] = Zero
             /\ Positive(L[h]) => R[h] = Zero
  <2>1. b.left[h] \in Quantity /\ r[h] \in Quantity
    BY <1>2
  <2> QED
    BY <1>1, <2>1, HourTaken
<1>5. take \in [Hours -> Quantity] /\ L \in [Hours -> Quantity] /\ R \in [Hours -> Quantity]
  BY <1>4
<1> HIDE DEF take, L, R
<1>6. /\ c.left = L /\ c.total = b.total /\ c.pending = b.pending
      /\ c.supply = [b.supply EXCEPT ![s] = [b.supply[s] EXCEPT !.remaining = R]]
      /\ c.took = [b.took EXCEPT ![s] = take]
  BY DEF Bookings
<1>8. c \in Bookings
  BY <1>5, HoursKept
<1> HIDE DEF c
<1>7. /\ c.supply \in Supplies /\ c.took \in Deliveries
      /\ c.supply[s].remaining = R /\ c.supply[s].used = b.supply[s].used /\ c.took[s] = take
      /\ \A t \in Supplied(panel) \ {s} : c.supply[t] = b.supply[t]
      /\ \A t \in Slots \ {s} : c.took[t] = b.took[t]
  <2>1. c.supply \in Supplies /\ c.took \in Deliveries
    BY <1>8 DEF Bookings
  <2>2. c.supply[s].remaining = R /\ c.supply[s].used = b.supply[s].used
    BY <1>2, <1>6 DEF Supplies, SupplyRow
  <2>3. c.took[s] = take
    BY <1>1, <1>2, <1>6 DEF Deliveries
  <2>4. (\A t \in Supplied(panel) \ {s} : c.supply[t] = b.supply[t]) /\ \A t \in Slots \ {s} : c.took[t] = b.took[t]
    BY <1>1, <1>2, <1>6 DEF Supplies, Deliveries
  <2> QED
    BY <2>1, <2>2, <2>3, <2>4
<1>9. HoursMoved(s, rate, b, c)
  BY <1>4, <1>6, <1>7, <1>8 DEF HoursMoved, r
<1>10. LeftIsFull(s, b, c)
  BY <1>4, <1>6, <1>7 DEF LeftIsFull
<1> QED
  BY <1>3, <1>7, <1>9, <1>10 DEF rate

LEMMA BookFreeIs ==
    ASSUME FleetAssumption, DemandAssumption, PanelOK(panel), NEW p \in Projects,
           NEW s \in Supplied(panel), Capacity(panel, s, p) > 0, NEW b \in Bookings
    PROVE  LET c == BookFree(panel, p, s, b) IN
           /\ c \in Bookings
           /\ c.supply[s].used = b.supply[s].used
           /\ (\A h \in Hours : b.took[s][h] = Zero) =>
                HoursMoved(s, PerFrac(panel, s, p), b, c) /\ PendingIsFull(s, b, c)
<1> DEFINE rate == PerFrac(panel, s, p)
           r    == b.supply[s].remaining
           free == Total(r, Hours)
           take == Least(b.pending, Times(free, rate))
           gone == Over(Over(take, rate), free)
           P    == Minus(b.pending, take)
           T    == [h \in Hours |-> Times(Times(r[h], gone), rate)]
           R    == [h \in Hours |-> Times(r[h], Minus(Whole(1), gone))]
           c    == [b EXCEPT !.pending = P, !.supply[s].remaining = R, !.took[s] = T]
<1>1. rate \in Fraction /\ Positive(rate) /\ s \in Slots
  BY RateIs, SuppliedIs
<1>2. /\ r \in [Hours -> Quantity] /\ b.left \in [Hours -> Quantity]
      /\ b.supply \in Supplies /\ b.took \in Deliveries /\ b.total \in Quantity /\ b.pending \in Quantity
      /\ b.supply[s] \in SupplyRow
  BY DEF Bookings, Supplies, SupplyRow
<1>3. BookFree(panel, p, s, b) = IF ~Positive(free) THEN b ELSE c
  BY <1>2 DEF BookFree, Bookings, Supplies, SupplyRow, AllHours
<1>4. IsFiniteSet(Hours) /\ Summable(r, Hours) /\ \A h \in Hours : AtMost(Zero, r[h]) /\ r[h] \in Fraction
  BY <1>2 DEF Summable, FleetAssumption, Quantity
<1>5. CASE ~Positive(free)
  <2> SUFFICES ASSUME \A h \in Hours : b.took[s][h] = Zero
               PROVE  HoursMoved(s, rate, b, b) /\ PendingIsFull(s, b, b)
    BY <1>3, <1>5
  <2>1. free \in Fraction /\ AtMost(Zero, free)
    BY <1>4, TotalIs, TotalNotNegative
  <2>2. free = Zero
    BY <1>5, <2>1, PositiveIs
  <2>3. \A h \in Hours : r[h] = Zero
    <3> HIDE DEF r
    <3>1. \A h \in Hours : AtMost(r[h], Zero)
      BY <1>4, <2>2, TotalCovers
    <3> QED
      BY <1>4, <3>1, ZeroIs, Order
  <2>4. Over(Zero, rate) = Zero /\ Plus(Zero, Zero) = Zero
    BY <1>1, Quotients, ZeroIs, Sums
  <2>5. AllHours(b.took[s]) = Zero
    BY <1>4, TotalZero DEF AllHours
  <2>6. HoursMoved(s, rate, b, b)
    BY <1>2, <2>3, <2>4 DEF HoursMoved
  <2>7. Plus(b.pending, Zero) = b.pending /\ AtMost(b.pending, b.pending)
    <3> DEFINE l == b.pending
    <3>1. l \in Fraction
      BY <1>2 DEF Quantity
    <3> HIDE DEF l
    <3>2. Plus(l, Zero) = l /\ AtMost(l, l)
      BY <3>1, Sums, Order
    <3> QED
      BY <3>2 DEF l
  <2>8. PendingIsFull(s, b, b)
    BY <2>3, <2>5, <2>7 DEF PendingIsFull
  <2> QED
    BY <2>6, <2>8
<1>6. CASE Positive(free)
  <2>1. /\ take \in Quantity /\ P \in Quantity /\ AtMost(P, b.pending)
        /\ T \in [Hours -> Quantity] /\ R \in [Hours -> Quantity]
        /\ Plus(P, Total(T, Hours)) = b.pending
        /\ \A h \in Hours : Plus(R[h], Over(T[h], rate)) = r[h]
        /\ \A h \in Hours : r[h] = Zero => T[h] = Zero
        /\ Positive(P) => \A h \in Hours : R[h] = Zero
    <3>1. \A h \in Hours : T[h] = Times(Times(r[h], gone), rate) /\ R[h] = Times(r[h], Minus(Whole(1), gone))
      OBVIOUS
    <3>2. /\ take = Least(b.pending, Times(Total(r, Hours), rate))
          /\ gone = Over(Over(take, rate), Total(r, Hours))
          /\ P = Minus(b.pending, take)
          /\ Positive(Total(r, Hours))
      BY <1>6
    <3>3. DOMAIN T = Hours /\ DOMAIN R = Hours /\ T = [h \in Hours |-> T[h]] /\ R = [h \in Hours |-> R[h]]
      OBVIOUS
    <3> HIDE DEF rate, r, free, take, gone, P, T, R
    <3>4. /\ take \in Quantity /\ P \in Quantity /\ AtMost(P, b.pending)
          /\ Plus(P, Total(T, Hours)) = b.pending
          /\ \A h \in Hours : /\ T[h] \in Quantity /\ R[h] \in Quantity
                              /\ Plus(R[h], Over(T[h], rate)) = r[h]
                              /\ r[h] = Zero => T[h] = Zero
                              /\ Positive(P) => R[h] = Zero
      BY <1>1, <1>2, <1>4, <3>1, <3>2, DayTaken
    <3> QED
      BY <3>3, <3>4
  <2> HIDE DEF rate, r, free, take, gone, P, T, R
  <2>2. /\ c.left = b.left /\ c.total = b.total /\ c.pending = P
        /\ c.supply = [b.supply EXCEPT ![s] = [b.supply[s] EXCEPT !.remaining = R]]
        /\ c.took = [b.took EXCEPT ![s] = T]
    BY DEF Bookings
  <2>3. BookFree(panel, p, s, b) = c
    BY <1>3, <1>6
  <2>5. c \in Bookings
    BY <2>1, DayKept
  <2> HIDE DEF c
  <2>4. /\ c.supply \in Supplies /\ c.took \in Deliveries
        /\ c.supply[s].remaining = R /\ c.supply[s].used = b.supply[s].used /\ c.took[s] = T
        /\ \A t \in Supplied(panel) \ {s} : c.supply[t] = b.supply[t]
        /\ \A t \in Slots \ {s} : c.took[t] = b.took[t]
    <3>1. c.supply \in Supplies /\ c.took \in Deliveries
      BY <2>5 DEF Bookings
    <3>2. c.supply[s].remaining = R /\ c.supply[s].used = b.supply[s].used
      BY <1>2, <2>2 DEF Supplies, SupplyRow
    <3>3. c.took[s] = T
      BY <1>1, <1>2, <2>2 DEF Deliveries
    <3>4. (\A t \in Supplied(panel) \ {s} : c.supply[t] = b.supply[t]) /\ \A t \in Slots \ {s} : c.took[t] = b.took[t]
      BY <1>1, <1>2, <2>2 DEF Supplies, Deliveries
    <3> QED
      BY <3>1, <3>2, <3>3, <3>4
  <2>6. HoursMoved(s, rate, b, c)
    BY <2>1, <2>2, <2>4, <2>5 DEF HoursMoved, r
  <2>7. PendingIsFull(s, b, c)
    BY <2>1, <2>2, <2>4 DEF PendingIsFull, AllHours
  <2> QED
    BY <2>3, <2>4, <2>5, <2>6, <2>7 DEF rate
<1> QED
  BY <1>5, <1>6

LEMMA ChargeIs ==
    ASSUME FleetAssumption, DemandAssumption, PanelOK(panel), NEW p \in Projects,
           NEW s \in Supplied(panel), Capacity(panel, s, p) > 0, NEW b \in Bookings
    PROVE  LET c == Charge(panel, p, s, b) IN
           /\ c \in Bookings
           /\ c.total = b.total /\ c.left = b.left /\ c.pending = b.pending /\ c.took = b.took
           /\ \A t \in Supplied(panel) \ {s} : c.supply[t] = b.supply[t]
           /\ c.supply[s].remaining = b.supply[s].remaining
           /\ c.supply[s].used = Plus(b.supply[s].used, Over(AllHours(b.took[s]), PerFrac(panel, s, p)))
<1> DEFINE rate == PerFrac(panel, s, p)
           useful == AllHours(b.took[s])
           U == Plus(b.supply[s].used, Over(useful, rate))
           V == Plus(b.supply[s].served, Times(useful, TokenMult(panel, s, p)))
           c == [b EXCEPT !.supply[s].used = U, !.supply[s].served = V]
<1>1. rate \in Fraction /\ Positive(rate) /\ TokenMult(panel, s, p) \in Fraction /\ s \in Slots
  BY RateIs, TokenMultIs, SuppliedIs DEF Quantity
<1>2. /\ b.took[s] \in [Hours -> Quantity] /\ b.left \in [Hours -> Quantity]
      /\ b.supply \in Supplies /\ b.took \in Deliveries /\ b.total \in Quantity /\ b.pending \in Quantity
      /\ b.supply[s] \in SupplyRow
  BY <1>1 DEF Bookings, Supplies, SupplyRow, Deliveries
<1>3. useful \in Fraction
  <2>1. Summable(b.took[s], Hours)
    BY <1>2 DEF Summable, FleetAssumption, Quantity
  <2> QED
    BY <2>1, TotalIs DEF AllHours
<1>4. Charge(panel, p, s, b) = c
  BY <1>2 DEF Charge, Bookings, Supplies, SupplyRow
<1>5. U \in Fraction /\ V \in Fraction
  <2>1. b.supply[s].used \in Fraction /\ b.supply[s].served \in Fraction
    BY <1>2 DEF SupplyRow
  <2>2. Over(useful, rate) \in Fraction /\ Times(useful, TokenMult(panel, s, p)) \in Fraction
    BY <1>1, <1>3, OverIs, TimesIs
  <2> QED
    BY <2>1, <2>2, PlusIs
<1> HIDE DEF U, V
<1>6. /\ c.left = b.left /\ c.total = b.total /\ c.pending = b.pending /\ c.took = b.took
      /\ c.supply = [b.supply EXCEPT ![s] = [b.supply[s] EXCEPT !.used = U, !.served = V]]
  BY <1>2 DEF Bookings, Supplies, SupplyRow
<1>8. c \in Bookings
  BY <1>5, TimesKept
<1> HIDE DEF c
<1>7. /\ c.supply \in Supplies
      /\ c.supply[s].remaining = b.supply[s].remaining /\ c.supply[s].used = U
      /\ \A t \in Supplied(panel) \ {s} : c.supply[t] = b.supply[t]
  <2> DEFINE row == [b.supply[s] EXCEPT !.used = U, !.served = V]
  <2>1. row \in SupplyRow /\ row.remaining = b.supply[s].remaining /\ row.used = U
    BY <1>2, <1>5 DEF SupplyRow
  <2> HIDE DEF row
  <2>2. c.supply = [b.supply EXCEPT ![s] = row]
    BY <1>6 DEF row
  <2> QED
    BY <1>2, <2>1, <2>2 DEF Supplies
<1>9. c.supply[s].used = Plus(b.supply[s].used, Over(AllHours(b.took[s]), PerFrac(panel, s, p)))
  BY <1>7 DEF U
<1> QED
  BY <1>4, <1>6, <1>7, <1>8, <1>9

\* What one deployment does for a use case.
SlotBooked(p, s, b, c) ==
    /\ HoursMoved(s, PerFrac(panel, s, p), b, c)
    /\ IF panel.batch[p] THEN PendingIsFull(s, b, c) ELSE LeftIsFull(s, b, c)
    /\ c.supply[s].used = Plus(b.supply[s].used, Over(AllHours(c.took[s]), PerFrac(panel, s, p)))

LEMMA BookOnIs ==
    ASSUME FleetAssumption, DemandAssumption, PanelOK(panel), NEW p \in Projects,
           NEW s \in Supplied(panel), Capacity(panel, s, p) > 0, NEW b \in Bookings
    PROVE  /\ BookOn(panel, p, s, b) \in Bookings
           /\ (\A h \in Hours : b.took[s][h] = Zero) => SlotBooked(p, s, b, BookOn(panel, p, s, b))
<1> DEFINE m == IF panel.batch[p] THEN BookFree(panel, p, s, b) ELSE BookHours(panel, p, s, b)
           c == Charge(panel, p, s, m)
<1>1. /\ m \in Bookings
      /\ m.supply[s].used = b.supply[s].used
      /\ (\A h \in Hours : b.took[s][h] = Zero) =>
           /\ HoursMoved(s, PerFrac(panel, s, p), b, m)
           /\ IF panel.batch[p] THEN PendingIsFull(s, b, m) ELSE LeftIsFull(s, b, m)
  <2>1. CASE panel.batch[p]
    <3>1. m = BookFree(panel, p, s, b)
      BY <2>1
    <3> HIDE DEF m
    <3> QED
      BY <2>1, <3>1, BookFreeIs
  <2>2. CASE ~panel.batch[p]
    <3>1. m = BookHours(panel, p, s, b)
      BY <2>2
    <3> HIDE DEF m
    <3> QED
      BY <2>2, <3>1, BookHoursIs DEF HoursMoved
  <2> QED
    BY <2>1, <2>2
<1>2. BookOn(panel, p, s, b) = c
  BY DEF BookOn
<1> HIDE DEF m
<1>3. m \in Bookings
  BY <1>1
<1>4. /\ c \in Bookings
      /\ c.total = m.total /\ c.left = m.left /\ c.pending = m.pending /\ c.took = m.took
      /\ \A t \in Supplied(panel) \ {s} : c.supply[t] = m.supply[t]
      /\ c.supply[s].remaining = m.supply[s].remaining
      /\ c.supply[s].used = Plus(m.supply[s].used, Over(AllHours(m.took[s]), PerFrac(panel, s, p)))
  BY <1>3, ChargeIs
<1> HIDE DEF c
<1> SUFFICES ASSUME \A h \in Hours : b.took[s][h] = Zero
             PROVE  SlotBooked(p, s, b, c)
  BY <1>2, <1>4
<1>5. HoursMoved(s, PerFrac(panel, s, p), b, c)
  BY <1>1, <1>4 DEF HoursMoved
<1>6. IF panel.batch[p] THEN PendingIsFull(s, b, c) ELSE LeftIsFull(s, b, c)
  BY <1>1, <1>4 DEF PendingIsFull, LeftIsFull
<1> QED
  BY <1>1, <1>4, <1>5, <1>6 DEF SlotBooked

-----------------------------------------------------------------------------
(* The candidates in order.                                                 *)

BidOrder(p) == {x \in Bids(panel, p) \X Bids(panel, p) : Before(x[1], x[2])}

LEMMA BidIs ==
    ASSUME FleetAssumption, DemandAssumption, PanelOK(panel), NEW p \in Projects, NEW x \in Bids(panel, p)
    PROVE  /\ x.slot \in Candidates(panel, p) /\ x.slot \in Slots /\ x.slot \in Int
           /\ x.slot \in Supplied(panel) /\ Capacity(panel, x.slot, p) > 0
           /\ x = [slot |-> x.slot, pm |-> x.pm]
           /\ x.pm = EffectivePm(panel, x.slot, p) /\ x.pm \in Fraction
<1>1. PICK s \in Candidates(panel, p) : x = [slot |-> s, pm |-> EffectivePm(panel, s, p)]
  BY DEF Bids
<1>2. s \in Slots /\ s \in Supplied(panel) /\ Capacity(panel, s, p) > 0
  BY CandidateIs
<1>3. EffectivePm(panel, s, p) \in Fraction
  BY <1>2, PriceIs
<1>4. s \in Int
  BY <1>2 DEF FleetAssumption
<1> QED
  BY <1>1, <1>2, <1>3, <1>4

LEMMA BidsOrdered ==
    ASSUME FleetAssumption, DemandAssumption, PanelOK(panel), NEW p \in Projects
    PROVE  IsFiniteSet(Bids(panel, p)) /\ StrictOrder(Bids(panel, p), BidOrder(p))
<1> DEFINE B == Bids(panel, p)
           C == Candidates(panel, p)
           f == [s \in C |-> [slot |-> s, pm |-> EffectivePm(panel, s, p)]]
<1>1. IsFiniteSet(B)
  <2>1. IsFiniteSet(C)
    <3>1. C \in SUBSET Slots /\ IsFiniteSet(Slots)
      BY CandidateIs DEF FleetAssumption
    <3> HIDE DEF C
    <3> QED
      BY <3>1, FS_Subset
  <2>2. B = {f[s] : s \in C}
    BY DEF Bids
  <2> HIDE DEF C, f, B
  <2> QED
    BY <2>1, <2>2, FiniteImage
<1>2. \A x \in B : x.slot \in Int /\ x.pm \in Fraction /\ x = [slot |-> x.slot, pm |-> x.pm]
  BY BidIs
<1>3. \A x, y \in B : <<x, y>> \in BidOrder(p) <=> Before(x, y)
  BY DEF BidOrder
<1> HIDE DEF B
<1>4. ASSUME NEW x \in B
      PROVE  ~Before(x, x)
  BY <1>2, Order DEF Before, Below
<1>5. ASSUME NEW x \in B, NEW y \in B, NEW z \in B, Before(x, y), Before(y, z)
      PROVE  Before(x, z)
  <2> DEFINE a == x.pm
             b == y.pm
             c == z.pm
  <2>1. a \in Fraction /\ b \in Fraction /\ c \in Fraction /\ x.slot \in Int /\ y.slot \in Int /\ z.slot \in Int
    BY <1>2
  <2>2. (~AtMost(b, a) \/ (a = b /\ x.slot < y.slot)) /\ (~AtMost(c, b) \/ (b = c /\ y.slot < z.slot))
    BY <1>5 DEF Before, Below
  <2> HIDE DEF a, b, c
  <2>3. (AtMost(a, b) \/ AtMost(b, a)) /\ (AtMost(b, c) \/ AtMost(c, b))
    BY <2>1, Order
  <2>4. ~AtMost(c, a) \/ (a = c /\ x.slot < z.slot)
    <3>1. CASE a = b /\ b = c
      BY <2>1, <2>2, <2>3, <3>1
    <3>2. CASE ~AtMost(b, a)
      <4>1. AtMost(b, c)
        BY <2>2, <2>3, <2>1, Order
      <4>2. AtMost(c, a) => AtMost(b, a)
        BY <4>1, <2>1, Order
      <4> QED
        BY <3>2, <4>2
    <3>3. CASE a = b /\ ~AtMost(c, b)
      BY <3>3
    <3> QED
      BY <2>1, <2>2, <3>1, <3>2, <3>3
  <2> QED
    BY <2>4 DEF Before, Below, a, c
<1>6. ASSUME NEW x \in B, NEW y \in B, x # y
      PROVE  Before(x, y) \/ Before(y, x)
  <2>1. x.slot # y.slot \/ x.pm # y.pm
    BY <1>2, <1>6
  <2>2. x.pm \in Fraction /\ y.pm \in Fraction /\ x.slot \in Int /\ y.slot \in Int
    BY <1>2
  <2>3. AtMost(x.pm, y.pm) /\ AtMost(y.pm, x.pm) => x.pm = y.pm
    BY <2>2, Order
  <2>4. CASE x.pm = y.pm
    <3>1. x.slot < y.slot \/ y.slot < x.slot
      BY <2>1, <2>2, <2>4
    <3> QED
      BY <2>4, <3>1 DEF Before
  <2>5. CASE x.pm # y.pm
    BY <2>3, <2>5 DEF Before, Below
  <2> QED
    BY <2>4, <2>5
<1>7. StrictOrder(B, BidOrder(p))
  BY <1>3, <1>4, <1>5, <1>6 DEF StrictOrder
<1> QED
  BY <1>1, <1>7 DEF B

\* The candidates of a use case in order: every one once.
LEMMA CandidatesSorted ==
    ASSUME FleetAssumption, DemandAssumption, PanelOK(panel), NEW p \in Projects
    PROVE  LET n == Cardinality(Bids(panel, p))
               q == CandidateOrder(panel, p)
           IN  /\ n \in Nat /\ q \in [1..n -> Bids(panel, p)]
               /\ \A i, j \in 1..n : q[i].slot = q[j].slot => i = j
               /\ \A s \in Candidates(panel, p) : \E i \in 1..n : q[i].slot = s
<1> DEFINE B == Bids(panel, p)
           n == Cardinality(B)
           q == CandidateOrder(panel, p)
<1>1. IsFiniteSet(B) /\ StrictOrder(B, BidOrder(p))
  BY BidsOrdered
<1>2. \A x, y \in B : <<x, y>> \in BidOrder(p) <=> Before(x, y)
  BY DEF BidOrder
<1>3. q = CHOOSE r \in [1..n -> B] : \A i, j \in 1..n : i < j => Before(r[i], r[j])
  BY DEF CandidateOrder, Ranked
<1>4. \A x \in B : x.slot \in Candidates(panel, p) /\ x = [slot |-> x.slot, pm |-> EffectivePm(panel, x.slot, p)]
  <2> TAKE x \in B
  <2>1. x.slot \in Candidates(panel, p) /\ x = [slot |-> x.slot, pm |-> x.pm] /\ x.pm = EffectivePm(panel, x.slot, p)
    BY BidIs
  <2> QED
    BY <2>1
<1>5. \A s \in Candidates(panel, p) : \E x \in B : x.slot = s
  <2> TAKE s \in Candidates(panel, p)
  <2>1. [slot |-> s, pm |-> EffectivePm(panel, s, p)] \in B
    BY DEF Bids
  <2> QED
    BY <2>1
<1> HIDE DEF B, q
<1>6. \E r \in [1..n -> B] : \A i, j \in 1..n : i < j => Before(r[i], r[j])
  <2>1. PICK r \in Sorted(B, BidOrder(p)) : TRUE
    BY <1>1, SortedExists
  <2> QED
    BY <1>2, <2>1 DEF Sorted
<1>7. q \in [1..n -> B] /\ \A i, j \in 1..n : i < j => Before(q[i], q[j])
  BY <1>3, <1>6
<1>8. q \in Sorted(B, BidOrder(p))
  BY <1>2, <1>7 DEF Sorted
<1>9. n \in Nat /\ (\A i, j \in 1..n : q[i] = q[j] => i = j) /\ \A x \in B : \E i \in 1..n : q[i] = x
  BY <1>1, <1>8, SortedCovers
<1> HIDE DEF n
<1>10. \A i, j \in 1..n : q[i].slot = q[j].slot => i = j
  <2> SUFFICES ASSUME NEW i \in 1..n, NEW j \in 1..n, q[i].slot = q[j].slot
               PROVE  i = j
    OBVIOUS
  <2>1. q[i] \in B /\ q[j] \in B
    BY <1>7
  <2>2. q[i] = q[j]
    BY <1>4, <2>1
  <2> QED
    BY <1>9, <2>2
<1>11. \A s \in Candidates(panel, p) : \E i \in 1..n : q[i].slot = s
  BY <1>5, <1>9
<1> QED
  BY <1>7, <1>9, <1>10, <1>11 DEF B, n, q

-----------------------------------------------------------------------------
(* The candidates one after the other.                                      *)

\* What the loop over the candidates does with one of them.
Tried(p, b, x) == IF Affordable(p, x.pm) THEN BookOn(panel, p, x.slot, b) ELSE b

LEMMA TriedTyped ==
    ASSUME FleetAssumption, DemandAssumption, PanelOK(panel), NEW p \in Projects, NEW x \in Bids(panel, p), NEW b \in Bookings
    PROVE  Tried(p, b, x) \in Bookings
<1>1. x.slot \in Supplied(panel) /\ Capacity(panel, x.slot, p) > 0
  BY BidIs
<1>2. BookOn(panel, p, x.slot, b) \in Bookings
  BY <1>1, BookOnIs
<1> QED
  BY <1>2 DEF Tried

LEMMA LastOfInterval ==
    ASSUME NEW i \in Nat, i > 0
    PROVE  1..i # {} /\ Max(1..i) = i /\ (1..i) \ {i} = 1..(i - 1)
<1>1. i \in 1..i /\ \A y \in 1..i : i >= y
  OBVIOUS
<1>2. \A x \in 1..i : (\A y \in 1..i : x >= y) => x = i
  BY <1>1
<1>3. Max(1..i) \in 1..i /\ \A y \in 1..i : Max(1..i) >= y
  BY <1>1 DEF Max
<1> QED
  BY <1>1, <1>2, <1>3

\* The bookings bs the loop passes through.
Course(p, n, q, sup, bs) ==
    /\ bs \in [0..n -> Bookings]
    /\ bs[0] = NothingBooked(p, TotalDemand(p, q), sup)
    /\ \A i \in 1..n : bs[i] = Tried(p, bs[i - 1], q[i])
    /\ BookInOrder(panel, p, q, sup) = bs[n]

\* The loop passes through bookings, one per candidate.
LEMMA BookingRuns ==
    ASSUME FleetAssumption, DemandAssumption, PanelOK(panel), NEW p \in Projects, NEW n \in Nat,
           NEW q \in [1..n -> Bids(panel, p)], NEW sup,
           NothingBooked(p, TotalDemand(p, q), sup) \in Bookings
    PROVE  \E bs : Course(p, n, q, sup, bs)
<1> DEFINE S == 1..n
           V == Bookings
           v == NothingBooked(p, TotalDemand(p, q), sup)
           H == [x \in S \X V |-> Tried(p, x[2], q[x[1]])]
           pick == [T \in SUBSET S |-> Max(T)]
           c == CHOOSE g : g = [T \in SUBSET S |->
                  IF T = {} THEN v ELSE Tried(p, g[T \ {Max(T)}], q[Max(T)])]
<1>1. IsFiniteSet(S) /\ S \subseteq Nat /\ DOMAIN q = S
  <2>1. IsFiniteSet(S)
    BY FS_Interval
  <2>2. S \subseteq Nat
    OBVIOUS
  <2>3. DOMAIN q = S
    OBVIOUS
  <2> QED
    BY <2>1, <2>2, <2>3
<1>2. \A T \in SUBSET S : T # {} => Max(T) \in T
  <2> SUFFICES ASSUME NEW T \in SUBSET S, T # {}
               PROVE  \E x \in T : \A y \in T : x >= y
    BY DEF Max
  <2> DEFINE G == {n - y : y \in T}
  <2>1. G \in SUBSET Nat /\ G # {}
    <3>1. \A y \in T : n - y \in Nat
      OBVIOUS
    <3> QED
      BY <3>1
  <2>2. PICK m \in G : \A y \in G : m <= y
    BY <2>1, LeastNumber
  <2>3. PICK x \in T : m = n - x
    BY <2>2
  <2>4. \A y \in T : n - y \in G
    OBVIOUS
  <2>5. \A y \in T : x >= y
    <3> TAKE y \in T
    <3>1. n - x <= n - y
      BY <2>2, <2>3, <2>4
    <3> QED
      BY <3>1, <1>1
  <2> QED
    BY <2>5
<1>3. Picks(S, pick)
  BY <1>2 DEF Picks
<1>4. H \in [S \X V -> V] /\ v \in V
  BY TriedTyped
<1>5. PICK s \in [SUBSET S -> V] : \A T \in SUBSET S :
         s[T] = IF T = {} THEN v ELSE H[<<pick[T], s[T \ {pick[T]}]>>]
  <2> HIDE DEF H, pick, c, v, V, S
  <2>1. Sweeps(S, V, v, H, pick) # {}
    BY <1>1, <1>3, <1>4, SubsetRecursion
  <2> QED
    BY <2>1 DEF Sweeps
<1>6. \A T \in SUBSET S : s[T] = IF T = {} THEN v ELSE Tried(p, s[T \ {Max(T)}], q[Max(T)])
  <2> TAKE T \in SUBSET S
  <2>1. s[T] = IF T = {} THEN v ELSE H[<<pick[T], s[T \ {pick[T]}]>>]
    BY <1>5
  <2>2. T # {} => Max(T) \in S /\ s[T \ {Max(T)}] \in V
    BY <1>2
  <2> HIDE DEF V, v
  <2>3. T # {} => H[<<Max(T), s[T \ {Max(T)}]>>] = Tried(p, s[T \ {Max(T)}], q[Max(T)])
    BY <2>2
  <2> QED
    BY <2>1, <2>3
<1>7. s = [T \in SUBSET S |-> IF T = {} THEN v ELSE Tried(p, s[T \ {Max(T)}], q[Max(T)])]
  BY <1>6
<1>8. c = [T \in SUBSET S |-> IF T = {} THEN v ELSE Tried(p, c[T \ {Max(T)}], q[Max(T)])]
  BY <1>7
<1>9. BookInOrder(panel, p, q, sup) = c[S]
  BY <1>1 DEF BookInOrder, FoldLeft, MapThenFoldSet, Tried
<1> HIDE DEF c, v
<1>10. c[{}] = v
  BY <1>8
<1>11. \A i \in 1..n : c[1..i] = Tried(p, c[1..(i - 1)], q[i])
  <2> TAKE i \in 1..n
  <2>1. 1..i # {} /\ Max(1..i) = i /\ (1..i) \ {i} = 1..(i - 1) /\ 1..i \in SUBSET S
    BY LastOfInterval
  <2> QED
    BY <1>8, <2>1
<1> DEFINE N == {i \in Nat : i <= n => c[1..i] \in Bookings}
<1>12. 0 \in N
  <2>1. 1..0 = {}
    OBVIOUS
  <2> QED
    BY <1>4, <1>10, <2>1
<1>13. \A i \in Nat : i \in N => i + 1 \in N
  <2> SUFFICES ASSUME NEW i \in Nat, i + 1 <= n, c[1..i] \in Bookings
               PROVE  c[1..(i + 1)] \in Bookings
    OBVIOUS
  <2>1. i + 1 \in 1..n /\ (i + 1) - 1 = i
    OBVIOUS
  <2>2. c[1..(i + 1)] = Tried(p, c[1..i], q[i + 1])
    BY <1>11, <2>1
  <2>3. q[i + 1] \in Bids(panel, p)
    BY <2>1
  <2> QED
    BY <2>2, <2>3, TriedTyped
<1>14. Nat \subseteq N
  <2> HIDE DEF N
  <2> QED
    BY <1>12, <1>13, EveryNumber
<1> DEFINE bs == [i \in 0..n |-> c[1..i]]
<1>15. bs \in [0..n -> Bookings]
  BY <1>14
<1>16. bs[0] = v
  <2>1. 1..0 = {} /\ 0 \in 0..n
    OBVIOUS
  <2> QED
    BY <1>10, <2>1
<1>17. \A i \in 1..n : bs[i] = Tried(p, bs[i - 1], q[i])
  <2> TAKE i \in 1..n
  <2>1. i \in 0..n /\ i - 1 \in 0..n
    OBVIOUS
  <2> QED
    BY <1>11, <2>1
<1>18. BookInOrder(panel, p, q, sup) = bs[n]
  BY <1>9
<1> HIDE DEF bs
<1>19. Course(p, n, q, sup, bs)
  BY <1>15, <1>16, <1>17, <1>18 DEF v, Course
<1> QED
  BY <1>19

LEMMA PositiveAbove ==
    ASSUME NEW a \in Quantity, NEW b \in Quantity, AtMost(a, b), Positive(a)
    PROVE  Positive(b)
<1>1. a \in Fraction /\ b \in Fraction
  BY DEF Quantity
<1>2. ~AtMost(a, Zero)
  BY <1>1, PositiveIs
<1>3. ~AtMost(b, Zero)
  BY <1>1, <1>2, ZeroIs, Order
<1> QED
  BY <1>1, <1>3, PositiveIs

-----------------------------------------------------------------------------
(* What the loop over the candidates keeps.                                 *)

\* The deployments that have not been tried.
SlotUntouched(s, sup, c) ==
    /\ s \in Supplied(panel) => c.supply[s] = sup[s]
    /\ \A h \in Hours : c.took[s][h] = Zero

\* Those that were: their hours are split, and what is left met them full.
SlotDone(p, s, sup, c) ==
    /\ \A h \in Hours :
         /\ Plus(c.supply[s].remaining[h], Over(c.took[s][h], PerFrac(panel, s, p))) = sup[s].remaining[h]
         /\ sup[s].remaining[h] = Zero => c.took[s][h] = Zero
    /\ c.supply[s].used = Plus(sup[s].used, Over(AllHours(c.took[s]), PerFrac(panel, s, p)))
    /\ IF panel.batch[p]
       THEN Positive(c.pending) => \A h \in Hours : c.supply[s].remaining[h] = Zero
       ELSE \A h \in Hours : Positive(c.left[h]) => c.supply[s].remaining[h] = Zero

Delivered(c) == Total([s \in Slots |-> AllHours(c.took[s])], Slots)

Met(p, q, sup, i, c) ==
    /\ c \in Bookings
    /\ \A s \in Slots : (\A j \in 1..i : q[j].slot # s) => SlotUntouched(s, sup, c)
    /\ \A j \in 1..i : IF Affordable(p, q[j].pm) THEN SlotDone(p, q[j].slot, sup, c)
                       ELSE SlotUntouched(q[j].slot, sup, c)
    /\ panel.batch[p] => Plus(c.pending, Delivered(c)) = c.total

LEMMA DeliveredIs ==
    ASSUME FleetAssumption, NEW c \in Bookings
    PROVE  /\ \A s \in Slots : Summable(c.took[s], Hours) /\ AllHours(c.took[s]) \in Fraction
           /\ Delivered(c) \in Fraction
<1>1. \A s \in Slots : Summable(c.took[s], Hours)
  BY DEF Bookings, Deliveries, Quantity, Summable, FleetAssumption
<1>2. \A s \in Slots : AllHours(c.took[s]) \in Fraction
  BY <1>1, TotalIs DEF AllHours
<1> DEFINE f == [s \in Slots |-> AllHours(c.took[s])]
<1>3. Summable(f, Slots)
  BY <1>2 DEF Summable, FleetAssumption
<1> HIDE DEF f
<1>4. Total(f, Slots) \in Fraction
  BY <1>3, TotalIs
<1> QED
  BY <1>1, <1>2, <1>4 DEF Delivered, f

LEMMA NothingIs ==
    ASSUME FleetAssumption, PanelOK(panel), NEW p \in Projects, NEW total \in Quantity, NEW sup \in Supplies, NEW q
    PROVE  Met(p, q, sup, 0, NothingBooked(p, total, sup))
<1> DEFINE c == NothingBooked(p, total, sup)
<1>1. \A h \in Hours : Times(total, HourShare(p, h)) \in Quantity
  BY ShareIs, QuantityIs
<1>2. Zero \in Quantity
  BY QuantityIs
<1>3. /\ c.total = total /\ c.supply = sup
      /\ c.pending = IF panel.batch[p] THEN total ELSE Zero
      /\ c.took = [s \in Slots |-> [h \in Hours |-> Zero]]
  BY DEF NothingBooked
<1>4. c \in Bookings
  BY <1>1, <1>2 DEF NothingBooked, Bookings, Deliveries
<1> HIDE DEF c
<1>5. \A s \in Slots : SlotUntouched(s, sup, c)
  BY <1>3 DEF SlotUntouched
<1>6. panel.batch[p] => Plus(c.pending, Delivered(c)) = c.total
  <2> DEFINE f == [s \in Slots |-> AllHours(c.took[s])]
  <2>1. \A s \in Slots : AllHours(c.took[s]) = Zero
    <3> TAKE s \in Slots
    <3>1. \A h \in Hours : c.took[s][h] = Zero
      BY <1>3
    <3>2. IsFiniteSet(Hours)
      BY DEF FleetAssumption
    <3> DEFINE g == c.took[s]
    <3> HIDE DEF g
    <3>3. Total(g, Hours) = Zero
      BY <3>1, <3>2, TotalZero DEF g
    <3> QED
      BY <3>3 DEF AllHours, g
  <2>2. \A s \in Slots : f[s] = Zero
    BY <2>1
  <2> HIDE DEF f
  <2>3. Total(f, Slots) = Zero
    BY <2>2, TotalZero DEF FleetAssumption
  <2>4. Plus(total, Zero) = total
    BY Sums DEF Quantity
  <2> QED
    BY <1>3, <2>3, <2>4 DEF Delivered, f
<1> QED
  BY <1>4, <1>5, <1>6 DEF Met, c

LEMMA MetStep ==
    ASSUME FleetAssumption, DemandAssumption, PanelOK(panel), NEW p \in Projects, NEW sup \in Supplies,
           NEW n \in Nat, NEW q \in [1..n -> Bids(panel, p)],
           \A i, j \in 1..n : q[i].slot = q[j].slot => i = j,
           NEW i \in 1..n, NEW b, Met(p, q, sup, i - 1, b)
    PROVE  /\ Met(p, q, sup, i, Tried(p, b, q[i]))
           /\ Tried(p, b, q[i]).total = b.total
<1> DEFINE x == q[i]
           s == x.slot
           c == Tried(p, b, x)
<1>1. x \in Bids(panel, p) /\ s \in Slots /\ s \in Supplied(panel) /\ Capacity(panel, s, p) > 0
  BY BidIs
<1>2. /\ b \in Bookings
      /\ \A t \in Slots : (\A j \in 1..(i - 1) : q[j].slot # t) => SlotUntouched(t, sup, b)
      /\ \A j \in 1..(i - 1) : IF Affordable(p, q[j].pm) THEN SlotDone(p, q[j].slot, sup, b)
                               ELSE SlotUntouched(q[j].slot, sup, b)
      /\ panel.batch[p] => Plus(b.pending, Delivered(b)) = b.total
  BY DEF Met
<1>3. \A j \in 1..(i - 1) : j \in 1..n /\ q[j].slot # s /\ q[j].slot \in Slots /\ q[j].slot \in Supplied(panel)
  <2> TAKE j \in 1..(i - 1)
  <2>1. j \in 1..n /\ j # i
    OBVIOUS
  <2> QED
    BY <2>1, BidIs
<1>4. SlotUntouched(s, sup, b)
  BY <1>1, <1>2, <1>3
<1>5. \A j \in 1..i : j = i \/ j \in 1..(i - 1)
  OBVIOUS
<1>6. CASE ~Affordable(p, x.pm)
  <2>1. c = b
    BY <1>6 DEF Tried
  <2>2. Met(p, q, sup, i, b)
    BY <1>2, <1>4, <1>5, <1>6 DEF Met
  <2> QED
    BY <2>1, <2>2
<1>7. CASE Affordable(p, x.pm)
  <2>1. c = BookOn(panel, p, s, b)
    BY <1>7 DEF Tried
  <2>2. SlotBooked(p, s, b, c)
    <3>1. \A h \in Hours : b.took[s][h] = Zero
      BY <1>4 DEF SlotUntouched
    <3>2. s \in Supplied(panel) /\ Capacity(panel, s, p) > 0 /\ b \in Bookings
      BY <1>1, <1>2
    <3> HIDE DEF s
    <3>3. SlotBooked(p, s, b, BookOn(panel, p, s, b))
      BY <3>1, <3>2, BookOnIs
    <3> QED
      BY <2>1, <3>3
  <2> HIDE DEF c, s
  <2>3. /\ c \in Bookings /\ c.total = b.total
        /\ \A t \in Supplied(panel) \ {s} : c.supply[t] = b.supply[t]
        /\ \A t \in Slots \ {s} : c.took[t] = b.took[t]
        /\ \A h \in Hours :
             /\ Plus(c.supply[s].remaining[h], Over(c.took[s][h], PerFrac(panel, s, p))) = b.supply[s].remaining[h]
             /\ b.supply[s].remaining[h] = Zero => c.took[s][h] = Zero
        /\ c.supply[s].used = Plus(b.supply[s].used, Over(AllHours(c.took[s]), PerFrac(panel, s, p)))
    BY <2>2 DEF SlotBooked, HoursMoved
  <2>4. panel.batch[p] =>
          /\ Plus(c.pending, AllHours(c.took[s])) = b.pending
          /\ Positive(c.pending) => Positive(b.pending)
          /\ Positive(c.pending) => \A h \in Hours : c.supply[s].remaining[h] = Zero
    <3> SUFFICES ASSUME panel.batch[p]
                 PROVE  PendingIsFull(s, b, c) /\ (Positive(c.pending) => Positive(b.pending))
      BY DEF PendingIsFull
    <3>1. PendingIsFull(s, b, c)
      BY <2>2 DEF SlotBooked
    <3>2. c.pending \in Quantity /\ b.pending \in Quantity /\ AtMost(c.pending, b.pending)
      BY <1>2, <2>3, <3>1 DEF Bookings, PendingIsFull
    <3> QED
      BY <3>1, <3>2, PositiveAbove
  <2>5. ~panel.batch[p] => \A h \in Hours :
          /\ Positive(c.left[h]) => Positive(b.left[h])
          /\ Positive(c.left[h]) => c.supply[s].remaining[h] = Zero
    <3> SUFFICES ASSUME ~panel.batch[p], NEW h \in Hours
                 PROVE  /\ Positive(c.left[h]) => Positive(b.left[h])
                        /\ Positive(c.left[h]) => c.supply[s].remaining[h] = Zero
      OBVIOUS
    <3>1. AtMost(c.left[h], b.left[h]) /\ (Positive(c.left[h]) => c.supply[s].remaining[h] = Zero)
      BY <2>2 DEF SlotBooked, LeftIsFull
    <3>2. c.left[h] \in Quantity /\ b.left[h] \in Quantity
      BY <1>2, <2>3 DEF Bookings
    <3> QED
      BY <3>1, <3>2, PositiveAbove
  <2>6. SlotDone(p, s, sup, c)
    <3>1. s \in Supplied(panel)
      BY <1>1 DEF s
    <3> QED
      BY <1>4, <2>3, <2>4, <2>5, <3>1 DEF SlotDone, SlotUntouched, s
  <2>7. ASSUME NEW t \in Slots \ {s}
        PROVE  /\ SlotUntouched(t, sup, b) => SlotUntouched(t, sup, c)
               /\ t \in Supplied(panel) /\ SlotDone(p, t, sup, b) => SlotDone(p, t, sup, c)
    <3>1. (t \in Supplied(panel) => c.supply[t] = b.supply[t]) /\ c.took[t] = b.took[t]
      BY <2>3
    <3> QED
      BY <2>4, <2>5, <3>1 DEF SlotDone, SlotUntouched
  <2>8. ASSUME NEW t \in Slots, \A j \in 1..i : q[j].slot # t
        PROVE  SlotUntouched(t, sup, c)
    <3>1. t # s /\ \A j \in 1..(i - 1) : q[j].slot # t
      BY <2>8 DEF s
    <3> QED
      BY <1>2, <2>7, <3>1
  <2>9. ASSUME NEW j \in 1..i
        PROVE  IF Affordable(p, q[j].pm) THEN SlotDone(p, q[j].slot, sup, c)
               ELSE SlotUntouched(q[j].slot, sup, c)
    <3>1. CASE j = i
      BY <1>7, <2>6, <3>1 DEF s
    <3>2. CASE j \in 1..(i - 1)
      <4>1. q[j].slot \in Slots \ {s} /\ q[j].slot \in Supplied(panel)
        BY <1>3, <3>2 DEF s
      <4> QED
        BY <1>2, <2>7, <3>2, <4>1
    <3> QED
      BY <1>5, <3>1, <3>2
  <2>10. ASSUME panel.batch[p]
         PROVE  Plus(c.pending, Delivered(c)) = c.total
    <3> DEFINE f == [t \in Slots |-> AllHours(b.took[t])]
               g == [t \in Slots |-> AllHours(c.took[t])]
               d == AllHours(c.took[s])
    <3>1. s \in Slots
      BY <1>1 DEF s
    <3>2. d \in Fraction /\ c.pending \in Fraction /\ b.pending \in Fraction
      BY <1>2, <2>3, <3>1, DeliveredIs DEF Bookings, Quantity
    <3>3. Summable(f, Slots)
      BY <1>2, DeliveredIs DEF Summable, FleetAssumption
    <3>4. f[s] = Zero
      <4>1. \A h \in Hours : b.took[s][h] = Zero
        BY <1>4 DEF SlotUntouched, s
      <4> DEFINE k == b.took[s]
      <4> HIDE DEF k
      <4>2. Total(k, Hours) = Zero
        BY <4>1, TotalZero DEF k, FleetAssumption
      <4> QED
        BY <3>1, <4>2 DEF AllHours, k
    <3>5. \A t \in Slots \ {s} : g[t] = f[t]
      BY <2>3
    <3>6. g[s] = Plus(f[s], d)
      <4>1. Plus(Zero, d) = d
        BY <3>2, Sums
      <4> QED
        BY <3>1, <3>4, <4>1
    <3> HIDE DEF f, g, d, s
    <3>7. Total(g, Slots) = Plus(Total(f, Slots), d)
      <4>1. Raised(f, g, Slots, s, d)
        BY <3>1, <3>2, <3>5, <3>6 DEF Raised
      <4> QED
        BY <3>3, <4>1, TotalRaised
    <3>8. Total(f, Slots) \in Fraction
      BY <3>3, TotalIs
    <3>9. Plus(c.pending, Plus(Total(f, Slots), d)) = Plus(Plus(c.pending, d), Total(f, Slots))
      <4> DEFINE a == c.pending
                 e == Total(f, Slots)
      <4>1. a \in Fraction /\ e \in Fraction
        BY <3>2, <3>8
      <4> HIDE DEF a, e
      <4>2. Plus(e, d) = Plus(d, e) /\ Plus(Plus(a, d), e) = Plus(a, Plus(d, e))
        BY <3>2, <4>1, Sums
      <4>3. Plus(a, Plus(e, d)) = Plus(Plus(a, d), e)
        BY <4>2
      <4> QED
        BY <4>3 DEF a, e
    <3>10. Plus(c.pending, d) = b.pending /\ Plus(b.pending, Delivered(b)) = b.total
      BY <1>2, <2>4, <2>10 DEF d
    <3> QED
      BY <2>3, <3>7, <3>9, <3>10 DEF Delivered, f, g
  <2>11. Met(p, q, sup, i, c)
    BY <2>3, <2>8, <2>9, <2>10 DEF Met
  <2> QED
    BY <2>3, <2>11 DEF c
<1> QED
  BY <1>6, <1>7

\* What a use case takes, and what it leaves to those after it.
Wants(p, s) == s \in Candidates(panel, p) /\ Affordable(p, EffectivePm(panel, s, p))

Booked(p, sup, c) ==
    /\ c \in Bookings
    /\ \A s \in Slots : IF Wants(p, s) THEN SlotDone(p, s, sup, c) ELSE SlotUntouched(s, sup, c)
    /\ panel.batch[p] => Plus(c.pending, Delivered(c)) = c.total

LEMMA BookIs ==
    ASSUME FleetAssumption, DemandAssumption, PanelOK(panel), NEW p \in Projects, NEW sup \in Supplies
    PROVE  Booked(p, sup, Book(panel, p, sup))
<1> DEFINE n == Cardinality(Bids(panel, p))
           q == CandidateOrder(panel, p)
           total == TotalDemand(p, q)
           v == NothingBooked(p, total, sup)
           c == Book(panel, p, sup)
<1>1. /\ n \in Nat /\ q \in [1..n -> Bids(panel, p)]
      /\ \A i, j \in 1..n : q[i].slot = q[j].slot => i = j
      /\ \A s \in Candidates(panel, p) : \E i \in 1..n : q[i].slot = s
  BY CandidatesSorted
<1>2. total \in Quantity
  BY DemandIs
<1>3. c = BookInOrder(panel, p, q, sup)
  BY DEF Book
<1> HIDE DEF n, q, total
<1>4. Met(p, q, sup, 0, v)
  BY <1>2, NothingIs
<1>5. NothingBooked(p, TotalDemand(p, q), sup) \in Bookings
  BY <1>4 DEF Met, total, q
<1>6. PICK bs : Course(p, n, q, sup, bs)
  <2>1. n \in Nat /\ q \in [1..n -> Bids(panel, p)]
    BY <1>1
  <2> HIDE DEF v, c
  <2> QED
    BY <1>5, <2>1, BookingRuns
<1> DEFINE N == {i \in Nat : i <= n => Met(p, q, sup, i, bs[i])}
<1>7. 0 \in N
  BY <1>4, <1>6 DEF total, q, Course
<1>8. \A i \in Nat : i \in N => i + 1 \in N
  <2> SUFFICES ASSUME NEW i \in Nat, i + 1 <= n, Met(p, q, sup, i, bs[i])
               PROVE  Met(p, q, sup, i + 1, bs[i + 1])
    BY <1>1
  <2> DEFINE k == i + 1
  <2>1. k \in 1..n /\ k - 1 = i
    BY <1>1
  <2>2. bs[k] = Tried(p, bs[i], q[k])
    BY <1>6, <2>1 DEF Course
  <2> HIDE DEF k
  <2>3. Met(p, q, sup, k - 1, bs[i])
    BY <2>1
  <2>4. Met(p, q, sup, k, Tried(p, bs[i], q[k]))
    BY <1>1, <2>1, <2>3, MetStep
  <2> QED
    BY <2>2, <2>4 DEF k
<1>9. Nat \subseteq N
  <2> HIDE DEF N
  <2> QED
    BY <1>7, <1>8, EveryNumber
<1>10. Met(p, q, sup, n, c)
  BY <1>1, <1>3, <1>6, <1>9 DEF Course
<1> HIDE DEF c
<1>11. ASSUME NEW s \in Slots
       PROVE  IF Wants(p, s) THEN SlotDone(p, s, sup, c) ELSE SlotUntouched(s, sup, c)
  <2>1. CASE \E i \in 1..n : q[i].slot = s
    <3>1. PICK i \in 1..n : q[i].slot = s
      BY <2>1
    <3>2. q[i] \in Bids(panel, p)
      BY <1>1
    <3>3. s \in Candidates(panel, p) /\ q[i].pm = EffectivePm(panel, s, p)
      BY <3>1, <3>2, BidIs
    <3> QED
      BY <1>10, <3>1, <3>3 DEF Met, Wants
  <2>2. CASE ~\E i \in 1..n : q[i].slot = s
    <3>1. s \notin Candidates(panel, p)
      BY <1>1, <2>2
    <3> QED
      BY <1>10, <2>2, <3>1 DEF Met, Wants
  <2> QED
    BY <2>1, <2>2
<1> QED
  BY <1>10, <1>11 DEF Booked, Met, c

-----------------------------------------------------------------------------
(* The row of a use case.                                                   *)

\* Only the part where f is not zero counts.
LEMMA TotalRest ==
    ASSUME NEW f, NEW S, Summable(f, S), NEW C \in SUBSET S, \A x \in S \ C : f[x] = Zero
    PROVE  Total(f, C) = Total(f, S)
<1> DEFINE P == {T \in SUBSET S : Total(f, T \cap C) = Total(f, T)}
<1>1. {} \in P
  <2>1. {} \cap C = {}
    OBVIOUS
  <2> QED
    BY <2>1
<1>2. ASSUME NEW T \in SUBSET S, T # {}, \A x \in T : T \ {x} \in P
      PROVE  T \in P
  <2>1. PICK x \in T : TRUE
    BY <1>2
  <2>2. Total(f, (T \ {x}) \cap C) = Total(f, T \ {x})
    BY <1>2
  <2>3. Summable(f, T) /\ Summable(f, T \cap C) /\ Summable(f, T \ {x})
    BY SummablePart
  <2>4. Total(f, T) = Plus(f[x], Total(f, T \ {x}))
    BY <2>3, TotalSplit
  <2>5. CASE x \in C
    <3>1. x \in T \cap C /\ (T \cap C) \ {x} = (T \ {x}) \cap C
      BY <2>5
    <3>2. Total(f, T \cap C) = Plus(f[x], Total(f, (T \cap C) \ {x}))
      BY <2>3, <3>1, TotalSplit
    <3> QED
      BY <2>2, <2>4, <3>1, <3>2
  <2>6. CASE x \notin C
    <3>1. T \cap C = (T \ {x}) \cap C /\ f[x] = Zero
      BY <2>6
    <3>2. Total(f, T \ {x}) \in Fraction
      BY <2>3, TotalIs
    <3>3. Plus(Zero, Total(f, T \ {x})) = Total(f, T \ {x})
      BY <3>2, Sums
    <3> QED
      BY <2>2, <2>4, <3>1, <3>3
  <2> QED
    BY <2>5, <2>6
<1> HIDE DEF P
<1>3. SUBSET S \subseteq P
  BY <1>1, <1>2, EverySubset DEF Summable
<1>4. S \cap C = C /\ S \in SUBSET S
  OBVIOUS
<1> QED
  BY <1>3, <1>4 DEF P

Fates == {"spilled", "leaked", "destroyed"}

LEMMA RowIs ==
    ASSUME NEW p, NEW c
    PROVE  LET r == Row(panel, p, c)
               fate == Fate(panel, p, Served(c), CloudRoute(p))
               worth == IF CloudRoute(p) = NoCloud THEN Whole(Demand[p].wtp) ELSE CloudRoute(p)
               unserved == Minus(c.total, Served(c))
           IN  /\ fate \in Fates
               /\ r.total = c.total /\ r.served = Served(c) /\ r.took = c.took /\ r.left = c.left
               /\ \A f \in Fates : r[f] = IF f = fate THEN unserved ELSE Zero
               /\ r.value = Times(Served(c), worth)
               /\ r.cost = CostOf(panel, p, c.took)
<1> DEFINE r == Row(panel, p, c)
           fate == Fate(panel, p, Served(c), CloudRoute(p))
           worth == IF CloudRoute(p) = NoCloud THEN Whole(Demand[p].wtp) ELSE CloudRoute(p)
           unserved == Minus(c.total, Served(c))
<1>1. fate \in Fates
  BY DEF Fate, Fates
<1>2. r = RowOf(panel, p, c, Served(c), unserved, fate, worth)
  BY DEF Row, RowNextTo
<1> HIDE DEF r, fate, worth, unserved
<1>3. /\ r.total = c.total /\ r.served = Served(c) /\ r.took = c.took /\ r.left = c.left
      /\ r.value = Times(Served(c), worth)
      /\ r.cost = CostOf(panel, p, c.took)
      /\ r.spilled = (IF "spilled" = fate THEN unserved ELSE Zero)
      /\ r.leaked = (IF "leaked" = fate THEN unserved ELSE Zero)
      /\ r.destroyed = (IF "destroyed" = fate THEN unserved ELSE Zero)
  BY <1>2 DEF RowOf
<1>4. \A f \in Fates : r[f] = IF f = fate THEN unserved ELSE Zero
  BY <1>3 DEF Fates
<1> QED
  BY <1>1, <1>3, <1>4 DEF r, fate, worth, unserved

LEMMA ServedIs ==
    ASSUME FleetAssumption, NEW c \in Bookings
    PROVE  Served(c) = Delivered(c) /\ Served(c) \in Fraction
<1> DEFINE F == c.took
           G == [h \in Hours |-> [s \in Slots |-> F[s][h]]]
           rows == [s \in Slots |-> Total(F[s], Hours)]
           cols == [h \in Hours |-> Total([s \in Slots |-> F[s][h]], Slots)]
<1>1. IsFiniteSet(Slots) /\ IsFiniteSet(Hours) /\ \A s \in Slots, h \in Hours : F[s][h] \in Fraction
  BY DEF FleetAssumption, Bookings, Deliveries, Quantity
<1>2. Served(c) = Total(cols, Hours)
  BY DEF Served, AllHours
<1>3. Delivered(c) = Total(rows, Slots)
  BY DEF Delivered, AllHours
<1>4. Delivered(c) \in Fraction
  BY DeliveredIs
<1>5. \A s \in Slots, h \in Hours : G[h][s] = F[s][h]
  OBVIOUS
<1>6. \A h \in Hours : cols[h] = Total(G[h], Slots)
  OBVIOUS
<1>7. \A s \in Slots : rows[s] = Total(F[s], Hours)
  OBVIOUS
<1> HIDE DEF F, G, rows, cols
<1>8. Total(rows, Slots) = Total(cols, Hours)
  <2>1. Transposed(F, G, Slots, Hours)
    BY <1>1, <1>5 DEF Transposed
  <2>2. RowTotals(F, Slots, Hours, rows) /\ RowTotals(G, Hours, Slots, cols)
    BY <1>6, <1>7 DEF RowTotals
  <2> QED
    BY <2>1, <2>2, TotalSwap
<1> QED
  BY <1>2, <1>3, <1>4, <1>8

\* Served or one fate: nothing is lost or counted twice.
LEMMA FateOf ==
    ASSUME NEW r, NEW total \in Fraction, NEW served \in Fraction, NEW fate \in Fates,
           \A f \in Fates : r[f] = IF f = fate THEN Minus(total, served) ELSE Zero
    PROVE  /\ total = Plus(served, Total([f \in Fates |-> r[f]], Fates))
           /\ Cardinality({f \in Fates : Positive(r[f])}) <= 1
<1> DEFINE u == Minus(total, served)
           g == [f \in Fates |-> r[f]]
           z == [f \in Fates |-> Zero]
<1>1. u \in Fraction /\ Plus(served, u) = total /\ Plus(Zero, u) = u
  BY Sums
<1>2. IsFiniteSet(Fates)
  <2>1. Fates = ({"spilled"} \cup {"leaked"}) \cup {"destroyed"}
    BY DEF Fates
  <2> QED
    BY <2>1, FS_Singleton, FS_AddElement
<1>3. g[fate] = Plus(z[fate], u) /\ \A f \in Fates \ {fate} : g[f] = z[f]
  BY <1>1
<1>4. \A f \in Fates : z[f] = Zero
  OBVIOUS
<1> HIDE DEF g, z
<1>5. Total(z, Fates) = Zero
  BY <1>2, <1>4, TotalZero
<1>6. Summable(z, Fates)
  BY <1>2, <1>4, ZeroIs DEF Summable
<1>7. Total(g, Fates) = Plus(Total(z, Fates), u)
  BY <1>1, <1>3, <1>6, TotalRaised DEF Raised
<1>8. total = Plus(served, Total(g, Fates))
  BY <1>1, <1>5, <1>7
<1>9. Cardinality({f \in Fates : Positive(r[f])}) <= 1
  <2> DEFINE T == {f \in Fates : Positive(r[f])}
  <2>1. ~Positive(Zero)
    BY ZeroIs, Order, PositiveIs
  <2>2. T \in SUBSET {fate}
    BY <2>1
  <2>3. IsFiniteSet({fate}) /\ Cardinality({fate}) = 1
    BY FS_Singleton
  <2> HIDE DEF T
  <2>4. Cardinality(T) <= Cardinality({fate})
    BY <2>2, <2>3, FS_Subset
  <2> QED
    BY <2>3, <2>4 DEF T
<1> QED
  BY <1>8, <1>9 DEF g

\* Batch demand that is not pending was served.
LEMMA BatchServed ==
    ASSUME FleetAssumption, DemandAssumption, PanelOK(panel), NEW p \in Projects, NEW sup, NEW c, Booked(p, sup, c), panel.batch[p]
    PROVE  Served(c) = c.total \/ (Below(Served(c), c.total) /\ Positive(c.pending))
<1>1. c \in Bookings /\ Plus(c.pending, Delivered(c)) = c.total
  BY DEF Booked
<1> DEFINE a == c.pending
           e == Served(c)
           t == c.total
<1>2. a \in Quantity /\ a \in Fraction /\ t \in Fraction /\ e \in Fraction /\ Plus(a, e) = t
  BY <1>1, ServedIs DEF Bookings, Quantity
<1> HIDE DEF a, e, t
<1>3. CASE a = Zero
  <2>1. Plus(Zero, e) = e
    BY <1>2, Sums
  <2> QED
    BY <1>2, <1>3, <2>1 DEF e, t
<1>4. CASE a # Zero
  <2>1. Positive(a)
    BY <1>2, <1>4, QuantityIs
  <2>2. Plus(a, e) = Plus(e, a)
    BY <1>2, Sums
  <2>3. AtMost(t, e) => AtMost(Plus(a, e), Plus(Zero, e))
    BY <1>2, ZeroIs, Sums
  <2>4. ~AtMost(a, Zero)
    BY <1>2, <2>1, PositiveIs
  <2>5. ~AtMost(Plus(a, e), Plus(Zero, e))
    BY <1>2, <2>4, ZeroIs, Order
  <2> QED
    BY <2>1, <2>3, <2>5 DEF Below, a, e, t
<1> QED
  BY <1>3, <1>4

\* What is not affordable is not bought, so the cost is under any worth above the cap.
LEMMA CostUnderWorth ==
    ASSUME FleetAssumption, DemandAssumption, PolicyOK, PanelOK(panel), panel.price_driven,
           NEW p \in Projects, NEW sup, NEW c, Booked(p, sup, c),
           NEW worth \in Fraction, AtMost(PriceCap(p), worth)
    PROVE  AtMost(Row(panel, p, c).cost, Times(Served(c), worth))
<1> DEFINE C == Candidates(panel, p)
           A == [s \in Slots |-> AllHours(c.took[s])]
           f == [s \in C |-> Times(Times(AllHours(c.took[s]), TokenMult(panel, s, p)), InternalPm(panel, s, p))]
           g == [s \in Slots |-> Times(A[s], worth)]
<1>1. PriceCap(p) \in Fraction
  BY CapIs
<1>2. c \in Bookings /\ \A s \in Slots : Wants(p, s) \/ SlotUntouched(s, sup, c)
  BY DEF Booked
<1>3. /\ IsFiniteSet(Slots) /\ C \in SUBSET Slots /\ IsFiniteSet(C)
      /\ \A s \in C : Capacity(panel, s, p) > 0
  <2>1. IsFiniteSet(Slots) /\ C \in SUBSET Slots /\ \A s \in C : Capacity(panel, s, p) > 0
    BY CandidateIs DEF FleetAssumption
  <2> HIDE DEF C
  <2> QED
    BY <2>1, FS_Subset
<1>4. Row(panel, p, c).cost = Total(f, C)
  BY RowIs DEF CostOf
<1>5. \A s \in Slots : A[s] \in Quantity /\ Summable(c.took[s], Hours)
  <2> TAKE s \in Slots
  <2>1. Summable(c.took[s], Hours) /\ \A h \in Hours : AtMost(Zero, c.took[s][h])
    BY <1>2, DeliveredIs DEF Bookings, Deliveries, Quantity
  <2>2. AllHours(c.took[s]) \in Fraction /\ AtMost(Zero, AllHours(c.took[s]))
    BY <2>1, TotalIs, TotalNotNegative DEF AllHours
  <2> QED
    BY <2>1, <2>2 DEF Quantity
<1> HIDE DEF C
<1>6. ASSUME NEW s \in C
      PROVE  f[s] \in Fraction /\ g[s] \in Fraction /\ AtMost(f[s], g[s])
  <2> DEFINE a == AllHours(c.took[s])
             m == TokenMult(panel, s, p)
             i == InternalPm(panel, s, p)
             e == EffectivePm(panel, s, p)
  <2>1. s \in Slots /\ Capacity(panel, s, p) > 0
    BY <1>3
  <2>2. a \in Quantity /\ a \in Fraction /\ m \in Fraction /\ i \in Fraction /\ e \in Fraction
    BY <1>5, <2>1, TokenMultIs, PriceIs DEF Quantity
  <2>3. e = Times(i, m)
    BY DEF EffectivePm
  <2>4. f[s] = Times(Times(a, m), i) /\ g[s] = Times(a, worth)
    BY <2>1
  <2>5. AllHours(c.took[s]) = Zero \/ AtMost(e, worth)
    <3>1. CASE Wants(p, s)
      <4>1. AtMost(e, PriceCap(p))
        BY <3>1 DEF Wants, Affordable
      <4> HIDE DEF e
      <4> QED
        BY <1>1, <2>2, <4>1, Order
    <3>2. CASE SlotUntouched(s, sup, c)
      <4> DEFINE k == c.took[s]
      <4>1. \A h \in Hours : k[h] = Zero
        BY <3>2 DEF SlotUntouched
      <4> HIDE DEF k
      <4>2. Total(k, Hours) = Zero
        BY <4>1, TotalZero DEF FleetAssumption
      <4> QED
        BY <4>2 DEF AllHours, k
    <3> QED
      BY <1>2, <2>1, <3>1, <3>2
  <2>6. a = Zero \/ AtMost(e, worth)
    BY <2>5
  <2> HIDE DEF a, m, i, e, f, g
  <2>7. f[s] = Times(a, e)
    <3>1. Times(Times(a, m), i) = Times(a, Times(m, i)) /\ Times(m, i) = Times(i, m)
      BY <2>2, Products
    <3> QED
      BY <2>3, <2>4, <3>1
  <2>8. f[s] \in Fraction /\ g[s] \in Fraction
    BY <1>1, <2>2, <2>4, <2>7, Products
  <2>9. CASE a = Zero
    <3>1. Times(Zero, e) = Zero /\ Times(Zero, worth) = Zero /\ AtMost(Zero, Zero)
      BY <1>1, <2>2, ZeroIs, Products, Order
    <3> QED
      BY <2>4, <2>7, <2>8, <2>9, <3>1
  <2>10. CASE AtMost(e, worth)
    <3>1. AtMost(Times(e, a), Times(worth, a))
      BY <1>1, <2>2, <2>10, Scaling DEF Quantity
    <3>2. Times(e, a) = Times(a, e) /\ Times(worth, a) = Times(a, worth)
      BY <1>1, <2>2, Products
    <3> QED
      BY <2>4, <2>7, <2>8, <3>1, <3>2
  <2> QED
    BY <2>6, <2>8, <2>9, <2>10
<1>7. ASSUME NEW s \in Slots \ C
      PROVE  g[s] = Zero
  <2>1. SlotUntouched(s, sup, c)
    BY <1>2 DEF Wants, C
  <2> DEFINE k == c.took[s]
  <2>2. \A h \in Hours : k[h] = Zero
    BY <2>1 DEF SlotUntouched
  <2> HIDE DEF k
  <2>3. Total(k, Hours) = Zero
    BY <2>2, TotalZero DEF FleetAssumption
  <2>4. A[s] = Zero
    BY <2>3 DEF AllHours, k
  <2>5. Times(Zero, worth) = Zero
    BY <1>1, Products
  <2> QED
    BY <2>4, <2>5
<1>8. Summable(A, Slots) /\ \A s \in Slots : g[s] = Times(A[s], worth)
  BY <1>3, <1>5 DEF Summable, Quantity
<1>9. Total(A, Slots) = Served(c) /\ Served(c) \in Fraction
  BY <1>2, ServedIs DEF Delivered
<1> HIDE DEF A, f, g
<1>10. Total(g, Slots) = Times(Served(c), worth)
  <2>1. Total(g, Slots) = Times(Total(A, Slots), worth)
    <3> HIDE FleetAssumption, DemandAssumption
    <3> QED
      BY <1>8, TotalTimes
  <2> QED
    BY <1>9, <2>1
<1>11. AtMost(Total(f, C), Total(g, C))
  <2>1. Summable(f, C) /\ Summable(g, C)
    BY <1>3, <1>6 DEF Summable
  <2> QED
    BY <1>6, <2>1, TotalAtMost
<1>12. Total(g, C) = Total(g, Slots)
  <2>1. Summable(g, Slots)
    BY <1>3, <1>6, <1>7, ZeroIs DEF Summable
  <2> QED
    BY <1>3, <1>7, <2>1, TotalRest
<1> QED
  BY <1>4, <1>10, <1>11, <1>12

-----------------------------------------------------------------------------
(* One use case more.                                                       *)

\* What a row promises on its own.
RowOK(p, r) ==
    /\ r.took \in Deliveries
    /\ r.left \in [Hours -> Quantity]
    /\ r.total = Plus(r.served, Total([f \in Fates |-> r[f]], Fates))
    /\ Cardinality({f \in Fates : Positive(r[f])}) <= 1
    /\ panel.price_driven =>
         /\ AtMost(r.cost, Times(r.served, Whole(Demand[p].wtp)))
         /\ CloudRoute(p) # NoCloud => AtMost(r.cost, Times(r.served, CloudRoute(p)))
    /\ panel.batch[p] => r.served = r.total \/ Below(r.served, r.total)

LEMMA BookedRow ==
    ASSUME FleetAssumption, DemandAssumption, PolicyOK, PanelOK(panel),
           NEW p \in Projects, NEW sup, NEW c, Booked(p, sup, c)
    PROVE  RowOK(p, Row(panel, p, c))
<1> DEFINE r == Row(panel, p, c)
           fate == Fate(panel, p, Served(c), CloudRoute(p))
<1>1. c \in Bookings /\ c.total \in Fraction /\ Served(c) \in Fraction
  BY ServedIs DEF Booked, Bookings, Quantity
<1>2. /\ fate \in Fates
      /\ r.total = c.total /\ r.served = Served(c) /\ r.took = c.took /\ r.left = c.left
      /\ \A f \in Fates : r[f] = IF f = fate THEN Minus(c.total, Served(c)) ELSE Zero
  BY RowIs
<1>3. panel.price_driven =>
        /\ AtMost(r.cost, Times(Served(c), Whole(Demand[p].wtp)))
        /\ CloudRoute(p) # NoCloud => AtMost(r.cost, Times(Served(c), CloudRoute(p)))
  BY CapIs, CostUnderWorth
<1>4. panel.batch[p] => Served(c) = c.total \/ Below(Served(c), c.total)
  BY BatchServed
<1> HIDE DEF r, fate
<1>5. /\ c.total = Plus(Served(c), Total([f \in Fates |-> r[f]], Fates))
      /\ Cardinality({f \in Fates : Positive(r[f])}) <= 1
  <2> HIDE FleetAssumption, DemandAssumption
  <2> QED
    BY <1>1, <1>2, FateOf
<1>6. r.took \in Deliveries /\ r.left \in [Hours -> Quantity]
  BY <1>1, <1>2 DEF Bookings
<1>7. RowOK(p, r)
  BY <1>2, <1>3, <1>4, <1>5, <1>6 DEF RowOK
<1> QED
  BY <1>7 DEF r

\* What one use case leaves of an hour.
LEMMA HourLeft ==
    ASSUME FleetAssumption, DemandAssumption, PanelOK(panel), NEW p \in Projects, NEW sup \in Supplies,
           NEW c, Booked(p, sup, c), NEW s \in Supplied(panel), NEW h \in Hours
    PROVE  /\ sup[s].remaining[h] = Zero => c.took[s][h] = Zero /\ c.supply[s].remaining[h] = Zero
           /\ s \in Candidates(panel, p) =>
                /\ c.took[s][h] \in Fraction /\ Over(c.took[s][h], PerFrac(panel, s, p)) \in Fraction
                /\ Plus(c.supply[s].remaining[h], Over(c.took[s][h], PerFrac(panel, s, p))) = sup[s].remaining[h]
           /\ s \notin Candidates(panel, p) => c.supply[s] = sup[s]
<1> DEFINE rate == PerFrac(panel, s, p)
           t == c.took[s][h]
           now == c.supply[s].remaining[h]
           was == sup[s].remaining[h]
<1>0. s \in Slots
  BY SuppliedIs
<1>1. t \in Fraction /\ now \in Fraction /\ was \in Fraction
  BY <1>0 DEF Booked, Bookings, Deliveries, Supplies, SupplyRow, Quantity
<1>2. s \in Candidates(panel, p) => rate \in Fraction /\ Positive(rate)
  BY CandidateIs, RateIs
<1>3. CASE Wants(p, s)
  <2>1. s \in Candidates(panel, p)
    BY <1>3 DEF Wants
  <2>2. Plus(now, Over(t, rate)) = was /\ (was = Zero => t = Zero)
    BY <1>0, <1>3 DEF Booked, SlotDone
  <2> HIDE DEF rate, t, now, was
  <2>3. Over(t, rate) \in Fraction /\ Over(Zero, rate) = Zero /\ Plus(now, Zero) = now
    BY <1>1, <1>2, <2>1, ZeroIs, Quotients, Sums
  <2>4. was = Zero => now = Zero
    BY <2>2, <2>3
  <2> QED
    BY <1>1, <2>1, <2>2, <2>3, <2>4 DEF rate, t, now, was
<1>4. CASE ~Wants(p, s)
  <2>1. c.supply[s] = sup[s] /\ t = Zero
    BY <1>0, <1>4 DEF Booked, SlotUntouched
  <2>2. now = was
    BY <2>1
  <2> HIDE DEF rate, t, now, was
  <2>3. s \in Candidates(panel, p) => Over(Zero, rate) = Zero
    BY <1>2, ZeroIs, Quotients
  <2>4. Plus(now, Zero) = now
    BY <1>1, ZeroIs, Sums
  <2> QED
    BY <1>1, <2>1, <2>2, <2>3, <2>4, ZeroIs DEF rate, t, now, was
<1> QED
  BY <1>3, <1>4

LEMMA TimeCharged ==
    ASSUME FleetAssumption, DemandAssumption, PanelOK(panel), NEW p \in Projects, NEW sup \in Supplies, NEW c, Booked(p, sup, c),
           NEW s \in Supplied(panel)
    PROVE  Plus(c.supply[s].used, AllHours(c.supply[s].remaining)) = Plus(sup[s].used, AllHours(sup[s].remaining))
<1>0. s \in Slots
  BY SuppliedIs
<1>1. CASE ~Wants(p, s)
  BY <1>0, <1>1 DEF Booked, SlotUntouched
<1>2. CASE Wants(p, s)
  <2> DEFINE rate == PerFrac(panel, s, p)
             part == <<rate[2], rate[1]>>
             T == c.took[s]
             N == c.supply[s].remaining
             W == sup[s].remaining
             spent == [h \in Hours |-> Over(T[h], rate)]
             u == sup[s].used
  <2>1. s \in Candidates(panel, p)
    BY <1>2 DEF Wants
  <2>2. rate \in Fraction /\ Positive(rate)
    BY <2>1, CandidateIs, RateIs
  <2>3. part \in Fraction
    <3> HIDE DEF rate
    <3> QED
      BY <2>2, Turned
  <2>4. IsFiniteSet(Hours) /\ \A h \in Hours : T[h] \in Fraction /\ N[h] \in Fraction
    <3>1. IsFiniteSet(Hours)
      BY DEF FleetAssumption
    <3>2. c.took \in Deliveries /\ c.supply \in Supplies
      BY DEF Booked, Bookings
    <3>3. T \in [Hours -> Quantity] /\ N \in [Hours -> Quantity]
      BY <1>0, <3>2 DEF Deliveries, Supplies, SupplyRow
    <3> HIDE DEF T, N
    <3> QED
      BY <3>1, <3>3 DEF Quantity
  <2>5. \A h \in Hours : spent[h] = Times(T[h], part)
    BY DEF Over
  <2>6. \A h \in Hours : W[h] = Plus(N[h], spent[h]) /\ spent[h] \in Fraction
    <3> TAKE h \in Hours
    <3>1. /\ Over(c.took[s][h], PerFrac(panel, s, p)) \in Fraction
          /\ Plus(c.supply[s].remaining[h], Over(c.took[s][h], PerFrac(panel, s, p))) = sup[s].remaining[h]
      BY <2>1, HourLeft
    <3> QED
      BY <3>1
  <2>7. u \in Fraction
    BY DEF Supplies, SupplyRow
  <2>8. c.supply[s].used = Plus(u, Over(Total(T, Hours), rate))
    BY <1>0, <1>2 DEF Booked, SlotDone, AllHours
  <2>9. Over(Total(T, Hours), rate) = Times(Total(T, Hours), part)
    BY DEF Over
  <2>10. AllHours(N) = Total(N, Hours) /\ AllHours(W) = Total(W, Hours)
    BY DEF AllHours
  <2> HIDE DEF rate, part, T, N, W, spent, u
  <2>11. Summable(T, Hours) /\ Summable(N, Hours) /\ Summable(spent, Hours)
    BY <2>4, <2>6 DEF Summable
  <2>12. Total(spent, Hours) = Times(Total(T, Hours), part)
    BY <2>3, <2>5, <2>11, TotalTimes
  <2>13. Total(W, Hours) = Plus(Total(N, Hours), Total(spent, Hours))
    BY <2>6, <2>11, TotalPlus
  <2>14. Total(N, Hours) \in Fraction /\ Total(spent, Hours) \in Fraction
    BY <2>11, TotalIs
  <2> DEFINE a == Total(N, Hours)
             e == Total(spent, Hours)
  <2>15. Plus(Plus(u, e), a) = Plus(u, Plus(a, e))
    <3> HIDE DEF a, e
    <3>1. a \in Fraction /\ e \in Fraction
      BY <2>14 DEF a, e
    <3>2. Plus(Plus(u, e), a) = Plus(u, Plus(e, a)) /\ Plus(e, a) = Plus(a, e)
      BY <2>7, <3>1, Sums
    <3> QED
      BY <3>2
  <2> QED
    BY <2>8, <2>9, <2>10, <2>12, <2>13, <2>15 DEF N, W, u
<1> QED
  BY <1>1, <1>2

\* The supply of a new day.
LEMMA FreshIs ==
    ASSUME FleetAssumption
    PROVE  /\ Cardinality(Hours) \in Nat /\ Cardinality(Hours) > 0
           /\ FreshSupply(panel) \in Supplies
           /\ \A s \in Supplied(panel) :
                /\ \A h \in Hours : FreshSupply(panel)[s].remaining[h] = Frac(1, Cardinality(Hours))
                /\ Plus(FreshSupply(panel)[s].used, AllHours(FreshSupply(panel)[s].remaining)) = Whole(1)
<1> DEFINE n == Cardinality(Hours)
           share == Frac(1, n)
           rem == [h \in Hours |-> share]
<1>1. n \in Nat /\ n > 0
  BY FS_CardinalityType, FS_EmptySet DEF FleetAssumption
<1>2. share \in Quantity /\ share \in Fraction
  <2> HIDE DEF n
  <2> QED
    BY <1>1, PartIs DEF Quantity
<1>3. Zero \in Quantity /\ Zero \in Fraction
  BY ZeroIs, Order DEF Quantity
<1>4. \A s \in Supplied(panel) : FreshSupply(panel)[s] = [remaining |-> rem, used |-> Zero, served |-> Zero]
  BY DEF FreshSupply
<1>5. FreshSupply(panel) \in Supplies
  BY <1>2, <1>3 DEF FreshSupply, Supplies, SupplyRow
<1>6. Times(Whole(n), share) = Whole(1)
  <2> HIDE DEF n
  <2>1. Whole(n) \in Fraction /\ Is(Whole(n), n, 1)
    BY <1>1, WholeIs
  <2>2. Is(share, 1, n)
    BY <1>1, FracIs
  <2>3. Times(Whole(n), share) \in Fraction /\ Is(Times(Whole(n), share), n * 1, 1 * n)
    BY <1>1, <1>2, <2>1, <2>2, ProductIs
  <2>4. Whole(1) \in Fraction /\ Is(Whole(1), n * 1, 1 * n)
    <3>1. Whole(1) \in Fraction /\ Whole(1)[1] = 1 /\ Whole(1)[2] = 1
      BY WholeIs
    <3> QED
      BY <1>1, <3>1 DEF Is
  <2> HIDE DEF share
  <2> QED
    BY <1>1, <2>3, <2>4, OneNumber
<1>7. Total(rem, Hours) = Whole(1)
  <2>1. \A h \in Hours : rem[h] = share
    OBVIOUS
  <2> HIDE DEF rem, share
  <2>2. Total(rem, Hours) = Times(Whole(n), share)
    BY <1>2, <2>1, TotalConstant DEF FleetAssumption
  <2> QED
    BY <1>6, <2>2
<1>8. Plus(Zero, Whole(1)) = Whole(1)
  BY OneIs, Sums
<1> QED
  BY <1>1, <1>4, <1>5, <1>7, <1>8 DEF AllHours

-----------------------------------------------------------------------------
(* The invariant.                                                           *)

StageOK ==
    /\ stage \in {"edited", "supplied", "routing", "priced", "impacted", "done"}
    /\ stage \in {"edited", "supplied"} => Routed = {}
    /\ IF stage = "edited" THEN supply = <<>> ELSE supply \in Supplies
    /\ stage \in {"priced", "impacted", "done"} => queue = <<>>

\* Routed use cases come before those that wait, which wait in order.
QueueOK ==
    /\ queue \in Seq(Projects)
    /\ \A i, j \in 1..Len(queue) : i < j => Precedes(queue[i], queue[j])
    /\ \A p \in Projects : p \in Routed \/ \E i \in 1..Len(queue) : queue[i] = p
    /\ \A p \in Routed, i \in 1..Len(queue) : Precedes(p, queue[i])

RowsOK == /\ Routed \subseteq Projects
          /\ \A p \in Routed : RowOK(p, outcome[p])

\* What the use cases of rows took of an hour of s.
Sold(rows, s, h) ==
    LET sold == {p \in DOMAIN rows : s \in Candidates(panel, p)}
    IN  Total([p \in sold |-> Over(rows[p].took[s][h], PerFrac(panel, s, p))], sold)

HoursOK == \A s \in DOMAIN supply, h \in Hours :
             Plus(supply[s].remaining[h], Sold(outcome, s, h)) = Frac(1, Cardinality(Hours))

TimesOK == \A s \in DOMAIN supply : Plus(supply[s].used, AllHours(supply[s].remaining)) = Whole(1)

\* Where demand is left over, what it wants is full.
FullOK ==
    \A p \in Routed, s \in Slots : Wants(p, s) =>
        IF panel.batch[p]
        THEN Below(outcome[p].served, outcome[p].total) => \A h \in Hours : supply[s].remaining[h] = Zero
        ELSE \A h \in Hours : Positive(outcome[p].left[h]) => supply[s].remaining[h] = Zero

SummaryOK ==
    /\ DOMAIN summary = DOMAIN NoSummary
    /\ stage \in {"impacted", "done"} => summary.status = [s \in DOMAIN supply |-> Status(s)]
    /\ stage = "done" => \A m \in summary.moves : PanelOK(m.panel)

ProjInv ==
    /\ PolicyOK /\ PanelOK(panel) /\ StageOK
    /\ stage \notin {"edited", "supplied"} => QueueOK
    /\ RowsOK /\ HoursOK /\ TimesOK /\ FullOK /\ PriorityRespected
    /\ SummaryOK

\* No step but an edit changes what the use cases want.
LEMMA SamePanel ==
    ASSUME panel' = panel, policy' = policy
    PROVE  /\ PolicyOK' <=> PolicyOK
           /\ PanelOK(panel)' <=> PanelOK(panel)
           /\ \A p, q : Precedes(p, q)' <=> Precedes(p, q)
           /\ \A p, q : Outranks(p, q)' <=> Outranks(p, q)
           /\ \A p, s : Wants(p, s)' <=> Wants(p, s)
           /\ \A p, s : (s \in Candidates(panel, p) /\ Affordable(p, EffectivePm(panel, s, p)))'
                         <=> Wants(p, s)
           /\ \A p, r : RowOK(p, r)' <=> RowOK(p, r)
           /\ \A rows, s, h : Sold(rows, s, h)' = Sold(rows, s, h)
           /\ Supplies' = Supplies
<1>1. PolicyOK' <=> PolicyOK
  BY DEF PolicyOK, ValidPolicy
<1>2. PanelOK(panel)' <=> PanelOK(panel)
  OBVIOUS
<1>3. \A p : Key(p)' = Key(p)
  BY DEF Key
<1>4. \A p, q : Precedes(p, q)' <=> Precedes(p, q)
  BY <1>3 DEF Precedes
<1>5. \A p, q : Outranks(p, q)' <=> Outranks(p, q)
  BY DEF Outranks
<1>6. \A p : PriceCap(p)' = PriceCap(p) /\ CloudRoute(p)' = CloudRoute(p)
  <2>1. \A k, l : CloudPrice(k, l)' = CloudPrice(k, l)
    BY DEF CloudPrice, Listed
  <2>2. \A g : GatewayModels(g)' = GatewayModels(g)
    BY DEF GatewayModels
  <2>3. \A p : CloudOffers(p)' = CloudOffers(p)
    BY <2>1, <2>2 DEF CloudOffers
  <2> QED
    BY <2>3 DEF PriceCap, CloudRoute
<1>7. \A p, pm : Affordable(p, pm)' <=> Affordable(p, pm)
  BY <1>6 DEF Affordable
<1>13. \A pn, s, p : Capacity(pn, s, p)' = Capacity(pn, s, p)
  <2>1. \A p : LengthOf(p)' = LengthOf(p)
    BY DEF LengthOf
  <2> QED
    BY <2>1 DEF Capacity
<1>14. \A p : Candidates(panel, p)' = Candidates(panel, p)
  BY <1>13 DEF Candidates
<1>15. \A s, p : PerFrac(panel, s, p)' = PerFrac(panel, s, p)
  BY <1>13 DEF PerFrac
<1>8. \A p, s : EffectivePm(panel, s, p)' = EffectivePm(panel, s, p)
  <2>1. \A p : PeakOverMean(p)' = PeakOverMean(p)
    <3>1. \A p, h : HourShare(p, h)' = HourShare(p, h)
      BY DEF HourShare
    <3> QED
      BY <3>1 DEF PeakOverMean
  <2>2. \A p, s : InternalPm(panel, s, p)' = InternalPm(panel, s, p)
    BY <1>13, <2>1 DEF InternalPm
  <2> QED
    BY <2>2 DEF EffectivePm
<1>9. \A p, s : Wants(p, s)' <=> Wants(p, s)
  BY <1>7, <1>8, <1>14 DEF Wants
<1>10. \A p, s : (s \in Candidates(panel, p) /\ Affordable(p, EffectivePm(panel, s, p)))' <=> Wants(p, s)
  BY <1>7, <1>8, <1>14 DEF Wants
<1>11. \A p, r : RowOK(p, r)' <=> RowOK(p, r)
  BY <1>6 DEF RowOK
<1>12. \A rows, s, h : Sold(rows, s, h)' = Sold(rows, s, h)
  BY <1>14, <1>15 DEF Sold
<1>16. Supplies' = Supplies
  BY DEF Supplies
<1> QED
  BY <1>1, <1>2, <1>4, <1>5, <1>9, <1>10, <1>11, <1>12, <1>16

\* The rows more are the rows and one more, that of x.
OneMore(rows, more, x) ==
    /\ x \in Projects \ DOMAIN rows
    /\ DOMAIN rows \in SUBSET Projects
    /\ DOMAIN more = DOMAIN rows \cup {x}
    /\ \A p \in DOMAIN rows : more[p] = rows[p]
    /\ \A p \in DOMAIN more : more[p].took \in Deliveries

LEMMA SoldMore ==
    ASSUME FleetAssumption, DemandAssumption, PanelOK(panel),
           NEW rows, NEW more, NEW x, OneMore(rows, more, x),
           NEW s \in Slots, NEW h \in Hours
    PROVE  /\ Sold(rows, s, h) \in Fraction
           /\ s \notin Candidates(panel, x) => Sold(more, s, h) = Sold(rows, s, h)
           /\ s \in Candidates(panel, x) =>
                Sold(more, s, h) = Plus(Over(more[x].took[s][h], PerFrac(panel, s, x)), Sold(rows, s, h))
<1> DEFINE D == {p \in DOMAIN rows : s \in Candidates(panel, p)}
           E == {p \in DOMAIN more : s \in Candidates(panel, p)}
           f == [p \in D |-> Over(rows[p].took[s][h], PerFrac(panel, s, p))]
           g == [p \in E |-> Over(more[p].took[s][h], PerFrac(panel, s, p))]
<1>0. /\ x \in Projects /\ x \notin DOMAIN rows /\ DOMAIN rows \in SUBSET Projects
      /\ DOMAIN more = DOMAIN rows \cup {x} /\ \A p \in DOMAIN rows : more[p] = rows[p]
      /\ \A p \in DOMAIN more : more[p].took[s][h] \in Fraction
  <2>1. \A p \in DOMAIN more : more[p].took \in [Slots -> [Hours -> Quantity]]
    BY DEF OneMore, Deliveries
  <2>2. \A p \in DOMAIN more : more[p].took[s][h] \in Fraction
    BY <2>1 DEF Quantity
  <2> HIDE FleetAssumption, DemandAssumption
  <2> QED
    BY <2>2 DEF OneMore
<1>1. Sold(rows, s, h) = Total(f, D) /\ Sold(more, s, h) = Total(g, E)
  BY DEF Sold
<1>2. IsFiniteSet(D) /\ D \in SUBSET Projects
  <2>1. IsFiniteSet(Projects) /\ D \in SUBSET Projects
    BY <1>0 DEF FleetAssumption
  <2> HIDE DEF D
  <2> QED
    BY <2>1, FS_Subset
<1>3. \A p \in Projects : s \in Candidates(panel, p) => PerFrac(panel, s, p) \in Fraction /\ Positive(PerFrac(panel, s, p))
  BY CandidateIs, RateIs
<1>4. \A p \in D : f[p] \in Fraction
  <2> TAKE p \in D
  <2>1. rows[p].took[s][h] \in Fraction /\ p \in Projects /\ s \in Candidates(panel, p)
    BY <1>0
  <2>2. PerFrac(panel, s, p) \in Fraction /\ Positive(PerFrac(panel, s, p))
    BY <1>3, <2>1
  <2>3. Over(rows[p].took[s][h], PerFrac(panel, s, p)) \in Fraction
    BY <2>1, <2>2, Quotients
  <2> QED
    BY <2>3
<1>5. \A p \in D : p \in E /\ g[p] = f[p]
  BY <1>0
<1>6. IF s \in Candidates(panel, x) THEN E = D \cup {x} ELSE E = D
  BY <1>0
<1>7. s \in Candidates(panel, x) => g[x] \in Fraction /\ g[x] = Over(more[x].took[s][h], PerFrac(panel, s, x))
  <2> SUFFICES ASSUME s \in Candidates(panel, x)
               PROVE  g[x] \in Fraction /\ g[x] = Over(more[x].took[s][h], PerFrac(panel, s, x))
    OBVIOUS
  <2>1. more[x].took[s][h] \in Fraction /\ x \in E
    BY <1>0
  <2> QED
    BY <1>0, <1>3, <2>1, Quotients
<1>8. x \notin D
  BY <1>0
<1> HIDE DEF f, g, D, E
<1>9. Summable(f, D)
  BY <1>2, <1>4 DEF Summable
<1>10. Summable(g, D) /\ Total(g, D) = Total(f, D)
  BY <1>5, <1>9, TotalSame DEF Summable
<1>11. Total(f, D) \in Fraction
  BY <1>9, TotalIs
<1>12. s \in Candidates(panel, x) => Total(g, D \cup {x}) = Plus(g[x], Total(g, D))
  BY <1>7, <1>8, <1>10, TotalAdded
<1> QED
  BY <1>1, <1>6, <1>7, <1>10, <1>11, <1>12

-----------------------------------------------------------------------------
(* The invariant holds.                                                     *)


\* A new day, with no use case routed.
LEMMA FreshDay ==
    ASSUME FleetAssumption, panel' = panel, supply' = FreshSupply(panel), Routed' = {}
    PROVE  (supply \in Supplies /\ RowsOK /\ HoursOK /\ TimesOK /\ FullOK /\ PriorityRespected)'
<1>1. (supply \in Supplies)' /\ DOMAIN supply' = Supplied(panel)
  <2>1. supply' \in Supplies
    BY FreshIs
  <2> QED
    BY <2>1 DEF Supplies
<1>2. RowsOK' /\ FullOK' /\ PriorityRespected'
  BY DEF RowsOK, FullOK, PriorityRespected
<1>3. TimesOK'
  BY <1>1, FreshIs DEF TimesOK
<1>4. HoursOK'
  <2> SUFFICES ASSUME NEW s \in Supplied(panel), NEW h \in Hours
               PROVE  (Plus(supply[s].remaining[h], Sold(outcome, s, h)) = Frac(1, Cardinality(Hours)))'
    BY <1>1 DEF HoursOK
  <2> DEFINE n == Cardinality(Hours)
  <2>1. supply'[s].remaining[h] = Frac(1, n) /\ n \in Nat /\ n > 0
    BY FreshIs
  <2>2. Sold(outcome, s, h)' = Zero
    <3>1. {p \in DOMAIN outcome' : (s \in Candidates(panel, p))'} = {}
      BY DEF Routed
    <3> QED
      BY <3>1, TotalEmpty DEF Sold
  <2> HIDE DEF n
  <2>3. Frac(1, n) \in Fraction
    BY <2>1, FracIs
  <2>4. Plus(Frac(1, n), Zero) = Frac(1, n)
    BY <2>3, ZeroIs, Sums
  <2> QED
    BY <2>1, <2>2, <2>4 DEF n
<1> QED
  BY <1>1, <1>2, <1>3, <1>4

LEMMA ProjectionInit ==
    ASSUME FleetAssumption, Init
    PROVE  ProjInv
<1>1. Routed = {} /\ supply = <<>> /\ stage = "edited" /\ queue = <<>>
  BY DEF Init, Routed
<1>2. PolicyOK
  BY DEF Init, PolicyOK
<1>3. PanelOK(panel)
  BY DEF Init, FleetAssumption
<1>4. RowsOK /\ HoursOK /\ TimesOK /\ FullOK /\ PriorityRespected
  <2>1. DOMAIN supply = {}
    BY <1>1
  <2> QED
    BY <1>1, <2>1 DEF RowsOK, HoursOK, TimesOK, FullOK, PriorityRespected
<1>5. StageOK /\ SummaryOK
  BY <1>1 DEF Init, StageOK, SummaryOK
<1> QED
  BY <1>1, <1>2, <1>3, <1>4, <1>5 DEF ProjInv

LEMMA SameDay ==
    ASSUME FleetAssumption, ProjInv, UNCHANGED <<policy, panel, supply, outcome>>
    PROVE  /\ PolicyOK' /\ PanelOK(panel)'
           /\ (RowsOK /\ HoursOK /\ TimesOK /\ FullOK /\ PriorityRespected)'
           /\ Supplies' = Supplies
           /\ (queue' = queue /\ QueueOK => QueueOK')
           /\ Routed' = Routed
           /\ \A s : Status(s)' = Status(s)
<1>1. panel' = panel /\ policy' = policy /\ supply' = supply /\ outcome' = outcome
  OBVIOUS
<1>2. Routed' = Routed
  BY <1>1 DEF Routed
<1>3. PolicyOK' /\ PanelOK(panel)' /\ Supplies' = Supplies /\ RowsOK'
  BY <1>1, <1>2, SamePanel DEF ProjInv, RowsOK
<1>4. HoursOK' /\ TimesOK'
  BY <1>1, SamePanel DEF ProjInv, HoursOK, TimesOK
<1>5. FullOK'
  BY <1>1, <1>2, SamePanel DEF ProjInv, FullOK
<1>6. PriorityRespected'
  BY <1>1, <1>2, SamePanel DEF ProjInv, PriorityRespected, Wants
<1>7. queue' = queue /\ QueueOK => QueueOK'
  BY <1>1, <1>2, SamePanel DEF QueueOK
<1>8. \A s : Status(s)' = Status(s)
  BY <1>1 DEF Status
<1> QED
  BY <1>1, <1>2, <1>3, <1>4, <1>5, <1>6, <1>7, <1>8

\* ClassifyDemand queues every use case once, in order.
LEMMA QueueMade ==
    ASSUME FleetAssumption, DemandAssumption, ProjInv, ClassifyDemand
    PROVE  QueueOK'
<1> DEFINE n == Cardinality(Projects)
<1>1. PICK q : /\ q = Ranked(Projects, Precedes)
               /\ n \in Nat /\ q \in [1..n -> Projects]
               /\ \A i, j \in 1..n : i < j => Precedes(q[i], q[j])
               /\ \A p \in Projects : \E i \in 1..n : q[i] = p
  BY QueueSorted
<1>2. queue' = q /\ Routed' = {} /\ panel' = panel /\ policy' = policy
  BY <1>1 DEF ClassifyDemand, ProjInv, StageOK, Routed
<1> HIDE DEF n
<1>3. q \in Seq(Projects) /\ Len(q) = n
  BY <1>1
<1>4. \A i, j \in 1..n : i < j => Precedes(q[i], q[j])'
  BY <1>1, <1>2, SamePanel
<1> QED
  BY <1>1, <1>2, <1>3, <1>4 DEF QueueOK

-----------------------------------------------------------------------------
(* One turn of the loop over the use cases.                                 *)

\* The head of the queue x books b: it joins the routed use cases.
Turn(x, b) ==
    /\ x \in Projects /\ x \notin Routed
    /\ \A p \in Routed : Precedes(p, x)
    /\ \A p \in Projects : p \in Routed \/ p = x \/ Precedes(x, p)
    /\ Booked(x, supply, b)
    /\ RowOK(x, outcome'[x])
    /\ outcome'[x].total = b.total /\ outcome'[x].served = Served(b)
    /\ outcome'[x].took = b.took /\ outcome'[x].left = b.left
    /\ Routed' = Routed \cup {x} /\ \A p \in Routed : outcome'[p] = outcome[p]
    /\ supply' = b.supply
    /\ panel' = panel /\ policy' = policy

LEMMA PrecedesIs ==
    ASSUME FleetAssumption, DemandAssumption, NEW p \in Projects, NEW q \in Projects
    PROVE  /\ ~Precedes(p, p)
           /\ Precedes(p, q) => ~Precedes(q, p)
<1>1. StrictOrder(Projects, InTurn)
  BY PrecedesOrders
<1>2. \A y, z \in Projects : <<y, z>> \in InTurn <=> Precedes(y, z)
  BY DEF InTurn
<1> QED
  BY <1>1, <1>2 DEF StrictOrder

LEMMA QueueTurns ==
    ASSUME FleetAssumption, DemandAssumption, QueueOK, queue # <<>>
    PROVE  /\ Head(queue) \in Projects /\ Head(queue) \notin Routed
           /\ \A p \in Routed : Precedes(p, Head(queue))
           /\ \A p \in Projects : p \in Routed \/ p = Head(queue) \/ Precedes(Head(queue), p)
<1>1. Len(queue) \in Nat /\ Len(queue) > 0 /\ Head(queue) = queue[1] /\ queue[1] \in Projects
  BY DEF QueueOK
<1>2. \A p \in Routed : Precedes(p, queue[1])
  BY <1>1 DEF QueueOK
<1>3. queue[1] \notin Routed
  BY <1>1, <1>2, PrecedesIs
<1>4. ASSUME NEW p \in Projects, p \notin Routed, p # queue[1]
      PROVE  Precedes(queue[1], p)
  <2>1. PICK i \in 1..Len(queue) : queue[i] = p
    BY <1>4 DEF QueueOK
  <2>2. 1 < i
    BY <1>4, <2>1
  <2>3. 1 \in 1..Len(queue)
    BY <1>1
  <2>4. Precedes(queue[1], queue[i])
    BY <2>2, <2>3 DEF QueueOK
  <2> QED
    BY <2>1, <2>4
<1> QED
  BY <1>1, <1>2, <1>3, <1>4

LEMMA RouteTurns ==
    ASSUME FleetAssumption, DemandAssumption, ProjInv, RouteProject
    PROVE  \E x, b : Turn(x, b)
<1>1. PICK x : x = Head(queue)
  OBVIOUS
<1>2. PICK b : /\ b = Book(panel, x, supply)
               /\ outcome' = [p \in DOMAIN outcome \cup {x} |-> IF p = x THEN Row(panel, x, b) ELSE outcome[p]]
               /\ supply' = b.supply
  BY <1>1 DEF RouteProject
<1>3. /\ QueueOK /\ queue # <<>>
      /\ panel' = panel /\ policy' = policy
  BY DEF RouteProject, ProjInv
<1>4. /\ x \in Projects /\ x \notin Routed
      /\ \A p \in Routed : Precedes(p, x)
      /\ \A p \in Projects : p \in Routed \/ p = x \/ Precedes(x, p)
  BY <1>1, <1>3, QueueTurns
<1>5. PolicyOK /\ PanelOK(panel) /\ supply \in Supplies
  BY DEF ProjInv, StageOK, RouteProject
<1>6. Booked(x, supply, b)
  BY <1>2, <1>4, <1>5, BookIs
<1>7. RowOK(x, Row(panel, x, b))
  BY <1>4, <1>5, <1>6, BookedRow
<1>8. /\ Row(panel, x, b).total = b.total /\ Row(panel, x, b).served = Served(b)
      /\ Row(panel, x, b).took = b.took /\ Row(panel, x, b).left = b.left
  BY RowIs
<1>9. /\ outcome'[x] = Row(panel, x, b)
      /\ Routed' = Routed \cup {x} /\ \A p \in Routed : outcome'[p] = outcome[p]
  BY <1>2, <1>4 DEF Routed
<1>10. Turn(x, b)
  BY <1>2, <1>3, <1>4, <1>6, <1>7, <1>8, <1>9 DEF Turn
<1> QED
  BY <1>10

LEMMA TurnKeepsRows ==
    ASSUME FleetAssumption, DemandAssumption, ProjInv, supply \in Supplies,
           NEW x, NEW b, Turn(x, b)
    PROVE  (supply \in Supplies)' /\ RowsOK'
<1>1. (supply \in Supplies)'
  <2>1. supply' \in Supplies
    BY DEF Turn, Booked, Bookings
  <2> QED
    BY <2>1, SamePanel DEF Turn
<1>2. Routed' \subseteq Projects
  BY DEF Turn, ProjInv, RowsOK
<1>3. \A p \in Routed' : RowOK(p, outcome'[p])
  BY DEF Turn, ProjInv, RowsOK
<1>4. \A p, r : RowOK(p, r)' <=> RowOK(p, r)
  BY SamePanel DEF Turn
<1> QED
  BY <1>1, <1>2, <1>3, <1>4 DEF RowsOK

LEMMA TurnKeepsHours ==
    ASSUME FleetAssumption, DemandAssumption, ProjInv, supply \in Supplies,
           NEW x, NEW b, Turn(x, b)
    PROVE  HoursOK' /\ TimesOK'
<1>0. PanelOK(panel) /\ supply \in Supplies /\ RowsOK /\ HoursOK /\ TimesOK
  BY DEF ProjInv
<1>1. /\ x \in Projects /\ x \notin Routed /\ Booked(x, supply, b)
      /\ outcome'[x].took = b.took /\ outcome'[x].took \in Deliveries
      /\ Routed' = Routed \cup {x} /\ \A p \in Routed : outcome'[p] = outcome[p]
      /\ supply' = b.supply /\ DOMAIN supply' = Supplied(panel) /\ DOMAIN supply = Supplied(panel)
      /\ \A rows, s, h : Sold(rows, s, h)' = Sold(rows, s, h)
  BY <1>0, SamePanel DEF Turn, RowOK, Booked, Bookings, Supplies
<1>2. ASSUME NEW s \in Supplied(panel), NEW h \in Hours
      PROVE  Plus(supply'[s].remaining[h], Sold(outcome', s, h)) = Frac(1, Cardinality(Hours))
  <2> DEFINE now == b.supply[s].remaining[h]
             was == supply[s].remaining[h]
             sold == Sold(outcome, s, h)
             sells == Sold(outcome', s, h)
             t == Over(b.took[s][h], PerFrac(panel, s, x))
  <2>1. Plus(was, sold) = Frac(1, Cardinality(Hours))
    BY <1>0, <1>1 DEF HoursOK
  <2>2. now \in Fraction /\ was \in Fraction
    <3>1. b.supply \in Supplies /\ supply \in Supplies
      BY <1>0, <1>1 DEF Booked, Bookings
    <3>2. b.supply[s].remaining \in [Hours -> Quantity] /\ supply[s].remaining \in [Hours -> Quantity]
      BY <3>1 DEF Supplies, SupplyRow
    <3> QED
      BY <3>2 DEF Quantity
  <2>3. /\ Routed \in SUBSET Projects
        /\ \A p \in Routed : outcome[p].took \in Deliveries
    BY <1>0 DEF RowsOK, RowOK
  <2>0. s \in Slots
    BY SuppliedIs
  <2>4. /\ sold \in Fraction
        /\ s \notin Candidates(panel, x) => sells = sold
        /\ s \in Candidates(panel, x) => sells = Plus(t, sold)
    <3>1. OneMore(outcome, outcome', x) /\ outcome'[x].took = b.took
      BY <1>1, <2>3 DEF Routed, OneMore
    <3> QED
      BY <1>0, <2>0, <3>1, SoldMore
  <2>5. /\ s \in Candidates(panel, x) => t \in Fraction /\ Plus(now, t) = was
        /\ s \notin Candidates(panel, x) => now = was
    <3>1. x \in Projects /\ Booked(x, supply, b) /\ PanelOK(panel) /\ supply \in Supplies
      BY <1>0, <1>1
    <3>2. s \in Candidates(panel, x) => t \in Fraction /\ Plus(now, t) = was
      BY <3>1, HourLeft
    <3>3. s \notin Candidates(panel, x) => b.supply[s] = supply[s]
      BY <3>1, HourLeft
    <3> QED
      BY <3>2, <3>3
  <2> HIDE DEF now, was, sold, sells, t
  <2>6. s \in Candidates(panel, x) => Plus(now, Plus(t, sold)) = Plus(Plus(now, t), sold)
    BY <2>2, <2>4, <2>5, Sums
  <2>7. Plus(now, sells) = Frac(1, Cardinality(Hours))
    BY <2>1, <2>4, <2>5, <2>6
  <2> QED
    BY <1>1, <2>7 DEF now, sells
<1>3. HoursOK'
  BY <1>1, <1>2 DEF HoursOK
<1>4. \A s \in Supplied(panel) : Plus(b.supply[s].used, AllHours(b.supply[s].remaining)) = Whole(1)
  BY <1>0, <1>1, TimeCharged DEF TimesOK
<1>5. TimesOK'
  BY <1>1, <1>4 DEF TimesOK
<1> QED
  BY <1>3, <1>5

LEMMA TurnKeepsFull ==
    ASSUME FleetAssumption, DemandAssumption, ProjInv, supply \in Supplies,
           NEW x, NEW b, Turn(x, b)
    PROVE  FullOK'
<1>0. PanelOK(panel) /\ supply \in Supplies /\ FullOK
  BY DEF ProjInv
<1>1. /\ x \in Projects /\ x \notin Routed /\ Booked(x, supply, b)
      /\ outcome'[x].total = b.total /\ outcome'[x].served = Served(b) /\ outcome'[x].left = b.left
      /\ Routed' = Routed \cup {x} /\ \A p \in Routed : outcome'[p] = outcome[p]
      /\ supply' = b.supply /\ panel' = panel
      /\ \A p, s : Wants(p, s)' <=> Wants(p, s)
  BY SamePanel DEF Turn
<1>2. \A s \in Supplied(panel), h \in Hours : supply[s].remaining[h] = Zero => b.supply[s].remaining[h] = Zero
  <2> TAKE s \in Supplied(panel), h \in Hours
  <2>1. x \in Projects /\ Booked(x, supply, b)
    BY <1>1
  <2> QED
    BY <1>0, <2>1, HourLeft
<1>3. ASSUME NEW p \in Routed, NEW s \in Slots, Wants(p, s)
      PROVE  IF panel.batch[p]
             THEN Below(outcome[p].served, outcome[p].total) => \A h \in Hours : b.supply[s].remaining[h] = Zero
             ELSE \A h \in Hours : Positive(outcome[p].left[h]) => b.supply[s].remaining[h] = Zero
  BY <1>0, <1>2, <1>3, CandidateIs DEF FullOK, Wants
<1>4. ASSUME NEW s \in Slots, Wants(x, s)
      PROVE  IF panel.batch[x]
             THEN Below(Served(b), b.total) => \A h \in Hours : b.supply[s].remaining[h] = Zero
             ELSE \A h \in Hours : Positive(b.left[h]) => b.supply[s].remaining[h] = Zero
  <2>1. IF panel.batch[x]
        THEN Positive(b.pending) => \A h \in Hours : b.supply[s].remaining[h] = Zero
        ELSE \A h \in Hours : Positive(b.left[h]) => b.supply[s].remaining[h] = Zero
    BY <1>1, <1>4 DEF Booked, SlotDone
  <2>2. panel.batch[x] => Served(b) = b.total \/ Positive(b.pending)
    BY <1>0, <1>1, BatchServed
  <2>3. b.total \in Fraction
    BY <1>1 DEF Booked, Bookings, Quantity
  <2>4. ~Below(b.total, b.total)
    BY <2>3, Order DEF Below
  <2> QED
    BY <2>1, <2>2, <2>4
<1> QED
  BY <1>1, <1>3, <1>4 DEF FullOK

LEMMA TurnKeepsPriority ==
    ASSUME FleetAssumption, DemandAssumption, ProjInv, supply \in Supplies,
           NEW x, NEW b, Turn(x, b)
    PROVE  PriorityRespected'
<1>0. PanelOK(panel) /\ supply \in Supplies /\ FullOK /\ PriorityRespected /\ RowsOK
  BY DEF ProjInv
<1>1. /\ x \in Projects /\ x \notin Routed /\ Booked(x, supply, b)
      /\ \A p \in Routed : Precedes(p, x)
      /\ \A p \in Projects : p \in Routed \/ p = x \/ Precedes(x, p)
      /\ outcome'[x].took = b.took
      /\ Routed' = Routed \cup {x} /\ \A p \in Routed : outcome'[p] = outcome[p]
      /\ panel' = panel
      /\ \A p, q : Outranks(p, q)' <=> Outranks(p, q)
      /\ \A p, s : (s \in Candidates(panel, p) /\ Affordable(p, EffectivePm(panel, s, p)))'
                    <=> Wants(p, s)
  BY SamePanel DEF Turn
<1>2. \A p, q \in Projects : Outranks(p, q) => Precedes(p, q)
  BY <1>0, OutranksPrecedes DEF PanelOK
<1>3. ASSUME NEW p \in Projects, NEW q \in Routed, NEW s \in Slots, NEW h \in Hours,
             Outranks(p, q), Positive(outcome[q].took[s][h])
      PROVE  /\ p \in Routed
             /\ Wants(p, s) => IF panel.batch[p] THEN outcome[p].served = outcome[p].total
                               ELSE ~Positive(outcome[p].left[h])
  BY <1>0, <1>3 DEF PriorityRespected, Wants
<1>4. ASSUME NEW p \in Projects, NEW s \in Slots, NEW h \in Hours,
             Outranks(p, x), Positive(b.took[s][h])
      PROVE  /\ p \in Routed
             /\ Wants(p, s) => IF panel.batch[p] THEN outcome[p].served = outcome[p].total
                               ELSE ~Positive(outcome[p].left[h])
  <2>0. s \in Supplied(panel)
    <3>1. ~Positive(Zero)
      BY ZeroIs, Order, PositiveIs
    <3>2. Wants(x, s)
      BY <1>1, <1>4, <3>1 DEF Booked, SlotUntouched
    <3> QED
      BY <3>2, CandidateIs DEF Wants
  <2>1. p \in Routed
    BY <1>1, <1>2, <1>4, PrecedesIs
  <2>2. supply[s].remaining[h] # Zero
    <3>1. ~Positive(Zero)
      BY ZeroIs, Order, PositiveIs
    <3> QED
      BY <1>0, <1>1, <1>4, <2>0, <3>1, HourLeft
  <2>3. panel.batch[p] => outcome[p].served = outcome[p].total \/ Below(outcome[p].served, outcome[p].total)
    BY <1>0, <2>1 DEF RowsOK, RowOK
  <2> QED
    BY <1>0, <2>1, <2>2, <2>3 DEF FullOK
<1>5. ASSUME NEW p \in Projects, NEW q \in Routed', NEW s \in Slots, NEW h \in Hours,
             Outranks(p, q), Positive(outcome'[q].took[s][h])
      PROVE  /\ p \in Routed'
             /\ Wants(p, s) => IF panel.batch[p] THEN outcome'[p].served = outcome'[p].total
                               ELSE ~Positive(outcome'[p].left[h])
  <2>1. /\ p \in Routed
        /\ Wants(p, s) => IF panel.batch[p] THEN outcome[p].served = outcome[p].total
                          ELSE ~Positive(outcome[p].left[h])
    <3>1. CASE q = x
      BY <1>1, <1>4, <1>5, <3>1
    <3>2. CASE q \in Routed
      BY <1>1, <1>3, <1>5, <3>2
    <3> QED
      BY <1>1, <3>1, <3>2
  <2> QED
    BY <1>1, <2>1
<1> QED
  BY <1>1, <1>5 DEF PriorityRespected

LEMMA RouteProjectKeeps ==
    ASSUME FleetAssumption, DemandAssumption, ProjInv, RouteProject
    PROVE  ProjInv'
<1>1. PICK x, b : Turn(x, b)
  BY RouteTurns
<1>0. supply \in Supplies
  BY DEF ProjInv, StageOK, RouteProject
<1>2. (supply \in Supplies)' /\ RowsOK' /\ HoursOK' /\ TimesOK' /\ FullOK' /\ PriorityRespected'
  BY <1>0, <1>1, TurnKeepsRows, TurnKeepsHours, TurnKeepsFull, TurnKeepsPriority
<1>3. PolicyOK' /\ PanelOK(panel)'
  BY <1>1, SamePanel DEF Turn, ProjInv
<1>4. stage = "routing" /\ stage' = "routing" /\ summary' = summary /\ DOMAIN summary = DOMAIN NoSummary
  BY DEF RouteProject, ProjInv, SummaryOK
<1>5. StageOK' /\ SummaryOK'
  BY <1>2, <1>4 DEF StageOK, SummaryOK
<1>6. QueueOK'
  <2>1. QueueOK /\ queue # <<>> /\ queue' = Tail(queue)
    BY DEF ProjInv, RouteProject
  <2>2. /\ \A p, q : Precedes(p, q)' <=> Precedes(p, q)
        /\ Routed' = Routed \cup {x} /\ x \in Projects
        /\ \A p \in Routed : Precedes(p, x)
    BY <1>1, SamePanel DEF Turn
  <2>3. x = queue[1]
    <3>1. Head(queue) \notin Routed /\ Routed' = Routed \cup {Head(queue)}
      BY <2>1, QueueTurns DEF RouteProject, Routed
    <3>2. Head(queue) = queue[1]
      BY <2>1 DEF QueueOK
    <3> QED
      BY <2>2, <3>1, <3>2
  <2>4. /\ Tail(queue) \in Seq(Projects)
        /\ Len(queue) \in Nat /\ Len(queue) > 0 /\ Len(Tail(queue)) = Len(queue) - 1
        /\ \A i \in 1..Len(Tail(queue)) : Tail(queue)[i] = queue[i + 1] /\ i + 1 \in 1..Len(queue)
    BY <2>1 DEF QueueOK
  <2> DEFINE q == queue
             r == Tail(queue)
  <2>5. \A i, j \in 1..Len(q) : i < j => Precedes(q[i], q[j])
    BY <2>1 DEF QueueOK
  <2>6. \A i, j \in 1..Len(r) : i < j => Precedes(r[i], r[j])
    BY <2>4, <2>5
  <2>7. \A i \in 1..Len(r) : Precedes(x, r[i])
    BY <2>3, <2>4, <2>5
  <2>8. \A p \in Routed, i \in 1..Len(r) : Precedes(p, r[i])
    BY <2>1, <2>4 DEF QueueOK
  <2>9. ASSUME NEW p \in Projects, p \notin Routed, p # x
        PROVE  \E i \in 1..Len(r) : r[i] = p
    <3>1. PICK i \in 1..Len(q) : q[i] = p
      BY <2>1, <2>9 DEF QueueOK
    <3>2. i # 1 /\ i - 1 \in 1..Len(r)
      BY <2>3, <2>4, <2>9, <3>1
    <3>3. r[i - 1] = q[(i - 1) + 1]
      BY <2>4, <3>2
    <3>4. (i - 1) + 1 = i
      BY <2>4, <3>1
    <3> QED
      BY <3>1, <3>2, <3>3, <3>4
  <2>10. queue' = r
    BY <2>1
  <2> HIDE DEF q, r
  <2>11. r \in Seq(Projects)
    BY <2>4 DEF r
  <2> QED
    BY <2>2, <2>6, <2>7, <2>8, <2>9, <2>10, <2>11 DEF QueueOK
<1> QED
  BY <1>2, <1>3, <1>4, <1>5, <1>6 DEF ProjInv

\* The stages before and after routing.
LEMMA StagesKeep ==
    ASSUME FleetAssumption, DemandAssumption, ProjInv,
           BuildSupply \/ ClassifyDemand \/ PriceOutcomes \/ CalculateImpact
    PROVE  ProjInv'
<1>1. CASE BuildSupply
  <2>1. /\ stage' = "supplied" /\ Routed' = {} /\ supply' = FreshSupply(panel)
        /\ policy' = policy /\ panel' = panel /\ summary' = summary /\ DOMAIN summary = DOMAIN NoSummary
    BY <1>1 DEF BuildSupply, ProjInv, StageOK, SummaryOK, Routed
  <2>2. (supply \in Supplies /\ RowsOK /\ HoursOK /\ TimesOK /\ FullOK /\ PriorityRespected)'
    BY <2>1, FreshDay
  <2>3. PolicyOK' /\ PanelOK(panel)'
    BY <2>1, SamePanel DEF ProjInv
  <2>4. StageOK' /\ SummaryOK'
    BY <2>1, <2>2 DEF StageOK, SummaryOK
  <2> QED
    BY <2>1, <2>2, <2>3, <2>4 DEF ProjInv
<1>2. CASE ClassifyDemand
  <2>1. /\ stage' = "routing" /\ UNCHANGED <<policy, panel, supply, outcome, summary>>
        /\ DOMAIN summary = DOMAIN NoSummary
    BY <1>2 DEF ClassifyDemand, ProjInv, SummaryOK
  <2>2. /\ PolicyOK' /\ PanelOK(panel)'
        /\ (RowsOK /\ HoursOK /\ TimesOK /\ FullOK /\ PriorityRespected)' /\ Supplies' = Supplies
    BY <2>1, SameDay
  <2>3. QueueOK'
    BY <1>2, QueueMade
  <2>4. StageOK' /\ SummaryOK'
    BY <1>2, <2>1, <2>2 DEF ClassifyDemand, ProjInv, StageOK, SummaryOK
  <2> QED
    BY <2>2, <2>3, <2>4 DEF ProjInv
<1>3. CASE PriceOutcomes
  <2>1. /\ stage = "routing" /\ stage' = "priced" /\ queue = <<>>
        /\ UNCHANGED <<policy, panel, queue, supply, outcome>>
        /\ DOMAIN summary' = DOMAIN NoSummary
    BY <1>3 DEF PriceOutcomes, ProjInv, SummaryOK, NoSummary
  <2>2. /\ PolicyOK' /\ PanelOK(panel)' /\ QueueOK'
        /\ (RowsOK /\ HoursOK /\ TimesOK /\ FullOK /\ PriorityRespected)' /\ Supplies' = Supplies
    BY <2>1, SameDay DEF ProjInv
  <2>3. StageOK' /\ SummaryOK'
    BY <2>1, <2>2 DEF ProjInv, StageOK, SummaryOK
  <2> QED
    BY <2>2, <2>3 DEF ProjInv
<1>4. CASE CalculateImpact
  <2>1. /\ stage = "priced" /\ stage' = "impacted"
        /\ UNCHANGED <<policy, panel, queue, supply, outcome>>
        /\ DOMAIN summary' = DOMAIN NoSummary
        /\ summary'.status = [s \in DOMAIN supply |-> Status(s)]
    BY <1>4 DEF CalculateImpact, ProjInv, SummaryOK, NoSummary
  <2>2. /\ PolicyOK' /\ PanelOK(panel)' /\ QueueOK'
        /\ (RowsOK /\ HoursOK /\ TimesOK /\ FullOK /\ PriorityRespected)' /\ Supplies' = Supplies
        /\ \A s : Status(s)' = Status(s)
    BY <2>1, SameDay DEF ProjInv
  <2>3. StageOK'
    BY <2>1, <2>2 DEF StageOK, ProjInv
  <2>4. SummaryOK'
    BY <2>1, <2>2 DEF SummaryOK, ProjInv
  <2> QED
    BY <2>2, <2>3, <2>4, <2>1 DEF ProjInv
<1> QED
  BY <1>1, <1>2, <1>3, <1>4

\* A move is the panel with one deployment grown or another model on it.
LEMMA MovesOK ==
    ASSUME FleetAssumption, PanelOK(panel), NEW m \in Best(Expansions) \cup Best(Swaps)
    PROVE  PanelOK(m.panel)
<1>1. \A pn, kind, s : Move(pn, kind, s).panel = pn
  BY DEF Move, Compared, Scored
<1>2. m \in Expansions \/ m \in Swaps
  BY DEF Best
<1>3. CASE m \in Expansions
  <2>1. PICK s \in Slots : panel.count[s] < MaxGpus /\ m = Move(Grown(panel, s), "grow", s)
    BY <1>3 DEF Expansions
  <2>2. PanelOK(Grown(panel, s))
    BY <2>1 DEF PanelOK, Grown, FleetAssumption
  <2> QED
    BY <1>1, <2>1, <2>2
<1>4. CASE m \in Swaps
  <2>1. PICK x \in Slots \X DOMAIN Models : m = Move(Swapped(panel, x[1], x[2]), "swap", x[1])
    BY <1>4 DEF Swaps
  <2>2. x[1] \in Slots /\ x[2] \in DOMAIN Models
    OBVIOUS
  <2>3. PanelOK(Swapped(panel, x[1], x[2]))
    BY <2>2 DEF PanelOK, Swapped
  <2> QED
    BY <1>1, <2>1, <2>3
<1> QED
  BY <1>2, <1>3, <1>4

LEMMA SummarizeKeeps ==
    ASSUME FleetAssumption, DemandAssumption, ProjInv, Summarize
    PROVE  ProjInv'
<1>1. /\ stage = "impacted" /\ stage' = "done"
      /\ UNCHANGED <<policy, panel, queue, supply, outcome>>
      /\ DOMAIN summary' = DOMAIN NoSummary
      /\ summary'.status = summary.status
      /\ summary'.moves = Best(Expansions) \cup Best(Swaps)
  BY DEF Summarize, ProjInv, SummaryOK, NoSummary
<1>2. /\ PolicyOK' /\ PanelOK(panel)' /\ QueueOK'
      /\ (RowsOK /\ HoursOK /\ TimesOK /\ FullOK /\ PriorityRespected)' /\ Supplies' = Supplies
      /\ \A s : Status(s)' = Status(s)
  BY <1>1, SameDay DEF ProjInv
<1>3. StageOK'
  BY <1>1, <1>2 DEF StageOK, ProjInv
<1>4. SummaryOK'
  <2>1. summary'.status = [s \in DOMAIN supply |-> Status(s)]
    BY <1>1 DEF ProjInv, SummaryOK
  <2>2. \A m \in summary'.moves : PanelOK(m.panel)
    BY <1>1, MovesOK DEF ProjInv
  <2> QED
    BY <1>1, <1>2, <2>1, <2>2 DEF SummaryOK
<1> QED
  BY <1>1, <1>2, <1>3, <1>4 DEF ProjInv

\* After an edit the next projection starts afresh.
LEMMA EditKeeps ==
    ASSUME FleetAssumption, ProjInv, NEW pn, PanelOK(pn), Edited(pn)
    PROVE  ProjInv'
<1>1. /\ panel' = pn /\ policy' = policy /\ stage' = "edited"
      /\ supply' = <<>> /\ summary' = NoSummary /\ Routed' = {}
  BY DEF Edited, Routed
<1>2. PolicyOK' /\ PanelOK(panel')
  BY <1>1 DEF ProjInv, PolicyOK, ValidPolicy
<1>3. RowsOK' /\ HoursOK' /\ TimesOK' /\ FullOK' /\ PriorityRespected'
  <2>1. DOMAIN supply' = {}
    BY <1>1
  <2> QED
    BY <1>1, <2>1 DEF RowsOK, HoursOK, TimesOK, FullOK, PriorityRespected
<1>4. StageOK' /\ SummaryOK'
  BY <1>1 DEF StageOK, SummaryOK
<1> QED
  BY <1>1, <1>2, <1>3, <1>4 DEF ProjInv

LEMMA EditsKeep ==
    ASSUME FleetAssumption, ProjInv,
           \/ \E on \in BOOLEAN : SetPriceDriven(on) \/ SetCloudEnabled(on) \/ SetIncludeLatent(on)
           \/ \E g \in Gateways : SetGateway(g)
           \/ \E l \in Blends : SetDistPreset(l)
           \/ \E n \in Sizes : SetCompanySize(n)
           \/ \E p \in Tunable : SetBatch(p)
           \/ \E p \in Tunable, w \in DOMAIN Shapes : SetDayShape(p, w)
           \/ ApplyMove
    PROVE  ProjInv'
<1>1. PanelOK(panel) /\ SummaryOK
  BY DEF ProjInv
<1>2. ASSUME NEW on \in BOOLEAN, SetPriceDriven(on) \/ SetCloudEnabled(on) \/ SetIncludeLatent(on)
      PROVE  ProjInv'
  <2>1. /\ PanelOK([panel EXCEPT !.price_driven = on])
        /\ PanelOK([panel EXCEPT !.cloud_enabled = on])
        /\ PanelOK([panel EXCEPT !.latent = on])
    BY <1>1 DEF PanelOK
  <2> QED
    BY <1>2, <2>1, EditKeeps DEF SetPriceDriven, SetCloudEnabled, SetIncludeLatent
<1>3. ASSUME NEW g, SetGateway(g)
      PROVE  ProjInv'
  <2>1. PanelOK([panel EXCEPT !.gateway = g])
    BY <1>1 DEF PanelOK
  <2> QED
    BY <1>3, <2>1, EditKeeps DEF SetGateway
<1>4. ASSUME NEW n \in Sizes, SetCompanySize(n)
      PROVE  ProjInv'
  <2>1. n \in Nat
    BY DEF FleetAssumption
  <2>2. PanelOK([panel EXCEPT !.size = n])
    BY <1>1, <2>1 DEF PanelOK
  <2> QED
    BY <1>4, <2>2, EditKeeps DEF SetCompanySize
<1>5. ASSUME NEW p \in Tunable, SetBatch(p)
      PROVE  ProjInv'
  <2>1. p \in Projects
    BY DEF FleetAssumption
  <2>2. PanelOK([panel EXCEPT !.batch[p] = TRUE])
    BY <1>1, <2>1 DEF PanelOK
  <2> QED
    BY <1>5, <2>2, EditKeeps DEF SetBatch
<1>6. ASSUME NEW p \in Tunable, NEW w \in DOMAIN Shapes, SetDayShape(p, w)
      PROVE  ProjInv'
  <2>1. p \in Projects
    BY DEF FleetAssumption
  <2>2. PanelOK([panel EXCEPT !.shape[p] = w, !.batch[p] = FALSE])
    BY <1>1, <2>1 DEF PanelOK
  <2> QED
    BY <1>6, <2>2, EditKeeps DEF SetDayShape
<1>8. ASSUME NEW l \in Blends, SetDistPreset(l)
      PROVE  ProjInv'
  <2>1. l \in DOMAIN Lengths
    BY DEF FleetAssumption
  <2>2. PanelOK([panel EXCEPT !.blend = l])
    BY <1>1, <2>1 DEF PanelOK
  <2> QED
    BY <1>8, <2>2, EditKeeps DEF SetDistPreset
<1>7. ASSUME ApplyMove
      PROVE  ProjInv'
  <2>1. PICK m \in summary.moves : Edited(m.panel)
    BY <1>7 DEF ApplyMove
  <2>2. PanelOK(m.panel)
    BY <1>1, <2>1 DEF SummaryOK, Edited
  <2> QED
    BY <2>1, <2>2, EditKeeps
<1> QED
  BY <1>2, <1>3, <1>4, <1>5, <1>6, <1>7, <1>8

LEMMA ProjectionStep ==
    ASSUME FleetAssumption, DemandAssumption, ProjInv, [ProjectionNext]_vars
    PROVE  ProjInv'
<1>1. CASE UNCHANGED vars
  <2>1. UNCHANGED <<policy, panel, stage, queue, supply, outcome, summary>>
    BY <1>1 DEF vars
  <2>2. /\ PolicyOK' /\ PanelOK(panel)' /\ (QueueOK => QueueOK')
        /\ (RowsOK /\ HoursOK /\ TimesOK /\ FullOK /\ PriorityRespected)' /\ Supplies' = Supplies
        /\ Routed' = Routed
        /\ \A s : Status(s)' = Status(s)
    BY <2>1, SameDay
  <2>3. StageOK' /\ SummaryOK'
    BY <2>1, <2>2 DEF ProjInv, StageOK, SummaryOK
  <2> QED
    BY <2>1, <2>2, <2>3 DEF ProjInv
<1>2. CASE ProjectionNext
  BY <1>2, StagesKeep, RouteProjectKeeps, SummarizeKeeps, EditsKeep DEF ProjectionNext
<1> QED
  BY <1>1, <1>2

-----------------------------------------------------------------------------
(* What follows from the invariant.                                         *)

LEMMA TypedByInv ==
    ASSUME FleetAssumption, DemandAssumption, ProjInv
    PROVE  ProjectionTypeOK
<1>1. stage \in {"edited", "supplied", "routing", "priced", "impacted", "done"}
  BY DEF ProjInv, StageOK
<1>2. ASSUME stage \in {"routing", "priced", "impacted", "done"}
      PROVE  Routed \cup Range(queue) = Projects /\ Routed \cap Range(queue) = {}
  <2>1. QueueOK /\ Routed \subseteq Projects
    BY <1>2 DEF ProjInv, RowsOK
  <2>2. \A x : x \in Range(queue) <=> \E i \in 1..Len(queue) : queue[i] = x
    BY <2>1 DEF QueueOK, Range
  <2>3. \A i \in 1..Len(queue) : queue[i] \in Projects
    BY <2>1 DEF QueueOK
  <2>4. Routed \cup Range(queue) = Projects
    BY <2>1, <2>2, <2>3 DEF QueueOK
  <2>5. \A p \in Routed : ~\E i \in 1..Len(queue) : queue[i] = p
    BY <2>1, <2>3, PrecedesIs DEF QueueOK
  <2> QED
    BY <2>2, <2>4, <2>5
<1>3. \A s \in DOMAIN supply, h \in Hours : ~Below(supply[s].remaining[h], Zero)
  <2>1. CASE stage = "edited"
    <3>1. supply = <<>>
      BY <2>1 DEF ProjInv, StageOK
    <3>2. DOMAIN supply = {}
      BY <3>1
    <3> QED
      BY <3>2
  <2>2. CASE stage # "edited"
    BY <2>2 DEF ProjInv, StageOK, Supplies, SupplyRow, Quantity, Below
  <2> QED
    BY <2>1, <2>2
<1>4. stage = "done" => DOMAIN summary.status = Supplied(panel)
  BY DEF ProjInv, StageOK, SummaryOK, Supplies
<1>5. \A s \in Slots : s \in Supplied(panel) <=>
        \/ ModelOf(panel, s).kind = "llm"
        \/ \E p \in Projects : Demand[p].kind = ModelOf(panel, s).kind
  BY DEF Supplied
<1> QED
  BY <1>1, <1>2, <1>3, <1>4, <1>5 DEF ProjectionTypeOK

LEMMA Accounted ==
    ASSUME ProjInv
    PROVE  DemandAccounted
<1>1. \A p \in Routed :
        /\ outcome[p].total = Plus(outcome[p].served, Total([f \in Fates |-> outcome[p][f]], Fates))
        /\ Cardinality({f \in Fates : Positive(outcome[p][f])}) <= 1
  BY DEF ProjInv, RowsOK, RowOK
<1>2. \A s \in DOMAIN supply : \A h \in Hours :
        LET sold == {p \in Routed : s \in Candidates(panel, p)}
            share == [p \in sold |-> Over(outcome[p].took[s][h], PerFrac(panel, s, p))]
        IN  Plus(supply[s].remaining[h], Total(share, sold)) = Frac(1, Cardinality(Hours))
  BY DEF ProjInv, HoursOK, Sold, Routed
<1>3. \A s \in DOMAIN supply : Plus(supply[s].used, AllHours(supply[s].remaining)) = Whole(1)
  BY DEF ProjInv, TimesOK
<1> QED
  BY <1>1, <1>2, <1>3 DEF DemandAccounted, Fates

LEMMA FullIsShown ==
    ASSUME FleetAssumption, ProjInv
    PROVE  LeftoversMeanFull
<1> SUFFICES ASSUME NEW p \in Routed, NEW s \in Candidates(panel, p),
                    Affordable(p, EffectivePm(panel, s, p)),
                    NEW h \in Hours,
                    IF panel.batch[p] THEN Below(outcome[p].served, outcome[p].total)
                    ELSE Positive(outcome[p].left[h])
             PROVE  /\ supply[s].remaining[h] = Zero
                    /\ stage = "done" => summary.status[s] = "SATURATED"
  BY DEF LeftoversMeanFull
<1>1. s \in Slots /\ s \in Supplied(panel) /\ Runnable(panel, s) /\ Wants(p, s)
  BY CandidateIs DEF Wants
<1>2. supply[s].remaining[h] = Zero
  BY <1>1 DEF ProjInv, FullOK
<1>3. AtMost(Zero, Frac(1, 100 * Cardinality(Hours)))
  <2>1. Cardinality(Hours) \in Nat /\ Cardinality(Hours) > 0
    BY FreshIs
  <2>2. 100 * Cardinality(Hours) \in Nat /\ 100 * Cardinality(Hours) > 0
    BY <2>1
  <2>3. Frac(1, 100 * Cardinality(Hours)) \in Quantity
    BY <2>2, PartIs
  <2> QED
    BY <2>3 DEF Quantity
<1>4. Status(s) = "SATURATED"
  BY <1>1, <1>2, <1>3 DEF Status
<1>5. stage = "done" => summary.status[s] = Status(s)
  BY <1>1 DEF ProjInv, StageOK, SummaryOK, Supplies
<1> QED
  BY <1>2, <1>4, <1>5

-----------------------------------------------------------------------------

\* The invariant holds in every state of the engine, whatever the constants.
THEOREM ProjectionInvariant == ProjectionSpec => []ProjInv
<1>1. Init => ProjInv
  BY ProjectionInit, FleetAssumption
<1>2. ProjInv /\ [ProjectionNext]_vars => ProjInv'
  BY ProjectionStep, FleetAssumption, DemandAssumption
<1> QED
  BY <1>1, <1>2, PTL DEF ProjectionSpec

\* The stages of compute_projection_result hand over what the next one expects: the
\* queue and the routed use cases partition the portfolio, no hour is oversold, and the
\* report speaks of the deployments that build_supply keeps, and of no other.
THEOREM ProjectionTyped == ProjectionSpec => []ProjectionTypeOK
<1>1. ProjInv => ProjectionTypeOK
  BY TypedByInv, FleetAssumption, DemandAssumption
<1> QED
  BY <1>1, ProjectionInvariant, PTL

\* allocate_capacity loses nothing and counts nothing twice: demand is served or meets
\* one fate, the hours of a deployment and what was taken of them make the whole day.
THEOREM DemandIsAccounted == ProjectionSpec => []DemandAccounted
<1>1. ProjInv => DemandAccounted
  BY Accounted
<1> QED
  BY <1>1, ProjectionInvariant, PTL

\* Demand that allocate_capacity leaves over met full every deployment that may serve it
\* (one that also runs the panel's blended requests), and the report shows these
\* deployments as saturated.
THEOREM UnservedMeansFull == ProjectionSpec => []LeftoversMeanFull
<1>1. ProjInv => LeftoversMeanFull
  BY FullIsShown, FleetAssumption
<1> QED
  BY <1>1, ProjectionInvariant, PTL

\* No use case takes capacity that one before it in the order of classify_demand wants.
THEOREM PriorityHolds == ProjectionSpec => []PriorityRespected
<1>1. ProjInv => PriorityRespected
  BY DEF ProjInv
<1> QED
  BY <1>1, ProjectionInvariant, PTL

\* Price-driven demand never pays more for local tokens than they are worth to it, nor
\* more than the cheapest cloud model would ask: the lesser of the two bounds it.
THEOREM NeverPaysMore == ProjectionSpec => []NeverBelowCost
<1>1. ProjInv => NeverBelowCost
  BY DEF ProjInv, RowsOK, RowOK, NeverBelowCost
<1> QED
  BY <1>1, ProjectionInvariant, PTL
=============================================================================
