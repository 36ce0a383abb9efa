--------------------------- MODULE CapacityProofs ----------------------------
(***************************************************************************)
(* Proofs about the calculator behind the panel: what Capacity and Serving *)
(* compute for a model, a GPU and a layout is held against the bytes of    *)
(* the memory and against the layouts the planner prefers, for any         *)
(* catalog, hardware, settings and number of GPUs.                         *)
(*                                                                         *)
(* The lemmas named after an operator say what it returns.                 *)
(* StageCacheFits (a replica's requests fit a stage), SlotsAre and         *)
(* PromptSlotsAre (what counts the requests) carry the argument about      *)
(* capacity; FirstBestIs (the order of scores has a greatest layout) and   *)
(* ProbesMeasured (scores are numbers) the one about the preferred layout. *)
(* The last part takes both to the panel, whose layouts AllocationProofs   *)
(* keeps valid.                                                            *)
(***************************************************************************)
EXTENDS PanelCapacity, AllocationProofs

LEMMA WholeNumbers ==
    ASSUME NEW a \in Nat, NEW b \in Nat
    PROVE  /\ Or(a, b) \in Nat /\ Smaller(a, b) \in Nat /\ Larger(a, b) \in Nat
           /\ Smaller(a, b) <= a /\ Smaller(a, b) <= b /\ a <= Larger(a, b) /\ b <= Larger(a, b)
           /\ b > 0 => Or(a, b) > 0
BY DEF Or, Smaller, Larger

LEMMA CeilDivIs ==
    ASSUME NEW n \in Nat, NEW d \in Nat, d > 0
    PROVE  /\ CeilDiv(n, d) \in Nat
           /\ \A k \in Nat : CeilDiv(n, d) <= k <=> n <= k * d
           /\ n > 0 => CeilDiv(n, d) > 0
<1> DEFINE q == CeilDiv(n, d)
           x == n + d - 1
<1>1. q = x \div d /\ x \in Nat
  BY DEF CeilDiv
<1>2. q \in Nat /\ q * d <= x /\ x < q * d + d
  <2> HIDE DEF x, q
  <2> QED
    BY <1>1
<1>3. n <= q * d /\ q * d < n + d
  <2> HIDE DEF q
  <2> QED
    BY <1>2
<1>4. ASSUME NEW k \in Nat
      PROVE  q <= k <=> n <= k * d
  <2> HIDE DEF q
  <2>1. q <= k => q * d <= k * d
    BY <1>2
  <2>2. q > k => (k + 1) * d <= q * d /\ (k + 1) * d = k * d + d
    BY <1>2
  <2>3. k * d \in Nat /\ q * d \in Nat
    BY <1>2
  <2> QED
    BY <1>2, <1>3, <2>1, <2>2, <2>3
<1>5. n > 0 => q > 0
  <2>1. 0 * d = 0
    OBVIOUS
  <2> QED
    BY <1>2, <1>4, <2>1
<1> QED
  BY <1>2, <1>4, <1>5

-----------------------------------------------------------------------------
(* The shape of a model and the bytes of its checkpoint.                    *)

LEMMA ShapeIs ==
    ASSUME NEW m, ModelOK(m)
    PROVE  /\ m.total \in Nat \ {0} /\ m.active \in Nat \ {0} /\ m.layers \in Nat \ {0}
           /\ m.heads \in Nat \ {0} /\ Hidden(m) \in Nat
           /\ AttentionLayers(m) \in Nat /\ KvLayers(m) \in Nat
           /\ QueryHeads(m) \in Nat /\ ValueDim(m) \in Nat
           /\ LocalHeads(m) \in Nat /\ LocalHeadDim(m) \in Nat
           /\ LocalKvHeads(m) \in Nat /\ LocalKvDim(m) \in Nat
           /\ LinearHeads(m) \in Nat /\ LinearDim(m) \in Nat
           /\ LinearKHeads(m) \in Nat /\ LinearKDim(m) \in Nat
           /\ LinearConv(m) \in Nat /\ LinearConv(m) > 0
           /\ ResidualSources(m) \in Nat
<1>1. /\ m.total \in Nat \ {0} /\ m.active \in Nat \ {0} /\ m.layers \in Nat \ {0}
      /\ m.heads \in Nat \ {0} /\ m.headDim \in Nat /\ m.kvHeads \in Nat
  BY DEF ModelOK
<1>2. AttentionLayers(m) \in Nat /\ KvLayers(m) \in Nat
  <2>1. m.kvLayers \in Nat \cup {-1} /\ m.attention \in Nat \cup {-1}
    BY DEF ModelOK
  <2> QED
    BY <1>1, <2>1 DEF AttentionLayers, KvLayers
<1>3. /\ m.hidden \in Nat /\ m.queryHeads \in Nat /\ m.valueDim \in Nat
      /\ m.localHeads \in Nat /\ m.localHeadDim \in Nat /\ m.localKvHeads \in Nat /\ m.localKvDim \in Nat
      /\ m.linearHeads \in Nat /\ m.linearDim \in Nat /\ m.linearKHeads \in Nat /\ m.linearKDim \in Nat
      /\ m.linearConv \in Nat /\ m.residualBlock \in Nat
  BY DEF ModelOK
<1>4. Hidden(m) \in Nat
  <2>1. m.heads * m.headDim \in Nat
    BY <1>1
  <2> QED
    BY <1>3, <2>1, WholeNumbers DEF Hidden
<1>5. QueryHeads(m) \in Nat /\ ValueDim(m) \in Nat /\ LocalHeadDim(m) \in Nat /\ LocalKvHeads(m) \in Nat
  BY <1>1, <1>3 DEF QueryHeads, ValueDim, LocalHeadDim, LocalKvHeads, Or
<1>6. LocalHeads(m) \in Nat /\ LocalKvDim(m) \in Nat
  BY <1>3, <1>5 DEF LocalHeads, LocalKvDim, Or
<1>7. LinearHeads(m) \in Nat /\ LinearDim(m) \in Nat
  BY <1>1, <1>3 DEF LinearHeads, LinearDim, Or
<1>8. LinearKHeads(m) \in Nat /\ LinearKDim(m) \in Nat
  BY <1>3, <1>7 DEF LinearKHeads, LinearKDim, Or
<1>9. LinearConv(m) \in Nat /\ LinearConv(m) > 0
  BY <1>3 DEF LinearConv, Larger
<1>10. ResidualSources(m) \in Nat
  <2>1. m.residualBlock = 0 \/ m.residualBlock > 0
    BY <1>3
  <2>2. m.residualBlock > 0 => CeilDiv(m.layers, m.residualBlock) \in Nat
    BY <1>1, <1>3, CeilDivIs
  <2>3. \A n \in Nat : n + 1 \in Nat
    OBVIOUS
  <2> QED
    BY <2>1, <2>2, <2>3 DEF ResidualSources
<1> QED
  BY <1>1, <1>2, <1>4, <1>5, <1>6, <1>7, <1>8, <1>9, <1>10

LEMMA BytesAre ==
    ASSUME NEW m, ModelOK(m)
    PROVE  /\ m.total \in Nat \ {0} /\ Whole(m.total) \in Quantity /\ Positive(Whole(m.total))
           /\ m.tableBytes \in Quantity /\ m.indexBytes \in Quantity /\ m.nativeBytes \in Quantity
           /\ m.bf16Bytes \in Quantity /\ m.fp8Bytes \in Quantity
           /\ m.tableParams \in Nat /\ m.total - m.tableParams \in Nat
<1>1. m.total \in Nat \ {0}
  BY DEF ModelOK
<1>2. m.tableParams \in 0..m.total
  BY DEF ModelOK
<1>3. \A a \in {m.bf16Bytes, m.fp8Bytes} : Amount(a) /\ Positive(a)
  BY DEF ModelOK
<1>4. \A a \in {m.tableBytes, m.indexBytes, m.nativeBytes} : Amount(a)
  BY DEF ModelOK
<1>5. m.tableParams \in Nat /\ m.total - m.tableParams \in Nat
  BY <1>1, <1>2
<1>6. Whole(m.total) \in Quantity /\ Positive(Whole(m.total))
  <2>1. m.total \in Nat /\ m.total > 0
    BY <1>1
  <2> QED
    BY <2>1, WholeQuantity
<1> QED
  BY <1>1, <1>3, <1>4, <1>5, <1>6, AmountIs

LEMMA FormatsAre ==
    ASSUME NEW p \in Precisions
    PROVE  /\ FormatBytes[p] \in Quantity /\ Positive(FormatBytes[p])
           /\ CacheBytes[p] \in Quantity /\ Positive(CacheBytes[p])
<1>1. /\ Frac(9, 16) \in Quantity /\ Positive(Frac(9, 16))
      /\ Frac(17, 32) \in Quantity /\ Positive(Frac(17, 32))
  BY PartIs
<1>2. /\ Whole(1) \in Quantity /\ Positive(Whole(1))
      /\ Whole(2) \in Quantity /\ Positive(Whole(2))
  BY WholeQuantity
<1>3. FormatBytes[p] \in {Whole(2), Whole(1), Frac(9, 16), Frac(17, 32)}
  BY DEF Precisions, FormatBytes
<1>4. CacheBytes[p] \in {Whole(2), Whole(1)}
  BY DEF Precisions, CacheBytes
<1> QED
  BY <1>1, <1>2, <1>3, <1>4

\* A checkpoint is a captured one, or none is known.
LEMMA ServedIs ==
    ASSUME NEW m, NEW prec, ServedProfile(m, prec) # Absent
    PROVE  ProfileOK(ServedProfile(m, prec))
<1>1. \A k, a : Profile(k, a) # Absent => ProfileOK(Profile(k, a))
  BY PublishedAssumption DEF Profile
<1>2. \A k, q : DefaultProfile(k, q) # Absent => ProfileOK(DefaultProfile(k, q))
  BY <1>1 DEF DefaultProfile
<1> QED
  BY <1>1, <1>2 DEF ServedProfile

LEMMA BytesPerParamIs ==
    ASSUME NEW m, ModelOK(m), NEW prec \in Precisions
    PROVE  BytesPerParam(m, prec) \in Quantity
<1>1. /\ m.total - m.tableParams \in Nat /\ m.tableParams \in Nat
  BY BytesAre
<1>2. m.tableBytes \in Quantity /\ m.bf16Bytes \in Quantity /\ m.fp8Bytes \in Quantity
  BY BytesAre
<1>3. FormatBytes[prec] \in Quantity /\ FormatBytes["fp8"] \in Quantity
  BY FormatsAre DEF Precisions
<1>4. Positive(Whole(m.total)) /\ Whole(m.total) \in Quantity
  BY BytesAre
<1>5. ((Whole(m.total - m.tableParams) ** FormatBytes[prec]) ++ m.tableBytes) // Whole(m.total) \in Quantity
  <2>1. Whole(m.total - m.tableParams) ** FormatBytes[prec] \in Quantity
    BY <1>1, <1>3, Numbers
  <2>2. (Whole(m.total - m.tableParams) ** FormatBytes[prec]) ++ m.tableBytes \in Quantity
    BY <1>2, <2>1, Numbers
  <2> QED
    BY <1>4, <2>2, Numbers
<1>6. FormatBytes[prec] ++ Largest(Zero, m.fp8Bytes -- FormatBytes["fp8"]) \in Quantity
  <2>1. m.fp8Bytes -- FormatBytes["fp8"] \in Fraction
    BY <1>2, <1>3, Numbers DEF Quantity
  <2> QED
    BY <1>3, <2>1, Numbers
<1>7. m.tableParams > 0 \/ m.tableParams = 0
  BY <1>1
<1> QED
  BY <1>1, <1>2, <1>5, <1>6, <1>7 DEF BytesPerParam

LEMMA WeightsAre ==
    ASSUME NEW m, ModelOK(m), NEW prec \in Precisions
    PROVE  WeightBytes(m, prec) \in Quantity /\ ServedBytesPerParam(m, prec) \in Quantity
<1>1. Whole(m.total) \in Quantity /\ Positive(Whole(m.total))
  BY BytesAre
<1>2. BytesPerParam(m, prec) \in Quantity
  BY BytesPerParamIs
<1>3. ServedProfile(m, prec) # Absent => ServedProfile(m, prec).bytes \in Quantity
  BY ServedIs, AmountIs DEF ProfileOK
<1> QED
  BY <1>1, <1>2, <1>3, Numbers DEF WeightBytes, ServedBytesPerParam

LEMMA KvElemIs ==
    ASSUME NEW m, NEW prec \in Precisions
    PROVE  KvElem(m, prec) \in Quantity /\ RecurrentElem(m, prec) \in Quantity /\ ConvElem(m, prec) \in Quantity
<1>1. Whole(1) \in Quantity /\ Whole(2) \in Quantity /\ Whole(4) \in Quantity
  BY Numbers
<1>2. CacheBytes[prec] \in Quantity
  BY FormatsAre
<1>3. ServedProfile(m, prec) # Absent => ServedProfile(m, prec).elem \in Quantity
  BY ServedIs, AmountIs DEF ProfileOK
<1>4. KvElem(m, prec) \in Quantity
  BY <1>1, <1>2, <1>3 DEF KvElem
<1> QED
  BY <1>1, <1>4 DEF RecurrentElem, ConvElem

\* What a GPU loads is at least the checkpoint, unless part of it stays on the host.
LEMMA LoadedIs ==
    ASSUME NEW m, ModelOK(m), Ordinary(m), NEW prec \in Precisions
    PROVE  /\ GpuWeightBytes(m, prec) \in Quantity
           /\ m.nativeBytes = Zero => WeightBytes(m, prec) \preceq GpuWeightBytes(m, prec)
<1> DEFINE w == WeightBytes(m, prec)
           loaded == IF prec = m.native /\ Positive(m.nativeBytes) THEN m.nativeBytes
                     ELSE w -- HostBytes(m)
           expanded == Whole(2 * (m.total - IF m.tableOnHost THEN m.tableParams ELSE 0))
<1>1. w \in Quantity /\ w \in Fraction
  BY WeightsAre DEF Quantity
<1>2. w -- HostBytes(m) = w
  <2>1. HostBytes(m) = Zero
    BY DEF HostBytes, Ordinary
  <2> HIDE DEF w
  <2> QED
    BY <1>1, <2>1, Sums DEF --
<1>3. m.nativeBytes \in Quantity /\ ~Positive(Zero)
  BY AmountIs DEF ModelOK, Positive, Zero, Whole
<1>4. m.total \in Nat
  BY DEF ModelOK
<1>5. expanded \in Quantity
  <2>1. expanded = Whole(2 * m.total)
    BY <1>4 DEF Ordinary
  <2> QED
    BY <1>4, <2>1, Numbers
<1>6. loaded \in Quantity /\ (m.nativeBytes = Zero => loaded = w)
  BY <1>1, <1>2, <1>3
<1>7. GpuWeightBytes(m, prec) = IF m.backend = "expanded" THEN Largest(loaded, expanded) ELSE loaded
  BY DEF GpuWeightBytes
<1> HIDE DEF w, loaded, expanded
<1>8. loaded \preceq Largest(loaded, expanded) /\ loaded \preceq loaded
  BY <1>5, <1>6, Order DEF Largest, Quantity, \preceq
<1> QED
  BY <1>5, <1>6, <1>7, <1>8, Numbers DEF w

-----------------------------------------------------------------------------
(* Parts of a whole, and quotients.                                         *)

LEMMA WholeOrder ==
    ASSUME NEW i \in Nat, NEW j \in Nat
    PROVE  Whole(i) \preceq Whole(j) <=> i <= j
<1>1. Whole(i) \in Fraction /\ Whole(j) \in Fraction /\ Is(Whole(i), i, 1) /\ Is(Whole(j), j, 1)
  BY WholeIs
<1> HIDE DEF Whole
<1> QED
  BY <1>1, SameDenominator DEF \preceq

LEMMA PartOrder ==
    ASSUME NEW n \in Nat, NEW d \in Nat, d > 0
    PROVE  /\ Frac(n, d) \in Quantity
           /\ n <= d => Frac(n, d) \preceq Whole(1)
           /\ \A k \in Nat : k <= n => Frac(k, d) \preceq Frac(n, d)
<1>1. ASSUME NEW k \in Nat
      PROVE  Frac(k, d) \in Fraction /\ Is(Frac(k, d), k, d)
  BY FracIs
<1>2. Zero \in Fraction /\ Is(Zero, 0, d)
  BY ZeroIs
<1>3. Whole(1) \in Fraction /\ Is(Whole(1), d, d)
  <2>1. 1 * d = d * 1
    OBVIOUS
  <2> QED
    BY <2>1, OneIs, Scaled
<1>4. AtMost(Zero, Frac(n, d)) <=> 0 <= n
  BY <1>1, <1>2, SameDenominator
<1>5. AtMost(Frac(n, d), Whole(1)) <=> n <= d
  BY <1>1, <1>3, SameDenominator
<1>6. ASSUME NEW k \in Nat
      PROVE  AtMost(Frac(k, d), Frac(n, d)) <=> k <= n
  BY <1>1, SameDenominator
<1> QED
  BY <1>1, <1>4, <1>5, <1>6 DEF Quantity, \preceq

\* A share of a quantity that is spread evenly.
LEMMA EvenShare ==
    ASSUME NEW a \in Quantity, NEW n \in Nat, NEW d \in Nat, d > 0
    PROVE  Whole(n) ** (a // Whole(d)) = a ** Frac(n, d)
<1> DEFINE p == a[1]
           q == a[2]
<1>1. a \in Fraction /\ p \in Int /\ q \in Int /\ q > 0
  BY Parts DEF Quantity
<1>2. Is(a, p, q)
  BY DEF Is
<1>3. Whole(n) \in Fraction /\ Whole(d) \in Fraction /\ Positive(Whole(d))
      /\ Whole(d)[1] = d /\ Whole(d)[2] = 1 /\ Is(Whole(n), n, 1)
  BY WholeIs, WholeQuantity
<1>4. Frac(n, d) \in Fraction /\ Is(Frac(n, d), n, d)
  BY FracIs
<1>5. Over(a, Whole(d)) \in Fraction /\ Is(Over(a, Whole(d)), p * 1, q * d)
  BY <1>1, <1>3, OverIs
<1> HIDE DEF p, q
<1>6. q * d \in Int /\ q * d # 0 /\ p * 1 \in Int /\ n * (p * 1) = p * n /\ 1 * (q * d) = q * d
  BY <1>1
<1>7. Times(Whole(n), Over(a, Whole(d))) \in Fraction /\ Is(Times(Whole(n), Over(a, Whole(d))), p * n, q * d)
  <2>1. Is(Times(Whole(n), Over(a, Whole(d))), n * (p * 1), 1 * (q * d))
        /\ Times(Whole(n), Over(a, Whole(d))) \in Fraction
    BY <1>3, <1>5, <1>6, ProductIs
  <2> QED
    BY <1>6, <2>1
<1>8. Times(a, Frac(n, d)) \in Fraction /\ Is(Times(a, Frac(n, d)), p * n, q * d)
  BY <1>1, <1>2, <1>4, ProductIs
<1>9. p * n \in Int
  BY <1>1
<1> QED
  BY <1>6, <1>7, <1>8, <1>9, OneNumber DEF **, //

LEMMA QuotientOrder ==
    ASSUME NEW a \in Quantity, NEW i \in Nat, NEW j \in Nat, i > 0, i <= j
    PROVE  a // Whole(j) \preceq a // Whole(i)
<1> DEFINE b == a // Whole(i)
<1>1. /\ Whole(i) \in Quantity /\ Positive(Whole(i)) /\ Whole(j) \in Quantity /\ Positive(Whole(j))
      /\ Whole(i) \preceq Whole(j)
  BY WholeQuantity, WholeOrder
<1>2. b \in Quantity /\ b \in Fraction /\ a \in Fraction /\ Whole(j) \in Fraction /\ Whole(i) \in Fraction
  BY <1>1, Numbers DEF Quantity
<1>3. b ** Whole(i) = a
  BY <1>1, <1>2, Quotients DEF **, //
<1> HIDE DEF b
<1>4. b \preceq b
  BY <1>2, Comparisons
<1>5. b ** Whole(i) \preceq b ** Whole(j)
  BY <1>1, <1>2, <1>4, Comparisons
<1>6. a \preceq b ** Whole(j)
  BY <1>3, <1>5
<1>7. a // Whole(j) \preceq b
  BY <1>1, <1>2, <1>6, Scaling DEF \preceq, **, //
<1> QED
  BY <1>7 DEF b

LEMMA QuotientOfProduct ==
    ASSUME NEW a \in Quantity, NEW b \in Quantity, NEW c \in Quantity, Positive(c)
    PROVE  (a ** b) // c = a ** (b // c)
<1>1. a \in Fraction /\ b \in Fraction /\ c \in Fraction
  BY DEF Quantity
<1>2. b // c \in Fraction /\ (b // c) ** c = b /\ a ** (b // c) \in Fraction
  BY <1>1, Quotients, Products DEF **, //
<1>3. (a ** (b // c)) ** c = a ** b
  BY <1>1, <1>2, Products DEF **
<1> HIDE DEF Times
<1>4. ((a ** (b // c)) ** c) // c = a ** (b // c)
  BY <1>1, <1>2, Quotients DEF **, //
<1> QED
  BY <1>3, <1>4

-----------------------------------------------------------------------------
(* Stages and shards.                                                       *)

\* No stage has a larger part of the layers than the busiest.
LEMMA PeakIs ==
    ASSUME NEW m, ModelOK(m), NEW pp \in Nat, pp > 0
    PROVE  /\ PeakFraction(m, pp) \in Quantity /\ Positive(PeakFraction(m, pp))
           /\ PeakFraction(m, pp) \preceq Whole(1)
           /\ \A first \in StageStarts(m.layers, pp) :
                 LET n == Cardinality(Stage(m.layers, pp, first)) IN
                 /\ n \in Nat /\ Frac(n, m.layers) \in Quantity
                 /\ Frac(n, m.layers) \preceq PeakFraction(m, pp)
                 /\ Frac(n, m.layers) \preceq Whole(1)
<1> DEFINE L == m.layers
           stages == Smaller(pp, L)
           width == CeilDiv(L, stages)
<1>1. L \in Nat /\ L > 0
  BY ShapeIs
<1>2. stages \in Nat /\ stages > 0
  BY <1>1 DEF Smaller
<1> HIDE DEF L, stages
<1>3. width \in Nat /\ width > 0 /\ width <= L
  <2>1. L <= L * stages
    BY <1>1, <1>2
  <2> QED
    BY <1>1, <1>2, <2>1, CeilDivIs
<1>4. PeakFraction(m, pp) = Frac(width, L)
  BY DEF PeakFraction, L, stages
<1> HIDE DEF width
<1>5. ASSUME NEW first \in StageStarts(L, pp)
      PROVE  LET n == Cardinality(Stage(L, pp, first)) IN
             /\ n \in Nat /\ Frac(n, L) \in Quantity
             /\ Frac(n, L) \preceq PeakFraction(m, pp)
             /\ Frac(n, L) \preceq Whole(1)
  <2> DEFINE last == Smaller(L, first + width - 1)
             n == Cardinality(first..last)
  <2>1. first \in Nat /\ first >= 1
    BY <1>1 DEF StageStarts
  <2>2. last \in Int /\ last <= first + width - 1
    BY <1>1, <1>3, <2>1 DEF Smaller
  <2>3. Stage(L, pp, first) = first..last
    BY DEF Stage, width, stages
  <2> HIDE DEF last
  <2>4. n = IF first > last THEN 0 ELSE last - first + 1
    BY <2>1, <2>2, FS_Interval
  <2> HIDE DEF n
  <2>5. n \in Nat /\ n <= width /\ n <= L
    BY <1>1, <1>3, <2>1, <2>2, <2>4
  <2>6. /\ Frac(n, L) \in Quantity /\ Frac(n, L) \preceq Frac(width, L) /\ Frac(n, L) \preceq Whole(1)
    BY <1>1, <1>3, <2>5, PartOrder
  <2> QED
    BY <1>4, <2>3, <2>5, <2>6 DEF n
<1>6. Frac(width, L) \in Quantity /\ Positive(Frac(width, L)) /\ Frac(width, L) \preceq Whole(1)
  BY <1>1, <1>3, PartOrder, PartIs
<1> QED
  BY <1>4, <1>5, <1>6 DEF L

LEMMA HeadShardsAre ==
    ASSUME NEW h \in Nat, NEW tp \in Nat, tp > 0
    PROVE  /\ HeadShards(h, tp) \in Nat /\ HeadShards(h, tp) > 0
           /\ h <= 1 => HeadShards(h, tp) = 1
           /\ h > 0 /\ tp <= h => HeadShards(h, tp) = tp
           /\ h > 0 /\ tp > h /\ tp % h = 0 => HeadShards(h, tp) = h
<1> DEFINE L == Larger(h, 1)
           g == HeadGroups(h, tp)
<1>1. L \in Nat /\ L > 0 /\ (h > 0 => L = h) /\ (h <= 1 => L = 1)
  BY DEF Larger
<1>2. g = IF tp <= L THEN 1 ELSE tp \div L
  BY DEF HeadGroups
<1> HIDE DEF L
<1>3. tp > L => tp \div L \in Nat /\ tp \div L > 0
  <2> DEFINE q == tp \div L
  <2>1. q \in Int /\ q * L <= tp /\ tp < q * L + L
    BY <1>1
  <2> HIDE DEF q
  <2>2. ASSUME tp > L, q <= 0
        PROVE  FALSE
    <3>1. q * L <= 0 * L
      BY <1>1, <2>1, <2>2
    <3> QED
      BY <1>1, <2>1, <2>2, <3>1
  <2>3. tp > L => q \in Nat /\ q > 0
    BY <2>1, <2>2
  <2> QED
    BY <2>3 DEF q
<1>4. g \in Nat /\ g > 0
  BY <1>1, <1>2, <1>3
<1>5. HeadShards(h, tp) = Larger(tp \div g, 1)
  BY DEF HeadShards
<1> HIDE DEF g
<1>6. tp \div g \in Nat
  BY <1>4
<1>7. HeadShards(h, tp) \in Nat /\ HeadShards(h, tp) > 0
  BY <1>5, <1>6 DEF Larger
<1>8. tp <= L => HeadShards(h, tp) = tp
  BY <1>2, <1>5 DEF Larger
<1>9. ASSUME tp > L, tp % L = 0
      PROVE  HeadShards(h, tp) = L
  <2> DEFINE q == tp \div L
  <2>1. q \in Nat /\ q > 0 /\ tp = q * L
    <3>1. tp = L * (tp \div L) + (tp % L)
      BY <1>1
    <3>2. tp = L * (tp \div L)
      BY <1>9, <3>1, <1>1, <1>3
    <3> HIDE DEF q
    <3>3. \A x \in Nat : L * x = x * L
      BY <1>1
    <3> QED
      BY <1>3, <1>9, <3>2, <3>3 DEF q
  <2>2. g = q
    BY <1>1, <1>2, <1>9
  <2> HIDE DEF q
  <2>3. (q * L) \div q = L
    <3>1. q * L \in Nat /\ q * L = L * q
      BY <1>1, <2>1
    <3> QED
      BY <1>1, <2>1, <3>1
  <2> QED
    BY <1>1, <1>5, <2>1, <2>2, <2>3 DEF Larger
<1>10. L = 1 => HeadShards(h, tp) = 1
  <2>1. \A x \in Nat : x % 1 = 0
    OBVIOUS
  <2> QED
    BY <1>1, <1>8, <1>9, <2>1
<1> QED
  BY <1>1, <1>7, <1>8, <1>9, <1>10

LEMMA LayerHeadsAre ==
    ASSUME NEW m, ModelOK(m), NEW global \in BOOLEAN
    PROVE  LayerKvHeads(m, global) \in Nat /\ LayerKvElems(m, global) \in Nat
<1>1. /\ m.globalKvHeads \in Nat /\ m.globalHeadDim \in Nat /\ m.localLayers \in Nat
      /\ m.mlaKv \in Nat /\ m.mlaRope \in Nat
  BY DEF ModelOK
<1>2. /\ m.headDim \in Nat /\ m.kvHeads \in Nat
  BY DEF ModelOK
<1>3. LocalKvHeads(m) \in Nat /\ LocalKvDim(m) \in Nat
  BY ShapeIs
<1>4. LayerKvHeads(m, global) \in Nat
  BY <1>1, <1>2, <1>3 DEF LayerKvHeads
<1> DEFINE dim == IF global /\ m.globalKvHeads > 0 THEN Or(m.globalHeadDim, m.headDim)
                  ELSE IF ~global /\ m.localLayers > 0 THEN LocalKvDim(m)
                  ELSE m.headDim
           two == IF m.sharedKv THEN 1 ELSE 2
<1>5. dim \in Nat /\ two \in Nat
  BY <1>1, <1>2, <1>3 DEF Or
<1>6. LayerKvElems(m, global) = IF m.mla THEN m.mlaKv + m.mlaRope ELSE two * LayerKvHeads(m, global) * dim
  BY DEF LayerKvElems
<1> HIDE DEF dim, two
<1>7. two * LayerKvHeads(m, global) \in Nat
  BY <1>4, <1>5
<1>8. two * LayerKvHeads(m, global) * dim \in Nat /\ m.mlaKv + m.mlaRope \in Nat
  BY <1>1, <1>5, <1>7
<1> QED
  BY <1>4, <1>6, <1>8

\* A layer with fewer cached heads is not spread over more GPUs.
LEMMA ShardsOrder ==
    ASSUME NEW m, ModelOK(m), NEW tp \in Nat, tp > 0, TpSupported(m, tp), ~m.mla,
           NEW global \in BOOLEAN, LayerKvHeads(m, global) <= m.kvHeads
    PROVE  HeadShards(LayerKvHeads(m, global), tp) <= KvShards(m, tp)
<1> DEFINE h == LayerKvHeads(m, global)
           k == m.kvHeads
           H == {Larger(k, 1)} \cup {x \in {m.globalKvHeads} : x > 0}
                  \cup {x \in {LocalKvHeads(m)} : m.localLayers > 0}
<1>1. h \in Nat /\ k \in Nat /\ h <= k
  BY LayerHeadsAre DEF ModelOK
<1>2. \A x \in H : (tp <= x /\ x % tp = 0) \/ (tp > x /\ tp % x = 0)
  BY DEF TpSupported
<1>3. h \in H \/ h = k
  BY DEF LayerKvHeads
<1>4. k > 0 => k \in H
  BY <1>1 DEF Larger
<1> HIDE DEF H
<1>5. h > 0 => (tp <= h \/ (tp > h /\ tp % h = 0))
  <2>1. h > 0 => h \in H
    BY <1>1, <1>3, <1>4
  <2> QED
    BY <1>2, <2>1
<1>6. k > 0 => (tp <= k \/ (tp > k /\ tp % k = 0))
  BY <1>2, <1>4
<1>7. KvShards(m, tp) = HeadShards(k, tp)
  BY DEF KvShards
<1> HIDE DEF h, k
<1>8. /\ HeadShards(h, tp) \in Nat /\ HeadShards(h, tp) > 0
      /\ h <= 1 => HeadShards(h, tp) = 1
      /\ h > 0 /\ tp <= h => HeadShards(h, tp) = tp
      /\ h > 0 /\ tp > h /\ tp % h = 0 => HeadShards(h, tp) = h
  BY <1>1, HeadShardsAre
<1>9. /\ HeadShards(k, tp) \in Nat /\ HeadShards(k, tp) > 0
      /\ k > 0 /\ tp <= k => HeadShards(k, tp) = tp
      /\ k > 0 /\ tp > k /\ tp % k = 0 => HeadShards(k, tp) = k
  BY <1>1, HeadShardsAre
<1>10. HeadShards(h, tp) <= HeadShards(k, tp)
  BY <1>1, <1>5, <1>6, <1>8, <1>9
<1> QED
  BY <1>7, <1>10 DEF h

-----------------------------------------------------------------------------
(* The cache of a sequence.                                                 *)

LEMMA EmptySum ==
    ASSUME NEW f, DOMAIN f = {}
    PROVE  SumOf(f) = 0
<1> DEFINE c == CHOOSE g : g = [T \in SUBSET {} |->
                   IF T = {} THEN 0 ELSE f[CHOOSE x \in T : TRUE] + g[T \ {CHOOSE x \in T : TRUE}]]
<1>1. SumOf(f) = c[{}]
  BY DEF SumOf, MapThenFoldSet
<1> DEFINE d == [T \in SUBSET {} |-> 0]
<1>2. d = [T \in SUBSET {} |->
             IF T = {} THEN 0 ELSE f[CHOOSE x \in T : TRUE] + d[T \ {CHOOSE x \in T : TRUE}]]
  OBVIOUS
<1>3. c = [T \in SUBSET {} |->
             IF T = {} THEN 0 ELSE f[CHOOSE x \in T : TRUE] + c[T \ {CHOOSE x \in T : TRUE}]]
  BY <1>2
<1> HIDE DEF c
<1>4. c[{}] = 0
  BY <1>3
<1> QED
  BY <1>1, <1>4

LEMMA PlainRatios ==
    ASSUME NEW m, ModelOK(m), m.ratios = <<>>
    PROVE  Ratios(m) = <<>> /\ ~IsCompressed(m)
<1>1. AttentionLayers(m) \in Nat
  BY ShapeIs
<1>2. Smaller(0, AttentionLayers(m)) = 0
  BY <1>1 DEF Smaller
<1>3. Len(m.ratios) = 0
  OBVIOUS
<1>4. SubSeq(m.ratios, 1, 0) = <<>>
  OBVIOUS
<1>5. Ratios(m) = <<>>
  BY <1>2, <1>3, <1>4 DEF Ratios
<1> QED
  BY <1>5 DEF IsCompressed

LEMMA IndexBytesAre ==
    ASSUME NEW m, ModelOK(m), m.ratios = <<>>, NEW seq \in Nat, NEW prec \in Precisions
    PROVE  IndexBytes(m, seq, prec) \in Quantity /\ (m.indexRatio = 0 => IndexBytes(m, seq, prec) = Zero)
<1>1. m.indexElems \in Nat /\ m.indexRatio \in Nat /\ m.indexLayers \in Nat
  BY DEF ModelOK
<1>2. IndexKey(m, prec) \in Quantity
  <2>1. Whole(m.indexElems) ** KvElem(m, prec) \in Quantity
    BY <1>1, KvElemIs, Numbers
  <2> QED
    BY <2>1, BytesAre DEF IndexKey
<1> DEFINE told == SumOf([i \in DOMAIN Ratios(m) |-> IndexRows(m, seq, Ratios(m)[i])])
           rows == IF m.indexRatio > 0 THEN m.indexLayers * CeilDiv(seq, m.indexRatio) ELSE told
<1>3. told = 0
  <2> DEFINE f == [i \in DOMAIN Ratios(m) |-> IndexRows(m, seq, Ratios(m)[i])]
  <2>1. Ratios(m) = <<>>
    BY PlainRatios
  <2>2. DOMAIN f = {}
    BY <2>1
  <2> HIDE DEF f
  <2>3. SumOf(f) = 0
    BY <2>2, EmptySum
  <2> QED
    BY <2>3 DEF f
<1>4. m.indexRatio > 0 => m.indexLayers * CeilDiv(seq, m.indexRatio) \in Nat
  <2>1. m.indexRatio > 0 => CeilDiv(seq, m.indexRatio) \in Nat
    BY <1>1, CeilDivIs
  <2> QED
    BY <1>1, <2>1
<1> HIDE DEF told
<1>5. rows \in Nat /\ (m.indexRatio = 0 => rows = 0)
  BY <1>1, <1>3, <1>4
<1>6. IndexBytes(m, seq, prec) = Whole(rows) ** IndexKey(m, prec)
  BY DEF IndexBytes, told
<1> HIDE DEF rows
<1>7. Zero ** IndexKey(m, prec) = Zero
  BY <1>2, Products DEF **, Quantity
<1> QED
  BY <1>2, <1>5, <1>6, <1>7, Numbers DEF Zero

LEMMA LayersAre ==
    ASSUME NEW m, ModelOK(m), NEW seq \in Nat
    PROVE  CachedLocal(m) \in Nat /\ CachedFull(m) \in Nat /\ LocalRows(m, seq) \in Nat
<1>1. KvLayers(m) \in Nat
  BY ShapeIs
<1>2. m.localKvLayers \in Nat \cup {-1} /\ m.localLayers \in Nat /\ m.localWindow \in Nat
  BY DEF ModelOK
<1> DEFINE x == IF m.localKvLayers >= 0 THEN m.localKvLayers ELSE m.localLayers
<1>3. x \in Nat /\ CachedLocal(m) = Smaller(x, KvLayers(m))
  BY <1>2 DEF CachedLocal
<1> HIDE DEF x
<1>4. CachedLocal(m) \in Nat /\ CachedLocal(m) <= KvLayers(m)
  BY <1>1, <1>3 DEF Smaller
<1>5. CachedFull(m) \in Nat
  BY <1>1, <1>4 DEF CachedFull
<1>6. LocalRows(m, seq) \in Nat
  BY <1>2 DEF LocalRows, Smaller
<1> QED
  BY <1>4, <1>5, <1>6

LEMMA LayerBytesAre ==
    ASSUME NEW m, ModelOK(m), NEW prec \in Precisions, NEW global \in BOOLEAN
    PROVE  LayerKvBytes(m, prec, global) \in Quantity
BY LayerHeadsAre, KvElemIs, Numbers DEF LayerKvBytes

LEMMA MainCacheIs ==
    ASSUME NEW m, ModelOK(m), m.ratios = <<>>, m.shared = Absent, NEW seq \in Nat, NEW prec \in Precisions
    PROVE  /\ MainCache(m, seq, prec, seq) \in Quantity
           /\ CacheOf(m, seq, prec) = MainCache(m, seq, prec, seq) ++ IndexBytes(m, seq, prec)
           /\ CacheOf(m, seq, prec) \in Quantity
<1>1. CachedFull(m) * seq \in Nat /\ CachedLocal(m) * LocalRows(m, seq) \in Nat
  <2>1. CachedLocal(m) \in Nat /\ CachedFull(m) \in Nat /\ LocalRows(m, seq) \in Nat
    BY LayersAre
  <2> QED
    BY <2>1
<1>2. LayerKvBytes(m, prec, TRUE) \in Quantity /\ LayerKvBytes(m, prec, FALSE) \in Quantity
  BY LayerBytesAre
<1>3. /\ Whole(CachedFull(m) * seq) ** LayerKvBytes(m, prec, TRUE) \in Quantity
      /\ Whole(CachedLocal(m) * LocalRows(m, seq)) ** LayerKvBytes(m, prec, FALSE) \in Quantity
  BY <1>1, <1>2, Numbers
<1>4. MainCache(m, seq, prec, seq) \in Quantity
  BY <1>3, Numbers DEF MainCache
<1>5. CacheOf(m, seq, prec) = MainCache(m, seq, prec, seq) ++ IndexBytes(m, seq, prec)
  BY PlainRatios DEF CacheOf
<1>6. IndexBytes(m, seq, prec) \in Quantity
  BY IndexBytesAre
<1> QED
  BY <1>4, <1>5, <1>6, Numbers

\* What an even number of rows of a layer costs a GPU of the replica.
LEMMA HeadShardedIs ==
    ASSUME NEW m, ModelOK(m), NEW prec \in Precisions, NEW tp \in Nat, tp > 0,
           NEW full \in Nat, NEW local \in Nat
    PROVE  HeadSharded(m, prec, tp, full, local) \in Quantity
<1> DEFINE part(global) == LayerKvBytes(m, prec, global) // Whole(HeadShards(LayerKvHeads(m, global), tp))
<1>1. ASSUME NEW global \in BOOLEAN
      PROVE  part(global) \in Quantity
  <2>1. HeadShards(LayerKvHeads(m, global), tp) \in Nat /\ HeadShards(LayerKvHeads(m, global), tp) > 0
    BY LayerHeadsAre, HeadShardsAre
  <2>2. Whole(HeadShards(LayerKvHeads(m, global), tp)) \in Quantity
        /\ Positive(Whole(HeadShards(LayerKvHeads(m, global), tp)))
    BY <2>1, WholeQuantity
  <2> QED
    BY <2>2, LayerBytesAre, Numbers
<1>2. part(TRUE) \in Quantity /\ part(FALSE) \in Quantity
  BY <1>1
<1>3. HeadSharded(m, prec, tp, full, local) = (Whole(full) ** part(TRUE)) ++ (Whole(local) ** part(FALSE))
  BY DEF HeadSharded
<1> HIDE DEF part
<1>4. Whole(full) ** part(TRUE) \in Quantity /\ Whole(local) ** part(FALSE) \in Quantity
  BY <1>2, Numbers
<1> QED
  BY <1>3, <1>4, Numbers

LEMMA ShardsAre ==
    ASSUME NEW m, ModelOK(m), NEW tp \in Nat, tp > 0
    PROVE  /\ KvShards(m, tp) \in Nat /\ KvShards(m, tp) > 0
           /\ Whole(KvShards(m, tp)) \in Quantity /\ Positive(Whole(KvShards(m, tp)))
<1>1. m.kvHeads \in Nat
  BY DEF ModelOK
<1>2. KvShards(m, tp) \in Nat /\ KvShards(m, tp) > 0
  BY <1>1, HeadShardsAre DEF KvShards
<1> QED
  BY <1>2, WholeQuantity

LEMMA TokenCacheIs ==
    ASSUME NEW m, ModelOK(m), m.ratios = <<>>, m.shared = Absent, NEW seq \in Nat, NEW prec \in Precisions,
           NEW pp \in Nat, pp > 0, NEW tp \in Nat, tp > 0
    PROVE  LET C == IF m.mla THEN CacheOf(m, seq, prec) // Whole(KvShards(m, tp))
                    ELSE HeadSharded(m, prec, tp, CachedFull(m) * seq, CachedLocal(m) * LocalRows(m, seq))
               w == IF m.localKvLayers >= 0 /\ KvLayers(m) < AttentionLayers(m) THEN Whole(1)
                    ELSE PeakFraction(m, pp)
           IN  /\ C \in Quantity /\ w \in Quantity /\ TokenCache(m, seq, prec, pp, tp) = C ** w
               /\ TokenCache(m, seq, prec, pp, tp) \in Quantity
<1> DEFINE C == IF m.mla THEN CacheOf(m, seq, prec) // Whole(KvShards(m, tp))
                ELSE HeadSharded(m, prec, tp, CachedFull(m) * seq, CachedLocal(m) * LocalRows(m, seq))
           w == IF m.localKvLayers >= 0 /\ KvLayers(m) < AttentionLayers(m) THEN Whole(1)
                ELSE PeakFraction(m, pp)
<1>1. CacheOf(m, seq, prec) // Whole(KvShards(m, tp)) \in Quantity
  BY ShardsAre, MainCacheIs, Numbers
<1>2. CachedFull(m) * seq \in Nat /\ CachedLocal(m) * LocalRows(m, seq) \in Nat
  <2>1. CachedLocal(m) \in Nat /\ CachedFull(m) \in Nat /\ LocalRows(m, seq) \in Nat
    BY LayersAre
  <2> QED
    BY <2>1
<1>3. C \in Quantity
  BY <1>1, <1>2, HeadShardedIs
<1>4. w \in Quantity
  BY PeakIs, Numbers
<1>5. TokenCache(m, seq, prec, pp, tp) = C ** w
  BY DEF TokenCache
<1> HIDE DEF C, w
<1>6. TokenCache(m, seq, prec, pp, tp) \in Quantity
  BY <1>3, <1>4, <1>5, Numbers
<1> QED
  BY <1>3, <1>4, <1>5, <1>6 DEF C, w

LEMMA AlignedIs ==
    ASSUME NEW h \in Nat, NEW tp \in Nat
    PROVE  AlignedShards(h, tp) \in Nat /\ AlignedShards(h, tp) > 0
<1> DEFINE a == Larger(h, 1)
           b == Larger(tp, 1)
           g == Gcd[<<a, b>>]
<1>1. a \in Nat /\ a > 0 /\ b \in Nat
  BY DEF Larger
<1> HIDE DEF a, b
<1>2. g \in Nat /\ Divides(g, a)
  BY <1>1, GcdFacts DEF IsGcd
<1>3. AlignedShards(h, tp) = g
  BY DEF AlignedShards, a, b
<1> HIDE DEF g
<1>4. g # 0
  <2>1. PICK k \in Int : a = k * g
    BY <1>2 DEF Divides
  <2>2. g = 0 => k * g = 0
    BY <2>1
  <2> QED
    BY <1>1, <2>1, <2>2
<1> QED
  BY <1>2, <1>3, <1>4

LEMMA LinearStateIs ==
    ASSUME NEW m, ModelOK(m), NEW prec \in Precisions, NEW tp \in Nat
    PROVE  LinearState(m, prec, tp) \in Quantity
<1> DEFINE qn == LinearHeads(m) * LinearDim(m)
           kn == 2 * LinearKHeads(m) * LinearKDim(m)
           short == (Whole(m.shortConv) ** ConvElem(m, prec)) // Whole(AlignedShards(m.heads, tp))
           qv    == Frac(qn, AlignedShards(LinearHeads(m), tp))
           keys  == Frac(kn, AlignedShards(LinearKHeads(m), tp))
           recurrent == (qv ** Whole(LinearDim(m))) ** RecurrentElem(m, prec)
           conv      == (Whole(LinearConv(m) - 1) ** (qv ++ keys)) ** ConvElem(m, prec)
<1>1. m.shortConv \in Nat /\ m.heads \in Nat /\ m.linearLayers \in Nat
  BY DEF ModelOK
<1>2. /\ LinearHeads(m) \in Nat /\ LinearDim(m) \in Nat /\ LinearKHeads(m) \in Nat
      /\ LinearKDim(m) \in Nat /\ LinearConv(m) \in Nat /\ LinearConv(m) > 0
  BY ShapeIs
<1>3. qn \in Nat /\ kn \in Nat /\ LinearConv(m) - 1 \in Nat
  <2>1. 2 * LinearKHeads(m) \in Nat
    BY <1>2
  <2> QED
    BY <1>2, <2>1
<1> HIDE DEF qn, kn
<1>4. RecurrentElem(m, prec) \in Quantity /\ ConvElem(m, prec) \in Quantity
  BY KvElemIs
<1>5. short \in Quantity
  <2>1. Whole(AlignedShards(m.heads, tp)) \in Quantity /\ Positive(Whole(AlignedShards(m.heads, tp)))
    BY <1>1, AlignedIs, WholeQuantity
  <2>2. Whole(m.shortConv) ** ConvElem(m, prec) \in Quantity
    BY <1>1, <1>4, Numbers
  <2> QED
    BY <2>1, <2>2, Numbers
<1>6. qv \in Quantity /\ keys \in Quantity
  BY <1>2, <1>3, AlignedIs, PartOrder
<1> HIDE DEF short, qv, keys
<1>7. recurrent \in Quantity
  BY <1>2, <1>4, <1>6, Numbers
<1>8. conv \in Quantity
  <2>1. qv ++ keys \in Quantity /\ Whole(LinearConv(m) - 1) \in Quantity
    BY <1>3, <1>6, Numbers
  <2>2. Whole(LinearConv(m) - 1) ** (qv ++ keys) \in Quantity
    BY <2>1, Numbers
  <2> QED
    BY <1>4, <2>2, Numbers
<1>9. LinearState(m, prec, tp) = IF m.linearLayers = 0 THEN short
                                 ELSE short ++ (Whole(m.linearLayers) ** (recurrent ++ conv))
  BY DEF LinearState, short, qv, keys, qn, kn
<1> HIDE DEF recurrent, conv
<1>10. recurrent ++ conv \in Quantity
  BY <1>7, <1>8, Numbers
<1>11. Whole(m.linearLayers) ** (recurrent ++ conv) \in Quantity
  BY <1>1, <1>10, Numbers
<1> QED
  BY <1>5, <1>9, <1>11, Numbers

LEMMA SequenceBytesAre ==
    ASSUME NEW m, ModelOK(m), m.ratios = <<>>, m.shared = Absent, NEW seq \in Nat, NEW prec \in Precisions,
           NEW pp \in Nat, pp > 0, NEW tp \in Nat, tp > 0
    PROVE  /\ SequenceBytes(m, seq, prec, pp, tp) \in Quantity
           /\ TokenCache(m, seq, prec, pp, tp) \in Quantity
           /\ TokenCache(m, seq, prec, pp, tp) \preceq SequenceBytes(m, seq, prec, pp, tp)
<1>1. TokenCache(m, seq, prec, pp, tp) \in Quantity
  BY TokenCacheIs
<1>2. RecurrentState(m, prec, pp, tp) \in Quantity
  BY LinearStateIs, PeakIs, Numbers DEF RecurrentState
<1>3. SequenceBytes(m, seq, prec, pp, tp)
        = TokenCache(m, seq, prec, pp, tp) ++ RecurrentState(m, prec, pp, tp)
  BY DEF SequenceBytes
<1> DEFINE a == TokenCache(m, seq, prec, pp, tp)
           b == RecurrentState(m, prec, pp, tp)
<1> HIDE DEF a, b
<1>4. a \in Quantity /\ b \in Quantity
  BY <1>1, <1>2 DEF a, b
<1>5. a ++ b \in Quantity /\ a \preceq a ++ b
  BY <1>4, Numbers, Order DEF Quantity, \preceq, ++
<1> QED
  BY <1>1, <1>3, <1>5 DEF a, b

LEMMA ScratchIs ==
    ASSUME NEW m, ModelOK(m), NEW seq \in Nat, NEW prec \in Precisions,
           NEW pp \in Nat, pp > 0, NEW tp \in Nat, tp > 0
    PROVE  ResidualScratch(m, seq, prec, pp, tp) \in Quantity
<1> DEFINE n == ResidualSources(m) * seq * Larger(Hidden(m), 1)
<1>1. n \in Nat
  <2>1. ResidualSources(m) \in Nat /\ Larger(Hidden(m), 1) \in Nat
    BY ShapeIs, WholeNumbers
  <2>2. ResidualSources(m) * seq \in Nat
    BY <2>1
  <2> QED
    BY <2>1, <2>2
<1> HIDE DEF n
<1>2. Whole(n) \in Quantity /\ Largest(Whole(2), KvElem(m, prec)) \in Quantity
  BY <1>1, KvElemIs, Numbers
<1>3. PeakFraction(m, pp) \in Quantity /\ Whole(tp) \in Quantity /\ Positive(Whole(tp))
  BY PeakIs, WholeQuantity
<1>4. Whole(n) ** Largest(Whole(2), KvElem(m, prec)) \in Quantity
  BY <1>2, Numbers
<1>5. (Whole(n) ** Largest(Whole(2), KvElem(m, prec))) ** PeakFraction(m, pp) \in Quantity
  BY <1>3, <1>4, Numbers
<1> QED
  BY <1>3, <1>5, Numbers DEF ResidualScratch, n

\* Of a sequence a GPU of a stage keeps no more than the calculator charges for
\* it on the busiest stage.
LEMMA StageCacheFits ==
    ASSUME NEW m, ModelOK(m), LayersAlike(m), NEW seq \in Nat, NEW prec \in Precisions,
           NEW pp \in Nat, pp > 0, NEW tp \in Nat, tp > 0, TpSupported(m, tp),
           NEW first \in StageStarts(m.layers, pp)
    PROVE  LET kept == LayersCache(m, seq, prec, Stage(m.layers, pp, first)) // Whole(KvShards(m, tp)) IN
           kept \in Quantity /\ kept \preceq SequenceBytes(m, seq, prec, pp, tp)
<1> DEFINE part == Frac(Cardinality(Stage(m.layers, pp, first)), m.layers)
           K == Whole(KvShards(m, tp))
           cache == CacheOf(m, seq, prec)
           C == IF m.mla THEN cache // K
                ELSE HeadSharded(m, prec, tp, CachedFull(m) * seq, CachedLocal(m) * LocalRows(m, seq))
           w == IF m.localKvLayers >= 0 /\ KvLayers(m) < AttentionLayers(m) THEN Whole(1)
                ELSE PeakFraction(m, pp)
           seqBytes == SequenceBytes(m, seq, prec, pp, tp)
           kept == LayersCache(m, seq, prec, Stage(m.layers, pp, first)) // K
           token == TokenCache(m, seq, prec, pp, tp)
<1>1. m.ratios = <<>> /\ m.shared = Absent
  BY DEF LayersAlike, Ordinary
<1>2. part \in Quantity /\ part \preceq PeakFraction(m, pp) /\ part \preceq Whole(1)
  BY PeakIs
<1>3. K \in Quantity /\ Positive(K)
  BY ShardsAre
<1>4. /\ cache \in Quantity /\ cache = MainCache(m, seq, prec, seq) ++ IndexBytes(m, seq, prec)
      /\ MainCache(m, seq, prec, seq) \in Quantity
  BY <1>1, MainCacheIs
<1>5. C \in Quantity /\ w \in Quantity /\ token = C ** w
  BY <1>1, TokenCacheIs
<1>6. LayersCache(m, seq, prec, Stage(m.layers, pp, first)) = cache ** part
  BY <1>1, PlainRatios DEF LayersCache
<1>7. cache // K \in Quantity /\ cache // K \preceq C
  <2>1. cache // K \in Quantity
    BY <1>3, <1>4, Numbers
  <2>2. CASE m.mla
    BY <2>1, <2>2, Comparisons
  <2>3. CASE ~m.mla
    <3> DEFINE rows(global) == IF global THEN CachedFull(m) * seq ELSE CachedLocal(m) * LocalRows(m, seq)
               bytes(global) == LayerKvBytes(m, prec, global)
               shards(global) == HeadShards(LayerKvHeads(m, global), tp)
               term(global) == Whole(rows(global)) ** bytes(global)
               each(global) == Whole(rows(global)) ** (bytes(global) // Whole(shards(global)))
    <3>1. m.indexRatio = 0 /\ \A global \in BOOLEAN : LayerKvHeads(m, global) <= m.kvHeads
      BY <2>3 DEF LayersAlike
    <3>2. ASSUME NEW global \in BOOLEAN
          PROVE  term(global) \in Quantity /\ each(global) \in Quantity /\ term(global) // K \preceq each(global)
      <4>1. rows(global) \in Nat
        <5>1. CachedLocal(m) \in Nat /\ CachedFull(m) \in Nat /\ LocalRows(m, seq) \in Nat
          BY LayersAre
        <5> QED
          BY <5>1
      <4>2. bytes(global) \in Quantity
        BY LayerBytesAre
      <4>3. shards(global) \in Nat /\ shards(global) > 0 /\ shards(global) <= KvShards(m, tp)
        <5>1. LayerKvHeads(m, global) \in Nat
          BY LayerHeadsAre
        <5>2. shards(global) \in Nat /\ shards(global) > 0
          BY <5>1, HeadShardsAre
        <5>3. shards(global) <= KvShards(m, tp)
          BY <2>3, <3>1, ShardsOrder
        <5> QED
          BY <5>2, <5>3
      <4>4. KvShards(m, tp) \in Nat
        BY ShardsAre
      <4> DEFINE r == rows(global)
                 b == bytes(global)
                 s == shards(global)
      <4> HIDE DEF r, b, s, K
      <4>5. b \in Quantity /\ r \in Nat /\ s \in Nat /\ s > 0 /\ s <= KvShards(m, tp)
        BY <4>1, <4>2, <4>3 DEF b, r, s
      <4>6. Whole(r) \in Quantity /\ Whole(s) \in Quantity /\ Positive(Whole(s))
        BY <4>5, WholeQuantity
      <4>7. Whole(r) ** b \in Quantity /\ b // Whole(s) \in Quantity /\ b // K \in Quantity
            /\ Whole(r) ** (b // Whole(s)) \in Quantity
        BY <1>3, <4>5, <4>6, Numbers
      <4>8. b // K \preceq b // Whole(s)
        BY <4>4, <4>5, QuotientOrder DEF K
      <4>9. Whole(r) \preceq Whole(r)
        BY <4>6, Comparisons
      <4>10. Whole(r) ** (b // K) \preceq Whole(r) ** (b // Whole(s))
        BY <4>6, <4>7, <4>8, <4>9, Comparisons
      <4>11. (Whole(r) ** b) // K = Whole(r) ** (b // K)
        BY <1>3, <4>5, <4>6, QuotientOfProduct
      <4> QED
        BY <4>7, <4>10, <4>11 DEF r, b, s
    <3>3. /\ term(TRUE) \in Quantity /\ each(TRUE) \in Quantity /\ term(TRUE) // K \preceq each(TRUE)
          /\ term(FALSE) \in Quantity /\ each(FALSE) \in Quantity /\ term(FALSE) // K \preceq each(FALSE)
      BY <3>2
    <3>4. MainCache(m, seq, prec, seq) = term(TRUE) ++ term(FALSE)
      BY DEF MainCache
    <3>5. C = each(TRUE) ++ each(FALSE)
      BY <2>3 DEF HeadSharded
    <3>6. IndexBytes(m, seq, prec) = Zero
      BY <1>1, <3>1, IndexBytesAre
    <3> HIDE DEF term, each, C, cache, K
    <3>7. cache = term(TRUE) ++ term(FALSE)
      <4>1. MainCache(m, seq, prec, seq) ++ Zero = MainCache(m, seq, prec, seq)
        BY <1>4, Sums DEF Quantity, ++
      <4> QED
        BY <1>4, <3>4, <3>6, <4>1
    <3>8. cache // K = (term(TRUE) // K) ++ (term(FALSE) // K)
      <4> DEFINE a == term(TRUE)
                 b == term(FALSE)
      <4>1. a \in Fraction /\ b \in Fraction /\ K \in Fraction /\ Positive(K)
        BY <1>3, <3>3 DEF Quantity
      <4> HIDE DEF a, b
      <4>2. Over(Plus(a, b), K) = Plus(Over(a, K), Over(b, K))
        BY <4>1, Scaling
      <4> QED
        BY <3>7, <4>2 DEF a, b, ++, //
    <3>9. term(TRUE) // K \in Quantity /\ term(FALSE) // K \in Quantity
      BY <1>3, <3>3, Numbers
    <3>10. (term(TRUE) // K) ++ (term(FALSE) // K) \preceq each(TRUE) ++ each(FALSE)
      BY <3>3, <3>9, Comparisons
    <3> QED
      BY <2>1, <3>5, <3>8, <3>10
  <2> QED
    BY <2>1, <2>2, <2>3
<1>8. part \preceq w
  BY <1>2
<1>9. seqBytes \in Quantity /\ token \in Quantity /\ token \preceq seqBytes
  BY <1>1, SequenceBytesAre
<1> HIDE DEF part, K, cache, C, w, seqBytes, token
<1>10. kept = (cache ** part) // K
  BY <1>6
<1> HIDE DEF kept
<1>11. (cache ** part) // K = part ** (cache // K)
  <2>1. cache ** part = part ** cache
    BY <1>2, <1>4, Products DEF Quantity, **
  <2> QED
    BY <1>2, <1>3, <1>4, <2>1, QuotientOfProduct
<1>12. part ** (cache // K) \in Quantity /\ part ** (cache // K) \preceq w ** C
  BY <1>2, <1>5, <1>7, <1>8, Numbers, Comparisons
<1>13. w ** C = token
  BY <1>5, Products DEF Quantity, **
<1>14. kept \in Quantity /\ kept \preceq token
  BY <1>10, <1>11, <1>12, <1>13
<1>15. kept \preceq seqBytes
  BY <1>9, <1>14, Comparisons
<1> QED
  BY <1>14, <1>15 DEF kept, seqBytes, K

-----------------------------------------------------------------------------
(* The drafter.                                                             *)

\* What the memory of a deployment has to know of its drafter.
DraftKnown(s) == s # Absent => s.bytes \in Quantity /\ s.profile.kv \in Quantity
DraftDeep(s)  ==
    s # Absent => /\ s.k \in Nat /\ s.k > 0 /\ s.active \in Nat
                  /\ s.alpha \in Quantity /\ s.alpha \preceq Whole(1)
                  /\ s = [ profile |-> s.profile, k |-> s.k, alpha |-> s.alpha, tau |-> s.tau,
                           passes |-> s.passes, bytes |-> s.bytes, active |-> s.active ]

LEMMA NearestIs ==
    ASSUME NEW ks \in SUBSET Nat, ks # {}, NEW k \in Nat
    PROVE  Nearest(ks, k) \in ks
<1> DEFINE off(j) == Abs(j - k)
           T == {off(j) : j \in ks}
<1>1. \A j \in Nat : off(j) \in Nat
  BY DEF Abs
<1>2. PICK i \in ks : \A j \in ks : off(i) <= off(j)
  <2>1. T \in SUBSET Nat /\ T # {}
    BY <1>1
  <2> HIDE DEF off
  <2>2. PICK t \in T : \A u \in T : t <= u
    BY <2>1, LeastNumber
  <2> QED
    BY <2>2
<1> DEFINE U == {j \in ks : off(j) = off(i)}
<1> HIDE DEF off
<1>3. PICK j \in U : \A h \in U : j <= h
  <2>1. U \in SUBSET Nat /\ U # {}
    OBVIOUS
  <2> HIDE DEF U
  <2> QED
    BY <2>1, LeastNumber
<1>4. \A h \in ks : off(j) < off(h) \/ (off(j) = off(h) /\ j <= h)
  BY <1>1, <1>2, <1>3
<1>5. \E n \in ks : \A h \in ks : off(n) < off(h) \/ (off(n) = off(h) /\ n <= h)
  BY <1>4
<1>6. Nearest(ks, k) = CHOOSE n \in ks : \A h \in ks : off(n) < off(h) \/ (off(n) = off(h) /\ n <= h)
  BY DEF Nearest, off
<1> QED
  BY <1>5, <1>6

\* A drafter of the catalog, or drafting without one.
LEMMA DraftersAre ==
    ASSUME NEW m, ModelOK(m), NEW i \in DOMAIN Drafters(m)
    PROVE  LET p == Drafters(m)[i] IN
           /\ p.params \in Nat /\ p.defaultK \in Nat /\ p.ks \in SUBSET Nat /\ p.ks \subseteq Nat \ {0}
           /\ p.kv \in Quantity /\ p.bytes \in Quantity
           /\ \A f \in DOMAIN p.bytesBy : p.bytesBy[f] \in Quantity
           /\ p.active \in Nat /\ p.alpha \in Quantity
           /\ \A f \in DOMAIN p.alphaBy : p.alphaBy[f] \in Quantity
<1> DEFINE p == Drafters(m)[i]
           S == {m.drafters[j] : j \in DOMAIN m.drafters}
<1>1. m.drafters \in Seq(S) /\ \A j \in DOMAIN m.drafters : DrafterOK(m.drafters[j])
  BY DEF ModelOK
<1>2. p = NGram \/ DrafterOK(p)
  <2>1. Drafters(m) = Append(m.drafters, NGram)
    <3>1. DOMAIN <<>> = {}
      OBVIOUS
    <3>2. Drafters(m) = <<>> \/ Drafters(m) = Append(m.drafters, NGram)
      BY DEF Drafters
    <3> QED
      BY <3>1, <3>2
  <2>2. i \in 1..(Len(m.drafters) + 1) /\ Len(m.drafters) \in Nat
    BY <1>1, <2>1
  <2>3. i = Len(m.drafters) + 1 => p = NGram
    BY <1>1, <2>1
  <2>4. i # Len(m.drafters) + 1 => i \in DOMAIN m.drafters /\ p = m.drafters[i]
    BY <1>1, <2>1, <2>2
  <2> QED
    BY <1>1, <2>3, <2>4
<1>3. p = NGram => /\ p.params \in Nat /\ p.defaultK \in Nat /\ p.ks \in SUBSET Nat
                   /\ p.ks \subseteq Nat \ {0}
                   /\ p.kv \in Quantity /\ p.bytes \in Quantity
                   /\ \A f \in DOMAIN p.bytesBy : p.bytesBy[f] \in Quantity
                   /\ p.active \in Nat /\ p.alpha \in Quantity
                   /\ \A f \in DOMAIN p.alphaBy : p.alphaBy[f] \in Quantity
  <2>1. Zero \in Quantity /\ Frac(7, 20) \in Quantity
    BY Numbers, PartIs
  <2> HIDE DEF p
  <2>2. p = NGram => /\ p.params = 0 /\ p.defaultK = 5 /\ p.ks = {} /\ p.kv = Zero /\ p.bytes = Zero
                     /\ p.bytesBy = [f \in {} |-> Zero] /\ p.active = 0 /\ p.alpha = Frac(7, 20)
                     /\ p.alphaBy = [f \in {} |-> Zero]
    BY DEF NGram
  <2> QED
    BY <2>1, <2>2
<1>4. DrafterOK(p) => /\ p.params \in Nat /\ p.defaultK \in Nat /\ p.ks \in SUBSET Nat
                      /\ p.ks \subseteq Nat \ {0}
                      /\ p.kv \in Quantity /\ p.bytes \in Quantity
                      /\ \A f \in DOMAIN p.bytesBy : p.bytesBy[f] \in Quantity
                      /\ p.active \in Nat /\ p.alpha \in Quantity
                      /\ \A f \in DOMAIN p.alphaBy : p.alphaBy[f] \in Quantity
  BY AmountIs DEF DrafterOK
<1> QED
  BY <1>2, <1>3, <1>4

LEMMA ResolvedIs ==
    ASSUME NEW m, ModelOK(m), NEW method, NEW specK \in Nat, NEW override \in Quantity,
           NEW prec \in Precisions
    PROVE  LET spec == ResolveSpec(m, method, specK, override, prec) IN DraftKnown(spec) /\ DraftDeep(spec)
<1> DEFINE spec == ResolveSpec(m, method, specK, override, prec)
           offered == OfferedDrafts(m, method)
           at == CHOOSE i \in offered : \A j \in offered : i <= j
           p  == Drafters(m)[at]
           k  == SupportedDepth(p, specK)
           alpha == AcceptanceOf(p, k, override)
<1> SUFFICES ASSUME spec # Absent
             PROVE  /\ spec.bytes \in Quantity /\ spec.profile.kv \in Quantity
                    /\ spec.k \in Nat /\ spec.k > 0 /\ spec.active \in Nat
                    /\ spec.alpha \in Quantity /\ spec.alpha \preceq Whole(1)
                    /\ spec = [ profile |-> spec.profile, k |-> spec.k, alpha |-> spec.alpha,
                                tau |-> spec.tau, passes |-> spec.passes, bytes |-> spec.bytes,
                                active |-> spec.active ]
  BY DEF DraftKnown, DraftDeep
<1>1. /\ offered # {} /\ spec.profile = p /\ spec.k = k /\ spec.bytes = DraftBytes(m, p, prec)
      /\ spec.active = Or(p.active, p.params) /\ spec.alpha = alpha
      /\ spec = [ profile |-> spec.profile, k |-> spec.k, alpha |-> spec.alpha, tau |-> spec.tau,
                  passes |-> spec.passes, bytes |-> spec.bytes, active |-> spec.active ]
  <2> DEFINE tau    == AcceptanceLen(alpha, k)
             passes == IF p.parallel THEN 1 ELSE k
             bytes  == DraftBytes(m, p, prec)
             active == Or(p.active, p.params)
  <2>1. spec = IF method = "off" \/ offered = {} THEN Absent
               ELSE [ profile |-> p, k |-> k, alpha |-> alpha, tau |-> tau, passes |-> passes,
                      bytes |-> bytes, active |-> active ]
    BY DEF ResolveSpec
  <2> HIDE DEF spec, offered, p, k, alpha, tau, passes, bytes, active
  <2>2. /\ offered # {}
        /\ spec = [ profile |-> p, k |-> k, alpha |-> alpha, tau |-> tau, passes |-> passes,
                    bytes |-> bytes, active |-> active ]
    BY <2>1
  <2>3. spec.bytes = bytes /\ spec.active = active
    BY <2>2
  <2> QED
    BY <2>2, <2>3 DEF bytes, active
<1>2. at \in offered
  <2>1. \E i \in offered : \A j \in offered : i <= j
    <3>1. \A i \in offered : i \in Nat
      <4>0. offered \subseteq DOMAIN Drafters(m)
        BY DEF OfferedDrafts
      <4> DEFINE S == {m.drafters[j] : j \in DOMAIN m.drafters}
      <4>1. m.drafters \in Seq(S)
        BY DEF ModelOK
      <4>2. Append(m.drafters, NGram) \in Seq(S \cup {NGram})
        BY <4>1
      <4>3. \A q \in Seq(S \cup {NGram}) : DOMAIN q = 1..Len(q) /\ Len(q) \in Nat
        OBVIOUS
      <4>4. DOMAIN <<>> = {}
        OBVIOUS
      <4>5. Drafters(m) = <<>> \/ Drafters(m) = Append(m.drafters, NGram)
        BY DEF Drafters
      <4>6. DOMAIN Drafters(m) \subseteq Nat
        BY <4>2, <4>3, <4>4, <4>5
      <4> QED
        BY <4>0, <4>6
    <3> HIDE DEF offered
    <3> QED
      BY <1>1, <3>1, LeastNumber
  <2> QED
    BY <2>1
<1>3. at \in DOMAIN Drafters(m)
  BY <1>2 DEF OfferedDrafts
<1> HIDE DEF at, spec
<1>4. /\ p.params \in Nat /\ p.defaultK \in Nat /\ p.ks \in SUBSET Nat /\ p.ks \subseteq Nat \ {0}
      /\ p.kv \in Quantity /\ p.bytes \in Quantity
      /\ \A f \in DOMAIN p.bytesBy : p.bytesBy[f] \in Quantity
      /\ p.active \in Nat /\ p.alpha \in Quantity
      /\ \A f \in DOMAIN p.alphaBy : p.alphaBy[f] \in Quantity
  BY <1>3, DraftersAre
<1> HIDE DEF p
<1>5. k \in Nat /\ k > 0
  <2> DEFINE wanted == Smaller(Larger(IF specK > 0 THEN specK ELSE p.defaultK, 1), MaxDepth)
             ks == p.ks \cap 1..MaxDepth
  <2>0. k = IF ks = {} THEN wanted ELSE Nearest(ks, wanted)
    BY DEF SupportedDepth
  <2>1. MaxDepth \in Nat \ {0}
    BY CapacityAssumption
  <2>2. wanted \in Nat /\ wanted > 0
    BY <1>4, <2>1 DEF Smaller, Larger
  <2>3. ks \in SUBSET Nat /\ ks \subseteq Nat \ {0}
    BY <1>4
  <2> HIDE DEF wanted, ks, k
  <2>4. ks # {} => Nearest(ks, wanted) \in Nat \ {0}
    BY <2>2, <2>3, NearestIs
  <2> QED
    BY <2>0, <2>2, <2>4
<1>6. DraftBytes(m, p, prec) \in Quantity
  <2>1. Whole(p.params) \in Quantity /\ WeightBytes(m, prec) \in Quantity
    BY <1>4, WeightsAre, Numbers
  <2>2. Whole(p.params) ** WeightBytes(m, prec) \in Quantity
    BY <2>1, Numbers
  <2>3. (Whole(p.params) ** WeightBytes(m, prec)) // Whole(m.total) \in Quantity
    BY <2>2, BytesAre, Numbers
  <2> QED
    BY <1>4, <2>3 DEF DraftBytes
<1>7. alpha \in Quantity /\ alpha \preceq Whole(1)
  <2> HIDE DEF k
  <2> DEFINE fitted == IF k \in DOMAIN p.alphaBy THEN p.alphaBy[k] ELSE p.alpha
  <2>0. alpha = Least(IF Positive(override) THEN override ELSE fitted, Whole(1))
    BY DEF AcceptanceOf
  <2>1. fitted \in Quantity /\ Whole(1) \in Quantity
    BY <1>4, Numbers
  <2> HIDE DEF fitted, alpha
  <2> QED
    BY <2>0, <2>1, LeastIs DEF \preceq
<1>8. Or(p.active, p.params) \in Nat
  BY <1>4 DEF Or
<1> QED
  BY <1>1, <1>4, <1>5, <1>6, <1>7, <1>8

-----------------------------------------------------------------------------
(* The memory of a deployment.                                              *)

\* A deployment the calculator is asked about.
Serves(c) ==
    /\ ModelOK(c.m) /\ Ordinary(c.m) /\ c.m.ratios = <<>> /\ GpuOK(c.g) /\ c.prec \in Precisions
    /\ c.mu \in Quantity /\ c.nonKv \in Quantity
    /\ EfficiencyOK(c.pre) /\ EfficiencyOK(c.dec)
    /\ DraftKnown(c.spec) /\ DraftDeep(c.spec)

\* The part of the memory that a replica's cache leaves.
Taken(c, tp, pp) == Resident(c, tp, pp) ++ NonKv(tp, c.nonKv)

LEMMA MemoryIs ==
    ASSUME NEW c, Serves(c), NEW pp \in Nat, pp > 0, NEW tp \in Nat, tp > 0, tp \in DOMAIN Log2
    PROVE  /\ Requested(c) \in Quantity /\ Resident(c, tp, pp) \in Quantity
           /\ NonKv(tp, c.nonKv) \in Quantity /\ Taken(c, tp, pp) \in Quantity
           /\ StageWeights(c.m, c.prec, pp) = GpuWeightBytes(c.m, c.prec) ** PeakFraction(c.m, pp)
           /\ GpuWeightBytes(c.m, c.prec) \in Quantity
           /\ DrafterBytes(c, pp) \in Quantity /\ Whole(tp) \in Quantity /\ Positive(Whole(tp))
<1>1. Requested(c) \in Quantity
  <2>1. c.g.mem \in Nat
    BY DEF Serves, GpuOK
  <2> QED
    BY <2>1, Numbers DEF Requested, Serves
<1>2. NonKv(tp, c.nonKv) \in Quantity
  <2>1. Log2[tp] \in Quantity
    BY PagingAssumption, AmountIs
  <2>2. Frac(3, 25) \in Quantity /\ Whole(1) \in Quantity
    <3>1. Frac(3, 25) \in Quantity
      BY PartIs
    <3> QED
      BY <3>1, Numbers
  <2>3. Frac(3, 25) ** Log2[tp] \in Quantity
    BY <2>1, <2>2, Numbers
  <2>4. Whole(1) ++ (Frac(3, 25) ** Log2[tp]) \in Quantity
    BY <2>2, <2>3, Numbers
  <2>5. c.nonKv \in Quantity
    BY DEF Serves
  <2> QED
    BY <2>4, <2>5, Numbers DEF NonKv
<1>3. StageWeights(c.m, c.prec, pp) = GpuWeightBytes(c.m, c.prec) ** PeakFraction(c.m, pp)
  BY DEF StageWeights, Serves, Ordinary
<1>4. GpuWeightBytes(c.m, c.prec) \in Quantity
  BY LoadedIs DEF Serves
<1>5. PeakFraction(c.m, pp) \in Quantity
  BY PeakIs DEF Serves
<1>6. DrafterBytes(c, pp) \in Quantity
  BY <1>5, Numbers DEF DrafterBytes, Serves, DraftKnown
<1>7. Whole(tp) \in Quantity /\ Positive(Whole(tp))
  BY WholeQuantity
<1>8. Resident(c, tp, pp) \in Quantity
  <2>1. StageWeights(c.m, c.prec, pp) \in Quantity
    BY <1>3, <1>4, <1>5, Numbers
  <2>2. StageWeights(c.m, c.prec, pp) ++ DrafterBytes(c, pp) \in Quantity
    BY <1>6, <2>1, Numbers
  <2> QED
    BY <1>7, <2>2, Numbers DEF Resident
<1>9. Taken(c, tp, pp) \in Quantity
  BY <1>2, <1>8, Numbers DEF Taken
<1> QED
  BY <1>1, <1>2, <1>3, <1>4, <1>6, <1>7, <1>8, <1>9

\* What is left for the caches is part of the memory that is not taken.
LEMMA BudgetIs ==
    ASSUME NEW c, Serves(c), NEW pp \in Nat, pp > 0, NEW tp \in Nat, tp > 0, tp \in DOMAIN Log2,
           NEW e, EfficiencyOK(e), CacheBudget(c, tp, pp, e) # Absent
    PROVE  /\ Taken(c, tp, pp) \preceq Requested(c)
           /\ CacheBudget(c, tp, pp, e) \in Quantity
           /\ CacheBudget(c, tp, pp, e) \preceq Requested(c) -- Taken(c, tp, pp)
<1> DEFINE r == Requested(c)
           t == Taken(c, tp, pp)
           s == Whole(1) -- e.slack
<1>1. r \in Quantity /\ t \in Quantity
  BY MemoryIs
<1>2. t \preceq r /\ CacheBudget(c, tp, pp, e) = (r -- t) ** s
  BY DEF CacheBudget, Taken, \prec, \preceq, Below
<1>3. e.slack \in Quantity /\ e.slack \preceq Whole(1) /\ Whole(1) \in Quantity
  BY AmountIs, Numbers DEF EfficiencyOK
<1>4. s \in Quantity /\ s \preceq Whole(1)
  BY <1>3, QuantityIs, Order DEF --, \preceq, Quantity
<1> HIDE DEF r, t, s
<1>5. r -- t \in Quantity /\ r -- t \preceq r -- t
  <2>1. r -- t \in Quantity
    BY <1>1, <1>2, QuantityIs DEF --, \preceq
  <2> QED
    BY <2>1, Comparisons
<1>6. (r -- t) ** s \in Quantity
  BY <1>4, <1>5, Numbers
<1>7. (r -- t) ** s \preceq (r -- t) ** Whole(1)
  BY <1>3, <1>4, <1>5, Comparisons
<1>8. (r -- t) ** Whole(1) = r -- t
  BY <1>5, Products DEF **, Quantity
<1> QED
  BY <1>2, <1>6, <1>7, <1>8 DEF r, t

\* A layout that holds the weights leaves nothing out.
LEMMA HoldsIs ==
    ASSUME NEW c, Serves(c), NEW pp \in Nat, pp > 0, NEW tp \in Nat, tp > 0, tp \in DOMAIN Log2,
           Holds(c, tp, pp)
    PROVE  Taken(c, tp, pp) \preceq Requested(c)
<1> DEFINE r == Requested(c)
           w == Resident(c, tp, pp)
           k == NonKv(tp, c.nonKv)
<1>1. r \in Quantity /\ w \in Quantity /\ k \in Quantity
  BY MemoryIs
<1>2. w \preceq r -- k
  BY DEF Holds
<1>3. Taken(c, tp, pp) = w ++ k
  BY DEF Taken
<1> HIDE DEF r, w, k
<1>4. r \in Fraction /\ w \in Fraction /\ k \in Fraction /\ Minus(r, k) \in Fraction
  BY <1>1, Sums DEF Quantity
<1>5. AtMost(Plus(w, k), Plus(Minus(r, k), k)) /\ Plus(Minus(r, k), k) = r
  BY <1>2, <1>4, Sums, Order DEF \preceq, --
<1> QED
  BY <1>3, <1>5 DEF r, \preceq, ++

\* As many caches fit a budget as its quotient says.
LEMMA FloorFits ==
    ASSUME NEW b \in Quantity, NEW each \in Quantity, Positive(each)
    PROVE  /\ FloorOf(b // each) \in Nat
           /\ \A n \in Nat : n <= FloorOf(b // each) => Whole(n) ** each \preceq b
<1> DEFINE x == b // each
<1>1. x \in Quantity /\ x \in Fraction /\ b \in Fraction /\ each \in Fraction
  BY Numbers DEF Quantity
<1>2. x ** each = b
  BY <1>1, Quotients DEF **, //
<1> HIDE DEF x
<1>3. x[1] \in Int /\ x[1] >= 0 /\ x[2] \in Int /\ x[2] > 0
  BY <1>1, Parts, PositiveIs DEF Quantity
<1>4. FloorOf(x) \in Nat /\ FloorOf(x) * x[2] <= x[1]
  <2> DEFINE p == x[1]
             q == x[2]
             f == p \div q
  <2>1. p \in Int /\ p >= 0 /\ q \in Int /\ q > 0
    BY <1>3
  <2> HIDE DEF p, q
  <2>2. f \in Nat /\ f * q <= p
    BY <2>1
  <2> QED
    BY <2>2 DEF FloorOf, p, q
<1>5. ASSUME NEW n \in Nat, n <= FloorOf(x)
      PROVE  Whole(n) ** each \preceq b
  <2>1. Whole(n) \in Quantity /\ Whole(n) \in Fraction /\ Whole(n)[1] = n /\ Whole(n)[2] = 1
    BY WholeIs, WholeQuantity
  <2>2. n * x[2] <= FloorOf(x) * x[2]
    BY <1>3, <1>4, <1>5
  <2>3. n * x[2] <= x[1] * 1
    BY <1>3, <1>4, <2>2
  <2>4. Whole(n) \preceq x
    BY <1>1, <2>1, <2>3, AtMostIs DEF \preceq
  <2>5. Whole(n) ** each \preceq x ** each
    BY <1>1, <2>1, <2>4, Comparisons
  <2> QED
    BY <1>2, <2>5
<1> QED
  BY <1>4, <1>5 DEF x

\* A GPU of any stage holds its layers, its part of the drafter and as many
\* caches as the memory that is not taken has room for.
LEMMA StageFits ==
    ASSUME NEW c, Serves(c), LayersAlike(c.m), NEW l, NEW len \in Nat, NEW n \in Nat,
           l[1] \in Nat, l[1] > 0, l[1] \in DOMAIN Log2, l[2] \in Nat, l[2] > 0, TpSupported(c.m, l[1]),
           NEW first \in StageStarts(c.m.layers, l[2]),
           Taken(c, l[1], l[2]) \preceq Requested(c),
           LET share == IF c.spec = Absent THEN Whole(1) ELSE Whole(1) ++ c.spec.profile.kv IN
           n > 0 => Whole(n) ** (SequenceBytes(c.m, len, c.prec, l[2], l[1]) ** share)
                      \preceq Requested(c) -- Taken(c, l[1], l[2])
    PROVE  StageBytes(c, l, first, n, len) \preceq Requested(c)
<1> DEFINE tp == l[1]
           pp == l[2]
           L == c.m.layers
           held == Stage(L, pp, first)
           part == Frac(Cardinality(held), L)
           peak == PeakFraction(c.m, pp)
           stored == WeightBytes(c.m, c.prec)
           loaded == GpuWeightBytes(c.m, c.prec)
           each == (stored -- c.m.tableBytes) // Whole(L)
           tables == Whole(Cardinality(held \cap c.m.tableLayers))
                       ** (c.m.tableBytes // Whole(Larger(Cardinality(c.m.tableLayers), 1)))
           drafter == IF c.spec = Absent THEN Zero ELSE c.spec.bytes
           share == IF c.spec = Absent THEN Whole(1) ELSE Whole(1) ++ c.spec.profile.kv
           kept == LayersCache(c.m, len, c.prec, held) // Whole(KvShards(c.m, tp))
           seqBytes == SequenceBytes(c.m, len, c.prec, pp, tp)
           weights == ((Whole(Cardinality(held)) ** each) ++ tables) ++ (drafter ** part)
           other == NonKv(tp, c.nonKv)
           taken == Taken(c, tp, pp)
           room == Requested(c) -- taken
           T == Whole(tp)
<1>1. /\ ModelOK(c.m) /\ Ordinary(c.m) /\ c.m.ratios = <<>> /\ c.prec \in Precisions
      /\ c.m.shared = Absent /\ c.m.tableBytes = Zero /\ c.m.tableLayers = {} /\ c.m.nativeBytes = Zero
  BY DEF Serves, LayersAlike, Ordinary
<1>2. tp \in Nat /\ tp > 0 /\ tp \in DOMAIN Log2 /\ pp \in Nat /\ pp > 0 /\ L \in Nat /\ L > 0
  <2>1. L \in Nat \ {0}
    BY <1>1, ShapeIs
  <2> QED
    BY <2>1
<1>3. /\ Cardinality(held) \in Nat /\ part \in Quantity /\ part \preceq peak
      /\ peak \in Quantity
  BY <1>1, <1>2, PeakIs
<1>4. /\ stored \in Quantity /\ loaded \in Quantity /\ stored \preceq loaded
  BY <1>1, WeightsAre, LoadedIs
<1>5. drafter \in Quantity /\ share \in Quantity /\ DrafterBytes(c, pp) = drafter ** peak
  <2>1. c.spec # Absent => c.spec.bytes \in Quantity /\ c.spec.profile.kv \in Quantity
    BY DEF Serves, DraftKnown
  <2>2. Zero ** peak = Zero
    BY <1>3, Products DEF **, Quantity
  <2> QED
    BY <2>1, <2>2, Numbers DEF DrafterBytes
<1>6. kept \in Quantity /\ kept \preceq seqBytes /\ seqBytes \in Quantity
  BY <1>1, <1>2, StageCacheFits, SequenceBytesAre
<1>7. Whole(Cardinality(held)) ** each = stored ** part
  <2>1. stored -- c.m.tableBytes = stored
    BY <1>1, <1>4, Sums DEF --, Quantity
  <2> QED
    BY <1>2, <1>3, <1>4, <2>1, EvenShare
<1>8. tables = Zero
  <2>1. held \cap c.m.tableLayers = {} /\ Cardinality({}) = 0
    BY <1>1, FS_EmptySet
  <2>2. Larger(0, 1) = 1
    BY DEF Larger
  <2>3. Whole(1) \in Fraction /\ Positive(Whole(1)) /\ Zero \in Fraction
    BY WholeQuantity, ZeroIs DEF Quantity
  <2>4. Zero // Whole(1) = Zero
    BY <2>3, Quotients DEF //
  <2>5. Whole(0) ** Zero = Zero
    BY <2>3, Products DEF **, Zero
  <2> QED
    BY <1>1, <2>1, <2>2, <2>4, <2>5
<1>9. /\ other \in Quantity /\ taken \in Quantity /\ Requested(c) \in Quantity
      /\ T \in Quantity /\ Positive(T)
      /\ Resident(c, tp, pp) = ((loaded ** peak) ++ (drafter ** peak)) // T
      /\ taken = (((loaded ** peak) ++ (drafter ** peak)) // T) ++ other
  <2>1. Resident(c, tp, pp) = ((loaded ** peak) ++ (drafter ** peak)) // T
    BY <1>2, <1>5, MemoryIs DEF Resident
  <2> QED
    BY <1>2, <2>1, MemoryIs DEF Taken
<1>10. StageBytes(c, l, first, n, len) = ((weights // T) ++ other) ++ (Whole(n) ** (kept ** share))
  BY DEF StageBytes
<1>11. taken \preceq Requested(c)
  OBVIOUS
<1>12. n > 0 => Whole(n) ** (seqBytes ** share) \preceq room
  OBVIOUS
<1> HIDE DEF part, peak, stored, loaded, each, tables, drafter, share, kept, seqBytes, weights, other,
             taken, room, T
<1>13. weights = ((stored ** part) ++ Zero) ++ (drafter ** part)
  BY <1>7, <1>8 DEF weights
<1>14. weights \in Quantity /\ weights \preceq (loaded ** peak) ++ (drafter ** peak)
       /\ (loaded ** peak) ++ (drafter ** peak) \in Quantity
  <2>1. /\ stored ** part \in Quantity /\ drafter ** part \in Quantity
        /\ loaded ** peak \in Quantity /\ drafter ** peak \in Quantity
    BY <1>3, <1>4, <1>5, Numbers
  <2>2. (stored ** part) ++ Zero = stored ** part
    BY <2>1, Sums DEF ++, Quantity
  <2>3. drafter \preceq drafter
    BY <1>5, Comparisons
  <2>4. stored ** part \preceq loaded ** peak /\ drafter ** part \preceq drafter ** peak
    BY <1>3, <1>4, <1>5, <2>3, Comparisons
  <2> QED
    BY <1>13, <2>1, <2>2, <2>4, Numbers, Comparisons
<1>15. weights // T \in Quantity /\ (weights // T) ++ other \in Quantity
       /\ (weights // T) ++ other \preceq taken
  <2>1. weights // T \in Quantity /\ ((loaded ** peak) ++ (drafter ** peak)) // T \in Quantity
    BY <1>9, <1>14, Numbers
  <2>2. weights // T \preceq ((loaded ** peak) ++ (drafter ** peak)) // T
    BY <1>9, <1>14, Comparisons
  <2>3. other \preceq other
    BY <1>9, Comparisons
  <2>4. (weights // T) ++ other \in Quantity
    BY <1>9, <2>1, Numbers
  <2>5. (weights // T) ++ other \preceq (((loaded ** peak) ++ (drafter ** peak)) // T) ++ other
    BY <1>9, <2>1, <2>2, <2>3, Comparisons
  <2> QED
    BY <1>9, <2>1, <2>4, <2>5
<1>16. room \in Quantity /\ taken ++ room = Requested(c)
  BY <1>9, <1>11, QuantityIs, Sums DEF room, --, ++, \preceq, Quantity
<1>17. Whole(n) \in Quantity /\ kept ** share \in Quantity /\ seqBytes ** share \in Quantity
  BY <1>5, <1>6, Numbers
<1>18. Whole(n) ** (kept ** share) \in Quantity /\ Whole(n) ** (kept ** share) \preceq room
  <2>1. Whole(n) ** (kept ** share) \in Quantity /\ Whole(n) ** (seqBytes ** share) \in Quantity
    BY <1>17, Numbers
  <2>2. CASE n = 0
    <3>1. Whole(n) ** (kept ** share) = Zero
      BY <1>17, <2>2, Products DEF Zero, **, Quantity
    <3> QED
      BY <1>16, <2>1, <3>1, Comparisons
  <2>3. CASE n > 0
    <3>1. share \preceq share /\ Whole(n) \preceq Whole(n)
      BY <1>5, <1>17, Comparisons
    <3>2. kept ** share \preceq seqBytes ** share
      BY <1>5, <1>6, <3>1, Comparisons
    <3>3. Whole(n) ** (kept ** share) \preceq Whole(n) ** (seqBytes ** share)
      BY <1>17, <3>1, <3>2, Comparisons
    <3> QED
      BY <1>12, <1>16, <2>1, <2>3, <3>3, Comparisons
  <2> QED
    BY <2>2, <2>3
<1>19. ((weights // T) ++ other) ++ (Whole(n) ** (kept ** share)) \preceq taken ++ room
  BY <1>9, <1>15, <1>16, <1>18, Comparisons
<1> QED
  BY <1>10, <1>16, <1>19

-----------------------------------------------------------------------------
(* The requests a replica has room for.                                     *)

\* None of Python: it is no record and no tuple.
AbsentIsNone == \A f : Absent # [x \in DOMAIN f |-> f[x]]

\* The part a drafter's own cache adds to every sequence.
DraftShare(s) == IF s = Absent THEN Whole(1) ELSE Whole(1) ++ s.profile.kv

LEMMA ShareIs ==
    ASSUME NEW s, DraftKnown(s)
    PROVE  DraftShare(s) \in Quantity /\ Positive(DraftShare(s)) /\ Whole(1) \preceq DraftShare(s)
<1>1. Whole(1) \in Quantity /\ Positive(Whole(1)) /\ Whole(1) \preceq Whole(1)
  BY WholeQuantity, Comparisons
<1>2. ASSUME NEW a \in Quantity
      PROVE  Whole(1) ++ a \in Quantity /\ Positive(Whole(1) ++ a) /\ Whole(1) \preceq Whole(1) ++ a
  <2>1. Whole(1) \preceq Whole(1) ++ a
    BY <1>1, Order DEF ++, \preceq, Quantity
  <2> QED
    BY <1>1, <2>1, Numbers, Positives
<1> QED
  BY <1>1, <1>2 DEF DraftShare, DraftKnown

LEMMA PromptSlotsAre ==
    ASSUME NEW c, Serves(c), c.m.shared = Absent, NEW pp \in Nat, pp > 0, NEW tp \in Nat, tp > 0,
           NEW len \in Nat, NEW resident \in Nat, NEW budget \in Quantity
    PROVE  /\ PromptSlots(c, tp, pp, len, resident, budget) \in Nat
           /\ \A n \in Nat : n <= PromptSlots(c, tp, pp, len, resident, budget) =>
                Whole(n) ** (SequenceBytes(c.m, resident, c.prec, pp, tp) ** DraftShare(c.spec)) \preceq budget
<1> DEFINE a == SequenceBytes(c.m, resident, c.prec, pp, tp) ** DraftShare(c.spec)
           b == ResidualScratch(c.m, len, c.prec, pp, tp)
           each == PromptBytes(c, tp, pp, len, resident)
           slots == PromptSlots(c, tp, pp, len, resident, budget)
<1>1. /\ ModelOK(c.m) /\ c.m.ratios = <<>> /\ c.prec \in Precisions /\ DraftKnown(c.spec)
  BY DEF Serves
<1>2. SequenceBytes(c.m, resident, c.prec, pp, tp) \in Quantity /\ DraftShare(c.spec) \in Quantity
  BY <1>1, SequenceBytesAre, ShareIs
<1>3. a \in Quantity /\ b \in Quantity
  BY <1>1, <1>2, ScratchIs, Numbers
<1>4. each = a ++ b
  BY DEF PromptBytes, DraftShare
<1>5. slots = IF Positive(each) THEN FloorOf(budget // each) ELSE IF resident = 0 THEN Unbounded ELSE 0
  BY DEF PromptSlots
<1>6. Unbounded \in Nat
  BY CapacityAssumption
<1> HIDE DEF a, b, each, slots
<1>7. each \in Quantity /\ a \preceq each
  BY <1>3, <1>4, Numbers, Order DEF Quantity, \preceq, ++
<1>8. slots \in Nat
  BY <1>5, <1>6, <1>7, FloorFits
<1>9. ASSUME NEW n \in Nat, n <= slots
      PROVE  Whole(n) ** a \preceq budget
  <2>1. Whole(n) \in Quantity /\ Whole(n) \preceq Whole(n)
    BY Numbers, Comparisons
  <2>2. Whole(n) ** a \in Quantity /\ Whole(n) ** each \in Quantity /\ Whole(n) ** a \preceq Whole(n) ** each
    BY <1>3, <1>7, <2>1, Numbers, Comparisons
  <2>3. Whole(n) ** each \preceq budget
    <3>1. CASE Positive(each)
      BY <1>5, <1>7, <1>9, <3>1, FloorFits
    <3>2. CASE ~Positive(each)
      <4>1. each = Zero
        BY <1>7, <3>2, PositiveIs DEF Quantity
      <4>2. Whole(n) ** Zero = Zero
        BY <2>1, Products DEF Quantity, **
      <4> QED
        BY <4>1, <4>2, Comparisons
    <3> QED
      BY <3>1, <3>2
  <2> QED
    BY <2>2, <2>3, Comparisons
<1> QED
  BY <1>8, <1>9 DEF a, slots

LEMMA SlotsAre ==
    ASSUME NEW c, Serves(c), c.m.shared = Absent, NEW pp \in Nat, pp > 0, NEW tp \in Nat, tp > 0,
           NEW seq \in Nat, NEW e, EfficiencyOK(e), NEW s, DraftKnown(s), NEW budget \in Quantity
    PROVE  /\ SlotsOf(c, tp, pp, seq, e, s, budget) \in Nat
           /\ \A n \in Nat : n <= SlotsOf(c, tp, pp, seq, e, s, budget) =>
                Whole(n) ** (SequenceBytes(c.m, seq, c.prec, pp, tp) ** DraftShare(s)) \preceq budget
<1> DEFINE each == SequenceBytes(c.m, seq, c.prec, pp, tp) ** DraftShare(s)
           most == IF Positive(each) THEN FloorOf(budget // each) ELSE 0
           slots == SlotsOf(c, tp, pp, seq, e, s, budget)
<1>1. /\ ModelOK(c.m) /\ c.m.ratios = <<>> /\ c.prec \in Precisions
  BY DEF Serves
<1>2. each \in Quantity
  BY <1>1, SequenceBytesAre, ShareIs, Numbers
<1>3. slots = IF e.budget > 0 THEN Smaller(most, e.budget) ELSE most
  BY DEF SlotsOf, DraftShare
<1>4. e.budget \in Nat
  BY DEF EfficiencyOK
<1> HIDE DEF each, slots
<1>5. most \in Nat
  BY <1>2, FloorFits
<1>6. slots \in Nat /\ slots <= most
  <2> HIDE DEF most
  <2> QED
    BY <1>3, <1>4, <1>5 DEF Smaller
<1>7. ASSUME NEW n \in Nat, n <= slots
      PROVE  Whole(n) ** each \preceq budget
  <2>1. n <= most
    BY <1>5, <1>6, <1>7
  <2>2. CASE Positive(each)
    BY <1>2, <2>1, <2>2, FloorFits
  <2>3. CASE ~Positive(each)
    <3>1. Whole(n) \in Fraction /\ each = Zero
      BY <1>2, <2>3, PositiveIs, Numbers DEF Quantity
    <3>2. Whole(n) ** Zero = Zero
      BY <3>1, Products DEF **
    <3> QED
      BY <3>1, <3>2, Comparisons
  <2> QED
    BY <2>2, <2>3
<1> QED
  BY <1>6, <1>7 DEF each, slots

\* An answer too short for the drafter is served without one.
LEMMA AnswerIs ==
    ASSUME AbsentIsNone, NEW spec, DraftKnown(spec), DraftDeep(spec), NEW output \in Nat
    PROVE  LET s == ForAnswer(spec, Larger(output, 1)) IN
           /\ DraftKnown(s)
           /\ s # Absent => DraftShare(s) = DraftShare(spec)
           /\ s = Absent /\ spec # Absent => output <= 1
<1> DEFINE n == Larger(output, 1)
           k == Smaller(spec.k, n - 1)
           tau == FiniteTau(spec.alpha, k, n)
           passes == IF spec.profile.parallel THEN 1 ELSE k
           r == [spec EXCEPT !.k = k, !.tau = tau, !.passes = passes]
           s == ForAnswer(spec, n)
<1>1. CASE spec = Absent
  BY <1>1 DEF ForAnswer
<1>2. CASE spec # Absent
  <2>1. spec.k \in Nat /\ spec.k > 0 /\ n \in Nat /\ n >= 1
    BY <1>2 DEF DraftDeep, Larger
  <2>2. k \in Nat /\ (k = 0 => output <= 1)
    BY <2>1 DEF Larger, Smaller
  <2>3. s = IF k = 0 THEN Absent ELSE r
    BY <1>2 DEF ForAnswer
  <2> HIDE DEF tau, passes, k, n
  <2>4. r = [x \in DOMAIN r |-> r[x]]
    OBVIOUS
  <2>5. r # Absent
    <3> HIDE DEF r
    <3> QED
      BY <2>4 DEF AbsentIsNone
  <2>6. k > 0 => s # Absent /\ s.profile = spec.profile /\ s.bytes = spec.bytes
    <3>1. r.profile = spec.profile /\ r.bytes = spec.bytes
      OBVIOUS
    <3> HIDE DEF r
    <3> QED
      BY <2>2, <2>3, <2>5, <3>1
  <2> HIDE DEF r, s
  <2> QED
    BY <1>2, <2>1, <2>2, <2>3, <2>6 DEF DraftKnown, DraftShare, s, n
<1> QED
  BY <1>1, <1>2

\* The part of a prompt no prefix cache holds.
LEMMA EffectiveIs ==
    ASSUME NEW seq \in Nat, seq > 0, NEW hit \in Quantity, hit \prec Whole(1)
    PROVE  LET len == EffectivePrefill(seq, hit) IN len \in Nat /\ len > 0 /\ len <= seq
<1> DEFINE miss == Whole(1) -- Least(Largest(hit, Zero), Whole(1))
           x == Whole(seq) ** miss
           c == CeilOf(x)
<1>1. /\ Whole(1) \in Fraction /\ Whole(seq) \in Quantity /\ hit \in Fraction /\ Zero \in Fraction
      /\ AtMost(Zero, hit) /\ ~AtMost(Whole(1), hit) /\ Whole(1) \in Quantity
  BY WholeQuantity, ZeroIs DEF Quantity, \prec, Below
<1>2. Least(Largest(hit, Zero), Whole(1)) = hit
  <2>1. Largest(hit, Zero) = hit
    BY <1>1, Order DEF Largest
  <2>2. AtMost(hit, Whole(1))
    BY <1>1, Order
  <2> QED
    BY <2>1, <2>2 DEF Least
<1>3. miss \in Quantity /\ miss # Zero /\ miss \preceq Whole(1)
  <2>1. AtMost(hit, Whole(1))
    BY <1>1, Order
  <2>2. miss = Minus(Whole(1), hit)
    BY <1>2 DEF --
  <2>3. Minus(Whole(1), hit) \in Quantity
    BY <1>1, <2>1, QuantityIs
  <2>4. Minus(Whole(1), hit) = Zero => hit = Whole(1)
    BY <1>1, Sums
  <2>5. AtMost(Minus(Whole(1), hit), Whole(1))
    BY <1>1, Order
  <2>6. hit # Whole(1)
    BY <1>1, Order
  <2> HIDE DEF miss
  <2> QED
    BY <2>2, <2>3, <2>4, <2>5, <2>6 DEF \preceq
<1> HIDE DEF miss
<1>4. x \in Quantity /\ x \preceq Whole(seq)
  <2>1. Whole(seq) \preceq Whole(seq)
    BY <1>1, Comparisons
  <2>2. Whole(seq) ** miss \preceq Whole(seq) ** Whole(1)
    BY <1>1, <1>3, <2>1, Comparisons
  <2>3. Whole(seq) ** Whole(1) = Whole(seq)
    BY <1>1, Products DEF **, Quantity
  <2> QED
    BY <1>1, <1>3, <2>2, <2>3, Numbers
<1> HIDE DEF x
<1>5. x[1] \in Int /\ x[2] \in Int /\ x[2] > 0 /\ x[1] <= seq * x[2]
  <2>1. x \in Fraction
    BY <1>4 DEF Quantity
  <2>2. Whole(seq) \in Fraction /\ Whole(seq)[1] = seq /\ Whole(seq)[2] = 1
    BY WholeIs
  <2>3. x[1] * 1 <= seq * x[2]
    BY <1>4, <2>1, <2>2, AtMostIs DEF \preceq
  <2>4. x[1] \in Int /\ x[2] \in Int /\ x[2] > 0
    BY <2>1, Parts
  <2> QED
    BY <2>3, <2>4
<1>6. c \in Int /\ c <= seq
  <2> DEFINE p == -x[1]
             q == x[2]
             f == p \div q
  <2>1. p \in Int /\ q \in Int /\ q > 0 /\ -(seq * q) <= p
    BY <1>5
  <2> HIDE DEF p, q
  <2>2. f \in Int /\ p < f * q + q
    BY <2>1
  <2>3. c = -f
    BY DEF CeilOf, p, q
  <2> HIDE DEF c, f
  <2>4. ASSUME -f > seq
        PROVE  FALSE
    <3>1. f + 1 <= -seq
      BY <2>2, <2>4
    <3>2. (f + 1) * q <= (-seq) * q
      BY <2>1, <2>2, <3>1
    <3>3. (f + 1) * q = f * q + q /\ (-seq) * q = -(seq * q)
      BY <2>1, <2>2
    <3>4. f * q \in Int /\ seq * q \in Int
      BY <2>1, <2>2
    <3> QED
      BY <2>1, <2>2, <3>2, <3>3, <3>4
  <2> QED
    BY <2>2, <2>3, <2>4
<1>7. EffectivePrefill(seq, hit) = Larger(1, c)
  BY <1>3 DEF EffectivePrefill, miss, x
<1> HIDE DEF c
<1> QED
  BY <1>6, <1>7 DEF Larger

LEMMA LayoutIs ==
    ASSUME NEW c, NEW n \in Nat, NEW l \in ValidStrategies(c, n)
    PROVE  /\ l[1] \in 1..n /\ l[2] \in 1..n /\ l[3] \in Nat /\ l[3] > 0
           /\ TpSupported(c.m, l[1]) /\ Holds(c, l[1], l[2])
<1>1. n > 0 /\ l \in Triples(n) /\ TpSupported(c.m, l[1]) /\ Holds(c, l[1], l[2])
  BY DEF ValidStrategies
<1>2. PICK x \in (1..n) \X (1..n) : n % (x[1] * x[2]) = 0 /\ l = <<x[1], x[2], n \div (x[1] * x[2])>>
  BY <1>1 DEF Triples
<1> DEFINE d == x[1] * x[2]
           q == n \div d
<1>3. d \in Nat /\ d > 0
  <2>1. x[1] \in Nat /\ x[2] \in Nat /\ x[1] > 0 /\ x[2] > 0
    BY <1>2
  <2> QED
    BY <2>1
<1>4. l[3] = q /\ n % d = 0
  BY <1>2
<1> HIDE DEF d
<1>5. q \in Nat /\ q > 0
  <2>1. q \in Nat /\ n = d * q + (n % d)
    BY <1>3
  <2> HIDE DEF q
  <2>2. n = d * q
    BY <1>4, <2>1, <1>3
  <2>3. q = 0 => d * q = 0
    BY <1>3
  <2> QED
    BY <1>1, <2>1, <2>2, <2>3
<1> QED
  BY <1>1, <1>2, <1>4, <1>5

\* A batch spread over replicas, each with room for so many.
LEMMA SpreadIs ==
    ASSUME NEW n \in Nat, n > 0, NEW dp \in Nat, dp > 0, NEW slots \in Nat
    PROVE  /\ CeilDiv(n, dp) > slots <=> ~(n <= slots * dp)
           /\ CeilDiv(n, Smaller(n, dp)) > slots <=> ~(n <= slots * dp)
<1>1. ASSUME NEW d \in Nat, d > 0
      PROVE  CeilDiv(n, d) > slots <=> ~(n <= slots * d)
  <2> DEFINE x == CeilDiv(n, d)
  <2>1. x \in Nat /\ (x <= slots <=> n <= slots * d)
    BY <1>1, CeilDivIs
  <2> HIDE DEF x
  <2>2. x > slots <=> ~(x <= slots)
    BY <2>1
  <2> QED
    BY <2>1, <2>2 DEF x
<1>2. n < dp => (n <= slots * n <=> n <= slots * dp)
  <2>1. slots = 0 => slots * n = 0 /\ slots * dp = 0
    OBVIOUS
  <2>2. slots > 0 => n <= slots * n /\ dp <= slots * dp
    <3>1. slots > 0 => 1 * n <= slots * n /\ 1 * dp <= slots * dp
      OBVIOUS
    <3> QED
      BY <3>1
  <2>3. slots * n \in Nat /\ slots * dp \in Nat
    OBVIOUS
  <2> QED
    BY <2>1, <2>2, <2>3
<1>3. Smaller(n, dp) = IF n < dp THEN n ELSE dp
  BY DEF Smaller
<1> QED
  BY <1>1, <1>2, <1>3

-----------------------------------------------------------------------------
(* What a deployment is announced to serve, and what it refuses.            *)

PromptsFit(c, l, input, hit, slots, open) ==
    /\ \A n \in Nat \ {0} :
          /\ TaskPrefill(c, l, n, input, hit) # Absent <=> open /\ n <= slots * l[3]
          /\ TaskPrefill(c, l, n, input, hit) # Absent =>
               TaskPrefill(c, l, n, input, hit).slots = slots * l[3]
    /\ open => \A n \in Nat : n <= slots =>
         Whole(n) ** (SequenceBytes(c.m, input, c.prec, l[2], l[1]) ** DraftShare(c.spec))
           \preceq Requested(c) -- Taken(c, l[1], l[2])

\* The prompts of a batch are served while each replica has room for its part.
LEMMA PromptIs ==
    ASSUME AbsentIsNone, NEW c, Serves(c), c.m.shared = Absent, NEW l,
           l[1] \in Nat, l[1] > 0, l[1] \in DOMAIN Log2, l[2] \in Nat, l[2] > 0, l[3] \in Nat, l[3] > 0,
           NEW input \in Nat, input > 0, NEW hit \in Quantity, hit \prec Whole(1)
    PROVE  \E slots \in Nat, open \in BOOLEAN : PromptsFit(c, l, input, hit, slots, open)
<1> DEFINE len == EffectivePrefill(input, hit)
           budget == CacheBudget(c, l[1], l[2], c.pre)
           open == ContextSupported(c.m, input, 0) /\ budget # Absent
           room == PromptSlots(c, l[1], l[2], len, input, budget)
           slots == IF open THEN room ELSE 0
           bytes == SequenceBytes(c.m, input, c.prec, l[2], l[1]) ** DraftShare(c.spec)
           left == Requested(c) -- Taken(c, l[1], l[2])
<1>1. len \in Nat /\ len > 0 /\ len <= input
  BY EffectiveIs
<1>2. Larger(len, input) = input
  BY <1>1 DEF Larger
<1>3. EfficiencyOK(c.pre) /\ ModelOK(c.m) /\ c.prec \in Precisions /\ c.m.ratios = <<>>
      /\ DraftKnown(c.spec)
  BY DEF Serves
<1>4. ASSUME open
      PROVE  /\ budget \in Quantity /\ Taken(c, l[1], l[2]) \preceq Requested(c) /\ budget \preceq left
             /\ room \in Nat
             /\ \A n \in Nat : n <= room => Whole(n) ** bytes \preceq budget
  <2>1. /\ budget \in Quantity /\ Taken(c, l[1], l[2]) \preceq Requested(c) /\ budget \preceq left
    BY <1>3, <1>4, BudgetIs
  <2> HIDE DEF budget, len
  <2> QED
    BY <1>1, <2>1, PromptSlotsAre
<1>5. slots \in Nat
  BY <1>4
<1>6. ASSUME NEW n \in Nat \ {0}
      PROVE  /\ TaskPrefill(c, l, n, input, hit) # Absent <=> open /\ n <= slots * l[3]
             /\ TaskPrefill(c, l, n, input, hit) # Absent =>
                  TaskPrefill(c, l, n, input, hit).slots = slots * l[3]
  <2> DEFINE pr == CeilDiv(n, l[3])
             time == PrefillTime(c, l, pr, len, c.pre)
             rps == Whole(n) // time
             tps == RoundOf(rps ** Whole(len))
             r == [time |-> time, tps |-> tps, rps |-> rps, slots |-> room * l[3]]
  <2>1. TaskPrefill(c, l, n, input, hit) = IF ~open THEN Absent ELSE IF pr > room THEN Absent ELSE r
    <3> HIDE DEF len
    <3> QED
      BY <1>1, <1>2 DEF TaskPrefill, Prefill, len
  <2> HIDE DEF time, rps, tps
  <2>2. r.slots = room * l[3]
    OBVIOUS
  <2>3. r # Absent
    <3>1. r = [x \in DOMAIN r |-> r[x]]
      OBVIOUS
    <3> HIDE DEF r
    <3> QED
      BY <3>1 DEF AbsentIsNone
  <2>4. open => (pr > room <=> ~(n <= room * l[3]))
    <3> HIDE DEF open, room
    <3> QED
      BY <1>4, SpreadIs
  <2> HIDE DEF open, room, r, pr
  <2> QED
    BY <2>1, <2>2, <2>3, <2>4
<1>7. ASSUME open
      PROVE  /\ Taken(c, l[1], l[2]) \preceq Requested(c)
             /\ \A n \in Nat : n <= slots => Whole(n) ** bytes \preceq left
  <2>1. SequenceBytes(c.m, input, c.prec, l[2], l[1]) \in Quantity /\ DraftShare(c.spec) \in Quantity
    BY <1>3, SequenceBytesAre, ShareIs
  <2>2. left \in Quantity
    <3>1. Requested(c) \in Quantity /\ Taken(c, l[1], l[2]) \in Quantity
      BY MemoryIs
    <3> QED
      BY <1>4, <1>7, <3>1, QuantityIs DEF --, \preceq
  <2>3. bytes \in Quantity
    BY <2>1, Numbers
  <2> HIDE DEF bytes, left, budget, room
  <2>4. ASSUME NEW n \in Nat, n <= slots
        PROVE  Whole(n) ** bytes \preceq left
    <3>1. Whole(n) ** bytes \preceq budget /\ budget \preceq left /\ budget \in Quantity
      BY <1>4, <1>7, <2>4
    <3>2. Whole(n) ** bytes \in Quantity
      BY <2>3, Numbers
    <3> QED
      BY <2>2, <3>1, <3>2, Comparisons
  <2> QED
    BY <1>4, <1>7, <2>4
<1>8. open \in BOOLEAN
  OBVIOUS
<1> HIDE DEF slots, open, bytes, left
<1>9. PromptsFit(c, l, input, hit, slots, open)
  BY <1>6, <1>7 DEF PromptsFit, bytes, left
<1> QED
  BY <1>5, <1>8, <1>9

\* The tokens of a task halfway its answer, and whether all the model's drafter
\* keeps beside them is counted while it answers.
HalfwayTokens(input, output) == input + output \div 2
ShareCounts(spec, output)    == output > 1 \/ spec = Absent

AnswersFit(c, l, input, output, paging, extra, slots, open) ==
    /\ \A n \in Nat \ {0} :
          LET r == DecodeCore(c, l, n, input, output, c.dec, paging, extra) IN
          /\ r # Absent <=> open /\ n <= slots * l[3]
          /\ r # Absent => r.slots = slots * l[3]
    /\ open => \A n \in Nat :
          n <= slots /\ ShareCounts(c.spec, output) =>
            Whole(n) ** (SequenceBytes(c.m, HalfwayTokens(input, output), c.prec, l[2], l[1])
                           ** DraftShare(c.spec))
              \preceq Requested(c) -- Taken(c, l[1], l[2])

\* The answers of a batch are decoded together while each replica has room.
LEMMA AnswersAre ==
    ASSUME AbsentIsNone, NEW c, Serves(c), c.m.shared = Absent, NEW l,
           l[1] \in Nat, l[1] > 0, l[1] \in DOMAIN Log2, l[2] \in Nat, l[2] > 0, l[3] \in Nat, l[3] > 0,
           NEW input \in Nat, NEW output \in Nat, NEW paging, NEW extra
    PROVE  \E slots \in Nat, open \in BOOLEAN :
             AnswersFit(c, l, input, output, paging, extra, slots, open)
<1> DEFINE seq == HalfwayTokens(input, output)
           s == ForAnswer(c.spec, Larger(output, 1))
           budget == CacheBudget(c, l[1], l[2], c.dec)
           open == ~IsDecision(c.m) /\ ContextSupported(c.m, input, output) /\ budget # Absent
           room == SlotsOf(c, l[1], l[2], seq, c.dec, s, budget)
           slots == IF open THEN room ELSE 0
           bytes == SequenceBytes(c.m, seq, c.prec, l[2], l[1]) ** DraftShare(c.spec)
           left == Requested(c) -- Taken(c, l[1], l[2])
           core(n) == DecodeCore(c, l, n, input, output, c.dec, paging, extra)
<1>1. seq \in Nat
  BY DEF HalfwayTokens
<1>2. EfficiencyOK(c.dec) /\ ModelOK(c.m) /\ c.prec \in Precisions /\ c.m.ratios = <<>>
      /\ DraftKnown(c.spec) /\ DraftDeep(c.spec)
  BY DEF Serves
<1>3. /\ DraftKnown(s)
      /\ s # Absent => DraftShare(s) = DraftShare(c.spec)
      /\ s = Absent /\ c.spec # Absent => output <= 1
  BY <1>2, AnswerIs
<1>4. ShareCounts(c.spec, output) => DraftShare(s) = DraftShare(c.spec)
  <2>1. c.spec = Absent => s = Absent
    BY DEF ForAnswer
  <2> QED
    BY <1>3, <2>1 DEF ShareCounts
<1> HIDE DEF seq, s
<1>5. ASSUME open
      PROVE  /\ budget \in Quantity /\ Taken(c, l[1], l[2]) \preceq Requested(c) /\ budget \preceq left
             /\ room \in Nat
             /\ \A n \in Nat : n <= room =>
                  Whole(n) ** (SequenceBytes(c.m, seq, c.prec, l[2], l[1]) ** DraftShare(s)) \preceq budget
  <2>1. /\ budget \in Quantity /\ Taken(c, l[1], l[2]) \preceq Requested(c) /\ budget \preceq left
    BY <1>2, <1>5, BudgetIs
  <2> HIDE DEF budget
  <2> QED
    BY <1>1, <1>2, <1>3, <2>1, SlotsAre
<1>6. slots \in Nat
  BY <1>5
<1>7. ASSUME NEW n \in Nat \ {0}
      PROVE  /\ core(n) # Absent <=> open /\ n <= slots * l[3]
             /\ core(n) # Absent =>
                  core(n).slots = slots * l[3]
  <2> DEFINE pr == CeilDiv(n, Smaller(n, l[3]))
             r == DecodeResult(c, l, n, seq, c.dec, paging, extra, s, room)
  <2>1. core(n) = IF ~open THEN Absent ELSE IF pr > room THEN Absent ELSE r
    BY DEF DecodeCore, HalfwayTokens, seq, s
  <2>2. r.slots = room * l[3] /\ r # Absent
    <3> HIDE DEF room
    <3> DEFINE q == [tps |-> r.tps, step |-> r.step, slots |-> room * l[3], tau |-> r.tau,
                     speedup |-> r.speedup]
    <3>1. r = q
      BY DEF DecodeResult
    <3> HIDE DEF r
    <3>2. q = [x \in DOMAIN q |-> q[x]] /\ q.slots = room * l[3]
      OBVIOUS
    <3> HIDE DEF q
    <3>3. q # Absent
      BY <3>2 DEF AbsentIsNone
    <3> QED
      BY <3>1, <3>2, <3>3 DEF q
  <2>4. open => (pr > room <=> ~(n <= room * l[3]))
    <3> HIDE DEF open, room
    <3> QED
      BY <1>5, SpreadIs
  <2> HIDE DEF open, room, r, pr
  <2> QED
    BY <2>1, <2>2, <2>4
<1>8. ASSUME open
      PROVE  \A n \in Nat : n <= slots /\ ShareCounts(c.spec, output) => Whole(n) ** bytes \preceq left
  <2>1. SequenceBytes(c.m, seq, c.prec, l[2], l[1]) \in Quantity /\ DraftShare(c.spec) \in Quantity
    BY <1>1, <1>2, SequenceBytesAre, ShareIs
  <2>2. left \in Quantity
    <3>1. Requested(c) \in Quantity /\ Taken(c, l[1], l[2]) \in Quantity
      BY MemoryIs
    <3> QED
      BY <1>5, <1>8, <3>1, QuantityIs DEF --, \preceq
  <2>3. bytes \in Quantity
    BY <2>1, Numbers
  <2>4. ASSUME NEW n \in Nat, n <= slots, ShareCounts(c.spec, output)
        PROVE  Whole(n) ** bytes \preceq left
    <3>1. Whole(n) ** bytes \preceq budget /\ budget \preceq left /\ budget \in Quantity
      <4> HIDE DEF left, budget, room
      <4> QED
        BY <1>4, <1>5, <1>8, <2>4
    <3> HIDE DEF bytes, left, budget
    <3>2. Whole(n) ** bytes \in Quantity
      BY <2>3, Numbers
    <3> QED
      BY <2>2, <3>1, <3>2, Comparisons
  <2> QED
    BY <2>4
<1>9. open \in BOOLEAN
  OBVIOUS
<1> HIDE DEF slots, open, bytes, left
<1>10. AnswersFit(c, l, input, output, paging, extra, slots, open)
  BY <1>7, <1>8 DEF AnswersFit, bytes, left, seq
<1> QED
  BY <1>6, <1>9, <1>10

LEMMA ContextServes ==
    ASSUME NEW x \in Deployments, LayersAlike(Catalog[x[1]])
    PROVE  Serves(Context(x)) /\ Context(x).m = Catalog[x[1]]
<1> DEFINE c == Context(x)
           m == Catalog[x[1]]
           s == Settings[x[5]]
           method == IF x[3] THEN Drafting[x[1]] ELSE "off"
           spec == ResolveSpec(m, method, 0, Zero, x[2])
<1>1. x[1] \in Key /\ x[2] \in Prec /\ x[4] \in GpuType /\ x[5] \in Env
  BY DEF Deployments
<1>2. ModelOK(m) /\ GpuOK(Gpu[x[4]]) /\ SettingsOK(s) /\ x[2] \in Precisions
  BY <1>1, PanelAssumption
<1>3. DraftKnown(spec) /\ DraftDeep(spec)
  BY <1>2, ResolvedIs, Numbers
<1>4. Ordinary(m) /\ m.ratios = <<>>
  BY DEF LayersAlike
<1>5. s.mu \in Quantity /\ s.nonKv \in Quantity /\ EfficiencyOK(s.pre) /\ EfficiencyOK(s.dec)
  BY <1>2, AmountIs DEF SettingsOK
<1> HIDE DEF m, s, spec
<1>6. /\ c.m = m /\ c.g = Gpu[x[4]] /\ c.mu = s.mu /\ c.nonKv = s.nonKv /\ c.prec = x[2]
      /\ c.pre = s.pre /\ c.dec = s.dec /\ c.spec = spec
  BY DEF Context, m, s, spec
<1> HIDE DEF c
<1> QED
  BY <1>2, <1>3, <1>4, <1>5, <1>6 DEF Serves, c, m

\* The layouts that hold the weights of a model all hold what is announced for
\* them, and no request more.
THEOREM LayoutsHonest ==
    ASSUME AbsentIsNone, NEW x \in Deployments, Kind[x[1]] = "llm", LayersAlike(Catalog[x[1]]),
           Settings[x[5]].input > 0, Settings[x[5]].work.hitRate \prec Whole(1),
           NEW l \in LayoutTable[x]
    PROVE  l \in HonestTable[x]
<1> DEFINE c == Context(x)
           input == Settings[x[5]].input
           output == Settings[x[5]].output
           hit == Settings[x[5]].work.hitRate
           seq == HalfwayTokens(input, output)
           dp == l[3]
           most == DataCapacity(c, l, l, input, output, hit)
           bytes(len) == SequenceBytes(c.m, len, c.prec, l[2], l[1]) ** DraftShare(c.spec)
           left == Requested(c) -- Taken(c, l[1], l[2])
           gate == ~IsDecision(c.m) /\ ContextSupported(c.m, input, output)
           both(n) == Phases(c, l, n, input, output, hit)
           prompt(n) == TaskPrefill(c, l, n, input, hit)
           answer(n) == TaskDecode(c, l, n, input, output)
<1>1. Serves(c) /\ c.m = Catalog[x[1]] /\ LayersAlike(c.m) /\ c.m.shared = Absent
  BY ContextServes DEF LayersAlike, Ordinary
<1>2. input \in Nat /\ input > 0 /\ output \in Nat /\ hit \in Quantity /\ hit \prec Whole(1)
  <2>1. SettingsOK(Settings[x[5]])
    BY PanelAssumption DEF Deployments
  <2> QED
    BY <2>1, AmountIs DEF SettingsOK
<1>3. x[6] \in 1..MaxCount
  BY DEF Deployments
<1>4. l \in ValidStrategies(c, x[6])
  BY DEF LayoutTable
<1>5. /\ l[1] \in Nat /\ l[1] > 0 /\ l[1] \in DOMAIN Log2 /\ l[2] \in Nat /\ l[2] > 0
      /\ dp \in Nat /\ dp > 0 /\ TpSupported(c.m, l[1]) /\ Holds(c, l[1], l[2])
  <2>1. x[6] \in Nat /\ x[6] <= MaxCount
    BY <1>3
  <2>2. l[1] \in 1..x[6] /\ l[2] \in 1..x[6] /\ dp \in Nat /\ dp > 0 /\ TpSupported(c.m, l[1])
        /\ Holds(c, l[1], l[2])
    BY <1>4, <2>1, LayoutIs
  <2>3. l[1] \in 1..MaxCount
    <3>1. MaxCount \in Int
      BY HardwareAssumption
    <3> QED
      BY <2>1, <2>2, <3>1
  <2>4. l[1] \in DOMAIN Log2
    BY <2>3, PanelAssumption
  <2> QED
    BY <2>1, <2>2, <2>4
<1> HIDE DEF c, dp, input, output, hit
<1>6. PICK sp \in Nat, openP \in BOOLEAN :
        /\ \A n \in Nat \ {0} :
              /\ prompt(n) # Absent <=> openP /\ n <= sp * dp
              /\ prompt(n) # Absent => prompt(n).slots = sp * dp
        /\ openP => \A n \in Nat : n <= sp => Whole(n) ** bytes(input) \preceq left
  <2>1. l[3] \in Nat /\ l[3] > 0
    BY <1>5 DEF dp
  <2>2. \E slots \in Nat, open \in BOOLEAN : PromptsFit(c, l, input, hit, slots, open)
    BY <1>1, <1>2, <1>5, <2>1, PromptIs
  <2> QED
    BY <2>2 DEF PromptsFit, dp
<1>7. PICK sd \in Nat, openD \in BOOLEAN :
        /\ \A n \in Nat \ {0} :
              /\ answer(n) # Absent <=> openD /\ n <= sd * dp
              /\ answer(n) # Absent => answer(n).slots = sd * dp
        /\ openD => \A n \in Nat :
              n <= sd /\ ShareCounts(c.spec, output) => Whole(n) ** bytes(seq) \preceq left
  <2>1. l[3] \in Nat /\ l[3] > 0
    BY <1>5 DEF dp
  <2> DEFINE paging == FixedPaging(Whole(input + output \div 2), c.dec, Whole(1))
  <2>2. \A n : answer(n) = DecodeCore(c, l, n, input, output, c.dec, paging, Zero)
    BY DEF TaskDecode
  <2> HIDE DEF paging, answer
  <2>3. \E slots \in Nat, open \in BOOLEAN : AnswersFit(c, l, input, output, paging, Zero, slots, open)
    BY <1>1, <1>2, <1>5, <2>1, AnswersAre
  <2> QED
    BY <2>2, <2>3 DEF AnswersFit, dp
<1> HIDE DEF bytes, left, prompt, answer
<1> DEFINE open == gate /\ openP /\ openD
<1>8. ASSUME NEW n \in Nat \ {0}
      PROVE  /\ both(n) # Absent <=> open /\ n <= sp * dp /\ n <= sd * dp
             /\ both(n) # Absent => both(n).prompt.slots = sp * dp /\ both(n).answer.slots = sd * dp
  <2> DEFINE p == prompt(n)
             a == answer(n)
             r == [prompt |-> p, answer |-> a]
  <2>1. both(n) = IF ~gate THEN Absent ELSE IF p = Absent \/ a = Absent THEN Absent ELSE r
    BY DEF Phases, prompt, answer
  <2>2. r = [y \in DOMAIN r |-> r[y]] /\ r.prompt = p /\ r.answer = a
    OBVIOUS
  <2> HIDE DEF r, gate, p, a, both
  <2>3. r # Absent
    BY <2>2 DEF AbsentIsNone
  <2>4. p # Absent <=> openP /\ n <= sp * dp
    BY <1>6 DEF p
  <2>5. a # Absent <=> openD /\ n <= sd * dp
    BY <1>7 DEF a
  <2>6. p # Absent => p.slots = sp * dp
    BY <1>6 DEF p
  <2>7. a # Absent => a.slots = sd * dp
    BY <1>7 DEF a
  <2>8. both(n) # Absent <=> open /\ n <= sp * dp /\ n <= sd * dp
    BY <2>1, <2>3, <2>4, <2>5
  <2> QED
    BY <2>1, <2>2, <2>6, <2>7, <2>8
<1>9. ASSUME NEW n \in Nat \ {0}
      PROVE  Together(x, l, n) <=> open /\ n <= sp * dp /\ n <= sd * dp
  <2> DEFINE d == Data(c, l, l, n, input, output, hit)
             time == CycleTime(both(n).prompt.time, Whole(output) ** both(n).answer.step, c)
             rps == PerSecond(n, time)
             rate == RoundTo(rps, Hundredth)
             tps == RoundOf(rps ** Whole(input + output))
             share == IF Positive(time) THEN both(n).prompt.time // time ELSE Zero
             r == [rps |-> rate, tps |-> tps, share |-> share]
  <2>1. Together(x, l, n) <=> d # Absent
    BY DEF Together, c, input, output, hit
  <2>2. d = IF both(n) = Absent THEN Absent ELSE r
    BY DEF Data
  <2> HIDE DEF rate, tps, share
  <2>3. r = [y \in DOMAIN r |-> r[y]]
    OBVIOUS
  <2> HIDE DEF r, d, both
  <2>4. r # Absent
    BY <2>3 DEF AbsentIsNone
  <2>5. both(n) # Absent <=> open /\ n <= sp * dp /\ n <= sd * dp
    BY <1>8
  <2> HIDE DEF open
  <2> QED
    BY <2>1, <2>2, <2>4, <2>5
<1>10. most = IF both(dp) = Absent THEN 0 ELSE Smaller(both(dp).prompt.slots, both(dp).answer.slots)
  BY DEF DataCapacity, dp
<1> HIDE DEF both, most, open
<1>11. /\ ~open => most = 0
       /\ open => most = Smaller(sp, sd) * dp
  <2> DEFINE min == Smaller(sp, sd)
  <2>1. dp \in Nat \ {0}
    BY <1>5
  <2>2. /\ both(dp) # Absent <=> open /\ dp <= sp * dp /\ dp <= sd * dp
        /\ both(dp) # Absent => both(dp).prompt.slots = sp * dp /\ both(dp).answer.slots = sd * dp
    BY <1>8, <2>1
  <2>3. dp <= sp * dp <=> sp >= 1
    <3>1. sp >= 1 => 1 * dp <= sp * dp
      BY <1>6, <2>1
    <3>2. sp = 0 => sp * dp = 0
      BY <2>1
    <3> QED
      BY <1>6, <2>1, <3>1, <3>2
  <2>4. dp <= sd * dp <=> sd >= 1
    <3>1. sd >= 1 => 1 * dp <= sd * dp
      BY <1>7, <2>1
    <3>2. sd = 0 => sd * dp = 0
      BY <2>1
    <3> QED
      BY <1>7, <2>1, <3>1, <3>2
  <2>5. Smaller(sp * dp, sd * dp) = min * dp
    <3>1. sp < sd <=> sp * dp < sd * dp
      <4>1. sp < sd => sp * dp < sd * dp
        BY <1>6, <1>7, <2>1
      <4>2. sd <= sp => sd * dp <= sp * dp
        BY <1>6, <1>7, <2>1
      <4>3. sp * dp \in Nat /\ sd * dp \in Nat
        BY <1>6, <1>7, <2>1
      <4> QED
        BY <1>6, <1>7, <4>1, <4>2, <4>3
    <3> QED
      BY <3>1 DEF Smaller
  <2>6. sp = 0 \/ sd = 0 => min * dp = 0
    <3>1. sp = 0 \/ sd = 0 => min = 0
      BY <1>6, <1>7 DEF Smaller
    <3>2. 0 * dp = 0
      BY <2>1
    <3> QED
      BY <3>1, <3>2
  <2> HIDE DEF min
  <2>7. both(dp) # Absent <=> open /\ sp >= 1 /\ sd >= 1
    BY <2>2, <2>3, <2>4
  <2>8. sp >= 1 \/ sp = 0
    BY <1>6
  <2>9. sd >= 1 \/ sd = 0
    BY <1>7
  <2> QED
    BY <1>10, <2>2, <2>5, <2>6, <2>7, <2>8, <2>9 DEF min
<1>12. Smaller(sp, sd) \in Nat /\ Smaller(sp, sd) <= sp /\ Smaller(sp, sd) <= sd /\ most \in Nat
  <2>1. Smaller(sp, sd) \in Nat /\ Smaller(sp, sd) <= sp /\ Smaller(sp, sd) <= sd
    BY <1>6, <1>7, WholeNumbers
  <2>2. Smaller(sp, sd) * dp \in Nat
    BY <1>5, <2>1
  <2> QED
    BY <1>11, <2>1, <2>2
<1>13. \A n \in 1..(most + 1) : Together(x, l, n) <=> n <= most
  <2> TAKE n \in 1..(most + 1)
  <2>1. n \in Nat \ {0}
    BY <1>12
  <2>2. Together(x, l, n) <=> open /\ n <= sp * dp /\ n <= sd * dp
    BY <1>9, <2>1
  <2>3. n <= Smaller(sp, sd) * dp <=> n <= sp * dp /\ n <= sd * dp
    <3>1. Smaller(sp, sd) = sp \/ Smaller(sp, sd) = sd
      BY DEF Smaller
    <3>2. Smaller(sp, sd) * dp <= sp * dp /\ Smaller(sp, sd) * dp <= sd * dp
      BY <1>5, <1>6, <1>7, <1>12
    <3>3. sp * dp \in Nat /\ sd * dp \in Nat /\ Smaller(sp, sd) * dp \in Nat
      BY <1>5, <1>6, <1>7, <1>12
    <3> QED
      BY <2>1, <3>1, <3>2, <3>3
  <2> QED
    BY <1>11, <2>1, <2>2, <2>3
<1>14. AllStagesHold(x, l, most)
  <2> DEFINE n == most \div dp
  <2>1. n \in Nat /\ (~open => n = 0) /\ (open => n <= sp /\ n <= sd)
    <3>1. \A k \in Nat : (k * dp) \div dp = k
      <4> TAKE k \in Nat
      <4>1. k * dp = dp * k
        BY <1>5
      <4> QED
        BY <1>5, <4>1
    <3>2. 0 \div dp = 0
      BY <1>5
    <3>3. open => n = Smaller(sp, sd)
      BY <1>11, <1>12, <3>1
    <3>4. ~open => n = 0
      BY <1>11, <3>2
    <3> HIDE DEF n
    <3> QED
      BY <1>12, <3>3, <3>4
  <2> HIDE DEF n
  <2>2. Taken(c, l[1], l[2]) \preceq Requested(c)
    BY <1>1, <1>5, HoldsIs
  <2>3. seq \in Nat /\ (output <= 1 => seq = input)
    <3>1. output <= 1 => output \div 2 = 0
      BY <1>2
    <3> QED
      BY <1>2, <3>1 DEF HalfwayTokens
  <2> HIDE DEF seq
  <2>4. n > 0 => Whole(n) ** bytes(seq) \preceq left
    <3>1. n > 0 => open
      BY <2>1
    <3>2. CASE n > 0 /\ ShareCounts(c.spec, output)
      BY <1>7, <2>1, <3>1, <3>2 DEF open
    <3>3. CASE n > 0 /\ ~ShareCounts(c.spec, output)
      <4>1. seq = input
        BY <1>2, <2>3, <3>3 DEF ShareCounts
      <4> QED
        BY <1>6, <2>1, <3>1, <3>3, <4>1 DEF open
    <3> QED
      BY <3>2, <3>3
  <2>5. ASSUME NEW first \in StageStarts(c.m.layers, l[2])
        PROVE  StageBytes(c, l, first, n, seq) \preceq Requested(c)
    BY <1>1, <1>5, <2>1, <2>2, <2>3, <2>4, StageFits DEF bytes, left, DraftShare
  <2> QED
    BY <1>1, <2>5 DEF AllStagesHold, RequestTokens, HalfwayTokens, c, input, output, seq, n, dp
<1>15. Announced[x][l] = most
  BY DEF Announced, most, c, input, output, hit
<1>16. x \in DOMAIN Announced
  BY DEF Announced
<1> QED
  BY <1>13, <1>14, <1>15, <1>16 DEF HonestTable

\* The mean of a distribution over lengths that are whole numbers.
LEMMA MeanLengthIs ==
    ASSUME NEW lengths \in Seq(Nat), NEW dist \in [DOMAIN lengths -> Nat]
    PROVE  AvgDist(dist, lengths) \in Nat
<1> DEFINE S == DOMAIN lengths
           f == [i \in S |-> Weights(dist)[i] ** Whole(lengths[i])]
           d == Or(SumOf(dist), 1)
<1>1. IsFiniteSet(S) /\ DOMAIN dist = S
  <2>1. S = 1..Len(lengths) /\ Len(lengths) \in Nat
    OBVIOUS
  <2> QED
    BY <2>1, FS_Interval
<1>2. d \in Nat /\ d > 0
  BY <1>1, WholeSum DEF Or
<1>3. ASSUME NEW i \in S PROVE f[i] \in Quantity
  <2>1. Weights(dist)[i] = Frac(dist[i], d) /\ dist[i] \in Nat /\ lengths[i] \in Nat
    BY <1>1 DEF Weights
  <2> HIDE DEF d
  <2>2. Frac(dist[i], d) \in Quantity
    BY <1>2, <2>1, PartOrder
  <2>3. Weights(dist)[i] ** Whole(lengths[i]) \in Quantity
    BY <2>1, <2>2, Numbers
  <2> QED
    BY <2>3
<1> HIDE DEF f, S
<1>4. Summable(f, S) /\ \A i \in S : AtMost(Zero, f[i])
  BY <1>1, <1>3 DEF Summable, Quantity
<1>5. Total(f, S) \in Quantity
  BY <1>4, TotalIs, TotalNotNegative DEF Quantity
<1>6. MeanOf(dist, lengths) = Total(f, S)
  BY DEF MeanOf, f, S
<1> QED
  BY <1>5, <1>6, RoundIs, Numbers DEF AvgDist

-----------------------------------------------------------------------------
(* The order of scores.                                                     *)

LEMMA StrictOrder ==
    ASSUME NEW a \in Fraction, NEW b \in Fraction, NEW c \in Fraction
    PROVE  /\ a \prec b \/ a = b \/ b \prec a
           /\ a \prec b /\ b \prec c => a \prec c
           /\ a \prec b => a # b /\ ~(b \prec a)
BY Order DEF \prec, Below

Common(a, b) == 1..Smaller(Len(a), Len(b))

LEMMA CommonIs ==
    ASSUME NEW a \in Seq(Fraction), NEW b \in Seq(Fraction), NEW i
    PROVE  /\ Len(a) \in Nat /\ Len(b) \in Nat
           /\ i \in Common(a, b) <=> i \in Int /\ 1 <= i /\ i <= Len(a) /\ i <= Len(b)
           /\ i \in Common(a, b) => a[i] \in Fraction /\ b[i] \in Fraction
<1>1. Len(a) \in Nat /\ Len(b) \in Nat
  OBVIOUS
<1>2. i \in Common(a, b) <=> i \in Int /\ 1 <= i /\ i <= Len(a) /\ i <= Len(b)
  BY <1>1 DEF Common, Smaller
<1>3. i \in Common(a, b) => a[i] \in Fraction /\ b[i] \in Fraction
  BY <1>1, <1>2
<1> QED
  BY <1>1, <1>2, <1>3

LEMMA LesserIs ==
    ASSUME NEW a, NEW b
    PROVE  Lesser(a, b) <=>
             \/ \E i \in Common(a, b) : a[i] \prec b[i] /\ \A j \in 1..(i - 1) : a[j] = b[j]
             \/ Len(a) < Len(b) /\ \A i \in Common(a, b) : a[i] = b[i]
BY DEF Lesser, Common

LEMMA LesserTotal ==
    ASSUME NEW a \in Seq(Fraction), NEW b \in Seq(Fraction)
    PROVE  Lesser(a, b) \/ a = b \/ Lesser(b, a)
<1> DEFINE D == {i \in Common(a, b) : a[i] # b[i]}
<1>1. Common(a, b) = Common(b, a)
  BY DEF Common, Smaller
<1>2. CASE D = {}
  <2>1. \A i \in Common(a, b) : a[i] = b[i]
    BY <1>2
  <2>2. Len(a) = Len(b) => a = b
    <3>1. ASSUME Len(a) = Len(b), NEW i \in 1..Len(a) PROVE a[i] = b[i]
      BY <2>1, <3>1, CommonIs
    <3> QED
      BY <3>1
  <2>3. Len(a) \in Nat /\ Len(b) \in Nat
    OBVIOUS
  <2> QED
    BY <1>1, <2>1, <2>2, <2>3, LesserIs
<1>3. CASE D # {}
  <2>1. D \in SUBSET Nat
    BY CommonIs
  <2>2. PICK i \in D : \A j \in D : i <= j
    BY <1>3, <2>1, LeastNumber
  <2>3. i \in Common(a, b) /\ i \in Int /\ i <= Len(a) /\ i <= Len(b)
    BY <2>2, CommonIs
  <2>4. \A j \in 1..(i - 1) : a[j] = b[j]
    <3> TAKE j \in 1..(i - 1)
    <3>1. j \in Common(a, b)
      BY <2>3, CommonIs
    <3> QED
      BY <2>2, <2>3, <3>1
  <2>5. a[i] \in Fraction /\ b[i] \in Fraction /\ a[i] # b[i]
    BY <2>2, <2>3, CommonIs
  <2>6. a[i] \prec b[i] \/ b[i] \prec a[i]
    BY <2>5, StrictOrder
  <2>7. \A j \in 1..(i - 1) : b[j] = a[j]
    BY <2>4
  <2> QED
    BY <1>1, <2>3, <2>4, <2>6, <2>7, LesserIs
<1> QED
  BY <1>2, <1>3

LEMMA LesserTransitive ==
    ASSUME NEW a \in Seq(Fraction), NEW b \in Seq(Fraction), NEW c \in Seq(Fraction),
           Lesser(a, b), Lesser(b, c)
    PROVE  Lesser(a, c)
<1> DEFINE Differ(x, y, i) == /\ i \in Common(x, y) /\ x[i] \prec y[i]
                              /\ \A j \in 1..(i - 1) : x[j] = y[j]
           Part(x, y) == Len(x) < Len(y) /\ \A i \in Common(x, y) : x[i] = y[i]
<1>1. ASSUME NEW x, NEW y
      PROVE  Lesser(x, y) <=> (\E i : Differ(x, y, i)) \/ Part(x, y)
  BY LesserIs
<1>2. \A i : /\ i \in Common(a, b) <=> i \in Int /\ 1 <= i /\ i <= Len(a) /\ i <= Len(b)
             /\ i \in Common(b, c) <=> i \in Int /\ 1 <= i /\ i <= Len(b) /\ i <= Len(c)
             /\ i \in Common(a, c) <=> i \in Int /\ 1 <= i /\ i <= Len(a) /\ i <= Len(c)
  BY CommonIs
<1>3. Len(a) \in Nat /\ Len(b) \in Nat /\ Len(c) \in Nat
  OBVIOUS
<1>4. \A i : i \in Common(a, b) => a[i] \in Fraction /\ b[i] \in Fraction
  BY CommonIs
<1>5. \A i : i \in Common(b, c) => b[i] \in Fraction /\ c[i] \in Fraction
  BY CommonIs
<1>6. ASSUME NEW i, NEW j, Differ(a, b, i), Differ(b, c, j)
      PROVE  \E k : Differ(a, c, k)
  <2>1. CASE i < j
    <3>1. Differ(a, c, i)
      BY <1>2, <1>6, <2>1
    <3> QED
      BY <3>1
  <2>2. CASE j < i
    <3>1. Differ(a, c, j)
      BY <1>2, <1>6, <2>2
    <3> QED
      BY <3>1
  <2>3. CASE i = j
    <3>1. a[i] \prec c[i]
      BY <1>4, <1>5, <1>6, <2>3, StrictOrder
    <3>2. Differ(a, c, i)
      BY <1>2, <1>6, <2>3, <3>1
    <3> QED
      BY <3>2
  <2>4. i \in Int /\ j \in Int
    BY <1>2, <1>6
  <2> QED
    BY <2>1, <2>2, <2>3, <2>4
<1>7. ASSUME NEW i, Differ(a, b, i), Part(b, c)
      PROVE  Differ(a, c, i)
  <2>1. i \in Int /\ 1 <= i /\ i <= Len(a) /\ i <= Len(b) /\ i <= Len(c)
    BY <1>2, <1>3, <1>7
  <2>2. \A j \in 1..i : b[j] = c[j]
    BY <1>2, <1>3, <1>7, <2>1
  <2> QED
    BY <1>2, <1>7, <2>1, <2>2
<1>8. ASSUME NEW j, Part(a, b), Differ(b, c, j)
      PROVE  Differ(a, c, j) \/ Part(a, c)
  <2>1. j \in Int /\ 1 <= j /\ j <= Len(b) /\ j <= Len(c)
    BY <1>2, <1>8
  <2>2. CASE j <= Len(a)
    <3>1. \A k \in 1..j : a[k] = b[k]
      BY <1>2, <1>3, <1>8, <2>1, <2>2
    <3> QED
      BY <1>2, <1>8, <2>1, <2>2, <3>1
  <2>3. CASE Len(a) < j
    <3>1. \A k \in Common(a, c) : a[k] = b[k] /\ b[k] = c[k]
      BY <1>2, <1>3, <1>8, <2>1, <2>3
    <3> QED
      BY <1>3, <2>1, <2>3, <3>1
  <2> QED
    BY <1>3, <2>1, <2>2, <2>3
<1>9. ASSUME Part(a, b), Part(b, c)
      PROVE  Part(a, c)
  <2>1. \A k \in Common(a, c) : a[k] = b[k] /\ b[k] = c[k]
    BY <1>2, <1>3, <1>9
  <2> QED
    BY <1>3, <1>9, <2>1
<1> HIDE DEF Differ, Part
<1> QED
  BY <1>1, <1>6, <1>7, <1>8, <1>9

\* Of finitely many keys one is the greatest and one the least.
LEMMA TopOfSet ==
    ASSUME NEW S, IsFiniteSet(S), S # {}, NEW key \in [S -> Seq(Fraction)]
    PROVE  /\ \E l \in S : \A k \in S : Lesser(key[k], key[l]) \/ key[k] = key[l]
           /\ \E l \in S : \A k \in S : Lesser(key[l], key[k]) \/ key[k] = key[l]
<1> DEFINE Top(T) == \E l \in T : \A k \in T : Lesser(key[k], key[l]) \/ key[k] = key[l]
           Bottom(T) == \E l \in T : \A k \in T : Lesser(key[l], key[k]) \/ key[k] = key[l]
           P == {T \in SUBSET S : T = {} \/ (Top(T) /\ Bottom(T))}
<1>1. {} \in P
  OBVIOUS
<1>2. ASSUME NEW T \in SUBSET S, T # {}, \A x \in T : T \ {x} \in P
      PROVE  T \in P
  <2>1. PICK x \in T : TRUE
    BY <1>2
  <2>2. CASE T \ {x} = {}
    <3>1. \A k \in T : k = x
      BY <2>2
    <3> QED
      BY <2>1, <3>1
  <2>3. CASE T \ {x} # {}
    <3>1. PICK t \in T \ {x} : \A k \in T \ {x} : Lesser(key[k], key[t]) \/ key[k] = key[t]
      BY <1>2, <2>1, <2>3
    <3>2. PICK b \in T \ {x} : \A k \in T \ {x} : Lesser(key[b], key[k]) \/ key[k] = key[b]
      BY <1>2, <2>1, <2>3
    <3>3. \A k \in T : key[k] \in Seq(Fraction)
      OBVIOUS
    <3>4. Top(T)
      <4>1. CASE Lesser(key[x], key[t]) \/ key[x] = key[t]
        BY <3>1, <4>1
      <4>2. CASE Lesser(key[t], key[x])
        <5>1. \A k \in T \ {x} : Lesser(key[k], key[x])
          BY <2>1, <3>1, <3>3, <4>2, LesserTransitive
        <5> QED
          BY <2>1, <5>1
      <4> QED
        BY <2>1, <3>1, <3>3, <4>1, <4>2, LesserTotal
    <3>5. Bottom(T)
      <4>1. CASE Lesser(key[b], key[x]) \/ key[x] = key[b]
        BY <3>2, <4>1
      <4>2. CASE Lesser(key[x], key[b])
        <5>1. \A k \in T \ {x} : Lesser(key[x], key[k])
          BY <2>1, <3>2, <3>3, <4>2, LesserTransitive
        <5> QED
          BY <2>1, <5>1
      <4> QED
        BY <2>1, <3>2, <3>3, <4>1, <4>2, LesserTotal
    <3> QED
      BY <3>4, <3>5
  <2> QED
    BY <2>2, <2>3
<1> HIDE DEF P
<1>3. S \in P
  BY <1>1, <1>2, EverySubset
<1> QED
  BY <1>3 DEF P

\* FirstBest finds a layout that no other outscores.
LEMMA FirstBestIs ==
    ASSUME NEW c, c.g.node \in Nat, NEW S, IsFiniteSet(S), S # {},
           \A l \in S : l[1] \in Int /\ l[2] \in Int /\ l[3] \in Int,
           NEW score \in [S -> Seq(Fraction)]
    PROVE  LET best == FirstBest(c, S, score) IN
           best \in S /\ \A k \in S : Lesser(score[k], score[best]) \/ score[k] = score[best]
<1> DEFINE key == [l \in S |-> ListKey(c, l)]
<1>1. key \in [S -> Seq(Fraction)]
  <2> SUFFICES ASSUME NEW l \in S PROVE ListKey(c, l) \in Seq(Fraction)
    OBVIOUS
  <2> DEFINE inner == Smaller(l[1], c.g.node)
             crosses == IF l[1] > c.g.node THEN 1 ELSE 0
  <2>1. l[1] \in Int /\ l[2] \in Int /\ l[3] \in Int /\ inner \in Int /\ crosses \in Int
    BY DEF Smaller
  <2>2. ListKey(c, l) = <<Whole(-l[3]), Whole(crosses), Whole(-inner), Whole(l[2]), Whole(l[1])>>
    BY DEF ListKey
  <2> HIDE DEF inner, crosses
  <2>3. /\ Whole(-l[3]) \in Fraction /\ Whole(crosses) \in Fraction /\ Whole(-inner) \in Fraction
        /\ Whole(l[2]) \in Fraction /\ Whole(l[1]) \in Fraction
    BY <2>1, WholeIs
  <2> QED
    BY <2>2, <2>3
<1>2. PICK t \in S : \A k \in S : Lesser(score[k], score[t]) \/ score[k] = score[t]
  BY TopOfSet
<1> DEFINE T == {l \in S : score[l] = score[t]}
           first == [l \in T |-> key[l]]
<1>3. T # {} /\ IsFiniteSet(T) /\ first \in [T -> Seq(Fraction)]
  BY <1>1, FS_Subset
<1>4. PICK l \in T : \A k \in T : Lesser(first[l], first[k]) \/ first[k] = first[l]
  <2> HIDE DEF T, first
  <2> QED
    BY <1>3, TopOfSet
<1>5. ASSUME NEW a \in Seq(Fraction), NEW b \in Seq(Fraction), Lesser(a, b) \/ a = b
      PROVE  ~Lesser(b, a)
  <2> SUFFICES ASSUME Lesser(b, a) PROVE FALSE
    OBVIOUS
  <2>1. Lesser(a, a)
    BY <1>5, LesserTransitive
  <2>2. ASSUME NEW i \in Common(a, a) PROVE ~(a[i] \prec a[i])
    BY CommonIs, StrictOrder
  <2> QED
    BY <2>1, <2>2, LesserIs
<1>6. \A k \in S : \/ Lesser(score[k], score[l])
                   \/ score[k] = score[l] /\ ~Lesser(ListKey(c, k), ListKey(c, l))
  <2> TAKE k \in S
  <2>1. CASE k \in T
    <3>1. Lesser(key[l], key[k]) \/ key[l] = key[k]
      BY <1>4, <2>1
    <3>2. ~Lesser(key[k], key[l])
      BY <1>1, <1>4, <1>5, <3>1
    <3> QED
      BY <1>4, <2>1, <3>2
  <2>2. CASE k \notin T
    BY <1>2, <1>4, <2>2
  <2> QED
    BY <2>1, <2>2
<1> HIDE DEF T, first, key
<1>7. l \in S
  BY <1>4 DEF T
<1> DEFINE best == FirstBest(c, S, score)
<1>8. best \in S /\ \A k \in S : \/ Lesser(score[k], score[best])
                                 \/ score[k] = score[best] /\ ~Lesser(ListKey(c, k), ListKey(c, best))
  BY <1>6, <1>7 DEF FirstBest
<1> HIDE DEF best
<1> QED
  BY <1>8 DEF best

-----------------------------------------------------------------------------
(* The batches a layout is probed with.                                     *)

LEMMA ProbesAre ==
    ASSUME NEW dp \in Nat, dp > 0
    PROVE  /\ IsFiniteSet(ProbeBatches(dp)) /\ dp \in ProbeBatches(dp)
           /\ \A bs \in ProbeBatches(dp) : bs \in Nat /\ dp <= bs
<1> DEFINE M == MaxProbe
           from == CHOOSE f : f = [n \in Nat |-> IF n >= M THEN {n} ELSE {n} \cup f[2 * n]]
           Closed(T) == \A n \in T : n < M => 2 * n \in T
           g == [n \in Nat |-> {x \in Nat : \A T \in SUBSET Nat : Closed(T) /\ n \in T => x \in T}]
<1>1. M \in Nat
  BY CapacityAssumption
<1>2. g = [n \in Nat |-> IF n >= M THEN {n} ELSE {n} \cup g[2 * n]]
  <2> HIDE DEF M
  <2>1. ASSUME NEW n \in Nat, n >= M PROVE g[n] = {n}
    <3>1. Closed({n})
      BY <1>1, <2>1
    <3>2. \A x \in g[n] : x \in {n}
      BY <3>1
    <3> QED
      BY <3>2
  <2>2. ASSUME NEW n \in Nat, ~(n >= M) PROVE g[n] = {n} \cup g[2 * n]
    <3>1. n \in g[n]
      OBVIOUS
    <3>2. ASSUME NEW x \in g[2 * n] PROVE x \in g[n]
      <4>1. \A T \in SUBSET Nat : Closed(T) /\ n \in T => 2 * n \in T
        BY <1>1, <2>2
      <4>2. 2 * n \in Nat
        OBVIOUS
      <4> HIDE DEF Closed
      <4> QED
        BY <3>2, <4>1, <4>2
    <3>3. ASSUME NEW x \in g[n], x # n PROVE x \in g[2 * n]
      <4> SUFFICES ASSUME NEW T \in SUBSET Nat, Closed(T), 2 * n \in T PROVE x \in T
        BY <3>3
      <4>1. Closed(T \cup {n})
        BY <1>1
      <4>2. x \in T \cup {n}
        <5> HIDE DEF Closed
        <5> QED
          BY <3>3, <4>1
      <4> QED
        BY <3>3, <4>2
    <3> HIDE DEF g
    <3> QED
      BY <3>1, <3>2, <3>3
  <2>3. \A n \in Nat : g[n] = IF n >= M THEN {n} ELSE {n} \cup g[2 * n]
    BY <2>1, <2>2
  <2> DEFINE h == [n \in Nat |-> IF n >= M THEN {n} ELSE {n} \cup g[2 * n]]
  <2>4. g \in [Nat -> SUBSET Nat] /\ h = [n \in Nat |-> h[n]] /\ DOMAIN h = Nat
    OBVIOUS
  <2>5. g = [n \in Nat |-> g[n]]
    OBVIOUS
  <2> HIDE DEF g
  <2> QED
    BY <2>3, <2>5
<1> HIDE DEF g
<1>3. from = [n \in Nat |-> IF n >= M THEN {n} ELSE {n} \cup from[2 * n]]
  BY <1>2
<1>4. ProbeBatches(dp) = from[dp]
  BY DEF ProbeBatches, Larger
<1> HIDE DEF from
<1> DEFINE Fine(n) == IsFiniteSet(from[n]) /\ n \in from[n] /\ \A bs \in from[n] : bs \in Nat /\ n <= bs
           P == {k \in Nat : \A n \in Nat : n > 0 /\ M <= n + k => Fine(n)}
<1>5. \A n \in Nat : from[n] = IF n >= M THEN {n} ELSE {n} \cup from[2 * n]
  BY <1>3
<1> HIDE DEF M
<1>6. 0 \in P
  <2>1. ASSUME NEW n \in Nat, M <= n + 0 PROVE Fine(n)
    <3>1. from[n] = {n}
      <4>1. n >= M
        BY <1>1, <2>1
      <4> QED
        BY <1>5, <4>1
    <3> QED
      BY <3>1, FS_Singleton
  <2> QED
    BY <2>1
<1>7. ASSUME NEW k \in Nat, k \in P PROVE k + 1 \in P
  <2> SUFFICES ASSUME NEW n \in Nat, n > 0, M <= n + (k + 1) PROVE Fine(n)
    OBVIOUS
  <2>1. CASE n >= M
    BY <1>1, <1>6, <2>1
  <2>2. CASE ~(n >= M)
    <3>1. from[n] = {n} \cup from[2 * n]
      BY <1>5, <2>2
    <3>2. 2 * n \in Nat /\ 2 * n > 0 /\ M <= 2 * n + k /\ n <= 2 * n
      BY <1>1
    <3>3. Fine(2 * n)
      BY <1>7, <3>2
    <3>4. IsFiniteSet({n} \cup from[2 * n])
      BY <3>3, FS_Singleton, FS_Union
    <3> QED
      BY <3>1, <3>2, <3>3, <3>4
  <2> QED
    BY <2>1, <2>2
<1> HIDE DEF P, Fine
<1>8. Nat \subseteq P
  BY <1>6, <1>7, EveryNumber
<1>9. M \in P
  BY <1>1, <1>8
<1>10. Fine(dp)
  BY <1>1, <1>9 DEF P
<1> QED
  BY <1>4, <1>10 DEF Fine

-----------------------------------------------------------------------------
(* The score of a layout.                                                   *)

\* The probes of a layout that found a place.
Probes(c, l, phase, w) == {ProbeMetric(c, l, phase, w, bs) : bs \in ProbeBatches(l[3])} \ {Absent}

\* The numbers a score is made of.
Scorable(c, l, phase, w) ==
    /\ c.g.node \in Nat /\ l[1] \in Nat /\ l[2] \in Nat /\ l[3] \in Nat /\ l[3] > 0
    /\ Probes(c, l, phase, w) \subseteq Fraction \X Fraction
    /\ LET e == IF phase = "prefill" THEN c.pre ELSE c.dec IN
       CacheBudget(c, l[1], l[2], e) # Absent => CacheBudget(c, l[1], l[2], e) \in Fraction

LEMMA ScoreIs ==
    ASSUME NEW c, NEW l, NEW phase, NEW w, Scorable(c, l, phase, w)
    PROVE  LET score == LayoutScore(c, l, phase, w)
               probes == Probes(c, l, phase, w) IN
           /\ score \in Seq(Fraction) /\ Len(score) > 0
           /\ probes = {} => score[1] \preceq Whole(1)
           /\ \A x \in probes : ~(score[1] \prec x[1])
<1> DEFINE probes == Probes(c, l, phase, w)
           e == IF phase = "prefill" THEN c.pre ELSE c.dec
           budget == CacheBudget(c, l[1], l[2], e)
           headroom == IF budget = Absent THEN Zero ELSE budget
           peak == CHOOSE x \in probes : \A y \in probes : x = y \/ Lesser(y, x)
           shape == ShapeScore(c, l, headroom)
           score == LayoutScore(c, l, phase, w)
           near == IF l[1] <= c.g.node THEN 1 ELSE 0
           inner == Smaller(l[1], c.g.node)
<1>1. score = (IF probes = {} THEN <<>> ELSE peak) \o shape
  BY DEF LayoutScore, Probes
<1>2. headroom \in Fraction
  BY ZeroIs DEF Scorable
<1>3. shape = <<Whole(near), Whole(inner), Whole(l[3]), Whole(-l[2]), headroom>>
  BY DEF ShapeScore
<1>4. near \in {0, 1} /\ inner \in Nat /\ l[3] \in Nat /\ -l[2] \in Int
  BY DEF Smaller, Scorable
<1>5. IsFiniteSet(probes) /\ probes \subseteq Fraction \X Fraction
  <2>1. l[3] \in Nat /\ l[3] > 0
    BY DEF Scorable
  <2>2. IsFiniteSet(ProbeBatches(l[3]))
    BY <2>1, ProbesAre
  <2> DEFINE f == [bs \in ProbeBatches(l[3]) |-> ProbeMetric(c, l, phase, w, bs)]
             all == {f[bs] : bs \in ProbeBatches(l[3])}
  <2>3. IsFiniteSet(all)
    <3> HIDE DEF f
    <3> QED
      BY <2>2, FiniteImage
  <2>4. probes \subseteq all
    BY DEF Probes
  <2>5. probes \subseteq Fraction \X Fraction
    BY DEF Scorable
  <2> QED
    BY <2>3, <2>4, <2>5, FS_Subset
<1> HIDE DEF probes, headroom, shape, score, near, inner
<1>6. /\ Whole(near) \in Fraction /\ Whole(inner) \in Fraction /\ Whole(l[3]) \in Fraction
      /\ Whole(-l[2]) \in Fraction /\ Whole(near) \preceq Whole(1)
  <2>1. near \in Int /\ inner \in Int /\ l[3] \in Int
    BY <1>4
  <2>2. Whole(near) \preceq Whole(1)
    BY <1>4, WholeOrder
  <2> QED
    BY <1>4, <2>1, <2>2, WholeIs
<1>7. shape \in Seq(Fraction) /\ Len(shape) = 5 /\ shape[1] = Whole(near)
  BY <1>2, <1>3, <1>6
<1>8. CASE probes = {}
  <2>1. score = shape
    BY <1>1, <1>7, <1>8
  <2> QED
    BY <1>6, <1>7, <1>8, <2>1 DEF score, probes
<1>9. CASE probes # {}
  <2> DEFINE key == [x \in probes |-> x]
  <2>1. key \in [probes -> Seq(Fraction)] /\ \A x \in probes : Len(x) = 2 /\ x[1] \in Fraction
    <3>1. ASSUME NEW x \in probes PROVE x \in Seq(Fraction) /\ Len(x) = 2 /\ x[1] \in Fraction
      <4>1. PICK p \in Fraction, q \in Fraction : x = <<p, q>>
        BY <1>5
      <4> QED
        BY <4>1
    <3> QED
      BY <3>1
  <2>2. \E t \in probes : \A k \in probes : Lesser(key[k], key[t]) \/ key[k] = key[t]
    <3> HIDE DEF key
    <3> QED
      BY <1>5, <1>9, <2>1, TopOfSet
  <2>3. \E t \in probes : \A k \in probes : t = k \/ Lesser(k, t)
    BY <2>2
  <2>4. peak \in probes /\ \A k \in probes : peak = k \/ Lesser(k, peak)
    BY <2>3
  <2> HIDE DEF peak
  <2>5. peak \in Seq(Fraction) /\ Len(peak) = 2
    BY <2>1, <2>4
  <2>6. score \in Seq(Fraction) /\ Len(score) = 7 /\ score[1] = peak[1]
    <3>1. score = peak \o shape
      BY <1>1, <1>9
    <3>2. \A a \in Seq(Fraction), b \in Seq(Fraction) :
            /\ a \o b \in Seq(Fraction) /\ Len(a \o b) = Len(a) + Len(b)
            /\ Len(a) > 0 => (a \o b)[1] = a[1]
      OBVIOUS
    <3>3. /\ peak \o shape \in Seq(Fraction) /\ Len(peak \o shape) = Len(peak) + Len(shape)
          /\ Len(peak) > 0 => (peak \o shape)[1] = peak[1]
      BY <1>7, <2>5, <3>2
    <3>4. Len(peak) > 0 /\ Len(peak) + Len(shape) = 7
      BY <1>7, <2>5
    <3> QED
      BY <3>1, <3>3, <3>4
  <2>7. ASSUME NEW x \in probes PROVE ~(peak[1] \prec x[1])
    <3>1. x \in Seq(Fraction) /\ Len(x) = 2 /\ x[1] \in Fraction /\ peak[1] \in Fraction
      BY <2>1, <2>4
    <3>2. CASE peak = x
      BY <3>1, <3>2, StrictOrder
    <3>3. CASE Lesser(x, peak)
      <4>1. 1 \in Common(x, peak)
        <5>1. peak \in Seq(Fraction) /\ x \in Seq(Fraction) /\ Len(x) = 2 /\ Len(peak) = 2
          BY <2>5, <3>1
        <5>2. Common(x, peak) = 1..2
          BY <5>1 DEF Common, Smaller
        <5> QED
          BY <5>2
      <4>2. \/ \E i \in Common(x, peak) : x[i] \prec peak[i] /\ \A j \in 1..(i - 1) : x[j] = peak[j]
            \/ \A i \in Common(x, peak) : x[i] = peak[i]
        BY <3>3, LesserIs
      <4>3. ASSUME NEW i \in Common(x, peak), x[i] \prec peak[i], \A j \in 1..(i - 1) : x[j] = peak[j]
            PROVE  x[1] \prec peak[1] \/ x[1] = peak[1]
        <5>1. i \in Int /\ 1 <= i
          BY <2>5, <3>1, CommonIs
        <5> QED
          BY <4>3, <5>1
      <4> QED
        BY <3>1, <4>1, <4>2, <4>3, StrictOrder
    <3> QED
      BY <2>4, <3>2, <3>3
  <2> QED
    BY <1>9, <2>6, <2>7 DEF score, probes
<1> QED
  BY <1>8, <1>9

LEMMA ValidFinite ==
    ASSUME NEW c, NEW n \in Nat
    PROVE  IsFiniteSet(ValidStrategies(c, n))
<1> DEFINE D == {d \in 1..n : n % d = 0}
           X == {y \in D \X D : n % (y[1] * y[2]) = 0}
           f == [x \in X |-> <<x[1], x[2], n \div (x[1] * x[2])>>]
<1>1. IsFiniteSet(D)
  <2>1. IsFiniteSet(1..n)
    BY FS_Interval
  <2> QED
    BY <2>1, FS_Subset
<1>2. IsFiniteSet(X)
  <2> HIDE DEF D
  <2>1. IsFiniteSet(D \X D)
    BY <1>1, FS_Product
  <2> QED
    BY <2>1, FS_Subset
<1>3. IsFiniteSet({f[x] : x \in X})
  <2> HIDE DEF X, f
  <2> QED
    BY <1>2, FiniteImage
<1>4. Triples(n) = {f[x] : x \in X}
  BY DEF Triples
<1>5. ValidStrategies(c, n) \subseteq Triples(n)
  BY DEF ValidStrategies
<1> QED
  BY <1>3, <1>4, <1>5, FS_Subset

\* The preferred layout finds a place for a probe, when some layout serves one
\* with more than one token per second.
LEMMA PreferredIs ==
    ASSUME NEW c, NEW n \in Nat, NEW phase, NEW w,
           \A l \in ValidStrategies(c, n) : Scorable(c, l, phase, w),
           NEW u \in ValidStrategies(c, n), NEW x \in Probes(c, u, phase, w), Whole(1) \prec x[1]
    PROVE  LET best == PreferredStrategy(c, n, phase, w) IN
           best \in ValidStrategies(c, n) /\ Probes(c, best, phase, w) # {}
<1> DEFINE valid == ValidStrategies(c, n)
           score == [l \in valid |-> LayoutScore(c, l, phase, w)]
           best == FirstBest(c, valid, score)
<1>1. PreferredStrategy(c, n, phase, w) = best
  BY DEF PreferredStrategy
<1>2. IsFiniteSet(valid) /\ valid # {}
  BY ValidFinite
<1>3. \A l \in valid : /\ score[l] \in Seq(Fraction) /\ Len(score[l]) > 0
                       /\ Probes(c, l, phase, w) = {} => score[l][1] \preceq Whole(1)
                       /\ \A y \in Probes(c, l, phase, w) : ~(score[l][1] \prec y[1])
  BY ScoreIs
<1>4. \A l \in valid : c.g.node \in Nat /\ l[1] \in Int /\ l[2] \in Int /\ l[3] \in Int
  BY DEF Scorable
<1>5. score \in [valid -> Seq(Fraction)]
  BY <1>3
<1>6. x \in Fraction \X Fraction
  BY DEF Scorable
<1> HIDE DEF valid, score
<1>7. best \in valid /\ \A k \in valid : Lesser(score[k], score[best]) \/ score[k] = score[best]
  BY <1>2, <1>4, <1>5, FirstBestIs
<1>8. u \in valid
  BY DEF valid
<1> HIDE DEF best
<1>9. score[u][1] \in Fraction /\ score[best][1] \in Fraction /\ x[1] \in Fraction /\ Whole(1) \in Fraction
  BY <1>3, <1>6, <1>7, <1>8, WholeIs
<1>10. Whole(1) \prec score[u][1]
  BY <1>3, <1>8, <1>9, StrictOrder
<1>11. score[u][1] \prec score[best][1] \/ score[u][1] = score[best][1]
  <2> DEFINE a == score[u]
             b == score[best]
  <2>1. a \in Seq(Fraction) /\ b \in Seq(Fraction) /\ Len(a) > 0 /\ Len(b) > 0
    BY <1>3, <1>7, <1>8
  <2>2. Lesser(a, b) \/ a = b
    BY <1>7, <1>8
  <2> HIDE DEF a, b
  <2>3. 1 \in Common(a, b)
    BY <2>1, CommonIs
  <2>4. ASSUME NEW i \in Common(a, b), a[i] \prec b[i], \A j \in 1..(i - 1) : a[j] = b[j]
        PROVE  a[1] \prec b[1] \/ a[1] = b[1]
    <3>1. i \in Int /\ 1 <= i
      BY <2>1, CommonIs
    <3> QED
      BY <2>4, <3>1
  <2>5. a[1] \prec b[1] \/ a[1] = b[1]
    BY <2>2, <2>3, <2>4, LesserIs
  <2> QED
    BY <2>5 DEF a, b
<1>12. Whole(1) \prec score[best][1]
  BY <1>9, <1>10, <1>11, StrictOrder
<1>13. ~(score[best][1] \preceq Whole(1))
  BY <1>12 DEF \prec, \preceq, Below
<1>14. Probes(c, best, phase, w) # {}
  BY <1>3, <1>7, <1>13
<1> QED
  BY <1>1, <1>7, <1>14 DEF best, valid

-----------------------------------------------------------------------------
(* The tokens of a draft.                                                   *)

\* FiniteTau step by step: the cycles for what is left from those for less.
DraftDepth(k, n, left) == Smaller(Smaller(k, n - 1), left - 1)
CyclesLeft(alpha, k, n, left, f) ==
    IF left = 0 THEN Zero
    ELSE Whole(1)
           ++ Total([i \in 1..DraftDepth(k, n, left) |->
                        (Power[<<alpha, i - 1>>] ** (Whole(1) -- alpha)) ** f[left - i]],
                    1..DraftDepth(k, n, left))
           ++ (Power[<<alpha, DraftDepth(k, n, left)>>] ** f[left - DraftDepth(k, n, left) - 1])

LEMMA CyclesAre ==
    ASSUME NEW alpha \in Quantity, alpha \preceq Whole(1), NEW k \in Nat, NEW n \in Nat, n > 0,
           NEW left \in 0..n, NEW f, \A j \in 0..(left - 1) : f[j] \in Quantity
    PROVE  /\ CyclesLeft(alpha, k, n, left, f) \in Quantity
           /\ left > 0 => Positive(CyclesLeft(alpha, k, n, left, f))
<1>1. CASE left = 0
  BY <1>1, Numbers DEF CyclesLeft
<1>2. CASE left > 0
  <2> DEFINE d == DraftDepth(k, n, left)
             g == [i \in 1..d |-> (Power[<<alpha, i - 1>>] ** (Whole(1) -- alpha)) ** f[left - i]]
             last == Power[<<alpha, d>>] ** f[left - d - 1]
  <2>1. d \in Nat /\ d <= left - 1 /\ left \in Nat
    BY <1>2 DEF DraftDepth, Smaller
  <2>2. Whole(1) -- alpha \in Quantity /\ Whole(1) \in Quantity /\ Positive(Whole(1))
    BY Numbers, Positives, QuantityIs DEF --, \preceq
  <2>3. CyclesLeft(alpha, k, n, left, f) = (Whole(1) ++ Total(g, 1..d)) ++ last
    BY <1>2 DEF CyclesLeft
  <2> HIDE DEF d
  <2>4. \A i \in 1..d : g[i] \in Quantity
    <3> SUFFICES ASSUME NEW i \in 1..d
                 PROVE  (Power[<<alpha, i - 1>>] ** (Whole(1) -- alpha)) ** f[left - i] \in Quantity
      OBVIOUS
    <3>1. i - 1 \in Nat /\ left - i \in 0..(left - 1)
      BY <2>1
    <3>2. Power[<<alpha, i - 1>>] \in Quantity /\ f[left - i] \in Quantity
      BY <3>1, PowerIs
    <3>3. Power[<<alpha, i - 1>>] ** (Whole(1) -- alpha) \in Quantity
      BY <2>2, <3>2, Numbers
    <3> QED
      BY <3>2, <3>3, Numbers
  <2>5. Total(g, 1..d) \in Quantity
    <3>1. IsFiniteSet(1..d)
      BY <2>1, FS_Interval
    <3> HIDE DEF g
    <3> QED
      BY <2>4, <3>1, SumIs
  <2>6. last \in Quantity
    <3>1. left - d - 1 \in 0..(left - 1)
      BY <2>1
    <3> QED
      BY <2>1, <3>1, PowerIs, Numbers
  <2> HIDE DEF g, last
  <2>7. Whole(1) ++ Total(g, 1..d) \in Quantity /\ Positive(Whole(1) ++ Total(g, 1..d))
    BY <2>2, <2>5, Numbers, Positives
  <2> QED
    BY <2>3, <2>6, <2>7, Numbers, Positives
<1> QED
  BY <1>1, <1>2

\* FiniteTau's recursion is well founded.
LEMMA CyclesExist ==
    ASSUME NEW alpha \in Quantity, alpha \preceq Whole(1), NEW k \in Nat, NEW n \in Nat, n > 0
    PROVE  \E f : f = [left \in 0..n |-> CyclesLeft(alpha, k, n, left, f)]
<1> DEFINE body(i, f) == CyclesLeft(alpha, k, n, i, f)
           V == [0..n -> Quantity]
           v == [j \in 0..n |-> Zero]
           H == [x \in (1..n) \X V |-> [x[2] EXCEPT ![x[1]] = body(x[1], x[2])]]
<1>1. v \in V
  BY Numbers
<1>2. ASSUME NEW i \in 1..n, NEW s \in V
      PROVE  body(i, s) \in Quantity
  <2>1. \A j \in 0..(i - 1) : s[j] \in Quantity
    OBVIOUS
  <2>2. i \in 0..n
    OBVIOUS
  <2> HIDE DEF V
  <2> QED
    BY <2>1, <2>2, CyclesAre
<1> HIDE DEF body
<1>3. H \in [(1..n) \X V -> V]
  BY <1>2
<1>4. \A i \in 1..n, s \in V : H[<<i, s>>] = [s EXCEPT ![i] = body(i, s)]
  OBVIOUS
<1> HIDE DEF H
<1>5. PICK r \in [0..n -> V] : r[0] = v /\ \A i \in 1..n : r[i] = H[<<i, r[i - 1]>>]
  <2> HIDE DEF V, v
  <2>1. Runs(n, V, v, H) # {}
    BY <1>1, <1>3, Recursion
  <2> QED
    BY <2>1 DEF Runs
<1>6. ASSUME NEW i \in 1..n
      PROVE  r[i] = [r[i - 1] EXCEPT ![i] = body(i, r[i - 1])] /\ r[i - 1] \in V /\ r[i] \in V
  <2>1. i - 1 \in 0..n /\ i \in 0..n
    OBVIOUS
  <2>2. r[i - 1] \in V /\ r[i] \in V
    BY <2>1
  <2> HIDE DEF V
  <2> QED
    BY <1>4, <1>5, <2>2
<1> DEFINE f == [left \in 0..n |-> r[left][left]]
           P == {m \in Nat : m <= n => \A j \in 0..m : r[m][j] = r[j][j]}
<1>7. Nat \subseteq P
  <2>1. 0 \in P
    OBVIOUS
  <2>2. ASSUME NEW m \in Nat, m \in P, m + 1 <= n, NEW j \in 0..(m + 1)
        PROVE  r[m + 1][j] = r[j][j]
    <3>1. m + 1 \in 1..n /\ (m + 1) - 1 = m
      BY <2>2
    <3>2. r[m + 1] = [r[m] EXCEPT ![m + 1] = body(m + 1, r[m])] /\ r[m] \in V
      BY <1>6, <3>1
    <3>3. CASE j = m + 1
      BY <3>3
    <3>4. CASE j # m + 1
      <4>1. j \in 0..m /\ j \in 0..n
        BY <2>2, <3>4
      <4>2. r[m + 1][j] = r[m][j]
        BY <3>2, <3>4, <4>1
      <4> QED
        BY <2>2, <4>1, <4>2
    <3> QED
      BY <3>3, <3>4
  <2>3. \A m \in Nat : m \in P => m + 1 \in P
    BY <2>2
  <2> HIDE DEF P
  <2> QED
    BY <2>1, <2>3, EveryNumber
<1>8. ASSUME NEW left \in 0..n PROVE f[left] = body(left, f)
  <2>1. CASE left = 0
    <3>1. r[0][0] = Zero
      BY <1>5
    <3>2. f[0] = r[0][0]
      BY <2>1
    <3> QED
      BY <2>1, <3>1, <3>2 DEF body, CyclesLeft
  <2>2. CASE left > 0
    <3>1. left \in 1..n /\ left - 1 \in Nat /\ left - 1 <= n
      BY <2>2
    <3>2. r[left][left] = body(left, r[left - 1])
      <4>1. r[left] = [r[left - 1] EXCEPT ![left] = body(left, r[left - 1])] /\ r[left - 1] \in V
        BY <1>6, <3>1
      <4> QED
        BY <4>1
    <3>3. \A j \in 0..(left - 1) : r[left - 1][j] = f[j]
      BY <1>7, <3>1
    <3>4. body(left, r[left - 1]) = body(left, f)
      <4> DEFINE s == r[left - 1]
                 d == DraftDepth(k, n, left)
      <4>1. d \in Nat /\ d <= left - 1 /\ left \in Nat
        BY <2>2 DEF DraftDepth, Smaller
      <4>2. \A i \in 1..d : left - i \in 0..(left - 1)
        BY <4>1
      <4>3. left - d - 1 \in 0..(left - 1)
        BY <4>1
      <4> HIDE DEF s, f
      <4>4. \A j \in 0..(left - 1) : s[j] = f[j]
        BY <3>3 DEF s
      <4> HIDE DEF d
      <4>5. [i \in 1..d |-> (Power[<<alpha, i - 1>>] ** (Whole(1) -- alpha)) ** s[left - i]]
              = [i \in 1..d |-> (Power[<<alpha, i - 1>>] ** (Whole(1) -- alpha)) ** f[left - i]]
        BY <4>2, <4>4
      <4>6. s[left - d - 1] = f[left - d - 1]
        BY <4>3, <4>4
      <4>7. body(left, s) = body(left, f)
        BY <4>5, <4>6 DEF body, CyclesLeft, d
      <4> QED
        BY <4>7 DEF s
    <3> QED
      BY <3>2, <3>4
  <2> QED
    BY <2>1, <2>2
<1>9. f = [left \in 0..n |-> body(left, f)]
  <2>1. f = [left \in 0..n |-> f[left]]
    OBVIOUS
  <2> HIDE DEF f
  <2> QED
    BY <1>8, <2>1
<1> HIDE DEF f
<1> QED
  BY <1>9 DEF body

LEMMA TauIs ==
    ASSUME NEW alpha \in Quantity, alpha \preceq Whole(1), NEW k \in Nat, NEW n \in Nat, n > 0
    PROVE  FiniteTau(alpha, k, n) \in Quantity /\ Positive(FiniteTau(alpha, k, n))
<1> DEFINE f == CHOOSE g : g = [left \in 0..n |-> CyclesLeft(alpha, k, n, left, g)]
           P == {m \in Nat : m <= n => \A j \in 0..m : f[j] \in Quantity}
<1>1. f = [left \in 0..n |-> CyclesLeft(alpha, k, n, left, f)]
  BY CyclesExist
<1>2. FiniteTau(alpha, k, n) = IF k = 0 \/ n = 1 THEN Whole(1) ELSE Whole(n) // f[n]
  BY DEF FiniteTau, CyclesLeft, DraftDepth
<1> HIDE DEF f
<1>3. \A left \in 0..n : f[left] = CyclesLeft(alpha, k, n, left, f)
  BY <1>1
<1>4. Nat \subseteq P
  <2>1. 0 \in P
    <3>1. 0 \in 0..n /\ f[0] = CyclesLeft(alpha, k, n, 0, f)
      BY <1>3
    <3>2. f[0] \in Quantity
      BY <3>1, CyclesAre
    <3> QED
      BY <3>2
  <2>2. ASSUME NEW m \in Nat, m \in P, m + 1 <= n
        PROVE  f[m + 1] \in Quantity
    <3>1. m + 1 \in 0..n /\ (m + 1) - 1 = m /\ \A j \in 0..m : f[j] \in Quantity
      BY <2>2
    <3>2. CyclesLeft(alpha, k, n, m + 1, f) \in Quantity
      BY <3>1, CyclesAre
    <3> QED
      BY <1>3, <3>1, <3>2
  <2>3. \A m \in Nat : m \in P => m + 1 \in P
    BY <2>2
  <2> HIDE DEF P
  <2> QED
    BY <2>1, <2>3, EveryNumber
<1>5. \A j \in 0..(n - 1) : f[j] \in Quantity
  <2>1. n - 1 \in P /\ n - 1 <= n
    BY <1>4
  <2> QED
    BY <2>1
<1>6. f[n] \in Quantity /\ Positive(f[n])
  <2>1. n \in 0..n
    OBVIOUS
  <2> QED
    BY <1>3, <1>5, <2>1, CyclesAre
<1>7. Whole(n) \in Quantity /\ Positive(Whole(n)) /\ Whole(1) \in Quantity /\ Positive(Whole(1))
  BY WholeQuantity
<1>8. Whole(n) // f[n] \in Quantity /\ Positive(Whole(n) // f[n])
  BY <1>6, <1>7, Numbers, Positives
<1> QED
  BY <1>2, <1>7, <1>8

\* What a cycle has to know of the drafter that shortens it.
Drafts(s) ==
    s # Absent => /\ s.k \in Nat /\ s.k > 0 /\ s.passes \in Nat /\ s.active \in Nat
                  /\ s.tau \in Quantity /\ Positive(s.tau)
                  /\ s.bytes \in Quantity /\ s.profile.kv \in Quantity

LEMMA DraftedIs ==
    ASSUME NEW spec, DraftKnown(spec), DraftDeep(spec), NEW n \in Nat, n > 0
    PROVE  Drafts(ForAnswer(spec, n))
<1> DEFINE k == Smaller(spec.k, n - 1)
           tau == FiniteTau(spec.alpha, k, n)
           passes == IF spec.profile.parallel THEN 1 ELSE k
           r == [spec EXCEPT !.k = k, !.tau = tau, !.passes = passes]
<1> SUFFICES ASSUME ForAnswer(spec, n) # Absent PROVE Drafts(ForAnswer(spec, n))
  BY DEF Drafts
<1>1. spec # Absent /\ k # 0 /\ ForAnswer(spec, n) = r
  BY DEF ForAnswer
<1>2. /\ spec.k \in Nat /\ spec.active \in Nat /\ spec.alpha \in Quantity /\ spec.alpha \preceq Whole(1)
      /\ spec.bytes \in Quantity /\ spec.profile.kv \in Quantity
      /\ spec = [ profile |-> spec.profile, k |-> spec.k, alpha |-> spec.alpha, tau |-> spec.tau,
                  passes |-> spec.passes, bytes |-> spec.bytes, active |-> spec.active ]
  BY <1>1 DEF DraftKnown, DraftDeep
<1>3. k \in Nat /\ k > 0
  BY <1>1, <1>2 DEF Smaller
<1> HIDE DEF k
<1>4. passes \in Nat
  BY <1>3
<1>5. tau \in Quantity /\ Positive(tau)
  BY <1>2, <1>3, TauIs
<1> HIDE DEF tau, passes
<1>6. /\ r.k = k /\ r.tau = tau /\ r.passes = passes /\ r.bytes = spec.bytes
      /\ r.profile = spec.profile /\ r.active = spec.active
  BY <1>2
<1> HIDE DEF r
<1> QED
  BY <1>1, <1>2, <1>3, <1>4, <1>5, <1>6 DEF Drafts

-----------------------------------------------------------------------------
(* Rates of the kernels.                                                    *)

LEMMA SharesAre ==
    ASSUME NEW m, NEW prec \in Precisions, NEW phase
    PROVE  LET shares == ComputeShares(m, prec, phase) IN
           /\ DOMAIN shares \subseteq Precisions /\ IsFiniteSet(DOMAIN shares)
           /\ \A f \in DOMAIN shares : shares[f] \in Quantity
           /\ \E f \in DOMAIN shares : Positive(shares[f])
<1> DEFINE p == ServedProfile(m, prec)
           shares == ComputeShares(m, prec, phase)
           one(f) == [x \in {f} |-> Whole(1)]
<1>1. shares \in {one("bf16"), one(prec), p.shares} /\ (shares = p.shares => p # Absent \/ shares = one("bf16") \/ shares = one(prec))
  BY DEF ComputeShares
<1>2. Whole(1) \in Quantity /\ Positive(Whole(1))
  BY WholeQuantity
<1>3. ASSUME NEW f \in Precisions
      PROVE  DOMAIN one(f) = {f} /\ one(f)[f] = Whole(1)
  OBVIOUS
<1>4. "bf16" \in Precisions
  BY DEF Precisions
<1>5. p # Absent => /\ DOMAIN p.shares \subseteq Precisions
                    /\ \A f \in DOMAIN p.shares : p.shares[f] \in Quantity
                    /\ \E f \in DOMAIN p.shares : Positive(p.shares[f])
  BY ServedIs, AmountIs DEF ProfileOK
<1> HIDE DEF one, p, shares
<1>6. /\ DOMAIN shares \subseteq Precisions
      /\ \A f \in DOMAIN shares : shares[f] \in Quantity
      /\ \E f \in DOMAIN shares : Positive(shares[f])
  <2>1. ASSUME NEW q \in Precisions, shares = one(q)
        PROVE  /\ DOMAIN shares \subseteq Precisions
               /\ \A f \in DOMAIN shares : shares[f] \in Quantity
               /\ \E f \in DOMAIN shares : Positive(shares[f])
    BY <1>2, <1>3, <2>1
  <2> QED
    BY <1>1, <1>4, <1>5, <2>1
<1>7. IsFiniteSet(Precisions)
  <2>1. Precisions = ((({} \cup {"bf16"}) \cup {"fp8"}) \cup {"nvfp4"}) \cup {"mxfp4"}
    BY DEF Precisions
  <2>2. IsFiniteSet({} \cup {"bf16"})
    BY FS_EmptySet, FS_AddElement
  <2>3. IsFiniteSet(({} \cup {"bf16"}) \cup {"fp8"})
    BY <2>2, FS_AddElement
  <2>4. IsFiniteSet((({} \cup {"bf16"}) \cup {"fp8"}) \cup {"nvfp4"})
    BY <2>3, FS_AddElement
  <2> QED
    BY <2>1, <2>4, FS_AddElement
<1>8. IsFiniteSet(DOMAIN shares)
  BY <1>6, <1>7, FS_Subset
<1> QED
  BY <1>6, <1>8 DEF shares

LEMMA GpuFlopsAre ==
    ASSUME NEW g, GpuOK(g), NEW f \in Precisions
    PROVE  GpuFlops(g, f) \in Quantity /\ Positive(GpuFlops(g, f))
<1>1. /\ g.bf16 \in Nat /\ g.bf16 > 0 /\ g.fp8 \in Nat /\ g.fp8 > 0 /\ g.fp4 \in Nat
  BY DEF GpuOK
<1>2. /\ Whole(g.bf16) \in Quantity /\ Positive(Whole(g.bf16))
      /\ Whole(g.fp8) \in Quantity /\ Positive(Whole(g.fp8))
      /\ Whole(g.fp4) \in Quantity /\ (g.fp4 # 0 => Positive(Whole(g.fp4)))
  BY <1>1, WholeQuantity
<1>3. /\ Frac(3, 4) \in Quantity /\ Positive(Frac(3, 4))
      /\ Frac(13, 20) \in Quantity /\ Positive(Frac(13, 20))
  BY PartIs
<1> DEFINE other == Whole(IF g.fp8 > 0 THEN g.fp8 ELSE g.bf16)
                      ** (IF f = "mxfp4" THEN Frac(3, 4) ELSE Frac(13, 20))
<1>4. other \in Quantity /\ Positive(other)
  <2>1. other = Whole(g.fp8) ** (IF f = "mxfp4" THEN Frac(3, 4) ELSE Frac(13, 20))
    BY <1>1
  <2> QED
    BY <1>2, <1>3, <2>1, Numbers, Positives
<1>5. f \in NativeFormats(g) => g.fp4 # 0 /\ f # "bf16" /\ f # "fp8"
  BY DEF NativeFormats
<1> HIDE DEF other
<1>6. GpuFlops(g, f) \in {Whole(g.bf16), Whole(g.fp8), other} \/ (GpuFlops(g, f) = Whole(g.fp4) /\ g.fp4 # 0)
  BY <1>5 DEF GpuFlops, other
<1> QED
  BY <1>2, <1>4, <1>6

LEMMA ModelFlopsAre ==
    ASSUME NEW g, GpuOK(g), NEW m, NEW prec \in Precisions, NEW phase
    PROVE  ModelFlops(g, m, prec, phase) \in Quantity /\ Positive(ModelFlops(g, m, prec, phase))
<1> DEFINE path == ExecutionPath(g, m, prec)
           shares == ComputeShares(m, prec, phase)
           rate(f) == IF path = "w4a16" /\ f \in {"mxfp4", "nvfp4"} THEN Whole(g.bf16) ELSE GpuFlops(g, f)
           parts == [f \in DOMAIN shares |-> shares[f] // rate(f)]
           mixed == Whole(1) // Total(parts, DOMAIN shares)
           flops == ModelFlops(g, m, prec, phase)
<1>1. Whole(g.bf16) \in Quantity /\ Positive(Whole(g.bf16)) /\ Whole(1) \in Quantity /\ Positive(Whole(1))
  <2>1. g.bf16 \in Nat /\ g.bf16 > 0
    BY DEF GpuOK
  <2> QED
    BY <2>1, WholeQuantity
<1>2. flops \in {Whole(g.bf16), GpuFlops(g, prec), mixed}
  BY DEF ModelFlops
<1>3. /\ DOMAIN shares \subseteq Precisions /\ IsFiniteSet(DOMAIN shares)
      /\ \A f \in DOMAIN shares : shares[f] \in Quantity
      /\ \E f \in DOMAIN shares : Positive(shares[f])
  BY SharesAre
<1>4. \A f \in DOMAIN shares : rate(f) \in Quantity /\ Positive(rate(f))
  BY <1>1, <1>3, GpuFlopsAre
<1> HIDE DEF rate, path, shares, flops
<1>5. Total(parts, DOMAIN shares) \in Quantity /\ Positive(Total(parts, DOMAIN shares))
  <2>1. \A f \in DOMAIN shares : parts[f] = shares[f] // rate(f)
    OBVIOUS
  <2>2. \A f \in DOMAIN shares : /\ parts[f] \in Quantity
                                 /\ Positive(shares[f]) => Positive(parts[f])
    BY <1>3, <1>4, <2>1, Numbers, Positives
  <2> HIDE DEF parts
  <2> QED
    BY <1>3, <2>2, SumPositive
<1> HIDE DEF parts
<1>6. mixed \in Quantity /\ Positive(mixed)
  BY <1>1, <1>5, Numbers, Positives
<1> HIDE DEF mixed
<1>7. GpuFlops(g, prec) \in Quantity /\ Positive(GpuFlops(g, prec))
  BY GpuFlopsAre
<1> QED
  BY <1>1, <1>2, <1>6, <1>7 DEF flops

-----------------------------------------------------------------------------
(* Bytes and operations of a step.                                          *)

LEMMA ActiveBytesAre ==
    ASSUME NEW m, ModelOK(m), NEW prec \in Precisions, NEW phase
    PROVE  ActiveBytes(m, prec, phase) \in Quantity /\ PhaseBytes(m, prec, phase) \in Quantity
<1> DEFINE shares == ComputeShares(m, prec, phase)
           p == ServedProfile(m, prec)
           params == PhaseParams(m, phase)
           override == p # Absent /\ p.active # Absent
           per == IF override THEN p.active ELSE ServedBytesPerParam(m, prec)
           generic == IF p = Absent /\ m.tableParams > 0 THEN FormatBytes[prec] ELSE per
           kept == m.readParams = 0 /\ m.backend \notin {"legacy", "expanded"}
           measured == kept /\ override /\ ~PhasesDiffer(m, phase)
           components == ComponentBytes(m, prec, phase)
           stored == Whole(IF m.moe THEN m.active ELSE m.total) ** generic
           bytes == ActiveBytes(m, prec, phase)
<1>1. /\ m.active \in Nat /\ m.total \in Nat /\ m.readParams \in Nat /\ m.prefillActive \in Nat
      /\ m.passes \in Nat
  BY DEF ModelOK
<1>2. params \in Nat
  BY <1>1 DEF PhaseParams, Or
<1>3. components \in Quantity
  <2> DEFINE parts == [f \in DOMAIN shares |-> shares[f] ** FormatBytes[f]]
  <2>1. IsFiniteSet(DOMAIN shares) /\ \A f \in DOMAIN shares : shares[f] \in Quantity /\ f \in Precisions
    BY SharesAre
  <2>2. components = Whole(params) ** Total(parts, DOMAIN shares)
    BY DEF ComponentBytes
  <2> HIDE DEF shares, components, params
  <2>3. \A f \in DOMAIN shares : parts[f] \in Quantity
    BY <2>1, FormatsAre, Numbers
  <2> HIDE DEF parts
  <2>4. Total(parts, DOMAIN shares) \in Quantity
    BY <2>1, <2>3, SumIs
  <2> QED
    BY <1>2, <2>2, <2>4, Numbers
<1>4. override => p.active \in Quantity
  BY ServedIs, AmountIs DEF ProfileOK
<1>5. per \in Quantity /\ generic \in Quantity
  <2>1. ServedBytesPerParam(m, prec) \in Quantity /\ FormatBytes[prec] \in Quantity
    BY WeightsAre, FormatsAre
  <2> HIDE DEF p
  <2> QED
    BY <1>4, <2>1
<1>6. bytes \in {Whole(2 * m.readParams), Whole(m.readParams) ** per, Whole(2 * params), components, stored}
        \/ (bytes = Whole(params) ** p.active /\ override)
  <2>1. bytes = CASE m.readParams > 0 /\ m.backend = "expanded" -> Whole(2 * m.readParams)
                  [] m.readParams > 0 /\ m.backend # "expanded" -> Whole(m.readParams) ** per
                  [] m.readParams = 0 /\ m.backend = "expanded" -> Whole(2 * params)
                  [] measured -> Whole(params) ** p.active
                  [] kept /\ ~measured /\ m.moe -> components
                  [] OTHER -> stored
    BY DEF ActiveBytes
  <2>2. measured => kept /\ override
    OBVIOUS
  <2>3. kept => m.readParams = 0 /\ m.backend # "expanded"
    OBVIOUS
  <2> HIDE DEF bytes, per, params, measured, kept, override, components, stored, p
  <2> QED
    BY <1>1, <2>1, <2>2, <2>3
<1> HIDE DEF bytes, per, generic, params, override, components
<1>7. /\ Whole(2 * m.readParams) \in Quantity /\ Whole(m.readParams) \in Quantity
      /\ Whole(2 * params) \in Quantity /\ Whole(params) \in Quantity
      /\ Whole(IF m.moe THEN m.active ELSE m.total) \in Quantity
  <2>1. 2 * m.readParams \in Nat /\ 2 * params \in Nat
    BY <1>1, <1>2
  <2> QED
    BY <1>1, <1>2, <2>1, Numbers
<1>8. Whole(m.readParams) ** per \in Quantity /\ stored \in Quantity
  BY <1>5, <1>7, Numbers
<1>9. override => Whole(params) ** p.active \in Quantity
  BY <1>4, <1>7, Numbers
<1> HIDE DEF stored, p
<1>10. bytes \in Quantity
  BY <1>3, <1>6, <1>7, <1>8, <1>9
<1>11. Whole(Larger(m.passes, 1)) \in Quantity
  <2>1. Larger(m.passes, 1) \in Nat
    BY <1>1 DEF Larger
  <2> QED
    BY <2>1, Numbers
<1> QED
  BY <1>10, <1>11, Numbers DEF PhaseBytes, bytes

\* The time of the kernels for operations of both kinds.
LEMMA ComputedIs ==
    ASSUME NEW g, GpuOK(g), NEW m, NEW prec \in Precisions, NEW phase,
           NEW linear \in Quantity, NEW attention \in Quantity
    PROVE  /\ ComputeSeconds(g, m, prec, linear, attention, phase) \in Quantity
           /\ Positive(linear) => Positive(ComputeSeconds(g, m, prec, linear, attention, phase))
<1> DEFINE rate == ModelFlops(g, m, prec, phase)
           peak == Whole(g.bf16)
<1>1. rate \in Quantity /\ Positive(rate)
  BY ModelFlopsAre
<1>2. peak \in Quantity /\ Positive(peak)
  BY WholeQuantity DEF GpuOK
<1>3. ComputeSeconds(g, m, prec, linear, attention, phase)
        = IF m.backend = "legacy" THEN (linear ++ attention) // rate
          ELSE (linear // rate) ++ (attention // peak)
  BY DEF ComputeSeconds
<1> HIDE DEF rate, peak
<1>4. /\ linear ++ attention \in Quantity /\ (Positive(linear) => Positive(linear ++ attention))
      /\ linear // rate \in Quantity /\ (Positive(linear) => Positive(linear // rate))
      /\ attention // peak \in Quantity
  BY <1>1, <1>2, Numbers, Positives
<1>5. /\ (linear ++ attention) // rate \in Quantity
      /\ Positive(linear) => Positive((linear ++ attention) // rate)
      /\ (linear // rate) ++ (attention // peak) \in Quantity
      /\ Positive(linear) => Positive((linear // rate) ++ (attention // peak))
  BY <1>1, <1>4, Numbers, Positives
<1> QED
  BY <1>3, <1>5

\* Rows and operations of attention without compressed or shared layers.
LEMMA AttentionShape ==
    ASSUME NEW m, ModelOK(m), m.ratios = <<>>, NEW seq \in Nat
    PROVE  /\ RowFlops(m) \in Nat /\ LinearWork(m, seq) \in Nat
           /\ ReadLocal(m) \in Nat /\ ReadFull(m) \in Nat
           /\ LocalRows(m, seq) \in Nat /\ SparseRows(m, seq) \in Nat
           /\ GatheredContext(m, seq) = 0
<1>1. /\ m.mlaKv \in Nat /\ m.mlaRope \in Nat /\ m.headDim \in Nat /\ m.linearLayers \in Nat
      /\ m.localLayers \in Nat /\ m.localWindow \in Nat /\ m.topK \in Nat
  BY DEF ModelOK
<1>2. /\ ValueDim(m) \in Nat /\ LinearHeads(m) \in Nat /\ LinearDim(m) \in Nat
      /\ AttentionLayers(m) \in Nat
  BY ShapeIs
<1>3. RowFlops(m) \in Nat
  <2>1. \A a, b \in Nat : 2 * (2 * a + b) \in Nat /\ 2 * (a + b) \in Nat
    OBVIOUS
  <2>2. RowFlops(m) \in {2 * (2 * m.mlaKv + m.mlaRope), 2 * (m.headDim + ValueDim(m))}
    BY DEF RowFlops
  <2>3. 2 * (2 * m.mlaKv + m.mlaRope) \in Nat
    BY <1>1, <2>1
  <2>4. 2 * (m.headDim + ValueDim(m)) \in Nat
    BY <1>1, <1>2, <2>1
  <2> QED
    BY <2>2, <2>3, <2>4
<1>4. LinearWork(m, seq) \in Nat
  <2>1. \A a, b \in Nat : a * b \in Nat
    OBVIOUS
  <2> QED
    BY <1>1, <1>2, <2>1 DEF LinearWork
<1>5. ReadLocal(m) \in Nat /\ ReadFull(m) \in Nat
  BY <1>1, <1>2 DEF ReadLocal, ReadFull, Smaller
<1>6. LocalRows(m, seq) \in Nat /\ SparseRows(m, seq) \in Nat
  BY <1>1 DEF LocalRows, SparseRows, Smaller
<1>7. GatheredContext(m, seq) = 0
  <2>1. Ratios(m) = <<>>
    BY PlainRatios
  <2>2. DOMAIN [i \in DOMAIN Ratios(m) |-> GatheredRows(m, seq, Ratios(m)[i])] = {}
    BY <2>1
  <2> QED
    BY <2>2, EmptySum DEF GatheredContext
<1> QED
  BY <1>3, <1>4, <1>5, <1>6, <1>7

LEMMA IndexerIs ==
    ASSUME NEW m, ModelOK(m), m.ratios = <<>>, NEW pr \in Nat, NEW seq \in Nat, NEW positions \in Nat
    PROVE  IndexerWork(m, pr, seq, positions) \in Nat
<1> DEFINE scanned == CASE IsCompressed(m) /\ m.indexAt > 0 ->
                             Cardinality({i \in DOMAIN Ratios(m) : Ratios(m)[i] = m.indexAt})
                               * (seq \div m.indexAt)
                        [] ~(IsCompressed(m) /\ m.indexAt > 0) /\ m.indexRatio > 0 ->
                             m.indexLayers * CeilDiv(seq, m.indexRatio)
                        [] OTHER -> m.indexLayers * seq
<1>1. m.indexLayers \in Nat /\ m.indexRatio \in Nat /\ m.indexHeads \in Nat /\ m.indexDim \in Nat
  BY DEF ModelOK
<1>2. ~IsCompressed(m)
  BY PlainRatios
<1>3. \A a, b \in Nat : a * b \in Nat
  OBVIOUS
<1>4. m.indexRatio > 0 => CeilDiv(seq, m.indexRatio) \in Nat
  BY <1>1, CeilDivIs
<1>5. scanned = IF m.indexRatio > 0 THEN m.indexLayers * CeilDiv(seq, m.indexRatio)
                ELSE m.indexLayers * seq
  BY <1>2
<1>6. scanned \in Nat
  BY <1>1, <1>3, <1>4, <1>5
<1>7. IndexerWork(m, pr, seq, positions)
        = IF m.indexLayers = 0 THEN 0
          ELSE 2 * pr * m.indexHeads * m.indexDim * positions * scanned
  BY DEF IndexerWork
<1> HIDE DEF scanned
<1>8. 2 * pr * m.indexHeads * m.indexDim * positions * scanned \in Nat
  BY <1>1, <1>3, <1>6
<1> QED
  BY <1>7, <1>8

LEMMA DecodeAttentionIs ==
    ASSUME NEW m, ModelOK(m), m.ratios = <<>>, m.shared = Absent,
           NEW pr \in Nat, NEW seq \in Nat, NEW pp \in Nat, pp > 0
    PROVE  DecodeAttention(m, pr, seq, pp) \in Quantity
<1> DEFINE a == QueryHeads(m) * RowFlops(m) * ReadFull(m) * SparseRows(m, seq)
           b == 4 * LocalHeads(m) * LocalHeadDim(m) * ReadLocal(m) * LocalRows(m, seq)
           l == 2 * LinearWork(m, 1)
           scan == IndexerWork(m, pr, seq, 1)
<1>1. \A x, y \in Nat : x * y \in Nat /\ x + y \in Nat
  OBVIOUS
<1>2. /\ QueryHeads(m) \in Nat /\ LocalHeads(m) \in Nat /\ LocalHeadDim(m) \in Nat
  BY ShapeIs
<1>3. /\ RowFlops(m) \in Nat /\ LinearWork(m, 1) \in Nat /\ ReadLocal(m) \in Nat /\ ReadFull(m) \in Nat
      /\ LocalRows(m, seq) \in Nat /\ SparseRows(m, seq) \in Nat /\ GatheredContext(m, seq) = 0
  BY AttentionShape
<1>4. scan \in Nat
  BY IndexerIs
<1>5. a \in Nat /\ b \in Nat /\ l \in Nat
  BY <1>1, <1>2, <1>3
<1>6. DecodeAttention(m, pr, seq, pp) = Whole(pr * (a + b + l) + scan) ** PeakFraction(m, pp)
  BY <1>3 DEF DecodeAttention
<1> HIDE DEF a, b, l, scan
<1>7. pr * (a + b + l) + scan \in Nat
  BY <1>1, <1>4, <1>5
<1> QED
  BY <1>6, <1>7, Numbers, PeakIs

LEMMA CausalPairsAre ==
    ASSUME NEW seq \in Nat, NEW window \in Nat
    PROVE  CausalPairs(seq, window) \in Nat
<1>1. CASE window = 0 \/ window >= seq
  <2>1. seq * (seq + 1) \in Nat
    OBVIOUS
  <2> DEFINE n == seq * (seq + 1)
  <2> HIDE DEF n
  <2>2. n \in Nat => n \div 2 \in Nat
    OBVIOUS
  <2> QED
    BY <1>1, <2>1, <2>2 DEF CausalPairs, n
<1>2. CASE window > 0 /\ window < seq
  <2> DEFINE n == seq * window
             k == window * (window - 1)
  <2>1. n \in Nat /\ k \in Nat /\ k <= n
    <3>1. k = window * window - window /\ window * window <= window * seq
      BY <1>2
    <3>2. window <= window * window
      BY <1>2
    <3> QED
      BY <3>1, <3>2
  <2>2. CausalPairs(seq, window) = n - k \div 2
    BY <1>2 DEF CausalPairs
  <2> HIDE DEF n, k
  <2>3. k \div 2 \in Nat /\ k \div 2 <= k
    BY <2>1
  <2> QED
    BY <2>1, <2>2, <2>3
<1> QED
  BY <1>1, <1>2

LEMMA PrefillAttentionIs ==
    ASSUME NEW m, ModelOK(m), m.ratios = <<>>, m.shared = Absent,
           NEW pr \in Nat, NEW seq \in Nat, NEW pp \in Nat, pp > 0, NEW causal
    PROVE  PrefillAttention(m, pr, seq, pp, causal) \in Quantity
<1> DEFINE pairs(rows) == IF causal THEN CausalPairs(seq, rows) ELSE seq * rows
           p == pairs(SparseRows(m, seq))
           q == pairs(LocalRows(m, seq))
           a == 2 * QueryHeads(m) * (m.headDim + ValueDim(m)) * ReadFull(m) * p
           b == 4 * LocalHeads(m) * LocalHeadDim(m) * ReadLocal(m) * q
           l == 2 * LinearWork(m, seq)
           scan == IndexerWork(m, pr, seq, seq)
<1>1. \A x, y \in Nat : x * y \in Nat /\ x + y \in Nat
  OBVIOUS
<1>2. /\ QueryHeads(m) \in Nat /\ LocalHeads(m) \in Nat /\ LocalHeadDim(m) \in Nat
      /\ ValueDim(m) \in Nat /\ m.headDim \in Nat
  BY ShapeIs DEF ModelOK
<1>3. /\ LinearWork(m, seq) \in Nat /\ ReadLocal(m) \in Nat /\ ReadFull(m) \in Nat
      /\ LocalRows(m, seq) \in Nat /\ SparseRows(m, seq) \in Nat /\ GatheredContext(m, seq) = 0
  BY AttentionShape
<1>4. scan \in Nat
  BY IndexerIs
<1>5. \A rows \in Nat : pairs(rows) \in Nat
  BY <1>1, CausalPairsAre
<1>6. p \in Nat /\ q \in Nat
  BY <1>3, <1>5
<1>7. PrefillAttention(m, pr, seq, pp, causal) = Whole(pr * (a + b + l) + scan) ** PeakFraction(m, pp)
  BY <1>3 DEF PrefillAttention
<1> HIDE DEF p, q, scan
<1>8. a \in Nat /\ b \in Nat /\ l \in Nat
  BY <1>1, <1>2, <1>3, <1>6
<1> HIDE DEF a, b, l
<1>9. pr * (a + b + l) + scan \in Nat
  BY <1>1, <1>4, <1>8
<1> QED
  BY <1>7, <1>9, Numbers, PeakIs

\* What a decoding step reads of a sequence, and the state it carries on.
LEMMA TokenReadIs ==
    ASSUME NEW m, ModelOK(m), m.ratios = <<>>, m.shared = Absent, NEW seq \in Nat,
           NEW prec \in Precisions, NEW pp \in Nat, pp > 0, NEW tp \in Nat, tp > 0
    PROVE  /\ TokenRead(m, seq, prec, pp, tp) \in Quantity
           /\ RecurrentState(m, prec, pp, tp) \in Quantity
<1> DEFINE read == HeadSharded(m, prec, tp, ReadFull(m) * seq, ReadLocal(m) * LocalRows(m, seq))
           peak == PeakFraction(m, pp)
           cache == TokenCache(m, seq, prec, pp, tp)
           kept == ReadOf(m, seq, prec)
<1>1. ~IsCompressed(m)
  BY PlainRatios
<1>2. TokenRead(m, seq, prec, pp, tp) \in {read ** peak, cache}
  <2> DEFINE whole == m.localKvLayers >= 0 /\ ~m.mla
  <2>1. TokenRead(m, seq, prec, pp, tp)
          = CASE whole -> read ** peak
              [] ~whole /\ IsCompressed(m) -> (kept ** peak) // Whole(KvShards(m, tp))
              [] OTHER -> cache
    BY DEF TokenRead
  <2> HIDE DEF whole, read, peak, cache, kept
  <2> QED
    BY <1>1, <2>1
<1>3. read \in Quantity
  <2>1. ReadFull(m) * seq \in Nat /\ ReadLocal(m) * LocalRows(m, seq) \in Nat
    <3>1. \A x, y \in Nat : x * y \in Nat
      OBVIOUS
    <3> QED
      BY <3>1, AttentionShape
  <2> QED
    BY <2>1, HeadShardedIs
<1>4. peak \in Quantity
  BY PeakIs
<1>5. cache \in Quantity
  BY TokenCacheIs
<1> HIDE DEF read, cache, peak
<1>6. TokenRead(m, seq, prec, pp, tp) \in Quantity
  BY <1>2, <1>3, <1>4, <1>5, Numbers
<1>7. LinearState(m, prec, tp) \in Quantity
  BY LinearStateIs
<1> QED
  BY <1>4, <1>6, <1>7, Numbers DEF RecurrentState, peak

-----------------------------------------------------------------------------
(* Messages and taxes.                                                      *)

LEMMA DelaysAre ==
    /\ Delay.hop \in Quantity /\ Delay.schedule \in Quantity
    /\ Delay.reject \in Quantity /\ Delay.launch \in Quantity
<1>1. \A d \in {Delay.hop, Delay.schedule, Delay.reject, Delay.launch} : Amount(d)
  BY PagingAssumption
<1> QED
  BY <1>1, AmountIs

\* What an efficiency says, as numbers.
LEMMA EfficiencyIs ==
    ASSUME NEW e, EfficiencyOK(e)
    PROVE  /\ e.bw \in Quantity /\ Positive(e.bw) /\ e.comp \in Quantity /\ Positive(e.comp)
           /\ e.moe \in Quantity /\ Positive(e.moe)
           /\ e.overlap \in Quantity /\ Whole(1) -- e.overlap \in Quantity
           /\ e.overhead \in Quantity /\ e.paged \in Quantity
<1>1. /\ \A a \in {e.bw, e.comp, e.moe} : Amount(a) /\ Positive(a)
      /\ \A a \in {e.slack, e.overlap, e.interference} : Amount(a) /\ a \preceq Whole(1)
      /\ Amount(e.overhead) /\ Amount(e.paged)
  BY DEF EfficiencyOK
<1>2. e.overlap \in Quantity /\ e.overlap \preceq Whole(1)
  BY <1>1, AmountIs
<1>3. Whole(1) -- e.overlap \in Quantity
  BY <1>2, Numbers, QuantityIs DEF --, \preceq
<1> QED
  BY <1>1, <1>2, <1>3, AmountIs

\* The boundaries between the stages of a pipeline.
LEMMA BoundariesAre ==
    ASSUME NEW tp, NEW pp \in Nat, pp > 0, NEW g
    PROVE  InnerBoundaries(tp, pp, g) \in Nat /\ CrossBoundaries(tp, pp, g) \in Nat
<1> DEFINE S == {i \in 1..(pp - 1) : NodeOf(i, tp, g) = NodeOf(i - 1, tp, g)}
<1>1. IsFiniteSet(1..(pp - 1)) /\ Cardinality(1..(pp - 1)) = pp - 1
  BY FS_Interval
<1>2. S \subseteq 1..(pp - 1)
  OBVIOUS
<1>3. InnerBoundaries(tp, pp, g) \in {0, Cardinality(S)}
  BY DEF InnerBoundaries
<1> HIDE DEF S
<1>4. Cardinality(S) \in Nat /\ Cardinality(S) <= pp - 1
  BY <1>1, <1>2, FS_Subset, FS_CardinalityType
<1> QED
  BY <1>3, <1>4 DEF CrossBoundaries

LEMMA CommunicationIs ==
    ASSUME NEW m, ModelOK(m), NEW g, GpuOK(g), NEW e, EfficiencyOK(e), NEW seq,
           NEW tp \in Nat, tp > 0, NEW pp \in Nat, pp > 0, NEW tokens \in Quantity
    PROVE  LET comm == Communication(m, tp, pp, tokens, seq, g, e) IN
           /\ comm.dense \in Quantity /\ comm.boundary \in Quantity /\ CommTotal(comm) \in Quantity
<1> DEFINE comm == Communication(m, tp, pp, tokens, seq, g, e)
           sent == Message(m, tokens)
           line(b) == Whole(b) ** e.bw
<1>1. /\ g.link \in Nat /\ g.link > 0 /\ g.network \in Nat /\ g.network > 0
  BY DEF GpuOK
<1>2. \A b \in Nat : b > 0 => line(b) \in Quantity /\ Positive(line(b))
  BY WholeQuantity, EfficiencyIs, Numbers, Positives
<1>3. sent \in Quantity
  <2>1. 2 * Hidden(m) \in Nat
    BY ShapeIs
  <2> QED
    BY <2>1, Numbers DEF Message
<1>4. comm.dense = DenseTp(m, tp, pp, tokens, g, e) /\ comm.boundary = PpBoundary(m, tp, pp, tokens, g, e)
  BY DEF Communication
<1> HIDE DEF sent, line, comm
<1>5. DenseTp(m, tp, pp, tokens, g, e) \in Quantity
  <2> DEFINE wire == line(IF tp <= g.node THEN g.link ELSE g.network)
             share == Frac(2 * (tp - 1), tp)
             ring == (sent ** share) // wire
             layers == Frac(2 * m.layers, pp)
  <2>1. wire \in Quantity /\ Positive(wire)
    BY <1>1, <1>2
  <2>2. share \in Quantity
    <3>1. 2 * (tp - 1) \in Nat
      OBVIOUS
    <3> QED
      BY <3>1, PartOrder
  <2>3. layers \in Quantity
    <3>1. 2 * m.layers \in Nat
      BY ShapeIs
    <3> QED
      BY <3>1, PartOrder
  <2>4. DenseTp(m, tp, pp, tokens, g, e)
          = IF tp = 1 THEN Zero ELSE (layers ** (ring ++ Delay.hop)) ** (Whole(1) -- e.overlap)
    BY DEF DenseTp, line, sent
  <2> HIDE DEF wire, share, layers
  <2>5. sent ** share \in Quantity
    BY <1>3, <2>2, Numbers
  <2>6. ring \in Quantity
    BY <2>1, <2>5, Numbers
  <2> HIDE DEF ring
  <2>7. layers ** (ring ++ Delay.hop) \in Quantity
    BY <2>3, <2>6, DelaysAre, Numbers
  <2>8. (layers ** (ring ++ Delay.hop)) ** (Whole(1) -- e.overlap) \in Quantity
    BY <2>7, EfficiencyIs, Numbers
  <2> QED
    BY <2>4, <2>8, Numbers
<1>6. PpBoundary(m, tp, pp, tokens, g, e) \in Quantity
  <2> DEFINE near == Whole(InnerBoundaries(tp, pp, g))
             far == Whole(CrossBoundaries(tp, pp, g))
             hops == Whole(pp - 1)
  <2>1. near \in Quantity /\ far \in Quantity /\ hops \in Quantity
    BY BoundariesAre, Numbers
  <2>2. PpBoundary(m, tp, pp, tokens, g, e)
          = ((near ** (sent // line(g.link))) ++ (far ** (sent // line(g.network)))) ++ (hops ** Delay.hop)
    BY DEF PpBoundary, line, sent
  <2> HIDE DEF near, far, hops
  <2>3. sent // line(g.link) \in Quantity /\ sent // line(g.network) \in Quantity
    BY <1>1, <1>2, <1>3, Numbers
  <2>4. near ** (sent // line(g.link)) \in Quantity /\ far ** (sent // line(g.network)) \in Quantity
    BY <2>1, <2>3, Numbers
  <2>5. hops ** Delay.hop \in Quantity
    BY <2>1, DelaysAre, Numbers
  <2> QED
    BY <2>2, <2>4, <2>5, Numbers
<1> QED
  BY <1>4, <1>5, <1>6, Numbers DEF CommTotal, comm

LEMMA TrafficIs ==
    ASSUME NEW c, GpuOK(c.g), NEW bytes \in Quantity, NEW e, EfficiencyOK(e)
    PROVE  Traffic(c, bytes, e) \in Quantity
<1>1. Whole(c.g.bw) \in Quantity /\ Positive(Whole(c.g.bw))
  BY WholeQuantity DEF GpuOK
<1>2. Whole(c.g.bw) ** e.bw \in Quantity /\ Positive(Whole(c.g.bw) ** e.bw)
  BY <1>1, EfficiencyIs, Numbers, Positives
<1> QED
  BY <1>2, Numbers DEF Traffic

LEMMA TaxedIs ==
    ASSUME NEW time \in Quantity, NEW e, EfficiencyOK(e), NEW share \in Quantity,
           NEW paging \in Quantity
    PROVE  /\ Taxed(time, e, share, paging) \in Quantity
           /\ Positive(time) => Positive(Taxed(time, e, share, paging))
<1>1. e.overhead ** share \in Quantity /\ Whole(1) \in Quantity /\ Positive(Whole(1))
  <2>1. e.overhead \in Quantity
    BY EfficiencyIs
  <2>2. Whole(1) \in Quantity /\ Positive(Whole(1))
    BY WholeQuantity
  <2> QED
    BY <2>1, <2>2, Numbers
<1>2. Whole(1) ++ (e.overhead ** share) \in Quantity /\ Positive(Whole(1) ++ (e.overhead ** share))
  BY <1>1, Numbers, Positives
<1> DEFINE tax == (Whole(1) ++ (e.overhead ** share)) ++ paging
<1>3. tax \in Quantity /\ Positive(tax)
  BY <1>2, Numbers, Positives
<1>4. Taxed(time, e, share, paging) = time ** tax
  BY DEF Taxed
<1> HIDE DEF tax
<1> QED
  BY <1>3, <1>4, Numbers, Positives

-----------------------------------------------------------------------------
(* A decoding step.                                                         *)

\* What the drafter reads and computes in a cycle.
LEMMA DraftTimeIs ==
    ASSUME NEW c, Serves(c), NEW tp \in Nat, tp > 0, NEW pp \in Nat, pp > 0, NEW mb \in Nat,
           NEW read \in Quantity, NEW s, s # Absent, Drafts(s), NEW e, EfficiencyOK(e)
    PROVE  DraftTime(c, tp, pp, mb, read, s, e) \in Quantity
<1> DEFINE positions == IF s.profile.parallel THEN s.k ELSE 1
           peak == PeakFraction(c.m, pp)
           own == (s.bytes ** peak) // Whole(tp)
           cached == (read ** s.profile.kv) ** Whole(positions)
           flops == Whole(2 * s.active * mb * positions) ** peak
           rate == ModelFlops(c.g, c.m, c.prec, "decode") ** (Whole(tp) ** e.comp)
           passes == Whole(pp * s.passes)
<1>1. /\ s.k \in Nat /\ s.passes \in Nat /\ s.active \in Nat
      /\ s.bytes \in Quantity /\ s.profile.kv \in Quantity
  BY DEF Drafts
<1>2. positions \in Nat
  BY <1>1
<1>3. peak \in Quantity /\ Whole(tp) \in Quantity /\ Positive(Whole(tp))
  BY PeakIs, WholeQuantity DEF Serves
<1>4. \A a, b \in Nat : a * b \in Nat
  OBVIOUS
<1>5. rate \in Quantity /\ Positive(rate)
  <2>1. Whole(tp) ** e.comp \in Quantity /\ Positive(Whole(tp) ** e.comp)
    BY <1>3, EfficiencyIs, Numbers, Positives
  <2>2. /\ ModelFlops(c.g, c.m, c.prec, "decode") \in Quantity
        /\ Positive(ModelFlops(c.g, c.m, c.prec, "decode"))
    BY ModelFlopsAre DEF Serves
  <2> QED
    BY <2>1, <2>2, Numbers, Positives
<1>6. DraftTime(c, tp, pp, mb, read, s, e)
        = Largest(Traffic(c, own ++ cached, e), flops // rate) ** passes
  BY DEF DraftTime
<1> HIDE DEF positions, peak, rate
<1>7. own \in Quantity
  BY <1>1, <1>3, Numbers
<1>8. cached \in Quantity
  <2>1. Whole(positions) \in Quantity /\ read ** s.profile.kv \in Quantity
    BY <1>1, <1>2, Numbers
  <2> QED
    BY <2>1, Numbers
<1>9. flops \in Quantity /\ passes \in Quantity
  <2>1. 2 * s.active * mb * positions \in Nat /\ pp * s.passes \in Nat
    BY <1>1, <1>2, <1>4
  <2> QED
    BY <1>3, <2>1, Numbers
<1> HIDE DEF own, cached, flops, passes
<1>10. Traffic(c, own ++ cached, e) \in Quantity
  BY <1>7, <1>8, Numbers, TrafficIs DEF Serves
<1>11. flops // rate \in Quantity
  BY <1>5, <1>9, Numbers
<1> QED
  BY <1>6, <1>9, <1>10, <1>11, Numbers

\* The drafter's part of a cycle, with the messages and the delays.
LEMMA DraftPartIs ==
    ASSUME NEW c, Serves(c), NEW tp \in Nat, tp > 0, NEW pp \in Nat, pp > 0, NEW mb \in Nat,
           NEW read \in Quantity, NEW comm \in Quantity, NEW s, s # Absent, Drafts(s),
           NEW e, EfficiencyOK(e)
    PROVE  (DraftTime(c, tp, pp, mb, read, s, e)
              ++ (comm ** Least(Frac(s.active, Larger(c.m.active, 1)), Whole(1))))
             ++ ((Delay.schedule ++ Delay.reject) ++ (Delay.launch ** Whole(s.passes))) \in Quantity
<1> DEFINE share == Least(Frac(s.active, Larger(c.m.active, 1)), Whole(1))
           time == DraftTime(c, tp, pp, mb, read, s, e)
           delay == (Delay.schedule ++ Delay.reject) ++ (Delay.launch ** Whole(s.passes))
<1>1. s.active \in Nat /\ s.passes \in Nat
  BY DEF Drafts
<1>2. share \in Quantity
  <2>1. Larger(c.m.active, 1) \in Nat /\ Larger(c.m.active, 1) > 0
    <3>1. c.m.active \in Nat
      BY DEF Serves, ModelOK
    <3> QED
      BY <3>1 DEF Larger
  <2>2. Frac(s.active, Larger(c.m.active, 1)) \in Quantity /\ Whole(1) \in Quantity
    BY <1>1, <2>1, PartOrder, WholeQuantity
  <2> QED
    BY <2>2, Numbers
<1>3. time \in Quantity
  BY DraftTimeIs
<1>4. delay \in Quantity
  <2>1. Whole(s.passes) \in Quantity
    BY <1>1, Numbers
  <2>2. Delay.launch ** Whole(s.passes) \in Quantity /\ Delay.schedule ++ Delay.reject \in Quantity
    BY <2>1, DelaysAre, Numbers
  <2> QED
    BY <2>2, Numbers
<1> HIDE DEF share, time, delay
<1>5. comm ** share \in Quantity
  BY <1>2, Numbers
<1>6. time ++ (comm ** share) \in Quantity
  BY <1>3, <1>5, Numbers
<1>7. (time ++ (comm ** share)) ++ delay \in Quantity
  BY <1>4, <1>6, Numbers
<1> QED
  BY <1>7 DEF share, time, delay

\* The target's part of a cycle takes time, for it computes.
LEMMA TargetIs ==
    ASSUME NEW c, Serves(c), c.m.shared = Absent, NEW tp \in Nat, tp > 0, NEW pp \in Nat, pp > 0,
           NEW mb \in Nat, mb > 0, NEW k \in Nat, k > 0, NEW seq \in Nat,
           NEW e, EfficiencyOK(e), NEW more \in Quantity
    PROVE  LET read == Whole(mb) ** TokenRead(c.m, seq, c.prec, pp, tp)
               state == Whole(mb) ** RecurrentState(c.m, c.prec, pp, tp)
               bytes == ((PhaseBytes(c.m, c.prec, "decode") ** PeakFraction(c.m, pp)) // Whole(tp))
                          ++ ((read ** Whole(k)) ++ (Whole(2) ** state))
               linear == Whole(2 * c.m.active * mb * Larger(c.m.passes, 1) * k) ** PeakFraction(c.m, pp)
               attention == (DecodeAttention(c.m, mb, seq, pp) ** Whole(k)) ++ more
               compute == ComputeSeconds(c.g, c.m, c.prec, linear, attention, "decode")
                            // (Whole(tp) ** e.comp)
           IN  /\ read ++ state \in Quantity
               /\ Largest(Traffic(c, bytes, e), compute) \in Quantity
               /\ Positive(Largest(Traffic(c, bytes, e), compute))
<1> DEFINE peak == PeakFraction(c.m, pp)
           read == Whole(mb) ** TokenRead(c.m, seq, c.prec, pp, tp)
           state == Whole(mb) ** RecurrentState(c.m, c.prec, pp, tp)
           weights == (PhaseBytes(c.m, c.prec, "decode") ** peak) // Whole(tp)
           bytes == weights ++ ((read ** Whole(k)) ++ (Whole(2) ** state))
           ops == 2 * c.m.active * mb * Larger(c.m.passes, 1) * k
           linear == Whole(ops) ** peak
           attention == (DecodeAttention(c.m, mb, seq, pp) ** Whole(k)) ++ more
           seconds == ComputeSeconds(c.g, c.m, c.prec, linear, attention, "decode")
           width == Whole(tp) ** e.comp
<1>1. /\ ModelOK(c.m) /\ c.m.ratios = <<>> /\ c.prec \in Precisions /\ GpuOK(c.g)
  BY DEF Serves
<1>2. /\ Whole(mb) \in Quantity /\ Whole(k) \in Quantity /\ Whole(2) \in Quantity
      /\ Whole(tp) \in Quantity /\ Positive(Whole(tp))
  BY WholeQuantity
<1>3. peak \in Quantity /\ Positive(peak)
  BY <1>1, PeakIs
<1>4. read \in Quantity /\ state \in Quantity
  <2>1. TokenRead(c.m, seq, c.prec, pp, tp) \in Quantity /\ RecurrentState(c.m, c.prec, pp, tp) \in Quantity
    BY <1>1, TokenReadIs
  <2> QED
    BY <1>2, <2>1, Numbers
<1>5. weights \in Quantity
  <2>1. PhaseBytes(c.m, c.prec, "decode") \in Quantity
    BY <1>1, ActiveBytesAre
  <2>2. PhaseBytes(c.m, c.prec, "decode") ** peak \in Quantity
    BY <1>3, <2>1, Numbers
  <2> QED
    BY <1>2, <2>2, Numbers
<1>6. ops \in Nat /\ ops > 0
  <2>1. c.m.active \in Nat /\ c.m.active > 0 /\ Larger(c.m.passes, 1) \in Nat /\ Larger(c.m.passes, 1) > 0
    <3>1. ModelOK(c.m)
      BY <1>1
    <3>2. c.m.active \in Nat \ {0} /\ c.m.passes \in Nat
      BY <3>1 DEF ModelOK
    <3> QED
      BY <3>2 DEF Larger
  <2>2. \A a, b \in Nat : a * b \in Nat /\ (a > 0 /\ b > 0 => a * b > 0)
    OBVIOUS
  <2> QED
    BY <2>1, <2>2
<1>7. width \in Quantity /\ Positive(width)
  BY <1>2, EfficiencyIs, Numbers, Positives
<1>8. DecodeAttention(c.m, mb, seq, pp) \in Quantity
  BY <1>1, DecodeAttentionIs
<1> HIDE DEF peak, read, state, weights, ops, width
<1>9. bytes \in Quantity
  <2>1. read ** Whole(k) \in Quantity /\ Whole(2) ** state \in Quantity
    BY <1>2, <1>4, Numbers
  <2>2. (read ** Whole(k)) ++ (Whole(2) ** state) \in Quantity
    BY <2>1, Numbers
  <2> QED
    BY <1>5, <2>2, Numbers
<1>10. linear \in Quantity /\ Positive(linear)
  <2>1. Whole(ops) \in Quantity /\ Positive(Whole(ops))
    BY <1>6, WholeQuantity
  <2> QED
    BY <1>3, <2>1, Numbers, Positives
<1>11. attention \in Quantity
  <2>1. DecodeAttention(c.m, mb, seq, pp) ** Whole(k) \in Quantity
    BY <1>2, <1>8, Numbers
  <2> QED
    BY <2>1, Numbers
<1> HIDE DEF bytes, linear, attention
<1>12. seconds \in Quantity /\ Positive(seconds)
  BY <1>1, <1>10, <1>11, ComputedIs
<1> HIDE DEF seconds
<1>13. seconds // width \in Quantity /\ Positive(seconds // width)
  BY <1>7, <1>12, Numbers, Positives
<1>14. Traffic(c, bytes, e) \in Quantity
  BY <1>1, <1>9, TrafficIs
<1>15. /\ Largest(Traffic(c, bytes, e), seconds // width) \in Quantity
       /\ Positive(Largest(Traffic(c, bytes, e), seconds // width))
  BY <1>13, <1>14, Numbers, Positives
<1>16. read ++ state \in Quantity
  BY <1>4, Numbers
<1> QED
  BY <1>15, <1>16 DEF bytes, linear, attention, seconds, width, read, state, weights, ops, peak

\* A step takes time, whatever its load and its drafter.
LEMMA StepIs ==
    ASSUME NEW c, Serves(c), c.m.shared = Absent, NEW tp \in Nat, tp > 0, NEW pp \in Nat, pp > 0,
           NEW load \in Nat, NEW seq \in Nat, NEW e, EfficiencyOK(e), NEW paging \in Quantity,
           NEW extra \in Quantity, NEW s, Drafts(s)
    PROVE  /\ DecodeStep(c, tp, pp, load, seq, e, paging, extra, s) \in Quantity
           /\ Positive(DecodeStep(c, tp, pp, load, seq, e, paging, extra, s))
<1> DEFINE mb == Larger(1, CeilDiv(load, pp))
           k == IF s = Absent THEN 1 ELSE Larger(s.k, 1)
           peak == PeakFraction(c.m, pp)
           read == Whole(mb) ** TokenRead(c.m, seq, c.prec, pp, tp)
           state == Whole(mb) ** RecurrentState(c.m, c.prec, pp, tp)
           bytes == ((PhaseBytes(c.m, c.prec, "decode") ** peak) // Whole(tp))
                      ++ ((read ** Whole(k)) ++ (Whole(2) ** state))
           linear == Whole(2 * c.m.active * mb * Larger(c.m.passes, 1) * k) ** peak
           more == (extra ** Whole(mb)) // Whole(Larger(load, 1))
           attention == (DecodeAttention(c.m, mb, seq, pp) ** Whole(k)) ++ more
           compute == ComputeSeconds(c.g, c.m, c.prec, linear, attention, "decode")
                        // (Whole(tp) ** e.comp)
           comm == Communication(c.m, tp, pp, Whole(mb * k), Whole(seq), c.g, e)
           busy == Largest(Traffic(c, bytes, e), compute)
           target == ((busy ++ comm.dense) ** Whole(pp)) ++ comm.boundary
           draft == (DraftTime(c, tp, pp, mb, read ++ state, s, e)
                       ++ (CommTotal(comm) ** Least(Frac(s.active, Larger(c.m.active, 1)), Whole(1))))
                      ++ ((Delay.schedule ++ Delay.reject) ++ (Delay.launch ** Whole(s.passes)))
           cycle == IF s = Absent THEN target ELSE target ++ draft
           tail == TailMultiplier(c.m, e)
<1>1. mb \in Nat /\ mb > 0
  <2>1. CeilDiv(load, pp) \in Nat
    BY CeilDivIs
  <2> QED
    BY <2>1 DEF Larger
<1>2. k \in Nat /\ k > 0
  BY DEF Drafts, Larger
<1>3. more \in Quantity
  <2>1. Larger(load, 1) \in Nat /\ Larger(load, 1) > 0
    BY DEF Larger
  <2>2. /\ Whole(mb) \in Quantity /\ Whole(Larger(load, 1)) \in Quantity
        /\ Positive(Whole(Larger(load, 1)))
    BY <1>1, <2>1, WholeQuantity
  <2>3. extra ** Whole(mb) \in Quantity
    BY <2>2, Numbers
  <2> QED
    BY <2>2, <2>3, Numbers
<1>4. DecodeStep(c, tp, pp, load, seq, e, paging, extra, s) = Taxed(cycle, e, Whole(1), paging) ** tail
  BY DEF DecodeStep
<1> HIDE DEF mb, k, more
<1>5. read ++ state \in Quantity /\ busy \in Quantity /\ Positive(busy)
  BY <1>1, <1>2, <1>3, TargetIs
<1>6. comm.dense \in Quantity /\ comm.boundary \in Quantity /\ CommTotal(comm) \in Quantity
  <2>1. mb * k \in Nat
    BY <1>1, <1>2
  <2>2. Whole(mb * k) \in Quantity
    BY <2>1, WholeQuantity
  <2> QED
    BY <2>2, CommunicationIs DEF Serves
<1>7. s # Absent => draft \in Quantity
  <2> HIDE DEF comm, read, state
  <2> QED
    BY <1>1, <1>5, <1>6, DraftPartIs
<1> HIDE DEF busy, comm, draft
<1>8. target \in Quantity /\ Positive(target)
  <2>1. Whole(pp) \in Quantity /\ Positive(Whole(pp))
    BY WholeQuantity
  <2>2. busy ++ comm.dense \in Quantity /\ Positive(busy ++ comm.dense)
    BY <1>5, <1>6, Numbers, Positives
  <2>3. (busy ++ comm.dense) ** Whole(pp) \in Quantity /\ Positive((busy ++ comm.dense) ** Whole(pp))
    BY <2>1, <2>2, Numbers, Positives
  <2> QED
    BY <1>6, <2>3, Numbers, Positives
<1> HIDE DEF target
<1>9. cycle \in Quantity /\ Positive(cycle)
  BY <1>7, <1>8, Numbers, Positives
<1> HIDE DEF cycle
<1>10. tail \in Quantity /\ Positive(tail)
  BY EfficiencyIs, WholeQuantity DEF TailMultiplier
<1> HIDE DEF tail
<1>11. Taxed(cycle, e, Whole(1), paging) \in Quantity /\ Positive(Taxed(cycle, e, Whole(1), paging))
  <2>1. Whole(1) \in Quantity
    BY WholeQuantity
  <2> QED
    BY <1>9, <2>1, TaxedIs
<1> QED
  BY <1>4, <1>10, <1>11, Numbers, Positives

\* What a batch that has a place is told: tokens per second and the time of one.
LEMMA RatesAre ==
    ASSUME NEW c, Serves(c), c.m.shared = Absent, NEW l,
           l[1] \in Nat, l[1] > 0, l[2] \in Nat, l[2] > 0, l[3] \in Nat, l[3] > 0,
           NEW bs \in Nat, bs > 0, NEW seq \in Nat, NEW e, EfficiencyOK(e), NEW paging \in Quantity,
           NEW s, Drafts(s), NEW slots
    PROVE  LET r == DecodeResult(c, l, bs, seq, e, paging, Zero, s, slots) IN
           r.tps \in Int /\ r.step \in Fraction
<1> DEFINE replicas == Smaller(bs, l[3])
           base == bs \div replicas
           more == bs % replicas
           cycle(load) == DecodeStep(c, l[1], l[2], load, seq, e, paging, Zero ** Whole(load), s)
           tau == IF s = Absent THEN Whole(1) ELSE s.tau
           low == cycle(base)
           high == IF more = 0 THEN low ELSE cycle(base + 1)
           few == (Whole((replicas - more) * base) ** tau) // low
           many == (Whole(more * (base + 1)) ** tau) // high
           token == Largest(low, high) // tau
           r == DecodeResult(c, l, bs, seq, e, paging, Zero, s, slots)
<1>1. r.tps = RoundOf(few ++ many) /\ r.step = RoundTo(token, Grain)
  BY DEF DecodeResult
<1> HIDE DEF r
<1>2. replicas \in Nat /\ replicas > 0
  BY DEF Smaller
<1> HIDE DEF replicas
<1>3. base \in Nat /\ more \in Nat /\ replicas - more \in Nat
  BY <1>2
<1> HIDE DEF base, more
<1>4. ASSUME NEW load \in Nat
      PROVE  cycle(load) \in Quantity /\ Positive(cycle(load))
  <2>1. Zero ** Whole(load) \in Quantity
    BY Numbers
  <2> QED
    BY <2>1, StepIs
<1>5. low \in Quantity /\ Positive(low) /\ high \in Quantity /\ Positive(high)
  <2>1. base + 1 \in Nat
    BY <1>3
  <2> HIDE DEF cycle
  <2> QED
    BY <1>3, <1>4, <2>1
<1> HIDE DEF low, high
<1>6. tau \in Quantity /\ Positive(tau)
  BY WholeQuantity DEF Drafts
<1> HIDE DEF tau
<1>7. few \in Quantity /\ many \in Quantity
  <2>1. (replicas - more) * base \in Nat /\ more * (base + 1) \in Nat
    BY <1>3
  <2>2. Whole((replicas - more) * base) \in Quantity /\ Whole(more * (base + 1)) \in Quantity
    BY <2>1, WholeQuantity
  <2>3. Whole((replicas - more) * base) ** tau \in Quantity /\ Whole(more * (base + 1)) ** tau \in Quantity
    BY <1>6, <2>2, Numbers
  <2> QED
    BY <1>5, <2>3, Numbers
<1> HIDE DEF few, many
<1>8. few ++ many \in Fraction
  BY <1>7, Numbers
<1>9. token \in Fraction
  <2>1. Largest(low, high) \in Quantity
    BY <1>5, Numbers
  <2> QED
    BY <1>6, <2>1, Numbers
<1> HIDE DEF token
<1>10. RoundTo(token, Grain) \in Fraction
  <2>1. Grain \in Fraction /\ Positive(Grain)
    BY CapacityAssumption, AmountIs, Numbers
  <2>2. token // Grain \in Fraction
    BY <1>9, <2>1, Quotients DEF //
  <2>3. Whole(RoundOf(token // Grain)) \in Fraction
    BY <2>2, RoundIs, WholeIs
  <2> QED
    BY <2>1, <2>3, Products DEF RoundTo, **
<1> QED
  BY <1>1, <1>8, <1>10, RoundIs DEF r

LEMMA AnswerRates ==
    ASSUME NEW c, Serves(c), c.m.shared = Absent, NEW l,
           l[1] \in Nat, l[1] > 0, l[2] \in Nat, l[2] > 0, l[3] \in Nat, l[3] > 0, NEW bs \in Nat,
           NEW inDist \in [DOMAIN InputLengths -> Nat], NEW outDist \in [DOMAIN OutputLengths -> Nat],
           <<inDist, outDist>> \in DOMAIN Spread,
           Decode(c, l, bs, inDist, outDist, c.dec) # Absent
    PROVE  LET r == Decode(c, l, bs, inDist, outDist, c.dec) IN r.tps \in Int /\ r.step \in Fraction
<1> DEFINE input == AvgDist(inDist, InputLengths)
           output == AvgDist(outDist, OutputLengths)
           paging == DecodePaging(inDist, outDist, c.dec)
           seq == input + output \div 2
           s == ForAnswer(c.spec, Larger(output, 1))
           budget == CacheBudget(c, l[1], l[2], c.dec)
           slots == SlotsOf(c, l[1], l[2], seq, c.dec, s, budget)
           r == Decode(c, l, bs, inDist, outDist, c.dec)
<1>1. input \in Nat /\ output \in Nat
  <2>1. InputLengths \in Seq(Nat) /\ OutputLengths \in Seq(Nat)
    BY CapacityAssumption
  <2> QED
    BY <2>1, MeanLengthIs
<1>2. bs # 0 /\ r = DecodeResult(c, l, bs, seq, c.dec, paging, Zero, s, slots)
  BY DEF Decode, DecodeCore
<1>3. paging \in Quantity
  <2>1. Spread[<<inDist, outDist>>] \in Quantity
    BY PagingAssumption, AmountIs
  <2>2. c.dec.paged \in Quantity
    BY EfficiencyIs DEF Serves
  <2> QED
    BY <2>1, <2>2, Numbers DEF DecodePaging
<1> HIDE DEF input, output, paging, r
<1>4. seq \in Nat
  BY <1>1
<1>5. Drafts(s)
  <2>1. Larger(output, 1) \in Nat /\ Larger(output, 1) > 0
    BY <1>1 DEF Larger
  <2> QED
    BY <2>1, DraftedIs DEF Serves
<1> HIDE DEF seq, s, slots
<1>6. EfficiencyOK(c.dec)
  BY DEF Serves
<1> QED
  BY <1>2, <1>3, <1>4, <1>5, <1>6, RatesAre DEF r

LEMMA DecisionRates ==
    ASSUME NEW c, Serves(c), c.m.shared = Absent, NEW l,
           l[1] \in Nat, l[1] > 0, l[2] \in Nat, l[2] > 0, l[3] \in Nat, l[3] > 0,
           NEW bs \in Nat, NEW seq \in Nat, Whole(seq) \in DOMAIN Pressure,
           Decision(c, l, bs, seq, 1, 4) # Absent
    PROVE  LET r == Decision(c, l, bs, seq, 1, 4) IN r.tps \in Fraction /\ r.rps \in Fraction
<1> DEFINE e == c.pre
           d == Decides[c.m.key]
           pr == CeilDiv(bs, l[3])
           ops == 2 * c.m.active * pr * seq
           linear == Whole(ops) ** PeakFraction(c.m, l[2])
           attention == PrefillAttention(c.m, pr, seq, l[2], d.causal)
           rate == ModelFlops(c.g, c.m, c.prec, "decode") ** (Whole(l[1]) ** e.comp)
           compute == (linear ++ attention) // rate
           weights == WeightTime(c, l[1], l[2], PhaseBytes(c.m, c.prec, "decode"), e)
           moved == Moved(c, l[1], l[2], Whole(pr * seq), Whole(seq), e)
           pass == Largest(compute, weights) ++ moved
           passes == Whole(IF d.perQuestion THEN 1 ELSE 1)
           out == Traffic(c, Whole(4 * 1 * 4 * pr), e)
           paging == FixedPaging(Whole(seq), e, Frac(1, 5))
           time == Taxed((passes ** pass) ++ out, e, Frac(6, 5), paging)
           r == Decision(c, l, bs, seq, 1, 4)
<1>1. /\ DecisionAllowed(c.m, seq, bs, 1, 4)
      /\ r.rps = Whole(bs) // time /\ r.tps = (Whole(bs) // time) ** Whole(seq)
  BY DEF Decision
<1> HIDE DEF r
<1>2. bs > 0 /\ seq > 0
  BY <1>1 DEF DecisionAllowed
<1>3. /\ ModelOK(c.m) /\ c.m.ratios = <<>> /\ c.prec \in Precisions /\ GpuOK(c.g) /\ EfficiencyOK(e)
  BY DEF Serves
<1>4. pr \in Nat /\ pr > 0
  BY <1>2, CeilDivIs
<1> HIDE DEF pr, e, d
<1>5. PeakFraction(c.m, l[2]) \in Quantity /\ Positive(PeakFraction(c.m, l[2]))
  BY <1>3, PeakIs
<1>6. Whole(l[1]) \in Quantity /\ Positive(Whole(l[1]))
  BY WholeQuantity
<1>7. \A a, b \in Nat : a * b \in Nat /\ (a > 0 /\ b > 0 => a * b > 0)
  OBVIOUS
<1>8. linear \in Quantity /\ Positive(linear)
  <2>1. c.m.active \in Nat /\ c.m.active > 0
    <3>1. ModelOK(c.m)
      BY <1>3
    <3> QED
      BY <3>1, ShapeIs
  <2>2. ops \in Nat /\ ops > 0
    BY <1>2, <1>4, <1>7, <2>1
  <2> HIDE DEF ops
  <2>3. Whole(ops) \in Quantity /\ Positive(Whole(ops))
    BY <2>2, WholeQuantity
  <2> QED
    BY <1>5, <2>3, Numbers, Positives
<1>9. attention \in Quantity
  BY <1>3, <1>4, PrefillAttentionIs
<1>10. rate \in Quantity /\ Positive(rate)
  <2>1. Whole(l[1]) ** e.comp \in Quantity /\ Positive(Whole(l[1]) ** e.comp)
    BY <1>3, <1>6, EfficiencyIs, Numbers, Positives
  <2>2. /\ ModelFlops(c.g, c.m, c.prec, "decode") \in Quantity
        /\ Positive(ModelFlops(c.g, c.m, c.prec, "decode"))
    BY <1>3, ModelFlopsAre
  <2> QED
    BY <2>1, <2>2, Numbers, Positives
<1> HIDE DEF linear, attention, rate
<1>11. compute \in Quantity /\ Positive(compute)
  <2>1. linear ++ attention \in Quantity /\ Positive(linear ++ attention)
    BY <1>8, <1>9, Numbers, Positives
  <2> QED
    BY <1>10, <2>1, Numbers, Positives
<1>12. weights \in Quantity
  <2>1. PhaseBytes(c.m, c.prec, "decode") \in Quantity
    BY <1>3, ActiveBytesAre
  <2>2. PhaseBytes(c.m, c.prec, "decode") ** PeakFraction(c.m, l[2]) \in Quantity
    BY <1>5, <2>1, Numbers
  <2>3. (PhaseBytes(c.m, c.prec, "decode") ** PeakFraction(c.m, l[2])) // Whole(l[1]) \in Quantity
    BY <1>6, <2>2, Numbers
  <2> QED
    BY <1>3, <2>3, TrafficIs DEF WeightTime
<1>13. moved \in Quantity
  <2>1. Whole(pr * seq) \in Quantity
    BY <1>4, <1>7, WholeQuantity
  <2> QED
    BY <1>3, <2>1, CommunicationIs DEF Moved
<1>14. out \in Quantity
  <2>1. 4 * 1 * 4 * pr \in Nat
    BY <1>4
  <2>2. Whole(4 * 1 * 4 * pr) \in Quantity
    BY <2>1, WholeQuantity
  <2> QED
    BY <1>3, <2>2, TrafficIs
<1>15. paging \in Quantity
  <2>1. Pressure[Whole(seq)] \in Quantity
    BY PagingAssumption, AmountIs
  <2>2. e.paged \in Quantity /\ Frac(1, 5) \in Quantity
    BY <1>3, EfficiencyIs, PartIs
  <2>3. e.paged ** Frac(1, 5) \in Quantity
    BY <2>2, Numbers
  <2> QED
    BY <2>1, <2>3, Numbers DEF FixedPaging
<1>16. passes \in Quantity /\ Positive(passes)
  BY WholeQuantity
<1> HIDE DEF compute, weights, moved, out, paging, passes
<1>17. pass \in Quantity /\ Positive(pass)
  <2>1. Largest(compute, weights) \in Quantity /\ Positive(Largest(compute, weights))
    BY <1>11, <1>12, Numbers, Positives
  <2> QED
    BY <1>13, <2>1, Numbers, Positives
<1> HIDE DEF pass
<1>18. (passes ** pass) ++ out \in Quantity /\ Positive((passes ** pass) ++ out)
  <2>1. passes ** pass \in Quantity /\ Positive(passes ** pass)
    BY <1>16, <1>17, Numbers, Positives
  <2> QED
    BY <1>14, <2>1, Numbers, Positives
<1>19. time \in Quantity /\ Positive(time)
  BY <1>3, <1>15, <1>18, PartIs, TaxedIs
<1> HIDE DEF time
<1>20. Whole(bs) // time \in Quantity /\ Whole(seq) \in Quantity
  BY <1>19, Numbers
<1>21. (Whole(bs) // time) ** Whole(seq) \in Quantity
  BY <1>20, Numbers
<1> QED
  BY <1>1, <1>20, <1>21, Numbers DEF r

-----------------------------------------------------------------------------
(* The layout the planner prefers.                                          *)

\* A layout of a deployment in the table.
LEMMA PlannedLayout ==
    ASSUME NEW x \in Deployments, NEW l \in LayoutTable[x]
    PROVE  /\ l \in ValidStrategies(Context(x), x[6]) /\ x[6] \in Nat
           /\ l[1] \in Nat /\ l[1] > 0 /\ l[1] \in DOMAIN Log2 /\ l[2] \in Nat /\ l[2] > 0
           /\ l[3] \in Nat /\ l[3] > 0
           /\ TpSupported(Context(x).m, l[1]) /\ Holds(Context(x), l[1], l[2])
<1> DEFINE c == Context(x)
<1>1. l \in ValidStrategies(c, x[6])
  BY DEF LayoutTable
<1>2. x[6] \in 1..MaxCount /\ MaxCount \in Int
  BY HardwareAssumption DEF Deployments
<1>3. x[6] \in Nat /\ x[6] <= MaxCount
  BY <1>2
<1> HIDE DEF c
<1>4. /\ l[1] \in 1..x[6] /\ l[2] \in 1..x[6] /\ l[3] \in Nat /\ l[3] > 0
      /\ TpSupported(c.m, l[1]) /\ Holds(c, l[1], l[2])
  BY <1>1, <1>3, LayoutIs
<1>5. l[1] \in 1..MaxCount
  BY <1>2, <1>3, <1>4
<1>6. l[1] \in DOMAIN Log2
  BY <1>5, PanelAssumption
<1> QED
  BY <1>1, <1>3, <1>4, <1>6 DEF c

\* A layout that decodes a batch of one request on every replica or more serves.
LEMMA AnsweredServes ==
    ASSUME AbsentIsNone, NEW c, Serves(c), NEW l,
           l[1] \in Nat, l[1] > 0, l[1] \in DOMAIN Log2, l[2] \in Nat, l[2] > 0, l[3] \in Nat, l[3] > 0,
           NEW inDist \in [DOMAIN InputLengths -> Nat], NEW outDist \in [DOMAIN OutputLengths -> Nat],
           NEW bs \in Nat, l[3] <= bs, Decode(c, l, bs, inDist, outDist, c.dec) # Absent
    PROVE  DecodeCapacity(c, l, inDist, outDist, c.dec) > 0
<1> DEFINE input == AvgDist(inDist, InputLengths)
           output == AvgDist(outDist, OutputLengths)
           paging == DecodePaging(inDist, outDist, c.dec)
           core(n) == DecodeCore(c, l, n, input, output, c.dec, paging, Zero)
           dp == l[3]
<1>1. input \in Nat /\ output \in Nat
  <2>1. InputLengths \in Seq(Nat) /\ OutputLengths \in Seq(Nat)
    BY CapacityAssumption
  <2> QED
    BY <2>1, MeanLengthIs
<1>2. c.m.shared = Absent
  BY DEF Serves, Ordinary
<1>3. core(bs) # Absent /\ DecodeCapacity(c, l, inDist, outDist, c.dec) =
                             IF core(dp) = Absent THEN 0 ELSE core(dp).slots
  BY DEF Decode, DecodeCapacity
<1> HIDE DEF input, output, paging
<1>4. PICK slots \in Nat, open \in BOOLEAN : AnswersFit(c, l, input, output, paging, Zero, slots, open)
  BY <1>1, <1>2, AnswersAre
<1>5. \A n \in Nat \ {0} : /\ core(n) # Absent <=> open /\ n <= slots * dp
                           /\ core(n) # Absent => core(n).slots = slots * dp
  BY <1>4 DEF AnswersFit
<1> HIDE DEF core
<1> DEFINE q == slots * dp
<1>6. q \in Nat
  BY <1>4
<1>7. bs \in Nat \ {0} /\ dp \in Nat \ {0} /\ dp <= bs
  OBVIOUS
<1> HIDE DEF q, dp
<1>8. open /\ bs <= q
  BY <1>3, <1>5, <1>7 DEF q, dp
<1>9. core(dp) # Absent /\ core(dp).slots = q /\ q > 0
  BY <1>5, <1>6, <1>7, <1>8 DEF q
<1> QED
  BY <1>3, <1>9 DEF dp

\* The working memory of a classification.
LEMMA DecisionScratchIs ==
    ASSUME NEW m, ModelOK(m), NEW seq \in Nat, NEW answers \in Nat, answers > 0
    PROVE  DecisionScratch(m, seq, answers) \in Quantity /\ Positive(DecisionScratch(m, seq, answers))
<1> DEFINE w == m.heads * m.headDim
           h == Larger(Hidden(m), w)
           n == 8 * seq * h + 4 * answers
<1>1. h \in Nat
  <2>1. Hidden(m) \in Nat /\ m.heads \in Nat /\ m.headDim \in Nat
    BY ShapeIs DEF ModelOK
  <2>2. w \in Nat
    BY <2>1
  <2> HIDE DEF w
  <2> QED
    BY <2>1, <2>2 DEF Larger
<1> HIDE DEF h
<1>2. n \in Nat /\ n > 0
  <2>1. 8 * seq * h \in Nat
    BY <1>1
  <2> QED
    BY <2>1
<1>3. DecisionScratch(m, seq, answers) = Whole(n) ++ (Whole(2) ** LinearState(m, "bf16", 1))
  BY DEF DecisionScratch, h, w
<1> HIDE DEF n
<1>4. Whole(n) \in Quantity /\ Positive(Whole(n)) /\ Whole(2) \in Quantity
  BY <1>2, Numbers, Positives
<1>5. LinearState(m, "bf16", 1) \in Quantity
  BY LinearStateIs DEF Precisions
<1> QED
  BY <1>3, <1>4, <1>5, Numbers, Positives

\* A layout that classifies a batch classifies one input.
LEMMA DecidedServes ==
    ASSUME AbsentIsNone, NEW c, Serves(c), Serves(Plain(c)), NEW l,
           l[1] \in Nat, l[1] > 0, l[1] \in DOMAIN Log2, l[2] \in Nat, l[2] > 0, l[3] \in Nat, l[3] > 0,
           NEW seq \in Nat, NEW bs \in Nat, bs > 0, Decision(c, l, bs, seq, 1, 4) # Absent
    PROVE  Decision(c, l, 1, seq, 1, 4) # Absent
<1> DEFINE budget == CacheBudget(Plain(c), l[1], l[2], c.pre)
           slots == FloorOf(budget // DecisionScratch(c.m, seq, 1 * 4))
<1>1. /\ DecisionAllowed(c.m, seq, bs, 1, 4) /\ budget # Absent /\ ~(CeilDiv(bs, l[3]) > slots)
  BY DEF Decision
<1>2. DecisionAllowed(c.m, seq, 1, 1, 4)
  BY <1>1 DEF DecisionAllowed
<1>3. slots \in Int
  <2>1. budget \in Quantity
    BY <1>1, BudgetIs DEF Serves
  <2>2. DecisionScratch(c.m, seq, 1 * 4) \in Quantity /\ Positive(DecisionScratch(c.m, seq, 1 * 4))
    BY DecisionScratchIs DEF Serves
  <2> HIDE DEF budget
  <2>3. budget // DecisionScratch(c.m, seq, 1 * 4) \in Fraction
    BY <2>1, <2>2, Numbers
  <2> QED
    BY <2>3, RoundIs
<1> HIDE DEF budget, slots
<1>4. ~(CeilDiv(1, l[3]) > slots)
  <2>1. CeilDiv(bs, l[3]) \in Nat /\ CeilDiv(bs, l[3]) > 0 /\ CeilDiv(1, l[3]) \in Nat
    BY CeilDivIs
  <2>2. CeilDiv(1, l[3]) <= 1
    <3>1. 1 <= 1 * l[3]
      OBVIOUS
    <3> QED
      BY <3>1, CeilDivIs
  <2> QED
    BY <1>1, <1>3, <2>1, <2>2
<1> DEFINE r == Decision(c, l, 1, seq, 1, 4)
           q == [ rps |-> r.rps, decisions |-> r.decisions, tps |-> r.tps, time |-> r.time,
                  slots |-> r.slots ]
<1>5. r = q
  BY <1>1, <1>2, <1>4 DEF Decision, budget, slots
<1> HIDE DEF r
<1>6. q = [i \in DOMAIN q |-> q[i]]
  OBVIOUS
<1> HIDE DEF q
<1> QED
  BY <1>5, <1>6 DEF AbsentIsNone, r

\* The deployment without its drafter.
LEMMA PlainServes ==
    ASSUME NEW x \in Deployments, LayersAlike(Catalog[x[1]])
    PROVE  LET c == Context(x) IN
           /\ Serves(Plain(c))
           /\ Plain(c).m = c.m /\ Plain(c).g = c.g /\ Plain(c).prec = c.prec
<1> DEFINE c == Context(x)
<1>1. Serves(c)
  BY ContextServes
<1>2. /\ Plain(c).m = c.m /\ Plain(c).g = c.g /\ Plain(c).mu = c.mu /\ Plain(c).nonKv = c.nonKv
      /\ Plain(c).prec = c.prec /\ Plain(c).pre = c.pre /\ Plain(c).dec = c.dec
      /\ Plain(c).spec = Absent
  BY DEF Plain, Context
<1> HIDE DEF c
<1> QED
  BY <1>1, <1>2 DEF Serves, DraftKnown, DraftDeep, c

\* What a deployment is judged by, and on which requests.
PhaseOf(x) == IF Kind[x[1]] = "llm" THEN "decode" ELSE "prefill"
WorkOf(x)  == Settings[x[5]].work
ProbesOf(x, l) == Probes(Context(x), l, PhaseOf(x), WorkOf(x))

\* The models whose layouts the planner compares by what they answer.
Judged(k) ==
    LET m == Catalog[k]
    IN  IF Kind[k] = "llm" THEN ~IsDecision(m) /\ ~IsEmbedding(m) ELSE IsDecision(m)

LEMMA MetricIs ==
    ASSUME NEW c, NEW l, NEW phase, NEW w, NEW bs
    PROVE  LET made == Decision(c, l, bs, w.task, 1, 4)
               answered == Decode(c, l, bs, w.input, w.output, c.dec)
               metric == ProbeMetric(c, l, phase, w, bs) IN
           /\ IsDecision(c.m) => metric = IF made = Absent THEN Absent ELSE <<made.tps, made.rps>>
           /\ ~IsDecision(c.m) /\ ~IsEmbedding(c.m) /\ phase = "decode" =>
                metric = IF answered = Absent THEN Absent
                         ELSE <<Whole(answered.tps), Zero -- answered.step>>
<1> DEFINE made == Decision(c, l, bs, w.task, 1, 4)
           asked == Prefill(c, l, bs, Larger(1, EffectivePrefill(Larger(w.task, AvgDist(w.input, InputLengths)),
                                                                 w.hitRate)), 0, c.pre)
           answered == Decode(c, l, bs, w.input, w.output, c.dec)
           docs == EmbeddingDocs(c, l, bs, w.docs)
           judged(r) == IF r = Absent THEN Absent ELSE <<Whole(r.tps), r.rps>>
           exact == IF made = Absent THEN Absent ELSE <<made.tps, made.rps>>
           decode == IF answered = Absent THEN Absent ELSE <<Whole(answered.tps), Zero -- answered.step>>
           metric == ProbeMetric(c, l, phase, w, bs)
<1>1. metric = CASE IsDecision(c.m) -> exact
                 [] ~IsDecision(c.m) /\ IsEmbedding(c.m) -> judged(docs)
                 [] OTHER -> IF phase = "prefill" THEN judged(asked) ELSE decode
  BY DEF ProbeMetric
<1> HIDE DEF metric, exact, judged, decode, made, asked, answered, docs
<1>2. /\ IsDecision(c.m) => metric = exact
      /\ ~IsDecision(c.m) /\ ~IsEmbedding(c.m) /\ phase = "decode" => metric = decode
  BY <1>1
<1> QED
  BY <1>2 DEF metric, exact, decode, made, answered

\* A layout with a probe that finds a place serves a request.
LEMMA ProbedServes ==
    ASSUME AbsentIsNone, NEW x \in Deployments, LayersAlike(Catalog[x[1]]), Judged(x[1]),
           NEW l \in LayoutTable[x], ProbesOf(x, l) # {}
    PROVE  l \in UsefulTable[x]
<1> DEFINE c == Context(x)
           w == WorkOf(x)
<1>1. Serves(c) /\ c.m = Catalog[x[1]] /\ Serves(Plain(c))
  BY ContextServes, PlainServes
<1>2. /\ l[1] \in Nat /\ l[1] > 0 /\ l[1] \in DOMAIN Log2 /\ l[2] \in Nat /\ l[2] > 0
      /\ l[3] \in Nat /\ l[3] > 0
  BY PlannedLayout
<1>3. /\ w.input \in [DOMAIN InputLengths -> Nat] /\ w.output \in [DOMAIN OutputLengths -> Nat]
      /\ w.task \in Nat
  BY PanelAssumption DEF Deployments, SettingsOK, WorkOf
<1>4. PICK bs \in ProbeBatches(l[3]) : ProbeMetric(c, l, PhaseOf(x), w, bs) # Absent
  BY DEF ProbesOf, Probes
<1>5. bs \in Nat /\ l[3] <= bs
  BY <1>2, ProbesAre
<1>6. UsefulTable[x] = {k \in LayoutTable[x] :
        IF Kind[x[1]] = "llm" THEN DecodeCapacity(c, k, w.input, w.output, c.dec) > 0
        ELSE Decision(c, k, 1, w.task, 1, 4) # Absent}
  BY DEF UsefulTable, WorkOf
<1> HIDE DEF c, w
<1>7. CASE Kind[x[1]] = "llm" /\ ~IsDecision(c.m) /\ ~IsEmbedding(c.m)
  <2>1. Decode(c, l, bs, w.input, w.output, c.dec) # Absent
    BY <1>4, <1>7, MetricIs DEF PhaseOf
  <2>2. DecodeCapacity(c, l, w.input, w.output, c.dec) > 0
    BY <1>1, <1>2, <1>3, <1>5, <2>1, AnsweredServes
  <2> QED
    BY <1>6, <1>7, <2>2
<1>8. CASE Kind[x[1]] # "llm" /\ IsDecision(c.m)
  <2>1. Decision(c, l, bs, w.task, 1, 4) # Absent
    BY <1>4, <1>8, MetricIs
  <2>2. Decision(c, l, 1, w.task, 1, 4) # Absent
    <3>1. bs > 0
      BY <1>2, <1>5
    <3> QED
      BY <1>1, <1>2, <1>3, <1>5, <2>1, <3>1, DecidedServes
  <2> QED
    BY <1>6, <1>8, <2>2
<1> QED
  BY <1>1, <1>7, <1>8 DEF Judged

\* What the planner judges a layout by is a pair of numbers.
LEMMA ProbesMeasured ==
    ASSUME NEW x \in Deployments, LayersAlike(Catalog[x[1]]), Judged(x[1]), NEW l \in LayoutTable[x]
    PROVE  ProbesOf(x, l) \subseteq Fraction \X Fraction
<1> DEFINE c == Context(x)
           w == WorkOf(x)
           phase == PhaseOf(x)
<1>1. Serves(c) /\ c.m = Catalog[x[1]]
  BY ContextServes
<1>2. /\ l[1] \in Nat /\ l[1] > 0 /\ l[1] \in DOMAIN Log2 /\ l[2] \in Nat /\ l[2] > 0
      /\ l[3] \in Nat /\ l[3] > 0
  BY PlannedLayout
<1>3. /\ w.input \in [DOMAIN InputLengths -> Nat] /\ w.output \in [DOMAIN OutputLengths -> Nat]
      /\ w.task \in Nat /\ <<w.input, w.output>> \in DOMAIN Spread /\ Whole(w.task) \in DOMAIN Pressure
  BY PanelAssumption DEF Deployments, SettingsOK, WorkOf
<1>4. SUFFICES ASSUME NEW bs \in ProbeBatches(l[3]), ProbeMetric(c, l, phase, w, bs) # Absent
               PROVE  ProbeMetric(c, l, phase, w, bs) \in Fraction \X Fraction
  BY DEF ProbesOf, Probes
<1>5. bs \in Nat /\ c.m.shared = Absent
  BY <1>1, <1>2, ProbesAre DEF LayersAlike, Ordinary
<1>6. /\ Kind[x[1]] = "llm" => ~IsDecision(c.m) /\ ~IsEmbedding(c.m) /\ phase = "decode"
      /\ Kind[x[1]] # "llm" => IsDecision(c.m)
  BY <1>1 DEF Judged, PhaseOf
<1> HIDE DEF c, w, phase
<1>7. CASE IsDecision(c.m)
  <2> DEFINE r == Decision(c, l, bs, w.task, 1, 4)
  <2>1. r # Absent /\ ProbeMetric(c, l, phase, w, bs) = <<r.tps, r.rps>>
    BY <1>4, <1>7, MetricIs
  <2>2. r.tps \in Fraction /\ r.rps \in Fraction
    BY <1>1, <1>2, <1>3, <1>5, <2>1, DecisionRates
  <2> QED
    BY <2>1, <2>2
<1>8. CASE ~IsDecision(c.m)
  <2> DEFINE r == Decode(c, l, bs, w.input, w.output, c.dec)
  <2>1. r # Absent /\ ProbeMetric(c, l, phase, w, bs) = <<Whole(r.tps), Zero -- r.step>>
    BY <1>4, <1>6, <1>8, MetricIs
  <2>2. r.tps \in Int /\ r.step \in Fraction
    BY <1>1, <1>2, <1>3, <1>5, <2>1, AnswerRates
  <2> HIDE DEF r
  <2>3. Whole(r.tps) \in Fraction /\ Zero -- r.step \in Fraction
    BY <2>2, WholeIs, Numbers
  <2> QED
    BY <2>1, <2>3
<1> QED
  BY <1>7, <1>8

\* The preferred layout serves, when some layout answers a probe with more than
\* one token per second.
LEMMA BestServes ==
    ASSUME AbsentIsNone, NEW x \in Deployments, LayersAlike(Catalog[x[1]]), Judged(x[1]),
           NEW u \in LayoutTable[x], NEW y \in ProbesOf(x, u), Whole(1) \prec y[1]
    PROVE  BestTable[x] \in UsefulTable[x]
<1> DEFINE c == Context(x)
           phase == PhaseOf(x)
           w == WorkOf(x)
           best == PreferredStrategy(c, x[6], phase, w)
<1>1. BestTable[x] = best /\ LayoutTable[x] = ValidStrategies(c, x[6])
  BY DEF BestTable, LayoutTable, PhaseOf, WorkOf
<1>2. Serves(c) /\ x[6] \in Nat
  BY ContextServes, PlannedLayout
<1>3. c.g.node \in Nat
  BY <1>2 DEF Serves, GpuOK
<1>4. ASSUME NEW l \in LayoutTable[x]
      PROVE  Scorable(c, l, phase, w)
  <2> DEFINE e == IF phase = "prefill" THEN c.pre ELSE c.dec
  <2>1. /\ l[1] \in Nat /\ l[1] > 0 /\ l[1] \in DOMAIN Log2 /\ l[2] \in Nat /\ l[2] > 0
        /\ l[3] \in Nat /\ l[3] > 0
    BY <1>4, PlannedLayout
  <2>2. EfficiencyOK(e)
    BY <1>2 DEF Serves
  <2>3. Probes(c, l, phase, w) \subseteq Fraction \X Fraction
    BY <1>4, ProbesMeasured DEF ProbesOf
  <2> HIDE DEF c, phase, w
  <2>4. CacheBudget(c, l[1], l[2], e) # Absent => CacheBudget(c, l[1], l[2], e) \in Fraction
    <3> HIDE DEF e
    <3> QED
      BY <1>2, <2>1, <2>2, BudgetIs DEF Quantity
  <2> QED
    BY <1>3, <2>1, <2>3, <2>4 DEF Scorable
<1>5. u \in ValidStrategies(c, x[6]) /\ y \in Probes(c, u, phase, w)
  BY <1>1 DEF ProbesOf
<1> HIDE DEF c, phase, w
<1>6. best \in ValidStrategies(c, x[6]) /\ Probes(c, best, phase, w) # {}
  BY <1>1, <1>2, <1>4, <1>5, PreferredIs
<1> HIDE DEF best
<1>7. best \in LayoutTable[x] /\ ProbesOf(x, best) # {}
  BY <1>1, <1>6 DEF ProbesOf, c, phase, w
<1> QED
  BY <1>1, <1>7, ProbedServes

-----------------------------------------------------------------------------
(* The panel with the calculator behind it.                                *)

LEMMA DeployedRow ==
    ASSUME AllocInv, NEW i \in DOMAIN models, Deployed(models[i])
    PROVE  RowOf(i) \in Deployments /\ models[i].decode \in ValidLayouts[RowOf(i)]
<1> DEFINE m == models[i]
<1>1. m \in Assignment /\ m.gpus \in Nat /\ i \in 1..Len(models) /\ Hosted(m, pools)
  BY GpusNow DEF AllocInv, GoodPanel, Good
<1>2. /\ m.gpus > 0 /\ m.pool \in Pool /\ pools[m.pool] # None
      /\ m.decode \in ValidOn(m.key, m.gpus, m.prec, m.spec, pools[m.pool].type, env)
  BY <1>1 DEF Deployed, Valid
<1>3. pools \in PoolTable /\ pools[m.pool].type \in GpuType /\ pools[m.pool].count \in 1..MaxCount
  BY <1>2, PoolKinds DEF AllocInv, GoodPools
<1>4. m.gpus \in 1..MaxCount
  <2>1. Used(models, m.pool) <= pools[m.pool].count /\ models \in Seq(Assignment)
    BY <1>2 DEF AllocInv, GoodPanel
  <2>2. Counted(models)
    BY DEF AllocInv, GoodPanel, Good, Hosted, Counted
  <2>3. Share(m, m.pool) <= Used(models, m.pool) /\ Used(models, m.pool) \in Nat
    BY <1>1, <2>1, <2>2, ShareOfUsed
  <2>4. Share(m, m.pool) = m.gpus
    BY DEF Share
  <2> QED
    BY <1>1, <1>2, <1>3, <2>1, <2>3, <2>4, HardwareAssumption
<1>5. RowOf(i) \in Deployments
  BY <1>1, <1>3, <1>4 DEF RowOf, Deployments, Assignment, AllocInv
<1> QED
  BY <1>2, <1>5 DEF RowOf, ValidOn

\* The capacity announced for a text model is what its GPUs hold: whatever the
\* panel did, every stage of a deployed layout has room for its layers, its part
\* of the drafter and the caches of the announced requests, which are served
\* together, while one more is refused (_data_capacity, _prefill_metrics,
\* decode_metrics and max_slots of calc.py, valid_strategies of placement.py).
THEOREM CapacityKept ==
    AbsentIsNone /\ Calculated /\ PlainRequests => (AllocSpec => []CapacityHonest)
<1>1. AbsentIsNone /\ Calculated /\ PlainRequests /\ AllocInv => CapacityHonest
  <2> SUFFICES ASSUME AbsentIsNone, Calculated, PlainRequests, AllocInv, NEW i \in DOMAIN models,
                      Kind[models[i].key] = "llm", Deployed(models[i])
               PROVE  models[i].decode \in Honest[RowOf(i)]
    BY DEF CapacityHonest
  <2> DEFINE x == RowOf(i)
             l == models[i].decode
  <2>1. x \in Deployments /\ l \in LayoutTable[x]
    BY DeployedRow DEF Calculated
  <2>2. x[1] = models[i].key /\ x[1] \in Key /\ x[5] \in Env
    BY <2>1 DEF RowOf, Deployments
  <2>3. /\ LayersAlike(Catalog[x[1]])
        /\ Settings[x[5]].input > 0 /\ Settings[x[5]].work.hitRate \prec Whole(1)
    BY <2>2 DEF PlainRequests
  <2>4. Kind[x[1]] = "llm"
    BY <2>2
  <2> HIDE DEF x, l
  <2>5. l \in HonestTable[x]
    BY <2>1, <2>3, <2>4, LayoutsHonest
  <2> QED
    BY <2>5 DEF Calculated, x, l
<1>2. ASSUME AbsentIsNone, Calculated, PlainRequests PROVE AllocSpec => []CapacityHonest
  <2>1. AllocInv => CapacityHonest
    BY <1>1, <1>2
  <2> QED
    BY <2>1, AllocInvariantHolds, PTL
<1> QED
  BY <1>2

LEMMA UsefulIsJudged ==
    ASSUME PlainModels, NEW x \in Deployments, UsefulTable[x] # {}
    PROVE  Judged(x[1]) /\ LayersAlike(Catalog[x[1]])
<1> DEFINE c == Context(x)
           w == WorkOf(x)
<1>1. c.m = Catalog[x[1]] /\ x[1] \in Key
  BY DEF Context, Deployments
<1>2. PICK l \in LayoutTable[x] :
        IF Kind[x[1]] = "llm" THEN DecodeCapacity(c, l, w.input, w.output, c.dec) > 0
        ELSE Decision(c, l, 1, w.task, 1, 4) # Absent
  BY DEF UsefulTable, WorkOf
<1> HIDE DEF c, w
<1>3. Kind[x[1]] # "llm" => IsDecision(c.m)
  BY <1>2 DEF Decision, DecisionAllowed
<1>4. Kind[x[1]] = "llm" => ~IsDecision(c.m)
  <2>1. ASSUME IsDecision(c.m), NEW n, NEW i, NEW o
        PROVE  Decode(c, l, n, i, o, c.dec) = Absent
    BY <2>1 DEF Decode, DecodeCore
  <2>2. IsDecision(c.m) => DecodeCapacity(c, l, w.input, w.output, c.dec) = 0
    BY <2>1 DEF DecodeCapacity
  <2> QED
    BY <1>2, <2>2
<1> QED
  BY <1>1, <1>3, <1>4 DEF Judged, PlainModels

\* A layout the planner chose serves requests of the panel's mix whenever some
\* layout of the same GPUs does (_preferred_strategy of placement.py).
THEOREM ChosenServes ==
    AbsentIsNone /\ Calculated /\ PlainModels /\ Brisk => (AllocSpec => []ChosenLayoutServes)
<1>1. AbsentIsNone /\ Calculated /\ PlainModels /\ Brisk /\ AllocInv => ChosenLayoutServes
  <2> SUFFICES ASSUME AbsentIsNone, Calculated, PlainModels, Brisk, AllocInv, NEW i \in DOMAIN models,
                      Deployed(models[i]), models[i].decode = BestLayout[RowOf(i)],
                      Useful[RowOf(i)] # {}
               PROVE  models[i].decode \in Useful[RowOf(i)]
    BY DEF ChosenLayoutServes
  <2> DEFINE x == RowOf(i)
  <2>1. x \in Deployments /\ UsefulTable[x] # {} /\ models[i].decode = BestTable[x]
    BY DeployedRow DEF Calculated
  <2> HIDE DEF x
  <2>2. Judged(x[1]) /\ LayersAlike(Catalog[x[1]])
    BY <2>1, UsefulIsJudged
  <2>3. PICK l \in LayoutTable[x] : \E bs \in ProbeBatches(l[3]) :
          Answer(x, l, bs) # Absent /\ Whole(1) \prec Answer(x, l, bs)[1]
    BY <2>1 DEF Brisk, Calculated
  <2>4. \E y \in ProbesOf(x, l) : Whole(1) \prec y[1]
    <3>1. PICK bs \in ProbeBatches(l[3]) :
            Answer(x, l, bs) # Absent /\ Whole(1) \prec Answer(x, l, bs)[1]
      BY <2>3
    <3>2. Answer(x, l, bs) \in ProbesOf(x, l)
      BY <3>1 DEF Answer, ProbesOf, Probes, PhaseOf, WorkOf
    <3> QED
      BY <3>1, <3>2
  <2>5. BestTable[x] \in UsefulTable[x]
    BY <2>1, <2>2, <2>4, BestServes
  <2> QED
    BY <2>1, <2>5 DEF Calculated, x
<1>2. ASSUME AbsentIsNone, Calculated, PlainModels, Brisk PROVE AllocSpec => []ChosenLayoutServes
  <2>1. AllocInv => ChosenLayoutServes
    BY <1>1, <1>2
  <2> QED
    BY <2>1, AllocInvariantHolds, PTL
<1> QED
  BY <1>2
=============================================================================
