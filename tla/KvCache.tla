------------------------------ MODULE KvCache ------------------------------
(***************************************************************************)
(* The bytes a served sequence occupies and the bytes one decoding step    *)
(* reads of it (calc.py): dense, latent, sliding-window, compressed,       *)
(* sparse and shared attention, and the state of linear attention.         *)
(*                                                                         *)
(* Sequence lengths are whole numbers.  The memo tables of the code are    *)
(* left out: MemoKey and the shape determine what they hold.               *)
(***************************************************************************)
EXTENDS ModelShape, FiniteSets

-----------------------------------------------------------------------------
(* Pipeline stages: contiguous blocks of layers of one width. *)

(* Mutant of PeakFraction: the layers of a stage on average. *)
MeanFraction(m, pp) == Frac(1, Smaller(pp, m.layers))

PeakFraction(m, pp) ==
  LET stages == Smaller(pp, m.layers) IN Frac(CeilDiv(m.layers, stages), m.layers)

StageStarts(n, pp) ==
  LET width == CeilDiv(n, Smaller(pp, n)) IN {k \in 1..n : (k - 1) % width = 0}
Stage(n, pp, first) == first..Smaller(n, first + CeilDiv(n, Smaller(pp, n)) - 1)

(* _peak_layer_work: the busiest stage, for layers of unequal work. *)
PeakLayerWork(work, n, pp) ==
  LargestOf({Total(work, Stage(n, pp, k)) : k \in StageStarts(n, pp)})

-----------------------------------------------------------------------------
(* Tensor-parallel shards. *)

(* Heads are split over the ranks, or copied when there are fewer of them. *)
HeadGroups(heads, tp) == IF tp <= Larger(heads, 1) THEN 1 ELSE tp \div Larger(heads, 1)
HeadShards(heads, tp) == Larger(tp \div HeadGroups(heads, tp), 1)
KvShards(m, tp)       == HeadShards(m.kvHeads, tp)
AlignedShards(heads, tp) == Gcd[<<Larger(heads, 1), Larger(tp, 1)>>]

TpSupported(m, tp) ==
  /\ m.heads % tp = 0
  /\ IF m.mla /\ ~m.mlaTp THEN tp = 1
     ELSE \A h \in {Larger(m.kvHeads, 1)}
                     \cup {x \in {m.globalKvHeads} : x > 0}
                     \cup {x \in {LocalKvHeads(m)} : m.localLayers > 0} :
            (tp <= h /\ h % tp = 0) \/ (tp > h /\ tp % h = 0)

KvGroups(m, tp) == IF TpSupported(m, tp) THEN HeadGroups(m.kvHeads, tp) ELSE 1

-----------------------------------------------------------------------------
(* One layer. *)

LayerKvHeads(m, global) ==
  IF global /\ m.globalKvHeads > 0 THEN m.globalKvHeads
  ELSE IF ~global /\ m.localLayers > 0 THEN LocalKvHeads(m)
  ELSE m.kvHeads

LayerKvElems(m, global) ==
  LET dim == IF global /\ m.globalKvHeads > 0 THEN Or(m.globalHeadDim, m.headDim)
             ELSE IF ~global /\ m.localLayers > 0 THEN LocalKvDim(m)
             ELSE m.headDim
  IN  IF m.mla THEN m.mlaKv + m.mlaRope
      ELSE (IF m.sharedKv THEN 1 ELSE 2) * LayerKvHeads(m, global) * dim

LayerKvBytes(m, prec, global) == Whole(LayerKvElems(m, global)) ** KvElem(m, prec)

(* The cached layers, the ones with a sliding window last. *)
CachedLocal(m) == Smaller(IF m.localKvLayers >= 0 THEN m.localKvLayers ELSE m.localLayers,
                          KvLayers(m))
CachedFull(m)  == KvLayers(m) - CachedLocal(m)
ReadLocal(m)   == Smaller(m.localLayers, AttentionLayers(m))
ReadFull(m)    == AttentionLayers(m) - ReadLocal(m)

LocalRows(m, seq)  == IF m.localWindow = 0 THEN seq ELSE Smaller(seq, m.localWindow)
SparseRows(m, seq) == IF m.topK = 0 THEN seq ELSE Smaller(seq, m.topK)

-----------------------------------------------------------------------------
(* Compressed attention: a live window beside one row per ratio tokens. *)

Ratios(m)        == SubSeq(m.ratios, 1, Smaller(Len(m.ratios), AttentionLayers(m)))
IsCompressed(m)  == Ratios(m) # <<>>
WindowRows(m, seq) == Smaller(seq, m.window)

ResidentRows(m, seq, ratio) ==
  IF ratio = 0 THEN (IF m.window > 0 THEN WindowRows(m, seq) ELSE seq)
  ELSE WindowRows(m, seq) + seq \div ratio

GatheredRows(m, seq, ratio) ==
  IF ratio > 0 /\ ratio = m.indexAt /\ m.topK > 0
  THEN WindowRows(m, seq) + Smaller(seq \div ratio, m.topK)
  ELSE ResidentRows(m, seq, ratio)

GatheredContext(m, seq) == SumOf([i \in DOMAIN Ratios(m) |-> GatheredRows(m, seq, Ratios(m)[i])])
ResidentContext(m, seq) == SumOf([i \in DOMAIN Ratios(m) |-> ResidentRows(m, seq, Ratios(m)[i])])

(* _compressed_indexer_cache_bytes: a pooled indexer keeps a key for a partial *)
(* group, the one of compressed layers does not.                               *)
IndexKey(m, prec) ==
  IF Positive(m.indexBytes) THEN m.indexBytes ELSE Whole(m.indexElems) ** KvElem(m, prec)
IndexRows(m, seq, ratio) == IF ratio > 0 /\ ratio = m.indexAt THEN seq \div ratio ELSE 0
IndexBytes(m, seq, prec) ==
  Whole(IF m.indexRatio > 0 THEN m.indexLayers * CeilDiv(seq, m.indexRatio)
        ELSE SumOf([i \in DOMAIN Ratios(m) |-> IndexRows(m, seq, Ratios(m)[i])]))
    ** IndexKey(m, prec)

-----------------------------------------------------------------------------
(* Shared sparse attention: the pools of a few source layers serve all. *)

SharedGlobalBytes(m, seq) ==
  Whole(SumOf([i \in m.shared.kvSources |-> seq \div m.ratios[i]]))
    ** (m.shared.mainRow ++ m.shared.indexRow)
SharedLocalBytes(m, seq) == Whole(m.layers * WindowRows(m, seq)) ** m.shared.localRow
SharedIndexRows(m, seq, layer) ==
  LET rows == seq \div m.ratios[layer]
  IN  IF layer > m.shared.candidateSource THEN Smaller(rows, m.shared.candidates) ELSE rows
SharedMainRows(m, seq) ==
  SumOf([i \in {j \in DOMAIN m.ratios : m.ratios[j] > 0} |-> Smaller(seq \div m.ratios[i], m.topK)])

-----------------------------------------------------------------------------
(* A whole sequence. *)

MainCache(m, seq, prec, fullRows) ==
  (Whole(CachedFull(m) * fullRows) ** LayerKvBytes(m, prec, TRUE))
    ++ (Whole(CachedLocal(m) * LocalRows(m, seq)) ** LayerKvBytes(m, prec, FALSE))

(* kv_cache_bytes_for_sequence *)
CacheOf(m, seq, prec) ==
  IF m.shared # Absent THEN SharedGlobalBytes(m, seq) ++ SharedLocalBytes(m, seq)
  ELSE (IF IsCompressed(m)
        THEN Whole(ResidentContext(m, seq))
               ** LayerKvBytes(m, prec, TRUE)
        ELSE MainCache(m, seq, prec, seq))
         ++ IndexBytes(m, seq, prec)

(* attention_kv_read_bytes_for_sequence *)
ReadOf(m, seq, prec) ==
  CASE m.shared # Absent ->
         SharedLocalBytes(m, seq)
           ++ (Whole(SharedMainRows(m, seq)) ** m.shared.mainRow)
           ++ (Whole(SumOf([i \in m.shared.indexSources |-> SharedIndexRows(m, seq, i)]))
                     ** m.shared.indexRow)
    [] m.shared = Absent /\ IsCompressed(m) ->
         (Whole(GatheredContext(m, seq)) ** LayerKvBytes(m, prec, TRUE))
           ++ IndexBytes(m, seq, prec)
    [] m.shared = Absent /\ ~IsCompressed(m) /\ m.localKvLayers >= 0 ->
         (Whole(ReadFull(m) * SparseRows(m, seq)) ** LayerKvBytes(m, prec, TRUE))
           ++ (Whole(ReadLocal(m) * LocalRows(m, seq)) ** LayerKvBytes(m, prec, FALSE))
           ++ IndexBytes(m, seq, prec)
    [] OTHER -> MainCache(m, seq, prec, SparseRows(m, seq)) ++ IndexBytes(m, seq, prec)

-----------------------------------------------------------------------------
(* The share of one GPU of a replica. *)

HeadSharded(m, prec, tp, fullRows, localRows) ==
  (Whole(fullRows) ** (LayerKvBytes(m, prec, TRUE)
                              // Whole(HeadShards(LayerKvHeads(m, TRUE), tp))))
    ++ (Whole(localRows) ** (LayerKvBytes(m, prec, FALSE)
                              // Whole(HeadShards(LayerKvHeads(m, FALSE), tp))))

(* per_replica_token_kv_cache_bytes: caches that other stages read are kept *)
(* whole on each of them.                                                   *)
TokenCache(m, seq, prec, pp, tp) ==
  LET whole == m.localKvLayers >= 0 /\ KvLayers(m) < AttentionLayers(m)
      cache == IF m.mla THEN CacheOf(m, seq, prec) // Whole(KvShards(m, tp))
               ELSE HeadSharded(m, prec, tp, CachedFull(m) * seq,
                                CachedLocal(m) * LocalRows(m, seq))
  IN  IF m.shared # Absent
      THEN (SharedGlobalBytes(m, seq) ++ (SharedLocalBytes(m, seq) ** PeakFraction(m, pp)))
             // Whole(KvShards(m, tp))
      ELSE cache ** (IF whole THEN Whole(1) ELSE PeakFraction(m, pp))

(* per_replica_token_kv_read_bytes: every consumer of a shared cache reads it. *)
TokenRead(m, seq, prec, pp, tp) ==
  CASE m.localKvLayers >= 0 /\ ~m.mla ->
         HeadSharded(m, prec, tp, ReadFull(m) * seq, ReadLocal(m) * LocalRows(m, seq))
           ** PeakFraction(m, pp)
    [] ~(m.localKvLayers >= 0 /\ ~m.mla) /\ IsCompressed(m) ->
         (ReadOf(m, seq, prec) ** PeakFraction(m, pp)) // Whole(KvShards(m, tp))
    [] OTHER -> TokenCache(m, seq, prec, pp, tp)

(* linear_attention_state_bytes is the case of one GPU. *)
LinearState(m, prec, tp) ==
  LET short == (Whole(m.shortConv) ** ConvElem(m, prec)) // Whole(AlignedShards(m.heads, tp))
      qv    == Frac(LinearHeads(m) * LinearDim(m), AlignedShards(LinearHeads(m), tp))
      keys  == Frac(2 * LinearKHeads(m) * LinearKDim(m), AlignedShards(LinearKHeads(m), tp))
      recurrent == (qv ** Whole(LinearDim(m))) ** RecurrentElem(m, prec)
      conv      == (Whole(LinearConv(m) - 1) ** (qv ++ keys)) ** ConvElem(m, prec)
  IN  IF m.linearLayers = 0 THEN short
      ELSE short ++ (Whole(m.linearLayers) ** (recurrent ++ conv))

RecurrentState(m, prec, pp, tp) == LinearState(m, prec, tp) ** PeakFraction(m, pp)

(* per_replica_kv_cache_bytes: what one sequence occupies. *)
SequenceBytes(m, seq, prec, pp, tp) ==
  TokenCache(m, seq, prec, pp, tp) ++ RecurrentState(m, prec, pp, tp)

(* attention_residual_scratch_bytes *)
ResidualScratch(m, seq, prec, pp, tp) ==
  ((Whole(ResidualSources(m) * seq * Larger(Hidden(m), 1))
      ** Largest(Whole(2), KvElem(m, prec))) ** PeakFraction(m, pp)) // Whole(tp)

(* All the layers of a model weigh and cache as much as each other, and no    *)
(* attention layer has more cached heads than kvHeads says.                   *)
Ordinary(m) ==
  /\ m.shared = Absent
  /\ m.tableParams = 0 /\ m.tableBytes = Zero /\ m.tableLayers = {} /\ ~m.tableOnHost
LayersAlike(m) ==
  /\ Ordinary(m) /\ m.ratios = <<>> /\ m.nativeBytes = Zero
  /\ m.mla \/ (m.indexRatio = 0 /\ \A global \in BOOLEAN : LayerKvHeads(m, global) <= m.kvHeads)

(* What the layers in held keep of a sequence, layer by layer.  Where the      *)
(* catalog does not say which layers differ they count alike.                  *)
LayersCache(m, seq, prec, held) ==
  LET told == held \cap DOMAIN Ratios(m)
      rows == [i \in told |-> ResidentRows(m, seq, m.ratios[i])]
      keys == [i \in told |-> IndexRows(m, seq, m.ratios[i])]
  IN  IF m.shared = Absent /\ IsCompressed(m) /\ m.indexRatio = 0
      THEN (Whole(SumOf(rows)) ** LayerKvBytes(m, prec, TRUE))
             ++ (Whole(SumOf(keys)) ** IndexKey(m, prec))
      ELSE CacheOf(m, seq, prec) ** Frac(Cardinality(held), m.layers)

-----------------------------------------------------------------------------
(* Weights. *)

(* peak_stage_weight_bytes: tables sit on the layers that hold them. *)
StageWeights(m, prec, pp) ==
  IF m.tableLayers = {} \/ m.tableOnHost
  THEN GpuWeightBytes(m, prec) ** PeakFraction(m, pp)
  ELSE LET ordinary == Largest(WeightBytes(m, prec) -- m.tableBytes, Zero)
                         // Whole(m.layers)
       IN  PeakLayerWork([i \in 1..m.layers |->
                            ordinary ++ (IF i \in m.tableLayers
                                             THEN m.tableBytes // Whole(Cardinality(m.tableLayers)) ELSE Zero)],
                         m.layers, pp)
============================================================================
