------------------------------ MODULE Roofline ------------------------------
(***************************************************************************)
(* What a step of a model costs on a GPU (calc.py): the operations of the  *)
(* attention layers, the rate of the kernels that run them, the messages   *)
(* between the GPUs of a replica and the cost of a paged cache.            *)
(*                                                                         *)
(* Operations are whole numbers, seconds and rates are fractions.  Powers  *)
(* and roots of the paging model are the tables Log2, Pressure and Spread. *)
(***************************************************************************)
EXTENDS KvCache, FiniteSets

CONSTANTS
  Log2,       \* GPU count -> its logarithm
  Pressure,   \* length -> _paged_kv_pressure
  Spread,     \* distributions of prompts and answers -> their mean pressure
  Delay,      \* [hop, schedule, reject, launch]: the fixed delays of calc.py, in seconds
  LongContext \* LONG_CTX_DCP_SEQ

ASSUME PagingAssumption ==
  /\ \A n \in DOMAIN Log2 : Amount(Log2[n])
  /\ \A x \in DOMAIN Pressure : Amount(Pressure[x])
  /\ \A x \in DOMAIN Spread : Amount(Spread[x])
  /\ \A d \in {Delay.hop, Delay.schedule, Delay.reject, Delay.launch} : Amount(d)

-----------------------------------------------------------------------------
(* A GPU is [key, vendor, mem, bw, bf16, fp8, fp4, link, node, network]: fp4 *)
(* is zero where there is none, link is the one-way bandwidth to the GPUs of *)
(* its node, network the bandwidth between nodes.                            *)

GpuOK(g) ==
  /\ {g.mem, g.bw, g.bf16, g.fp8, g.link, g.node, g.network} \subseteq Nat \ {0}
  /\ g.fp4 \in Nat

Nvfp4Gpus == { "RTXPRO6000_BSE", "RTXPRO6000_BW_WS", "RTXPRO5000_BW_72", "RTX5090", "DGX_SPARK",
               "GB200", "B200", "B300", "GB300", "DGX_STATION_GB300", "JETSON_AGX_THOR" }
Mxfp4Gpus == Nvfp4Gpus \cup {"MI350X", "MI355X", "MI455X", "HELIOS_MI455X", "MI400"}

(* pool_gpu: a machine's shape replaces the catalog's, and its network card is *)
(* no faster than the GPU's own link.                                          *)
PoolGpu(base, machine, card) ==
  [base EXCEPT !.node    = IF machine > 0 THEN machine ELSE @,
               !.network = IF card > 0 THEN Smaller(card, Larger(base.link, @)) ELSE @]

NativeFormats(g) ==
  IF g.fp4 = 0 THEN {}
  ELSE {f \in {"nvfp4", "mxfp4"} : g.key \in (IF f = "nvfp4" THEN Nvfp4Gpus ELSE Mxfp4Gpus)}

(* gpu_flops: an FP4 format without hardware support pays for unpacking. *)
GpuFlops(g, prec) ==
  CASE prec = "bf16"            -> Whole(g.bf16)
    [] prec = "fp8"             -> Whole(g.fp8)
    [] prec \in NativeFormats(g) -> Whole(g.fp4)
    [] OTHER -> Whole(IF g.fp8 > 0 THEN g.fp8 ELSE g.bf16)
                  ** (IF prec = "mxfp4" THEN Frac(3, 4) ELSE Frac(13, 20))

(* resolve_execution: the path of the kernels, or "unsupported". *)
Compressed(g, m) ==
  IF g.vendor \in {"nv", "amd"} THEN "w4a16" ELSE "unsupported"

FourBitPath(g, m, prec) ==
  LET native == prec \in NativeFormats(g)
      recipe == /\ m.key = "nemotron35-lightning"
                /\ g.key = "DGX_SPARK"
                /\ m.runtime = "vllm"
  IN  IF m.backend = "native" /\ ~native THEN "unsupported"
      ELSE IF m.backend = "w4a16" \/ (m.backend = "auto" /\ (~native \/ recipe))
           THEN Compressed(g, m) ELSE "native"

ExecutionPath(g, m, prec) ==
  LET p == ServedProfile(m, prec)
  IN  IF m.backend \in {"legacy", "expanded"} THEN m.backend
      ELSE IF p # Absent /\ p.gguf /\ p.shares = [f \in {"bf16"} |-> Whole(1)] THEN "w4a16"
      ELSE IF prec \in {"mxfp4", "nvfp4"} THEN FourBitPath(g, m, prec)
      ELSE IF m.backend = "w4a16" THEN "unsupported" ELSE prec

Supported(g, m, prec) == ExecutionPath(g, m, prec) # "unsupported"

(* model_gpu_flops of a supported path: the formats take turns, each at its rate. *)
ModelFlops(g, m, prec, phase) ==
  LET path   == ExecutionPath(g, m, prec)
      shares == ComputeShares(m, prec, phase)
      rate(f) == IF path = "w4a16" /\ f \in {"mxfp4", "nvfp4"} THEN Whole(g.bf16)
                 ELSE GpuFlops(g, f)
  IN  CASE path = "expanded" -> Whole(g.bf16)
        [] path # "expanded" /\ ServedProfile(m, prec) = Absent ->
             IF path = "w4a16" THEN Whole(g.bf16) ELSE GpuFlops(g, prec)
        [] OTHER -> Whole(1) // Total([f \in DOMAIN shares |-> shares[f] // rate(f)],
                                           DOMAIN shares)

(* operator_compute_seconds: attention does not run at the rate of the weights. *)
ComputeSeconds(g, m, prec, linear, attention, phase) ==
  LET rate == ModelFlops(g, m, prec, phase)
  IN  IF m.backend = "legacy" THEN (linear ++ attention) // rate
      ELSE (linear // rate) ++ (attention // Whole(g.bf16))

-----------------------------------------------------------------------------
(* Operations of attention. *)

RowFlops(m) ==
  2 * (IF m.mla /\ m.mlaKv > 0 THEN 2 * m.mlaKv + m.mlaRope ELSE m.headDim + ValueDim(m))

LinearWork(m, seq) == m.linearLayers * LinearHeads(m) * LinearDim(m) * LinearDim(m) * seq

(* _sparse_indexer_work: decoding scans once, a prompt once per position. *)
IndexerWork(m, pr, seq, positions) ==
  LET scanned == CASE IsCompressed(m) /\ m.indexAt > 0 ->
                        Cardinality({i \in DOMAIN Ratios(m) : Ratios(m)[i] = m.indexAt})
                          * (seq \div m.indexAt)
                   [] ~(IsCompressed(m) /\ m.indexAt > 0) /\ m.indexRatio > 0 ->
                        m.indexLayers * CeilDiv(seq, m.indexRatio)
                   [] OTHER -> m.indexLayers * seq
  IN  IF m.indexLayers = 0 THEN 0
      ELSE 2 * pr * m.indexHeads * m.indexDim * positions * scanned

(* A layer of shared sparse attention: the decoder layers of a prompt only   *)
(* replay its last window, a decoding step asks once.                        *)
SharedLayerWork(m, pr, seq, prefill, i) ==
  LET replay  == WindowRows(m, seq)
      queries == IF ~prefill THEN 1 ELSE IF i <= m.shared.encoder THEN seq ELSE replay
      rows    == replay + IF m.ratios[i] > 0 THEN Smaller(seq \div m.ratios[i], m.topK) ELSE 0
      scan    == IF i \in m.shared.indexSources
                 THEN 2 * m.indexHeads * m.indexDim * SharedIndexRows(m, seq, i) ELSE 0
  IN  pr * queries * (QueryHeads(m) * RowFlops(m) * rows + scan)

SharedWork(m, pr, seq, pp, prefill) ==
  PeakLayerWork([i \in DOMAIN m.ratios |-> Whole(SharedLayerWork(m, pr, seq, prefill, i))],
                Len(m.ratios), pp)

(* _decode_attention_work *)
DecodeAttention(m, pr, seq, pp) ==
  LET dense == QueryHeads(m) * RowFlops(m) * ReadFull(m) * SparseRows(m, seq)
                 + 4 * LocalHeads(m) * LocalHeadDim(m) * ReadLocal(m) * LocalRows(m, seq)
                 + 2 * LinearWork(m, 1)
      gathered == QueryHeads(m) * RowFlops(m) * GatheredContext(m, seq)
      main == IF GatheredContext(m, seq) > 0 THEN gathered ELSE dense
  IN  IF m.shared # Absent THEN SharedWork(m, pr, seq, pp, FALSE)
      ELSE Whole(pr * main + IndexerWork(m, pr, seq, 1)) ** PeakFraction(m, pp)

(* _causal_attention_pairs: a position attends to itself and what precedes it. *)
CausalPairs(seq, window) ==
  IF window = 0 \/ window >= seq THEN (seq * (seq + 1)) \div 2
  ELSE seq * window - (window * (window - 1)) \div 2

(* _prefill_attention_work *)
PrefillAttention(m, pr, seq, pp, causal) ==
  LET pairs(rows) == IF causal THEN CausalPairs(seq, rows) ELSE seq * rows
      dense == 2 * QueryHeads(m) * (m.headDim + ValueDim(m)) * ReadFull(m)
                   * pairs(SparseRows(m, seq))
                 + 4 * LocalHeads(m) * LocalHeadDim(m) * ReadLocal(m) * pairs(LocalRows(m, seq))
                 + 2 * LinearWork(m, seq)
      gathered == QueryHeads(m) * RowFlops(m) * seq * GatheredContext(m, seq)
      main == IF GatheredContext(m, seq) > 0 THEN gathered ELSE dense
  IN  IF m.shared # Absent THEN SharedWork(m, pr, seq, pp, TRUE)
      ELSE Whole(pr * main + IndexerWork(m, pr, seq, seq)) ** PeakFraction(m, pp)

(* prefill_parameter_tokens *)
PrefillTokens(m, seq, pp) ==
  LET encoder == m.shared.encoder
      replay  == WindowRows(m, seq)
  IN  IF m.shared = Absent
      THEN Whole(Or(m.prefillActive, m.active) * seq * Larger(m.passes, 1))
             ** PeakFraction(m, pp)
      ELSE PeakLayerWork([i \in 1..m.layers |->
                            IF i <= encoder THEN Frac(m.prefillActive * seq, encoder)
                            ELSE Frac((m.active - m.prefillActive) * replay, m.layers - encoder)],
                         m.layers, pp)

(* _realtime_audio_encoder_work: the decoding step pays for one audio token. *)
AudioWork(sp, pr, pp) ==
  LET tokens == Larger(sp.audioTokens, 1)
      window == Larger(sp.window, tokens)
  IN  Frac(2 * sp.encoderParams * (tokens - 1) * pr
             + 4 * pr * sp.audioLayers * sp.audioHeads * sp.audioDim * tokens * window, pp)

-----------------------------------------------------------------------------
(* Distributions of prompt and answer lengths. *)

Weights(dist) == [i \in DOMAIN dist |-> Frac(dist[i], Or(SumOf(dist), 1))]

(* _aligned_dist: a distribution of nothing is one of the shortest. *)
Aligned(dist, lengths) ==
  LET values == [i \in DOMAIN lengths |-> IF i \in DOMAIN dist THEN Larger(dist[i], 0) ELSE 0]
  IN  IF SumOf(values) = 0 /\ lengths # <<>> THEN [values EXCEPT ![1] = 1] ELSE values

MeanOf(dist, lengths) ==
  Total([i \in DOMAIN lengths |-> Weights(dist)[i] ** Whole(lengths[i])], DOMAIN lengths)
AvgDist(dist, lengths) == RoundOf(MeanOf(dist, lengths))

(* dist_percentile and _embedding_percentile *)
Percentile(dist, lengths, pct) ==
  LET upto(i) == Total(Weights(dist), 1..i)
      reached == {i \in DOMAIN lengths : pct \preceq upto(i)}
  IN  lengths[IF reached = {} THEN Len(lengths) ELSE CHOOSE i \in reached : \A j \in reached : i <= j]

(* decode_paged_oh and fixed_paged_oh *)
DecodePaging(inDist, outDist, e) == e.paged ** Spread[<<inDist, outDist>>]
FixedPaging(seq, e, scale)       == (e.paged ** scale) ** Pressure[seq]

(* effective_prefill_length: the tokens a prefix cache does not hold. *)
EffectivePrefill(seq, hitRate) ==
  LET miss == Whole(1) -- Least(Largest(hitRate, Zero), Whole(1))
  IN  IF seq = 0 \/ miss = Zero THEN 0 ELSE Larger(1, CeilOf(Whole(seq) ** miss))

-----------------------------------------------------------------------------
(* Messages between the GPUs of a replica. *)

(* _pp_boundary_counts: stages fill the nodes in turn, a stage that does not *)
(* fit what is left of a node starts the next one.                           *)
NodeOf(i, tp, g) == i \div (g.node \div tp)
InnerBoundaries(tp, pp, g) ==
  IF tp > g.node THEN 0
  ELSE Cardinality({i \in 1..(pp - 1) : NodeOf(i, tp, g) = NodeOf(i - 1, tp, g)})
CrossBoundaries(tp, pp, g) == pp - 1 - InnerBoundaries(tp, pp, g)

Message(m, tokens) == tokens ** Whole(2 * Hidden(m))

(* _dense_tp_oh: two ring reductions per layer of a stage. *)
DenseTp(m, tp, pp, tokens, g, e) ==
  LET bandwidth == Whole(IF tp <= g.node THEN g.link ELSE g.network) ** e.bw
      ring == (Message(m, tokens) ** Frac(2 * (tp - 1), tp)) // bandwidth
  IN  IF tp = 1 THEN Zero
      ELSE (Frac(2 * m.layers, pp) ** (ring ++ Delay.hop))
             ** (Whole(1) -- e.overlap)

(* _pp_boundary_oh *)
PpBoundary(m, tp, pp, tokens, g, e) ==
  LET over(bandwidth) == Message(m, tokens) // (Whole(bandwidth) ** e.bw)
  IN  ((Whole(InnerBoundaries(tp, pp, g)) ** over(g.link))
         ++ (Whole(CrossBoundaries(tp, pp, g)) ** over(g.network)))
        ++ (Whole(pp - 1) ** Delay.hop)

(* communication_breakdown *)
Communication(m, tp, pp, tokens, seq, g, e) ==
  [ dense     |-> DenseTp(m, tp, pp, tokens, g, e),
    boundary  |-> PpBoundary(m, tp, pp, tokens, g, e),
    tpCrosses |-> tp > g.node,
    ppCrosses |-> CrossBoundaries(tp, pp, g),
    experts   |-> m.moe /\ tp * pp > g.node,
    context   |-> ~IsEmbedding(m) /\ Whole(LongContext) \preceq seq
                    /\ (tp > 1 \/ KvGroups(m, tp) > 1) ]
CommTotal(c) == c.dense ++ c.boundary

Bubble(pp, batches)  == Whole(1) ++ Frac(pp - 1, batches)
TailMultiplier(m, e) == IF m.moe THEN e.moe ELSE Whole(1)

(* context_supported *)
ContextSupported(m, input, output) == input + output <= m.context
=============================================================================
