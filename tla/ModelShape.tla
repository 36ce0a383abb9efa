----------------------------- MODULE ModelShape -----------------------------
(***************************************************************************)
(* What the planner knows of a catalog model (data/model_class.py): its    *)
(* shape, the checkpoint that is served and the bytes both imply.          *)
(*                                                                         *)
(* Parameters and elements are counted, bytes are fractions.  Names,       *)
(* labels, sources and evidence notes are left out.                        *)
(***************************************************************************)
EXTENDS Integers, Sequences, Fractions, TLC

CONSTANTS
  Published,   \* <<model key, artifact>> -> profile of a released checkpoint
  Default,     \* <<model key, precision>> -> the artifact the catalog picks
  Decides,     \* model key -> decision profile
  Absent

(* A profile is [prec, bytes, active, elem, shares, gguf]: stored bytes, bytes *)
(* read per active parameter or Absent, bytes of a cached element, the share of  *)
(* the work done in each format, and whether the container is GGUF.            *)

-----------------------------------------------------------------------------
(* Formats. *)

Precisions == {"bf16", "fp8", "nvfp4", "mxfp4"}

(* PRECISION_SPECS: bytes per parameter with the scales of the blocks. *)
FormatBytes == [bf16 |-> Whole(2), fp8 |-> Whole(1), nvfp4 |-> Frac(9, 16), mxfp4 |-> Frac(17, 32)]
CacheBytes  == [bf16 |-> Whole(2), fp8 |-> Whole(1), nvfp4 |-> Whole(1), mxfp4 |-> Whole(1)]

(* Artifacts: a released checkpoint, the native files or a generic estimate. *)
Legacy       == <<"legacy", "legacy">>
Native(p)    == <<"native", p>>
Estimate(p)  == <<"estimate", p>>

-----------------------------------------------------------------------------
(* The record of a model, with the defaults of the class. *)

PlainModel ==
  [ key |-> "plain", total |-> 1, active |-> 1, moe |-> FALSE, layers |-> 1, heads |-> 1,
    kvHeads |-> 1, headDim |-> 1, mla |-> FALSE, mlaKv |-> 0, mlaRope |-> 0, mlaTp |-> FALSE,
    kvLayers |-> -1, localKvLayers |-> -1, passes |-> 1, bf16Bytes |-> Whole(2),
    fp8Bytes |-> Whole(1), hidden |-> 0, attention |-> -1, localLayers |-> 0, localWindow |-> 0,
    localHeads |-> 0, localHeadDim |-> 0, localKvHeads |-> 0, localKvDim |-> 0,
    globalKvHeads |-> 0, globalHeadDim |-> 0, sharedKv |-> FALSE, linearLayers |-> 0,
    linearHeads |-> 0, linearDim |-> 0, linearKHeads |-> 0, linearKDim |-> 0, linearConv |-> 0,
    shortConv |-> 0, queryHeads |-> 0, valueDim |-> 0, topK |-> 0, indexHeads |-> 0,
    indexDim |-> 0, indexLayers |-> 0, indexRatio |-> 0, indexElems |-> 0, ratios |-> <<>>,
    window |-> 0, indexAt |-> 0, indexBytes |-> Zero, residualBlock |-> 0,
    context |-> 131072, drafters |-> <<>>, native |-> "bf16", prefillActive |-> 0,
    tableParams |-> 0, tableBytes |-> Zero, tableLayers |-> {}, tableOnHost |-> FALSE,
    shared |-> Absent, artifact |-> Legacy, backend |-> "legacy", cache |-> "legacy",
    recurrent |-> "legacy", nativeBytes |-> Zero, readParams |-> 0,
    runtime |-> "generic", speech |-> Absent, embedding |-> Absent ]

(* What the entries of the catalog and the released checkpoints have in common. *)
DrafterOK(d) ==
  /\ {d.params, d.defaultK, d.active} \subseteq Nat /\ d.ks \subseteq Nat \ {0}
  /\ \A a \in {d.alpha, d.kv, d.bytes} : Amount(a)
  /\ \A p \in DOMAIN d.bytesBy : Amount(d.bytesBy[p])
  /\ \A k \in DOMAIN d.alphaBy : Amount(d.alphaBy[k])
ModelOK(m) ==
  /\ {m.total, m.active, m.layers, m.heads} \subseteq Nat \ {0}
  /\ {m.kvLayers, m.localKvLayers, m.attention} \subseteq Nat \cup {-1}
  /\ {m.kvHeads, m.headDim, m.mlaKv, m.mlaRope, m.passes, m.hidden, m.context, m.localLayers,
      m.localWindow, m.localHeads, m.localHeadDim, m.localKvHeads, m.localKvDim, m.globalKvHeads,
      m.globalHeadDim} \subseteq Nat
  /\ {m.linearLayers, m.linearHeads, m.linearDim, m.linearKHeads, m.linearKDim, m.linearConv,
      m.shortConv, m.queryHeads, m.valueDim, m.topK, m.window} \subseteq Nat
  /\ {m.indexHeads, m.indexDim, m.indexLayers, m.indexRatio, m.indexElems, m.indexAt,
      m.residualBlock, m.prefillActive, m.readParams} \subseteq Nat
  /\ m.tableParams \in 0..m.total
  /\ \A a \in {m.bf16Bytes, m.fp8Bytes} : Amount(a) /\ Positive(a)
  /\ \A a \in {m.tableBytes, m.indexBytes, m.nativeBytes} : Amount(a)
  /\ m.ratios \in Seq({m.ratios[i] : i \in DOMAIN m.ratios} \cap Nat)
  /\ m.drafters \in Seq({m.drafters[i] : i \in DOMAIN m.drafters})
  /\ \A i \in DOMAIN m.drafters : DrafterOK(m.drafters[i])

(* QuantizationProfile checks what a captured checkpoint says. *)
ProfileOK(p) ==
  /\ p.prec \in Precisions /\ Amount(p.bytes) /\ Positive(p.bytes) /\ Amount(p.elem)
  /\ p.active = Absent \/ Amount(p.active)
  /\ DOMAIN p.shares \subseteq Precisions
  /\ \A f \in DOMAIN p.shares : Amount(p.shares[f])
  /\ \E f \in DOMAIN p.shares : Positive(p.shares[f])
ASSUME PublishedAssumption == \A x \in DOMAIN Published : ProfileOK(Published[x])

Or(a, b) == IF a = 0 THEN b ELSE a
CeilDiv(a, b) == (a + b - 1) \div b
Smaller(a, b) == IF a < b THEN a ELSE b
Larger(a, b)  == IF a < b THEN b ELSE a

Hidden(m)          == Or(m.hidden, m.heads * m.headDim)
AttentionLayers(m) == IF m.attention < 0 THEN m.layers ELSE m.attention
KvLayers(m)        == IF m.kvLayers < 0 THEN AttentionLayers(m) ELSE m.kvLayers
QueryHeads(m)      == Or(m.queryHeads, m.heads)
ValueDim(m)        == Or(m.valueDim, m.headDim)
LocalHeads(m)      == Or(m.localHeads, QueryHeads(m))
LocalHeadDim(m)    == Or(m.localHeadDim, m.headDim)
LocalKvHeads(m)    == Or(m.localKvHeads, m.kvHeads)
LocalKvDim(m)      == Or(m.localKvDim, LocalHeadDim(m))
LinearHeads(m)     == Or(m.linearHeads, m.heads)
LinearDim(m)       == Or(m.linearDim, m.headDim)
LinearKHeads(m)    == Or(m.linearKHeads, LinearHeads(m))
LinearKDim(m)      == Or(m.linearKDim, LinearDim(m))
LinearConv(m)      == Larger(m.linearConv, 1)

(* attention_residual_source_count: the blocks and the embedding. *)
ResidualSources(m) ==
  IF m.residualBlock = 0 THEN 0 ELSE CeilDiv(m.layers, m.residualBlock) + 1

IsSpeech(m)    == m.speech # Absent
IsEmbedding(m) == m.embedding # Absent
IsDecision(m)  == m.key \in DOMAIN Decides

(* available_spec_profiles: n-gram drafting needs no drafter and comes last. *)
NGram ==
  [ method |-> "ngram", params |-> 0, parallel |-> FALSE, defaultK |-> 5, alpha |-> Frac(7, 20),
    kv |-> Zero, bytes |-> Zero, bytesBy |-> [p \in {} |-> Zero], active |-> 0, ks |-> {},
    alphaBy |-> [k \in {} |-> Zero] ]
Drafters(m) ==
  IF IsSpeech(m) \/ IsEmbedding(m) \/ IsDecision(m) THEN <<>> ELSE Append(m.drafters, NGram)

-----------------------------------------------------------------------------
(* The checkpoint that is served. *)

Profile(key, artifact) ==
  IF <<key, artifact>> \in DOMAIN Published THEN Published[<<key, artifact>>] ELSE Absent
DefaultProfile(key, prec) ==
  IF <<key, prec>> \in DOMAIN Default THEN Profile(key, Default[<<key, prec>>]) ELSE Absent

(* quantization_profile: an artifact chosen for another precision says nothing *)
(* about this one.                                                             *)
ServedProfile(m, prec) ==
  LET chosen == Profile(m.key, m.artifact)
  IN  IF chosen # Absent /\ chosen.prec = prec THEN chosen
      ELSE IF m.artifact = Estimate(prec) THEN Absent
      ELSE DefaultProfile(m.key, prec)

DefaultArtifact(m, prec) ==
  IF ServedProfile(m, prec) # Absent THEN Default[<<m.key, prec>>]
  ELSE IF prec = m.native THEN Native(prec) ELSE Estimate(prec)

(* artifact_precision; an artifact of none of these forms is refused. *)
ArtifactPrecision(m, artifact) ==
  IF Profile(m.key, artifact) # Absent THEN Profile(m.key, artifact).prec ELSE artifact[2]
ArtifactsOf(m) ==
  {a[2] : a \in {x \in DOMAIN Published : x[1] = m.key}}
    \cup {Native(m.native)} \cup {Estimate(p) : p \in Precisions}

(* configured_model: the catalog entry itself while nothing is configured. *)
Configured(m, artifact, backend, cache, recurrent, runtime) ==
  IF /\ backend = "legacy" /\ cache = "legacy" /\ recurrent = "legacy"
     /\ artifact = Legacy \/ artifact = DefaultArtifact(m, ArtifactPrecision(m, artifact))
  THEN m
  ELSE [m EXCEPT !.artifact = artifact, !.backend = backend, !.cache = cache,
                 !.recurrent = recurrent, !.runtime = runtime]

(* cache_key: what the memo tables of calc.py tell models apart by. *)
MemoKey(m) == <<m.key, m.artifact, m.backend, m.cache, m.recurrent, m.runtime>>

-----------------------------------------------------------------------------
(* Bytes. *)

(* weight_bytes_per_param without a profile: the blocks a native FP8 entry keeps *)
(* above one byte are kept below FP8 too.                                        *)
BytesPerParam(m, prec) ==
  CASE m.tableParams > 0 ->
         ((Whole(m.total - m.tableParams) ** FormatBytes[prec]) ++ m.tableBytes)
           // Whole(m.total)
    [] m.tableParams = 0 /\ prec = "bf16" -> m.bf16Bytes
    [] m.tableParams = 0 /\ prec = "fp8"  -> m.fp8Bytes
    [] OTHER -> FormatBytes[prec] ++ Largest(Zero, m.fp8Bytes -- FormatBytes["fp8"])

ServedBytesPerParam(m, prec) ==
  LET p == ServedProfile(m, prec)
  IN  IF p # Absent THEN p.bytes // Whole(m.total) ELSE BytesPerParam(m, prec)

WeightBytes(m, prec) ==
  LET p == ServedProfile(m, prec)
  IN  IF p # Absent THEN p.bytes ELSE Whole(m.total) ** BytesPerParam(m, prec)

HostBytes(m) == IF m.tableOnHost THEN m.tableBytes ELSE Zero

(* gpu_weight_bytes *)
GpuWeightBytes(m, prec) ==
  LET loaded == IF prec = m.native /\ Positive(m.nativeBytes) THEN m.nativeBytes
                ELSE WeightBytes(m, prec) -- HostBytes(m)
      expanded == Whole(2 * (m.total - IF m.tableOnHost THEN m.tableParams ELSE 0))
  IN  IF m.backend = "expanded" THEN Largest(loaded, expanded) ELSE loaded

PhaseParams(m, phase) ==
  IF phase = "prefill" THEN Or(m.prefillActive, m.active) ELSE m.active
PhasesDiffer(m, phase) == phase = "prefill" /\ PhaseParams(m, phase) # m.active

(* compute_shares: without an inventory of a phase's operators all of it is BF16. *)
ComputeShares(m, prec, phase) ==
  LET p == ServedProfile(m, prec)
  IN  IF m.backend # "legacy" /\ PhasesDiffer(m, phase) THEN [f \in {"bf16"} |-> Whole(1)]
      ELSE IF p # Absent THEN p.shares
      ELSE [f \in {prec} |-> Whole(1)]

(* weight_components: the active bytes, format by format. *)
ComponentBytes(m, prec, phase) ==
  LET shares == ComputeShares(m, prec, phase)
  IN  Whole(PhaseParams(m, phase))
        ** Total([f \in DOMAIN shares |-> shares[f] ** FormatBytes[f]], DOMAIN shares)

(* active_weight_bytes: a phase that reads other parameters than decoding has no *)
(* measured override, and falls back on the components.                          *)
ActiveBytes(m, prec, phase) ==
  LET p        == ServedProfile(m, prec)
      params   == PhaseParams(m, phase)
      override == p # Absent /\ p.active # Absent
      per      == IF override THEN p.active ELSE ServedBytesPerParam(m, prec)
      generic  == IF p = Absent /\ m.tableParams > 0 THEN FormatBytes[prec] ELSE per
      kept     == m.readParams = 0 /\ m.backend \notin {"legacy", "expanded"}
      measured == kept /\ override /\ ~PhasesDiffer(m, phase)
  IN  CASE m.readParams > 0 /\ m.backend = "expanded" -> Whole(2 * m.readParams)
        [] m.readParams > 0 /\ m.backend # "expanded" -> Whole(m.readParams) ** per
        [] m.readParams = 0 /\ m.backend = "expanded" -> Whole(2 * params)
        [] measured                                   -> Whole(params) ** p.active
        [] kept /\ ~measured /\ m.moe                 -> ComponentBytes(m, prec, phase)
        [] OTHER -> Whole(IF m.moe THEN m.active ELSE m.total) ** generic

(* Bytes of a cached element, of a recurrent state and of a convolution. *)
KvElem(m, prec) ==
  CASE m.cache = "bf16" -> Whole(2)
    [] m.cache = "fp8"  -> Whole(1)
    [] OTHER -> LET p == ServedProfile(m, prec)
                IN  IF p # Absent THEN p.elem ELSE CacheBytes[prec]
RecurrentElem(m, prec) ==
  CASE m.recurrent = "legacy" -> KvElem(m, prec)
    [] m.recurrent = "bf16"   -> Whole(2)
    [] OTHER                  -> Whole(4)
ConvElem(m, prec) == IF m.recurrent = "legacy" THEN KvElem(m, prec) ELSE Whole(2)
============================================================================
