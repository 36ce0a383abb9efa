---------------------------- MODULE TextCatalog ----------------------------
(***************************************************************************)
(* The text models of the catalog (data/models_text.py), with the family   *)
(* factories of text_support.py and embedding_support.py and the drafter   *)
(* builders of model_class.py.                                             *)
(*                                                                         *)
(* Parameters are counted in millions and weights in megabytes, to the     *)
(* nearest; heads, dimensions, layers, tokens and the bytes of a cached    *)
(* row are exact.  Layers are numbered from one.  Names, colours, sources, *)
(* notes, capabilities and quality anchors are left out.                   *)
(***************************************************************************)
EXTENDS ModelShape

-----------------------------------------------------------------------------
(* Drafters. *)

PlainDrafter ==
  [ method |-> "off", params |-> 0, parallel |-> FALSE, defaultK |-> 1, alpha |-> Zero,
    kv |-> Zero, bytes |-> Zero, bytesBy |-> [p \in {} |-> Zero], active |-> 0, ks |-> {},
    alphaBy |-> [k \in {} |-> Zero] ]

(* A checkpoint that is attached to the model, stored in BF16. *)
Attached(method, params, alpha, k, kv) ==
  [PlainDrafter EXCEPT !.method = method, !.params = params, !.active = params, !.alpha = alpha,
                       !.defaultK = k, !.kv = kv, !.bytes = Whole(2 * params)]

MtpProfile(alpha, active, k) ==
  [Attached("mtp", active, alpha, k, Frac(3, 100)) EXCEPT !.bytes = Zero]
Eagle3Profile(params, alpha, k) == Attached("eagle3", params, alpha, k, Frac(1, 20))
DFlashProfile(params, alpha, k) ==
  [Attached("dflash", params, alpha, k, Frac(2, 25)) EXCEPT !.parallel = TRUE]
DSparkProfile(params, alpha, kv, k) ==
  [Attached("dspark", params, alpha, k, kv) EXCEPT !.parallel = TRUE, !.bytes = Zero,
                                                   !.ks = {k}, !.alphaBy = (k :> alpha)]

-----------------------------------------------------------------------------
(* Families. *)

RwkvModel(key, params, layers, hidden) ==
  [PlainModel EXCEPT !.key = key, !.total = params, !.active = params, !.layers = layers,
                     !.heads = hidden \div 64, !.kvHeads = 0, !.headDim = 64, !.kvLayers = 0,
                     !.hidden = hidden, !.attention = 0, !.linearLayers = layers,
                     !.linearHeads = hidden \div 64, !.linearDim = 64,
                     !.linearKHeads = hidden \div 64, !.linearKDim = 64, !.context = 8192]

LfmModel(key, params, active, layers, attention, hidden, heads, kvHeads, drafters) ==
  [PlainModel EXCEPT !.key = key, !.total = params, !.active = active, !.moe = params # active,
                     !.layers = layers, !.heads = heads, !.kvHeads = kvHeads,
                     !.headDim = hidden \div heads, !.kvLayers = attention, !.hidden = hidden,
                     !.attention = attention, !.queryHeads = heads, !.context = 128000,
                     !.drafters = drafters]

TinyAyaModel(key) ==
  [PlainModel EXCEPT !.key = key, !.total = 3350, !.active = 3350, !.layers = 32, !.heads = 20,
                     !.kvHeads = 8, !.headDim = 128, !.hidden = 2560, !.localLayers = 24,
                     !.localWindow = 4096, !.context = 8192]

-----------------------------------------------------------------------------
(* The entries, in the order of the file. *)

(* n pairs of a layer of ratio four and a layer of ratio 128. *)
Alternating(n) == [i \in 1..(2 * n) |-> IF i % 2 = 1 THEN 4 ELSE 128]

l8 ==
  [PlainModel EXCEPT !.key = "l8", !.total = 8000, !.active = 8000, !.layers = 32, !.heads = 32,
                     !.kvHeads = 8, !.headDim = 128,
                     !.drafters = <<Eagle3Profile(1000, Frac(18, 25), 3)>>]
l70 ==
  [PlainModel EXCEPT !.key = "l70", !.total = 70600, !.active = 70600, !.layers = 80,
                     !.heads = 64, !.kvHeads = 8, !.headDim = 128]
llama33_70b ==
  [PlainModel EXCEPT !.key = "llama33-70b", !.total = 70600, !.active = 70600, !.layers = 80,
                     !.heads = 64, !.kvHeads = 8, !.headDim = 128, !.hidden = 8192]
ge2 ==
  [PlainModel EXCEPT !.key = "ge2", !.total = 2000, !.active = 2000, !.layers = 35, !.heads = 8,
                     !.headDim = 256, !.hidden = 1536, !.localLayers = 28, !.localWindow = 512,
                     !.localHeads = 8, !.localHeadDim = 256, !.localKvHeads = 1,
                     !.localKvDim = 256, !.globalKvHeads = 1, !.globalHeadDim = 256,
                     !.drafters = <<[MtpProfile(Frac(2, 5), 80, 1) EXCEPT !.ks = {1}]>>]
ge4 ==
  [PlainModel EXCEPT !.key = "ge4", !.total = 4000, !.active = 4000, !.layers = 34,
                     !.heads = 24, !.kvHeads = 8, !.headDim = 128,
                     !.drafters = <<[MtpProfile(Frac(2, 5), 79, 1) EXCEPT !.ks = {1}]>>]
g12 ==
  [PlainModel EXCEPT !.key = "g12", !.total = 11950, !.active = 11950, !.layers = 48,
                     !.heads = 16, !.kvHeads = 8, !.headDim = 256, !.hidden = 3840,
                     !.attention = 48, !.localLayers = 40, !.localWindow = 1024,
                     !.globalKvHeads = 1, !.globalHeadDim = 512, !.sharedKv = TRUE]
g26 ==
  [PlainModel EXCEPT !.key = "g26", !.total = 26000, !.active = 4000, !.moe = TRUE,
                     !.layers = 30, !.heads = 16, !.kvHeads = 2, !.headDim = 512,
                     !.hidden = 2816, !.localLayers = 25, !.localWindow = 1024,
                     !.localHeads = 16, !.localHeadDim = 256, !.localKvHeads = 8,
                     !.localKvDim = 256, !.globalKvHeads = 2, !.globalHeadDim = 512,
                     !.sharedKv = TRUE, !.context = 262144,
                     !.drafters = <<[MtpProfile(Frac(2, 5), 400, 1) EXCEPT !.ks = {1}],
                                    Eagle3Profile(900, Frac(3, 5), 5)>>]
g31 ==
  [PlainModel EXCEPT !.key = "g31", !.total = 30700, !.active = 30700, !.layers = 60,
                     !.heads = 32, !.kvHeads = 16, !.headDim = 256, !.hidden = 5376,
                     !.attention = 60, !.localLayers = 50, !.localWindow = 1024,
                     !.localHeadDim = 256, !.localKvHeads = 16, !.localKvDim = 256,
                     !.globalKvHeads = 4, !.globalHeadDim = 512, !.sharedKv = TRUE,
                     !.context = 262144,
                     !.drafters = <<[MtpProfile(Frac(2, 5), 470, 1) EXCEPT !.bytes = Whole(939),
                                    !.ks = {1}],
                                    Eagle3Profile(2000, Frac(3, 5), 5),
                                    DFlashProfile(4000, Frac(18, 25), 8)>>]
lfm2_5_350m ==
  LfmModel("lfm2.5-350m", 354, 354, 16, 6, 1024, 16, 8, <<>>)
lfm2_5_1_2b_instruct ==
  LfmModel("lfm2.5-1.2b-instruct", 1170, 1170, 16, 6, 2048, 32, 8,
           <<[DSparkProfile(296, Frac(234, 281), Zero, 9) EXCEPT !.bytes = Whole(591)]>>)
lfm2_5_1_2b_thinking ==
  LfmModel("lfm2.5-1.2b-thinking", 1170, 1170, 16, 6, 2048, 32, 8, <<>>)
lfm2_700m ==
  LfmModel("lfm2-700m", 742, 742, 16, 6, 1536, 24, 8, <<>>)
lfm2_2_6b ==
  LfmModel("lfm2-2.6b", 2569, 2569, 30, 8, 2048, 32, 8, <<>>)
lfm2_8b_a1b ==
  LfmModel("lfm2-8b-a1b", 8300, 1500, 24, 6, 2048, 32, 8, <<>>)
lfm2_24b_a2b ==
  LfmModel("lfm2-24b-a2b", 24000, 2300, 40, 10, 2048, 32, 8, <<>>)
lfm2_5_2_6b ==
  LfmModel("lfm2.5-2.6b", 2697, 2697, 30, 8, 2048, 32, 8,
           <<[DSparkProfile(328, Frac(504, 613), Zero, 9) EXCEPT !.bytes = Whole(655)]>>)
lfm2_5_8b_a1b ==
  LfmModel("lfm2.5-8b-a1b", 8468, 1500, 24, 6, 2048, 32, 8,
           <<[DSparkProfile(328, Frac(664, 725), Zero, 9) EXCEPT !.bytes = Whole(655)]>>)
lfm2_5_vl_3b ==
  [PlainModel EXCEPT !.key = "lfm2.5-vl-3b", !.total = 3123, !.active = 3123, !.layers = 30,
                     !.heads = 32, !.kvHeads = 8, !.headDim = 64, !.kvLayers = 8,
                     !.hidden = 2048, !.attention = 8, !.context = 32768]
rwkv7_g1d_01b == RwkvModel("rwkv7-g1d-01b", 100, 12, 768)
rwkv7_g1d_04b == RwkvModel("rwkv7-g1d-04b", 400, 24, 1024)
rwkv7_g1f_15b == RwkvModel("rwkv7-g1f-15b", 1500, 24, 2048)
rwkv7_g1f_29b == RwkvModel("rwkv7-g1f-29b", 2900, 32, 2560)
rwkv7_g1g_72b == RwkvModel("rwkv7-g1g-72b", 7200, 32, 4096)
rwkv7_g1g_133b == RwkvModel("rwkv7-g1g-133b", 13300, 61, 4096)
q08 ==
  [PlainModel EXCEPT !.key = "q08", !.total = 800, !.active = 800, !.layers = 24, !.heads = 8,
                     !.kvHeads = 2, !.headDim = 256, !.hidden = 1024, !.attention = 6,
                     !.linearLayers = 18, !.linearHeads = 16, !.linearDim = 128,
                     !.linearKHeads = 16, !.linearKDim = 128, !.linearConv = 4,
                     !.context = 262144,
                     !.drafters = <<[MtpProfile(Frac(13, 20), 35, 1) EXCEPT !.ks = {1}]>>]
q2 ==
  [PlainModel EXCEPT !.key = "q2", !.total = 2000, !.active = 2000, !.layers = 24, !.heads = 8,
                     !.kvHeads = 2, !.headDim = 256, !.hidden = 2048, !.attention = 6,
                     !.linearLayers = 18, !.linearHeads = 16, !.linearDim = 128,
                     !.linearKHeads = 16, !.linearKDim = 128, !.linearConv = 4,
                     !.context = 262144,
                     !.drafters = <<[MtpProfile(Frac(13, 20), 80, 1) EXCEPT !.ks = {1}]>>]
q4 ==
  [PlainModel EXCEPT !.key = "q4", !.total = 4000, !.active = 4000, !.layers = 32, !.heads = 16,
                     !.kvHeads = 4, !.headDim = 256, !.hidden = 2560, !.attention = 8,
                     !.linearLayers = 24, !.linearHeads = 32, !.linearDim = 128,
                     !.linearKHeads = 16, !.linearKDim = 128, !.linearConv = 4,
                     !.context = 262144,
                     !.drafters = <<[MtpProfile(Frac(13, 20), 125, 1) EXCEPT !.ks = {1}]>>]
q9 ==
  [PlainModel EXCEPT !.key = "q9", !.total = 9200, !.active = 9200, !.layers = 32, !.heads = 16,
                     !.kvHeads = 4, !.headDim = 256, !.hidden = 4096, !.attention = 8,
                     !.linearLayers = 24, !.linearHeads = 32, !.linearDim = 128,
                     !.linearKHeads = 16, !.linearKDim = 128, !.linearConv = 4,
                     !.context = 262144,
                     !.drafters = <<[MtpProfile(Frac(13, 20), 290, 1) EXCEPT !.ks = {1}]>>]
q27 ==
  [PlainModel EXCEPT !.key = "q27", !.total = 27800, !.active = 27800, !.layers = 64,
                     !.heads = 24, !.kvHeads = 4, !.headDim = 256, !.hidden = 5120,
                     !.attention = 16, !.linearLayers = 48, !.linearHeads = 48,
                     !.linearDim = 128, !.linearKHeads = 16, !.linearKDim = 128,
                     !.linearConv = 4, !.context = 262144,
                     !.drafters =
                       <<[MtpProfile(Frac(274, 301), 430, 3) EXCEPT
                            !.ks = {3, 7, 15},
                            !.alphaBy = (3 :> Frac(274, 301)) @@ (7 :> Frac(879, 1000))
                                          @@ (15 :> Frac(589, 686))],
                         [DFlashProfile(2000, Frac(511, 583), 8) EXCEPT
                            !.bytes = Whole(4260), !.ks = {4, 8, 16},
                            !.alphaBy = (4 :> Frac(761, 925)) @@ (8 :> Frac(511, 583))
                                          @@ (16 :> Frac(595, 673))]>>]
q35 ==
  [PlainModel EXCEPT !.key = "q35", !.total = 35000, !.active = 3000, !.moe = TRUE,
                     !.layers = 40, !.heads = 16, !.kvHeads = 2, !.headDim = 256,
                     !.hidden = 2048, !.attention = 10, !.linearLayers = 30, !.linearHeads = 32,
                     !.linearDim = 128, !.linearKHeads = 16, !.linearKDim = 128,
                     !.linearConv = 4, !.context = 262144,
                     !.drafters = <<[MtpProfile(Frac(7, 10), 100, 3) EXCEPT !.params = 550]>>]
q122 ==
  [PlainModel EXCEPT !.key = "q122", !.total = 122000, !.active = 10000, !.moe = TRUE,
                     !.layers = 48, !.heads = 32, !.kvHeads = 2, !.headDim = 256,
                     !.hidden = 3072, !.attention = 12, !.linearLayers = 36, !.linearHeads = 64,
                     !.linearDim = 128, !.linearKHeads = 16, !.linearKDim = 128,
                     !.linearConv = 4, !.context = 262144,
                     !.drafters = <<[MtpProfile(Frac(7, 10), 150, 3) EXCEPT !.params = 1300]>>]
q397 ==
  [PlainModel EXCEPT !.key = "q397", !.total = 397000, !.active = 17000, !.moe = TRUE,
                     !.layers = 60, !.heads = 32, !.kvHeads = 2, !.headDim = 256,
                     !.hidden = 4096, !.attention = 15, !.linearLayers = 45, !.linearHeads = 64,
                     !.linearDim = 128, !.linearKHeads = 16, !.linearKDim = 128,
                     !.linearConv = 4, !.context = 262144,
                     !.drafters = <<[MtpProfile(Frac(7, 10), 200, 3) EXCEPT !.params = 4200],
                                    DFlashProfile(1000, Frac(39, 50), 8)>>]
qwen38_27b ==
  [PlainModel EXCEPT !.key = "qwen38-27b", !.total = 27781, !.active = 27781, !.layers = 64,
                     !.heads = 24, !.kvHeads = 4, !.headDim = 256, !.hidden = 5120,
                     !.attention = 16, !.linearLayers = 48, !.linearHeads = 48,
                     !.linearDim = 128, !.linearKHeads = 16, !.linearKDim = 128,
                     !.linearConv = 4, !.context = 262144]
qwen38_flash_next ==
  [PlainModel EXCEPT !.key = "qwen38-flash-next", !.total = 180000, !.active = 6000,
                     !.moe = TRUE, !.layers = 48, !.heads = 24, !.kvHeads = 2, !.headDim = 256,
                     !.kvLayers = 12, !.hidden = 2560, !.attention = 12, !.linearLayers = 36,
                     !.linearHeads = 48, !.linearDim = 128, !.linearKHeads = 16,
                     !.linearKDim = 128, !.linearConv = 4, !.topK = 2048, !.indexHeads = 4,
                     !.indexDim = 128, !.indexLayers = 12, !.context = 262144]
qwen38_2_4t_a95b ==
  [PlainModel EXCEPT !.key = "qwen38-2.4t-a95b", !.total = 2446183, !.active = 95000,
                     !.moe = TRUE, !.layers = 92, !.heads = 64, !.kvHeads = 4, !.headDim = 256,
                     !.hidden = 8192, !.attention = 23, !.linearLayers = 69,
                     !.linearHeads = 128, !.linearDim = 128, !.linearKHeads = 16,
                     !.linearKDim = 128, !.linearConv = 4, !.context = 262144]
muse_glimmer_30b ==
  [PlainModel EXCEPT !.key = "muse-glimmer-30b", !.total = 29777, !.active = 29777,
                     !.layers = 52, !.heads = 32, !.kvHeads = 2, !.headDim = 128,
                     !.hidden = 6656, !.attention = 52, !.localLayers = 39,
                     !.localWindow = 2048, !.localHeads = 32, !.localHeadDim = 128,
                     !.localKvHeads = 2, !.localKvDim = 128, !.globalKvHeads = 2,
                     !.globalHeadDim = 128]
hy4_preview ==
  [PlainModel EXCEPT !.key = "hy4-preview", !.total = 770000, !.active = 49000, !.moe = TRUE,
                     !.layers = 78, !.heads = 64, !.kvHeads = 8, !.headDim = 256, !.mla = TRUE,
                     !.mlaKv = 512, !.mlaRope = 64, !.mlaTp = TRUE, !.hidden = 6144,
                     !.valueDim = 256, !.topK = 2048, !.indexHeads = 32, !.indexDim = 128,
                     !.indexLayers = 21, !.context = 1048576, !.native = "fp8"]
glm45a ==
  [PlainModel EXCEPT !.key = "glm45a", !.total = 106000, !.active = 12000, !.moe = TRUE,
                     !.layers = 46, !.heads = 96, !.kvHeads = 8, !.headDim = 128,
                     !.hidden = 4096,
                     !.drafters = <<[MtpProfile(Frac(7, 10), 250, 3) EXCEPT !.params = 1900]>>]
glm45 ==
  [PlainModel EXCEPT !.key = "glm45", !.total = 355000, !.active = 32000, !.moe = TRUE,
                     !.layers = 92, !.heads = 96, !.kvHeads = 8, !.headDim = 128,
                     !.hidden = 5120,
                     !.drafters = <<[MtpProfile(Frac(7, 10), 550, 3) EXCEPT !.params = 5800]>>]
glm46 ==
  [PlainModel EXCEPT !.key = "glm46", !.total = 357000, !.active = 32000, !.moe = TRUE,
                     !.layers = 92, !.heads = 96, !.kvHeads = 8, !.headDim = 128,
                     !.hidden = 5120, !.context = 202752,
                     !.drafters = <<[MtpProfile(Frac(7, 10), 550, 3) EXCEPT !.params = 5800]>>]
glm47 ==
  [PlainModel EXCEPT !.key = "glm47", !.total = 358000, !.active = 32000, !.moe = TRUE,
                     !.layers = 92, !.heads = 96, !.kvHeads = 8, !.headDim = 128,
                     !.hidden = 5120, !.context = 202752,
                     !.drafters = <<[MtpProfile(Frac(7, 10), 550, 3) EXCEPT !.params = 5800]>>]
glm47f ==
  [PlainModel EXCEPT !.key = "glm47f", !.total = 31000, !.active = 3000, !.moe = TRUE,
                     !.layers = 47, !.heads = 20, !.kvHeads = 20, !.headDim = 256, !.mla = TRUE,
                     !.mlaKv = 512, !.mlaRope = 64, !.mlaTp = TRUE, !.hidden = 2048,
                     !.context = 202752,
                     !.drafters = <<[MtpProfile(Frac(7, 10), 100, 3) EXCEPT !.params = 650]>>]
glm5 ==
  [PlainModel EXCEPT !.key = "glm5", !.total = 744000, !.active = 40000, !.moe = TRUE,
                     !.layers = 78, !.heads = 64, !.kvHeads = 64, !.headDim = 256, !.mla = TRUE,
                     !.mlaKv = 512, !.mlaRope = 64, !.mlaTp = TRUE, !.hidden = 6144,
                     !.topK = 2048, !.indexHeads = 32, !.indexDim = 128, !.indexLayers = 78,
                     !.context = 202752,
                     !.drafters = <<[MtpProfile(Frac(7, 10), 600, 3) EXCEPT !.params = 10400]>>]
glm51 ==
  [PlainModel EXCEPT !.key = "glm51", !.total = 744000, !.active = 40000, !.moe = TRUE,
                     !.layers = 78, !.heads = 64, !.kvHeads = 64, !.headDim = 256, !.mla = TRUE,
                     !.mlaKv = 512, !.mlaRope = 64, !.mlaTp = TRUE, !.hidden = 6144,
                     !.topK = 2048, !.indexHeads = 32, !.indexDim = 128, !.indexLayers = 78,
                     !.context = 202752,
                     !.drafters = <<[MtpProfile(Frac(7, 10), 600, 3) EXCEPT !.params = 9900]>>]
glm52 ==
  [PlainModel EXCEPT !.key = "glm52", !.total = 744000, !.active = 40000, !.moe = TRUE,
                     !.layers = 78, !.heads = 64, !.kvHeads = 64, !.headDim = 256, !.mla = TRUE,
                     !.mlaKv = 512, !.mlaRope = 64, !.mlaTp = TRUE, !.hidden = 6144,
                     !.topK = 2048, !.indexHeads = 32, !.indexDim = 128, !.indexLayers = 21,
                     !.context = 1048576,
                     !.drafters = <<[MtpProfile(Frac(37, 50), 650, 4) EXCEPT !.params = 9400]>>]
glm53 ==
  [PlainModel EXCEPT !.key = "glm53", !.total = 744000, !.active = 40000, !.moe = TRUE,
                     !.layers = 78, !.heads = 64, !.kvHeads = 64, !.headDim = 256, !.mla = TRUE,
                     !.mlaKv = 512, !.mlaRope = 64, !.mlaTp = TRUE, !.hidden = 6144,
                     !.topK = 2048, !.indexHeads = 32, !.indexDim = 128, !.indexLayers = 21,
                     !.context = 1048576, !.native = "fp8"]
glm53f ==
  [PlainModel EXCEPT !.key = "glm53f", !.total = 320000, !.active = 18000, !.moe = TRUE,
                     !.layers = 45, !.heads = 64, !.kvHeads = 64, !.headDim = 256, !.mla = TRUE,
                     !.mlaKv = 512, !.mlaTp = TRUE, !.kvLayers = 11,
                     !.fp8Bytes = Frac(385, 384), !.hidden = 4096, !.attention = 11,
                     !.linearLayers = 34, !.linearHeads = 64, !.linearDim = 128,
                     !.linearKHeads = 64, !.linearKDim = 128, !.linearConv = 4, !.topK = 2048,
                     !.indexHeads = 32, !.indexDim = 128, !.indexLayers = 11, !.indexRatio = 4,
                     !.indexElems = 4096, !.context = 1048576,
                     !.drafters = <<[MtpProfile(Frac(2, 5), 386, 1) EXCEPT !.params = 7433,
                                    !.ks = {1}, !.bytesBy = ("fp8" :> Whole(7493))]>>,
                     !.native = "fp8"]
k25 ==
  [PlainModel EXCEPT !.key = "k25", !.total = 1000000, !.active = 32000, !.moe = TRUE,
                     !.layers = 61, !.heads = 64, !.headDim = 112, !.mla = TRUE, !.mlaKv = 512,
                     !.mlaRope = 64, !.bf16Bytes = Frac(27, 20), !.fp8Bytes = Frac(11, 10),
                     !.context = 262144]
kimi_k3 ==
  [PlainModel EXCEPT !.key = "kimi-k3", !.total = 2780000, !.active = 104200, !.moe = TRUE,
                     !.layers = 93, !.heads = 96, !.kvHeads = 96, !.headDim = 128, !.mla = TRUE,
                     !.mlaKv = 512, !.mlaRope = 64, !.mlaTp = TRUE, !.kvLayers = 24,
                     !.hidden = 7168, !.attention = 24, !.linearLayers = 69, !.linearHeads = 96,
                     !.linearDim = 128, !.linearKHeads = 96, !.linearKDim = 128,
                     !.linearConv = 4, !.residualBlock = 12, !.context = 1048576,
                     !.drafters = <<[DSparkProfile(4000, Frac(714, 923), Frac(5, 24), 7)
                                    EXCEPT !.bytes = Whole(8000)]>>,
                     !.native = "mxfp4"]
kimi_linear_48b ==
  [PlainModel EXCEPT !.key = "kimi-linear-48b", !.total = 48000, !.active = 3000, !.moe = TRUE,
                     !.layers = 27, !.heads = 32, !.kvHeads = 32, !.headDim = 72, !.mla = TRUE,
                     !.mlaKv = 512, !.mlaRope = 64, !.mlaTp = TRUE, !.kvLayers = 7,
                     !.hidden = 2304, !.attention = 7, !.linearLayers = 20, !.linearHeads = 32,
                     !.linearDim = 128, !.linearKHeads = 32, !.linearKDim = 128,
                     !.linearConv = 4, !.context = 1048576]
inkling ==
  [PlainModel EXCEPT !.key = "inkling", !.total = 975000, !.active = 41000, !.moe = TRUE,
                     !.layers = 66, !.heads = 64, !.kvHeads = 16, !.headDim = 128,
                     !.hidden = 6144, !.localLayers = 55, !.localWindow = 512,
                     !.localHeads = 64, !.localKvHeads = 16, !.localKvDim = 128,
                     !.globalKvHeads = 8, !.globalHeadDim = 128, !.context = 1048576]
inkling_small_preview ==
  [PlainModel EXCEPT !.key = "inkling-small-preview", !.total = 276000, !.active = 12000,
                     !.moe = TRUE, !.layers = 42, !.heads = 32, !.kvHeads = 8, !.headDim = 128,
                     !.hidden = 4096, !.localLayers = 35, !.localWindow = 512,
                     !.localHeads = 32, !.localKvHeads = 8, !.globalKvHeads = 8,
                     !.globalHeadDim = 128, !.context = 1048576]
command_a_plus_05_2026 ==
  [PlainModel EXCEPT !.key = "command-a-plus-05-2026", !.total = 218000, !.active = 25000,
                     !.moe = TRUE, !.layers = 32, !.heads = 128, !.kvHeads = 8, !.headDim = 128,
                     !.hidden = 4096, !.localLayers = 24, !.localWindow = 4096,
                     !.localHeads = 128]
command_a_03_2025 ==
  [PlainModel EXCEPT !.key = "command-a-03-2025", !.total = 111000, !.active = 111000,
                     !.layers = 80, !.heads = 64, !.kvHeads = 8, !.headDim = 128,
                     !.hidden = 8192, !.localLayers = 60, !.localWindow = 4096,
                     !.context = 262144]
command_r7b_12_2024 ==
  [PlainModel EXCEPT !.key = "command-r7b-12-2024", !.total = 7000, !.active = 7000,
                     !.layers = 32, !.heads = 32, !.kvHeads = 8, !.headDim = 128,
                     !.hidden = 4096]
north_mini_code_1_0 ==
  [PlainModel EXCEPT !.key = "north-mini-code-1-0", !.total = 30000, !.active = 3000,
                     !.moe = TRUE, !.layers = 49, !.heads = 32, !.kvHeads = 4, !.headDim = 128,
                     !.hidden = 2048, !.localLayers = 36, !.localWindow = 4096,
                     !.localHeads = 32, !.context = 262144]
tiny_aya_global == TinyAyaModel("tiny-aya-global")
tiny_aya_earth == TinyAyaModel("tiny-aya-earth")
tiny_aya_fire == TinyAyaModel("tiny-aya-fire")
tiny_aya_water == TinyAyaModel("tiny-aya-water")
minimax25 ==
  [PlainModel EXCEPT !.key = "minimax25", !.total = 229000, !.active = 10000, !.moe = TRUE,
                     !.layers = 62, !.heads = 48, !.kvHeads = 8, !.headDim = 128,
                     !.hidden = 3072, !.context = 196608,
                     !.drafters = <<[MtpProfile(Frac(4, 5), 200, 2) EXCEPT !.params = 5000,
                                    !.bytes = Whole(10500)]>>]
minimax27 ==
  [PlainModel EXCEPT !.key = "minimax27", !.total = 229000, !.active = 10000, !.moe = TRUE,
                     !.layers = 62, !.heads = 48, !.kvHeads = 8, !.headDim = 128,
                     !.hidden = 3072, !.context = 204800,
                     !.drafters = <<[MtpProfile(Frac(4, 5), 200, 2) EXCEPT !.params = 5000,
                                    !.bytes = Whole(10500)]>>]
minimax3 ==
  [PlainModel EXCEPT !.key = "minimax3", !.total = 428000, !.active = 23000, !.moe = TRUE,
                     !.layers = 60, !.heads = 64, !.kvHeads = 4, !.headDim = 128,
                     !.hidden = 6144, !.topK = 2048, !.indexHeads = 4, !.indexDim = 128,
                     !.indexLayers = 60, !.context = 1048576,
                     !.drafters = <<[MtpProfile(Frac(13, 20), 500, 7) EXCEPT !.params = 3500,
                                    !.ks = {7}]>>]
nem3s ==
  [PlainModel EXCEPT !.key = "nem3s", !.total = 120000, !.active = 12000, !.moe = TRUE,
                     !.layers = 88, !.heads = 32, !.kvHeads = 2, !.headDim = 128,
                     !.kvLayers = 8, !.hidden = 4096, !.context = 1048576]
nem3n ==
  [PlainModel EXCEPT !.key = "nem3n", !.total = 31600, !.active = 3200, !.moe = TRUE,
                     !.layers = 52, !.heads = 32, !.kvHeads = 2, !.headDim = 128,
                     !.kvLayers = 6, !.hidden = 2688, !.context = 1048576]
nemotron35_lightning ==
  [PlainModel EXCEPT !.key = "nemotron35-lightning", !.total = 31578, !.active = 3200,
                     !.moe = TRUE, !.layers = 52, !.heads = 32, !.kvHeads = 2, !.headDim = 128,
                     !.kvLayers = 6, !.hidden = 2688, !.attention = 6, !.linearLayers = 23,
                     !.linearHeads = 64, !.linearDim = 64, !.linearKHeads = 64,
                     !.linearKDim = 64, !.linearConv = 4, !.context = 1048576,
                     !.drafters = <<[DSparkProfile(967, Frac(159, 208), Zero, 7)
                                    EXCEPT !.bytes = Whole(1934)]>>]
nem3no ==
  [PlainModel EXCEPT !.key = "nem3no", !.total = 30000, !.active = 3000, !.moe = TRUE,
                     !.layers = 52, !.heads = 32, !.kvHeads = 2, !.headDim = 128,
                     !.kvLayers = 6, !.hidden = 2688, !.context = 262144]
ds3 ==
  [PlainModel EXCEPT !.key = "ds3", !.total = 671000, !.active = 37000, !.moe = TRUE,
                     !.layers = 61, !.heads = 128, !.headDim = 288, !.mla = TRUE, !.mlaKv = 512,
                     !.mlaRope = 64, !.bf16Bytes = Frac(27, 20), !.fp8Bytes = Frac(11, 10),
                     !.hidden = 7168, !.context = 163840,
                     !.drafters = <<[MtpProfile(Frac(7, 8), 700, 1) EXCEPT !.params = 11000]>>]
deepseek_v4_1_flash ==
  [PlainModel EXCEPT !.key = "deepseek-v4.1-flash", !.total = 748000, !.active = 16000,
                     !.moe = TRUE, !.layers = 40, !.heads = 64, !.headDim = 512, !.mla = TRUE,
                     !.mlaKv = 512, !.mlaTp = TRUE, !.hidden = 5120, !.topK = 512,
                     !.indexHeads = 32, !.indexDim = 128, !.indexLayers = 8,
                     !.ratios = [i \in 1..40 |-> IF i <= 2 THEN 0 ELSE IF i <= 20 THEN 2 ELSE 1],
                     !.window = 128, !.context = 1048576, !.native = "mxfp4",
                     !.prefillActive = 8000, !.tableParams = 196000,
                     !.tableBytes = Whole(202758), !.tableLayers = {2, 15},
                     !.tableOnHost = TRUE,
                     !.shared = [encoder |-> 20, kvSources |-> {3, 9, 15, 21},
                                 indexSources |-> {3, 9, 15, 21, 25, 29, 33, 37},
                                     candidateSource |-> 21, candidates |-> 16384,
                                        mainRow |-> Whole(288), indexRow |-> Whole(68),
                                        localRow |-> Whole(528)]]
deepseek_v4_pro ==
  [PlainModel EXCEPT !.key = "deepseek-v4-pro", !.total = 1600000, !.active = 49000,
                     !.moe = TRUE, !.layers = 61, !.heads = 128, !.headDim = 512, !.mla = TRUE,
                     !.mlaKv = 512, !.mlaRope = 64, !.mlaTp = TRUE, !.bf16Bytes = Frac(27, 20),
                     !.fp8Bytes = Frac(7, 10), !.hidden = 7168, !.topK = 1024,
                     !.indexHeads = 64, !.indexDim = 128, !.indexLayers = 30,
                     !.ratios = <<128, 128>> \o Alternating(29) \o <<4>>, !.window = 128,
                     !.indexAt = 4, !.indexBytes = Whole(132), !.context = 1048576,
                     !.native = "mxfp4"]
deepseek_v4_flash ==
  [PlainModel EXCEPT !.key = "deepseek-v4-flash", !.total = 284000, !.active = 13000,
                     !.moe = TRUE, !.layers = 43, !.heads = 64, !.headDim = 512, !.mla = TRUE,
                     !.mlaKv = 512, !.mlaRope = 64, !.mlaTp = TRUE, !.bf16Bytes = Frac(27, 20),
                     !.fp8Bytes = Frac(7, 10), !.hidden = 4096, !.topK = 512, !.indexHeads = 64,
                     !.indexDim = 128, !.indexLayers = 20,
                     !.ratios = <<0, 0>> \o Alternating(19) \o <<4, 0, 0>>, !.window = 128,
                     !.indexAt = 4, !.indexBytes = Whole(132), !.context = 1048576,
                     !.drafters = <<[DSparkProfile(20000, Frac(714, 923), Zero, 7)
                                    EXCEPT !.bytes = Whole(40000)]>>,
                     !.native = "mxfp4"]
mi7 ==
  [PlainModel EXCEPT !.key = "mi7", !.total = 7000, !.active = 7000, !.layers = 32,
                     !.heads = 32, !.kvHeads = 8, !.headDim = 128, !.context = 32768]
mx87 ==
  [PlainModel EXCEPT !.key = "mx87", !.total = 46700, !.active = 12900, !.moe = TRUE,
                     !.layers = 32, !.heads = 32, !.kvHeads = 8, !.headDim = 128,
                     !.context = 32768]
cs22 ==
  [PlainModel EXCEPT !.key = "cs22", !.total = 22000, !.active = 22000, !.layers = 56,
                     !.heads = 48, !.kvHeads = 8, !.headDim = 128, !.hidden = 6144,
                     !.context = 32768]
ms24 ==
  [PlainModel EXCEPT !.key = "ms24", !.total = 24000, !.active = 24000, !.layers = 40,
                     !.heads = 32, !.kvHeads = 8, !.headDim = 128, !.hidden = 5120]
ms32 ==
  [PlainModel EXCEPT !.key = "ms32", !.total = 24000, !.active = 24000, !.layers = 40,
                     !.heads = 32, !.kvHeads = 8, !.headDim = 128, !.hidden = 5120]
mm31 ==
  [PlainModel EXCEPT !.key = "mm31", !.total = 24000, !.active = 24000, !.layers = 40,
                     !.heads = 32, !.kvHeads = 8, !.headDim = 128]
mistral_medium_3_5_preview ==
  [PlainModel EXCEPT !.key = "mistral-medium-3.5-preview", !.total = 128000, !.active = 128000,
                     !.layers = 88, !.heads = 96, !.kvHeads = 8, !.headDim = 128,
                     !.context = 262144]
mistral_medium_3_5 ==
  [PlainModel EXCEPT !.key = "mistral-medium-3.5", !.total = 128000, !.active = 128000,
                     !.layers = 88, !.heads = 96, !.kvHeads = 8, !.headDim = 128,
                     !.hidden = 12288, !.context = 262144, !.native = "fp8"]
ms4 ==
  [PlainModel EXCEPT !.key = "ms4", !.total = 119000, !.active = 6500, !.moe = TRUE,
                     !.layers = 36, !.heads = 32, !.kvHeads = 32, !.headDim = 128, !.mla = TRUE,
                     !.mlaKv = 256, !.mlaRope = 64, !.mlaTp = TRUE, !.hidden = 4096,
                     !.valueDim = 128, !.context = 262144, !.native = "fp8"]
ml3 ==
  [PlainModel EXCEPT !.key = "ml3", !.total = 675000, !.active = 41000, !.moe = TRUE,
                     !.layers = 61, !.heads = 128, !.kvHeads = 128, !.headDim = 192,
                     !.mla = TRUE, !.mlaKv = 512, !.mlaRope = 64, !.mlaTp = TRUE,
                     !.hidden = 7168, !.valueDim = 128, !.context = 262144, !.native = "fp8"]
ml123 ==
  [PlainModel EXCEPT !.key = "ml123", !.total = 123000, !.active = 123000, !.layers = 88,
                     !.heads = 96, !.kvHeads = 8, !.headDim = 128]
n3 ==
  [PlainModel EXCEPT !.key = "n3", !.total = 3000, !.active = 3000, !.layers = 26, !.heads = 32,
                     !.kvHeads = 8, !.headDim = 128, !.hidden = 3072, !.context = 262144]
granite42_3b ==
  [PlainModel EXCEPT !.key = "granite42-3b", !.total = 3660, !.active = 3660, !.layers = 40,
                     !.heads = 40, !.kvHeads = 8, !.headDim = 64, !.hidden = 2560]
granite42_8b ==
  [PlainModel EXCEPT !.key = "granite42-8b", !.total = 8792, !.active = 8792, !.layers = 40,
                     !.heads = 32, !.kvHeads = 8, !.headDim = 128, !.hidden = 4096]
granite42_30b ==
  [PlainModel EXCEPT !.key = "granite42-30b", !.total = 29277, !.active = 29277, !.layers = 64,
                     !.heads = 32, !.kvHeads = 8, !.headDim = 128, !.hidden = 4096]
n8 ==
  [PlainModel EXCEPT !.key = "n8", !.total = 8000, !.active = 8000, !.layers = 34, !.heads = 32,
                     !.kvHeads = 8, !.headDim = 128, !.hidden = 4096, !.context = 262144]
n14 ==
  [PlainModel EXCEPT !.key = "n14", !.total = 14000, !.active = 14000, !.layers = 40,
                     !.heads = 32, !.kvHeads = 8, !.headDim = 128, !.hidden = 5120,
                     !.context = 262144]
dv24 ==
  [PlainModel EXCEPT !.key = "dv24", !.total = 24000, !.active = 24000, !.layers = 40,
                     !.heads = 32, !.kvHeads = 8, !.headDim = 128, !.hidden = 5120,
                     !.context = 393216]
dv123 ==
  [PlainModel EXCEPT !.key = "dv123", !.total = 123000, !.active = 123000, !.layers = 88,
                     !.heads = 96, !.kvHeads = 8, !.headDim = 128, !.hidden = 12288,
                     !.context = 262144]
zaya1_8b ==
  [PlainModel EXCEPT !.key = "zaya1-8b", !.total = 8300, !.active = 760, !.moe = TRUE,
                     !.layers = 40, !.heads = 16, !.kvHeads = 2, !.headDim = 128,
                     !.kvLayers = 40, !.hidden = 2048, !.attention = 40, !.queryHeads = 8]
zaya1_74b_preview ==
  [PlainModel EXCEPT !.key = "zaya1-74b-preview", !.total = 74000, !.active = 4000,
                     !.moe = TRUE, !.layers = 120, !.heads = 16, !.kvHeads = 2, !.headDim = 128,
                     !.kvLayers = 60, !.hidden = 4096, !.attention = 60, !.localLayers = 30,
                     !.localWindow = 4096]
laguna_m1 ==
  [PlainModel EXCEPT !.key = "laguna-m1", !.total = 225000, !.active = 23000, !.moe = TRUE,
                     !.layers = 70, !.heads = 64, !.kvHeads = 8, !.headDim = 128,
                     !.hidden = 4096, !.context = 262144]
laguna_xs2 ==
  [PlainModel EXCEPT !.key = "laguna-xs2", !.total = 33000, !.active = 3000, !.moe = TRUE,
                     !.layers = 40, !.heads = 48, !.kvHeads = 8, !.headDim = 128,
                     !.hidden = 2048, !.localLayers = 30, !.localWindow = 512,
                     !.localHeads = 64]
laguna_xs_2_1 ==
  [PlainModel EXCEPT !.key = "laguna-xs-2-1", !.total = 33000, !.active = 3000, !.moe = TRUE,
                     !.layers = 40, !.heads = 48, !.kvHeads = 8, !.headDim = 128,
                     !.hidden = 2048, !.localLayers = 30, !.localWindow = 512,
                     !.localHeads = 64, !.context = 262144]
laguna_s_2_1 ==
  [PlainModel EXCEPT !.key = "laguna-s-2-1", !.total = 118000, !.active = 8000, !.moe = TRUE,
                     !.layers = 48, !.heads = 48, !.kvHeads = 8, !.headDim = 128,
                     !.hidden = 3072, !.localLayers = 36, !.localWindow = 512,
                     !.localHeads = 72, !.context = 1048576]
mimo_v2_5_pro ==
  [PlainModel EXCEPT !.key = "mimo-v2.5-pro", !.total = 1020000, !.active = 42000, !.moe = TRUE,
                     !.layers = 70, !.heads = 128, !.kvHeads = 8, !.headDim = 192,
                     !.bf16Bytes = Frac(27, 20), !.fp8Bytes = Frac(11, 10), !.hidden = 6144,
                     !.localLayers = 60, !.localWindow = 128, !.localHeads = 128,
                     !.localHeadDim = 192, !.localKvHeads = 8, !.localKvDim = 128,
                     !.globalKvHeads = 8, !.globalHeadDim = 128, !.context = 1048576,
                     !.drafters = <<[MtpProfile(Frac(17, 20), 600, 1) EXCEPT !.params = 14600],
                                    DFlashProfile(3000, Frac(39, 50), 16)>>]
mimo_v2_5 ==
  [PlainModel EXCEPT !.key = "mimo-v2.5", !.total = 310000, !.active = 15000, !.moe = TRUE,
                     !.layers = 48, !.heads = 64, !.kvHeads = 8, !.headDim = 192,
                     !.bf16Bytes = Frac(27, 20), !.fp8Bytes = Frac(11, 10), !.hidden = 4096,
                     !.localLayers = 39, !.localWindow = 128, !.localHeads = 64,
                     !.localHeadDim = 192, !.localKvHeads = 4, !.localKvDim = 128,
                     !.globalKvHeads = 8, !.globalHeadDim = 128, !.context = 1048576,
                     !.drafters = <<[MtpProfile(Frac(17, 20), 310, 1) EXCEPT !.params = 6500]>>]
cr13 ==
  [PlainModel EXCEPT !.key = "cr13", !.total = 1300, !.active = 1300, !.layers = 24,
                     !.heads = 16, !.kvHeads = 16, !.headDim = 128, !.hidden = 2048,
                     !.context = 2048]
beam_1_0_501b_a23b ==
  [PlainModel EXCEPT !.key = "beam-1.0-501b-a23b", !.total = 501268, !.active = 23400,
                     !.moe = TRUE, !.layers = 52, !.heads = 48, !.kvHeads = 8, !.headDim = 128,
                     !.hidden = 5120, !.localLayers = 43, !.localWindow = 512,
                     !.context = 1048576, !.prefillActive = 23400]
mimo_v2_6_flash_rl ==
  [mimo_v2_5 EXCEPT !.key = "mimo-v2.6-flash-rl", !.total = 310756, !.active = 15000,
                    !.prefillActive = 15000, !.valueDim = 128, !.localKvHeads = 8,
                    !.globalKvHeads = 4, !.native = "mxfp4", !.drafters = <<>>]
mimo_v2_6_pro_rl ==
  [mimo_v2_5_pro EXCEPT !.key = "mimo-v2.6-pro-rl", !.total = 1024217, !.active = 42000,
                        !.prefillActive = 42000, !.valueDim = 128, !.localKvHeads = 8,
                        !.globalKvHeads = 8, !.native = "mxfp4", !.drafters = <<>>]
mimo_v2_6_distill_qwen_9b ==
  [q9 EXCEPT !.key = "mimo-v2.6-distill-qwen-9b", !.total = 9410, !.active = 9410,
             !.prefillActive = 9410, !.drafters = <<>>]
ternary_bonsai_2_2b ==
  [q2 EXCEPT !.key = "ternary-bonsai-2-2b", !.total = 2210, !.active = 2210,
             !.prefillActive = 2210, !.drafters = <<>>, !.native = "bf16"]
ternary_bonsai_2_4b ==
  [q4 EXCEPT !.key = "ternary-bonsai-2-4b", !.total = 4540, !.active = 4540,
             !.prefillActive = 4540, !.drafters = <<>>, !.native = "bf16"]
ternary_bonsai_2_9b ==
  [q9 EXCEPT !.key = "ternary-bonsai-2-9b", !.total = 9410, !.active = 9410,
             !.prefillActive = 9410, !.drafters = <<>>, !.native = "bf16"]
ternary_bonsai_2_27b ==
  [qwen38_27b EXCEPT !.key = "ternary-bonsai-2-27b", !.total = 27781, !.active = 27781,
                     !.prefillActive = 27781, !.drafters = <<>>, !.native = "bf16"]
lfm2_5_24b_a2b ==
  [lfm2_24b_a2b EXCEPT !.key = "lfm2.5-24b-a2b", !.total = 23972, !.active = 2450,
                       !.prefillActive = 2450, !.context = 131072, !.drafters = <<>>]
mellum2_1_12b_a2_5b_thinking ==
  [PlainModel EXCEPT !.key = "mellum2.1-12b-a2.5b-thinking", !.total = 12150, !.active = 2500,
                     !.moe = TRUE, !.layers = 28, !.heads = 32, !.kvHeads = 4, !.headDim = 128,
                     !.hidden = 2304, !.localLayers = 21, !.localWindow = 1024,
                     !.prefillActive = 2500]
hy_memory_30b_a3b ==
  [PlainModel EXCEPT !.key = "hy-memory-30b-a3b", !.total = 30065, !.active = 3000,
                     !.moe = TRUE, !.layers = 48, !.heads = 32, !.kvHeads = 4, !.headDim = 128,
                     !.hidden = 2048, !.context = 262144, !.prefillActive = 3000]
nemotron35_super_vl ==
  [nem3s EXCEPT !.key = "nemotron35-super-vl", !.total = 124453, !.active = 12000,
                !.prefillActive = 12000, !.attention = 8, !.linearLayers = 40,
                !.linearHeads = 128, !.linearDim = 128, !.linearKHeads = 128, !.linearKDim = 64,
                !.linearConv = 4, !.context = 1048576, !.native = "bf16"]
nemotron35_bolt_74b ==
  [nem3s EXCEPT !.key = "nemotron35-bolt-74b", !.total = 74000, !.active = 9000,
                !.prefillActive = 9000, !.attention = 8, !.linearLayers = 40,
                !.linearHeads = 128, !.linearDim = 128, !.linearKHeads = 128, !.linearKDim = 64,
                !.linearConv = 4, !.context = 262144, !.native = "bf16"]
muse_spark_open_816b_a42b ==
  [PlainModel EXCEPT !.key = "muse-spark-open-816b-a42b", !.total = 822037, !.active = 42000,
                     !.moe = TRUE, !.layers = 62, !.heads = 128, !.kvHeads = 16, !.headDim = 64,
                     !.hidden = 8192, !.context = 1048576, !.prefillActive = 42000]

TextModels ==
  { l8, l70, llama33_70b, ge2, ge4, g12, g26, g31, lfm2_5_350m, lfm2_5_1_2b_instruct,
    lfm2_5_1_2b_thinking, lfm2_700m, lfm2_2_6b, lfm2_8b_a1b, lfm2_24b_a2b, lfm2_5_2_6b,
    lfm2_5_8b_a1b, lfm2_5_vl_3b, rwkv7_g1d_01b, rwkv7_g1d_04b, rwkv7_g1f_15b, rwkv7_g1f_29b,
    rwkv7_g1g_72b, rwkv7_g1g_133b, q08, q2, q4, q9, q27, q35, q122, q397, qwen38_27b,
    qwen38_flash_next, qwen38_2_4t_a95b, muse_glimmer_30b, hy4_preview, glm45a, glm45, glm46,
    glm47, glm47f, glm5, glm51, glm52, glm53, glm53f, k25, kimi_k3, kimi_linear_48b, inkling,
    inkling_small_preview, command_a_plus_05_2026, command_a_03_2025, command_r7b_12_2024,
    north_mini_code_1_0, tiny_aya_global, tiny_aya_earth, tiny_aya_fire, tiny_aya_water,
    minimax25, minimax27, minimax3, nem3s, nem3n, nemotron35_lightning, nem3no, ds3,
    deepseek_v4_1_flash, deepseek_v4_pro, deepseek_v4_flash, mi7, mx87, cs22, ms24, ms32, mm31,
    mistral_medium_3_5_preview, mistral_medium_3_5, ms4, ml3, ml123, n3, granite42_3b,
    granite42_8b, granite42_30b, n8, n14, dv24, dv123, zaya1_8b, zaya1_74b_preview, laguna_m1,
    laguna_xs2, laguna_xs_2_1, laguna_s_2_1, mimo_v2_5_pro, mimo_v2_5, cr13, beam_1_0_501b_a23b,
    mimo_v2_6_flash_rl, mimo_v2_6_pro_rl, mimo_v2_6_distill_qwen_9b, ternary_bonsai_2_2b,
    ternary_bonsai_2_4b, ternary_bonsai_2_9b, ternary_bonsai_2_27b, lfm2_5_24b_a2b,
    mellum2_1_12b_a2_5b_thinking, hy_memory_30b_a3b, nemotron35_super_vl, nemotron35_bolt_74b,
    muse_spark_open_816b_a42b }
=============================================================================
