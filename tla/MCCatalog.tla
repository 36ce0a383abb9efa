------------------------------ MODULE MCCatalog -----------------------------
(* A catalog small enough for TLC: a chat model with a drafter and a         *)
(* decision model, whose three layers do not split evenly over two stages,   *)
(* and a speech model, on single GPUs and on nodes of two.                   *)
EXTENDS Serving

CONSTANTS chat, judge, ear

(* One rank or two; no paging pressure beyond the flat cost. *)
MCLog2     == <<Zero, Whole(1), Frac(8, 5)>>
MCDelay    == [hop |-> Frac(1, 256), schedule |-> Frac(1, 256), reject |-> Zero, launch |-> Frac(1, 256)]
MCInputs   == <<4, 8>>
MCOutputs  == <<2, 4>>
MCDocs     == <<4>>
MCDist     == <<1, 1>>
MCPressure == [x \in {Whole(n) : n \in 0..16} |-> Whole(1)]
MCSpread   == [x \in {<<MCDist, MCDist>>} |-> Whole(1)]
MCGrain    == Frac(1, 256)
MCWorthwhile == Frac(101, 100)

MCEfficiency ==
  [ bw |-> Frac(3, 4), comp |-> Frac(1, 2), overhead |-> Zero, slack |-> Frac(1, 8),
    paged |-> Zero, overlap |-> Frac(1, 2), moe |-> Whole(1), budget |-> 0,
    interference |-> Frac(1, 2) ]

MCDrafter ==
  [ method |-> "mtp", params |-> 400, parallel |-> FALSE, defaultK |-> 2, alpha |-> Frac(1, 2),
    kv |-> Frac(1, 4), bytes |-> Zero, bytesBy |-> [p \in {} |-> Zero], active |-> 400, ks |-> {},
    alphaBy |-> [k \in {} |-> Zero] ]

MCChat ==
  [PlainModel EXCEPT !.key = chat, !.total = 504, !.active = 504, !.layers = 3, !.heads = 4,
                     !.kvHeads = 2, !.headDim = 1, !.context = 64, !.drafters = <<MCDrafter>>]
MCJudge ==
  [PlainModel EXCEPT !.key = judge, !.total = 600, !.active = 600, !.layers = 3, !.heads = 1,
                     !.kvHeads = 1, !.headDim = 1, !.context = 64]
MCEar ==
  [PlainModel EXCEPT !.key = ear, !.total = 128, !.active = 128, !.layers = 2, !.heads = 2,
                     !.kvHeads = 2, !.headDim = 1, !.context = 64,
                     !.speech = [ rate |-> 2, state |-> 8, encoderParams |-> 16, audioTokens |-> 2,
                                  audioLayers |-> 1, audioHeads |-> 1, audioDim |-> 1, window |-> 2,
                                  chunk |-> 0, streaming |-> TRUE ]]

MCPublished == [x \in {} |-> Absent]
MCDefault   == [x \in {} |-> Legacy]
MCDecides   ==
  judge :> [maxLen |-> 16, minOptions |-> 2, maxOptions |-> 4, causal |-> TRUE, perQuestion |-> FALSE]

MCGpu ==
  [ solo |-> [ key |-> "solo", vendor |-> "nv", mem |-> 1024, bw |-> 8192, bf16 |-> 65536,
               fp8 |-> 131072, fp4 |-> 0, link |-> 2048, node |-> 1, network |-> 512 ],
    rack |-> [ key |-> "rack", vendor |-> "nv", mem |-> 2048, bw |-> 16384, bf16 |-> 65536,
               fp8 |-> 131072, fp4 |-> 0, link |-> 4096, node |-> 2, network |-> 512 ] ]

MCWork == [input |-> MCDist, output |-> MCDist, task |-> 8, hitRate |-> Frac(1, 2), docs |-> <<1>>]
MCSettings ==
  [ roomy |-> [ mu |-> Whole(1), nonKv |-> Whole(64), pre |-> MCEfficiency, dec |-> MCEfficiency,
                work |-> MCWork, input |-> 4, output |-> 2 ],
    tight |-> [ mu |-> Frac(3, 4), nonKv |-> Whole(64), pre |-> MCEfficiency, dec |-> MCEfficiency,
                work |-> MCWork, input |-> 4, output |-> 2 ] ]
============================================================================
