---------------------------- MODULE MCProjection ---------------------------
(* A small fleet and portfolio for TLC: a small and a large text model, a    *)
(* speech model that does not stream and a decision model that no use case   *)
(* asks for, two hours; an easy, a demanding and a deferrable use case of    *)
(* text, and one of speech.                                                  *)
EXTENDS Projection, MCCatalog

CONSTANTS small, big, flash, nano, frontier, current, corp, unlisted, nocloud

MCHours  == 1..2
MCShapes == [flat |-> <<1, 1>>, office |-> <<1, 3>>]

MCModels ==
  (small :> [quality |-> 1, caps |-> {}, kind |-> "llm", efficient |-> TRUE]) @@
  (big   :> [quality |-> 2, caps |-> {"tools"}, kind |-> "llm", efficient |-> FALSE]) @@
  (ear   :> [quality |-> 0, caps |-> {}, kind |-> "asr", efficient |-> TRUE]) @@
  (judge :> [quality |-> 0, caps |-> {}, kind |-> "decision", efficient |-> TRUE])

(* Requests of a short and of a long use case, of a panel whose blend is too   *)
(* long for every text model, the probe of other models, and live speech.    *)
MCLengths ==
  [ short |-> [in |-> 4, out |-> 2], long |-> [in |-> 8, out |-> 4], report |-> [in |-> 16, out |-> 4],
    native |-> [in |-> 64, out |-> 0], live |-> [in |-> 1, out |-> 0] ]
MCBlends == {"short", "report"}

(* What the calculator makes of them on single GPUs, in units of six tokens  *)
(* and a short day: the large model does not fit one GPU.                    *)
MCKeys == {small, big, ear, judge}
MCServed ==
  (small :> [MCChat EXCEPT !.total = 250, !.active = 250]) @@
  (big   :> [MCChat EXCEPT !.active = 60, !.moe = TRUE]) @@
  (ear   :> [MCEar EXCEPT !.speech.streaming = FALSE]) @@
  (judge :> MCJudge)
MCContext(k) ==
  [ m |-> MCServed[k], g |-> MCGpu.solo, mu |-> Whole(1), nonKv |-> Whole(64), prec |-> "bf16",
    pre |-> MCEfficiency, dec |-> MCEfficiency, spec |-> Absent ]
MCTask(l) ==
  [ input |-> MCLengths[l].in, output |-> MCLengths[l].out,
    perRequest |-> (MCLengths[l].in + MCLengths[l].out) \div 6, hitRate |-> Zero, streaming |-> l = "live" ]
MCServedDaily ==
  LET layout == [x \in MCKeys \X (1..2) |-> PreferredStrategy(MCContext(x[1]), x[2], "decode", MCWork)]
      daily(k, n, l) == FloorOf(DailyTokens(MCContext(k), layout[<<k, n>>], MCTask(l), 2, {1, 2, 4}))
  IN  [x \in MCKeys \X (1..2) \X (DOMAIN MCLengths) |-> daily(x[1], x[2], x[3])] @@ <<>>
MCThroughput == LET table == MCServedDaily IN table
MCFits == { x \in MCKeys \X (1..2) : ValidStrategies(MCContext(x[1]), x[2]) # {} }

MCSlots    == 1..2
MCProjects == 1..4

MCDemand ==
  << [kind |-> "llm", latent |-> 4, unlock |-> 6, wtp |-> 6, difficulty |-> 0, slo |-> Whole(1),
      floor |-> 0, requires |-> {}, length |-> "short"],
     [kind |-> "llm", latent |-> 0, unlock |-> 0, wtp |-> 14, difficulty |-> 2, slo |-> Frac(1, 2),
      floor |-> 1, requires |-> {"tools"}, length |-> "long"],
     [kind |-> "llm", latent |-> 0, unlock |-> 0, wtp |-> 20, difficulty |-> 1, slo |-> Frac(1, 2),
      floor |-> 1, requires |-> {}, length |-> "short"],
     [kind |-> "asr", latent |-> 0, unlock |-> 0, wtp |-> 5, difficulty |-> 1, slo |-> Frac(1, 2),
      floor |-> 1, requires |-> {}, length |-> "native"] >>

MCPanel(fleet, counts, recorded) ==
  [ model |-> fleet, count |-> counts, price_driven |-> FALSE, cloud_enabled |-> TRUE,
    latent |-> TRUE, gateway |-> current, size |-> 1, blend |-> "short",
    tokens |-> <<Whole(6), Whole(3), Whole(4), Whole(5)>>,
    locked |-> <<FALSE, FALSE, TRUE, TRUE>>, batch |-> <<FALSE, FALSE, TRUE, recorded>>,
    shape |-> <<"office", "flat", "flat", "office">> ]

MCPanels == { MCPanel(<<small, big>>, <<1, 2>>, TRUE), MCPanel(<<big, ear>>, <<2, 1>>, FALSE),
              MCPanel(<<ear, judge>>, <<1, 2>>, TRUE) }

MCCloudModels ==
  (flash    :> [base |-> 4, long |-> Unlisted, above |-> 2, quality |-> 1, caps |-> {},
                context |-> 64, output |-> 64]) @@
  (nano     :> [base |-> 10, long |-> Unlisted, above |-> 0, quality |-> 2, caps |-> {"tools"},
                context |-> 12, output |-> 3]) @@
  (frontier :> [base |-> 10, long |-> 12, above |-> 6, quality |-> 2, caps |-> Unlisted,
                context |-> 64, output |-> 64])

MCPresets == (current :> {flash, nano, frontier})

(* No policy, one with negotiated prices and a gateway, an invalid one. *)
MCPolicies ==
  { [allowed |-> {flash, nano, frontier}, price |-> [k \in {} |-> 0], presets |-> [k \in {} |-> {}]],
    [allowed |-> {flash, frontier}, price |-> (flash :> [base |-> 2] @@ frontier :> [long |-> 4]),
     presets |-> (corp :> {flash})],
    [allowed |-> {flash}, price |-> (frontier :> [base |-> 2]), presets |-> [k \in {} |-> {}]] }
============================================================================
