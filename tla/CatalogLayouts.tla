--------------------------- MODULE CatalogLayouts ---------------------------
(***************************************************************************)
(* The models of the catalog on its GPUs: a deployment is one of the       *)
(* layouts calc.py finds valid, and the planner or the layout picker moves *)
(* it to another.  Which of them the planner prefers is left open here     *)
(* (PanelCapacity has it).                                                 *)
(*                                                                         *)
(* Weights and memory are megabytes; a cached row is bytes.                *)
(***************************************************************************)
EXTENDS Capacity, CatalogShapes

CONSTANTS
  Cards,     \* the GPUs offered
  Counts,    \* how many of them an assignment may have
  Usable,    \* the usable share of their memory
  Reserved,  \* the megabytes that are not cache
  Rows       \* the tokens of the sequence that is looked at

VARIABLE deployed  \* [m, g, count, prec, layout], or Absent

(* The efficiencies play no part in which layouts are valid. *)
Config(m, g, prec) ==
  [ m |-> m, g |-> g, mu |-> Usable, nonKv |-> Reserved, prec |-> prec, pre |-> Absent,
    dec |-> Absent, spec |-> Absent ]

Init == deployed = Absent

(* _retune_model: an assignment gets one of the valid layouts, if there is one. *)
Retune(m, g, n) ==
  \E l \in ValidStrategies(Config(m, g, m.native), n) :
    deployed' = [m |-> m, g |-> g, count |-> n, prec |-> m.native, layout |-> l]

(* set_model_strat: a layout that is not valid is refused. *)
SetStrat(l) ==
  /\ deployed # Absent
  /\ l \in ValidStrategies(Config(deployed.m, deployed.g, deployed.prec), deployed.count)
  /\ deployed' = [deployed EXCEPT !.layout = l]

Next ==
  \/ \E m \in TextModels, g \in Cards, n \in Counts : Retune(m, g, n)
  \/ \E n \in Counts : \E l \in Triples(n) : SetStrat(l)

Spec == Init /\ [][Next]_deployed

(* The catalog says which layers keep how much. *)
LayersTold(m) == m.shared = Absent /\ IsCompressed(m)

(* The busiest stage of a deployment needs no more cache for a sequence than *)
(* it is charged for, counted layer by layer: "Conservative fraction of      *)
(* layer-distributed work/memory on the busiest PP stage." says              *)
(* _pp_peak_fraction.                                                        *)
BusiestStageCharged ==
  deployed # Absent /\ LayersTold(deployed.m) =>
    LET m  == deployed.m
        tp == deployed.layout[1]
        pp == deployed.layout[2]
        charged == TokenCache(m, Rows, deployed.prec, pp, tp)
        held(first) == LayersCache(m, Rows, deployed.prec, Stage(m.layers, pp, first))
    IN  \A first \in StageStarts(m.layers, pp) : held(first) // Whole(KvShards(m, tp)) \preceq charged
=============================================================================
