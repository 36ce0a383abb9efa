---------------------------- MODULE MCAllocation ----------------------------
(* The panel on two pools, with single GPUs and nodes of two, and the        *)
(* models of MCCatalog; the assumptions on the real catalog are evaluated    *)
(* along with it.                                                            *)
EXTENDS PanelCapacity, MCCatalog, CatalogShapes

MCMinCount == [t \in GpuType |-> IF t = "rack" THEN 2 ELSE 1]
MCCountMultiple == MCMinCount
MCKind == [k \in Key |-> IF k = chat THEN "llm" ELSE "decision"]
MCNativePrec == [k \in Key |-> "bf16"]

MCModelOf  == (chat :> MCChat) @@ (judge :> MCJudge)
MCDrafting == (chat :> "mtp") @@ (judge :> "off")

\* The tables of the calculator, computed once.
MCValidLayouts == LET t == LayoutTable IN t @@ <<>>
MCBestLayout   == LET t == BestTable IN t @@ <<>>
MCHonest       == LET t == HonestTable IN t @@ <<>>
MCUseful       == LET t == UsefulTable IN t @@ <<>>

ASSUME PlainPanel == Calculated /\ PlainRequests /\ PlainModels /\ Brisk

\* Clients that keep both phases together, and the layout picker's template.
BothPhases == [x \in {"llm", "decision"} |-> {"both"}]
PickerPhases == [x \in {"llm", "decision"} |-> IF x = "llm" THEN {"both"} ELSE {"prefill"}]
=============================================================================
