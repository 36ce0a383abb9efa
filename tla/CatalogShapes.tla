--------------------------- MODULE CatalogShapes ----------------------------
(***************************************************************************)
(* What the arithmetic of calc.py takes for granted of the catalog's       *)
(* entries, none of which a constructor checks: an entry that breaks one   *)
(* is served with too few layers, twice, or at a depth nobody measured.    *)
(***************************************************************************)
EXTENDS Roofline, TextCatalog, GpuCatalog

Ranks == {1, 2, 4, 8, 16}

(* The fields are of the kind the calculator takes. *)
ASSUME EntriesTyped == (\A m \in TextModels : ModelOK(m)) /\ (\A g \in GpuTypes : GpuOK(g))

(* No two entries share the key that the memo tables are indexed by. *)
ASSUME KeysDistinct ==
  /\ \A a, b \in TextModels : a.key = b.key => a = b
  /\ \A a, b \in GpuTypes : a.key = b.key => a = b

(* Every layer that attends or keeps a state is a layer of the model, and a  *)
(* layer order covers all of them: _attention_compression_ratios would cut   *)
(* a longer one, and a shorter one leaves layers without a cache.            *)
ASSUME LayersAddUp ==
  \A m \in TextModels :
    /\ AttentionLayers(m) + m.linearLayers <= m.layers
    /\ KvLayers(m) <= AttentionLayers(m)
    /\ m.localLayers <= AttentionLayers(m)
    /\ m.indexLayers <= AttentionLayers(m)
    /\ Len(m.ratios) \in {0, m.layers}
    /\ m.tableLayers \subseteq 1..m.layers

ASSUME ActiveIsPart ==
  \A m \in TextModels :
    /\ m.active <= m.total /\ m.prefillActive <= m.total /\ m.tableParams < m.total
    /\ ~m.moe => m.active = m.total
    /\ \A i \in DOMAIN m.drafters : m.drafters[i].params < m.total

(* The depth a drafter starts with is one it was calibrated for. *)
ASSUME DraftersCalibrated ==
  \A m \in TextModels :
    \A i \in DOMAIN m.drafters :
      LET d == m.drafters[i]
      IN  /\ d.ks = {} \/ d.defaultK \in d.ks
          /\ DOMAIN d.alphaBy \subseteq d.ks
          /\ Positive(d.alpha) /\ d.alpha \prec Whole(1)

(* One GPU is always a supported rank, and on a supported rank the shards of *)
(* the cache and their copies make up the rank: no byte is lost.             *)
ASSUME ShardsMakeUpTheRank ==
  \A m \in TextModels :
    /\ TpSupported(m, 1)
    /\ \A tp \in Ranks : TpSupported(m, tp) => KvShards(m, tp) * KvGroups(m, tp) = tp

(* Only these entries have layers that differ in what they weigh or cache. *)
ASSUME MostAlike ==
  \A m \in TextModels :
    LayersAlike(m) \/ m.key \in {"g26", "deepseek-v4.1-flash", "deepseek-v4-pro",
                               "deepseek-v4-flash"}
=============================================================================
