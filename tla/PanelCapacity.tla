--------------------------- MODULE PanelCapacity ----------------------------
(***************************************************************************)
(* The panel of Allocation with the calculator behind it: the layouts      *)
(* that are valid and the one that is fastest are what calc.py and         *)
(* placement.py compute from the model, the GPU and the settings, and what *)
(* the planner announces for a deployment is held against the memory of    *)
(* its GPUs.                                                               *)
(***************************************************************************)
EXTENDS Allocation, Serving

CONSTANTS
  Catalog,   \* key -> model
  Drafting,  \* key -> the drafting method a user switches on, "off" if none is offered
  Gpu,       \* GPU type -> GPU
  Settings,  \* Env -> [mu, nonKv, pre, dec, work, input, output]: the last two are the
             \* lengths of the panel's typical task
  Honest,    \* the layouts that hold what the panel announces for them, by deployment
  Useful     \* the layouts that serve a request of the panel's mix, by deployment

-----------------------------------------------------------------------------
(* What the handlers pass to the calculator for an assignment on a pool of a *)
(* type: x is <<key, precision, drafter on, type, settings>>.                *)
Context(x) ==
  LET m == Catalog[x[1]]
      s == Settings[x[5]]
  IN  [ m |-> m, g |-> Gpu[x[4]], mu |-> s.mu, nonKv |-> s.nonKv, prec |-> x[2],
        pre |-> s.pre, dec |-> s.dec,
        spec |-> ResolveSpec(m, IF x[3] THEN Drafting[x[1]] ELSE "off", 0, Zero, x[2]) ]

SettingsOK(s) ==
  /\ Amount(s.mu) /\ Amount(s.nonKv) /\ EfficiencyOK(s.pre) /\ EfficiencyOK(s.dec)
  /\ {s.input, s.output, s.work.task} \subseteq Nat /\ Amount(s.work.hitRate)
  /\ s.work.input \in [DOMAIN InputLengths -> Nat] /\ s.work.output \in [DOMAIN OutputLengths -> Nat]
  /\ <<s.work.input, s.work.output>> \in DOMAIN Spread /\ Whole(s.work.task) \in DOMAIN Pressure
ASSUME PanelAssumption ==
  /\ \A k \in Key : ModelOK(Catalog[k])
  /\ \A t \in GpuType : GpuOK(Gpu[t])
  /\ \A e \in Env : SettingsOK(Settings[e])
  /\ Prec \subseteq Precisions
  /\ 1..MaxCount \subseteq DOMAIN Log2

Deployments == Key \X Prec \X BOOLEAN \X GpuType \X Env \X (1..MaxCount)

(* ValidLayouts and BestLayout of Allocation. *)
LayoutTable ==
  LET valid(x) == ValidStrategies(Context(x), x[6])
  IN  [x \in Deployments |-> valid(x)]
BestTable ==
  LET phase(x) == IF Kind[x[1]] = "llm" THEN "decode" ELSE "prefill"
      best(x)  == PreferredStrategy(Context(x), x[6], phase(x), Settings[x[5]].work)
  IN  [x \in Deployments |-> best(x)]

(* The layouts of a text model in use, with what they are announced to serve. *)
Announced ==
  [x \in {y \in Deployments : Kind[y[1]] = "llm"} |->
     [l \in LayoutTable[x] |->
        DataCapacity(Context(x), l, l, Settings[x[5]].input, Settings[x[5]].output,
                     Settings[x[5]].work.hitRate)]]

-----------------------------------------------------------------------------
(* Properties. *)

RowOf(i) ==
  <<models[i].key, models[i].prec, models[i].spec, pools[models[i].pool].type, env, models[i].gpus>>

(* The bytes a GPU of one stage holds while a replica serves n requests of   *)
(* len tokens, counted layer by layer.                                       *)
StageBytes(c, l, first, n, len) ==
  LET held == Stage(c.m.layers, l[2], first)
      part == Frac(Cardinality(held), c.m.layers)
      each == (WeightBytes(c.m, c.prec) -- c.m.tableBytes) // Whole(c.m.layers)
      tables == Whole(Cardinality(held \cap c.m.tableLayers))
                  ** (c.m.tableBytes // Whole(Larger(Cardinality(c.m.tableLayers), 1)))
      drafter == IF c.spec = Absent THEN Zero ELSE c.spec.bytes
      share   == IF c.spec = Absent THEN Whole(1) ELSE Whole(1) ++ c.spec.profile.kv
      cache   == (LayersCache(c.m, len, c.prec, held) // Whole(KvShards(c.m, l[1]))) ** share
      weights == ((Whole(Cardinality(held)) ** each) ++ tables) ++ (drafter ** part)
  IN  ((weights // Whole(l[1])) ++ NonKv(l[1], c.nonKv)) ++ (Whole(n) ** cache)

RequestTokens(x) == Settings[x[5]].input + Settings[x[5]].output \div 2
AllStagesHold(x, l, n) ==
  \A first \in StageStarts(Catalog[x[1]].layers, l[2]) :
    StageBytes(Context(x), l, first, n \div l[3], RequestTokens(x)) \preceq Requested(Context(x))
Together(x, l, n) ==
  Data(Context(x), l, l, n, Settings[x[5]].input, Settings[x[5]].output, Settings[x[5]].work.hitRate)
    # Absent

HonestTable ==
  LET honest(x, l, most) ==
        /\ AllStagesHold(x, l, most)
        /\ \A n \in 1..(most + 1) : Together(x, l, n) <=> n <= most
  IN  [x \in DOMAIN Announced |-> {l \in LayoutTable[x] : honest(x, l, Announced[x][l])}]

(* The capacity a panel announces for a text model is what its GPUs hold:    *)
(* every stage of the deployed layout has room for its layers, its part of   *)
(* the drafter and the caches of that many requests, which are served        *)
(* together, while one more is refused.                                      *)
CapacityHonest ==
  \A i \in DOMAIN models :
    Kind[models[i].key] = "llm" /\ models[i].gpus > 0 /\ Deployed(models[i]) =>
      models[i].decode \in Honest[RowOf(i)]

UsefulTable ==
  LET work(x) == Settings[x[5]].work
      useful(x, l) ==
        IF Kind[x[1]] = "llm"
        THEN DecodeCapacity(Context(x), l, work(x).input, work(x).output, Context(x).dec) > 0
        ELSE Decision(Context(x), l, 1, work(x).task, 1, 4) # Absent
  IN  [x \in Deployments |-> {l \in LayoutTable[x] : useful(x, l)}]

(* A layout the planner chose serves requests of the panel's mix whenever    *)
(* some layout of the same GPUs does: weights that fit and leave no room for *)
(* a single request are not preferred.                                       *)
ChosenLayoutServes ==
  \A i \in DOMAIN models :
    /\ models[i].gpus > 0 /\ Deployed(models[i])
    /\ models[i].decode = BestLayout[RowOf(i)]
    /\ Useful[RowOf(i)] # {}
    => models[i].decode \in Useful[RowOf(i)]

-----------------------------------------------------------------------------
(* What the proofs about the panel assume.                                   *)

(* The tables are those the calculator computes. *)
Calculated ==
  /\ ValidLayouts = LayoutTable /\ BestLayout = BestTable
  /\ Honest = HonestTable /\ Useful = UsefulTable

(* Requests have a prompt, some of which no cache holds, and the layers of a *)
(* text model hold caches of the same size.                                  *)
PlainRequests ==
  /\ \A k \in Key : Kind[k] = "llm" => LayersAlike(Catalog[k])
  /\ \A e \in Env : Settings[e].input > 0 /\ Settings[e].work.hitRate \prec Whole(1)

(* A text model is no embedding, and a classifier too has layers alike. *)
PlainModels ==
  \A k \in Key : /\ Kind[k] = "llm" => ~IsEmbedding(Catalog[k])
                 /\ Kind[k] = "llm" \/ IsDecision(Catalog[k]) => LayersAlike(Catalog[k])

(* Where a layout serves requests, one answers a probe with more than a     *)
(* token per second.                                                        *)
Answer(x, l, bs) ==
  ProbeMetric(Context(x), l, IF Kind[x[1]] = "llm" THEN "decode" ELSE "prefill", Settings[x[5]].work, bs)
Brisk ==
  \A x \in Deployments : Useful[x] # {} =>
    \E l \in ValidLayouts[x] : \E bs \in ProbeBatches(l[3]) :
      Answer(x, l, bs) # Absent /\ Whole(1) \prec Answer(x, l, bs)[1]
=============================================================================
