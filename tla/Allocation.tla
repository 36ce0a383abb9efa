----------------------------- MODULE Allocation -----------------------------
(***************************************************************************)
(* How one panel hands the GPUs of its pools to its models: the mutators   *)
(* of state.py, the services of planner_service.py that retune what they   *)
(* changed, and the retune and auto-select engines of placement.py.        *)
(*                                                                         *)
(* What fits and what is fastest come from the calculator and are tables   *)
(* here; module PanelCapacity computes them.  auto_excluded, auto_mode and *)
(* the demand of the use cases only choose between candidates of the       *)
(* automatic selection, which the model takes in any order.                *)
(***************************************************************************)
EXTENDS Integers, FiniteSets, Sequences, SequencesExt

CONSTANTS
    Pool,         \* uids a GPU pool can have
    GpuType,
    MinCount,     \* per type, the smallest pool and the multiple pools snap to
    CountMultiple,
    Key,          \* catalog models
    Kind,         \* per key "llm", "embedding" or "decision"
    Prec,         \* PRECISIONS
    NativePrec,   \* per key, its native precision
    Env,          \* memory cap, distributions, efficiencies: what the settings set
    ValidLayouts, \* by key, precision, drafter, type, settings and GPUs: valid_strategies
    BestLayout,   \* by the same: the layout of most throughput
    PhasesSent,   \* per kind, the phases clients set a layout for
    NoPool,       \* a uid that no pool ever has
    None,
    MaxCount,     \* bounds of the model: GPUs of a pool, models of a panel
    MaxModels

ASSUME HardwareAssumption ==
    /\ MinCount \in [GpuType -> Nat \ {0}]
    /\ CountMultiple \in [GpuType -> Nat \ {0}]
    /\ NoPool \notin Pool
    /\ None \notin [type : GpuType, count : Nat]
    /\ MaxCount \in Nat
    /\ MaxModels \in Nat \ {0}
ASSUME CatalogAssumption ==
    /\ Kind \in [Key -> {"llm", "embedding", "decision"}]
    /\ NativePrec \in [Key -> Prec]
    /\ DOMAIN ValidLayouts = Key \X Prec \X BOOLEAN \X GpuType \X Env \X (1..MaxCount)
    /\ \A x \in DOMAIN ValidLayouts :
          /\ ValidLayouts[x] \subseteq {l \in Nat \X Nat \X Nat : l[1] * l[2] * l[3] = x[6]}
          /\ IF ValidLayouts[x] = {} THEN BestLayout[x] = <<x[6], 1, 1>>
             ELSE BestLayout[x] \in ValidLayouts[x]

VARIABLES
    pools,        \* the pool behind each uid, None if there is none
    models,       \* the assignments, in the order of state.models
    env,          \* the settings
    auto,         \* where auto_select_models is
    saved         \* its original_models

allocVars == <<pools, models, env, auto, saved>>

-----------------------------------------------------------------------------
(* GPUs                                                                    *)

Layout == Nat \X Nat \X Nat
UnitLayout == <<1, 1, 1>>
Size(l) == l[1] * l[2] * l[3]

Assignment == [key : Key, pool : Pool \cup {NoPool}, gpus : Int, prec : Prec,
               spec : BOOLEAN, decode : Layout, prefill : Layout]

Pools == {p \in Pool : pools[p] # None}

\* normalize_gpu_count, for a count above zero.
Snap(t, n) ==
    LET most == IF n > MinCount[t] THEN n ELSE MinCount[t]
        m    == CountMultiple[t]
    IN  ((most + m - 1) \div m) * m

\* The GPUs of pool p that the first i models use, used_gpu_for_pool, and the
\* GPUs that the models listed after the i-th use.
UsedTo(ms, p) ==
    LET sum[i \in 0..Len(ms)] ==
          IF i = 0 THEN 0
          ELSE sum[i - 1] + IF ms[i].pool = p THEN ms[i].gpus ELSE 0
    IN  sum
Used(ms, p) == UsedTo(ms, p)[Len(ms)]
UsedAfter(ms, i, p) == Used(ms, p) - UsedTo(ms, p)[i]

Free(p) == pools[p].count - Used(models, p)

-----------------------------------------------------------------------------
(* Layouts                                                                 *)

\* valid_strategies, on a pool of type t, under settings e.
ValidOn(key, n, prec, spec, t, e) == ValidLayouts[<<key, prec, spec, t, e, n>>]

\* The layouts that are valid for some number of GPUs.
AllLayouts == UNION {ValidLayouts[x] : x \in DOMAIN ValidLayouts}

Valid(m, ps, e) ==
    IF m.gpus <= 0 \/ m.pool \notin Pool \/ ps[m.pool] = None THEN {}
    ELSE ValidOn(m.key, m.gpus, m.prec, m.spec, ps[m.pool].type, e)

\* _preferred_strategy, falling back on default_strategy.
Preferred(m, ps, e) ==
    BestLayout[<<m.key, m.prec, m.spec, ps[m.pool].type, e, m.gpus>>]

WithLayout(m, l) == [m EXCEPT !.decode = l, !.prefill = l]

\* Mutant of Retune: an idle model keeps its layout.
RetuneUnlessIdle(m, preserve, ps, e) ==
    LET kept == IF Kind[m.key] = "llm" THEN m.decode ELSE m.prefill
    IN  IF m.gpus <= 0 \/ m.pool \notin Pool \/ ps[m.pool] = None THEN m
        ELSE IF preserve /\ kept \in Valid(m, ps, e) THEN WithLayout(m, kept)
        ELSE WithLayout(m, Preferred(m, ps, e))

\* _retune_model.
Retune(m, preserve, ps, e) ==
    LET kept == IF Kind[m.key] = "llm" THEN m.decode ELSE m.prefill
    IN  IF m.gpus <= 0 THEN WithLayout(m, UnitLayout)
        ELSE IF m.pool \notin Pool \/ ps[m.pool] = None THEN m
        ELSE IF preserve /\ kept \in Valid(m, ps, e) THEN WithLayout(m, kept)
        ELSE WithLayout(m, Preferred(m, ps, e))

\* Mutant of RetuneAll: the settings handler forgets retune_models.
RetuneNone(ms, ps, e) == ms

RetuneAll(ms, ps, e) ==
    [i \in DOMAIN ms |-> IF ms[i].gpus > 0 THEN Retune(ms[i], FALSE, ps, e) ELSE ms[i]]

\* A service that changes one assignment and retunes it.
Change(i, m, preserve) ==
    models' = [models EXCEPT ![i] = Retune(m, preserve, pools', env)]

NewModel(key, p, n, prec) ==
    [key |-> key, pool |-> p, gpus |-> n, prec |-> prec, spec |-> FALSE,
     decode |-> UnitLayout, prefill |-> UnitLayout]

-----------------------------------------------------------------------------
(* Initial states: a blank panel, or what deserialize_scenario returns     *)

PoolRecords ==
    {[type |-> t, count |-> Snap(t, n)] : t \in GpuType, n \in 1..MaxCount}

\* A row's GPUs are clamped to what the pool has left; a layout is kept when
\* it is valid, else retuned.  The model imports at most one row.
ImportedRows(ps) ==
    {m \in [key : Key, pool : {p \in Pool : ps[p] # None}, gpus : 0..MaxCount, prec : Prec,
            spec : BOOLEAN, decode : AllLayouts, prefill : AllLayouts] :
        m.prefill = m.decode}
ImportedModels(ps) == {<<>>} \cup {<<m>> : m \in ImportedRows(ps)}

AllocInit ==
    /\ env \in Env
    /\ pools \in [Pool -> {r \in PoolRecords : r.count <= MaxCount} \cup {None}]
    /\ models \in {ms \in ImportedModels(pools) :
                     \A i \in DOMAIN ms :
                        /\ ms[i].gpus <= pools[ms[i].pool].count
                        /\ ms[i].spec => Kind[ms[i].key] = "llm"
                        /\ Retune(ms[i], TRUE, pools, env) = ms[i]}
    /\ auto = "idle"
    /\ saved = <<>>

-----------------------------------------------------------------------------
(* Pools                                                                   *)

Quiet == auto = "idle" /\ UNCHANGED <<auto, saved>>

\* Pools of one type merge.
AddGpu(t, n) ==
    /\ Quiet
    /\ LET same  == {p \in Pools : pools[p].type = t}
           count == Snap(t, n)
       IN  \/ \E p \in same :
                 /\ Snap(t, pools[p].count + count) <= MaxCount
                 /\ pools' = [pools EXCEPT ![p].count = Snap(t, @ + count)]
           \/ /\ same = {} /\ count <= MaxCount
              /\ \E p \in Pool \ Pools :
                    pools' = [pools EXCEPT ![p] = [type |-> t, count |-> count]]
    /\ UNCHANGED <<models, env>>

\* The models that are not on pool p, in their order.
OffPool(ms, p) ==
    LET kept[i \in 0..Len(ms)] ==
          IF i = 0 THEN <<>>
          ELSE IF ms[i].pool = p THEN kept[i - 1] ELSE Append(kept[i - 1], ms[i])
    IN  kept[Len(ms)]

RemoveGpu(p) ==
    /\ Quiet
    /\ pools' = [pools EXCEPT ![p] = None]
    /\ models' = OffPool(models, p)
    /\ UNCHANGED env

\* Mutant of Shrunk: it takes from the first models.
ShrunkFromFirst(ms, p, count, ps) ==
    LET excess == Used(ms, p) - count
        take(i) ==
            LET left == excess - UsedTo(ms, p)[i - 1]
            IN  IF ms[i].pool # p \/ left <= 0 THEN 0
                ELSE IF left < ms[i].gpus THEN left ELSE ms[i].gpus
    IN  [i \in DOMAIN ms |->
            IF take(i) = 0 THEN ms[i]
            ELSE Retune([ms[i] EXCEPT !.gpus = @ - take(i)], FALSE, ps, env)]

\* change_gpu_qty takes what exceeds the new count from the last models
\* first; the service retunes the models it took from.
Shrunk(ms, p, count, ps) ==
    LET excess == Used(ms, p) - count
        take(i) ==
            LET left == excess - UsedAfter(ms, i, p)
            IN  IF ms[i].pool # p \/ left <= 0 THEN 0
                ELSE IF left < ms[i].gpus THEN left ELSE ms[i].gpus
    IN  [i \in DOMAIN ms |->
            IF take(i) = 0 THEN ms[i]
            ELSE Retune([ms[i] EXCEPT !.gpus = @ - take(i)], FALSE, ps, env)]

\* Mutant of ChangedQty: the count is not normalised.
PlainQty(p, n) == IF n <= 0 THEN 0 ELSE n

ChangedQty(p, n) == IF n <= 0 THEN 0 ELSE Snap(pools[p].type, n)

ChangeGpuQty(p, n) ==
    /\ Quiet
    /\ p \in Pools
    /\ LET count == ChangedQty(p, n)
           kept  == [pools EXCEPT ![p].count = count]
       IN  /\ count <= MaxCount
           /\ IF count = 0
              THEN /\ pools' = [pools EXCEPT ![p] = None]
                   /\ models' = OffPool(models, p)
              ELSE /\ pools' = kept
                   /\ models' = Shrunk(models, p, count, kept)
    /\ UNCHANGED env

\* The settings, the distributions and the machine shape: a field is set and
\* every running model is retuned from scratch.
ChangeSettings(e) ==
    /\ Quiet
    /\ env' = e
    /\ models' = RetuneAll(models, pools, e)
    /\ UNCHANGED pools

-----------------------------------------------------------------------------
(* Models                                                                  *)

\* _min_gpu_count_for_pool; one more than MaxCount stands for math.inf.
Infinite == MaxCount + 1
MinNeed(key, prec, p, limit) ==
    LET fits == {n \in 1..limit :
                   ValidOn(key, n, prec, FALSE, pools[p].type, env) # {}}
    IN  IF fits = {} THEN Infinite ELSE CHOOSE n \in fits : \A k \in fits : n <= k

BestNeed(key, p, limit) ==
    CHOOSE n \in 1..Infinite :
        /\ \E pr \in Prec : MinNeed(key, pr, p, limit) = n
        /\ \A pr \in Prec : n <= MinNeed(key, pr, p, limit)

\* What plan_model_add may choose: <<pool, GPUs, precision>>.  A pool where the
\* native precision fits the free GPUs comes first, then one where any
\* precision does; else the model gets all the free GPUs of a pool that could
\* hold it if it were empty.
AddPlans(key) ==
    LET native == [p \in Pools |-> MinNeed(key, NativePrec[key], p, Free(p))]
        now    == [p \in Pools |-> BestNeed(key, p, Free(p))]
        full   == [p \in Pools |-> BestNeed(key, p, pools[p].count)]
        Least(need) == {p \in Pools : /\ need[p] < Infinite
                                      /\ \A q \in Pools : need[p] <= need[q]}
    IN  IF Least(native) # {}
        THEN {<<p, native[p], NativePrec[key]>> : p \in Least(native)}
        ELSE IF Least(now) # {}
        THEN {<<p, now[p], pr>> : p \in Least(now),
                pr \in {q \in Prec : \E r \in Least(now) :
                                        MinNeed(key, q, r, Free(r)) = now[r]}}
        ELSE {<<p, Free(p), pr>> : p \in Least(full),
                pr \in {q \in Prec : \E r \in Least(full) :
                                        MinNeed(key, q, r, pools[r].count) = full[r]}}

Append1(m, e) == Append(models, Retune(m, FALSE, pools, e))

\* add_models repeats this, and stops at the first model that fits nowhere.
AddModel(key) ==
    /\ Quiet
    /\ Len(models) < MaxModels
    /\ \E plan \in AddPlans(key) :
          models' = Append1(NewModel(key, plan[1], plan[2], plan[3]), env)
    /\ UNCHANGED <<pools, env>>

\* remove_model and auto_exclude_model.
RemoveModel(i) ==
    /\ Quiet
    /\ models' = RemoveAt(models, i)
    /\ UNCHANGED <<pools, env>>

\* set_model_prec and set_model_artifact.
SetModelPrec(i, prec) ==
    /\ Quiet
    /\ UNCHANGED <<pools, env>>
    /\ Change(i, [models[i] EXCEPT !.prec = prec], TRUE)

\* A drafter the running model has no room for is refused.
SetModelSpec(i, on) ==
    /\ Quiet
    /\ on => Kind[models[i].key] = "llm"
    /\ UNCHANGED <<pools, env>>
    /\ LET m == [models[i] EXCEPT !.spec = on]
           refused == on /\ m.gpus > 0 /\ Valid(m, pools, env) = {}
       IN  Change(i, [m EXCEPT !.spec = @ /\ ~refused], TRUE)

\* apply_model_swap
SetModelKey(i, key, prec) ==
    /\ Quiet
    /\ UNCHANGED <<pools, env>>
    /\ Change(i, [models[i] EXCEPT !.key = key, !.prec = prec], FALSE)

\* Mutant of Others: the model's GPUs are subtracted on any pool.
OthersOnAnyPool(ms, i, p) == Used(ms, p) - ms[i].gpus

Others(ms, i, p) == Used(ms, p) - IF ms[i].pool = p THEN ms[i].gpus ELSE 0

\* set_model_gpu_count; a model without a pool is set to zero, not retuned.
WithCount(ms, i, n, ps) ==
    LET m    == ms[i]
        room == ps[m.pool].count - Others(ms, i, m.pool)
        most == IF room > 0 THEN room ELSE 0
    IN  IF m.pool \notin Pool \/ ps[m.pool] = None
        THEN [ms EXCEPT ![i].gpus = 0]
        ELSE [ms EXCEPT ![i] = Retune([m EXCEPT !.gpus = IF n < most THEN n ELSE most],
                                      FALSE, ps, env)]

SetModelGpuCount(i, n) ==
    /\ Quiet
    /\ models' = WithCount(models, i, n, pools)
    /\ UNCHANGED <<pools, env>>

\* The uid comes from the client: the pool may not exist.
SetModelGpuPool(i, p) ==
    /\ Quiet
    /\ UNCHANGED <<pools, env>>
    /\ LET m    == models[i]
           room == IF p \in Pools THEN pools[p].count - Others(models, i, p) ELSE 0
       IN  Change(i, [m EXCEPT !.pool = p, !.gpus = IF @ < room THEN @ ELSE room], FALSE)

\* The /model/strat route and set_model_strat: a layout for one phase.
SetModelStrat(i, l, phase) ==
    /\ Quiet
    /\ l \in Valid(models[i], pools, env)
    /\ phase \in PhasesSent[Kind[models[i].key]]
    /\ LET all == Kind[models[i].key] = "embedding"
       IN  models' = [models EXCEPT
              ![i].prefill = IF all \/ phase \in {"prefill", "both"} THEN l ELSE @,
              ![i].decode  = IF all \/ phase \in {"decode", "both"} THEN l ELSE @]
    /\ UNCHANGED <<pools, env>>

\* Mutant of ApplyGpuExpansion: the count is clamped to the old pool.
ExpansionBeforeGrowth(i, added) ==
    /\ Quiet
    /\ LET p == models[i].pool
           target == models[i].gpus + added
           grown == IF p \notin Pools THEN pools
                    ELSE [pools EXCEPT ![p].count = ChangedQty(p, @ + added)]
       IN  /\ p \in Pools => grown[p].count <= MaxCount
           /\ pools' = grown
           /\ models' = WithCount(models, i, target, pools)
    /\ UNCHANGED env

\* apply_gpu_expansion: the pool grows, then the assignment.
ApplyGpuExpansion(i, added) ==
    /\ Quiet
    /\ LET p == models[i].pool
           target == models[i].gpus + added
           grown == IF p \notin Pools THEN pools
                    ELSE [pools EXCEPT ![p].count = ChangedQty(p, @ + added)]
       IN  /\ p \in Pools => grown[p].count <= MaxCount
           /\ pools' = grown
           /\ models' = WithCount(models, i, target, grown)
    /\ UNCHANGED env

-----------------------------------------------------------------------------
(* auto_select_models.  It runs to its end under the request's locks; the   *)
(* loops over use cases, pools and GPUs are its steps.                     *)

AutoStart ==
    /\ auto = "idle" /\ Pools # {}
    /\ auto' = "place"
    /\ saved' = models
    /\ models' = <<>>
    /\ UNCHANGED <<pools, env>>

\* _best_available_placement on the pools of P: the fewest GPUs.
Placements(key, P) ==
    LET all == {<<p, MinNeed(key, pr, p, Free(p)), pr>> :
                   p \in {q \in P : Free(q) > 0}, pr \in Prec}
    IN  {x \in all : x[2] < Infinite /\ \A y \in all : x[2] <= y[2]}

Place(key, P) ==
    /\ Len(models) < MaxModels
    /\ \E x \in Placements(key, P) :
          models' = Append1(NewModel(key, x[1], x[2], x[3]), env)
    /\ UNCHANGED <<pools, env, auto, saved>>

\* One more use case gets the model that suits it best.
AutoPlace(key) ==
    /\ auto = "place"
    /\ \A i \in DOMAIN models : models[i].key # key
    /\ Place(key, Pools)

\* No model fits: the assignments are put back.  "lean" stops after placing.
AutoPlaced(lean) ==
    /\ auto = "place"
    /\ IF models = <<>> THEN models' = saved /\ auto' = "idle"
       ELSE UNCHANGED models /\ auto' = IF lean THEN "idle" ELSE "seed"
    /\ saved' = <<>>
    /\ UNCHANGED <<pools, env>>

AutoSeed(key, p) ==
    /\ auto = "seed"
    /\ \A i \in DOMAIN models : models[i].pool # p
    /\ Place(key, {p})

AutoSeeded ==
    /\ auto = "seed"
    /\ auto' = "grow"
    /\ UNCHANGED <<pools, models, env, saved>>

Grown(i) == [models[i] EXCEPT !.gpus = @ + 1]
CanGrow(i) == Free(models[i].pool) > 0 /\ Valid(Grown(i), pools, env) # {}

\* Mutant of AutoGrow: am.gpu_count = next_count is missing.
AutoGrowInPlace(i) ==
    /\ auto = "grow"
    /\ CanGrow(i)
    /\ models' = [models EXCEPT ![i] = Retune(@, FALSE, pools, env)]
    /\ UNCHANGED <<pools, env, auto, saved>>

AutoGrow(i) ==
    /\ auto = "grow"
    /\ CanGrow(i)
    /\ models' = [models EXCEPT ![i] = Retune(Grown(i), FALSE, pools, env)]
    /\ UNCHANGED <<pools, env, auto, saved>>

AutoGrew ==
    /\ auto = "grow"
    /\ \A i \in DOMAIN models : ~CanGrow(i)
    /\ auto' = "idle"
    /\ UNCHANGED <<pools, models, env, saved>>

AutoStep ==
    \/ \E k \in Key : AutoPlace(k)
    \/ \E lean \in BOOLEAN : AutoPlaced(lean)
    \/ \E k \in Key, p \in Pools : AutoSeed(k, p)
    \/ AutoSeeded
    \/ \E i \in DOMAIN models : AutoGrow(i)
    \/ AutoGrew

-----------------------------------------------------------------------------
PoolStep ==
    \/ \E t \in GpuType, n \in 1..MaxCount : AddGpu(t, n)
    \/ \E p \in Pool : RemoveGpu(p)
    \/ \E p \in Pool, n \in 0..MaxCount : ChangeGpuQty(p, n)
    \/ \E e \in Env : ChangeSettings(e)

ModelStep(i) ==
    \/ RemoveModel(i)
    \/ \E pr \in Prec : SetModelPrec(i, pr)
    \/ \E on \in BOOLEAN : SetModelSpec(i, on)
    \/ \E k \in Key, pr \in Prec : SetModelKey(i, k, pr)
    \/ \E n \in 0..MaxCount : SetModelGpuCount(i, n)
    \/ \E p \in Pool \cup {NoPool} : SetModelGpuPool(i, p)
    \/ \E l \in AllLayouts, ph \in {"decode", "prefill", "both"} :
          SetModelStrat(i, l, ph)
    \/ \E n \in 1..MaxCount : ApplyGpuExpansion(i, n)

AllocNext ==
    \/ PoolStep
    \/ \E k \in Key : AddModel(k)
    \/ \E i \in DOMAIN models : ModelStep(i)
    \/ AutoStart
    \/ AutoStep

AllocSpec == AllocInit /\ [][AllocNext]_allocVars

\* auto_select_models is one call: once started it runs on.
FairAllocSpec == AllocSpec /\ WF_allocVars(AutoStep)

-----------------------------------------------------------------------------
(* Properties                                                              *)

AllocTypeOK ==
    /\ pools \in [Pool -> [type : GpuType, count : 1..MaxCount] \cup {None}]
    /\ \A p \in Pools : pools[p].count = Snap(pools[p].type, pools[p].count)
    /\ models \in Seq(Assignment) /\ Len(models) <= MaxModels
    /\ env \in Env
    /\ auto \in {"idle", "place", "seed", "grow"}
    /\ saved \in Seq(Assignment)

\* No GPU is handed out twice: the models of a pool use at most its GPUs, and
\* a model whose pool does not exist uses none.  Every mutator that grows a
\* model, shrinks a pool or moves a model clamps on its own.
NoOversubscription ==
    /\ \A i \in DOMAIN models :
          /\ models[i].gpus >= 0
          /\ models[i].gpus > 0 => models[i].pool \in Pools
    /\ \A p \in Pools : Used(models, p) <= pools[p].count

\* The two layouts of a model multiply to the GPUs it has, none left out and
\* none invented; an idle model has the unit layout.
LayoutUsesItsGpus ==
    \A i \in DOMAIN models :
        LET m == models[i]
            size == IF m.gpus = 0 THEN 1 ELSE m.gpus
        IN  Size(m.decode) = size /\ Size(m.prefill) = size

\* resolve_deployment skips a model whose phases disagree or do not fit.
Deployed(m) ==
    /\ m.prefill = m.decode
    /\ m.decode \in Valid(m, pools, env)

\* A model that has GPUs and a layout that fits them is deployed: whatever
\* changed the room it has, somebody retuned it.
Serving ==
    \A i \in DOMAIN models :
        Valid(models[i], pools, env) # {} => Deployed(models[i])

\* "Prefill and decode share this layout."
LayoutShared == \A i \in DOMAIN models : models[i].prefill = models[i].decode

\* Shrinking a pool takes no more than it must, and from the last models: a
\* model loses GPUs only when every later model of the pool has none left.
ShrinkTakesFromTheLast ==
    [][ \A p \in Pools :
          pools'[p] # None /\ pools'[p].count < pools[p].count =>
             /\ \/ models' = models
                \/ Used(models', p) = pools'[p].count
             /\ \A i, j \in DOMAIN models :
                   i < j /\ models[j].pool = p /\ models'[i].gpus < models[i].gpus
                      => models'[j].gpus = 0
      ]_allocVars

\* Growing a pool takes no GPU from any model, and applying an "add GPUs"
\* recommendation gives the model exactly the GPUs that were scored.
ExpansionDelivers ==
    [][ \A p \in Pools :
          pools'[p] # None /\ pools'[p].count > pools[p].count =>
             /\ \A i \in DOMAIN models : models'[i].gpus >= models[i].gpus
             /\ \A i \in DOMAIN models, n \in 1..MaxCount :
                   models[i].pool = p /\ ApplyGpuExpansion(i, n)
                      => models'[i].gpus = models[i].gpus + n
      ]_allocVars

\* The automatic selection comes to an end: growing stops.
AutoEnds == auto # "idle" ~> auto = "idle"
=============================================================================
