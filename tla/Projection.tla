---------------------------- MODULE Projection -----------------------------
(***************************************************************************)
(* The projection engine of the planner (engine/economics.py): which use   *)
(* case is served by which deployment in which hour, what happens to the   *)
(* rest, and which single change of the fleet would pay.                   *)
(*                                                                         *)
(* One panel is edited (the knobs that reach the projection) and projected *)
(* by the stages of compute_projection_result, one action per stage and    *)
(* one per routed use case.  The numbers are exact fractions.              *)
(*                                                                         *)
(* Abstracted: the throughput of a model on a number of GPUs at requests   *)
(* of some length is the table Throughput (calc.py computes it), a cloud   *)
(* model has one price per token, qualities are small numbers, CO2 follows *)
(* the served tasks and is left out.                                       *)
(***************************************************************************)
EXTENDS Integers, Sequences, FiniteSets, SequencesExt, Fractions

CONSTANTS
  Hours,         \* the hours of a day, 1..H; the code has 24
  Shapes,        \* day shape -> hour -> weight (data/use_cases.py DAY_SHAPES)
  Models,        \* model key -> [quality, caps, kind, efficient]
  Lengths,       \* request length -> [in, out]
  Throughput,    \* <<model key, GPUs, length>> -> tokens of a full-load day, 0: does not run
  Fits,          \* the <<model key, GPUs>> that have a valid layout
  GpuCost,       \* cost of one GPU for a day
  Slots,         \* the deployments of the panel, in list order, 1..n
  Projects,      \* the use cases, by uid, 1..n
  Demand,        \* project -> [kind, latent, unlock, wtp, difficulty, slo, floor,
                 \*             requires, length]
  Panels,        \* the panels a session starts from
  CloudModels,   \* cloud key -> [base, long, above, quality, caps, context, output]:
                 \* long prompts, those above a length, may have a price of their own;
                 \* long and caps may be Unlisted, above is 0 without a long tier
  Presets,       \* built-in gateways -> set of cloud keys
  Policies,      \* deployment policy documents an operator may configure
  Unlisted,      \* what a cloud entry does not say
  Current,       \* the built-in gateway that stands in for an unknown one
  NoCloud,       \* no qualifying cloud model
  Blends,        \* bound: the lengths a user gives the panel's blend
  Tunable,       \* bound: the use cases whose schedule is edited
  Sizes,         \* company sizes, as multiples of the reference size
  MaxGpus,       \* bound: GPUs of a deployment
  RowLimit       \* MARGINAL_RECOMMENDATION_LIMIT

VARIABLES
  policy,        \* the policy installed at startup (cloud_policy._POLICY)
  panel,         \* what the projection reads of the planner state
  stage,         \* the stage of compute_projection_result reached
  queue,         \* use cases still to route, in order
  supply,        \* deployment of a kind in demand -> [remaining, used, served]
  outcome,       \* routed use case -> its row
  summary        \* fates, value, cost, margin, status of deployments and moves

(* What a session may start from: every knob has a value of its kind. *)
PanelOK(pn) ==
  /\ DOMAIN pn = {"model", "count", "size", "tokens", "locked", "batch", "shape",
                  "price_driven", "cloud_enabled", "latent", "gateway", "blend"}
  /\ pn.model \in [Slots -> DOMAIN Models]
  /\ pn.count \in [Slots -> 1..MaxGpus]
  /\ pn.size \in Nat /\ pn.blend \in DOMAIN Lengths
  /\ DOMAIN pn.tokens = Projects /\ \A p \in Projects : Amount(pn.tokens[p])
  /\ pn.locked \in [Projects -> BOOLEAN] /\ pn.batch \in [Projects -> BOOLEAN]
  /\ pn.shape \in [Projects -> DOMAIN Shapes]

(* Prices of a catalog entry, and those a policy document replaces. *)
EntryOK(entry) == entry.base \in Nat /\ entry.long \in Nat \cup {Unlisted}
PricesOK(doc)  == \A k \in DOMAIN doc.price : \A f \in DOMAIN doc.price[k] : doc.price[k][f] \in Nat

ASSUME FleetAssumption ==
  /\ IsFiniteSet(Hours) /\ Hours # {}
  /\ IsFiniteSet(Slots) /\ Slots \subseteq Int
  /\ IsFiniteSet(Projects) /\ Projects \subseteq Int
  /\ Tunable \subseteq Projects /\ Blends \subseteq DOMAIN Lengths /\ Sizes \subseteq Nat
  /\ GpuCost \in Nat /\ MaxGpus \in Nat
  /\ \A w \in DOMAIN Shapes : /\ \A h \in Hours : Shapes[w][h] \in Nat
                              /\ \E h \in Hours : Shapes[w][h] > 0
  /\ {"native", "live"} \subseteq DOMAIN Lengths
  /\ \A k \in DOMAIN Models, n \in 1..MaxGpus, l \in DOMAIN Lengths : Throughput[<<k, n, l>>] \in Nat
  /\ \A pn \in Panels : PanelOK(pn)

ASSUME DemandAssumption ==
  /\ \A p \in Projects : LET d == Demand[p] IN
       /\ {d.latent, d.unlock, d.wtp} \subseteq Nat
       /\ {d.difficulty, d.floor} \subseteq Int
       /\ IsFiniteSet(d.requires)
       /\ d.length \in DOMAIN Lengths
  /\ IsFiniteSet(DOMAIN CloudModels)
  /\ \A k \in DOMAIN CloudModels : EntryOK(CloudModels[k])
  /\ \A doc \in Policies : PricesOK(doc)

vars == <<policy, panel, stage, queue, supply, outcome, summary>>

-----------------------------------------------------------------------------
(* Cloud policy: what a gateway may route to, and at which price. *)

(* validate_policy: an invalid document stops the application at startup. *)
ValidPolicy(doc) ==
  /\ doc.allowed \subseteq DOMAIN CloudModels
  /\ doc.allowed # {}
  /\ DOMAIN doc.price \subseteq doc.allowed
  /\ \A k \in DOMAIN doc.price : DOMAIN doc.price[k] \in SUBSET {"base", "long"} \ {{}}
  /\ DOMAIN doc.presets \cap DOMAIN Presets = {}
  /\ \A g \in DOMAIN doc.presets :
       doc.presets[g] # {} /\ doc.presets[g] \subseteq doc.allowed

Gateways == DOMAIN Presets \cup DOMAIN policy.presets

(* effective_corpo_models: an unknown gateway reads as the current one. *)
GatewayModels(g) ==
  LET listed == IF g \in DOMAIN policy.presets THEN policy.presets[g]
                ELSE IF g \in DOMAIN Presets THEN Presets[g]
                ELSE Presets[Current]
  IN  listed \cap policy.allowed

(* effective_entry: negotiated prices replace those of the catalog, each alone. *)
Listed(k, tier) ==
  IF k \in DOMAIN policy.price /\ tier \in DOMAIN policy.price[k] THEN policy.price[k][tier]
  ELSE CloudModels[k][tier]

(* The tier of _cloud_price_per_m_in_preset: a long prompt costs the price of *)
(* its tier, where the entry has one.                                         *)
CloudPrice(k, input) ==
  LET long == CloudModels[k].above > 0 /\ input > CloudModels[k].above
  IN  IF long /\ Listed(k, "long") # Unlisted THEN Listed(k, "long") ELSE Listed(k, "base")

-----------------------------------------------------------------------------
(* Sorting. *)

(* The members of S as a sequence, each before those it comes before. *)
Ranked(S, before(_, _)) ==
  CHOOSE q \in [1..Cardinality(S) -> S] : \A i, j \in 1..Cardinality(S) : i < j => before(q[i], q[j])

-----------------------------------------------------------------------------
(* Success of a model at a task: near one above its difficulty, a half where *)
(* they match, near zero below (data/quality.py success_rate).               *)

SuccessRate(quality, difficulty) ==
  IF quality > difficulty THEN Whole(1)
  ELSE IF quality = difficulty THEN Frac(1, 2)
  ELSE Frac(1, 100)

RequiredQuality(d) ==
  LET bar == IF d.slo = Whole(1) THEN d.difficulty + 1 ELSE d.difficulty
  IN  IF bar < d.floor THEN d.floor ELSE bar

(* Prices per useful token of the qualifying cloud models, retries included: *)
(* an entry that lists no capabilities passes that gate.                     *)
CloudOffers(p) ==
  LET d == Demand[p]
      asked == Lengths[d.length]
  IN  { Over(Whole(CloudPrice(k, asked.in)), SuccessRate(CloudModels[k].quality, d.difficulty)) :
          k \in { j \in GatewayModels(panel.gateway) :
                    /\ panel.cloud_enabled
                    /\ d.kind = "llm"
                    /\ CloudModels[j].caps = Unlisted \/ d.requires \subseteq CloudModels[j].caps
                    /\ CloudModels[j].quality >= d.floor
                    /\ AtMost(d.slo, SuccessRate(CloudModels[j].quality, d.difficulty))
                    /\ asked.in + asked.out <= CloudModels[j].context
                    /\ asked.out <= CloudModels[j].output } }

Cheapest(offers) == IF offers = {} THEN NoCloud ELSE LeastOf(offers)
CloudRoute(p)    == Cheapest(CloudOffers(p))

-----------------------------------------------------------------------------
(* Demand of a use case. *)

HourShare(p, h) ==
  LET w == Shapes[panel.shape[p]]
  IN  Over(Whole(w[h]), Total([k \in Hours |-> Whole(w[k])], Hours))

PeakOverMean(p) ==
  IF panel.batch[p] THEN Whole(1)
  ELSE Times(LargestOf({ HourShare(p, h) : h \in Hours }), Whole(Cardinality(Hours)))

DemandScale(p) == IF panel.locked[p] THEN 1 ELSE panel.size

(* latent_activation_share: a half at the unlock price, more below, less above. *)
Activation(price, unlock) ==
  IF unlock = 0 \/ ~Positive(price) THEN Zero
  ELSE IF Below(price, Whole(unlock)) THEN Frac(3, 4)
  ELSE IF price = Whole(unlock) THEN Frac(1, 2)
  ELSE Zero

-----------------------------------------------------------------------------
(* Supply: pn is a panel, the real one or one of a what-if.  A deployment    *)
(* runs if it can serve the panel's blended requests, or a probe of its own  *)
(* kind; what it can sell to a use case depends on the requests of that one. *)

ModelOf(pn, s) == Models[pn.model[s]]
Supplied(pn)   == { s \in Slots : ModelOf(pn, s).kind \in {Demand[p].kind : p \in Projects} \cup {"llm"} }

Blended(pn, s) ==
  Throughput[<<pn.model[s], pn.count[s], IF ModelOf(pn, s).kind = "llm" THEN pn.blend ELSE "native">>]
Runnable(pn, s) == Blended(pn, s) > 0

(* Speech that is transcribed while it is spoken needs a model that streams. *)
LengthOf(p) == IF Demand[p].kind = "asr" /\ ~panel.batch[p] THEN "live" ELSE Demand[p].length

Capacity(pn, s, p) == Throughput[<<pn.model[s], pn.count[s], LengthOf(p)>>]

FreshSupply(pn) == [s \in Supplied(pn) |->
  [ remaining |-> [h \in Hours |-> Frac(1, Cardinality(Hours))],
    used      |-> Zero,
    served    |-> Zero ]]

(* The gates of allocate_capacity, in the code's order. *)
SuccessOn(pn, s, p) ==
  IF Demand[p].kind = "llm" THEN SuccessRate(ModelOf(pn, s).quality, Demand[p].difficulty)
  ELSE Whole(1)

KindSlots(pn, p)    == { s \in Supplied(pn) : ModelOf(pn, s).kind = Demand[p].kind /\ Runnable(pn, s) }
CapableSlots(pn, p) == { s \in KindSlots(pn, p) : Demand[p].requires \subseteq ModelOf(pn, s).caps }
FloorSlots(pn, p)   == { s \in CapableSlots(pn, p) :
                           Demand[p].kind = "llm" => ModelOf(pn, s).quality >= Demand[p].floor }
SloSlots(pn, p)     == { s \in FloorSlots(pn, p) : AtMost(Demand[p].slo, SuccessOn(pn, s, p)) }
Candidates(pn, p)   == { s \in SloSlots(pn, p) : Capacity(pn, s, p) > 0 }

(* Tokens burnt per useful token: verbose models write more, failures are retried. *)
TokenMult(pn, s, p) ==
  Over(Whole(IF ModelOf(pn, s).efficient THEN 1 ELSE 2), SuccessOn(pn, s, p))

PerFrac(pn, s, p)  == Over(Whole(Capacity(pn, s, p)), TokenMult(pn, s, p))
InternalPm(pn, s, p) ==
  Over(Times(Whole(GpuCost * pn.count[s]), PeakOverMean(p)), Whole(Capacity(pn, s, p)))
EffectivePm(pn, s, p) == Times(InternalPm(pn, s, p), TokenMult(pn, s, p))

(* The candidates with their prices. *)
Bids(pn, p) == { [slot |-> s, pm |-> EffectivePm(pn, s, p)] : s \in Candidates(pn, p) }

Before(x, y) == \/ Below(x.pm, y.pm)
                \/ x.pm = y.pm /\ x.slot < y.slot

(* Mutant of CandidateOrder: only the cheapest candidate is tried. *)
CandidateOrderCheapest(pn, p) ==
  LET first(bids) == { x \in bids : \A y \in bids \ {x} : Before(x, y) }
  IN  SetToSeq(first(Bids(pn, p)))

(* candidates.sort by price; Python's sort is stable over the supply list. *)
CandidateOrder(pn, p) == Ranked(Bids(pn, p), Before)

(* Mutant of PriceCap: next to a cloud route, the worth is forgotten. *)
PriceCapCloud(p) ==
  IF CloudOffers(p) = {} THEN Whole(Demand[p].wtp) ELSE LeastOf(CloudOffers(p))

(* Price-driven demand never pays more than its value or than the cloud asks. *)
PriceCap(p) == LeastOf({Whole(Demand[p].wtp)} \cup CloudOffers(p))

Affordable(p, pm) == panel.price_driven => AtMost(pm, PriceCap(p))

(* The demand of a use case whose candidates are tried in this order. *)
TotalDemand(p, order) ==
  LET d == Demand[p]
      latent == IF ~panel.price_driven \/ ~panel.latent \/ order = <<>> THEN Zero
                ELSE Times(Whole(d.latent * DemandScale(p)), Activation(order[1].pm, d.unlock))
  IN  Plus(Times(panel.tokens[p], Whole(DemandScale(p))), latent)

-----------------------------------------------------------------------------
(* Booking hours.  A booking b holds what is left of the demand per hour   *)
(* (batch demand: in total), the supply, and what each slot delivered per  *)
(* hour.                                                                   *)

AllHours(f) == Total(f, Hours)

(* Mutant of BookHours: the hour's free share does not bound what is taken. *)
BookHoursUnbounded(pn, p, s, b) ==
  LET rate == PerFrac(pn, s, p)
  IN  [ b EXCEPT !.left = [h \in Hours |-> Zero],
                 !.supply[s].remaining = [h \in Hours |-> Minus(@[h], Over(b.left[h], rate))],
                 !.took[s] = b.left ]

(* Interactive work is served in the hour in which it arrives. *)
BookHours(pn, p, s, b) ==
  LET rem  == b.supply[s].remaining
      rate == PerFrac(pn, s, p)
      take == [h \in Hours |-> Least(b.left[h], Times(rem[h], rate))]
  IN  [ b EXCEPT !.left = [h \in Hours |-> Minus(@[h], take[h])],
                 !.supply[s].remaining = [h \in Hours |-> Minus(@[h], Over(take[h], rate))],
                 !.took[s] = take ]

(* Batch work takes the same share of every free hour. *)
BookFree(pn, p, s, b) ==
  LET rem  == b.supply[s].remaining
      rate == PerFrac(pn, s, p)
      free == AllHours(rem)
      take == Least(b.pending, Times(free, rate))
      gone == Over(Over(take, rate), free)
  IN  IF ~Positive(free) THEN b
      ELSE [ b EXCEPT !.pending = Minus(@, take),
                      !.supply[s].remaining = [h \in Hours |-> Times(@[h], Minus(Whole(1), gone))],
                      !.took[s] = [h \in Hours |-> Times(Times(rem[h], gone), rate)] ]

(* Mutant of Charge: time is charged at the pace of the blended requests. *)
ChargeBlended(pn, p, s, b) ==
  LET burnt == Times(AllHours(b.took[s]), TokenMult(pn, s, p))
  IN  [ b EXCEPT !.supply[s].used   = Plus(@, Over(burnt, Whole(Blended(pn, s)))),
                 !.supply[s].served = Plus(@, burnt) ]

(* The deployment is charged the time and the tokens it spends on a use case. *)
Charge(pn, p, s, b) ==
  LET useful == AllHours(b.took[s])
  IN  [ b EXCEPT !.supply[s].used   = Plus(@, Over(useful, PerFrac(pn, s, p))),
                 !.supply[s].served = Plus(@, Times(useful, TokenMult(pn, s, p))) ]

NothingBooked(p, total, sup) ==
  [ total   |-> total,
    left    |-> [h \in Hours |-> IF panel.batch[p] THEN Zero ELSE Times(total, HourShare(p, h))],
    pending |-> IF panel.batch[p] THEN total ELSE Zero,
    supply  |-> sup,
    took    |-> [s \in Slots |-> [h \in Hours |-> Zero]] ]

BookOn(pn, p, s, b) ==
  Charge(pn, p, s, IF panel.batch[p] THEN BookFree(pn, p, s, b) ELSE BookHours(pn, p, s, b))

BookInOrder(pn, p, order, sup) ==
  FoldLeft(LAMBDA b, x : IF Affordable(p, x.pm) THEN BookOn(pn, p, x.slot, b) ELSE b,
           NothingBooked(p, TotalDemand(p, order), sup), order)

Book(pn, p, sup) == BookInOrder(pn, p, CandidateOrder(pn, p), sup)

(* What becomes of the demand that was not served, next to a cloud route. *)
Fate(pn, p, served, route) ==
  IF \/ route = NoCloud
     \/ panel.price_driven /\ Below(Whole(Demand[p].wtp), route)
  THEN "destroyed"
  ELSE IF Positive(served) \/ \E x \in Bids(pn, p) : Affordable(p, x.pm) THEN "spilled"
  ELSE "leaked"

(* Why no deployment is a candidate: the first gate that none of them passed. *)
Blocked(pn, p) ==
  IF Candidates(pn, p) # {} \/ KindSlots(pn, p) = {} THEN "no"
  ELSE IF CapableSlots(pn, p) = {} THEN "capability"
  ELSE IF FloorSlots(pn, p) = {} THEN "floor"
  ELSE IF SloSlots(pn, p) = {} THEN "slo" ELSE "capacity"

Served(b) == AllHours([h \in Hours |-> Total([s \in Slots |-> b.took[s][h]], Slots)])
CostOf(pn, p, took) ==
  Total([s \in Candidates(pn, p) |-> Times(Times(AllHours(took[s]), TokenMult(pn, s, p)),
                                           InternalPm(pn, s, p))], Candidates(pn, p))

(* The row of a use case: fate and worth of what was served and what was not. *)
RowOf(pn, p, b, served, unserved, fate, worth) ==
  LET portion(f) == IF f = fate THEN unserved ELSE Zero
  IN  [ total |-> b.total, served |-> served, took |-> b.took, left |-> b.left,
        spilled |-> portion("spilled"), leaked |-> portion("leaked"),
        destroyed |-> portion("destroyed"),
        value |-> Times(served, worth), lost |-> Times(unserved, worth),
        cost |-> CostOf(pn, p, b.took),
        blocked |-> Blocked(pn, p) ]

RowNextTo(route, pn, p, b, served) ==
  RowOf(pn, p, b, served, Minus(b.total, served), Fate(pn, p, served, route),
        IF route = NoCloud THEN Whole(Demand[p].wtp) ELSE route)

Row(pn, p, b) == RowNextTo(CloudRoute(p), pn, p, b, Served(b))

(* Mutant of Precedes: the use case worth most comes first, batch or not. *)
PrecedesByWorth(p, q) ==
  \/ Demand[p].wtp > Demand[q].wtp
  \/ Demand[p].wtp = Demand[q].wtp /\ p < q

(* classify_demand: interactive before batch, then worth, then scarcity. *)
Key(p) ==
  LET d == Demand[p]
  IN  << IF panel.batch[p] THEN 1 ELSE 0, -d.wtp, -RequiredQuality(d), -Cardinality(d.requires), p >>

Precedes(p, q) ==
  \E i \in 1..5 : Key(p)[i] < Key(q)[i] /\ \A j \in 1..(i - 1) : Key(p)[j] = Key(q)[j]

-----------------------------------------------------------------------------
(* Totals and moves. *)

CostDay(pn) == Whole(GpuCost * MapThenSumSet(LAMBDA s : pn.count[s], Slots))

FatesOf(rows) ==
  [ f \in {"total", "served", "spilled", "leaked", "destroyed"} |->
      Total([p \in Projects |-> rows[p][f]], Projects) ]

(* The value of the demand that met one of the given fates. *)
Valued(rows, fates) ==
  Total([p \in Projects |-> IF \E f \in fates : Positive(rows[p][f]) THEN rows[p].lost ELSE Zero],
        Projects)

Margin(pn, rows) == Minus(Total([p \in Projects |-> rows[p].value], Projects), CostDay(pn))

Entered(pn, p, rows, b) == [supply |-> b.supply, rows |-> [rows EXCEPT ![p] = Row(pn, p, b)]]

(* The whole projection of a what-if panel, routed in the order of the use cases. *)
Projected(pn) ==
  FoldLeft(LAMBDA acc, p : Entered(pn, p, acc.rows, Book(pn, p, acc.supply)),
           [supply |-> FreshSupply(pn), rows |-> [p \in Projects |-> <<>>]],
           Ranked(Projects, Precedes)).rows

Grown(pn, s)      == [pn EXCEPT !.count[s] = @ + 1]
Swapped(pn, s, m) == [pn EXCEPT !.model[s] = m]

Cloud == {"spilled", "leaked"}
Saved(base, now) == IF Below(now, base) THEN Minus(base, now) ELSE Zero

(* A move by the margin it gains and the cloud and lost demand it saves, and *)
(* whether it is listed.                                                     *)
Scored(pn, kind, s, gain, cloud, kept) ==
  LET score == Plus(gain, Plus(Times(Frac(1, 4), cloud), Times(Frac(1, 2), kept)))
  IN  [kind |-> kind, slot |-> s, panel |-> pn, gain |-> gain, score |-> score,
       listed |-> \E x \in {score, gain, cloud, kept} : Positive(x)]

(* What a simulated move would change, from the projection after it. *)
Compared(pn, kind, s, after) ==
  Scored(pn, kind, s, Minus(Margin(pn, after), summary.margin),
         Saved(summary.cloud, Valued(after, Cloud)),
         Saved(summary.destroyed, Valued(after, {"destroyed"})))

Move(pn, kind, s) == Compared(pn, kind, s, Projected(pn))

Best(moves) ==
  LET listed == { m \in moves : m.listed }
      better(m, n) == \/ Below(n.score, m.score)
                      \/ n.score = m.score /\ Below(n.gain, m.gain)
  IN  { m \in listed : Cardinality({ n \in listed : better(n, m) }) < RowLimit }

(* _marginal_gpu_recommendations and _marginal_model_swap_recommendations: a *)
(* move needs a layout, not that the blended requests run on it.             *)
Expansions ==
  { Move(Grown(panel, s), "grow", s) :
      s \in { t \in Slots : /\ panel.count[t] < MaxGpus
                            /\ ModelOf(panel, t).kind \notin {"decision", "embedding"}
                            /\ <<panel.model[t], panel.count[t] + 1>> \in Fits } }

Swaps ==
  { Move(Swapped(panel, x[1], x[2]), "swap", x[1]) :
      x \in { y \in Slots \X DOMAIN Models :
               /\ panel.model[y[1]] # y[2]
               /\ ModelOf(panel, y[1]).kind # "decision"
               /\ Models[y[2]].kind = ModelOf(panel, y[1]).kind
               /\ <<y[2], panel.count[y[1]]>> \in Fits } }

Status(s) ==
  IF ~Runnable(panel, s) THEN "NOT RUNNABLE"
  ELSE IF \E h \in Hours : AtMost(supply[s].remaining[h], Frac(1, 100 * Cardinality(Hours)))
       THEN "SATURATED"
  ELSE IF Below(supply[s].used, Frac(1, 20)) THEN "IDLE" ELSE "OK"

-----------------------------------------------------------------------------
(* Actions: the stages of compute_projection_result. *)

NoSummary == [fates |-> <<>>, margin |-> Zero, cloud |-> Zero, destroyed |-> Zero,
              status |-> <<>>, moves |-> {}]

Init ==
  /\ policy \in { doc \in Policies : ValidPolicy(doc) }
  /\ panel \in Panels
  /\ stage = "edited"
  /\ queue = <<>>
  /\ supply = <<>>
  /\ outcome = <<>>
  /\ summary = NoSummary

BuildSupply ==
  /\ stage = "edited"
  /\ stage' = "supplied"
  /\ supply' = FreshSupply(panel)
  /\ UNCHANGED <<policy, panel, queue, outcome, summary>>

ClassifyDemand ==
  /\ stage = "supplied"
  /\ stage' = "routing"
  /\ queue' = Ranked(Projects, Precedes)
  /\ UNCHANGED <<policy, panel, supply, outcome, summary>>

(* One turn of the loop of allocate_capacity. *)
RouteProject ==
  /\ stage = "routing"
  /\ queue # <<>>
  /\ \E b \in {Book(panel, Head(queue), supply)} :
       /\ outcome' = [ p \in DOMAIN outcome \cup {Head(queue)} |->
                         IF p = Head(queue) THEN Row(panel, p, b) ELSE outcome[p] ]
       /\ supply' = b.supply
  /\ queue' = Tail(queue)
  /\ UNCHANGED <<policy, panel, stage, summary>>

PriceOutcomes ==
  /\ stage = "routing"
  /\ queue = <<>>
  /\ stage' = "priced"
  /\ summary' = [ summary EXCEPT !.fates = FatesOf(outcome),
                                 !.margin = Margin(panel, outcome),
                                 !.cloud = Valued(outcome, Cloud),
                                 !.destroyed = Valued(outcome, {"destroyed"}) ]
  /\ UNCHANGED <<policy, panel, queue, supply, outcome>>

CalculateImpact ==
  /\ stage = "priced"
  /\ stage' = "impacted"
  /\ summary' = [summary EXCEPT !.status = [s \in DOMAIN supply |-> Status(s)]]
  /\ UNCHANGED <<policy, panel, queue, supply, outcome>>

Summarize ==
  /\ stage = "impacted"
  /\ stage' = "done"
  /\ summary' = [summary EXCEPT !.moves = Best(Expansions) \cup Best(Swaps)]
  /\ UNCHANGED <<policy, panel, queue, supply, outcome>>

(* Edits of the panel: any of them makes the next projection start afresh. *)
Edited(pn) ==
  /\ stage = "done"
  /\ panel' = pn
  /\ stage' = "edited"
  /\ supply' = <<>>
  /\ outcome' = <<>>
  /\ summary' = NoSummary
  /\ UNCHANGED <<policy, queue>>

SetPriceDriven(on)  == Edited([panel EXCEPT !.price_driven = on])
SetCloudEnabled(on) == Edited([panel EXCEPT !.cloud_enabled = on])
SetGateway(g)       == Edited([panel EXCEPT !.gateway = g])
SetDistPreset(l)    == Edited([panel EXCEPT !.blend = l])
SetCompanySize(n)   == Edited([panel EXCEPT !.size = n])
SetIncludeLatent(on) == Edited([panel EXCEPT !.latent = on])
SetDayShape(p, w)   == Edited([panel EXCEPT !.shape[p] = w, !.batch[p] = FALSE])
SetBatch(p)         == Edited([panel EXCEPT !.batch[p] = TRUE])
ApplyMove           == \E m \in summary.moves : Edited(m.panel)

ProjectionNext ==
  \/ BuildSupply
  \/ ClassifyDemand
  \/ RouteProject
  \/ PriceOutcomes
  \/ CalculateImpact
  \/ Summarize
  \/ \E on \in BOOLEAN : SetPriceDriven(on) \/ SetCloudEnabled(on) \/ SetIncludeLatent(on)
  \/ \E g \in Gateways : SetGateway(g)
  \/ \E l \in Blends : SetDistPreset(l)
  \/ \E n \in Sizes : SetCompanySize(n)
  \/ \E p \in Tunable : SetBatch(p)
  \/ \E p \in Tunable, w \in DOMAIN Shapes : SetDayShape(p, w)
  \/ ApplyMove

ProjectionSpec == Init /\ [][ProjectionNext]_vars

-----------------------------------------------------------------------------
(* Properties. *)

Routed == DOMAIN outcome

(* The stages hand over what the next one expects: the queue and the routed  *)
(* use cases partition the portfolio, no share of an hour is negative, and a *)
(* summary speaks of the text deployments and of those whose kind of work    *)
(* some use case asks for, and of no other.                                  *)
ProjectionTypeOK ==
  /\ stage \in {"edited", "supplied", "routing", "priced", "impacted", "done"}
  /\ stage \in {"routing", "priced", "impacted", "done"} =>
       /\ Routed \cup Range(queue) = Projects
       /\ Routed \cap Range(queue) = {}
  /\ \A s \in DOMAIN supply, h \in Hours : ~Below(supply[s].remaining[h], Zero)
  /\ stage = "done" =>
       \A s \in Slots : s \in DOMAIN summary.status <=>
         \/ ModelOf(panel, s).kind = "llm"
         \/ \E p \in Projects : Demand[p].kind = ModelOf(panel, s).kind

(* Nothing of a use case's demand is lost or counted twice, and no hour of a *)
(* deployment is sold twice: demand is served or meets one fate; the free    *)
(* share of an hour and what the use cases took of it make the whole hour.   *)
DemandAccounted ==
  /\ \A p \in Routed :
       LET r == outcome[p]
           fates == {"spilled", "leaked", "destroyed"}
       IN  /\ r.total = Plus(r.served, Total([f \in fates |-> r[f]], fates))
           /\ Cardinality({ f \in fates : Positive(r[f]) }) <= 1
  /\ \A s \in DOMAIN supply : \A h \in Hours :
       LET sold == { p \in Routed : s \in Candidates(panel, p) }
           share == [p \in sold |-> Over(outcome[p].took[s][h], PerFrac(panel, s, p))]
       IN  Plus(supply[s].remaining[h], Total(share, sold)) = Frac(1, Cardinality(Hours))
  /\ \A s \in DOMAIN supply :
       Plus(supply[s].used, AllHours(supply[s].remaining)) = Whole(1)

(* Demand goes unserved only where every deployment that may serve it is     *)
(* full, in the hours in which it arrives, or in all of them for batch work, *)
(* and the report shows these deployments as saturated.  A deployment may    *)
(* serve a use case if it runs the blended requests of the panel, passes the *)
(* gates of the use case, runs its requests, and is within its price.  (One  *)
(* that runs the use case's requests but not the blend stays idle.)          *)
LeftoversMeanFull ==
  \A p \in Routed : \A s \in Candidates(panel, p) :
    LET r == outcome[p]
        short == IF panel.batch[p] THEN { h \in Hours : Below(r.served, r.total) }
                 ELSE { h \in Hours : Positive(r.left[h]) }
    IN  Affordable(p, EffectivePm(panel, s, p)) /\ short # {} =>
          /\ \A h \in short : supply[s].remaining[h] = Zero
          /\ stage = "done" => summary.status[s] = "SATURATED"

(* No use case takes capacity that one before it still wants: interactive    *)
(* work comes before batch work, and among equals the one worth more.        *)
Outranks(p, q) ==
  \/ ~panel.batch[p] /\ panel.batch[q]
  \/ panel.batch[p] = panel.batch[q] /\ Demand[p].wtp > Demand[q].wtp

PriorityRespected ==
  \A p \in Projects, q \in Routed : \A s \in Slots, h \in Hours :
    Outranks(p, q) /\ Positive(outcome[q].took[s][h]) =>
      /\ p \in Routed
      /\ s \in Candidates(panel, p) /\ Affordable(p, EffectivePm(panel, s, p)) =>
           IF panel.batch[p] THEN outcome[p].served = outcome[p].total
           ELSE ~Positive(outcome[p].left[h])

(* When demand is price-driven, no use case pays more for local tokens than  *)
(* they are worth to it, nor more than the cheapest cloud route would cost,  *)
(* whichever of the two is less.                                             *)
NeverBelowCost ==
  \A p \in Routed :
    LET r == outcome[p]
    IN  panel.price_driven =>
          /\ AtMost(r.cost, Times(r.served, Whole(Demand[p].wtp)))
          /\ CloudRoute(p) # NoCloud => AtMost(r.cost, Times(r.served, CloudRoute(p)))
============================================================================
