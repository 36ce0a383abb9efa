# A TLA+ model of the GPU planner

The repository is a Flask application in which visitors plan GPU fleets: GPU
pools, models placed on them, the use cases of a company, and the throughput,
memory and cost that follow. It runs as one gunicorn process with several threads
(`Dockerfile:29`), keeps every scenario in process memory, and remembers
snapshots and visits in one SQLite file. There is no database behind the
planner state and no client-side copy of it: what the process holds under its
locks is the truth.

That makes six things hard. Requests of one browser run concurrently, under
locks kept in a weak dictionary. States come and go (idle expiry, a cap,
delete-my-data, reset, import) while caches keyed by revision numbers outlive
them. A panel counts GPUs twice, in its pools and in its models, and dozens of
mutators must keep the two in step, with a layout that a calculator of three
thousand lines finds valid. Use cases copy their terms from a library that is
edited, imported and indexed beside them. The projection sells hours of
deployments to use cases one after the other, where an order or a share taken
wrongly changes every number of the report. And the tracking store is written
from concurrent requests, partly without a lock, with writes that may fail
silently and a process that may be restarted at any time.

## Inventory

| Component | State | Operations | Interacts with |
|---|---|---|---|
| Planner-state registry, `web/session_store.py` | `_states`, `_compare_states`, `_state_last_seen` per tab scope `<visitor>:<tab>` | get, compare, duplicate, close, reset, import, delete a visitor, prune by TTL and cap | every handler; revisions feed the caches |
| Request pipeline, `web/middleware.py`, `web/helpers.py` | `_scope_locks` (weak), request globals | visitor lock, tab limit, tab lock, handler, render, release | the registry, the tracking hooks |
| Chart cache, `web/cache.py`, `web/api.py` | scopes and entries, two LRU orders | lookup, build, put | reads revisions from the registry; is never told of evictions |
| GPU allocation, `state.py`, `placement.py`, `planner_service.py` | pools and assignments of a panel | add, remove and resize pools; add, move, resize, retune models; layouts; expansion; automatic selection | asks the calculator for layouts; bumps the revision |
| Use cases and projects, `state.py`, `scenarios.py`, `web/use_cases.py` | the library, its cached index, projects, the blended lengths, company size | add, edit, remove, import, normalise on every read | the lengths feed the calculator, the volumes the projection |
| Projection engine, `engine/economics.py`, `cloud_policy.py` | none between requests; supply, queue and rows within one | supply, classification, hourly allocation, fates, prices, marginal moves | reads the panel; throughput from the calculator; moves are applied to the panel |
| Calculator, `calc.py`, `data/model_class.py`, `data/artifacts.py` | memo tables | bytes of weights and caches, valid layouts, prefill, decoding, tasks, speech, embeddings, decisions | reads the catalogs; used by allocation, projection and charts |
| Catalogs, `data/` | none, loaded once | | the calculator takes their shapes for granted |
| Scenario import and export, `scenarios.py` | none | serialise, parse, validate | registry, allocation, use cases |
| Tracking store, `tracking.py` | tables snapshots, visitors, events, metadata; the old JSON log | record, touch, coalesce, retention, delete, import | called by helpers and analytics |
| Analytics hooks, `web/analytics.py` | `_touched`, `_internal` | touch at most every ten minutes, record events, after-request hook | the tracking store |
| Rate limiter, `web/middleware.py` | sliding windows per identity | count, sweep, cap | before every POST |
| Presentation, agent API, admin pages, benchmark tools, application wiring | none, or files written once | rendering | read panels |

What makes them correct:

* Registry: the dictionaries agree; the cap holds after every call and eviction
  takes the least recently used; equal revisions mean equal content, even
  through reset and import.
* Pipeline: at most one request of a visitor in a handler, as if every visitor
  had one slot; no deadlock between the two locks; the tab limit; a response
  that shows the edit it answers.
* Chart cache: a hit shows the panels as they are.
* Allocation: no GPU handed out twice; a model that can be deployed is, in the
  layout chosen for it, and serves if any layout would; the automatic selection
  ends.
* Calculator: what is announced for a deployment fits the memory of its busiest
  stage, and one request more does not.
* Catalogs: keys are unique, layers add up, the shards of a cache make up the
  rank it is split over.
* Use cases: every row finds its definition and follows it, except in what is its
  own; the blend is that of the rows; what is saved can be loaded.
* Projection: demand is served or accounted for, no hour is sold twice, nothing is
  turned away while a deployment that may serve it is free, priority is kept and
  prices are honoured.
* Tracking: events can be joined with visitors; histories in order of time and
  without repeats; deleted means deleted; first-touch context kept.

## Modules

An arrow points from a module to what it EXTENDS.

    RequestScope   --> SessionStore    threads, locks, request steps
    ChartCache     --> SessionStore    chart requests beside store calls
    RequestScope implements VisitorSlots (one slot per visitor)

    Serving --> Capacity --> Roofline --> KvCache --> ModelShape --> Fractions
    PanelCapacity  --> Allocation, Serving         a panel with its calculator
    CatalogShapes  --> KvCache, TextCatalog, GpuCatalog
    CatalogLayouts --> Capacity, CatalogShapes     the whole catalog deployed
    Projection     --> Fractions                   throughput from Serving
    UseCases       --> Fractions
    Tracking                                       threads, tables, restarts

    RequestProofs   --> RequestScope, ChartCache, SessionStoreProofs
    TrackingProofs, UseCasesProofs, AllocationProofs, ProjectionProofs
                    --> their module, Arithmetic
    CapacityProofs  --> PanelCapacity, AllocationProofs
    Arithmetic      --> Fractions

The `MC...` modules give the constants their values and nothing else, except
that `MCChartCache` and `MCTracking` each define a narrower next-state relation
for the run of a finding. `MCCatalog` is the small catalog that `MCAllocation`
and `MCProjection` share. Operators headed "Mutant of" are plausible bugs: each
is an alternative body for the definition it names, under which one property
fails. They are not part of any specification.

### SessionStore

`reg` is a record of the three dictionaries, `None` standing for a missing key,
and `now` is `time.monotonic()`. Every function of the file runs under
`_state_guard`, so each is one action: `GetState`, `GetCompareState`,
`AllowVisitorScope`, `ResetState`, `ReplaceScopeStates`,
`DuplicateCompareState`, `ClearCompareState`, `DeleteVisitorStates`. `EditA` and
`EditB` are any mutator of a fetched panel, through `bumps_revision`; `FailA` and
`FailB` one that raises after it wrote, which leaves the revision: a volume typed
as an infinite number is stored before it is refused. A planner state is a
revision and a member of `Doc`, of which `Broken` stands for a panel with such a
volume: normalising it raises, so no read gets through. Pruning is the operator `Prune`,
whose outcome is a set: among scopes equally old the code takes the smaller key,
a random UUID, and the model takes any. A read that normalises the projects of a
panel (`normalize_projects`) changes it without a new revision; here a read
leaves the panel alone, and `UseCases` has that write.

### RequestScope and VisitorSlots

A thread goes through `Begin`, `AcquireVisitor`, `Admit`, `LookupTabLock`,
`AcquireTab`, `Fetch`, `Act`, `Render` and three release steps; delete-my-data
takes the visitor's lock in the handler. A handler may fail where it reads or
writes a panel (`Raise`, with what `Errors` leaves of the registry): the answer is
an error, and the locks are released.

Lock objects have identity: a key whose object nobody references is dropped
(`Collected`) and the next caller makes a new one, as the `WeakValueDictionary`
does. They are re-entrant. `Unread` is the way out of the hook that releases
nothing: the tab's id is looked for in the form after the visitor's lock was taken
(`middleware.py:151-152`), a body over `MAX_CONTENT_LENGTH` raises there, and
`g.planner_scope_locks`, which tells teardown what to release, is set only at line
160. The lock is then `abandoned`: it stays with its thread, whose later requests
may enter it again, and stays registered as long as the error, a cycle with its
traceback, keeps the frame alive; `CollectAbandoned` is the garbage collector that
finally drops it, if nobody waits for it. `held` says whether the state object
that a handler fetched is still the registered one, since a handler writes to the
object and not to the key. `MadeFor` fixes the key that a lock object would be
created for, so that objects of different keys need not be told apart. Revisions
are flattened here, because SessionStore answers for them.

`VisitorSlots` is what the hooks promise a handler: per visitor a slot that one
thread enters and leaves, and nothing about locks. `RequestScope` implements it
with `inside` mapped to the threads of a visitor that are past the acquisition
of its lock; `VisitorsServedInTurn` is that refinement.

### ChartCache

`entries` and `order` are the two LRU orders of `ScopedRevisionCache`.
`ChartLookup` and `ChartStore` are the two ends of `chart_data`, which holds its
visitor's lock throughout: only other visitors' calls come in between. A cache
entry carries what it shows and whether its revisions may have been handed out
again since (`old`): after an eviction or a duplication. A chart is looked up only
when both panels can be read. Time stands still in
this module, and scopes are evicted in any order.

### Allocation and PanelCapacity

`pools` and `models` are `state.gpus` and `state.models`, the latter in order
because shrinking takes from the end. What fits and what is fastest are two
tables by model, precision, drafter, GPU type, settings and number of GPUs:
`ValidLayouts` and `BestLayout`. Every mutator of the two lists is an action,
each with its trailing retune. `auto_select_models` is the only operation in
several steps (`AutoStart`, `AutoPlace`, `AutoPlaced`, `AutoSeed`, `AutoSeeded`,
`AutoGrow`, `AutoGrew`), because the question about it is whether it ends; while
it runs no other action of the panel can happen, as the visitor's lock is held.
Its demand-driven ranking only chooses an order of candidates, and the model
takes them in any order.

`PanelCapacity` computes the two tables with the calculator's modules
(`LayoutTable`, `BestTable`), so that the runs use layouts the calculator
really finds for the models of `MCCatalog`, and states what the panel announces
for a deployment against the memory of its GPUs, layer by layer (`StageBytes`).
Its last section names what the proofs about it assume of a catalog and its
settings: `Calculated`, `PlainRequests`, `PlainModels` and `Brisk`.

### The calculator: Fractions to Serving

`calc.py` is a library of pure functions on floats. The modules translate them as
operators on exact fractions (`Fractions`: reduced pairs of integers), in units
that stay below TLC's 32-bit integers: millions of parameters, megabytes,
megabytes per second, gigaflops per second.

* `ModelShape`: the record of a model, its artifacts and precisions, the bytes of
  its weights and of a cached element (`data/model_class.py`, `data/artifacts.py`).
* `KvCache`: pipeline stages and tensor shards, the bytes a sequence keeps and
  the bytes a step reads, for dense, latent, windowed, compressed, sparse, shared
  and linear attention.
* `Roofline`: compute, traffic and communication of a pass, distributions of
  lengths and their percentiles.
* `Capacity`: drafters, `compute_memory`, `valid_strategies`, `default_strategy`,
  decoding and the choice of the draft depth.
* `Serving`: prompts, whole tasks, users of a chat, embeddings, decisions, live
  speech, the batch sizes and the peak that the charts show, tokens of a day, and
  `_preferred_strategy`.

### TextCatalog, GpuCatalog, CatalogShapes, CatalogLayouts

The catalog entries of `data/models_text.py` and `data/hardware.py` as records:
the 113 text models and every GPU, with what the calculator reads of them.
`CatalogShapes` states as assumptions what the calculator takes for granted and no
constructor checks: `KeysDistinct`, `LayersAddUp`, `ActiveIsPart`,
`DraftersCalibrated`, `ShardsMakeUpTheRank`. TLC evaluates them with the runs of
`MCAllocation` and `MCCatalogLayouts`. `CatalogLayouts` deploys any text model on
some GPUs of a card in any valid layout and moves it between layouts.

### Projection

One panel is edited (knobs, gateway, company size, schedules, applied moves) and
projected: `BuildSupply`, `ClassifyDemand`, one `RouteProject` per use case,
`PriceOutcomes`, `CalculateImpact`, `Summarize`, the stages of
`compute_projection_result`. `policy` is the deployment's cloud policy, chosen at
start: which cloud models a gateway may use, and negotiated prices, each of which
replaces one price of the catalog (`Listed`). A deployment is in the supply if its
kind of work is text or asked for (`Supplied`). It has two measures. `Blended` is
what it serves of the panel's blended requests and decides whether it takes part
at all (`Runnable`); `Capacity` is what it serves in a day of the requests of one
use case, and decides whether it is a candidate for that one, at which price, and
how fast its hours go. The blend is edited on its own (`SetDistPreset`); how the
projects determine it is in `UseCases`. A use case books hours of the deployments
that pass the code's gates, the cheapest per useful token first (`BookHours`,
`BookFree`, `Charge`), and what is left meets a fate (`Fate`); a use case without
a candidate is told the first gate that no deployment passed (`Blocked`). The
searches for a marginal GPU and a marginal swap project a what-if panel with the
same operators. `PanelOK` says what a knob may be, `FleetAssumption` and
`DemandAssumption` what the fleet, the portfolio and the cloud catalog may be.
`MCProjection` gets what a deployment serves in a day from `DailyTokens` of
`Serving`, and the numbers of GPUs that have a layout from `ValidStrategies`.

### UseCases

`panel` holds the library of definitions, its index (`None` until it is built),
the rows, the blend of lengths and the company's multiplier. One action is a
handler with the read in front of it, or a read alone: the code normalises library
and rows in `get_state`, so between a handler and the next read `retune_models` and
a response that fails see the panel as the handler left it. What a row copies from
its definition without looking at it (name, difficulty, price, requirements,
presets of lengths) is one value, its terms. `SetDist` is a distribution that the
user picks or draws (`/dist/preset`, `/dist/slide`): it stands until the next read
blends again.

`Raises` is a handler that stores a volume typed as an infinite number and then
refuses it: nothing is retuned and the revision stays. `endless` lists the
projects and definitions with such a volume. As long as a project has one, every
read raises (`ReadRaises`), and only the import of a scenario, which reads nothing
first, gets through; a definition with one is repaired when the list is next
normalised, and until then it spoils a project that is added with it. `Loaded`
reads back a saved project set, a library or a scenario.

### Tracking

Every transaction is one action. Between the transactions of a request other
threads run, time passes (`Tick`), a transaction may fail (`CanFail`), the
process may be restarted (`Restart`). `Begin` starts a request of one of five
kinds; those of kind "page" (explainer page, agent API) take no lock. `Touch` is
the decision of `analytics.touch_visitor`, `StoreTouch` and `StoreEvent` are the
store's writes, whose failure is swallowed; that of `StoreSnapshot` ends the
request. The clock of each write is read one step before it (`clock`), as in the
code. `OpenStore` includes the import of the JSON log, with the rename of a
corrupt log outside the transaction. Sequence numbers are only compared: the log's
rows take the first ones whether it is imported or not.

## Runs

| Run | Question | Bounds |
|---|---|---|
| `SessionStore` | `RegistryCoherent`, `CapRespected`, `EvictionOrder`, `RevisionTracksContent` under every sequence of calls | three tabs of two visitors, room for two: eviction meets the caller, a neighbour and a stranger. TTL 1 with three instants: fresh, at the limit, expired. Two readable contents: a reset of an edited state differs from a fresh one |
| `RequestScope` | `VisitorsServedInTurn` (refinement of `VisitorSlots`), `TabLockUncontended`, `TabsWithinLimit`, `EditVisible` | two threads; every kind of request but edits of panel A; two tabs of a visitor with a limit of one and a tab of another; two contents and an unreadable one; two lock objects for each visitor and tab, so that a registry that forgot one can make another |
| `RequestProgress` | `InsideLeaves` (liveness), `OrphanOnlyUnderPressure` | edits of panel A and deletions on a tab each of two visitors; TTL 1, cap 1, so that requests lose their state |
| `ChartCache` | `CacheCoherent`, `FreshWithinLifetime` | two visitors' tabs, room for one in the store and one in the cache, two entries per tab |
| `ChartCacheStale` | `ChartIsCurrent`, violated | one tab, never evicted |
| `Allocation` | `NoOversubscription`, `Serving`, `LayoutUsesItsGpus`, `CapacityHonest`, `ChosenLayoutServes`, `ShrinkTakesFromTheLast`, `ExpansionDelivers`, `AutoEnds` (liveness) | two pools of up to two GPUs, a type of single GPUs and one sold in pairs, a text model with a drafter and a decision model, two memory settings; the models' three layers do not split evenly over two stages, and one setting leaves room for weights without requests |
| `AllocationPicker` | `LayoutShared`, violated | the phases that the layout picker's template sends, two precisions |
| `CatalogStages` | `BusiestStageCharged`, violated | every text model of the catalog on one, two, four or eight of three GPUs |
| `Projection` | `DemandAccounted`, `LeftoversMeanFull`, `PriorityRespected`, `NeverBelowCost` | three fleets of two deployments, with a text model that does not fit one GPU, a speech model that does not stream and a decision model that nobody asks for; four use cases (easy, demanding, deferrable, speech) of two lengths; a blend that the text models run and one that they do not; two hours; two valid cloud policies and an invalid one; every knob, one more GPU or a swapped model |
| `UseCases` | `LookupsCurrent`, `ProjectsFollow`, `BlendCurrent`, `SavedSetReloads`, `ScheduleIsItsOwn` | four calls on up to two rows and three definitions; files with repeated, foreign and missing keys; linear and quadratic scales; volumes at, below and beyond their bound, and an infinite one; one drawn distribution |
| `Tracking` | `EventsHaveVisitor`, `SnapshotsAlternate`, `RepeatsCollapse`, `ErasedStaysErased`, `LastSeenForward` | two threads, one visitor and tab, two contents, three days with one day of retention, windows of one tick, an old log of one row, three snapshots, two events, deletions and restarts without limit |
| `TrackingFirstTouch` | `FirstTouchKept`, violated | two unlocked requests, no failure |

Each passing run except `RequestProgress` and `ChartCache` also checks its
module's type invariant.

The bounds named `MaxNow`, `MaxRev`, `MaxCount`, `MaxModels`, `MaxSnaps`,
`MaxEvents`, `MaxDefs`, `MaxGpus`, `MaxCalls`, `Sizes`, `Tunable` and `Uid` are
constants that only guard or limit the actions that count. Symmetry is over
threads, lock objects or tabs where these are only compared, and only in runs of
safety properties. Deadlock is checked in every run but three: in `UseCases` the
bound on calls ends every behaviour, and in `RequestScope` and `RequestProgress` the
system really can stop, when each of two threads waits for a lock that the other
abandoned. That no request waits for its second lock is `TabLockUncontended`, and
that every request inside gets out is `InsideLeaves`.

The two request runs divide the kinds of request between them, since each kind
multiplies the states: `RequestScope` has 1.8 million with six kinds, and the
edit of panel A, which can lose its state in more ways, is in the smaller
`RequestProgress`.

One visitor is enough in `Tracking`: rows of different visitors meet only in
retention, which looks at times and not at identities, and the proofs below are
for any number of visitors. Two threads are enough for the lock protocol, because
a lock object changes hands between two of them; a third adds waiting, and the
proofs are for any number. Two deployments and three use cases of text are the
fewest where a use case spreads over deployments, finds one taken by an earlier
use case, and is left with a remainder; the fourth, of speech, brings the second
kind of work. The run reaches use cases that are blocked for want of a capability
and for want of capacity, deployments that are idle because the blend does not
run, cloud routes dearer and cheaper than what a use case is worth, and both kinds
of moves; it does not reach one blocked by its quality floor or its success rate.
Four calls reach every pair of edits with a read before, between or after: rows
are synchronised on the next read at the latest, so nothing needs a longer
history.

Each run's mutants show that its bounds let the interesting cases happen: a
dropped prune, a swapped release, an unsnapped sum, a stage charged the mean of
the layers or a missing marker is found under the run's own configuration.

### What the violated runs show

* `ChartCacheStale`: duplicating panel A gives panel B the revision of A plus one,
  whatever revisions earlier panels B had. Duplicate, edit B, look at the chart,
  close B, duplicate, edit B otherwise: the pair of revisions repeats, and the
  chart of the closed panel is served. `state.py:504` calls the revision a
  monotonic version used to invalidate derived caches.
* `AllocationPicker`: for a decision model the template of a model row sends the
  phase `prefill`, and `set_model_strat` then leaves the decode layout as it was.
  The two layouts differ, `_assignment_memories` gives up, and the model silently
  leaves the deployment, below a picker whose title says that both phases share
  the layout.
* `CatalogStages`: a pipeline stage is charged the share of its layers in the cache
  of all layers. In the DeepSeek V4 models every second layer keeps one row in
  four and the others one in 128, and a stage that starts with a large one holds
  more than its share: six of twenty for eleven of 43 layers of deepseek-v4-flash
  on four GPUs, 14 % more than is charged. `_pp_peak_fraction` calls its result
  conservative.
* `TrackingFirstTouch`: `_touched` is marked before the visitor's row is written.
  A second unlocked request skips touching, its event creates a bare row, and the
  first request's context finds the row and is dropped.

`FreshWithinLifetime` leaves out the entries from before a duplication, which is
the finding above, and those of evicted states, whose revisions start again at 0
under the same scope id: the cache can serve those too. No file speaks of that
case, so it is listed as a hazard and not as a finding.

### Observations

Met while translating, with no statement of the repository that they contradict,
or outside what a run checks:

* A body over `MAX_CONTENT_LENGTH` (`app.py:95`) sent without the `X-Tab-ID` header
  ends in 413 with the visitor's lock taken and never released (`Unread`). Until
  the garbage collector frees it, another request of that visitor waits, and one
  that waits keeps the lock alive: it, and all after it, wait for ever. Therefore
  `InsideLeaves` promises the release on every path but this one.
* A volume typed as `inf` is stored, then refused with an error
  (`state.py:1141`, `1427`); `bumps_revision` (`state.py:618`) has no
  `finally`, so the revision stays. Every later read of the panel raises in
  `normalize_projects`, until a scenario is imported, the session reset, or, for
  panel B, the panel closed. `set_use_case_def_field` does the same to a
  definition's `scale_value`, which the next normalisation of the list drops.
  `CHANGELOG.md:238` speaks of mutable settings with finite bounds, of which this
  field is none.
* A deployment on which the panel's blended requests do not run is left out of
  routing (`economics.py:564`), even when it could serve the requests of a use case:
  it is idle, and that use case's demand goes to the cloud or is lost, although
  without price caps "GPUs that are already paid for serve whatever they can"
  (`economics.py:658`, similarly `docs/modelling-review.md:35`). The
  `Projection` run reaches such states with its longer blend. `LeftoversMeanFull`
  says what holds: it speaks of the deployments that run the blend.
* The lock of a project's scale does not recompute the blend of lengths: it is
  stale until the next read, and `BlendCurrent` leaves the toggle out, as it leaves
  out the lengths after `/dist/preset` and `/dist/slide`, which replace the blend
  until a read of a panel with demand computes it again. At a large
  company the converted volume may exceed the bound of 10^12 tokens, and the next
  read clamps it.
* The report says "No routed demand." (`presentation/reports.py:59`) also of a use
  case whose whole demand spilled to the cloud.
* Latent-attention models whose entry lists as many KV heads as heads
  (glm53, kimi-k3, hy4-preview and others) have their joint cache divided
  by the tensor rank; DeepSeek V4, listed with one, has it copied.
* A layout that no probe fits scores `(1, ...)` in `_preferred_strategy` and would
  beat a layout whose best probe is at most one token per second.
* `compute_prefill` returns a result when the whole prompt is cached, also when
  nothing fits; a deployment below 0.005 requests per second rounds to "does not
  run"; `compute_realtime_max_users` halves an interval, which assumes that users
  who keep up at some number keep up at every smaller one.
* Switching on a drafter keeps a valid layout, although it may no longer hold a
  single request.

## Fairness

* `FairRequestSpec`: weak fairness of each thread's `Progress` (every step after
  the start of a request, never the start itself). Threads are scheduled by the
  operating system and no handler waits for anything but the two locks. The garbage
  collector (`CollectAbandoned`) gets no fairness: nothing says when it runs.
  `threading.RLock` is not first-come-first-served: a thread that waits for a
  visitor's lock may be overtaken for ever, or wait for one that was abandoned, so
  the liveness property is that a request which has its lock leaves, not that every
  request is answered.
* `FairAllocSpec`: weak fairness of `AutoStep`, the steps of one running call of
  `auto_select_models`. A call that was entered is executed.
* `Tracking`, `UseCases` and `Projection` state no liveness: nothing in them is
  retried or waits.

## Proofs

TLAPS checks these for every set of scopes, visitors, tabs, threads, pools,
models, definitions and projects, every limit, and every bound of the model. TLC
checks each inductive invariant's conclusions in the runs; the invariants
themselves were checked with the same configurations before they were proved.

`SessionStoreProofs`. `PruneBounds` and `GetStateBounds` say what pruning and
`get_state` promise as operators: an outcome exists, the caller's scope survives
or is created, the result is coherent and under the cap. The inductive invariant
is `IInv`: typed, coherent, under the cap, and with finitely many scopes live.
Finiteness is what the code has for free and the mathematics does not: without it
the cap's `Cardinality` says nothing for an infinite set of scopes. From it follow
`TypeCorrect`, `AlwaysCoherent`, `AlwaysUnderCap` and, with one lemma per kind of
write, the action properties `RevisionsTrackContent` and `EvictionsInOrder`: a
scope that disappears was deleted, was idle past the TTL, or was the longest
unseen of a full registry. Assumptions: `ScopeAssumption`, `LimitAssumption`,
`NoneAssumption`.

`RequestProofs`, the request scope. The invariant `LockInv` follows the references
to lock objects, because that is what the weak dictionary depends on: a lock a
thread names is the registered object of its key (`Names`), so two threads that
name locks of one key name one object; each registered object is kept by a
reference, or by the error of a request that abandoned it, and is registered for
the key it was made for (`WeakEntries`, `AbandonedEntries`); the owner of a lock
is past its acquisition and still names it, or has abandoned it (`Owns`,
`OwnedByHolder`). Mutual exclusion alone is not inductive: it breaks in one step
if the object of an owner could be dropped from the registry. `FreshLock` shows
that a request which finds no registered lock for its key can make one that nobody
references: one object per visitor and tab is enough. `LocksFollowReferences` is
the invariant; from it follow `NeverWaitsForTab` (the second lock never blocks, so
the two locks cannot deadlock), `OneAtATime` (one request of a visitor in a
handler) and `ServedInTurn`: initial states map to initial states of
`VisitorSlots`, acquiring the visitor's lock enters the slot, leaving exits it,
and every other step leaves the slots alone. A second invariant, `ServedInv`, puts
requests, locks and registry together: `HeldGood` says what a handler's state
object still is, and `Room` that an admitted request finds room for its tab when
it creates it, two steps after the check. Only mutual exclusion keeps `Room`, so
`TabLimitHolds` rests on `LockInv`, and so do `EditsAreVisible` and
`OrphansUnderPressureOnly`. Assumptions: `ThreadAssumption`, `ScopeAssumption`.

`RequestProofs`, the chart cache. `CombinedRevisionInjective`: the triangular numbers of
`combined_revision` leave no two pairs of revisions with one key, with or without
a panel B. Its arithmetic is nonlinear and goes by the lemma `Triangles`.
`ChartInv` adds to the registry's `IInv` that each entry not marked `old` shows
what its tab showed at the revisions of its key (`EntriesTrue`), and that the
panels of a chart under construction stay as they are (`BuildingTrue`). The
relation that the proof turns on is `Earlier`: panels no newer than those of now,
where equal revisions mean equal content. It is what an edit, a reset and an
eviction keep and what a duplication breaks, and there `old` is set. From
`ChartInv` follow `CacheStaysCoherent` (any number of tabs, cached scopes and
entries) and `ChartsFreshWithinLifetime`. Assumptions: `CacheAssumption` and those
of SessionStore.

`AllocationProofs`. `UsedTo` adds up a list of models by recursion on its length;
`UsedToSums` turns it into equations, and the lemmas `UsedExcept`, `UsedAppend`
and `UsedRemoved` say what replacing, appending and removing a model does to the
sum. `GoodPanel` says of a list of models that every model has GPUs of a pool that
exists (`Hosted`), layouts that multiply to just these GPUs (`Filled`), the valid
layout in both phases (`Served`), and that no pool is oversubscribed. `AllocInv`
requires it of two panels, the present one and the one that `auto_select_models`
put aside (`saved`): a selection that finds nothing better restores the latter,
so an invariant of the present panel alone is not inductive. One lemma per
handler keeps it, and the clamp of each handler on its own is what the sum needs.
From `AllocInv` follow `AllocTyped`, `NoGpuTwice`, `LayoutsMatch` and
`ModelsServe`, and from the lemmas on `Shrunk` the action properties
`ShrinksFromTheLast` and `ExpansionsDeliver`. `ModelsServe` has the hypothesis
`BothSent`: clients set both phases of a model at once. The page does for all
models but decision models, and `AllocationPicker` is the run in which it does
not. Assumptions: `HardwareAssumption` and `CatalogAssumption`, a valid layout
uses exactly its GPUs (`valid_strategies` walks `factor_triples(gpu_count)`,
`calc.py:1376`) and the preferred layout is a valid one if there is one.

`CapacityProofs`, the calculator under a panel. It has two results, both about
what the operators of `ModelShape` to `Serving` compute, lemma by lemma from the
bottom up: a lemma named after an operator says what it returns.

* Capacity. The calculator counts requests from averages (`_data_capacity`,
  `max_slots`), the property counts bytes layer by layer. `StageCacheFits` connects
  the two: where layers are alike and divided over stages as the code divides
  them, a replica's requests fit every stage if they fit the busiest, which is what
  `compute_memory` charges. `SlotsAre` and `PromptSlotsAre` say that the number of
  slots is the largest that fits, `AnswersAre` and `PromptIs` that batches up to it
  are served and larger ones refused. `LayoutsHonest` is the conclusion for every
  layout of the table, `CapacityKept` for every deployed model of a panel, by
  `AllocInv`, which keeps the layouts valid, and `DeployedRow`.
* The preferred layout. `_preferred_strategy` compares scores as Python compares
  tuples. `LesserTotal` and `LesserTransitive` show that this is a strict total
  order of finite sequences, so that a greatest layout exists (`FirstBestIs`).
  `ProbesMeasured` shows that every probe is absent or a pair of numbers: a step
  takes positive time whatever the layout, so nothing is divided by zero. Then a
  layout with a probe above one token per second outscores every layout that is
  scored by its shape, whose score starts with 0 or 1, and a layout that answered a
  probe serves a request (`AnsweredServes`, `DecidedServes`). `ChosenServes` takes
  this to the panel.

Their hypotheses are named definitions of `PanelCapacity`. `Calculated`: the four
tables are those the calculator computes. `PlainRequests`, for `CapacityKept`:
prompts are not empty, the hit rate is below 1 (a prompt that the cache holds
entirely is never refused, while the announced capacity counts the prefixes it
keeps), and layers are alike. Of the catalog, `g26`, `deepseek-v4.1-flash`,
`deepseek-v4-pro` and `deepseek-v4-flash` have layers that are not; the assumption
`MostAlike` says that these are all. `PlainModels`, for `ChosenServes`: a text model
is no embedding. `Brisk`, for `ChosenServes`: where a layout serves requests, one
answers a probe with more than one token per second. Without it the statement is
false: a layout with one token per second or less loses to one that
serves nothing, whose score by shape starts with 1. TLC evaluates all of them for
the catalog of the `Allocation` run (`PlainPanel` of `MCAllocation`). The one
hypothesis that TLC cannot evaluate is `AbsentIsNone`: Python's `None`, the model
value `Absent`, is no record and no tuple. Assumptions:
`PanelAssumption`, `CapacityAssumption`, `PagingAssumption` and those of Allocation.

`UseCasesProofs`. The library's index may be missing or right, and never wrong
(`Cached`); `Found` is a panel as `get_state` hands it to a handler, normalised
and with its index; `Left` is what a handler may leave: the projects it was not
asked to edit follow their definitions, and the blend is that of the present
demand, unless the call toggled a lock or drew a distribution. A handler that
raised leaves a panel that no `Found` follows until a scenario is imported
(`EndlessOK` says which projects and definitions are in the way). `UseCaseInv` is
inductive with these: the next read turns what `Left` allows into `Found`, for a definition renamed,
removed or replaced in between. From it follow `UseCasesTyped` (with the keys of
a library distinct), `IndexNeverStale`, `ProjectsAlwaysFollow`,
`BlendNeverStale`, `SchedulesStay`, and `SavedSetsReload`: `Loaded` is the inverse
of saving on every panel that satisfies the invariant. Keys for new definitions
come from `Keyed`, a recursion over a file's definitions, which by induction
gives no key twice. Assumptions: `VolumeAssumption` (a factor is at least 1, as
`_positive_payload_float` sees to) and `LibraryAssumption` (presets have distinct
keys and seeds in bounds, as all 25 of `data/use_cases.py` have).

`TrackingProofs`. `TrackInv` adds to the three invariants

* `LogDone`: once the store was opened or anything was erased, there is no log
  left to import. Without it, "deleted data stays deleted" is not inductive: the
  next restart could import the log.
* `ErasedIsQuiet`: no request of an erased visitor is under way, except one that
  deletes. Without it a request that was already past its checks could write.
* `ReadyToRecord` and the bound on sequence numbers, for the types.

One lemma per action shows that it keeps `TrackInv` and moves visits forward
(`Forward`), so the invariant and the action property come from the same case
analysis. `EventStored` carries the argument about retention: an event that
survives the sweep is no older than the cutoff, its visitor was last seen no
earlier, so the visitor survives as well. `EventInv` adds the order of time:
requests of a visitor take turns (`TakeTurns`) and whoever is about to write read
its clock after everything the visitor's tab has stored (`ClocksInOrder`), so a
new row is the latest of its tab, and a repeat within the window finds the event
it repeats. That gives `RepeatsAlwaysCollapse`. `SnapshotInv` does the same for
snapshots and adds that the import meets an empty table. `HistoryAlternates` has
the hypothesis `LogInTurn`, the imported log has no snapshot twice in a row: the
import inserts its lines without comparing them, and the process that wrote the
log compared. Assumption: `TrackingAssumption`.

`ProjectionProofs`. The projection is a loop over use cases around a loop over
candidates around arithmetic, and the argument follows these layers.

* Arithmetic: `HourTaken` and `DayTaken` say what taking a part of one hour, or the
  same part of every free hour, leaves of it: nothing negative, hours and tokens
  split without rest, and an hour with nothing left where demand is left.
* One deployment: `BookOnIs` says this of `BookHours`, `BookFree` and `Charge`
  (`SlotBooked`).
* The loop over candidates: `BookingRuns` gives the bookings it passes through, one
  per candidate; `Met` holds of each. What follows is `Booked`: a deployment that a
  use case wants gave it hours and was charged for them, any other is untouched,
  and demand still open met every wanted deployment full. `CandidatesSorted`, which
  rests on the existence of a sorted enumeration (`SortedExists`), says that each
  candidate is tried once.
* The loop over use cases: the invariant `ProjInv`. A use case's shortness is a
  statement about the supply when it was routed; the invariant says it of the
  present supply (`FullOK`), which stays true because an hour with nothing left
  gives nothing (`HourLeft`). That the hours were sold once is a sum over the rows
  (`HoursOK`, by `SoldMore`), that a deployment is charged what it loses one over
  the hours (`TimesOK`, by `TimeCharged`). `QueueOK` says that routed use cases come
  before those that wait; with `FullOK` it gives `PriorityHolds`: when a use case
  takes from an hour, the hour was not empty, so none that outranks it is short.
  TLC checked `ProjInv` on the states of the `Projection` run.

`NeverPaysMore` needs `TotalSwap`: the cost adds up deployments, the value hours.
Assumptions: `FleetAssumption` (a day has hours and each day shape a positive
weight, as the 24 hours and the shapes of `data/use_cases.py` have; finitely many
deployments and use cases, with numbers; amounts are not negative, as
`allocate_capacity` clips `tokens_day`) and `DemandAssumption` (prices, volumes and
finitely many cloud models). Proving it corrected the model: the cost of a use case
had summed over all deployments, which for one that does not run divides by zero;
the code, and now the model, sums over its candidates. A fleet with such a
deployment was added to the run.

`Arithmetic` holds what several of these modules use. The installed provers
cannot instantiate the library's induction theorems, whose parameter is an
operator; `LeastNumber` instead shows that every nonempty set of numbers has a
least element, and `EveryNumber` and `EverySubset` are induction over a set.
`Recursion`, `RunningSum` and `SubsetRecursion` show that a recursive function
satisfies its defining equation, where its body is an expression of first order.
`GcdFacts` shows that Euclid's algorithm computes what it should, `SameNumber` that
a fraction in lowest terms is unique; from these follow the laws of sums, products,
quotients and order. `TotalRuns` is the recursion behind `MapThenFoldSet`, and the
lemmas after it say what a sum over a finite set is: independent of the order in
which it is taken (`TotalSplit`), monotone, linear, and the same by rows and by
columns. `WholeSum` and `SumIs` say that a sum of natural numbers is one and that a
sum of fractions is not negative when none of them is. `Iteration` and `PowerIs`
are the same recursion for powers, which the expected length of an accepted draft
needs.

TLC evaluates every assumption in the runs of its module.

Only model-checked:

* Liveness, which the prover does not do: `InsideLeaves`, `AutoEnds`.
* The capacity of the four models whose layers are not alike. `CatalogStages`
  refutes it for deepseek-v4-flash: for those models it is a finding and no theorem.
* What `CatalogShapes` assumes of the catalog: TLC evaluates it for every entry.

## Assumptions and simplifications

* One process: `WEB_CONCURRENCY` is 1 and `GUNICORN_THREADS` 4 (`Dockerfile:7-8`,
  README.md:117).
* Wall-clock time does not go back in `Tracking`. `RepeatsCollapse` and
  `SnapshotsAlternate` depend on it; the other properties of the module do not, as
  each transaction's clock may be any earlier reading.
* SQLite transactions are atomic and serialised (`BEGIN IMMEDIATE`).
* The content of a panel is one of three values in `SessionStore` and the modules
  over it, one of them unreadable; a payload is one of two documents.
* The edit of a panel is one step in `SessionStore` although a handler's mutator
  is many Python statements: the visitor's lock, shown by `OneAtATime`, and the
  absence of other writers of a panel make it one.
* Floats are exact fractions. A tolerance in the code (`1e-9` and the like) is
  then zero; where the code rounds a result, the model rounds it the same way.
* Transcendental functions and measured curves are tables: the logarithm of the
  number of ranks, the paging pressure, the latencies of a hop.
* `CatalogStages` looks at sequences of 4096 tokens: long enough for every window
  and ratio of the catalog, short enough for 32-bit integers.
* In `UseCases` a company's size and savviness are one multiplier, and volumes are
  whole.
* In `Projection` the requests of a use case have one of a few lengths, a cloud
  model one price per token for short prompts and one for long ones, and qualities
  are small numbers, so the success curve of `data/quality.py` has three values.
* In `UseCases` the terms of a project are one value, so `SavedSetReloads` would miss
  a single field of them that the file forgets.
* The imported log of the `Tracking` run has one row; its limits per tab and its
  order over several rows rest on `HistoryAlternates`.

## Not modelled

* Rendering, reports, compression, security headers, cookies and CSRF: no state,
  or a matter of strings.
* The agent API: each call parses, computes and forgets. The admin console: login
  and queries over the tracking store.
* `mark_internal`, which may also insert the row of a visitor again after its data
  was deleted (`analytics.py:315`, `ErasedStaysErased` is without it); the
  eviction from `_touched` beyond 50 000 visitors, and the slimmed snapshot
  payload with its restoration.
* The rate limiter: its state is a window per identity, and what it can do wrong
  is let a client try again early. Its hazard is listed.
* Catalog entries of embedding, speech and decision models, releases and measured
  checkpoints, quality scores and cloud prices: data that the modelled code reads
  through the same fields as the entries that are here.
* CO2, energy and depreciation of the projection: linear in what is served.
* Curves that are only drawn, percentiles of mixed loads and the memo tables of
  the calculator, whose keys `KeysDistinct` shows to be unique.
* Validation messages and limits of lengths in an imported file.

## Plan

Done, in this order, the most important behaviour first: `SessionStore` and its
proofs, `RequestScope`, `ChartCache`, `Allocation`, `Tracking` and its proofs;
then the refinement of `VisitorSlots` with its proof, `UseCases`, `Projection`,
the calculator with `PanelCapacity`, and the catalogs; then proofs of the safety
properties of all stateful modules, and of what the calculator promises a panel.
Every invariant and action property of a passing run on a stateful module is now
stated by a theorem.

Next:

1. `ShardsMakeUpTheRank` for every model and not only those of the catalog.
2. `RateLimiter`: windows, sweep and cap, with the clock read before the lock;
   `mark_internal` in `Tracking`.
