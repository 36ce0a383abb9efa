------------------------------ MODULE UseCases ------------------------------
(***************************************************************************)
(* The demand side of a panel (state.py, scenarios.py): the library of     *)
(* use-case definitions with its cached index, the use cases ("projects")  *)
(* that follow a definition, and the workload shape blended from them.     *)
(*                                                                         *)
(* A request reads its panel through get_state, which normalises library   *)
(* and projects, runs its handler, and reads the panel again to render it. *)
(* One action is a handler with the read in front of it, or a read alone;  *)
(* between a handler and the next read, retune_models and a response that  *)
(* fails see the panel as the handler left it.                             *)
(*                                                                         *)
(* A volume typed as an infinite number is stored before it is refused.  A *)
(* panel with such a project cannot be read any more: normalising it       *)
(* raises, and every request but the import of a scenario reads first.     *)
(*                                                                         *)
(* Abstracted: what a project copies verbatim from its definition (name,   *)
(* difficulty, price, requirements, length presets, prefix reuse, workload *)
(* kind) is one value, its terms; the company's size and savviness are one *)
(* whole multiplier; volumes are whole, and an edit whose result would not *)
(* be whole is not made, nor one of a definition whose finite scale has an *)
(* infinite square.                                                        *)
(***************************************************************************)
EXTENDS Integers, Sequences, FiniteSets, SequencesExt, Fractions

CONSTANTS
  Terms,         \* terms -> [workload, prompt, reuse]: the routing family, the
                 \* share of prompt tokens and the prefix hits, in percent
  ScaleKinds,    \* scale models, [quadratic, factor]
  PRESETS,       \* PROJECT_PRESETS, a sequence of definitions
  Libraries,     \* use-case libraries a user imports, raw definitions
  ProjectSets,   \* project sets a user imports
  DefaultSet,    \* the project set of the default scenario
  NewTerms,      \* terms, scale model and scale of a blank use case
  NewScaleKind,
  NewScale,
  Shapes,        \* day shapes; "office" is DEFAULT_DAY_SHAPE
  Multipliers,   \* demand multipliers of the companies in the model
  Typed,         \* volumes a user types
  Unbounded,     \* a volume typed as an infinite number
  Drawn,         \* length distributions a user picks or draws
  TokenMax,      \* upper bound of tokens_day in PROJECT_FIELD_BOUNDS
  Uid,           \* bound: projects of the panel, 1..n
  None,
  MaxDefs,       \* bound: definitions in the library
  MaxCalls       \* bound: handlers and reads of a behaviour

VARIABLES
  panel,         \* [lib, index, rows, blend, mult] of the planner state
  endless,       \* the projects and the definitions whose volume is infinite,
                 \* whatever their record says: [rows, defs]
  last,          \* what the last handler was asked for: [op, rows, when]
  calls          \* how many handlers and reads ran

useCaseVars == <<panel, endless, last, calls>>

-----------------------------------------------------------------------------
(* Volumes. *)

Larger(a, b) == IF a >= b THEN a ELSE b

Tokens(scale, kind) ==
  IF kind.quadratic THEN scale * scale * kind.factor ELSE scale * kind.factor

IsVolume(tokens, kind) == \E s \in 0..tokens : Tokens(s, kind) = tokens
ScaleOf(tokens, kind) == CHOOSE s \in 0..tokens : Tokens(s, kind) = tokens

ASSUME VolumeAssumption ==
  /\ TokenMax \in Nat
  /\ ScaleKinds \subseteq [quadratic : BOOLEAN, factor : Nat \ {0}]
  /\ \A k \in ScaleKinds : IsVolume(TokenMax, k)
  /\ Multipliers \subseteq Nat \ {0} /\ 1 \in Multipliers
  /\ Typed \subseteq Nat /\ Unbounded \notin Nat

Bounded(tokens) == IF tokens <= TokenMax THEN tokens ELSE TokenMax

(* project_demand_multiplier and effective_scale_value: the number shown. *)
MultiplierOf(p, r) == IF r.locked THEN 1 ELSE p.mult
Shown(p, r) == r.scale * MultiplierOf(p, r)

-----------------------------------------------------------------------------
(* The library.  A key is a slug with the number that makes it unique. *)

KeysOf(lib) == {lib[i].key : i \in DOMAIN lib}

UniqueKey(base, taken) ==
  LET least(n) == <<base, n>> \notin taken /\ \A m \in 1..(n - 1) : <<base, m>> \in taken
  IN  <<base, CHOOSE n \in 1..(Cardinality(taken) + 1) : least(n)>>

Renamed(d, taken) ==
  IF d.key \in taken THEN [d EXCEPT !.key = UniqueKey(d.key[1], taken)] ELSE d

(* Mutant of Keyed: a repeated key stays. *)
KeyedAsGiven(items) == items

Keyed(items) ==
  LET keyed[i \in 0..Len(items)] ==
        IF i = 0 THEN <<>>
        ELSE Append(keyed[i - 1], Renamed(items[i], KeysOf(keyed[i - 1])))
  IN  keyed[Len(items)]

(* _normalize_use_case_def: the slider reaches at least the seeded volume. *)
Widened(d) == [d EXCEPT !.max = Larger(d.max, d.seed)]

NormalLibrary(lib) ==
  IF lib = <<>> THEN PRESETS ELSE Keyed([i \in DOMAIN lib |-> Widened(lib[i])])

(* What a library holds and what a saved project set says of a project. *)
Bases == {"new_use_case"} \cup UNION {{l[i].key[1] : i \in DOMAIN l} : l \in Libraries \cup {PRESETS}}
Keys  == Bases \X (1..(MaxDefs + 1))

Definitions == [ key : Keys, terms : DOMAIN Terms, sk : ScaleKinds, seed : Nat, max : Nat,
                 batch : BOOLEAN ]

Saves(item) ==
  /\ item.terms \in DOMAIN Terms /\ item.sk \in ScaleKinds /\ item.scale \in Nat
  /\ item.locked \in BOOLEAN /\ item.batch \in BOOLEAN /\ item.shape \in Shapes

Custom == <<"custom", 1>>
Row == [ kind : Keys \cup {Custom}, terms : DOMAIN Terms, sk : ScaleKinds, scale : Nat,
         tokens : Nat, locked : BOOLEAN, batch : BOOLEAN, shape : Shapes ]

ASSUME LibraryAssumption ==
  /\ MaxDefs \in Nat
  /\ \A l \in Libraries \cup {PRESETS} : l \in Seq(Definitions) /\ Len(l) <= MaxDefs
  /\ PRESETS # <<>>
  /\ \A i, j \in DOMAIN PRESETS : PRESETS[i].key = PRESETS[j].key => i = j
  /\ \A i \in DOMAIN PRESETS : PRESETS[i].seed <= PRESETS[i].max
  /\ \A f \in ProjectSets \cup {DefaultSet} : \A u \in Uid \cap DOMAIN f : Saves(f[u])
  /\ NewTerms \in DOMAIN Terms /\ NewScaleKind \in ScaleKinds /\ NewScale \in Nat
  /\ "office" \in Shapes
  /\ None \notin Row

(* _use_case_def_index.  The cached index holds the dictionaries of the list *)
(* it was built from, so an edit in place is seen through it; only its keys  *)
(* and the normal form of the list can be out of date.  None: no cache, or   *)
(* one that points at another list.                                          *)
Indexed(p) ==
  IF p.index # None THEN p
  ELSE LET lib == NormalLibrary(p.lib) IN [p EXCEPT !.lib = lib, !.index = KeysOf(lib)]

Finds(p, key) == key \in p.index
Definition(p, key) == p.lib[CHOOSE i \in DOMAIN p.lib : p.lib[i].key = key]
ReplaceDef(p, d) ==
  [p EXCEPT !.lib = [i \in DOMAIN p.lib |-> IF p.lib[i].key = d.key THEN d ELSE p.lib[i]]]

-----------------------------------------------------------------------------
(* The shared workload shape. *)

Uids(p) == {u \in Uid : p.rows[u] # None}

(* The projects that weigh, with what they weigh. *)
Demand(p) ==
  [u \in {u \in Uids(p) : Terms[p.rows[u].terms].workload = "llm" /\ p.rows[u].tokens > 0} |->
     [terms |-> p.rows[u].terms, tokens |-> p.rows[u].tokens]]

(* Lengths weigh by tokens, prefix reuse by prompt tokens. *)
Weighted(demand) ==
  LET of(t)     == {u \in DOMAIN demand : demand[u].terms = t}
      tokens(u) == demand[u].tokens
      prompt(u) == tokens(u) * Terms[demand[u].terms].prompt
      hits(u)   == prompt(u) * Terms[demand[u].terms].reuse
      total     == MapThenSumSet(tokens, DOMAIN demand)
  IN  [ lengths |-> [t \in DOMAIN Terms |-> Frac(MapThenSumSet(tokens, of(t)), total)],
        reuse   |-> Frac(MapThenSumSet(hits, DOMAIN demand),
                         MapThenSumSet(prompt, DOMAIN demand)) ]

(* _sync_aggregate_distribution: without demand the lengths stay as they are. *)
Blend(p) ==
  IF DOMAIN Demand(p) = {} THEN [lengths |-> p.blend.lengths, reuse |-> Zero]
  ELSE Weighted(Demand(p))

Blended(p) == [p EXCEPT !.blend = Blend(p)]

-----------------------------------------------------------------------------
(* Projects. *)

Project(kind, terms, sk, scale, locked, batch, shape) ==
  [ kind |-> kind, terms |-> terms, sk |-> sk, scale |-> scale, tokens |-> Tokens(scale, sk),
    locked |-> locked, batch |-> batch, shape |-> shape ]

FromDefinition(d) == Project(d.key, d.terms, d.sk, d.seed, FALSE, d.batch, "office")
BlankProject == Project(Custom, NewTerms, NewScaleKind, NewScale, FALSE, FALSE, "office")

(* Mutant of Apply: the definition decides the schedule every time. *)
ApplyReseeding(r, d) ==
  LET scale == IF r.kind = d.key THEN r.scale ELSE ScaleOf(r.tokens, d.sk)
  IN  Project(d.key, d.terms, d.sk, scale, r.locked, d.batch, "office")

(* _apply_preset_definition, preserving the scale: a project that takes a    *)
(* kind keeps its tokens and is seeded with the definition's schedule; one   *)
(* that has it keeps its scale and its schedule.                             *)
Apply(r, d) ==
  IF r.kind = d.key
  THEN Project(d.key, d.terms, d.sk, r.scale, r.locked, r.batch, r.shape)
  ELSE Project(d.key, d.terms, d.sk, ScaleOf(r.tokens, d.sk), r.locked, d.batch, "office")

(* Mutant of Sync: only projects whose terms changed are brought up to date. *)
SyncTermsOnly(p) ==
  LET q == Indexed(p)
      synced(r) == IF r = None \/ r.kind = Custom THEN r
                   ELSE IF ~Finds(q, r.kind) THEN [r EXCEPT !.kind = Custom]
                   ELSE IF Definition(q, r.kind).terms = r.terms THEN r
                   ELSE Apply(r, Definition(q, r.kind))
  IN  Blended([q EXCEPT !.rows = [u \in Uid |-> synced(q.rows[u])]])

(* _sync_projects_from_use_case_defs *)
Sync(p) ==
  LET q == Indexed(p)
      synced(r) == IF r = None \/ r.kind = Custom THEN r
                   ELSE IF Finds(q, r.kind) THEN Apply(r, Definition(q, r.kind))
                   ELSE [r EXCEPT !.kind = Custom]
  IN  Blended([q EXCEPT !.rows = [u \in Uid |-> synced(q.rows[u])]])

(* _infer_project_kind: a kind the library lost is looked up by its name. *)
InferKind(p, r) ==
  LET named == {i \in DOMAIN p.lib : p.lib[i].terms = r.terms}
  IN  IF r.kind = Custom \/ Finds(p, r.kind) THEN r.kind
      ELSE IF named = {} THEN Custom
      ELSE p.lib[CHOOSE i \in named : \A j \in named : i <= j].key

NormalProject(p, r) ==
  LET k == [r EXCEPT !.kind = InferKind(p, r)]
      a == IF k.kind = Custom THEN [k EXCEPT !.tokens = Tokens(k.scale, k.sk)]
           ELSE Apply(k, Definition(p, k.kind))
      t == Bounded(a.tokens)
  IN  [a EXCEPT !.tokens = t, !.scale = ScaleOf(t, a.sk)]

(* normalize_projects, which get_state runs on every read of a panel. *)
Normal(p) ==
  LET q == Indexed(p)
  IN  Blended([q EXCEPT !.rows = [u \in Uid |-> IF q.rows[u] = None THEN None
                                                ELSE NormalProject(q, q.rows[u])]])

-----------------------------------------------------------------------------
(* Saved sets and libraries. *)

(* serialize_project_set, one row. *)
Saved(r) ==
  [ kind |-> r.kind, terms |-> r.terms, sk |-> r.sk, scale |-> r.scale,
    locked |-> r.locked, batch |-> r.batch, shape |-> r.shape ]

(* Mutant of Loaded: the lock is not read back. *)
LoadedUnlocked(p, item) ==
  LET known == item.kind \in p.index \cup KeysOf(PRESETS)
  IN  Project(IF known THEN item.kind ELSE Custom, item.terms, item.sk, item.scale,
              FALSE, item.batch, item.shape)

(* _project_from_payload: the file's own terms and volume win over those of  *)
(* the definition; the kind survives when the library or the presets have it. *)
Loaded(p, item) ==
  LET known == item.kind \in p.index \cup KeysOf(PRESETS)
  IN  Project(IF known THEN item.kind ELSE Custom, item.terms, item.sk, item.scale,
              item.locked, item.batch, item.shape)

(* replace_project_set *)
WithSet(p, items) ==
  LET q == Indexed(p)
  IN  Blended([q EXCEPT !.rows = [u \in Uid |-> IF u \in DOMAIN items
                                                THEN Loaded(q, items[u]) ELSE None]])

(* replace_use_case_defs: a new list, which the cached index does not fit. *)
WithLibrary(p, items) ==
  Sync([p EXCEPT !.lib = Keyed([i \in DOMAIN items |-> Widened(items[i])]), !.index = None])

(* deserialize_planner_state: a fresh state; a scenario without library gets *)
(* the presets.                                                              *)
FreshPanel == [ lib |-> PRESETS, index |-> None, rows |-> [u \in Uid |-> None],
                blend |-> [lengths |-> [t \in DOMAIN Terms |-> Zero], reuse |-> Zero],
                mult |-> 1 ]

Scenario(library, items, mult) ==
  LET q == IF library = None THEN FreshPanel ELSE WithLibrary(FreshPanel, library)
  IN  [WithSet(q, items) EXCEPT !.mult = mult]

-----------------------------------------------------------------------------
(* Requests. *)

UseCaseInit ==
  /\ panel = Scenario(None, DefaultSet, 1)
  /\ endless = [rows |-> {}, defs |-> {}]
  /\ last = [op |-> "import", rows |-> Uids(panel), when |-> {}]
  /\ calls = 0

(* A handler that found the normalised panel p leaves panel q; it was asked *)
(* to edit the given projects, and the schedules of those in when.          *)
Leave(q, op, rows, when, e) ==
  /\ calls < MaxCalls
  /\ calls' = calls + 1
  /\ panel' = q
  /\ endless' = e
  /\ last' = [op |-> op, rows |-> rows, when |-> when]

(* Renewing the list normalises it, which drops volumes that are not finite. *)
Leaves(q, op, rows, when) ==
  Leave(q, op, rows, when,
        [rows |-> {}, defs |-> IF op \in {"library", "import"} THEN {} ELSE endless.defs])

(* It raised on the way: the answer is an error, nothing is retuned, and the *)
(* revision stays.                                                           *)
Raises(q, rows, defs) ==
  Leave(q, "raise", rows, {}, [rows |-> rows, defs |-> endless.defs \cup defs])

EditRow(p, u, r) == [p EXCEPT !.rows[u] = r]

Read(p) == Leaves(p, "read", {}, {})

(* add_project: an unknown or missing preset adds a blank one.  With a       *)
(* definition of infinite volume the project is there before its blend, or   *)
(* the next read, raises.                                                    *)
AddProject(p, key) ==
  \E u \in Uid \ Uids(p) :
    /\ \A w \in Uid \ Uids(p) : u <= w
    /\ LET r == IF Finds(p, key) THEN FromDefinition(Definition(p, key)) ELSE BlankProject
       IN  \/ key \notin endless.defs /\ Leaves(Blended(EditRow(p, u, r)), "row", {u}, {u})
           \/ key \in endless.defs /\ Raises(EditRow(p, u, r), {u}, {})

(* Mutant of RemoveProject: the blend is not recomputed. *)
RemoveProjectOnly(p, u) == Leaves(EditRow(p, u, None), "row", {u}, {u})

RemoveProject(p, u) == Leaves(Blended(EditRow(p, u, None)), "row", {u}, {u})

(* set_project_kind; "custom" lets the project go its own way. *)
SetKind(p, u, key) ==
  LET r == p.rows[u]
      d == Definition(p, key)
  IN  \/ key = Custom /\ Leaves(EditRow(p, u, [r EXCEPT !.kind = Custom]), "row", {u}, {u})
      \/ /\ key # Custom
         /\ Finds(p, key)
         /\ IsVolume(r.tokens, d.sk)
         /\ Leaves(Blended(EditRow(p, u, Apply(r, d))), "row", {u}, {u})

(* set_project_field, set_project_name, set_project_capability and           *)
(* set_project_dist_preset: what else a definition would decide.             *)
SetTerms(p, u, t) == Leaves(Blended(EditRow(p, u, [p.rows[u] EXCEPT !.terms = t])), "row", {u}, {})

(* set_project_field(tokens_day) *)
SetTokens(p, u, tokens) ==
  LET r == p.rows[u]
      t == Bounded(tokens)
  IN  /\ IsVolume(t, r.sk)
      /\ Leaves(Blended(EditRow(p, u, [r EXCEPT !.tokens = t, !.scale = ScaleOf(t, r.sk)])),
                "row", {u}, {})

(* The scale field shows the volume at the company's size: what was typed is *)
(* divided by the multiplier, then set_project_scale_value.  It stores scale *)
(* model and scale, then raises when the tokens are not finite.              *)
SetScaleValue(p, u, typed) ==
  LET r  == p.rows[u]
      sk == IF Finds(p, r.kind) THEN Definition(p, r.kind).sk ELSE r.sk
  IN  \/ typed = Unbounded /\ Raises(EditRow(p, u, [r EXCEPT !.sk = sk]), {u}, {})
      \/ /\ typed # Unbounded
         /\ typed % MultiplierOf(p, r) = 0
         /\ LET scale == typed \div MultiplierOf(p, r)
            IN  Leaves(Blended(EditRow(p, u, [r EXCEPT !.sk = sk, !.scale = scale,
                                                   !.tokens = Bounded(Tokens(scale, sk))])),
                       "row", {u}, {})

SetBatchEligible(p, u, b) == Leaves(EditRow(p, u, [p.rows[u] EXCEPT !.batch = b]), "row", {u}, {u})

(* set_project_day_shape: "batch" keeps the shape. *)
SetDayShape(p, u, value) ==
  LET r == p.rows[u]
  IN  Leaves(EditRow(p, u, IF value = "batch" THEN [r EXCEPT !.batch = TRUE]
                        ELSE [r EXCEPT !.batch = FALSE, !.shape = value]), "row", {u}, {u})

(* set_project_scale_locked: the stored volume is converted so that the one *)
(* shown stays; the blend is not recomputed.                                *)
SetScaleLocked(p, u, lock) ==
  LET r     == p.rows[u]
      scale == IF lock THEN r.scale * p.mult ELSE r.scale \div p.mult
  IN  /\ lock # r.locked
      /\ lock \/ r.scale % p.mult = 0
      /\ Leaves(EditRow(p, u, [r EXCEPT !.locked = lock, !.scale = scale,
                                     !.tokens = Tokens(scale, r.sk)]), "lock", {u}, {})

(* set_dist_preset and set_dist_value, for input or output lengths: they are *)
(* those of the panel until a read of one with demand blends again.          *)
SetDist(p, lengths) ==
  Leaves([p EXCEPT !.blend = [lengths |-> lengths, reuse |-> p.blend.reuse]], "draw", {}, {})

(* set_company_size and set_tech_savviness *)
SetCompany(p, m) == Leaves([p EXCEPT !.mult = m], "company", {}, {})

-----------------------------------------------------------------------------
(* The library. *)

(* Mutant of AddDefinition: the index is not invalidated. *)
AddDefinitionCached(p) ==
  LET key == UniqueKey("new_use_case", KeysOf(p.lib))
      d   == [key |-> key, terms |-> NewTerms, sk |-> NewScaleKind, seed |-> NewScale,
              max |-> NewScale, batch |-> FALSE]
  IN  /\ Len(p.lib) < MaxDefs
      /\ Leaves([p EXCEPT !.lib = Append(@, d)], "library", {}, {})

(* add_use_case_def appends in place. *)
AddDefinition(p) ==
  LET key == UniqueKey("new_use_case", KeysOf(p.lib))
      d   == [key |-> key, terms |-> NewTerms, sk |-> NewScaleKind, seed |-> NewScale,
              max |-> NewScale, batch |-> FALSE]
  IN  /\ Len(p.lib) < MaxDefs
      /\ Leaves([p EXCEPT !.lib = Append(@, d), !.index = None], "library", {}, {})

(* The definitions with another key, in their order. *)
WithoutKey(lib, key) ==
  LET kept[i \in 0..Len(lib)] ==
        IF i = 0 THEN <<>>
        ELSE IF lib[i].key = key THEN kept[i - 1] ELSE Append(kept[i - 1], lib[i])
  IN  kept[Len(lib)]

(* remove_use_case_def: a new list, and the orphaned projects go their own way. *)
RemoveDefinition(p, key) ==
  LET freed(r) == IF r # None /\ r.kind = key THEN [r EXCEPT !.kind = Custom] ELSE r
  IN  Leaves([p EXCEPT !.lib = WithoutKey(@, key), !.index = None,
                         !.rows = [u \in Uid |-> freed(@[u])]], "library", {}, {})

(* set_use_case_def_field and set_use_case_def_capability edit in place, *)
(* invalidate and sync.                                                  *)
EditDefinition(p, d, when) ==
  Leaves(Sync([ReplaceDef(p, d) EXCEPT !.index = None]), "library", {}, when)

SetDefTerms(p, key, t) == EditDefinition(p, [Definition(p, key) EXCEPT !.terms = t], {})
SetDefScale(p, key, k) == EditDefinition(p, [Definition(p, key) EXCEPT !.sk = k], {})

(* The seed is stored, then refused when its tokens are not finite; the index *)
(* stays, and with it the definition as it is.                                *)
SetDefSeed(p, key, s) ==
  \/ s = Unbounded /\ Raises(p, {}, {key})
  \/ s # Unbounded /\ EditDefinition(p, [Definition(p, key) EXCEPT !.seed = s], {})

(* batch_eligible alone is pushed to the projects of the kind. *)
SetDefBatch(p, key, b) ==
  LET kin == {u \in Uids(p) : p.rows[u].kind = key}
      q   == [p EXCEPT !.rows = [u \in Uid |-> IF u \in kin THEN [@[u] EXCEPT !.batch = b]
                                                 ELSE @[u]]]
      d   == [Definition(p, key) EXCEPT !.batch = b]
  IN  Leaves(Sync([ReplaceDef(q, d) EXCEPT !.index = None]), "library", {}, kin)

ImportLibrary(p, items) == Leaves(WithLibrary(p, items), "library", {}, {})

ImportSet(p, items) == Leaves(WithSet(p, items), "set", Uid, Uid)

ImportScenario(library, items, m) == Leaves(Scenario(library, items, m), "import", Uid, Uid)

RowNext(p, u) ==
  \/ RemoveProject(p, u)
  \/ \E key \in KeysOf(p.lib) \cup {Custom} : SetKind(p, u, key)
  \/ \E t \in DOMAIN Terms : SetTerms(p, u, t)
  \/ \E v \in Typed : SetTokens(p, u, v)
  \/ \E v \in Typed \cup {Unbounded} : SetScaleValue(p, u, v)
  \/ \E b \in BOOLEAN : SetBatchEligible(p, u, b) \/ SetScaleLocked(p, u, b)
  \/ \E value \in Shapes \cup {"batch"} : SetDayShape(p, u, value)

LibraryNext(p, key) ==
  \/ RemoveDefinition(p, key)
  \/ \E t \in DOMAIN Terms : SetDefTerms(p, key, t)
  \/ \E s \in Typed \cup {Unbounded} : SetDefSeed(p, key, s)
  \/ \E k \in ScaleKinds : SetDefScale(p, key, k)
  \/ \E b \in BOOLEAN : SetDefBatch(p, key, b)

ScenarioNext ==
  \E l \in Libraries \cup {None}, f \in ProjectSets, m \in Multipliers : ImportScenario(l, f, m)

Request(p) ==
  \/ Read(p)
  \/ \E key \in KeysOf(p.lib) \cup {Custom} : AddProject(p, key)
  \/ \E u \in Uids(p) : RowNext(p, u)
  \/ \E m \in Multipliers : SetCompany(p, m)
  \/ \E d \in Drawn : SetDist(p, d)
  \/ AddDefinition(p)
  \/ \E key \in KeysOf(p.lib) : LibraryNext(p, key)
  \/ \E l \in Libraries : ImportLibrary(p, l)
  \/ \E f \in ProjectSets : ImportSet(p, f)
  \/ ScenarioNext

(* get_state raises before the handler: normalising finds the rest of the     *)
(* panel as the last read left it, and stops at the infinite volume.          *)
ReadRaises == Raises(panel, endless.rows, {})

UseCaseNext ==
  \/ endless.rows = {} /\ \E p \in {Normal(panel)} : Request(p)
  \/ endless.rows # {} /\ (ReadRaises \/ ScenarioNext)

UseCaseSpec == UseCaseInit /\ [][UseCaseNext]_useCaseVars

-----------------------------------------------------------------------------
(* Properties. *)

UseCaseTypeOK ==
  /\ panel.mult \in Multipliers
  /\ panel.lib \in Seq(Definitions)
  /\ Cardinality(KeysOf(panel.lib)) = Len(panel.lib)
  /\ panel.rows \in [Uid -> Row \cup {None}]
  /\ endless \in [rows : SUBSET Uid, defs : SUBSET Keys]

(* A lookup through the cached index sees the library as it is: the keys of  *)
(* exactly the definitions of the panel's list, in normal form, although the *)
(* cache is only compared with the identity of the list and definitions are  *)
(* appended and edited in place.  Only a definition that was left with an    *)
(* infinite volume waits for the next renewal of the list.                   *)
LookupsCurrent ==
  panel.index # None =>
    /\ panel.index = KeysOf(panel.lib)
    /\ endless.defs = {} => panel.lib = NormalLibrary(panel.lib)

Follows(r) ==
  /\ r.tokens = Tokens(r.scale, r.sk)
  /\ r.kind # Custom =>
       \E i \in DOMAIN panel.lib :
         panel.lib[i].key = r.kind /\ r.terms = panel.lib[i].terms /\ r.sk = panel.lib[i].sk

(* Whatever a handler did to the library, what follows it in the request     *)
(* already finds every project as its definition has it, with tokens that    *)
(* fit its scale; only a project the handler was asked to edit may differ,   *)
(* until the next read; one with an infinite volume never does again.        *)
ProjectsFollow ==
  \A u \in Uids(panel) \ (last.rows \cup endless.rows) : Follows(panel.rows[u])

(* "When" is the project's own choice: no read, no other project's edit, no  *)
(* edit of the company, and no edit of the library but its batch switch      *)
(* moves it, although each of them applies the definitions to the projects.  *)
ScheduleIsItsOwn ==
  [][ \A u \in Uids(panel) \cap Uids(panel') :
        \/ u \in last'.when
        \/ /\ panel'.rows[u].batch = panel.rows[u].batch
           /\ panel'.rows[u].shape = panel.rows[u].shape ]_useCaseVars

(* The shared workload shape: as long as a panel can be read, the lengths    *)
(* and the prefix reuse that calc.py sees, in retune_models too, are those   *)
(* of the present demand after every handler but two, which leave them for   *)
(* the next read to repair: the lock toggle changes a weight, and lengths    *)
(* that were picked or drawn stand beside the demand's prefix reuse.         *)
BlendCurrent ==
  endless.rows = {} =>
    /\ last.op # "lock" => panel.blend.reuse = Blend(panel).reuse
    /\ last.op \notin {"lock", "draw"} => panel.blend = Blend(panel)

(* A project set that is saved and loaded again in the same panel gives the  *)
(* same projects: nothing a user can set is missing from the file.           *)
SavedSetReloads ==
  endless.rows = {} =>
    LET q == Normal(panel)
    IN  \A u \in Uids(q) : NormalProject(q, Loaded(q, Saved(q.rows[u]))) = q.rows[u]
============================================================================
