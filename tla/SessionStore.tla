---------------------------- MODULE SessionStore ----------------------------
(***************************************************************************)
(* The process-local registry of planner states, web/session_store.py:    *)
(* the dictionaries _states (panel A), _compare_states (panel B) and       *)
(* _state_last_seen, all keyed by browser-tab scope "<visitor>:<tab>".     *)
(*                                                                         *)
(* Every function of the module runs under _state_guard, so one call is    *)
(* one step.  The three dictionaries are the fields a, b and seen of reg;  *)
(* None stands for a missing key.                                          *)
(***************************************************************************)
EXTENDS Integers, FiniteSets

CONSTANTS
    Scope,        \* browser-tab scopes
    Visitor,      \* visitor cookies
    VisitorOf,    \* the visitor whose id is the prefix of a scope's key
    Doc,          \* contents a planner state can have
    Broken,       \* one that normalising refuses: a project of infinite volume
    DefaultA,     \* panel A and panel B of default_scenario.json
    DefaultB,
    Blank,        \* the content of PlannerState()
    None,         \* a key the dictionary does not hold
    TTL,          \* _STATE_TTL_SECONDS, 0 disables expiry
    MaxScopes,    \* _STATE_MAX_SCOPES
    MaxNow,       \* bound of the model's clock
    MaxRev        \* bound of the model's revisions

ASSUME ScopeAssumption ==
    /\ VisitorOf \in [Scope -> Visitor]
    /\ Broken \in Doc
    /\ {DefaultA, DefaultB, Blank} \subseteq Doc \ {Broken}
ASSUME LimitAssumption ==
    /\ TTL \in Nat
    /\ MaxScopes \in Nat \ {0}
    /\ MaxNow \in Nat
    /\ MaxRev \in Nat
ASSUME NoneAssumption ==
    /\ None \notin Nat
    /\ None \notin [rev : Nat, doc : Doc]

VARIABLES
    reg,          \* the three dictionaries
    now           \* time.monotonic()

vars == <<reg, now>>

-----------------------------------------------------------------------------
\* A planner state: its revision counter and what it describes, which is what
\* the answers are computed from.
PlannerState == [rev : Nat, doc : Doc]

\* What _normalize_loaded_state lets through: it raises on any other.
Readable == Doc \ {Broken}

Registry == [a    : [Scope -> PlannerState \cup {None}],
             b    : [Scope -> PlannerState \cup {None}],
             seen : [Scope -> Nat \cup {None}]]

Live(r) == {k \in Scope : r.a[k] # None}
Seen(r) == {k \in Scope : r.seen[k] # None}
Coherent(r) ==
    /\ Seen(r) = Live(r)
    /\ \A k \in Scope : r.b[k] # None => r.a[k] # None
ScopesOf(v) == {k \in Scope : VisitorOf[k] = v}

\* Mutant of Forget: _compare_states.pop is missing.
ForgetKeepsCompare(r, K) ==
    [r EXCEPT !.a    = [k \in Scope |-> IF k \in K THEN None ELSE r.a[k]],
              !.seen = [k \in Scope |-> IF k \in K THEN None ELSE r.seen[k]]]

\* pop(key, None) on the three dictionaries, for every key of K.
Forget(r, K) ==
    [a    |-> [k \in Scope |-> IF k \in K THEN None ELSE r.a[k]],
     b    |-> [k \in Scope |-> IF k \in K THEN None ELSE r.b[k]],
     seen |-> [k \in Scope |-> IF k \in K THEN None ELSE r.seen[k]]]

Touch(r, s) == [r EXCEPT !.seen[s] = now]

-----------------------------------------------------------------------------
(* Pruning                                                                 *)

\* Scopes idle for longer than the TTL; the caller's own scope is spared.
Stale(r, preserve) ==
    {k \in Seen(r) : k # preserve /\ now - r.seen[k] > TTL}

Expire(r, preserve) == IF TTL > 0 THEN Forget(r, Stale(r, preserve)) ELSE r

\* Mutant of Oldest: sorted in the opposite order.
Newest(r, preserve) ==
    LET candidates == Seen(r) \ {preserve}
        excess     == Cardinality(Live(r)) - MaxScopes
    IN  {V \in SUBSET candidates :
            /\ Cardinality(V) = IF excess <= Cardinality(candidates)
                                THEN excess ELSE Cardinality(candidates)
            /\ \A k \in V, j \in candidates \ V : r.seen[k] >= r.seen[j]}

\* sorted((touched, key) ...)[:excess]: a set of the least recently seen
\* scopes.  Among equally old ones the code takes the smaller key, which is
\* a random UUID: the model takes any.
Oldest(r, preserve) ==
    LET candidates == Seen(r) \ {preserve}
        excess     == Cardinality(Live(r)) - MaxScopes
    IN  {V \in SUBSET candidates :
            /\ Cardinality(V) = IF excess <= Cardinality(candidates)
                                THEN excess ELSE Cardinality(candidates)
            /\ \A k \in V, j \in candidates \ V : r.seen[k] <= r.seen[j]}

\* What _prune_states_locked may leave of a registry.
Prune(r, preserve) ==
    LET q == Expire(r, preserve)
    IN  IF Cardinality(Live(q)) > MaxScopes
        THEN {Forget(q, V) : V \in Oldest(q, preserve)}
        ELSE {q}

-----------------------------------------------------------------------------
(* The operations, as functions from a registry to its possible successors *)

\* Mutant of Create: "if session_id not in _states" is missing.
CreateAlways(r, s) ==
    [r EXCEPT !.a[s] = [rev |-> 0, doc |-> DefaultA],
              !.b[s] = [rev |-> 0, doc |-> DefaultB]]

\* get_state creates a missing scope from the default scenario.  A missing
\* A panel does not clear B, the default B overwrites it.
Create(r, s) ==
    IF r.a[s] # None THEN r
    ELSE [r EXCEPT !.a[s] = [rev |-> 0, doc |-> DefaultA],
                   !.b[s] = [rev |-> 0, doc |-> DefaultB]]

GetStateFrom(r, s) ==
    UNION {Prune(Touch(Create(q, s), s), s) : q \in Prune(r, s)}

\* getattr(state, "revision", -1)
RevOf(p) == IF p = None THEN -1 ELSE p.rev

\* Mutants of NextRevision: the "+ 1" is missing; the old states are not read.
PreviousRevision(r, s) ==
    IF RevOf(r.a[s]) >= RevOf(r.b[s]) THEN RevOf(r.a[s]) ELSE RevOf(r.b[s])
FirstRevision(r, s) == 0

NextRevision(r, s) ==
    1 + IF RevOf(r.a[s]) >= RevOf(r.b[s]) THEN RevOf(r.a[s]) ELSE RevOf(r.b[s])

\* Both panels replaced, at a revision past either of the old ones.
Install(r, s, docA, docB) ==
    LET rev == NextRevision(r, s)
    IN  [a    |-> [r.a EXCEPT ![s] = [rev |-> rev, doc |-> docA]],
         b    |-> [r.b EXCEPT ![s] = IF docB = None THEN None
                                     ELSE [rev |-> rev, doc |-> docB]],
         seen |-> [r.seen EXCEPT ![s] = now]]

-----------------------------------------------------------------------------
(* Actions                                                                 *)

Init ==
    /\ reg = [a    |-> [k \in Scope |-> None],
              b    |-> [k \in Scope |-> None],
              seen |-> [k \in Scope |-> None]]
    /\ now = 0

Tick == now < MaxNow /\ now' = now + 1 /\ UNCHANGED reg

\* The registry's half of get_state: normalising the panel it returns, outside
\* the guard, may raise.
GetState(s) == reg' \in GetStateFrom(reg, s) /\ UNCHANGED now

GetCompareState(s) ==
    /\ reg.b[s] # None
    /\ reg' = Touch(reg, s)
    /\ UNCHANGED now

\* The pruning half of allow_visitor_scope; its answer is Admits below.
AllowVisitorScope(s) == reg' \in Prune(reg, s) /\ UNCHANGED now

\* Mutant of Admits: one tab too many.
AdmitsOneMore(r, s, maxTabs) ==
    \/ r.a[s] # None
    \/ r.b[s] # None
    \/ Cardinality(Live(r) \cap ScopesOf(VisitorOf[s])) <= maxTabs

Admits(r, s, maxTabs) ==
    \/ r.a[s] # None
    \/ r.b[s] # None
    \/ Cardinality(Live(r) \cap ScopesOf(VisitorOf[s])) < maxTabs

ResetState(s, blank) ==
    /\ NextRevision(reg, s) <= MaxRev
    /\ reg' \in Prune(IF blank THEN Install(reg, s, Blank, None)
                      ELSE Install(reg, s, DefaultA, DefaultB), s)
    /\ UNCHANGED now

\* Mutant of ReplaceScopeStates: it returns without pruning.
ReplaceWithoutPruning(s, docA, docB) ==
    /\ NextRevision(reg, s) <= MaxRev
    /\ reg' = Install(reg, s, docA, docB)
    /\ UNCHANGED now

ReplaceScopeStates(s, docA, docB) ==
    /\ NextRevision(reg, s) <= MaxRev
    /\ reg' \in Prune(Install(reg, s, docA, docB), s)
    /\ UNCHANGED now

\* B becomes a copy of A, one revision ahead of it, unless get_state raises.
DuplicateCompareState(s) ==
    \E r \in GetStateFrom(reg, s) :
        /\ \/ r.a[s].doc = Broken /\ reg' = r
           \/ /\ r.a[s].doc # Broken
              /\ r.a[s].rev < MaxRev
              /\ reg' = Touch([r EXCEPT !.b[s] = [r.a[s] EXCEPT !.rev = @ + 1]], s)
        /\ UNCHANGED now

ClearCompareState(s) ==
    /\ reg.b[s] # None
    /\ reg' = [reg EXCEPT !.b[s] = None]
    /\ UNCHANGED now

DeleteVisitorStates(v) ==
    /\ reg' = Forget(reg, {k \in ScopesOf(v) : reg.a[k] # None \/ reg.b[k] # None})
    /\ UNCHANGED now

\* A mutator of state.py on the state object of a panel that could be read.
\* bumps_revision advances the revision by one when the body did not; each
\* assignment of a top-level field that changes it advances it once more.
Bumps == {1, 2}

EditA(s, d, n) ==
    /\ reg.a[s] # None /\ reg.a[s].doc # Broken
    /\ reg.a[s].rev + n <= MaxRev
    /\ reg' = [reg EXCEPT !.a[s] = [rev |-> @.rev + n, doc |-> d]]
    /\ UNCHANGED now

EditB(s, d, n) ==
    /\ reg.b[s] # None /\ reg.b[s].doc # Broken
    /\ reg.b[s].rev + n <= MaxRev
    /\ reg' = [reg EXCEPT !.b[s] = [rev |-> @.rev + n, doc |-> d]]
    /\ UNCHANGED now

\* One that raises after it stored an infinite volume: bumps_revision has no
\* finally, and the revision stays.
FailA(s) ==
    /\ reg.a[s] # None
    /\ reg' = [reg EXCEPT !.a[s] = [@ EXCEPT !.doc = Broken]]
    /\ UNCHANGED now

FailB(s) ==
    /\ reg.b[s] # None
    /\ reg' = [reg EXCEPT !.b[s] = [@ EXCEPT !.doc = Broken]]
    /\ UNCHANGED now

ScopeNext(s) ==
    \/ GetState(s)
    \/ GetCompareState(s)
    \/ AllowVisitorScope(s)
    \/ \E blank \in BOOLEAN : ResetState(s, blank)
    \/ \E dA \in Readable, dB \in Readable \cup {None} : ReplaceScopeStates(s, dA, dB)
    \/ DuplicateCompareState(s)
    \/ ClearCompareState(s)
    \/ \E d \in Readable, n \in Bumps : EditA(s, d, n) \/ EditB(s, d, n)
    \/ FailA(s)
    \/ FailB(s)

Next ==
    \/ Tick
    \/ \E v \in Visitor : DeleteVisitorStates(v)
    \/ \E s \in Scope : ScopeNext(s)

Spec == Init /\ [][Next]_vars

-----------------------------------------------------------------------------
(* Properties                                                              *)

TypeOK == reg \in Registry /\ now \in Nat

\* The three dictionaries agree: a scope has a last-seen time exactly when it
\* has a panel A, and a panel B only next to a panel A.  A state that
\* _state_last_seen does not know could never be pruned, and a compare panel
\* that outlives its primary would admit a scope past the tab limit.
RegistryCoherent == Coherent(reg)

\* Whatever the calls, the process never holds more than _STATE_MAX_SCOPES
\* scopes: every operation that can add one prunes before it returns.
CapRespected == Cardinality(Live(reg)) <= MaxScopes

\* A scope disappears only when its visitor's data is deleted, when it sat
\* idle past the TTL, or when the process is left exactly full and nobody
\* but the caller, spared and touched by the call, had been idle for longer.
EvictionOrder ==
    [][ \/ \E v \in Visitor : DeleteVisitorStates(v)
        \/ \A k \in Live(reg) \ Live(reg') :
              \/ TTL > 0 /\ now - reg.seen[k] > TTL
              \/ /\ Cardinality(Live(reg')) = MaxScopes
                 /\ \E caller \in Live(reg') :
                       /\ reg'.seen[caller] = now
                       /\ \A j \in (Live(reg') \cap Live(reg)) \ {caller} :
                             reg.seen[j] >= reg.seen[k]
      ]_vars

\* "Monotonic process-local version": while a scope stays in the registry the
\* revision of its panel A never goes back, and equal revisions mean equal
\* content, through resets, imports and edits alike; or a panel that an edit
\* left half done, which nobody can read any more at that revision.
RevisionTracksContent ==
    [][ \A k \in Live(reg) \cap Live(reg') :
          /\ reg'.a[k].rev >= reg.a[k].rev
          /\ reg'.a[k].rev = reg.a[k].rev => reg'.a[k].doc \in {reg.a[k].doc, Broken}
      ]_vars
=============================================================================
