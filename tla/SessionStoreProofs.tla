------------------------- MODULE SessionStoreProofs -------------------------
(***************************************************************************)
(* Proofs about SessionStore, for every set of scopes, every TTL and every  *)
(* cap.  The invariant says that the three dictionaries agree; from it      *)
(* follows that pruning has enough victims to come back under the cap.      *)
(***************************************************************************)
EXTENDS SessionStore, FiniteSetTheorems, TLAPS

\* A registry an operation may start from.
Good(r) == r \in Registry /\ Coherent(r) /\ IsFiniteSet(Live(r))

\* Dropping keys from the three dictionaries keeps them in agreement.
LEMMA ForgetGood ==
    ASSUME NEW r, Good(r), NEW K \in SUBSET Scope
    PROVE  /\ Good(Forget(r, K))
           /\ Live(Forget(r, K)) = Live(r) \ K
           /\ \A k \in Scope \ K : /\ Forget(r, K).a[k] = r.a[k]
                                   /\ Forget(r, K).b[k] = r.b[k]
<1>1. Forget(r, K) \in Registry
  BY DEF Good, Forget, Registry
<1>2. Live(Forget(r, K)) = Live(r) \ K
  BY DEF Live, Forget
<1>3. Seen(Forget(r, K)) = Seen(r) \ K
  BY DEF Seen, Forget
<1>4. Coherent(Forget(r, K))
  BY <1>2, <1>3 DEF Good, Coherent, Forget
<1>5. IsFiniteSet(Live(Forget(r, K)))
  BY <1>2, FS_Subset DEF Good
<1> QED
  BY <1>1, <1>2, <1>4, <1>5 DEF Good, Forget

LEMMA ExpireGood ==
    ASSUME NEW r, Good(r), NEW p \in Scope
    PROVE  /\ Good(Expire(r, p))
           /\ Live(Expire(r, p)) \subseteq Live(r)
           /\ p \in Live(r) => p \in Live(Expire(r, p))
           /\ \A k \in Live(Expire(r, p)) : /\ Expire(r, p).a[k] = r.a[k]
                                            /\ Expire(r, p).b[k] = r.b[k]
<1> DEFINE K == Stale(r, p)
<1>1. K \in SUBSET Scope /\ p \notin K
  BY DEF Stale, Seen
<1>2. CASE TTL > 0
  <2>1. Expire(r, p) = Forget(r, K)
    BY <1>2 DEF Expire
  <2> HIDE DEF K
  <2>2. /\ Good(Forget(r, K))
        /\ Live(Forget(r, K)) = Live(r) \ K
        /\ \A k \in Scope \ K : /\ Forget(r, K).a[k] = r.a[k]
                                /\ Forget(r, K).b[k] = r.b[k]
    BY <1>1, ForgetGood
  <2>3. Live(r) \subseteq Scope
    BY DEF Live
  <2> QED
    BY <1>1, <2>1, <2>2, <2>3
<1>3. CASE ~(TTL > 0)
  BY <1>3 DEF Expire
<1> QED
  BY <1>2, <1>3

\* What _prune_states_locked promises its callers: the registry stays
\* coherent and comes under the cap, the preserved scope is not its victim,
\* and the states that remain are untouched.
THEOREM PruneBounds ==
    ASSUME NEW r, Good(r), NEW p \in Scope, NEW q \in Prune(r, p)
    PROVE  /\ Good(q)
           /\ Cardinality(Live(q)) <= MaxScopes
           /\ Live(q) \subseteq Live(r)
           /\ p \in Live(r) => p \in Live(q)
           /\ \A k \in Live(q) : q.a[k] = r.a[k] /\ q.b[k] = r.b[k]
<1> DEFINE e == Expire(r, p)
<1>1. /\ Good(e)
      /\ Live(e) \subseteq Live(r)
      /\ p \in Live(r) => p \in Live(e)
      /\ \A k \in Live(e) : e.a[k] = r.a[k] /\ e.b[k] = r.b[k]
  BY ExpireGood
<1>2. q \in IF Cardinality(Live(e)) > MaxScopes
            THEN {Forget(e, V) : V \in Oldest(e, p)} ELSE {e}
  BY DEF Prune
<1> HIDE DEF e
<1>3. Cardinality(Live(e)) \in Nat
  BY <1>1, FS_CardinalityType DEF Good
<1>4. CASE ~(Cardinality(Live(e)) > MaxScopes)
  BY <1>1, <1>2, <1>3, <1>4, LimitAssumption
<1>5. CASE Cardinality(Live(e)) > MaxScopes
  <2>1. PICK V \in Oldest(e, p) : q = Forget(e, V)
    BY <1>2, <1>5
  <2> DEFINE C == Seen(e) \ {p}
             excess == Cardinality(Live(e)) - MaxScopes
  <2>2. /\ V \subseteq C
        /\ Cardinality(V) = IF excess <= Cardinality(C)
                            THEN excess ELSE Cardinality(C)
    BY DEF Oldest
  <2>3. Seen(e) = Live(e) /\ Live(e) \subseteq Scope /\ IsFiniteSet(Live(e))
    BY <1>1 DEF Good, Coherent, Live
  <2>4. Cardinality(C) = IF p \in Live(e) THEN Cardinality(Live(e)) - 1
                         ELSE Cardinality(Live(e))
    BY <2>3, FS_RemoveElement
  <2>5. excess <= Cardinality(C) /\ excess \in Nat
    BY <1>3, <1>5, <2>4, LimitAssumption
  <2>6. Cardinality(V) = excess
    BY <2>2, <2>5
  <2>7. V \in SUBSET Scope /\ p \notin V /\ V \subseteq Live(e)
    BY <2>2, <2>3
  <2>8. /\ Good(q)
        /\ Live(q) = Live(e) \ V
        /\ \A k \in Scope \ V : q.a[k] = e.a[k] /\ q.b[k] = e.b[k]
    BY <1>1, <2>1, <2>7, ForgetGood
  <2>9. Cardinality(Live(e) \ V) = Cardinality(Live(e)) - Cardinality(V)
    <3>1. Cardinality(Live(e) \ V)
             = Cardinality(Live(e)) - Cardinality(Live(e) \cap V)
      BY <2>3, FS_Difference
    <3>2. Live(e) \cap V = V
      BY <2>7
    <3> QED
      BY <3>1, <3>2
  <2>10. Cardinality(Live(q)) <= MaxScopes
    BY <1>3, <2>6, <2>8, <2>9, LimitAssumption
  <2> QED
    BY <1>1, <2>3, <2>7, <2>8, <2>10
<1> QED
  BY <1>4, <1>5

-----------------------------------------------------------------------------
(* The operations                                                          *)

\* The inductive invariant: the registry is typed, coherent and under its cap.
IInv == Good(reg) /\ Cardinality(Live(reg)) <= MaxScopes /\ now \in Nat

\* A default scenario fills a missing scope and changes nothing otherwise.
LEMMA CreateTouchGood ==
    ASSUME NEW r, Good(r), NEW s \in Scope, now \in Nat
    PROVE  /\ Good(Touch(Create(r, s), s))
           /\ Live(Touch(Create(r, s), s)) = Live(r) \cup {s}
           /\ \A k \in Live(r) : /\ Touch(Create(r, s), s).a[k] = r.a[k]
                                 /\ Touch(Create(r, s), s).b[k] = r.b[k]
<1> DEFINE c == Touch(Create(r, s), s)
<1>1. /\ [rev |-> 0, doc |-> DefaultA] \in PlannerState
      /\ [rev |-> 0, doc |-> DefaultB] \in PlannerState
  BY ScopeAssumption DEF PlannerState
<1>2. r \in Registry /\ Coherent(r)
  BY DEF Good
<1>3. c \in Registry
  BY <1>1, <1>2 DEF Create, Touch, Registry
<1>4. None \notin PlannerState /\ None \notin Nat
  BY NoneAssumption DEF PlannerState
<1>5. Live(c) = Live(r) \cup {s}
  BY <1>1, <1>2, <1>4 DEF Live, Create, Touch, Registry
<1>6. Seen(c) = Seen(r) \cup {s}
  BY <1>2, <1>4 DEF Seen, Create, Touch, Registry
<1>7. \A k \in Live(r) : c.a[k] = r.a[k] /\ c.b[k] = r.b[k]
  BY <1>2 DEF Live, Create, Touch, Registry
<1>8. \A k \in Scope : c.b[k] # None => c.a[k] # None
  BY <1>1, <1>2, <1>4 DEF Coherent, Live, Create, Touch, Registry
<1>9. Coherent(c)
  BY <1>2, <1>5, <1>6, <1>8 DEF Coherent
<1>10. IsFiniteSet(Live(c))
  BY <1>5, FS_AddElement DEF Good
<1> QED
  BY <1>3, <1>5, <1>7, <1>9, <1>10 DEF Good

\* get_state leaves the scope it was asked for in a coherent registry under
\* the cap, with the panels of everybody who stays as they were.
THEOREM GetStateBounds ==
    ASSUME NEW r, Good(r), NEW s \in Scope, now \in Nat,
           NEW q \in GetStateFrom(r, s)
    PROVE  /\ Good(q)
           /\ Cardinality(Live(q)) <= MaxScopes
           /\ s \in Live(q)
           /\ Live(q) \subseteq Live(r) \cup {s}
           /\ \A k \in Live(r) \cap Live(q) : q.a[k] = r.a[k] /\ q.b[k] = r.b[k]
<1>1. PICK p \in Prune(r, s) : q \in Prune(Touch(Create(p, s), s), s)
  BY DEF GetStateFrom
<1>2. /\ Good(p)
      /\ s \in Live(r) => s \in Live(p)
      /\ Live(p) \subseteq Live(r)
      /\ \A k \in Live(p) : p.a[k] = r.a[k] /\ p.b[k] = r.b[k]
  BY PruneBounds
<1> DEFINE c == Touch(Create(p, s), s)
<1>3. /\ Good(c)
      /\ Live(c) = Live(p) \cup {s}
      /\ \A k \in Live(p) : c.a[k] = p.a[k] /\ c.b[k] = p.b[k]
  BY <1>2, CreateTouchGood
<1> HIDE DEF c
<1>4. q \in Prune(c, s)
  BY <1>1 DEF c
<1>5. /\ Good(q)
      /\ Cardinality(Live(q)) <= MaxScopes
      /\ s \in Live(c) => s \in Live(q)
      /\ Live(q) \subseteq Live(c)
      /\ \A k \in Live(q) : q.a[k] = c.a[k] /\ q.b[k] = c.b[k]
  BY <1>3, <1>4, PruneBounds
<1>6. \A k \in Live(r) \cap Live(q) : k \in Live(p)
  BY <1>2, <1>3, <1>5
<1> QED
  BY <1>2, <1>3, <1>5, <1>6

\* A reset or an import: revisions past both old ones, a fresh last-seen time.
LEMMA InstallGood ==
    ASSUME NEW r, Good(r), NEW s \in Scope, now \in Nat,
           NEW dA \in Doc, NEW dB \in Doc \cup {None}
    PROVE  /\ Good(Install(r, s, dA, dB))
           /\ \A k \in Scope \ {s} : /\ Install(r, s, dA, dB).a[k] = r.a[k]
                                     /\ Install(r, s, dA, dB).b[k] = r.b[k]
           /\ Live(Install(r, s, dA, dB)) = Live(r) \cup {s}
           /\ s \in Live(r) => Install(r, s, dA, dB).a[s].rev > r.a[s].rev
<1> DEFINE n == NextRevision(r, s)
           i == Install(r, s, dA, dB)
<1>1. r \in Registry /\ Coherent(r) /\ IsFiniteSet(Live(r))
  BY DEF Good
<1>2. None \notin PlannerState /\ None \notin Nat
  BY NoneAssumption DEF PlannerState
<1>3. n \in Nat /\ (s \in Live(r) => n > r.a[s].rev)
  <2>1. r.a[s] \in PlannerState \cup {None} /\ r.b[s] \in PlannerState \cup {None}
    BY <1>1 DEF Registry
  <2>2. /\ RevOf(r.a[s]) \in Nat \cup {-1}
        /\ RevOf(r.b[s]) \in Nat \cup {-1}
        /\ s \in Live(r) => RevOf(r.a[s]) = r.a[s].rev
    BY <2>1 DEF RevOf, PlannerState, Live
  <2> QED
    BY <2>2 DEF NextRevision
<1> HIDE DEF n
<1>4. /\ [rev |-> n, doc |-> dA] \in PlannerState
      /\ (IF dB = None THEN None ELSE [rev |-> n, doc |-> dB]) \in PlannerState \cup {None}
  BY <1>3 DEF PlannerState
<1>5. i = [a |-> [r.a EXCEPT ![s] = [rev |-> n, doc |-> dA]],
           b |-> [r.b EXCEPT ![s] = IF dB = None THEN None
                                    ELSE [rev |-> n, doc |-> dB]],
           seen |-> [r.seen EXCEPT ![s] = now]]
  BY DEF Install, n
<1> HIDE DEF i
<1>6. i \in Registry
  BY <1>1, <1>4, <1>5 DEF Registry
<1>7. Live(i) = Live(r) \cup {s}
  BY <1>1, <1>2, <1>4, <1>5 DEF Live, Registry
<1>8. Seen(i) = Seen(r) \cup {s}
  BY <1>1, <1>2, <1>5 DEF Seen, Registry
<1>9. \A k \in Scope : i.b[k] # None => i.a[k] # None
  BY <1>1, <1>2, <1>4, <1>5 DEF Coherent, Registry
<1>10. Coherent(i)
  BY <1>1, <1>7, <1>8, <1>9 DEF Coherent
<1>11. IsFiniteSet(Live(i))
  BY <1>1, <1>7, FS_AddElement
<1>12. \A k \in Scope \ {s} : i.a[k] = r.a[k] /\ i.b[k] = r.b[k]
  BY <1>1, <1>5 DEF Registry
<1>13. s \in Live(r) => i.a[s].rev > r.a[s].rev
  BY <1>1, <1>3, <1>5 DEF Registry
<1> QED
  BY <1>6, <1>7, <1>10, <1>11, <1>12, <1>13 DEF Good, i

-----------------------------------------------------------------------------
(* The victims                                                             *)

\* Why _prune_states_locked, called for p, dropped k.
Idle(r, k) == TTL > 0 /\ now - r.seen[k] > TTL
Crowded(r, q, p, k) ==
    /\ Cardinality(Live(q)) = MaxScopes
    /\ \A j \in Live(q) \ {p} : r.seen[j] >= r.seen[k]

LEMMA SeenIsNat ==
    ASSUME NEW r, Good(r), NEW k \in Live(r)
    PROVE  r.seen[k] \in Nat
BY NoneAssumption DEF Good, Coherent, Live, Seen, Registry

\* Pruning drops the idle, and then as few of the longest unseen as needed.
LEMMA PruneVictims ==
    ASSUME NEW r, Good(r), NEW p \in Scope, NEW q \in Prune(r, p)
    PROVE  /\ \A k \in Live(q) : q.seen[k] = r.seen[k]
           /\ \A k \in Live(r) \ Live(q) : Idle(r, k) \/ Crowded(r, q, p, k)
           /\ Cardinality(Live(r)) <= MaxScopes
                 => \A k \in Live(r) \ Live(q) : Idle(r, k)
<1> DEFINE e == Expire(r, p)
<1>1. /\ Good(e)
      /\ Live(e) \subseteq Live(r)
      /\ \A k \in Live(e) : e.seen[k] = r.seen[k]
      /\ \A k \in Live(r) \ Live(e) : Idle(r, k)
  <2>1. Good(e) /\ Live(e) \subseteq Live(r)
    BY ExpireGood
  <2>2. CASE TTL > 0
    <3> DEFINE K == Stale(r, p)
    <3>1. e = Forget(r, K) /\ \A k \in K : Idle(r, k)
      BY <2>2 DEF Expire, Stale, Idle
    <3> HIDE DEF K
    <3>2. \A k \in Scope : /\ e.a[k] = IF k \in K THEN None ELSE r.a[k]
                           /\ e.seen[k] = IF k \in K THEN None ELSE r.seen[k]
      BY <3>1 DEF Forget
    <3> QED
      BY <2>1, <3>1, <3>2 DEF Live
  <2>3. CASE ~(TTL > 0)
    BY <2>1, <2>3 DEF Expire
  <2> QED
    BY <2>2, <2>3
<1>2. q \in IF Cardinality(Live(e)) > MaxScopes
            THEN {Forget(e, V) : V \in Oldest(e, p)} ELSE {e}
  BY DEF Prune
<1> HIDE DEF e
<1>3. /\ Cardinality(Live(e)) \in Nat /\ Cardinality(Live(r)) \in Nat
      /\ Cardinality(Live(e)) <= Cardinality(Live(r))
  BY <1>1, FS_CardinalityType, FS_Subset DEF Good
<1>4. CASE ~(Cardinality(Live(e)) > MaxScopes)
  BY <1>1, <1>2, <1>4
<1>5. CASE Cardinality(Live(e)) > MaxScopes
  <2>1. PICK V \in Oldest(e, p) : q = Forget(e, V)
    BY <1>2, <1>5
  <2>2. V \subseteq Seen(e) \ {p} /\ V \subseteq Scope
    BY DEF Oldest, Seen
  <2>3. \A k \in V, j \in (Seen(e) \ {p}) \ V : e.seen[k] <= e.seen[j]
    BY DEF Oldest
  <2>4. /\ Live(q) = Live(e) \ V
        /\ \A k \in Scope \ V : q.seen[k] = e.seen[k]
    BY <1>1, <2>1, <2>2, ForgetGood DEF Forget
  <2>5. Seen(e) = Live(e) /\ Live(e) \subseteq Scope /\ IsFiniteSet(Live(e))
    BY <1>1 DEF Good, Coherent, Live
  <2>6. Cardinality(Live(q)) = MaxScopes
    <3> DEFINE C == Seen(e) \ {p}
               excess == Cardinality(Live(e)) - MaxScopes
    <3>1. Cardinality(V) = IF excess <= Cardinality(C) THEN excess ELSE Cardinality(C)
      BY DEF Oldest
    <3>2. Cardinality(C) = IF p \in Live(e) THEN Cardinality(Live(e)) - 1
                           ELSE Cardinality(Live(e))
      BY <2>5, FS_RemoveElement
    <3>3. Cardinality(V) = excess
      BY <1>3, <1>5, <3>1, <3>2, LimitAssumption
    <3>4. Cardinality(Live(e) \ V) = Cardinality(Live(e)) - Cardinality(Live(e) \cap V)
      BY <2>5, FS_Difference
    <3>5. Live(e) \cap V = V
      BY <2>2, <2>5
    <3> HIDE DEF C
    <3>6. Cardinality(Live(e) \ V) = Cardinality(Live(e)) - excess
      BY <3>3, <3>4, <3>5
    <3> QED
      BY <1>3, <2>4, <3>6, LimitAssumption
  <2>7. \A k \in Live(r) : r.seen[k] \in Nat
    BY SeenIsNat
  <2>8. \A k \in V : Crowded(r, q, p, k)
    BY <1>1, <2>2, <2>3, <2>4, <2>5, <2>6, <2>7 DEF Crowded
  <2>9. \A k \in Live(q) : q.seen[k] = r.seen[k]
    BY <1>1, <2>4, <2>5
  <2>10. ~(Cardinality(Live(r)) <= MaxScopes)
    BY <1>3, <1>5, LimitAssumption
  <2> QED
    BY <1>1, <2>4, <2>8, <2>9, <2>10
<1> QED
  BY <1>4, <1>5

\* What EvictionOrder says of the scopes one step drops.
EvictionStep ==
    \A k \in Live(reg) \ Live(reg') :
        \/ Idle(reg, k)
        \/ /\ Cardinality(Live(reg')) = MaxScopes
           /\ \E caller \in Live(reg') :
                 /\ reg'.seen[caller] = now
                 /\ \A j \in (Live(reg') \cap Live(reg)) \ {caller} :
                       reg.seen[j] >= reg.seen[k]

\* A call for s that touched it, as the others were, before it pruned.
LEMMA TouchedVictims ==
    ASSUME NEW r, Good(r), NEW s \in Live(r), r.seen[s] = now,
           \A k \in Live(r) : k # s => r.seen[k] = reg.seen[k],
           \A k \in Live(reg) : k \in Live(r) \/ Idle(reg, k),
           NEW q \in Prune(r, s),
           Live(reg') = Live(q), reg'.seen[s] = now
    PROVE  EvictionStep
<1>1. s \in Scope /\ \A k \in Live(r) : k \in Scope
  BY DEF Live
<1>2. /\ s \in Live(q) /\ Live(q) \subseteq Live(r)
      /\ \A k \in Live(r) \ Live(q) : Idle(r, k) \/ Crowded(r, q, s, k)
  BY <1>1, PruneBounds, PruneVictims
<1> SUFFICES ASSUME NEW k \in Live(reg) \ Live(reg'), ~Idle(reg, k)
             PROVE  /\ Cardinality(Live(reg')) = MaxScopes
                    /\ \A j \in (Live(reg') \cap Live(reg)) \ {s} :
                          reg.seen[j] >= reg.seen[k]
  BY <1>2 DEF EvictionStep
<1>3. k \in Live(r) \ Live(q) /\ k # s
  BY <1>2
<1>4. Crowded(r, q, s, k)
  BY <1>2, <1>3 DEF Idle
<1> QED
  BY <1>2, <1>3, <1>4 DEF Crowded

-----------------------------------------------------------------------------
(* The steps                                                               *)

\* What RevisionTracksContent says of one step.
RevisionStep ==
    \A k \in Live(reg) \cap Live(reg') :
        /\ reg'.a[k].rev >= reg.a[k].rev
        /\ reg'.a[k].rev = reg.a[k].rev => reg'.a[k].doc \in {reg.a[k].doc, Broken}

\* An operation that leaves the panels A it keeps as they are.
LEMMA SamePanels ==
    ASSUME reg \in Registry,
           \A k \in Live(reg) \cap Live(reg') : reg'.a[k] = reg.a[k]
    PROVE  RevisionStep
<1>1. \A k \in Live(reg) : reg.a[k].rev \in Nat
  BY DEF Live, Registry, PlannerState
<1> QED
  BY <1>1 DEF RevisionStep

\* A write to one entry of one panel.
LEMMA OneWriteGood ==
    ASSUME IInv, NEW s \in Live(reg), now' = now,
           \/ \E p \in PlannerState : /\ reg' = [reg EXCEPT !.a[s] = p]
                                     /\ \/ p.rev > reg.a[s].rev
                                        \/ p = [reg.a[s] EXCEPT !.doc = Broken]
           \/ \E p \in PlannerState \cup {None} : reg' = [reg EXCEPT !.b[s] = p]
           \/ reg' = [reg EXCEPT !.seen[s] = now]
    PROVE  IInv' /\ RevisionStep
<1>1. reg \in Registry /\ Coherent(reg) /\ s \in Scope /\ now \in Nat
  BY DEF IInv, Good, Live
<1>2. None \notin PlannerState /\ None \notin Nat
  BY NoneAssumption DEF PlannerState
<1>3. reg' \in Registry
  BY <1>1 DEF Registry
<1>4. Live(reg') = Live(reg)
  BY <1>1, <1>2 DEF Live, Registry
<1>5. Seen(reg') = Seen(reg)
  BY <1>1, <1>2 DEF Seen, Coherent, Live, Registry
<1>6. \A k \in Scope : reg'.b[k] # None => reg'.a[k] # None
  BY <1>1, <1>2 DEF Coherent, Live, Registry
<1>7. Coherent(reg')
  BY <1>1, <1>4, <1>5, <1>6 DEF Coherent
<1>8. IInv'
  BY <1>3, <1>4, <1>7 DEF IInv, Good, Coherent, Live, Seen
<1>9. \A k \in Live(reg) : reg.a[k].rev \in Nat
  BY <1>1 DEF Live, Registry, PlannerState
<1>10. \A k \in Live(reg) :
          \/ reg'.a[k] = reg.a[k]
          \/ k = s /\ reg'.a[k].rev > reg.a[k].rev /\ reg'.a[k].rev \in Nat
          \/ k = s /\ reg'.a[k].rev = reg.a[k].rev /\ reg'.a[k].doc = Broken
  BY <1>1 DEF Live, Registry, PlannerState
<1> QED
  BY <1>4, <1>8, <1>9, <1>10 DEF RevisionStep

LEMMA InitGood == Init => IInv
<1> SUFFICES ASSUME Init PROVE IInv
  OBVIOUS
<1>1. Live(reg) = {} /\ Seen(reg) = {}
  BY DEF Init, Live, Seen
<1>2. reg \in Registry /\ Coherent(reg)
  BY <1>1 DEF Init, Registry, Coherent
<1> QED
  BY <1>1, <1>2, FS_EmptySet, LimitAssumption DEF IInv, Good, Init

LEMMA GetStateGood ==
    ASSUME IInv, NEW s \in Scope, GetState(s)
    PROVE  IInv' /\ RevisionStep
<1>1. Good(reg) /\ reg \in Registry /\ now \in Nat
  BY DEF IInv, Good
<1>2. reg' \in GetStateFrom(reg, s) /\ now' = now
  BY DEF GetState
<1>3. /\ Good(reg')
      /\ Cardinality(Live(reg')) <= MaxScopes
      /\ \A k \in Live(reg) \cap Live(reg') : reg'.a[k] = reg.a[k]
  BY <1>1, <1>2, GetStateBounds
<1>4. IInv'
  BY <1>1, <1>2, <1>3 DEF IInv, Good, Coherent, Live, Seen
<1> QED
  BY <1>1, <1>3, <1>4, SamePanels

\* get_compare_state, duplicate_compare_state and clear_compare_state.
LEMMA CompareGood ==
    ASSUME IInv, NEW s \in Scope,
           GetCompareState(s) \/ DuplicateCompareState(s) \/ ClearCompareState(s)
    PROVE  IInv' /\ RevisionStep
<1>1. reg.b[s] # None => s \in Live(reg)
  BY DEF IInv, Good, Coherent, Live
<1>2. CASE GetCompareState(s)
  BY <1>1, <1>2, OneWriteGood DEF GetCompareState, Touch
<1>3. CASE ClearCompareState(s)
  BY <1>1, <1>3, OneWriteGood DEF ClearCompareState
<1>4. CASE DuplicateCompareState(s) /\ GetState(s)
  BY <1>4, GetStateGood
<1>5. CASE DuplicateCompareState(s) /\ ~GetState(s)
  <2>1. PICK r \in GetStateFrom(reg, s) :
           /\ reg' = Touch([r EXCEPT !.b[s] = [r.a[s] EXCEPT !.rev = @ + 1]], s)
           /\ now' = now
    BY <1>5 DEF DuplicateCompareState, GetState
  <2>2. now \in Nat /\ reg \in Registry /\ Good(reg)
    BY DEF IInv, Good
  <2>3. /\ Good(r)
        /\ Cardinality(Live(r)) <= MaxScopes
        /\ s \in Live(r)
        /\ \A k \in Live(reg) \cap Live(r) : r.a[k] = reg.a[k]
    BY <2>2, GetStateBounds
  <2>4. r \in Registry /\ Coherent(r)
    BY <2>3 DEF Good
  <2> DEFINE p == [r.a[s] EXCEPT !.rev = @ + 1]
  <2>5. p \in PlannerState
    BY <2>3, <2>4 DEF Live, Registry, PlannerState
  <2> HIDE DEF p
  <2>6. /\ reg' \in Registry
        /\ reg'.a = r.a
        /\ reg'.b = [r.b EXCEPT ![s] = p]
        /\ reg'.seen = [r.seen EXCEPT ![s] = now]
    BY <2>1, <2>2, <2>4, <2>5 DEF Touch, Registry, p
  <2>7. Live(reg') = Live(r)
    BY <2>6 DEF Live
  <2>8. None \notin Nat
    BY NoneAssumption
  <2>9. Seen(reg') = Seen(r)
    BY <2>2, <2>3, <2>4, <2>6, <2>8 DEF Seen, Coherent, Live, Registry
  <2>10. \A k \in Scope : reg'.b[k] # None => reg'.a[k] # None
    BY <2>3, <2>4, <2>6 DEF Coherent, Live, Registry
  <2>11. IInv'
    BY <2>1, <2>2, <2>3, <2>4, <2>6, <2>7, <2>9, <2>10
       DEF IInv, Good, Coherent, Live, Seen
  <2>12. \A k \in Live(reg) \cap Live(reg') : reg'.a[k] = reg.a[k]
    BY <2>3, <2>6, <2>7
  <2> QED
    BY <2>2, <2>11, <2>12, SamePanels
<1> QED
  BY <1>2, <1>3, <1>4, <1>5

\* reset_state and replace_scope_states.
LEMMA InstallStepGood ==
    ASSUME IInv, NEW s \in Scope, NEW dA \in Doc, NEW dB \in Doc \cup {None},
           reg' \in Prune(Install(reg, s, dA, dB), s), now' = now
    PROVE  IInv' /\ RevisionStep
<1>1. Good(reg) /\ reg \in Registry /\ now \in Nat
  BY DEF IInv, Good
<1> DEFINE i == Install(reg, s, dA, dB)
<1>2. /\ Good(i)
      /\ \A k \in Scope \ {s} : i.a[k] = reg.a[k]
      /\ s \in Live(reg) => i.a[s].rev > reg.a[s].rev
  BY <1>1, InstallGood
<1> HIDE DEF i
<1>3. /\ Good(reg')
      /\ Cardinality(Live(reg')) <= MaxScopes
      /\ Live(reg') \subseteq Live(i)
      /\ \A k \in Live(reg') : reg'.a[k] = i.a[k]
  <2>1. reg' \in Prune(i, s)
    BY DEF i
  <2> QED
    BY <1>2, <2>1, PruneBounds
<1>4. IInv'
  BY <1>1, <1>3 DEF IInv, Good, Coherent, Live, Seen
<1>5. \A k \in Live(reg) : reg.a[k].rev \in Nat
  BY <1>1 DEF Live, Registry, PlannerState
<1>6. \A k \in Live(reg') : reg'.a[k].rev \in Nat
  BY <1>3 DEF Good, Live, Registry, PlannerState
<1>7. \A k \in Live(reg) \cap Live(reg') :
         reg'.a[k] = reg.a[k] \/ reg'.a[k].rev > reg.a[k].rev
  BY <1>2, <1>3 DEF Live
<1> QED
  BY <1>4, <1>5, <1>6, <1>7 DEF RevisionStep

LEMMA StepGood == IInv /\ [Next]_vars => IInv' /\ (RevisionStep \/ reg' = reg)
<1> SUFFICES ASSUME IInv, [Next]_vars
             PROVE  IInv' /\ (RevisionStep \/ reg' = reg)
  OBVIOUS
<1>1. Good(reg) /\ reg \in Registry /\ now \in Nat
  BY DEF IInv, Good
<1>2. CASE UNCHANGED vars
  BY <1>2 DEF vars, IInv, Good, Coherent, Live, Seen
<1>3. CASE Tick
  BY <1>1, <1>3 DEF Tick, IInv, Good, Coherent, Live, Seen
<1>4. ASSUME NEW v \in Visitor, DeleteVisitorStates(v)
      PROVE  IInv' /\ RevisionStep
  <2> DEFINE K == {k \in ScopesOf(v) : reg.a[k] # None \/ reg.b[k] # None}
  <2>1. K \in SUBSET Scope
    BY DEF ScopesOf
  <2>2. reg' = Forget(reg, K) /\ now' = now
    BY <1>4 DEF DeleteVisitorStates
  <2> HIDE DEF K
  <2>3. /\ Good(reg')
        /\ Live(reg') = Live(reg) \ K
        /\ \A k \in Scope \ K : reg'.a[k] = reg.a[k]
    BY <1>1, <2>1, <2>2, ForgetGood
  <2>4. Cardinality(Live(reg')) <= MaxScopes
    <3>1. /\ Cardinality(Live(reg')) <= Cardinality(Live(reg))
          /\ Cardinality(Live(reg')) \in Nat /\ Cardinality(Live(reg)) \in Nat
      BY <1>1, <2>3, FS_Subset, FS_CardinalityType DEF Good
    <3> QED
      BY <3>1, LimitAssumption DEF IInv
  <2>5. IInv'
    BY <1>1, <2>2, <2>3, <2>4 DEF IInv, Good, Coherent, Live, Seen
  <2>6. \A k \in Live(reg) \cap Live(reg') : reg'.a[k] = reg.a[k]
    BY <2>3 DEF Live
  <2> QED
    BY <1>1, <2>5, <2>6, SamePanels
<1>5. ASSUME NEW s \in Scope, GetState(s) PROVE IInv' /\ RevisionStep
  BY <1>5, GetStateGood
<1>6. ASSUME NEW s \in Scope, AllowVisitorScope(s) PROVE IInv' /\ RevisionStep
  <2>1. reg' \in Prune(reg, s) /\ now' = now
    BY <1>6 DEF AllowVisitorScope
  <2>2. /\ Good(reg')
        /\ Cardinality(Live(reg')) <= MaxScopes
        /\ \A k \in Live(reg') : reg'.a[k] = reg.a[k]
    BY <1>1, <2>1, PruneBounds
  <2>3. IInv'
    BY <1>1, <2>1, <2>2 DEF IInv, Good, Coherent, Live, Seen
  <2> QED
    BY <1>1, <2>2, <2>3, SamePanels
<1>7. ASSUME NEW s \in Scope, NEW blank \in BOOLEAN, ResetState(s, blank)
      PROVE  IInv' /\ RevisionStep
  <2>1. CASE blank
    BY <1>7, <2>1, InstallStepGood, ScopeAssumption DEF ResetState
  <2>2. CASE ~blank
    BY <1>7, <2>2, InstallStepGood, ScopeAssumption DEF ResetState
  <2> QED
    BY <2>1, <2>2
<1>8. ASSUME NEW s \in Scope, NEW dA \in Readable, NEW dB \in Readable \cup {None},
             ReplaceScopeStates(s, dA, dB)
      PROVE  IInv' /\ RevisionStep
  BY <1>8, InstallStepGood DEF ReplaceScopeStates, Readable
<1>9. ASSUME NEW s \in Scope, NEW d \in Readable, NEW n \in Bumps, EditA(s, d, n)
      PROVE  IInv' /\ RevisionStep
  <2> DEFINE p == [rev |-> reg.a[s].rev + n, doc |-> d]
  <2>1. s \in Live(reg) /\ n \in Nat \ {0}
    BY <1>9 DEF EditA, Live, Bumps
  <2>2. reg.a[s].rev \in Nat
    BY <1>1, <2>1 DEF Live, Registry, PlannerState
  <2>3. p \in PlannerState /\ p.rev > reg.a[s].rev
    BY <2>1, <2>2 DEF PlannerState, Readable
  <2>4. reg' = [reg EXCEPT !.a[s] = p] /\ now' = now
    BY <1>1, <1>9 DEF EditA, Registry
  <2> HIDE DEF p
  <2> QED
    BY <2>1, <2>3, <2>4, OneWriteGood
<1>10. ASSUME NEW s \in Scope, NEW d \in Readable, NEW n \in Bumps, EditB(s, d, n)
       PROVE  IInv' /\ RevisionStep
  <2> DEFINE p == [rev |-> reg.b[s].rev + n, doc |-> d]
  <2>1. s \in Live(reg) /\ n \in Nat \ {0}
    BY <1>1, <1>10 DEF EditB, Live, Bumps, Good, Coherent
  <2>2. reg.b[s].rev \in Nat
    BY <1>1, <1>10, <2>1 DEF EditB, Live, Registry, PlannerState
  <2>3. p \in PlannerState
    BY <2>1, <2>2 DEF PlannerState, Readable
  <2>4. reg' = [reg EXCEPT !.b[s] = p] /\ now' = now
    BY <1>1, <1>10 DEF EditB, Registry
  <2> HIDE DEF p
  <2> QED
    BY <2>1, <2>3, <2>4, OneWriteGood
<1>11. ASSUME NEW s \in Scope, FailA(s) PROVE IInv' /\ RevisionStep
  <2> DEFINE p == [reg.a[s] EXCEPT !.doc = Broken]
  <2>1. s \in Live(reg) /\ p \in PlannerState
    BY <1>1, <1>11, ScopeAssumption DEF FailA, Live, Registry, PlannerState
  <2>2. reg' = [reg EXCEPT !.a[s] = p] /\ now' = now
    BY <1>1, <1>11 DEF FailA, Registry
  <2> QED
    BY <2>1, <2>2, OneWriteGood
<1>12. ASSUME NEW s \in Scope, FailB(s) PROVE IInv' /\ RevisionStep
  <2> DEFINE p == [reg.b[s] EXCEPT !.doc = Broken]
  <2>1. s \in Live(reg) /\ p \in PlannerState
    BY <1>1, <1>12, ScopeAssumption DEF FailB, Live, Registry, PlannerState, Good, Coherent
  <2>2. reg' = [reg EXCEPT !.b[s] = p] /\ now' = now
    BY <1>1, <1>12 DEF FailB, Registry
  <2> HIDE DEF p
  <2> QED
    BY <2>1, <2>2, OneWriteGood
<1> QED
  BY <1>2, <1>3, <1>4, <1>5, <1>6, <1>7, <1>8, <1>9, <1>10, <1>11, <1>12, CompareGood
     DEF Next, ScopeNext

\* The inductive invariant: after every call of the session store, whichever
\* came before it, the registry is typed, coherent, finite and under the cap.
THEOREM InvariantHolds == Spec => []IInv
<1>1. IInv /\ [Next]_vars => IInv'
  BY StepGood
<1> QED
  BY InitGood, <1>1, PTL DEF Spec

-----------------------------------------------------------------------------
(* The results                                                             *)

\* The three dictionaries hold planner states, None and times, for ever.
THEOREM TypeCorrect == Spec => []TypeOK
<1>1. IInv => TypeOK
  BY DEF IInv, Good, TypeOK
<1> QED
  BY InvariantHolds, <1>1, PTL

\* The three dictionaries never disagree, however the calls interleave.
THEOREM AlwaysCoherent == Spec => []RegistryCoherent
<1>1. IInv => RegistryCoherent
  BY DEF IInv, Good, RegistryCoherent
<1> QED
  BY InvariantHolds, <1>1, PTL

\* The registry never outgrows _STATE_MAX_SCOPES, for any set of scopes.
THEOREM AlwaysUnderCap == Spec => []CapRespected
<1>1. IInv => CapRespected
  BY DEF IInv, CapRespected
<1> QED
  BY InvariantHolds, <1>1, PTL

\* Panel A's revision is monotone, and identifies its content, as long as the
\* scope stays in the registry and no edit leaves it unreadable.
THEOREM RevisionsTrackContent == Spec => RevisionTracksContent
<1> DEFINE Step == \A k \in Live(reg) \cap Live(reg') :
                      /\ reg'.a[k].rev >= reg.a[k].rev
                      /\ reg'.a[k].rev = reg.a[k].rev
                            => reg'.a[k].doc \in {reg.a[k].doc, Broken}
<1>1. IInv /\ [Next]_vars => [Step]_vars
  <2> SUFFICES ASSUME IInv, [Next]_vars PROVE Step
    OBVIOUS
  <2>1. CASE reg' = reg
    <3>1. \A k \in Live(reg) : reg.a[k].rev \in Nat
      BY DEF IInv, Good, Live, Registry, PlannerState
    <3> QED
      BY <2>1, <3>1
  <2> QED
    BY <2>1, StepGood DEF RevisionStep
<1> QED
  BY InvariantHolds, <1>1, PTL DEF Spec, RevisionTracksContent

LEMMA GetStateVictims ==
    ASSUME IInv, NEW s \in Scope, NEW q \in GetStateFrom(reg, s),
           Live(reg') = Live(q), reg'.seen[s] = now
    PROVE  EvictionStep
<1>1. PICK p \in Prune(reg, s) : q \in Prune(Touch(Create(p, s), s), s)
  BY DEF GetStateFrom
<1>2. Good(reg) /\ now \in Nat /\ Cardinality(Live(reg)) <= MaxScopes
  BY DEF IInv
<1>3. /\ Good(p)
      /\ Live(p) \subseteq Live(reg)
      /\ \A k \in Live(p) : p.seen[k] = reg.seen[k]
      /\ \A k \in Live(reg) \ Live(p) : Idle(reg, k)
  BY <1>2, PruneBounds, PruneVictims
<1> DEFINE c == Touch(Create(p, s), s)
<1>4. Good(c) /\ Live(c) = Live(p) \cup {s}
  BY <1>2, <1>3, CreateTouchGood
<1>5. c.seen = [p.seen EXCEPT ![s] = now]
  BY <1>3 DEF Create, Touch, Good, Registry
<1>6. c.seen[s] = now /\ \A k \in Live(c) : k # s => c.seen[k] = reg.seen[k]
  BY <1>3, <1>4, <1>5 DEF Good, Registry
<1> HIDE DEF c
<1>7. q \in Prune(c, s)
  BY <1>1 DEF c
<1> QED
  BY <1>3, <1>4, <1>6, <1>7, TouchedVictims

LEMMA InstallVictims ==
    ASSUME IInv, NEW s \in Scope, NEW dA \in Doc, NEW dB \in Doc \cup {None},
           reg' \in Prune(Install(reg, s, dA, dB), s)
    PROVE  EvictionStep
<1> DEFINE i == Install(reg, s, dA, dB)
<1>1. Good(reg) /\ reg \in Registry /\ now \in Nat
  BY DEF IInv, Good
<1>2. Good(i) /\ Live(i) = Live(reg) \cup {s}
  BY <1>1, InstallGood
<1>3. i.seen = [reg.seen EXCEPT ![s] = now]
  BY DEF Install
<1>4. i.seen[s] = now /\ \A k \in Live(i) : k # s => i.seen[k] = reg.seen[k]
  BY <1>1, <1>3 DEF Registry, Live
<1>5. reg' \in Prune(i, s)
  OBVIOUS
<1> HIDE DEF i
<1>6. s \in Live(reg') /\ \A k \in Live(reg') : reg'.seen[k] = i.seen[k]
  BY <1>2, <1>5, PruneBounds, PruneVictims
<1>7. reg'.seen[s] = now
  BY <1>4, <1>6
<1> QED
  BY <1>2, <1>4, <1>5, <1>7, TouchedVictims

\* A scope disappears only with its visitor's data, idle past the TTL, or as
\* the longest unseen of a full process: for any number of scopes, nobody is
\* evicted in place of someone idle for longer.
THEOREM EvictionsInOrder == Spec => EvictionOrder
<1> DEFINE Deleted == \E v \in Visitor : DeleteVisitorStates(v)
           Step == \/ Deleted
                   \/ \A k \in Live(reg) \ Live(reg') :
                         \/ TTL > 0 /\ now - reg.seen[k] > TTL
                         \/ /\ Cardinality(Live(reg')) = MaxScopes
                            /\ \E caller \in Live(reg') :
                                  /\ reg'.seen[caller] = now
                                  /\ \A j \in (Live(reg') \cap Live(reg)) \ {caller} :
                                        reg.seen[j] >= reg.seen[k]
<1>1. IInv /\ [Next]_vars => Deleted \/ EvictionStep
  <2> SUFFICES ASSUME IInv, [Next]_vars, ~Deleted PROVE EvictionStep
    OBVIOUS
  <2>1. reg \in Registry /\ Good(reg) /\ now \in Nat /\ Cardinality(Live(reg)) <= MaxScopes
    BY DEF IInv, Good
  <2>2. (\A k \in Live(reg) : k \in Live(reg')) => EvictionStep
    BY DEF EvictionStep
  <2>3. CASE UNCHANGED vars \/ Tick
    BY <2>2, <2>3 DEF vars, Tick
  <2>4. ASSUME NEW s \in Scope, GetState(s) PROVE EvictionStep
    <3>1. reg' \in GetStateFrom(reg, s)
      BY <2>4 DEF GetState
    <3>2. PICK p \in Prune(reg, s) : reg' \in Prune(Touch(Create(p, s), s), s)
      BY <3>1 DEF GetStateFrom
    <3>3. Good(p)
      BY <2>1, PruneBounds
    <3>4. Good(Touch(Create(p, s), s)) /\ s \in Live(Touch(Create(p, s), s))
      BY <2>1, <3>3, CreateTouchGood
    <3>5. Touch(Create(p, s), s).seen[s] = now
      BY <3>3 DEF Create, Touch, Good, Registry
    <3> DEFINE c == Touch(Create(p, s), s)
    <3> HIDE DEF c
    <3>6. Good(c) /\ s \in Live(c) /\ c.seen[s] = now /\ reg' \in Prune(c, s)
      BY <3>2, <3>4, <3>5 DEF c
    <3>7. reg'.seen[s] = now
      BY <3>6, PruneBounds, PruneVictims
    <3> QED
      BY <3>1, <3>7, GetStateVictims
  <2>5. ASSUME NEW s \in Scope, AllowVisitorScope(s) PROVE EvictionStep
    <3>1. reg' \in Prune(reg, s)
      BY <2>5 DEF AllowVisitorScope
    <3> QED
      BY <2>1, <3>1, PruneVictims DEF EvictionStep
  <2>6. ASSUME NEW s \in Scope, NEW blank \in BOOLEAN, ResetState(s, blank)
        PROVE  EvictionStep
    BY <2>6, InstallVictims, ScopeAssumption DEF ResetState
  <2>7. ASSUME NEW s \in Scope, NEW dA \in Readable, NEW dB \in Readable \cup {None},
               ReplaceScopeStates(s, dA, dB)
        PROVE  EvictionStep
    BY <2>7, InstallVictims DEF ReplaceScopeStates, Readable
  <2>8. ASSUME NEW s \in Scope, DuplicateCompareState(s), ~GetState(s) PROVE EvictionStep
    <3>1. PICK r \in GetStateFrom(reg, s) :
             reg' = Touch([r EXCEPT !.b[s] = [r.a[s] EXCEPT !.rev = @ + 1]], s)
      BY <2>8 DEF DuplicateCompareState, GetState
    <3>2. r \in Registry
      BY <2>1, GetStateBounds DEF Good
    <3>3. reg'.a = r.a /\ reg'.seen[s] = now
      BY <3>1, <3>2 DEF Touch, Registry
    <3>4. Live(reg') = Live(r)
      BY <3>3 DEF Live
    <3> QED
      BY <3>3, <3>4, GetStateVictims
  <2>9. ASSUME NEW s \in Scope,
               \/ GetCompareState(s) \/ ClearCompareState(s)
               \/ \E d \in Readable, n \in Bumps : EditA(s, d, n) \/ EditB(s, d, n)
               \/ FailA(s) \/ FailB(s)
        PROVE  EvictionStep
    <3>1. \/ reg'.a = reg.a
          \/ \E p \in PlannerState : reg'.a = [reg.a EXCEPT ![s] = p]
      <4>1. CASE GetCompareState(s) \/ ClearCompareState(s)
        BY <2>1, <4>1 DEF GetCompareState, ClearCompareState, Touch, Registry
      <4>2. ASSUME NEW d \in Readable, NEW n \in Bumps, EditA(s, d, n)
            PROVE  \E p \in PlannerState : reg'.a = [reg.a EXCEPT ![s] = p]
        <5> DEFINE p == [rev |-> reg.a[s].rev + n, doc |-> d]
        <5>1. p \in PlannerState
          BY <2>1, <4>2 DEF EditA, Registry, PlannerState, Bumps, Readable
        <5>2. reg'.a = [reg.a EXCEPT ![s] = p]
          BY <2>1, <4>2 DEF EditA, Registry
        <5> QED
          BY <5>1, <5>2
      <4>3. ASSUME NEW d \in Readable, NEW n \in Bumps, EditB(s, d, n)
            PROVE  reg'.a = reg.a
        BY <4>3 DEF EditB
      <4>4. ASSUME FailA(s)
            PROVE  \E p \in PlannerState : reg'.a = [reg.a EXCEPT ![s] = p]
        <5> DEFINE p == [reg.a[s] EXCEPT !.doc = Broken]
        <5>1. p \in PlannerState
          BY <2>1, <4>4, ScopeAssumption DEF FailA, Registry, PlannerState
        <5>2. reg'.a = [reg.a EXCEPT ![s] = p]
          BY <2>1, <4>4 DEF FailA, Registry
        <5> QED
          BY <5>1, <5>2
      <4>5. ASSUME FailB(s)
            PROVE  reg'.a = reg.a
        BY <4>5 DEF FailB
      <4> QED
        BY <2>9, <4>1, <4>2, <4>3, <4>4, <4>5
    <3>2. None \notin PlannerState
      BY NoneAssumption DEF PlannerState
    <3> QED
      BY <2>1, <2>2, <3>1, <3>2 DEF Live, Registry
  <2> QED
    BY <2>3, <2>4, <2>5, <2>6, <2>7, <2>8, <2>9 DEF Next, ScopeNext
<1>2. IInv /\ [Next]_vars => [Step]_vars
  BY <1>1 DEF EvictionStep, Idle
<1> QED
  BY InvariantHolds, <1>2, PTL DEF Spec, EvictionOrder
=============================================================================
