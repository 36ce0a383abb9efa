----------------------------- MODULE ChartCache -----------------------------
(***************************************************************************)
(* The chart JSON cache (web/cache.py, ScopedRevisionCache) and its only    *)
(* user, the chart_data route of web/api.py, on top of the session store.   *)
(* The cache is keyed by scope and by (combined revision, mode), and is     *)
(* never told that a state was closed, evicted or deleted.                  *)
(*                                                                         *)
(* chart_data computes its key, looks it up and, on a miss, builds the      *)
(* payload; it holds its visitor's and its tab's lock throughout, so of the *)
(* steps in between only those of other visitors can happen.                *)
(***************************************************************************)
EXTENDS SessionStore, SequencesExt

CONSTANTS
    ModeOf,           \* the plot mode, one of the fields a content fixes
    MaxEntries,       \* max_entries_per_scope
    MaxCached         \* max_scopes of the cache

ASSUME CacheAssumption ==
    /\ MaxEntries \in Nat \ {0}
    /\ MaxCached \in Nat \ {0}

VARIABLES
    entries,      \* per scope, its cached charts, least recently used first
    order,        \* the scopes with an entry, least recently used first
    building,     \* per scope, the chart request that missed
    served        \* the chart response of the last step, if any: does it show
                  \* the panels as they are, and is its entry an old one

cacheVars == <<entries, order, building, served>>
chartVars == <<vars, cacheVars>>

-----------------------------------------------------------------------------
(* Keys                                                                    *)

\* Mutant of CombinedRevision: B is not part of the key.
RevisionOfA(a, b) == a.rev

\* Cantor's pairing of A's revision and B's revision plus one, 0 for no B.
CombinedRevision(a, b) ==
    LET bRev  == IF b = None THEN 0 ELSE b.rev + 1
        total == a.rev + bRev
    IN  (total * (total + 1)) \div 2 + bRev

KeyOf(a, b) == <<CombinedRevision(a, b), ModeOf[a.doc]>>

\* _build_chart_payload, a function of what the two panels describe.
Payload(a, b) == <<a.doc, IF b = None THEN None ELSE b.doc>>
Contents(a, b) == {a.doc} \cup IF b = None THEN {} ELSE {b.doc}

-----------------------------------------------------------------------------
(* The cache                                                               *)

\* Mutant of ToEnd: the old place is kept.
AlsoAtEnd(seq, x) == Append(seq, x)

\* An ordered dictionary without the key whose place is in I, if there is one.
Without(seq, I) == IF I = {} THEN seq ELSE RemoveAt(seq, CHOOSE i \in I : TRUE)

\* OrderedDict.move_to_end, adding the element when it is missing.
ToEnd(seq, x) == Append(Without(seq, {i \in 1..Len(seq) : seq[i] = x}), x)

\* popitem(last=False) while there are more than n.
LastN(seq, n) == IF Len(seq) > n THEN SubSeq(seq, Len(seq) - n + 1, Len(seq)) ELSE seq

Hits(s, key) == {i \in 1..Len(entries[s]) : entries[s][i].key = key}

\* get: a hit becomes the most recent entry of the most recent scope.
CacheHit(s, seq, e) ==
    /\ entries' = [entries EXCEPT ![s] = ToEnd(seq, e)]
    /\ order' = ToEnd(order, s)

\* put: the oldest entries of the scope and the oldest scopes fall out.
CachePut(s, e) ==
    LET kept == Without(entries[s], Hits(s, e.key))
        seq  == LastN(ToEnd(order, s), MaxCached)
    IN  /\ order' = seq
        /\ entries' = [k \in Scope |->
                          IF \A i \in 1..Len(seq) : seq[i] # k THEN <<>>
                          ELSE IF k = s THEN LastN(Append(kept, e), MaxEntries)
                          ELSE entries[k]]

-----------------------------------------------------------------------------
(* Actions                                                                 *)

ChartInit ==
    /\ Init
    /\ entries = [k \in Scope |-> <<>>]
    /\ order = <<>>
    /\ building = [k \in Scope |-> None]
    /\ served = None

\* A visitor with a chart under construction holds its lock.
Free(v) == \A k \in ScopesOf(v) : building[k] = None

Respond(s, e, a, b) ==
    served' = [current |-> e.body = Payload(a, b), old |-> e.old]

\* get_state, get_compare_state, the key and the lookup.  When a panel cannot be
\* read, all that is left of the request is its GetState below.
ChartLookup(s) ==
    /\ Free(VisitorOf[s])
    /\ \E r \in GetStateFrom(reg, s) :
          LET a == r.a[s]
              b == r.b[s]
              hits == Hits(s, KeyOf(a, b))
              fresh == reg.a[s] = None
              known == [i \in 1..Len(entries[s]) |->
                           [entries[s][i] EXCEPT !.old = @ \/ fresh]]
          IN  /\ Broken \notin Contents(a, b)
              /\ reg' = r
              /\ IF hits # {}
                 THEN \E i \in hits :
                        /\ CacheHit(s, known, known[i])
                        /\ Respond(s, known[i], a, b)
                        /\ UNCHANGED building
                 ELSE /\ building' = [building EXCEPT ![s] =
                                        [key |-> KeyOf(a, b), a |-> a, b |-> b]]
                      /\ entries' = [entries EXCEPT ![s] = known]
                      /\ served' = None
                      /\ UNCHANGED order
    /\ UNCHANGED now

\* _build_chart_payload reads the two states again, then put and respond.
\* The states are those fetched before, in the registry or evicted from it.
ChartStore(s) ==
    /\ building[s] # None
    /\ LET a == IF reg.a[s] = None THEN building[s].a ELSE reg.a[s]
           b == IF reg.a[s] = None THEN building[s].b ELSE reg.b[s]
           e == [key |-> building[s].key, body |-> Payload(a, b),
                 old |-> reg.a[s] = None]
       IN  /\ CachePut(s, e)
           /\ Respond(s, [e EXCEPT !.old = FALSE], a, b)
    /\ building' = [building EXCEPT ![s] = None]
    /\ UNCHANGED vars

\* Entries of a scope whose panel B was duplicated or whose state was recreated
\* from scratch: their revisions may be handed out again.  A ghost mark, read by
\* no action.
Age(K) ==
    entries' = [k \in Scope |->
                   [i \in 1..Len(entries[k]) |->
                       [entries[k][i] EXCEPT !.old = @ \/ k \in K]]]

Recreated == {k \in Scope : reg.a[k] = None /\ reg'.a[k] # None}

\* Any other request of a visitor that has no chart under construction.
OtherRequest(s) ==
    /\ Free(VisitorOf[s])
    /\ \/ DuplicateCompareState(s) /\ Age({s})
       \/ /\ \/ GetState(s)
             \/ ResetState(s, TRUE)
             \/ \E dA \in Readable, dB \in Readable \cup {None} :
                   ReplaceScopeStates(s, dA, dB)
             \/ ClearCompareState(s)
             \/ \E d \in Readable : EditA(s, d, 1) \/ EditB(s, d, 1)
             \/ FailA(s) \/ FailB(s)
          /\ Age(Recreated)
    /\ served' = None
    /\ UNCHANGED <<order, building>>

ForgetVisitor(v) ==
    /\ Free(v)
    /\ DeleteVisitorStates(v)
    /\ served' = None
    /\ UNCHANGED <<entries, order, building>>

\* Time stands still: scopes last used at the same time are evicted in any
\* order, so the cap evicts here whatever idleness could.
ChartNext ==
    \/ \E v \in Visitor : ForgetVisitor(v)
    \/ \E s \in Scope : ChartLookup(s) \/ ChartStore(s) \/ OtherRequest(s)

ChartSpec == ChartInit /\ [][ChartNext]_chartVars

-----------------------------------------------------------------------------
(* Properties                                                              *)

\* The two LRU orders stay consistent and bounded: a scope is listed exactly
\* when it has entries, once, and no key occurs twice in a scope.
CacheCoherent ==
    /\ Len(order) <= MaxCached
    /\ \A i, j \in 1..Len(order) : order[i] = order[j] => i = j
    /\ \A k \in Scope :
          /\ entries[k] # <<>> <=> \E i \in 1..Len(order) : order[i] = k
          /\ Len(entries[k]) <= MaxEntries
          /\ \A i, j \in 1..Len(entries[k]) :
                entries[k][i].key = entries[k][j].key => i = j

\* A chart answered from a revision handed out once shows the two panels as
\* they are: edits, resets, imports and closing B never serve an old chart.
\* Not so the entries from before a duplication or an eviction, which hand
\* revisions out again.
FreshWithinLifetime ==
    served # None /\ ~served.old => served.current

\* What the revision is for: every chart shows the panels as they are.
ChartIsCurrent == served # None => served.current
=============================================================================
