---------------------------- MODULE MCChartCache ----------------------------
(* ChartCache on one tab of each of two visitors.                          *)
EXTENDS ChartCache, TLC

CONSTANTS s1, s2, v1, v2, d1, d2, dx

MCScope == {s1, s2}
MCVisitorOf == s1 :> v1 @@ s2 :> v2
\* Each visitor has one tab and no variable holds a visitor: exchanging the tabs
\* exchanges the visitors with them.
Symmetry == Permutations(MCScope)
MCModeOf == d1 :> "users" @@ d2 :> "users" @@ dx :> "users"

\* One tab whose state is never evicted nor deleted: only its own requests.
OneTab == {s1}
OneTabVisitorOf == s1 :> v1
OneTabNext == \E s \in Scope : ChartLookup(s) \/ ChartStore(s) \/ OtherRequest(s)
OneTabSpec == ChartInit /\ [][OneTabNext]_chartVars
=============================================================================
