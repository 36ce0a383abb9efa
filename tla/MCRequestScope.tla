--------------------------- MODULE MCRequestScope ---------------------------
(* RequestScope on two tabs of one visitor and one tab of another.         *)
EXTENDS RequestScope, TLC

CONSTANTS s1, s2, s3, v1, v2

MCScope == {s1, s2, s3}
MCVisitorOf == s1 :> v1 @@ s2 :> v1 @@ s3 :> v2
MCScopePair == {s1, s3}
MCVisitorOfPair == s1 :> v1 @@ s3 :> v2

\* Two objects for each visitor and tab: one that is in use, and another that a
\* registry which forgot the first one would create.
MCLock == (Scope \cup Visitor) \X {1, 2}
MCMadeFor == [l \in MCLock |-> l[1]]

\* Threads, and the two tabs of the first visitor, are only compared for equality.
Symmetry == Permutations(Thread) \cup Permutations({s1, s2})
=============================================================================
