--------------------------- MODULE MCSessionStore ---------------------------
(* SessionStore on three tabs of two visitors, with room for two of them.  *)
EXTENDS SessionStore, TLC

CONSTANTS s1, s2, s3, v1, v2

MCScope == {s1, s2, s3}
MCVisitorOf == s1 :> v1 @@ s2 :> v1 @@ s3 :> v2

\* The two tabs of the first visitor are only told apart by their keys.
Symmetry == Permutations({s1, s2})
=============================================================================
