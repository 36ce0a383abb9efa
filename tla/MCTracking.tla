----------------------------- MODULE MCTracking -----------------------------
(* Tracking with an old log that holds one snapshot of the visitor v1.      *)
EXTENDS Tracking, TLC

CONSTANTS v1, tab1, d1

MCLegacyRows == {[n |-> 0, v |-> v1, tab |-> tab1, doc |-> d1, seen |-> 0]}
\* A process that is not restarted.
UpSpec == TrackInit /\ [][OpenStore \/ \E t \in Thread : Step(t)]_trackVars

Symmetry == Permutations(Thread)
=============================================================================
