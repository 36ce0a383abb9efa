---------------------------- MODULE VisitorSlots ----------------------------
(***************************************************************************)
(* What the request hooks of web/middleware.py promise the handlers: every *)
(* visitor has one slot, a request works inside the slot of its visitor,   *)
(* and nobody enters a slot that is taken.  Locks, tabs and the registry   *)
(* are left to RequestScope, which implements this module.                 *)
(***************************************************************************)
CONSTANTS
    Thread,       \* gunicorn threads
    Visitor       \* visitor cookies

VARIABLE
    inside        \* the threads working for each visitor

SlotInit == inside = [v \in Visitor |-> {}]

\* A request's before_request hook gets through to the handler.
Enter(v, t) ==
    /\ inside[v] = {}
    /\ \A w \in Visitor : t \notin inside[w]
    /\ inside' = [inside EXCEPT ![v] = {t}]

\* It is refused at the door, or its teardown hook has run.
Exit(v, t) ==
    /\ t \in inside[v]
    /\ inside' = [inside EXCEPT ![v] = @ \ {t}]

SlotNext == \E v \in Visitor, t \in Thread : Enter(v, t) \/ Exit(v, t)

SlotSpec == SlotInit /\ [][SlotNext]_inside
=============================================================================
