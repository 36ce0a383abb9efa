---------------------------- MODULE RequestScope ----------------------------
(***************************************************************************)
(* Requests of the planner as gunicorn threads run them: the before_request *)
(* hook of web/middleware.py that takes the visitor's lock, admits the tab  *)
(* and takes the tab's lock; the handler's calls on the session store; and  *)
(* the teardown hook that releases.  The delete-my-data endpoint skips the  *)
(* hook and takes the visitor's lock itself.                                *)
(*                                                                         *)
(* Between two steps of a request every other thread may run.  Lock objects *)
(* have identity here, because get_scope_lock keeps them in a              *)
(* WeakValueDictionary: an object nobody references any more disappears     *)
(* and the next caller creates a new one.  They are re-entrant, and stay    *)
(* with a thread that does not release them.                                *)
(***************************************************************************)
EXTENDS SessionStore

CONSTANTS
    Thread,       \* gunicorn threads
    Lock,         \* threading.RLock objects
    MadeFor,      \* the visitor or tab an object is created for, if ever
    Kinds,        \* the kinds of request the model's clients send
    MaxTabs       \* MAX_TABS_PER_VISITOR

AllKinds == {"view", "editA", "editB", "duplicate", "close", "reset", "delete"}
Edits == {"editA", "editB"}

ASSUME ThreadAssumption ==
    /\ MadeFor \in [Lock -> Scope \cup Visitor]
    /\ \A key \in Scope \cup Visitor : \E l \in Lock : MadeFor[l] = key
    /\ Kinds \subseteq AllKinds
    /\ MaxTabs \in Nat \ {0}
    /\ Scope \cap Visitor = {}
    /\ None \notin Lock \cup Thread

VARIABLES
    pc,           \* where each thread is in its request
    kind,         \* what its request does
    scope,        \* the tab its request comes from
    vlock,        \* the visitor's lock object it references
    slock,        \* the tab's lock object it references
    lockOf,       \* _scope_locks
    owner,        \* the thread holding each lock object
    abandoned,    \* the lock objects a request left without releasing them
    held          \* whether the planner state it fetched is still registered

threadVars == <<pc, kind, scope, vlock, slock, lockOf, owner, abandoned, held>>
requestVars == <<reg, now, threadVars>>

-----------------------------------------------------------------------------
LockKey == Scope \cup Visitor

\* Revisions are SessionStore's concern; here they would only multiply states.
Flat(r) ==
    LET zero(p) == IF p = None THEN None ELSE [p EXCEPT !.rev = 0]
    IN  [r EXCEPT !.a = [k \in Scope |-> zero(r.a[k])],
                  !.b = [k \in Scope |-> zero(r.b[k])]]

Referenced(v, s) == {v[t] : t \in Thread} \cup {s[t] : t \in Thread}

\* Mutant of LockObject: no lock is created for a new key.
RegisteredLock(key) == lockOf[key]

\* get_scope_lock: the registered object, or a new one.
LockObject(key) ==
    IF lockOf[key] # None THEN lockOf[key]
    ELSE CHOOSE l \in Lock : /\ MadeFor[l] = key
                             /\ l \notin Referenced(vlock, slock) \cup abandoned

\* Mutant of Collected: only the thread that holds a lock keeps it registered.
CollectedUnlessHeld(v, s) ==
    [key \in LockKey |-> IF lockOf[key] = None \/ owner[lockOf[key]] = None
                         THEN None ELSE lockOf[key]]

\* WeakValueDictionary: entries whose object lost its last reference vanish.
\* The error of a request that abandoned its lock keeps a reference to it.
Collected(v, s) ==
    [key \in LockKey |-> IF lockOf[key] \in Referenced(v, s) \cup abandoned
                         THEN lockOf[key] ELSE None]

\* lock.release(): one level, of two when the thread had abandoned the lock.
Released(l) == [owner EXCEPT ![l] = IF l \in abandoned THEN @ ELSE None]

\* A thread that holds a fetched state keeps the object, but the registry may
\* have dropped it: its later writes then reach an orphan.
Lose(r) ==
    [t \in Thread |->
        IF held[t] = "live" /\ (IF kind[t] = "editB" THEN r.b[scope[t]]
                                ELSE r.a[scope[t]]) = None
        THEN "orphan" ELSE held[t]]

Goto(t, label) == pc' = [pc EXCEPT ![t] = label]

\* One locked call on the store by thread t, and its effect on every thread
\* in the middle of a request.
StoreStep(t, outcomes) ==
    /\ reg' \in {Flat(r) : r \in outcomes}
    /\ held' = Lose(reg')
    /\ UNCHANGED <<now, kind, scope, vlock, slock, lockOf, owner, abandoned>>

-----------------------------------------------------------------------------
(* before_request                                                          *)

RequestInit ==
    /\ Init
    /\ pc = [t \in Thread |-> "idle"]
    /\ kind = [t \in Thread |-> None]
    /\ scope = [t \in Thread |-> None]
    /\ vlock = [t \in Thread |-> None]
    /\ slock = [t \in Thread |-> None]
    /\ lockOf = [key \in LockKey |-> None]
    /\ owner = [l \in Lock |-> None]
    /\ abandoned = {}
    /\ held = [t \in Thread |-> "none"]

\* A request arrives and looks up the lock of its visitor.
Begin(t, k, s) ==
    /\ pc[t] = "idle"
    /\ LET l == LockObject(VisitorOf[s])
       IN  /\ vlock' = [vlock EXCEPT ![t] = l]
           /\ lockOf' = [lockOf EXCEPT ![VisitorOf[s]] = l]
    /\ kind' = [kind EXCEPT ![t] = k]
    /\ scope' = [scope EXCEPT ![t] = s]
    /\ Goto(t, "visitorLock")
    /\ UNCHANGED <<reg, now, slock, owner, abandoned, held>>

\* Mutant of AcquireVisitor: deleting data does not wait for the lock.
AcquireUnlessDeleting(t) ==
    /\ pc[t] = "visitorLock"
    /\ kind[t] = "delete" \/ owner[vlock[t]] \in {None, t}
    /\ owner' = [owner EXCEPT ![vlock[t]] = t]
    /\ Goto(t, IF kind[t] = "delete" THEN "delete" ELSE "admit")
    /\ UNCHANGED <<reg, now, kind, scope, vlock, slock, lockOf, abandoned, held>>

\* acquire(): a lock this very thread abandoned is entered once more.
AcquireVisitor(t) ==
    /\ pc[t] = "visitorLock"
    /\ owner[vlock[t]] \in {None, t}
    /\ owner' = [owner EXCEPT ![vlock[t]] = t]
    /\ Goto(t, IF kind[t] = "delete" THEN "delete" ELSE "admit")
    /\ UNCHANGED <<reg, now, kind, scope, vlock, slock, lockOf, abandoned, held>>

\* _scope_id looks for the tab in the form: a body past MAX_CONTENT_LENGTH ends
\* the request here, before g.planner_scope_locks says what to release.
Unread(t) ==
    /\ pc[t] = "admit"
    /\ abandoned' = abandoned \cup {vlock[t]}
    /\ Goto(t, "leave")
    /\ UNCHANGED <<reg, now, kind, scope, vlock, slock, lockOf, owner, held>>

\* allow_visitor_scope: prunes, then answers; a refusal releases the lock.
Admit(t) ==
    /\ pc[t] = "admit"
    /\ \E r \in Prune(reg, scope[t]) :
          /\ reg' = r
          /\ held' = Lose(r)
          /\ IF Admits(r, scope[t], MaxTabs)
             THEN Goto(t, "lookupTab") /\ UNCHANGED owner
             ELSE Goto(t, "leave") /\ owner' = Released(vlock[t])
    /\ UNCHANGED <<now, kind, scope, vlock, slock, lockOf, abandoned>>

LookupTabLock(t) ==
    /\ pc[t] = "lookupTab"
    /\ LET l == LockObject(scope[t])
       IN  /\ slock' = [slock EXCEPT ![t] = l]
           /\ lockOf' = [lockOf EXCEPT ![scope[t]] = l]
    /\ Goto(t, "tabLock")
    /\ UNCHANGED <<reg, now, kind, scope, vlock, owner, abandoned, held>>

AcquireTab(t) ==
    /\ pc[t] = "tabLock"
    /\ owner[slock[t]] \in {None, t}
    /\ owner' = [owner EXCEPT ![slock[t]] = t]
    /\ Goto(t, IF kind[t] \in {"view", "editA", "editB"} THEN "fetch" ELSE "act")
    /\ UNCHANGED <<reg, now, kind, scope, vlock, slock, lockOf, abandoned, held>>

-----------------------------------------------------------------------------
(* Handlers                                                                *)

\* What is left of a registry when the present step of a handler raises: a panel
\* that get_state, duplicating or get_compare_state cannot normalise; an edit
\* that is refused, before it wrote or after.
Errors(t) ==
    LET s == scope[t]
        spoiled(p) == [p EXCEPT !.doc = Broken]
    IN  CASE pc[t] = "act" /\ kind[t] \in Edits ->
               {reg} \cup IF held[t] # "live" THEN {}
                          ELSE IF kind[t] = "editA" THEN {[reg EXCEPT !.a[s] = spoiled(@)]}
                          ELSE {[reg EXCEPT !.b[s] = spoiled(@)]}
          [] pc[t] = "fetch" /\ kind[t] = "editB" ->
               IF reg.b[s] # None /\ reg.b[s].doc = Broken THEN {Touch(reg, s)} ELSE {}
          [] OTHER -> {r \in GetStateFrom(reg, s) : r.a[s].doc = Broken}

\* The handler raises: an error is answered, and nothing is rendered.
Raise(t) ==
    /\ pc[t] = "fetch" \/ (pc[t] = "act" /\ kind[t] \in Edits \cup {"duplicate"})
    /\ Goto(t, "releaseTab")
    /\ reg' \in {Flat(r) : r \in Errors(t)}
    /\ held' = [Lose(reg') EXCEPT ![t] = "none"]
    /\ UNCHANGED <<now, kind, scope, vlock, slock, lockOf, owner, abandoned>>

\* get_state, or for panel B get_compare_state; with_planner_state goes
\* straight to re-rendering when panel B is gone.
Fetch(t) ==
    /\ pc[t] = "fetch"
    /\ LET s == scope[t]
       IN  IF kind[t] = "editB"
           THEN LET found == reg.b[s] # None
                IN  /\ found => reg.b[s].doc # Broken
                    /\ reg' = IF found THEN Touch(reg, s) ELSE reg
                    /\ held' = [held EXCEPT ![t] = IF found THEN "live" ELSE "none"]
                    /\ Goto(t, IF found THEN "act" ELSE "render")
           ELSE /\ reg' \in {Flat(r) : r \in GetStateFrom(reg, s)}
                /\ reg'.a[s].doc # Broken
                /\ held' = [Lose(reg') EXCEPT ![t] = "live"]
                /\ Goto(t, IF kind[t] = "view" THEN "releaseTab" ELSE "act")
    /\ UNCHANGED <<now, kind, scope, vlock, slock, lockOf, owner, abandoned>>

\* The mutation.  An edit writes the fetched object, registered or not; the
\* other kinds are one call on the store.
Act(t) ==
    /\ pc[t] = "act"
    /\ Goto(t, "render")
    /\ LET s == scope[t]
           written(p) == [p EXCEPT !.doc = Blank]
       IN  CASE kind[t] = "editA" ->
                  StoreStep(t, {IF held[t] = "live"
                                THEN [reg EXCEPT !.a[s] = written(@)] ELSE reg})
             [] kind[t] = "editB" ->
                  StoreStep(t, {IF held[t] = "live"
                                THEN [reg EXCEPT !.b[s] = written(@)] ELSE reg})
             [] kind[t] = "duplicate" ->
                  StoreStep(t, {Touch([r EXCEPT !.b[s] = r.a[s]], s) :
                                   r \in {q \in GetStateFrom(reg, s) : q.a[s].doc # Broken}})
             [] kind[t] = "close" ->
                  StoreStep(t, {[reg EXCEPT !.b[s] = None]})
             [] kind[t] = "reset" ->
                  StoreStep(t, Prune(Install(reg, s, Blank, None), s))

\* _htmx_response reads the canonical pair again through get_state, which
\* creates a default scenario when the scope has been pruned meanwhile.  When a
\* panel cannot be read, the answer is an error.
Render(t) ==
    /\ pc[t] = "render"
    /\ Goto(t, "releaseTab")
    /\ StoreStep(t, GetStateFrom(reg, scope[t]))

\* session_data_delete, under the visitor's lock alone.
DeleteData(t) ==
    /\ pc[t] = "delete"
    /\ Goto(t, "releaseVisitor")
    /\ LET v == VisitorOf[scope[t]]
       IN  StoreStep(t, {Forget(reg, {k \in ScopesOf(v) :
                                         reg.a[k] # None \/ reg.b[k] # None})})

-----------------------------------------------------------------------------
(* teardown_request                                                        *)

\* Mutants of ReleaseTab: the visitor's lock goes first; the release is missing.
ReleaseVisitorFirst(t) ==
    /\ pc[t] = "releaseTab"
    /\ owner' = Released(vlock[t])
    /\ held' = [held EXCEPT ![t] = "none"]
    /\ Goto(t, "releaseVisitor")
    /\ UNCHANGED <<reg, now, kind, scope, vlock, slock, lockOf, abandoned>>

ForgetToReleaseTab(t) ==
    /\ pc[t] = "releaseTab"
    /\ held' = [held EXCEPT ![t] = "none"]
    /\ Goto(t, "releaseVisitor")
    /\ UNCHANGED <<reg, now, kind, scope, vlock, slock, lockOf, owner, abandoned>>

\* for lock in (scope_lock, visitor_lock): lock.release()
ReleaseTab(t) ==
    /\ pc[t] = "releaseTab"
    /\ owner' = Released(slock[t])
    /\ held' = [held EXCEPT ![t] = "none"]
    /\ Goto(t, "releaseVisitor")
    /\ UNCHANGED <<reg, now, kind, scope, vlock, slock, lockOf, abandoned>>

ReleaseVisitor(t) ==
    /\ pc[t] = "releaseVisitor"
    /\ owner' = Released(vlock[t])
    /\ Goto(t, "leave")
    /\ UNCHANGED <<reg, now, kind, scope, vlock, slock, lockOf, abandoned, held>>

\* The request context is popped: its references to the lock objects go.
Leave(t) ==
    /\ pc[t] = "leave"
    /\ vlock' = [vlock EXCEPT ![t] = None]
    /\ slock' = [slock EXCEPT ![t] = None]
    /\ lockOf' = Collected(vlock', slock')
    /\ kind' = [kind EXCEPT ![t] = None]
    /\ scope' = [scope EXCEPT ![t] = None]
    /\ Goto(t, "idle")
    /\ UNCHANGED <<reg, now, owner, abandoned, held>>

\* The error that kept an abandoned lock is part of a reference cycle with its
\* traceback, and goes when the garbage collector runs.
CollectAbandoned(l) ==
    /\ l \in abandoned \ Referenced(vlock, slock)
    /\ abandoned' = abandoned \ {l}
    /\ owner' = [owner EXCEPT ![l] = None]
    /\ lockOf' = [key \in LockKey |-> IF lockOf[key] = l THEN None ELSE lockOf[key]]
    /\ UNCHANGED <<reg, now, pc, kind, scope, vlock, slock, held>>

Progress(t) ==
    \/ AcquireVisitor(t) \/ Unread(t) \/ Admit(t) \/ LookupTabLock(t) \/ AcquireTab(t)
    \/ Fetch(t) \/ Act(t) \/ Raise(t) \/ Render(t) \/ DeleteData(t)
    \/ ReleaseTab(t) \/ ReleaseVisitor(t) \/ Leave(t)

RequestNext ==
    \/ Tick /\ UNCHANGED threadVars
    \/ \E l \in Lock : CollectAbandoned(l)
    \/ \E t \in Thread, k \in Kinds, s \in Scope : Begin(t, k, s)
    \/ \E t \in Thread : Progress(t)

RequestSpec == RequestInit /\ [][RequestNext]_requestVars

\* A running thread keeps being scheduled.  Nothing is assumed about who gets
\* a contended lock: threading.RLock promises no order.
FairRequestSpec == RequestSpec /\ \A t \in Thread : WF_requestVars(Progress(t))
-----------------------------------------------------------------------------
(* Properties                                                              *)

Labels == {"idle", "visitorLock", "admit", "lookupTab", "tabLock", "fetch",
           "act", "render", "delete", "releaseTab", "releaseVisitor", "leave"}

RequestTypeOK ==
    /\ TypeOK
    /\ pc \in [Thread -> Labels]
    /\ \A t \in Thread : pc[t] = "idle" <=> vlock[t] = None
    /\ kind \in [Thread -> Kinds \cup {None}]
    /\ scope \in [Thread -> Scope \cup {None}]
    /\ vlock \in [Thread -> Lock \cup {None}]
    /\ slock \in [Thread -> Lock \cup {None}]
    /\ lockOf \in [LockKey -> Lock \cup {None}]
    /\ owner \in [Lock -> Thread \cup {None}]
    /\ abandoned \subseteq Lock
    /\ held \in [Thread -> {"none", "live", "orphan"}]

\* Past the visitor's lock: admitting, handling or deleting.
Inside == {t \in Thread : pc[t] \notin {"idle", "visitorLock", "leave"}}

\* At most one request of a visitor is inside at a time, whatever happens to
\* the lock objects: an object somebody waits for is never replaced in the
\* weak registry by another one.
OneRequestPerVisitor ==
    \A t, u \in Inside :
        VisitorOf[scope[t]] = VisitorOf[scope[u]] => t = u

Slots == INSTANCE VisitorSlots
            WITH inside <- [v \in Visitor |->
                               {t \in Inside : VisitorOf[scope[t]] = v}]

\* Hooks, weak registry and two levels of locks together serve each visitor's
\* requests one after the other: a request comes in only when the one before
\* it is out, by whichever path it left (refused, deleted, answered, failed).
VisitorsServedInTurn == Slots!SlotSpec

\* Since the visitor's lock spans the whole request, the tab's lock is always
\* free when a request comes to it: taking two locks can never block halfway,
\* so there is no order in which two requests wait for each other.
TabLockUncontended ==
    \A t \in Thread : pc[t] = "tabLock" => owner[slock[t]] = None

\* The tab limit holds although it is checked in allow_visitor_scope and the
\* tab is created later, in the handler's get_state.
TabsWithinLimit ==
    \A v \in Visitor : Cardinality(Live(reg) \cap ScopesOf(v)) <= MaxTabs

\* A fetched state leaves the registry under a running request only when the
\* request outlives the TTL or MaxScopes other tabs were used since it last
\* touched its own.  Nothing else, not even deleting the visitor's data, can
\* make a handler write to an orphan.
OrphanOnlyUnderPressure ==
    [][ \A t \in Thread :
          held[t] = "live" /\ held'[t] = "orphan" =>
             \/ TTL > 0 /\ now - reg.seen[scope[t]] > TTL
             \/ Cardinality({k \in Live(reg') \ {scope[t]} :
                               reg'.seen[k] >= reg.seen[scope[t]]}) >= MaxScopes
      ]_requestVars

\* The response of an edit shows the edit, unless its state was orphaned.
EditVisible ==
    \A t \in Thread :
        pc[t] = "releaseTab" /\ kind[t] \in Edits /\ held[t] = "live" =>
            (IF kind[t] = "editB" THEN reg.b[scope[t]]
             ELSE reg.a[scope[t]]).doc = Blank

\* A request that got its visitor's lock is over at some time, and the thread
\* has freed the locks it took on every path of the hook and of the handlers:
\* the refusal, the vanished panel B, the deletion, the error.  On one path it
\* has not: when the body could not be read, the lock stays with the thread,
\* and whoever waits for it, or asks for it before it is collected, from
\* another thread, waits for ever.
InsideLeaves ==
    \A t \in Thread :
        t \in Inside ~> pc[t] = "idle" /\ {l \in Lock : owner[l] = t} \subseteq abandoned
=============================================================================
