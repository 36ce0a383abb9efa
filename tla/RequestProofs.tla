---------------------------- MODULE RequestProofs ----------------------------
(***************************************************************************)
(* Proofs about what works on the planner-state registry: the requests with *)
(* their locks and the chart cache.                                         *)
(*                                                                         *)
(* RequestScope, for any number of threads, tabs and visitors.  The lock    *)
(* registry is weak, so the argument is about references: a lock object     *)
(* that some request still names is the one its key is registered under, no *)
(* object serves two keys, and whoever owns an object is a request that     *)
(* names it, or a thread that abandoned it, which it does to visitors'      *)
(* objects alone.  The content of the store plays no part in that.  Then    *)
(* comes the store: a call of one request touches its own tab alone, so     *)
(* what another visitor's request holds is lost only by pruning, and        *)
(* pruning drops only the idle and the outnumbered.                         *)
(*                                                                         *)
(* ChartCache, for every number of tabs, of cached charts and of revisions. *)
(* The cache is never told what happens to a state, so the argument is      *)
(* about the key: two pairs of panels with the same key have the same       *)
(* revisions, and a tab that stays in the registry never shows something    *)
(* else at revisions it had before.                                         *)
(***************************************************************************)
EXTENDS RequestScope, ChartCache, SessionStoreProofs, SequenceTheorems

TabHeld == {"fetch", "act", "render", "releaseTab"}
NoTab == {"idle", "visitorLock", "admit", "lookupTab", "delete"}

LockTypes ==
    /\ pc \in [Thread -> Labels]
    /\ kind \in [Thread -> AllKinds \cup {None}]
    /\ scope \in [Thread -> Scope \cup {None}]
    /\ vlock \in [Thread -> Lock \cup {None}]
    /\ slock \in [Thread -> Lock \cup {None}]
    /\ lockOf \in [LockKey -> Lock \cup {None}]
    /\ owner \in [Lock -> Thread \cup {None}]
    /\ abandoned \subseteq Lock

\* The request of thread t has the kind that its place in the pipeline implies.
KindAt(t) ==
    /\ pc[t] # "idle" => kind[t] \in AllKinds
    /\ pc[t] \in {"admit", "lookupTab", "tabLock", "fetch", "act"} => kind[t] # "delete"
    /\ pc[t] = "act" => kind[t] # "view"

\* What a request names is what its keys are registered under.
Names(t) ==
    /\ pc[t] = "idle" => vlock[t] = None
    /\ pc[t] # "idle" => /\ scope[t] \in Scope
                         /\ vlock[t] \in Lock
                         /\ lockOf[VisitorOf[scope[t]]] = vlock[t]
    /\ pc[t] \in NoTab => slock[t] = None
    /\ pc[t] \in TabHeld \cup {"tabLock"} => slock[t] \in Lock
    /\ slock[t] # None => lockOf[scope[t]] = slock[t]

\* It owns the visitor's object inside, and the tab's while it handles.
Owns(t) ==
    /\ t \in Inside => owner[vlock[t]] = t
    /\ pc[t] \in TabHeld => owner[slock[t]] = t

\* What keeps an object registered is a request's reference, or the error of one
\* that abandoned it; and each is registered for the key it was made for.
WeakEntries ==
    \A key \in LockKey : lockOf[key] # None =>
        /\ lockOf[key] \in Referenced(vlock, slock) \cup abandoned
        /\ MadeFor[lockOf[key]] = key

\* An abandoned object is still its visitor's.
AbandonedEntries ==
    \A l \in abandoned : MadeFor[l] \in Visitor /\ lockOf[MadeFor[l]] = l

\* An owned object is owned by a request that is past taking it, or abandoned.
OwnedByHolder ==
    \A l \in Lock : owner[l] # None =>
        \/ l \in abandoned
        \/ owner[l] \in Inside /\ l = vlock[owner[l]]
        \/ pc[owner[l]] \in TabHeld /\ l = slock[owner[l]]

LockInv ==
    /\ LockTypes
    /\ \A t \in Thread : KindAt(t)
    /\ \A t \in Thread : Names(t)
    /\ \A t \in Thread : Owns(t)
    /\ WeakEntries
    /\ AbandonedEntries
    /\ OwnedByHolder

-----------------------------------------------------------------------------
\* Where nothing is registered, no object made for the key is in use: None of
\* them is named by a request, and none is abandoned.
LEMMA FreshLock ==
    ASSUME LockInv, NEW key \in LockKey, lockOf[key] = None,
           NEW l \in Lock, MadeFor[l] = key
    PROVE  l \notin Referenced(vlock, slock) \cup abandoned
<1>1. l # None
  BY ThreadAssumption
<1>2. l \notin abandoned
  BY <1>1 DEF LockInv, AbandonedEntries
<1>3. ASSUME NEW u \in Thread, l = vlock[u] PROVE FALSE
  <2>1. scope[u] \in Scope /\ lockOf[VisitorOf[scope[u]]] = l
    BY <1>1, <1>3 DEF LockInv, Names
  <2>2. VisitorOf[scope[u]] \in LockKey
    BY <2>1, ScopeAssumption DEF LockKey
  <2> QED
    BY <1>1, <2>1, <2>2 DEF LockInv, WeakEntries
<1>4. ASSUME NEW u \in Thread, l = slock[u] PROVE FALSE
  <2>1. scope[u] \in Scope /\ lockOf[scope[u]] = l
    BY <1>1, <1>4 DEF LockInv, Names, NoTab
  <2> QED
    BY <1>1, <2>1 DEF LockInv, WeakEntries, LockKey
<1> QED
  BY <1>2, <1>3, <1>4 DEF Referenced

\* get_scope_lock returns the registered object, or one no other key has.
LEMMA LockObjectGood ==
    ASSUME LockInv, NEW key \in LockKey
    PROVE  /\ LockObject(key) \in Lock
           /\ MadeFor[LockObject(key)] = key
           /\ lockOf[key] # None => LockObject(key) = lockOf[key]
<1>1. CASE lockOf[key] # None
  BY <1>1 DEF LockObject, LockInv, WeakEntries, LockTypes
<1>2. CASE lockOf[key] = None
  <2>1. PICK l \in Lock : MadeFor[l] = key
    BY ThreadAssumption DEF LockKey
  <2>2. l \notin Referenced(vlock, slock) \cup abandoned
    BY <1>2, <2>1, FreshLock
  <2> QED
    BY <1>2, <2>1, <2>2 DEF LockObject
<1> QED
  BY <1>1, <1>2

LEMMA KeyTypes ==
    /\ \A s \in Scope : s \in LockKey /\ VisitorOf[s] \in LockKey
    /\ \A s, r \in Scope : s # VisitorOf[r]
BY ScopeAssumption, ThreadAssumption DEF LockKey

\* Requests of one visitor inside are one request.
LEMMA OneInside ==
    ASSUME LockInv
    PROVE  OneRequestPerVisitor
<1> SUFFICES ASSUME NEW t \in Inside, NEW u \in Inside,
                    VisitorOf[scope[t]] = VisitorOf[scope[u]]
             PROVE  t = u
  BY DEF OneRequestPerVisitor
<1>1. t \in Thread /\ u \in Thread /\ pc[t] # "idle" /\ pc[u] # "idle"
  BY DEF Inside
<1>2. Names(t) /\ Names(u) /\ Owns(t) /\ Owns(u)
  BY <1>1 DEF LockInv
<1>3. vlock[t] = vlock[u]
  BY <1>1, <1>2 DEF Names
<1> QED
  BY <1>2, <1>3 DEF Owns

\* The visitor's lock covers the tab's: nobody holds the tab lock that a
\* request is about to take.
LEMMA TabFree ==
    ASSUME LockInv
    PROVE  TabLockUncontended
<1> SUFFICES ASSUME NEW t \in Thread, pc[t] = "tabLock", owner[slock[t]] # None
             PROVE  FALSE
  BY DEF TabLockUncontended
<1> DEFINE u == owner[slock[t]]
<1>1. Names(t) /\ t \in Inside
  BY DEF LockInv, Inside
<1>2. slock[t] \in Lock /\ scope[t] \in Scope /\ lockOf[scope[t]] = slock[t]
  BY <1>1, ThreadAssumption DEF Names
<1>3. u \in Thread
  BY <1>2 DEF LockInv, LockTypes
<1>4. Names(u)
  BY <1>3 DEF LockInv
<1>5. slock[t] # None
  BY <1>2, ThreadAssumption
<1>6. CASE slock[t] \in abandoned
  BY <1>2, <1>5, <1>6, ThreadAssumption
     DEF LockInv, AbandonedEntries, WeakEntries, LockKey
<1>7. CASE u \in Inside /\ slock[t] = vlock[u]
  <2>1. scope[u] \in Scope /\ lockOf[VisitorOf[scope[u]]] = slock[t]
    BY <1>4, <1>7 DEF Names, Inside
  <2> QED
    BY <1>2, <1>5, <2>1, KeyTypes DEF LockInv, WeakEntries
<1>8. CASE pc[u] \in TabHeld /\ slock[t] = slock[u]
  <2>1. u \in Inside /\ scope[u] \in Scope /\ lockOf[scope[u]] = slock[t]
    BY <1>3, <1>4, <1>5, <1>8 DEF Names, Inside, TabHeld
  <2>2. scope[u] = scope[t]
    BY <1>2, <1>5, <2>1, KeyTypes DEF LockInv, WeakEntries
  <2>3. t = u
    BY <1>1, <2>1, <2>2, OneInside DEF OneRequestPerVisitor
  <2> QED
    BY <1>8, <2>3 DEF TabHeld
<1> QED
  BY <1>2, <1>6, <1>7, <1>8 DEF LockInv, OwnedByHolder

-----------------------------------------------------------------------------
(* Every step preserves the invariant                                      *)

\* A step that only moves a request on inside its handler.
LEMMA Moves ==
    ASSUME LockInv, NEW t \in Thread, NEW label \in Labels,
           UNCHANGED <<kind, scope, vlock, slock, lockOf, owner, abandoned>>,
           pc' = [pc EXCEPT ![t] = label],
           \/ /\ pc[t] \in TabHeld
              /\ label \in {"act", "render", "releaseTab"}
              /\ label = "act" => kind[t] \notin {"view", "delete"}
           \/ pc[t] = "delete" /\ label = "releaseVisitor"
    PROVE  LockInv'
<1>1. LockTypes'
  BY DEF LockInv, LockTypes
<1>2. \A u \in Thread : KindAt(u)'
  BY DEF LockInv, LockTypes, KindAt, TabHeld
<1>3. \A u \in Thread : Names(u)'
  BY ThreadAssumption DEF LockInv, LockTypes, Names, TabHeld, NoTab
<1>4. \A u \in Thread : Owns(u)'
  BY DEF LockInv, LockTypes, Owns, Inside, TabHeld
<1>5. WeakEntries'
  BY DEF LockInv, WeakEntries, Referenced
<1>6. AbandonedEntries'
  BY DEF LockInv, AbandonedEntries
<1>7. OwnedByHolder'
  BY DEF LockInv, LockTypes, OwnedByHolder, Inside, TabHeld
<1> QED
  BY <1>1, <1>2, <1>3, <1>4, <1>5, <1>6, <1>7 DEF LockInv

LEMMA BeginGood ==
    ASSUME LockInv, NEW t \in Thread, NEW k \in Kinds, NEW s \in Scope,
           Begin(t, k, s)
    PROVE  LockInv'
<1> DEFINE key == VisitorOf[s]
<1> DEFINE l == LockObject(key)
<1>1. pc[t] = "idle" /\ slock[t] = None /\ vlock[t] = None
  BY DEF LockInv, Names, NoTab, Begin
<1>2. key \in LockKey /\ \A r \in Scope : r # key
  BY KeyTypes
<1>3. /\ l \in Lock
      /\ MadeFor[l] = key
      /\ lockOf[key] # None => l = lockOf[key]
  BY <1>2, LockObjectGood
<1>4. /\ vlock' = [vlock EXCEPT ![t] = l]
      /\ lockOf' = [lockOf EXCEPT ![key] = l]
      /\ kind' = [kind EXCEPT ![t] = k]
      /\ scope' = [scope EXCEPT ![t] = s]
      /\ pc' = [pc EXCEPT ![t] = "visitorLock"]
      /\ UNCHANGED <<slock, owner, abandoned>>
  BY DEF Begin, Goto
<1> HIDE DEF l, key
<1>5. LockTypes'
  BY <1>2, <1>3, <1>4, ThreadAssumption DEF LockInv, LockTypes, Labels
<1>6. \A u \in Thread : KindAt(u)'
  BY <1>4, ThreadAssumption DEF LockInv, LockTypes, KindAt
<1>7. \A u \in Thread : Names(u)'
  <2> SUFFICES ASSUME NEW u \in Thread PROVE Names(u)'
    OBVIOUS
  <2>1. CASE u = t
    BY <1>1, <1>2, <1>3, <1>4, <2>1 DEF LockInv, LockTypes, Names, TabHeld, NoTab, key
  <2>2. CASE u # t
    <3>1. Names(u) /\ scope'[u] = scope[u] /\ vlock'[u] = vlock[u] /\ pc'[u] = pc[u]
      BY <1>4, <2>2 DEF LockInv, LockTypes
    <3>2. pc[u] # "idle" => lockOf'[VisitorOf[scope[u]]] = vlock[u]
      BY <1>2, <1>3, <1>4, <3>1, KeyTypes, ThreadAssumption DEF LockInv, LockTypes, Names
    <3>3. slock[u] # None => scope[u] \in Scope
      BY <3>1 DEF Names, NoTab
    <3>4. slock[u] # None => lockOf'[scope[u]] = slock[u]
      BY <1>2, <1>4, <3>1, <3>3, KeyTypes DEF LockInv, LockTypes, Names
    <3> QED
      BY <1>4, <3>1, <3>2, <3>4 DEF Names
  <2> QED
    BY <2>1, <2>2
<1>8. \A u \in Thread : Owns(u)'
  BY <1>4 DEF LockInv, LockTypes, Owns, Inside, TabHeld
<1>9. WeakEntries'
  <2>1. Referenced(vlock, slock) \ {None} \subseteq Referenced(vlock', slock')
    BY <1>1, <1>4 DEF LockInv, LockTypes, Referenced
  <2>2. l \in Referenced(vlock', slock')
    BY <1>4 DEF LockInv, LockTypes, Referenced
  <2> QED
    BY <1>2, <1>3, <1>4, <2>1, <2>2 DEF LockInv, LockTypes, WeakEntries
<1>10. AbandonedEntries'
  <2> SUFFICES ASSUME NEW m \in abandoned
               PROVE  MadeFor[m] \in Visitor /\ lockOf'[MadeFor[m]] = m
    BY <1>4 DEF AbandonedEntries
  <2>1. m \in Lock /\ m # None /\ MadeFor[m] \in Visitor /\ lockOf[MadeFor[m]] = m
    BY ThreadAssumption DEF LockInv, LockTypes, AbandonedEntries
  <2>2. MadeFor[m] = key => l = m
    BY <1>3, <2>1
  <2> QED
    BY <1>2, <1>4, <2>1, <2>2 DEF LockInv, LockTypes, LockKey
<1>11. OwnedByHolder'
  BY <1>1, <1>4 DEF LockInv, LockTypes, OwnedByHolder, Inside, TabHeld
<1> QED
  BY <1>5, <1>6, <1>7, <1>8, <1>9, <1>10, <1>11 DEF LockInv

LEMMA LookupGood ==
    ASSUME LockInv, NEW t \in Thread, LookupTabLock(t)
    PROVE  LockInv'
<1> DEFINE key == scope[t]
<1> DEFINE l == LockObject(key)
<1>1. pc[t] = "lookupTab" /\ slock[t] = None /\ key \in Scope
  BY DEF LockInv, Names, NoTab, LookupTabLock
<1>2. key \in LockKey /\ \A r \in Scope : VisitorOf[r] # key
  BY <1>1, KeyTypes
<1>3. /\ l \in Lock
      /\ MadeFor[l] = key
      /\ lockOf[key] # None => l = lockOf[key]
  BY <1>2, LockObjectGood
<1>4. /\ slock' = [slock EXCEPT ![t] = l]
      /\ lockOf' = [lockOf EXCEPT ![key] = l]
      /\ pc' = [pc EXCEPT ![t] = "tabLock"]
      /\ UNCHANGED <<kind, scope, vlock, owner, abandoned>>
  BY DEF LookupTabLock, Goto
<1> HIDE DEF l, key
<1>5. LockTypes'
  BY <1>2, <1>3, <1>4 DEF LockInv, LockTypes, Labels
<1>6. \A u \in Thread : KindAt(u)'
  BY <1>1, <1>4 DEF LockInv, LockTypes, KindAt
<1>7. \A u \in Thread : Names(u)'
  <2> SUFFICES ASSUME NEW u \in Thread PROVE Names(u)'
    OBVIOUS
  <2>1. Names(u)
    BY DEF LockInv
  <2>2. pc[u] # "idle" => lockOf'[VisitorOf[scope[u]]] = vlock[u]
    BY <1>2, <1>4, <2>1, KeyTypes DEF LockInv, LockTypes, Names
  <2>3. CASE u = t
    BY <1>1, <1>2, <1>3, <1>4, <2>1, <2>2, <2>3
       DEF LockInv, LockTypes, Names, TabHeld, NoTab, key
  <2>4. CASE u # t
    <3>1. slock[u] # None => scope[u] \in Scope
      BY <2>1 DEF Names, NoTab
    <3>2. slock[u] # None => lockOf'[scope[u]] = slock[u]
      BY <1>2, <1>3, <1>4, <2>1, <3>1, KeyTypes DEF LockInv, LockTypes, Names
    <3> QED
      BY <1>4, <2>1, <2>2, <2>4, <3>2 DEF LockInv, LockTypes, Names
  <2> QED
    BY <2>3, <2>4
<1>8. \A u \in Thread : Owns(u)'
  BY <1>1, <1>4 DEF LockInv, LockTypes, Owns, Inside, TabHeld
<1>9. WeakEntries'
  <2>1. Referenced(vlock, slock) \ {None} \subseteq Referenced(vlock', slock')
    BY <1>1, <1>4 DEF LockInv, LockTypes, Referenced
  <2>2. l \in Referenced(vlock', slock')
    BY <1>4 DEF LockInv, LockTypes, Referenced
  <2> QED
    BY <1>2, <1>3, <1>4, <2>1, <2>2 DEF LockInv, LockTypes, WeakEntries
<1>10. AbandonedEntries'
  <2> SUFFICES ASSUME NEW m \in abandoned
               PROVE  MadeFor[m] \in Visitor /\ lockOf'[MadeFor[m]] = m
    BY <1>4 DEF AbandonedEntries
  <2>1. m \in Lock /\ m # None /\ MadeFor[m] \in Visitor /\ lockOf[MadeFor[m]] = m
    BY ThreadAssumption DEF LockInv, LockTypes, AbandonedEntries
  <2>2. MadeFor[m] = key => l = m
    BY <1>3, <2>1
  <2> QED
    BY <1>2, <1>4, <2>1, <2>2 DEF LockInv, LockTypes, LockKey
<1>11. OwnedByHolder'
  BY <1>1, <1>4 DEF LockInv, LockTypes, OwnedByHolder, Inside, TabHeld
<1> QED
  BY <1>5, <1>6, <1>7, <1>8, <1>9, <1>10, <1>11 DEF LockInv

\* The store's answer changes nothing about locks, whatever it is.
LEMMA HandleGood ==
    ASSUME LockInv, NEW t \in Thread,
           Fetch(t) \/ Act(t) \/ Raise(t) \/ Render(t) \/ DeleteData(t)
    PROVE  LockInv'
<1>1. LockTypes /\ KindAt(t)
  BY DEF LockInv
<1>2. CASE Fetch(t)
  <2>1. pc[t] = "fetch" /\ UNCHANGED <<kind, scope, vlock, slock, lockOf, owner, abandoned>>
    BY <1>2 DEF Fetch
  <2>2. PICK label \in {"act", "render", "releaseTab"} :
           /\ pc' = [pc EXCEPT ![t] = label]
           /\ label = "act" => kind[t] # "view"
    BY <1>2 DEF Fetch, Goto
  <2>3. kind[t] # "delete"
    BY <1>1, <2>1 DEF KindAt
  <2> QED
    BY <2>1, <2>2, <2>3, Moves DEF TabHeld, Labels
<1>3. CASE Act(t)
  <2>1. pc[t] = "act" /\ pc' = [pc EXCEPT ![t] = "render"]
    BY <1>3 DEF Act, Goto
  <2>2. kind[t] \in {"editA", "editB", "duplicate", "close", "reset"}
    BY <1>1, <2>1 DEF KindAt, AllKinds
  <2>3. UNCHANGED <<kind, scope, vlock, slock, lockOf, owner, abandoned>>
    BY <1>3, <2>2 DEF Act, StoreStep
  <2> QED
    BY <2>1, <2>3, Moves DEF TabHeld, Labels
<1>4. CASE Render(t)
  <2>1. /\ pc[t] = "render" /\ pc' = [pc EXCEPT ![t] = "releaseTab"]
        /\ UNCHANGED <<kind, scope, vlock, slock, lockOf, owner, abandoned>>
    BY <1>4 DEF Render, Goto, StoreStep
  <2> QED
    BY <2>1, Moves DEF TabHeld, Labels
<1>5. CASE DeleteData(t)
  <2>1. /\ pc[t] = "delete" /\ pc' = [pc EXCEPT ![t] = "releaseVisitor"]
        /\ UNCHANGED <<kind, scope, vlock, slock, lockOf, owner, abandoned>>
    BY <1>5 DEF DeleteData, Goto, StoreStep
  <2> QED
    BY <2>1, Moves DEF Labels
<1>6. CASE Raise(t)
  <2>1. /\ pc[t] \in {"fetch", "act"} /\ pc' = [pc EXCEPT ![t] = "releaseTab"]
        /\ UNCHANGED <<kind, scope, vlock, slock, lockOf, owner, abandoned>>
    BY <1>6 DEF Raise, Goto
  <2> QED
    BY <2>1, Moves DEF TabHeld, Labels
<1> QED
  BY <1>2, <1>3, <1>4, <1>5, <1>6

\* The weak registry forgets only what no other request names.
LEMMA LeaveGood ==
    ASSUME LockInv, NEW t \in Thread, Leave(t)
    PROVE  LockInv'
<1>1. /\ pc[t] = "leave"
      /\ vlock' = [vlock EXCEPT ![t] = None]
      /\ slock' = [slock EXCEPT ![t] = None]
      /\ lockOf' = Collected(vlock', slock')
      /\ kind' = [kind EXCEPT ![t] = None]
      /\ scope' = [scope EXCEPT ![t] = None]
      /\ pc' = [pc EXCEPT ![t] = "idle"]
      /\ owner' = owner /\ abandoned' = abandoned
  BY DEF Leave, Goto
<1>2. \A key \in LockKey :
         /\ lockOf'[key] \in {lockOf[key], None}
         /\ lockOf[key] \in Referenced(vlock', slock') \cup abandoned => lockOf'[key] = lockOf[key]
         /\ lockOf'[key] # None => lockOf'[key] \in Referenced(vlock', slock') \cup abandoned
  BY <1>1 DEF Collected
<1>3. LockTypes'
  BY <1>1, <1>2 DEF LockInv, LockTypes, Labels, Collected
<1>4. \A u \in Thread : KindAt(u)'
  BY <1>1 DEF LockInv, LockTypes, KindAt
<1>5. \A u \in Thread : Names(u)'
  <2> SUFFICES ASSUME NEW u \in Thread PROVE Names(u)'
    OBVIOUS
  <2>1. Names(u)
    BY DEF LockInv
  <2>2. CASE u = t
    BY <1>1, <2>2 DEF LockInv, LockTypes, Names, TabHeld, NoTab
  <2>3. CASE u # t
    <3>1. /\ scope'[u] = scope[u] /\ vlock'[u] = vlock[u]
          /\ slock'[u] = slock[u] /\ pc'[u] = pc[u]
      BY <1>1, <2>3 DEF LockInv, LockTypes
    <3>2. {vlock[u], slock[u]} \subseteq Referenced(vlock', slock')
      BY <3>1 DEF Referenced
    <3>3. pc[u] # "idle" => lockOf'[VisitorOf[scope[u]]] = vlock[u]
      BY <1>2, <2>1, <3>2, KeyTypes DEF Names
    <3>4. slock[u] # None => scope[u] \in Scope
      BY <2>1 DEF Names, NoTab
    <3>5. slock[u] # None => lockOf'[scope[u]] = slock[u]
      BY <1>2, <2>1, <3>2, <3>4, KeyTypes DEF Names
    <3> QED
      BY <2>1, <3>1, <3>3, <3>5 DEF Names
  <2> QED
    BY <2>2, <2>3
<1>6. \A u \in Thread : Owns(u)'
  BY <1>1 DEF LockInv, LockTypes, Owns, Inside, TabHeld
<1>7. WeakEntries'
  BY <1>1, <1>2 DEF LockInv, WeakEntries
<1>8. AbandonedEntries'
  <2>1. \A m \in abandoned : MadeFor[m] \in LockKey /\ lockOf[MadeFor[m]] = m
    BY DEF LockInv, AbandonedEntries, LockKey
  <2> QED
    BY <1>1, <1>2, <2>1 DEF LockInv, AbandonedEntries
<1>9. OwnedByHolder'
  BY <1>1, ThreadAssumption DEF LockInv, LockTypes, OwnedByHolder, Inside, TabHeld
<1> QED
  BY <1>3, <1>4, <1>5, <1>6, <1>7, <1>8, <1>9 DEF LockInv

\* The visitor's object was free, or the thread's own: nobody loses it.
LEMMA AcquireVisitorGood ==
    ASSUME LockInv, NEW t \in Thread, AcquireVisitor(t)
    PROVE  LockInv'
BY ThreadAssumption, ScopeAssumption, KeyTypes, SMTT(30)
   DEF LockInv, LockTypes, KindAt, Names, Owns, WeakEntries, AbandonedEntries, OwnedByHolder,
       Referenced, LockKey, Inside, Goto, Labels, AllKinds, TabHeld, NoTab, AcquireVisitor

\* A refused request gives its object back and is out.
LEMMA AdmitGood ==
    ASSUME LockInv, NEW t \in Thread, Admit(t)
    PROVE  LockInv'
BY ThreadAssumption, ScopeAssumption, KeyTypes, SMTT(30)
   DEF LockInv, LockTypes, KindAt, Names, Owns, WeakEntries, AbandonedEntries, OwnedByHolder,
       Referenced, LockKey, Inside, Goto, Labels, AllKinds, TabHeld, NoTab, Admit, Released

\* The tab's object was free.
LEMMA AcquireTabGood ==
    ASSUME LockInv, NEW t \in Thread, AcquireTab(t)
    PROVE  LockInv'
BY ThreadAssumption, ScopeAssumption, KeyTypes, SMTT(30)
   DEF LockInv, LockTypes, KindAt, Names, Owns, WeakEntries, AbandonedEntries, OwnedByHolder,
       Referenced, LockKey, Inside, Goto, Labels, AllKinds, TabHeld, NoTab, AcquireTab

\* A tab's object is nobody's visitor object, so the visitor's lock stays taken.
LEMMA ReleaseTabGood ==
    ASSUME LockInv, NEW t \in Thread, ReleaseTab(t)
    PROVE  LockInv'
BY ThreadAssumption, ScopeAssumption, KeyTypes, SMTT(30)
   DEF LockInv, LockTypes, KindAt, Names, Owns, WeakEntries, AbandonedEntries, OwnedByHolder,
       Referenced, LockKey, Inside, Goto, Labels, AllKinds, TabHeld, NoTab, ReleaseTab, Released

\* The tab's object is free already.
LEMMA ReleaseVisitorGood ==
    ASSUME LockInv, NEW t \in Thread, ReleaseVisitor(t)
    PROVE  LockInv'
BY ThreadAssumption, ScopeAssumption, KeyTypes, SMTT(30)
   DEF LockInv, LockTypes, KindAt, Names, Owns, WeakEntries, AbandonedEntries, OwnedByHolder,
       Referenced, LockKey, Inside, Goto, Labels, AllKinds, TabHeld, NoTab, ReleaseVisitor, Released

\* The body could not be read: the request goes, its object stays with its thread.
LEMMA UnreadGood ==
    ASSUME LockInv, NEW t \in Thread, Unread(t)
    PROVE  LockInv'
BY ThreadAssumption, ScopeAssumption, KeyTypes, SMTT(30)
   DEF LockInv, LockTypes, KindAt, Names, Owns, WeakEntries, AbandonedEntries, OwnedByHolder,
       Referenced, LockKey, Inside, Goto, Labels, AllKinds, TabHeld, NoTab, Unread

\* An object nobody names goes for good.
LEMMA CollectGood ==
    ASSUME LockInv, NEW l \in Lock, CollectAbandoned(l)
    PROVE  LockInv'
BY ThreadAssumption, ScopeAssumption, KeyTypes, SMTT(30)
   DEF LockInv, LockTypes, KindAt, Names, Owns, WeakEntries, AbandonedEntries, OwnedByHolder,
       Referenced, LockKey, Inside, Labels, AllKinds, TabHeld, NoTab, CollectAbandoned

LEMMA LocksInitGood == RequestInit => LockInv
<1> SUFFICES ASSUME RequestInit PROVE LockInv
  OBVIOUS
<1>1. LockTypes
  BY DEF RequestInit, LockTypes, Labels
<1>2. \A t \in Thread : KindAt(t) /\ Names(t)
  BY DEF RequestInit, KindAt, Names, TabHeld
<1>3. (\A t \in Thread : Owns(t)) /\ WeakEntries /\ AbandonedEntries /\ OwnedByHolder
  BY DEF RequestInit, Owns, WeakEntries, AbandonedEntries, OwnedByHolder, Inside, TabHeld
<1> QED
  BY <1>1, <1>2, <1>3 DEF LockInv

LEMMA StutterGood ==
    ASSUME LockInv, UNCHANGED threadVars
    PROVE  LockInv'
BY DEF LockInv, LockTypes, KindAt, Names, Owns, WeakEntries, AbandonedEntries, OwnedByHolder,
       Referenced, Inside, threadVars

LEMMA LocksStepGood == LockInv /\ [RequestNext]_requestVars => LockInv'
<1> SUFFICES ASSUME LockInv, [RequestNext]_requestVars PROVE LockInv'
  OBVIOUS
<1>1. CASE UNCHANGED requestVars \/ (Tick /\ UNCHANGED threadVars)
  BY <1>1, StutterGood DEF requestVars
<1>2. ASSUME NEW t \in Thread, NEW k \in Kinds, NEW s \in Scope, Begin(t, k, s)
      PROVE  LockInv'
  BY <1>2, BeginGood
<1>3. ASSUME NEW t \in Thread, Progress(t)
      PROVE  LockInv'
  BY <1>3, AcquireVisitorGood, UnreadGood, AdmitGood, LookupGood, AcquireTabGood, HandleGood,
     ReleaseTabGood, ReleaseVisitorGood, LeaveGood DEF Progress
<1>4. ASSUME NEW l \in Lock, CollectAbandoned(l)
      PROVE  LockInv'
  BY <1>4, CollectGood
<1> QED
  BY <1>1, <1>2, <1>3, <1>4 DEF RequestNext

\* The references invariant, for every number of threads and of lock objects (one
\* per visitor and tab at least), every set of tabs and every mix of requests.
THEOREM LocksFollowReferences == RequestSpec => []LockInv
BY LocksInitGood, LocksStepGood, PTL DEF RequestSpec

\* A request never waits for its tab's lock: it has the visitor's already, and
\* so no two requests can wait for each other.
THEOREM NeverWaitsForTab == RequestSpec => []TabLockUncontended
<1>1. LockInv => TabLockUncontended
  BY TabFree
<1> QED
  BY <1>1, LocksFollowReferences, PTL

\* At most one request of a visitor is past the visitor's lock.
THEOREM OneAtATime == RequestSpec => []OneRequestPerVisitor
<1>1. LockInv => OneRequestPerVisitor
  BY OneInside
<1> QED
  BY <1>1, LocksFollowReferences, PTL

-----------------------------------------------------------------------------
(* RequestScope implements VisitorSlots                                    *)

\* The refinement mapping of Slots.
SlotMap == [v \in Visitor |-> {t \in Inside : VisitorOf[scope[t]] = v}]

\* The requests inside, and where they come from, decide the slots.
LEMMA SameSlots ==
    ASSUME Inside' = Inside, \A t \in Inside : scope'[t] = scope[t]
    PROVE  SlotMap' = SlotMap
BY DEF SlotMap

\* The free lock object of a visitor means an empty slot.
LEMMA AcquireEnters ==
    ASSUME LockInv, NEW t \in Thread, AcquireVisitor(t)
    PROVE  \E v \in Visitor : Slots!Enter(v, t)
<1> DEFINE v == VisitorOf[scope[t]]
<1>1. /\ pc[t] = "visitorLock" /\ t \notin Inside
      /\ Inside' = Inside \cup {t} /\ scope' = scope
      /\ owner[vlock[t]] \in {None, t}
  BY DEF AcquireVisitor, Goto, Inside, LockInv, LockTypes
<1>2. Names(t) /\ v \in Visitor
  BY <1>1, ScopeAssumption DEF LockInv, Names
<1>3. SlotMap[v] = {}
  <2> SUFFICES ASSUME NEW u \in Inside, VisitorOf[scope[u]] = v PROVE FALSE
    BY <1>2 DEF SlotMap
  <2>1. u \in Thread /\ pc[u] # "idle"
    BY DEF Inside
  <2>2. vlock[u] = vlock[t]
    BY <1>1, <1>2, <2>1 DEF LockInv, Names
  <2> QED
    BY <1>1, <2>1, <2>2, ThreadAssumption DEF LockInv, Owns
<1>4. \A w \in Visitor : t \notin SlotMap[w]
  BY <1>1 DEF SlotMap
<1>5. SlotMap' = [SlotMap EXCEPT ![v] = {t}]
  BY <1>1, <1>2, <1>3 DEF SlotMap
<1> QED
  BY <1>2, <1>3, <1>4, <1>5 DEF Slots!Enter, SlotMap

\* A request that goes outside leaves its slot.
LEMMA LeavingExits ==
    ASSUME LockInv, NEW t \in Inside, Inside' = Inside \ {t}, scope' = scope
    PROVE  \E v \in Visitor : Slots!Exit(v, t)
<1> DEFINE v == VisitorOf[scope[t]]
<1>1. v \in Visitor
  BY ScopeAssumption DEF LockInv, Names, Inside
<1>2. t \in SlotMap[v] /\ SlotMap' = [SlotMap EXCEPT ![v] = @ \ {t}]
  BY <1>1 DEF SlotMap
<1> QED
  BY <1>1, <1>2 DEF Slots!Exit, SlotMap

LEMMA StepRefines ==
    LockInv /\ [RequestNext]_requestVars => Slots!SlotNext \/ SlotMap' = SlotMap
<1> SUFFICES ASSUME LockInv, [RequestNext]_requestVars
             PROVE  Slots!SlotNext \/ SlotMap' = SlotMap
  OBVIOUS
<1>1. CASE UNCHANGED requestVars \/ (Tick /\ UNCHANGED threadVars)
  BY <1>1 DEF requestVars, threadVars, SlotMap, Inside
<1>2. ASSUME NEW t \in Thread, NEW k \in Kinds, NEW s \in Scope, Begin(t, k, s)
      PROVE  SlotMap' = SlotMap
  <2>1. /\ pc[t] = "idle" /\ pc' = [pc EXCEPT ![t] = "visitorLock"]
        /\ scope' = [scope EXCEPT ![t] = s]
    BY <1>2 DEF Begin, Goto
  <2>2. Inside' = Inside /\ \A u \in Inside : scope'[u] = scope[u]
    BY <2>1 DEF Inside, LockInv, LockTypes
  <2> QED
    BY <2>2, SameSlots
<1>3. ASSUME NEW t \in Thread, AcquireVisitor(t)
      PROVE  Slots!SlotNext
  BY <1>3, AcquireEnters DEF Slots!SlotNext
<1>4. ASSUME NEW t \in Thread, Admit(t) \/ Unread(t)
      PROVE  Slots!SlotNext \/ SlotMap' = SlotMap
  <2>1. t \in Inside /\ scope' = scope
    BY <1>4 DEF Admit, Unread, Inside
  <2>2. \/ pc' = [pc EXCEPT ![t] = "lookupTab"]
        \/ pc' = [pc EXCEPT ![t] = "leave"]
    BY <1>4 DEF Admit, Unread, Goto
  <2>3. Inside' = Inside \/ Inside' = Inside \ {t}
    BY <2>1, <2>2 DEF Inside, LockInv, LockTypes
  <2> QED
    BY <2>1, <2>3, SameSlots, LeavingExits DEF Slots!SlotNext, Inside
<1>5. ASSUME NEW t \in Thread,
             LookupTabLock(t) \/ AcquireTab(t) \/ ReleaseTab(t)
      PROVE  SlotMap' = SlotMap
  <2>1. scope' = scope /\ pc[t] \in {"lookupTab", "tabLock", "releaseTab"}
    BY <1>5 DEF LookupTabLock, AcquireTab, ReleaseTab
  <2>2. \E label \in {"tabLock", "fetch", "act", "releaseVisitor"} :
           pc' = [pc EXCEPT ![t] = label]
    BY <1>5 DEF LookupTabLock, AcquireTab, ReleaseTab, Goto
  <2>3. Inside' = Inside
    BY <2>1, <2>2 DEF Inside, LockInv, LockTypes
  <2> QED
    BY <2>1, <2>3, SameSlots
<1>6. ASSUME NEW t \in Thread,
             Fetch(t) \/ Act(t) \/ Raise(t) \/ Render(t) \/ DeleteData(t)
      PROVE  SlotMap' = SlotMap
  <2>1. pc[t] \in {"fetch", "act", "render", "delete"}
    BY <1>6 DEF Fetch, Act, Raise, Render, DeleteData
  <2>2. pc[t] = "act" => kind[t] \in {"editA", "editB", "duplicate", "close", "reset"}
    BY DEF LockInv, KindAt, AllKinds
  <2>3. scope' = scope
    BY <1>6, <2>1, <2>2 DEF Fetch, Act, Raise, Render, DeleteData, StoreStep
  <2>4. \E label \in {"act", "render", "releaseTab", "releaseVisitor"} :
           pc' = [pc EXCEPT ![t] = label]
    BY <1>6 DEF Fetch, Act, Raise, Render, DeleteData, Goto
  <2>5. Inside' = Inside
    BY <2>1, <2>4 DEF Inside, LockInv, LockTypes
  <2> QED
    BY <2>3, <2>5, SameSlots
<1>7. ASSUME NEW t \in Thread, ReleaseVisitor(t)
      PROVE  Slots!SlotNext
  <2>1. t \in Inside /\ Inside' = Inside \ {t} /\ scope' = scope
    BY <1>7 DEF ReleaseVisitor, Goto, Inside, LockInv, LockTypes
  <2> QED
    BY <2>1, LeavingExits DEF Slots!SlotNext
<1>8. ASSUME NEW t \in Thread, Leave(t)
      PROVE  SlotMap' = SlotMap
  <2>1. /\ pc[t] = "leave" /\ pc' = [pc EXCEPT ![t] = "idle"]
        /\ scope' = [scope EXCEPT ![t] = None]
    BY <1>8 DEF Leave, Goto
  <2>2. Inside' = Inside /\ \A u \in Inside : scope'[u] = scope[u]
    BY <2>1 DEF Inside, LockInv, LockTypes
  <2> QED
    BY <2>2, SameSlots
<1>9. ASSUME NEW l \in Lock, CollectAbandoned(l)
      PROVE  SlotMap' = SlotMap
  BY <1>9 DEF CollectAbandoned, SlotMap, Inside
<1> QED
  BY <1>1, <1>2, <1>3, <1>4, <1>5, <1>6, <1>7, <1>8, <1>9 DEF RequestNext, Progress

\* The hooks, their two levels of locks and the weak registry implement one
\* slot per visitor: its requests are served one after the other.
THEOREM ServedInTurn == RequestSpec => VisitorsServedInTurn
<1>1. RequestInit => Slots!SlotInit
  BY DEF RequestInit, Slots!SlotInit, Inside
<1>2. LockInv /\ [RequestNext]_requestVars => [Slots!SlotNext]_SlotMap
  BY StepRefines
<1>3. SlotMap = [v \in Visitor |-> {t \in Inside : VisitorOf[scope[t]] = v}]
  BY DEF SlotMap
<1> QED
  BY <1>1, <1>2, <1>3, LocksFollowReferences, PTL
     DEF RequestSpec, VisitorsServedInTurn, Slots!SlotSpec, SlotMap

-----------------------------------------------------------------------------
(* What the requests do to the store                                       *)

\* The panels of scope k say in q what they say in r; revisions may differ.
SameDocs(r, q, k) ==
    /\ q.a[k] = None <=> r.a[k] = None
    /\ q.b[k] = None <=> r.b[k] = None
    /\ r.a[k] # None => q.a[k].doc = r.a[k].doc
    /\ r.b[k] # None => q.b[k].doc = r.b[k].doc

\* As many scopes as fit were used since scope k was.
Outnumbered(k) ==
    Cardinality({j \in Live(reg') : reg'.seen[j] >= reg.seen[k]}) >= MaxScopes

\* A step of a request from tab s on the registry: it creates or touches s
\* and no other, and drops, but for the scopes in gone, only the idle and the
\* outnumbered.
Call(s, gone) ==
    /\ Good(reg') /\ Cardinality(Live(reg')) <= MaxScopes
    /\ \A k \in Live(reg') :
          \/ k \in Live(reg) /\ reg'.seen[k] = reg.seen[k]
          \/ k = s /\ reg'.seen[k] = now
    /\ \A k \in Live(reg') \ {s} : SameDocs(reg, reg', k)
    /\ \A k \in Live(reg) \ Live(reg') : k \in gone \/ Idle(reg, k) \/ Outnumbered(k)

\* What the caller had in its own tab it keeps.
Kept(s) == s \in Live(reg) => s \in Live(reg') /\ SameDocs(reg, reg', s)

StoreGood == IInv /\ \A k \in Live(reg) : reg.seen[k] <= now

LEMMA FlatGood ==
    ASSUME NEW r, Good(r)
    PROVE  /\ Good(Flat(r))
           /\ Live(Flat(r)) = Live(r) /\ Flat(r).seen = r.seen
           /\ \A k \in Scope : SameDocs(r, Flat(r), k)
<1> DEFINE zero(p) == IF p = None THEN None ELSE [p EXCEPT !.rev = 0]
           f == Flat(r)
<1>1. r \in Registry /\ Coherent(r) /\ IsFiniteSet(Live(r))
  BY DEF Good
<1>2. \A p \in PlannerState \cup {None} :
         /\ zero(p) \in PlannerState \cup {None}
         /\ zero(p) = None <=> p = None
         /\ p # None => zero(p).doc = p.doc
  BY NoneAssumption DEF PlannerState
<1>3. f = [r EXCEPT !.a = [k \in Scope |-> zero(r.a[k])],
                    !.b = [k \in Scope |-> zero(r.b[k])]]
  BY DEF Flat
<1> DEFINE A == [k \in Scope |-> zero(r.a[k])]
           B == [k \in Scope |-> zero(r.b[k])]
<1>8. A \in [Scope -> PlannerState \cup {None}] /\ B \in [Scope -> PlannerState \cup {None}]
  <2> HIDE DEF zero
  <2> QED
    BY <1>1, <1>2 DEF Registry
<1>4. /\ f.a = A /\ f.b = B
      /\ f.seen = r.seen
      /\ f \in Registry
  <2>1. f = [r EXCEPT !.a = A, !.b = B]
    BY <1>3
  <2> HIDE DEF f, A, B
  <2> QED
    BY <1>1, <1>8, <2>1 DEF Registry
<1> HIDE DEF f, zero
<1>5. \A k \in Scope : SameDocs(r, f, k)
  BY <1>1, <1>2, <1>4 DEF SameDocs, Registry
<1>6. Live(f) = Live(r) /\ Seen(f) = Seen(r)
  BY <1>4, <1>5 DEF Live, Seen, SameDocs
<1>7. Good(f)
  BY <1>1, <1>4, <1>5, <1>6 DEF Good, Coherent, SameDocs
<1> QED
  BY <1>4, <1>5, <1>6, <1>7 DEF f

\* What is evicted in order is outnumbered by what stays.
LEMMA EvictedAreOutnumbered ==
    ASSUME StoreGood, NEW s \in Scope, EvictionStep,
           \A k \in Live(reg') :
              \/ k \in Live(reg) /\ reg'.seen[k] = reg.seen[k]
              \/ k = s /\ reg'.seen[k] = now
    PROVE  \A k \in Live(reg) \ Live(reg') : Idle(reg, k) \/ Outnumbered(k)
<1>1. \A k \in Live(reg) : reg.seen[k] \in Nat /\ reg.seen[k] <= now
  BY SeenIsNat DEF StoreGood, IInv
<1>2. now \in Nat /\ MaxScopes \in Nat
  BY LimitAssumption DEF StoreGood, IInv
<1> SUFFICES ASSUME NEW k \in Live(reg) \ Live(reg'), ~Idle(reg, k)
             PROVE  Outnumbered(k)
  OBVIOUS
<1>3. PICK caller \in Live(reg') :
         /\ Cardinality(Live(reg')) = MaxScopes
         /\ reg'.seen[caller] = now
         /\ \A j \in (Live(reg') \cap Live(reg)) \ {caller} : reg.seen[j] >= reg.seen[k]
  BY DEF EvictionStep
<1>4. \A j \in Live(reg') : reg'.seen[j] >= reg.seen[k]
  BY <1>1, <1>2, <1>3
<1>5. {j \in Live(reg') : reg'.seen[j] >= reg.seen[k]} = Live(reg')
  BY <1>4
<1> QED
  BY <1>2, <1>3, <1>5 DEF Outnumbered

\* get_state touches its scope, and no other.
LEMMA GetStateSeen ==
    ASSUME IInv, NEW s \in Scope, NEW q \in GetStateFrom(reg, s)
    PROVE  \A k \in Live(q) : \/ k \in Live(reg) /\ q.seen[k] = reg.seen[k]
                              \/ k = s /\ q.seen[k] = now
<1>1. PICK p \in Prune(reg, s) : q \in Prune(Touch(Create(p, s), s), s)
  BY DEF GetStateFrom
<1>2. Good(reg) /\ now \in Nat
  BY DEF IInv
<1>3. Good(p) /\ Live(p) \subseteq Live(reg) /\ \A k \in Live(p) : p.seen[k] = reg.seen[k]
  BY <1>2, PruneBounds, PruneVictims
<1> DEFINE c == Touch(Create(p, s), s)
<1>4. Good(c) /\ Live(c) = Live(p) \cup {s}
  BY <1>2, <1>3, CreateTouchGood
<1>5. c.seen = [p.seen EXCEPT ![s] = now]
  BY <1>3 DEF Create, Touch, Good, Registry
<1>6. c.seen[s] = now /\ \A k \in Live(c) : k # s => c.seen[k] = reg.seen[k]
  BY <1>3, <1>4, <1>5 DEF Good, Registry
<1>7. q \in Prune(c, s)
  BY <1>1
<1> HIDE DEF c
<1>8. Live(q) \subseteq Live(c) /\ \A k \in Live(q) : q.seen[k] = c.seen[k]
  BY <1>4, <1>7, PruneBounds, PruneVictims
<1> QED
  BY <1>3, <1>4, <1>6, <1>8

LEMMA GetStateTouches ==
    ASSUME IInv, NEW s \in Scope, NEW q \in GetStateFrom(reg, s)
    PROVE  q.seen[s] = now
<1>1. PICK p \in Prune(reg, s) : q \in Prune(Touch(Create(p, s), s), s)
  BY DEF GetStateFrom
<1>2. Good(reg) /\ now \in Nat
  BY DEF IInv
<1>3. Good(p)
  BY <1>2, PruneBounds
<1> DEFINE c == Touch(Create(p, s), s)
<1>4. Good(c) /\ s \in Live(c)
  BY <1>2, <1>3, CreateTouchGood
<1>5. c.seen = [p.seen EXCEPT ![s] = now]
  BY <1>3 DEF Create, Touch, Good, Registry
<1>6. c.seen[s] = now
  BY <1>3, <1>5 DEF Good, Registry
<1>7. q \in Prune(c, s)
  BY <1>1
<1> HIDE DEF c
<1> QED
  BY <1>4, <1>6, <1>7, PruneBounds, PruneVictims

\* get_state, whatever is then written to the caller's own panels.
LEMMA GetStateCall ==
    ASSUME StoreGood, NEW s \in Scope, NEW q \in GetStateFrom(reg, s),
           Good(reg'), Live(reg') = Live(q),
           \A k \in Live(q) : reg'.seen[k] = q.seen[k],
           \A k \in Live(q) \ {s} : SameDocs(q, reg', k)
    PROVE  /\ Call(s, {}) /\ s \in Live(reg')
           /\ SameDocs(q, reg', s) => Kept(s)
<1>1. IInv /\ Good(reg) /\ now \in Nat
  BY DEF StoreGood, IInv
<1>2. /\ Good(q) /\ Cardinality(Live(q)) <= MaxScopes
      /\ s \in Live(q)
      /\ Live(q) \subseteq Live(reg) \cup {s}
      /\ \A k \in Live(reg) \cap Live(q) : q.a[k] = reg.a[k] /\ q.b[k] = reg.b[k]
  BY <1>1, GetStateBounds
<1>3. \A k \in Live(q) : \/ k \in Live(reg) /\ q.seen[k] = reg.seen[k]
                         \/ k = s /\ q.seen[k] = now
  BY <1>1, GetStateSeen
<1>4. reg'.seen[s] = now
  BY <1>1, <1>2, GetStateTouches
<1>5. EvictionStep
  BY <1>1, <1>4, GetStateVictims
<1>6. \A k \in Live(reg') :
         \/ k \in Live(reg) /\ reg'.seen[k] = reg.seen[k]
         \/ k = s /\ reg'.seen[k] = now
  BY <1>3
<1>7. \A k \in Live(reg) \ Live(reg') : Idle(reg, k) \/ Outnumbered(k)
  BY <1>5, <1>6, EvictedAreOutnumbered
<1>8. \A k \in Live(reg') \ {s} : SameDocs(reg, reg', k)
  BY <1>2 DEF SameDocs
<1>9. SameDocs(q, reg', s) => Kept(s)
  BY <1>2 DEF SameDocs, Kept
<1> QED
  BY <1>2, <1>6, <1>7, <1>8, <1>9 DEF Call

\* The pruning of allow_visitor_scope: nobody is evicted for want of room.
LEMMA PruneCall ==
    ASSUME StoreGood, NEW s \in Scope, reg' \in Prune(reg, s)
    PROVE  Call(s, {}) /\ Kept(s) /\ Live(reg') \subseteq Live(reg)
<1>1. Good(reg) /\ Cardinality(Live(reg)) <= MaxScopes
  BY DEF StoreGood, IInv
<1>2. /\ Good(reg') /\ Cardinality(Live(reg')) <= MaxScopes
      /\ Live(reg') \subseteq Live(reg)
      /\ s \in Live(reg) => s \in Live(reg')
      /\ \A k \in Live(reg') : reg'.a[k] = reg.a[k] /\ reg'.b[k] = reg.b[k]
  BY <1>1, PruneBounds
<1>3. /\ \A k \in Live(reg') : reg'.seen[k] = reg.seen[k]
      /\ \A k \in Live(reg) \ Live(reg') : Idle(reg, k)
  BY <1>1, PruneVictims
<1> QED
  BY <1>2, <1>3 DEF Call, Kept, SameDocs

\* A write to the caller's own entries that keeps the tab.
LEMMA OwnWrite ==
    ASSUME StoreGood, NEW s \in Scope, Good(reg'), Live(reg') = Live(reg),
           \A k \in Live(reg) : reg'.seen[k] = reg.seen[k] \/ (k = s /\ reg'.seen[k] = now),
           \A k \in Live(reg) \ {s} : SameDocs(reg, reg', k)
    PROVE  Call(s, {})
BY DEF Call, StoreGood, IInv

LEMMA NoCall ==
    ASSUME StoreGood, NEW s \in Scope, reg' = reg
    PROVE  Call(s, {}) /\ Kept(s)
<1>1. \A k \in Scope : SameDocs(reg, reg', k)
  BY DEF SameDocs
<1>2. Live(reg) \subseteq Scope
  BY DEF Live
<1> QED
  BY <1>1, <1>2, OwnWrite DEF StoreGood, IInv, Kept

\* get_compare_state.
LEMMA TouchCall ==
    ASSUME StoreGood, NEW s \in Live(reg), reg' \in {Touch(reg, s), Flat(Touch(reg, s))}
    PROVE  /\ Call(s, {}) /\ Kept(s)
<1> DEFINE r == Touch(reg, s)
<1>1. Good(reg) /\ now \in Nat /\ s \in Scope /\ Live(reg) \subseteq Scope
  BY DEF StoreGood, IInv, Live
<1>2. /\ r \in Registry /\ r.a = reg.a /\ r.b = reg.b
      /\ r.seen = [reg.seen EXCEPT ![s] = now]
  BY <1>1 DEF Touch, Good, Registry
<1>3. reg' = r \/ reg' = Flat(r)
  OBVIOUS
<1> HIDE DEF r
<1>4. Live(r) = Live(reg) /\ \A k \in Scope : SameDocs(reg, r, k)
  BY <1>2 DEF Live, SameDocs
<1>5. Seen(r) = Seen(reg)
  BY <1>1, <1>2, NoneAssumption DEF Seen, Good, Coherent, Registry
<1>6. Good(r)
  BY <1>1, <1>2, <1>4, <1>5 DEF Good, Coherent
<1>7. \A k \in Live(reg) : r.seen[k] = reg.seen[k] \/ (k = s /\ r.seen[k] = now)
  BY <1>1, <1>2 DEF Good, Registry
<1>8. /\ Good(reg') /\ Live(reg') = Live(r) /\ reg'.seen = r.seen
      /\ \A k \in Scope : SameDocs(r, reg', k)
  <2>1. \A k \in Scope : SameDocs(r, r, k)
    BY DEF SameDocs
  <2> QED
    BY <1>3, <1>6, <2>1, FlatGood
<1>9. \A k \in Scope : SameDocs(reg, reg', k)
  BY <1>4, <1>8 DEF SameDocs
<1> QED
  BY <1>1, <1>4, <1>7, <1>8, <1>9, OwnWrite DEF Kept

\* The mutation of a panel that exists, or the half of it that was written.
LEMMA EditCall ==
    ASSUME StoreGood, NEW s \in Scope, NEW inB \in BOOLEAN, NEW d \in Doc,
           IF inB THEN /\ reg.b[s] # None
                       /\ reg' = Flat([reg EXCEPT !.b[s] = [@ EXCEPT !.doc = d]])
           ELSE /\ reg.a[s] # None
                /\ reg' = Flat([reg EXCEPT !.a[s] = [@ EXCEPT !.doc = d]])
    PROVE  /\ Call(s, {})
           /\ IF inB THEN reg'.b[s] # None /\ reg'.b[s].doc = d
              ELSE reg'.a[s] # None /\ reg'.a[s].doc = d
<1> DEFINE p == IF inB THEN reg.b[s] ELSE reg.a[s]
           new == [p EXCEPT !.doc = d]
           r == IF inB THEN [reg EXCEPT !.b[s] = new] ELSE [reg EXCEPT !.a[s] = new]
<1>1. Good(reg) /\ reg \in Registry /\ Coherent(reg) /\ Live(reg) \subseteq Scope
  BY DEF StoreGood, IInv, Good, Live
<1>2. p \in PlannerState
  BY <1>1 DEF Registry
<1>3. new \in PlannerState /\ new.doc = d /\ new # None
  BY <1>2, NoneAssumption DEF PlannerState
<1>4. reg' = Flat(r)
  <2>1. CASE inB
    <3>1. r = [reg EXCEPT !.b[s] = [@ EXCEPT !.doc = d]]
      BY <2>1
    <3> HIDE DEF r
    <3> QED
      BY <2>1, <3>1
  <2>2. CASE ~inB
    <3>1. r = [reg EXCEPT !.a[s] = [@ EXCEPT !.doc = d]]
      BY <2>2
    <3> HIDE DEF r
    <3> QED
      BY <2>2, <3>1
  <2> QED
    BY <2>1, <2>2
<1>5. p # None
  OBVIOUS
<1> HIDE DEF new
<1>6. /\ r \in Registry /\ r.seen = reg.seen
      /\ \A k \in Scope \ {s} : r.a[k] = reg.a[k] /\ r.b[k] = reg.b[k]
      /\ IF inB THEN r.a[s] = reg.a[s] /\ r.b[s] = new ELSE r.b[s] = reg.b[s] /\ r.a[s] = new
  <2>1. CASE inB
    BY <1>1, <1>3, <2>1 DEF Registry
  <2>2. CASE ~inB
    BY <1>1, <1>3, <2>2 DEF Registry
  <2> QED
    BY <2>1, <2>2
<1>7. reg.a[s] # None /\ r.a[s] # None
  BY <1>1, <1>3, <1>5, <1>6 DEF Coherent
<1> HIDE DEF r, p
<1>8. Live(r) = Live(reg) /\ Seen(r) = Seen(reg)
  BY <1>6, <1>7 DEF Live, Seen
<1>9. Good(r)
  BY <1>1, <1>6, <1>7, <1>8 DEF Good, Coherent
<1>10. /\ Good(reg') /\ Live(reg') = Live(r) /\ reg'.seen = r.seen
       /\ \A k \in Scope : SameDocs(r, reg', k)
  BY <1>4, <1>9, FlatGood
<1>11. \A k \in Live(reg) \ {s} : SameDocs(reg, reg', k)
  BY <1>1, <1>6, <1>10 DEF SameDocs
<1>12. Call(s, {})
  BY <1>6, <1>8, <1>10, <1>11, OwnWrite
<1> QED
  BY <1>3, <1>6, <1>10, <1>12 DEF SameDocs

\* The same on a panel that is registered no more: nobody sees it.
LEMMA OrphanCall ==
    ASSUME StoreGood, NEW s \in Scope, reg' = Flat(reg)
    PROVE  Call(s, {}) /\ Kept(s)
<1>1. /\ Good(reg') /\ Live(reg') = Live(reg) /\ reg'.seen = reg.seen
      /\ \A k \in Scope : SameDocs(reg, reg', k)
  BY FlatGood DEF StoreGood, IInv
<1>2. Live(reg) \subseteq Scope
  BY DEF Live
<1> QED
  BY <1>1, <1>2, OwnWrite DEF Kept

\* clear_compare_state.
LEMMA CloseCall ==
    ASSUME StoreGood, NEW s \in Scope, reg' = Flat([reg EXCEPT !.b[s] = None])
    PROVE  Call(s, {})
<1> DEFINE r == [reg EXCEPT !.b[s] = None]
<1>1. Good(reg) /\ reg \in Registry /\ Coherent(reg) /\ Live(reg) \subseteq Scope
  BY DEF StoreGood, IInv, Good, Live
<1>2. /\ r \in Registry /\ r.a = reg.a /\ r.seen = reg.seen
      /\ r.b = [reg.b EXCEPT ![s] = None]
  BY <1>1 DEF Registry
<1>3. reg' = Flat(r)
  OBVIOUS
<1> HIDE DEF r
<1>4. Live(r) = Live(reg) /\ Seen(r) = Seen(reg)
  BY <1>2 DEF Live, Seen
<1>5. Good(r)
  BY <1>1, <1>2, <1>4 DEF Good, Coherent, Registry
<1>6. /\ Good(reg') /\ Live(reg') = Live(r) /\ reg'.seen = r.seen
      /\ \A k \in Scope : SameDocs(r, reg', k)
  BY <1>3, <1>5, FlatGood
<1>7. \A k \in Live(reg) \ {s} : SameDocs(reg, reg', k)
  BY <1>1, <1>2, <1>6 DEF SameDocs, Registry
<1> QED
  BY <1>2, <1>4, <1>6, <1>7, OwnWrite

\* duplicate_compare_state.
LEMMA DuplicateCall ==
    ASSUME StoreGood, NEW s \in Scope, NEW q \in GetStateFrom(reg, s),
           reg' = Flat(Touch([q EXCEPT !.b[s] = q.a[s]], s))
    PROVE  Call(s, {})
<1> DEFINE r == Touch([q EXCEPT !.b[s] = q.a[s]], s)
<1>1. IInv /\ Good(reg) /\ now \in Nat
  BY DEF StoreGood, IInv
<1>2. Good(q) /\ s \in Live(q) /\ q \in Registry /\ q.seen[s] = now
      /\ Live(q) \subseteq Scope
  BY <1>1, GetStateBounds, GetStateTouches DEF Good, Live
<1>3. /\ r \in Registry /\ r.a = q.a
      /\ r.b = [q.b EXCEPT ![s] = q.a[s]]
      /\ r.seen = [q.seen EXCEPT ![s] = now]
  BY <1>1, <1>2 DEF Registry, Touch
<1>4. reg' = Flat(r)
  OBVIOUS
<1> HIDE DEF r
<1>5. r.seen = q.seen
  BY <1>2, <1>3 DEF Registry
<1>6. Live(r) = Live(q) /\ Seen(r) = Seen(q)
  BY <1>3, <1>5 DEF Live, Seen
<1>7. Good(r)
  BY <1>2, <1>3, <1>6 DEF Good, Coherent, Registry, Live
<1>8. /\ Good(reg') /\ Live(reg') = Live(r) /\ reg'.seen = r.seen
      /\ \A k \in Scope : SameDocs(r, reg', k)
  BY <1>4, <1>7, FlatGood
<1>9. \A k \in Live(q) \ {s} : SameDocs(q, reg', k)
  BY <1>2, <1>3, <1>8 DEF SameDocs, Registry
<1> QED
  BY <1>5, <1>6, <1>8, <1>9, GetStateCall

\* reset_state.
LEMMA ResetCall ==
    ASSUME StoreGood, NEW s \in Scope, NEW q \in Prune(Install(reg, s, Blank, None), s),
           reg' = Flat(q)
    PROVE  Call(s, {})
<1> DEFINE i == Install(reg, s, Blank, None)
<1>1. Good(reg) /\ reg \in Registry /\ now \in Nat
  BY DEF StoreGood, IInv, Good
<1>2. /\ Good(i) /\ Live(i) = Live(reg) \cup {s}
      /\ \A k \in Scope \ {s} : i.a[k] = reg.a[k] /\ i.b[k] = reg.b[k]
  BY <1>1, ScopeAssumption, InstallGood
<1>3. i.seen = [reg.seen EXCEPT ![s] = now]
  BY DEF Install
<1>4. i.seen[s] = now /\ \A k \in Live(i) : k # s => i.seen[k] = reg.seen[k]
  BY <1>1, <1>3 DEF Registry, Live
<1>5. q \in Prune(i, s)
  OBVIOUS
<1> HIDE DEF i
<1>6. /\ Good(q) /\ Cardinality(Live(q)) <= MaxScopes
      /\ Live(q) \subseteq Live(i) /\ s \in Live(q)
      /\ \A k \in Live(q) : /\ q.a[k] = i.a[k] /\ q.b[k] = i.b[k]
                            /\ q.seen[k] = i.seen[k]
  BY <1>2, <1>5, PruneBounds, PruneVictims
<1>7. /\ Good(reg') /\ Live(reg') = Live(q) /\ reg'.seen = q.seen
      /\ \A k \in Scope : SameDocs(q, reg', k)
  BY <1>6, FlatGood
<1>8. EvictionStep
  BY <1>2, <1>4, <1>5, <1>6, <1>7, TouchedVictims
<1>9. \A k \in Live(reg') :
         \/ k \in Live(reg) /\ reg'.seen[k] = reg.seen[k]
         \/ k = s /\ reg'.seen[k] = now
  BY <1>2, <1>4, <1>6, <1>7
<1>10. \A k \in Live(reg) \ Live(reg') : Idle(reg, k) \/ Outnumbered(k)
  BY <1>8, <1>9, EvictedAreOutnumbered
<1>11. \A k \in Live(reg') \ {s} : SameDocs(reg, reg', k)
  BY <1>2, <1>6, <1>7 DEF SameDocs, Live
<1> QED
  BY <1>6, <1>7, <1>9, <1>10, <1>11 DEF Call

\* delete_visitor_states.
LEMMA DeleteCall ==
    ASSUME StoreGood, NEW s \in Scope, NEW K \in SUBSET ScopesOf(VisitorOf[s]),
           reg' = Flat(Forget(reg, K))
    PROVE  Call(s, ScopesOf(VisitorOf[s]))
<1> DEFINE r == Forget(reg, K)
<1>1. Good(reg) /\ K \subseteq Scope /\ Live(reg) \subseteq Scope
  BY DEF StoreGood, IInv, ScopesOf, Live
<1>2. /\ Good(r) /\ Live(r) = Live(reg) \ K
      /\ \A k \in Scope \ K : r.a[k] = reg.a[k] /\ r.b[k] = reg.b[k]
  BY <1>1, ForgetGood
<1>3. \A k \in Scope \ K : r.seen[k] = reg.seen[k]
  BY DEF Forget
<1>4. reg' = Flat(r)
  OBVIOUS
<1> HIDE DEF r
<1>5. /\ Good(reg') /\ Live(reg') = Live(r) /\ reg'.seen = r.seen
      /\ \A k \in Scope : SameDocs(r, reg', k)
  BY <1>2, <1>4, FlatGood
<1>6. Cardinality(Live(reg')) <= MaxScopes
  <2>1. /\ Cardinality(Live(reg')) <= Cardinality(Live(reg))
        /\ Cardinality(Live(reg')) \in Nat /\ Cardinality(Live(reg)) \in Nat
    BY <1>1, <1>2, <1>5, FS_Subset, FS_CardinalityType DEF Good
  <2> QED
    BY <2>1, LimitAssumption DEF StoreGood, IInv
<1>7. \A k \in Live(reg') \ {s} : SameDocs(reg, reg', k)
  BY <1>1, <1>2, <1>5 DEF SameDocs
<1> QED
  BY <1>1, <1>2, <1>3, <1>5, <1>6, <1>7 DEF Call

-----------------------------------------------------------------------------
(* The requests together                                                   *)

EditedPanel(t) == IF kind[t] = "editB" THEN reg.b[scope[t]] ELSE reg.a[scope[t]]

\* A state that a request fetched and that is still registered is its tab's
\* panel; once it wrote to it, the panel shows the edit.
HeldGood(t) ==
    held[t] = "live" =>
        /\ pc[t] \in {"act", "render", "releaseTab"}
        /\ kind[t] \in {"view", "editA", "editB"}
        /\ EditedPanel(t) # None
        /\ pc[t] # "act" /\ kind[t] \in Edits => EditedPanel(t).doc = Blank

\* From the admission to the answer the visitor's limit has room for the tab.
Admitted == {"lookupTab", "tabLock", "fetch", "act", "render"}
TabsWith(r, s) == (Live(r) \cup {s}) \cap ScopesOf(VisitorOf[s])
Room(t) == pc[t] \in Admitted => Cardinality(TabsWith(reg, scope[t])) <= MaxTabs

FetchKinds ==
    \A t \in Thread : pc[t] = "fetch" => kind[t] \in {"view", "editA", "editB"}

ServedInv ==
    /\ LockInv
    /\ StoreGood
    /\ FetchKinds
    /\ kind \in [Thread -> Kinds \cup {None}]
    /\ held \in [Thread -> {"none", "live", "orphan"}]
    /\ \A t \in Thread : HeldGood(t) /\ Room(t)
    /\ TabsWithinLimit

\* What OrphanOnlyUnderPressure says of one request.
PressedOut(t) ==
    held[t] = "live" /\ held'[t] = "orphan" =>
        \/ TTL > 0 /\ now - reg.seen[scope[t]] > TTL
        \/ Cardinality({k \in Live(reg') \ {scope[t]} :
                          reg'.seen[k] >= reg.seen[scope[t]]}) >= MaxScopes

LEMMA OtherVisitor ==
    ASSUME LockInv, NEW t \in Inside, NEW u \in Inside, t # u
    PROVE  /\ scope[t] \in Scope /\ scope[u] \in Scope
           /\ VisitorOf[scope[u]] # VisitorOf[scope[t]] /\ scope[u] # scope[t]
<1>1. scope[t] \in Scope /\ scope[u] \in Scope
  BY DEF LockInv, Names, Inside
<1>2. VisitorOf[scope[u]] # VisitorOf[scope[t]]
  BY OneInside DEF OneRequestPerVisitor
<1> QED
  BY <1>1, <1>2

LEMMA FewTabs ==
    ASSUME NEW X, NEW Y, IsFiniteSet(Y), X \subseteq Y, Cardinality(Y) <= MaxTabs
    PROVE  Cardinality(X) <= MaxTabs
<1>1. IsFiniteSet(X) /\ Cardinality(X) <= Cardinality(Y)
  BY FS_Subset
<1>2. Cardinality(X) \in Nat /\ Cardinality(Y) \in Nat /\ MaxTabs \in Nat
  BY <1>1, FS_CardinalityType, ThreadAssumption
<1> QED
  BY <1>1, <1>2

LEMMA TabsFinite ==
    ASSUME NEW r, Good(r), NEW s
    PROVE  IsFiniteSet(TabsWith(r, s)) /\ \A v : IsFiniteSet(Live(r) \cap ScopesOf(v))
<1>1. IsFiniteSet(Live(r) \cup {s})
  BY FS_AddElement DEF Good
<1> QED
  BY <1>1, FS_Subset DEF TabsWith, Good

\* The requests of other visitors keep what they hold, unless pressed out.
LEMMA CallOnOthers ==
    ASSUME ServedInv, NEW t \in Inside, NEW u \in Thread \ {t},
           NEW gone \in SUBSET ScopesOf(VisitorOf[scope[t]]), Call(scope[t], gone),
           held'[u] = Lose(reg')[u],
           kind'[u] = kind[u], scope'[u] = scope[u], pc'[u] = pc[u]
    PROVE  HeldGood(u)' /\ Room(u)' /\ PressedOut(u)
<1>1. Good(reg) /\ Good(reg') /\ LockInv /\ HeldGood(u) /\ Room(u)
  BY DEF ServedInv, StoreGood, IInv, Call
<1>2. held'[u] = IF held[u] = "live" /\ (IF kind[u] = "editB" THEN reg'.b[scope[u]]
                                        ELSE reg'.a[scope[u]]) = None
                 THEN "orphan" ELSE held[u]
  BY DEF Lose
<1>3. pc[u] \in Admitted \cup {"releaseTab"} =>
         /\ scope[u] \in Scope /\ scope[u] # scope[t]
         /\ VisitorOf[scope[u]] # VisitorOf[scope[t]]
  <2>1. pc[u] \in Admitted \cup {"releaseTab"} => u \in Inside
    BY DEF Inside, Admitted
  <2> QED
    BY <1>1, <2>1, OtherVisitor
<1>4. ASSUME held[u] = "live"
      PROVE  /\ scope[u] \in Scope /\ scope[u] # scope[t] /\ scope[u] \notin gone
             /\ scope[u] \in Live(reg)
  <2>1. pc[u] \in Admitted \cup {"releaseTab"} /\ EditedPanel(u) # None
    BY <1>1, <1>4 DEF HeldGood, Admitted
  <2>2. reg.a[scope[u]] # None
    BY <1>1, <1>3, <2>1 DEF EditedPanel, Good, Coherent
  <2> QED
    BY <1>3, <2>1, <2>2 DEF Live, ScopesOf
<1>5. HeldGood(u)'
  <2> SUFFICES ASSUME held'[u] = "live"
               PROVE  /\ pc[u] \in {"act", "render", "releaseTab"}
                      /\ kind[u] \in {"view", "editA", "editB"}
                      /\ EditedPanel(u)' # None
                      /\ pc[u] # "act" /\ kind[u] \in Edits => (EditedPanel(u)').doc = Blank
    BY DEF HeldGood
  <2>1. held[u] = "live" /\ EditedPanel(u)' # None
    BY <1>2 DEF EditedPanel
  <2>2. reg'.a[scope[u]] # None
    BY <1>1, <1>4, <2>1 DEF EditedPanel, Good, Coherent
  <2>3. SameDocs(reg, reg', scope[u])
    BY <1>4, <2>1, <2>2 DEF Call, Live
  <2> QED
    BY <1>1, <2>1, <2>3 DEF HeldGood, EditedPanel, SameDocs
<1>6. Room(u)'
  <2> SUFFICES ASSUME pc[u] \in Admitted
               PROVE  Cardinality(TabsWith(reg', scope[u])) <= MaxTabs
    BY DEF Room
  <2>1. Live(reg') \subseteq Live(reg) \cup {scope[t]}
    BY DEF Call
  <2>2. TabsWith(reg', scope[u]) \subseteq TabsWith(reg, scope[u])
    BY <1>3, <2>1 DEF TabsWith, ScopesOf
  <2> QED
    BY <1>1, <2>2, FewTabs, TabsFinite DEF Room
<1>7. PressedOut(u)
  <2> SUFFICES ASSUME held[u] = "live", held'[u] = "orphan"
               PROVE  \/ TTL > 0 /\ now - reg.seen[scope[u]] > TTL
                      \/ Cardinality({k \in Live(reg') \ {scope[u]} :
                                        reg'.seen[k] >= reg.seen[scope[u]]}) >= MaxScopes
    BY DEF PressedOut
  <2>1. (IF kind[u] = "editB" THEN reg'.b[scope[u]] ELSE reg'.a[scope[u]]) = None
    BY <1>2
  <2>2. scope[u] \notin Live(reg')
    <3>1. ASSUME scope[u] \in Live(reg') PROVE FALSE
      <4>1. SameDocs(reg, reg', scope[u])
        BY <1>4, <3>1 DEF Call
      <4> QED
        BY <1>1, <2>1, <4>1 DEF SameDocs, HeldGood, EditedPanel
    <3> QED
      BY <3>1
  <2>3. Idle(reg, scope[u]) \/ Outnumbered(scope[u])
    BY <1>4, <2>2 DEF Call
  <2>4. Live(reg') \ {scope[u]} = Live(reg')
    BY <2>2
  <2> QED
    BY <2>3, <2>4 DEF Idle, Outnumbered
<1> QED
  BY <1>5, <1>6, <1>7

\* The limit of tabs holds after a call that creates its tab, because there
\* was room, and the room stays.
LEMMA CallOnTabs ==
    ASSUME ServedInv, NEW t \in Inside,
           NEW gone \in SUBSET ScopesOf(VisitorOf[scope[t]]), Call(scope[t], gone),
           Live(reg') \subseteq Live(reg) \/ pc[t] \in Admitted
    PROVE  /\ TabsWithinLimit'
           /\ pc[t] \in Admitted => Cardinality(TabsWith(reg', scope[t])) <= MaxTabs
<1> DEFINE s == scope[t]
<1>1. Good(reg) /\ Good(reg') /\ Room(t)
  BY DEF ServedInv, StoreGood, IInv, Call, Inside
<1>2. Live(reg') \subseteq Live(reg) \cup {s}
  BY DEF Call
<1>3. ASSUME NEW v \in Visitor
      PROVE  Cardinality(Live(reg') \cap ScopesOf(v)) <= MaxTabs
  <2>1. CASE Live(reg') \cap ScopesOf(v) \subseteq Live(reg) \cap ScopesOf(v)
    BY <1>1, <2>1, FewTabs, TabsFinite DEF ServedInv, TabsWithinLimit
  <2>2. CASE ~(Live(reg') \cap ScopesOf(v) \subseteq Live(reg) \cap ScopesOf(v))
    <3>1. s \in ScopesOf(v) /\ pc[t] \in Admitted
      BY <1>2, <2>2
    <3>2. Live(reg') \cap ScopesOf(v) \subseteq TabsWith(reg, s)
      BY <1>2, <3>1 DEF TabsWith, ScopesOf
    <3> QED
      BY <1>1, <3>1, <3>2, FewTabs, TabsFinite DEF Room
  <2> QED
    BY <2>1, <2>2
<1>4. TabsWith(reg', s) \subseteq TabsWith(reg, s)
  BY <1>2 DEF TabsWith
<1>5. pc[t] \in Admitted => Cardinality(TabsWith(reg', s)) <= MaxTabs
  BY <1>1, <1>4, FewTabs, TabsFinite DEF Room
<1> QED
  BY <1>3, <1>5 DEF TabsWithinLimit

LEMMA CallOnStore ==
    ASSUME StoreGood, NEW s, NEW gone, Call(s, gone), now' = now
    PROVE  StoreGood'
<1>1. now \in Nat
  BY DEF StoreGood, IInv
<1> QED
  BY <1>1 DEF StoreGood, IInv, Call, Good, Coherent, Live, Seen

\* One step of a handler, put together: what remains is the request itself.
LEMMA Handled ==
    ASSUME ServedInv, LockInv', NEW t \in Inside,
           NEW gone \in SUBSET ScopesOf(VisitorOf[scope[t]]), Call(scope[t], gone),
           Live(reg') \subseteq Live(reg) \/ pc[t] \in Admitted,
           NEW label, label # "fetch", pc' = [pc EXCEPT ![t] = label],
           UNCHANGED <<now, kind, scope>>,
           held' \in [Thread -> {"none", "live", "orphan"}],
           \A u \in Thread \ {t} : held'[u] = Lose(reg')[u],
           HeldGood(t)', Room(t)', PressedOut(t)
    PROVE  ServedInv' /\ \A u \in Thread : PressedOut(u)
<1>1. LockTypes
  BY DEF ServedInv, LockInv
<1>2. \A u \in Thread \ {t} : pc'[u] = pc[u]
  BY <1>1 DEF LockTypes
<1>3. \A u \in Thread \ {t} : HeldGood(u)' /\ Room(u)' /\ PressedOut(u)
  BY <1>2, CallOnOthers
<1>4. TabsWithinLimit'
  BY CallOnTabs
<1>5. StoreGood'
  BY CallOnStore DEF ServedInv
<1>6. FetchKinds'
  BY <1>1 DEF ServedInv, FetchKinds, LockTypes
<1> QED
  BY <1>3, <1>4, <1>5, <1>6 DEF ServedInv

LEMMA LosesOrKeeps ==
    ASSUME ServedInv
    PROVE  /\ Lose(reg') \in [Thread -> {"none", "live", "orphan"}]
           /\ \A t \in Thread : held[t] # "live" => Lose(reg')[t] = held[t]
BY DEF ServedInv, Lose

\* The pruning spares the caller, and the answer makes room.
LEMMA AdmitServed ==
    ASSUME ServedInv, LockInv', NEW t \in Thread, Admit(t)
    PROVE  ServedInv' /\ \A u \in Thread : PressedOut(u)
<1> DEFINE s == scope[t]
<1>1. /\ pc[t] = "admit" /\ t \in Inside
      /\ UNCHANGED <<now, kind, scope>>
      /\ reg' \in Prune(reg, s) /\ held' = Lose(reg')
      /\ \/ pc' = [pc EXCEPT ![t] = "lookupTab"] /\ Admits(reg', s, MaxTabs)
         \/ pc' = [pc EXCEPT ![t] = "leave"]
  BY DEF Admit, Goto, Inside
<1>2. s \in Scope /\ LockTypes
  BY <1>1 DEF ServedInv, LockInv, Names
<1>3. Call(s, {}) /\ Live(reg') \subseteq Live(reg)
  BY <1>1, <1>2, PruneCall DEF ServedInv
<1>4. held[t] # "live"
  BY <1>1 DEF ServedInv, HeldGood
<1>5. held' \in [Thread -> {"none", "live", "orphan"}] /\ held'[t] = held[t]
  BY <1>1, <1>4, LosesOrKeeps
<1>6. HeldGood(t)' /\ PressedOut(t)
  BY <1>4, <1>5 DEF HeldGood, PressedOut
<1>7. Room(t)'
  <2>1. CASE pc' = [pc EXCEPT ![t] = "leave"]
    BY <1>2, <2>1 DEF LockTypes, Room, Admitted
  <2>2. CASE Admits(reg', s, MaxTabs)
    <3>1. Good(reg') /\ MaxTabs \in Nat /\ s \in ScopesOf(VisitorOf[s])
          /\ VisitorOf[s] \in Visitor
      BY <1>2, <1>3, ThreadAssumption, ScopeAssumption DEF Call, ScopesOf
    <3>2. CASE s \in Live(reg')
      <4>1. TabsWith(reg', s) \subseteq Live(reg) \cap ScopesOf(VisitorOf[s])
        BY <1>3, <3>2 DEF TabsWith
      <4>2. Cardinality(Live(reg) \cap ScopesOf(VisitorOf[s])) <= MaxTabs
        BY <3>1 DEF ServedInv, TabsWithinLimit
      <4>3. Cardinality(TabsWith(reg', s)) <= MaxTabs
        BY <4>1, <4>2, FewTabs, TabsFinite DEF ServedInv, StoreGood, IInv
      <4> QED
        BY <1>1, <4>3 DEF Room
    <3>3. CASE s \notin Live(reg')
      <4>1. reg'.a[s] = None /\ reg'.b[s] = None
        BY <1>2, <3>1, <3>3 DEF Live, Good, Coherent
      <4>2. Cardinality(Live(reg') \cap ScopesOf(VisitorOf[s])) < MaxTabs
        BY <2>2, <4>1 DEF Admits
      <4>3. TabsWith(reg', s) = (Live(reg') \cap ScopesOf(VisitorOf[s])) \cup {s}
        BY <3>1 DEF TabsWith
      <4>4. IsFiniteSet(Live(reg') \cap ScopesOf(VisitorOf[s]))
        BY <3>1, TabsFinite
      <4>5. Cardinality(TabsWith(reg', s))
               = Cardinality(Live(reg') \cap ScopesOf(VisitorOf[s])) + 1
        BY <3>3, <4>3, <4>4, FS_AddElement
      <4>6. Cardinality(Live(reg') \cap ScopesOf(VisitorOf[s])) \in Nat
        BY <4>4, FS_CardinalityType
      <4>7. Cardinality(TabsWith(reg', s)) <= MaxTabs
        BY <3>1, <4>2, <4>5, <4>6
      <4> QED
        BY <1>1, <4>7 DEF Room
    <3> QED
      BY <3>2, <3>3
  <2> QED
    BY <1>1, <2>1, <2>2
<1> QED
  BY <1>1, <1>3, <1>5, <1>6, <1>7, Handled

\* get_state and get_compare_state: the state fetched is the registered one.
LEMMA FetchServed ==
    ASSUME ServedInv, LockInv', NEW t \in Thread, Fetch(t)
    PROVE  ServedInv' /\ \A u \in Thread : PressedOut(u)
<1> DEFINE s == scope[t]
<1>1. /\ pc[t] = "fetch" /\ t \in Inside /\ pc[t] \in Admitted
      /\ UNCHANGED <<now, kind, scope>>
  BY DEF Fetch, Inside, Admitted
<1>2. s \in Scope /\ LockTypes /\ StoreGood
  BY <1>1 DEF ServedInv, LockInv, Names, NoTab
<1>3. /\ held[t] # "live"
      /\ held \in [Thread -> {"none", "live", "orphan"}]
  BY <1>1 DEF ServedInv, HeldGood
<1>4. CASE kind[t] = "editB"
  <2>1. PICK found \in BOOLEAN :
           /\ found <=> reg.b[s] # None
           /\ reg' = IF found THEN Touch(reg, s) ELSE reg
           /\ held' = [held EXCEPT ![t] = IF found THEN "live" ELSE "none"]
           /\ pc' = [pc EXCEPT ![t] = IF found THEN "act" ELSE "render"]
    BY <1>4 DEF Fetch, Goto
  <2>2. found => s \in Live(reg)
    BY <1>2, <2>1 DEF StoreGood, IInv, Good, Coherent, Live
  <2>3. Call(s, {}) /\ reg'.b = reg.b /\ reg'.a = reg.a
    BY <1>2, <2>1, <2>2, TouchCall, NoCall DEF Touch, StoreGood, IInv, Good, Registry
  <2>4. \A u \in Thread \ {t} : held'[u] = Lose(reg')[u]
    <3>1. \A u \in Thread \ {t} : held'[u] = held[u]
      BY <1>3, <2>1
    <3>2. \A u \in Thread : held[u] = "live" => EditedPanel(u) # None
      BY DEF ServedInv, HeldGood
    <3> QED
      BY <2>3, <3>1, <3>2 DEF Lose, EditedPanel
  <2>5. pc'[t] \in {"act", "render"} /\ (found => pc'[t] = "act")
    BY <1>2, <2>1 DEF LockTypes
  <2>6. held'[t] = IF found THEN "live" ELSE "none"
    BY <1>3, <2>1
  <2>7. HeldGood(t)' /\ PressedOut(t)
    BY <1>1, <1>4, <2>1, <2>3, <2>5, <2>6 DEF HeldGood, PressedOut, EditedPanel
  <2>8. Room(t)'
    BY <1>1, <2>3, CallOnTabs DEF Room
  <2>9. held' \in [Thread -> {"none", "live", "orphan"}]
    BY <1>3, <2>1
  <2>10. PICK label \in {"act", "render"} : pc' = [pc EXCEPT ![t] = label]
    BY <2>1
  <2> QED
    BY <1>1, <2>3, <2>4, <2>7, <2>8, <2>9, <2>10, Handled
<1>5. CASE kind[t] # "editB"
  <2>1. /\ reg' \in {Flat(r) : r \in GetStateFrom(reg, s)}
        /\ held' = [Lose(reg') EXCEPT ![t] = "live"]
        /\ pc' = [pc EXCEPT ![t] = IF kind[t] = "view" THEN "releaseTab" ELSE "act"]
    BY <1>5 DEF Fetch, Goto
  <2>2. PICK q \in GetStateFrom(reg, s) : reg' = Flat(q)
    BY <2>1
  <2>3. Good(q)
    BY <1>2, GetStateBounds DEF StoreGood, IInv
  <2>4. Call(s, {}) /\ s \in Live(reg')
    BY <1>2, <2>2, <2>3, FlatGood, GetStateCall DEF Live
  <2>5. held' \in [Thread -> {"none", "live", "orphan"}] /\ held'[t] = "live"
        /\ \A u \in Thread \ {t} : held'[u] = Lose(reg')[u]
    BY <2>1, LosesOrKeeps
  <2>6. kind[t] \in AllKinds /\ kind[t] # "delete"
    BY <1>1 DEF ServedInv, LockInv, KindAt
  <2>7. pc'[t] = IF kind[t] = "view" THEN "releaseTab" ELSE "act"
    BY <1>2, <2>1 DEF LockTypes
  <2>8. kind[t] \in {"view", "editA"}
    BY <1>1, <1>5 DEF ServedInv, FetchKinds
  <2>9. HeldGood(t)' /\ PressedOut(t)
    BY <1>1, <2>4, <2>5, <2>7, <2>8 DEF HeldGood, PressedOut, EditedPanel, Live, Edits
  <2>10. Room(t)'
    BY <1>1, <2>4, CallOnTabs DEF Room
  <2>11. PICK label \in {"act", "releaseTab"} : pc' = [pc EXCEPT ![t] = label]
    BY <2>1
  <2> QED
    BY <1>1, <2>4, <2>5, <2>9, <2>10, <2>11, Handled
<1> QED
  BY <1>4, <1>5

\* The mutation: a registered panel shows it, an orphan shows nothing.
LEMMA ActServed ==
    ASSUME ServedInv, LockInv', NEW t \in Thread, Act(t)
    PROVE  ServedInv' /\ \A u \in Thread : PressedOut(u)
<1> DEFINE s == scope[t]
<1>1. /\ pc[t] = "act" /\ t \in Inside /\ pc[t] \in Admitted
      /\ pc' = [pc EXCEPT ![t] = "render"]
  BY DEF Act, Goto, Inside, Admitted
<1>2. s \in Scope /\ LockTypes /\ StoreGood
  BY <1>1 DEF ServedInv, LockInv, Names, NoTab
<1>3. kind[t] \in {"editA", "editB", "duplicate", "close", "reset"}
  BY <1>1 DEF ServedInv, LockInv, KindAt, AllKinds
<1>4. held' = Lose(reg') /\ UNCHANGED <<now, kind, scope>>
  BY <1>3 DEF Act, StoreStep
<1>5. pc'[t] = "render"
  BY <1>1, <1>2 DEF LockTypes
<1>6. ASSUME Call(s, {}), HeldGood(t)', PressedOut(t)
      PROVE  ServedInv' /\ \A u \in Thread : PressedOut(u)
  <2>1. Room(t)'
    BY <1>1, <1>4, <1>6, CallOnTabs DEF Room
  <2> QED
    BY <1>1, <1>4, <1>6, <2>1, LosesOrKeeps, Handled
<1>7. CASE kind[t] \in Edits /\ held[t] = "live"
  <2> DEFINE inB == kind[t] = "editB"
  <2>1. EditedPanel(t) # None
    BY <1>7 DEF ServedInv, HeldGood
  <2>2. IF inB THEN /\ reg.b[s] # None
                    /\ reg' = Flat([reg EXCEPT !.b[s] = [@ EXCEPT !.doc = Blank]])
        ELSE /\ reg.a[s] # None
             /\ reg' = Flat([reg EXCEPT !.a[s] = [@ EXCEPT !.doc = Blank]])
    BY <1>7, <2>1 DEF Act, StoreStep, EditedPanel, Edits
  <2>3. /\ Call(s, {})
        /\ IF inB THEN reg'.b[s] # None /\ reg'.b[s].doc = Blank
           ELSE reg'.a[s] # None /\ reg'.a[s].doc = Blank
    <3>1. inB \in BOOLEAN
      OBVIOUS
    <3> HIDE DEF inB
    <3>2. Blank \in Doc
      BY ScopeAssumption
    <3> QED
      BY <1>2, <2>2, <3>1, <3>2, EditCall
  <2>4. EditedPanel(t)' # None /\ (EditedPanel(t)').doc = Blank
    BY <1>4, <2>3 DEF EditedPanel
  <2>5. held'[t] = "live"
    BY <1>4, <1>7, <2>3 DEF Lose
  <2>6. HeldGood(t)' /\ PressedOut(t)
    BY <1>4, <1>5, <1>7, <2>4, <2>5 DEF HeldGood, PressedOut, Edits
  <2> QED
    BY <1>6, <2>3, <2>6
<1>8. CASE ~(kind[t] \in Edits /\ held[t] = "live")
  <2>1. held[t] # "live"
    BY <1>3, <1>8 DEF ServedInv, HeldGood, Edits
  <2>2. held'[t] # "live"
    BY <1>4, <2>1, LosesOrKeeps
  <2>3. HeldGood(t)' /\ PressedOut(t)
    BY <2>1, <2>2 DEF HeldGood, PressedOut
  <2>4. Call(s, {})
    <3>1. CASE kind[t] \in Edits
      <4>1. reg' = Flat(reg)
        BY <2>1, <3>1 DEF Act, StoreStep, Edits
      <4> QED
        BY <1>2, <4>1, OrphanCall
    <3>2. CASE kind[t] = "duplicate"
      <4>1. PICK q \in GetStateFrom(reg, s) :
               reg' = Flat(Touch([q EXCEPT !.b[s] = q.a[s]], s))
        BY <3>2 DEF Act, StoreStep
      <4> QED
        BY <1>2, <4>1, DuplicateCall
    <3>3. CASE kind[t] = "close"
      <4>1. reg' = Flat([reg EXCEPT !.b[s] = None])
        BY <3>3 DEF Act, StoreStep
      <4> QED
        BY <1>2, <4>1, CloseCall
    <3>4. CASE kind[t] = "reset"
      <4>1. PICK q \in Prune(Install(reg, s, Blank, None), s) : reg' = Flat(q)
        BY <3>4 DEF Act, StoreStep
      <4> QED
        BY <1>2, <4>1, ResetCall
    <3> QED
      BY <1>3, <3>1, <3>2, <3>3, <3>4 DEF Edits
  <2> QED
    BY <1>6, <2>3, <2>4
<1> QED
  BY <1>7, <1>8

\* A failure leaves the caller's tab alone, or half written; nobody is deprived.
LEMMA RaiseServed ==
    ASSUME ServedInv, LockInv', NEW t \in Thread, Raise(t)
    PROVE  ServedInv' /\ \A u \in Thread : PressedOut(u)
<1> DEFINE s == scope[t]
<1>1. /\ pc[t] \in {"fetch", "act"} /\ t \in Inside /\ pc[t] \in Admitted
      /\ pc' = [pc EXCEPT ![t] = "releaseTab"]
      /\ UNCHANGED <<now, kind, scope>>
      /\ held' = [Lose(reg') EXCEPT ![t] = "none"]
      /\ reg' \in {Flat(r) : r \in Errors(t)}
  BY DEF Raise, Goto, Inside, Admitted
<1>2. s \in Scope /\ LockTypes /\ StoreGood
  BY <1>1 DEF ServedInv, LockInv, Names, NoTab
<1>3. PICK r \in Errors(t) : reg' = Flat(r)
  BY <1>1
<1>4. Call(s, {})
  <2>1. CASE r = reg
    BY <1>2, <1>3, <2>1, OrphanCall
  <2>2. CASE /\ held[t] = "live" /\ kind[t] = "editB"
             /\ r = [reg EXCEPT !.b[s] = [@ EXCEPT !.doc = Broken]]
    <3>1. reg.b[s] # None /\ Broken \in Doc
      BY <2>2, ScopeAssumption DEF ServedInv, HeldGood, EditedPanel
    <3> QED
      BY <1>2, <1>3, <2>2, <3>1, EditCall
  <2>3. CASE /\ held[t] = "live" /\ kind[t] = "editA"
             /\ r = [reg EXCEPT !.a[s] = [@ EXCEPT !.doc = Broken]]
    <3>1. reg.a[s] # None /\ Broken \in Doc
      BY <2>3, ScopeAssumption DEF ServedInv, HeldGood, EditedPanel
    <3> QED
      BY <1>2, <1>3, <2>3, <3>1, EditCall
  <2>4. CASE reg.b[s] # None /\ r = Touch(reg, s)
    <3>1. s \in Live(reg)
      BY <1>2, <2>4 DEF StoreGood, IInv, Good, Coherent, Live
    <3> QED
      BY <1>2, <1>3, <2>4, <3>1, TouchCall
  <2>5. CASE r \in GetStateFrom(reg, s)
    <3>1. Good(r) /\ \A k \in Live(r) : k \in Scope
      BY <1>2, <2>5, GetStateBounds DEF StoreGood, IInv, Live
    <3> QED
      BY <1>2, <1>3, <2>5, <3>1, FlatGood, GetStateCall
  <2>6. kind[t] \in Edits => kind[t] \in {"editA", "editB"}
    BY DEF Edits
  <2>7. CASE pc[t] = "act" /\ kind[t] \in Edits
    BY <1>3, <2>1, <2>2, <2>3, <2>6, <2>7 DEF Errors
  <2>8. CASE pc[t] = "fetch" /\ kind[t] = "editB"
    BY <1>3, <2>4, <2>8 DEF Errors
  <2>9. CASE ~(pc[t] = "act" /\ kind[t] \in Edits) /\ ~(pc[t] = "fetch" /\ kind[t] = "editB")
    <3>1. Errors(t) = {q \in GetStateFrom(reg, s) : q.a[s].doc = Broken}
      BY <2>9, Zenon DEF Errors
    <3> QED
      BY <1>3, <2>5, <3>1
  <2> QED
    BY <2>7, <2>8, <2>9
<1>5. held' \in [Thread -> {"none", "live", "orphan"}] /\ held'[t] = "none"
      /\ \A u \in Thread \ {t} : held'[u] = Lose(reg')[u]
  BY <1>1, LosesOrKeeps
<1>6. HeldGood(t)' /\ PressedOut(t)
  BY <1>5 DEF HeldGood, PressedOut
<1>7. Room(t)'
  BY <1>1, <1>2 DEF Room, Admitted, LockTypes
<1> QED
  BY <1>1, <1>4, <1>5, <1>6, <1>7, Handled

\* The answer reads the tab's own panels again and leaves them as they are.
LEMMA RenderServed ==
    ASSUME ServedInv, LockInv', NEW t \in Thread, Render(t)
    PROVE  ServedInv' /\ \A u \in Thread : PressedOut(u)
<1> DEFINE s == scope[t]
<1>1. /\ pc[t] = "render" /\ t \in Inside /\ pc[t] \in Admitted
      /\ pc' = [pc EXCEPT ![t] = "releaseTab"]
      /\ UNCHANGED <<now, kind, scope>>
      /\ held' = Lose(reg')
      /\ reg' \in {Flat(r) : r \in GetStateFrom(reg, s)}
  BY DEF Render, StoreStep, Goto, Inside, Admitted
<1>2. s \in Scope /\ LockTypes /\ StoreGood
  BY <1>1 DEF ServedInv, LockInv, Names, NoTab
<1>3. PICK q \in GetStateFrom(reg, s) : reg' = Flat(q)
  BY <1>1
<1>4. Good(q) /\ \A k \in Live(q) : k \in Scope
  BY <1>2, GetStateBounds DEF StoreGood, IInv, Live
<1>5. Call(s, {}) /\ Kept(s)
  BY <1>2, <1>3, <1>4, FlatGood, GetStateCall
<1>6. pc'[t] = "releaseTab"
  BY <1>1, <1>2 DEF LockTypes
<1>7. HeldGood(t)' /\ PressedOut(t)
  <2>1. CASE held[t] = "live"
    <3>1. /\ EditedPanel(t) # None /\ kind[t] \in {"view", "editA", "editB"}
          /\ kind[t] \in Edits => EditedPanel(t).doc = Blank
      BY <1>1, <2>1 DEF ServedInv, HeldGood
    <3>2. s \in Live(reg)
      BY <1>2, <3>1 DEF EditedPanel, StoreGood, IInv, Good, Coherent, Live
    <3>3. SameDocs(reg, reg', s)
      BY <1>5, <3>2 DEF Kept
    <3>4. EditedPanel(t)' # None /\ (kind[t] \in Edits => (EditedPanel(t)').doc = Blank)
      BY <1>1, <3>1, <3>3 DEF EditedPanel, SameDocs
    <3>5. held'[t] = "live"
      BY <1>1, <2>1, <3>4 DEF Lose, EditedPanel
    <3> QED
      BY <1>1, <1>6, <3>1, <3>4, <3>5 DEF HeldGood, PressedOut
  <2>2. CASE held[t] # "live"
    <3>1. held'[t] # "live"
      BY <1>1, <2>2, LosesOrKeeps
    <3> QED
      BY <2>2, <3>1 DEF HeldGood, PressedOut
  <2> QED
    BY <2>1, <2>2
<1>8. Room(t)'
  BY <1>1, <1>6 DEF Room, Admitted
<1> QED
  BY <1>1, <1>5, <1>7, <1>8, LosesOrKeeps, Handled

\* Deleting drops the tabs of the caller's own visitor, whose other requests
\* are all outside.
LEMMA DeleteServed ==
    ASSUME ServedInv, LockInv', NEW t \in Thread, DeleteData(t)
    PROVE  ServedInv' /\ \A u \in Thread : PressedOut(u)
<1> DEFINE s == scope[t]
           K == {k \in ScopesOf(VisitorOf[s]) : reg.a[k] # None \/ reg.b[k] # None}
<1>1. /\ pc[t] = "delete" /\ t \in Inside
      /\ pc' = [pc EXCEPT ![t] = "releaseVisitor"]
      /\ UNCHANGED <<now, kind, scope>>
      /\ held' = Lose(reg')
      /\ reg' = Flat(Forget(reg, K))
  BY DEF DeleteData, StoreStep, Goto, Inside
<1>2. s \in Scope /\ LockTypes /\ StoreGood
  BY <1>1 DEF ServedInv, LockInv, Names
<1>3. K \subseteq ScopesOf(VisitorOf[s]) /\ K \subseteq Scope
  BY DEF ScopesOf
<1> HIDE DEF K
<1>4. Call(s, ScopesOf(VisitorOf[s]))
  BY <1>1, <1>2, <1>3, DeleteCall
<1>5. Live(reg') \subseteq Live(reg)
  BY <1>1, <1>2, <1>3, ForgetGood, FlatGood DEF StoreGood, IInv
<1>6. held[t] # "live"
  BY <1>1 DEF ServedInv, HeldGood
<1>7. held'[t] # "live"
  BY <1>1, <1>6, LosesOrKeeps
<1>8. HeldGood(t)' /\ PressedOut(t)
  BY <1>6, <1>7 DEF HeldGood, PressedOut
<1>9. Room(t)'
  BY <1>1, <1>2 DEF Room, Admitted, LockTypes
<1> QED
  BY <1>1, <1>4, <1>5, <1>8, <1>9, LosesOrKeeps, Handled

\* Taking and giving back locks leaves the store as it is.
LEMMA LocksServed ==
    ASSUME ServedInv, LockInv', NEW t \in Thread,
           \/ \E k \in Kinds, s \in Scope : Begin(t, k, s)
           \/ AcquireVisitor(t) \/ Unread(t) \/ LookupTabLock(t) \/ AcquireTab(t)
           \/ ReleaseTab(t) \/ ReleaseVisitor(t) \/ Leave(t)
    PROVE  ServedInv' /\ \A u \in Thread : PressedOut(u)
<1>1. LockTypes /\ held \in [Thread -> {"none", "live", "orphan"}]
      /\ kind \in [Thread -> Kinds \cup {None}]
  BY DEF ServedInv, LockInv
<1>2. /\ UNCHANGED <<reg, now>>
      /\ held' \in {held, [held EXCEPT ![t] = "none"]}
      /\ \A u \in Thread \ {t} :
            pc'[u] = pc[u] /\ kind'[u] = kind[u] /\ scope'[u] = scope[u]
      /\ kind' \in [Thread -> Kinds \cup {None}]
  BY <1>1, ThreadAssumption DEF LockTypes, Begin, AcquireVisitor, Unread, LookupTabLock, AcquireTab,
     ReleaseTab, ReleaseVisitor, Leave, Goto
<1>3. /\ pc'[t] \in Admitted \cap {"tabLock", "fetch", "act"}
            => pc[t] \in Admitted /\ scope'[t] = scope[t]
      /\ pc'[t] \notin {"lookupTab", "render"}
      /\ pc'[t] = "fetch" => kind'[t] \in {"view", "editA", "editB"}
      /\ pc[t] \notin {"act", "render"}
      /\ pc[t] = "releaseTab" => held'[t] = "none"
  BY <1>1 DEF LockTypes, Begin, AcquireVisitor, Unread, LookupTabLock, AcquireTab,
     ReleaseTab, ReleaseVisitor, Leave, Goto, Admitted
<1>4. \A u \in Thread : held'[u] \in {held[u], "none"}
  BY <1>1, <1>2
<1>5. held'[t] # "live"
  BY <1>1, <1>3, <1>4 DEF ServedInv, HeldGood
<1>6. \A u \in Thread : HeldGood(u)'
  BY <1>2, <1>4, <1>5 DEF ServedInv, HeldGood, EditedPanel
<1>7. \A u \in Thread : Room(u)'
  BY <1>2, <1>3 DEF ServedInv, Room, Admitted
<1>8. FetchKinds'
  BY <1>2, <1>3 DEF ServedInv, FetchKinds
<1>9. StoreGood' /\ TabsWithinLimit'
  BY <1>2 DEF ServedInv, StoreGood, IInv, TabsWithinLimit
<1>10. \A u \in Thread : PressedOut(u)
  BY <1>4 DEF PressedOut
<1>11. held' \in [Thread -> {"none", "live", "orphan"}]
  BY <1>1, <1>2
<1> QED
  BY <1>2, <1>6, <1>7, <1>8, <1>9, <1>10, <1>11 DEF ServedInv

\* Time passes.
LEMMA TickServed ==
    ASSUME ServedInv, LockInv', UNCHANGED reg, now' \in {now, now + 1},
           UNCHANGED threadVars
    PROVE  ServedInv' /\ \A u \in Thread : PressedOut(u)
<1>1. UNCHANGED <<pc, kind, scope, held>>
  BY DEF threadVars
<1>2. StoreGood'
  BY SeenIsNat DEF ServedInv, StoreGood, IInv
<1>3. \A u \in Thread : HeldGood(u)' /\ Room(u)' /\ PressedOut(u)
  BY <1>1 DEF ServedInv, HeldGood, Room, EditedPanel, PressedOut
<1> QED
  BY <1>1, <1>2, <1>3 DEF ServedInv, FetchKinds, TabsWithinLimit

LEMMA ServedInit == RequestInit => ServedInv
<1> SUFFICES ASSUME RequestInit PROVE ServedInv
  OBVIOUS
<1>1. LockInv
  BY LocksInitGood
<1>2. IInv
  BY InitGood DEF RequestInit
<1>3. Live(reg) = {}
  BY DEF RequestInit, Init, Live
<1>4. TabsWithinLimit
  <2>1. Cardinality({}) = 0 /\ MaxTabs \in Nat
    BY FS_EmptySet, ThreadAssumption
  <2>2. \A v \in Visitor : Live(reg) \cap ScopesOf(v) = {}
    BY <1>3
  <2> QED
    BY <2>1, <2>2, SMTT(30) DEF TabsWithinLimit
<1> QED
  BY <1>1, <1>2, <1>3, <1>4
  DEF RequestInit, ServedInv, StoreGood, FetchKinds, HeldGood, Room, Admitted

LEMMA ServedStep ==
    ServedInv /\ [RequestNext]_requestVars
        => ServedInv' /\ \A u \in Thread : PressedOut(u)
<1> SUFFICES ASSUME ServedInv, [RequestNext]_requestVars
             PROVE  ServedInv' /\ \A u \in Thread : PressedOut(u)
  OBVIOUS
<1>1. LockInv'
  BY LocksStepGood DEF ServedInv
<1>2. CASE UNCHANGED requestVars \/ (Tick /\ UNCHANGED threadVars)
  BY <1>1, <1>2, TickServed DEF requestVars, Tick
<1>3. ASSUME NEW t \in Thread, NEW k \in Kinds, NEW s \in Scope, Begin(t, k, s)
      PROVE  ServedInv' /\ \A u \in Thread : PressedOut(u)
  BY <1>1, <1>3, LocksServed
<1>4. ASSUME NEW t \in Thread, Progress(t)
      PROVE  ServedInv' /\ \A u \in Thread : PressedOut(u)
  BY <1>1, <1>4, LocksServed, AdmitServed, FetchServed, ActServed, RenderServed,
     RaiseServed, DeleteServed DEF Progress
<1>5. ASSUME NEW l \in Lock, CollectAbandoned(l)
      PROVE  ServedInv' /\ \A u \in Thread : PressedOut(u)
  <2>1. UNCHANGED <<reg, now, pc, kind, scope, held>>
    BY <1>5 DEF CollectAbandoned
  <2>2. StoreGood' /\ TabsWithinLimit'
    BY <2>1 DEF ServedInv, StoreGood, IInv, TabsWithinLimit
  <2>3. \A u \in Thread : HeldGood(u)' /\ Room(u)' /\ PressedOut(u)
    BY <2>1 DEF ServedInv, HeldGood, Room, EditedPanel, PressedOut
  <2> QED
    BY <1>1, <2>1, <2>2, <2>3 DEF ServedInv, FetchKinds
<1> QED
  BY <1>2, <1>3, <1>4, <1>5 DEF RequestNext

\* The registry, the locks and the states in the hands of requests, together.
THEOREM RequestsServed == RequestSpec => []ServedInv
<1>1. ServedInv /\ [RequestNext]_requestVars => ServedInv'
  BY ServedStep
<1> QED
  BY <1>1, ServedInit, PTL DEF RequestSpec

\* Threads stand where the hooks put them, with tabs and answers of the right
\* kind, for every number of threads and tabs.
THEOREM RequestsTyped == RequestSpec => []RequestTypeOK
<1>1. ServedInv => RequestTypeOK
  <2> SUFFICES ASSUME ServedInv PROVE RequestTypeOK
    OBVIOUS
  <2>1. LockTypes /\ \A t \in Thread : Names(t)
    BY DEF ServedInv, LockInv
  <2>2. \A t \in Thread : pc[t] = "idle" <=> vlock[t] = None
    BY <2>1, ThreadAssumption DEF Names
  <2>3. TypeOK
    BY DEF ServedInv, StoreGood, IInv, Good, TypeOK
  <2> QED
    BY <2>1, <2>2, <2>3 DEF ServedInv, LockTypes, RequestTypeOK
<1> QED
  BY <1>1, RequestsServed, PTL

\* However many threads serve however many tabs, no visitor ever has more than
\* MAX_TABS_PER_VISITOR of them registered, although the check and the creation
\* are separate steps: nothing of the same visitor runs in between.
THEOREM TabLimitHolds == RequestSpec => []TabsWithinLimit
<1>1. ServedInv => TabsWithinLimit
  BY DEF ServedInv
<1> QED
  BY <1>1, RequestsServed, PTL

\* The answer to an edit shows the edit, unless its state was pressed out.
THEOREM EditsAreVisible == RequestSpec => []EditVisible
<1>1. ServedInv => EditVisible
  BY DEF ServedInv, HeldGood, EditedPanel, EditVisible
<1> QED
  BY <1>1, RequestsServed, PTL

\* A state leaves the registry under its request only for want of time or
\* room: no request of another visitor, and no other kind of request of its
\* own, can take it away.
THEOREM OrphansUnderPressureOnly == RequestSpec => OrphanOnlyUnderPressure
<1> DEFINE Step ==
        \A t \in Thread :
          held[t] = "live" /\ held'[t] = "orphan" =>
             \/ TTL > 0 /\ now - reg.seen[scope[t]] > TTL
             \/ Cardinality({k \in Live(reg') \ {scope[t]} :
                               reg'.seen[k] >= reg.seen[scope[t]]}) >= MaxScopes
<1>1. ServedInv /\ [RequestNext]_requestVars => [Step]_requestVars
  BY ServedStep DEF PressedOut
<1> QED
  BY <1>1, RequestsServed, PTL DEF RequestSpec, OrphanOnlyUnderPressure

-----------------------------------------------------------------------------
(* The key of the chart cache                                              *)

\* Twice the triangular numbers, t * (t + 1), one to the next.
LEMMA Triangles ==
    ASSUME NEW t \in Nat, NEW u \in Nat, t < u
    PROVE  (t * (t + 1)) \div 2 + t < (u * (u + 1)) \div 2
<1>1. t * (t + 1) + 2 * (t + 1) <= u * (u + 1)
  <2> DEFINE n == u - (t + 1)
  <2>1. n \in Nat /\ u = t + 1 + n
    OBVIOUS
  <2> HIDE DEF n
  <2>2. u * (u + 1) = t * (t + 1) + 2 * (t + 1) + (2 * t + 3) * n + n * n
    BY <2>1
  <2>3. (2 * t + 3) * n \in Nat /\ n * n \in Nat
    BY <2>1
  <2> QED
    BY <2>2, <2>3
<1> DEFINE p == t * (t + 1)
           q == u * (u + 1)
<1>2. p \in Nat /\ q \in Nat /\ p + 2 * (t + 1) <= q
  BY <1>1
<1> HIDE DEF p, q
<1>3. p \div 2 + t < q \div 2
  BY <1>2
<1> QED
  BY <1>3 DEF p, q

\* Cantor's pairing tells any two pairs of numbers apart.
LEMMA PairingInjective ==
    ASSUME NEW m \in Nat, NEW n \in Nat, NEW i \in Nat, NEW j \in Nat,
           ((m + n) * (m + n + 1)) \div 2 + n = ((i + j) * (i + j + 1)) \div 2 + j
    PROVE  m = i /\ n = j
<1> DEFINE t == m + n
           u == i + j
           T == (t * (t + 1)) \div 2
           U == (u * (u + 1)) \div 2
<1>1. t \in Nat /\ u \in Nat /\ n <= t /\ j <= u
  OBVIOUS
<1>2. T \in Nat /\ U \in Nat
  <2>1. t * (t + 1) \in Nat /\ u * (u + 1) \in Nat
    BY <1>1
  <2> QED
    BY <2>1
<1>3. T + n = U + j
  OBVIOUS
<1>4. t < u => T + t < U
  BY <1>1, Triangles
<1>5. u < t => U + u < T
  BY <1>1, Triangles
<1>6. t = u => T = U
  OBVIOUS
<1> HIDE DEF T, U
<1>7. t = u /\ n = j
  BY <1>1, <1>2, <1>3, <1>4, <1>5, <1>6
<1> QED
  BY <1>7

Panel == PlannerState \cup {None}

\* "Pair A/B revisions into one collision-free non-negative cache revision":
\* equal numbers come from equal revisions of A, and from two panels B of
\* equal revisions or from no panel B twice.
THEOREM CombinedRevisionInjective ==
    ASSUME NEW a \in PlannerState, NEW c \in PlannerState,
           NEW b \in Panel, NEW d \in Panel
    PROVE  /\ CombinedRevision(a, b) \in Nat
           /\ CombinedRevision(a, b) = CombinedRevision(c, d) =>
                 /\ a.rev = c.rev
                 /\ b = None <=> d = None
                 /\ b # None => b.rev = d.rev
<1> DEFINE n == IF b = None THEN 0 ELSE b.rev + 1
           j == IF d = None THEN 0 ELSE d.rev + 1
<1>1. a.rev \in Nat /\ c.rev \in Nat /\ n \in Nat /\ j \in Nat
  BY DEF Panel, PlannerState
<1>2. /\ CombinedRevision(a, b) = ((a.rev + n) * (a.rev + n + 1)) \div 2 + n
      /\ CombinedRevision(c, d) = ((c.rev + j) * (c.rev + j + 1)) \div 2 + j
  BY DEF CombinedRevision
<1>3. /\ b = None => n = 0
      /\ b # None => n = b.rev + 1 /\ b.rev \in Nat
      /\ d = None => j = 0
      /\ d # None => j = d.rev + 1 /\ d.rev \in Nat
  BY DEF Panel, PlannerState
<1> HIDE DEF n, j
<1>4. CombinedRevision(a, b) \in Nat
  <2>1. (a.rev + n) * (a.rev + n + 1) \in Nat
    BY <1>1
  <2> QED
    BY <1>1, <1>2, <2>1
<1>5. CombinedRevision(a, b) = CombinedRevision(c, d) => a.rev = c.rev /\ n = j
  <2> DEFINE m == a.rev
             i == c.rev
  <2>1. m \in Nat /\ i \in Nat /\ n \in Nat /\ j \in Nat
    BY <1>1
  <2>2. /\ CombinedRevision(a, b) = ((m + n) * (m + n + 1)) \div 2 + n
        /\ CombinedRevision(c, d) = ((i + j) * (i + j + 1)) \div 2 + j
    BY <1>2
  <2> HIDE DEF m, i
  <2>3. CombinedRevision(a, b) = CombinedRevision(c, d) => m = i /\ n = j
    BY <2>1, <2>2, PairingInjective
  <2> QED
    BY <2>3 DEF m, i
<1> QED
  BY <1>3, <1>4, <1>5

-----------------------------------------------------------------------------
(* Ordered dictionaries                                                    *)

In(x, seq) == \E i \in 1..Len(seq) : seq[i] = x

\* Dropping the k-th place shifts what is behind it.
LEMMA WithoutOne ==
    ASSUME NEW S, NEW seq \in Seq(S), NEW k \in 1..Len(seq)
    PROVE  /\ Without(seq, {k}) \in Seq(S)
           /\ Len(Without(seq, {k})) = Len(seq) - 1
           /\ \A j \in 1..(k - 1) : Without(seq, {k})[j] = seq[j]
           /\ \A j \in k..(Len(seq) - 1) : Without(seq, {k})[j] = seq[j + 1]
<1> DEFINE front == SubSeq(seq, 1, k - 1)
           back == SubSeq(seq, k + 1, Len(seq))
<1>1. Len(seq) \in Nat
  OBVIOUS
<1>2. /\ front \in Seq(S) /\ Len(front) = k - 1
      /\ \A j \in 1..(k - 1) : front[j] = seq[j]
  <2>1. \A j \in 1..(k - 1) : seq[j] \in S
    BY <1>1
  <2> QED
    BY <1>1, <2>1, SubSeqProperties
<1>3. /\ back \in Seq(S) /\ Len(back) = Len(seq) - k
      /\ \A j \in 1..(Len(seq) - k) : back[j] = seq[k + j]
  <2>1. \A j \in (k + 1)..Len(seq) : seq[j] \in S
    BY <1>1
  <2> QED
    BY <1>1, <2>1, SubSeqProperties
<1>4. Without(seq, {k}) = front \o back
  <2>1. (CHOOSE i \in {k} : TRUE) = k
    OBVIOUS
  <2> QED
    BY <2>1 DEF Without, RemoveAt
<1> HIDE DEF front, back
<1>5. /\ front \o back \in Seq(S)
      /\ Len(front \o back) = Len(seq) - 1
      /\ \A j \in 1..(Len(seq) - 1) :
            (front \o back)[j] = IF j <= k - 1 THEN front[j] ELSE back[j - (k - 1)]
  <2>1. /\ front \o back \in Seq(S)
        /\ Len(front \o back) = Len(front) + Len(back)
        /\ \A j \in 1..(Len(front) + Len(back)) :
              (front \o back)[j] = IF j <= Len(front) THEN front[j] ELSE back[j - Len(front)]
    BY <1>2, <1>3, ConcatProperties
  <2>2. Len(front) = k - 1 /\ Len(front) + Len(back) = Len(seq) - 1
    BY <1>1, <1>2, <1>3
  <2> QED
    BY <2>1, <2>2
<1>6. \A j \in 1..(k - 1) : (front \o back)[j] = seq[j]
  BY <1>1, <1>2, <1>5
<1>7. ASSUME NEW j \in k..(Len(seq) - 1) PROVE (front \o back)[j] = seq[j + 1]
  <2>1. j - (k - 1) \in 1..(Len(seq) - k) /\ k + (j - (k - 1)) = j + 1
    BY <1>1
  <2> QED
    BY <1>1, <1>3, <1>5, <2>1
<1> QED
  BY <1>4, <1>5, <1>6, <1>7

\* Every place of what is left is a place of the sequence.
LEMMA WithoutPlaces ==
    ASSUME NEW S, NEW seq \in Seq(S), NEW k \in 1..Len(seq)
    PROVE  \A j \in 1..Len(Without(seq, {k})) :
              \E i \in 1..Len(seq) :
                 /\ i # k
                 /\ Without(seq, {k})[j] = seq[i]
                 /\ i = IF j < k THEN j ELSE j + 1
<1> DEFINE w == Without(seq, {k})
<1>1. /\ w \in Seq(S)
      /\ Len(w) = Len(seq) - 1
      /\ \A j \in 1..(k - 1) : w[j] = seq[j]
      /\ \A j \in k..(Len(seq) - 1) : w[j] = seq[j + 1]
  BY WithoutOne
<1>2. Len(seq) \in Nat
  OBVIOUS
<1> HIDE DEF w
<1>3. ASSUME NEW j \in 1..Len(w), j < k
      PROVE  j \in 1..Len(seq) /\ j # k /\ w[j] = seq[j]
  BY <1>1, <1>2, <1>3
<1>4. ASSUME NEW j \in 1..Len(w), ~(j < k)
      PROVE  j + 1 \in 1..Len(seq) /\ j + 1 # k /\ w[j] = seq[j + 1]
  BY <1>1, <1>2, <1>4
<1>5. \A j \in 1..Len(w) :
         \E i \in 1..Len(seq) :
            i # k /\ w[j] = seq[i] /\ i = IF j < k THEN j ELSE j + 1
  BY <1>3, <1>4
<1> QED
  BY <1>5 DEF w

\* popitem(last=False) keeps the end.
LEMMA LastNPlace ==
    ASSUME NEW S, NEW seq \in Seq(S), NEW n \in Nat
    PROVE  /\ LastN(seq, n) \in Seq(S)
           /\ Len(LastN(seq, n)) = IF Len(seq) > n THEN n ELSE Len(seq)
           /\ \A j \in 1..Len(LastN(seq, n)) :
                 LastN(seq, n)[j] = seq[j + (Len(seq) - Len(LastN(seq, n)))]
<1>1. Len(seq) \in Nat
  OBVIOUS
<1>2. CASE Len(seq) > n
  <2> DEFINE m == Len(seq) - n + 1
             q == SubSeq(seq, m, Len(seq))
  <2>1. \A j \in m..Len(seq) : seq[j] \in S
    BY <1>1, <1>2
  <2>2. /\ q \in Seq(S)
        /\ Len(q) = IF m <= Len(seq) THEN Len(seq) - m + 1 ELSE 0
        /\ \A j \in 1..(Len(seq) - m + 1) : q[j] = seq[m + j - 1]
    BY <1>1, <2>1, SubSeqProperties
  <2>3. LastN(seq, n) = q
    BY <1>2 DEF LastN
  <2> HIDE DEF q
  <2> HIDE DEF m
  <2>4. m \in Nat /\ Len(seq) - m + 1 = n /\ (m <= Len(seq) <=> n >= 1)
    BY <1>1, <1>2 DEF m
  <2>5. q \in Seq(S) /\ Len(q) = n /\ \A j \in 1..n : q[j] = seq[m + j - 1]
    <3>1. 1..(Len(seq) - m + 1) = 1..n
      BY <2>4
    <3>2. Len(q) = n
      BY <2>2, <2>4
    <3> QED
      BY <2>2, <3>1, <3>2
  <2>6. \A j \in 1..n : m + j - 1 = j + (Len(seq) - n)
    BY <1>1, <2>4
  <2> QED
    BY <1>2, <2>3, <2>5, <2>6
<1>3. CASE ~(Len(seq) > n)
  BY <1>1, <1>3 DEF LastN
<1> QED
  BY <1>2, <1>3

\* What moving to the end does to an ordered dictionary: one more key at most,
\* no other lost, none twice.
LEMMA ToEndKeeps ==
    ASSUME NEW S, NEW seq \in Seq(S), NEW x \in S,
           \A i, j \in 1..Len(seq) : seq[i] = seq[j] => i = j
    PROVE  LET q == ToEnd(seq, x)
           IN  /\ q \in Seq(S)
               /\ Len(q) = IF In(x, seq) THEN Len(seq) ELSE Len(seq) + 1
               /\ Len(q) >= 1 /\ q[Len(q)] = x
               /\ \A i, j \in 1..Len(q) : q[i] = q[j] => i = j
               /\ \A y \in S : In(y, q) <=> In(y, seq) \/ y = x
<1> DEFINE I == {i \in 1..Len(seq) : seq[i] = x}
           w == Without(seq, I)
           q == Append(w, x)
<1>1. ToEnd(seq, x) = q /\ Len(seq) \in Nat
  BY DEF ToEnd
\* What is left are the other keys, in their order.
<1>2. /\ w \in Seq(S)
      /\ Len(w) = IF In(x, seq) THEN Len(seq) - 1 ELSE Len(seq)
      /\ \A i, j \in 1..Len(w) : w[i] = w[j] => i = j
      /\ \A y \in S : In(y, w) <=> In(y, seq) /\ y # x
  <2>1. CASE ~In(x, seq)
    <3>1. I = {} /\ w = seq
      BY <2>1 DEF In, Without
    <3> QED
      BY <2>1, <3>1 DEF In
  <2>2. CASE In(x, seq)
    <3>1. PICK k \in 1..Len(seq) : seq[k] = x
      BY <2>2 DEF In
    <3>2. I = {k}
      BY <3>1
    <3> HIDE DEF I
    <3>3. /\ w \in Seq(S)
          /\ Len(w) = Len(seq) - 1
          /\ \A j \in 1..(k - 1) : w[j] = seq[j]
          /\ \A j \in k..(Len(seq) - 1) : w[j] = seq[j + 1]
      BY <3>2, WithoutOne
    <3> HIDE DEF w
    <3>4. \A j \in 1..Len(w) :
             \E i \in 1..Len(seq) :
                i # k /\ w[j] = seq[i] /\ i = IF j < k THEN j ELSE j + 1
      BY <3>2, WithoutPlaces DEF w
    <3>5. \A i, j \in 1..Len(w) : w[i] = w[j] => i = j
      BY <1>1, <3>3, <3>4
    <3>6. \A i \in 1..Len(seq) : i # k => \E j \in 1..Len(w) : w[j] = seq[i]
      <4>1. ASSUME NEW i \in 1..Len(seq), i < k
            PROVE  i \in 1..Len(w) /\ w[i] = seq[i]
        BY <1>1, <3>3, <4>1
      <4>2. ASSUME NEW i \in 1..Len(seq), i > k
            PROVE  i - 1 \in 1..Len(w) /\ w[i - 1] = seq[i]
        <5>1. i - 1 \in k..(Len(seq) - 1) /\ (i - 1) + 1 = i
          BY <1>1, <4>2
        <5> QED
          BY <1>1, <3>3, <5>1
      <4>3. \A i \in 1..Len(seq) : i # k => i < k \/ i > k
        BY <1>1
      <4> QED
        BY <4>1, <4>2, <4>3
    <3>7. ASSUME NEW y \in S, In(y, w) PROVE In(y, seq) /\ y # x
      <4>1. PICK j \in 1..Len(w) : w[j] = y
        BY <3>7 DEF In
      <4>2. PICK i \in 1..Len(seq) : i # k /\ w[j] = seq[i]
        BY <3>4
      <4> QED
        BY <3>1, <4>1, <4>2 DEF In
    <3>8. ASSUME NEW y \in S, In(y, seq), y # x PROVE In(y, w)
      BY <3>1, <3>6, <3>8 DEF In
    <3> QED
      BY <2>2, <3>3, <3>5, <3>7, <3>8
  <2> QED
    BY <2>1, <2>2
<1> HIDE DEF I, w
<1>3. /\ q \in Seq(S)
      /\ Len(q) = Len(w) + 1
      /\ \A j \in 1..Len(w) : q[j] = w[j]
      /\ q[Len(w) + 1] = x
      /\ Len(w) \in Nat
  BY <1>2, AppendProperties
<1> HIDE DEF q
<1>4. \A j \in 1..Len(w) : w[j] # x /\ w[j] \in S
  BY <1>2 DEF In
<1>5. ASSUME NEW i \in 1..Len(q), NEW j \in 1..Len(q), q[i] = q[j]
      PROVE  i = j
  <2>1. \A m \in 1..Len(q) : m = Len(w) + 1 \/ m \in 1..Len(w)
    BY <1>3
  <2>2. CASE i \in 1..Len(w) /\ j \in 1..Len(w)
    BY <1>2, <1>3, <1>5, <2>2
  <2>3. CASE i = Len(w) + 1 /\ j \in 1..Len(w)
    BY <1>3, <1>4, <1>5, <2>3
  <2>4. CASE i \in 1..Len(w) /\ j = Len(w) + 1
    BY <1>3, <1>4, <1>5, <2>4
  <2> QED
    BY <2>1, <2>2, <2>3, <2>4
<1>6. \A y \in S : In(y, q) <=> In(y, w) \/ y = x
  BY <1>3 DEF In
<1>7. Len(q) = (IF In(x, seq) THEN Len(seq) ELSE Len(seq) + 1) /\ Len(q) >= 1
  BY <1>1, <1>2, <1>3
<1> QED
  BY <1>1, <1>2, <1>3, <1>5, <1>6, <1>7

-----------------------------------------------------------------------------
(* The entries of a scope                                                  *)

Key == {KeyOf(a, b) : a \in PlannerState, b \in Panel}
Entry == [key : Key, body : Doc \X (Doc \cup {None}), old : BOOLEAN]
KeysOnce(seq) == \A i, j \in 1..Len(seq) : seq[i].key = seq[j].key => i = j

\* A hit only reorders the entries.
LEMMA HitKeeps ==
    ASSUME NEW seq \in Seq(Entry), KeysOnce(seq), NEW e \in Entry, In(e, seq)
    PROVE  /\ ToEnd(seq, e) \in Seq(Entry)
           /\ Len(ToEnd(seq, e)) = Len(seq)
           /\ KeysOnce(ToEnd(seq, e))
           /\ \A y \in Entry : In(y, ToEnd(seq, e)) <=> In(y, seq)
<1> DEFINE q == ToEnd(seq, e)
<1>1. \A i, j \in 1..Len(seq) : seq[i] = seq[j] => i = j
  BY DEF KeysOnce
<1>2. /\ q \in Seq(Entry)
      /\ Len(q) = Len(seq)
      /\ \A i, j \in 1..Len(q) : q[i] = q[j] => i = j
      /\ \A y \in Entry : In(y, q) <=> In(y, seq) \/ y = e
  BY <1>1, ToEndKeeps
<1> HIDE DEF q
<1>3. \A i \in 1..Len(q) : q[i] \in Entry /\ In(q[i], q)
  BY <1>2 DEF In
<1>4. ASSUME NEW i \in 1..Len(q), NEW j \in 1..Len(q), q[i].key = q[j].key
      PROVE  i = j
  <2>1. In(q[i], seq) /\ In(q[j], seq)
    BY <1>2, <1>3
  <2>2. q[i] = q[j]
    BY <1>4, <2>1 DEF In, KeysOnce
  <2> QED
    BY <1>2, <2>2
<1>5. KeysOnce(q)
  BY <1>4 DEF KeysOnce
<1> QED
  BY <1>2, <1>5 DEF q

\* put leaves the new entry, the only one of its key, and older ones.
LEMMA PutKeeps ==
    ASSUME NEW seq \in Seq(Entry), KeysOnce(seq), NEW e \in Entry
    PROVE  LET kept == Without(seq, {i \in 1..Len(seq) : seq[i].key = e.key})
               q    == LastN(Append(kept, e), MaxEntries)
           IN  /\ q \in Seq(Entry)
               /\ Len(q) >= 1 /\ Len(q) <= MaxEntries
               /\ KeysOnce(q)
               /\ \A y \in Entry : In(y, q) => In(y, seq) \/ y = e
<1> DEFINE I == {i \in 1..Len(seq) : seq[i].key = e.key}
           w == Without(seq, I)
           p == Append(w, e)
           q == LastN(p, MaxEntries)
<1>1. Len(seq) \in Nat
  OBVIOUS
<1>2. /\ w \in Seq(Entry)
      /\ \A j \in 1..Len(w) : w[j].key # e.key /\ In(w[j], seq)
      /\ KeysOnce(w)
  <2>1. CASE I = {}
    <3>1. w = seq
      BY <2>1 DEF Without
    <3> QED
      BY <2>1, <3>1 DEF In, KeysOnce
  <2>2. CASE I # {}
    <3>1. PICK k \in 1..Len(seq) : seq[k].key = e.key
      BY <2>2
    <3>2. I = {k}
      BY <3>1 DEF KeysOnce
    <3> HIDE DEF I
    <3>0. w = Without(seq, {k})
      BY <3>2
    <3> HIDE DEF w
    <3>3. /\ w \in Seq(Entry)
          /\ \A j \in 1..Len(w) :
                \E i \in 1..Len(seq) :
                   i # k /\ w[j] = seq[i] /\ i = IF j < k THEN j ELSE j + 1
      <4>1. Without(seq, {k}) \in Seq(Entry)
        BY WithoutOne
      <4>2. \A j \in 1..Len(Without(seq, {k})) :
               \E i \in 1..Len(seq) :
                  /\ i # k
                  /\ Without(seq, {k})[j] = seq[i]
                  /\ i = IF j < k THEN j ELSE j + 1
        BY WithoutPlaces
      <4> QED
        BY <3>0, <4>1, <4>2
    <3>4. \A j \in 1..Len(w) : w[j].key # e.key /\ In(w[j], seq)
      BY <3>1, <3>3 DEF In, KeysOnce
    <3>5. KeysOnce(w)
      BY <1>1, <3>1, <3>3 DEF KeysOnce
    <3> QED
      BY <3>3, <3>4, <3>5
  <2> QED
    BY <2>1, <2>2
<1> HIDE DEF I, w
<1>3. /\ p \in Seq(Entry)
      /\ Len(p) = Len(w) + 1
      /\ \A j \in 1..Len(w) : p[j] = w[j]
      /\ p[Len(w) + 1] = e
      /\ Len(w) \in Nat
  BY <1>2, AppendProperties
<1> HIDE DEF p
<1>4. \A j \in 1..Len(p) : j \in 1..Len(w) \/ j = Len(w) + 1
  BY <1>3
<1>5. KeysOnce(p)
  BY <1>2, <1>3, <1>4 DEF KeysOnce
<1>6. \A j \in 1..Len(p) : In(p[j], seq) \/ p[j] = e
  BY <1>2, <1>3, <1>4
<1>7. /\ q \in Seq(Entry)
      /\ Len(q) = IF Len(p) > MaxEntries THEN MaxEntries ELSE Len(p)
      /\ \A j \in 1..Len(q) : q[j] = p[j + (Len(p) - Len(q))]
  BY <1>3, LastNPlace, CacheAssumption
<1> HIDE DEF q
<1>8. Len(q) >= 1 /\ Len(q) <= MaxEntries /\ Len(q) <= Len(p)
      /\ Len(q) \in Nat /\ Len(p) \in Nat
  BY <1>3, <1>7, CacheAssumption
<1>9. \A j \in 1..Len(q) : j + (Len(p) - Len(q)) \in 1..Len(p)
  BY <1>8
<1>10. KeysOnce(q)
  <2> SUFFICES ASSUME NEW i \in 1..Len(q), NEW j \in 1..Len(q), q[i].key = q[j].key
               PROVE  i = j
    BY DEF KeysOnce
  <2> DEFINE m == i + (Len(p) - Len(q))
             n == j + (Len(p) - Len(q))
  <2>1. m \in 1..Len(p) /\ n \in 1..Len(p) /\ p[m].key = p[n].key
    BY <1>7, <1>9
  <2> HIDE DEF m, n
  <2>2. m = n
    BY <1>5, <2>1 DEF KeysOnce
  <2> QED
    BY <1>8, <2>2 DEF m, n
<1>11. \A y \in Entry : In(y, q) => In(y, seq) \/ y = e
  BY <1>6, <1>7, <1>9 DEF In
<1> QED
  BY <1>7, <1>8, <1>10, <1>11 DEF q, p, w, I

\* The scopes of the cache after a put.
LEMMA OrderKeeps ==
    ASSUME NEW seq \in Seq(Scope), \A i, j \in 1..Len(seq) : seq[i] = seq[j] => i = j,
           NEW s \in Scope
    PROVE  LET q == LastN(ToEnd(seq, s), MaxCached)
           IN  /\ q \in Seq(Scope)
               /\ Len(q) <= MaxCached
               /\ \A i, j \in 1..Len(q) : q[i] = q[j] => i = j
               /\ In(s, q)
               /\ \A y \in Scope : In(y, q) => In(y, seq) \/ y = s
<1> DEFINE p == ToEnd(seq, s)
           q == LastN(p, MaxCached)
<1>1. /\ p \in Seq(Scope)
      /\ Len(p) >= 1 /\ p[Len(p)] = s
      /\ \A i, j \in 1..Len(p) : p[i] = p[j] => i = j
      /\ \A y \in Scope : In(y, p) <=> In(y, seq) \/ y = s
  BY ToEndKeeps
<1> HIDE DEF p
<1>2. /\ q \in Seq(Scope)
      /\ Len(q) = IF Len(p) > MaxCached THEN MaxCached ELSE Len(p)
      /\ \A j \in 1..Len(q) : q[j] = p[j + (Len(p) - Len(q))]
  BY <1>1, LastNPlace, CacheAssumption
<1> HIDE DEF q
<1>3. /\ Len(q) \in 1..MaxCached /\ Len(q) <= Len(p) /\ Len(p) \in Nat
      /\ \A j \in 1..Len(q) : j + (Len(p) - Len(q)) \in 1..Len(p)
  BY <1>1, <1>2, CacheAssumption
<1>4. \A i, j \in 1..Len(q) : q[i] = q[j] => i = j
  <2> SUFFICES ASSUME NEW i \in 1..Len(q), NEW j \in 1..Len(q), q[i] = q[j]
               PROVE  i = j
    OBVIOUS
  <2>1. i + (Len(p) - Len(q)) = j + (Len(p) - Len(q))
    BY <1>1, <1>2, <1>3
  <2> QED
    BY <1>3, <2>1
<1>5. In(s, q)
  <2>1. Len(q) \in 1..Len(q) /\ Len(q) + (Len(p) - Len(q)) = Len(p)
    BY <1>3
  <2> QED
    BY <1>1, <1>2, <2>1 DEF In
<1>6. \A y \in Scope : In(y, q) => In(y, p)
  BY <1>2, <1>3 DEF In
<1> QED
  BY <1>1, <1>2, <1>3, <1>4, <1>5, <1>6 DEF q, p

Aged(seq, F) == [i \in 1..Len(seq) |-> [seq[i] EXCEPT !.old = @ \/ F]]

\* Ageing the entries of a scope: those not old now were not old before.
LEMMA AgedKeeps ==
    ASSUME NEW seq \in Seq(Entry), NEW F \in BOOLEAN
    PROVE  /\ Aged(seq, F) \in Seq(Entry)
           /\ Len(Aged(seq, F)) = Len(seq)
           /\ KeysOnce(seq) => KeysOnce(Aged(seq, F))
           /\ \A e \in Entry : In(e, Aged(seq, F)) /\ ~e.old => ~F /\ In(e, seq)
           /\ \A i \in 1..Len(seq) : F => Aged(seq, F)[i].old
<1> DEFINE q == Aged(seq, F)
<1>1. Len(seq) \in Nat /\ \A i \in 1..Len(seq) : seq[i] \in Entry
  OBVIOUS
<1>2. ASSUME NEW e \in Entry
      PROVE  /\ [e EXCEPT !.old = @ \/ F] \in Entry
             /\ [e EXCEPT !.old = @ \/ F].key = e.key
             /\ [e EXCEPT !.old = @ \/ F].old <=> e.old \/ F
             /\ ~F => [e EXCEPT !.old = @ \/ F] = e
  <2>1. CASE F = TRUE
    <3>1. (e.old \/ F) = TRUE
      BY <2>1
    <3> QED
      BY <2>1, <3>1 DEF Entry
  <2>2. CASE F = FALSE
    <3>1. (e.old \/ F) = e.old
      BY <2>2 DEF Entry
    <3> QED
      BY <2>2, <3>1 DEF Entry
  <2> QED
    BY <2>1, <2>2
<1>3. q = [i \in 1..Len(seq) |-> [seq[i] EXCEPT !.old = @ \/ F]]
  BY DEF Aged
<1> HIDE DEF q
<1>4. q \in [1..Len(seq) -> Entry]
  BY <1>1, <1>2, <1>3
<1>5. q \in Seq(Entry) /\ Len(q) = Len(seq)
  BY <1>1, <1>4
<1>6. \A i \in 1..Len(seq) : /\ q[i].key = seq[i].key
                             /\ q[i].old <=> seq[i].old \/ F
                             /\ ~F => q[i] = seq[i]
  BY <1>1, <1>2, <1>3
<1>7. KeysOnce(seq) => KeysOnce(q)
  BY <1>5, <1>6 DEF KeysOnce
<1>8. \A e \in Entry : In(e, q) /\ ~e.old => ~F /\ In(e, seq)
  BY <1>5, <1>6 DEF In
<1> QED
  BY <1>5, <1>6, <1>7, <1>8 DEF q

-----------------------------------------------------------------------------
(* What an operation of the store does to the panels                       *)

OthersKept(s) ==
    /\ Live(reg') \subseteq Live(reg) \cup {s}
    /\ \A k \in Live(reg) \cap Live(reg') :
          k # s => reg'.a[k] = reg.a[k] /\ reg'.b[k] = reg.b[k]

\* The panels <<p, q>> were shown before the panels <<a, b>>, by one tab; at
\* their revisions an edit can only have made them unreadable.
Earlier(p, q, a, b) ==
    /\ p.rev <= a.rev
    /\ p.rev = a.rev =>
          /\ a.doc \in {p.doc, Broken}
          /\ q # None /\ b # None =>
                /\ q.rev <= b.rev
                /\ q.rev = b.rev => b.doc \in {q.doc, Broken}

\* One operation on a panel that stays, other than a duplication of A: no new
\* panel B comes with old revisions of A.
Later(a, b, c, d) ==
    /\ Earlier(a, b, c, d)
    /\ a.rev = c.rev /\ d # None => b # None

LEMMA EarlierLater ==
    ASSUME NEW p \in PlannerState, NEW q \in Panel, NEW a \in PlannerState, NEW b \in Panel,
           NEW c \in PlannerState, NEW d \in Panel, Earlier(p, q, a, b), Later(a, b, c, d)
    PROVE  Earlier(p, q, c, d)
<1>1. p.rev \in Nat /\ a.rev \in Nat /\ c.rev \in Nat
  BY DEF PlannerState
<1>2. p.rev <= c.rev /\ (p.rev = c.rev => p.rev = a.rev /\ a.rev = c.rev)
  BY <1>1 DEF Earlier, Later
<1>3. ASSUME p.rev = c.rev, q # None, d # None
      PROVE  q.rev <= d.rev /\ (q.rev = d.rev => d.doc \in {q.doc, Broken})
  <2>1. b # None
    BY <1>2, <1>3 DEF Later
  <2>2. q.rev \in Nat /\ b.rev \in Nat /\ d.rev \in Nat
    BY <1>3, <2>1 DEF Panel, PlannerState
  <2> QED
    BY <1>2, <1>3, <2>1, <2>2 DEF Earlier, Later
<1> QED
  BY <1>2, <1>3 DEF Earlier, Later

LEMMA EarlierSame ==
    ASSUME NEW a \in PlannerState, NEW b \in Panel
    PROVE  Earlier(a, b, a, b) /\ Later(a, b, a, b)
BY DEF Earlier, Later, Panel, PlannerState

LEMMA LivePanels ==
    ASSUME IInv, NEW k \in Live(reg)
    PROVE  k \in Scope /\ reg.a[k] \in PlannerState /\ reg.b[k] \in Panel
BY DEF IInv, Good, Live, Registry, Panel

LEMMA GetStateKept ==
    ASSUME IInv, NEW s \in Scope, NEW r \in GetStateFrom(reg, s), reg' = r, now' = now
    PROVE  /\ IInv'
           /\ OthersKept(s)
           /\ s \in Live(reg')
           /\ s \in Live(reg) => reg'.a[s] = reg.a[s] /\ reg'.b[s] = reg.b[s]
<1>1. Good(reg) /\ now \in Nat
  BY DEF IInv
<1>2. /\ s \in Live(r)
      /\ Live(r) \subseteq Live(reg) \cup {s}
      /\ \A k \in Live(reg) \cap Live(r) : r.a[k] = reg.a[k] /\ r.b[k] = reg.b[k]
  BY <1>1, GetStateBounds
<1>3. GetState(s)
  BY DEF GetState
<1>4. IInv'
  BY <1>3, StepGood DEF Next, ScopeNext
<1> QED
  BY <1>2, <1>4 DEF OthersKept

LEMMA DuplicateKept ==
    ASSUME IInv, NEW s \in Scope, DuplicateCompareState(s)
    PROVE  IInv' /\ OthersKept(s)
<1>1. PICK r \in GetStateFrom(reg, s) :
         \/ reg' = r
         \/ reg' = Touch([r EXCEPT !.b[s] = [r.a[s] EXCEPT !.rev = @ + 1]], s)
  BY DEF DuplicateCompareState
<1>2. Good(reg) /\ now \in Nat
  BY DEF IInv
<1>3. /\ Good(r)
      /\ Live(r) \subseteq Live(reg) \cup {s}
      /\ \A k \in Live(reg) \cap Live(r) : r.a[k] = reg.a[k] /\ r.b[k] = reg.b[k]
  BY <1>2, GetStateBounds
<1>4. /\ reg'.a = r.a
      /\ \A k \in Scope : k # s => reg'.b[k] = r.b[k]
  BY <1>1, <1>3 DEF Touch, Good, Registry
<1>5. Live(reg') = Live(r)
  BY <1>4 DEF Live
<1>6. IInv'
  BY StepGood DEF Next, ScopeNext
<1>7. \A k \in Live(r) : k \in Scope
  BY DEF Live
<1> QED
  BY <1>3, <1>4, <1>5, <1>6, <1>7 DEF OthersKept

\* reset_state and replace_scope_states.
LEMMA InstallKept ==
    ASSUME IInv, NEW s \in Scope, NEW dA \in Doc, NEW dB \in Doc \cup {None},
           reg' \in Prune(Install(reg, s, dA, dB), s)
    PROVE  /\ OthersKept(s)
           /\ s \in Live(reg) \cap Live(reg') => reg'.a[s].rev > reg.a[s].rev
<1> DEFINE i == Install(reg, s, dA, dB)
<1>1. Good(reg) /\ now \in Nat
  BY DEF IInv
<1>2. /\ Good(i)
      /\ \A k \in Scope \ {s} : i.a[k] = reg.a[k] /\ i.b[k] = reg.b[k]
      /\ Live(i) = Live(reg) \cup {s}
      /\ s \in Live(reg) => i.a[s].rev > reg.a[s].rev
  BY <1>1, InstallGood
<1>3. reg' \in Prune(i, s)
  OBVIOUS
<1> HIDE DEF i
<1>4. /\ Live(reg') \subseteq Live(i)
      /\ \A k \in Live(reg') : reg'.a[k] = i.a[k] /\ reg'.b[k] = i.b[k]
  BY <1>2, <1>3, PruneBounds
<1>5. \A k \in Live(reg) : k \in Scope
  BY DEF Live
<1> QED
  BY <1>2, <1>4, <1>5 DEF OthersKept

\* A request's operations, other than a duplication, that change a panel.
Change(s) ==
    \/ GetState(s)
    \/ ResetState(s, TRUE)
    \/ \E dA \in Readable, dB \in Readable \cup {None} : ReplaceScopeStates(s, dA, dB)
    \/ ClearCompareState(s)
    \/ \E d \in Readable : EditA(s, d, 1) \/ EditB(s, d, 1)
    \/ FailA(s)
    \/ FailB(s)

LEMMA ChangeKept ==
    ASSUME IInv, NEW s \in Scope, Change(s)
    PROVE  /\ IInv'
           /\ OthersKept(s)
           /\ s \in Live(reg) \cap Live(reg')
                 => Later(reg.a[s], reg.b[s], reg'.a[s], reg'.b[s])
<1>1. IInv'
  <2>1. 1 \in Bumps /\ TRUE \in BOOLEAN
    BY DEF Bumps
  <2>2. Next
    BY <2>1 DEF Change, Next, ScopeNext
  <2> QED
    BY <2>2, StepGood
<1>2. \A k \in Live(reg) : k \in Scope /\ reg.a[k] \in PlannerState /\ reg.b[k] \in Panel
  BY LivePanels
<1>3. reg \in Registry /\ reg' \in Registry
  BY <1>1 DEF IInv, Good
<1>4. \A k \in Live(reg') : reg'.a[k].rev \in Nat
  BY <1>3 DEF Live, Registry, PlannerState
<1>5. \A k \in Live(reg) : reg.a[k].rev \in Nat
  BY <1>2 DEF PlannerState
<1>6. CASE GetState(s)
  <2>1. reg' \in GetStateFrom(reg, s) /\ now' = now
    BY <1>6 DEF GetState
  <2>2. /\ OthersKept(s)
        /\ s \in Live(reg) => reg'.a[s] = reg.a[s] /\ reg'.b[s] = reg.b[s]
    BY <2>1, GetStateKept
  <2> QED
    BY <1>1, <1>2, <2>2, EarlierSame
<1>7. ASSUME NEW dA \in Doc, NEW dB \in Doc \cup {None},
             reg' \in Prune(Install(reg, s, dA, dB), s)
      PROVE  /\ OthersKept(s)
             /\ s \in Live(reg) \cap Live(reg')
                   => Later(reg.a[s], reg.b[s], reg'.a[s], reg'.b[s])
  <2>1. /\ OthersKept(s)
        /\ s \in Live(reg) \cap Live(reg') => reg'.a[s].rev > reg.a[s].rev
    BY <1>7, InstallKept
  <2> QED
    BY <1>4, <1>5, <2>1 DEF Later, Earlier
<1>8. CASE ResetState(s, TRUE)
  BY <1>1, <1>7, <1>8, ScopeAssumption DEF ResetState
<1>9. CASE \E dA \in Readable, dB \in Readable \cup {None} : ReplaceScopeStates(s, dA, dB)
  BY <1>1, <1>7, <1>9 DEF ReplaceScopeStates, Readable
<1>10. CASE ClearCompareState(s)
  <2>1. reg'.a = reg.a /\ reg'.b = [reg.b EXCEPT ![s] = None]
    BY <1>3, <1>10 DEF ClearCompareState, Registry
  <2>2. Live(reg') = Live(reg) /\ reg'.b[s] = None
    BY <1>3, <2>1 DEF Live, Registry
  <2>3. OthersKept(s)
    BY <1>2, <1>3, <2>1, <2>2 DEF OthersKept, Registry
  <2> QED
    BY <1>1, <1>5, <2>1, <2>2, <2>3 DEF Later, Earlier
<1>11. ASSUME NEW d \in Readable, EditA(s, d, 1)
       PROVE  /\ OthersKept(s)
              /\ s \in Live(reg) \cap Live(reg')
                    => Later(reg.a[s], reg.b[s], reg'.a[s], reg'.b[s])
  <2> DEFINE p == [rev |-> reg.a[s].rev + 1, doc |-> d]
  <2>1. s \in Live(reg)
    BY <1>11 DEF EditA, Live
  <2>2. reg.a[s].rev \in Nat /\ p.rev > reg.a[s].rev
    BY <1>5, <2>1
  <2>3. reg'.a = [reg.a EXCEPT ![s] = p] /\ reg'.b = reg.b
    BY <1>3, <1>11 DEF EditA, Registry
  <2> HIDE DEF p
  <2>4. reg'.a[s] = p /\ \A k \in Scope : k # s => reg'.a[k] = reg.a[k]
    BY <1>3, <2>3 DEF Registry
  <2>5. Live(reg') \subseteq Live(reg) /\ OthersKept(s)
    BY <1>2, <2>1, <2>3, <2>4 DEF Live, OthersKept
  <2> QED
    BY <1>4, <2>2, <2>4, <2>5 DEF Later, Earlier
<1>12. ASSUME NEW d \in Readable, EditB(s, d, 1)
       PROVE  /\ OthersKept(s)
              /\ s \in Live(reg) \cap Live(reg')
                    => Later(reg.a[s], reg.b[s], reg'.a[s], reg'.b[s])
  <2> DEFINE p == [rev |-> reg.b[s].rev + 1, doc |-> d]
  <2>1. reg.b[s] # None /\ s \in Live(reg)
    BY <1>12 DEF EditB, Live, IInv, Good, Coherent
  <2>2. reg.b[s].rev \in Nat
    BY <1>2, <2>1 DEF Panel, PlannerState
  <2>3. reg'.a = reg.a /\ reg'.b = [reg.b EXCEPT ![s] = p]
    BY <1>3, <1>12 DEF EditB, Registry
  <2>4. reg'.b[s] = p /\ \A k \in Scope : k # s => reg'.b[k] = reg.b[k]
    BY <1>3, <2>3 DEF Registry
  <2>5. p.rev > reg.b[s].rev /\ p.rev \in Nat
    BY <2>2
  <2> HIDE DEF p
  <2>6. Live(reg') = Live(reg)
    BY <2>3 DEF Live
  <2>7. OthersKept(s)
    BY <1>2, <2>3, <2>4, <2>6 DEF OthersKept
  <2> QED
    BY <1>5, <2>1, <2>2, <2>3, <2>4, <2>5, <2>7 DEF Later, Earlier
<1>13. CASE FailA(s)
  <2> DEFINE p == [reg.a[s] EXCEPT !.doc = Broken]
  <2>1. s \in Live(reg)
    BY <1>13 DEF FailA, Live
  <2>2. p.rev = reg.a[s].rev /\ p.doc = Broken
    BY <1>2, <2>1 DEF PlannerState
  <2>3. reg'.a = [reg.a EXCEPT ![s] = p] /\ reg'.b = reg.b
    BY <1>3, <1>13 DEF FailA, Registry
  <2> HIDE DEF p
  <2>4. reg'.a[s] = p /\ \A k \in Scope : k # s => reg'.a[k] = reg.a[k]
    BY <1>3, <2>3 DEF Registry
  <2>5. Live(reg') \subseteq Live(reg) /\ OthersKept(s)
    BY <1>2, <2>1, <2>3, <2>4 DEF Live, OthersKept
  <2>6. reg.b[s] # None => reg.b[s].rev \in Nat
    BY <1>2, <2>1 DEF Panel, PlannerState
  <2> QED
    BY <1>1, <1>5, <2>1, <2>2, <2>3, <2>4, <2>5, <2>6 DEF Later, Earlier
<1>14. CASE FailB(s)
  <2> DEFINE p == [reg.b[s] EXCEPT !.doc = Broken]
  <2>1. reg.b[s] # None /\ s \in Live(reg)
    BY <1>14 DEF FailB, Live, IInv, Good, Coherent
  <2>2. reg.b[s].rev \in Nat /\ p.rev = reg.b[s].rev /\ p.doc = Broken
    BY <1>2, <2>1 DEF Panel, PlannerState
  <2>3. reg'.a = reg.a /\ reg'.b = [reg.b EXCEPT ![s] = p]
    BY <1>3, <1>14 DEF FailB, Registry
  <2>4. reg'.b[s] = p /\ \A k \in Scope : k # s => reg'.b[k] = reg.b[k]
    BY <1>3, <2>3 DEF Registry
  <2> HIDE DEF p
  <2>5. Live(reg') = Live(reg)
    BY <2>3 DEF Live
  <2>6. OthersKept(s)
    BY <1>2, <2>3, <2>4, <2>5 DEF OthersKept
  <2> QED
    BY <1>1, <1>5, <2>1, <2>2, <2>3, <2>4, <2>6 DEF Later, Earlier
<1> QED
  BY <1>1, <1>6, <1>8, <1>9, <1>10, <1>11, <1>12, <1>13, <1>14 DEF Change

-----------------------------------------------------------------------------
(* The inductive invariant                                                 *)

ChartTypes ==
    /\ entries \in [Scope -> Seq(Entry)]
    /\ order \in Seq(Scope)
    /\ building \in [Scope -> [key : Key, a : PlannerState, b : Panel] \cup {None}]

\* What an entry shows, the tab showed at the revisions of its key.
Shown(e, a, b) ==
    \E p \in PlannerState, q \in Panel :
        e.key = KeyOf(p, q) /\ e.body = Payload(p, q) /\ Earlier(p, q, a, b)

EntriesTrue ==
    \A k \in Live(reg), e \in Entry :
        In(e, entries[k]) /\ ~e.old => Shown(e, reg.a[k], reg.b[k])

\* The panels of a chart under construction do not change while its tab stays.
BuildingTrue ==
    \A k \in Live(reg) :
        building[k] # None => building[k].key = KeyOf(reg.a[k], reg.b[k])

ChartInv ==
    /\ IInv
    /\ ChartTypes
    /\ CacheCoherent
    /\ EntriesTrue
    /\ BuildingTrue
    /\ FreshWithinLifetime

LEMMA ChartInitGood == ChartInit => ChartInv
<1> SUFFICES ASSUME ChartInit PROVE ChartInv
  OBVIOUS
<1>1. IInv
  BY InitGood DEF ChartInit
<1>2. <<>> \in Seq(Entry) /\ <<>> \in Seq(Scope) /\ Len(<<>>) = 0
  BY EmptySeq
<1>3. ChartTypes
  BY <1>2 DEF ChartInit, ChartTypes
<1>4. CacheCoherent
  BY <1>2, CacheAssumption DEF ChartInit, CacheCoherent
<1>5. EntriesTrue /\ BuildingTrue /\ FreshWithinLifetime
  <2>1. Live(reg) = {}
    BY DEF ChartInit, Init, Live
  <2> QED
    BY <2>1 DEF ChartInit, EntriesTrue, BuildingTrue, FreshWithinLifetime
<1> QED
  BY <1>1, <1>3, <1>4, <1>5 DEF ChartInv

\* The panels of the other tabs decide for the entries and the constructions
\* of every tab but one.
LEMMA OthersTrue ==
    ASSUME ChartInv, IInv', NEW s \in Scope, OthersKept(s),
           \A k \in Scope : k # s => building'[k] = building[k],
           \A k \in Scope, e \in Entry :
              k # s /\ In(e, entries'[k]) /\ ~e.old => In(e, entries[k])
    PROVE  /\ \A k \in Live(reg'), e \in Entry :
                 k # s /\ In(e, entries'[k]) /\ ~e.old => Shown(e, reg'.a[k], reg'.b[k])
           /\ \A k \in Live(reg') :
                 k # s /\ building'[k] # None
                    => building'[k].key = KeyOf(reg'.a[k], reg'.b[k])
<1>1. \A k \in Live(reg') : k # s => /\ k \in Live(reg) /\ k \in Scope
                                     /\ reg'.a[k] = reg.a[k] /\ reg'.b[k] = reg.b[k]
  BY DEF OthersKept, Live
<1> QED
  BY <1>1 DEF ChartInv, EntriesTrue, BuildingTrue

\* Ageing touches neither the keys nor the order.
LEMMA AgedCoherent ==
    ASSUME ChartInv, order' = order,
           entries' \in [Scope -> Seq(Entry)],
           \A k \in Scope : /\ Len(entries'[k]) = Len(entries[k])
                            /\ KeysOnce(entries'[k])
    PROVE  CacheCoherent'
<1>1. \A k \in Scope : entries'[k] \in Seq(Entry) /\ entries[k] \in Seq(Entry)
  BY DEF ChartInv, ChartTypes
<1>2. \A k \in Scope : entries'[k] = <<>> <=> entries[k] = <<>>
  BY <1>1, EmptySeq
<1> QED
  BY <1>2 DEF ChartInv, CacheCoherent, KeysOnce

LEMMA CoherentKeysOnce ==
    ASSUME ChartInv, NEW k \in Scope
    PROVE  entries[k] \in Seq(Entry) /\ KeysOnce(entries[k])
BY DEF ChartInv, ChartTypes, CacheCoherent, KeysOnce

-----------------------------------------------------------------------------
(* The steps                                                               *)

LEMMA ForgetVisitorGood ==
    ASSUME ChartInv, NEW v \in Visitor, ForgetVisitor(v)
    PROVE  ChartInv'
<1> DEFINE K == {k \in ScopesOf(v) : reg.a[k] # None \/ reg.b[k] # None}
<1>1. K \in SUBSET Scope /\ reg' = Forget(reg, K) /\ Good(reg)
  BY DEF ScopesOf, ForgetVisitor, DeleteVisitorStates, ChartInv, IInv
<1> HIDE DEF K
<1>2. /\ Live(reg') = Live(reg) \ K
      /\ \A k \in Scope \ K : reg'.a[k] = reg.a[k] /\ reg'.b[k] = reg.b[k]
  BY <1>1, ForgetGood
<1>3. IInv'
  BY StepGood DEF ForgetVisitor, Next, ChartInv
<1>4. UNCHANGED <<entries, order, building>> /\ served' = None
  BY DEF ForgetVisitor
<1>5. EntriesTrue' /\ BuildingTrue'
  BY <1>2, <1>4 DEF ChartInv, EntriesTrue, BuildingTrue, Live
<1> QED
  BY <1>3, <1>4, <1>5
     DEF ChartInv, ChartTypes, CacheCoherent, FreshWithinLifetime, Hits

LEMMA OtherRequestGood ==
    ASSUME ChartInv, NEW s \in Scope, OtherRequest(s)
    PROVE  ChartInv'
<1>1. /\ UNCHANGED <<order, building>>
      /\ served' = None
      /\ building[s] = None
  BY DEF OtherRequest, Free, ScopesOf
<1> DEFINE K == IF DuplicateCompareState(s) /\ Age({s}) THEN {s} ELSE Recreated
<1>2. /\ IInv' /\ OthersKept(s)
      /\ entries' = [k \in Scope |-> Aged(entries[k], k \in K)]
      /\ \A k \in Live(reg') \ K :
            k = s => s \in Live(reg) /\ Later(reg.a[s], reg.b[s], reg'.a[s], reg'.b[s])
  <2>1. CASE DuplicateCompareState(s) /\ Age({s})
    BY <2>1, DuplicateKept DEF Age, Aged, ChartInv
  <2>2. CASE ~(DuplicateCompareState(s) /\ Age({s}))
    <3>1. Change(s) /\ Age(Recreated)
      BY <2>2 DEF OtherRequest, Change
    <3>2. /\ IInv' /\ OthersKept(s)
          /\ s \in Live(reg) \cap Live(reg')
                => Later(reg.a[s], reg.b[s], reg'.a[s], reg'.b[s])
      BY <3>1, ChangeKept DEF ChartInv
    <3>3. \A k \in Live(reg') \ Recreated : k \in Live(reg)
      BY DEF Recreated, Live
    <3> QED
      BY <2>2, <3>1, <3>2, <3>3 DEF Age, Aged
  <2> QED
    BY <2>1, <2>2
<1> HIDE DEF K
<1>3. \A k \in Scope : (k \in K) \in BOOLEAN
  OBVIOUS
<1>4. \A k \in Scope :
         /\ entries'[k] \in Seq(Entry)
         /\ Len(entries'[k]) = Len(entries[k])
         /\ KeysOnce(entries'[k])
         /\ \A e \in Entry : In(e, entries'[k]) /\ ~e.old => k \notin K /\ In(e, entries[k])
  BY <1>2, <1>3, CoherentKeysOnce, AgedKeeps
<1>5. entries' \in [Scope -> Seq(Entry)]
  BY <1>2, <1>4
<1>6. CacheCoherent'
  BY <1>1, <1>4, <1>5, AgedCoherent
<1>7. ChartTypes'
  BY <1>1, <1>5 DEF ChartInv, ChartTypes
<1>8. /\ \A k \in Live(reg'), e \in Entry :
            k # s /\ In(e, entries'[k]) /\ ~e.old => Shown(e, reg'.a[k], reg'.b[k])
      /\ \A k \in Live(reg') :
            k # s /\ building'[k] # None
               => building'[k].key = KeyOf(reg'.a[k], reg'.b[k])
  BY <1>1, <1>2, <1>4, OthersTrue
\* The tab's own entries that are not old were shown before the change.
<1>9. ASSUME NEW e \in Entry, s \in Live(reg'), In(e, entries'[s]), ~e.old
      PROVE  Shown(e, reg'.a[s], reg'.b[s])
  <2>1. s \notin K /\ In(e, entries[s])
    BY <1>4, <1>9
  <2>2. s \in Live(reg) /\ Later(reg.a[s], reg.b[s], reg'.a[s], reg'.b[s])
    BY <1>2, <1>9, <2>1
  <2>3. PICK p \in PlannerState, q \in Panel :
           e.key = KeyOf(p, q) /\ e.body = Payload(p, q) /\ Earlier(p, q, reg.a[s], reg.b[s])
    BY <1>9, <2>1, <2>2 DEF ChartInv, EntriesTrue, Shown
  <2>4. /\ reg.a[s] \in PlannerState /\ reg.b[s] \in Panel
        /\ reg'.a[s] \in PlannerState /\ reg'.b[s] \in Panel
    BY <1>2, <1>9, <2>2 DEF ChartInv, IInv, Good, Live, Registry, Panel
  <2>5. Earlier(p, q, reg'.a[s], reg'.b[s])
    BY <2>2, <2>3, <2>4, EarlierLater
  <2> QED
    BY <2>3, <2>5 DEF Shown
<1>10. EntriesTrue' /\ BuildingTrue'
  BY <1>1, <1>8, <1>9 DEF EntriesTrue, BuildingTrue
<1> QED
  BY <1>1, <1>2, <1>6, <1>7, <1>10 DEF ChartInv, FreshWithinLifetime

LEMMA ChartLookupGood ==
    ASSUME ChartInv, NEW s \in Scope, ChartLookup(s)
    PROVE  ChartInv'
<1> DEFINE fresh == reg.a[s] = None
           known == Aged(entries[s], fresh)
<1>1. PICK r \in GetStateFrom(reg, s) :
         LET hits == Hits(s, KeyOf(r.a[s], r.b[s]))
         IN  /\ Broken \notin Contents(r.a[s], r.b[s])
             /\ reg' = r
             /\ IF hits # {}
                THEN \E i \in hits :
                        /\ CacheHit(s, known, known[i])
                        /\ Respond(s, known[i], r.a[s], r.b[s])
                        /\ UNCHANGED building
                ELSE /\ building' = [building EXCEPT ![s] =
                                       [key |-> KeyOf(r.a[s], r.b[s]),
                                        a |-> r.a[s], b |-> r.b[s]]]
                     /\ entries' = [entries EXCEPT ![s] = known]
                     /\ served' = None
                     /\ UNCHANGED order
  BY DEF ChartLookup, Aged
<1>2. now' = now /\ building[s] = None
  BY DEF ChartLookup, Free, ScopesOf
<1>3. /\ IInv' /\ OthersKept(s)
      /\ s \in Live(reg')
      /\ s \in Live(reg) => reg'.a[s] = reg.a[s] /\ reg'.b[s] = reg.b[s]
  BY <1>1, <1>2, GetStateKept DEF ChartInv
<1>4. reg'.a[s] \in PlannerState /\ reg'.b[s] \in Panel
  BY <1>3 DEF IInv, Good, Live, Registry, Panel
<1>5. entries[s] \in Seq(Entry) /\ KeysOnce(entries[s]) /\ fresh \in BOOLEAN
  BY CoherentKeysOnce
<1>6. /\ known \in Seq(Entry)
      /\ Len(known) = Len(entries[s])
      /\ KeysOnce(known)
      /\ \A e \in Entry : In(e, known) /\ ~e.old => ~fresh /\ In(e, entries[s])
  BY <1>5, AgedKeeps
<1>7. ~fresh => s \in Live(reg)
  BY DEF Live
<1> HIDE DEF known, fresh
<1>8. entries \in [Scope -> Seq(Entry)] /\ order \in Seq(Scope)
      /\ building \in [Scope -> [key : Key, a : PlannerState, b : Panel] \cup {None}]
  BY DEF ChartInv, ChartTypes
\* What the tab's entries showed, they show it still: it asked for its panels
\* and changed neither.
<1>9. ASSUME NEW e \in Entry, In(e, known), ~e.old
      PROVE  Shown(e, reg'.a[s], reg'.b[s])
  BY <1>3, <1>6, <1>7, <1>9 DEF ChartInv, EntriesTrue
<1>10. CASE Hits(s, KeyOf(r.a[s], r.b[s])) # {}
  <2>1. PICK i \in Hits(s, KeyOf(r.a[s], r.b[s])) :
           /\ CacheHit(s, known, known[i])
           /\ Respond(s, known[i], r.a[s], r.b[s])
           /\ UNCHANGED building
    BY <1>1, <1>10
  <2> DEFINE e == known[i]
  <2>2. /\ i \in 1..Len(entries[s])
        /\ entries[s][i].key = KeyOf(reg'.a[s], reg'.b[s])
    BY <1>1, <2>1 DEF Hits
  <2>3. e \in Entry /\ In(e, known) /\ e.key = entries[s][i].key
    <3>1. i \in 1..Len(known)
      BY <1>6, <2>2
    <3>2. e \in Entry /\ In(e, known)
      BY <1>6, <3>1 DEF In
    <3>3. e.key = entries[s][i].key
      BY <1>5, <2>2 DEF known, Aged, Entry
    <3> QED
      BY <3>2, <3>3
  <2> HIDE DEF e
  <2>4. /\ entries' = [entries EXCEPT ![s] = ToEnd(known, e)]
        /\ order' = ToEnd(order, s)
        /\ served' = [current |-> e.body = Payload(reg'.a[s], reg'.b[s]), old |-> e.old]
        /\ building' = building
    BY <1>1, <2>1 DEF CacheHit, Respond, e
  <2>5. /\ ToEnd(known, e) \in Seq(Entry)
        /\ Len(ToEnd(known, e)) = Len(known)
        /\ KeysOnce(ToEnd(known, e))
        /\ \A y \in Entry : In(y, ToEnd(known, e)) <=> In(y, known)
    BY <1>6, <2>3, HitKeeps
  <2>6. ASSUME ~e.old PROVE e.body = Payload(reg'.a[s], reg'.b[s])
    <3> DEFINE a == reg'.a[s]
               b == reg'.b[s]
    <3>1. PICK p \in PlannerState, q \in Panel :
             e.key = KeyOf(p, q) /\ e.body = Payload(p, q) /\ Earlier(p, q, a, b)
      BY <1>9, <2>3, <2>6 DEF Shown
    <3>2. CombinedRevision(p, q) = CombinedRevision(a, b)
      BY <2>2, <2>3, <3>1 DEF KeyOf
    <3> HIDE DEF a, b
    <3>3. a \in PlannerState /\ b \in Panel
      BY <1>4 DEF a, b
    <3>4. /\ p.rev = a.rev
          /\ q = None <=> b = None
          /\ q # None => q.rev = b.rev
      BY <3>2, <3>3, CombinedRevisionInjective
    <3>5. p.doc = a.doc /\ (q # None => q.doc = b.doc)
      BY <1>1, <3>1, <3>4 DEF Earlier, Contents, a, b
    <3> QED
      BY <3>1, <3>4, <3>5 DEF Payload, a, b
  <2>7. FreshWithinLifetime'
    BY <2>4, <2>6 DEF FreshWithinLifetime
  <2>8. In(s, order)
    <3>1. entries[s] # <<>>
      BY <1>5, <2>2, EmptySeq
    <3> QED
      BY <3>1 DEF ChartInv, CacheCoherent, In
  <2>9. /\ order' \in Seq(Scope)
        /\ Len(order') = Len(order)
        /\ \A m, n \in 1..Len(order') : order'[m] = order'[n] => m = n
        /\ \A k \in Scope : In(k, order') <=> In(k, order)
    <3>1. \A m, n \in 1..Len(order) : order[m] = order[n] => m = n
      BY DEF ChartInv, CacheCoherent
    <3> DEFINE q == ToEnd(order, s)
    <3>2. /\ q \in Seq(Scope)
          /\ Len(q) = IF In(s, order) THEN Len(order) ELSE Len(order) + 1
          /\ \A m, n \in 1..Len(q) : q[m] = q[n] => m = n
          /\ \A k \in Scope : In(k, q) <=> In(k, order) \/ k = s
      BY <1>8, <3>1, ToEndKeeps
    <3> HIDE DEF q
    <3>3. order' = q
      BY <2>4 DEF q
    <3> QED
      BY <2>8, <3>2, <3>3
  <2>10. /\ entries' \in [Scope -> Seq(Entry)]
         /\ \A k \in Scope : k # s => entries'[k] = entries[k]
         /\ entries'[s] = ToEnd(known, e)
    BY <1>8, <2>4, <2>5
  <2>11. ChartTypes'
    BY <1>8, <2>4, <2>9, <2>10 DEF ChartTypes
  <2>12. CacheCoherent'
    <3>1. \A k \in Scope : /\ Len(entries'[k]) = Len(entries[k])
                           /\ KeysOnce(entries'[k])
      BY <1>6, <2>5, <2>10, CoherentKeysOnce
    <3>2. \A k \in Scope : entries'[k] = <<>> <=> entries[k] = <<>>
      BY <1>8, <2>10, <3>1, EmptySeq
    <3> QED
      BY <2>9, <3>1, <3>2 DEF ChartInv, CacheCoherent, KeysOnce, In
  <2>13. EntriesTrue' /\ BuildingTrue'
    <3>1. /\ \A k \in Live(reg'), y \in Entry :
                k # s /\ In(y, entries'[k]) /\ ~y.old => Shown(y, reg'.a[k], reg'.b[k])
          /\ \A k \in Live(reg') :
                k # s /\ building'[k] # None
                   => building'[k].key = KeyOf(reg'.a[k], reg'.b[k])
      BY <1>3, <2>4, <2>10, OthersTrue
    <3>2. \A y \in Entry : In(y, entries'[s]) /\ ~y.old => Shown(y, reg'.a[s], reg'.b[s])
      BY <1>9, <2>5, <2>10
    <3> QED
      BY <1>2, <2>4, <3>1, <3>2 DEF EntriesTrue, BuildingTrue
  <2> QED
    BY <1>3, <2>7, <2>11, <2>12, <2>13 DEF ChartInv
<1>11. CASE Hits(s, KeyOf(r.a[s], r.b[s])) = {}
  <2> DEFINE c == [key |-> KeyOf(r.a[s], r.b[s]), a |-> r.a[s], b |-> r.b[s]]
  <2>1. /\ building' = [building EXCEPT ![s] = c]
        /\ entries' = [entries EXCEPT ![s] = known]
        /\ served' = None
        /\ order' = order
    BY <1>1, <1>11
  <2>2. /\ c \in [key : Key, a : PlannerState, b : Panel]
        /\ c.key = KeyOf(reg'.a[s], reg'.b[s])
    BY <1>1, <1>4 DEF Key
  <2> HIDE DEF c
  <2>3. /\ entries' \in [Scope -> Seq(Entry)]
        /\ \A k \in Scope : k # s => entries'[k] = entries[k] /\ building'[k] = building[k]
        /\ entries'[s] = known /\ building'[s] = c
    BY <1>6, <1>8, <2>1
  <2>4. ChartTypes'
    BY <1>8, <2>1, <2>2, <2>3 DEF ChartTypes
  <2>5. CacheCoherent'
    <3>1. \A k \in Scope : /\ Len(entries'[k]) = Len(entries[k])
                           /\ KeysOnce(entries'[k])
      BY <1>6, <2>3, CoherentKeysOnce
    <3> QED
      BY <2>1, <2>3, <3>1, AgedCoherent
  <2>6. EntriesTrue' /\ BuildingTrue'
    <3>1. /\ \A k \in Live(reg'), y \in Entry :
                k # s /\ In(y, entries'[k]) /\ ~y.old => Shown(y, reg'.a[k], reg'.b[k])
          /\ \A k \in Live(reg') :
                k # s /\ building'[k] # None
                   => building'[k].key = KeyOf(reg'.a[k], reg'.b[k])
      BY <1>3, <2>3, OthersTrue
    <3>2. \A y \in Entry : In(y, entries'[s]) /\ ~y.old => Shown(y, reg'.a[s], reg'.b[s])
      BY <1>9, <2>3
    <3> QED
      BY <2>2, <2>3, <3>1, <3>2 DEF EntriesTrue, BuildingTrue
  <2> QED
    BY <1>3, <2>1, <2>4, <2>5, <2>6 DEF ChartInv, FreshWithinLifetime
<1> QED
  BY <1>10, <1>11

LEMMA ChartStoreGood ==
    ASSUME ChartInv, NEW s \in Scope, ChartStore(s)
    PROVE  ChartInv'
<1> DEFINE gone == reg.a[s] = None
           a == IF gone THEN building[s].a ELSE reg.a[s]
           b == IF gone THEN building[s].b ELSE reg.b[s]
           e == [key |-> building[s].key, body |-> Payload(a, b), old |-> gone]
           seq == LastN(ToEnd(order, s), MaxCached)
           put == LastN(Append(Without(entries[s], Hits(s, e.key)), e), MaxEntries)
<1>1. /\ building[s] # None
      /\ CachePut(s, e)
      /\ served' = [current |-> Payload(a, b) = Payload(a, b), old |-> FALSE]
      /\ building' = [building EXCEPT ![s] = None]
      /\ UNCHANGED vars
  BY DEF ChartStore, Respond
<1>2. /\ entries \in [Scope -> Seq(Entry)] /\ order \in Seq(Scope)
      /\ building \in [Scope -> [key : Key, a : PlannerState, b : Panel] \cup {None}]
  BY DEF ChartInv, ChartTypes
<1>3. reg' = reg /\ now' = now /\ Live(reg') = Live(reg) /\ IInv'
  BY <1>1 DEF vars, ChartInv, IInv, Good, Coherent, Live, Seen
<1>4. gone \in BOOLEAN /\ (s \in Live(reg) <=> ~gone)
  BY DEF Live
<1>5. a \in PlannerState /\ b \in Panel
  <2>1. CASE gone
    BY <1>1, <1>2, <2>1
  <2>2. CASE ~gone
    BY <1>4, <2>2, LivePanels DEF ChartInv
  <2> QED
    BY <2>1, <2>2
<1>6. ~gone => /\ building[s].key = KeyOf(a, b)
               /\ a = reg.a[s] /\ b = reg.b[s]
  BY <1>1, <1>4 DEF ChartInv, BuildingTrue
<1> HIDE DEF a, b, gone
<1>7. e \in Entry
  <2>1. building[s].key \in Key
    BY <1>1, <1>2
  <2>2. Payload(a, b) \in Doc \X (Doc \cup {None})
    BY <1>5 DEF Payload, PlannerState, Panel
  <2> QED
    BY <1>4, <2>1, <2>2 DEF Entry
<1>8. /\ put \in Seq(Entry)
      /\ Len(put) >= 1 /\ Len(put) <= MaxEntries
      /\ KeysOnce(put)
      /\ \A y \in Entry : In(y, put) => In(y, entries[s]) \/ y = e
  <2>1. entries[s] \in Seq(Entry) /\ KeysOnce(entries[s])
    BY CoherentKeysOnce
  <2> HIDE DEF e
  <2> QED
    BY <1>7, <2>1, PutKeeps DEF Hits
<1>9. /\ seq \in Seq(Scope)
      /\ Len(seq) <= MaxCached
      /\ \A i, j \in 1..Len(seq) : seq[i] = seq[j] => i = j
      /\ In(s, seq)
      /\ \A k \in Scope : In(k, seq) => In(k, order) \/ k = s
  <2>1. \A i, j \in 1..Len(order) : order[i] = order[j] => i = j
    BY DEF ChartInv, CacheCoherent
  <2> QED
    BY <1>2, <2>1, OrderKeeps
<1>10. /\ order' = seq
       /\ entries' = [k \in Scope |-> IF \A i \in 1..Len(seq) : seq[i] # k THEN <<>>
                                      ELSE IF k = s THEN put ELSE entries[k]]
  BY <1>1 DEF CachePut
<1>11. (~gone => Shown(e, reg.a[s], reg.b[s])) /\ (e.old <=> gone)
  <2>1. ASSUME ~gone PROVE Shown(e, a, b)
    <3>1. Earlier(a, b, a, b)
      BY <1>5, EarlierSame
    <3>2. e.key = KeyOf(a, b) /\ e.body = Payload(a, b)
      BY <1>6, <2>1
    <3> QED
      BY <1>5, <3>1, <3>2 DEF Shown
  <2> QED
    BY <1>6, <2>1
<1> HIDE DEF e, seq, put
<1>12. <<>> \in Seq(Entry) /\ Len(<<>>) = 0
  BY EmptySeq
<1>13. \A k \in Scope :
          /\ entries'[k] = IF ~In(k, seq) THEN <<>>
                           ELSE IF k = s THEN put ELSE entries[k]
          /\ entries'[k] \in Seq(Entry)
  BY <1>2, <1>8, <1>10, <1>12 DEF In
<1>14. ChartTypes'
  BY <1>1, <1>2, <1>9, <1>10, <1>13 DEF ChartTypes
<1>15. CacheCoherent'
  <2>1. ASSUME NEW k \in Scope
        PROVE  /\ entries'[k] # <<>> <=> In(k, seq)
               /\ Len(entries'[k]) <= MaxEntries
               /\ KeysOnce(entries'[k])
    <3>1. CASE ~In(k, seq)
      BY <1>12, <1>13, <3>1, CacheAssumption DEF KeysOnce
    <3>2. CASE In(k, seq) /\ k = s
      BY <1>8, <1>12, <1>13, <3>2
    <3>3. CASE In(k, seq) /\ k # s
      <4>1. In(k, order)
        BY <1>9, <3>3
      <4>2. entries'[k] = entries[k]
        BY <1>13, <3>3
      <4>3. entries[k] # <<>> /\ Len(entries[k]) <= MaxEntries /\ KeysOnce(entries[k])
        BY <4>1 DEF ChartInv, CacheCoherent, KeysOnce, In
      <4> QED
        BY <3>3, <4>2, <4>3
    <3> QED
      BY <3>1, <3>2, <3>3
  <2>2. /\ Len(order') <= MaxCached
        /\ \A i, j \in 1..Len(order') : order'[i] = order'[j] => i = j
    BY <1>9, <1>10
  <2>3. \A k \in Scope : entries'[k] # <<>> <=> \E i \in 1..Len(order') : order'[i] = k
    BY <1>10, <2>1 DEF In
  <2>4. \A k \in Scope :
           /\ Len(entries'[k]) <= MaxEntries
           /\ \A i, j \in 1..Len(entries'[k]) :
                 entries'[k][i].key = entries'[k][j].key => i = j
    BY <2>1 DEF KeysOnce
  <2> QED
    BY <2>2, <2>3, <2>4 DEF CacheCoherent
<1>16. EntriesTrue'
  <2> SUFFICES ASSUME NEW k \in Live(reg'), NEW y \in Entry, In(y, entries'[k]), ~y.old
               PROVE  Shown(y, reg'.a[k], reg'.b[k])
    BY DEF EntriesTrue
  <2>1. k \in Scope /\ k \in Live(reg)
    BY <1>3 DEF Live
  <2>2. In(k, seq)
    BY <1>12, <1>13, <2>1 DEF In
  <2>3. In(y, entries[k]) \/ (k = s /\ y = e)
    BY <1>8, <1>13, <2>1, <2>2
  <2> QED
    BY <1>3, <1>4, <1>11, <2>1, <2>3 DEF ChartInv, EntriesTrue
<1>17. BuildingTrue'
  BY <1>1, <1>2, <1>3 DEF ChartInv, BuildingTrue, Live
<1>18. FreshWithinLifetime'
  BY <1>1 DEF FreshWithinLifetime
<1> QED
  BY <1>3, <1>14, <1>15, <1>16, <1>17, <1>18 DEF ChartInv

LEMMA ChartStepGood == ChartInv /\ [ChartNext]_chartVars => ChartInv'
<1> SUFFICES ASSUME ChartInv, [ChartNext]_chartVars PROVE ChartInv'
  OBVIOUS
<1>1. CASE UNCHANGED chartVars
  BY <1>1 DEF chartVars, cacheVars, vars, ChartInv, IInv, Good, Coherent, Live, Seen,
              ChartTypes, CacheCoherent, EntriesTrue, BuildingTrue, FreshWithinLifetime
<1>2. CASE ChartNext
  BY <1>2, ForgetVisitorGood, ChartLookupGood, ChartStoreGood, OtherRequestGood DEF ChartNext
<1> QED
  BY <1>1, <1>2

\* The inductive invariant of chart_data and its cache beside the store's
\* calls: entries and half-built charts show what their revisions stood for.
THEOREM ChartInvariantHolds == ChartSpec => []ChartInv
BY ChartInitGood, ChartStepGood, PTL DEF ChartSpec

-----------------------------------------------------------------------------
(* The results                                                             *)

\* The two orders of web/cache.py agree and stay bounded, for any number of
\* tabs, of cached scopes and of entries per scope.
THEOREM CacheStaysCoherent == ChartSpec => []CacheCoherent
<1>1. ChartInv => CacheCoherent
  BY DEF ChartInv
<1> QED
  BY ChartInvariantHolds, <1>1, PTL

\* No chart served from a revision that was handed out once is stale: neither
\* an edit, a reset, an import or closing panel B, nor the eviction of other
\* tabs, lets chart_data answer with something the panels no longer show.
THEOREM ChartsFreshWithinLifetime == ChartSpec => []FreshWithinLifetime
<1>1. ChartInv => FreshWithinLifetime
  BY DEF ChartInv
<1> QED
  BY ChartInvariantHolds, <1>1, PTL
=============================================================================
