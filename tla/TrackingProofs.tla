--------------------------- MODULE TrackingProofs ---------------------------
(***************************************************************************)
(* Proofs about Tracking, for every set of visitors, tabs and threads, any  *)
(* retention and any JSON log: events keep their visitor, deleted data      *)
(* stays deleted, a last visit never moves back, repeats collapse and the   *)
(* history of a tab alternates.                                            *)
(***************************************************************************)
EXTENDS Tracking, Arithmetic

\* Once the store has been opened there is nothing left to import.
LogDone == opened \/ erased # {} => imported \/ legacy = "absent"

\* A visitor whose data was deleted has no request under way that could write.
ErasedIsQuiet ==
    \A v \in erased, t \in Thread :
        req[t] # Idle /\ req[t].v = v => req[t].at = "delete"

\* A request about to record a snapshot has a tab of its own and its panels.
ReadyToRecord ==
    \A t \in Thread :
        req[t] # Idle /\ req[t].at = "snapshot" => req[t].tab \in Tab /\ req[t].doc \in Doc

TrackInv ==
    /\ TrackTypeOK
    /\ ReadyToRecord
    /\ nextSnap >= Cardinality(LegacyRows)
    /\ EventsHaveVisitor
    /\ LogDone
    /\ ErasedIsQuiet
    /\ ErasedStaysErased

LEMMA RowNotNone == \A r \in VisitorRow : r # None
BY TrackingAssumption

\* A request that is under way has all its fields.
LEMMA RequestFields ==
    ASSUME TrackTypeOK, NEW t \in Thread, req[t] # Idle
    PROVE  /\ req[t] \in Busy
           /\ req[t].v \in Visitor /\ req[t].clock \in Nat
           /\ req[t].tab \in Tab \cup {PageTab}
           /\ req[t].key \in CoalesceKey \cup {None}
BY DEF TrackTypeOK, Busy

LEMMA AtNotIdle ==
    ASSUME NEW r, r.at \in {"snapshot", "touch", "touching", "event", "delete"}
    PROVE  r # Idle
BY DEF Idle

\* Seeing a visitor never takes a row away and never moves a last visit back.
LEMMA SeenForward ==
    ASSUME visitors \in [Visitor -> VisitorRow \cup {None}],
           NEW v \in Visitor, NEW t \in Nat, NEW c \in BOOLEAN
    PROVE  /\ Seen(v, t, c) \in [Visitor -> VisitorRow \cup {None}]
           /\ Seen(v, t, c)[v] # None /\ Seen(v, t, c)[v].last >= t
           /\ \A u \in Visitor : u # v => Seen(v, t, c)[u] = visitors[u]
           /\ \A u \in Visitor : visitors[u] # None =>
                 /\ Seen(v, t, c)[u] # None
                 /\ Seen(v, t, c)[u].last >= visitors[u].last
                 /\ Seen(v, t, c)[u].first = visitors[u].first
<1> DEFINE old == visitors[v]
           row == IF old = None THEN [first |-> t, last |-> t, context |-> c]
                  ELSE [old EXCEPT !.last = Greater(old.last, t)]
<1>0. \A u \in Visitor : visitors[u] # None => visitors[u].last >= visitors[u].last
  BY DEF VisitorRow
<1>1. Seen(v, t, c) = [visitors EXCEPT ![v] = row]
  BY DEF Seen
<1>2. CASE old = None
  <2>1. /\ row \in VisitorRow /\ row.last = t
    BY <1>2 DEF VisitorRow
  <2>2. row # None
    BY <2>1, RowNotNone
  <2> HIDE DEF row
  <2> QED
    BY <1>0, <1>1, <1>2, <2>1, <2>2
<1>3. CASE old # None
  <2>1. old \in VisitorRow
    BY <1>3
  <2>2. /\ row \in VisitorRow
        /\ row.last >= t /\ row.last >= old.last /\ row.first = old.first
    BY <1>3, <2>1 DEF VisitorRow, Greater
  <2>3. row # None
    BY <2>2, RowNotNone
  <2> HIDE DEF row
  <2> QED
    BY <1>0, <1>1, <1>3, <2>2, <2>3
<1> QED
  BY <1>2, <1>3

\* An event goes in next to its visitor, and what the sweep deletes of the
\* visitors it has deleted of the events; nobody else is touched otherwise.
LEMMA EventStored ==
    ASSUME TrackTypeOK, EventsHaveVisitor,
           NEW v \in Visitor, NEW tab \in Tab \cup {PageTab},
           NEW key \in CoalesceKey \cup {None}, NEW t \in Nat,
           RecordEvent(v, tab, key, t)
    PROVE  /\ events' \subseteq Event /\ nextEvent' \in Nat
           /\ \A e \in events' : e.n < nextEvent'
           /\ visitors' \in [Visitor -> VisitorRow \cup {None}]
           /\ writes' \in 0..(RetentionEvery - 1)
           /\ EventsHaveVisitor'
           /\ \A u \in Visitor \ {v} : visitors[u] = None => visitors'[u] = None
           /\ \A e \in events' : e.v = v \/ e \in events
           /\ \A u \in Visitor : visitors[u] # None /\ visitors'[u] # None =>
                 /\ visitors'[u].last >= visitors[u].last
                 /\ visitors'[u].first = visitors[u].first
<1> DEFINE same == Repeats(v, tab, key, t)
           row  == [n |-> nextEvent, v |-> v, tab |-> tab, t |-> t, key |-> key]
           stored == IF same = {} THEN events \cup {row}
                     ELSE {IF e \in same THEN [e EXCEPT !.t = t] ELSE e : e \in events}
           sweep == RetentionDays > 0 /\ writes' = 1
           rows == Seen(v, t, FALSE)
<1>1. /\ writes' = (writes + 1) % RetentionEvery
      /\ nextEvent' = IF same = {} THEN nextEvent + 1 ELSE nextEvent
      /\ events' = {e \in stored : sweep => e.t >= t - RetentionDays}
      /\ visitors' = [u \in Visitor |->
                         IF sweep /\ u \in Expired(rows, t) THEN None ELSE rows[u]]
  BY DEF RecordEvent
<1>2. /\ rows \in [Visitor -> VisitorRow \cup {None}]
      /\ rows[v] # None /\ rows[v].last >= t
      /\ \A u \in Visitor : u # v => rows[u] = visitors[u]
      /\ \A u \in Visitor : visitors[u] # None =>
            rows[u] # None /\ rows[u].last >= visitors[u].last /\ rows[u].first = visitors[u].first
  <2>1. visitors \in [Visitor -> VisitorRow \cup {None}]
    BY DEF TrackTypeOK
  <2>2. FALSE \in BOOLEAN
    OBVIOUS
  <2>3. /\ Seen(v, t, FALSE) \in [Visitor -> VisitorRow \cup {None}]
        /\ Seen(v, t, FALSE)[v] # None /\ Seen(v, t, FALSE)[v].last >= t
        /\ \A u \in Visitor : u # v => Seen(v, t, FALSE)[u] = visitors[u]
        /\ \A u \in Visitor : visitors[u] # None =>
              /\ Seen(v, t, FALSE)[u] # None
              /\ Seen(v, t, FALSE)[u].last >= visitors[u].last
              /\ Seen(v, t, FALSE)[u].first = visitors[u].first
    BY <2>1, <2>2, SeenForward
  <2> QED
    BY <2>3
<1>3. same \subseteq events /\ \A e \in same : e.v = v
  BY DEF Repeats, Latest, RowsOf
<1>4. /\ stored \subseteq Event
      /\ \A e \in stored : e.n < nextEvent'
      /\ \A e \in stored : (e.v = v /\ e.t = t) \/ e \in events
  <2>1. row \in Event
    BY DEF Event, TrackTypeOK
  <2>2. \A e \in same : /\ [e EXCEPT !.t = t] \in Event
                         /\ [e EXCEPT !.t = t].n = e.n
                         /\ [e EXCEPT !.t = t].v = v /\ [e EXCEPT !.t = t].t = t
    BY <1>3 DEF Event, TrackTypeOK
  <2>3. nextEvent \in Nat /\ (\A e \in events : e.n < nextEvent) /\ events \subseteq Event
    BY DEF TrackTypeOK
  <2>4. CASE same = {}
    BY <1>1, <2>1, <2>3, <2>4 DEF Event
  <2>5. CASE same # {}
    <3> HIDE DEF same
    <3> QED
      BY <1>1, <1>3, <2>2, <2>3, <2>5
  <2> QED
    BY <2>4, <2>5
<1>5. \A e \in stored : e.v \in Visitor /\ e.t \in Nat /\ rows[e.v] # None /\ e.t <= rows[e.v].last
  <2> SUFFICES ASSUME NEW e \in stored
               PROVE  e.v \in Visitor /\ e.t \in Nat /\ rows[e.v] # None /\ e.t <= rows[e.v].last
    OBVIOUS
  <2> HIDE DEF stored, rows
  <2>1. e.v \in Visitor /\ e.t \in Nat
    BY <1>4 DEF Event
  <2>2. CASE e.v = v /\ e.t = t
    BY <1>2, <2>2
  <2>3. CASE e \in events
    <3>1. visitors[e.v] # None /\ e.t <= visitors[e.v].last
      BY <2>3 DEF EventsHaveVisitor
    <3>2. visitors[e.v].last \in Nat /\ rows[e.v].last \in Nat
      BY <1>2, <2>1, <3>1 DEF TrackTypeOK, VisitorRow
    <3> QED
      BY <1>2, <2>1, <3>1, <3>2
  <2> QED
    BY <1>4, <2>2, <2>3
<1>6. EventsHaveVisitor'
  <2> SUFFICES ASSUME NEW e \in events'
               PROVE  visitors'[e.v] # None /\ e.t <= visitors'[e.v].last
    BY DEF EventsHaveVisitor
  <2> HIDE DEF stored, rows
  <2>1. e \in stored /\ (sweep => e.t >= t - RetentionDays)
    BY <1>1
  <2>2. ~(sweep /\ e.v \in Expired(rows, t))
    <3>1. rows[e.v].last \in Nat /\ RetentionDays \in Nat
      BY <1>2, <1>5, <2>1, TrackingAssumption DEF VisitorRow
    <3> QED
      BY <1>5, <2>1, <3>1 DEF Expired
  <2> QED
    BY <1>1, <1>5, <2>1, <2>2
<1>7. writes' \in 0..(RetentionEvery - 1)
  BY <1>1, TrackingAssumption DEF TrackTypeOK
<1>8. nextEvent' \in Nat
  BY <1>1 DEF TrackTypeOK
<1> HIDE DEF stored, rows, same
<1> QED
  BY <1>1, <1>2, <1>4, <1>6, <1>7, <1>8

\* Refreshing or adding a snapshot, and retention, keep the table in shape.
LEMMA SnapshotStored ==
    ASSUME TrackTypeOK,
           NEW v \in Visitor, NEW tab \in Tab, NEW doc \in Doc, NEW t \in Nat,
           RecordSnapshot(v, tab, doc, t)
    PROVE  /\ snaps' \subseteq Snapshot /\ nextSnap' \in Nat /\ nextSnap' >= nextSnap
           /\ \A s \in snaps' : s.n < nextSnap'
           /\ \A s \in snaps' : (s.v = v /\ s.seen = t) \/ s \in snaps
<1> DEFINE same == {r \in Latest(snaps, v, tab) : r.doc = doc}
           row  == [n |-> nextSnap, v |-> v, tab |-> tab, doc |-> doc, seen |-> t]
           stored == IF same = {} THEN snaps \cup {row}
                     ELSE {IF r \in same THEN [r EXCEPT !.seen = t] ELSE r : r \in snaps}
<1>1. /\ snaps' \subseteq stored
      /\ nextSnap' = IF same = {} THEN nextSnap + 1 ELSE nextSnap
  BY DEF RecordSnapshot, AfterRetention
<1>2. /\ snaps \subseteq Snapshot /\ nextSnap \in Nat /\ now \in Nat
      /\ \A s \in snaps : s.n < nextSnap
  BY DEF TrackTypeOK
<1>3. row \in Snapshot
  BY <1>2 DEF Snapshot
<1>4. \A r \in same : /\ r \in snaps
                       /\ [r EXCEPT !.seen = t] \in Snapshot
                       /\ [r EXCEPT !.seen = t].n = r.n
                       /\ [r EXCEPT !.seen = t].v = v
                       /\ [r EXCEPT !.seen = t].seen = t
  BY <1>2 DEF Snapshot, Latest, RowsOf
<1>5. /\ stored \subseteq Snapshot
      /\ \A s \in stored : s.n < nextSnap'
      /\ \A s \in stored : (s.v = v /\ s.seen = t) \/ s \in snaps
  <2>1. CASE same = {}
    BY <1>1, <1>2, <1>3, <2>1 DEF Snapshot
  <2>2. CASE same # {}
    <3> HIDE DEF same
    <3> QED
      BY <1>1, <1>2, <1>4, <2>2
  <2> QED
    BY <2>1, <2>2
<1> HIDE DEF stored, same
<1> QED
  BY <1>1, <1>2, <1>5

LEMMA TrackInitGood == TrackInit => TrackInv
<1> SUFFICES ASSUME TrackInit PROVE TrackInv
  OBVIOUS
<1>1. Cardinality(LegacyRows) \in Nat
  BY FS_CardinalityType, TrackingAssumption
<1>2. TrackTypeOK
  <2>1. writes \in 0..(RetentionEvery - 1)
    BY TrackingAssumption DEF TrackInit
  <2>2. /\ visitors \in [Visitor -> VisitorRow \cup {None}]
        /\ touched \in [Visitor -> Nat \cup {None}]
        /\ req \in [Thread -> Busy \cup {Idle}]
    BY DEF TrackInit
  <2> QED
    BY <1>1, <2>1, <2>2 DEF TrackInit, TrackTypeOK
<1> QED
  BY <1>1, <1>2 DEF TrackInit, TrackInv, ReadyToRecord, EventsHaveVisitor, LogDone, ErasedIsQuiet, ErasedStaysErased

\* What LastSeenForward asks of a step.
Forward ==
    \A v \in Visitor :
        visitors[v] # None /\ visitors'[v] # None =>
            /\ visitors'[v].last >= visitors[v].last
            /\ visitors'[v].first = visitors[v].first

LEMMA SameVisitors ==
    ASSUME TrackTypeOK, \A v \in Visitor : visitors'[v] # None => visitors'[v] = visitors[v]
    PROVE  Forward
BY RowNotNone DEF Forward, TrackTypeOK, VisitorRow

\* A request moves on within its thread.
LEMMA Moved ==
    ASSUME TrackTypeOK, NEW t \in Thread, NEW r \in Busy \cup {Idle}, Goto(t, r)
    PROVE  /\ req' \in [Thread -> Busy \cup {Idle}]
           /\ req'[t] = r
           /\ \A u \in Thread \ {t} : req'[u] = req[u]
BY DEF Goto, TrackTypeOK

LEMMA BeginGood ==
    ASSUME TrackInv, NEW t \in Thread, NEW kind \in Sent, NEW v \in Visitor,
           NEW tab \in Tab, NEW doc \in Doc \cup {None}, NEW key \in CoalesceKey \cup {None},
           Begin(t, kind, v, tab, doc, key)
    PROVE  TrackInv' /\ Forward
<1> DEFINE r == [at |-> CASE kind = "snapshot" -> "snapshot"
                          [] kind = "delete" -> "delete"
                          [] OTHER -> "touch",
                 kind |-> kind, v |-> v, tab |-> IF kind = "page" THEN PageTab ELSE tab,
                 doc |-> doc, key |-> key, clock |-> IF kind = "snapshot" THEN now ELSE 0]
<1>1. kind \in Kinds
  BY TrackingAssumption
<1>2. r \in Busy /\ r.v = v /\ (kind = "delete" => r.at = "delete")
  BY <1>1 DEF Busy, Kinds, TrackInv, TrackTypeOK
<1>3. /\ req' \in [Thread -> Busy \cup {Idle}]
      /\ req'[t] = r
      /\ \A u \in Thread \ {t} : req'[u] = req[u]
  BY <1>2, Moved DEF Begin, TrackInv
<1>4. /\ UNCHANGED <<tables, file, writes, touched, now>>
      /\ erased' = IF kind = "delete" THEN erased ELSE erased \ {v}
  BY DEF Begin
<1>5. TrackTypeOK'
  BY <1>3, <1>4 DEF TrackInv, TrackTypeOK, tables, file
<1>6. EventsHaveVisitor' /\ LogDone' /\ ErasedStaysErased'
  BY <1>4 DEF TrackInv, EventsHaveVisitor, LogDone, ErasedStaysErased, tables, file
<1>7. ErasedIsQuiet'
  BY <1>2, <1>3, <1>4 DEF TrackInv, ErasedIsQuiet
<1>8. Forward
  BY <1>4, SameVisitors DEF TrackInv, tables
<1>9. nextSnap' >= Cardinality(LegacyRows)
  BY <1>4 DEF TrackInv, tables
<1>10. ReadyToRecord'
  <2>1. kind = "snapshot" => doc \in Doc
    BY DEF Begin
  <2>2. r.at = "snapshot" => r.tab \in Tab /\ r.doc \in Doc
    BY <2>1
  <2> HIDE DEF r
  <2> QED
    BY <1>3, <2>2 DEF TrackInv, ReadyToRecord
<1> QED
  BY <1>9, <1>10, <1>5, <1>6, <1>7, <1>8 DEF TrackInv

LEMMA OpenStoreGood ==
    ASSUME TrackInv, OpenStore
    PROVE  TrackInv' /\ Forward
<1>1. /\ legacy' \in {legacy, "absent"}
      /\ opened' \in BOOLEAN /\ imported' \in BOOLEAN
      /\ snaps' \subseteq snaps \cup LegacyRows
      /\ UNCHANGED <<events, visitors, nextSnap, nextEvent, writes, touched, req, erased, now>>
  <2>1. imported \in BOOLEAN /\ opened \in BOOLEAN
    BY DEF TrackInv, TrackTypeOK
  <2> QED
    BY <2>1 DEF OpenStore
<1>2. TrackTypeOK'
  <2>1. \A s \in LegacyRows : s.n < nextSnap
    BY FS_CardinalityType, TrackingAssumption DEF TrackInv, TrackTypeOK, Snapshot
  <2>2. snaps' \subseteq Snapshot /\ \A s \in snaps' : s.n < nextSnap
    BY <1>1, <2>1, TrackingAssumption DEF TrackInv, TrackTypeOK
  <2> QED
    BY <1>1, <2>2 DEF TrackInv, TrackTypeOK
<1>3. EventsHaveVisitor' /\ ErasedIsQuiet' /\ ReadyToRecord'
  BY <1>1 DEF TrackInv, EventsHaveVisitor, ErasedIsQuiet, ReadyToRecord
<1>4. LogDone'
  <2>1. CASE imported' = (imported \/ legacy # "absent")
    <3>1. imported' \/ legacy = "absent"
      BY <2>1
    <3> QED
      BY <1>1, <3>1 DEF LogDone
  <2>2. CASE UNCHANGED <<opened, snaps, imported>>
    BY <1>1, <2>2 DEF TrackInv, LogDone
  <2> QED
    BY <2>1, <2>2 DEF OpenStore
<1>5. ErasedStaysErased'
  BY DEF TrackInv, LogDone, ErasedStaysErased, OpenStore
<1>6. Forward
  BY <1>1, SameVisitors DEF TrackInv
<1>7. nextSnap' >= Cardinality(LegacyRows)
  BY <1>1 DEF TrackInv
<1> QED
  BY <1>2, <1>3, <1>4, <1>5, <1>6, <1>7 DEF TrackInv

\* What is asked of a request that moves on: it stays its visitor's, and it is
\* not about to record a snapshot.
LEMMA MovedOn ==
    ASSUME TrackInv, NEW t \in Thread, req[t] # Idle, req[t].v \notin erased,
           NEW r \in Busy, r.v = req[t].v, r.at # "snapshot", Goto(t, r), erased' = erased
    PROVE  req' \in [Thread -> Busy \cup {Idle}] /\ ErasedIsQuiet' /\ ReadyToRecord'
<1>1. /\ req' \in [Thread -> Busy \cup {Idle}]
      /\ req'[t] = r
      /\ \A u \in Thread \ {t} : req'[u] = req[u]
  BY Moved DEF TrackInv
<1> QED
  BY <1>1 DEF TrackInv, ErasedIsQuiet, ReadyToRecord

LEMMA MovedOut ==
    ASSUME TrackInv, NEW t \in Thread, Goto(t, Idle), erased' = erased
    PROVE  req' \in [Thread -> Busy \cup {Idle}] /\ ErasedIsQuiet' /\ ReadyToRecord'
<1>1. /\ req' \in [Thread -> Busy \cup {Idle}]
      /\ req'[t] = Idle
      /\ \A u \in Thread \ {t} : req'[u] = req[u]
  BY Moved DEF TrackInv
<1> QED
  BY <1>1 DEF TrackInv, ErasedIsQuiet, ReadyToRecord

\* A request under way, seen from the step at the given place.
LEMMA AtPlace ==
    ASSUME TrackInv, NEW t \in Thread,
           req[t].at \in {"snapshot", "touch", "touching", "event"}
    PROVE  /\ req[t] # Idle /\ req[t] \in Busy
           /\ req[t].v \in Visitor /\ req[t].clock \in Nat
           /\ req[t].tab \in Tab \cup {PageTab}
           /\ req[t].key \in CoalesceKey \cup {None}
           /\ req[t].v \notin erased
<1>1. req[t] # Idle
  BY AtNotIdle
<1> QED
  BY <1>1, RequestFields DEF TrackInv, ErasedIsQuiet

LEMMA StoreSnapshotGood ==
    ASSUME TrackInv, NEW t \in Thread, StoreSnapshot(t)
    PROVE  TrackInv' /\ Forward
<1> DEFINE r == req[t]
<1>1. /\ r # Idle /\ r \in Busy /\ r.v \in Visitor /\ r.at = "snapshot" /\ r.v \notin erased
  BY AtPlace DEF StoreSnapshot
<1>2. UNCHANGED <<events, visitors, nextEvent, file, writes, touched, erased, now>>
  BY DEF StoreSnapshot
<1>3. /\ snaps' \subseteq Snapshot /\ nextSnap' \in Nat /\ nextSnap' >= nextSnap
      /\ \A s \in snaps' : s.n < nextSnap'
      /\ \A s \in snaps' : s.v = r.v \/ s \in snaps
  <2>1. CASE RecordSnapshot(r.v, r.tab, r.doc, r.clock)
    <3>1. r.tab \in Tab /\ r.doc \in Doc /\ r.clock \in Nat
      BY <1>1 DEF TrackInv, ReadyToRecord, Busy
    <3> QED
      BY <1>1, <2>1, <3>1, SnapshotStored DEF TrackInv
  <2>2. CASE UNCHANGED <<snaps, nextSnap>>
    BY <2>2 DEF TrackInv, TrackTypeOK
  <2> QED
    BY <2>1, <2>2 DEF StoreSnapshot
<1>4. req' \in [Thread -> Busy \cup {Idle}] /\ ErasedIsQuiet' /\ ReadyToRecord'
  <2>1. CASE Goto(t, Idle)
    BY <1>2, <2>1, MovedOut
  <2>2. CASE Goto(t, [r EXCEPT !.at = "touch", !.doc = None, !.clock = 0])
    <3> DEFINE q == [r EXCEPT !.at = "touch", !.doc = None, !.clock = 0]
    <3>1. q \in Busy /\ q.v = r.v /\ q.at # "snapshot"
      BY <1>1 DEF Busy
    <3> HIDE DEF q
    <3>2. Goto(t, q)
      BY <2>2 DEF q
    <3> QED
      BY <1>1, <1>2, <3>1, <3>2, MovedOn
  <2> QED
    BY <2>1, <2>2 DEF StoreSnapshot
<1>5. TrackTypeOK'
  BY <1>2, <1>3, <1>4 DEF TrackInv, TrackTypeOK, file
<1>6. EventsHaveVisitor' /\ LogDone'
  BY <1>2 DEF TrackInv, EventsHaveVisitor, LogDone, file
<1>7. ErasedStaysErased'
  BY <1>1, <1>2, <1>3 DEF TrackInv, ErasedStaysErased
<1>8. Forward
  BY <1>2, SameVisitors DEF TrackInv
<1>9. nextSnap' >= Cardinality(LegacyRows)
  BY <1>3, FS_CardinalityType, TrackingAssumption DEF TrackInv, TrackTypeOK
<1> QED
  BY <1>4, <1>5, <1>6, <1>7, <1>8, <1>9 DEF TrackInv

\* After touching the visitor a request goes on to its event, or is done.
LEMMA AfterTouchGood ==
    ASSUME TrackInv, NEW t \in Thread, req[t] \in Busy, req[t] # Idle,
           req[t].v \notin erased, Goto(t, AfterTouch(req[t])), erased' = erased
    PROVE  req' \in [Thread -> Busy \cup {Idle}] /\ ErasedIsQuiet' /\ ReadyToRecord'
<1> DEFINE q == [req[t] EXCEPT !.at = "event", !.clock = now]
<1>1. q \in Busy /\ q.v = req[t].v /\ q.at # "snapshot"
  BY DEF Busy, TrackInv, TrackTypeOK
<1>2. CASE Goto(t, q)
  <2> HIDE DEF q
  <2> QED
    BY <1>1, <1>2, MovedOn
<1>3. CASE Goto(t, Idle)
  BY <1>3, MovedOut
<1> QED
  BY <1>2, <1>3 DEF AfterTouch

LEMMA TouchGood ==
    ASSUME TrackInv, NEW t \in Thread, Touch(t)
    PROVE  TrackInv' /\ Forward
<1> DEFINE r == req[t]
           q == [r EXCEPT !.at = "touching", !.clock = now]
<1>1. r # Idle /\ r \in Busy /\ r.v \in Visitor /\ r.v \notin erased
  BY AtPlace DEF Touch
<1>2. UNCHANGED <<tables, file, writes, erased, now>>
  BY DEF Touch
<1>3. touched' \in [Visitor -> Nat \cup {None}]
  BY DEF Touch, TrackInv, TrackTypeOK
<1>4. q \in Busy /\ q.v = r.v /\ q.at # "snapshot"
  BY <1>1 DEF Busy, TrackInv, TrackTypeOK
<1>5. Goto(t, q) \/ Goto(t, AfterTouch(r))
  BY DEF Touch
<1>6. req' \in [Thread -> Busy \cup {Idle}] /\ ErasedIsQuiet' /\ ReadyToRecord'
  <2> HIDE DEF q
  <2>1. CASE Goto(t, q)
    BY <1>1, <1>2, <1>4, <2>1, MovedOn
  <2>2. CASE Goto(t, AfterTouch(r))
    BY <1>1, <1>2, <2>2, AfterTouchGood
  <2> QED
    BY <1>5, <2>1, <2>2
<1>7. TrackTypeOK'
  BY <1>2, <1>3, <1>6 DEF TrackInv, TrackTypeOK, tables, file
<1>8. EventsHaveVisitor' /\ LogDone' /\ ErasedStaysErased'
  BY <1>2 DEF TrackInv, EventsHaveVisitor, LogDone, ErasedStaysErased, tables, file
<1>9. Forward /\ nextSnap' >= Cardinality(LegacyRows)
  BY <1>2, SameVisitors DEF TrackInv, tables
<1> QED
  BY <1>6, <1>7, <1>8, <1>9 DEF TrackInv

LEMMA StoreTouchGood ==
    ASSUME TrackInv, NEW t \in Thread, StoreTouch(t)
    PROVE  TrackInv' /\ Forward
<1> DEFINE r == req[t]
<1>1. r # Idle /\ r \in Busy /\ r.v \in Visitor /\ r.clock \in Nat /\ r.v \notin erased
  BY AtPlace DEF StoreTouch
<1>2. UNCHANGED <<snaps, events, nextSnap, nextEvent, file, writes, touched, erased, now>>
  BY DEF StoreTouch
<1>3. /\ visitors' \in [Visitor -> VisitorRow \cup {None}]
      /\ \A u \in Visitor : u # r.v => visitors'[u] = visitors[u]
      /\ \A u \in Visitor : visitors[u] # None =>
            /\ visitors'[u] # None
            /\ visitors'[u].last >= visitors[u].last
            /\ visitors'[u].first = visitors[u].first
  <2>1. visitors \in [Visitor -> VisitorRow \cup {None}]
    BY DEF TrackInv, TrackTypeOK
  <2>2. CASE visitors' = Seen(r.v, r.clock, TRUE)
    <3>1. /\ Seen(r.v, r.clock, TRUE) \in [Visitor -> VisitorRow \cup {None}]
          /\ \A u \in Visitor : u # r.v => Seen(r.v, r.clock, TRUE)[u] = visitors[u]
          /\ \A u \in Visitor : visitors[u] # None =>
                /\ Seen(r.v, r.clock, TRUE)[u] # None
                /\ Seen(r.v, r.clock, TRUE)[u].last >= visitors[u].last
                /\ Seen(r.v, r.clock, TRUE)[u].first = visitors[u].first
      <4>1. TRUE \in BOOLEAN
        OBVIOUS
      <4> QED
        BY <1>1, <2>1, <4>1, SeenForward
    <3> QED
      BY <2>2, <3>1
  <2>3. CASE UNCHANGED visitors
    BY <2>1, <2>3 DEF VisitorRow
  <2> QED
    BY <2>2, <2>3 DEF StoreTouch
<1>4. req' \in [Thread -> Busy \cup {Idle}] /\ ErasedIsQuiet' /\ ReadyToRecord'
  BY <1>1, <1>2, AfterTouchGood DEF StoreTouch
<1>5. TrackTypeOK'
  BY <1>2, <1>3, <1>4 DEF TrackInv, TrackTypeOK, file
<1>6. EventsHaveVisitor'
  <2> SUFFICES ASSUME NEW e \in events
               PROVE  visitors'[e.v] # None /\ e.t <= visitors'[e.v].last
    BY <1>2 DEF EventsHaveVisitor
  <2>1. e.v \in Visitor /\ e.t \in Nat /\ visitors[e.v] # None /\ e.t <= visitors[e.v].last
    BY DEF TrackInv, TrackTypeOK, EventsHaveVisitor, Event
  <2>2. /\ visitors'[e.v] # None
        /\ visitors[e.v].last \in Nat /\ visitors'[e.v].last \in Nat
    BY <1>3, <2>1 DEF TrackInv, TrackTypeOK, VisitorRow
  <2> QED
    BY <1>3, <2>1, <2>2
<1>7. LogDone' /\ ErasedStaysErased'
  BY <1>1, <1>2, <1>3 DEF TrackInv, LogDone, ErasedStaysErased, TrackTypeOK, file
<1>8. Forward /\ nextSnap' >= Cardinality(LegacyRows)
  BY <1>2, <1>3 DEF TrackInv, Forward
<1> QED
  BY <1>4, <1>5, <1>6, <1>7, <1>8 DEF TrackInv

LEMMA StoreEventGood ==
    ASSUME TrackInv, NEW t \in Thread, StoreEvent(t)
    PROVE  TrackInv' /\ Forward
<1> DEFINE r == req[t]
<1>1. /\ r # Idle /\ r \in Busy /\ r.v \in Visitor /\ r.clock \in Nat /\ r.v \notin erased
      /\ r.tab \in Tab \cup {PageTab} /\ r.key \in CoalesceKey \cup {None}
  BY AtPlace DEF StoreEvent
<1>2. UNCHANGED <<snaps, nextSnap, file, touched, erased, now>> /\ Goto(t, Idle)
  BY DEF StoreEvent
<1>3. req' \in [Thread -> Busy \cup {Idle}] /\ ErasedIsQuiet' /\ ReadyToRecord'
  BY <1>2, MovedOut
<1>4. CASE RecordEvent(r.v, r.tab, r.key, r.clock)
  <2>1. /\ events' \subseteq Event /\ nextEvent' \in Nat
        /\ \A e \in events' : e.n < nextEvent'
        /\ visitors' \in [Visitor -> VisitorRow \cup {None}]
        /\ writes' \in 0..(RetentionEvery - 1)
        /\ EventsHaveVisitor'
        /\ \A u \in Visitor \ {r.v} : visitors[u] = None => visitors'[u] = None
        /\ \A e \in events' : e.v = r.v \/ e \in events
        /\ \A u \in Visitor : visitors[u] # None /\ visitors'[u] # None =>
              /\ visitors'[u].last >= visitors[u].last
              /\ visitors'[u].first = visitors[u].first
    BY <1>1, <1>4, EventStored DEF TrackInv
  <2>2. TrackTypeOK'
    BY <1>2, <1>3, <2>1 DEF TrackInv, TrackTypeOK, file
  <2>3. LogDone' /\ ErasedStaysErased'
    BY <1>1, <1>2, <2>1 DEF TrackInv, LogDone, ErasedStaysErased, TrackTypeOK, file
  <2>4. Forward /\ nextSnap' >= Cardinality(LegacyRows)
    BY <1>2, <2>1 DEF TrackInv, Forward
  <2> QED
    BY <1>3, <2>1, <2>2, <2>3, <2>4 DEF TrackInv
<1>5. CASE /\ writes' \in {writes, (writes + 1) % RetentionEvery}
           /\ UNCHANGED <<events, visitors, nextEvent>>
  <2>0. writes' \in 0..(RetentionEvery - 1)
    BY <1>5, TrackingAssumption DEF TrackInv, TrackTypeOK
  <2>1. TrackTypeOK'
    BY <1>2, <1>3, <1>5, <2>0 DEF TrackInv, TrackTypeOK, file
  <2>2. EventsHaveVisitor' /\ LogDone' /\ ErasedStaysErased'
    BY <1>2, <1>5 DEF TrackInv, EventsHaveVisitor, LogDone, ErasedStaysErased, file
  <2>3. Forward /\ nextSnap' >= Cardinality(LegacyRows)
    BY <1>2, <1>5, SameVisitors DEF TrackInv
  <2> QED
    BY <1>3, <2>1, <2>2, <2>3 DEF TrackInv
<1> QED
  BY <1>4, <1>5 DEF StoreEvent

\* Deleting takes the visitor's rows out of all three tables at once, and
\* counts as an erasure only when no request of the visitor is under way.
LEMMA DeleteVisitorGood ==
    ASSUME TrackInv, NEW t \in Thread, DeleteVisitor(t)
    PROVE  TrackInv' /\ Forward
<1> DEFINE r == req[t]
<1>1. r # Idle /\ r \in Busy /\ r.v \in Visitor
  BY AtNotIdle, RequestFields DEF DeleteVisitor, TrackInv
<1>2. UNCHANGED <<nextSnap, nextEvent, file, writes, touched, now>> /\ Goto(t, Idle)
  BY DEF DeleteVisitor
<1>3. /\ req' \in [Thread -> Busy \cup {Idle}]
      /\ req'[t] = Idle
      /\ \A u \in Thread \ {t} : req'[u] = req[u]
  BY <1>2, Moved DEF TrackInv
<1>4. ReadyToRecord'
  BY <1>3 DEF TrackInv, ReadyToRecord
<1>5. opened \/ erased' = erased => LogDone'
  BY <1>2 DEF TrackInv, LogDone, file
<1>6. nextSnap' >= Cardinality(LegacyRows)
  BY <1>2 DEF TrackInv
<1>7. CASE /\ opened
           /\ snaps' = {s \in snaps : s.v # r.v}
           /\ events' = {e \in events : e.v # r.v}
           /\ visitors' = [visitors EXCEPT ![r.v] = None]
           /\ erased' = IF \E u \in Active \ {t} : req[u].v = r.v THEN erased
                        ELSE erased \cup {r.v}
  <2>1. TrackTypeOK'
    BY <1>1, <1>2, <1>3, <1>7 DEF TrackInv, TrackTypeOK, file
  <2>2. EventsHaveVisitor'
    BY <1>7 DEF TrackInv, TrackTypeOK, EventsHaveVisitor, Event
  <2>3. ErasedIsQuiet'
    BY <1>3, <1>7 DEF TrackInv, ErasedIsQuiet, Active
  <2>4. ErasedStaysErased'
    BY <1>1, <1>7 DEF TrackInv, TrackTypeOK, ErasedStaysErased
  <2>5. Forward
    BY <1>1, <1>7, SameVisitors DEF TrackInv, TrackTypeOK
  <2> QED
    BY <1>4, <1>5, <1>6, <1>7, <2>1, <2>2, <2>3, <2>4, <2>5 DEF TrackInv
<1>8. CASE UNCHANGED <<snaps, events, visitors, erased>>
  <2>1. TrackTypeOK'
    BY <1>2, <1>3, <1>8 DEF TrackInv, TrackTypeOK, file
  <2>2. EventsHaveVisitor' /\ ErasedStaysErased'
    BY <1>8 DEF TrackInv, EventsHaveVisitor, ErasedStaysErased
  <2>3. ErasedIsQuiet'
    BY <1>3, <1>8 DEF TrackInv, ErasedIsQuiet
  <2>4. Forward
    BY <1>8, SameVisitors DEF TrackInv
  <2> QED
    BY <1>4, <1>5, <1>6, <1>8, <2>1, <2>2, <2>3, <2>4 DEF TrackInv
<1> QED
  BY <1>7, <1>8 DEF DeleteVisitor

\* A restart loses the requests and the caches, and the store is to be opened.
LEMMA RestartGood ==
    ASSUME TrackInv, Restart
    PROVE  TrackInv' /\ Forward
<1>1. TrackTypeOK'
  <2>1. writes' \in 0..(RetentionEvery - 1)
    BY TrackingAssumption DEF Restart
  <2>2. /\ touched' \in [Visitor -> Nat \cup {None}]
        /\ req' \in [Thread -> Busy \cup {Idle}]
        /\ opened' \in BOOLEAN
    BY DEF Restart, TrackInv, TrackTypeOK
  <2> QED
    BY <2>1, <2>2 DEF TrackInv, TrackTypeOK, Restart, tables
<1>2. EventsHaveVisitor' /\ ErasedStaysErased' /\ LogDone'
  BY DEF TrackInv, EventsHaveVisitor, ErasedStaysErased, LogDone, Restart, tables
<1>3. ErasedIsQuiet' /\ ReadyToRecord'
  BY DEF ErasedIsQuiet, ReadyToRecord, Restart
<1>4. Forward /\ nextSnap' >= Cardinality(LegacyRows)
  BY SameVisitors DEF TrackInv, Restart, tables
<1> QED
  BY <1>1, <1>2, <1>3, <1>4 DEF TrackInv

\* The passage of time, and nothing at all.
LEMMA QuietGood ==
    ASSUME TrackInv, now' \in Nat,
           UNCHANGED <<tables, file, writes, touched, req, erased>>
    PROVE  TrackInv' /\ Forward
<1>1. TrackTypeOK'
  BY DEF TrackInv, TrackTypeOK, tables, file
<1>2. EventsHaveVisitor' /\ ErasedStaysErased' /\ LogDone'
  BY DEF TrackInv, EventsHaveVisitor, ErasedStaysErased, LogDone, tables, file
<1>3. ErasedIsQuiet' /\ ReadyToRecord'
  BY DEF TrackInv, ErasedIsQuiet, ReadyToRecord
<1>4. Forward /\ nextSnap' >= Cardinality(LegacyRows)
  BY SameVisitors DEF TrackInv, tables
<1> QED
  BY <1>1, <1>2, <1>3, <1>4 DEF TrackInv

LEMMA TrackStep == TrackInv /\ [TrackNext]_trackVars => TrackInv' /\ Forward
<1> SUFFICES ASSUME TrackInv, [TrackNext]_trackVars PROVE TrackInv' /\ Forward
  OBVIOUS
<1>1. ASSUME NEW t \in Thread, Step(t) PROVE TrackInv' /\ Forward
  BY <1>1, BeginGood, StoreSnapshotGood, TouchGood, StoreTouchGood, StoreEventGood,
     DeleteVisitorGood DEF Step
<1>2. CASE Tick
  BY <1>2, QuietGood DEF Tick, TrackInv, TrackTypeOK
<1>3. CASE UNCHANGED trackVars
  BY <1>3, QuietGood DEF trackVars, TrackInv, TrackTypeOK
<1> QED
  BY <1>1, <1>2, <1>3, OpenStoreGood, RestartGood DEF TrackNext

\* The strengthened invariant of the tracking store: with any number of
\* threads, visitors and tabs, any failing writes, restarts and deletions.
THEOREM TrackInvariant == TrackSpec => []TrackInv
<1>1. TrackInv /\ [TrackNext]_trackVars => TrackInv'
  BY TrackStep
<1> QED
  BY <1>1, TrackInitGood, PTL DEF TrackSpec

\* Type correctness: rows are well formed and sequence numbers are fresh, also
\* after the old log was imported under its own numbers.
THEOREM TrackTypeCorrect == TrackSpec => []TrackTypeOK
<1>1. TrackInv => TrackTypeOK
  BY DEF TrackInv
<1> QED
  BY <1>1, TrackInvariant, PTL

\* The insight pages can join: every event has its visitor's row, last seen no
\* earlier than the event.
THEOREM EventsAlwaysJoin == TrackSpec => []EventsHaveVisitor
<1>1. TrackInv => EventsHaveVisitor
  BY DEF TrackInv
<1> QED
  BY <1>1, TrackInvariant, PTL

\* After delete-my-data nothing of the visitor comes back by itself, not even
\* by a restart and the import of the old JSON log.
THEOREM ErasedForGood == TrackSpec => []ErasedStaysErased
<1>1. TrackInv => ErasedStaysErased
  BY DEF TrackInv
<1> QED
  BY <1>1, TrackInvariant, PTL

\* A visitor's last visit never moves back and its first never moves, whatever
\* order the threads' clock readings reach the store in.
THEOREM LastSeenAlwaysForward == TrackSpec => LastSeenForward
<1>1. TrackInv /\ [TrackNext]_trackVars =>
        [ \A v \in Visitor :
            visitors[v] # None /\ visitors'[v] # None =>
               /\ visitors'[v].last >= visitors[v].last
               /\ visitors'[v].first = visitors[v].first ]_trackVars
  BY TrackStep DEF Forward
<1> QED
  BY <1>1, TrackInvariant, PTL DEF TrackSpec, LastSeenForward

-----------------------------------------------------------------------------
(* The history of a tab                                                    *)

\* Rows in order of time, no two in a row with the same panels.
InTurn(rows) ==
    \A r, q \in rows : r.n < q.n =>
        /\ r.seen <= q.seen
        /\ r.doc = q.doc => \E b \in rows : r.n < b.n /\ b.n < q.n

\* Events in order of time, no two in a row with the same key within Window.
Spaced(rows) ==
    \A e, f \in rows : e.n < f.n =>
        /\ e.t <= f.t
        /\ e.key # None /\ e.key = f.key =>
              \/ f.t - e.t > Window
              \/ \E g \in rows : e.n < g.n /\ g.n < f.n

NumbersOnce(rows) == \A r, q \in rows : r.n = q.n => r = q

\* What a row has, its later rows have: taking away old rows hurts nobody.
LEMMA TailInTurn ==
    ASSUME NEW rows, NEW kept \in SUBSET rows, InTurn(rows),
           \A r \in kept, q \in rows : r.n < q.n => q \in kept
    PROVE  InTurn(kept)
BY DEF InTurn

LEMMA TailSpaced ==
    ASSUME NEW rows, NEW kept \in SUBSET rows, Spaced(rows),
           \A r \in kept, q \in rows : r.n < q.n => q \in kept
    PROVE  Spaced(kept)
BY DEF Spaced

\* The rows with fewer than m newer ones are at most m.
LEMMA NewestAreFew ==
    ASSUME NEW rows \in SUBSET Snapshot, IsFiniteSet(rows), NumbersOnce(rows),
           NEW m \in Nat \ {0}
    PROVE  LET kept == {r \in rows : Cardinality({q \in rows : q.n > r.n}) < m}
           IN  Cardinality(kept) <= m
<1> DEFINE newer(r) == {q \in rows : q.n > r.n}
           kept == {r \in rows : Cardinality(newer(r)) < m}
<1> SUFFICES Cardinality(kept) <= m
  OBVIOUS
<1>1. IsFiniteSet(kept) /\ Cardinality(kept) \in Nat
  BY FS_Subset, FS_CardinalityType
<1>2. CASE kept = {}
  <2>1. Cardinality({}) = 0
    BY FS_EmptySet
  <2> HIDE DEF kept
  <2> QED
    BY <1>2, <2>1
<1>3. CASE kept # {}
  <2> DEFINE T == {r.n : r \in kept}
  <2>1. T \in SUBSET Nat /\ T # {}
    BY <1>3 DEF Snapshot
  <2>2. PICK x \in T : \A y \in T : x <= y
    BY <2>1, LeastNumber
  <2>3. PICK r \in kept : \A q \in kept : r.n <= q.n
    BY <2>2
  <2>4. r \in rows /\ Cardinality(newer(r)) < m
    OBVIOUS
  <2>5. kept \ {r} \subseteq newer(r)
    <3> SUFFICES ASSUME NEW q \in kept, q # r PROVE q.n > r.n
      OBVIOUS
    <3>1. q.n # r.n /\ q.n \in Nat /\ r.n \in Nat
      BY DEF NumbersOnce, Snapshot
    <3> QED
      BY <2>3, <3>1
  <2>6. IsFiniteSet(newer(r)) /\ Cardinality(newer(r)) \in Nat
    BY FS_Subset, FS_CardinalityType
  <2> HIDE DEF kept, newer
  <2>7. Cardinality(kept \ {r}) = Cardinality(kept) - 1
    BY <1>1, FS_RemoveElement
  <2>8. Cardinality(kept \ {r}) <= Cardinality(newer(r))
    BY <2>5, <2>6, FS_Subset
  <2> QED
    BY <1>1, <2>4, <2>6, <2>7, <2>8 DEF kept
<1> QED
  BY <1>2, <1>3

\* _apply_retention leaves every tab the newest of its rows, and its own tab
\* no more than MaxPerTab.
LEMMA RetentionKeepsTail ==
    ASSUME NEW table \in SUBSET Snapshot, IsFiniteSet(table), NumbersOnce(table),
           now \in Nat, NEW v \in Visitor, NEW tab \in Tab,
           \A u \in Visitor, b \in Tab : InTurn(RowsOf(table, u, b))
    PROVE  LET left == AfterRetention(table, v, tab)
           IN  /\ left \subseteq table
               /\ \A u \in Visitor, b \in Tab : InTurn(RowsOf(left, u, b))
               /\ MaxPerTab > 0 => Cardinality(RowsOf(left, v, tab)) <= MaxPerTab
<1> DEFINE recent == {r \in table : RetentionDays > 0 => r.seen >= now - RetentionDays}
           mine == RowsOf(recent, v, tab)
           newer(r) == {q \in RowsOf(recent, v, tab) : q.n > r.n}
           left == AfterRetention(table, v, tab)
<1>0. RetentionDays \in Nat /\ MaxPerTab \in Nat
  BY TrackingAssumption
<1>1. left = {r \in recent : r \in mine /\ MaxPerTab > 0 => Cardinality(newer(r)) < MaxPerTab}
  BY DEF AfterRetention
<1>2. recent \subseteq table /\ IsFiniteSet(recent) /\ IsFiniteSet(mine) /\ mine \subseteq recent
  BY FS_Subset DEF RowsOf
<1>3. \A r \in table : r.n \in Nat /\ r.seen \in Nat
  BY DEF Snapshot
<1>4. ASSUME NEW u \in Visitor, NEW b \in Tab
      PROVE  InTurn(RowsOf(left, u, b))
  <2>1. InTurn(RowsOf(recent, u, b))
    <3>1. RowsOf(recent, u, b) \in SUBSET RowsOf(table, u, b)
      BY DEF RowsOf
    <3>2. \A r \in RowsOf(recent, u, b), q \in RowsOf(table, u, b) :
             r.n < q.n => q \in RowsOf(recent, u, b)
      <4> SUFFICES ASSUME NEW r \in RowsOf(recent, u, b), NEW q \in RowsOf(table, u, b),
                          r.n < q.n
                   PROVE  q \in RowsOf(recent, u, b)
        OBVIOUS
      <4>1. r \in RowsOf(table, u, b) /\ r \in recent /\ r \in table /\ q \in table
        BY DEF RowsOf
      <4>2. r.seen <= q.seen
        BY <4>1 DEF InTurn
      <4> QED
        BY <1>0, <1>3, <4>1, <4>2 DEF RowsOf
    <3> HIDE DEF recent
    <3> QED
      BY <3>1, <3>2, TailInTurn
  <2>2. RowsOf(left, u, b) \in SUBSET RowsOf(recent, u, b)
    BY <1>1 DEF RowsOf
  <2>3. \A r \in RowsOf(left, u, b), q \in RowsOf(recent, u, b) :
           r.n < q.n => q \in RowsOf(left, u, b)
    <3> SUFFICES ASSUME NEW r \in RowsOf(left, u, b), NEW q \in RowsOf(recent, u, b),
                        r.n < q.n
                 PROVE  q \in left
      BY DEF RowsOf
    <3>1. r \in left /\ r \in recent /\ q \in recent /\ r.n \in Nat /\ q.n \in Nat
      BY <1>1, <1>3 DEF RowsOf
    <3>2. CASE q \in mine /\ MaxPerTab > 0
      <4>1. r \in mine
        BY <3>1, <3>2 DEF RowsOf
      <4>2. Cardinality(newer(r)) < MaxPerTab
        BY <1>1, <3>1, <3>2, <4>1
      <4>3. newer(q) \subseteq newer(r)
        <5> SUFFICES ASSUME NEW x \in mine, x.n > q.n PROVE x.n > r.n
          OBVIOUS
        <5>1. x.n \in Nat
          BY <1>2, <1>3
        <5> QED
          BY <3>1, <5>1
      <4>4. newer(r) \subseteq mine
        OBVIOUS
      <4> HIDE DEF newer, mine
      <4>5. /\ Cardinality(newer(q)) <= Cardinality(newer(r))
            /\ Cardinality(newer(q)) \in Nat /\ Cardinality(newer(r)) \in Nat
        BY <1>2, <4>3, <4>4, FS_Subset, FS_CardinalityType
      <4> QED
        BY <1>0, <1>1, <3>1, <4>2, <4>5
    <3>3. CASE ~(q \in mine /\ MaxPerTab > 0)
      BY <1>1, <3>1, <3>3
    <3> QED
      BY <3>2, <3>3
  <2> HIDE DEF recent, left
  <2> QED
    BY <2>1, <2>2, <2>3, TailInTurn
<1>5. ASSUME MaxPerTab > 0
      PROVE  Cardinality(RowsOf(left, v, tab)) <= MaxPerTab
  <2>1. RowsOf(left, v, tab) = {r \in mine : Cardinality({q \in mine : q.n > r.n}) < MaxPerTab}
    BY <1>1, <1>5 DEF RowsOf
  <2>2. mine \in SUBSET Snapshot /\ NumbersOnce(mine)
    BY <1>2 DEF NumbersOnce
  <2>3. MaxPerTab \in Nat \ {0}
    BY <1>0, <1>5
  <2> HIDE DEF mine, left
  <2> QED
    BY <1>2, <2>1, <2>2, <2>3, NewestAreFew
<1> QED
  BY <1>1, <1>2, <1>4, <1>5

\* Refreshing the newest row of a tab keeps every tab in order.
LEMMA RefreshKeepsTurn ==
    ASSUME NEW rows \in SUBSET Snapshot, IsFiniteSet(rows), NumbersOnce(rows),
           \A u \in Visitor, b \in Tab : InTurn(RowsOf(rows, u, b)),
           NEW top \in rows, \A q \in RowsOf(rows, top.v, top.tab) : q.n <= top.n,
           NEW t \in Nat, \A s \in rows : s.v = top.v => s.seen <= t
    PROVE  LET S == (rows \ {top}) \cup {[top EXCEPT !.seen = t]}
           IN  /\ S \subseteq Snapshot /\ IsFiniteSet(S) /\ NumbersOnce(S)
               /\ \A u \in Visitor, b \in Tab : InTurn(RowsOf(S, u, b))
<1> DEFINE new == [top EXCEPT !.seen = t]
           S == (rows \ {top}) \cup {new}
<1> SUFFICES /\ S \subseteq Snapshot /\ IsFiniteSet(S) /\ NumbersOnce(S)
             /\ \A u \in Visitor, b \in Tab : InTurn(RowsOf(S, u, b))
  OBVIOUS
<1>1. \A r \in rows : r.n \in Nat /\ r.seen \in Nat
  BY DEF Snapshot
<1>2. /\ new \in Snapshot
      /\ new.n = top.n /\ new.v = top.v /\ new.tab = top.tab /\ new.doc = top.doc
      /\ new.seen = t
  BY DEF Snapshot
<1> HIDE DEF new
<1>3. S \subseteq Snapshot /\ IsFiniteSet(S)
  BY <1>2, FS_RemoveElement, FS_AddElement
<1>4. NumbersOnce(S)
  BY <1>2 DEF NumbersOnce
<1>5. ASSUME NEW u \in Visitor, NEW b \in Tab
      PROVE  InTurn(RowsOf(S, u, b))
  <2> SUFFICES ASSUME NEW r \in S, NEW q \in S,
                      r.v = u, r.tab = b, q.v = u, q.tab = b, r.n < q.n
               PROVE  /\ r.seen <= q.seen
                      /\ r.doc = q.doc
                            => \E x \in RowsOf(S, u, b) : r.n < x.n /\ x.n < q.n
    BY DEF InTurn, RowsOf
  <2>1. PICK old \in rows : /\ old.n = q.n /\ old.doc = q.doc /\ old.v = u /\ old.tab = b
                            /\ q = old \/ (old = top /\ q = new)
    BY <1>2
  <2>2. r \in rows /\ r # top
    <3>1. ASSUME r = new PROVE FALSE
      <4>1. old \in RowsOf(rows, top.v, top.tab) /\ old.n > top.n
        BY <1>2, <2>1, <3>1 DEF RowsOf
      <4> QED
        BY <1>1, <4>1
    <3> QED
      BY <3>1
  <2>3. /\ r.seen <= old.seen
        /\ r.doc = old.doc => \E x \in RowsOf(rows, u, b) : r.n < x.n /\ x.n < old.n
    BY <2>1, <2>2 DEF InTurn, RowsOf
  <2>4. r.seen <= q.seen
    BY <1>2, <2>1, <2>2, <2>3
  <2>5. \A x \in RowsOf(rows, u, b) : \E y \in RowsOf(S, u, b) : y.n = x.n
    BY <1>2 DEF RowsOf
  <2> QED
    BY <2>1, <2>3, <2>4, <2>5
<1> QED
  BY <1>3, <1>4, <1>5

\* The snapshot recorded is the newest of its tab, or refreshes the newest.
LEMMA RecordKeepsTurn ==
    ASSUME TrackTypeOK, IsFiniteSet(snaps), NumbersOnce(snaps),
           \A u \in Visitor, b \in Tab : InTurn(RowsOf(snaps, u, b)),
           NEW v \in Visitor, NEW tab \in Tab, NEW doc \in Doc, NEW t \in Nat,
           \A s \in snaps : s.v = v => s.seen <= t,
           RecordSnapshot(v, tab, doc, t)
    PROVE  /\ IsFiniteSet(snaps') /\ NumbersOnce(snaps')
           /\ \A u \in Visitor, b \in Tab :
                 /\ InTurn(RowsOf(snaps', u, b))
                 /\ <<u, b>> # <<v, tab>> => RowsOf(snaps', u, b) \subseteq RowsOf(snaps, u, b)
           /\ MaxPerTab > 0 => Cardinality(RowsOf(snaps', v, tab)) <= MaxPerTab
           /\ \A s \in snaps' : s \in snaps \/ (s.v = v /\ s.seen = t)
<1> DEFINE same == {r \in Latest(snaps, v, tab) : r.doc = doc}
           row  == [n |-> nextSnap, v |-> v, tab |-> tab, doc |-> doc, seen |-> t]
           stored == IF same = {} THEN snaps \cup {row}
                     ELSE {IF r \in same THEN [r EXCEPT !.seen = t] ELSE r : r \in snaps}
<1>1. snaps' = AfterRetention(stored, v, tab)
  BY DEF RecordSnapshot
<1>2. /\ snaps \subseteq Snapshot /\ nextSnap \in Nat /\ now \in Nat
      /\ \A s \in snaps : s.n < nextSnap /\ s.n \in Nat /\ s.seen \in Nat
  BY DEF TrackTypeOK, Snapshot
<1>3. row \in Snapshot
  BY <1>2 DEF Snapshot
<1>5. \A r \in same : r \in snaps /\ r.v = v /\ r.tab = tab /\ r.doc = doc
                      /\ \A q \in RowsOf(snaps, v, tab) : q.n <= r.n
  BY DEF Latest, RowsOf
<1> DEFINE Good(S) ==
              /\ S \subseteq Snapshot /\ IsFiniteSet(S) /\ NumbersOnce(S)
              /\ \A u \in Visitor, b \in Tab :
                    /\ InTurn(RowsOf(S, u, b))
                    /\ <<u, b>> # <<v, tab>> => RowsOf(S, u, b) \subseteq RowsOf(snaps, u, b)
              /\ \A s \in S : s \in snaps \/ (s.v = v /\ s.seen = t)
<1>6. ASSUME same = {} PROVE Good(stored)
  <2> DEFINE S == snaps \cup {row}
  <2>0. S \subseteq Snapshot /\ IsFiniteSet(S)
    BY <1>2, <1>3, FS_AddElement
  <2>1. NumbersOnce(S)
    BY <1>2 DEF NumbersOnce
  <2>2. ASSUME NEW u \in Visitor, NEW b \in Tab, <<u, b>> # <<v, tab>>
        PROVE  RowsOf(S, u, b) = RowsOf(snaps, u, b)
    BY <2>2 DEF RowsOf
  <2>3. InTurn(RowsOf(S, v, tab))
    <3> DEFINE old == RowsOf(snaps, v, tab)
    <3>1. RowsOf(S, v, tab) = old \cup {row}
      BY DEF RowsOf
    <3>2. InTurn(old) /\ \A r \in old : r \in snaps /\ r.v = v
      BY DEF RowsOf
    <3>3. ASSUME NEW r \in old, r.doc = doc
          PROVE  \E q \in old : r.n < q.n
      <4>1. r \notin Latest(snaps, v, tab)
        BY <1>6, <3>3
      <4>2. PICK q \in old : ~(q.n <= r.n)
        BY <4>1 DEF Latest
      <4> QED
        BY <1>2, <3>2, <4>2
    <3>4. row.n = nextSnap /\ row.seen = t /\ row.doc = doc
      OBVIOUS
    <3>5. \A r \in old : r.n < row.n /\ r.seen <= row.seen /\ r.n \in Nat
      BY <1>2, <3>2, <3>4
    <3> HIDE DEF old, row
    <3> SUFFICES ASSUME NEW r \in old \cup {row}, NEW q \in old \cup {row}, r.n < q.n
                 PROVE  /\ r.seen <= q.seen
                        /\ r.doc = q.doc => \E b \in old \cup {row} : r.n < b.n /\ b.n < q.n
      BY <3>1 DEF InTurn
    <3>6. r \in old
      BY <1>2, <3>4, <3>5
    <3>7. CASE q \in old
      BY <3>2, <3>6, <3>7 DEF InTurn
    <3>8. CASE q = row
      BY <3>3, <3>4, <3>5, <3>6, <3>8
    <3> QED
      BY <3>7, <3>8
  <2>4. \A s \in S : s \in snaps \/ (s.v = v /\ s.seen = t)
    OBVIOUS
  <2>5. Good(S)
    <3>1. \A u \in Visitor, b \in Tab : <<u, b>> = <<v, tab>> => u = v /\ b = tab
      OBVIOUS
    <3> HIDE DEF S
    <3> QED
      BY <2>0, <2>1, <2>2, <2>3, <2>4, <3>1
  <2> QED
    BY <1>6, <2>5
<1>7. ASSUME same # {} PROVE Good(stored)
  <2>1. PICK top \in same : TRUE
    BY <1>7
  <2>2. same = {top} /\ top \in snaps /\ top.v = v /\ top.tab = tab
        /\ \A q \in RowsOf(snaps, v, tab) : q.n <= top.n
    BY <1>2, <1>5, <2>1 DEF RowsOf, NumbersOnce
  <2> DEFINE new == [top EXCEPT !.seen = t]
             S == (snaps \ {top}) \cup {new}
  <2> HIDE DEF same
  <2>3. stored = S
    BY <2>2
  <2>4. /\ S \subseteq Snapshot /\ IsFiniteSet(S) /\ NumbersOnce(S)
        /\ \A u \in Visitor, b \in Tab : InTurn(RowsOf(S, u, b))
    <3>1. \A s \in snaps : s.v = top.v => s.seen <= t
      BY <2>2
    <3>2. snaps \in SUBSET Snapshot
      BY <1>2
    <3> HIDE DEF S
    <3>3. S = (snaps \ {top}) \cup {[top EXCEPT !.seen = t]}
      BY DEF S
    <3> QED
      BY <2>2, <3>1, <3>2, <3>3, RefreshKeepsTurn
  <2>5. new.v = v /\ new.tab = tab /\ new.seen = t
    BY <1>2, <2>2 DEF Snapshot
  <2> HIDE DEF new
  <2>6. ASSUME NEW u \in Visitor, NEW b \in Tab, <<u, b>> # <<v, tab>>
        PROVE  RowsOf(S, u, b) \subseteq RowsOf(snaps, u, b)
    BY <2>5, <2>6 DEF RowsOf
  <2>7. \A s \in S : s \in snaps \/ (s.v = v /\ s.seen = t)
    BY <2>5
  <2> HIDE DEF S
  <2> QED
    BY <2>3, <2>4, <2>6, <2>7
<1>8. Good(stored)
  BY <1>6, <1>7
<1> HIDE DEF stored
<1>9. /\ snaps' \subseteq stored
      /\ \A u \in Visitor, b \in Tab : InTurn(RowsOf(snaps', u, b))
      /\ MaxPerTab > 0 => Cardinality(RowsOf(snaps', v, tab)) <= MaxPerTab
  BY <1>1, <1>2, <1>8, RetentionKeepsTail
<1>10. IsFiniteSet(snaps') /\ NumbersOnce(snaps')
  BY <1>8, <1>9, FS_Subset DEF NumbersOnce
<1>11. \A u \in Visitor, b \in Tab : RowsOf(snaps', u, b) \subseteq RowsOf(stored, u, b)
  BY <1>9 DEF RowsOf
<1> QED
  BY <1>8, <1>9, <1>10, <1>11

\* Merging a repeat into the latest event of a tab keeps every tab spaced.
LEMMA MergeKeepsSpacing ==
    ASSUME NEW rows \in SUBSET Event, NumbersOnce(rows),
           \A u \in Visitor, b \in Tab : Spaced(RowsOf(rows, u, b)),
           NEW top \in rows, \A q \in RowsOf(rows, top.v, top.tab) : q.n <= top.n,
           NEW t \in Nat,
           top.tab \in Tab => \A s \in RowsOf(rows, top.v, top.tab) : s.t <= t
    PROVE  LET S == (rows \ {top}) \cup {[top EXCEPT !.t = t]}
           IN  /\ S \subseteq Event /\ NumbersOnce(S)
               /\ \A u \in Visitor, b \in Tab : Spaced(RowsOf(S, u, b))
<1> DEFINE new == [top EXCEPT !.t = t]
           S == (rows \ {top}) \cup {new}
<1> SUFFICES /\ S \subseteq Event /\ NumbersOnce(S)
             /\ \A u \in Visitor, b \in Tab : Spaced(RowsOf(S, u, b))
  OBVIOUS
<1>0. Window \in Nat
  BY TrackingAssumption
<1>1. \A r \in rows : r.n \in Nat /\ r.t \in Nat
  BY DEF Event
<1>2. /\ new \in Event
      /\ new.n = top.n /\ new.v = top.v /\ new.tab = top.tab /\ new.key = top.key
      /\ new.t = t
  BY DEF Event
<1> HIDE DEF new
<1>3. S \subseteq Event
  BY <1>2
<1>4. NumbersOnce(S)
  BY <1>2 DEF NumbersOnce
<1>5. ASSUME NEW u \in Visitor, NEW b \in Tab
      PROVE  Spaced(RowsOf(S, u, b))
  <2> SUFFICES ASSUME NEW r \in S, NEW q \in S,
                      r.v = u, r.tab = b, q.v = u, q.tab = b, r.n < q.n
               PROVE  /\ r.t <= q.t
                      /\ r.key # None /\ r.key = q.key =>
                            \/ q.t - r.t > Window
                            \/ \E x \in RowsOf(S, u, b) : r.n < x.n /\ x.n < q.n
    BY DEF Spaced, RowsOf
  <2>1. PICK old \in rows : /\ old.n = q.n /\ old.key = q.key /\ old.v = u /\ old.tab = b
                            /\ q = old \/ (old = top /\ q = new)
    BY <1>2
  <2>2. r \in rows /\ r # top
    <3>1. ASSUME r = new PROVE FALSE
      <4>1. old \in RowsOf(rows, top.v, top.tab) /\ old.n > top.n
        BY <1>2, <2>1, <3>1 DEF RowsOf
      <4> QED
        BY <1>1, <4>1
    <3> QED
      BY <3>1
  <2>3. /\ r.t <= old.t
        /\ r.key # None /\ r.key = old.key =>
              \/ old.t - r.t > Window
              \/ \E x \in RowsOf(rows, u, b) : r.n < x.n /\ x.n < old.n
    BY <2>1, <2>2 DEF Spaced, RowsOf
  <2>4. r.t \in Nat /\ old.t \in Nat /\ q.t \in Nat /\ old.t <= q.t
    <3>1. old = top => old.t <= t
      BY <2>1 DEF RowsOf
    <3> QED
      BY <1>1, <1>2, <2>1, <2>2, <3>1
  <2>5. r.t <= q.t /\ (old.t - r.t > Window => q.t - r.t > Window)
    BY <1>0, <2>3, <2>4
  <2>6. \A x \in RowsOf(rows, u, b) : \E y \in RowsOf(S, u, b) : y.n = x.n
    BY <1>2 DEF RowsOf
  <2> QED
    BY <2>1, <2>3, <2>5, <2>6
<1> QED
  BY <1>3, <1>4, <1>5

\* A new event comes last in its tab; what it repeats lies behind the window.
LEMMA AppendKeepsSpacing ==
    ASSUME NEW rows \in SUBSET Event, NumbersOnce(rows),
           \A u \in Visitor, b \in Tab : Spaced(RowsOf(rows, u, b)),
           NEW row \in Event, \A r \in rows : r.n < row.n,
           row.tab \in Tab => \A r \in RowsOf(rows, row.v, row.tab) : r.t <= row.t,
           row.key # None =>
              \A r \in RowsOf(rows, row.v, row.tab) :
                 /\ r.key = row.key
                 /\ \A q \in RowsOf(rows, row.v, row.tab) : q.n <= r.n
                 => row.t - r.t > Window
    PROVE  LET S == rows \cup {row}
           IN  NumbersOnce(S) /\ \A u \in Visitor, b \in Tab : Spaced(RowsOf(S, u, b))
<1> DEFINE S == rows \cup {row}
<1> SUFFICES NumbersOnce(S) /\ \A u \in Visitor, b \in Tab : Spaced(RowsOf(S, u, b))
  OBVIOUS
<1>1. row.n \in Nat /\ \A r \in rows : r.n \in Nat
  BY DEF Event
<1>2. NumbersOnce(S)
  BY <1>1 DEF NumbersOnce
<1>3. ASSUME NEW u \in Visitor, NEW b \in Tab
      PROVE  Spaced(RowsOf(S, u, b))
  <2> SUFFICES ASSUME NEW r \in S, NEW q \in S,
                      r.v = u, r.tab = b, q.v = u, q.tab = b, r.n < q.n
               PROVE  /\ r.t <= q.t
                      /\ r.key # None /\ r.key = q.key =>
                            \/ q.t - r.t > Window
                            \/ \E x \in RowsOf(S, u, b) : r.n < x.n /\ x.n < q.n
    BY DEF Spaced, RowsOf
  <2>1. r \in rows
    BY <1>1
  <2>2. CASE q \in rows
    BY <2>1, <2>2 DEF Spaced, RowsOf
  <2>3. CASE q = row
    <3>1. r \in RowsOf(rows, row.v, row.tab)
      BY <2>1, <2>3 DEF RowsOf
    <3>2. ASSUME r.key # None, r.key = row.key, ~(row.t - r.t > Window)
          PROVE  \E x \in RowsOf(S, u, b) : r.n < x.n /\ x.n < q.n
      <4>1. PICK x \in RowsOf(rows, row.v, row.tab) : ~(x.n <= r.n)
        BY <3>1, <3>2
      <4>2. x \in rows /\ x.v = u /\ x.tab = b
        BY <2>3 DEF RowsOf
      <4> QED
        BY <1>1, <2>1, <2>3, <4>1, <4>2 DEF RowsOf
    <3> QED
      BY <2>3, <3>1, <3>2
  <2> QED
    BY <2>2, <2>3
<1> QED
  BY <1>2, <1>3

LEMMA RecordKeepsSpacing ==
    ASSUME TrackTypeOK, NumbersOnce(events),
           \A u \in Visitor, b \in Tab : Spaced(RowsOf(events, u, b)),
           NEW v \in Visitor, NEW tab \in Tab \cup {PageTab},
           NEW key \in CoalesceKey \cup {None}, NEW t \in Nat,
           tab \in Tab => \A e \in RowsOf(events, v, tab) : e.t <= t,
           RecordEvent(v, tab, key, t)
    PROVE  /\ NumbersOnce(events')
           /\ \A u \in Visitor, b \in Tab : Spaced(RowsOf(events', u, b))
           /\ \A e \in events' : e \in events \/ (e.v = v /\ e.tab = tab /\ e.t = t)
<1> DEFINE same == Repeats(v, tab, key, t)
           row  == [n |-> nextEvent, v |-> v, tab |-> tab, t |-> t, key |-> key]
           stored == IF same = {} THEN events \cup {row}
                     ELSE {IF e \in same THEN [e EXCEPT !.t = t] ELSE e : e \in events}
           sweep == RetentionDays > 0 /\ writes' = 1
           Fits(S) == /\ S \subseteq Event /\ NumbersOnce(S)
                      /\ \A u \in Visitor, b \in Tab : Spaced(RowsOf(S, u, b))
                      /\ \A e \in S : e \in events \/ (e.v = v /\ e.tab = tab /\ e.t = t)
<1>1. events' = {e \in stored : sweep => e.t >= t - RetentionDays}
  BY DEF RecordEvent
<1>2. /\ events \subseteq Event /\ nextEvent \in Nat
      /\ \A e \in events : e.n < nextEvent /\ e.n \in Nat /\ e.t \in Nat
  BY DEF TrackTypeOK, Event
<1>3. \A e \in same : /\ e \in events /\ e.v = v /\ e.tab = tab
                      /\ \A q \in RowsOf(events, v, tab) : q.n <= e.n
  BY DEF Repeats, Latest, RowsOf
<1>4. ASSUME same = {} PROVE Fits(stored)
  <2>1. row \in Event /\ row.n = nextEvent /\ row.v = v /\ row.tab = tab /\ row.t = t
        /\ row.key = key
    BY <1>2 DEF Event
  <2>2. key # None =>
           \A r \in RowsOf(events, v, tab) :
              /\ r.key = key
              /\ \A q \in RowsOf(events, v, tab) : q.n <= r.n
              => t - r.t > Window
    <3> SUFFICES ASSUME key # None, NEW r \in RowsOf(events, v, tab), r.key = key,
                        \A q \in RowsOf(events, v, tab) : q.n <= r.n
                 PROVE  t - r.t > Window
      OBVIOUS
    <3>1. ~(t - r.t <= Window)
      BY <1>4 DEF Repeats, Latest
    <3>2. r.t \in Nat /\ Window \in Nat
      BY <1>2, TrackingAssumption DEF RowsOf
    <3> QED
      BY <3>1, <3>2
  <2> HIDE DEF row
  <2> DEFINE S == events \cup {row}
  <2>3. NumbersOnce(S) /\ \A u \in Visitor, b \in Tab : Spaced(RowsOf(S, u, b))
    BY <1>2, <2>1, <2>2, AppendKeepsSpacing
  <2>4. S \subseteq Event /\ \A e \in S : e \in events \/ (e.v = v /\ e.tab = tab /\ e.t = t)
    BY <1>2, <2>1
  <2> HIDE DEF S
  <2>5. Fits(S)
    BY <2>3, <2>4
  <2> QED
    BY <1>4, <2>5 DEF S
<1>5. ASSUME same # {} PROVE Fits(stored)
  <2>1. PICK top \in same : TRUE
    BY <1>5
  <2>2. same = {top} /\ top \in events /\ top.v = v /\ top.tab = tab
        /\ \A q \in RowsOf(events, v, tab) : q.n <= top.n
    BY <1>2, <1>3, <2>1 DEF RowsOf, NumbersOnce
  <2> DEFINE new == [top EXCEPT !.t = t]
             S == (events \ {top}) \cup {new}
  <2> HIDE DEF same
  <2>3. stored = S
    BY <2>2
  <2>4. /\ S \subseteq Event /\ NumbersOnce(S)
        /\ \A u \in Visitor, b \in Tab : Spaced(RowsOf(S, u, b))
    <3>1. events \in SUBSET Event
      BY <1>2
    <3> HIDE DEF S
    <3>2. S = (events \ {top}) \cup {[top EXCEPT !.t = t]}
      BY DEF S
    <3> QED
      BY <2>2, <3>1, <3>2, MergeKeepsSpacing
  <2>5. new.v = v /\ new.tab = tab /\ new.t = t
    BY <1>2, <2>2 DEF Event
  <2> HIDE DEF new
  <2>6. \A s \in S : s \in events \/ (s.v = v /\ s.tab = tab /\ s.t = t)
    BY <2>5
  <2> HIDE DEF S
  <2> QED
    BY <2>3, <2>4, <2>6
<1>6. Fits(stored)
  BY <1>4, <1>5
<1> HIDE DEF stored
<1>7. events' \subseteq stored /\ NumbersOnce(events')
  BY <1>1, <1>6 DEF NumbersOnce
<1>8. ASSUME NEW u \in Visitor, NEW b \in Tab
      PROVE  Spaced(RowsOf(events', u, b))
  <2>1. RowsOf(events', u, b) \in SUBSET RowsOf(stored, u, b)
    BY <1>1 DEF RowsOf
  <2>2. \A r \in RowsOf(events', u, b), q \in RowsOf(stored, u, b) :
           r.n < q.n => q \in RowsOf(events', u, b)
    <3> SUFFICES ASSUME NEW r \in RowsOf(events', u, b), NEW q \in RowsOf(stored, u, b),
                        r.n < q.n
                 PROVE  q \in events'
      BY DEF RowsOf
    <3>1. r.t <= q.t
      BY <1>6, <2>1 DEF Spaced
    <3>2. q \in stored /\ r.t \in Nat /\ q.t \in Nat /\ RetentionDays \in Nat
      BY <1>6, <2>1, TrackingAssumption DEF RowsOf, Event
    <3>3. sweep => r.t >= t - RetentionDays
      BY <1>1 DEF RowsOf
    <3> QED
      BY <1>1, <3>1, <3>2, <3>3
  <2>3. Spaced(RowsOf(stored, u, b))
    BY <1>6
  <2> QED
    BY <2>1, <2>2, <2>3, TailSpaced
<1> QED
  BY <1>6, <1>7, <1>8

-----------------------------------------------------------------------------
(* Requests of one visitor take turns, so their clocks reach the store in   *)
(* order                                                                   *)

Under(t) == req[t] # Idle

\* Two requests of a visitor only when one of them takes no lock.
TakeTurns ==
    \A t, u \in Thread :
        t # u /\ Under(t) /\ Under(u) /\ req[t].v = req[u].v
           => req[t].kind = "page" \/ req[u].kind = "page"

OwnTab ==
    \A t \in Thread : Under(t) =>
        /\ IF req[t].kind = "page" THEN req[t].tab = PageTab ELSE req[t].tab \in Tab
        /\ req[t].at = "snapshot" => req[t].kind = "snapshot"

ReadBefore ==
    /\ \A t \in Thread : Under(t) => req[t].clock <= now
    /\ \A e \in events : e.t <= now
    /\ \A s \in snaps : s.seen <= now

\* What is stored is older than the clock of a request about to store more.
ClocksInOrder ==
    \A t \in Thread : Under(t) =>
        /\ req[t].at = "snapshot" =>
              \A s \in snaps : s.v = req[t].v => s.seen <= req[t].clock
        /\ req[t].at = "event" /\ req[t].kind # "page" =>
              \A e \in RowsOf(events, req[t].v, req[t].tab) : e.t <= req[t].clock

EventTable ==
    /\ NumbersOnce(events)
    /\ \A v \in Visitor, tab \in Tab : Spaced(RowsOf(events, v, tab))

EventInv ==
    /\ TrackInv
    /\ TakeTurns /\ OwnTab /\ ReadBefore /\ ClocksInOrder
    /\ EventTable

\* The old log is imported into an empty table.
ImportedFirst == snaps # {} => imported \/ legacy = "absent"

Bounded(rows) ==
    MaxPerTab > 0 => Cardinality(rows) <= Greater(MaxPerTab, Cardinality(LegacyRows))

SnapshotTable ==
    /\ ImportedFirst
    /\ IsFiniteSet(snaps) /\ NumbersOnce(snaps)
    /\ \A v \in Visitor, tab \in Tab :
          InTurn(RowsOf(snaps, v, tab)) /\ Bounded(RowsOf(snaps, v, tab))

\* The import does not compare the snapshots of the old log: the log has to
\* have been written by the same rule, without one snapshot twice in a row.
LogInTurn == \A v \in Visitor, tab \in Tab : InTurn(RowsOf(LegacyRows, v, tab))

SnapshotInv == LogInTurn /\ EventInv /\ SnapshotTable

LEMMA EventInitGood == TrackInit => EventInv
<1> SUFFICES ASSUME TrackInit PROVE EventInv
  OBVIOUS
<1>1. \A v, tab : RowsOf({}, v, tab) = {}
  BY DEF RowsOf
<1>2. Spaced({}) /\ NumbersOnce({})
  BY DEF Spaced, NumbersOnce
<1>3. EventTable
  BY <1>1, <1>2 DEF TrackInit, EventTable
<1>4. TakeTurns /\ OwnTab /\ ReadBefore /\ ClocksInOrder
  BY DEF TrackInit, TakeTurns, OwnTab, ReadBefore, ClocksInOrder, Under
<1> QED
  BY <1>3, <1>4, TrackInitGood DEF EventInv

LEMMA EmptyTable == TrackInit => SnapshotTable
<1> SUFFICES ASSUME TrackInit PROVE SnapshotTable
  OBVIOUS
<1>1. \A v, tab : RowsOf({}, v, tab) = {}
  BY DEF RowsOf
<1>2. IsFiniteSet({}) /\ Cardinality({}) = 0 /\ Cardinality(LegacyRows) \in Nat
      /\ MaxPerTab \in Nat
  BY FS_EmptySet, FS_CardinalityType, TrackingAssumption
<1>3. Bounded({}) /\ InTurn({}) /\ NumbersOnce({})
  BY <1>2 DEF Bounded, InTurn, NumbersOnce, Greater
<1> QED
  BY <1>1, <1>2, <1>3 DEF TrackInit, SnapshotTable, ImportedFirst

\* A request moves on to its next write, or ends; what it stored has its clock.
LEMMA TurnKept ==
    ASSUME EventInv, NEW t \in Thread, NEW r \in Busy \cup {Idle}, Goto(t, r), now' = now,
           r # Idle => /\ Under(t)
                       /\ r.v = req[t].v /\ r.kind = req[t].kind /\ r.tab = req[t].tab
                       /\ r.at \in {"touch", "touching", "event"}
                       /\ r.clock <= now /\ (r.at = "event" => r.clock = now),
           \A s \in snaps' : s \notin snaps =>
              /\ Under(t) /\ req[t].at = "snapshot"
              /\ s.v = req[t].v /\ s.seen = req[t].clock,
           \A e \in events' : e \notin events =>
              /\ Under(t)
              /\ e.v = req[t].v /\ e.tab = req[t].tab /\ e.t = req[t].clock
    PROVE  TakeTurns' /\ OwnTab' /\ ReadBefore' /\ ClocksInOrder'
<1>1. /\ req'[t] = r
      /\ \A u \in Thread \ {t} : req'[u] = req[u]
  BY Moved DEF EventInv, TrackInv
<1>2. TakeTurns'
  BY <1>1 DEF EventInv, TakeTurns, Under
<1>3. OwnTab'
  BY <1>1 DEF EventInv, OwnTab, Under
<1>4. ReadBefore'
  BY <1>1 DEF EventInv, ReadBefore, Under
<1>5. ASSUME NEW u \in Thread, req'[u] # Idle, req'[u].at = "snapshot",
             NEW s \in snaps', s.v = req'[u].v
      PROVE  s.seen <= req'[u].clock
  <2>1. u # t /\ req'[u] = req[u] /\ Under(u)
    BY <1>1, <1>5 DEF Under
  <2>2. s \in snaps
    <3>1. ASSUME s \notin snaps PROVE FALSE
      <4>1. Under(t) /\ req[t].kind = "snapshot" /\ req[u].kind = "snapshot"
            /\ req[t].v = req[u].v
        BY <1>5, <2>1, <3>1 DEF EventInv, OwnTab
      <4> QED
        BY <2>1, <4>1 DEF EventInv, TakeTurns
    <3> QED
      BY <3>1
  <2> QED
    BY <1>5, <2>1, <2>2 DEF EventInv, ClocksInOrder
<1>6. ASSUME NEW u \in Thread, req'[u] # Idle, req'[u].at = "event", req'[u].kind # "page",
             NEW e \in RowsOf(events', req'[u].v, req'[u].tab)
      PROVE  e.t <= req'[u].clock
  <2>1. e \in events' /\ e.v = req'[u].v /\ e.tab = req'[u].tab
    BY DEF RowsOf
  <2>2. CASE u = t
    BY <1>1, <1>4, <1>6, <2>1, <2>2 DEF ReadBefore
  <2>3. CASE u # t
    <3>1. req'[u] = req[u] /\ Under(u)
      BY <1>1, <1>6, <2>3 DEF Under
    <3>2. e \in events
      <4>1. ASSUME e \notin events PROVE FALSE
        <5>1. Under(t) /\ req[t].v = req[u].v /\ req[t].tab = req[u].tab
          BY <2>1, <3>1, <4>1
        <5>2. req[u].tab \in Tab /\ req[t].kind # "page"
          BY <1>6, <3>1, <5>1, TrackingAssumption DEF EventInv, OwnTab
        <5> QED
          BY <1>6, <2>3, <3>1, <5>1, <5>2 DEF EventInv, TakeTurns
      <4> QED
        BY <4>1
    <3> QED
      BY <1>6, <2>1, <3>1, <3>2 DEF EventInv, ClocksInOrder, RowsOf
  <2> QED
    BY <2>2, <2>3
<1>7. ClocksInOrder'
  BY <1>5, <1>6 DEF ClocksInOrder, Under
<1> QED
  BY <1>2, <1>3, <1>4, <1>7

LEMMA BeginTakesTurn ==
    ASSUME EventInv, TrackInv', NEW t \in Thread, NEW kind \in Sent, NEW v \in Visitor,
           NEW tab \in Tab, NEW doc \in Doc \cup {None}, NEW key \in CoalesceKey \cup {None},
           Begin(t, kind, v, tab, doc, key)
    PROVE  EventInv'
<1> DEFINE r == [at |-> CASE kind = "snapshot" -> "snapshot"
                          [] kind = "delete" -> "delete"
                          [] OTHER -> "touch",
                 kind |-> kind, v |-> v, tab |-> IF kind = "page" THEN PageTab ELSE tab,
                 doc |-> doc, key |-> key, clock |-> IF kind = "snapshot" THEN now ELSE 0]
<1>1. now \in Nat /\ req[t] = Idle /\ req' = [req EXCEPT ![t] = r]
      /\ UNCHANGED <<tables, file, writes, touched, now>>
  BY DEF Begin, Goto, EventInv, TrackInv, TrackTypeOK
<1>2. /\ r.kind = kind /\ r.v = v
      /\ IF kind = "page" THEN r.tab = PageTab ELSE r.tab \in Tab
      /\ r.at = "snapshot" => kind = "snapshot" /\ r.clock = now
      /\ r.at # "event"
      /\ r.clock <= now
  BY <1>1
<1>3. kind # "page" => \A u \in Thread : Under(u) /\ req[u].v = v => req[u].kind = "page"
  BY DEF Begin, Active, Under
<1> HIDE DEF r
<1>4. req'[t] = r /\ \A u \in Thread \ {t} : req'[u] = req[u]
  BY <1>1 DEF EventInv, TrackInv, TrackTypeOK
<1>5. snaps' = snaps /\ events' = events /\ now' = now
  BY <1>1 DEF tables
<1>6. TakeTurns'
  BY <1>2, <1>3, <1>4 DEF EventInv, TakeTurns, Under
<1>7. OwnTab' /\ ReadBefore'
  BY <1>2, <1>4, <1>5 DEF EventInv, OwnTab, ReadBefore, Under
<1>8. ClocksInOrder'
  BY <1>2, <1>4, <1>5 DEF EventInv, ClocksInOrder, ReadBefore, Under
<1>9. EventTable'
  BY <1>5 DEF EventInv, EventTable
<1> QED
  BY <1>6, <1>7, <1>8, <1>9 DEF EventInv

LEMMA OpenKeepsEvents ==
    ASSUME EventInv, TrackInv', OpenStore
    PROVE  EventInv'
<1>1. snaps' \subseteq snaps \cup LegacyRows /\ UNCHANGED <<events, req, now>>
  BY DEF OpenStore
<1>2. \A s \in LegacyRows : s.seen = 0
  BY TrackingAssumption
<1>3. now \in Nat /\ \A t \in Thread : Under(t) => req[t].clock \in Nat
  BY RequestFields DEF EventInv, TrackInv, TrackTypeOK, Under
<1>4. TakeTurns' /\ OwnTab' /\ EventTable'
  BY <1>1 DEF EventInv, TakeTurns, OwnTab, EventTable, Under
<1>5. ReadBefore'
  BY <1>1, <1>2, <1>3 DEF EventInv, ReadBefore, Under
<1>6. ClocksInOrder'
  BY <1>1, <1>2, <1>3 DEF EventInv, ClocksInOrder, Under
<1> QED
  BY <1>4, <1>5, <1>6 DEF EventInv

LEMMA StoreSnapshotTakesTurn ==
    ASSUME EventInv, TrackInv', NEW t \in Thread, StoreSnapshot(t)
    PROVE  EventInv'
<1> DEFINE r == req[t]
           q == [r EXCEPT !.at = "touch", !.doc = None, !.clock = 0]
<1>1. /\ r # Idle /\ r \in Busy /\ r.v \in Visitor /\ r.at = "snapshot" /\ now \in Nat
  BY AtPlace DEF StoreSnapshot, EventInv, TrackInv, TrackTypeOK
<1>2. UNCHANGED <<events, now>>
  BY DEF StoreSnapshot
<1>3. \A s \in snaps' : s \notin snaps => s.v = r.v /\ s.seen = r.clock
  <2>1. CASE RecordSnapshot(r.v, r.tab, r.doc, r.clock)
    <3>1. r.tab \in Tab /\ r.doc \in Doc /\ r.clock \in Nat
      BY <1>1 DEF EventInv, TrackInv, ReadyToRecord, Busy
    <3> QED
      BY <1>1, <2>1, <3>1, SnapshotStored DEF EventInv, TrackInv
  <2>2. CASE UNCHANGED snaps
    BY <2>2
  <2> QED
    BY <2>1, <2>2 DEF StoreSnapshot
<1>4. /\ q \in Busy /\ q.v = r.v /\ q.kind = r.kind /\ q.tab = r.tab
      /\ q.at = "touch" /\ q.clock = 0
  BY <1>1 DEF Busy
<1>5. Goto(t, Idle) \/ Goto(t, q)
  BY DEF StoreSnapshot
<1>6. TakeTurns' /\ OwnTab' /\ ReadBefore' /\ ClocksInOrder'
  <2> HIDE DEF q
  <2>1. CASE Goto(t, Idle)
    BY <1>1, <1>2, <1>3, <2>1, TurnKept DEF Under
  <2>2. CASE Goto(t, q)
    BY <1>1, <1>2, <1>3, <1>4, <2>2, TurnKept DEF Under
  <2> QED
    BY <1>5, <2>1, <2>2
<1>7. EventTable'
  BY <1>2 DEF EventInv, EventTable
<1> QED
  BY <1>6, <1>7 DEF EventInv

\* A touch, cached or stored, leaves the tables of snapshots and events alone.
LEMMA TouchTakesTurn ==
    ASSUME EventInv, TrackInv', NEW t \in Thread, Touch(t) \/ StoreTouch(t)
    PROVE  EventInv'
<1> DEFINE r == req[t]
           a == [r EXCEPT !.at = "event", !.clock = now]
           q == [r EXCEPT !.at = "touching", !.clock = now]
<1>1. r # Idle /\ r \in Busy /\ now \in Nat
  BY AtPlace DEF Touch, StoreTouch, EventInv, TrackInv, TrackTypeOK
<1>2. UNCHANGED <<snaps, events, now>>
  BY DEF Touch, StoreTouch, tables
<1>3. /\ a \in Busy /\ a.v = r.v /\ a.kind = r.kind /\ a.tab = r.tab
      /\ a.at = "event" /\ a.clock = now
      /\ q \in Busy /\ q.v = r.v /\ q.kind = r.kind /\ q.tab = r.tab
      /\ q.at = "touching" /\ q.clock = now
  BY <1>1 DEF Busy
<1>4. Goto(t, Idle) \/ Goto(t, a) \/ Goto(t, q)
  BY DEF Touch, StoreTouch, AfterTouch
<1>5. TakeTurns' /\ OwnTab' /\ ReadBefore' /\ ClocksInOrder'
  <2> HIDE DEF a, q
  <2>1. CASE Goto(t, Idle)
    BY <1>1, <1>2, <2>1, TurnKept
  <2>2. CASE Goto(t, a)
    BY <1>1, <1>2, <1>3, <2>2, TurnKept DEF Under
  <2>3. CASE Goto(t, q)
    BY <1>1, <1>2, <1>3, <2>3, TurnKept DEF Under
  <2> QED
    BY <1>4, <2>1, <2>2, <2>3
<1>6. EventTable'
  BY <1>2 DEF EventInv, EventTable
<1> QED
  BY <1>5, <1>6 DEF EventInv

\* An event carries a clock no older than the events of its tab, unless its
\* request took no lock.
LEMMA StoreEventTakesTurn ==
    ASSUME EventInv, TrackInv', NEW t \in Thread, StoreEvent(t)
    PROVE  EventInv'
<1> DEFINE r == req[t]
<1>1. /\ r # Idle /\ r.v \in Visitor /\ r.clock \in Nat /\ r.at = "event"
      /\ r.tab \in Tab \cup {PageTab} /\ r.key \in CoalesceKey \cup {None}
  BY AtPlace DEF StoreEvent, EventInv, TrackInv
<1>2. UNCHANGED <<snaps, now>> /\ Goto(t, Idle)
  BY DEF StoreEvent
<1>3. /\ NumbersOnce(events')
      /\ \A u \in Visitor, b \in Tab : Spaced(RowsOf(events', u, b))
      /\ \A e \in events' : e \in events \/ (e.v = r.v /\ e.tab = r.tab /\ e.t = r.clock)
  <2>1. CASE RecordEvent(r.v, r.tab, r.key, r.clock)
    <3>1. r.tab \in Tab => r.kind # "page"
      BY <1>1, TrackingAssumption DEF EventInv, OwnTab, Under
    <3>2. r.tab \in Tab => \A e \in RowsOf(events, r.v, r.tab) : e.t <= r.clock
      BY <1>1, <3>1 DEF EventInv, ClocksInOrder, Under
    <3> HIDE DEF r
    <3> QED
      BY <1>1, <2>1, <3>2, RecordKeepsSpacing DEF EventInv, TrackInv, EventTable
  <2>2. CASE UNCHANGED events
    BY <2>2 DEF EventInv, EventTable
  <2> QED
    BY <2>1, <2>2 DEF StoreEvent
<1>4. TakeTurns' /\ OwnTab' /\ ReadBefore' /\ ClocksInOrder'
  BY <1>1, <1>2, <1>3, TurnKept DEF Under
<1> QED
  BY <1>3, <1>4 DEF EventInv, EventTable

\* Deleting a visitor's rows leaves all rows of a tab, or none.
LEMMA DeleteTakesTurn ==
    ASSUME EventInv, TrackInv', NEW t \in Thread, DeleteVisitor(t)
    PROVE  EventInv'
<1>1. Goto(t, Idle) /\ now' = now
  BY DEF DeleteVisitor
<1>2. /\ snaps' \subseteq snaps /\ events' \subseteq events
      /\ \A v \in Visitor, tab \in Tab :
            RowsOf(events', v, tab) \in {{}, RowsOf(events, v, tab)}
  BY DEF DeleteVisitor, RowsOf
<1>3. TakeTurns' /\ OwnTab' /\ ReadBefore' /\ ClocksInOrder'
  BY <1>1, <1>2, TurnKept
<1>4. EventTable'
  <2>1. Spaced({})
    BY DEF Spaced
  <2> QED
    BY <1>2, <2>1 DEF EventInv, EventTable, NumbersOnce
<1> QED
  BY <1>3, <1>4 DEF EventInv

LEMMA RestartTakesTurns ==
    ASSUME EventInv, TrackInv', Restart
    PROVE  EventInv'
BY DEF EventInv, EventTable, TakeTurns, OwnTab, ReadBefore, ClocksInOrder, Under,
       Restart, tables

LEMMA QuietTakesTurns ==
    ASSUME EventInv, TrackInv', now' \in Nat, now' >= now, UNCHANGED <<tables, req>>
    PROVE  EventInv'
<1>1. UNCHANGED <<snaps, events, req>>
  BY DEF tables
<1>2. TakeTurns' /\ OwnTab' /\ ClocksInOrder' /\ EventTable'
  BY <1>1 DEF EventInv, EventTable, TakeTurns, OwnTab, ClocksInOrder, Under
<1>3. /\ now \in Nat
      /\ \A t \in Thread : Under(t) => req[t].clock \in Nat
      /\ \A e \in events : e.t \in Nat
      /\ \A s \in snaps : s.seen \in Nat
  BY RequestFields DEF EventInv, TrackInv, TrackTypeOK, Under, Event, Snapshot
<1>4. ReadBefore'
  BY <1>1, <1>3 DEF EventInv, ReadBefore, Under
<1> QED
  BY <1>2, <1>4 DEF EventInv

LEMMA EventStep == EventInv /\ [TrackNext]_trackVars => EventInv'
<1> SUFFICES ASSUME EventInv, [TrackNext]_trackVars PROVE EventInv'
  OBVIOUS
<1>1. TrackInv'
  BY TrackStep DEF EventInv
<1>2. ASSUME NEW t \in Thread, Step(t) PROVE EventInv'
  BY <1>1, <1>2, BeginTakesTurn, StoreSnapshotTakesTurn, TouchTakesTurn,
     StoreEventTakesTurn, DeleteTakesTurn DEF Step
<1>3. CASE Tick
  <2>1. now \in Nat
    BY DEF EventInv, TrackInv, TrackTypeOK
  <2> QED
    BY <1>1, <1>3, <2>1, QuietTakesTurns DEF Tick
<1>4. CASE UNCHANGED trackVars
  <2>1. now \in Nat
    BY DEF EventInv, TrackInv, TrackTypeOK
  <2> QED
    BY <1>1, <1>4, <2>1, QuietTakesTurns DEF trackVars
<1> QED
  BY <1>1, <1>2, <1>3, <1>4, OpenKeepsEvents, RestartTakesTurns DEF TrackNext

-----------------------------------------------------------------------------
(* The table of snapshots                                                  *)

LEMMA LogFits ==
    /\ LegacyRows \subseteq Snapshot /\ IsFiniteSet(LegacyRows) /\ NumbersOnce(LegacyRows)
    /\ \A v \in Visitor, tab \in Tab : Bounded(RowsOf(LegacyRows, v, tab))
<1>1. LegacyRows \subseteq Snapshot /\ IsFiniteSet(LegacyRows) /\ NumbersOnce(LegacyRows)
  BY TrackingAssumption DEF NumbersOnce
<1>2. ASSUME NEW v \in Visitor, NEW tab \in Tab
      PROVE  Bounded(RowsOf(LegacyRows, v, tab))
  <2>1. RowsOf(LegacyRows, v, tab) \subseteq LegacyRows
    BY DEF RowsOf
  <2>2. /\ Cardinality(RowsOf(LegacyRows, v, tab)) <= Cardinality(LegacyRows)
        /\ Cardinality(RowsOf(LegacyRows, v, tab)) \in Nat
        /\ Cardinality(LegacyRows) \in Nat /\ MaxPerTab \in Nat
    BY <1>1, <2>1, FS_Subset, FS_CardinalityType, TrackingAssumption
  <2> QED
    BY <2>2 DEF Bounded, Greater
<1> QED
  BY <1>1, <1>2

LEMMA OpenKeepsTable ==
    ASSUME SnapshotInv, OpenStore
    PROVE  SnapshotTable'
<1>1. snaps = {} \/ imported \/ legacy = "absent"
  BY DEF SnapshotInv, SnapshotTable, ImportedFirst
<1>2. legacy = "absent" => legacy' = "absent"
  BY DEF OpenStore
<1>3. CASE UNCHANGED <<snaps, imported>>
  BY <1>2, <1>3 DEF SnapshotInv, SnapshotTable, ImportedFirst
<1>4. CASE /\ snaps' = IF legacy = "good" /\ ~imported THEN snaps \cup LegacyRows ELSE snaps
           /\ imported' = (imported \/ legacy # "absent")
  <2>1. CASE legacy = "good" /\ ~imported
    <3>1. snaps' = LegacyRows /\ imported'
      BY <1>1, <1>4, <2>1
    <3> QED
      BY <3>1, LogFits DEF SnapshotInv, SnapshotTable, ImportedFirst, LogInTurn
  <2>2. CASE ~(legacy = "good" /\ ~imported)
    <3>1. snaps' = snaps /\ (imported => imported')
      BY <1>4, <2>2
    <3> QED
      BY <1>2, <3>1 DEF SnapshotInv, SnapshotTable, ImportedFirst
  <2> QED
    BY <2>1, <2>2
<1> QED
  BY <1>3, <1>4 DEF OpenStore

LEMMA StoreSnapshotKeepsTable ==
    ASSUME SnapshotInv, NEW t \in Thread, StoreSnapshot(t)
    PROVE  SnapshotTable'
<1> DEFINE r == req[t]
<1>1. /\ r # Idle /\ r \in Busy /\ r.v \in Visitor /\ r.at = "snapshot"
  BY AtPlace DEF StoreSnapshot, SnapshotInv, EventInv, TrackInv
<1>2. UNCHANGED <<legacy, imported, opened>>
  BY DEF StoreSnapshot, file
<1>3. CASE opened /\ RecordSnapshot(r.v, r.tab, r.doc, r.clock)
  <2>1. r.tab \in Tab /\ r.doc \in Doc /\ r.clock \in Nat
    BY <1>1 DEF SnapshotInv, EventInv, TrackInv, ReadyToRecord, Busy
  <2>2. \A s \in snaps : s.v = r.v => s.seen <= r.clock
    BY <1>1 DEF SnapshotInv, EventInv, ClocksInOrder, Under
  <2> HIDE DEF r
  <2>3. /\ IsFiniteSet(snaps') /\ NumbersOnce(snaps')
        /\ \A u \in Visitor, b \in Tab :
              /\ InTurn(RowsOf(snaps', u, b))
              /\ <<u, b>> # <<r.v, r.tab>> => RowsOf(snaps', u, b) \subseteq RowsOf(snaps, u, b)
        /\ MaxPerTab > 0 => Cardinality(RowsOf(snaps', r.v, r.tab)) <= MaxPerTab
    BY <1>1, <1>3, <2>1, <2>2, RecordKeepsTurn
    DEF SnapshotInv, SnapshotTable, EventInv, TrackInv
  <2>4. ASSUME NEW v \in Visitor, NEW tab \in Tab
        PROVE  Bounded(RowsOf(snaps', v, tab))
    <3>1. Cardinality(LegacyRows) \in Nat /\ MaxPerTab \in Nat
      BY FS_CardinalityType, TrackingAssumption
    <3>2. IsFiniteSet(RowsOf(snaps', v, tab)) /\ IsFiniteSet(RowsOf(snaps, v, tab))
      BY <2>3, FS_Subset DEF RowsOf, SnapshotInv, SnapshotTable
    <3>3. Cardinality(RowsOf(snaps', v, tab)) \in Nat
          /\ Cardinality(RowsOf(snaps, v, tab)) \in Nat
      BY <3>2, FS_CardinalityType
    <3>4. CASE v = r.v /\ tab = r.tab
      BY <2>3, <3>1, <3>3, <3>4 DEF Bounded, Greater
    <3>5. CASE <<v, tab>> # <<r.v, r.tab>>
      <4>1. Cardinality(RowsOf(snaps', v, tab)) <= Cardinality(RowsOf(snaps, v, tab))
        BY <2>3, <3>2, <3>5, FS_Subset
      <4>2. Bounded(RowsOf(snaps, v, tab))
        BY DEF SnapshotInv, SnapshotTable
      <4> QED
        BY <3>1, <3>3, <4>1, <4>2 DEF Bounded, Greater
    <3> QED
      BY <3>4, <3>5
  <2>5. ImportedFirst'
    BY <1>2, <1>3 DEF SnapshotInv, EventInv, TrackInv, LogDone, ImportedFirst
  <2> QED
    BY <2>3, <2>4, <2>5 DEF SnapshotTable
<1>4. CASE UNCHANGED snaps
  BY <1>2, <1>4 DEF SnapshotInv, SnapshotTable, ImportedFirst
<1> QED
  BY <1>3, <1>4 DEF StoreSnapshot

LEMMA DeleteKeepsTable ==
    ASSUME SnapshotInv, NEW t \in Thread, DeleteVisitor(t)
    PROVE  SnapshotTable'
<1>1. /\ snaps' \subseteq snaps /\ UNCHANGED <<legacy, imported>>
      /\ \A v \in Visitor, tab \in Tab :
            RowsOf(snaps', v, tab) \in {{}, RowsOf(snaps, v, tab)}
  BY DEF DeleteVisitor, RowsOf, file
<1>2. IsFiniteSet(snaps')
  BY <1>1, FS_Subset DEF SnapshotInv, SnapshotTable
<1>3. InTurn({}) /\ Bounded({})
  <2>1. Cardinality({}) = 0 /\ Cardinality(LegacyRows) \in Nat /\ MaxPerTab \in Nat
    BY FS_EmptySet, FS_CardinalityType, TrackingAssumption
  <2> QED
    BY <2>1 DEF InTurn, Bounded, Greater
<1> QED
  BY <1>1, <1>2, <1>3 DEF SnapshotInv, SnapshotTable, ImportedFirst, NumbersOnce

LEMMA SameTable ==
    ASSUME SnapshotInv, UNCHANGED <<snaps, legacy, imported>>
    PROVE  SnapshotTable'
BY DEF SnapshotInv, SnapshotTable, ImportedFirst

\* What only touches the visitor, the events or the clock.
LEMMA OtherStepsKeepTable ==
    ASSUME SnapshotInv, NEW t \in Thread,
           \/ \E kind \in Sent, v \in Visitor, tab \in Tab, doc \in Doc \cup {None},
                 key \in CoalesceKey \cup {None} : Begin(t, kind, v, tab, doc, key)
           \/ Touch(t) \/ StoreTouch(t) \/ StoreEvent(t)
    PROVE  SnapshotTable'
<1>1. CASE \E kind \in Sent, v \in Visitor, tab \in Tab, doc \in Doc \cup {None},
              key \in CoalesceKey \cup {None} : Begin(t, kind, v, tab, doc, key)
  <2>1. UNCHANGED <<tables, file>>
    BY <1>1 DEF Begin
  <2> QED
    BY <2>1, SameTable DEF tables, file
<1>2. CASE Touch(t)
  <2>1. UNCHANGED <<tables, file>>
    BY <1>2 DEF Touch
  <2> QED
    BY <2>1, SameTable DEF tables, file
<1>3. CASE StoreTouch(t) \/ StoreEvent(t)
  <2>1. UNCHANGED <<snaps, file>>
    BY <1>3 DEF StoreTouch, StoreEvent
  <2> QED
    BY <2>1, SameTable DEF file
<1> QED
  BY <1>1, <1>2, <1>3

LEMMA SnapshotStep == SnapshotInv /\ [TrackNext]_trackVars => SnapshotInv'
<1> SUFFICES ASSUME SnapshotInv, [TrackNext]_trackVars PROVE SnapshotInv'
  OBVIOUS
<1>1. EventInv' /\ LogInTurn'
  BY EventStep DEF SnapshotInv, LogInTurn, InTurn, RowsOf
<1>2. ASSUME NEW t \in Thread, Step(t) PROVE SnapshotTable'
  BY <1>2, StoreSnapshotKeepsTable, DeleteKeepsTable, OtherStepsKeepTable DEF Step
<1>3. ASSUME Restart \/ Tick \/ UNCHANGED trackVars PROVE SnapshotTable'
  <2>1. UNCHANGED tables /\ UNCHANGED <<legacy, imported>>
    BY <1>3 DEF Restart, Tick, trackVars, file
  <2> QED
    BY <2>1, SameTable DEF tables
<1>4. SnapshotTable'
  BY <1>2, <1>3, OpenKeepsTable DEF TrackNext
<1> QED
  BY <1>1, <1>4 DEF SnapshotInv

-----------------------------------------------------------------------------

\* Requests of one visitor read their clocks and write in the same order:
\* with any number of threads, failing writes and restarts, the events of a
\* tab are in order of time and repeats within the window are one event.
THEOREM RepeatsAlwaysCollapse == TrackSpec => []RepeatsCollapse
<1>1. EventInv => RepeatsCollapse
  <2> SUFFICES ASSUME EventInv, NEW e \in events, NEW f \in events,
                      e.v = f.v, e.tab = f.tab, e.tab # PageTab, e.n < f.n,
                      ~ \E g \in events : /\ g.v = e.v /\ g.tab = e.tab
                                          /\ e.n < g.n /\ g.n < f.n
               PROVE  /\ e.t <= f.t
                      /\ e.key # None /\ e.key = f.key => f.t - e.t > Window
    BY DEF RepeatsCollapse
  <2>1. e.v \in Visitor /\ e.tab \in Tab
    BY DEF EventInv, TrackInv, TrackTypeOK, Event
  <2> QED
    BY <2>1 DEF EventInv, EventTable, Spaced, RowsOf
<1>2. EventInv /\ [TrackNext]_trackVars => EventInv'
  BY EventStep
<1> QED
  BY <1>1, <1>2, EventInitGood, PTL DEF TrackSpec

\* The history of every tab is bounded, in order of time and without a
\* snapshot repeated at once, if that holds of the log that was imported.
THEOREM HistoryAlternates == LogInTurn => (TrackSpec => []SnapshotsAlternate)
<1>1. SnapshotInv => SnapshotsAlternate
  BY DEF SnapshotInv, SnapshotTable, SnapshotsAlternate, InTurn, Bounded
<1>2. LogInTurn /\ TrackInit => SnapshotInv
  BY EventInitGood, EmptyTable DEF SnapshotInv
<1>3. SnapshotInv /\ [TrackNext]_trackVars => SnapshotInv'
  BY SnapshotStep
<1> QED
  BY <1>1, <1>2, <1>3, PTL DEF TrackSpec
=============================================================================
