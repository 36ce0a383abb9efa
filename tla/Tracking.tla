------------------------------ MODULE Tracking ------------------------------
(***************************************************************************)
(* What the application remembers of its visitors: the SQLite store of     *)
(* tracking.py (snapshots, visitors, events, and the import of the older   *)
(* JSON log) and the hooks of web/analytics.py that write to it, with their *)
(* process-local cache _touched.                                           *)
(*                                                                         *)
(* The kinds of request: "landing" is a page load without a tab, which only *)
(* touches the visitor; "snapshot" and "edit" are edits with and without a  *)
(* snapshot; "page" is the explainer page and the agent API; "delete" is    *)
(* delete-my-data.                                                         *)
(*                                                                         *)
(* Each transaction of the store is one step.  Between the steps of a      *)
(* request other threads run, time passes, a transaction may fail, and the *)
(* process may be restarted.  Requests of one visitor exclude each other    *)
(* (RequestScope), except those of kind "page", which take no lock.        *)
(***************************************************************************)
EXTENDS Integers, FiniteSets

CONSTANTS
    Visitor,        \* visitor cookies and pseudonymous agent ids
    Tab,            \* browser tabs
    PageTab,        \* the tab id "page" or "api" of requests without a tab
    Doc,            \* pairs of panels a snapshot can show
    CoalesceKey,    \* what two repeats of one edit have in common
    None,
    Thread,
    Sent,           \* the kinds of request the model's clients send
    CanFail,        \* whether a transaction may fail
    Window,         \* EVENT_COALESCE_MS
    TouchInterval,  \* _TOUCH_INTERVAL_MS
    RetentionDays,  \* 0 disables retention by age
    MaxPerTab,      \* 0 disables retention by number
    RetentionEvery, \* EVENT_RETENTION_EVERY
    LegacyRows,     \* the snapshots in planner_snapshots.json
    MaxNow,         \* bounds of the model: the clock, the rows ever inserted
    MaxSnaps,
    MaxEvents

VARIABLES
    snaps,       \* the tables snapshots, events and visitors
    events,
    visitors,
    nextSnap,    \* AUTOINCREMENT of the first two
    nextEvent,
    legacy,      \* planner_snapshots.json: "absent", "good" or "corrupt"
    imported,    \* the metadata row legacy_json_imported
    opened,      \* SnapshotStore._initialized
    writes,      \* _event_writes, modulo RetentionEvery
    touched,     \* _touched: when each visitor was last written, or None
    req,         \* per thread, its request and where it is
    erased,      \* visitors whose data was deleted and who have not come back
    now          \* wall-clock time

tables == <<snaps, events, visitors, nextSnap, nextEvent>>
file == <<legacy, imported, opened>>
trackVars == <<tables, file, writes, touched, req, erased, now>>

-----------------------------------------------------------------------------
Snapshot == [n : Nat, v : Visitor, tab : Tab, doc : Doc, seen : Nat]
Event == [n : Nat, v : Visitor, tab : Tab \cup {PageTab}, t : Nat,
          key : CoalesceKey \cup {None}]
VisitorRow == [first : Nat, last : Nat, context : BOOLEAN]

\* A request: where it is, what it does and for whom, and the clock as it read
\* it for its next write (0 when the next step reads it).
Idle == [at |-> "idle"]
Kinds == {"landing", "snapshot", "edit", "page", "delete"}
Busy == [at : {"snapshot", "touch", "touching", "event", "delete"}, kind : Kinds,
         v : Visitor, tab : Tab \cup {PageTab}, doc : Doc \cup {None},
         key : CoalesceKey \cup {None}, clock : Nat]

ASSUME TrackingAssumption ==
    /\ {Window, TouchInterval, RetentionDays, MaxPerTab, MaxNow,
        MaxSnaps, MaxEvents} \subseteq Nat
    /\ RetentionEvery \in Nat \ {0, 1}
    /\ Sent \subseteq Kinds /\ CanFail \in BOOLEAN
    /\ PageTab \notin Tab
    /\ None \notin CoalesceKey \cup Nat \cup VisitorRow
    /\ LegacyRows \subseteq Snapshot /\ IsFiniteSet(LegacyRows)
    /\ \A r \in LegacyRows : r.n < Cardinality(LegacyRows) /\ r.seen = 0
    /\ \A r, q \in LegacyRows : r.n = q.n => r = q

Active == {t \in Thread : req[t] # Idle}
Greater(m, n) == IF m >= n THEN m ELSE n

RowsOf(table, v, tab) == {r \in table : r.v = v /\ r.tab = tab}

\* ORDER BY sequence DESC LIMIT 1
Latest(table, v, tab) ==
    {r \in RowsOf(table, v, tab) : \A q \in RowsOf(table, v, tab) : q.n <= r.n}

-----------------------------------------------------------------------------
(* The store                                                               *)

\* _apply_retention: rows out of date in any tab, then all but the newest
\* MaxPerTab rows of this tab.
AfterRetention(table, v, tab) ==
    LET recent == {r \in table : RetentionDays > 0 => r.seen >= now - RetentionDays}
        newer(r) == {q \in RowsOf(recent, v, tab) : q.n > r.n}
    IN  {r \in recent : r \in RowsOf(recent, v, tab) /\ MaxPerTab > 0
                           => Cardinality(newer(r)) < MaxPerTab}

\* Mutants of RecordSnapshot: any row of the tab that shows the same panels is
\* refreshed; the sequence number is not advanced.
RefreshAnySnapshot(v, tab, doc, t) ==
    LET same == {r \in RowsOf(snaps, v, tab) : r.doc = doc}
        row  == [n |-> nextSnap, v |-> v, tab |-> tab, doc |-> doc, seen |-> t]
    IN  /\ snaps' = AfterRetention(
                       IF same = {} THEN snaps \cup {row}
                       ELSE {IF r \in same THEN [r EXCEPT !.seen = t] ELSE r : r \in snaps},
                       v, tab)
        /\ nextSnap' = IF same = {} THEN nextSnap + 1 ELSE nextSnap

RepeatSequence(v, tab, doc, t) ==
    LET row == [n |-> nextSnap, v |-> v, tab |-> tab, doc |-> doc, seen |-> t]
    IN  /\ snaps' = AfterRetention(snaps \cup {row}, v, tab)
        /\ UNCHANGED nextSnap

\* record_snapshot: the tab's latest row is refreshed when it shows the same
\* panels, else there is a new row.  The clock t was read before.
RecordSnapshot(v, tab, doc, t) ==
    LET same == {r \in Latest(snaps, v, tab) : r.doc = doc}
        row  == [n |-> nextSnap, v |-> v, tab |-> tab, doc |-> doc, seen |-> t]
    IN  /\ snaps' = AfterRetention(
                       IF same = {} THEN snaps \cup {row}
                       ELSE {IF r \in same THEN [r EXCEPT !.seen = t] ELSE r : r \in snaps},
                       v, tab)
        /\ nextSnap' = IF same = {} THEN nextSnap + 1 ELSE nextSnap

\* Mutant of Seen: last_seen = excluded.last_seen, without MAX.
SeenAt(v, t, context) ==
    LET row == visitors[v]
    IN  [visitors EXCEPT ![v] =
            IF row = None THEN [first |-> t, last |-> t, context |-> context]
            ELSE [row EXCEPT !.last = t]]

\* INSERT INTO visitors ... ON CONFLICT DO UPDATE SET last_seen = MAX(...)
Seen(v, t, context) ==
    LET row == visitors[v]
    IN  [visitors EXCEPT ![v] =
            IF row = None THEN [first |-> t, last |-> t, context |-> context]
            ELSE [row EXCEPT !.last = Greater(row.last, t)]]

\* Mutant of Repeats: the end of the window is left out.
RepeatsBeforeWindowEnds(v, tab, key, t) ==
    {e \in Latest(events, v, tab) : key # None /\ e.key = key /\ t - e.t < Window}

\* The event that another one of the same key within the window updates.
Repeats(v, tab, key, t) ==
    {e \in Latest(events, v, tab) : key # None /\ e.key = key /\ t - e.t <= Window}

\* Mutant of Expired: visitors go by their first visit.
ExpiredByFirstVisit(rows, t) ==
    {v \in Visitor : rows[v] # None /\ rows[v].first < t - RetentionDays}

\* DELETE FROM visitors WHERE last_seen < ?
Expired(rows, t) ==
    {v \in Visitor : rows[v] # None /\ rows[v].last < t - RetentionDays}

\* record_event: the visitor is seen, the event is stored or merged into the
\* latest one, and one write in RetentionEvery deletes what is out of date.
RecordEvent(v, tab, key, t) ==
    LET same == Repeats(v, tab, key, t)
        row  == [n |-> nextEvent, v |-> v, tab |-> tab, t |-> t, key |-> key]
        stored == IF same = {} THEN events \cup {row}
                  ELSE {IF e \in same THEN [e EXCEPT !.t = t] ELSE e : e \in events}
        sweep == RetentionDays > 0 /\ writes' = 1
        rows == Seen(v, t, FALSE)
    IN  /\ writes' = (writes + 1) % RetentionEvery
        /\ nextEvent' = IF same = {} THEN nextEvent + 1 ELSE nextEvent
        /\ events' = {e \in stored : sweep => e.t >= t - RetentionDays}
        /\ visitors' = [u \in Visitor |->
                           IF sweep /\ u \in Expired(rows, t) THEN None ELSE rows[u]]

-----------------------------------------------------------------------------
(* Requests                                                                *)

TrackInit ==
    /\ snaps = {} /\ events = {} /\ visitors = [v \in Visitor |-> None]
    /\ nextSnap = Cardinality(LegacyRows) /\ nextEvent = 0
    /\ legacy \in {"absent", "good", "corrupt"}
    /\ imported = FALSE /\ opened = FALSE
    /\ writes = 0
    /\ touched = [v \in Visitor |-> None]
    /\ req = [t \in Thread |-> Idle]
    /\ erased = {}
    /\ now = 0

Goto(t, r) == req' = [req EXCEPT ![t] = r]

\* The clock of a snapshot is read here.
Begin(t, kind, v, tab, doc, key) ==
    /\ req[t] = Idle
    /\ kind = "snapshot" => nextSnap + Cardinality(Active) < MaxSnaps
    /\ kind \notin {"landing", "delete"} => nextEvent + Cardinality(Active) < MaxEvents
    /\ doc # None <=> kind = "snapshot"
    /\ key # None => kind \in {"snapshot", "edit"}
    /\ kind # "page" => \A u \in Active : req[u].v = v => req[u].kind = "page"
    /\ Goto(t, [at |-> CASE kind = "snapshot" -> "snapshot"
                         [] kind = "delete" -> "delete"
                         [] OTHER -> "touch",
                kind |-> kind, v |-> v, tab |-> IF kind = "page" THEN PageTab ELSE tab,
                doc |-> doc, key |-> key, clock |-> IF kind = "snapshot" THEN now ELSE 0])
    /\ erased' = IF kind = "delete" THEN erased ELSE erased \ {v}
    /\ UNCHANGED <<tables, file, writes, touched, now>>

\* Mutant of OpenStore: the marker is not consulted.
OpenAndImport ==
    /\ ~opened
    /\ opened' = TRUE
    /\ snaps' = IF legacy = "good" THEN snaps \cup LegacyRows ELSE snaps
    /\ imported' = (imported \/ legacy # "absent")
    /\ legacy' = IF legacy = "corrupt" THEN "absent" ELSE legacy
    /\ UNCHANGED <<events, visitors, nextSnap, nextEvent, writes, touched, req,
                   erased, now>>

\* _ensure_initialized and _migrate_legacy, one transaction: the JSON log is
\* imported once, a corrupt one is renamed; without one there is no marker.
\* When the transaction fails the log may be renamed already.
OpenStore ==
    /\ ~opened
    /\ legacy' = IF legacy = "corrupt" /\ ~imported THEN "absent" ELSE legacy
    /\ \/ /\ opened' = TRUE
          /\ snaps' = IF legacy = "good" /\ ~imported THEN snaps \cup LegacyRows ELSE snaps
          /\ imported' = (imported \/ legacy # "absent")
       \/ CanFail /\ UNCHANGED <<opened, snaps, imported>>
    /\ UNCHANGED <<events, visitors, nextSnap, nextEvent, writes, touched, req,
                   erased, now>>

\* record_snapshot; its failure, or that of the checkpoint after it, is the
\* request's failure.
StoreSnapshot(t) ==
    LET r == req[t]
    IN  /\ r.at = "snapshot"
        /\ \/ /\ opened /\ RecordSnapshot(r.v, r.tab, r.doc, r.clock)
              /\ \/ Goto(t, [r EXCEPT !.at = "touch", !.doc = None, !.clock = 0])
                 \/ CanFail /\ Goto(t, Idle)
           \/ CanFail /\ Goto(t, Idle) /\ UNCHANGED <<snaps, nextSnap>>
        /\ UNCHANGED <<events, visitors, nextEvent, file, writes, touched, erased, now>>

\* A request that records an event reads the clock for it.
AfterTouch(r) ==
    IF r.kind = "landing" THEN Idle ELSE [r EXCEPT !.at = "event", !.clock = now]

\* analytics.touch_visitor: the cache is marked before the store is written.
\* The next step's clock is read on the way out.
Touch(t) ==
    LET r == req[t]
        recent == touched[r.v] # None /\ now - touched[r.v] < TouchInterval
    IN  /\ r.at = "touch"
        /\ touched' = IF recent THEN touched ELSE [touched EXCEPT ![r.v] = now]
        /\ Goto(t, IF recent THEN AfterTouch(r) ELSE [r EXCEPT !.at = "touching", !.clock = now])
        /\ UNCHANGED <<tables, file, writes, erased, now>>

\* SnapshotStore.touch_visitor; its failure is swallowed.
StoreTouch(t) ==
    LET r == req[t]
    IN  /\ r.at = "touching"
        /\ \/ opened /\ visitors' = Seen(r.v, r.clock, TRUE)
           \/ CanFail /\ UNCHANGED visitors
        /\ Goto(t, AfterTouch(r))
        /\ UNCHANGED <<snaps, events, nextSnap, nextEvent, file, writes, touched, erased, now>>

\* SnapshotStore.record_event; its failure is swallowed.  A transaction that
\* fails late has counted as a write.
StoreEvent(t) ==
    LET r == req[t]
    IN  /\ r.at = "event"
        /\ \/ opened /\ RecordEvent(r.v, r.tab, r.key, r.clock)
           \/ /\ CanFail
              /\ writes' \in {writes, (writes + 1) % RetentionEvery}
              /\ UNCHANGED <<events, visitors, nextEvent>>
        /\ Goto(t, Idle)
        /\ UNCHANGED <<snaps, nextSnap, file, touched, erased, now>>

\* delete_visitor, one transaction on the three tables.  The cache is not told.
DeleteVisitor(t) ==
    LET r == req[t]
    IN  /\ r.at = "delete"
        /\ \/ /\ opened
              /\ snaps' = {s \in snaps : s.v # r.v}
              /\ events' = {e \in events : e.v # r.v}
              /\ visitors' = [visitors EXCEPT ![r.v] = None]
              /\ erased' = IF \E u \in Active \ {t} : req[u].v = r.v THEN erased
                           ELSE erased \cup {r.v}
           \/ CanFail /\ UNCHANGED <<snaps, events, visitors, erased>>
        /\ Goto(t, Idle)
        /\ UNCHANGED <<nextSnap, nextEvent, file, writes, touched, now>>

\* The process is replaced: what was not in the database is gone.
Restart ==
    /\ opened' = FALSE
    /\ writes' = 0
    /\ touched' = [v \in Visitor |-> None]
    /\ req' = [t \in Thread |-> Idle]
    /\ UNCHANGED <<tables, legacy, imported, erased, now>>

Tick == now < MaxNow /\ now' = now + 1
        /\ UNCHANGED <<tables, file, writes, touched, req, erased>>

Step(t) ==
    \/ \E kind \in Sent, v \in Visitor, tab \in Tab, doc \in Doc \cup {None},
          key \in CoalesceKey \cup {None} :
          Begin(t, kind, v, tab, doc, key)
    \/ StoreSnapshot(t) \/ Touch(t) \/ StoreTouch(t) \/ StoreEvent(t)
    \/ DeleteVisitor(t)

TrackNext == (\E t \in Thread : Step(t)) \/ OpenStore \/ Restart \/ Tick

TrackSpec == TrackInit /\ [][TrackNext]_trackVars

-----------------------------------------------------------------------------
(* Properties                                                              *)

TrackTypeOK ==
    /\ snaps \subseteq Snapshot /\ events \subseteq Event
    /\ visitors \in [Visitor -> VisitorRow \cup {None}]
    /\ nextSnap \in Nat /\ nextEvent \in Nat
    /\ \A s \in snaps : s.n < nextSnap
    /\ \A e \in events : e.n < nextEvent
    /\ legacy \in {"absent", "good", "corrupt"}
    /\ imported \in BOOLEAN /\ opened \in BOOLEAN
    /\ writes \in 0..(RetentionEvery - 1)
    /\ touched \in [Visitor -> Nat \cup {None}]
    /\ req \in [Thread -> Busy \cup {Idle}]
    /\ erased \subseteq Visitor
    /\ now \in Nat

\* The insight pages join events to visitors: every event has its visitor's
\* row, last seen no earlier than the event, through concurrent requests with
\* clocks read in another order, failed writes, retention and deletion.
EventsHaveVisitor ==
    \A e \in events :
        /\ visitors[e.v] # None
        /\ e.t <= visitors[e.v].last

\* The history of a tab is bounded and in order of time, and no two snapshots
\* in a row show the same panels.
SnapshotsAlternate ==
    \A v \in Visitor, tab \in Tab :
        LET rows == RowsOf(snaps, v, tab)
        IN  /\ MaxPerTab > 0 => Cardinality(rows) <= Greater(MaxPerTab, Cardinality(LegacyRows))
            /\ \A r, q \in rows : r.n < q.n =>
                  /\ r.seen <= q.seen
                  /\ r.doc = q.doc => \E between \in rows : r.n < between.n /\ between.n < q.n

\* Repeats of an edit collapse: two events in a row with the same key lie
\* further apart than the window, and a tab's edits are in order of time.
RepeatsCollapse ==
    \A e, f \in events :
        /\ e.v = f.v /\ e.tab = f.tab /\ e.tab # PageTab /\ e.n < f.n
        /\ ~ \E g \in events : g.v = e.v /\ g.tab = e.tab /\ e.n < g.n /\ g.n < f.n
        => /\ e.t <= f.t
           /\ e.key # None /\ e.key = f.key => f.t - e.t > Window

\* "removes the current visitor's persisted snapshots, analytics events and
\* visitor row": nothing about the visitor comes back, not even through a
\* restart and the JSON log, until one of its own requests does.
ErasedStaysErased ==
    \A v \in erased :
        /\ visitors[v] = None
        /\ \A s \in snaps : s.v # v
        /\ \A e \in events : e.v # v

\* A visitor's last visit never moves back and its first never moves.
LastSeenForward ==
    [][ \A v \in Visitor :
          visitors[v] # None /\ visitors'[v] # None =>
             /\ visitors'[v].last >= visitors[v].last
             /\ visitors'[v].first = visitors[v].first
      ]_trackVars

\* "Each visitor row keeps first-touch context": once the requests of a
\* visitor have been answered, its row has the context.
FirstTouchKept ==
    Active = {} => \A v \in Visitor : visitors[v] # None => visitors[v].context
=============================================================================
