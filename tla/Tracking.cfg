SPECIFICATION TrackSpec
CONSTANTS
    v1 = v1
    tab1 = tab1
    d1 = d1
    Visitor = {v1}
    Tab = {tab1}
    PageTab = page
    Doc = {d1, d2}
    CoalesceKey = {k1}
    None = None
    Thread = {t1, t2}
    Sent = {"landing", "snapshot", "edit", "page", "delete"}
    CanFail = TRUE
    Window = 1
    TouchInterval = 1
    RetentionDays = 1
    MaxPerTab = 2
    RetentionEvery = 2
    LegacyRows <- MCLegacyRows
    MaxNow = 2
    MaxSnaps = 3
    MaxEvents = 2
INVARIANTS
    TrackTypeOK
    EventsHaveVisitor
    SnapshotsAlternate
    RepeatsCollapse
    ErasedStaysErased
PROPERTIES
    LastSeenForward
SYMMETRY Symmetry
