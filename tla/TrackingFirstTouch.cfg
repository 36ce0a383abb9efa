SPECIFICATION UpSpec
CONSTANTS
    v1 = v1
    tab1 = tab1
    d1 = d1
    Visitor = {v1}
    Tab = {tab1}
    PageTab = page
    Doc = {d1}
    CoalesceKey = {k1}
    None = None
    Thread = {t1, t2}
    Sent = {"page"}
    CanFail = FALSE
    Window = 1
    TouchInterval = 1
    RetentionDays = 1
    MaxPerTab = 2
    RetentionEvery = 2
    LegacyRows <- MCLegacyRows
    MaxNow = 0
    MaxSnaps = 3
    MaxEvents = 3
INVARIANT
    FirstTouchKept
