SPECIFICATION RequestSpec
CONSTANTS
    s1 = s1
    s2 = s2
    s3 = s3
    v1 = v1
    v2 = v2
    Scope <- MCScope
    Visitor = {v1, v2}
    VisitorOf <- MCVisitorOf
    Doc = {d1, d2, dx}
    Broken = dx
    DefaultA = d1
    DefaultB = d1
    Blank = d2
    None = None
    TTL = 0
    MaxScopes = 2
    MaxNow = 0
    MaxRev = 1
    Thread = {t1, t2}
    Lock <- MCLock
    MadeFor <- MCMadeFor
    Kinds = {"view", "editB", "duplicate", "close", "reset", "delete"}
    MaxTabs = 1
INVARIANTS
    RequestTypeOK
    TabLockUncontended
    TabsWithinLimit
    EditVisible
PROPERTIES
    VisitorsServedInTurn
SYMMETRY Symmetry
CHECK_DEADLOCK FALSE
