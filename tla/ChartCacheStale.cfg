SPECIFICATION OneTabSpec
CONSTANTS
    s1 = s1
    s2 = s2
    v1 = v1
    v2 = v2
    d1 = d1
    d2 = d2
    dx = dx
    Scope <- OneTab
    Visitor = {v1}
    VisitorOf <- OneTabVisitorOf
    ModeOf <- MCModeOf
    Doc = {d1, d2, dx}
    Broken = dx
    DefaultA = d1
    DefaultB = d1
    Blank = d2
    None = None
    TTL = 0
    MaxScopes = 1
    MaxNow = 0
    MaxRev = 2
    MaxEntries = 2
    MaxCached = 1
INVARIANT
    ChartIsCurrent
