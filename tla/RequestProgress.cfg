SPECIFICATION FairRequestSpec
CONSTANTS
    s1 = s1
    s2 = s2
    s3 = s3
    v1 = v1
    v2 = v2
    Scope <- MCScopePair
    Visitor = {v1, v2}
    VisitorOf <- MCVisitorOfPair
    Doc = {d1, d2, dx}
    Broken = dx
    DefaultA = d1
    DefaultB = d1
    Blank = d2
    None = None
    TTL = 1
    MaxScopes = 1
    MaxNow = 2
    MaxRev = 1
    Thread = {t1, t2}
    Lock <- MCLock
    MadeFor <- MCMadeFor
    Kinds = {"editA", "delete"}
    MaxTabs = 1
PROPERTIES
    InsideLeaves
    OrphanOnlyUnderPressure
CHECK_DEADLOCK FALSE
