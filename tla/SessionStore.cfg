SPECIFICATION Spec
CONSTANTS
    s1 = s1
    s2 = s2
    s3 = s3
    v1 = v1
    v2 = v2
    Scope <- MCScope
    Visitor = {v1, v2}
    VisitorOf <- MCVisitorOf
    Doc = {d1, d2, dx}
    Broken = dx
    DefaultA = d1
    DefaultB = d1
    Blank = d2
    None = None
    TTL = 1
    MaxScopes = 2
    MaxNow = 2
    MaxRev = 2
INVARIANTS
    TypeOK
    RegistryCoherent
    CapRespected
PROPERTIES
    EvictionOrder
    RevisionTracksContent
SYMMETRY Symmetry
