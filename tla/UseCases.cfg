SPECIFICATION UseCaseSpec
CONSTANTS
    Terms <- MCTerms
    ScaleKinds <- MCScaleKinds
    PRESETS <- MCPresets
    Libraries <- MCLibraries
    ProjectSets <- MCProjectSets
    DefaultSet <- MCDefaultSet
    NewTerms = "chat"
    NewScaleKind <- Linear
    NewScale = 4
    Shapes = {"office", "flat"}
    Multipliers = {1, 2}
    Typed = {4, 16}
    Unbounded = Unbounded
    Drawn <- MCDrawn
    TokenMax = 16
    Uid = {1, 2}
    None = None
    MaxDefs = 3
    MaxCalls = 4
INVARIANTS
    UseCaseTypeOK
    LookupsCurrent
    ProjectsFollow
    BlendCurrent
    SavedSetReloads
PROPERTIES
    ScheduleIsItsOwn
CHECK_DEADLOCK FALSE
