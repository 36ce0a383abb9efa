SPECIFICATION AllocSpec
CONSTANTS
    chat = chat
    judge = judge
    ear = ear
    Pool = {p1, p2}
    GpuType = {"solo", "rack"}
    MinCount <- MCMinCount
    CountMultiple <- MCCountMultiple
    Key = {chat, judge}
    Kind <- MCKind
    Prec = {"bf16", "fp8"}
    NativePrec <- MCNativePrec
    Env = {"roomy"}
    ValidLayouts <- MCValidLayouts
    BestLayout <- MCBestLayout
    PhasesSent <- PickerPhases
    NoPool = NoPool
    None = None
    MaxCount = 2
    MaxModels = 2
    Catalog <- MCModelOf
    Drafting <- MCDrafting
    Gpu <- MCGpu
    Settings <- MCSettings
    Honest <- MCHonest
    Useful <- MCUseful
    Published <- MCPublished
    Default <- MCDefault
    Decides <- MCDecides
    Absent = Absent
    Log2 <- MCLog2
    Pressure <- MCPressure
    Spread <- MCSpread
    Delay <- MCDelay
    LongContext = 32
    Grain <- MCGrain
    Unbounded = 1000
    MaxUsers = 64
    MaxProbe = 4
    MaxDepth = 4
    Worthwhile <- MCWorthwhile
    InputLengths <- MCInputs
    OutputLengths <- MCOutputs
    DocLengths <- MCDocs
INVARIANTS
    LayoutShared
