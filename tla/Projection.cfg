SPECIFICATION ProjectionSpec
CONSTANTS
    small = small
    big = big
    ear = ear
    flash = flash
    nano = nano
    frontier = frontier
    current = current
    corp = corp
    unlisted = unlisted
    nocloud = nocloud
    Hours <- MCHours
    Shapes <- MCShapes
    Models <- MCModels
    Lengths <- MCLengths
    Blends <- MCBlends
    Fits <- MCFits
    Throughput <- MCThroughput
    chat = chat
    judge = judge
    GpuCost = 12
    Slots <- MCSlots
    Projects <- MCProjects
    Demand <- MCDemand
    Panels <- MCPanels
    CloudModels <- MCCloudModels
    Presets <- MCPresets
    Current = current
    Policies <- MCPolicies
    Unlisted = unlisted
    NoCloud = nocloud
    Tunable = {2}
    Sizes = {1, 2}
    MaxGpus = 2
    RowLimit = 1
    Published <- MCPublished
    Default <- MCDefault
    Decides <- MCDecides
    Absent = Absent
    Log2 <- MCLog2
    Pressure <- MCPressure
    Spread <- MCSpread
    Delay <- MCDelay
    LongContext = 32
    Grain <- MCGrain
    Unbounded = 1000
    MaxUsers = 64
    MaxProbe = 4
    MaxDepth = 4
    Worthwhile <- MCWorthwhile
    InputLengths <- MCInputs
    OutputLengths <- MCOutputs
    DocLengths <- MCDocs
INVARIANTS
    ProjectionTypeOK
    DemandAccounted
    LeftoversMeanFull
    PriorityRespected
    NeverBelowCost
