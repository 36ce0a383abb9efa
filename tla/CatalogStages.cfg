SPECIFICATION Spec
CONSTANTS
    Cards <- MCCards
    Counts = {1, 2, 4, 8}
    Usable <- MCUsable
    Reserved <- MCReserved
    Rows = 4096
    Published <- MCPublished
    Default <- MCDefault
    Decides <- MCDecides
    Absent = Absent
    Log2 <- MCLog2
    Pressure <- MCNone
    Spread <- MCNone
    Delay <- MCDelay
    LongContext = 32
    Grain <- MCGrain
    Unbounded = 1000
    MaxUsers = 64
    MaxProbe = 4
    MaxDepth = 4
    Worthwhile <- MCWorthwhile
    InputLengths <- MCLengths
    OutputLengths <- MCLengths
    DocLengths <- MCLengths
INVARIANT
    BusiestStageCharged
