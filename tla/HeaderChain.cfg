SPECIFICATION Spec
CONSTANTS
    Networks <- MCNetworks
    Window = 4
    Period = 2
    MedianBlocks = 3
    Spacing = 1
    Factor = 2
    Byte = 2
    PowLimit = 13
    HashSpace = 64
    MaxTime = 6
    MaxTip = 5
    MaxBack = 1
INVARIANTS
    TypeOK
    StateOfChain
    WindowSuffices
    RulesKept
    CanGoOn
    CompactIsFloor
CHECK_DEADLOCK FALSE
