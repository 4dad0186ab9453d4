SPECIFICATION FairSpec
CONSTANTS
    main = main
    side = side
    Branches <- MCBranches
    Trunk = main
    Fork <- MCFork
    PerFile = 2
    Depth = 1
    MaxTip = 3
    MaxFaults = 2
INVARIANTS
    TypeOK
    HeadersLinked
    ChainAgrees
    CursorOnChain
PROPERTIES
    FinalBlocks
    CatchesUp
CHECK_DEADLOCK FALSE
