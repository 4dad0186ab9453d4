SPECIFICATION Spec
CONSTANTS
    main = main
    side = side
    Branches <- MCBranches
    Trunk = main
    Fork <- MCForkOnce
    PerFile = 2
    Depth = 2
    MaxTip = 3
    MaxFaults = 1
INVARIANTS
    ResumedCursorSound
