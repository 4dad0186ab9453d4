SPECIFICATION FairSpec
CONSTANTS
    Outputs <- MCOutputs
    FalseMatches <- MCFalseMatches
    PerFile = 2
    Units = 2
    Attempts = 2
    MaxTip = 4
    Windows <- MCWindows
    MaxBad = 2
    MaxFaults = 1
INVARIANTS
    TypeOK
    Complete
    ProgressExact
    RejectedForCause
PROPERTY
    Settles
CHECK_DEADLOCK FALSE
