SPECIFICATION Spec
CONSTANTS
    Backends <- MCBackends
    PerFile = 2
    Batch = 3
    MaxTip = 3
    MaxSaves = 2
    MaxFaults = 2
INVARIANTS
    TypeOK
    Intact
    WalletKept
