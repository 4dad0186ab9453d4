SPECIFICATION Spec
CONSTANTS
    w1 = w1
    w2 = w2
    c1 = c1
    Watches <- MCWatches
    Coins <- MCOneCoin
    Owner <- MCOneOwner
    Birth <- MCSwapBirth
    FalseMatches = {0}
    PerFile = 2
    Units = 2
    MaxTip = 3
    Scans = {1}
INVARIANTS
    EveryWatchScanned
