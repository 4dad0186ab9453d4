SPECIFICATION FairSpec
CONSTANTS
    w1 = w1
    w2 = w2
    c1 = c1
    Watches <- MCOneWatch
    Coins <- MCOneCoin
    Owner <- MCOneOwner
    Birth <- MCOneBirth
    FalseMatches = {}
    PerFile = 1
    Units = 2
    MaxTip = 1
    Scans = {1, 2}
PROPERTIES
    ScanSettles
