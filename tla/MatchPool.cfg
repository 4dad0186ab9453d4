SPECIFICATION FairSpec
CONSTANTS
    w1 = w1
    w2 = w2
    Spawned <- MCSpawned
    Callers = {c1, c2, c3, c4}
    Creator = Creator
    NoWorker = NoWorker
    MaxFaults = 2
INVARIANTS
    TypeOK
    Conserved
    Served
    NoThreadLeft
PROPERTIES
    CreateSettles
    CallsSettle
    ImplementsLending
CHECK_DEADLOCK FALSE
