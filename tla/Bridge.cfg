SPECIFICATION Spec
CONSTANTS
    w1 = w1
    w2 = w2
    nobody = nobody
    v1 = v1
    v2 = v2
    global = global
    Wrappers <- MCWrappers
    Nobody <- nobody
    Values <- MCValues
    Global <- global
    Slots <- MCSlots
    MaxLoads = 2
    Depth = 3
SYMMETRY MCSymmetry
INVARIANTS
    TypeOK
    RefsDenote
    HandlesOwned
CHECK_DEADLOCK FALSE
