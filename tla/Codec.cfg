SPECIFICATION Spec
CONSTANTS
    Packets <- MCPackets
    Malformed <- MCMalformed
    Replaced <- MCReplaced
    Nil = Nil
    Absent = Absent
    Hardened = 2
    Radix = 2
    MaxSafe = 8
    KeyLength = 1
INVARIANTS
    RoundTrips
