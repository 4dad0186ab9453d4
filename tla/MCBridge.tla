-------------------------------- MODULE MCBridge --------------------------------
(* Bridge with two objects of any kinds, two values and two references;    *)
(* calls nest two deep into Go, with a callback between them.              *)
EXTENDS Bridge, TLC

CONSTANTS w1, w2, nobody, v1, v2, global

MCWrappers == {w1, w2}
MCValues == {v1, v2}
MCSlots == {1, 2}
MCSymmetry == Permutations(MCWrappers) \cup Permutations(MCValues)
===============================================================================
