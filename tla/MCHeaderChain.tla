---------------------------- MODULE MCHeaderChain ----------------------------
(* Small instances of HeaderChain: a main network, a test network with the *)
(* minimum-difficulty rule, and one that never retargets.                  *)
EXTENDS HeaderChain

MCNetworks == {[retargets |-> TRUE, minimum |-> FALSE],
               [retargets |-> TRUE, minimum |-> TRUE],
               [retargets |-> FALSE, minimum |-> FALSE]}
=============================================================================
