----------------------------- MODULE MCMatchPool -----------------------------
(* A small instance of MatchPool: more callers than workers, so that calls *)
(* queue.                                                                  *)
EXTENDS MatchPoolLending

CONSTANTS w1, w2

MCSpawned == <<w1, w2>>
=============================================================================
