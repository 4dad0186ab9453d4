-------------------------- MODULE MatchPoolLending --------------------------
(***************************************************************************)
(* The worker pool implements the lending of workers: whatever answers,    *)
(* errors, deaths, promise reactions and free() interleave.                *)
(***************************************************************************)
EXTENDS MatchPool

(* The pool is of use once create() resolved to it.                        *)
Phase == IF pool \in {"ready", "freed"} THEN pool ELSE "closed"

InStack == {idle[i] : i \in 1..Len(idle)}

Lent == [c \in Callers |-> caller[c].worker]

(* The threads that run and have a caller's request to answer.             *)
AtWork == {w \in Workers : thread[w] = "running" /\ inbox[w] \cap Callers # {}}

L == INSTANCE Lending WITH
        phase <- Phase,
        free <- InStack,
        queue <- waiters,
        lent <- Lent,
        busy <- AtWork

(* Every step of the pool is a step of the lending or leaves it alone: a   *)
(* worker is with one caller or in the stack, calls are served first come  *)
(* first served, and no worker is released, to the stack or to the next    *)
(* call, while its thread still works (matchpool.ts:191-209).              *)
ImplementsLending == L!Spec
=============================================================================
