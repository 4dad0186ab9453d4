------------------------------- MODULE Lending -------------------------------
(***************************************************************************)
(* What the pool promises its callers, free of threads, messages and       *)
(* promise reactions: a worker is lent to one caller at a time, callers    *)
(* that find none are served in the order they came, and a worker is not   *)
(* given back while it works for the caller that has it.                   *)
(***************************************************************************)
EXTENDS Naturals, Sequences

CONSTANTS Workers, Callers, NoWorker

VARIABLES
    phase,      \* "closed", "ready" or "freed"
    free,       \* the workers that can be lent
    queue,      \* the callers that wait for one
    lent,       \* the worker each caller has
    busy        \* the workers at work

vars == <<phase, free, queue, lent, busy>>

Waits(c) == \E i \in 1..Len(queue) : queue[i] = c

Init == /\ phase = "closed" /\ free = {} /\ queue = << >> /\ busy = {}
        /\ lent = [c \in Callers |-> NoWorker]

Open == /\ phase = "closed" /\ phase' = "ready"
        /\ free' = Workers
        /\ UNCHANGED <<queue, lent, busy>>

(* Nobody works any more; who has a worker or waits for one is not told.   *)
Close == /\ phase = "ready" /\ phase' = "freed"
         /\ free' = {} /\ busy' = {}
         /\ UNCHANGED <<queue, lent>>

Ask(c) == phase # "closed" /\ lent[c] = NoWorker /\ ~Waits(c)

Borrow(c) ==
    /\ Ask(c)
    /\ \E w \in free : /\ free' = free \ {w}
                       /\ lent' = [lent EXCEPT ![c] = w]
    /\ UNCHANGED <<phase, queue, busy>>

Wait(c) ==
    /\ Ask(c) /\ free = {}
    /\ queue' = Append(queue, c)
    /\ UNCHANGED <<phase, free, lent, busy>>

(* A worker works for who has it, on one thing at a time, and ends.        *)
Work(c) ==
    /\ phase = "ready"
    /\ lent[c] # NoWorker /\ lent[c] \notin busy
    /\ busy' = busy \cup {lent[c]}
    /\ UNCHANGED <<phase, free, queue, lent>>

Finish(w) ==
    /\ w \in busy
    /\ busy' = busy \ {w}
    /\ UNCHANGED <<phase, free, queue, lent>>

(* Back to the first that waits, or to the others.                         *)
Return(c) ==
    /\ lent[c] # NoWorker /\ lent[c] \notin busy
    /\ IF queue = << >>
       THEN /\ free' = free \cup {lent[c]}
            /\ lent' = [lent EXCEPT ![c] = NoWorker]
            /\ UNCHANGED queue
       ELSE /\ lent' = [lent EXCEPT ![c] = NoWorker, ![queue[1]] = lent[c]]
            /\ queue' = Tail(queue)
            /\ UNCHANGED free
    /\ UNCHANGED <<phase, busy>>

Next ==
    \/ Open \/ Close
    \/ \E c \in Callers : Borrow(c) \/ Wait(c) \/ Work(c) \/ Return(c)
    \/ \E w \in Workers : Finish(w)

Spec == Init /\ [][Next]_vars
=============================================================================
