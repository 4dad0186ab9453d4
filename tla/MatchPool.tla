------------------------------ MODULE MatchPool ------------------------------
(***************************************************************************)
(* MatchWorkerPool: worker threads with a WASM instance each, handed to    *)
(* the callers of match() and requestOnIdle() one request at a time, the   *)
(* request/response envelope of MatchWorker, and the worker's own message  *)
(* handler.                                                                *)
(*                                                                         *)
(* A step of the main thread is one event or one promise reaction.  The id *)
(* of a request is named by its requester: a caller, or Creator for the    *)
(* init message; each has one request of its own at a time.                *)
(***************************************************************************)
EXTENDS Naturals, Sequences

CONSTANTS
    Spawned,    \* pool.workers: an array of worker threads
    Callers,    \* who calls match(), again and again
    Creator,    \* the requester of the init messages
    NoWorker,   \* what a caller without a worker holds
    MaxFaults   \* bound: threads that die of themselves in a behaviour

Workers == {Spawned[i] : i \in 1..Len(Spawned)}

ASSUME ConstantsAssumption ==
    /\ Spawned \in Seq(Workers) /\ Spawned # << >>
    /\ \A i, j \in 1..Len(Spawned) : i # j => Spawned[i] # Spawned[j]
    /\ Creator \notin Callers /\ NoWorker \notin Workers
    /\ MaxFaults \in Nat

VARIABLES
    pool,       \* the pool: not "created", in "init", "ready", "null" (what
                \* create() resolved to), "leaked" (null too, but threads
                \* were left running) or "freed"
    thread,     \* the thread of each worker
    watching,   \* the workers whose handler has a watch list
    inbox,      \* requests posted to a worker and not answered
    outbox,     \* messages posted by a worker and not dispatched
    pending,    \* MatchWorker.pending
    inited,     \* workers whose init request resolved
    idle,       \* a stack of workers
    waiters,    \* a queue of callers
    caller,     \* where each caller is, and the worker it has
    faults

vars == <<pool, thread, watching, inbox, outbox, pending, inited, idle,
          waiters, caller, faults>>

Requesters == Callers \cup {Creator}

At(c, pc) == caller[c].pc = pc
Holds(c, w) == caller[c].worker = w

Message(kind, requester) == [kind |-> kind, requester |-> requester]
Post(w, kind, requester) ==
    outbox' = [outbox EXCEPT ![w] = Append(@, Message(kind, requester))]

(* terminate(), of the workers the pool knows.                             *)
Kill == thread' = [w \in Workers |-> "killed"]

-----------------------------------------------------------------------------
(* createWithInit(): every spawn succeeded, the init messages are posted.  *)
Spawn ==
    /\ pool = "created"
    /\ pool' = "init"
    /\ thread' = [w \in Workers |-> "running"]
    /\ inbox' = [w \in Workers |-> {Creator}]
    /\ pending' = [w \in Workers |-> {Creator}]
    /\ UNCHANGED <<watching, outbox, inited, idle, waiters, caller, faults>>

(* A spawn threw: pool.workers is still empty and free() kills nothing.    *)
SpawnFailed ==
    /\ pool = "created"
    /\ \E spawned \in SUBSET Workers :
          /\ spawned # Workers
          /\ thread' = [w \in Workers |-> IF w \in spawned THEN "running"
                                                           ELSE "none"]
          /\ pool' = IF spawned = {} THEN "null" ELSE "leaked"
    /\ UNCHANGED <<watching, inbox, outbox, pending, inited, idle, waiters,
                   caller, faults>>

(* Mutant: one answered init stops the timer.                              *)
InitTimeout_UntilFirst ==
    /\ pool = "init" /\ inited = {}
    /\ pool' = "null"
    /\ Kill
    /\ UNCHANGED <<watching, inbox, outbox, pending, inited, idle, waiters,
                   caller, faults>>

InitTimeout ==
    /\ pool = "init"
    /\ pool' = "null"
    /\ Kill
    /\ UNCHANGED <<watching, inbox, outbox, pending, inited, idle, waiters,
                   caller, faults>>

(* free(), called by the user of the pool.                                 *)
Free ==
    /\ pool = "ready"
    /\ pool' = "freed"
    /\ Kill
    /\ idle' = << >>
    /\ UNCHANGED <<watching, inbox, outbox, pending, inited, waiters, caller,
                   faults>>

-----------------------------------------------------------------------------
(* The worker: handle() of init, which awaits the WASM module.             *)
HandleInit(w) ==
    /\ thread[w] = "running" /\ Creator \in inbox[w]
    /\ inbox' = [inbox EXCEPT ![w] = @ \ {Creator}]
    /\ \/ watching' = watching \cup {w} /\ Post(w, "ok", Creator)
       \/ UNCHANGED watching /\ Post(w, "fail", Creator)
    /\ UNCHANGED <<pool, thread, pending, inited, idle, waiters, caller,
                   faults>>

(* handle() of match: progress is streamed, at most one message ahead of   *)
(* the main thread here, before the result or the error.                   *)
HandleMatch(w, c) ==
    /\ thread[w] = "running" /\ c \in inbox[w]
    /\ inbox' = [inbox EXCEPT ![w] = @ \ {c}]
    /\ \/ w \in watching /\ Post(w, "ok", c)
       \/ Post(w, "fail", c)
    /\ UNCHANGED <<pool, thread, watching, pending, inited, idle, waiters,
                   caller, faults>>

Progress(w, c) ==
    /\ thread[w] = "running" /\ c \in inbox[w] /\ w \in watching
    /\ outbox[w] = << >>
    /\ Post(w, "progress", c)
    /\ UNCHANGED <<pool, thread, watching, inbox, pending, inited, idle,
                   waiters, caller, faults>>

(* The thread dies of an error it did not catch, or of its heap.  This is  *)
(* Node's worker: a browser's reports such an error and runs on, and what  *)
(* it then answers to a failed request, Dispatch would have to drop.       *)
Die(w) ==
    /\ faults < MaxFaults /\ faults' = faults + 1
    /\ thread[w] = "running"
    /\ thread' = [thread EXCEPT ![w] = "dead"]
    /\ inbox' = [inbox EXCEPT ![w] = {}]
    /\ Post(w, "error", Creator)
    /\ UNCHANGED <<pool, watching, pending, inited, idle, waiters, caller>>

-----------------------------------------------------------------------------
(* dispatch() of the oldest message: a progress message settles nothing,   *)
(* nor does an answer nobody waits for.                                    *)
Oldest(w) == outbox[w][1]
Take(w) == outbox[w] # << >> /\ outbox' = [outbox EXCEPT ![w] = Tail(@)]

Ignored(w) ==
    \/ Oldest(w).kind = "progress"
    \/ Oldest(w).kind \in {"ok", "fail"} /\ Oldest(w).requester \notin pending[w]
    \/ Oldest(w).kind = "error" /\ pending[w] = {}

DispatchIgnored(w) ==
    /\ Take(w) /\ Ignored(w)
    /\ UNCHANGED <<pool, thread, watching, inbox, pending, inited, idle,
                   waiters, caller, faults>>

(* An init request resolves: with the last one the pool is ready.          *)
DispatchInit(w) ==
    /\ Take(w) /\ Oldest(w) = Message("ok", Creator) /\ Creator \in pending[w]
    /\ pending' = [pending EXCEPT ![w] = @ \ {Creator}]
    /\ inited' = inited \cup {w}
    /\ IF pool = "init" /\ inited' = Workers
       THEN pool' = "ready" /\ idle' = Spawned
       ELSE UNCHANGED <<pool, idle>>
    /\ UNCHANGED <<thread, watching, inbox, waiters, caller, faults>>

(* Mutant: the pool is given up without free().                            *)
GiveUp_NoFree == /\ UNCHANGED thread
                 /\ pool' = IF pool = "init" THEN "null" ELSE pool

(* An init request rejects: create() frees the pool and resolves to null.  *)
GiveUp == IF pool = "init" THEN pool' = "null" /\ Kill
                           ELSE UNCHANGED <<pool, thread>>

DispatchInitFailed(w) ==
    /\ Take(w) /\ Oldest(w) = Message("fail", Creator) /\ Creator \in pending[w]
    /\ pending' = [pending EXCEPT ![w] = @ \ {Creator}]
    /\ GiveUp
    /\ UNCHANGED <<watching, inbox, inited, idle, waiters, caller, faults>>

(* Mutant: a progress message settles its request.                         *)
DispatchAnswer_Progress(w) ==
    LET c == Oldest(w).requester
    IN /\ Take(w) /\ Oldest(w).kind \in {"ok", "fail", "progress"}
       /\ c \in Callers /\ c \in pending[w]
       /\ pending' = [pending EXCEPT ![w] = @ \ {c}]
       /\ caller' = [caller EXCEPT ![c].pc = "answered"]
       /\ UNCHANGED <<pool, thread, watching, inbox, inited, idle, waiters,
                      faults>>

(* The answer to a match request settles it.                               *)
DispatchAnswer(w) ==
    LET c == Oldest(w).requester
    IN /\ Take(w) /\ Oldest(w).kind \in {"ok", "fail"}
       /\ c \in Callers /\ c \in pending[w]
       /\ pending' = [pending EXCEPT ![w] = @ \ {c}]
       /\ caller' = [caller EXCEPT ![c].pc = "answered"]
       /\ UNCHANGED <<pool, thread, watching, inbox, inited, idle, waiters,
                      faults>>

(* failAll(): a thread's error rejects every request pending on it.        *)
DispatchError(w) ==
    /\ Take(w) /\ Oldest(w).kind = "error" /\ pending[w] # {}
    /\ pending' = [pending EXCEPT ![w] = {}]
    /\ caller' = [c \in Callers |-> IF c \in pending[w]
                                    THEN [caller[c] EXCEPT !.pc = "answered"]
                                    ELSE caller[c]]
    /\ IF Creator \in pending[w] THEN GiveUp ELSE UNCHANGED <<pool, thread>>
    /\ UNCHANGED <<watching, inbox, inited, idle, waiters, faults>>

-----------------------------------------------------------------------------
Grant(c, w) == caller' = [caller EXCEPT ![c] = [pc |-> "granted", worker |-> w]]

(* acquire(), of a call that finds an idle worker and of one that waits.   *)
CallAtOnce(c) ==
    /\ pool \in {"ready", "freed"} /\ At(c, "out") /\ idle # << >>
    /\ Grant(c, idle[Len(idle)])
    /\ idle' = SubSeq(idle, 1, Len(idle) - 1)
    /\ UNCHANGED <<pool, thread, watching, inbox, outbox, pending, inited,
                   waiters, faults>>

(* Mutant: the last waiter is served first.                                *)
CallWaits_Lifo(c) ==
    /\ pool \in {"ready", "freed"} /\ At(c, "out") /\ idle = << >>
    /\ caller' = [caller EXCEPT ![c].pc = "waiting"]
    /\ waiters' = <<c>> \o waiters
    /\ UNCHANGED <<pool, thread, watching, inbox, outbox, pending, inited,
                   idle, faults>>

CallWaits(c) ==
    /\ pool \in {"ready", "freed"} /\ At(c, "out") /\ idle = << >>
    /\ caller' = [caller EXCEPT ![c].pc = "waiting"]
    /\ waiters' = Append(waiters, c)
    /\ UNCHANGED <<pool, thread, watching, inbox, outbox, pending, inited,
                   idle, faults>>

(* request(): what is posted to a thread that has ended is lost.           *)
Request(c) ==
    LET w == caller[c].worker
    IN /\ At(c, "granted")
       /\ caller' = [caller EXCEPT ![c].pc = "sent"]
       /\ pending' = [pending EXCEPT ![w] = @ \cup {c}]
       /\ inbox' = IF thread[w] = "running"
                   THEN [inbox EXCEPT ![w] = @ \cup {c}] ELSE inbox
       /\ UNCHANGED <<pool, thread, watching, outbox, inited, idle, waiters,
                      faults>>

(* release(), on success and on failure, to the next waiter or the stack.  *)
ReleaseToWaiter_AndIdle(c) ==   \* mutant: a missing else
    /\ At(c, "answered") /\ waiters # << >>
    /\ idle' = Append(idle, caller[c].worker)
    /\ caller' = [caller EXCEPT ![c] = [pc |-> "out", worker |-> NoWorker],
                     ![waiters[1]] = [pc |-> "granted",
                                      worker |-> caller[c].worker]]
    /\ waiters' = Tail(waiters)
    /\ UNCHANGED <<pool, thread, watching, inbox, outbox, pending, inited,
                   faults>>
ReleaseToIdle_Nothing(c) ==     \* mutant: the worker is cleared first
    /\ At(c, "answered") /\ waiters = << >>
    /\ idle' = Append(idle, NoWorker)
    /\ caller' = [caller EXCEPT ![c] = [pc |-> "out", worker |-> NoWorker]]
    /\ UNCHANGED <<pool, thread, watching, inbox, outbox, pending, inited,
                   waiters, faults>>

ReleaseToWaiter(c) ==
    /\ At(c, "answered") /\ waiters # << >>
    /\ caller' = [caller EXCEPT ![c] = [pc |-> "out", worker |-> NoWorker],
                     ![waiters[1]] = [pc |-> "granted",
                                      worker |-> caller[c].worker]]
    /\ waiters' = Tail(waiters)
    /\ UNCHANGED <<pool, thread, watching, inbox, outbox, pending, inited,
                   idle, faults>>

ReleaseToIdle(c) ==
    /\ At(c, "answered") /\ waiters = << >>
    /\ idle' = Append(idle, caller[c].worker)
    /\ caller' = [caller EXCEPT ![c] = [pc |-> "out", worker |-> NoWorker]]
    /\ UNCHANGED <<pool, thread, watching, inbox, outbox, pending, inited,
                   waiters, faults>>

-----------------------------------------------------------------------------
Init ==
    /\ pool = "created"
    /\ thread = [w \in Workers |-> "none"]
    /\ watching = {}
    /\ inbox = [w \in Workers |-> {}]
    /\ outbox = [w \in Workers |-> << >>]
    /\ pending = [w \in Workers |-> {}]
    /\ inited = {}
    /\ idle = << >>
    /\ waiters = << >>
    /\ caller = [c \in Callers |-> [pc |-> "out", worker |-> NoWorker]]
    /\ faults = 0

Dispatch(w) == \/ DispatchIgnored(w) \/ DispatchInit(w)
               \/ DispatchInitFailed(w) \/ DispatchAnswer(w)
               \/ DispatchError(w)

Handle(w) == \E c \in Callers : HandleMatch(w, c)

React(c) == Request(c) \/ ReleaseToWaiter(c) \/ ReleaseToIdle(c)

Next ==
    \/ Spawn \/ SpawnFailed \/ InitTimeout \/ Free
    \/ \E w \in Workers : \/ HandleInit(w) \/ Handle(w) \/ Dispatch(w) \/ Die(w)
                         \/ \E c \in Callers : Progress(w, c)
    \/ \E c \in Callers : CallAtOnce(c) \/ CallWaits(c) \/ React(c)

Spec == Init /\ [][Next]_vars

(* The timer fires and a match comes to its end; an init need not.  The    *)
(* messages of a running thread are dispatched, promise reactions run.     *)
FairSpec ==
    /\ Spec
    /\ WF_vars(Spawn \/ SpawnFailed) /\ WF_vars(InitTimeout)
    /\ \A w \in Workers : /\ WF_vars(Handle(w))
                          /\ WF_vars(thread[w] # "killed" /\ Dispatch(w))
    /\ \A c \in Callers : WF_vars(React(c))

-----------------------------------------------------------------------------
Messages == [kind : {"ok", "fail", "progress", "error"}, requester : Requesters]

TypeOK ==
    /\ pool \in {"created", "init", "ready", "null", "leaked", "freed"}
    /\ thread \in [Workers -> {"none", "running", "dead", "killed"}]
    /\ watching \subseteq Workers
    /\ inbox \in [Workers -> SUBSET Requesters]
    /\ outbox \in [Workers -> Seq(Messages)]
    /\ pending \in [Workers -> SUBSET Requesters]
    /\ inited \subseteq Workers
    /\ idle \in Seq(Workers) /\ waiters \in Seq(Callers)
    /\ caller \in [Callers -> [pc : {"out", "waiting", "granted", "sent",
                                    "answered"},
                               worker : Workers \cup {NoWorker}]]
    /\ faults \in 0..MaxFaults

(* No worker is lost or handed out twice, whatever answers, errors and     *)
(* releases interleave: it is in the stack once or with one caller, and    *)
(* while the pool is in use it is in one of them.                          *)
OneOwner(w) ==
    /\ \A i, j \in 1..Len(idle) : idle[i] = w /\ idle[j] = w => i = j
    /\ \A c, d \in Callers : Holds(c, w) /\ Holds(d, w) => c = d
    /\ \A i \in 1..Len(idle), c \in Callers : ~(idle[i] = w /\ Holds(c, w))
Owned(w) == (\E i \in 1..Len(idle) : idle[i] = w) \/ \E c \in Callers : Holds(c, w)
Conserved == \A w \in Workers : OneOwner(w) /\ (pool = "ready" => Owned(w))

(* A thread works for the caller that has it: what is posted to it or by   *)
(* it, errors apart, is of a caller that still waits for its answer.       *)
Served ==
    \A w \in Workers, c \in Callers :
        \/ c \in inbox[w]
        \/ \E i \in 1..Len(outbox[w]) : outbox[w][i].requester = c
        => At(c, "sent") /\ Holds(c, w)

(* create() that gave up and free() leave no thread running; "leaked" is   *)
(* the exception, a spawn that throws after others succeeded.              *)
NoThreadLeft == pool \in {"null", "freed"} => \A w \in Workers : thread[w] # "running"

(* create() resolves, to a pool or to null, though an init may never be    *)
(* answered and threads may die (matchpool.ts:122-125).                    *)
CreateSettles == <>(pool \notin {"created", "init"})

(* Every call settles, also one whose thread dies under it, unless the     *)
(* pool is freed or the call was handed a thread that had died before: no  *)
(* error event rejects that one any more.                                  *)
Hung(w) == /\ thread[w] = "dead" /\ outbox[w] = << >>
           /\ \E c \in Callers : At(c, "sent") /\ Holds(c, w)
Unserved(c) == \/ pool = "freed"
               \/ \E w \in Workers : Holds(c, w) /\ Hung(w)
               \/ \A w \in Workers : Hung(w)
CallsSettle == \A c \in Callers : ~At(c, "out") ~> At(c, "out") \/ Unserved(c)
=============================================================================
