-------------------------- MODULE MatchPoolProofs --------------------------
(***************************************************************************)
(* Proofs about MatchPool, for every number of workers and callers.        *)
(***************************************************************************)
EXTENDS MatchPoolLending, SequenceTheorems, TLAPS

-----------------------------------------------------------------------------
(* The inductive invariant: TypeOK, Conserved and Served, with what they   *)
(* rest on.                                                                *)

(* A caller has a worker from the grant to the release.                    *)
HolderInv == \A c \in Callers : At(c, "out") \/ At(c, "waiting")
                                <=> caller[c].worker = NoWorker

(* The queue holds the waiting callers, each once.                         *)
WaitersInv ==
    /\ \A i \in 1..Len(waiters) : At(waiters[i], "waiting")
    /\ \A i, j \in 1..Len(waiters) : waiters[i] = waiters[j] => i = j

(* No call waits beside an idle worker.                                    *)
NoIdleWhileWaiting == waiters # << >> => idle = << >>

(* Before create() resolves nobody uses the pool.                          *)
UnusedInv == pool \notin {"ready", "freed"} =>
                /\ idle = << >> /\ waiters = << >>
                /\ \A c \in Callers : At(c, "out")

(* A request that can still be settled is that of the worker's caller.     *)
PendingInv == \A w \in Workers, c \in Callers :
                  c \in pending[w] => At(c, "sent") /\ Holds(c, w)

(* The answer to a request is posted once, and nothing about it after it.  *)
AnsweredOnceInv ==
    \A w \in Workers, c \in Callers : \A i \in 1..Len(outbox[w]) :
        outbox[w][i].requester = c /\ outbox[w][i].kind # "progress"
        => /\ c \notin inbox[w]
           /\ \A j \in (i + 1)..Len(outbox[w]) : outbox[w][j].requester # c

(* A thread's error is the last it posts, and nothing is left to handle.   *)
ErrorLastInv ==
    \A w \in Workers : \A i \in 1..Len(outbox[w]) :
        outbox[w][i].kind = "error"
        => /\ i = Len(outbox[w]) /\ thread[w] # "running" /\ inbox[w] = {}
           /\ outbox[w][i].requester = Creator

(* Before the threads are spawned there is nothing to dispatch.            *)
CreatedInv == pool = "created" =>
                  \A w \in Workers : outbox[w] = << >> /\ thread[w] = "none"

IInv == /\ TypeOK /\ HolderInv /\ WaitersInv /\ UnusedInv /\ PendingInv
        /\ AnsweredOnceInv /\ ErrorLastInv /\ CreatedInv
        /\ Conserved /\ NoIdleWhileWaiting /\ Served

-----------------------------------------------------------------------------
(* What Post and Take do to the messages of a worker.                      *)
LEMMA PostEffect ==
    ASSUME TypeOK, NEW w \in Workers,
           NEW kind \in {"ok", "fail", "progress", "error"},
           NEW r \in Requesters, Post(w, kind, r)
    PROVE  /\ outbox' \in [Workers -> Seq(Messages)]
           /\ Len(outbox[w]) \in Nat /\ Len(outbox'[w]) = Len(outbox[w]) + 1
           /\ \A i \in 1..Len(outbox[w]) : outbox'[w][i] = outbox[w][i]
           /\ outbox'[w][Len(outbox[w]) + 1] = Message(kind, r)
           /\ \A v \in Workers : v # w => outbox'[v] = outbox[v]
<1> DEFINE q == outbox[w]
           m == Message(kind, r)
<1>1. q \in Seq(Messages) /\ m \in Messages
  BY DEF TypeOK, Messages, Message
<1>2. outbox' = [outbox EXCEPT ![w] = Append(q, m)]
  BY DEF Post
<1>3. Append(q, m) \in Seq(Messages) /\ Len(Append(q, m)) = Len(q) + 1
      /\ (\A i \in 1..Len(q) : Append(q, m)[i] = q[i])
      /\ Append(q, m)[Len(q) + 1] = m /\ Len(q) \in Nat
  BY <1>1
<1> HIDE DEF m
<1>4. outbox \in [Workers -> Seq(Messages)]
  BY DEF TypeOK
<1>5. outbox'[w] = Append(q, m) /\ \A v \in Workers : v # w => outbox'[v] = outbox[v]
  BY <1>2, <1>4
<1>6. outbox' \in [Workers -> Seq(Messages)]
  BY <1>2, <1>3, <1>4
<1> QED BY <1>3, <1>5, <1>6 DEF m

LEMMA TakeEffect ==
    ASSUME TypeOK, NEW w \in Workers, Take(w)
    PROVE  /\ outbox' \in [Workers -> Seq(Messages)]
           /\ Len(outbox[w]) \in Nat \ {0}
           /\ Len(outbox'[w]) = Len(outbox[w]) - 1
           /\ \A i \in 1..Len(outbox'[w]) : outbox'[w][i] = outbox[w][i + 1]
           /\ \A v \in Workers : v # w => outbox'[v] = outbox[v]
           /\ Oldest(w) \in Messages
<1> DEFINE q == outbox[w]
<1>1. q \in Seq(Messages) /\ q # << >> /\ outbox \in [Workers -> Seq(Messages)]
  BY DEF TypeOK, Take
<1>2. outbox' = [outbox EXCEPT ![w] = Tail(q)]
  BY DEF Take
<1>3. /\ Tail(q) \in Seq(Messages) /\ Len(Tail(q)) = Len(q) - 1
      /\ Len(q) \in Nat \ {0} /\ q[1] \in Messages
      /\ \A i \in 1..Len(Tail(q)) : Tail(q)[i] = q[i + 1]
  BY <1>1
<1>4. outbox'[w] = Tail(q) /\ \A v \in Workers : v # w => outbox'[v] = outbox[v]
  BY <1>1, <1>2
<1>5. outbox' \in [Workers -> Seq(Messages)]
  BY <1>1, <1>2, <1>3
<1> QED BY <1>3, <1>4, <1>5 DEF Oldest

-----------------------------------------------------------------------------
(* Type correctness.                                                       *)
Places == [pc : {"out", "waiting", "granted", "sent", "answered"},
           worker : Workers \cup {NoWorker}]

LEMMA InitTypeOK == Init => TypeOK
<1>1. SUFFICES ASSUME Init PROVE TypeOK
  OBVIOUS
<1>2. << >> \in Seq(Workers) /\ << >> \in Seq(Callers) /\ << >> \in Seq(Messages)
  OBVIOUS
<1>3. 0 \in 0..MaxFaults
  BY ConstantsAssumption
<1> QED BY <1>1, <1>2, <1>3 DEF Init, TypeOK

LEMMA WorkerTypeOK ==
    ASSUME TypeOK, NEW w \in Workers,
           \/ HandleInit(w) \/ Handle(w) \/ Die(w)
           \/ \E c \in Callers : Progress(w, c)
    PROVE  TypeOK'
<1>1. CASE HandleInit(w)
  <2>1. PICK kind \in {"ok", "fail"} : Post(w, kind, Creator)
    BY <1>1 DEF HandleInit
  <2>2. outbox' \in [Workers -> Seq(Messages)]
    BY <2>1, PostEffect DEF Requesters
  <2> QED BY <1>1, <2>2 DEF HandleInit, TypeOK
<1>2. CASE Handle(w)
  <2>1. PICK c \in Callers : HandleMatch(w, c)
    BY <1>2 DEF Handle
  <2>2. PICK kind \in {"ok", "fail"} : Post(w, kind, c)
    BY <2>1 DEF HandleMatch
  <2>3. outbox' \in [Workers -> Seq(Messages)]
    BY <2>2, PostEffect DEF Requesters
  <2> QED BY <2>1, <2>3 DEF HandleMatch, TypeOK
<1>3. CASE Die(w)
  <2>1. outbox' \in [Workers -> Seq(Messages)]
    BY <1>3, PostEffect DEF Requesters, Die
  <2>2. faults' \in 0..MaxFaults
    BY <1>3, ConstantsAssumption DEF Die, TypeOK
  <2> QED BY <1>3, <2>1, <2>2 DEF Die, TypeOK
<1>4. ASSUME NEW c \in Callers, Progress(w, c) PROVE TypeOK'
  <2>1. outbox' \in [Workers -> Seq(Messages)]
    BY <1>4, PostEffect DEF Requesters, Progress
  <2> QED BY <1>4, <2>1 DEF Progress, TypeOK
<1> QED BY <1>1, <1>2, <1>3, <1>4

LEMMA DispatchTypeOK ==
    ASSUME TypeOK, NEW w \in Workers, Dispatch(w)
    PROVE  TypeOK'
<1>0. Take(w)
  BY DEF Dispatch, DispatchIgnored, DispatchInit, DispatchInitFailed,
         DispatchAnswer, DispatchError
<1>1. outbox' \in [Workers -> Seq(Messages)]
  BY <1>0, TakeEffect
<1>2. CASE DispatchIgnored(w)
  BY <1>1, <1>2 DEF DispatchIgnored, TypeOK
<1>3. CASE DispatchInit(w)
  <2>1. Spawned \in Seq(Workers)
    BY ConstantsAssumption
  <2> QED BY <1>1, <1>3, <2>1 DEF DispatchInit, TypeOK
<1>4. CASE DispatchInitFailed(w)
  BY <1>1, <1>4 DEF DispatchInitFailed, GiveUp, Kill, TypeOK
<1>5. CASE DispatchAnswer(w)
  <2> DEFINE r == Oldest(w).requester
  <2>1. /\ r \in Callers
        /\ pending' = [pending EXCEPT ![w] = @ \ {r}]
        /\ caller' = [caller EXCEPT ![r].pc = "answered"]
    BY <1>5 DEF DispatchAnswer
  <2> HIDE DEF r
  <2>2. caller' \in [Callers -> Places]
    BY <2>1 DEF TypeOK, Places
  <2> QED BY <1>1, <1>5, <2>1, <2>2 DEF DispatchAnswer, TypeOK, Places
<1>6. CASE DispatchError(w)
  <2>1. caller' \in [Callers -> Places]
    BY <1>6 DEF DispatchError, TypeOK, Places
  <2> QED BY <1>1, <1>6, <2>1 DEF DispatchError, GiveUp, Kill, TypeOK, Places
<1> QED BY <1>2, <1>3, <1>4, <1>5, <1>6 DEF Dispatch

(* What acquire(), release() and a new waiter do to the stack and queue.   *)
LEMMA PopEffect ==
    ASSUME NEW S, NEW q \in Seq(S), q # << >>
    PROVE  /\ Len(q) \in Nat \ {0} /\ q[Len(q)] \in S
           /\ SubSeq(q, 1, Len(q) - 1) \in Seq(S)
           /\ Len(SubSeq(q, 1, Len(q) - 1)) = Len(q) - 1
           /\ \A i \in 1..(Len(q) - 1) : SubSeq(q, 1, Len(q) - 1)[i] = q[i]
<1> DEFINE n == Len(q) - 1
<1>1. Len(q) \in Nat \ {0} /\ \A i \in 1..Len(q) : q[i] \in S
  OBVIOUS
<1>2. 1 \in Int /\ n \in Nat /\ \A i \in 1..n : q[i] \in S
  BY <1>1
<1>3. /\ SubSeq(q, 1, n) \in Seq(S)
      /\ Len(SubSeq(q, 1, n)) = IF 1 <= n THEN n - 1 + 1 ELSE 0
      /\ \A i \in 1..(n - 1 + 1) : SubSeq(q, 1, n)[i] = q[1 + i - 1]
  <2> HIDE DEF n
  <2> QED BY <1>2, SubSeqProperties
<1>4. n \in Nat
  BY <1>2
<1> HIDE DEF n
<1>5. /\ (IF 1 <= n THEN n - 1 + 1 ELSE 0) = n /\ n - 1 + 1 = n
      /\ \A i \in 1..n : 1 + i - 1 = i
  BY <1>4
<1>6. Len(SubSeq(q, 1, n)) = n /\ \A i \in 1..n : SubSeq(q, 1, n)[i] = q[i]
  BY <1>3, <1>5
<1> QED BY <1>1, <1>3, <1>6 DEF n

LEMMA PushEffect ==
    ASSUME NEW S, NEW q \in Seq(S), NEW x \in S
    PROVE  /\ Append(q, x) \in Seq(S) /\ Len(q) \in Nat
           /\ Len(Append(q, x)) = Len(q) + 1 /\ Append(q, x)[Len(q) + 1] = x
           /\ \A i \in 1..Len(q) : Append(q, x)[i] = q[i]
OBVIOUS

LEMMA ShiftEffect ==
    ASSUME NEW S, NEW q \in Seq(S), q # << >>
    PROVE  /\ Len(q) \in Nat \ {0} /\ q[1] \in S /\ Tail(q) \in Seq(S)
           /\ Len(Tail(q)) = Len(q) - 1
           /\ \A i \in 1..(Len(q) - 1) : Tail(q)[i] = q[i + 1]
OBVIOUS

LEMMA ReleasedWorker ==
    ASSUME TypeOK, HolderInv, NEW c \in Callers, At(c, "answered")
    PROVE  caller[c].worker \in Workers
BY DEF TypeOK, HolderInv, At

LEMMA CallerTypeOK ==
    ASSUME TypeOK, HolderInv, NEW c \in Callers,
           CallAtOnce(c) \/ CallWaits(c) \/ React(c)
    PROVE  TypeOK'
<1> USE DEF Places
<1>0. caller \in [Callers -> Places] /\ idle \in Seq(Workers) /\ waiters \in Seq(Callers)
  BY DEF TypeOK
<1>1. CASE CallAtOnce(c)
  <2>1. idle[Len(idle)] \in Workers /\ idle' \in Seq(Workers)
    BY <1>0, <1>1, PopEffect DEF CallAtOnce
  <2>2. caller' \in [Callers -> Places]
    BY <1>0, <1>1, <2>1 DEF CallAtOnce, Grant
  <2> QED BY <1>1, <2>1, <2>2 DEF CallAtOnce, TypeOK
<1>2. CASE CallWaits(c)
  <2>1. waiters' \in Seq(Callers)
    BY <1>0, <1>2, PushEffect DEF CallWaits
  <2>2. caller' \in [Callers -> Places]
    BY <1>0, <1>2 DEF CallWaits
  <2> QED BY <1>2, <2>1, <2>2 DEF CallWaits, TypeOK
<1>3. CASE Request(c)
  <2>1. caller' \in [Callers -> Places]
    BY <1>0, <1>3 DEF Request
  <2> QED BY <1>3, <2>1 DEF Request, TypeOK, Requesters
<1>4. CASE ReleaseToWaiter(c)
  <2>1. waiters' \in Seq(Callers) /\ waiters[1] \in Callers
    BY <1>0, <1>4, ShiftEffect DEF ReleaseToWaiter
  <2>2. caller[c].worker \in Workers
    BY <1>4, ReleasedWorker DEF ReleaseToWaiter
  <2>3. caller' \in [Callers -> Places]
    BY <1>0, <1>4, <2>1, <2>2 DEF ReleaseToWaiter
  <2> QED BY <1>4, <2>1, <2>3 DEF ReleaseToWaiter, TypeOK
<1>5. CASE ReleaseToIdle(c)
  <2>1. caller[c].worker \in Workers
    BY <1>5, ReleasedWorker DEF ReleaseToIdle
  <2>2. idle' \in Seq(Workers)
    BY <1>0, <1>5, <2>1, PushEffect DEF ReleaseToIdle
  <2>3. caller' \in [Callers -> Places]
    BY <1>0, <1>5 DEF ReleaseToIdle
  <2> QED BY <1>5, <2>2, <2>3 DEF ReleaseToIdle, TypeOK
<1> QED BY <1>1, <1>2, <1>3, <1>4, <1>5 DEF React

LEMMA PoolTypeOK ==
    ASSUME TypeOK, Spawn \/ SpawnFailed \/ InitTimeout \/ Free
    PROVE  TypeOK'
<1>1. CASE Spawn
  BY <1>1 DEF Spawn, TypeOK, Requesters
<1>2. CASE SpawnFailed
  BY <1>2 DEF SpawnFailed, TypeOK
<1>3. CASE InitTimeout
  BY <1>3 DEF InitTimeout, Kill, TypeOK
<1>4. CASE Free
  <2>1. << >> \in Seq(Workers)
    OBVIOUS
  <2> QED BY <1>4, <2>1 DEF Free, Kill, TypeOK
<1> QED BY <1>1, <1>2, <1>3, <1>4

-----------------------------------------------------------------------------
(* Who has which worker: the part of the invariant about the stack, the    *)
(* queue and the callers.                                                  *)
HandOut == HolderInv /\ WaitersInv /\ UnusedInv /\ Conserved /\ NoIdleWhileWaiting

(* A step that moves no worker, and brings the pool into use only from     *)
(* use.  A caller may go from one place where it has its worker to another *)
(* one.                                                                    *)
LEMMA HandOutFrame ==
    ASSUME TypeOK, TypeOK', HandOut,
           UNCHANGED <<idle, waiters>>,
           pool' = "ready" => pool = "ready",
           pool \in {"ready", "freed"} => pool' \in {"ready", "freed"},
           \A c \in Callers :
              \/ caller'[c] = caller[c]
              \/ /\ caller'[c].worker = caller[c].worker
                 /\ caller[c].pc \in {"granted", "sent", "answered"}
                 /\ caller'[c].pc \in {"granted", "sent", "answered"}
    PROVE  HandOut'
<1>1. HolderInv'
  BY DEF HandOut, HolderInv, At
<1>2. WaitersInv'
  <2>1. \A i \in 1..Len(waiters) : waiters[i] \in Callers
    BY DEF TypeOK
  <2> QED BY <2>1 DEF HandOut, WaitersInv, At
<1>3. UnusedInv'
  BY DEF HandOut, UnusedInv, At
<1>4. Conserved'
  <2>1. \A c \in Callers, w \in Workers : Holds(c, w)' <=> Holds(c, w)
    BY DEF Holds
  <2> QED BY <2>1 DEF HandOut, Conserved, OneOwner, Owned
<1>5. NoIdleWhileWaiting'
  BY DEF HandOut, NoIdleWhileWaiting
<1> QED BY <1>1, <1>2, <1>3, <1>4, <1>5 DEF HandOut

LEMMA PoolHandOut ==
    ASSUME TypeOK, TypeOK', HandOut, Spawn \/ SpawnFailed \/ InitTimeout \/ Free
    PROVE  HandOut'
<1>1. CASE Spawn \/ SpawnFailed \/ InitTimeout
  <2>1. /\ UNCHANGED <<idle, waiters, caller>>
        /\ pool' # "ready" /\ pool \notin {"ready", "freed"}
    BY <1>1 DEF Spawn, SpawnFailed, InitTimeout
  <2> QED BY <2>1, HandOutFrame
<1>2. CASE Free
  <2>1. UNCHANGED <<waiters, caller>> /\ idle' = << >> /\ pool' = "freed"
    BY <1>2 DEF Free
  <2>2. HolderInv' /\ WaitersInv'
    BY <2>1 DEF HandOut, HolderInv, WaitersInv, At
  <2>3. UnusedInv' /\ NoIdleWhileWaiting'
    BY <2>1 DEF UnusedInv, NoIdleWhileWaiting
  <2>4. Conserved'
    BY <2>1 DEF HandOut, Conserved, OneOwner, Holds
  <2> QED BY <2>2, <2>3, <2>4 DEF HandOut
<1> QED BY <1>1, <1>2

(* create() resolves to a pool whose workers are all idle.                 *)
LEMMA ReadyHandOut ==
    ASSUME TypeOK, TypeOK', HandOut, NEW w \in Workers, DispatchInit(w)
    PROVE  HandOut'
<1>1. CASE pool' = pool /\ idle' = idle
  BY <1>1, HandOutFrame DEF DispatchInit
<1>2. CASE pool = "init" /\ pool' = "ready" /\ idle' = Spawned
  <2>1. UNCHANGED <<waiters, caller>>
    BY DEF DispatchInit
  <2>2. waiters = << >> /\ \A c \in Callers : At(c, "out")
    BY <1>2 DEF HandOut, UnusedInv
  <2>3. \A c \in Callers, v \in Workers : ~Holds(c, v)'
    BY <2>1, <2>2, ConstantsAssumption DEF HandOut, HolderInv, Holds
  <2>4. Conserved'
    BY <1>2, <2>3, ConstantsAssumption DEF Conserved, OneOwner, Owned, Workers
  <2>5. HolderInv' /\ WaitersInv'
    BY <2>1 DEF HandOut, HolderInv, WaitersInv, At
  <2>6. UnusedInv' /\ NoIdleWhileWaiting'
    BY <1>2, <2>1, <2>2 DEF UnusedInv, NoIdleWhileWaiting
  <2> QED BY <2>4, <2>5, <2>6 DEF HandOut
<1> QED BY <1>1, <1>2 DEF DispatchInit

LEMMA DispatchHandOut ==
    ASSUME TypeOK, TypeOK', HandOut, PendingInv, NEW w \in Workers, Dispatch(w)
    PROVE  HandOut'
<1>1. CASE DispatchIgnored(w)
  BY <1>1, HandOutFrame DEF DispatchIgnored
<1>2. CASE DispatchInit(w)
  BY <1>2, ReadyHandOut
<1>3. CASE DispatchInitFailed(w)
  <2>1. /\ UNCHANGED <<idle, waiters, caller>>
        /\ pool' = "ready" => pool = "ready"
        /\ pool \in {"ready", "freed"} => pool' \in {"ready", "freed"}
    BY <1>3 DEF DispatchInitFailed, GiveUp
  <2> QED BY <2>1, HandOutFrame
<1>4. CASE DispatchAnswer(w)
  <2> DEFINE r == Oldest(w).requester
  <2>1. /\ r \in Callers /\ r \in pending[w]
        /\ caller' = [caller EXCEPT ![r].pc = "answered"]
        /\ UNCHANGED <<pool, idle, waiters>>
    BY <1>4 DEF DispatchAnswer
  <2>2. caller[r].pc = "sent"
    BY <2>1 DEF PendingInv, At
  <2> HIDE DEF r
  <2>3. \A c \in Callers :
           \/ caller'[c] = caller[c]
           \/ /\ caller'[c].worker = caller[c].worker
              /\ caller[c].pc \in {"granted", "sent", "answered"}
              /\ caller'[c].pc \in {"granted", "sent", "answered"}
    BY <2>1, <2>2 DEF TypeOK
  <2> QED BY <2>1, <2>3, HandOutFrame
<1>5. CASE DispatchError(w)
  <2>1. \A c \in Callers : c \in pending[w] => caller[c].pc = "sent"
    BY DEF PendingInv, At
  <2>2. \A c \in Callers :
           \/ caller'[c] = caller[c]
           \/ /\ caller'[c].worker = caller[c].worker
              /\ caller[c].pc \in {"granted", "sent", "answered"}
              /\ caller'[c].pc \in {"granted", "sent", "answered"}
    BY <1>5, <2>1 DEF DispatchError, TypeOK
  <2>3. /\ UNCHANGED <<idle, waiters>>
        /\ pool' = "ready" => pool = "ready"
        /\ pool \in {"ready", "freed"} => pool' \in {"ready", "freed"}
    BY <1>5 DEF DispatchError, GiveUp
  <2> QED BY <2>2, <2>3, HandOutFrame
<1> QED BY <1>1, <1>2, <1>3, <1>4, <1>5 DEF Dispatch

-----------------------------------------------------------------------------
(* acquire() and release() keep every worker with one owner.               *)
LEMMA CallAtOnceHandOut ==
    ASSUME TypeOK, HandOut, NEW c \in Callers, CallAtOnce(c)
    PROVE  HandOut'
<1> DEFINE n == Len(idle)
           x == idle[n]
<1>1. /\ At(c, "out") /\ idle # << >> /\ idle \in Seq(Workers)
      /\ caller \in [Callers -> Places] /\ pool \in {"ready", "freed"}
      /\ UNCHANGED <<pool, waiters>>
  BY DEF CallAtOnce, TypeOK, Places
<1>2. /\ n \in Nat \ {0} /\ x \in Workers
      /\ Len(idle') = n - 1 /\ \A i \in 1..(n - 1) : idle'[i] = idle[i]
  BY <1>1, PopEffect DEF CallAtOnce
<1>3. /\ caller'[c] = [pc |-> "granted", worker |-> x]
      /\ \A d \in Callers : d # c => caller'[d] = caller[d]
  BY <1>1 DEF CallAtOnce, Grant
<1>4. caller[c].worker = NoWorker /\ waiters = << >>
  BY <1>1 DEF HandOut, HolderInv, NoIdleWhileWaiting
<1> HIDE DEF n, x
<1>5. /\ idle[n] = x
      /\ \A i, j \in 1..n : idle[i] \in Workers /\ (idle[i] = idle[j] => i = j)
      /\ \A i \in 1..n, d \in Callers : ~Holds(d, idle[i])
      /\ \A d, e \in Callers, w \in Workers : Holds(d, w) /\ Holds(e, w) => d = e
  <2>1. \A i \in 1..n : idle[i] \in Workers
    BY <1>1 DEF n
  <2> QED BY <2>1 DEF HandOut, Conserved, OneOwner, n, x
<1>6. HolderInv'
  BY <1>2, <1>3, ConstantsAssumption DEF HandOut, HolderInv, At
<1>7. WaitersInv' /\ UnusedInv' /\ NoIdleWhileWaiting'
  BY <1>1, <1>4 DEF WaitersInv, UnusedInv, NoIdleWhileWaiting
<1>8. \A w \in Workers : OneOwner(w)'
  <2>1. \A i \in 1..(n - 1) : i \in 1..n /\ idle[i] # x
    BY <1>2, <1>5
  <2>2. \A d \in Callers, w \in Workers :
           Holds(d, w)' => (Holds(d, w) /\ d # c) \/ (d = c /\ w = x)
    BY <1>3 DEF Holds
  <2>3. \A d \in Callers : ~Holds(d, x)
    BY <1>2, <1>5
  <2> QED BY <1>2, <1>5, <2>1, <2>2, <2>3 DEF OneOwner
<1>9. pool' = "ready" => \A w \in Workers : Owned(w)'
  <2>1. SUFFICES ASSUME pool = "ready", NEW w \in Workers PROVE Owned(w)'
    BY <1>1
  <2>2. CASE \E d \in Callers : Holds(d, w)
    <3>1. PICK d \in Callers : Holds(d, w)
      BY <2>2
    <3>2. d # c
      BY <1>4, <3>1, ConstantsAssumption DEF Holds
    <3> QED BY <1>3, <3>1, <3>2 DEF Owned, Holds
  <2>3. CASE \E i \in 1..n : idle[i] = w
    <3>1. PICK i \in 1..n : idle[i] = w
      BY <2>3
    <3>2. CASE i = n
      BY <1>3, <1>5, <3>1, <3>2 DEF Owned, Holds
    <3>3. CASE i # n
      <4>1. i \in 1..(n - 1)
        BY <1>2, <3>3
      <4> QED BY <1>2, <3>1, <4>1 DEF Owned
    <3> QED BY <3>2, <3>3
  <2> QED BY <2>1, <2>2, <2>3 DEF HandOut, Conserved, Owned, n
<1> QED BY <1>6, <1>7, <1>8, <1>9 DEF HandOut, Conserved

LEMMA CallWaitsHandOut ==
    ASSUME TypeOK, HandOut, NEW c \in Callers, CallWaits(c)
    PROVE  HandOut'
<1> DEFINE n == Len(waiters)
<1>1. /\ At(c, "out") /\ idle = << >> /\ waiters \in Seq(Callers)
      /\ caller \in [Callers -> Places] /\ pool \in {"ready", "freed"}
      /\ UNCHANGED <<pool, idle>>
      /\ caller' = [caller EXCEPT ![c].pc = "waiting"]
  BY DEF CallWaits, TypeOK, Places
<1>2. /\ n \in Nat /\ Len(waiters') = n + 1 /\ waiters'[n + 1] = c
      /\ \A i \in 1..n : waiters'[i] = waiters[i] /\ waiters[i] \in Callers
  BY <1>1, PushEffect DEF CallWaits
<1>3. \A d \in Callers : /\ caller'[d].worker = caller[d].worker
                         /\ d # c => caller'[d].pc = caller[d].pc
                         /\ caller'[c].pc = "waiting"
  BY <1>1 DEF Places
<1> HIDE DEF n
<1>4. HolderInv'
  BY <1>1, <1>3 DEF HandOut, HolderInv, At
<1>5. WaitersInv'
  <2>1. \A i \in 1..n : waiters[i] # c /\ At(waiters[i], "waiting")
    BY <1>1 DEF HandOut, WaitersInv, At, n
  <2>2. \A i \in 1..(n + 1) : i \in 1..n \/ i = n + 1
    BY <1>2
  <2>3. \A i, j \in 1..n : waiters[i] = waiters[j] => i = j
    BY DEF HandOut, WaitersInv, n
  <2>4. \A i \in 1..(n + 1) : caller'[waiters'[i]].pc = "waiting"
    BY <1>2, <1>3, <2>1, <2>2 DEF At
  <2>5. \A i, j \in 1..(n + 1) : waiters'[i] = waiters'[j] => i = j
    BY <1>2, <2>1, <2>2, <2>3
  <2> QED BY <1>2, <2>4, <2>5 DEF WaitersInv, At
<1>6. UnusedInv' /\ NoIdleWhileWaiting'
  BY <1>1 DEF UnusedInv, NoIdleWhileWaiting
<1>7. Conserved'
  <2>1. \A d \in Callers, w \in Workers : Holds(d, w)' <=> Holds(d, w)
    BY <1>3 DEF Holds
  <2> QED BY <1>1, <2>1 DEF HandOut, Conserved, OneOwner, Owned
<1> QED BY <1>4, <1>5, <1>6, <1>7 DEF HandOut

LEMMA RequestHandOut ==
    ASSUME TypeOK, TypeOK', HandOut, NEW c \in Callers, Request(c)
    PROVE  HandOut'
<1>1. /\ UNCHANGED <<pool, idle, waiters>>
      /\ caller[c].pc = "granted" /\ caller' = [caller EXCEPT ![c].pc = "sent"]
  BY DEF Request, At
<1>2. \A d \in Callers :
         \/ caller'[d] = caller[d]
         \/ /\ caller'[d].worker = caller[d].worker
            /\ caller[d].pc \in {"granted", "sent", "answered"}
            /\ caller'[d].pc \in {"granted", "sent", "answered"}
  BY <1>1 DEF TypeOK
<1> QED BY <1>1, <1>2, HandOutFrame

(* The worker goes from the caller to the first waiter.                    *)
LEMMA ReleaseToWaiterHandOut ==
    ASSUME TypeOK, HandOut, NEW c \in Callers, ReleaseToWaiter(c)
    PROVE  HandOut'
<1> DEFINE n == Len(waiters)
           d == waiters[1]
           x == caller[c].worker
<1>1. /\ At(c, "answered") /\ waiters # << >> /\ waiters \in Seq(Callers)
      /\ caller \in [Callers -> Places]
      /\ UNCHANGED <<pool, idle>>
  BY DEF ReleaseToWaiter, TypeOK, Places
<1>2. /\ n \in Nat \ {0} /\ d \in Callers /\ Len(waiters') = n - 1
      /\ \A i \in 1..(n - 1) : waiters'[i] = waiters[i + 1]
      /\ \A i \in 1..n : waiters[i] \in Callers
  BY <1>1, ShiftEffect DEF ReleaseToWaiter
<1>3. /\ At(d, "waiting") /\ d # c /\ x \in Workers
      /\ caller[d].worker = NoWorker
  BY <1>1, <1>2, ReleasedWorker DEF HandOut, WaitersInv, HolderInv, At
<1>4. /\ caller'[c] = [pc |-> "out", worker |-> NoWorker]
      /\ caller'[d] = [pc |-> "granted", worker |-> x]
      /\ \A e \in Callers : e # c /\ e # d => caller'[e] = caller[e]
  BY <1>1, <1>2, <1>3 DEF ReleaseToWaiter
<1>5. Holds(c, x)
  BY DEF Holds
<1>6. /\ \A i, j \in 1..n : waiters[i] = waiters[j] => i = j
      /\ \A i \in 1..n : At(waiters[i], "waiting")
      /\ waiters[1] = d
  BY DEF HandOut, WaitersInv
<1> HIDE DEF n, d, x
<1>7. HolderInv'
  BY <1>3, <1>4, ConstantsAssumption DEF HandOut, HolderInv, At
<1>8. WaitersInv'
  <2>1. \A i \in 1..(n - 1) :
           /\ i + 1 \in 1..n /\ 1 \in 1..n /\ i + 1 # 1
           /\ waiters[i + 1] \in Callers /\ waiters'[i] = waiters[i + 1]
    BY <1>2
  <2>2. \A i \in 1..(n - 1) :
           /\ waiters[i + 1] # d /\ At(waiters[i + 1], "waiting")
    BY <1>6, <2>1
  <2>3. \A i \in 1..(n - 1) : waiters[i + 1] # c
    BY <1>1, <2>2 DEF At
  <2>4. \A i \in 1..(n - 1) : caller'[waiters'[i]].pc = "waiting"
    BY <1>4, <2>1, <2>2, <2>3 DEF At
  <2>5. \A i, j \in 1..(n - 1) : waiters[i + 1] = waiters[j + 1] => i = j
    BY <1>2, <1>6, <2>1
  <2> QED BY <1>2, <2>1, <2>4, <2>5 DEF WaitersInv, At
<1>9. UnusedInv' /\ NoIdleWhileWaiting'
  BY <1>1 DEF HandOut, UnusedInv, NoIdleWhileWaiting, At
<1>10. \A e \in Callers, w \in Workers :
          Holds(e, w)' <=> \/ e # c /\ e # d /\ Holds(e, w)
                           \/ e = d /\ w = x
  BY <1>2, <1>3, <1>4, ConstantsAssumption DEF Holds
<1>11. Conserved'
  <2>1. \A w \in Workers : OneOwner(w)'
    BY <1>1, <1>2, <1>3, <1>5, <1>10 DEF HandOut, Conserved, OneOwner
  <2>2. \A w \in Workers : Owned(w) => Owned(w)'
    <3>1. SUFFICES ASSUME NEW w \in Workers, NEW e \in Callers, Holds(e, w)
                   PROVE  \E f \in Callers : Holds(f, w)'
      BY <1>1 DEF Owned
    <3>2. CASE e = c
      <4>1. w = x
        BY <3>1, <3>2 DEF Holds, x
      <4> QED BY <1>2, <1>10, <4>1
    <3>3. CASE e # c
      <4>1. e # d
        BY <1>3, <3>1, ConstantsAssumption DEF Holds
      <4> QED BY <1>10, <3>1, <3>3, <4>1
    <3> QED BY <3>2, <3>3
  <2> QED BY <1>1, <2>1, <2>2 DEF HandOut, Conserved
<1> QED BY <1>7, <1>8, <1>9, <1>11 DEF HandOut

(* The worker goes from the caller onto the stack.                         *)
LEMMA ReleaseToIdleHandOut ==
    ASSUME TypeOK, HandOut, NEW c \in Callers, ReleaseToIdle(c)
    PROVE  HandOut'
<1> DEFINE n == Len(idle)
           x == caller[c].worker
<1>1. /\ At(c, "answered") /\ waiters = << >> /\ idle \in Seq(Workers)
      /\ caller \in [Callers -> Places] /\ x \in Workers
      /\ UNCHANGED <<pool, waiters>>
  BY ReleasedWorker DEF ReleaseToIdle, TypeOK, Places, HandOut
<1>2. /\ n \in Nat /\ Len(idle') = n + 1 /\ idle'[n + 1] = x
      /\ \A i \in 1..n : idle'[i] = idle[i]
  BY <1>1, PushEffect DEF ReleaseToIdle
<1>3. /\ caller'[c] = [pc |-> "out", worker |-> NoWorker]
      /\ \A e \in Callers : e # c => caller'[e] = caller[e]
  BY <1>1 DEF ReleaseToIdle
<1>4. Holds(c, x)
  BY DEF Holds
<1> HIDE DEF x
<1>5. HolderInv'
  BY <1>3, ConstantsAssumption DEF HandOut, HolderInv, At
<1>6. WaitersInv' /\ UnusedInv' /\ NoIdleWhileWaiting'
  BY <1>1 DEF HandOut, WaitersInv, UnusedInv, NoIdleWhileWaiting, At
<1>7. \A e \in Callers, w \in Workers : Holds(e, w)' <=> e # c /\ Holds(e, w)
  BY <1>3, ConstantsAssumption DEF Holds
<1>8. \A w \in Workers : OneOwner(w)'
  <2>1. \A i \in 1..n : idle[i] # x
    BY <1>1, <1>4 DEF HandOut, Conserved, OneOwner
  <2>2. \A e \in Callers : e # c => ~Holds(e, x)
    BY <1>1, <1>4 DEF HandOut, Conserved, OneOwner
  <2>3. \A i \in 1..(n + 1) : i \in 1..n \/ i = n + 1
    BY <1>2
  <2>4. /\ \A i, j \in 1..n : idle[i] = idle[j] => i = j
        /\ \A i \in 1..n, e \in Callers : ~Holds(e, idle[i])
    <3>1. \A i \in 1..n : idle[i] \in Workers
      BY <1>1
    <3> QED BY <3>1 DEF HandOut, Conserved, OneOwner
  <2>5. SUFFICES ASSUME NEW w \in Workers PROVE OneOwner(w)'
    OBVIOUS
  <2> HIDE DEF n
  <2>6. \A i, j \in 1..(n + 1) : idle'[i] = idle'[j] => i = j
    BY <1>2, <2>1, <2>3, <2>4
  <2>7. \A d, e \in Callers : Holds(d, w)' /\ Holds(e, w)' => d = e
    BY <1>7 DEF HandOut, Conserved, OneOwner
  <2>8. \A i \in 1..(n + 1), e \in Callers : ~(idle'[i] = w /\ Holds(e, w)')
    BY <1>2, <1>7, <2>2, <2>3, <2>4
  <2> QED BY <1>2, <2>6, <2>7, <2>8 DEF OneOwner
<1>9. \A w \in Workers : Owned(w) => Owned(w)'
  <2>1. SUFFICES ASSUME NEW w \in Workers, Owned(w) PROVE Owned(w)'
    OBVIOUS
  <2>2. CASE \E i \in 1..n : idle[i] = w
    BY <1>2, <2>2 DEF Owned
  <2>3. CASE \E e \in Callers : Holds(e, w)
    <3>1. PICK e \in Callers : Holds(e, w)
      BY <2>3
    <3>2. CASE e = c
      <4>1. w = x
        BY <3>1, <3>2 DEF Holds, x
      <4>2. n + 1 \in 1..(n + 1)
        BY <1>2
      <4> QED BY <1>2, <4>1, <4>2 DEF Owned
    <3>3. CASE e # c
      BY <1>7, <3>1, <3>3 DEF Owned
    <3> QED BY <3>2, <3>3
  <2> QED BY <2>1, <2>2, <2>3 DEF Owned
<1> QED BY <1>1, <1>5, <1>6, <1>8, <1>9 DEF HandOut, Conserved

-----------------------------------------------------------------------------
(* Requests and answers: the part of the invariant about the messages.     *)
Messaging == PendingInv /\ AnsweredOnceInv /\ ErrorLastInv /\ Served

(* A step that leaves the messages and the callers that wait for an answer *)
(* alone, and starts no thread.                                            *)
LEMMA MessagingFrame ==
    ASSUME TypeOK, Messaging,
           UNCHANGED <<inbox, outbox, pending>>,
           \A w \in Workers : thread[w] # "running" => thread'[w] # "running",
           \A c \in Callers : At(c, "sent") => caller'[c] = caller[c]
    PROVE  Messaging'
<1>1. PendingInv'
  BY DEF Messaging, PendingInv, At, Holds
<1>2. AnsweredOnceInv'
  BY DEF Messaging, AnsweredOnceInv
<1>3. ErrorLastInv'
  BY DEF Messaging, ErrorLastInv
<1>4. Served'
  BY DEF Messaging, Served, At, Holds
<1> QED BY <1>1, <1>2, <1>3, <1>4 DEF Messaging

(* A running thread posts a message about a request it has.                *)
LEMMA PostKeeps ==
    ASSUME TypeOK, Messaging, NEW w \in Workers,
           NEW kind \in {"ok", "fail", "progress", "error"},
           NEW r \in Requesters, Post(w, kind, r), thread[w] = "running",
           UNCHANGED <<pending, caller>>,
           r \in Callers => r \in inbox[w] /\ kind # "error",
           \A v \in Workers : inbox'[v] \subseteq inbox[v],
           kind # "progress" => r \notin inbox'[w],
           kind = "error" => inbox'[w] = {} /\ thread'[w] # "running",
           \A v \in Workers : v # w => thread'[v] = thread[v]
    PROVE  Messaging'
<1> DEFINE n == Len(outbox[w])
<1>0. /\ n \in Nat /\ Len(outbox'[w]) = n + 1
      /\ \A i \in 1..n : outbox'[w][i] = outbox[w][i]
      /\ outbox'[w][n + 1] = Message(kind, r)
      /\ \A v \in Workers : v # w => outbox'[v] = outbox[v]
  BY ONLY TypeOK, Post(w, kind, r), PostEffect
<1>1. /\ n \in Nat /\ Len(outbox'[w]) = n + 1
      /\ \A i \in 1..n : outbox'[w][i] = outbox[w][i]
      /\ outbox'[w][n + 1].kind = kind /\ outbox'[w][n + 1].requester = r
      /\ \A v \in Workers : v # w => outbox'[v] = outbox[v]
  <2> HIDE DEF n
  <2> QED BY ONLY <1>0 DEF Message
<1>2. \A i \in 1..n : outbox[w][i].kind # "error"
  BY DEF Messaging, ErrorLastInv
<1>3. \A c \in Callers, i \in 1..n :
         outbox[w][i].requester = c /\ outbox[w][i].kind # "progress"
         => /\ c \notin inbox[w] /\ c # r
            /\ \A j \in (i + 1)..n : outbox[w][j].requester # c
  BY DEF Messaging, AnsweredOnceInv
<1>4. \A c \in Callers : \/ c \in inbox[w]
                         \/ \E i \in 1..n : outbox[w][i].requester = c
                         => At(c, "sent") /\ Holds(c, w)
  BY DEF Messaging, Served
<1> HIDE DEF n
<1>5. \A i \in 1..(n + 1) : i \in 1..n \/ i = n + 1
  BY <1>1
<1>6. PendingInv'
  BY DEF Messaging, PendingInv, At, Holds
<1>7. AnsweredOnceInv'
  <2>1. SUFFICES ASSUME NEW v \in Workers, NEW c \in Callers,
                        NEW i \in 1..Len(outbox'[v]),
                        outbox'[v][i].requester = c,
                        outbox'[v][i].kind # "progress"
                 PROVE  /\ c \notin inbox'[v]
                        /\ \A j \in (i + 1)..Len(outbox'[v]) :
                              outbox'[v][j].requester # c
    BY DEF AnsweredOnceInv
  <2>2. CASE v # w
    BY <1>1, <2>1, <2>2 DEF Messaging, AnsweredOnceInv
  <2>3. CASE v = w /\ i = n + 1
    <3>1. c = r /\ kind # "progress" /\ (i + 1)..(n + 1) = {}
      BY <1>1, <2>1, <2>3
    <3> QED BY <1>1, <2>3, <3>1
  <2>4. CASE v = w /\ i \in 1..n
    <3>1. /\ c \notin inbox[w] /\ c # r
          /\ \A j \in (i + 1)..n : outbox[w][j].requester # c
      BY <1>1, <1>3, <2>1, <2>4
    <3>2. \A j \in (i + 1)..(n + 1) : j \in (i + 1)..n \/ j = n + 1
      BY <1>1, <2>4
    <3>3. \A j \in (i + 1)..n : j \in 1..n
      BY <1>1, <2>4
    <3> QED BY <1>1, <2>4, <3>1, <3>2, <3>3
  <2> QED BY <1>1, <1>5, <2>1, <2>2, <2>3, <2>4
<1>8. ErrorLastInv'
  <2>1. SUFFICES ASSUME NEW v \in Workers, NEW i \in 1..Len(outbox'[v]),
                        outbox'[v][i].kind = "error"
                 PROVE  /\ i = Len(outbox'[v]) /\ thread'[v] # "running"
                        /\ inbox'[v] = {} /\ outbox'[v][i].requester = Creator
    BY DEF ErrorLastInv
  <2>2. CASE v # w
    BY <1>1, <2>1, <2>2 DEF Messaging, ErrorLastInv
  <2>3. CASE v = w
    <3>1. i = n + 1 /\ kind = "error"
      BY <1>1, <1>2, <1>5, <2>1, <2>3
    <3> QED BY <1>1, <2>3, <3>1 DEF Requesters
  <2> QED BY <2>2, <2>3
<1>9. Served'
  <2>1. SUFFICES ASSUME NEW v \in Workers, NEW c \in Callers,
                        \/ c \in inbox'[v]
                        \/ \E i \in 1..Len(outbox'[v]) : outbox'[v][i].requester = c
                 PROVE  At(c, "sent") /\ Holds(c, v)
    BY DEF Served, At, Holds
  <2>2. CASE v # w
    BY <1>1, <2>1, <2>2 DEF Messaging, Served
  <2>3. CASE v = w
    BY <1>1, <1>4, <1>5, <2>1, <2>3
  <2> QED BY <2>2, <2>3
<1> QED BY <1>6, <1>7, <1>8, <1>9 DEF Messaging

LEMMA WorkerMessaging ==
    ASSUME TypeOK, Messaging, NEW w \in Workers,
           \/ HandleInit(w) \/ Handle(w) \/ Die(w)
           \/ \E c \in Callers : Progress(w, c)
    PROVE  Messaging'
<1>0. inbox \in [Workers -> SUBSET Requesters] /\ Creator \notin Callers
  BY ConstantsAssumption DEF TypeOK
<1>1. CASE HandleInit(w)
  <2>1. PICK kind \in {"ok", "fail"} : Post(w, kind, Creator)
    BY <1>1 DEF HandleInit
  <2>2. /\ \A v \in Workers : inbox'[v] \subseteq inbox[v]
        /\ Creator \notin inbox'[w] /\ thread[w] = "running"
        /\ UNCHANGED <<thread, pending, caller>>
    BY <1>0, <1>1 DEF HandleInit
  <2> QED BY <1>0, <2>1, <2>2, PostKeeps DEF Requesters
<1>2. CASE Handle(w)
  <2>1. PICK c \in Callers : HandleMatch(w, c)
    BY <1>2 DEF Handle
  <2>2. PICK kind \in {"ok", "fail"} : Post(w, kind, c)
    BY <2>1 DEF HandleMatch
  <2>3. /\ \A v \in Workers : inbox'[v] \subseteq inbox[v]
        /\ c \in inbox[w] /\ c \notin inbox'[w] /\ thread[w] = "running"
        /\ UNCHANGED <<thread, pending, caller>>
    BY <1>0, <2>1 DEF HandleMatch
  <2> QED BY <2>2, <2>3, PostKeeps DEF Requesters
<1>3. CASE Die(w)
  <2>1. /\ \A v \in Workers : inbox'[v] \subseteq inbox[v]
        /\ inbox'[w] = {} /\ thread[w] = "running" /\ thread'[w] = "dead"
        /\ \A v \in Workers : v # w => thread'[v] = thread[v]
        /\ UNCHANGED <<pending, caller>> /\ Post(w, "error", Creator)
    BY <1>0, <1>3 DEF Die, TypeOK
  <2> QED BY <1>0, <2>1, PostKeeps DEF Requesters
<1>4. ASSUME NEW c \in Callers, Progress(w, c) PROVE Messaging'
  <2>1. /\ c \in inbox[w] /\ thread[w] = "running" /\ Post(w, "progress", c)
        /\ UNCHANGED <<thread, inbox, pending, caller>>
    BY <1>4 DEF Progress
  <2> QED BY <2>1, PostKeeps DEF Requesters
<1> QED BY <1>1, <1>2, <1>3, <1>4

(* A dispatched message is gone; a caller it moves has none left.          *)
LEMMA TakeKeeps ==
    ASSUME TypeOK, Messaging, NEW w \in Workers, Take(w), UNCHANGED inbox,
           \A v \in Workers : thread[v] # "running" => thread'[v] # "running",
           \A v \in Workers : pending'[v] \subseteq pending[v],
           \A c \in Callers :
              \/ caller'[c] = caller[c]
              \/ \A v \in Workers :
                    /\ c \notin pending'[v] /\ c \notin inbox[v]
                    /\ \A i \in 1..Len(outbox'[v]) : outbox'[v][i].requester # c
    PROVE  Messaging'
<1> DEFINE n == Len(outbox[w])
<1>1. /\ n \in Nat \ {0} /\ Len(outbox'[w]) = n - 1
      /\ \A i \in 1..Len(outbox'[w]) : outbox'[w][i] = outbox[w][i + 1]
      /\ \A v \in Workers : v # w => outbox'[v] = outbox[v]
  BY ONLY TypeOK, Take(w), TakeEffect
<1>2. \A c \in Callers, i \in 1..n :
         outbox[w][i].requester = c /\ outbox[w][i].kind # "progress"
         => /\ c \notin inbox[w]
            /\ \A j \in (i + 1)..n : outbox[w][j].requester # c
  BY DEF Messaging, AnsweredOnceInv
<1>3. \A i \in 1..n : outbox[w][i].kind = "error"
         => /\ i = n /\ thread[w] # "running" /\ inbox[w] = {}
            /\ outbox[w][i].requester = Creator
  BY DEF Messaging, ErrorLastInv
<1>4. \A c \in Callers, i \in 1..n :
         outbox[w][i].requester = c => At(c, "sent") /\ Holds(c, w)
  BY DEF Messaging, Served
<1> HIDE DEF n
<1>5. \A i \in 1..(n - 1) : i + 1 \in 1..n
  BY <1>1
<1>6. PendingInv'
  BY DEF Messaging, PendingInv, At, Holds
<1>7. AnsweredOnceInv'
  <2>1. SUFFICES ASSUME NEW v \in Workers, NEW c \in Callers,
                        NEW i \in 1..Len(outbox'[v]),
                        outbox'[v][i].requester = c,
                        outbox'[v][i].kind # "progress"
                 PROVE  /\ c \notin inbox[v]
                        /\ \A j \in (i + 1)..Len(outbox'[v]) :
                              outbox'[v][j].requester # c
    BY DEF AnsweredOnceInv
  <2>2. CASE v # w
    BY <1>1, <2>1, <2>2 DEF Messaging, AnsweredOnceInv
  <2>3. CASE v = w
    <3>1. /\ c \notin inbox[w]
          /\ \A j \in (i + 1 + 1)..n : outbox[w][j].requester # c
      BY <1>1, <1>2, <1>5, <2>1, <2>3
    <3>2. \A j \in (i + 1)..(n - 1) : j \in 1..(n - 1) /\ j + 1 \in (i + 1 + 1)..n
      BY <1>1, <2>3
    <3>3. \A j \in (i + 1)..(n - 1) : outbox'[w][j] = outbox[w][j + 1]
      BY <1>1, <3>2
    <3>4. \A j \in (i + 1)..(n - 1) : outbox'[w][j].requester # c
      BY <3>1, <3>2, <3>3
    <3> QED BY <1>1, <2>3, <3>1, <3>4
  <2> QED BY <2>2, <2>3
<1>8. ErrorLastInv'
  <2>1. SUFFICES ASSUME NEW v \in Workers, NEW i \in 1..Len(outbox'[v]),
                        outbox'[v][i].kind = "error"
                 PROVE  /\ i = Len(outbox'[v]) /\ thread[v] # "running"
                        /\ inbox[v] = {} /\ outbox'[v][i].requester = Creator
    BY DEF ErrorLastInv
  <2>2. CASE v # w
    BY <1>1, <2>1, <2>2 DEF Messaging, ErrorLastInv
  <2>3. CASE v = w
    <3>1. i + 1 \in 1..n /\ outbox'[w][i] = outbox[w][i + 1]
      BY <1>1, <1>5, <2>3
    <3>2. i + 1 = n /\ thread[w] # "running" /\ inbox[w] = {}
          /\ outbox[w][i + 1].requester = Creator
      BY <1>3, <2>1, <2>3, <3>1
    <3> QED BY <1>1, <2>3, <3>1, <3>2
  <2> QED BY <2>2, <2>3
<1>9. Served'
  <2>1. SUFFICES ASSUME NEW v \in Workers, NEW c \in Callers,
                        \/ c \in inbox[v]
                        \/ \E i \in 1..Len(outbox'[v]) : outbox'[v][i].requester = c
                 PROVE  At(c, "sent") /\ Holds(c, v)
    <3>1. \A v \in Workers, c \in Callers :
             \/ c \in inbox[v]
             \/ \E i \in 1..Len(outbox'[v]) : outbox'[v][i].requester = c
             => caller'[c] = caller[c]
      OBVIOUS
    <3> QED BY <2>1, <3>1 DEF Served, At, Holds
  <2>2. CASE v # w
    BY <1>1, <2>1, <2>2 DEF Messaging, Served
  <2>3. CASE v = w
    <3>1. CASE c \in inbox[w]
      BY <2>3, <3>1 DEF Messaging, Served
    <3>2. CASE \E i \in 1..Len(outbox'[w]) : outbox'[w][i].requester = c
      BY <1>1, <1>4, <1>5, <2>3, <3>2
    <3> QED BY <2>1, <2>3, <3>1, <3>2
  <2> QED BY <2>2, <2>3
<1> QED BY <1>6, <1>7, <1>8, <1>9 DEF Messaging

LEMMA DispatchMessaging ==
    ASSUME TypeOK, Messaging, NEW w \in Workers, Dispatch(w)
    PROVE  Messaging'
<1>0. /\ Take(w) /\ UNCHANGED inbox
      /\ pending \in [Workers -> SUBSET Requesters]
      /\ caller \in [Callers -> Places]
      /\ thread \in [Workers -> {"none", "running", "dead", "killed"}]
  BY DEF Dispatch, DispatchIgnored, DispatchInit, DispatchInitFailed,
         DispatchAnswer, DispatchError, TypeOK, Places
<1>1. /\ Len(outbox[w]) \in Nat \ {0} /\ Len(outbox'[w]) = Len(outbox[w]) - 1
      /\ \A i \in 1..Len(outbox'[w]) : outbox'[w][i] = outbox[w][i + 1]
      /\ \A v \in Workers : v # w => outbox'[v] = outbox[v]
  BY ONLY <1>0, TypeOK, TakeEffect
<1>2. CASE DispatchIgnored(w) \/ DispatchInit(w) \/ DispatchInitFailed(w)
  <2>1. /\ \A v \in Workers : pending'[v] \subseteq pending[v]
        /\ UNCHANGED caller
        /\ \A v \in Workers : thread[v] # "running" => thread'[v] # "running"
    BY <1>0, <1>2 DEF DispatchIgnored, DispatchInit, DispatchInitFailed,
                      GiveUp, Kill
  <2> QED BY <1>0, <2>1, TakeKeeps
<1>3. CASE DispatchAnswer(w)
  <2> DEFINE r == Oldest(w).requester
  <2>1. /\ r \in Callers /\ r \in pending[w]
        /\ outbox[w][1].kind \in {"ok", "fail"} /\ outbox[w][1].requester = r
        /\ pending' = [pending EXCEPT ![w] = @ \ {r}]
        /\ caller' = [caller EXCEPT ![r].pc = "answered"]
        /\ UNCHANGED thread
    BY <1>3 DEF DispatchAnswer, Oldest
  <2> HIDE DEF r
  <2>2. \A v \in Workers : pending'[v] \subseteq pending[v]
    BY <1>0, <2>1
  <2>3. \A c \in Callers : c # r => caller'[c] = caller[c]
    BY <1>0, <2>1
  <2>4. /\ r \notin inbox[w]
        /\ \A j \in 2..Len(outbox[w]) : outbox[w][j].requester # r
    <3>1. 1 \in 1..Len(outbox[w]) /\ 1 + 1 = 2
      BY <1>1
    <3> QED BY <2>1, <3>1 DEF Messaging, AnsweredOnceInv
  <2>5. \A v \in Workers : v # w => ~Holds(r, v)
    BY <2>1 DEF Messaging, PendingInv, Holds
  <2>6. \A v \in Workers :
           /\ r \notin pending'[v] /\ r \notin inbox[v]
           /\ \A i \in 1..Len(outbox'[v]) : outbox'[v][i].requester # r
    <3>1. SUFFICES ASSUME NEW v \in Workers
                   PROVE  /\ r \notin pending'[v] /\ r \notin inbox[v]
                          /\ \A i \in 1..Len(outbox'[v]) :
                                outbox'[v][i].requester # r
      OBVIOUS
    <3>2. CASE v = w
      <4>1. \A i \in 1..Len(outbox'[w]) : i + 1 \in 2..Len(outbox[w])
        BY <1>1
      <4> QED BY <1>0, <1>1, <2>1, <2>4, <3>2, <4>1
    <3>3. CASE v # w
      <4>1. r \notin pending[v] /\ r \notin inbox[v]
        BY <2>1, <2>5, <3>3 DEF Messaging, PendingInv, Served
      <4>2. \A i \in 1..Len(outbox[v]) : outbox[v][i].requester # r
        BY <2>1, <2>5, <3>3 DEF Messaging, Served
      <4> QED BY <1>0, <1>1, <2>1, <3>3, <4>1, <4>2
    <3> QED BY <3>2, <3>3
  <2> QED BY <1>0, <2>1, <2>2, <2>3, <2>6, TakeKeeps
<1>4. CASE DispatchError(w)
  <2>1. /\ outbox[w][1].kind = "error"
        /\ pending' = [pending EXCEPT ![w] = {}]
        /\ \A c \in Callers : c \notin pending[w] => caller'[c] = caller[c]
        /\ \A v \in Workers : thread[v] # "running" => thread'[v] # "running"
    BY <1>0, <1>4 DEF DispatchError, GiveUp, Kill, Oldest
  <2>2. \A v \in Workers : pending'[v] \subseteq pending[v]
    BY <1>0, <2>1
  <2>3. Len(outbox'[w]) = 0 /\ inbox[w] = {}
    <3>1. 1 \in 1..Len(outbox[w])
      BY <1>1
    <3>2. 1 = Len(outbox[w]) /\ inbox[w] = {}
      BY <2>1, <3>1 DEF Messaging, ErrorLastInv
    <3> QED BY <1>1, <3>2
  <2>4. ASSUME NEW c \in Callers, c \in pending[w], NEW v \in Workers
        PROVE  /\ c \notin pending'[v] /\ c \notin inbox[v]
               /\ \A i \in 1..Len(outbox'[v]) : outbox'[v][i].requester # c
    <3>1. CASE v = w
      BY <1>0, <2>1, <2>3, <3>1
    <3>2. CASE v # w
      <4>1. ~Holds(c, v)
        BY <2>4, <3>2 DEF Messaging, PendingInv, Holds
      <4>2. /\ c \notin pending[v] /\ c \notin inbox[v]
            /\ \A i \in 1..Len(outbox[v]) : outbox[v][i].requester # c
        BY <4>1 DEF Messaging, PendingInv, Served
      <4> QED BY <1>0, <1>1, <2>1, <3>2, <4>2
    <3> QED BY <3>1, <3>2
  <2> QED BY <1>0, <2>1, <2>2, <2>4, TakeKeeps
<1> QED BY <1>2, <1>3, <1>4 DEF Dispatch

(* Threads start before there is anything in their boxes.                  *)
LEMMA PoolMessaging ==
    ASSUME TypeOK, Messaging, CreatedInv,
           Spawn \/ SpawnFailed \/ InitTimeout \/ Free
    PROVE  Messaging'
<1>1. CASE Spawn
  <2>1. /\ \A w \in Workers : outbox[w] = << >>
        /\ inbox' = [w \in Workers |-> {Creator}]
        /\ pending' = [w \in Workers |-> {Creator}]
        /\ UNCHANGED outbox
    BY <1>1 DEF CreatedInv, Spawn
  <2>2. Creator \notin Callers
    BY ConstantsAssumption
  <2>3. \A w \in Workers : Len(outbox'[w]) = 0
    BY <2>1
  <2> QED BY <2>1, <2>2, <2>3 DEF Messaging, PendingInv, AnsweredOnceInv,
                                  ErrorLastInv, Served
<1>2. CASE SpawnFailed
  <2>1. /\ \A w \in Workers : outbox[w] = << >>
        /\ UNCHANGED <<inbox, outbox, pending, caller>>
    BY <1>2 DEF CreatedInv, SpawnFailed
  <2>2. \A w \in Workers : Len(outbox'[w]) = 0
    BY <2>1
  <2> QED BY <2>1, <2>2 DEF Messaging, PendingInv, AnsweredOnceInv,
                            ErrorLastInv, Served, At, Holds
<1>3. CASE InitTimeout \/ Free
  BY <1>3, MessagingFrame DEF InitTimeout, Free, Kill
<1> QED BY <1>1, <1>2, <1>3

(* A granted caller has no message anywhere: its request is the first.     *)
LEMMA CallerMessaging ==
    ASSUME TypeOK, HandOut, Messaging, NEW c \in Callers,
           CallAtOnce(c) \/ CallWaits(c) \/ React(c)
    PROVE  Messaging'
<1>0. caller \in [Callers -> Places]
  BY DEF TypeOK, Places
<1>1. CASE CallAtOnce(c) \/ CallWaits(c) \/ ReleaseToIdle(c)
  <2>1. \A d \in Callers : At(d, "sent") => caller'[d] = caller[d]
    BY <1>0, <1>1 DEF CallAtOnce, CallWaits, ReleaseToIdle, Grant, At
  <2> QED BY <1>1, <2>1, MessagingFrame DEF CallAtOnce, CallWaits, ReleaseToIdle
<1>2. CASE ReleaseToWaiter(c)
  <2>1. /\ At(c, "answered") /\ waiters # << >> /\ waiters \in Seq(Callers)
    BY <1>2 DEF ReleaseToWaiter, TypeOK
  <2>2. waiters[1] \in Callers /\ At(waiters[1], "waiting")
    BY <2>1, ShiftEffect DEF HandOut, WaitersInv
  <2>3. \A d \in Callers : At(d, "sent") => caller'[d] = caller[d]
    BY <1>0, <1>2, <2>1, <2>2 DEF ReleaseToWaiter, At
  <2> QED BY <1>2, <2>3, MessagingFrame DEF ReleaseToWaiter
<1>3. CASE Request(c)
  <2> DEFINE x == caller[c].worker
  <2>1. /\ At(c, "granted") /\ x \in Workers
        /\ inbox \in [Workers -> SUBSET Requesters]
        /\ pending \in [Workers -> SUBSET Requesters]
        /\ caller' = [caller EXCEPT ![c].pc = "sent"]
        /\ pending' = [pending EXCEPT ![x] = @ \cup {c}]
        /\ inbox' = IF thread[x] = "running"
                    THEN [inbox EXCEPT ![x] = @ \cup {c}] ELSE inbox
        /\ UNCHANGED <<thread, outbox>>
    BY <1>3 DEF Request, TypeOK, HandOut, HolderInv, At
  <2>2. Holds(c, x)
    BY DEF Holds
  <2> HIDE DEF x
  <2>3. \A v \in Workers, d \in Callers :
           /\ d \in pending'[v] => d \in pending[v] \/ (d = c /\ v = x)
           /\ d \in inbox'[v] => d \in inbox[v] \/ (d = c /\ v = x)
    BY <2>1
  <2>4. \A v \in Workers : thread[v] # "running" => inbox'[v] = inbox[v]
    BY <2>1
  <2>5. \A v \in Workers :
           /\ c \notin inbox[v]
           /\ \A i \in 1..Len(outbox[v]) : outbox[v][i].requester # c
    BY <2>1 DEF Messaging, Served, At
  <2>6. /\ \A d \in Callers : d # c => caller'[d] = caller[d]
        /\ caller'[c].pc = "sent" /\ caller'[c].worker = x
    BY <1>0, <2>1, <2>2 DEF Holds, Places
  <2>7. PendingInv'
    BY <2>1, <2>2, <2>3, <2>6 DEF Messaging, PendingInv, At, Holds
  <2>8. AnsweredOnceInv'
    <3>1. \A v \in Workers, d \in Callers :
             d # c /\ d \notin inbox[v] => d \notin inbox'[v]
      BY <2>3
    <3> QED BY <2>1, <2>5, <3>1 DEF Messaging, AnsweredOnceInv
  <2>9. ErrorLastInv'
    BY <2>1, <2>4 DEF Messaging, ErrorLastInv
  <2>10. Served'
    BY <2>1, <2>3, <2>5, <2>6 DEF Messaging, Served, At, Holds
  <2> QED BY <2>7, <2>8, <2>9, <2>10 DEF Messaging
<1> QED BY <1>1, <1>2, <1>3 DEF React

(* What a worker does moves no worker.                                     *)
LEMMA WorkerHandOut ==
    ASSUME TypeOK, TypeOK', HandOut, NEW w \in Workers,
           \/ HandleInit(w) \/ Handle(w) \/ Die(w)
           \/ \E c \in Callers : Progress(w, c)
    PROVE  HandOut'
<1>1. UNCHANGED <<pool, idle, waiters, caller>>
  BY DEF HandleInit, Handle, HandleMatch, Die, Progress
<1> QED BY <1>1, HandOutFrame

-----------------------------------------------------------------------------
(* The invariant.                                                          *)
LEMMA IInvParts == IInv <=> TypeOK /\ HandOut /\ Messaging /\ CreatedInv
BY DEF IInv, HandOut, Messaging

LEMMA InitIInv == Init => IInv
<1>1. SUFFICES ASSUME Init PROVE IInv
  OBVIOUS
<1>2. TypeOK
  BY <1>1, InitTypeOK
<1>3. /\ \A c \in Callers : caller[c] = [pc |-> "out", worker |-> NoWorker]
      /\ \A w \in Workers : inbox[w] = {} /\ outbox[w] = << >> /\ pending[w] = {}
      /\ waiters = << >> /\ idle = << >> /\ pool = "created"
      /\ \A w \in Workers : thread[w] = "none"
  BY <1>1 DEF Init
<1>4. HolderInv /\ WaitersInv /\ UnusedInv /\ NoIdleWhileWaiting
  BY <1>3 DEF HolderInv, WaitersInv, UnusedInv, NoIdleWhileWaiting, At
<1>5. Conserved
  BY <1>3, ConstantsAssumption DEF Conserved, OneOwner, Owned, Holds
<1>6. Messaging
  <2>1. \A w \in Workers : Len(outbox[w]) = 0
    BY <1>3
  <2> QED BY <1>3, <2>1 DEF Messaging, PendingInv, AnsweredOnceInv,
                            ErrorLastInv, Served
<1>7. CreatedInv
  BY <1>3 DEF CreatedInv
<1> QED BY <1>2, <1>4, <1>5, <1>6, <1>7, IInvParts DEF HandOut

LEMMA NextIInv == IInv /\ [Next]_vars => IInv'
<1>1. SUFFICES ASSUME IInv, [Next]_vars PROVE IInv'
  OBVIOUS
<1>2. TypeOK /\ HandOut /\ Messaging /\ CreatedInv
  BY <1>1, IInvParts
<1>3. HolderInv /\ PendingInv
  BY <1>2 DEF HandOut, Messaging
<1>4. SUFFICES TypeOK' /\ HandOut' /\ Messaging' /\ CreatedInv'
  BY IInvParts DEF IInv, HandOut, Messaging
<1>5. CASE Spawn \/ SpawnFailed \/ InitTimeout \/ Free
  <2>1. TypeOK'
    BY <1>2, <1>5, PoolTypeOK
  <2>2. HandOut' /\ Messaging'
    BY <1>2, <1>5, <2>1, PoolHandOut, PoolMessaging
  <2>3. CreatedInv'
    BY <1>5 DEF CreatedInv, Spawn, SpawnFailed, InitTimeout, Free
  <2> QED BY <2>1, <2>2, <2>3
<1>6. ASSUME NEW w \in Workers,
             \/ HandleInit(w) \/ Handle(w) \/ Die(w)
             \/ \E c \in Callers : Progress(w, c)
      PROVE  TypeOK' /\ HandOut' /\ Messaging' /\ CreatedInv'
  <2>1. TypeOK'
    BY <1>2, <1>6, WorkerTypeOK
  <2>2. HandOut' /\ Messaging'
    BY <1>2, <1>6, <2>1, WorkerHandOut, WorkerMessaging
  <2>3. CreatedInv'
    <3>1. thread[w] = "running" /\ pool' = pool
      BY <1>6 DEF HandleInit, Handle, HandleMatch, Die, Progress
    <3> QED BY <1>2, <3>1 DEF CreatedInv
  <2> QED BY <2>1, <2>2, <2>3
<1>7. ASSUME NEW w \in Workers, Dispatch(w)
      PROVE  TypeOK' /\ HandOut' /\ Messaging' /\ CreatedInv'
  <2>1. TypeOK'
    BY <1>2, <1>7, DispatchTypeOK
  <2>2. HandOut' /\ Messaging'
    BY <1>2, <1>3, <1>7, <2>1, DispatchHandOut, DispatchMessaging
  <2>3. CreatedInv'
    <3>1. Take(w) /\ (pool' = "created" => pool = "created")
      BY <1>7 DEF Dispatch, DispatchIgnored, DispatchInit, DispatchInitFailed,
                  DispatchAnswer, DispatchError, GiveUp
    <3>2. outbox[w] # << >>
      BY <3>1 DEF Take
    <3> QED BY <1>2, <3>1, <3>2 DEF CreatedInv
  <2> QED BY <2>1, <2>2, <2>3
<1>8. ASSUME NEW c \in Callers, CallAtOnce(c) \/ CallWaits(c) \/ React(c)
      PROVE  TypeOK' /\ HandOut' /\ Messaging' /\ CreatedInv'
  <2>1. TypeOK'
    BY <1>2, <1>3, <1>8, CallerTypeOK
  <2>2. HandOut'
    BY <1>2, <1>8, <2>1, CallAtOnceHandOut, CallWaitsHandOut, RequestHandOut,
       ReleaseToWaiterHandOut, ReleaseToIdleHandOut DEF React
  <2>3. Messaging'
    BY <1>2, <1>8, CallerMessaging
  <2>4. CreatedInv'
    BY <1>2, <1>8 DEF CreatedInv, CallAtOnce, CallWaits, React, Request,
                      ReleaseToWaiter, ReleaseToIdle
  <2> QED BY <2>1, <2>2, <2>3, <2>4
<1>9. CASE UNCHANGED vars
  <2>1. TypeOK'
    BY <1>2, <1>9 DEF vars, TypeOK
  <2>2. HandOut'
    BY <1>2, <1>9, <2>1, HandOutFrame DEF vars
  <2>3. Messaging'
    BY <1>2, <1>9, MessagingFrame DEF vars
  <2>4. CreatedInv'
    BY <1>2, <1>9 DEF vars, CreatedInv
  <2> QED BY <2>1, <2>2, <2>3, <2>4
<1> QED BY <1>1, <1>5, <1>6, <1>7, <1>8, <1>9 DEF Next

LEMMA Invariance == Spec => []IInv
BY InitIInv, NextIInv, PTL DEF Spec

-----------------------------------------------------------------------------
(* Every variable of the pool keeps its type.                              *)
THEOREM TypeCorrect == Spec => []TypeOK
<1>1. IInv => TypeOK
  BY DEF IInv
<1> QED BY <1>1, Invariance, PTL

(* However answers, errors, deaths and releases interleave, a worker is in *)
(* the idle stack once or with one caller, and while the pool is in use it *)
(* is in one of them: acquire() and release() of matchpool.ts.             *)
THEOREM WorkersAreConserved == Spec => []Conserved
<1>1. IInv => Conserved
  BY DEF IInv
<1> QED BY <1>1, Invariance, PTL

(* What is posted to a worker thread or by it about a request is of the    *)
(* caller that has the worker and still waits: no answer reaches another   *)
(* call, and none arrives after its call was settled.                      *)
THEOREM RequestsAreServed == Spec => []Served
<1>1. IInv => Served
  BY DEF IInv
<1> QED BY <1>1, Invariance, PTL

(* A call waits in the queue only while no worker is idle: release() looks *)
(* at the waiters first, and no call is put behind an idle worker          *)
(* (matchpool.ts:198-208).                                                 *)
THEOREM NobodyWaitsBesideAnIdleWorker == Spec => []NoIdleWhileWaiting
<1>1. IInv => NoIdleWhileWaiting
  BY DEF IInv
<1> QED BY <1>1, Invariance, PTL

(* A pool that create() gave up or that was freed leaves no thread.        *)
THEOREM NoThreadIsLeft == Spec => []NoThreadLeft
<1>1. Init => NoThreadLeft
  BY DEF Init, NoThreadLeft
<1>2. IInv /\ NoThreadLeft /\ [Next]_vars => NoThreadLeft'
  <2>1. SUFFICES ASSUME IInv, NoThreadLeft, [Next]_vars PROVE NoThreadLeft'
    OBVIOUS
  <2>2. TypeOK /\ CreatedInv
    BY <2>1 DEF IInv
  <2>3. CASE Spawn
    BY <2>3 DEF Spawn, NoThreadLeft
  <2>4. CASE SpawnFailed
    BY <2>4 DEF SpawnFailed, NoThreadLeft
  <2>5. CASE InitTimeout \/ Free
    BY <2>5 DEF InitTimeout, Free, Kill, NoThreadLeft
  <2>6. ASSUME NEW w \in Workers,
               \/ HandleInit(w) \/ Handle(w) \/ Die(w)
               \/ \E c \in Callers : Progress(w, c)
        PROVE  NoThreadLeft'
    BY <2>1, <2>2, <2>6 DEF HandleInit, Handle, HandleMatch, Die, Progress,
                            NoThreadLeft, TypeOK
  <2>7. ASSUME NEW w \in Workers, Dispatch(w) PROVE NoThreadLeft'
    BY <2>1, <2>7 DEF Dispatch, DispatchIgnored, DispatchInit,
                      DispatchInitFailed, DispatchAnswer, DispatchError,
                      GiveUp, Kill, NoThreadLeft
  <2>8. ASSUME NEW c \in Callers, CallAtOnce(c) \/ CallWaits(c) \/ React(c)
        PROVE  NoThreadLeft'
    BY <2>1, <2>8 DEF CallAtOnce, CallWaits, React, Request, ReleaseToWaiter,
                      ReleaseToIdle, NoThreadLeft
  <2>9. CASE UNCHANGED vars
    BY <2>1, <2>9 DEF vars, NoThreadLeft
  <2> QED BY <2>1, <2>3, <2>4, <2>5, <2>6, <2>7, <2>8, <2>9 DEF Next
<1> QED BY <1>1, <1>2, Invariance, PTL DEF Spec

-----------------------------------------------------------------------------
(* The pool implements the lending.                                        *)

(* Whoever has a request with a worker's thread has the worker.            *)
LEMMA AtWorkFor ==
    ASSUME IInv, NEW w \in Workers, NEW c \in Callers, Holds(c, w),
           NEW d \in Callers, d \in inbox[w]
    PROVE  d = c /\ At(c, "sent")
<1>1. At(d, "sent") /\ Holds(d, w)
  BY DEF IInv, Served
<1>2. OneOwner(w)
  BY DEF IInv, Conserved
<1> QED BY <1>1, <1>2 DEF OneOwner

(* Nobody uses the pool before create() resolved to it.                    *)
LEMMA ClosedIsUnused ==
    ASSUME IInv, Phase = "closed"
    PROVE  /\ InStack = {} /\ waiters = << >> /\ AtWork = {}
           /\ Lent = [c \in Callers |-> NoWorker]
           /\ \A w \in Workers : inbox[w] \cap Callers = {}
<1>1. pool \notin {"ready", "freed"}
  BY DEF Phase
<1>2. idle = << >> /\ waiters = << >> /\ \A c \in Callers : At(c, "out")
  BY <1>1 DEF IInv, UnusedInv
<1>3. \A c \in Callers : caller[c].worker = NoWorker
  BY <1>2 DEF IInv, HolderInv
<1>4. \A w \in Workers, c \in Callers : c \notin inbox[w]
  BY <1>2 DEF IInv, Served, At
<1> QED BY <1>2, <1>3, <1>4 DEF InStack, AtWork, Lent

LEMMA ClosedStutters ==
    ASSUME IInv, IInv', Phase = "closed", Phase' = "closed"
    PROVE  UNCHANGED L!vars
<1>1. /\ InStack = {} /\ waiters = << >> /\ AtWork = {}
      /\ Lent = [c \in Callers |-> NoWorker]
  BY ClosedIsUnused
<1>2. /\ InStack' = {} /\ waiters' = << >> /\ AtWork' = {}
      /\ Lent' = [c \in Callers |-> NoWorker]
  <2>1. pool' \notin {"ready", "freed"}
    BY DEF Phase
  <2>2. idle' = << >> /\ waiters' = << >> /\ \A c \in Callers : At(c, "out")'
    BY <2>1 DEF IInv, UnusedInv
  <2>3. \A c \in Callers : caller'[c].worker = NoWorker
    BY <2>2 DEF IInv, HolderInv
  <2>4. \A w \in Workers, c \in Callers : c \notin inbox'[w]
    BY <2>2 DEF IInv, Served, At
  <2> QED BY <2>2, <2>3, <2>4 DEF InStack, AtWork, Lent
<1> QED BY <1>1, <1>2 DEF L!vars

(* Steps that move no worker and leave the threads at what they do.        *)
LEMMA SameLending ==
    ASSUME UNCHANGED <<Phase, idle, waiters, Lent, AtWork>>
    PROVE  UNCHANGED L!vars
BY DEF L!vars, InStack

LEMMA FreeImplements ==
    ASSUME Free
    PROVE  L!Close
<1>1. /\ Phase = "ready" /\ Phase' = "freed" /\ idle' = << >>
      /\ thread' = [w \in Workers |-> "killed"]
      /\ UNCHANGED <<waiters, caller>>
  BY DEF Free, Kill, Phase
<1>2. InStack' = {} /\ AtWork' = {} /\ Lent' = Lent
  BY <1>1 DEF InStack, AtWork, Lent
<1> QED BY <1>1, <1>2 DEF L!Close

LEMMA WorkerImplements ==
    ASSUME IInv, NEW w \in Workers,
           \/ HandleInit(w) \/ Handle(w) \/ Die(w)
           \/ \E c \in Callers : Progress(w, c)
    PROVE  L!Finish(w) \/ UNCHANGED L!vars
<1>1. /\ inbox \in [Workers -> SUBSET Requesters] /\ Creator \notin Callers
      /\ thread \in [Workers -> {"none", "running", "dead", "killed"}]
  BY ConstantsAssumption DEF IInv, TypeOK
<1>2. UNCHANGED <<Phase, idle, waiters, Lent, InStack>> /\ thread[w] = "running"
  BY DEF HandleInit, Handle, HandleMatch, Die, Progress, Phase, Lent, InStack
<1>3. ASSUME AtWork' = AtWork \ {w} PROVE L!Finish(w) \/ UNCHANGED L!vars
  <2>1. CASE w \in AtWork
    BY <1>2, <1>3, <2>1 DEF L!Finish
  <2>2. CASE w \notin AtWork
    BY <1>2, <1>3, <2>2, SameLending
  <2> QED BY <2>1, <2>2
<1>4. CASE HandleInit(w)
  <2>1. thread' = thread /\ inbox' = [inbox EXCEPT ![w] = @ \ {Creator}]
    BY <1>4 DEF HandleInit
  <2>2. \A v \in Workers : inbox'[v] \cap Callers = inbox[v] \cap Callers
    BY <1>1, <2>1
  <2>3. AtWork' = AtWork
    BY <2>1, <2>2 DEF AtWork
  <2> QED BY <1>2, <2>3, SameLending
<1>5. ASSUME NEW c \in Callers, HandleMatch(w, c) PROVE AtWork' = AtWork \ {w}
  <2>1. thread' = thread /\ c \in inbox[w] /\ inbox' = [inbox EXCEPT ![w] = @ \ {c}]
    BY <1>5 DEF HandleMatch
  <2>2. Holds(c, w)
    BY <2>1 DEF IInv, Served
  <2>3. inbox'[w] \cap Callers = {}
    BY <1>1, <2>1, <2>2, AtWorkFor
  <2>4. \A v \in Workers : v # w => inbox'[v] = inbox[v]
    BY <1>1, <2>1
  <2> QED BY <2>1, <2>3, <2>4 DEF AtWork
<1>6. ASSUME NEW c \in Callers, Progress(w, c) PROVE UNCHANGED AtWork
  BY <1>6 DEF Progress, AtWork
<1>7. CASE Die(w)
  <2>1. /\ thread' = [thread EXCEPT ![w] = "dead"]
        /\ inbox' = [inbox EXCEPT ![w] = {}]
    BY <1>7 DEF Die
  <2>2. /\ thread'[w] # "running"
        /\ \A v \in Workers : v # w => thread'[v] = thread[v] /\ inbox'[v] = inbox[v]
    BY <1>1, <2>1
  <2>3. AtWork' = AtWork \ {w}
    BY <2>2 DEF AtWork
  <2> QED BY <1>3, <2>3
<1> QED BY <1>2, <1>3, <1>4, <1>5, <1>6, <1>7, SameLending DEF Handle

LEMMA DispatchImplements ==
    ASSUME IInv, IInv', NEW w \in Workers, Dispatch(w)
    PROVE  L!Open \/ UNCHANGED L!vars
<1>1. caller \in [Callers -> Places]
  BY DEF IInv, TypeOK, Places
<1>2. inbox' = inbox /\ waiters' = waiters
  BY DEF Dispatch, DispatchIgnored, DispatchInit, DispatchInitFailed,
         DispatchAnswer, DispatchError
<1>3. Lent' = Lent
  <2>1. CASE UNCHANGED caller
    BY <2>1 DEF Lent
  <2>2. CASE DispatchAnswer(w)
    <3>1. PICK r \in Callers : caller' = [caller EXCEPT ![r].pc = "answered"]
      BY <2>2 DEF DispatchAnswer
    <3>2. \A c \in Callers : caller'[c].worker = caller[c].worker
      BY <1>1, <3>1 DEF Places
    <3> QED BY <3>2 DEF Lent
  <2>3. CASE DispatchError(w)
    <3>1. \A c \in Callers : caller'[c].worker = caller[c].worker
      BY <1>1, <2>3 DEF DispatchError, Places
    <3> QED BY <3>1 DEF Lent
  <2> QED BY <2>1, <2>2, <2>3 DEF Dispatch, DispatchIgnored, DispatchInit,
                                  DispatchInitFailed
<1>4. CASE UNCHANGED <<pool, thread, idle>>
  <2>1. Phase' = Phase /\ AtWork' = AtWork
    BY <1>2, <1>4 DEF Phase, AtWork
  <2> QED BY <1>2, <1>3, <1>4, <2>1, SameLending
<1>5. CASE pool = "init" /\ pool' = "null"
  BY <1>5, ClosedStutters DEF Phase
<1>6. CASE pool = "init" /\ pool' = "ready" /\ idle' = Spawned
  <2>1. Phase = "closed" /\ Phase' = "ready"
    BY <1>6 DEF Phase
  <2>2. AtWork = {} /\ \A v \in Workers : inbox[v] \cap Callers = {}
    BY <2>1, ClosedIsUnused
  <2>3. AtWork' = AtWork
    BY <1>2, <2>2 DEF AtWork
  <2>4. InStack' = Workers
    BY <1>6 DEF InStack, Workers
  <2> QED BY <1>2, <1>3, <2>1, <2>3, <2>4 DEF L!Open
<1> QED BY <1>4, <1>5, <1>6 DEF Dispatch, DispatchIgnored, DispatchInit,
            DispatchInitFailed, DispatchAnswer, DispatchError, GiveUp

(* A call finds its caller without a worker and not in the queue.          *)
LEMMA CallAsks ==
    ASSUME IInv, NEW c \in Callers, At(c, "out"), pool \in {"ready", "freed"}
    PROVE  L!Ask(c)
<1>1. Phase # "closed"
  BY DEF Phase
<1>2. Lent[c] = NoWorker
  BY DEF IInv, HolderInv, Lent
<1>3. \A i \in 1..Len(waiters) : waiters[i] # c
  BY DEF IInv, WaitersInv, At
<1> QED BY <1>1, <1>2, <1>3 DEF L!Ask, L!Waits

LEMMA CallAtOnceImplements ==
    ASSUME IInv, NEW c \in Callers, CallAtOnce(c)
    PROVE  L!Borrow(c)
<1>1. /\ caller \in [Callers -> Places] /\ idle \in Seq(Workers) /\ idle # << >>
      /\ idle' = SubSeq(idle, 1, Len(idle) - 1)
      /\ UNCHANGED <<Phase, waiters, AtWork>>
  BY DEF IInv, TypeOK, Places, CallAtOnce, Phase, AtWork
<1>2. PICK n, w : n = Len(idle) /\ w = idle[n]
  OBVIOUS
<1>3. /\ n \in Nat \ {0} /\ w \in Workers /\ Len(idle') = n - 1
      /\ \A i \in 1..(n - 1) : idle'[i] = idle[i]
  BY <1>1, <1>2, PopEffect
<1>4. \A i \in 1..n : idle[i] = w => i = n
  <2>1. n \in 1..n
    BY <1>3
  <2> QED BY <1>2, <1>3, <2>1 DEF IInv, Conserved, OneOwner
<1>5. w \in InStack
  BY <1>2, <1>3 DEF InStack
<1>6. InStack' = InStack \ {w}
  <2>1. \A i \in 1..n : i \in 1..(n - 1) \/ i = n
    BY <1>3
  <2>2. \A i \in 1..(n - 1) : i \in 1..n /\ i # n
    BY <1>3
  <2>3. InStack' = {idle[i] : i \in 1..(n - 1)}
    BY <1>3 DEF InStack
  <2>4. \A i \in 1..(n - 1) : idle[i] # w
    BY <1>4, <2>2
  <2> QED BY <1>2, <2>1, <2>2, <2>3, <2>4 DEF InStack
<1>7. Lent' = [Lent EXCEPT ![c] = w]
  <2>1. caller' = [caller EXCEPT ![c] = [pc |-> "granted", worker |-> w]]
    BY <1>2 DEF CallAtOnce, Grant
  <2> QED BY <1>1, <2>1 DEF Lent
<1>8. L!Ask(c)
  BY CallAsks DEF CallAtOnce
<1> QED BY <1>1, <1>5, <1>6, <1>7, <1>8 DEF L!Borrow

LEMMA CallWaitsImplements ==
    ASSUME IInv, NEW c \in Callers, CallWaits(c)
    PROVE  L!Wait(c)
<1>1. /\ idle = << >> /\ waiters' = Append(waiters, c)
      /\ UNCHANGED <<Phase, idle, AtWork>>
  BY DEF CallWaits, Phase, AtWork
<1>2. InStack = {} /\ InStack' = {}
  BY <1>1 DEF InStack
<1>3. Lent' = Lent
  <2>1. caller \in [Callers -> Places] /\ caller' = [caller EXCEPT ![c].pc = "waiting"]
    BY DEF IInv, TypeOK, Places, CallWaits
  <2>2. \A d \in Callers : caller'[d].worker = caller[d].worker
    BY <2>1 DEF Places
  <2> QED BY <2>2 DEF Lent
<1>4. L!Ask(c)
  BY CallAsks DEF CallWaits
<1> QED BY <1>1, <1>2, <1>3, <1>4 DEF L!Wait

(* A worker that was granted, or has answered, is not at work.             *)
LEMMA AtRest ==
    ASSUME IInv, NEW c \in Callers, At(c, "granted") \/ At(c, "answered")
    PROVE  /\ caller[c].worker \in Workers /\ Lent[c] = caller[c].worker
           /\ Lent[c] # NoWorker /\ Lent[c] \notin AtWork
<1>1. caller[c].worker # NoWorker /\ caller[c].worker \in Workers
  BY DEF IInv, HolderInv, At, TypeOK
<1>2. caller[c].worker \notin AtWork
  <2>1. ASSUME NEW d \in Callers, d \in inbox[caller[c].worker]
        PROVE  FALSE
    BY <1>1, <2>1, AtWorkFor DEF Holds, At
  <2> QED BY <2>1 DEF AtWork
<1> QED BY <1>1, <1>2 DEF Lent

LEMMA RequestImplements ==
    ASSUME IInv, NoThreadLeft, NEW c \in Callers, Request(c)
    PROVE  L!Work(c) \/ UNCHANGED L!vars
<1>1. PICK w : w = caller[c].worker
  OBVIOUS
<1>2. /\ At(c, "granted") /\ UNCHANGED <<Phase, idle, waiters, InStack>>
      /\ thread' = thread /\ caller' = [caller EXCEPT ![c].pc = "sent"]
      /\ inbox' = IF thread[w] = "running"
                  THEN [inbox EXCEPT ![w] = @ \cup {c}] ELSE inbox
  BY <1>1 DEF Request, Phase, InStack
<1>3. w \in Workers /\ Lent[c] = w /\ w # NoWorker /\ w \notin AtWork
  BY <1>1, <1>2, AtRest
<1>4. Lent' = Lent
  <2>1. caller \in [Callers -> Places]
    BY DEF IInv, TypeOK, Places
  <2>2. \A d \in Callers : caller'[d].worker = caller[d].worker
    BY <1>2, <2>1 DEF Places
  <2> QED BY <2>2 DEF Lent
<1>5. CASE thread[w] = "running"
  <2>1. pool \in {"ready", "freed"} /\ pool # "freed"
    BY <1>2, <1>3, <1>5 DEF IInv, UnusedInv, At, NoThreadLeft
  <2>2. inbox \in [Workers -> SUBSET Requesters]
    BY DEF IInv, TypeOK
  <2>3. c \in inbox'[w] /\ \A v \in Workers : v # w => inbox'[v] = inbox[v]
    BY <1>2, <1>3, <1>5, <2>2
  <2>4. AtWork' = AtWork \cup {w}
    BY <1>2, <1>3, <1>5, <2>3 DEF AtWork
  <2>5. Phase = "ready"
    BY <2>1 DEF Phase
  <2> QED BY <1>2, <1>3, <1>4, <2>4, <2>5 DEF L!Work
<1>6. CASE thread[w] # "running"
  BY <1>2, <1>4, <1>6, SameLending DEF AtWork
<1> QED BY <1>5, <1>6

LEMMA ReleaseToWaiterImplements ==
    ASSUME IInv, NEW c \in Callers, ReleaseToWaiter(c)
    PROVE  L!Return(c)
<1>1. /\ At(c, "answered") /\ waiters # << >> /\ waiters' = Tail(waiters)
      /\ UNCHANGED <<Phase, InStack, AtWork>>
  BY DEF ReleaseToWaiter, Phase, InStack, AtWork
<1>2. PICK w, d : w = caller[c].worker /\ d = waiters[1]
  OBVIOUS
<1>3. w \in Workers /\ Lent[c] = w /\ w # NoWorker /\ w \notin AtWork
  BY <1>1, <1>2, AtRest
<1>4. caller \in [Callers -> Places] /\ d \in Callers
  BY <1>1, <1>2, ShiftEffect DEF IInv, TypeOK, Places
<1>5. d # c
  <2>1. 1 \in 1..Len(waiters)
    BY <1>1, ShiftEffect DEF IInv, TypeOK
  <2> QED BY <1>1, <1>2, <2>1 DEF IInv, WaitersInv, At
<1>6. Lent' = [Lent EXCEPT ![c] = NoWorker, ![d] = w]
  <2>1. caller' = [caller EXCEPT ![c] = [pc |-> "out", worker |-> NoWorker],
                                 ![d] = [pc |-> "granted", worker |-> w]]
    BY <1>2 DEF ReleaseToWaiter
  <2>2. \A b \in Callers : caller'[b].worker = IF b = d THEN w
                            ELSE IF b = c THEN NoWorker ELSE caller[b].worker
    BY <1>4, <1>5, <2>1
  <2> QED BY <1>4, <1>5, <2>2 DEF Lent
<1> QED BY <1>1, <1>2, <1>3, <1>6 DEF L!Return

LEMMA ReleaseToIdleImplements ==
    ASSUME IInv, NEW c \in Callers, ReleaseToIdle(c)
    PROVE  L!Return(c)
<1>1. /\ At(c, "answered") /\ waiters = << >> /\ waiters' = waiters
      /\ UNCHANGED <<Phase, AtWork>>
  BY DEF ReleaseToIdle, Phase, AtWork
<1>2. PICK w : w = caller[c].worker
  OBVIOUS
<1>3. w \in Workers /\ Lent[c] = w /\ w # NoWorker /\ w \notin AtWork
  BY <1>1, <1>2, AtRest
<1>4. Lent' = [Lent EXCEPT ![c] = NoWorker]
  <2>1. caller' = [caller EXCEPT ![c] = [pc |-> "out", worker |-> NoWorker]]
    BY DEF ReleaseToIdle
  <2>2. caller \in [Callers -> Places]
    BY DEF IInv, TypeOK, Places
  <2> QED BY <2>1, <2>2 DEF Lent
<1>5. InStack' = InStack \cup {w}
  <2>1. PICK n : n = Len(idle)
    OBVIOUS
  <2>2. /\ n \in Nat /\ Len(idle') = n + 1 /\ idle'[n + 1] = w
        /\ \A i \in 1..n : idle'[i] = idle[i]
    BY <1>2, <1>3, <2>1, PushEffect DEF IInv, TypeOK, ReleaseToIdle
  <2>3. \A i \in 1..(n + 1) : i \in 1..n \/ i = n + 1
    BY <2>2
  <2>4. n + 1 \in 1..(n + 1) /\ \A i \in 1..n : i \in 1..(n + 1)
    BY <2>2
  <2>5. InStack' = {idle'[i] : i \in 1..(n + 1)}
    BY <2>2 DEF InStack
  <2> QED BY <2>1, <2>2, <2>3, <2>4, <2>5 DEF InStack
<1> QED BY <1>1, <1>3, <1>4, <1>5 DEF L!Return

LEMMA InitImplements == Init => L!Init
<1> SUFFICES ASSUME Init PROVE L!Init
  OBVIOUS
<1>1. IInv
  BY InitIInv
<1>2. Phase = "closed"
  BY DEF Init, Phase
<1> QED BY <1>1, <1>2, ClosedIsUnused DEF L!Init

LEMMA NextImplements ==
    ASSUME IInv, IInv', NoThreadLeft, [Next]_vars
    PROVE  [L!Next]_(L!vars)
<1>1. CASE Spawn \/ SpawnFailed \/ InitTimeout
  BY <1>1, ClosedStutters DEF Spawn, SpawnFailed, InitTimeout, Phase
<1>2. CASE Free
  BY <1>2, FreeImplements DEF L!Next
<1>3. ASSUME NEW w \in Workers,
             \/ HandleInit(w) \/ Handle(w) \/ Die(w)
             \/ \E c \in Callers : Progress(w, c)
      PROVE  L!Next \/ UNCHANGED L!vars
  BY <1>3, WorkerImplements DEF L!Next
<1>4. ASSUME NEW w \in Workers, Dispatch(w)
      PROVE  L!Next \/ UNCHANGED L!vars
  BY <1>4, DispatchImplements DEF L!Next
<1>5. ASSUME NEW c \in Callers, CallAtOnce(c) \/ CallWaits(c) \/ React(c)
      PROVE  L!Next \/ UNCHANGED L!vars
  BY <1>5, CallAtOnceImplements, CallWaitsImplements, RequestImplements,
     ReleaseToWaiterImplements, ReleaseToIdleImplements DEF React, L!Next
<1>6. CASE UNCHANGED vars
  BY <1>6, SameLending DEF vars, Phase, Lent, AtWork
<1>7. L!Next \/ UNCHANGED L!vars
  BY <1>1, <1>2, <1>3, <1>4, <1>5, <1>6 DEF Next
<1> QED BY <1>7

(* Every behaviour of the pool, with failing inits, threads that die at    *)
(* any moment and free(), is one of the lending: calls are served in the   *)
(* order they came, each with a worker of its own, which is not given to   *)
(* the next before its thread is done (requestOnIdle(), matchpool.ts).     *)
THEOREM PoolImplementsLending == Spec => ImplementsLending
BY InitImplements, NextImplements, Invariance, NoThreadIsLeft, PTL
   DEF Spec, ImplementsLending, L!Spec
=============================================================================
