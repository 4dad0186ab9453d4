---------------------------- MODULE BridgeProofs ----------------------------
(***************************************************************************)
(* Proofs about Bridge, for every number of wrappers, values, references   *)
(* and nested calls.                                                       *)
(***************************************************************************)
EXTENDS Bridge, FiniteSetTheorems, SequenceTheorems, TLAPS

-----------------------------------------------------------------------------
(* The inductive invariant, in three parts that each follow one group of   *)
(* variables.                                                              *)

(* The calls: Go and JavaScript alternate, and nothing is called or        *)
(* scheduled before the program has started or after it has exited.        *)
StackInv ==
    /\ load \in [promise : {"none", "pending", "done", "hangs"}, attempts : Nat]
    /\ stack \in Seq(Frames) /\ Len(stack) <= Depth
    /\ \A i \in 1..Len(stack) : stack[i].side = IF i % 2 = 1 THEN "go" ELSE "js"

StartedInv ==
    /\ exited \in BOOLEAN /\ timer \in BOOLEAN
    /\ stack # << >> => load.promise = "done" /\ ~exited
    /\ timer => load.promise = "done" /\ Depth # 0
    /\ exited => load.promise = "done"

CallsInv == StackInv /\ StartedInv

(* The objects: every wrapper ever made has a handle of its own, and the   *)
(* registries have exactly the objects of the wrappers not freed yet.      *)
(* Each planAt() under way will make a wrapper that is not there yet.      *)
Owning(k) == {w \in Wrappers : /\ wrapper[w].state \in {"live", "collected"}
                               /\ wrapper[w].kind = k}
Entry(w) == [handle |-> wrapper[w].handle, of |-> w]

ObjectTypes ==
    /\ wrapper \in [Wrappers ->
          [state : {"none", "live", "freed", "collected", "gone"},
           kind : Kinds \cup {"none"}, handle : Nat]]
    /\ registry \in [objects : [Kinds -> SUBSET [handle : Nat, of : Wrappers]],
                     next : Nat]

HandlesInv ==
    /\ \A w \in Wrappers : wrapper[w].state # "none" =>
          /\ load.promise = "done"
          /\ wrapper[w].kind \in Kinds /\ wrapper[w].handle < registry.next
    /\ \A w, x \in Wrappers :
          /\ wrapper[w].state # "none" /\ wrapper[x].state # "none"
          /\ wrapper[w].handle = wrapper[x].handle
          => w = x

RegisteredInv ==
    ~exited => \A k \in Kinds :
        /\ \A e \in registry.objects[k] : e.of \in Owning(k) /\ e = Entry(e.of)
        /\ \A w \in Owning(k) : Entry(w) \in registry.objects[k]

ObjectsInv == ObjectTypes /\ HandlesInv /\ RegisteredInv

PlansInv ==
    /\ \A i \in 1..Len(stack) : stack[i].op = "planAt" => stack[i].makes \in Wrappers
    /\ \A i \in 1..Len(stack) : stack[i].makes \in Wrappers =>
          wrapper[stack[i].makes].state = "none"
    /\ \A i, j \in 1..Len(stack) :
          stack[i].makes \in Wrappers /\ stack[i].makes = stack[j].makes => i = j

(* The references: the first id is Global's for ever; any other is either  *)
(* that of one value, with as many references as are counted, or in the    *)
(* pool.                                                                   *)
Holding(id) == {s \in Slots : held[s].id = id}

RefTypes ==
    /\ table \in [vals : Seq(Stored \cup {Null}), counts : Seq(Int),
                  ids : [Stored -> Nat], pool : Seq(Nat)]
    /\ held \in [Slots -> [id : Nat, of : Stored \cup {Null}]]
    /\ Len(table.counts) = Len(table.vals) /\ Len(table.vals) # 0

IdsInv ==
    /\ table.vals[1] = Global /\ table.counts[1] = Infinity
    /\ \A v \in Stored : table.ids[v] # 0 =>
          table.ids[v] \in Ids /\ table.vals[table.ids[v]] = v
    /\ \A id \in Ids : table.vals[id] # Null => table.ids[table.vals[id]] = id

PoolInv ==
    /\ \A id \in Ids : table.vals[id] = Null =>
          \E i \in 1..Len(table.pool) : table.pool[i] = id
    /\ \A i \in 1..Len(table.pool) :
          table.pool[i] \in Ids /\ table.vals[table.pool[i]] = Null
    /\ \A i, j \in 1..Len(table.pool) : table.pool[i] = table.pool[j] => i = j

CountsInv ==
    \A id \in Ids \ {1} :
        /\ IsFiniteSet(Holding(id))
        /\ table.counts[id] = Cardinality(Holding(id))
        /\ table.vals[id] # Null <=> table.counts[id] # 0

HeldInv ==
    \A s \in Slots : held[s] = NoRef \/
        /\ held[s].id \in Ids /\ held[s].of \in Stored
        /\ held[s].of = table.vals[held[s].id]

RefsInv == RefTypes /\ IdsInv /\ PoolInv /\ CountsInv /\ HeldInv

IInv == CallsInv /\ ObjectsInv /\ PlansInv /\ RefsInv

-----------------------------------------------------------------------------
(* A call adds a frame to the stack; what returns or unwinds cuts it off.  *)
LEMMA Pushed ==
    ASSUME CallsInv, NEW f \in Frames, stack' = Append(stack, f)
    PROVE  /\ stack' \in Seq(Frames) /\ Len(stack) \in Nat
           /\ Len(stack') = Len(stack) + 1
           /\ \A i \in 1..Len(stack) : stack'[i] = stack[i]
           /\ stack'[Len(stack) + 1] = f
BY DEF CallsInv, StackInv, StartedInv

LEMMA CutOff ==
    ASSUME CallsInv, NEW n \in 0..Len(stack), stack' = SubSeq(stack, 1, n)
    PROVE  /\ stack' \in Seq(Frames) /\ Len(stack') = n
           /\ \A i \in 1..n : stack'[i] = stack[i]
<1>1. stack \in Seq(Frames) /\ Len(stack) \in Nat
  BY DEF CallsInv, StackInv, StartedInv
<1>2. \A i \in 1..n : stack[i] \in Frames
  BY <1>1, ElementOfSeq
<1> QED BY <1>1, <1>2, SubSeqProperties

(* What a step does to the stack, if it does anything.                     *)
Push(side, ops) ==
    \E op \in ops, w \in Wrappers \cup {Nobody} :
        /\ w \in Wrappers <=> op = "planAt"
        /\ w \in Wrappers => Unmade(w)
        /\ stack' = Append(stack, Frame(side, op, w))
Cut == \E n \in 0..Len(stack) : stack' = SubSeq(stack, 1, n)

LEMMA PushCalls ==
    ASSUME CallsInv, NEW side \in {"go", "js"}, Push(side, Ops),
           Len(stack) < Depth, side = "go" <=> JsRuns,
           load.promise = "done", ~exited, UNCHANGED <<load, exited, timer>>
    PROVE  CallsInv'
<1>1. PICK op \in Ops, w \in Wrappers \cup {Nobody} :
        stack' = Append(stack, Frame(side, op, w))
  BY DEF Push
<1> DEFINE f == Frame(side, op, w)
<1>2. f \in Frames /\ f.side = side
  BY DEF Frames, Frame
<1> HIDE DEF f
<1>3. /\ stack' \in Seq(Frames) /\ Len(stack) \in Nat
      /\ Len(stack') = Len(stack) + 1
      /\ \A i \in 1..Len(stack) : stack'[i] = stack[i]
      /\ stack'[Len(stack) + 1] = f
  BY <1>1, <1>2, Pushed DEF f
<1>4. ASSUME NEW i \in 1..Len(stack')
      PROVE  stack'[i].side = IF i % 2 = 1 THEN "go" ELSE "js"
  <2>1. CASE i \in 1..Len(stack)
    BY <2>1, <1>3 DEF CallsInv, StackInv, StartedInv
  <2>2. CASE i = Len(stack) + 1
    BY <2>2, <1>2, <1>3 DEF JsRuns
  <2> QED BY <2>1, <2>2, <1>3
<1>5. Len(stack') <= Depth
  BY <1>3, ConstantsAssumption
<1> QED BY <1>3, <1>4, <1>5 DEF CallsInv, StackInv, StartedInv

LEMMA CutCalls ==
    ASSUME CallsInv, Cut, UNCHANGED <<load, exited, timer>>
    PROVE  CallsInv'
<1>1. PICK n \in 0..Len(stack) : stack' = SubSeq(stack, 1, n)
  BY DEF Cut
<1>2. stack' \in Seq(Frames) /\ Len(stack') = n /\ n <= Len(stack)
      /\ \A i \in 1..n : stack'[i] = stack[i]
  BY <1>1, CutOff DEF CallsInv, StackInv, StartedInv
<1>3. Len(stack') <= Depth /\ (stack' # << >> => stack # << >>)
  BY <1>2, ConstantsAssumption DEF CallsInv, StackInv, StartedInv
<1>4. ASSUME NEW i \in 1..Len(stack')
      PROVE  stack'[i].side = IF i % 2 = 1 THEN "go" ELSE "js"
  <2>1. i \in 1..Len(stack) /\ stack'[i] = stack[i]
    BY <1>2 DEF CallsInv, StackInv, StartedInv
  <2> QED BY <2>1 DEF CallsInv, StackInv, StartedInv
<1> QED BY <1>2, <1>3, <1>4 DEF CallsInv, StackInv, StartedInv

-----------------------------------------------------------------------------
(* The actions of Next by what they do to the variables.                   *)
Loads == InitCalled \/ LoadFailed \/ LoadHangs
Reads == \E s \in Slots : GoReceives(s) \/ FinalizeRef(s)
Makes == \E w \in Wrappers, kind \in Kinds : New(w, kind)
Frees == \E w \in Wrappers, kind \in Kinds : Free(w, kind) \/ Finalize(w, kind)
Drops == \E w \in Wrappers : Dropped(w)
Starts ==
    /\ Callable /\ Len(stack) < Depth /\ Push("go", Ops)
    /\ UNCHANGED <<load, exited, table, held, registry, wrapper, timer>>
Ends ==
    /\ Cut
    /\ UNCHANGED <<load, exited, table, held, registry, wrapper, timer>>
Dies == stack # << >> /\ Exit
Timeouts == TimeoutScheduled \/ TimeoutCleared

LEMMA RecoveredEnds ==
    ASSUME CallsInv, NEW i \in 1..Len(stack), Recovered(i)
    PROVE  Ends
<1>1. i - 1 \in 0..Len(stack)
  BY DEF CallsInv, StackInv, StartedInv
<1> QED BY <1>1 DEF Recovered, Ends, Cut

LEMMA PanickingEnds ==
    ASSUME CallsInv, NEW i \in 1..Len(stack), Panicking(i)
    PROVE  Ends \/ Dies
<1>1. CASE Recovered(i)
  BY <1>1, RecoveredEnds
<1>2. CASE Exit
  BY <1>2 DEF CallsInv, StackInv, StartedInv, Dies
<1>3. ASSUME NEW outer \in 1..(i - 1), Recovered(outer)
      PROVE  Ends
  <2>1. outer \in 1..Len(stack)
    BY DEF CallsInv, StackInv, StartedInv
  <2> QED BY <1>3, <2>1, RecoveredEnds
<1> QED BY <1>1, <1>2, <1>3 DEF Panicking

LEMMA StartsShape ==
    ASSUME CallsInv
    PROVE  /\ CallFunction => Starts
           /\ \A w \in Wrappers, kind \in Kinds : Call(w, kind) => Starts
           /\ \A w, p \in Wrappers : PlanAt(w, p) => Starts
<1> USE ConstantsAssumption
<1>1. "function" \in Ops /\ "planAt" \in Ops /\ Kinds \subseteq Ops
      /\ "planAt" \notin Kinds
  BY DEF Ops, Kinds
<1>2. CallFunction => Starts
  BY <1>1 DEF CallFunction, Starts, Push
<1>3. ASSUME NEW w \in Wrappers, NEW kind \in Kinds, Call(w, kind) PROVE Starts
  BY <1>1, <1>3 DEF Call, Starts, Push
<1>4. ASSUME NEW w \in Wrappers, NEW p \in Wrappers, PlanAt(w, p) PROVE Starts
  BY <1>1, <1>4 DEF PlanAt, Starts, Push
<1> QED BY <1>2, <1>3, <1>4

LEMMA PopEnds ==
    ASSUME CallsInv, stack # << >>, stack' = Pop
    PROVE  Cut
<1>1. Len(stack) - 1 \in 0..Len(stack)
  BY EmptySeq DEF CallsInv, StackInv, StartedInv
<1> QED BY <1>1 DEF Pop, Cut

LEMMA NextShape ==
    ASSUME CallsInv, Next
    PROVE  \/ Loads \/ Loaded \/ Reads \/ Makes \/ Frees \/ Drops \/ Starts
           \/ Ends \/ Dies \/ CallsBackInto \/ PlanMade \/ Timeouts \/ TimeoutFires
<1>1. "chain" \in Kinds /\ "watch" \in Kinds /\ "descriptor" \in Kinds
      /\ "plan" \in Kinds /\ "scanner" \in Kinds
  BY DEF Kinds
<1>2. ASSUME NEW w \in Wrappers,
             \/ NewHeaderChain(w) \/ NewWatchList(w) \/ NewDescriptor(w)
             \/ NewSpScanner(w)
      PROVE  Makes
  BY <1>1, <1>2 DEF Makes, NewHeaderChain, NewWatchList, NewDescriptor, NewSpScanner
<1>3. ASSUME NEW w \in Wrappers,
             \/ CallHeaderChain(w) \/ CallWatchList(w) \/ CallDescriptor(w)
             \/ CallPlan(w) \/ CallSpScanner(w)
      PROVE  Starts
  BY <1>1, <1>3, StartsShape
     DEF CallHeaderChain, CallWatchList, CallDescriptor, CallPlan, CallSpScanner
<1>4. ASSUME NEW w \in Wrappers,
             \/ FreeHeaderChain(w) \/ FreeWatchList(w) \/ FreeDescriptor(w)
             \/ FreePlan(w) \/ FreeSpScanner(w)
             \/ FinalizeHeaderChain(w) \/ FinalizeWatchList(w)
             \/ FinalizeDescriptor(w) \/ FinalizePlan(w) \/ FinalizeSpScanner(w)
      PROVE  Frees
  BY <1>1, <1>4 DEF Frees, FreeHeaderChain, FreeWatchList, FreeDescriptor, FreePlan,
     FreeSpScanner, FinalizeHeaderChain, FinalizeWatchList, FinalizeDescriptor,
     FinalizePlan, FinalizeSpScanner
<1>5. stack \in Seq(Frames) /\ Len(stack) \in Nat /\ (stack = << >> => Len(stack) = 0)
  BY DEF CallsInv, StackInv, StartedInv
<1>6. CASE Returns
  BY <1>5, <1>6, PopEnds DEF Returns, Ends, GoRuns
<1>7. CASE CallbackReturns
  BY <1>7, PopEnds DEF CallbackReturns, Ends
<1>8. CASE CallbackThrows
  <2>1. Len(stack) \in 1..Len(stack) /\ stack[Len(stack)].side = "js"
    BY <1>5, <1>8, EmptySeq DEF CallbackThrows, Top
  <2>2. Len(stack) - 1 \in 1..Len(stack)
    BY <1>5, <2>1 DEF CallsInv, StackInv, StartedInv
  <2> QED BY <1>8, <2>2, PanickingEnds DEF CallbackThrows
<1>9. CASE Panics
  <2>1. Len(stack) \in 1..Len(stack)
    BY <1>5, <1>9 DEF Panics, GoRuns
  <2> QED BY <1>9, <2>1, PanickingEnds DEF Panics
<1> QED BY <1>2, <1>3, <1>4, <1>6, <1>7, <1>8, <1>9, StartsShape
        DEF Next, Loads, Reads, Drops, Timeouts

-----------------------------------------------------------------------------
(* The calls.                                                              *)
LEMMA InitCalls == Init => CallsInv
<1>1. << >> \in Seq(Frames) /\ Len(<< >>) = 0
  BY EmptySeq
<1>2. ASSUME Init PROVE StackInv
  <2>1. load \in [promise : {"none", "pending", "done", "hangs"}, attempts : Nat]
    BY <1>2 DEF Init
  <2> QED BY <1>1, <1>2, <2>1, ConstantsAssumption DEF Init, StackInv
<1>3. Init => StartedInv
  BY DEF Init, StartedInv
<1> QED BY <1>2, <1>3 DEF CallsInv

LEMMA CallsStep ==
    ASSUME CallsInv, Next
    PROVE  CallsInv'
<1>0. stack \in Seq(Frames) /\ Len(stack) \in Nat /\ Depth \in Nat
      /\ (stack = << >> <=> Len(stack) = 0)
  BY ConstantsAssumption, EmptySeq DEF CallsInv, StackInv, StartedInv
<1>1. CASE Loads
  <2>1. stack = << >>
    BY <1>1 DEF CallsInv, StackInv, StartedInv, Loads, InitCalled, LoadFailed, LoadHangs
  <2>2. UNCHANGED <<exited, timer, stack>> /\ load.promise # "done"
    BY <1>1 DEF Loads, InitCalled, LoadFailed, LoadHangs
  <2>3. load' \in [promise : {"none", "pending", "done", "hangs"}, attempts : Nat]
    <3>1. load \in [promise : {"none", "pending", "done", "hangs"}, attempts : Nat]
      BY DEF CallsInv, StackInv
    <3>2. CASE InitCalled
      <4>1. load' = [promise |-> "pending", attempts |-> load.attempts + 1]
        BY <3>1, <3>2 DEF InitCalled
      <4> QED BY <3>1, <4>1
    <3>3. CASE LoadFailed
      BY <3>1, <3>3 DEF LoadFailed
    <3>4. CASE LoadHangs
      BY <3>1, <3>4 DEF LoadHangs
    <3> QED BY <1>1, <3>2, <3>3, <3>4 DEF Loads
  <2> QED BY <2>1, <2>2, <2>3 DEF CallsInv, StackInv, StartedInv
<1>2. CASE Loaded
  <2>1. load' \in [promise : {"none", "pending", "done", "hangs"}, attempts : Nat]
        /\ load'.promise = "done"
    BY <1>2 DEF CallsInv, StackInv, StartedInv, Loaded
  <2> QED BY <1>2, <2>1 DEF CallsInv, StackInv, StartedInv, Loaded
<1>3. CASE Reads
  BY <1>3 DEF Reads, GoReceives, FinalizeRef, CallsInv, StackInv, StartedInv
<1>4. CASE Makes
  BY <1>4 DEF Makes, New, CallsInv, StackInv, StartedInv
<1>5. CASE Frees \/ Drops
  BY <1>5 DEF Frees, Drops, Free, Finalize, Dropped, CallsInv, StackInv, StartedInv
<1>6. CASE Starts
  BY <1>6, PushCalls DEF Starts, Callable
<1>7. CASE Ends
  BY <1>7, CutCalls DEF Ends
<1>8. CASE Dies
  BY <1>8, EmptySeq, <1>0 DEF Dies, Exit, CallsInv, StackInv, StartedInv
<1>9. CASE CallsBackInto
  <2>1. Nobody \notin Wrappers /\ "callback" \in Ops
    BY ConstantsAssumption DEF Ops
  <2>2. Push("js", Ops)
    BY <1>9, <2>1 DEF CallsBackInto, Push
  <2>3. stack # << >> /\ ~JsRuns
    BY <1>0, <1>9 DEF CallsBackInto, GoRuns, JsRuns
  <2>4. load.promise = "done" /\ ~exited
    BY <2>3 DEF CallsInv, StackInv, StartedInv
  <2> QED BY <1>9, <2>2, <2>3, <2>4, PushCalls DEF CallsBackInto
<1>10. CASE PlanMade
  <2>1. stack # << >>
    BY <1>0, <1>10 DEF PlanMade, GoRuns
  <2> QED BY <1>10, <2>1, PopEnds, CutCalls DEF PlanMade
<1>11. CASE Timeouts
  <2>1. stack # << >>
    <3>1. Len(stack) % 2 = 1
      BY <1>11 DEF Timeouts, TimeoutScheduled, TimeoutCleared, GoRuns
    <3> QED BY <1>0, <3>1
  <2>2. load.promise = "done" /\ Depth # 0
    BY <1>0, <2>1 DEF CallsInv, StackInv, StartedInv
  <2>3. UNCHANGED <<load, exited, stack>> /\ timer' \in BOOLEAN
    BY <1>11 DEF Timeouts, TimeoutScheduled, TimeoutCleared
  <2>4. StackInv'
    BY <2>3 DEF CallsInv, StackInv
  <2>5. StartedInv'
    BY <2>1, <2>2, <2>3 DEF CallsInv, StartedInv
  <2> QED BY <2>4, <2>5 DEF CallsInv
<1>12. CASE TimeoutFires
  <2>1. CASE exited
    BY <1>12, <2>1 DEF TimeoutFires, CallsInv, StackInv, StartedInv
  <2>2. CASE ~exited
    <3>1. stack' = <<Frame("go", "timer", Nobody)>> /\ Depth > 0
      BY <1>0, <1>12, <2>2 DEF TimeoutFires, CallsInv, StackInv, StartedInv
    <3>2. Frame("go", "timer", Nobody) \in Frames
          /\ Frame("go", "timer", Nobody).side = "go"
      BY DEF Frame, Frames, Ops
    <3> HIDE DEF Frame
    <3>3. stack' \in Seq(Frames) /\ Len(stack') = 1 /\ stack'[1].side = "go"
      BY <3>1, <3>2
    <3>4. StackInv'
      BY <1>0, <1>12, <3>1, <3>3 DEF TimeoutFires, CallsInv, StackInv
    <3>5. StartedInv'
      BY <1>12, <2>2 DEF TimeoutFires, CallsInv, StartedInv
    <3> QED BY <3>4, <3>5 DEF CallsInv
  <2> QED BY <2>1, <2>2
<1> QED BY <1>1, <1>2, <1>3, <1>4, <1>5, <1>6, <1>7, <1>8, <1>9, <1>10, <1>11, <1>12,
           NextShape

-----------------------------------------------------------------------------
(* The plans to be made.                                                   *)
LEMMA PushPlans ==
    ASSUME CallsInv, PlansInv, NEW side \in {"go", "js"}, Push(side, Ops),
           UNCHANGED wrapper
    PROVE  PlansInv'
<1>1. PICK op \in Ops, w \in Wrappers \cup {Nobody} :
        /\ w \in Wrappers <=> op = "planAt"
        /\ w \in Wrappers => Unmade(w)
        /\ stack' = Append(stack, Frame(side, op, w))
  BY DEF Push
<1> DEFINE f == Frame(side, op, w)
<1>2. f \in Frames /\ f.op = op /\ f.makes = w
  BY DEF Frames, Frame
<1> HIDE DEF f
<1>3. /\ Len(stack) \in Nat /\ Len(stack') = Len(stack) + 1
      /\ \A i \in 1..Len(stack) : stack'[i] = stack[i]
      /\ stack'[Len(stack) + 1] = f
  BY <1>1, <1>2, Pushed DEF f
<1>4. \A i \in 1..Len(stack') : i \in 1..Len(stack) \/ i = Len(stack) + 1
  BY <1>3
<1>5. \A i \in 1..Len(stack) : w \in Wrappers => stack[i].makes # w
  BY <1>1 DEF Unmade
<1>6. w \in Wrappers => wrapper[w].state = "none"
  BY <1>1 DEF Unmade
<1> QED BY <1>1, <1>2, <1>3, <1>4, <1>5, <1>6 DEF PlansInv

LEMMA CutPlans ==
    ASSUME CallsInv, PlansInv, Cut, UNCHANGED wrapper
    PROVE  PlansInv'
<1>1. PICK n \in 0..Len(stack) : stack' = SubSeq(stack, 1, n)
  BY DEF Cut
<1>2. Len(stack') = n /\ \A i \in 1..n : stack'[i] = stack[i]
  BY <1>1, CutOff
<1>3. \A i \in 1..Len(stack') : i \in 1..Len(stack) /\ stack'[i] = stack[i]
  BY <1>2 DEF CallsInv, StackInv, StartedInv
<1> QED BY <1>3 DEF PlansInv

-----------------------------------------------------------------------------
(* The objects.                                                            *)
LEMMA SameObjects ==
    ASSUME ObjectsInv, UNCHANGED <<registry, wrapper>>, ~exited' => ~exited,
           load.promise = "done" => load'.promise = "done"
    PROVE  ObjectsInv'
<1>1. ObjectTypes' /\ HandlesInv'
  BY DEF ObjectsInv, ObjectTypes, HandlesInv
<1>3. RegisteredInv'
  BY DEF ObjectsInv, RegisteredInv, Entry, Owning
<1> QED BY <1>1, <1>3 DEF ObjectsInv

(* A new handle is larger than every one in use, so the object it names is *)
(* the wrapper's alone.                                                    *)
LEMMA RegisterObjects ==
    ASSUME ObjectsInv, NEW w \in Wrappers, NEW kind \in Kinds, Register(w, kind),
           wrapper[w].state = "none", ~exited, load'.promise = "done"
    PROVE  ObjectsInv'
<1> DEFINE r == [state |-> "live", kind |-> kind, handle |-> registry.next]
           e == [handle |-> registry.next, of |-> w]
<1>1. /\ registry.next \in Nat /\ wrapper' = [wrapper EXCEPT ![w] = r]
      /\ registry.objects \in [Kinds -> SUBSET [handle : Nat, of : Wrappers]]
  BY DEF Register, ObjectsInv, ObjectTypes
<1>2. r.state = "live" /\ r.kind = kind /\ r.handle = registry.next
      /\ r \in [state : {"none", "live", "freed", "collected", "gone"},
                kind : Kinds \cup {"none"}, handle : Nat]
  BY <1>1
<1>3. e \in [handle : Nat, of : Wrappers] /\ e = [handle |-> r.handle, of |-> w]
  BY <1>1
<1> HIDE DEF r, e
<1>4. wrapper'[w] = r /\ \A x \in Wrappers : x # w => wrapper'[x] = wrapper[x]
  BY <1>1 DEF ObjectsInv, ObjectTypes
<1>5. registry' = [objects |-> [registry.objects EXCEPT
                                  ![kind] = registry.objects[kind] \cup {e}],
                   next |-> registry.next + 1]
  BY DEF Register, e
<1>6. registry'.next = registry.next + 1
      /\ \A k \in Kinds : registry'.objects[k] = IF k = kind
                           THEN registry.objects[k] \cup {e} ELSE registry.objects[k]
  BY <1>1, <1>5
<1>7. ObjectTypes'
  <2>1. wrapper' \in [Wrappers ->
          [state : {"none", "live", "freed", "collected", "gone"},
           kind : Kinds \cup {"none"}, handle : Nat]]
    BY <1>1, <1>2 DEF ObjectsInv, ObjectTypes
  <2>2. [registry.objects EXCEPT ![kind] = registry.objects[kind] \cup {e}]
          \in [Kinds -> SUBSET [handle : Nat, of : Wrappers]]
    BY <1>1, <1>3
  <2> QED BY <1>1, <1>5, <2>1, <2>2 DEF ObjectTypes
<1>8. HandlesInv'
  BY <1>1, <1>2, <1>4, <1>6 DEF ObjectsInv, ObjectTypes, HandlesInv
<1>9. ASSUME NEW k \in Kinds
      PROVE  /\ \A f \in registry'.objects[k] : f.of \in Owning(k)' /\ f = Entry(f.of)'
             /\ \A x \in Owning(k)' : Entry(x)' \in registry'.objects[k]
  <2>1. /\ \A f \in registry.objects[k] : f.of \in Owning(k) /\ f = Entry(f.of)
        /\ \A x \in Owning(k) : Entry(x) \in registry.objects[k]
    BY DEF ObjectsInv, RegisteredInv
  <2>2. w \notin Owning(k) /\ Entry(w)' = e /\ e.of = w
    BY <1>3, <1>4 DEF Owning, Entry
  <2>3. \A x \in Owning(k) : Entry(x)' = Entry(x)
    BY <1>4, <2>2 DEF Entry, Owning
  <2>4. Owning(k)' = IF k = kind THEN Owning(k) \cup {w} ELSE Owning(k)
    BY <1>2, <1>4, <2>2 DEF Owning
  <2>5. CASE k = kind
    <3>1. registry'.objects[k] = registry.objects[k] \cup {e}
      BY <1>6, <2>5
    <3>2. Owning(k)' = Owning(k) \cup {w}
      BY <2>4, <2>5
    <3> QED BY <2>1, <2>2, <2>3, <3>1, <3>2 DEF Entry
  <2>6. CASE k # kind
    <3>1. registry'.objects[k] = registry.objects[k] /\ Owning(k)' = Owning(k)
      BY <1>6, <2>4, <2>6
    <3> QED BY <2>1, <2>3, <3>1 DEF Entry
  <2> QED BY <2>5, <2>6
<1> QED BY <1>7, <1>8, <1>9 DEF ObjectsInv, RegisteredInv

(* An object leaves its registry in the step that frees its wrapper.       *)
LEMMA UnregisterObjects ==
    ASSUME ObjectsInv, NEW w \in Wrappers, NEW state \in {"freed", "gone"},
           wrapper[w].state \in {"live", "collected"},
           wrapper' = [wrapper EXCEPT ![w].state = state],
           IF exited THEN UNCHANGED registry ELSE Unregister(w),
           UNCHANGED <<load, exited>>
    PROVE  ObjectsInv'
<1> DEFINE r == [wrapper[w] EXCEPT !.state = state]
           kind == wrapper[w].kind
<1>1. wrapper[w] \in [state : {"none", "live", "freed", "collected", "gone"},
                      kind : Kinds \cup {"none"}, handle : Nat]
      /\ wrapper' = [wrapper EXCEPT ![w] = r]
  BY DEF ObjectsInv, ObjectTypes
<1>2. r.state = state /\ r.kind = kind /\ r.handle = wrapper[w].handle
      /\ r \in [state : {"none", "live", "freed", "collected", "gone"},
                kind : Kinds \cup {"none"}, handle : Nat]
  BY <1>1
<1> HIDE DEF r
<1>3. wrapper'[w] = r /\ \A x \in Wrappers : x # w => wrapper'[x] = wrapper[x]
  BY <1>1 DEF ObjectsInv, ObjectTypes
<1>4. wrapper' \in [Wrappers -> [state : {"none", "live", "freed", "collected", "gone"},
                    kind : Kinds \cup {"none"}, handle : Nat]]
  BY <1>1, <1>2 DEF ObjectsInv, ObjectTypes
<1>5. kind \in Kinds
  BY DEF ObjectsInv, HandlesInv
<1>6. CASE exited
  <2>1. UNCHANGED registry
    BY <1>6
  <2>2. ObjectTypes' /\ HandlesInv'
    BY <1>2, <1>3, <1>4, <2>1 DEF ObjectsInv, ObjectTypes, HandlesInv
  <2>3. RegisteredInv'
    BY <1>6 DEF RegisteredInv
  <2> QED BY <2>2, <2>3 DEF ObjectsInv
<1>7. CASE ~exited
  <2>1. Unregister(w)
    BY <1>7
  <2>2. registry \in [objects : [Kinds -> SUBSET [handle : Nat, of : Wrappers]],
                      next : Nat]
    BY DEF ObjectsInv, ObjectTypes
  <2>3. registry' = [objects |-> [registry.objects EXCEPT
                                    ![kind] = registry.objects[kind] \ Object(w)],
                     next |-> registry.next]
    BY <2>1, <2>2 DEF Unregister
  <2>4. registry'.next = registry.next
        /\ \A k \in Kinds : registry'.objects[k] = IF k = kind
                  THEN registry.objects[k] \ Object(w) ELSE registry.objects[k]
    BY <2>2, <2>3
  <2>5. ObjectTypes'
    <3>1. [registry.objects EXCEPT ![kind] = registry.objects[kind] \ Object(w)]
            \in [Kinds -> SUBSET [handle : Nat, of : Wrappers]]
      BY <1>5, <2>2
    <3> QED BY <1>4, <2>2, <2>3, <3>1 DEF ObjectTypes
  <2>6. HandlesInv'
    BY <1>2, <1>3, <2>4 DEF ObjectsInv, ObjectTypes, HandlesInv
  <2>7. ASSUME NEW k \in Kinds
        PROVE  /\ \A f \in registry'.objects[k] : f.of \in Owning(k)' /\ f = Entry(f.of)'
               /\ \A x \in Owning(k)' : Entry(x)' \in registry'.objects[k]
    <3>1. /\ \A f \in registry.objects[k] : f.of \in Owning(k) /\ f = Entry(f.of)
          /\ \A x \in Owning(k) : Entry(x) \in registry.objects[k]
      BY <1>7 DEF ObjectsInv, RegisteredInv
    <3>2. \A x \in Owning(k) \ {w} : Entry(x)' = Entry(x)
      BY <1>3 DEF Entry, Owning
    <3>3. Owning(k)' = Owning(k) \ {w}
      BY <1>2, <1>3 DEF Owning
    <3>4. k = kind => \A x \in Owning(k) : Entry(x) \in Object(w) <=> x = w
      BY <3>1 DEF Object, Registered, Entry, Owning, ObjectsInv, HandlesInv
    <3>5. k # kind => w \notin Owning(k)
      BY DEF Owning
    <3>6. ASSUME NEW f \in registry'.objects[k]
          PROVE  /\ f \in registry.objects[k] /\ f.of \in Owning(k) \ {w}
                 /\ f = Entry(f.of)
      <4>1. f \in registry.objects[k] /\ f.of \in Owning(k) /\ f = Entry(f.of)
        BY <2>4, <3>1
      <4>2. f.of # w
        <5>1. CASE k = kind
          BY <2>4, <3>4, <4>1, <5>1
        <5>2. CASE k # kind
          BY <3>5, <4>1, <5>2
        <5> QED BY <5>1, <5>2
      <4> QED BY <4>1, <4>2
    <3>7. ASSUME NEW f \in registry'.objects[k]
          PROVE  f.of \in Owning(k)' /\ f = Entry(f.of)'
      <4>1. PICK x \in Owning(k) \ {w} : x = f.of
        BY <3>6
      <4>2. f = Entry(x) /\ x \in Owning(k)'
        BY <3>3, <3>6, <4>1
      <4>3. f = Entry(x)'
        BY <3>2, <4>2
      <4> QED BY <4>1, <4>2, <4>3 DEF Entry
    <3>8. ASSUME NEW x \in Owning(k)'
          PROVE  Entry(x)' \in registry'.objects[k]
      <4>1. x \in Owning(k) /\ x # w
        BY <3>3
      <4>2. Entry(x) \in registry'.objects[k]
        BY <2>4, <3>1, <3>4, <4>1
      <4> QED BY <3>2, <4>1, <4>2
    <3> QED BY <3>7, <3>8
  <2> QED BY <2>5, <2>6, <2>7 DEF ObjectsInv, RegisteredInv
<1> QED BY <1>6, <1>7

LEMMA DropObjects ==
    ASSUME ObjectsInv, NEW w \in Wrappers, Dropped(w)
    PROVE  ObjectsInv' /\ \A x \in Wrappers :
                             wrapper'[x].state = "none" <=> wrapper[x].state = "none"
<1> DEFINE state == IF wrapper[w].state = "live" THEN "collected" ELSE "gone"
           r == [wrapper[w] EXCEPT !.state = state]
<1>1. wrapper[w] \in [state : {"none", "live", "freed", "collected", "gone"},
                      kind : Kinds \cup {"none"}, handle : Nat]
  BY DEF ObjectsInv, ObjectTypes
<1>2. wrapper' = [wrapper EXCEPT ![w] = r] /\ wrapper[w].state \in {"live", "freed"}
  BY <1>1 DEF Dropped
<1>3. r.state = state /\ r.kind = wrapper[w].kind /\ r.handle = wrapper[w].handle
      /\ r \in [state : {"none", "live", "freed", "collected", "gone"},
                kind : Kinds \cup {"none"}, handle : Nat]
  BY <1>1
<1> HIDE DEF r
<1>4. wrapper'[w] = r /\ \A x \in Wrappers : x # w => wrapper'[x] = wrapper[x]
  BY <1>2 DEF ObjectsInv, ObjectTypes
<1>5. UNCHANGED <<registry, load, exited>>
  BY DEF Dropped
<1>6. \A x \in Wrappers :
        /\ wrapper'[x].kind = wrapper[x].kind /\ wrapper'[x].handle = wrapper[x].handle
        /\ wrapper'[x].state = "none" <=> wrapper[x].state = "none"
        /\ wrapper'[x].state \in {"live", "collected"}
             <=> wrapper[x].state \in {"live", "collected"}
  BY <1>2, <1>3, <1>4
<1>7. ObjectTypes'
  BY <1>2, <1>3, <1>5 DEF ObjectsInv, ObjectTypes
<1>8. HandlesInv'
  BY <1>5, <1>6 DEF ObjectsInv, HandlesInv
<1>9. RegisteredInv'
  BY <1>5, <1>6 DEF ObjectsInv, RegisteredInv, Owning, Entry
<1> QED BY <1>6, <1>7, <1>8, <1>9 DEF ObjectsInv

LEMMA NoObjects ==
    ASSUME \A w \in Wrappers : wrapper[w].state = "none",
           \A k \in Kinds : registry.objects[k] = {}
    PROVE  RegisteredInv
BY DEF RegisteredInv, Owning

LEMMA FrameState ==
    ASSUME CallsInv, GoRuns
    PROVE  /\ load.promise = "done" /\ ~exited /\ stack # << >>
           /\ Len(stack) \in 1..Len(stack) /\ Len(stack) - 1 \in 0..Len(stack)
           /\ Top \in Frames
<1>1. stack \in Seq(Frames) /\ Len(stack) \in Nat /\ Len(stack) # 0
  BY DEF CallsInv, StackInv, GoRuns
<1>2. Len(stack) \in 1..Len(stack) /\ Len(stack) - 1 \in 0..Len(stack)
  BY <1>1
<1>3. Top \in Frames
  BY <1>1, <1>2, ElementOfSeq DEF Top
<1>4. stack # << >>
  BY <1>1, EmptySeq
<1> QED BY <1>2, <1>3, <1>4 DEF CallsInv, StartedInv

LEMMA InitObjects == Init => ObjectsInv /\ PlansInv
<1>1. SUFFICES ASSUME Init PROVE ObjectsInv /\ PlansInv
  OBVIOUS
<1>2. /\ wrapper = [w \in Wrappers |-> NoWrapper]
      /\ registry = [objects |-> [k \in Kinds |-> {}], next |-> 1]
  BY <1>1 DEF Init
<1>3. \A w \in Wrappers : wrapper[w].state = "none"
  BY <1>2 DEF NoWrapper
<1>4. RegisteredInv
  BY <1>2, <1>3, NoObjects
<1>5. ObjectTypes
  <2>1. [k \in Kinds |-> {}] \in [Kinds -> SUBSET [handle : Nat, of : Wrappers]]
    OBVIOUS
  <2> QED BY <1>2, <2>1 DEF ObjectTypes, NoWrapper
<1>6. HandlesInv
  BY <1>3 DEF HandlesInv
<1>7. Len(stack) = 0
  BY <1>1, EmptySeq DEF Init
<1> QED BY <1>4, <1>5, <1>6, <1>7 DEF ObjectsInv, PlansInv

LEMMA ObjectsStep ==
    ASSUME CallsInv, ObjectsInv, PlansInv, Next
    PROVE  ObjectsInv'
<1>1. CASE Loads
  <2>1. UNCHANGED <<registry, wrapper, exited>> /\ load.promise # "done"
    BY <1>1 DEF Loads, InitCalled, LoadFailed, LoadHangs
  <2> QED BY <2>1, SameObjects
<1>2. CASE Loaded
  <2>1. /\ registry' = [objects |-> [k \in Kinds |-> {}], next |-> 1]
        /\ UNCHANGED wrapper /\ load.promise = "pending"
    BY <1>2 DEF Loaded
  <2>2. \A w \in Wrappers : wrapper'[w].state = "none"
    BY <2>1 DEF ObjectsInv, HandlesInv
  <2>3. RegisteredInv'
    BY <2>1, <2>2 DEF RegisteredInv, Owning
  <2>4. ObjectTypes'
    <3>1. [k \in Kinds |-> {}] \in [Kinds -> SUBSET [handle : Nat, of : Wrappers]]
      OBVIOUS
    <3> QED BY <2>1, <3>1 DEF ObjectsInv, ObjectTypes
  <2>5. HandlesInv'
    BY <2>2 DEF HandlesInv
  <2> QED BY <2>3, <2>4, <2>5 DEF ObjectsInv
<1>3. CASE Reads \/ Starts \/ Ends \/ CallsBackInto \/ Timeouts \/ TimeoutFires
  <2>1. UNCHANGED <<registry, wrapper, exited, load>>
    BY <1>3 DEF Reads, GoReceives, FinalizeRef, Starts, Ends, CallsBackInto,
       Timeouts, TimeoutScheduled, TimeoutCleared, TimeoutFires
  <2> QED BY <2>1, SameObjects
<1>4. CASE Makes
  <2>1. PICK w \in Wrappers, kind \in Kinds : New(w, kind)
    BY <1>4 DEF Makes
  <2> QED BY <2>1, RegisterObjects DEF New, Callable, Unmade
<1>5. CASE Frees
  <2>1. PICK w \in Wrappers, kind \in Kinds : Free(w, kind) \/ Finalize(w, kind)
    BY <1>5 DEF Frees
  <2>2. CASE Free(w, kind)
    BY <2>2, UnregisterObjects DEF Free
  <2>3. CASE Finalize(w, kind)
    BY <2>3, UnregisterObjects DEF Finalize
  <2> QED BY <2>1, <2>2, <2>3
<1>6. CASE Drops
  BY <1>6, DropObjects DEF Drops
<1>7. CASE Dies
  <2>1. /\ registry' = [registry EXCEPT !.objects = [k \in Kinds |-> {}]]
        /\ UNCHANGED <<load, wrapper>> /\ exited'
    BY <1>7 DEF Dies, Exit
  <2>2. registry' = [objects |-> [k \in Kinds |-> {}], next |-> registry.next]
    BY <2>1 DEF ObjectsInv, ObjectTypes
  <2>3. [k \in Kinds |-> {}] \in [Kinds -> SUBSET [handle : Nat, of : Wrappers]]
    OBVIOUS
  <2>4. ObjectTypes' /\ HandlesInv'
    BY <2>1, <2>2, <2>3 DEF ObjectsInv, ObjectTypes, HandlesInv
  <2> QED BY <2>1, <2>4 DEF ObjectsInv, RegisteredInv
<1>8. CASE PlanMade
  <2>1. load.promise = "done" /\ ~exited /\ Len(stack) \in 1..Len(stack)
    BY <1>8, FrameState DEF PlanMade
  <2>2. Top.makes \in Wrappers /\ wrapper[Top.makes].state = "none"
    BY <1>8, <2>1 DEF PlanMade, Top, PlansInv
  <2>3. "plan" \in Kinds /\ UNCHANGED load
    BY <1>8 DEF Kinds, PlanMade
  <2> QED BY <1>8, <2>1, <2>2, <2>3, RegisterObjects DEF PlanMade
<1> QED BY <1>1, <1>2, <1>3, <1>4, <1>5, <1>6, <1>7, <1>8, NextShape

LEMMA PlansStep ==
    ASSUME CallsInv, ObjectsInv, PlansInv, Next
    PROVE  PlansInv'
<1>1. CASE Loads \/ Loaded \/ Reads \/ Timeouts
  <2>1. UNCHANGED <<wrapper, stack>>
    BY <1>1 DEF Loads, InitCalled, LoadFailed, LoadHangs, Loaded, Reads, GoReceives,
       FinalizeRef, Timeouts, TimeoutScheduled, TimeoutCleared
  <2> QED BY <2>1 DEF PlansInv
<1>2. CASE Starts
  BY <1>2, PushPlans DEF Starts
<1>3. CASE Ends
  BY <1>3, CutPlans DEF Ends
<1>4. CASE CallsBackInto
  <2>1. Nobody \notin Wrappers /\ "callback" \in Ops
    BY ConstantsAssumption DEF Ops
  <2>2. Push("js", Ops)
    BY <1>4, <2>1 DEF CallsBackInto, Push
  <2> QED BY <1>4, <2>2, PushPlans DEF CallsBackInto
<1>5. CASE TimeoutFires
  <2>1. Nobody \notin Wrappers
    BY ConstantsAssumption
  <2>2. CASE exited
    BY <1>5, <2>2 DEF TimeoutFires, PlansInv
  <2>3. CASE ~exited
    BY <1>5, <2>1, <2>3 DEF TimeoutFires, PlansInv, Frame
  <2> QED BY <2>2, <2>3
<1>6. CASE Dies
  <2>1. Len(stack') = 0
    BY <1>6, EmptySeq DEF Dies, Exit
  <2> QED BY <2>1 DEF PlansInv
<1>7. CASE Makes
  <2>1. PICK w \in Wrappers, kind \in Kinds : New(w, kind)
    BY <1>7 DEF Makes
  <2>2. UNCHANGED stack /\ \A x \in Wrappers : x # w => wrapper'[x] = wrapper[x]
    BY <2>1 DEF New, Register, ObjectsInv, ObjectTypes
  <2>3. \A i \in 1..Len(stack) : stack[i].makes # w
    BY <2>1 DEF New, Unmade
  <2> QED BY <2>2, <2>3 DEF PlansInv
<1>8. CASE Frees
  <2>1. PICK w \in Wrappers : /\ UNCHANGED stack /\ wrapper[w].state # "none"
                              /\ \A x \in Wrappers : x # w => wrapper'[x] = wrapper[x]
    BY <1>8 DEF Frees, Free, Finalize, ObjectsInv, ObjectTypes
  <2> QED BY <2>1 DEF PlansInv
<1>9. CASE Drops
  BY <1>9, DropObjects DEF Drops, Dropped, PlansInv
<1>10. CASE PlanMade
  <2>1. /\ stack # << >> /\ Len(stack) \in 1..Len(stack)
        /\ Len(stack) - 1 \in 0..Len(stack)
    BY <1>10, FrameState DEF PlanMade
  <2>2. /\ Len(stack') = Len(stack) - 1
        /\ \A i \in 1..(Len(stack) - 1) : stack'[i] = stack[i]
    BY <1>10, <2>1, CutOff DEF PlanMade, Pop
  <2>3. Top.makes \in Wrappers
    BY <1>10, <2>1 DEF PlanMade, Top, PlansInv
  <2>4. \A x \in Wrappers : x # Top.makes => wrapper'[x] = wrapper[x]
    BY <1>10 DEF PlanMade, Register, ObjectsInv, ObjectTypes
  <2>5. \A i \in 1..Len(stack') :
          /\ i \in 1..Len(stack) /\ stack'[i] = stack[i]
          /\ stack[i].makes \in Wrappers => stack[i].makes # Top.makes
    BY <2>1, <2>2 DEF PlansInv, Top
  <2> QED BY <2>4, <2>5 DEF PlansInv
<1> QED BY <1>1, <1>2, <1>3, <1>4, <1>5, <1>6, <1>7, <1>8, <1>9, <1>10, NextShape

-----------------------------------------------------------------------------
(* The references.                                                         *)
LEMMA PutIn ==
    ASSUME NEW S, NEW q \in Seq(S), NEW x \in S, NEW id \in 1..(Len(q) + 1), NEW p,
           p = IF id <= Len(q) THEN [q EXCEPT ![id] = x] ELSE Append(q, x)
    PROVE  /\ p \in Seq(S) /\ p[id] = x
           /\ Len(p) = IF id <= Len(q) THEN Len(q) ELSE Len(q) + 1
           /\ \A j \in 1..Len(q) : j # id => p[j] = q[j]
<1>1. Len(q) \in Nat
  OBVIOUS
<1>2. CASE id <= Len(q)
  <2>1. id \in 1..Len(q)
    BY <1>1, <1>2
  <2> QED BY <1>2, <2>1, ExceptSeq
<1>3. CASE id = Len(q) + 1
  BY <1>1, <1>3
<1> QED BY <1>1, <1>2, <1>3

Fresh == table = FreshTable /\ held = [s \in Slots |-> NoRef]
LEMMA FreshRefs == Fresh => RefsInv
<1> SUFFICES ASSUME Fresh PROVE RefsInv
  OBVIOUS
<1> USE DEF Fresh
<1>1. /\ table.vals = <<Global>> /\ table.counts = <<Infinity>> /\ table.pool = << >>
      /\ table.ids = [v \in Stored |-> IF v = Global THEN 1 ELSE 0]
      /\ table = [vals |-> table.vals, counts |-> table.counts, ids |-> table.ids,
                  pool |-> table.pool]
  BY DEF FreshTable, Stored
<1>2. /\ Len(table.vals) = 1 /\ Len(table.counts) = 1 /\ Len(table.pool) = 0
      /\ table.vals[1] = Global /\ table.counts[1] = Infinity /\ Global \in Stored
      /\ Ids = {1} /\ Global # Null
  BY <1>1, NullAssumption DEF Ids, Stored
<1>3. RefTypes
  <2>1. table.vals \in Seq(Stored \cup {Null}) /\ table.counts \in Seq(Int)
        /\ table.pool \in Seq(Nat)
    BY <1>1, <1>2 DEF Infinity
  <2>2. table.ids \in [Stored -> Nat]
    BY <1>1
  <2>3. table \in [vals : Seq(Stored \cup {Null}), counts : Seq(Int),
                   ids : [Stored -> Nat], pool : Seq(Nat)]
    BY <1>1, <2>1, <2>2
  <2> QED BY <1>2, <2>3 DEF RefTypes, NoRef
<1>4. IdsInv
  BY <1>1, <1>2 DEF IdsInv
<1>5. PoolInv /\ CountsInv
  BY <1>2 DEF PoolInv, CountsInv
<1>6. HeldInv
  BY DEF HeldInv
<1> QED BY <1>3, <1>4, <1>5, <1>6 DEF RefsInv

(* An id Go has is never 0, so a free reference counts for none.           *)
LEMMA HoldingEffect ==
    ASSUME RefsInv, NEW s \in Slots, NEW n \in Nat, NEW v,
           held' = [held EXCEPT ![s] = [id |-> n, of |-> v]]
    PROVE  \A j : Holding(j)' = IF j = n THEN Holding(j) \cup {s} ELSE Holding(j) \ {s}
BY DEF RefsInv, RefTypes, Holding

LEMMA StoreKnown ==
    ASSUME RefsInv, NEW s \in Slots, held[s] = NoRef, NEW v \in Stored,
           table.ids[v] # 0, StoreValue(s, v)
    PROVE  RefsInv'
<1>0. PICK id \in Nat : id = table.ids[v]
  BY DEF RefsInv, RefTypes
<1>1. id \in Ids /\ table.vals[id] = v /\ v # Null
  BY <1>0, NullAssumption DEF RefsInv, IdsInv, Stored
<1>2. table \in [vals : Seq(Stored \cup {Null}), counts : Seq(Int),
                 ids : [Stored -> Nat], pool : Seq(Nat)]
      /\ Len(table.counts) = Len(table.vals) /\ id \in 1..Len(table.counts)
  BY <1>1 DEF RefsInv, RefTypes, Ids
<1>3. /\ table' = [table EXCEPT !.counts[id] = Inc(@)]
      /\ held' = [held EXCEPT ![s] = [id |-> id, of |-> v]]
  BY <1>0 DEF StoreValue
<1> DEFINE n == Inc(table.counts[id])
           counts == [table.counts EXCEPT ![id] = n]
<1>4. table.counts[id] \in Int /\ n \in Int
  BY <1>2 DEF Inc, Infinity
<1>5. /\ counts \in Seq(Int) /\ Len(counts) = Len(table.counts) /\ counts[id] = n
      /\ \A j \in 1..Len(counts) : j # id => counts[j] = table.counts[j]
  BY <1>2, <1>4, ExceptSeq
<1>6. table' = [vals |-> table.vals, counts |-> counts, ids |-> table.ids,
               pool |-> table.pool]
  BY <1>2, <1>3
<1> HIDE DEF counts, n
<1>7. /\ UNCHANGED <<table.vals, table.ids, table.pool, Ids>> /\ table'.counts = counts
      /\ \A j \in Ids : table'.counts[j] = IF j = id THEN n ELSE table.counts[j]
  BY <1>2, <1>5, <1>6 DEF Ids
<1>8. RefTypes'
  <2>1. table' \in [vals : Seq(Stored \cup {Null}), counts : Seq(Int),
                    ids : [Stored -> Nat], pool : Seq(Nat)]
    BY <1>2, <1>5, <1>6
  <2>2. held' \in [Slots -> [id : Nat, of : Stored \cup {Null}]]
    BY <1>1, <1>3 DEF RefsInv, RefTypes, Ids
  <2> QED BY <1>2, <1>5, <1>7, <2>1, <2>2 DEF RefsInv, RefTypes
<1>9. IdsInv' /\ PoolInv'
  <2>1. 1 \in Ids /\ table'.counts[1] = Infinity
    <3>1. 1 \in Ids /\ table.counts[1] = Infinity
      BY DEF RefsInv, RefTypes, IdsInv, Ids
    <3> QED BY <1>7, <3>1 DEF n, Inc
  <2> QED BY <1>7, <2>1 DEF RefsInv, IdsInv, PoolInv
<1>10. CountsInv'
  <2>1. /\ s \notin Holding(id) /\ Holding(id)' = Holding(id) \cup {s}
        /\ \A j \in Ids : j # id => Holding(j)' = Holding(j)
    <3>1. \A j \in Ids : s \notin Holding(j)
      BY DEF Holding, NoRef, Ids
    <3>2. \A j \in Ids : Holding(j)' = IF j = id THEN Holding(j) \cup {s}
                                       ELSE Holding(j) \ {s}
      BY <1>3, HoldingEffect
    <3> QED BY <1>1, <3>1, <3>2
  <2>2. ASSUME id # 1
        PROVE  /\ IsFiniteSet(Holding(id)') /\ n = Cardinality(Holding(id)')
               /\ n # 0
    <3>1. IsFiniteSet(Holding(id)) /\ table.counts[id] = Cardinality(Holding(id))
      BY <1>1, <2>2 DEF RefsInv, CountsInv
    <3>2. Cardinality(Holding(id)) \in Nat
      BY <3>1, FS_CardinalityType
    <3>3. n = Cardinality(Holding(id)) + 1
      BY <3>1, <3>2 DEF n, Inc, Infinity
    <3> QED BY <2>1, <3>1, <3>2, <3>3, FS_AddElement
  <2>3. ASSUME NEW j \in Ids \ {1}
        PROVE  /\ IsFiniteSet(Holding(j)')
               /\ table'.counts[j] = Cardinality(Holding(j)')
               /\ table'.vals[j] # Null <=> table'.counts[j] # 0
    BY <1>1, <1>7, <2>1, <2>2 DEF RefsInv, CountsInv
  <2> QED BY <1>7, <2>3 DEF CountsInv
<1>11. HeldInv'
  BY <1>1, <1>3, <1>7 DEF RefsInv, RefTypes, HeldInv
<1> QED BY <1>8, <1>9, <1>10, <1>11 DEF RefsInv

(* A value that is not stored gets an id no reference has.                 *)
LEMMA NewIdEffect ==
    ASSUME RefsInv, NEW id, id = NewId
    PROVE  /\ id \in 1..(Len(table.vals) + 1) /\ id # 1 /\ id \in Nat
           /\ id \in Ids => table.vals[id] = Null
           /\ Holding(id) = {}
           /\ IF table.pool = << >> THEN id = Len(table.vals) + 1
              ELSE Len(table.pool) \in 1..Len(table.pool) /\ id = table.pool[Len(table.pool)]
<1>1. /\ Len(table.vals) \in Nat \ {0} /\ 1 \in Ids /\ Ids \subseteq Nat
      /\ table.pool \in Seq(Nat)
  BY DEF RefsInv, RefTypes, Ids
<1>2. CASE table.pool # << >>
  <2>1. Len(table.pool) \in 1..Len(table.pool) /\ id = table.pool[Len(table.pool)]
    BY <1>1, <1>2 DEF NewId
  <2>2. id \in Ids /\ table.vals[id] = Null
    BY <2>1 DEF RefsInv, PoolInv
  <2>3. id # 1
    BY <2>2, NullAssumption DEF RefsInv, IdsInv, Stored
  <2>4. IsFiniteSet(Holding(id)) /\ Cardinality(Holding(id)) = 0
    BY <2>2, <2>3 DEF RefsInv, CountsInv
  <2>5. Holding(id) = {}
    BY <2>4, FS_EmptySet
  <2> QED BY <1>1, <1>2, <2>1, <2>2, <2>3, <2>5 DEF Ids
<1>3. CASE table.pool = << >>
  <2>1. id = Len(table.vals) + 1
    BY <1>3 DEF NewId
  <2>2. id \notin Ids /\ id # 0
    BY <1>1, <2>1 DEF Ids
  <2>3. Holding(id) = {}
    BY <2>2 DEF RefsInv, HeldInv, Holding, NoRef
  <2> QED BY <1>1, <1>3, <2>1, <2>2, <2>3
<1> QED BY <1>2, <1>3

LEMMA StoreNew ==
    ASSUME RefsInv, NEW s \in Slots, held[s] = NoRef, NEW v \in Stored,
           table.ids[v] = 0, StoreValue(s, v)
    PROVE  RefsInv'
<1>0. PICK id : id = NewId
  OBVIOUS
<1>1. /\ id \in 1..(Len(table.vals) + 1) /\ id # 1 /\ id \in Nat
      /\ id \in Ids => table.vals[id] = Null
      /\ Holding(id) = {}
      /\ IF table.pool = << >> THEN id = Len(table.vals) + 1
         ELSE Len(table.pool) \in 1..Len(table.pool) /\ id = table.pool[Len(table.pool)]
  BY <1>0, NewIdEffect
<1>2. /\ table \in [vals : Seq(Stored \cup {Null}), counts : Seq(Int),
                    ids : [Stored -> Nat], pool : Seq(Nat)]
      /\ Len(table.counts) = Len(table.vals) /\ Len(table.vals) \in Nat \ {0}
      /\ v # Null /\ 1 \in Ids
  BY NullAssumption DEF RefsInv, RefTypes, Stored, Ids
<1> DEFINE vals == IF id <= Len(table.vals) THEN [table.vals EXCEPT ![id] = v]
                                            ELSE Append(table.vals, v)
           counts == IF id <= Len(table.counts) THEN [table.counts EXCEPT ![id] = 1]
                                                ELSE Append(table.counts, 1)
           ids == [table.ids EXCEPT ![v] = id]
           pool == IF table.pool = << >> THEN << >>
                   ELSE SubSeq(table.pool, 1, Len(table.pool) - 1)
<1>3. /\ table' = [vals |-> vals, counts |-> counts, ids |-> ids, pool |-> pool]
      /\ held' = [held EXCEPT ![s] = [id |-> id, of |-> v]]
  BY <1>0 DEF StoreValue
<1>4. /\ vals \in Seq(Stored \cup {Null}) /\ vals[id] = v
      /\ Len(vals) = IF id <= Len(table.vals) THEN Len(table.vals) ELSE Len(table.vals) + 1
      /\ \A j \in 1..Len(table.vals) : j # id => vals[j] = table.vals[j]
  <2> HIDE DEF vals
  <2>1. vals = IF id <= Len(table.vals) THEN [table.vals EXCEPT ![id] = v]
                                        ELSE Append(table.vals, v)
    BY DEF vals
  <2>2. PICK S : S = Stored \cup {Null}
    OBVIOUS
  <2>3. table.vals \in Seq(S) /\ v \in S
    BY <1>2, <2>2
  <2>4. /\ vals \in Seq(S) /\ vals[id] = v
        /\ Len(vals) = IF id <= Len(table.vals) THEN Len(table.vals)
                                                ELSE Len(table.vals) + 1
        /\ \A j \in 1..Len(table.vals) : j # id => vals[j] = table.vals[j]
    BY <1>1, <2>1, <2>3, PutIn
  <2> QED BY <2>2, <2>4
<1>5. /\ counts \in Seq(Int) /\ counts[id] = 1
      /\ Len(counts) = IF id <= Len(table.vals) THEN Len(table.vals) ELSE Len(table.vals) + 1
      /\ \A j \in 1..Len(table.vals) : j # id => counts[j] = table.counts[j]
  <2>1. table.counts \in Seq(Int) /\ 1 \in Int /\ id \in 1..(Len(table.counts) + 1)
    BY <1>1, <1>2
  <2> HIDE DEF counts
  <2>2. counts = IF id <= Len(table.counts) THEN [table.counts EXCEPT ![id] = 1]
                                            ELSE Append(table.counts, 1)
    BY DEF counts
  <2>3. /\ counts \in Seq(Int) /\ counts[id] = 1
        /\ Len(counts) = IF id <= Len(table.counts) THEN Len(table.counts)
                                                    ELSE Len(table.counts) + 1
        /\ \A j \in 1..Len(table.counts) : j # id => counts[j] = table.counts[j]
    BY <2>1, <2>2, PutIn
  <2> QED BY <1>2, <2>3
<1>6. ids \in [Stored -> Nat] /\ ids[v] = id
      /\ \A x \in Stored : x # v => ids[x] = table.ids[x]
  BY <1>1, <1>2
<1>7. /\ pool \in Seq(Nat) /\ Len(pool) \in Nat
      /\ \A i \in 1..Len(pool) : i \in 1..Len(table.pool) /\ pool[i] = table.pool[i]
      /\ \A i \in 1..Len(table.pool) : i \in 1..Len(pool) \/ table.pool[i] = id
      /\ table.pool # << >> => Len(pool) = Len(table.pool) - 1
  <2>1. CASE table.pool = << >>
    BY <2>1
  <2>2. CASE table.pool # << >>
    <3>1. /\ table.pool \in Seq(Nat) /\ Len(table.pool) \in Nat \ {0}
          /\ \A i \in 1..(Len(table.pool) - 1) : table.pool[i] \in Nat
      BY <1>2, <2>2, EmptySeq
    <3>2. /\ pool \in Seq(Nat) /\ Len(pool) = Len(table.pool) - 1
          /\ \A i \in 1..(Len(table.pool) - 1) : pool[i] = table.pool[i]
      BY <2>2, <3>1, SubSeqProperties
    <3> QED BY <1>1, <2>2, <3>1, <3>2
  <2> QED BY <2>1, <2>2
<1> HIDE DEF vals, counts, ids, pool
<1>8. /\ table'.vals = vals /\ table'.counts = counts /\ table'.ids = ids
      /\ table'.pool = pool
  BY <1>3
<1>9. Ids' = Ids \cup {id} /\ Ids' = 1..Len(vals) /\ id \in Ids'
  BY <1>1, <1>2, <1>4, <1>8 DEF Ids
<1>10. RefTypes'
  <2>1. table' \in [vals : Seq(Stored \cup {Null}), counts : Seq(Int),
                    ids : [Stored -> Nat], pool : Seq(Nat)]
    BY <1>3, <1>4, <1>5, <1>6, <1>7
  <2>2. held' \in [Slots -> [id : Nat, of : Stored \cup {Null}]]
    BY <1>1, <1>3 DEF RefsInv, RefTypes
  <2> QED BY <1>2, <1>4, <1>5, <1>8, <2>1, <2>2 DEF RefTypes
<1>11. IdsInv'
  <2>1. vals[1] = Global /\ counts[1] = Infinity
    BY <1>1, <1>2, <1>4, <1>5 DEF RefsInv, IdsInv, Ids
  <2>2. ASSUME NEW x \in Stored, ids[x] # 0
        PROVE  ids[x] \in Ids' /\ vals[ids[x]] = x
    <3>1. CASE x = v
      BY <1>4, <1>6, <1>9, <3>1
    <3>2. CASE x # v
      <4>1. ids[x] = table.ids[x] /\ ids[x] \in Ids /\ table.vals[ids[x]] = x
        BY <1>6, <2>2, <3>2 DEF RefsInv, IdsInv
      <4>2. ids[x] # id
        BY <1>1, <4>1, NullAssumption DEF Stored
      <4> QED BY <1>4, <1>9, <4>1, <4>2 DEF Ids
    <3> QED BY <3>1, <3>2
  <2>3. ASSUME NEW j \in Ids', vals[j] # Null
        PROVE  ids[vals[j]] = j
    <3>1. CASE j = id
      BY <1>4, <1>6, <3>1
    <3>2. CASE j # id
      <4>1. j \in Ids /\ vals[j] = table.vals[j]
        BY <1>4, <1>9, <3>2 DEF Ids
      <4>2. table.ids[vals[j]] = j /\ j # 0 /\ vals[j] \in Stored
        BY <1>2, <2>3, <4>1 DEF RefsInv, IdsInv, Ids
      <4> QED BY <1>6, <4>2
    <3> QED BY <3>1, <3>2
  <2> QED BY <1>8, <2>1, <2>2, <2>3 DEF IdsInv
<1>12. PoolInv'
  <2>1. ASSUME NEW j \in Ids', vals[j] = Null
        PROVE  \E i \in 1..Len(pool) : pool[i] = j
    <3>1. j # id
      BY <1>2, <1>4, <2>1
    <3>2. j \in Ids /\ table.vals[j] = Null
      BY <1>4, <1>9, <2>1, <3>1 DEF Ids
    <3>3. PICK i \in 1..Len(table.pool) : table.pool[i] = j
      BY <3>2 DEF RefsInv, PoolInv
    <3>4. i \in 1..Len(pool) \/ table.pool[i] = id
      BY <1>7
    <3>5. i \in 1..Len(pool)
      BY <3>1, <3>3, <3>4
    <3>6. pool[i] = table.pool[i]
      BY <1>7, <3>5
    <3> QED BY <3>3, <3>5, <3>6
  <2>2. ASSUME NEW i \in 1..Len(pool)
        PROVE  pool[i] \in Ids' /\ vals[pool[i]] = Null
    <3>1. /\ i \in 1..Len(table.pool) /\ pool[i] = table.pool[i]
          /\ pool[i] \in Ids /\ table.vals[pool[i]] = Null
      <4>1. i \in 1..Len(table.pool) /\ pool[i] = table.pool[i]
        BY <1>7
      <4>2. \A k \in 1..Len(table.pool) :
              table.pool[k] \in Ids /\ table.vals[table.pool[k]] = Null
        BY DEF RefsInv, PoolInv
      <4> QED BY <4>1, <4>2
    <3>2. pool[i] # id
      <4>1. CASE table.pool = << >>
        BY <1>1, <3>1, <4>1
      <4>2. CASE table.pool # << >>
        BY <1>1, <1>7, <3>1, <4>2 DEF RefsInv, PoolInv
      <4> QED BY <4>1, <4>2
    <3> QED BY <1>4, <1>9, <3>1, <3>2 DEF Ids
  <2>3. \A i, j \in 1..Len(pool) : pool[i] = pool[j] => i = j
    BY <1>7 DEF RefsInv, PoolInv
  <2> QED BY <1>8, <2>1, <2>2, <2>3 DEF PoolInv
<1>13. \A j : Holding(j)' = IF j = id THEN Holding(j) \cup {s} ELSE Holding(j) \ {s}
  BY <1>1, <1>3, HoldingEffect
<1>14. CountsInv'
  <2>1. IsFiniteSet(Holding(id)') /\ Cardinality(Holding(id)') = 1
    <3>1. Holding(id)' = {s}
      BY <1>1, <1>13
    <3> QED BY <3>1, FS_Singleton
  <2>2. ASSUME NEW j \in Ids' \ {1}
        PROVE  /\ IsFiniteSet(Holding(j)') /\ counts[j] = Cardinality(Holding(j)')
               /\ vals[j] # Null <=> counts[j] # 0
    <3>1. CASE j = id
      BY <1>2, <1>4, <1>5, <2>1, <3>1
    <3>2. CASE j # id
      <4>1. j \in Ids \ {1} /\ vals[j] = table.vals[j] /\ counts[j] = table.counts[j]
        BY <1>4, <1>5, <1>9, <3>2 DEF Ids
      <4>2. s \notin Holding(j)
        BY <4>1 DEF Holding, NoRef, Ids
      <4>3. Holding(j)' = Holding(j)
        BY <1>13, <3>2, <4>2
      <4> QED BY <4>1, <4>3 DEF RefsInv, CountsInv
    <3> QED BY <3>1, <3>2
  <2> QED BY <1>8, <2>2 DEF CountsInv
<1>15. HeldInv'
  <2>1. held'[s] = [id |-> id, of |-> v] /\ \A t \in Slots : t # s => held'[t] = held[t]
    BY <1>3 DEF RefsInv, RefTypes
  <2>2. ASSUME NEW t \in Slots, held'[t] # NoRef
        PROVE  /\ held'[t].id \in Ids' /\ held'[t].of \in Stored
               /\ held'[t].of = vals[held'[t].id]
    <3>1. CASE t = s
      BY <1>4, <1>9, <2>1, <3>1
    <3>2. CASE t # s
      <4>1. /\ held'[t] = held[t] /\ held[t].id \in Ids /\ held[t].of \in Stored
            /\ held[t].of = table.vals[held[t].id] /\ held[t].id # id
        BY <1>1, <2>1, <2>2, <3>2 DEF RefsInv, HeldInv, Holding
      <4> QED BY <1>4, <1>9, <4>1 DEF Ids
    <3> QED BY <3>1, <3>2
  <2> QED BY <1>8, <2>2 DEF HeldInv
<1> QED BY <1>10, <1>11, <1>12, <1>14, <1>15 DEF RefsInv

(* A reference given back is no longer among those its id counts.          *)
ReferenceGone(s, id) ==
    /\ id \in Ids /\ table.vals[id] = held[s].of /\ held[s].of \in Stored
    /\ s \in Holding(id) /\ Holding(id)' = Holding(id) \ {s}
    /\ \A j \in Ids : j # id => Holding(j)' = Holding(j)
    /\ id # 1 => /\ IsFiniteSet(Holding(id)')
                 /\ Cardinality(Holding(id)') = table.counts[id] - 1
                 /\ table.counts[id] \in Nat \ {0}
    /\ held'[s] = NoRef /\ \A t \in Slots : t # s => held'[t] = held[t]
    /\ held' \in [Slots -> [id : Nat, of : Stored \cup {Null}]]

LEMMA GivenBack ==
    ASSUME RefsInv, NEW s \in Slots, FinalizeRef(s), NEW id, id = held[s].id
    PROVE  ReferenceGone(s, id)
<1>0. held[s] # NoRef /\ held' = [held EXCEPT ![s] = NoRef]
  BY DEF FinalizeRef
<1>1. id \in Ids /\ table.vals[id] = held[s].of /\ held[s].of \in Stored
  BY <1>0 DEF RefsInv, HeldInv
<1>2. /\ held'[s] = NoRef /\ \A t \in Slots : t # s => held'[t] = held[t]
      /\ held' \in [Slots -> [id : Nat, of : Stored \cup {Null}]]
  BY <1>0 DEF RefsInv, RefTypes, NoRef
<1>3. \A j \in Ids : j # 0
  BY DEF Ids
<1>4. s \in Holding(id) /\ Holding(id)' = Holding(id) \ {s}
  BY <1>0, <1>1, <1>2, <1>3 DEF Holding, NoRef
<1>5. \A j \in Ids : j # id => Holding(j)' = Holding(j)
  BY <1>1, <1>2, <1>3 DEF Holding, NoRef
<1>6. ASSUME id # 1
      PROVE  /\ IsFiniteSet(Holding(id)')
             /\ Cardinality(Holding(id)') = table.counts[id] - 1
             /\ table.counts[id] \in Nat \ {0}
  <2>1. IsFiniteSet(Holding(id)) /\ table.counts[id] = Cardinality(Holding(id))
    BY <1>1, <1>6 DEF RefsInv, CountsInv
  <2>2. Cardinality(Holding(id)) \in Nat \ {0}
    BY <1>4, <2>1, FS_CardinalityType, FS_EmptySet
  <2>3. IsFiniteSet(Holding(id) \ {s})
        /\ Cardinality(Holding(id) \ {s}) = Cardinality(Holding(id)) - 1
    BY <1>4, <2>1, FS_RemoveElement
  <2> QED BY <1>4, <2>1, <2>2, <2>3
<1> QED BY <1>1, <1>2, <1>4, <1>5, <1>6 DEF ReferenceGone

LEMMA FinalizeShared ==
    ASSUME RefsInv, NEW s \in Slots, FinalizeRef(s), table.counts[held[s].id] # 1
    PROVE  RefsInv'
<1>0. PICK id : id = held[s].id
  OBVIOUS
<1>1. /\ id \in Ids /\ table.vals[id] = held[s].of /\ held[s].of \in Stored
      /\ s \in Holding(id) /\ Holding(id)' = Holding(id) \ {s}
      /\ \A j \in Ids : j # id => Holding(j)' = Holding(j)
      /\ id # 1 => /\ IsFiniteSet(Holding(id)')
                   /\ Cardinality(Holding(id)') = table.counts[id] - 1
                   /\ table.counts[id] \in Nat \ {0}
      /\ held'[s] = NoRef /\ \A t \in Slots : t # s => held'[t] = held[t]
      /\ held' \in [Slots -> [id : Nat, of : Stored \cup {Null}]]
  <2>1. ReferenceGone(s, id)
    BY <1>0, GivenBack
  <2> QED BY <2>1 DEF ReferenceGone
<1>2. /\ table \in [vals : Seq(Stored \cup {Null}), counts : Seq(Int),
                    ids : [Stored -> Nat], pool : Seq(Nat)]
      /\ Len(table.counts) = Len(table.vals) /\ id \in 1..Len(table.counts)
      /\ 1 \in Ids /\ table.counts[1] = Infinity
  BY <1>1 DEF RefsInv, RefTypes, IdsInv, Ids
<1> DEFINE n == Dec(table.counts[id])
           counts == [table.counts EXCEPT ![id] = n]
<1>3. table' = [vals |-> table.vals, counts |-> counts, ids |-> table.ids,
               pool |-> table.pool]
  <2>1. table' = [table EXCEPT !.counts[id] = Dec(@), !.vals[id] = @, !.ids = @, !.pool = @]
    BY <1>0 DEF FinalizeRef
  <2>2. [table.vals EXCEPT ![id] = @] = table.vals
    BY <1>2
  <2> QED BY <1>2, <2>1, <2>2
<1>4. table.counts[id] \in Int /\ n \in Int
  BY <1>2 DEF Dec, Infinity
<1>5. /\ counts \in Seq(Int) /\ Len(counts) = Len(table.counts) /\ counts[id] = n
      /\ \A j \in 1..Len(counts) : j # id => counts[j] = table.counts[j]
  BY <1>2, <1>4, ExceptSeq
<1> HIDE DEF counts, n
<1>6. /\ UNCHANGED <<table.vals, table.ids, table.pool, Ids>> /\ table'.counts = counts
      /\ \A j \in Ids : table'.counts[j] = IF j = id THEN n ELSE table.counts[j]
  BY <1>2, <1>3, <1>5 DEF Ids
<1>7. RefTypes'
  <2>1. table' \in [vals : Seq(Stored \cup {Null}), counts : Seq(Int),
                    ids : [Stored -> Nat], pool : Seq(Nat)]
    BY <1>2, <1>3, <1>5
  <2> QED BY <1>1, <1>2, <1>5, <1>6, <2>1 DEF RefsInv, RefTypes
<1>8. IdsInv' /\ PoolInv'
  <2>1. table'.counts[1] = Infinity
    BY <1>2, <1>6 DEF n, Dec
  <2> QED BY <1>6, <2>1 DEF RefsInv, IdsInv, PoolInv
<1>9. CountsInv'
  <2>1. ASSUME id # 1
        PROVE  IsFiniteSet(Holding(id)') /\ n = Cardinality(Holding(id)') /\ n # 0
    BY <1>0, <1>1, <2>1 DEF n, Dec, Infinity
  <2>2. ASSUME NEW j \in Ids \ {1}
        PROVE  /\ IsFiniteSet(Holding(j)')
               /\ table'.counts[j] = Cardinality(Holding(j)')
               /\ table'.vals[j] # Null <=> table'.counts[j] # 0
    <3>1. CASE j = id
      <4>1. table.vals[id] # Null
        BY <1>1, NullAssumption DEF Stored
      <4> QED BY <1>6, <2>1, <3>1, <4>1
    <3>2. CASE j # id
      BY <1>1, <1>6, <3>2 DEF RefsInv, CountsInv
    <3> QED BY <3>1, <3>2
  <2> QED BY <1>6, <2>2 DEF CountsInv
<1>10. HeldInv'
  BY <1>1, <1>6 DEF RefsInv, HeldInv
<1> QED BY <1>7, <1>8, <1>9, <1>10 DEF RefsInv

(* With its last reference a value leaves the table and its id is pooled.  *)
LEMMA FinalizeLast ==
    ASSUME RefsInv, NEW s \in Slots, FinalizeRef(s), table.counts[held[s].id] = 1
    PROVE  RefsInv'
<1>0. PICK id : id = held[s].id
  OBVIOUS
<1>1. /\ id \in Ids /\ table.vals[id] = held[s].of /\ held[s].of \in Stored
      /\ s \in Holding(id) /\ Holding(id)' = Holding(id) \ {s}
      /\ \A j \in Ids : j # id => Holding(j)' = Holding(j)
      /\ id # 1 => /\ IsFiniteSet(Holding(id)')
                   /\ Cardinality(Holding(id)') = table.counts[id] - 1
                   /\ table.counts[id] \in Nat \ {0}
      /\ held'[s] = NoRef /\ \A t \in Slots : t # s => held'[t] = held[t]
      /\ held' \in [Slots -> [id : Nat, of : Stored \cup {Null}]]
  <2>1. ReferenceGone(s, id)
    BY <1>0, GivenBack
  <2> QED BY <2>1 DEF ReferenceGone
<1>2. /\ table \in [vals : Seq(Stored \cup {Null}), counts : Seq(Int),
                    ids : [Stored -> Nat], pool : Seq(Nat)]
      /\ Len(table.counts) = Len(table.vals) /\ Len(table.vals) \in Nat \ {0}
      /\ 1 \in Ids /\ table.counts[1] = Infinity /\ table.vals[1] = Global
  BY DEF RefsInv, RefTypes, IdsInv, Ids
<1>3. /\ id # 1 /\ id \in 1..Len(table.vals) /\ id \in 1..Len(table.counts)
      /\ id \in Nat \ {0} /\ table.counts[id] = 1
  BY <1>0, <1>1, <1>2 DEF Infinity, Ids
<1>4. PICK v \in Stored : v = table.vals[id]
  BY <1>1
<1>5. v # Null /\ v # Global /\ Global \in Stored /\ table.ids[v] = id
  <2>1. v # Null /\ Global # Null /\ Global \in Stored
    BY NullAssumption DEF Stored
  <2>2. table.ids[v] = id /\ table.ids[Global] = 1
    BY <1>1, <1>2, <1>4, <2>1 DEF RefsInv, IdsInv
  <2> QED BY <1>3, <2>1, <2>2
<1> DEFINE vals == [table.vals EXCEPT ![id] = Null]
           counts == [table.counts EXCEPT ![id] = 0]
           ids == [table.ids EXCEPT ![v] = 0]
           pool == Append(table.pool, id)
<1>6. table' = [vals |-> vals, counts |-> counts, ids |-> ids, pool |-> pool]
  <2>1. table' = [table EXCEPT !.counts[id] = Dec(@), !.vals[id] = Null,
                    !.ids = [@ EXCEPT ![v] = 0], !.pool = Append(@, id)]
    BY <1>0, <1>4 DEF FinalizeRef
  <2>2. Dec(table.counts[id]) = 0
    BY <1>3 DEF Dec, Infinity
  <2> QED BY <1>2, <2>1, <2>2
<1>7. /\ vals \in Seq(Stored \cup {Null}) /\ vals[id] = Null
      /\ Len(vals) = Len(table.vals)
      /\ \A j \in 1..Len(table.vals) : j # id => vals[j] = table.vals[j]
  BY <1>2, <1>3, ExceptSeq
<1>8. /\ counts \in Seq(Int) /\ counts[id] = 0 /\ Len(counts) = Len(table.vals)
      /\ \A j \in 1..Len(table.vals) : j # id => counts[j] = table.counts[j]
  BY <1>2, <1>3, ExceptSeq
<1>9. /\ ids \in [Stored -> Nat] /\ ids[v] = 0
      /\ \A x \in Stored : x # v => ids[x] = table.ids[x]
  BY <1>2
<1>10. /\ pool \in Seq(Nat) /\ Len(pool) = Len(table.pool) + 1
       /\ Len(table.pool) \in Nat /\ pool[Len(table.pool) + 1] = id
       /\ \A i \in 1..Len(table.pool) : pool[i] = table.pool[i]
  BY <1>2, <1>3
<1> HIDE DEF vals, counts, ids, pool
<1>11. /\ table'.vals = vals /\ table'.counts = counts /\ table'.ids = ids
       /\ table'.pool = pool /\ Ids' = Ids
  BY <1>6, <1>7 DEF Ids
<1>12. RefTypes'
  <2>1. table' \in [vals : Seq(Stored \cup {Null}), counts : Seq(Int),
                    ids : [Stored -> Nat], pool : Seq(Nat)]
    BY <1>6, <1>7, <1>8, <1>9, <1>10
  <2> QED BY <1>1, <1>2, <1>7, <1>8, <1>11, <2>1 DEF RefTypes
<1>13. IdsInv'
  <2>1. vals[1] = Global /\ counts[1] = Infinity
    BY <1>2, <1>3, <1>7, <1>8
  <2>2. ASSUME NEW x \in Stored, ids[x] # 0
        PROVE  ids[x] \in Ids /\ vals[ids[x]] = x
    <3>1. x # v /\ ids[x] = table.ids[x]
      BY <1>9, <2>2
    <3>2. ids[x] \in Ids /\ table.vals[ids[x]] = x
      BY <2>2, <3>1 DEF RefsInv, IdsInv
    <3>3. ids[x] # id
      BY <1>4, <3>1, <3>2
    <3> QED BY <1>7, <3>2, <3>3 DEF Ids
  <2>3. ASSUME NEW j \in Ids, vals[j] # Null
        PROVE  ids[vals[j]] = j
    <3>1. j # id /\ vals[j] = table.vals[j] /\ vals[j] \in Stored
      BY <1>2, <1>7, <2>3 DEF Ids
    <3>2. table.ids[vals[j]] = j
      BY <2>3, <3>1 DEF RefsInv, IdsInv
    <3>3. vals[j] # v
      BY <1>5, <3>1, <3>2
    <3> QED BY <1>9, <3>1, <3>2, <3>3
  <2> QED BY <1>11, <2>1, <2>2, <2>3 DEF IdsInv
<1>14. PoolInv'
  <2>1. ASSUME NEW j \in Ids, vals[j] = Null
        PROVE  \E i \in 1..Len(pool) : pool[i] = j
    <3>1. CASE j = id
      BY <1>10, <3>1
    <3>2. CASE j # id
      <4>1. table.vals[j] = Null
        BY <1>7, <2>1, <3>2 DEF Ids
      <4>2. PICK i \in 1..Len(table.pool) : table.pool[i] = j
        BY <4>1 DEF RefsInv, PoolInv
      <4>3. i \in 1..Len(pool) /\ pool[i] = table.pool[i]
        BY <1>10
      <4> QED BY <4>2, <4>3
    <3> QED BY <3>1, <3>2
  <2>2. \A i \in 1..Len(table.pool) : /\ table.pool[i] \in Ids /\ table.pool[i] # id
                                      /\ table.vals[table.pool[i]] = Null
    BY <1>4, <1>5 DEF RefsInv, PoolInv
  <2>3. \A i \in 1..Len(pool) : i \in 1..Len(table.pool) \/ i = Len(table.pool) + 1
    BY <1>10
  <2>4. \A i \in 1..Len(pool) : pool[i] \in Ids /\ vals[pool[i]] = Null
    <3>1. \A i \in 1..Len(table.pool) :
            pool[i] \in Ids /\ vals[pool[i]] = table.vals[table.pool[i]]
      BY <1>7, <1>10, <2>2 DEF Ids
    <3>2. pool[Len(table.pool) + 1] \in Ids /\ vals[pool[Len(table.pool) + 1]] = Null
      BY <1>1, <1>7, <1>10
    <3> QED BY <2>2, <2>3, <3>1, <3>2
  <2>5. ASSUME NEW i \in 1..Len(pool), NEW j \in 1..Len(pool), pool[i] = pool[j]
        PROVE  i = j
    <3>1. \A k, l \in 1..Len(table.pool) : table.pool[k] = table.pool[l] => k = l
      BY DEF RefsInv, PoolInv
    <3>2. /\ \A k \in 1..Len(table.pool) : pool[k] = table.pool[k]
          /\ pool[Len(table.pool) + 1] = id
      BY <1>10
    <3> QED BY <2>2, <2>3, <2>5, <3>1, <3>2
  <2> QED BY <1>11, <2>1, <2>4, <2>5 DEF PoolInv
<1>15. CountsInv'
  <2>1. IsFiniteSet(Holding(id)') /\ Cardinality(Holding(id)') = 0
    BY <1>1, <1>3
  <2>2. ASSUME NEW j \in Ids \ {1}
        PROVE  /\ IsFiniteSet(Holding(j)') /\ counts[j] = Cardinality(Holding(j)')
               /\ vals[j] # Null <=> counts[j] # 0
    <3>1. CASE j = id
      BY <1>7, <1>8, <2>1, <3>1
    <3>2. CASE j # id
      <4>1. vals[j] = table.vals[j] /\ counts[j] = table.counts[j]
        BY <1>7, <1>8, <3>2 DEF Ids
      <4> QED BY <1>1, <3>2, <4>1 DEF RefsInv, CountsInv
    <3> QED BY <3>1, <3>2
  <2> QED BY <1>11, <2>2 DEF CountsInv
<1>16. HeldInv'
  <2>1. Holding(id)' = {}
    <3>1. IsFiniteSet(Holding(id)') /\ Cardinality(Holding(id)') = 0
      BY <1>1, <1>3
    <3>2. \A S : IsFiniteSet(S) /\ Cardinality(S) = 0 => S = {}
      BY FS_EmptySet
    <3> QED BY <3>1, <3>2
  <2>2. ASSUME NEW t \in Slots, held'[t] # NoRef
        PROVE  /\ held'[t].id \in Ids /\ held'[t].of \in Stored
               /\ held'[t].of = vals[held'[t].id]
    <3>1. t # s /\ held'[t] = held[t]
      BY <1>1, <2>2
    <3>2. held'[t].id # id
      BY <2>1 DEF Holding
    <3>3. /\ held[t].id \in Ids /\ held[t].of \in Stored
          /\ held[t].of = table.vals[held[t].id]
      BY <2>2, <3>1 DEF RefsInv, HeldInv
    <3> QED BY <1>7, <3>1, <3>2, <3>3 DEF Ids
  <2> QED BY <1>11, <2>2 DEF HeldInv
<1> QED BY <1>12, <1>13, <1>14, <1>15, <1>16 DEF RefsInv

LEMMA RefsStep ==
    ASSUME CallsInv, RefsInv, Next
    PROVE  RefsInv'
<1>1. CASE UNCHANGED <<table, held>>
  <2>1. RefTypes' /\ IdsInv'
    BY <1>1 DEF RefsInv, RefTypes, IdsInv, Ids
  <2>2. PoolInv' /\ HeldInv'
    BY <1>1 DEF RefsInv, PoolInv, HeldInv, Ids
  <2>3. CountsInv'
    <3>1. \A id \in Ids : Holding(id)' = Holding(id)
      BY <1>1 DEF Holding
    <3> QED BY <1>1, <3>1 DEF RefsInv, CountsInv, Ids
  <2> QED BY <2>1, <2>2, <2>3 DEF RefsInv
<1>2. CASE Loaded \/ Dies
  <2>1. Fresh'
    BY <1>2 DEF Fresh, Loaded, Dies, Exit
  <2> QED BY <2>1, FreshRefs, PTL
<1>3. CASE Reads
  <2>1. PICK s \in Slots : GoReceives(s) \/ FinalizeRef(s)
    BY <1>3 DEF Reads
  <2>2. CASE GoReceives(s)
    <3>1. PICK v \in Stored : StoreValue(s, v)
      BY <2>2 DEF GoReceives, Stored
    <3>2. held[s] = NoRef
      BY <2>2 DEF GoReceives, FreeSlot
    <3> QED BY <3>1, <3>2, StoreKnown, StoreNew
  <2>3. CASE FinalizeRef(s)
    BY <2>3, FinalizeShared, FinalizeLast
  <2> QED BY <2>1, <2>2, <2>3
<1>4. CASE Loads \/ Makes \/ Frees \/ Drops \/ Starts \/ Ends \/ CallsBackInto
           \/ PlanMade \/ Timeouts \/ TimeoutFires
  <2>1. UNCHANGED <<table, held>>
    BY <1>4 DEF Loads, InitCalled, LoadFailed, LoadHangs, Makes, New, Frees, Free,
       Finalize, Drops, Dropped, Starts, Ends, CallsBackInto, PlanMade, Timeouts,
       TimeoutScheduled, TimeoutCleared, TimeoutFires
  <2> QED BY <1>1, <2>1
<1> QED BY <1>2, <1>3, <1>4, NextShape

-----------------------------------------------------------------------------
(* The theorems.                                                           *)
LEMMA InitIInv == Init => IInv
<1>1. Init => Fresh
  BY DEF Init, Fresh
<1> QED BY <1>1, FreshRefs, InitCalls, InitObjects DEF IInv

LEMMA NextIInv == IInv /\ [Next]_vars => IInv'
<1>1. SUFFICES ASSUME IInv, [Next]_vars PROVE IInv'
  OBVIOUS
<1>2. CASE Next
  BY <1>1, <1>2, CallsStep, ObjectsStep, PlansStep, RefsStep DEF IInv
<1>3. CASE UNCHANGED vars
  <2>1. UNCHANGED <<load, exited, table, held, registry, wrapper, timer, stack>>
    BY <1>3 DEF vars
  <2>2. CallsInv'
    BY <1>1, <2>1 DEF IInv, CallsInv, StackInv, StartedInv
  <2>3. ObjectsInv' /\ PlansInv'
    BY <1>1, <2>1, SameObjects DEF IInv, PlansInv
  <2>4. RefTypes' /\ IdsInv' /\ PoolInv' /\ HeldInv'
    BY <1>1, <2>1 DEF IInv, RefsInv, RefTypes, IdsInv, PoolInv, HeldInv, Ids
  <2>5. CountsInv'
    <3>1. \A id \in Ids : Holding(id)' = Holding(id)
      BY <2>1 DEF Holding
    <3> QED BY <1>1, <2>1, <3>1 DEF IInv, RefsInv, CountsInv, Ids
  <2> QED BY <2>2, <2>3, <2>4, <2>5 DEF IInv, RefsInv
<1> QED BY <1>1, <1>2, <1>3

(* Every reachable state satisfies the inductive invariant.                *)
THEOREM Inductive == Spec => []IInv
BY InitIInv, NextIInv, PTL DEF Spec

(* Every variable stays in its domain: calls into Go and back alternate,   *)
(* and an id in the pool of ids to use again is there once and has no      *)
(* value (wasm_exec.ts:173-178, 321-331).                                  *)
THEOREM TypeCorrect == Spec => []TypeOK
<1>1. IInv => TypeOK
  <2>1. SUFFICES ASSUME IInv PROVE TypeOK
    OBVIOUS
  <2>2. CallsInv /\ ObjectTypes /\ RefTypes /\ PoolInv
    BY <2>1 DEF IInv, ObjectsInv, RefsInv
  <2> QED BY <2>2 DEF CallsInv, StackInv, StartedInv, ObjectTypes, RefTypes,
                      PoolInv, TypeOK
<1> QED BY <1>1, Inductive, PTL

(* A reference in Go denotes the value it was made for, however ids are    *)
(* shared, given back and used again, and a value is kept for exactly as   *)
(* long as Go has references to it (wasm_exec.ts:142-203, 321-331).        *)
THEOREM ReferencesDenote == Spec => []RefsDenote
<1>1. IInv => RefsDenote
  <2>1. SUFFICES ASSUME IInv PROVE RefsDenote
    OBVIOUS
  <2>2. \A s \in Slots : held[s] # NoRef => table.vals[held[s].id] = held[s].of
    BY <2>1 DEF IInv, RefsInv, HeldInv
  <2>3. ASSUME NEW id \in Ids, table.counts[id] # Infinity
        PROVE  /\ table.counts[id] = Cardinality({s \in Slots : held[s].id = id})
               /\ (table.vals[id] # Null) = (table.counts[id] > 0)
    <3>1. id # 1
      BY <2>1, <2>3 DEF IInv, RefsInv, IdsInv
    <3>2. /\ IsFiniteSet(Holding(id)) /\ table.counts[id] = Cardinality(Holding(id))
          /\ table.vals[id] # Null <=> table.counts[id] # 0
      BY <2>1, <3>1 DEF IInv, RefsInv, CountsInv
    <3>3. table.counts[id] \in Nat
      BY <3>2, FS_CardinalityType
    <3> QED BY <3>2, <3>3 DEF Holding
  <2> QED BY <2>2, <2>3 DEF RefsDenote
<1> QED BY <1>1, Inductive, PTL

(* While the program runs the handle of a wrapper denotes the wrapper's    *)
(* own object until it is freed or finalized and nothing afterwards, no    *)
(* two objects have one handle, and no object is left without a wrapper    *)
(* that will free it (descriptors.go:27-29, neutrino_js.go:12-15).         *)
THEOREM HandlesAlwaysOwned == Spec => []HandlesOwned
<1>1. IInv => HandlesOwned
  <2>1. SUFFICES ASSUME IInv, ~exited PROVE HandlesOwned
    BY DEF HandlesOwned
  <2>2. \A k \in Kinds :
          /\ \A e \in registry.objects[k] : e.of \in Owning(k) /\ e = Entry(e.of)
          /\ \A w \in Owning(k) : Entry(w) \in registry.objects[k]
    BY <2>1 DEF IInv, ObjectsInv, RegisteredInv
  <2>3. /\ \A w \in Wrappers : wrapper[w].state # "none" => wrapper[w].kind \in Kinds
        /\ \A w, x \in Wrappers :
              /\ wrapper[w].state # "none" /\ wrapper[x].state # "none"
              /\ wrapper[w].handle = wrapper[x].handle
              => w = x
    BY <2>1 DEF IInv, ObjectsInv, HandlesInv
  <2>4. ASSUME NEW w \in Wrappers
        PROVE  Object(w) = IF wrapper[w].state \in {"live", "collected"}
                           THEN {[handle |-> wrapper[w].handle, of |-> w]}
                           ELSE {}
    <3>1. CASE wrapper[w].state = "none"
      BY <3>1 DEF Object
    <3>2. CASE wrapper[w].state # "none"
      <4> DEFINE k == wrapper[w].kind
      <4>1. k \in Kinds /\ Object(w) = {e \in registry.objects[k] :
                                          e.handle = wrapper[w].handle}
        BY <2>3, <3>2 DEF Object, Registered
      <4>2. ASSUME NEW e \in Object(w)
            PROVE  e = Entry(w) /\ w \in Owning(k)
        <5>1. e.of \in Owning(k) /\ e = Entry(e.of) /\ e.handle = wrapper[w].handle
          BY <2>2, <4>1
        <5>2. wrapper[e.of].handle = wrapper[w].handle
              /\ wrapper[e.of].state # "none" /\ e.of \in Wrappers
          BY <5>1 DEF Entry, Owning
        <5> QED BY <2>3, <3>2, <5>1, <5>2
      <4>3. w \in Owning(k) => Entry(w) \in Object(w)
        BY <2>2, <4>1 DEF Entry
      <4>4. w \in Owning(k) <=> wrapper[w].state \in {"live", "collected"}
        BY DEF Owning
      <4> HIDE DEF k
      <4> QED BY <4>2, <4>3, <4>4 DEF Entry
    <3> QED BY <3>1, <3>2
  <2>5. ASSUME NEW k \in Kinds, NEW l \in Kinds,
               NEW e \in registry.objects[k], NEW f \in registry.objects[l],
               e.handle = f.handle
        PROVE  e = f /\ k = l
    <3>1. /\ e.of \in Owning(k) /\ e = Entry(e.of)
          /\ f.of \in Owning(l) /\ f = Entry(f.of)
      BY <2>2
    <3>2. /\ wrapper[e.of].handle = wrapper[f.of].handle
          /\ e.of \in Wrappers /\ wrapper[e.of].state # "none" /\ wrapper[e.of].kind = k
          /\ f.of \in Wrappers /\ wrapper[f.of].state # "none" /\ wrapper[f.of].kind = l
      BY <2>5, <3>1 DEF Entry, Owning
    <3>3. e.of = f.of
      BY <2>3, <3>2
    <3> QED BY <3>1, <3>2, <3>3
  <2>6. ASSUME NEW k \in Kinds, NEW e \in registry.objects[k]
        PROVE  /\ wrapper[e.of].state \in {"live", "collected"}
               /\ wrapper[e.of].kind = k /\ wrapper[e.of].handle = e.handle
    BY <2>2 DEF Owning, Entry
  <2> QED BY <2>4, <2>5, <2>6 DEF HandlesOwned
<1> QED BY <1>1, Inductive, PTL
=============================================================================
