-------------------------------- MODULE Bridge --------------------------------
(***************************************************************************)
(* The bridge between JavaScript and the Go program: the one-shot loader,  *)
(* synchronous calls into Go that may call back into JavaScript and from   *)
(* there into Go again, the table of the JavaScript values Go refers to,   *)
(* and the objects that stay in Go's registries under a handle until their *)
(* wrapper is freed or collected.  A callback that throws ends the Go      *)
(* program, unless the function recovers.                                  *)
(*                                                                         *)
(* JavaScript and Go share one thread: "stack" says whose code runs.  The  *)
(* stateless functions of the API are calls that touch no registry.  An    *)
(* object in a registry is named by the wrapper it was made for.           *)
(***************************************************************************)
EXTENDS Integers, Sequences, FiniteSets

CONSTANTS
    Wrappers,   \* JavaScript objects with a handle
    Nobody,     \* no wrapper
    Values,     \* JavaScript values handed to Go
    Global,     \* the value with a predefined id: globalThis
    Slots,      \* references Go holds at once, numbered
    MaxLoads,   \* bound: attempts to load the program
    Depth       \* bound: nested calls into Go and back

ASSUME ConstantsAssumption ==
    /\ Nobody \notin Wrappers /\ Global \notin Values
    /\ Slots \subseteq Nat
    /\ MaxLoads \in Nat /\ Depth \in Nat

VARIABLES
    load,       \* initPromise, and how many loads were attempted
    exited,     \* the Go program has exited
    table,      \* _values, _goRefCounts, _ids and _idPool
    held,       \* Go's references: the id in them, and the value they are for
    registry,   \* per kind: the objects by handle; and nextHandle
    wrapper,    \* the JavaScript objects
    timer,      \* a timeout of the Go runtime is scheduled
    stack       \* calls under way, the last one running

vars == <<load, exited, table, held, registry, wrapper, timer, stack>>

Kinds == {"chain", "watch", "descriptor", "plan", "scanner"}

(* The kinds with a function that calls back: onBlocks(), or a satisfier.  *)
CallsBack == {"watch", "plan", "scanner"}

Ops == Kinds \cup {"function", "planAt", "callback", "timer"}
Frames == [side : {"go", "js"}, op : Ops, makes : Wrappers \cup {Nobody}]

Stored == Values \cup {Global}
Null == "null"
ASSUME NullAssumption == Null \notin Stored

Infinity == -1
NoRef == [id |-> 0, of |-> Null]
NoWrapper == [state |-> "none", kind |-> "none", handle |-> 0]

Top == stack[Len(stack)]
Pop == SubSeq(stack, 1, Len(stack) - 1)
JsRuns == Len(stack) % 2 = 0
GoRuns == Len(stack) % 2 = 1
Callable == load.promise = "done" /\ JsRuns /\ ~exited

Frame(side, op, makes) == [side |-> side, op |-> op, makes |-> makes]

(* run(): the table before the program starts.                             *)
FreshTable ==
    [vals |-> <<Global>>, counts |-> <<Infinity>>,
     ids |-> [v \in Stored |-> IF v = Global THEN 1 ELSE 0],
     pool |-> << >>]

-----------------------------------------------------------------------------
(* Mutant: every init() that finds no load under way starts one.           *)
InitCalled_Reloads ==
    /\ JsRuns /\ load.promise \in {"none", "done"} /\ load.attempts < MaxLoads
    /\ load' = [load EXCEPT !.promise = "pending", !.attempts = @ + 1]
    /\ UNCHANGED <<exited, table, held, registry, wrapper, timer, stack>>

(* init() with no promise starts the load; any other call awaits the same  *)
(* promise, whatever source it names.                                      *)
InitCalled ==
    /\ JsRuns /\ load.promise = "none" /\ load.attempts < MaxLoads
    /\ load' = [load EXCEPT !.promise = "pending", !.attempts = @ + 1]
    /\ UNCHANGED <<exited, table, held, registry, wrapper, timer, stack>>

(* The fetch or the instantiation fails: the next init() tries again.      *)
LoadFailed ==
    /\ load.promise = "pending" /\ stack = << >>
    /\ load' = [load EXCEPT !.promise = "none"]
    /\ UNCHANGED <<exited, table, held, registry, wrapper, timer, stack>>

(* run() starts the program, which hands its functions to __btcutilReady() *)
(* and blocks for ever.                                                    *)
Loaded ==
    /\ load.promise = "pending" /\ stack = << >>
    /\ load' = [load EXCEPT !.promise = "done"]
    /\ table' = FreshTable
    /\ held' = [s \in Slots |-> NoRef]
    /\ registry' = [objects |-> [k \in Kinds |-> {}], next |-> 1]
    /\ exited' = FALSE
    /\ UNCHANGED <<wrapper, timer, stack>>

(* The program ends before it is ready: init() never settles.              *)
LoadHangs ==
    /\ load.promise = "pending" /\ stack = << >>
    /\ load' = [load EXCEPT !.promise = "hangs"]
    /\ UNCHANGED <<exited, table, held, registry, wrapper, timer, stack>>

-----------------------------------------------------------------------------
FreeSlot(s) ==
    /\ held[s] = NoRef
    /\ \A t \in Slots : held[t] = NoRef => s <= t

Inc(c) == IF c = Infinity THEN Infinity ELSE c + 1
Dec(c) == IF c = Infinity THEN Infinity ELSE c - 1

NewId ==
    IF table.pool # << >> THEN table.pool[Len(table.pool)]
                          ELSE Len(table.vals) + 1

(* storeValue(): the id of the value, a pooled one or the next.            *)
StoreValue(s, v) ==
    LET known == table.ids[v] # 0
        id == IF known THEN table.ids[v] ELSE NewId
        put(seq, x) == IF id <= Len(seq) THEN [seq EXCEPT ![id] = x]
                                         ELSE Append(seq, x)
    IN /\ table' =
            IF known THEN [table EXCEPT !.counts[id] = Inc(@)]
            ELSE [vals |-> put(table.vals, v),
                  counts |-> put(table.counts, 1),
                  ids |-> [table.ids EXCEPT ![v] = id],
                  pool |-> IF table.pool = << >> THEN << >>
                           ELSE SubSeq(table.pool, 1, Len(table.pool) - 1)]
       /\ held' = [held EXCEPT ![s] = [id |-> id, of |-> v]]

(* Go reads a property, an element, an argument, or makes a value: any     *)
(* import that returns a value to Go stores it.                            *)
GoReceives(s) ==
    /\ GoRuns /\ FreeSlot(s)
    /\ \E v \in Stored : StoreValue(s, v)
    /\ UNCHANGED <<load, exited, registry, wrapper, timer, stack>>

(* Mutant: the value keeps its id after it has left the table.             *)
FinalizeRef_KeepsId(s) ==
    /\ GoRuns /\ held[s] # NoRef
    /\ LET id == held[s].id
           last == table.counts[id] = 1
       IN table' = [table EXCEPT
                      !.counts[id] = Dec(@),
                      !.vals[id] = IF last THEN Null ELSE @,
                      !.pool = IF last THEN Append(@, id) ELSE @]
    /\ held' = [held EXCEPT ![s] = NoRef]
    /\ UNCHANGED <<load, exited, registry, wrapper, timer, stack>>

(* Mutant: the id goes to the pool with every reference.                   *)
FinalizeRef_Always(s) ==
    /\ GoRuns /\ held[s] # NoRef
    /\ LET id == held[s].id
       IN table' = [table EXCEPT !.counts[id] = Dec(@), !.pool = Append(@, id)]
    /\ held' = [held EXCEPT ![s] = NoRef]
    /\ UNCHANGED <<load, exited, registry, wrapper, timer, stack>>

(* finalizeRef(): Go's collector has found the reference dead; it runs     *)
(* only while Go does.                                                     *)
FinalizeRef(s) ==
    /\ GoRuns /\ held[s] # NoRef
    /\ LET id == held[s].id
           last == table.counts[id] = 1
       IN table' = [table EXCEPT
                      !.counts[id] = Dec(@),
                      !.vals[id] = IF last THEN Null ELSE @,
                      !.ids = IF last THEN [@ EXCEPT ![table.vals[id]] = 0] ELSE @,
                      !.pool = IF last THEN Append(@, id) ELSE @]
    /\ held' = [held EXCEPT ![s] = NoRef]
    /\ UNCHANGED <<load, exited, registry, wrapper, timer, stack>>

-----------------------------------------------------------------------------
Registered(kind, h) == {e \in registry.objects[kind] : e.handle = h}
Object(w) ==
    IF wrapper[w].state = "none" THEN {}
    ELSE Registered(wrapper[w].kind, wrapper[w].handle)

Register(w, kind) ==
    /\ registry' = [objects |-> [registry.objects EXCEPT
                                    ![kind] = @ \cup {[handle |-> registry.next,
                                                       of |-> w]}],
                    next |-> registry.next + 1]
    /\ wrapper' = [wrapper EXCEPT ![w] =
                     [state |-> "live", kind |-> kind, handle |-> registry.next]]

Unregister(w) ==
    registry' = [registry EXCEPT
                   !.objects[wrapper[w].kind] = @ \ Object(w)]

Unmade(w) ==
    /\ wrapper[w].state = "none"
    /\ \A i \in 1..Len(stack) : stack[i].makes # w

(* Go registers a new object, JavaScript wraps the handle and registers    *)
(* the wrapper for finalization.                                           *)
New(w, kind) ==
    /\ Callable /\ Unmade(w)
    /\ Register(w, kind)
    /\ UNCHANGED <<load, exited, table, held, timer, stack>>

(* A method of the wrapper: Go looks the handle up.  A freed one is an     *)
(* error, "unknown handle".                                                *)
Call(w, kind) ==
    /\ Callable /\ Len(stack) < Depth
    /\ wrapper[w].kind = kind /\ wrapper[w].state \in {"live", "freed"}
    /\ Object(w) # {}
    /\ stack' = Append(stack, Frame("go", kind, Nobody))
    /\ UNCHANGED <<load, exited, table, held, registry, wrapper, timer>>

(* free(): once; after the program's exit it throws, freed all the same.   *)
Free(w, kind) ==
    /\ JsRuns /\ wrapper[w].kind = kind /\ wrapper[w].state = "live"
    /\ wrapper' = [wrapper EXCEPT ![w].state = "freed"]
    /\ IF exited THEN UNCHANGED registry ELSE Unregister(w)
    /\ UNCHANGED <<load, exited, table, held, timer, stack>>

(* JavaScript's collector finds a wrapper dead; a call on it may be under  *)
(* way, which has its handle.                                              *)
Dropped(w) ==
    /\ wrapper[w].state \in {"live", "freed"}
    /\ wrapper' = [wrapper EXCEPT ![w].state =
                     IF @ = "live" THEN "collected" ELSE "gone"]
    /\ UNCHANGED <<load, exited, table, held, registry, timer, stack>>

(* The finalizer of a collected wrapper is a task of its own; errors are   *)
(* ignored.                                                                *)
Finalize(w, kind) ==
    /\ stack = << >>
    /\ wrapper[w].kind = kind /\ wrapper[w].state = "collected"
    /\ wrapper' = [wrapper EXCEPT ![w].state = "gone"]
    /\ IF exited THEN UNCHANGED registry ELSE Unregister(w)
    /\ UNCHANGED <<load, exited, table, held, timer, stack>>

NewHeaderChain(w) == New(w, "chain")
NewWatchList(w) == New(w, "watch")
NewDescriptor(w) == New(w, "descriptor")
NewSpScanner(w) == New(w, "scanner")

(* The functions of the stateless namespaces touch no registry.            *)
CallFunction ==
    /\ Callable /\ Len(stack) < Depth
    /\ stack' = Append(stack, Frame("go", "function", Nobody))
    /\ UNCHANGED <<load, exited, table, held, registry, wrapper, timer>>

CallHeaderChain(w) == Call(w, "chain")
CallWatchList(w) == Call(w, "watch")
CallDescriptor(w) == Call(w, "descriptor")
CallPlan(w) == Call(w, "plan")
CallSpScanner(w) == Call(w, "scanner")

FreeHeaderChain(w) == Free(w, "chain")
FreeWatchList(w) == Free(w, "watch")
FreeDescriptor(w) == Free(w, "descriptor")
FreePlan(w) == Free(w, "plan")
FreeSpScanner(w) == Free(w, "scanner")

FinalizeHeaderChain(w) == Finalize(w, "chain")
FinalizeWatchList(w) == Finalize(w, "watch")
FinalizeDescriptor(w) == Finalize(w, "descriptor")
FinalizePlan(w) == Finalize(w, "plan")
FinalizeSpScanner(w) == Finalize(w, "scanner")

(* planAt(): looks the descriptor up, asks the assets of the caller, and   *)
(* registers a plan, which outlives its descriptor.                        *)
PlanAt(w, p) ==
    /\ Callable /\ Len(stack) < Depth
    /\ wrapper[w].kind = "descriptor" /\ wrapper[w].state \in {"live", "freed"}
    /\ Unmade(p)
    /\ Object(w) # {}
    /\ stack' = Append(stack, Frame("go", "planAt", p))
    /\ UNCHANGED <<load, exited, table, held, registry, wrapper, timer>>

PlanMade ==
    /\ GoRuns /\ Top.op = "planAt"
    /\ Register(Top.makes, "plan")
    /\ stack' = Pop
    /\ UNCHANGED <<load, exited, table, held, timer>>

-----------------------------------------------------------------------------
(* The function returns a result or an error; the event has it.            *)
Returns ==
    /\ GoRuns
    /\ stack' = Pop
    /\ UNCHANGED <<load, exited, table, held, registry, wrapper, timer>>

(* Go invokes a function it was handed.                                    *)
CallsBackInto ==
    /\ GoRuns /\ Top.op \in CallsBack \cup {"planAt"} /\ Len(stack) < Depth
    /\ stack' = Append(stack, Frame("js", "callback", Nobody))
    /\ UNCHANGED <<load, exited, table, held, registry, wrapper, timer>>

CallbackReturns ==
    /\ stack # << >> /\ Top.side = "js"
    /\ stack' = Pop
    /\ UNCHANGED <<load, exited, table, held, registry, wrapper, timer>>

(* wasmExit(): the program and its references are gone; every call under   *)
(* way ends, in undefined or a TypeError.  Scheduled timeouts stay.        *)
Exit ==
    /\ exited' = TRUE
    /\ table' = FreshTable
    /\ held' = [s \in Slots |-> NoRef]
    /\ registry' = [registry EXCEPT !.objects = [k \in Kinds |-> {}]]
    /\ stack' = << >>
    /\ UNCHANGED <<load, wrapper, timer>>

(* planAt() and planSatisfy() turn a panic into an error.                  *)
Recovers == {"plan", "planAt"}
Recovered(i) ==
    /\ stack[i].op \in Recovers
    /\ stack' = SubSeq(stack, 1, i - 1)
    /\ UNCHANGED <<load, exited, table, held, registry, wrapper, timer>>

(* The call under way at depth i panics.  Whether the runtime lets a       *)
(* recovering call further out catch the panic of a call nested in its     *)
(* callback is not this code's to say: both outcomes are possible here.    *)
Panicking(i) ==
    \/ Recovered(i)
    \/ /\ stack[i].op \notin Recovers
       /\ \/ Exit
          \/ \E outer \in 1..(i - 1) : Recovered(outer)

(* The callback throws: Invoke() panics.                                   *)
CallbackThrows ==
    /\ stack # << >> /\ Top.side = "js"
    /\ Panicking(Len(stack) - 1)

(* Any other panic, say of Value.Int() on an argument of another type.     *)
Panics ==
    /\ GoRuns
    /\ Panicking(Len(stack))

(* scheduleTimeoutEvent(), clearTimeoutEvent().                            *)
TimeoutScheduled ==
    /\ GoRuns /\ ~timer
    /\ timer' = TRUE
    /\ UNCHANGED <<load, exited, table, held, registry, wrapper, stack>>

TimeoutCleared ==
    /\ GoRuns /\ timer
    /\ timer' = FALSE
    /\ UNCHANGED <<load, exited, table, held, registry, wrapper, stack>>

(* The timeout resumes the program; after its exit _resume() throws.       *)
TimeoutFires ==
    /\ timer /\ stack = << >>
    /\ timer' = FALSE
    /\ stack' = IF exited THEN stack
                ELSE <<Frame("go", "timer", Nobody)>>
    /\ UNCHANGED <<load, exited, table, held, registry, wrapper>>

-----------------------------------------------------------------------------
Init ==
    /\ load = [promise |-> "none", attempts |-> 0]
    /\ exited = FALSE
    /\ table = FreshTable
    /\ held = [s \in Slots |-> NoRef]
    /\ registry = [objects |-> [k \in Kinds |-> {}], next |-> 1]
    /\ wrapper = [w \in Wrappers |-> NoWrapper]
    /\ timer = FALSE
    /\ stack = << >>

Next ==
    \/ InitCalled \/ LoadFailed \/ Loaded \/ LoadHangs
    \/ \E s \in Slots : GoReceives(s) \/ FinalizeRef(s)
    \/ \E w \in Wrappers :
          \/ NewHeaderChain(w) \/ NewWatchList(w) \/ NewDescriptor(w)
          \/ NewSpScanner(w)
          \/ CallHeaderChain(w) \/ CallWatchList(w) \/ CallDescriptor(w)
          \/ CallPlan(w) \/ CallSpScanner(w)
          \/ FreeHeaderChain(w) \/ FreeWatchList(w) \/ FreeDescriptor(w)
          \/ FreePlan(w) \/ FreeSpScanner(w)
          \/ Dropped(w)
          \/ FinalizeHeaderChain(w) \/ FinalizeWatchList(w)
          \/ FinalizeDescriptor(w) \/ FinalizePlan(w) \/ FinalizeSpScanner(w)
          \/ \E p \in Wrappers : PlanAt(w, p)
    \/ CallFunction \/ PlanMade \/ Returns \/ CallsBackInto \/ CallbackReturns
    \/ CallbackThrows \/ Panics
    \/ TimeoutScheduled \/ TimeoutCleared \/ TimeoutFires

Spec == Init /\ [][Next]_vars

-----------------------------------------------------------------------------
Ids == 1..Len(table.vals)

(* Every variable stays in its domain: calls into Go and back alternate,   *)
(* and an id in the pool is there once and has no value.                   *)
TypeOK ==
    /\ load \in [promise : {"none", "pending", "done", "hangs"}, attempts : Nat]
    /\ exited \in BOOLEAN /\ timer \in BOOLEAN
    /\ table \in [vals : Seq(Stored \cup {Null}), counts : Seq(Int),
                  ids : [Stored -> Nat], pool : Seq(Nat)]
    /\ Len(table.counts) = Len(table.vals)
    /\ \A i, j \in 1..Len(table.pool) :
          /\ table.pool[i] \in Ids /\ table.vals[table.pool[i]] = Null
          /\ table.pool[i] = table.pool[j] => i = j
    /\ held \in [Slots -> [id : Nat, of : Stored \cup {Null}]]
    /\ registry \in [objects : [Kinds -> SUBSET [handle : Nat, of : Wrappers]],
                     next : Nat]
    /\ wrapper \in [Wrappers ->
          [state : {"none", "live", "freed", "collected", "gone"},
           kind : Kinds \cup {"none"}, handle : Nat]]
    /\ stack \in Seq(Frames) /\ Len(stack) <= Depth
    /\ \A i \in 1..Len(stack) : stack[i].side = IF i % 2 = 1 THEN "go" ELSE "js"

(* A reference in Go denotes the value it was made for, however ids are    *)
(* shared, given back and used again, and a value is kept for as long as   *)
(* Go has a reference to it and no longer (wasm_exec.ts:142-203, 321-331). *)
RefsDenote ==
    /\ \A s \in Slots :
          held[s] # NoRef => table.vals[held[s].id] = held[s].of
    /\ \A id \in Ids : table.counts[id] # Infinity =>
          /\ table.counts[id] = Cardinality({s \in Slots : held[s].id = id})
          /\ (table.vals[id] # Null) = (table.counts[id] > 0)

(* While the program runs, the handle of a wrapper denotes the wrapper's   *)
(* own object until free() or the finalizer, whatever is freed, collected  *)
(* or created in a callback in between, and nothing from then on           *)
(* (descriptors.go:27-29); no two objects of any kind have one handle      *)
(* (neutrino_js.go:12-15), and every object in a registry has a wrapper    *)
(* that will free it (descriptors.ts:29-33).                               *)
HandlesOwned ==
    ~exited =>
        /\ \A w \in Wrappers :
              Object(w) = IF wrapper[w].state \in {"live", "collected"}
                          THEN {[handle |-> wrapper[w].handle, of |-> w]}
                          ELSE {}
        /\ \A k, l \in Kinds : \A e \in registry.objects[k], f \in registry.objects[l] :
              e.handle = f.handle => e = f /\ k = l
        /\ \A k \in Kinds : \A e \in registry.objects[k] :
              /\ wrapper[e.of].state \in {"live", "collected"}
              /\ wrapper[e.of].kind = k /\ wrapper[e.of].handle = e.handle
=============================================================================
