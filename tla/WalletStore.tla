------------------------------ MODULE WalletStore ------------------------------
(***************************************************************************)
(* The files of a wallet store under the two engines that use it in turn:  *)
(* WatchOnlyWallet and SilentPaymentScanner open the store, resume the     *)
(* chain from it, sync, save the wallet and close.  OPFS replaces a file   *)
(* when the writable is closed; Node writes in place and in chunks, so     *)
(* that a process that dies leaves part of an append, or an emptied file.  *)
(* Writes are rejected, and the process dies, at any await.                *)
(*                                                                         *)
(* A header is two halves <<height, 1>> and <<height, 2>>, the finest a    *)
(* torn append can cut it here; a filter header is one unit, which no      *)
(* chunk cuts (a chunk is 16384 of them).  The server's chain only grows:  *)
(* TipSync has the reorganisations and followTip().  open() and clear()    *)
(* read or remove several files, with nobody else at the store.            *)
(***************************************************************************)
EXTENDS Integers, Sequences

CONSTANTS
    Backends,   \* of "opfs" and "node"
    PerFile,    \* entries_per_header_file
    Batch,      \* headers that open() revalidates at a time: 50000 in the code
    MaxTip,     \* bound: the highest block of a behaviour
    MaxSaves,   \* bound: how often the wallet is saved
    MaxFaults   \* bound: rejected writes and crashes

ASSUME ConstantsAssumption ==
    /\ Backends \subseteq {"opfs", "node"}
    /\ PerFile \in Nat \ {0} /\ Batch \in Nat \ {0}
    /\ MaxTip \in Nat /\ MaxSaves \in Nat /\ MaxFaults \in Nat

VARIABLES
    backend,    \* which storage class this is
    server,     \* the server's tip height
    disk,       \* headers.bin, a filter-header file, chain-state.bin, wallet.json
    engine,     \* the engine that has the store open
    saved,      \* history: the wallet last saved for good, the last one handed
                \* to setWallet(), and whether setWallet() emptied the file
    damage,     \* history: what this store has been through
    faults

vars == <<backend, server, disk, engine, saved, damage, faults>>

Hdr == (0..MaxTip) \X {1, 2}
Pcs == {"closed", "thrown", "ready", "revalidate", "headers", "append",
        "state", "filters", "save"}
Disks == [headers : Seq(Hdr), filters : Seq(0..MaxTip), state : Int, wallet : Int]
Engines == [kind : {"none", "wallet", "scanner"}, pc : Pcs, tip : Int,
            read : Nat, target : Int, rejected : BOOLEAN]
Records == [good : Int, next : Int, emptied : BOOLEAN]

Least(x, y) == IF x <= y THEN x ELSE y
Prefix(s, n) == SubSeq(s, 1, n)

(* Headers from..to as bytes, and the offset of a header: twice its height. *)
Bytes(from, to) ==
    [i \in 1..(IF to >= from THEN 2 * (to - from + 1) ELSE 0) |->
        <<from + (i - 1) \div 2, 1 + ((i - 1) % 2)>>]
Entries(from, to) ==
    [i \in 1..(IF to >= from THEN to - from + 1 ELSE 0) |-> from + i - 1]

(* headerCount() and readHeaders(height, count).                           *)
HeaderCount == Len(disk.headers) \div 2
ReadHeaders(height, count) ==
    SubSeq(disk.headers, 2 * height + 1,
           Least(2 * (height + count), Len(disk.headers)))
FilterHeaderCount == Len(disk.filters)

(* The new part of the server's file that holds the height.                *)
FileEnd(height) ==
    Least(height - (height % PerFile) + PerFile - 1, server)

Closed == [kind |-> "none", pc |-> "closed", tip |-> -1, read |-> 0,
           target |-> -1, rejected |-> FALSE]
At(pc) == engine.pc = pc
Goto(pc) == engine' = [engine EXCEPT !.pc = pc]
Fault == faults < MaxFaults /\ faults' = faults + 1

-----------------------------------------------------------------------------
ServerGrows ==
    /\ server < MaxTip
    /\ server' = server + 1
    /\ UNCHANGED <<backend, disk, engine, saved, damage, faults>>

(* Mutant: the exported state is taken without a look at the files.        *)
Open_TrustsState(kind) ==
    /\ At("closed")
    /\ engine' = [Closed EXCEPT !.kind = kind, !.pc = "ready", !.tip = disk.state]
    /\ saved' = IF kind = "wallet"
                THEN [saved EXCEPT !.good = disk.wallet, !.next = disk.wallet,
                                   !.emptied = FALSE]
                ELSE saved
    /\ UNCHANGED <<backend, server, disk, damage, faults>>

(* open(): the wallet is read (no wallet.json, or an empty one, makes a    *)
(* new wallet 0), the chain resumes from the exported state (an empty one  *)
(* is none, tip -1), and is revalidated when it disagrees with the files.  *)
Open(kind) ==
    /\ At("closed")
    /\ engine' = IF disk.state + 1 = HeaderCount
                 THEN [Closed EXCEPT !.kind = kind, !.pc = "ready",
                                     !.tip = disk.state]
                 ELSE [Closed EXCEPT !.kind = kind, !.pc = "revalidate"]
    /\ saved' = IF kind = "wallet"
                THEN [saved EXCEPT !.good = disk.wallet, !.next = disk.wallet,
                                   !.emptied = FALSE]
                ELSE saved
    /\ UNCHANGED <<backend, server, disk, damage, faults>>

(* Mutant: the last batch is taken for a whole one.                        *)
Revalidate_WholeBatch ==
    /\ At("revalidate") /\ engine.read < HeaderCount
    /\ engine' = [engine EXCEPT !.read = @ + Batch, !.tip = @ + Batch]
    /\ UNCHANGED <<backend, server, disk, saved, damage, faults>>

(* append() takes the batch when it goes on where the chain ends; else     *)
(* open() throws.                                                          *)
Revalidate ==
    /\ At("revalidate") /\ engine.read < HeaderCount
    /\ LET count == Least(Batch, HeaderCount - engine.read)
           chunk == ReadHeaders(engine.read, count)
       IN engine' =
            IF chunk = Bytes(engine.tip + 1, engine.tip + count)
            THEN [engine EXCEPT !.read = @ + Batch, !.tip = @ + count]
            ELSE [Closed EXCEPT !.pc = "thrown"]
    /\ UNCHANGED <<backend, server, disk, saved, damage, faults>>

Revalidated ==
    /\ At("revalidate") /\ engine.read >= HeaderCount
    /\ Goto("ready")
    /\ UNCHANGED <<backend, server, disk, saved, damage, faults>>

(* The caller gives up, closes the engine, or tries open() again later.    *)
Close ==
    /\ At("ready") \/ At("thrown")
    /\ engine' = Closed
    /\ UNCHANGED <<backend, server, disk, saved, damage, faults>>

-----------------------------------------------------------------------------
(* syncHeaders(): the status is back.                                      *)
SyncStart ==
    /\ At("ready")
    /\ engine' = [engine EXCEPT !.pc = "headers", !.target = server]
    /\ UNCHANGED <<backend, server, disk, saved, damage, faults>>

(* The headers of the next file are validated in memory, then appended.  A *)
(* sync after one whose appendHeaders() was rejected goes on from memory.  *)
SyncHeaders ==
    /\ At("headers") /\ engine.tip < engine.target
    /\ engine' = [engine EXCEPT !.pc = "append", !.read = engine.tip + 1,
                                !.tip = FileEnd(engine.tip + 1)]
    /\ damage' = IF engine.rejected /\ damage = "none" THEN "gap" ELSE damage
    /\ UNCHANGED <<backend, server, disk, saved, faults>>

(* The target is reached, or a stale file has nothing new.                 *)
HeadersSynced ==
    /\ At("headers")
    /\ Goto("state")
    /\ UNCHANGED <<backend, server, disk, saved, damage, faults>>

(* What is left of an append of n units when it is cut short: OPFS swaps   *)
(* the file in at close(), appendFile() writes chunk by chunk.             *)
WrittenOpfs == {0}
WrittenNode(n) == 0..(n - 1)
Written(n) == IF backend = "opfs" THEN WrittenOpfs ELSE WrittenNode(n)

Fresh == Bytes(engine.read, engine.tip)
AppendHeaders(n) ==
    disk' = [disk EXCEPT !.headers = @ \o Prefix(Fresh, n)]

HeadersAppended ==
    /\ At("append")
    /\ AppendHeaders(Len(Fresh))
    /\ Goto("headers")
    /\ UNCHANGED <<backend, server, saved, damage, faults>>

(* appendHeaders() rejects: syncHeaders() throws, memory is ahead.         *)
HeadersRejected ==
    /\ At("append") /\ Fault
    /\ \E n \in Written(Len(Fresh)) :
          /\ AppendHeaders(n)
          /\ damage' = IF n % 2 = 1 /\ damage = "none" THEN "torn" ELSE damage
    /\ engine' = [engine EXCEPT !.pc = "ready", !.rejected = TRUE]
    /\ UNCHANGED <<backend, server, saved>>

(* setChainState(), whole or cut short: writeAll() replaces the file when  *)
(* it is closed (OPFS), writeFile() truncates it first (Node).             *)
StateStored ==
    /\ At("state")
    /\ disk' = [disk EXCEPT !.state = engine.tip]
    /\ Goto("filters")
    /\ UNCHANGED <<backend, server, saved, damage, faults>>

(* getWallet() takes a part of wallet.json for none, as it does an empty   *)
(* file.  An exported state (at most 80 KB) is shorter than the first      *)
(* chunk of writeFile(), so that a cut leaves the emptied file; a part of  *)
(* one, over which open() would throw, is not in the model.                *)
CutNode(old, empty) == {old, empty}

(* Mutant: the file is truncated before it is written.                     *)
CutOpfs_InPlace(old, empty) == {old, empty}
CutOpfs(old, empty) == {old}
Cut(old, empty) ==
    IF backend = "opfs" THEN CutOpfs(old, empty) ELSE CutNode(old, empty)

StateRejected ==
    /\ At("state") /\ Fault
    /\ \E state \in Cut(disk.state, -1) : disk' = [disk EXCEPT !.state = state]
    /\ Goto("ready")
    /\ UNCHANGED <<backend, server, saved, damage>>

(* The next file of filter headers, from the count on disk.                *)
FreshFilters == Entries(FilterHeaderCount, FileEnd(FilterHeaderCount))
AppendFilters(n) ==
    disk' = [disk EXCEPT !.filters = @ \o Prefix(FreshFilters, n)]

FiltersAppended ==
    /\ At("filters") /\ FilterHeaderCount <= engine.target
    /\ AppendFilters(Len(FreshFilters))
    /\ UNCHANGED <<backend, server, engine, saved, damage, faults>>

FiltersRejected ==
    /\ At("filters") /\ FilterHeaderCount <= engine.target /\ Fault
    /\ \E n \in Written(Len(FreshFilters)) : AppendFilters(n)
    /\ Goto("ready")
    /\ UNCHANGED <<backend, server, saved, damage>>

(* syncHeaders() returns: the target is reached, or a stale file has       *)
(* nothing new.                                                            *)
Synced ==
    /\ At("filters")
    /\ Goto("ready")
    /\ UNCHANGED <<backend, server, disk, saved, damage, faults>>

-----------------------------------------------------------------------------
(* setWallet(): only the wallet engine has one to save.                    *)
SaveStart ==
    /\ At("ready") /\ engine.kind = "wallet" /\ saved.next < MaxSaves
    /\ saved' = [saved EXCEPT !.next = @ + 1]
    /\ Goto("save")
    /\ UNCHANGED <<backend, server, disk, damage, faults>>

WalletSaved ==
    /\ At("save")
    /\ disk' = [disk EXCEPT !.wallet = saved.next]
    /\ saved' = [saved EXCEPT !.good = saved.next, !.emptied = FALSE]
    /\ Goto("ready")
    /\ UNCHANGED <<backend, server, damage, faults>>

(* What a write cut short leaves of wallet.json.                           *)
CutWallet ==
    \E wallet \in Cut(disk.wallet, 0) :
        /\ disk' = [disk EXCEPT !.wallet = wallet]
        /\ saved' = [saved EXCEPT !.emptied = @ \/ wallet # disk.wallet]

SaveRejected ==
    /\ At("save") /\ Fault
    /\ CutWallet
    /\ Goto("ready")
    /\ UNCHANGED <<backend, server, damage>>

-----------------------------------------------------------------------------
(* The process dies: between two writes, or in one, which may be complete. *)
Crash ==
    /\ engine.pc \notin {"closed", "thrown"} /\ Fault
    /\ engine' = Closed
    /\ \/ UNCHANGED <<disk, saved, damage>>
       \/ /\ At("append")
          /\ \E n \in Written(Len(Fresh)) \cup {Len(Fresh)} :
                /\ AppendHeaders(n)
                /\ damage' = IF n % 2 = 1 /\ damage = "none" THEN "torn" ELSE damage
          /\ UNCHANGED saved
       \/ /\ At("state")
          /\ \E state \in Cut(disk.state, -1) \cup {engine.tip} :
                disk' = [disk EXCEPT !.state = state]
          /\ UNCHANGED <<saved, damage>>
       \/ /\ At("filters") /\ FilterHeaderCount <= engine.target
          /\ \E n \in Written(Len(FreshFilters)) \cup {Len(FreshFilters)} :
                AppendFilters(n)
          /\ UNCHANGED <<saved, damage>>
       \/ /\ At("save")
          /\ \/ CutWallet
             \/ /\ disk' = [disk EXCEPT !.wallet = saved.next]
                /\ UNCHANGED saved
          /\ UNCHANGED damage
    /\ UNCHANGED <<backend, server>>

(* clear() removes headers.bin, the filter headers, chain-state.bin and    *)
(* wallet.json, in this order, and may die after any of them.              *)
Clear ==
    /\ At("closed")
    /\ \E files \in 1..4 :
          /\ \/ files = 4 /\ UNCHANGED faults
             \/ files < 4 /\ Fault
          /\ disk' = [headers |-> << >>,
                      filters |-> IF files > 1 THEN << >> ELSE disk.filters,
                      state |-> IF files > 2 THEN -1 ELSE disk.state,
                      wallet |-> IF files > 3 THEN 0 ELSE disk.wallet]
          /\ saved' = IF files > 3
                      THEN [good |-> 0, next |-> 0, emptied |-> FALSE]
                      ELSE saved
    /\ damage' = "none"
    /\ UNCHANGED <<backend, server, engine>>

-----------------------------------------------------------------------------
Init ==
    /\ backend \in Backends
    /\ server \in 0..MaxTip
    /\ disk = [headers |-> << >>, filters |-> << >>, state |-> -1, wallet |-> 0]
    /\ engine = Closed
    /\ saved = [good |-> 0, next |-> 0, emptied |-> FALSE]
    /\ damage = "none"
    /\ faults = 0

Next ==
    \/ ServerGrows
    \/ \E kind \in {"wallet", "scanner"} : Open(kind)
    \/ Revalidate \/ Revalidated \/ Close
    \/ SyncStart \/ SyncHeaders \/ HeadersSynced \/ HeadersAppended
    \/ HeadersRejected \/ StateStored \/ StateRejected
    \/ FiltersAppended \/ FiltersRejected \/ Synced
    \/ SaveStart \/ WalletSaved \/ SaveRejected
    \/ Crash \/ Clear

Spec == Init /\ [][Next]_vars

-----------------------------------------------------------------------------
(* Every variable stays in its domain; an exported state, a chain and the  *)
(* target of a sync end at a block the server has, and the wallets saved   *)
(* and on disk are ones that setWallet() was given.                        *)
TypeOK ==
    /\ backend \in Backends /\ server \in 0..MaxTip
    /\ disk \in Disks /\ engine \in Engines /\ saved \in Records
    /\ damage \in {"none", "torn", "gap"} /\ faults \in 0..MaxFaults
    /\ {disk.state, engine.tip, engine.target} \subseteq -1..server
    /\ {disk.wallet, saved.good, saved.next} \subseteq 0..MaxSaves

(* Records are where height arithmetic looks for them.                     *)
HeadersInPlace == ReadHeaders(0, HeaderCount) = Bytes(0, HeaderCount - 1)
FiltersInPlace == disk.filters = Entries(0, FilterHeaderCount - 1)

(* Whatever engine wrote them, and wherever it died or a write failed, the *)
(* files hold the headers and filter headers at their offsets, open()      *)
(* never throws, and the engine agrees with headers.bin (walletstore.ts:   *)
(* 2-5, watchwallet.ts:276-297, spscanner.ts:234-251) - but for a store    *)
(* with a torn record, or with a gap left by an engine that synced again   *)
(* after a rejected append.                                                *)
Intact ==
    damage = "none" =>
        /\ HeadersInPlace /\ FiltersInPlace
        /\ ~At("thrown")
        /\ (At("ready") /\ ~engine.rejected) => engine.tip + 1 = HeaderCount

(* wallet.json holds the wallet last saved or the one being saved, which a *)
(* scanner on the same store, a rejected save and a crash keep (spscanner. *)
(* ts:216-219) - but for Node, where a save that is cut short empties it   *)
(* and the next open() starts a new wallet (walletstore.ts:313-323).       *)
WalletKept ==
    \/ disk.wallet \in {saved.good, saved.next}
    \/ backend = "node" /\ saved.emptied /\ disk.wallet = 0
=============================================================================
