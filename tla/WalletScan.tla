----------------------------- MODULE WalletScan -----------------------------
(***************************************************************************)
(* WatchOnlyWallet.scan(): the sliding-window filter scan of the           *)
(* watch-only wallet, with its lanes, its promise-chained applier, the     *)
(* persisted checkpoint, crashes, failed scans that leave work behind, and *)
(* watches added by the caller at any moment.                              *)
(*                                                                         *)
(* A step is what the event loop runs between two awaits.  A block's       *)
(* content is reduced to the coins it creates and spends: foundAt[c] and   *)
(* spentAt[c] are the heights at which coin c is paid to a watched script  *)
(* and spent (a height above MaxTip: never).                               *)
(***************************************************************************)
EXTENDS Integers, Sequences, FiniteSets

CONSTANTS
    Watches,        \* what a caller may watch (an address or a descriptor)
    Coins,          \* outpoints that pay a script of some watch
    Owner,          \* the watch each coin belongs to
    Birth,          \* the birthHeight each watch is added with
    FalseMatches,   \* heights whose filter matches although nothing is there
    PerFile,        \* status.entries_per_filter_file
    Units,          \* batchSize: the width of the sliding window
    MaxTip,         \* bound: the highest block of a behaviour
    Scans           \* bound: scan() calls that can be in flight, zombies too

ASSUME ConstantsAssumption ==
    /\ Owner \in [Coins -> Watches]
    /\ Birth \in [Watches -> Nat]
    /\ FalseMatches \subseteq Nat
    /\ PerFile \in Nat \ {0}
    /\ Units \in 1..16
    /\ MaxTip \in Nat

VARIABLES
    foundAt, spentAt,   \* the chain's content, fixed
    chainTip,           \* chain.tip().tipHeight
    data,               \* WalletData, in memory
    disk,               \* wallet.json / the OPFS wallet file
    adding,             \* the setWallet() of an addWatch() in flight, if any
    scan,               \* the local state of every scan() call
    late                \* history: watches first added under a live scan

chainVars == <<foundAt, spentAt>>
vars == <<foundAt, spentAt, chainTip, data, disk, adding, scan, late>>

Heights == 0..MaxTip

Wallet == [watches : SUBSET Watches, utxos : SUBSET Coins,
           spent : SUBSET Coins, scannedTo : -1..MaxTip]

FreshWallet == [watches |-> {}, utxos |-> {}, spent |-> {}, scannedTo |-> -1]

(* phase: "prepare" awaits status() and syncFilterHeaders(); "run" has     *)
(* lanes at work; "reject" is between the first failure and the finally    *)
(* block; "freed" is after it: the call has rejected, yet lanes and the    *)
(* applier it started still run.  stage is the await the applier is at.    *)
ScanState ==
    [phase : {"idle", "prepare", "run", "reject", "freed"},
     from : Nat, tip : -1..MaxTip,
     scripts : SUBSET Watches, outpoints : SUBSET Coins,
     next : Nat, matching : SUBSET Nat, parked : SUBSET Nat,
     queue : Seq(Nat), nextApply : Nat,
     stage : {"loop", "fetch", "apply", "write", "dead"},
     todo : SUBSET Nat, write : Wallet]

IdleScan ==
    [phase |-> "idle", from |-> 0, tip |-> -1,
     scripts |-> {}, outpoints |-> {},
     next |-> 0, matching |-> {}, parked |-> {},
     queue |-> << >>, nextApply |-> 0,
     stage |-> "loop", todo |-> {}, write |-> FreshWallet]

Known(d) == d.utxos \cup d.spent

(* A scan() call some step of which can still change the wallet.           *)
Live(s) ==
    \/ scan[s].phase \in {"prepare", "run", "reject"}
    \/ /\ scan[s].phase = "freed"
       /\ scan[s].matching # {} \/ scan[s].queue # << >>

Busy == \E s \in Scans : Live(s)

(* A scan() call whose promise the caller still waits for.                 *)
Awaited(s) == scan[s].phase \in {"prepare", "run", "reject"}

FileStart(h) == h - (h % PerFile)

RangeEnd(s, r) ==
    IF r + PerFile - 1 <= scan[s].tip THEN r + PerFile - 1 ELSE scan[s].tip

(* What matchFilters() reports for the range, less what lies below from.   *)
Matches(s, r) ==
    {h \in r..RangeEnd(s, r) :
        /\ h >= scan[s].from
        /\ \/ h \in FalseMatches
           \/ \E c \in Coins : /\ Owner[c] \in scan[s].scripts
                               /\ h = foundAt[c] \/ h = spentAt[c]}

(* scanStart(): the lowest birthday, or the cursor when it is further.     *)
IsScanStart(h) ==
    \E w \in data.watches :
        /\ \A v \in data.watches : Birth[w] <= Birth[v]
        /\ h = IF Birth[w] > data.scannedTo THEN Birth[w]
                                            ELSE data.scannedTo + 1

-----------------------------------------------------------------------------
(* scan() up to its first await.  An empty window returns at once.         *)
Start(s) ==
    /\ ~Live(s)
    /\ \E from \in 0..chainTip :
          /\ IsScanStart(from)
          /\ scan' = [scan EXCEPT ![s] =
                        [IdleScan EXCEPT !.phase = "prepare", !.from = from,
                                         !.tip = chainTip,
                                         !.next = FileStart(from),
                                         !.nextApply = FileStart(from)]]
    /\ UNCHANGED <<chainVars, chainTip, data, disk, adding, late>>

(* status() and syncFilterHeaders() are back: the watch list is built from *)
(* the watches and utxos of this moment, and the lanes start.              *)
Prepared(s) ==
    /\ scan[s].phase = "prepare"
    /\ scan' = [scan EXCEPT ![s].phase = "run",
                            ![s].scripts = data.watches,
                            ![s].outpoints = data.utxos]
    /\ UNCHANGED <<chainVars, chainTip, data, disk, adding, late>>

(* status() or a filter-header download fails: nothing was allocated yet.  *)
PrepareFailed(s) ==
    /\ scan[s].phase = "prepare"
    /\ scan' = [scan EXCEPT ![s] = IdleScan]
    /\ UNCHANGED <<chainVars, chainTip, data, disk, adding, late>>

(* A lane takes the next range (mapPool's next++).  A lane is busy while   *)
(* its range is being matched or while it awaits its link of applyChain.   *)
TakeRange(s) ==
    /\ scan[s].phase = "run"
    /\ scan[s].next <= scan[s].tip
    /\ Cardinality(scan[s].matching) + Len(scan[s].queue) < Units
    /\ scan' = [scan EXCEPT ![s].next = @ + PerFile,
                            ![s].matching = @ \cup {scan[s].next}]
    /\ UNCHANGED <<chainVars, chainTip, data, disk, adding, late>>

(* matchRange() resolves: the lane parks the matches and chains an         *)
(* applyReady() behind the ones already chained.                           *)
MatchDone(s, r) ==
    /\ r \in scan[s].matching
    /\ scan[s].stage # "dead"
    /\ scan' = [scan EXCEPT ![s].matching = @ \ {r},
                            ![s].parked = @ \cup {r},
                            ![s].queue = Append(@, r)]
    /\ UNCHANGED <<chainVars, chainTip, data, disk, adding, late>>

(* matchRange() rejects (download, or a filter off its commitment twice),  *)
(* or the lane chains behind an applier that already failed.               *)
MatchFailed(s, r) ==
    /\ r \in scan[s].matching
    /\ scan' = [scan EXCEPT ![s].matching = @ \ {r},
                            ![s].phase = IF @ = "run" THEN "reject" ELSE @]
    /\ UNCHANGED <<chainVars, chainTip, data, disk, adding, late>>

-----------------------------------------------------------------------------
(* Mutant: a lane applies whatever range is parked.                        *)
ApplyTake_AnyParked(s) ==
    /\ scan[s].queue # << >> /\ scan[s].stage = "loop"
    /\ \E r \in scan[s].parked :
          scan' = [scan EXCEPT ![s].stage = "fetch", ![s].nextApply = r,
                               ![s].parked = @ \ {r}, ![s].todo = Matches(s, r)]
    /\ UNCHANGED <<chainVars, chainTip, data, disk, adding, late>>

(* applyReady(): the next range is parked; take it and fetch its blocks.   *)
ApplyTake(s) ==
    /\ scan[s].queue # << >> /\ scan[s].stage = "loop"
    /\ scan[s].nextApply \in scan[s].parked
    /\ scan' = [scan EXCEPT ![s].stage = "fetch",
                            ![s].parked = @ \ {scan[s].nextApply},
                            ![s].todo = Matches(s, scan[s].nextApply)]
    /\ UNCHANGED <<chainVars, chainTip, data, disk, adding, late>>

(* applyReady() returns: the lane that chained it may take another range.  *)
ApplyReturn(s) ==
    /\ scan[s].queue # << >> /\ scan[s].stage = "loop"
    /\ scan[s].nextApply \notin scan[s].parked
    /\ scan' = [scan EXCEPT ![s].queue = Tail(@)]
    /\ UNCHANGED <<chainVars, chainTip, data, disk, adding, late>>

BlocksFetched(s) ==
    /\ scan[s].stage = "fetch"
    /\ scan' = [scan EXCEPT ![s].stage = "apply"]
    /\ UNCHANGED <<chainVars, chainTip, data, disk, adding, late>>

(* Mutant: the lanes behind the failed applier are left waiting.           *)
ApplierDies_LinksPending(s) ==
    scan' = [scan EXCEPT ![s].stage = "dead", ![s].todo = {},
                         ![s].write = FreshWallet]

(* The applier throws: every chained link rejects, and so does scan().     *)
ApplierDies(s) ==
    scan' = [scan EXCEPT ![s].stage = "dead", ![s].queue = << >>,
                         ![s].todo = {}, ![s].write = FreshWallet,
                         ![s].phase = IF @ = "run" THEN "reject" ELSE @]

(* A block download fails; or the watch list was freed under the applier,  *)
(* so that scanBlock() throws on its handle.                               *)
ApplyFailed(s) ==
    /\ \/ scan[s].stage = "fetch" /\ scan[s].todo # {}
       \/ /\ scan[s].stage = "apply" /\ scan[s].todo # {}
          /\ scan[s].phase = "freed"
    /\ ApplierDies(s)
    /\ UNCHANGED <<chainVars, chainTip, data, disk, adding, late>>

(* scanBlock(): outputs paying a watched script, and spends of outpoints   *)
(* that were on the watch list when the block was scanned.                 *)
BlockOutputs(s, h) ==
    {c \in Coins : foundAt[c] = h /\ Owner[c] \in scan[s].scripts}

BlockSpends(s, h) == {c \in scan[s].outpoints : spentAt[c] = h}

(* Mutant: a coin already seen spent is recorded again as unspent.         *)
ApplyBlock_Resurrects(s) ==
    /\ scan[s].stage = "apply"
    /\ scan[s].phase \in {"run", "reject"}
    /\ \E h \in scan[s].todo :
          /\ \A g \in scan[s].todo : h <= g
          /\ LET new == BlockOutputs(s, h)
                 gone == BlockSpends(s, h) \cap (data.utxos \cup new)
             IN /\ data' = [data EXCEPT !.utxos = (@ \cup new) \ gone,
                                        !.spent = @ \cup gone]
                /\ scan' = [scan EXCEPT
                              ![s].outpoints = (@ \cup new) \ gone,
                              ![s].todo = @ \ {h}]
    /\ UNCHANGED <<chainVars, chainTip, disk, adding, late>>

(* Mutant: a coin found by this scan is not put on its watch list.         *)
ApplyBlock_NotTracked(s) ==
    /\ scan[s].stage = "apply"
    /\ scan[s].phase \in {"run", "reject"}
    /\ \E h \in scan[s].todo :
          /\ \A g \in scan[s].todo : h <= g
          /\ LET new == BlockOutputs(s, h) \ Known(data)
                 gone == BlockSpends(s, h) \cap data.utxos
             IN /\ data' = [data EXCEPT !.utxos = (@ \cup new) \ gone,
                                        !.spent = @ \cup gone]
                /\ scan' = [scan EXCEPT ![s].todo = @ \ {h}]
    /\ UNCHANGED <<chainVars, chainTip, disk, adding, late>>

(* scanBlock() and applyBlock() on the lowest block left of the range.     *)
ApplyBlock(s) ==
    /\ scan[s].stage = "apply"
    /\ scan[s].phase \in {"run", "reject"}
    /\ \E h \in scan[s].todo :
          /\ \A g \in scan[s].todo : h <= g
          /\ LET new == BlockOutputs(s, h) \ Known(data)
                 gone == BlockSpends(s, h) \cap (data.utxos \cup new)
             IN /\ data' = [data EXCEPT !.utxos = (@ \cup new) \ gone,
                                        !.spent = @ \cup gone]
                /\ scan' = [scan EXCEPT
                              ![s].outpoints = (@ \cup new) \ gone,
                              ![s].todo = @ \ {h}]
    /\ UNCHANGED <<chainVars, chainTip, disk, adding, late>>

(* Mutant: the cursor is persisted before the range's blocks are applied.  *)
Checkpoint_Early(s) ==
    /\ scan[s].stage = "apply"
    /\ data' = [data EXCEPT !.scannedTo = RangeEnd(s, scan[s].nextApply)]
    /\ scan' = [scan EXCEPT ![s].stage = "write", ![s].write = data']
    /\ UNCHANGED <<chainVars, chainTip, disk, adding, late>>

(* The contiguous prefix grew: move the cursor and start persisting it.    *)
Checkpoint(s) ==
    /\ scan[s].stage = "apply" /\ scan[s].todo = {}
    /\ data' = [data EXCEPT !.scannedTo = RangeEnd(s, scan[s].nextApply)]
    /\ scan' = [scan EXCEPT ![s].stage = "write", ![s].write = data']
    /\ UNCHANGED <<chainVars, chainTip, disk, adding, late>>

(* Mutant: each link of applyChain applies one range and returns.          *)
Written_OneRangePerLink(s) ==
    /\ scan[s].stage = "write"
    /\ disk' = scan[s].write
    /\ scan' = [scan EXCEPT ![s].stage = "loop", ![s].write = FreshWallet,
                            ![s].nextApply = @ + PerFile,
                            ![s].queue = Tail(@)]
    /\ UNCHANGED <<chainVars, chainTip, data, adding, late>>

(* The checkpoint reaches the disk, and the drain goes on.                 *)
Written(s) ==
    /\ scan[s].stage = "write"
    /\ disk' = scan[s].write
    /\ scan' = [scan EXCEPT ![s].stage = "loop", ![s].write = FreshWallet,
                            ![s].nextApply = @ + PerFile]
    /\ UNCHANGED <<chainVars, chainTip, data, adding, late>>

WriteFailed(s) ==
    /\ scan[s].stage = "write"
    /\ ApplierDies(s)
    /\ UNCHANGED <<chainVars, chainTip, data, disk, adding, late>>

-----------------------------------------------------------------------------
(* Every lane has returned: scan() frees the watch list and resolves.      *)
Resolve(s) ==
    /\ scan[s].phase = "run"
    /\ scan[s].next > scan[s].tip
    /\ scan[s].matching = {} /\ scan[s].queue = << >>
    /\ scan' = [scan EXCEPT ![s] = IdleScan]
    /\ UNCHANGED <<chainVars, chainTip, data, disk, adding, late>>

(* The finally block of a failed scan frees the watch list and terminates  *)
(* the workers.  Replies already posted still arrive; the other requests   *)
(* never settle, and no lane gets further than that.                       *)
Reject(s) ==
    /\ scan[s].phase = "reject"
    /\ \E replied \in SUBSET scan[s].matching :
          scan' = [scan EXCEPT ![s].phase = "freed",
                               ![s].matching = replied]
    /\ UNCHANGED <<chainVars, chainTip, data, disk, adding, late>>

(* Mutants: the cursor is left at the birthday; or pulled back too far.    *)
AddWatch_AtBirthday(w) ==
    /\ adding = {}
    /\ data' = [data EXCEPT
                  !.watches = @ \cup {w},
                  !.scannedTo = IF @ > Birth[w] THEN Birth[w] - 1 ELSE @]
    /\ adding' = {data'}
    /\ late' = IF w \in data.watches THEN late
               ELSE IF Busy THEN late \cup {w} ELSE late \ {w}
    /\ UNCHANGED <<chainVars, chainTip, disk, scan>>

AddWatch_TooFar(w) ==
    /\ adding = {}
    /\ data' = [data EXCEPT
                  !.watches = @ \cup {w},
                  !.scannedTo = IF @ >= Birth[w] THEN Birth[w] - 2 ELSE @]
    /\ adding' = {data'}
    /\ late' = late
    /\ UNCHANGED <<chainVars, chainTip, disk, scan>>

(* addWatch(): remember the watch, pull the cursor back, start persisting. *)
AddWatch(w) ==
    /\ adding = {}
    /\ data' = [data EXCEPT
                  !.watches = @ \cup {w},
                  !.scannedTo = IF @ >= Birth[w] THEN Birth[w] - 1 ELSE @]
    /\ adding' = {data'}
    /\ late' = IF w \in data.watches THEN late
               ELSE IF Busy THEN late \cup {w} ELSE late \ {w}
    /\ UNCHANGED <<chainVars, chainTip, disk, scan>>

WatchWritten ==
    /\ \E d \in adding : disk' = d
    /\ adding' = {}
    /\ UNCHANGED <<chainVars, chainTip, data, scan, late>>

(* setWallet() rejects, and so does addWatch(): the watch stays in memory. *)
WatchWriteFailed ==
    /\ adding # {}
    /\ adding' = {}
    /\ UNCHANGED <<chainVars, chainTip, data, disk, scan, late>>

(* New blocks: syncHeaders() extends the validated chain.                  *)
Grow ==
    /\ \E tip \in (chainTip + 1)..MaxTip : chainTip' = tip
    /\ UNCHANGED <<chainVars, data, disk, adding, scan, late>>

(* Mutant: the cursor outlives the wallet it belongs to.                   *)
Reopen_KeepsCursor ==
    /\ data' = [disk EXCEPT !.scannedTo = data.scannedTo]
    /\ adding' = {}
    /\ scan' = [s \in Scans |-> IdleScan]
    /\ UNCHANGED <<chainVars, chainTip, disk, late>>

(* The process dies, at any await, and open() reads the wallet back.       *)
Reopen ==
    /\ data' = disk
    /\ adding' = {}
    /\ scan' = [s \in Scans |-> IdleScan]
    /\ UNCHANGED <<chainVars, chainTip, disk, late>>

-----------------------------------------------------------------------------
InitWallet ==
    /\ chainTip \in -1..MaxTip
    /\ data = FreshWallet
    /\ disk = FreshWallet
    /\ adding = {}
    /\ scan = [s \in Scans |-> IdleScan]
    /\ late = {}

(* Every chain in which a coin is spent in a later block than it is made.  *)
Init ==
    /\ foundAt \in [Coins -> Heights]
    /\ spentAt \in [Coins -> 0..(MaxTip + 1)]
    /\ \A c \in Coins : foundAt[c] < spentAt[c]
    /\ InitWallet

Work(s) ==
    \/ Prepared(s) \/ PrepareFailed(s)
    \/ TakeRange(s)
    \/ \E r \in scan[s].matching : MatchDone(s, r) \/ MatchFailed(s, r)
    \/ ApplyTake(s) \/ ApplyReturn(s)
    \/ BlocksFetched(s) \/ ApplyFailed(s) \/ ApplyBlock(s)
    \/ Checkpoint(s) \/ Written(s) \/ WriteFailed(s)
    \/ Resolve(s) \/ Reject(s)

Caller ==
    \/ \E w \in Watches : AddWatch(w)
    \/ WatchWritten \/ WatchWriteFailed
    \/ Grow
    \/ Reopen

(* A caller that awaits scan() before it calls scan() again.               *)
Next ==
    \/ \E s \in Scans : /\ \A t \in Scans : ~Awaited(t)
                        /\ Start(s)
    \/ \E s \in Scans : Work(s)
    \/ Caller

Spec == Init /\ [][Next]_vars

(* Lane, applier and scan() itself keep running as long as the process     *)
(* lives: promise reactions are always run, and every download and write   *)
(* settles (downloads are retried a bounded number of times).  A match     *)
(* need not: a request posted to a worker that died while it was idle is   *)
(* never answered (matchpool.ts:64-65, 98-105; MatchPool!Hung).            *)
ApplierStep(s) ==
    \/ ApplyTake(s) \/ ApplyReturn(s) \/ BlocksFetched(s) \/ ApplyFailed(s)
    \/ ApplyBlock(s) \/ Checkpoint(s) \/ Written(s) \/ WriteFailed(s)

CallStep(s) == Prepared(s) \/ PrepareFailed(s) \/ Resolve(s) \/ Reject(s)

FairSpec ==
    /\ Spec
    /\ \A s \in Scans : /\ WF_vars(TakeRange(s))
                        /\ WF_vars(ApplierStep(s))
                        /\ WF_vars(CallStep(s))

(* Chains in which a coin may be spent in the very block that creates it.  *)
SameBlockInit ==
    /\ foundAt \in [Coins -> Heights]
    /\ spentAt \in [Coins -> 0..(MaxTip + 1)]
    /\ \A c \in Coins : foundAt[c] <= spentAt[c]
    /\ InitWallet

SameBlockSpec == SameBlockInit /\ [][Next]_vars

-----------------------------------------------------------------------------
(* Every variable stays in its domain; the cursor never leaves -1..MaxTip. *)
TypeOK ==
    /\ foundAt \in [Coins -> Heights]
    /\ spentAt \in [Coins -> Nat]
    /\ chainTip \in -1..MaxTip
    /\ data \in Wallet
    /\ disk \in Wallet
    /\ adding \subseteq Wallet
    /\ scan \in [Scans -> ScanState]
    /\ late \subseteq Watches

(* A coin the wallet must know of: its watch is there, was not slipped in  *)
(* under a running scan, and was born no later than the coin.              *)
Relevant(d, c) ==
    /\ Owner[c] \in d.watches \ late
    /\ foundAt[c] >= Birth[Owner[c]]

(* Everything up to the cursor is accounted for.                           *)
SoundUpTo(d, cursor) ==
    \A c \in Coins :
        Relevant(d, c) => /\ foundAt[c] <= cursor => c \in Known(d)
                          /\ spentAt[c] <= cursor => c \in d.spent

(* The scannedTo checkpoint never claims a block whose finds or spends the *)
(* wallet missed: whatever order ranges complete in, however many scans    *)
(* failed before and left lanes and an applier behind, and wherever the    *)
(* process died and resumed (watchwallet.ts:582-590).                      *)
CheckpointSound == SoundUpTo(data, data.scannedTo)

(* The same of the wallet on disk: a crash at any await resumes from a     *)
(* cursor that its own utxos and spent records justify.                    *)
DiskSound == SoundUpTo(disk, disk.scannedTo)

(* A coin is never listed as unspent and spent at once, also when blocks   *)
(* are applied again after a crash or a pulled-back cursor.                *)
NeverBoth == data.utxos \cap data.spent = {}

(* scan() resolves when its lanes have returned; by then the applier has   *)
(* consumed every range, so the summary it returns covers the window.      *)
LanesReturned(s) ==
    /\ scan[s].phase = "run"
    /\ scan[s].next > scan[s].tip
    /\ scan[s].matching = {} /\ scan[s].queue = << >>

ResolvedIsComplete ==
    \A s \in Scans : LanesReturned(s) => /\ scan[s].parked = {}
                                         /\ scan[s].nextApply > scan[s].tip

(* A range is parked for as long as the applier has not reached it, and it *)
(* is never applied ahead of an earlier range that is still being matched. *)
AppliedInOrder ==
    \A s \in Scans : \A r \in scan[s].matching \cup scan[s].parked :
        /\ scan[s].nextApply <= r
        /\ scan[s].stage \in {"fetch", "apply", "write"} => scan[s].nextApply < r

(* Every scan() the caller waits for settles: no lane and no applier waits *)
(* for a link of applyChain that nobody will run; unless the match of one  *)
(* of its ranges never ends, as that of a range handed to a dead idle      *)
(* worker does not.                                                        *)
NeverMatched(s) == \E r \in Heights : [](r \in scan[s].matching)
ScanSettles == \A s \in Scans : Awaited(s) ~> (~Awaited(s) \/ NeverMatched(s))

(* addWatch() pulls the cursor back so that a new watch has its whole      *)
(* range scanned (watchwallet.ts:356-357): also for a watch added while a  *)
(* scan is running.                                                        *)
EveryWatchScanned ==
    \A c \in Coins :
        /\ Owner[c] \in data.watches
        /\ Birth[Owner[c]] <= foundAt[c] /\ foundAt[c] <= data.scannedTo
        => c \in Known(data)

(* A WalletUtxo is a tracked unspent output (watchwallet.ts:174): once the *)
(* cursor has passed the block that spends it, it is no longer listed.     *)
(* Under Spec, where no coin is spent in the block that creates it.  Of a  *)
(* coin that is not Relevant this cannot be said: a call left behind by a  *)
(* failed scan may move the cursor past its spend without looking for it.  *)
ListedIsUnspent ==
    \A c \in data.utxos : Relevant(data, c) => spentAt[c] > data.scannedTo

=============================================================================
