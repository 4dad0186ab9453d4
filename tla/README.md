# Verification of btcutil-js

btcutil-js compiles Go's btcd libraries to WebAssembly and puts a TypeScript
library over them.  Most of the functions are stateless.  What has state, awaits,
threads, files and a peer that changes its mind is the *light client*: a
watch-only wallet and a silent payment scanner that follow a block-dn HTTP
server, validate the header chain in Go, match compact block filters in worker
threads, and keep a resumable checkpoint on disk.  Below it is the bridge, with
references, handles and callbacks across two collectors, and a JSON codec
between two languages.  This directory holds TLA+ models of these parts, the TLC
runs over small instances, and TLAPS proofs for all instances.

    tlc -config WalletScan.cfg MCWalletScan        # one run
    tlapm WalletScanProofs.tla                     # the proofs of a module

`PROJECT.json` lists components, runs, the mutant of each property, the source
lines of each definition, hazards, findings and theorems.

## 1. Inventory

| component | state it keeps | operations | talks to | hard behaviour |
|---|---|---|---|---|
| `WatchOnlyWallet` (`src/src/watchwallet.ts`) | `WalletData`: watches, utxos, spent, `scannedTo`; a handle to the header chain | `open`, `syncHeaders`, `addWatch`, `scan`, `followTip`, `utxos`, `free` | store, server, header chain, match pool | lanes finishing out of order; crash at any await; failed scans whose lanes live on; reorgs between two requests |
| `SilentPaymentScanner` (`spscanner.ts`) | none between calls but the store's headers; a scan's ranges and candidates | `open`, `syncHeaders`, `scan`, `free` | store, server, `SpScanPool` | the same sliding window, without an applier; refetch of failed ranges |
| `MatchWorkerPool`, `SpScanPool` (`matchpool.ts`) | threads, idle stack, waiters, pending requests | `create`, `match` / `scanBatch`, `free` | worker threads by messages | threads that die; init timeout; `free()` under running requests |
| worker entry (`neutrino-worker.ts`) | a watch list or a scanner | `init`, `match`, `spInit`, `spScanBatch` | a WASM instance | errors before and after `init` |
| `WalletStorage` (`walletstore.ts`) | headers.bin, filter-header files, chain-state.bin, wallet.json | append, truncate, read, overwrite | file system or OPFS | rejected and torn writes, in place or swapped in; two engines on one store |
| `BlockDnClient` (`blockdn.ts`) | none | status, headers, filter headers, filters, block, tweaks | HTTP server | bounded retries; each answer is of another moment |
| header chain (`src/wasm-wrapper/neutrino.go`) | tip, a ring window of headers, work | `append`, `rollback`, `exportState`, `importState` | - | retarget and median time at the window's edge |
| watch list, filter match, block scan (`neutrino_match.go`) | scripts and outpoints | `matchFilters`, `scanBlock` | GCS filters | input matching against outpoints found earlier |
| handle bridge (`neutrino_js.go`, `descriptors.go`, `neutrino.ts`, `descriptors.ts`, `spscan.ts`) | registries handle -> object, wrappers | new, use, `planAt`, free, finalize | JS wrappers, callbacks | use after free, late finalizers, calls nested through callbacks, callbacks that throw |
| WASM loading (`init.ts`) | the module promise | `init`, `unwrap` | the Go runtime | concurrent `init()` calls, failure and retry, a program that has exited |
| Go runtime glue (`wasm_exec.ts`) | table of JavaScript values, reference counts, a pool of ids | store, load, finalize, call, resume | the WASM instance | ids given back and used again while references are collected late |
| JSON codecs (`codec.ts`, `jsontypes.go`, `psbt.go`, `tx.go`) | none | `decode`, `encode` | each other | what JSON, `omitempty` and truthiness do not tell apart |
| silent payment scanner (`silentpayments.go`) | keys and labels | `spScanBatch`, `spScanBlock`, `spScanOutputs` | secp256k1 | the k-loop over outputs |
| everything else (PSBT signing, MuSig2, script engine, keys, addresses, encodings) | none | one call, one answer | btcd | pure functions over a library |

How they interact: `scan()` asks the store for headers and filter headers, the
server for filters and blocks, the pool for matches; the pool posts a request
to a worker thread, which calls `matchFilters` in its own WASM instance; the
main thread calls `scanBlock` in the main instance.  `followTip()` appends to
the header chain and the store, rolls both back on a mismatch, and ends in
`scan()`.  The store is the only thing a crash leaves.

What makes each part correct:

* **Scan**: the cursor `scannedTo` vouches only for blocks that were applied,
  in memory and on disk, whatever the order of ranges, failures and crashes;
  no coin is unspent and spent at once; a scan that resolves covered its
  window; every scan settles.
* **Header sync and tip following**: headers.bin is one chain, memory and disk
  agree between calls, every block at or below the cursor was searched, also
  after a reorg, and polling catches up with the server.
* **Pool**: no worker is lost, shared or idle beside a waiter; an answer reaches
  the call it belongs to; `create()` and calls settle; no thread is left.
* **Header chain**: what it accepts from its window, after any rollbacks and
  resumptions, is what a node that keeps every header would accept; it can
  always go on.
* **Silent payment scan**: each payment of the window is found once, progress is
  exact whatever is fetched again, only a fault no retry heals rejects, and
  every scan settles.
* **Store**: whoever wrote them and wherever a write was cut, the files hold
  records at their offsets, memory agrees with them after `open()`, and the
  saved wallet survives.
* **Bridge**: a reference in Go denotes its value, a handle its own object from
  creation to free and nothing afterwards, and no object outlives its wrapper.
* **Codec**: what was decoded, stored and encoded is what was decoded.

Hazards are listed with their lines in `PROJECT.json`.

## 2. Modules

| module | what it is |
|---|---|
| `WalletScan` | `scan()`, `addWatch()`, crash and reopen: lanes, applier, checkpoint |
| `Ledger` | abstract: a page lists exactly the watched coins that are unspent at its cursor |
| `WalletScanLedger` | the refinement mapping `WalletScan` -> `Ledger` |
| `MCWalletScan` | small instances of the above |
| `WalletScanProofs` | proofs about `WalletScan`, and that it implements `Ledger` |
| `TipSync`, `MCTipSync` | `syncHeaders()`, `scan()`, `followTip()`, `open()` over the files, and the server |
| `TipSyncProofs` | proofs about `TipSync` |
| `MatchPool`, `MCMatchPool` | the worker pool, its message envelope, the worker's handler |
| `Lending` | abstract: workers lent to one caller at a time, first come first served |
| `MatchPoolLending` | the refinement mapping `MatchPool` -> `Lending` |
| `MatchPoolProofs` | proofs about `MatchPool`, and that it implements `Lending` |
| `HeaderChain`, `MCHeaderChain` | the Go accumulator behind `chain`: difficulty, median time, the ring window |
| `HeaderChainProofs` | proofs about `HeaderChain` |
| `SpScan`, `MCSpScan` | `SilentPaymentScanner.scan()` with `fetchBinary()`'s retries |
| `SpScanProofs` | proofs about `SpScan` |
| `WalletStore`, `MCWalletStore` | both storage backends under both engines, with writes that are cut short |
| `WalletStoreProofs` | proofs about `WalletStore` |
| `Bridge`, `MCBridge` | `init()`, references, handles, nested calls, panics |
| `BridgeProofs` | proofs about `Bridge` |
| `Codec`, `MCCodec` | the JSON form of packets and transactions, in both languages |
| `CodecProofs` | the proof that a round trip is the identity on what JSON can represent |

`TipSync` composes with `WalletScan` by abstraction: the scan of one filter file,
a single step of `TipSync` (`ScanRange`), is what `WalletScan` opens up lane by
lane; and a match, one step of `WalletScan` (`MatchDone`, `MatchFailed`), is what
`MatchPool` opens up message by message.  The chain of `TipSync` accepts what links; which
headers `append` takes, and what a rollback leaves for the next ones, is
`HeaderChain`; the bytes of its files, and writes that are cut short, are
`WalletStore`.  `SpScan` sees the pool as `WalletScan` does, and its scanner as one
of the objects of `Bridge`.  A step is everywhere what the event
loop runs between two awaits, or one event of a worker thread.

### WalletScan

State: `data` (`this.data`), `disk` (the wallet file), `adding` (the `setWallet()`
of an `addWatch()` in flight), `chainTip` (`chain.tip()`), and for every `scan()` call
its locals: `next` (mapPool's counter), `matching` (ranges a lane is matching),
`parked` (`results`), `queue` (the links of `applyChain`), `nextApply`, `stage` (the
await the applier is at), the scripts and outpoints of the watch list, and
`phase`.  A block is reduced to the coins it creates and spends; `foundAt` and
`spentAt` range over all chains.  `late` is a history variable: watches that were
slipped in while a scan was live.

| action | code |
|---|---|
| `Start`, `Prepared`, `PrepareFailed` | `scan()` up to the lanes; the watch list is built after two awaits |
| `TakeRange`, `MatchDone`, `MatchFailed` | a lane of `mapPool()`, `matchRange()` |
| `ApplyTake`, `BlocksFetched`, `ApplyBlock`, `Checkpoint`, `Written`, `ApplyReturn` | `applyReady()`, await by await |
| `ApplyFailed`, `WriteFailed` | the applier throws: its link and all later ones reject |
| `Resolve`, `Reject` | the end of `scan()` and its `finally` |
| `AddWatch`, `WatchWritten`, `WatchWriteFailed`, `Grow`, `Reopen` | the caller, new blocks, a crash with a restart |

A rejected scan does not stop: its lanes and applier go on in phase "freed"
until what they have in flight is used up, beside the next scan.  The model has
this; `WalletScan_retry` is about it.

### TipSync

State: `server` (branch and tip), `chain` (Go's validated headers), `wallet`
(cursor and finds, in memory), `disk` (headers.bin, the filter headers,
chain-state.bin, the wallet file), `call` (the call in progress and the await it is
at).  A header names its whole past, so it is a pair branch/height; a filter
header likewise.  Between any two steps the server may grow or switch to a longer
branch, a download may fail, and the process may die; `Reopen` is `open()`,
which trusts chain-state.bin if its length agrees with headers.bin and
revalidates otherwise.  `reorg` is a history variable: "open" from a rollback
until a `followTip()` returns, which it does only once the new branch is stored, searched
and saved; "torn" once the process died while it was open, be it during the call that
rolled back or after that call threw.

### MatchPool

State: `pool` (what `create()` came to), `thread`, `inbox` and `outbox` (messages to
and from each worker), `pending` (`MatchWorker.pending`), `watching` (the handler's
watch list), `inited`, `idle`, `waiters`, and `caller`, the program counter of each
`requestOnIdle()` and the worker it got.  A posted message, its handling, its
answer and its dispatch are separate steps; a promise reaction is a step of its
own.  Threads die at any moment, of themselves (`Die`) or by `terminate()`.

`Lending` is what the pool promises: no messages, no threads, no program counters.
A worker is free, or lent to one caller; a caller that finds none free joins the end of a
queue, and a returned worker goes to its head; a worker at work cannot be returned.
`MatchPoolLending` maps the stack of idle workers to the free ones, the waiters to the queue,
and the threads that run with a caller's request in their inbox to those at work.

### HeaderChain

State: `net` (the network's parameters), `tipHeight`, `chainWork`, `ring` (the window) and
`exported`, the state a later process may import.  `archive`, every header of the
chain, and `peak`, the highest tip the window remembers, are history variables:
the code has neither.  The properties compare the two: `RulesKept` states
the network's rules over the whole archive, in its own words, while `ExpectedBits`
and `MedianTimePast` read the ring as the code does.

| action | code |
|---|---|
| `Connect` | `connectHeader()`, of each header of `append()`; a header that is refused changes nothing and ends the batch |
| `Rollback` | `rollback()`, with the conditions on which it refuses |
| `Export`, `Import`, `New` | `exportState()`, `importState()`, `newHeaderChain()` |

Compact bits, targets, work and medians are computed as in the code, with digits of
any even base `Byte` instead of bytes, so that the sign bit is half a digit.  Powers of the
base are a recursive function, which the provers can reason about; they know nothing of `^`.

### SpScan

State: `call` (the window, the phase of `scan()`, `blocksDone`, the results), `lane`
(per range: the await its lane is at, attempt, cache-busting flag, blocks reported
so far, what is still to identify), `copy` (what the CDN serves for a range:
good, old, wrong or short), `at` (the heights of the outputs that pay the scanner).

| action | code |
|---|---|
| `Start`, `Refused`, `PoolCreated` | `scan()` up to the lanes |
| `TakeRange`, `Fetched`, `FetchRetried`, `FetchFailed` | `mapPool()`, `scanRange()`'s downloads, `fetchBinary()` |
| `OnBlocks`, `Scanned`, `Mismatch`, `ScanFailed`, `ScanOnFreed` | `scanBatch()` in a worker or here, the refetch past the cache |
| `BlocksFetched`, `BlocksFailed`, `Identify`, `IdentifyOnFreed`, `Found`, `RangeDone` | the rest of the lane |
| `Resolve`, `Reject` | the end of `scan()`, its `finally` included |

As in `WalletScan`, lanes go on after a rejection, here with a freed scanner and a
terminated pool.

### WalletStore

State: `disk` (the four files; a header is two halves, so that a torn record exists),
`engine` (which of the two engines is open, its await, its tip in memory), `saved`
(what the wallet file should hold), `damage` (history: a torn record, or a gap).  A
write is whole, rejected, or cut by a crash; what is left of it is the backend's:
OPFS swaps a file in when it is closed, Node writes in place, in chunks.  `open()`
revalidates headers.bin in batches when the exported state disagrees with it.

### Bridge

State: `load` (the promise of `init()`), `table` (`_values`, `_goRefCounts`, `_ids`, `_idPool`),
`held` (Go's references), `registry` (Go's objects by handle), `wrapper` (JavaScript's
objects), `stack` (calls under way: Go and JavaScript alternate), `timer`, `exited`.
Both collectors run at any moment: `FinalizeRef` while Go does, `Finalize` as a
task of its own.  `CallbackThrows` and `Panics` end the program, or the call that
recovers.

### Codec

State: `packet` (what Go parsed), `value` (the decoded value, or what Go makes of it)
and where it is.  `Decode`, `Store` (JSON in between), `Retype` (a user's own arrays
or hex strings), `Encode`, `Again`.  Fields that both languages treat alike are one
field.  `Representable` names the packets for which JSON has a form.  The types a packet has
in Go, and its parts in JSON and JavaScript, are declared sets; two assumptions say that Go's
parser makes as many inputs and outputs as the transaction has (`PacketsAssumption`), and that
a key an object lacks is none of the values it may have (`AbsentAssumption`).

## 3. Runs

| run | shows |
|---|---|
| `scan_windows` (2.5M states) | one scan at a time over 4 blocks in 2 files, width 2, one coin at every pair of heights, two watches with different birthdays, a false match, crashes, failures and watches added at any moment: the checkpoint is sound in memory and on disk, nothing is unspent and spent, ranges are applied in order, a scan that resolves is complete, and the wallet implements `Ledger` |
| `scan_retry` (530k) | two scans in flight, of which one is the leftover of a failed one: every awaited scan settles, unless one of its matches is never answered |
| `tip_sync` (220k) | growth, reorgs within and beyond one rollback, two faults: headers linked, memory and disk agree, cursor sound, a call takes back none but the last blocks, and the wallet catches up, headers and cursor |
| `header_chain` (930k) | chains of up to six headers on three networks, with every timestamp the rules allow, rollbacks, export, import and restart: the window is the end of the chain, the work adds up, retargets and medians find their headers, every accepted header obeys the rules over all its predecessors, and the next target is always one the network allows |
| `match_pool` (54k) | four callers for two workers, two deaths, failing and hanging inits, `free()` at any moment: workers and answers go where they belong, nobody is forgotten, and the pool implements `Lending` |
| `sp_scan` (940k) | two lanes over three files, five windows, stale, wrong and short copies, one failed download or dead worker, a pool or none: each payment is found once and in order, progress is exact, rejections have a cause, and `scan()` settles, unless a batch stays at a worker for good |
| `store` (580k) | both engines in turn on either backend, two rejected writes or crashes anywhere, `clear()`: files intact, `open()` agrees with them, the wallet is kept |
| `bridge` (264k) | two objects of any kinds, two values, two references, calls three deep, two loads: references and handles denote what they were made for |
| `codec` (70k) | every field nil, empty, zero, small, large, alone and combined within an input: the round trip is the identity on what JSON can represent, and normalises the rest once |
| `scan_late_watch`, `scan_same_block`, `tip_resume` | counterexamples: see Findings |

### Bounds

`MaxTip` 3 with `PerFile` 2 gives two ranges, a file boundary inside the window and a
short last file; two lanes are enough for every out-of-order completion of two
ranges, and the applier only ever compares with the next range.  One coin at
every pair of heights stands for each coin of a larger wallet: no guard relates
two coins, and blocks with other coins are false matches to it; two watches are needed
because the second one moves the cursor.  `scan_retry` has `MaxTip` 1 and `PerFile` 1, two ranges again, and two calls
in flight.  In `TipSync` the fork is after the genesis block, so that with `Depth` 1
(6 in the code) reorgs of depth 1 and 2 fall on both sides of one rollback.
Faults are bounded by `MaxFaults` 2: one for each of two downloads of one call, or
a failed one and a crash after it.  In `MatchPool` four callers on two workers
make two calls queue at once while both workers are busy, which is what tells a
queue from a stack; callers call again and again, without a bound.  The theorems
need none of these bounds: what a run shows of safety on its instance is proved for all of
them, `CanGoOn` under a condition on the last target.

`HeaderChain` has a period of 2 headers in a window of 4, a median of 3 and targets up to
13 in binary digits, so that six headers see two retargets, headers that leave
the window, and targets whose mantissa reaches the sign bit.  `MaxBack` is more than
a bound: it is the condition on which the window suffices.  Entries that slid out do
not come back on a rollback, so a chain rolled back below its highest tip by more
than `Window - Period`, 32 in the code, has no start of the period when the next
retarget falls among the headers that follow.  `append()` then refuses the retarget
header, and goes on refusing it: rolling back 6 and appending 6 leaves the
window as short as it was, and the exported state keeps it so.  Six polls of
`followTip()` on a branch that forks deeper than 32 blocks come to that.  The comment at
`neutrino.go:53-57` ("always find what they need") holds for rollbacks up to 32.

`SpScan` has three files of two blocks for two lanes, so that a lane takes a second
range while the other is still at its first, and windows that start and end in
the middle of a file, or beyond the tip.  One fault at any place, beside two bad
copies, is enough to leave one lane behind in every stage.  `WalletStore` has four
headers in two files, revalidated three at a time, the last batch a short one; two
faults make a crash after a rejected write.  In `Bridge` two wrappers make one
object that outlives the other, two values and two references make ids shared,
pooled and used again, and depth three is Go, a callback, and Go again; handles
are never reused, so more of them add nothing.  `Codec` has digits of base 2 and a
largest safe number of 8, with amounts on both sides.

### Fairness

* `WalletScan!FairSpec`: weak fairness of each scan's lanes taking ranges, of its applier
  and of its own steps.  Every step is a promise reaction or the settling of a request;
  requests are retried a bounded number of times by `BlockDnClient`.  A *match* need not
  settle: one posted to a worker that died while it was idle, or that waits for a pool
  which is freed, is never answered (`MatchPool!Hung`), so `ScanSettles` says that a scan
  settles or one range stays with its lane for ever (`NeverMatched`).  Nothing is assumed
  of the caller.
* `TipSync!FairSpec`: a call in progress goes on (weak fairness); the user keeps
  polling `followTip()` and, while blocks are unsearched, `scan()` (strong
  fairness, since a crash or another call may come in between), as
  `tools/neutrino-demo.mjs` does.  The server's chain stops changing because its
  height is bounded; nothing makes it move.
* `MatchPool!FairSpec`: `setTimeout` fires, a match comes to an end, messages of a
  thread that was not terminated are dispatched, promise reactions run.  An
  *init* need not come to an end: that is what the timeout is for.
* `SpScan!FairSpec`: requests settle after a bounded number of attempts, promise
  reactions run, and `create()` settles, which is `MatchPool!CreateSettles`.  A *batch*
  at a worker need not settle, for the same reason, and `Settles` excepts one that stays
  there (`AtWorker`); scans without a pool have no such exception.
* `WalletStore`, `Bridge` and `Codec` state safety only.  Of the bridge no liveness holds
  that is worth stating: a program that ends before it is ready leaves `init()`
  pending for ever (`LoadHangs`), and a callback may never return.

`CHECK_DEADLOCK FALSE` is set where the system may really stop: a wallet whose
`open()` throws, callers that wait for a freed pool.

## 4. Proofs

Each theorem has the form `Spec => []P`, or `Spec => [][A]_vars`, or says that `Spec`
implements an abstract one, for every value of the constants that satisfies the
module's named assumptions, and rests on an inductive invariant `IInv` whose conjuncts are
named parts; TLC checked each `IInv` on the instances of the runs, as far as it can be evaluated
there, beside the proof.  A step preserves each conjunct it can disturb, one lemma per action or group of actions.

`WalletScanProofs` shows, for any watches, coins, birthdays, file size, width,
height and number of scan() calls, `Spec => []TypeOK`, `[]CheckpointSound`,
`[]DiskSound`, `[]NeverBoth`, `[]ListedIsUnspent`, `[]AppliedInOrder` and
`[]ResolvedIsComplete`.  The only assumption is `ConstantsAssumption`.
`CheckpointSound` is not inductive: that a range's blocks were applied says nothing
unless the applier looked for the right scripts and outpoints, in a range that
joins onto the cursor.  The invariant `IInv` adds

* `ChainInv`: the chain's content is fixed and spends follow their coins;
* `StageInv`, `OneAwaited`: what the applier's await implies about the call, and
  that at most one call is awaited, the others being leftovers;
* `ScriptsInv`: a live scan watches every script of the wallet but the late ones;
* `OutpointsInv`: its watch list holds every unspent coin the wallet knows, so
  that a spend in a later range is seen, though a leftover scan may have
  recorded the coin;
* `ProcessedInv`: blocks of the current range are applied or still in `todo`, and
  all before it are covered by the cursor;
* `SnapshotInv`: every wallet on its way to the disk is itself sound, so that it does
  not matter which write lands last.

`AppliedInOrder` and `ResolvedIsComplete` need besides where each range of a call
is.  `RangesOrdered`: a range the lanes have taken is being matched, parked, queued,
in the applier's hands or applied, in one of these places only, and the applier's
are below the others; `RangesKept` carries it from step to step, and with it a call
that resolves has applied every range of its window.

It also shows that `WalletScan` implements `Ledger` under the mapping of
`WalletScanLedger` (`ScanImplementsLedger`, `Spec => ImplementsLedger`): the page of a wallet is a
function of its watches and cursor alone once the cursor vouches for its coins
(`SoundPage`), which `CheckpointSound` and `DiskSound` say of the wallet in memory and on
disk; so every step that moves a cursor writes the page a sequential reading would
have written, and every other step leaves both pages as they are.  An
`addWatch()` that is being saved, and a checkpoint that is, are the ledger's pending
writes.

`TipSyncProofs` shows, for any tree of branches, size of the server's files, depth of
the rollback and number of faults, `[]TypeOK`, `[]HeadersLinked`, `[]ChainAgrees`,
`[]CursorOnChain`, and of its steps `FinalBlocks`.  The parts of its invariant:

* `CallInv`: what a call knows at its awaits; a header file it holds is that of the
  server at some moment since, and reaches beyond the chain (so that an
  `appendTail()` whose file brings nothing new does not come about);
* `PlaceInv`: each header of the chain, of headers.bin and of the stored chain state is at
  the place of its height, so that none is stored twice or skipped; it holds after a
  crash under a rollback too, when the headers need not link;
* `LengthInv`: the chain in memory and headers.bin are equally long, but for the
  headers between an append or a rollback and its store;
* `ChainInv`: until the process dies under a rollback they are also the same and
  linked, and the stored chain state is a prefix of the file unless a rollback is
  open: this is what makes `open()`'s comparison of two lengths enough;
* `StoredInv`: `followTip()` has stored the chain state before it searches;
* `SavedInv`: a cursor that a rollback pulled back in memory only stays below the
  server's tip, the call's target and, from there on, the chain's tip, so that
  `followTip()` always searches, and saves the cursor, before it returns: a crash
  after a rollback that came to its end finds the new cursor on the disk;
* `SearchInv`: the cursor is below the ends of both files, and all up to it has been
  searched.

`FinalBlocks` is a property of steps: a call takes back none but the last `Depth` blocks of
the chain it found, however often it starts over.  It needs besides that between the
rollback and the second truncation the chain has just the length the call's one
rollback leaves (`Rolled`), and that every other step leaves a file as it was or appends
to it (`FileSteps`).

The lemmas below say what a file of the server has beyond a chain (`Beyond`,
`NewHeaders`), that a cut of a linked chain is linked (`LinkedCut`), and that blocks of one
branch that connect keep it so (`LinkedJoin`, from `Parent`).

`MatchPoolProofs` shows, for any number of workers and callers, `[]TypeOK`,
`[]Conserved`, `[]Served`, `[]NoThreadLeft`, and that no call waits beside an idle
worker (`NoIdleWhileWaiting`, which the runs check as a part of `Lending`).  Its
invariant has two halves.  `HandOut`: a caller has a worker exactly from grant to
release (`HolderInv`), the queue holds waiting callers once (`WaitersInv`), nobody
uses a pool that is not ready (`UnusedInv`); this is what acquire and release need.
`Messaging`: a pending request is that of the worker's holder (`PendingInv`), an
answer is posted once and is the last word on its request (`AnsweredOnceInv`), an
error is the last word of its thread (`ErrorLastInv`), nothing is posted before
the spawn (`CreatedInv`).  `HandOut` needs from `Messaging` only that what is
settled was sent; `Messaging` needs from `HandOut` that a caller granted a worker
came from the queue or from outside.

`PoolImplementsLending` is `Spec => ImplementsLending`.  Grants, the queue and the stack map
as they are.  What is not obvious is that a worker that is returned is not at work.  A
request in a thread's inbox is that of the caller that has the worker (`AtWorkFor`,
from `Served` and `Conserved`), and a caller that is about to return its worker has had
its answer, so that its request is not there (`AtRest`).  Steps before the pool is
ready, when nobody has a worker (`ClosedIsUnused`), are stutters.

`HeaderChainProofs` shows, for any networks, window, period, median and bounds that
satisfy `ConstantsAssumption`, `[]TypeOK`, `[]StateOfChain`, `[]WindowSuffices` and
`[]RulesKept`.  The assumption that carries it is that the window
has room for a period, and for a median, besides `MaxBack`.  `Shape` is the heart of the invariant:
the window is the end of the chain and at least as long as the chain, or as
`Window` less what the tip is below its peak; it holds of the exported state too.
From it, lemma by lemma: the median of the window is the median of the chain, the walk for
the last real bits misses nothing of the period, the start of the period is
there, so `ExpectedBits` is `Required`; `Clean` then goes through appends and
prefixes.  Work is a recursive function; the library's induction rules are not usable by
the installed provers, but that a set of naturals has a least element is
(`Smallest`), and lemmas about `Total` refute the least counterexample.

`CompactFormIsFloor` is the arithmetic of compact bits, `Spec => []CompactIsFloor`, for every
limit and every even base (256 in the code).  `PowersExist` shows that the powers are a
function on the naturals at all, again by a least counterexample; from it follow how they
multiply and grow, and how many digits a number has (`LengthIs`).  `Encoded` is what
`BigToCompact` makes of a target, an exponent and a mantissa below the sign bit;
`RoundTrip` is what decoding leaves of it, at most the target; `NoneBetween` says that no bits
at all, with whatever exponent and mantissa, express a number between the two; and `OneForm`
that the decoded number has these bits for its compact form.  The property says besides that
every header of the chain has such bits.  Bits come from the limit, from a retarget or from an
earlier header (`ExpectedIs`, `RetargetIs`), so `CInv`, that those of the archive are compact
forms, is preserved.

`ChainCanGoOn` is `Spec => [](Ample => CanGoOn)`.  `CanGoOn`, that whatever the times of a
period were the next header's bits are ones the network allows, does not hold for every value
of the constants: the retarget of a target of a few units can come to zero.  `Ample` excludes
that: the target of the tip is at least `2 * Factor`, which is 8 in the code, of targets up
to 2^224.

`SpScanProofs` shows, for any windows, outputs, copies, size of a file, units and
faults, `[]TypeOK`, `[]Complete`, `[]ProgressExact` and `[]RejectedForCause`.  For each lane,
`RangeInv`: what its range holds (`Held`) and has not been reported is what its lane has still
before it (`Ahead`), whatever stage it is at, except that a lane that died or was
lost has forgotten; `SortedInv` orders the results of a call that resolved by the rank
of their heights.  Progress is the number of elements of a set of blocks, those of ranges
that are done and those reported of the others, two sets that are disjoint; so
it never counts a block twice when a range is scanned again past the cache.  `CauseInv`:
a lane that is dead, and a call that is rejected, had a fault or a bad copy.

`WalletStoreProofs` shows, for both backends and any sizes of a file, of a
revalidation batch and of the chain, `[]TypeOK`, `[]Intact` and `[]WalletKept`.  As long
as the store is undamaged headers.bin is whole, and the engine agrees with it at
every await but those of an append and a revalidation, and after a rejected append
(`HeadersInv`); filter headers have no such exception (`FiltersInv`); and even a damaged
file has no header above the server's tip (`LowHeaders`), which the step that
revalidates it needs.  `WalletInv`: wallet.json is what was saved last or is being
saved, or what a cut save left.

`BridgeProofs` shows, for any wrappers, values, references and depth of calls,
`[]TypeOK`, `[]RefsDenote` and `[]HandlesOwned`, from `ConstantsAssumption` and
`NullAssumption` (null is none of the values).  `RefsInv`: an id without a value is in the
pool, once, and has no references; any other has one value, whose id it is, and as many
references as are counted, which is the cardinality of the set of slots that
hold it.  `ObjectsInv`: no two wrappers were given one handle, and the
registries have the objects of exactly the wrappers not freed.  `PlansInv`: a
`planAt()` under way will make a wrapper of its own that does not exist yet, also when
a callback of the call starts another.

`CodecProofs` shows `[]RoundTrips` for packets of any size.  `ValueOf(r, p)` is the decoded value
of a packet whose bytes are represented as `r` says: hex strings, the decoders' arrays, or a
user's.  Field by field, each of three lemmas says that decoding gives this value
(`...Decoded`), that storing it as JSON and replacing its arrays takes it from one
representation to another (`...Retyped`), and that encoding it gives `Normal(p)` from any
(`...Encoded`).  `Normal` is what one round trip makes of a packet: it is idempotent, and the
identity where `Representable` holds (`RepresentableIsNormal`).  The integer facts below it are
those of fingerprints as two digits and of paths as indices with a prime.

Only model-checked:

* all liveness (`ScanSettles`, `CatchesUp`, `CreateSettles`, `CallsSettle`, `Settles`): `ENABLED`, and
  so fairness, is out of this prover's reach;
* `CanGoOn` without `Ample`: it is about the numbers of the instance, as said above.

## 5. Findings

The runs that end in a violation show where the code and its own documentation
part (`PROJECT.json` has the quotes):

* `scan_late_watch`: `addWatch()` during a scan: the next checkpoint overwrites the
  pulled-back cursor, and the new watch's history is never read.
  `CheckpointSound` therefore excepts `late` watches.
* `scan_same_block`: a coin spent in the block that creates it stays listed.
  `ListedIsUnspent` holds under `Spec`, whose chains have no such coin, and of coins a
  scan looks for.  It was first stated of every coin, and the proof failed: a scan
  left over from a failed one goes on with the watch list it had, so its
  checkpoint can pass the spend of a coin of a later watch, which another call
  has listed; two calls and that order show it (`scan_retry`'s instance).  So does a
  coin below its watch's birthday.  `Relevant` names what is left.
* `tip_resume`: the rollback's cursor is not saved; a crash resumes above blocks
  nobody searched.

Met while modelling, and excepted by name in the properties:

* Headers and filter headers come from two requests; a reorg between them leaves
  filter headers of the other branch on disk, on which every later scan of that
  file fails (`FiltersAstray` in `CatchesUp`).

* A crash with a rollback open, one that no `followTip()` has returned since
  (`reorg = "torn"`), can leave a chain state that is as long as headers.bin but of the other branch, or a headers.bin
  that is not a chain, on which `open()` throws for ever (`At("closed")`).
* A spawn that throws after others succeeded leaves threads (`pool = "leaked"`).
* A dead thread goes back to the idle stack, and the call that gets it hangs
  (`Hung`), and with it the scan that made it (`ScanSettles`, `Settles`); calls on a
  freed pool hang.
* A window that starts beyond tip + 1 has ranges with a negative number of
  relevant blocks, and so negative progress (`spscanner.ts:422-423`; `ProgressExact`).
* Node appends in chunks of 524288 bytes, no multiple of 80: a process that dies in
  between leaves part of a header, the next append is misaligned, and when the
  counts agree `open()` never looks (`damage = "torn"`).  An engine that
  syncs again after a rejected `appendHeaders()` leaves a gap, since its chain is
  ahead of the file (`damage = "gap"`).  Both in `Intact`.
* A save cut short on Node leaves an empty wallet.json, which `getWallet()` takes for
  none: a fresh wallet (`WalletKept`).
* The codec loses optional bytes that are present but empty, a spent output with an
  empty script, a malformed extended key, amounts above 2^53, and the bytes of a signed message that are
  not UTF-8, which `json.Marshal` replaces (`Representable`).

Met while modelling, where the code promises nothing and no property is stated:

* Finds in blocks that a reorg abandoned stay in the wallet.
* `onFound()` is called for outputs of lanes that go on after `scan()` has rejected.
* A stale tail file that is merely too short fails the scan with another error
  than a commitment mismatch, and is not fetched again (`spscanner.ts:613`).
* `scanner.free()` throws if the program has exited; the pool is then not freed
  (`spscanner.ts:490-493`).
* A callback that throws ends the Go program unless `planAt()` or `satisfy()` is
  running; `onBlocks()` of a match is such a callback.  The call returns
  undefined, which `unwrap()` passes on as a result (`init.ts:322`), later calls throw,
  and `init()` goes on returning the dead program's functions.
* `batchSize` is documented with default 4 (`watchwallet.ts`); the code has 8.

## 6. Not modelled

* The contents of filters, blocks, scripts, keys: cryptography and encodings of
  btcd.  A filter match may be false (`FalseMatches`), never missing.
* Two engines open on one store at once, and two calls of one wallet at once (scan
  beside scan, `followTip()` beside `scan()`): the models' caller awaits each call, as
  the demo does, and the engines take turns.  Leftovers of a rejected call do
  run beside the next.  Nothing in the code keeps concurrent callers apart, and
  both would append to headers.bin from their own count.
* Filter flavours: `TipSync` and `WalletStore` have one filter-header file.  After a
  change of flavour `appendTail()`'s offset can be negative (`watchwallet.ts:832-836`).
* A truncation that is cut short (`truncateHeaders()`), and `stats()`.  A chain-state.bin of
  which a crash leaves a part: on Node a state fits into one write, so that it is there
  or the file is empty, which is modelled (`CutNode`).
* A browser's `error` event that leaves its worker running (`matchpool.ts:64-65`): the thread
  that reports an error to `MatchPool` is gone, as Node's is.
* The error `encode()` throws for a spent transaction that Go cannot parse
  (`psbt.go:397-407`): in `Codec` that transaction is bytes.
* In the run of `Bridge` two wrappers are too few for a `planAt()` inside the callback of
  another; its theorems have no such bound.
* Linear memory, clocks and file stubs of `wasm_exec.ts`; `wasm_exec.js` is the vendored
  original of the same code.
* Blocks' and verification results' JSON, which goes one way only.
* The stateless functions over btcd (PSBT signing, MuSig2, script engine, keys,
  addresses, encodings): in `Bridge` they are `CallFunction`.  See `components`.

## 7. Plan

Done, in this order because the checkpoint is what a user relies on: `WalletScan`
with `Ledger`; `TipSync`; `MatchPool` with `Lending`; `HeaderChain`; `SpScan`; `WalletStore`;
`Bridge`; `Codec`; the proofs of all safety the runs check, but for what section 4
names; both refinements.  What would come next:

1. Two engines or two calls at once on one store (section 6), if the code is to
   allow them: `WalletStore`'s `Intact` and `TipSync`'s invariants say what it would have
   to keep.
2. A refinement of one step of `TipSync` (`ScanRange`) by a whole scan of `WalletScan`,
   which the two modules' different views of a block stand in the way of today.
