------------------------------- MODULE TipSync -------------------------------
(***************************************************************************)
(* How the watch-only wallet follows the chain of a block-dn server:       *)
(* syncHeaders(), scan() and followTip() over the flat files of its store, *)
(* with a server that grows and reorganises at any moment, downloads that  *)
(* fail, a process that dies at any await, and open() which resumes.       *)
(*                                                                         *)
(* A header, and likewise a filter header, commits to the whole chain      *)
(* below it; both are named by their block <<branch, height>>.  Every      *)
(* branch leaves the trunk at one height.  A step is what the event loop   *)
(* runs between two awaits; the scan of one filter file, modelled lane by  *)
(* lane in WalletScan, is one step here.                                   *)
(***************************************************************************)
EXTENDS Integers, Sequences

CONSTANTS
    Branches,   \* the branches of the block tree
    Trunk,      \* the one every other leaves
    Fork,       \* the height of the last block a branch has in the trunk
    PerFile,    \* entries_per_header_file and entries_per_filter_file
    Depth,      \* how far followTip() rolls back: 6 in the code
    MaxTip,     \* bound: the highest block of a behaviour
    MaxFaults   \* bound: failed downloads and crashes in a behaviour

ASSUME ConstantsAssumption ==
    /\ Trunk \in Branches
    /\ Fork \in [Branches -> Nat]
    /\ PerFile \in Nat \ {0}
    /\ Depth \in Nat \ {0}
    /\ MaxTip \in Nat
    /\ MaxFaults \in Nat

VARIABLES
    server,     \* the chain the server serves: its branch and tip height
    chain,      \* the validated headers of the Go-side header chain
    wallet,     \* WalletData: the cursor, and the blocks whose finds it has
    disk,       \* headers.bin, a filter-header file, chain-state.bin, wallet
    call,       \* the call in progress
    faults,     \* downloads failed and crashes so far
    reorg       \* history: a rollback is "open" until a followTip() returns,
                \* the one that rolled back or, if it threw, a later one;
                \* "torn" once the process died with a rollback open

vars == <<server, chain, wallet, disk, call, faults, reorg>>

Block(b, h) == IF h <= Fork[b] THEN <<Trunk, h>> ELSE <<b, h>>
Blocks == {Block(b, h) : b \in Branches, h \in 0..MaxTip}

Tip == Len(chain) - 1
Least(x, y) == IF x <= y THEN x ELSE y
Most(x, y) == IF x >= y THEN x ELSE y

ServerChain(from, to) ==
    [i \in 1..Most(to - from + 1, 0) |-> Block(server.branch, from + i - 1)]

(* A header file of the server, from its boundary to its end or the tip.   *)
FileStart(h) == h - (h % PerFile)
ServerFile(boundary) ==
    ServerChain(boundary, Least(boundary + PerFile - 1, server.tip))

(* TypedArray.subarray(k), which counts a negative k from the end.         *)
Subarray(s, k) ==
    SubSeq(s, 1 + (IF k >= 0 THEN k ELSE Most(Len(s) + k, 0)), Len(s))

Extends(block, c) ==
    IF c = << >> THEN block[2] = 0
    ELSE block[2] > 0 /\ c[Len(c)] = Block(block[1], block[2] - 1)

(* HeaderChain.append() accepts the headers: a server's file is a chain,   *)
(* so that only its first header can fail to connect.                      *)
Connects(fresh, c) == Extends(fresh[1], c)

Linked(s) ==
    \A i \in 1..Len(s) : Extends(s[i], SubSeq(s, 1, i - 1))

Idle == [pc |-> "idle", op |-> "none", target |-> -1, old |-> -1,
         retried |-> FALSE, headerFile |-> {}, filterFile |-> {},
         boundary |-> 0, fresh |-> << >>]

At(pc) == call.pc = pc

Return ==
    /\ call' = Idle
    /\ reorg' = IF call.op = "follow" /\ reorg = "open" THEN "none" ELSE reorg

Throw == call' = Idle /\ reorg' = reorg

Goto(pc) == call' = [call EXCEPT !.pc = pc] /\ reorg' = reorg

-----------------------------------------------------------------------------
(* syncHeaders(): the status is back.                                      *)
SyncStart ==
    /\ At("idle")
    /\ call' = [Idle EXCEPT !.pc = "headers", !.op = "sync",
                            !.target = server.tip]
    /\ UNCHANGED <<server, chain, wallet, disk, faults, reorg>>

(* The header file of the next height is back: append what is new.  A file *)
(* that does not connect makes append(), and so syncHeaders(), throw.      *)
SyncHeaders ==
    /\ At("headers") /\ Tip < call.target
    /\ LET boundary == FileStart(Tip + 1)
           fresh == Subarray(ServerFile(boundary), Tip + 1 - boundary)
       IN \/ /\ fresh = << >>
             /\ Goto("state")
             /\ UNCHANGED chain
          \/ /\ fresh # << >> /\ Connects(fresh, chain)
             /\ chain' = chain \o fresh
             /\ call' = [call EXCEPT !.pc = "store", !.fresh = fresh]
             /\ UNCHANGED reorg
          \/ /\ fresh # << >> /\ ~Connects(fresh, chain)
             /\ Throw
             /\ UNCHANGED chain
    /\ UNCHANGED <<server, wallet, disk, faults>>

SyncHeadersDone ==
    /\ At("headers") /\ Tip >= call.target
    /\ Goto("state")
    /\ UNCHANGED <<server, chain, wallet, disk, faults>>

(* Mutant: the whole file is stored, not only what is new in it.           *)
StoreHeaders_WholeFile ==
    /\ At("store")
    /\ disk' = [disk EXCEPT !.headers = @ \o ServerFile(FileStart(Len(@)))]
    /\ call' = [call EXCEPT !.pc = IF call.op = "sync" THEN "headers"
                                                       ELSE "tailfilters",
                            !.fresh = << >>]
    /\ UNCHANGED <<server, chain, wallet, faults, reorg>>

(* appendHeaders() resolves.                                               *)
StoreHeaders ==
    /\ At("store")
    /\ disk' = [disk EXCEPT !.headers = @ \o call.fresh]
    /\ call' = [call EXCEPT !.pc = IF call.op = "sync" THEN "headers"
                                                       ELSE "tailfilters",
                            !.fresh = << >>]
    /\ UNCHANGED <<server, chain, wallet, faults, reorg>>

(* setChainState() resolves; followTip() goes on with scan().              *)
StoreState ==
    /\ At("state")
    /\ disk' = [disk EXCEPT !.state = chain]
    /\ Goto(IF call.op = "sync" THEN "filters" ELSE "scan")
    /\ UNCHANGED <<server, chain, wallet, faults>>

(* syncFilterHeaders(): a filter-header file is back and appended.         *)
SyncFilters ==
    /\ At("filters") /\ Len(disk.filters) <= call.target
    /\ LET have == Len(disk.filters)
           boundary == FileStart(have)
           fresh == Subarray(ServerFile(boundary), have - boundary)
       IN \/ /\ fresh = << >>
             /\ IF call.op = "sync" THEN Return ELSE Goto("ranges")
             /\ UNCHANGED disk
          \/ /\ fresh # << >>
             /\ disk' = [disk EXCEPT !.filters = @ \o fresh]
             /\ UNCHANGED <<call, reorg>>
    /\ UNCHANGED <<server, chain, wallet, faults>>

SyncFiltersDone ==
    /\ At("filters") /\ Len(disk.filters) > call.target
    /\ IF call.op = "sync" THEN Return ELSE Goto("ranges")
    /\ UNCHANGED <<server, chain, wallet, disk, faults>>

-----------------------------------------------------------------------------
ScanStart ==
    /\ At("idle")
    /\ call' = [Idle EXCEPT !.pc = "scan", !.op = "scan"]
    /\ UNCHANGED <<server, chain, wallet, disk, faults, reorg>>

(* scan(): nothing to do, or the status is back.                           *)
ScanStatus ==
    /\ At("scan")
    /\ IF wallet.cursor >= Tip
       THEN Return
       ELSE /\ call' = [call EXCEPT !.pc = "filters", !.target = server.tip]
            /\ UNCHANGED reorg
    /\ UNCHANGED <<server, chain, wallet, disk, faults>>

(* The filters the server has for these heights pass the check against     *)
(* the stored filter-header chain.                                         *)
Committed(from, to) ==
    /\ to < Len(disk.headers) /\ to < Len(disk.filters) /\ to <= server.tip
    /\ \A h \in Most(from - 1, 0)..to :
          disk.filters[h + 1] = Block(server.branch, h)

(* The next filter file is matched, its blocks are applied and the wallet  *)
(* is saved.  The match is keyed by the stored header: a filter of another *)
(* block reveals nothing.                                                  *)
ScanRange ==
    /\ At("ranges") /\ wallet.cursor < Tip
    /\ LET from == FileStart(wallet.cursor + 1)
           to == Least(from + PerFile - 1, Tip)
           seen == {disk.headers[h + 1] :
                      h \in {g \in (wallet.cursor + 1)..to :
                                disk.headers[g + 1] = disk.filters[g + 1]}}
       IN \/ /\ Committed(from, to)
             /\ wallet' = [cursor |-> to, found |-> wallet.found \cup seen]
             /\ disk' = [disk EXCEPT !.wallet = wallet']
             /\ UNCHANGED <<call, reorg>>
          \/ /\ ~Committed(from, to)
             /\ Throw
             /\ UNCHANGED <<wallet, disk>>
    /\ UNCHANGED <<server, chain, faults>>

ScanDone ==
    /\ At("ranges") /\ wallet.cursor >= Tip
    /\ Return
    /\ UNCHANGED <<server, chain, wallet, disk, faults>>

-----------------------------------------------------------------------------
(* followTip(): the status differs from the local tip.                     *)
FollowStart ==
    /\ At("idle")
    /\ ~ /\ server.tip <= Tip
         /\ Tip >= 0 /\ chain[Len(chain)] = Block(server.branch, server.tip)
    /\ call' = [Idle EXCEPT !.pc = "tail", !.op = "follow",
                            !.target = server.tip, !.old = Tip]
    /\ UNCHANGED <<server, chain, wallet, disk, faults, reorg>>

(* appendTail() downloads a header and a filter-header file at once.       *)
TailHeaders ==
    /\ At("tail") /\ Tip < call.target /\ call.headerFile = {}
    /\ call' = [call EXCEPT !.headerFile = {ServerFile(FileStart(Tip + 1))}]
    /\ UNCHANGED <<server, chain, wallet, disk, faults, reorg>>

TailFilters ==
    /\ At("tail") /\ Tip < call.target /\ call.filterFile = {}
    /\ call' = [call EXCEPT !.filterFile = {ServerFile(FileStart(Tip + 1))}]
    /\ UNCHANGED <<server, chain, wallet, disk, faults, reorg>>

Both == call.headerFile # {} /\ call.filterFile # {}

Fresh ==
    LET boundary == FileStart(Tip + 1)
    IN Subarray(CHOOSE f \in call.headerFile : TRUE, Tip + 1 - boundary)

TailAppend ==
    /\ At("tail") /\ Both
    /\ Fresh # << >> /\ Connects(Fresh, chain)
    /\ chain' = chain \o Fresh
    /\ call' = [call EXCEPT !.pc = "store", !.headerFile = {},
                            !.fresh = Fresh, !.boundary = FileStart(Tip + 1)]
    /\ UNCHANGED <<server, wallet, disk, faults, reorg>>

(* The filter headers the store does not have yet are cut out of the file. *)
StoreTailFilters ==
    /\ At("tailfilters")
    /\ LET file == CHOOSE f \in call.filterFile : TRUE
           fresh == Subarray(file, Len(disk.filters) - call.boundary)
       IN disk' = [disk EXCEPT !.filters = @ \o fresh]
    /\ call' = [call EXCEPT !.pc = "tail", !.filterFile = {}, !.boundary = 0]
    /\ UNCHANGED <<server, chain, wallet, faults, reorg>>

TailDone ==
    /\ At("tail")
    /\ Tip >= call.target \/ (Both /\ Fresh = << >>)
    /\ call' = [call EXCEPT !.pc = "state", !.headerFile = {},
                            !.filterFile = {}]
    /\ UNCHANGED <<server, chain, wallet, disk, faults, reorg>>

(* Mutant: it rolls back until appendTail() succeeds.                      *)
RollBack_UntilItConnects ==
    LET back == Most(0, Tip - Depth)
    IN IF back >= Tip
       THEN Throw /\ UNCHANGED chain
       ELSE /\ chain' = SubSeq(chain, 1, back + 1)
            /\ call' = [call EXCEPT !.pc = "truncate",
                                    !.headerFile = {}, !.filterFile = {}]
            /\ reorg' = IF reorg = "none" THEN "open" ELSE reorg

(* appendTail() threw: roll the header chain back, once.                   *)
RollBack ==
    LET back == Most(0, call.old - Depth)
    IN IF call.retried \/ back >= Tip
       THEN Throw /\ UNCHANGED chain
       ELSE /\ chain' = SubSeq(chain, 1, back + 1)
            /\ call' = [call EXCEPT !.pc = "truncate", !.retried = TRUE,
                                    !.headerFile = {}, !.filterFile = {}]
            /\ reorg' = IF reorg = "none" THEN "open" ELSE reorg

(* Mutant: a reorg is not handled.                                         *)
TailMismatch_Throws ==
    /\ At("tail") /\ Both
    /\ Fresh # << >> /\ ~Connects(Fresh, chain)
    /\ Throw
    /\ UNCHANGED <<server, chain, wallet, disk, faults>>

TailMismatch ==
    /\ At("tail") /\ Both
    /\ Fresh # << >> /\ ~Connects(Fresh, chain)
    /\ RollBack
    /\ UNCHANGED <<server, wallet, disk, faults>>

(* Mutant: a record count is taken for a height.                           *)
TruncateHeaders_OneShort ==
    /\ At("truncate")
    /\ disk' = [disk EXCEPT !.headers = SubSeq(@, 1, Tip)]
    /\ Goto("truncatefilters")
    /\ UNCHANGED <<server, chain, wallet, faults>>

(* truncateHeaders() resolves.                                             *)
TruncateHeaders ==
    /\ At("truncate")
    /\ disk' = [disk EXCEPT !.headers = SubSeq(@, 1, Len(chain))]
    /\ Goto("truncatefilters")
    /\ UNCHANGED <<server, chain, wallet, faults>>

(* Mutant: the cursor stays where it was.                                  *)
TruncateFilters_KeepsCursor ==
    /\ At("truncatefilters")
    /\ disk' = [disk EXCEPT !.filters =
                  SubSeq(@, 1, Least(Len(@), Len(chain)))]
    /\ Goto("tail")
    /\ UNCHANGED <<server, chain, wallet, faults>>

(* truncateFilterHeaders() resolves, the cursor is pulled back in memory,  *)
(* and appendTail() starts over.                                           *)
TruncateFilters ==
    /\ At("truncatefilters")
    /\ disk' = [disk EXCEPT !.filters =
                  SubSeq(@, 1, Least(Len(@), Len(chain)))]
    /\ wallet' = [wallet EXCEPT !.cursor = Least(@, Tip)]
    /\ Goto("tail")
    /\ UNCHANGED <<server, chain, faults>>

-----------------------------------------------------------------------------
(* A download of the call in progress fails for good.                      *)
FetchFailed ==
    /\ faults < MaxFaults /\ faults' = faults + 1
    /\ \/ /\ \/ At("headers") /\ Tip < call.target
             \/ At("filters") /\ Len(disk.filters) <= call.target
             \/ At("scan") /\ wallet.cursor < Tip
             \/ At("ranges") /\ wallet.cursor < Tip
          /\ Throw /\ UNCHANGED chain
       \/ At("tail") /\ Tip < call.target /\ ~Both /\ RollBack
    /\ UNCHANGED <<server, wallet, disk>>

(* Mutant: open() does not compare the chain state with the files.         *)
Resumed_TrustsState == disk.state

(* The process dies.  open() resumes from the chain state if its length    *)
(* agrees with the stored headers, else it revalidates those.              *)
Resumed == IF Len(disk.state) = Len(disk.headers) THEN disk.state
                                                  ELSE disk.headers

Crash == /\ faults < MaxFaults /\ faults' = faults + 1
         /\ wallet' = disk.wallet
         /\ reorg' = IF reorg = "open" THEN "torn" ELSE reorg
         /\ UNCHANGED <<server, disk>>

Reopen ==
    /\ Crash
    /\ Linked(Resumed)
    /\ chain' = Resumed
    /\ call' = Idle

(* Revalidation throws, now and at every later open().                     *)
ReopenFailed ==
    /\ Crash
    /\ ~Linked(Resumed)
    /\ chain' = << >>
    /\ call' = [Idle EXCEPT !.pc = "closed"]

(* The server's chain grows, or gives way to a longer branch.              *)
ServerMoves ==
    /\ \E tip \in (server.tip + 1)..MaxTip, b \in Branches :
          /\ b # server.branch => tip > Fork[b] /\ server.tip >= Fork[b]
          /\ server' = [branch |-> b, tip |-> tip]
    /\ UNCHANGED <<chain, wallet, disk, call, faults, reorg>>

-----------------------------------------------------------------------------
FreshStore == [headers |-> << >>, filters |-> << >>, state |-> << >>,
               wallet |-> [cursor |-> -1, found |-> {}]]

Init ==
    /\ \E tip \in 0..MaxTip : server = [branch |-> Trunk, tip |-> tip]
    /\ chain = << >>
    /\ disk = FreshStore
    /\ wallet = FreshStore.wallet
    /\ call = Idle
    /\ faults = 0
    /\ reorg = "none"

Sync == SyncStart \/ SyncHeaders \/ SyncHeadersDone \/ StoreHeaders
        \/ StoreState \/ SyncFilters \/ SyncFiltersDone

Scan == ScanStart \/ ScanStatus \/ ScanRange \/ ScanDone

Follow == FollowStart \/ TailHeaders \/ TailFilters \/ TailAppend
          \/ StoreTailFilters \/ TailDone \/ TailMismatch
          \/ TruncateHeaders \/ TruncateFilters

Next == Sync \/ Scan \/ Follow \/ FetchFailed \/ Reopen \/ ReopenFailed
        \/ ServerMoves

Spec == Init /\ [][Next]_vars

(* A call in progress goes on: requests settle and promise reactions run.  *)
(* The caller keeps polling followTip(), and scan() while blocks are left. *)
FairSpec ==
    /\ Spec
    /\ WF_vars(~At("idle") /\ (Sync \/ Scan \/ Follow))
    /\ SF_vars(FollowStart)
    /\ SF_vars(wallet.cursor < Tip /\ ScanStart)

-----------------------------------------------------------------------------
Chains == UNION {[1..n -> Blocks] : n \in 0..(MaxTip + 1)}
Wallets == [cursor : -1..MaxTip, found : SUBSET Blocks]
Disks == [headers : Chains, filters : Seq(Blocks), state : Chains,
          wallet : Wallets]

Pcs == {"idle", "headers", "store", "state", "filters", "scan", "ranges",
        "tail", "tailfilters", "truncate", "truncatefilters", "closed"}
Calls == [pc : Pcs, op : {"none", "sync", "scan", "follow"},
          target : -1..MaxTip, old : -1..MaxTip, retried : BOOLEAN,
          headerFile : SUBSET Seq(Blocks), filterFile : SUBSET Seq(Blocks),
          boundary : Nat, fresh : Seq(Blocks)]

Placed(s) == \A i \in 1..Len(s) : s[i][2] = i - 1

(* Every variable stays in its domain; and each header of the chain in     *)
(* memory, of headers.bin and of the stored chain state is at the place of *)
(* its height, crashes under a rollback included, so that none is stored   *)
(* twice or skipped (watchwallet.ts:381-393, 797-802).                     *)
TypeOK ==
    /\ server \in [branch : Branches, tip : 0..MaxTip]
    /\ chain \in Chains /\ disk \in Disks /\ wallet \in Wallets
    /\ call \in Calls
    /\ faults \in 0..MaxFaults
    /\ reorg \in {"none", "open", "torn"}
    /\ Placed(chain) /\ Placed(disk.headers) /\ Placed(disk.state)

(* headers.bin is one unbroken chain from the genesis block, whatever      *)
(* downloads failed, calls threw or crashes hit between their steps, so    *)
(* that open() can always revalidate it (watchwallet.ts:283-297); unless   *)
(* the process died with a rollback open: followTip() had rolled back, and *)
(* neither it nor a later followTip() had returned.                        *)
HeadersLinked == reorg # "torn" => Linked(disk.headers)

(* Between two calls the header chain in memory is the one in headers.bin, *)
(* also after open(), unless the process died with a rollback open.        *)
ChainAgrees == reorg # "torn" /\ At("idle") => chain = disk.headers

(* Between two calls, every block up to the cursor has been searched, also *)
(* the blocks of a branch that replaced another, unless the process died   *)
(* with a rollback open, or the block's stored filter header is that of    *)
(* another block (CatchesUp says what that leads to).                      *)
Searched ==
    \A h \in 0..wallet.cursor :
        /\ h < Len(disk.headers) /\ h < Len(disk.filters)
        /\ disk.headers[h + 1] = disk.filters[h + 1]
        => disk.headers[h + 1] \in wallet.found
CursorOnChain ==
    reorg # "torn" /\ At("idle") => wallet.cursor <= Tip /\ Searched

(* A stored header or filter header keeps its place for good: only         *)
(* followTip() takes any back, whatever it learns from the server and      *)
(* however often it starts over, and then none but those of the last Depth *)
(* blocks the chain had when it was called (watchwallet.ts:790-802), so    *)
(* that a branch which forks off deeper replaces them only over several    *)
(* polls.                                                                  *)
Final(file) ==
    IF call.op = "follow" THEN Least(Len(file), Most(0, call.old - Depth) + 1)
                          ELSE Len(file)
Keeps(file, n, later) ==
    n <= Len(later) /\ SubSeq(later, 1, n) = SubSeq(file, 1, n)
FinalBlocks ==
    [][/\ Keeps(disk.headers, Final(disk.headers), disk.headers')
       /\ Keeps(disk.filters, Final(disk.filters), disk.filters')]_vars

(* A stored filter header is that of another block than the header, or     *)
(* than the server has: a reorganisation between the two downloads, or a   *)
(* crash between two truncations, left it, and no call replaces it.        *)
FiltersAstray ==
    \E h \in 0..Least(Tip, Len(disk.filters) - 1) :
        disk.filters[h + 1] # Block(server.branch, h)

(* The wallet catches up with the server (watchwallet.ts:778-779): once    *)
(* the server's chain stays, polling followTip() leads to it, whatever the *)
(* depth of the reorgs, the failed downloads and the crashes before, if    *)
(* open() succeeds at all; and scan() searches every block of it, unless   *)
(* filter headers of another branch are left behind.                       *)
CaughtUp ==
    /\ chain = ServerChain(0, server.tip)
    /\ wallet.cursor = Tip \/ FiltersAstray
CatchesUp == <>[](CaughtUp \/ At("closed"))

(* The same without the exception: the resume checkpoint (scannedTo) stays *)
(* contiguous (watchwallet.ts:588-590) after a crash too.                  *)
ResumedCursorSound == At("idle") => Searched
=============================================================================
