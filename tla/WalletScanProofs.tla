-------------------------- MODULE WalletScanProofs --------------------------
(***************************************************************************)
(* Proofs about WalletScan, for every number of watches, coins, scans and  *)
(* lanes, every file size and every chain.                                 *)
(***************************************************************************)
EXTENDS WalletScanLedger, TLAPS

(* Boundaries of a range.                                                  *)
LEMMA FileStartBound ==
    ASSUME NEW h \in Nat
    PROVE  FileStart(h) \in Nat /\ FileStart(h) <= h
<1>1. PerFile \in Nat /\ PerFile > 0
  BY ConstantsAssumption
<1>2. h % PerFile \in 0..(PerFile - 1) /\ h % PerFile <= h
  BY <1>1, SMTT(30)
<1> QED BY <1>1, <1>2 DEF FileStart

LEMMA RangeEndBound ==
    ASSUME TypeOK, NEW s \in Scans, NEW r \in Nat
    PROVE  RangeEnd(s, r) \in -1..MaxTip
BY ConstantsAssumption DEF TypeOK, ScanState, RangeEnd

(* An update of one scan, and of the wallets, that keeps the types.        *)
LEMMA UpdateTypeOK ==
    ASSUME TypeOK, NEW s \in Scans, NEW S \in ScanState,
           scan' = [scan EXCEPT ![s] = S],
           UNCHANGED <<chainVars, chainTip, adding, late>>,
           data' \in Wallet, disk' \in Wallet
    PROVE  TypeOK'
BY DEF TypeOK, chainVars

LEMMA MatchesInNat ==
    ASSUME TypeOK, NEW s \in Scans
    PROVE  Matches(s, scan[s].nextApply) \subseteq Nat
<1>1. scan[s].nextApply \in Nat
  BY DEF TypeOK, ScanState
<1>2. RangeEnd(s, scan[s].nextApply) \in Int
  BY <1>1, RangeEndBound
<1>3. \A h \in scan[s].nextApply..RangeEnd(s, scan[s].nextApply) : h \in Nat
  BY <1>1, <1>2
<1> QED BY <1>3 DEF Matches

(* What scanBlock() and applyBlock() do to the wallet and the watch list.  *)
LEMMA ApplyBlockEffect ==
    ASSUME TypeOK, NEW s \in Scans, ApplyBlock(s)
    PROVE  \E h \in scan[s].todo, new \in SUBSET Coins, gone \in SUBSET Coins :
             /\ \A g \in scan[s].todo : h <= g
             /\ new = BlockOutputs(s, h) \ Known(data)
             /\ gone = BlockSpends(s, h) \cap (data.utxos \cup new)
             /\ data' = [data EXCEPT !.utxos = (data.utxos \cup new) \ gone,
                                     !.spent = data.spent \cup gone]
             /\ scan' = [scan EXCEPT ![s] =
                           [scan[s] EXCEPT
                              !.outpoints = (scan[s].outpoints \cup new) \ gone,
                              !.todo = scan[s].todo \ {h}]]
<1>1. PICK h \in scan[s].todo :
        /\ \A g \in scan[s].todo : h <= g
        /\ LET new == BlockOutputs(s, h) \ Known(data)
               gone == BlockSpends(s, h) \cap (data.utxos \cup new)
           IN /\ data' = [data EXCEPT !.utxos = (@ \cup new) \ gone,
                                      !.spent = @ \cup gone]
              /\ scan' = [scan EXCEPT
                            ![s].outpoints = (@ \cup new) \ gone,
                            ![s].todo = @ \ {h}]
  BY DEF ApplyBlock
<1> DEFINE new == BlockOutputs(s, h) \ Known(data)
           gone == BlockSpends(s, h) \cap (data.utxos \cup new)
<1>2. new \in SUBSET Coins
  BY DEF BlockOutputs
<1>3. gone \in SUBSET Coins
  BY <1>2 DEF BlockSpends, TypeOK, Wallet
<1>4. scan' = [scan EXCEPT ![s] =
                 [scan[s] EXCEPT
                    !.outpoints = (scan[s].outpoints \cup new) \ gone,
                    !.todo = scan[s].todo \ {h}]]
  BY <1>1 DEF TypeOK
<1> QED BY <1>1, <1>2, <1>3, <1>4

LEMMA ConstantRecords == FreshWallet \in Wallet /\ IdleScan \in ScanState
<1>1. << >> \in Seq(Nat)
  OBVIOUS
<1> QED BY <1>1, ConstantsAssumption DEF FreshWallet, Wallet, IdleScan, ScanState

-----------------------------------------------------------------------------
(* Type correctness.                                                       *)
LEMMA InitTypeOK == Init => TypeOK
BY ConstantsAssumption, ConstantRecords DEF Init, InitWallet, TypeOK, Heights

LEMMA ApplierDiesTypeOK ==
    ASSUME TypeOK, NEW s \in Scans, ApplierDies(s),
           UNCHANGED <<chainVars, chainTip, data, disk, adding, late>>
    PROVE  TypeOK'
<1> DEFINE p == IF scan[s].phase = "run" THEN "reject" ELSE scan[s].phase
           S == [scan[s] EXCEPT !.stage = "dead", !.queue = << >>, !.todo = {},
                                !.write = FreshWallet, !.phase = p]
<1>1. << >> \in Seq(Nat)
  OBVIOUS
<1>2. p \in {"idle", "prepare", "run", "reject", "freed"}
  BY DEF TypeOK, ScanState
<1>3. S \in ScanState
  BY <1>1, <1>2, ConstantRecords DEF TypeOK, ScanState
<1>4. scan' = [scan EXCEPT ![s] = S]
  BY DEF TypeOK, ApplierDies
<1> QED BY <1>3, <1>4, UpdateTypeOK DEF TypeOK

LEMMA WorkTypeOK ==
    ASSUME TypeOK, NEW s \in Scans, Work(s)
    PROVE  TypeOK'
<1> USE ConstantsAssumption
<1>0. scan[s] \in ScanState /\ FreshWallet \in Wallet /\ IdleScan \in ScanState
  BY ConstantRecords DEF TypeOK
<1>1. CASE Prepared(s)
  BY <1>0, <1>1 DEF TypeOK, Prepared, chainVars, ScanState, Wallet
<1>2. CASE PrepareFailed(s)
  BY <1>0, <1>2 DEF TypeOK, PrepareFailed, chainVars
<1>3. CASE TakeRange(s)
  <2>1. scan[s].next + PerFile \in Nat
    BY <1>0 DEF ScanState
  <2>2. scan' = [scan EXCEPT ![s] =
                   [scan[s] EXCEPT !.next = scan[s].next + PerFile,
                                   !.matching = scan[s].matching \cup {scan[s].next}]]
    BY <1>3 DEF TypeOK, TakeRange
  <2>3. scan'[s] \in ScanState
    BY <1>0, <2>1, <2>2 DEF TypeOK, ScanState
  <2> QED BY <1>3, <2>2, <2>3 DEF TypeOK, TakeRange, chainVars
<1>4. ASSUME NEW r \in scan[s].matching, MatchDone(s, r)
      PROVE  TypeOK'
  <2> DEFINE S == [scan[s] EXCEPT !.matching = scan[s].matching \ {r},
                                  !.parked = scan[s].parked \cup {r},
                                  !.queue = Append(scan[s].queue, r)]
  <2>1. r \in Nat
    BY <1>0 DEF ScanState
  <2>2. Append(scan[s].queue, r) \in Seq(Nat)
    BY <2>1, <1>0, SMTT(30) DEF ScanState
  <2>3. scan' = [scan EXCEPT ![s] = S]
    BY <1>4 DEF TypeOK, MatchDone
  <2>4. S \in ScanState
    BY <1>0, <2>1, <2>2 DEF ScanState
  <2> QED BY <1>4, <2>3, <2>4, UpdateTypeOK DEF MatchDone, TypeOK
<1>5. ASSUME NEW r \in scan[s].matching, MatchFailed(s, r)
      PROVE  TypeOK'
  BY <1>0, <1>5 DEF TypeOK, MatchFailed, chainVars, ScanState
<1>6. CASE ApplyTake(s)
  <2> DEFINE S == [scan[s] EXCEPT !.stage = "fetch",
                                  !.parked = scan[s].parked \ {scan[s].nextApply},
                                  !.todo = Matches(s, scan[s].nextApply)]
  <2>1. scan' = [scan EXCEPT ![s] = S]
    BY <1>6 DEF TypeOK, ApplyTake
  <2>2. S \in ScanState
    BY <1>0, MatchesInNat DEF ScanState
  <2> QED BY <1>6, <2>1, <2>2, UpdateTypeOK DEF ApplyTake, TypeOK
<1>7. CASE ApplyReturn(s)
  <2>1. Tail(scan[s].queue) \in Seq(Nat)
    BY <1>0, <1>7 DEF ApplyReturn, ScanState
  <2> QED BY <1>0, <1>7, <2>1 DEF TypeOK, ApplyReturn, chainVars, ScanState
<1>8. CASE BlocksFetched(s)
  BY <1>0, <1>8 DEF TypeOK, BlocksFetched, chainVars, ScanState
<1>9. CASE ApplyFailed(s)
  BY <1>9, ApplierDiesTypeOK DEF ApplyFailed
<1>10. CASE ApplyBlock(s)
  <2>1. PICK h \in scan[s].todo, new \in SUBSET Coins, gone \in SUBSET Coins :
          /\ \A g \in scan[s].todo : h <= g
          /\ new = BlockOutputs(s, h) \ Known(data)
          /\ gone = BlockSpends(s, h) \cap (data.utxos \cup new)
          /\ data' = [data EXCEPT !.utxos = (data.utxos \cup new) \ gone,
                                  !.spent = data.spent \cup gone]
          /\ scan' = [scan EXCEPT ![s] =
                        [scan[s] EXCEPT
                           !.outpoints = (scan[s].outpoints \cup new) \ gone,
                           !.todo = scan[s].todo \ {h}]]
    BY <1>10, ApplyBlockEffect
  <2>2. data' \in Wallet
    BY <2>1 DEF TypeOK, Wallet
  <2>3. [scan[s] EXCEPT !.outpoints = (scan[s].outpoints \cup new) \ gone,
                        !.todo = scan[s].todo \ {h}] \in ScanState
    BY <1>0 DEF ScanState
  <2> QED BY <1>10, <2>1, <2>2, <2>3, UpdateTypeOK DEF ApplyBlock, TypeOK
<1>11. CASE Checkpoint(s)
  <2>1. RangeEnd(s, scan[s].nextApply) \in -1..MaxTip
    BY <1>0, RangeEndBound DEF ScanState
  <2>2. data' \in Wallet
    BY <1>11, <2>1 DEF TypeOK, Checkpoint, Wallet
  <2>3. scan' = [scan EXCEPT ![s] =
                   [scan[s] EXCEPT !.stage = "write", !.write = data']]
    BY <1>11 DEF TypeOK, Checkpoint
  <2>4. [scan[s] EXCEPT !.stage = "write", !.write = data'] \in ScanState
    BY <1>0, <2>2 DEF ScanState
  <2> QED BY <1>11, <2>2, <2>3, <2>4, UpdateTypeOK DEF Checkpoint, TypeOK
<1>12. CASE Written(s)
  <2> DEFINE S == [scan[s] EXCEPT !.stage = "loop", !.write = FreshWallet,
                                  !.nextApply = scan[s].nextApply + PerFile]
  <2>1. scan' = [scan EXCEPT ![s] = S]
    BY <1>12 DEF TypeOK, Written
  <2>2. scan[s].nextApply + PerFile \in Nat
    BY <1>0 DEF ScanState
  <2>3. S \in ScanState
    BY <1>0, <2>2 DEF ScanState
  <2>4. disk' \in Wallet
    BY <1>0, <1>12 DEF Written, ScanState
  <2> QED BY <1>12, <2>1, <2>3, <2>4, UpdateTypeOK DEF Written, TypeOK
<1>13. CASE WriteFailed(s)
  BY <1>13, ApplierDiesTypeOK DEF WriteFailed
<1>14. CASE Resolve(s)
  BY <1>0, <1>14, UpdateTypeOK DEF TypeOK, Resolve
<1>15. CASE Reject(s)
  <2>1. PICK replied \in SUBSET scan[s].matching :
          scan' = [scan EXCEPT ![s] =
                     [scan[s] EXCEPT !.phase = "freed", !.matching = replied]]
    BY <1>15 DEF TypeOK, Reject
  <2>2. [scan[s] EXCEPT !.phase = "freed", !.matching = replied] \in ScanState
    BY <1>0 DEF ScanState
  <2> QED BY <1>15, <2>1, <2>2, UpdateTypeOK DEF Reject, TypeOK
<1> QED BY <1>1, <1>2, <1>3, <1>4, <1>5, <1>6, <1>7, <1>8, <1>9, <1>10, <1>11,
           <1>12, <1>13, <1>14, <1>15 DEF Work

LEMMA StartTypeOK ==
    ASSUME TypeOK, NEW s \in Scans, Start(s)
    PROVE  TypeOK'
<1>1. PICK from \in 0..chainTip :
        scan' = [scan EXCEPT ![s] =
                   [IdleScan EXCEPT !.phase = "prepare", !.from = from,
                                    !.tip = chainTip,
                                    !.next = FileStart(from),
                                    !.nextApply = FileStart(from)]]
  BY DEF Start
<1>2. from \in Nat /\ chainTip \in -1..MaxTip
  BY DEF TypeOK
<1>3. FileStart(from) \in Nat
  BY <1>2, FileStartBound
<1>4. [IdleScan EXCEPT !.phase = "prepare", !.from = from, !.tip = chainTip,
                       !.next = FileStart(from),
                       !.nextApply = FileStart(from)] \in ScanState
  BY <1>2, <1>3, ConstantRecords DEF ScanState
<1> QED BY <1>1, <1>4, UpdateTypeOK DEF Start, TypeOK

LEMMA NextTypeOK == TypeOK /\ [Next]_vars => TypeOK'
<1> SUFFICES ASSUME TypeOK, [Next]_vars PROVE TypeOK'
  OBVIOUS
<1> USE ConstantsAssumption
<1>1. ASSUME NEW s \in Scans, Start(s) PROVE TypeOK'
  BY <1>1, StartTypeOK
<1>2. ASSUME NEW s \in Scans, Work(s) PROVE TypeOK'
  BY <1>2, WorkTypeOK
<1>3. ASSUME NEW w \in Watches, AddWatch(w) PROVE TypeOK'
  <2> DEFINE cursor == IF data.scannedTo >= Birth[w] THEN Birth[w] - 1
                                                     ELSE data.scannedTo
  <2>1. data \in Wallet /\ Birth[w] \in Nat
    BY DEF TypeOK
  <2>2. cursor \in -1..MaxTip
    BY <2>1 DEF Wallet
  <2>3. data' = [data EXCEPT !.watches = data.watches \cup {w}, !.scannedTo = cursor]
    BY <1>3 DEF AddWatch
  <2>4. data' \in Wallet
    BY <2>1, <2>2, <2>3 DEF Wallet
  <2> QED BY <1>3, <2>4 DEF TypeOK, AddWatch, chainVars
<1>4. CASE WatchWritten \/ WatchWriteFailed
  BY <1>4 DEF TypeOK, WatchWritten, WatchWriteFailed, chainVars
<1>5. CASE Grow
  BY <1>5 DEF TypeOK, Grow, chainVars
<1>6. CASE Reopen
  BY <1>6, ConstantRecords DEF TypeOK, Reopen, chainVars
<1>7. CASE UNCHANGED vars
  BY <1>7 DEF TypeOK, vars
<1> QED BY <1>1, <1>2, <1>3, <1>4, <1>5, <1>6, <1>7 DEF Next, Caller

(* The variables keep their types, and the cursor stays within -1..MaxTip, *)
(* whatever scans, failures and restarts occur.                            *)
THEOREM TypeCorrect == Spec => []TypeOK
<1> QED BY InitTypeOK, NextTypeOK, PTL DEF Spec

-----------------------------------------------------------------------------
(* The inductive invariant behind CheckpointSound and DiskSound.           *)

(* Heights whose blocks scan s has dealt with, as far as it has got.       *)
Processed(s, h) ==
    /\ h <= scan[s].tip
    /\ \/ h < scan[s].from
       \/ h < scan[s].nextApply
       \/ /\ scan[s].stage \in {"fetch", "apply", "write"}
          /\ h <= RangeEnd(s, scan[s].nextApply)
          /\ h \notin scan[s].todo

(* Idle and starting calls have no lane and no applier; an applier between *)
(* two awaits belongs to a link of the chain.                              *)
StageInv ==
    \A s \in Scans :
        /\ scan[s].phase \in {"idle", "prepare"} =>
              scan[s].stage = "loop" /\ scan[s].queue = << >> /\ scan[s].matching = {}
        /\ scan[s].stage \in {"fetch", "apply", "write"} => scan[s].queue # << >>
        /\ scan[s].stage = "write" => scan[s].todo = {}

OneAwaited == \A s, t \in Scans : Awaited(s) /\ Awaited(t) => s = t

(* A call at work has every watch that was not slipped in under it.        *)
ScriptsInv ==
    \A s \in Scans : Live(s) /\ scan[s].phase # "prepare" =>
        data.watches \ late \subseteq scan[s].scripts

(* While the watch list lives, every unspent coin is on it.                *)
OutpointsInv ==
    \A s \in Scans : scan[s].phase \in {"run", "reject"} =>
        data.utxos \subseteq scan[s].outpoints

(* What a call at work has dealt with is in the wallet.                    *)
ProcessedInv ==
    \A s \in Scans : Live(s) =>
        \A c \in Coins : Relevant(data, c) =>
            /\ Processed(s, foundAt[c]) => c \in Known(data)
            /\ Processed(s, spentAt[c]) => c \in data.spent

(* A snapshot of the wallet that some restart may bring back.              *)
Snapshot(d) == /\ d.watches \subseteq data.watches
               /\ SoundUpTo(d, d.scannedTo)
               /\ d.utxos \cap d.spent = {}

SnapshotInv ==
    /\ Snapshot(data)
    /\ Snapshot(disk)
    /\ \A d \in adding : Snapshot(d)
    /\ \A s \in Scans : scan[s].stage = "write" => Snapshot(scan[s].write)

ChainInv == \A c \in Coins : foundAt[c] < spentAt[c]

IInv == /\ TypeOK /\ ChainInv /\ StageInv /\ OneAwaited
        /\ ScriptsInv /\ OutpointsInv /\ ProcessedInv /\ SnapshotInv

-----------------------------------------------------------------------------
LEMMA InitIInv == Init => IInv
<1> SUFFICES ASSUME Init PROVE IInv
  OBVIOUS
<1>1. TypeOK
  BY InitTypeOK
<1>2. \A s \in Scans : scan[s] = IdleScan
  BY DEF Init, InitWallet
<1>3. ChainInv
  BY DEF Init, ChainInv
<1>4. StageInv /\ OneAwaited /\ ScriptsInv /\ OutpointsInv /\ ProcessedInv
  BY <1>2 DEF StageInv, OneAwaited, ScriptsInv, OutpointsInv, ProcessedInv,
              IdleScan, Live, Awaited
<1>5. SnapshotInv
  BY <1>2 DEF SnapshotInv, Snapshot, SoundUpTo, Relevant, Init, InitWallet,
              FreshWallet, IdleScan
<1> QED BY <1>1, <1>3, <1>4, <1>5 DEF IInv

(* A step of one call leaves the other calls and the chain alone.          *)
LEMMA WorkFrame ==
    ASSUME TypeOK, NEW s \in Scans, Work(s)
    PROVE  /\ \A t \in Scans \ {s} : scan'[t] = scan[t]
           /\ foundAt' = foundAt /\ spentAt' = spentAt /\ chainTip' = chainTip
           /\ adding' = adding /\ late' = late
<1> USE DEF TypeOK, chainVars
<1>1. CASE Prepared(s)
  BY <1>1 DEF Prepared
<1>2. CASE PrepareFailed(s)
  BY <1>2 DEF PrepareFailed
<1>3. CASE TakeRange(s)
  BY <1>3 DEF TakeRange
<1>4. ASSUME NEW r \in scan[s].matching, MatchDone(s, r) \/ MatchFailed(s, r)
      PROVE  /\ \A t \in Scans \ {s} : scan'[t] = scan[t]
             /\ foundAt' = foundAt /\ spentAt' = spentAt /\ chainTip' = chainTip
             /\ adding' = adding /\ late' = late
  BY <1>4 DEF MatchDone, MatchFailed
<1>5. CASE ApplyTake(s) \/ ApplyReturn(s) \/ BlocksFetched(s)
  BY <1>5 DEF ApplyTake, ApplyReturn, BlocksFetched
<1>6. CASE ApplyFailed(s) \/ WriteFailed(s)
  BY <1>6 DEF ApplyFailed, WriteFailed, ApplierDies
<1>7. CASE ApplyBlock(s)
  <2>1. \A t \in Scans \ {s} : scan'[t] = scan[t]
    BY <1>7, ApplyBlockEffect
  <2> QED BY <1>7, <2>1 DEF ApplyBlock
<1>8. CASE Checkpoint(s) \/ Written(s)
  BY <1>8 DEF Checkpoint, Written
<1>9. CASE Resolve(s) \/ Reject(s)
  BY <1>9 DEF Resolve, Reject
<1> QED BY <1>1, <1>2, <1>3, <1>4, <1>5, <1>6, <1>7, <1>8, <1>9 DEF Work

(* What one step of a call may do to the parts of it the invariant names:  *)
(* its phase, its watch list and its applier.                              *)
LEMMA StageStep ==
    ASSUME IInv, NEW s \in Scans, Work(s)
    PROVE  StageInv'
<1>0. /\ scan[s] \in ScanState /\ TypeOK
      /\ scan[s].phase \in {"idle", "prepare"} =>
            scan[s].stage = "loop" /\ scan[s].queue = << >> /\ scan[s].matching = {}
      /\ scan[s].stage \in {"fetch", "apply", "write"} => scan[s].queue # << >>
      /\ scan[s].stage = "write" => scan[s].todo = {}
  BY DEF IInv, StageInv, TypeOK
<1> SUFFICES /\ scan'[s].phase \in {"idle", "prepare"} =>
                   /\ scan'[s].stage = "loop" /\ scan'[s].queue = << >>
                   /\ scan'[s].matching = {}
             /\ scan'[s].stage \in {"fetch", "apply", "write"} =>
                   scan'[s].queue # << >>
             /\ scan'[s].stage = "write" => scan'[s].todo = {}
  BY WorkFrame DEF IInv, StageInv
<1>7. ASSUME ApplyBlock(s)
      PROVE  \E h \in scan[s].todo, o \in SUBSET Coins :
                scan' = [scan EXCEPT ![s] =
                           [scan[s] EXCEPT !.outpoints = o, !.todo = scan[s].todo \ {h}]]
  <2>1. PICK h \in scan[s].todo, new \in SUBSET Coins, gone \in SUBSET Coins :
          /\ \A g \in scan[s].todo : h <= g
          /\ new = BlockOutputs(s, h) \ Known(data)
          /\ gone = BlockSpends(s, h) \cap (data.utxos \cup new)
          /\ data' = [data EXCEPT !.utxos = (data.utxos \cup new) \ gone,
                                  !.spent = data.spent \cup gone]
          /\ scan' = [scan EXCEPT ![s] =
                        [scan[s] EXCEPT
                           !.outpoints = (scan[s].outpoints \cup new) \ gone,
                           !.todo = scan[s].todo \ {h}]]
    BY <1>7, <1>0, ApplyBlockEffect
  <2>2. (scan[s].outpoints \cup new) \ gone \in SUBSET Coins
    BY <1>0 DEF ScanState
  <2> QED BY <2>1, <2>2
<1> USE DEF TypeOK, ScanState
<1>1. CASE Prepared(s) \/ PrepareFailed(s) \/ Resolve(s)
  BY <1>0, <1>1 DEF Prepared, PrepareFailed, Resolve, IdleScan
<1>2. CASE TakeRange(s)
  BY <1>0, <1>2 DEF TakeRange
<1>3. ASSUME NEW r \in scan[s].matching, MatchDone(s, r)
      PROVE  /\ scan'[s].phase = scan[s].phase /\ scan'[s].stage = scan[s].stage
             /\ scan'[s].todo = scan[s].todo
             /\ scan'[s].queue # << >> /\ scan[s].phase \notin {"idle", "prepare"}
  <2> DEFINE q == Append(scan[s].queue, r)
  <2>1. q # << >>
    BY <1>0
  <2>2. scan'[s] = [scan[s] EXCEPT !.matching = scan[s].matching \ {r},
                                   !.parked = scan[s].parked \cup {r}, !.queue = q]
    BY <1>3, <1>0 DEF MatchDone
  <2> HIDE DEF q
  <2> QED BY <1>0, <1>3, <2>1, <2>2
<1>4. ASSUME NEW r \in scan[s].matching, MatchFailed(s, r)
      PROVE  /\ scan'[s].phase \notin {"idle", "prepare"}
             /\ scan'[s].stage = scan[s].stage /\ scan'[s].todo = scan[s].todo
             /\ scan'[s].queue = scan[s].queue
  BY <1>0, <1>4 DEF MatchFailed
<1>5. CASE ApplyTake(s) \/ ApplyReturn(s) \/ BlocksFetched(s)
  BY <1>0, <1>5 DEF ApplyTake, ApplyReturn, BlocksFetched
<1>6. CASE ApplyFailed(s) \/ WriteFailed(s)
  BY <1>0, <1>6 DEF ApplyFailed, WriteFailed, ApplierDies
<1>11. CASE ApplyBlock(s)
  <2>1. PICK h \in scan[s].todo, o \in SUBSET Coins :
          scan' = [scan EXCEPT ![s] = [scan[s] EXCEPT !.outpoints = o,
                                                      !.todo = scan[s].todo \ {h}]]
    BY <1>7, <1>11
  <2>2. scan[s].phase \in {"run", "reject"} /\ scan[s].stage = "apply"
    BY <1>11 DEF ApplyBlock
  <2> QED BY <1>0, <2>1, <2>2
<1>8. CASE Checkpoint(s)
  <2>1. scan' = [scan EXCEPT ![s] = [scan[s] EXCEPT !.stage = "write", !.write = data']]
    BY <1>8 DEF Checkpoint
  <2>2. scan[s].stage = "apply" /\ scan[s].todo = {}
    BY <1>8 DEF Checkpoint
  <2> QED BY <1>0, <2>1, <2>2
<1>10. CASE Written(s)
  BY <1>0, <1>10 DEF Written
<1>9. CASE Reject(s)
  BY <1>0, <1>9 DEF Reject
<1> QED BY <1>0, <1>1, <1>2, <1>3, <1>4, <1>5, <1>6, <1>8, <1>9, <1>10, <1>11 DEF Work

(* A step that leaves the wallet alone and takes the call no further than  *)
(* it was: it deals with no new height and gains no rights.                *)
Quiet(s) ==
    /\ data' = data
    /\ Awaited(s)' => Awaited(s)
    /\ scan'[s].phase \in {"run", "reject"} =>
          scan[s].phase \in {"run", "reject"} /\ scan'[s].outpoints = scan[s].outpoints
    /\ Live(s)' =>
          /\ Live(s)
          /\ scan'[s].phase # "prepare" => scan[s].phase # "prepare"
          /\ scan'[s].scripts = scan[s].scripts
          /\ \A h \in Nat : Processed(s, h)' => Processed(s, h)
    /\ scan'[s].stage = "write" =>
          scan[s].stage = "write" /\ scan'[s].write = scan[s].write

LEMMA QuietKeeps ==
    ASSUME IInv, NEW s \in Scans, Work(s), Quiet(s), Snapshot(disk')
    PROVE  OneAwaited' /\ ScriptsInv' /\ OutpointsInv' /\ ProcessedInv' /\ SnapshotInv'
<1>0. /\ \A t \in Scans \ {s} : scan'[t] = scan[t]
      /\ foundAt' = foundAt /\ spentAt' = spentAt
      /\ adding' = adding /\ late' = late /\ data' = data
  BY WorkFrame DEF IInv, Quiet
<1>1. \A t \in Scans \ {s} : /\ Awaited(t)' <=> Awaited(t)
                             /\ Live(t)' <=> Live(t)
                             /\ \A h \in Nat : Processed(t, h)' <=> Processed(t, h)
  BY <1>0 DEF Awaited, Live, Processed, RangeEnd
<1>2. OneAwaited'
  BY <1>1 DEF IInv, OneAwaited, Quiet
<1>3. ScriptsInv'
  BY <1>0, <1>1 DEF IInv, ScriptsInv, Quiet
<1>4. OutpointsInv'
  BY <1>0 DEF IInv, OutpointsInv, Quiet
<1>5. ProcessedInv'
  <2>1. \A c \in Coins : foundAt[c] \in Nat /\ spentAt[c] \in Nat
    BY ConstantsAssumption DEF IInv, TypeOK, Heights
  <2>2. \A c \in Coins : Relevant(data, c)' <=> Relevant(data, c)
    BY <1>0 DEF Relevant
  <2> SUFFICES ASSUME NEW t \in Scans, Live(t)', NEW c \in Coins, Relevant(data, c)
               PROVE  /\ Processed(t, foundAt[c])' => c \in Known(data)
                      /\ Processed(t, spentAt[c])' => c \in data.spent
    BY <1>0, <2>2 DEF ProcessedInv, Known
  <2>3. /\ Live(t)
        /\ \A h \in Nat : Processed(t, h)' => Processed(t, h)
    BY <1>1 DEF Quiet
  <2>4. /\ Processed(t, foundAt[c]) => c \in Known(data)
        /\ Processed(t, spentAt[c]) => c \in data.spent
    BY <2>3 DEF IInv, ProcessedInv
  <2>5. /\ Processed(t, foundAt[c])' => Processed(t, foundAt[c])
        /\ Processed(t, spentAt[c])' => Processed(t, spentAt[c])
    BY <1>0, <2>1, <2>3 DEF Processed, RangeEnd
  <2> QED BY <2>4, <2>5
<1>6. SnapshotInv'
  <2>1. \A d : Snapshot(d)' <=> Snapshot(d)
    BY <1>0 DEF Snapshot, SoundUpTo, Relevant, Known
  <2> QED BY <1>0, <2>1 DEF IInv, SnapshotInv, Quiet, Snapshot, SoundUpTo, Relevant, Known
<1> QED BY <1>2, <1>3, <1>4, <1>5, <1>6

(* The quiet steps.                                                        *)
LEMMA QuietLane ==
    ASSUME IInv, NEW s \in Scans,
           TakeRange(s) \/ \E r \in scan[s].matching : MatchDone(s, r) \/ MatchFailed(s, r)
    PROVE  Quiet(s) /\ Snapshot(disk')
<1>0. scan[s] \in ScanState /\ TypeOK /\ Snapshot(disk)
  BY DEF IInv, TypeOK, SnapshotInv
<1> USE DEF Quiet, Awaited, Live, Processed, RangeEnd
<1>1. CASE TakeRange(s)
  <2>1. scan'[s] = [scan[s] EXCEPT !.next = scan[s].next + PerFile,
                                   !.matching = scan[s].matching \cup {scan[s].next}]
    BY <1>0, <1>1 DEF TakeRange, TypeOK
  <2>2. /\ scan'[s].from = scan[s].from /\ scan'[s].tip = scan[s].tip
        /\ scan'[s].scripts = scan[s].scripts
        /\ scan'[s].outpoints = scan[s].outpoints
        /\ scan'[s].stage = scan[s].stage /\ scan'[s].todo = scan[s].todo
        /\ scan'[s].nextApply = scan[s].nextApply
        /\ scan'[s].write = scan[s].write
        /\ scan'[s].phase = scan[s].phase
    BY <1>0, <2>1 DEF ScanState
  <2>3. scan[s].phase = "run" /\ data' = data /\ disk' = disk /\ late' = late
    BY <1>1 DEF TakeRange
  <2>4. Snapshot(disk')
    BY <1>0, <1>1 DEF TakeRange, Snapshot, SoundUpTo, Relevant, chainVars
  <2> QED BY <2>2, <2>3, <2>4
<1>2. ASSUME NEW r \in scan[s].matching, MatchDone(s, r)
      PROVE  Quiet(s) /\ Snapshot(disk')
  <2>1. scan'[s] = [scan[s] EXCEPT !.matching = scan[s].matching \ {r},
                                   !.parked = scan[s].parked \cup {r},
                                   !.queue = Append(scan[s].queue, r)]
    BY <1>0, <1>2 DEF MatchDone, TypeOK
  <2>2. scan[s].phase \notin {"idle", "prepare"}
    BY <1>2 DEF IInv, StageInv
  <2>3. /\ scan'[s].from = scan[s].from /\ scan'[s].tip = scan[s].tip
        /\ scan'[s].scripts = scan[s].scripts
        /\ scan'[s].outpoints = scan[s].outpoints
        /\ scan'[s].stage = scan[s].stage /\ scan'[s].todo = scan[s].todo
        /\ scan'[s].nextApply = scan[s].nextApply
        /\ scan'[s].write = scan[s].write
        /\ scan'[s].phase = scan[s].phase
    BY <1>0, <2>1 DEF ScanState
  <2>4. Live(s) /\ data' = data
    BY <1>2, <2>2, <1>0 DEF MatchDone, ScanState
  <2>5. Snapshot(disk')
    BY <1>0, <1>2 DEF MatchDone, Snapshot, SoundUpTo, Relevant, chainVars
  <2> QED BY <2>2, <2>3, <2>4, <2>5
<1>3. ASSUME NEW r \in scan[s].matching, MatchFailed(s, r)
      PROVE  Quiet(s) /\ Snapshot(disk')
  <2>1. scan'[s] = [scan[s] EXCEPT
                      !.matching = scan[s].matching \ {r},
                      !.phase = IF scan[s].phase = "run" THEN "reject" ELSE scan[s].phase]
    BY <1>0, <1>3 DEF MatchFailed, TypeOK
  <2>2. scan[s].phase \notin {"idle", "prepare"}
    BY <1>3 DEF IInv, StageInv
  <2>3. /\ scan'[s].from = scan[s].from /\ scan'[s].tip = scan[s].tip
        /\ scan'[s].scripts = scan[s].scripts
        /\ scan'[s].outpoints = scan[s].outpoints
        /\ scan'[s].stage = scan[s].stage /\ scan'[s].todo = scan[s].todo
        /\ scan'[s].nextApply = scan[s].nextApply
        /\ scan'[s].write = scan[s].write
        /\ scan'[s].phase = IF scan[s].phase = "run" THEN "reject" ELSE scan[s].phase
    BY <1>0, <2>1 DEF ScanState
  <2>4. Live(s) /\ data' = data
    BY <1>3, <2>2, <1>0 DEF MatchFailed, ScanState
  <2>5. Snapshot(disk')
    BY <1>0, <1>3 DEF MatchFailed, Snapshot, SoundUpTo, Relevant, chainVars
  <2> QED BY <2>2, <2>3, <2>4, <2>5
<1> QED BY <1>1, <1>2, <1>3

LEMMA QuietApplier ==
    ASSUME IInv, NEW s \in Scans,
           ApplyReturn(s) \/ BlocksFetched(s) \/ ApplyFailed(s) \/ WriteFailed(s) \/ Written(s)
    PROVE  Quiet(s) /\ Snapshot(disk')
<1>0. /\ scan[s] \in ScanState /\ TypeOK /\ Snapshot(disk)
      /\ scan[s].phase \in {"idle", "prepare"} =>
            scan[s].stage = "loop" /\ scan[s].queue = << >>
      /\ scan[s].stage \in {"fetch", "apply", "write"} => scan[s].queue # << >>
  BY DEF IInv, TypeOK, SnapshotInv, StageInv
<1>1. scan[s].phase \notin {"idle", "prepare"} /\ scan[s].queue # << >>
  BY <1>0 DEF ApplyReturn, BlocksFetched, ApplyFailed, WriteFailed, Written
<1> USE DEF Quiet, Awaited, Live, Processed, RangeEnd
<1>2. CASE ApplyReturn(s)
  <2>1. scan'[s] = [scan[s] EXCEPT !.queue = Tail(scan[s].queue)]
    BY <1>0, <1>2 DEF ApplyReturn, TypeOK
  <2> QED BY <1>0, <1>1, <1>2, <2>1 DEF ApplyReturn, ScanState
<1>3. CASE BlocksFetched(s)
  <2>1. scan'[s] = [scan[s] EXCEPT !.stage = "apply"]
    BY <1>0, <1>3 DEF BlocksFetched, TypeOK
  <2> QED BY <1>0, <1>1, <1>3, <2>1 DEF BlocksFetched, ScanState
<1>4. CASE ApplyFailed(s) \/ WriteFailed(s)
  <2>1. scan'[s] = [scan[s] EXCEPT
                      !.stage = "dead", !.queue = << >>, !.todo = {}, !.write = FreshWallet,
                      !.phase = IF scan[s].phase = "run" THEN "reject" ELSE scan[s].phase]
    BY <1>0, <1>4 DEF ApplyFailed, WriteFailed, ApplierDies, TypeOK
  <2> QED BY <1>0, <1>1, <1>4, <2>1 DEF ApplyFailed, WriteFailed, ScanState
<1>5. CASE Written(s)
  <2>1. scan'[s] = [scan[s] EXCEPT !.stage = "loop", !.write = FreshWallet,
                                   !.nextApply = scan[s].nextApply + PerFile]
    BY <1>0, <1>5 DEF Written, TypeOK
  <2>2. \A h \in Nat : Processed(s, h)' => Processed(s, h)
    <3>1. scan[s].todo = {} /\ scan[s].stage = "write"
      BY <1>5 DEF IInv, StageInv, Written
    <3>2. /\ scan'[s].stage = "loop" /\ scan'[s].tip = scan[s].tip
          /\ scan'[s].from = scan[s].from
          /\ scan'[s].nextApply = scan[s].nextApply + PerFile
      BY <1>0, <2>1 DEF ScanState
    <3>3. scan[s].nextApply \in Nat /\ scan[s].tip \in Int /\ PerFile \in Nat
      BY <1>0, ConstantsAssumption DEF ScanState
    <3> QED BY <3>1, <3>2, <3>3
  <2>3. Snapshot(disk')
    BY <1>5 DEF IInv, SnapshotInv, Written
  <2>4. /\ scan'[s].from = scan[s].from /\ scan'[s].tip = scan[s].tip
        /\ scan'[s].scripts = scan[s].scripts
        /\ scan'[s].outpoints = scan[s].outpoints
        /\ scan'[s].phase = scan[s].phase /\ scan'[s].stage = "loop"
    BY <1>0, <2>1 DEF ScanState
  <2>5. Live(s) /\ data' = data
    BY <1>0, <1>1, <1>5 DEF Written, ScanState
  <2> QED BY <1>1, <2>2, <2>3, <2>4, <2>5
<1> QED BY <1>2, <1>3, <1>4, <1>5

LEMMA QuietCall ==
    ASSUME IInv, NEW s \in Scans, PrepareFailed(s) \/ Resolve(s) \/ Reject(s)
    PROVE  Quiet(s) /\ Snapshot(disk')
<1>0. scan[s] \in ScanState /\ TypeOK /\ Snapshot(disk)
  BY DEF IInv, TypeOK, SnapshotInv
<1> USE DEF Quiet, Awaited, Live, Processed, RangeEnd
<1>1. CASE PrepareFailed(s) \/ Resolve(s)
  <2>1. scan'[s] = IdleScan
    BY <1>0, <1>1 DEF PrepareFailed, Resolve, TypeOK
  <2> QED BY <1>0, <1>1, <2>1 DEF PrepareFailed, Resolve, IdleScan
<1>2. CASE Reject(s)
  <2>1. PICK replied \in SUBSET scan[s].matching :
          scan' = [scan EXCEPT ![s] =
                     [scan[s] EXCEPT !.phase = "freed", !.matching = replied]]
    BY <1>2, <1>0 DEF TypeOK, Reject
  <2>2. scan'[s] = [scan[s] EXCEPT !.phase = "freed", !.matching = replied]
    BY <1>0, <2>1 DEF TypeOK
  <2> QED BY <1>0, <1>2, <2>2 DEF Reject, ScanState
<1> QED BY <1>1, <1>2

(* What a call at work owes the invariant, and what the others keep.       *)
Rest == OneAwaited /\ ScriptsInv /\ OutpointsInv /\ ProcessedInv /\ SnapshotInv

LEMMA PreparedKeeps ==
    ASSUME IInv, NEW s \in Scans, Prepared(s)
    PROVE  Rest'
<1>0. scan[s] \in ScanState /\ TypeOK
  BY DEF IInv, TypeOK
<1>1. /\ \A t \in Scans \ {s} : scan'[t] = scan[t]
      /\ foundAt' = foundAt /\ spentAt' = spentAt
      /\ adding' = adding /\ late' = late /\ data' = data /\ disk' = disk
  BY <1>0, WorkFrame DEF Prepared, Work
<1>2. scan'[s] = [scan[s] EXCEPT !.phase = "run", !.scripts = data.watches,
                                 !.outpoints = data.utxos]
  BY <1>0 DEF Prepared, TypeOK
<1>p. scan[s].phase = "prepare"
  BY DEF Prepared
<1>3. /\ scan'[s].phase = "run" /\ scan[s].phase = "prepare"
      /\ scan'[s].scripts = data.watches /\ scan'[s].outpoints = data.utxos
      /\ scan'[s].from = scan[s].from /\ scan'[s].tip = scan[s].tip
      /\ scan'[s].stage = scan[s].stage /\ scan'[s].todo = scan[s].todo
      /\ scan'[s].nextApply = scan[s].nextApply /\ scan'[s].write = scan[s].write
  BY <1>0, <1>2, <1>p DEF ScanState
<1>4. \A t \in Scans : /\ Awaited(t)' <=> Awaited(t)
                       /\ Live(t)' <=> Live(t)
                       /\ \A h \in Nat : Processed(t, h)' <=> Processed(t, h)
  BY <1>1, <1>3 DEF Awaited, Live, Processed, RangeEnd
<1>5. OneAwaited'
  BY <1>4 DEF IInv, OneAwaited
<1>6. ScriptsInv'
  BY <1>1, <1>3, <1>4 DEF IInv, ScriptsInv
<1>7. OutpointsInv'
  BY <1>1, <1>3 DEF IInv, OutpointsInv
<1>8. ProcessedInv'
  <2>1. \A c \in Coins : foundAt[c] \in Nat /\ spentAt[c] \in Nat
    BY <1>0, ConstantsAssumption DEF TypeOK, Heights
  <2>2. \A t \in Scans, c \in Coins :
          /\ Processed(t, foundAt[c])' <=> Processed(t, foundAt[c])
          /\ Processed(t, spentAt[c])' <=> Processed(t, spentAt[c])
    BY <1>1, <1>3, <2>1 DEF Processed, RangeEnd
  <2> QED BY <1>1, <1>4, <2>2 DEF IInv, ProcessedInv, Relevant, Known
<1>9. SnapshotInv'
  BY <1>1, <1>3 DEF IInv, SnapshotInv, Snapshot, SoundUpTo, Relevant, Known
<1> QED BY <1>5, <1>6, <1>7, <1>8, <1>9 DEF Rest

(* Taking a range adds to what is dealt with the heights of the range that *)
(* no filter matched: nothing of a watched coin is there.                  *)
LEMMA ApplyTakeKeeps ==
    ASSUME IInv, NEW s \in Scans, ApplyTake(s)
    PROVE  Rest'
<1> DEFINE r == scan[s].nextApply
<1>0. scan[s] \in ScanState /\ TypeOK
  BY DEF IInv, TypeOK
<1>1. /\ \A t \in Scans \ {s} : scan'[t] = scan[t]
      /\ foundAt' = foundAt /\ spentAt' = spentAt
      /\ adding' = adding /\ late' = late /\ data' = data /\ disk' = disk
  BY <1>0, WorkFrame DEF ApplyTake, Work
<1>2. scan'[s] = [scan[s] EXCEPT !.stage = "fetch", !.parked = scan[s].parked \ {r},
                                 !.todo = Matches(s, r)]
  BY <1>0 DEF ApplyTake, TypeOK
<1>3. /\ scan'[s].phase = scan[s].phase /\ scan'[s].scripts = scan[s].scripts
      /\ scan'[s].outpoints = scan[s].outpoints /\ scan'[s].queue = scan[s].queue
      /\ scan'[s].from = scan[s].from /\ scan'[s].tip = scan[s].tip
      /\ scan'[s].stage = "fetch" /\ scan'[s].todo = Matches(s, r)
      /\ scan'[s].nextApply = r /\ scan'[s].matching = scan[s].matching
  BY <1>0, <1>2 DEF ScanState
<1>4. scan[s].queue # << >> /\ scan[s].phase \notin {"idle", "prepare"} /\ Live(s)
  BY <1>0 DEF IInv, StageInv, ApplyTake, Live, ScanState
<1>5. \A t \in Scans : (Awaited(t)' <=> Awaited(t)) /\ (Live(t)' <=> Live(t))
  BY <1>1, <1>3 DEF Awaited, Live
<1>6. OneAwaited' /\ ScriptsInv' /\ OutpointsInv'
  BY <1>1, <1>3, <1>5 DEF IInv, OneAwaited, ScriptsInv, OutpointsInv
<1>7. ProcessedInv'
  <2> SUFFICES ASSUME NEW t \in Scans, Live(t), NEW c \in Coins, Relevant(data, c)
               PROVE  /\ Processed(t, foundAt[c])' => c \in Known(data)
                      /\ Processed(t, spentAt[c])' => c \in data.spent
    BY <1>1, <1>5 DEF ProcessedInv, Known, Relevant
  <2>0. /\ Processed(t, foundAt[c]) => c \in Known(data)
        /\ Processed(t, spentAt[c]) => c \in data.spent
    BY DEF IInv, ProcessedInv
  <2>1. CASE t # s
    BY <1>1, <2>0, <2>1 DEF Processed, RangeEnd
  <2>2. CASE t = s
    <3>1. foundAt[c] \in Nat /\ spentAt[c] \in Nat
      BY <1>0, ConstantsAssumption DEF TypeOK, Heights
    <3>2. Owner[c] \in scan[s].scripts
      BY <1>4 DEF IInv, ScriptsInv, Relevant
    <3>3. RangeEnd(s, r)' = RangeEnd(s, r)
      BY <1>3 DEF RangeEnd
    <3>r. r \in Nat /\ scan[s].from \in Nat /\ scan[s].tip \in Int
      BY <1>0 DEF ScanState
    <3>4. r \in Nat /\ RangeEnd(s, r) \in Int /\ scan[s].from \in Nat /\ scan[s].tip \in Int
      BY <1>0, <3>r, RangeEndBound
    <3>5. ASSUME NEW h \in Nat, h = foundAt[c] \/ h = spentAt[c], Processed(s, h)'
          PROVE  Processed(s, h)
      <4>1. CASE h < scan[s].from \/ h < r
        BY <1>3, <3>5, <4>1 DEF Processed
      <4>2. CASE h >= scan[s].from /\ h >= r
        <5>1. h <= RangeEnd(s, r) /\ h \notin Matches(s, r)
          BY <1>3, <3>3, <3>4, <3>5, <4>2 DEF Processed
        <5>2. h \in r..RangeEnd(s, r)
          BY <3>4, <4>2, <5>1
        <5> QED BY <3>2, <3>5, <4>2, <5>1, <5>2 DEF Matches
      <4> QED BY <3>4, <4>1, <4>2
    <3>6. Processed(s, foundAt[c])' => Processed(s, foundAt[c])
      BY <1>1, <3>1, <3>5
    <3>7. Processed(s, spentAt[c])' => Processed(s, spentAt[c])
      BY <1>1, <3>1, <3>5
    <3> QED BY <2>0, <2>2, <3>6, <3>7
  <2> QED BY <2>1, <2>2
<1>8. SnapshotInv'
  BY <1>1, <1>3 DEF IInv, SnapshotInv, Snapshot, SoundUpTo, Relevant, Known
<1> QED BY <1>6, <1>7, <1>8 DEF Rest

(* Applying the lowest block left: its finds enter the wallet and the      *)
(* watch list, and a coin it spends was found in a lower block, so it is   *)
(* on the watch list or already spent.                                     *)
LEMMA ApplyBlockKeeps ==
    ASSUME IInv, NEW s \in Scans, ApplyBlock(s)
    PROVE  Rest'
<1>0. scan[s] \in ScanState /\ TypeOK /\ data \in Wallet
  BY DEF IInv, TypeOK
<1>1. PICK h \in scan[s].todo, new \in SUBSET Coins, gone \in SUBSET Coins :
        /\ \A g \in scan[s].todo : h <= g
        /\ new = BlockOutputs(s, h) \ Known(data)
        /\ gone = BlockSpends(s, h) \cap (data.utxos \cup new)
        /\ data' = [data EXCEPT !.utxos = (data.utxos \cup new) \ gone,
                                !.spent = data.spent \cup gone]
        /\ scan' = [scan EXCEPT ![s] =
                      [scan[s] EXCEPT
                         !.outpoints = (scan[s].outpoints \cup new) \ gone,
                         !.todo = scan[s].todo \ {h}]]
  BY <1>0, ApplyBlockEffect
<1>2. /\ data'.watches = data.watches /\ data'.scannedTo = data.scannedTo
      /\ data'.utxos = (data.utxos \cup new) \ gone
      /\ data'.spent = data.spent \cup gone
  BY <1>0, <1>1 DEF Wallet
<1>3. /\ \A t \in Scans \ {s} : scan'[t] = scan[t]
      /\ foundAt' = foundAt /\ spentAt' = spentAt
      /\ adding' = adding /\ late' = late /\ disk' = disk
  BY <1>0, WorkFrame DEF ApplyBlock, Work
<1>4. scan'[s] = [scan[s] EXCEPT
                    !.outpoints = (scan[s].outpoints \cup new) \ gone,
                    !.todo = scan[s].todo \ {h}]
  BY <1>0, <1>1 DEF TypeOK
<1>5. /\ scan'[s].phase = scan[s].phase /\ scan'[s].scripts = scan[s].scripts
      /\ scan'[s].outpoints = (scan[s].outpoints \cup new) \ gone
      /\ scan'[s].queue = scan[s].queue /\ scan'[s].matching = scan[s].matching
      /\ scan'[s].from = scan[s].from /\ scan'[s].tip = scan[s].tip
      /\ scan'[s].stage = scan[s].stage /\ scan'[s].todo = scan[s].todo \ {h}
      /\ scan'[s].nextApply = scan[s].nextApply /\ scan'[s].write = scan[s].write
  BY <1>0, <1>4 DEF ScanState
<1>6. scan[s].phase \in {"run", "reject"} /\ scan[s].stage = "apply" /\ Live(s)
  BY DEF ApplyBlock, Live
<1>7. \A t \in Scans : (Awaited(t)' <=> Awaited(t)) /\ (Live(t)' <=> Live(t))
  BY <1>3, <1>5 DEF Awaited, Live
<1>8. OneAwaited' /\ ScriptsInv'
  BY <1>2, <1>3, <1>5, <1>7 DEF IInv, OneAwaited, ScriptsInv
<1>9. OutpointsInv'
  <2>1. \A t \in Scans \ {s} : scan'[t].phase \notin {"run", "reject"}
    BY <1>3, <1>6 DEF IInv, OneAwaited, Awaited
  <2>2. data'.utxos \subseteq scan'[s].outpoints
    BY <1>2, <1>5, <1>6 DEF IInv, OutpointsInv
  <2> QED BY <2>1, <2>2 DEF OutpointsInv
<1>10. Known(data) \subseteq Known(data)' /\ data.spent \subseteq data'.spent
  BY <1>2 DEF Known
<1>11. ProcessedInv'
  <2> SUFFICES ASSUME NEW t \in Scans, Live(t), NEW c \in Coins, Relevant(data, c)
               PROVE  /\ Processed(t, foundAt[c])' => c \in Known(data)'
                      /\ Processed(t, spentAt[c])' => c \in data'.spent
    BY <1>2, <1>3, <1>7 DEF ProcessedInv, Relevant
  <2>0. /\ Processed(t, foundAt[c]) => c \in Known(data)
        /\ Processed(t, spentAt[c]) => c \in data.spent
    BY DEF IInv, ProcessedInv
  <2>1. CASE t # s
    BY <1>3, <1>10, <2>0, <2>1 DEF Processed, RangeEnd
  <2>2. CASE t = s
    <3>1. foundAt[c] \in Nat /\ spentAt[c] \in Nat /\ foundAt[c] < spentAt[c]
      BY <1>0, ConstantsAssumption DEF TypeOK, Heights, IInv, ChainInv
    <3>2. Owner[c] \in scan[s].scripts
      BY <1>6 DEF IInv, ScriptsInv, Relevant
    <3>3. \A g \in Nat : Processed(s, g)' => Processed(s, g) \/ g = h
      BY <1>5 DEF Processed, RangeEnd
    <3>4. foundAt[c] = h => c \in Known(data)'
      BY <1>1, <1>2, <3>2 DEF BlockOutputs, Known
    <3>5. ASSUME spentAt[c] = h, Processed(s, h)' PROVE c \in data'.spent
      <4>r. /\ scan[s].nextApply \in Nat /\ scan[s].tip \in Int /\ scan[s].todo \subseteq Nat
            /\ scan[s].from \in Nat
        BY <1>0 DEF ScanState
      <4>1. RangeEnd(s, scan[s].nextApply) \in Int
        BY <1>0, <4>r, RangeEndBound
      <4>2. foundAt[c] \notin scan[s].todo /\ foundAt[c] < h
        BY <1>1, <3>1, <3>5, <4>r
      <4>3. Processed(s, foundAt[c])
        BY <1>5, <1>6, <3>1, <3>5, <4>r, <4>1, <4>2 DEF Processed, RangeEnd
      <4>4. c \in Known(data)
        BY <2>0, <2>2, <4>3
      <4>5. CASE c \in data.spent
        BY <1>2, <4>5
      <4>6. CASE c \in data.utxos
        <5>1. c \in BlockSpends(s, h)
          BY <1>6, <3>5, <4>6 DEF IInv, OutpointsInv, BlockSpends
        <5> QED BY <1>1, <1>2, <4>6, <5>1
      <4> QED BY <4>4, <4>5, <4>6 DEF Known
    <3>6. Processed(s, foundAt[c])' => Processed(s, foundAt[c]) \/ foundAt[c] = h
      BY <1>3, <3>1, <1>5 DEF Processed, RangeEnd
    <3>7. Processed(s, spentAt[c])' => Processed(s, spentAt[c]) \/ (spentAt[c] = h /\ Processed(s, h)')
      BY <1>3, <3>1, <1>5 DEF Processed, RangeEnd
    <3> QED BY <1>10, <2>0, <2>2, <3>4, <3>5, <3>6, <3>7
  <2> QED BY <2>1, <2>2
<1>12. SnapshotInv'
  <2>1. \A d : Snapshot(d)' <=> Snapshot(d)
    BY <1>2, <1>3 DEF Snapshot, SoundUpTo, Relevant, Known
  <2>2. Snapshot(data')
    <3>1. data'.utxos \cap data'.spent = {}
      BY <1>1, <1>2 DEF IInv, SnapshotInv, Snapshot, Known
    <3>2. SoundUpTo(data', data'.scannedTo)
      BY <1>2, <1>10 DEF IInv, SnapshotInv, Snapshot, SoundUpTo, Relevant, Known
    <3> QED BY <1>2, <3>1, <3>2 DEF Snapshot
  <2>3. Snapshot(data)'
    BY <1>2, <1>3, <2>2 DEF Snapshot, SoundUpTo, Relevant, Known
  <2>4. Snapshot(disk)' /\ \A d \in adding' : Snapshot(d)'
    BY <1>3, <2>1 DEF IInv, SnapshotInv, Snapshot, SoundUpTo, Relevant, Known
  <2>5. ASSUME NEW t \in Scans, scan'[t].stage = "write" PROVE Snapshot(scan[t].write)'
    <3>1. scan[t].stage = "write" /\ scan'[t].write = scan[t].write
      BY <1>3, <1>5, <1>6, <2>5
    <3>2. Snapshot(scan[t].write)
      BY <3>1 DEF IInv, SnapshotInv
    <3> QED BY <1>2, <1>3, <3>1, <3>2 DEF Snapshot, SoundUpTo, Relevant, Known
  <2> QED BY <2>3, <2>4, <2>5 DEF SnapshotInv
<1> QED BY <1>8, <1>9, <1>11, <1>12 DEF Rest

(* The range is applied to its end: the cursor may claim it.               *)
LEMMA CheckpointKeeps ==
    ASSUME IInv, NEW s \in Scans, Checkpoint(s)
    PROVE  Rest'
<1> DEFINE e == RangeEnd(s, scan[s].nextApply)
<1>0. scan[s] \in ScanState /\ TypeOK /\ data \in Wallet
  BY DEF IInv, TypeOK
<1>1. /\ data' = [data EXCEPT !.scannedTo = e]
      /\ scan' = [scan EXCEPT ![s] = [scan[s] EXCEPT !.stage = "write", !.write = data']]
  BY <1>0 DEF Checkpoint, TypeOK
<1>2. /\ data'.watches = data.watches /\ data'.scannedTo = e
      /\ data'.utxos = data.utxos /\ data'.spent = data.spent
  BY <1>0, <1>1 DEF Wallet
<1>3. /\ \A t \in Scans \ {s} : scan'[t] = scan[t]
      /\ foundAt' = foundAt /\ spentAt' = spentAt
      /\ adding' = adding /\ late' = late /\ disk' = disk
  BY <1>0, WorkFrame DEF Checkpoint, Work
<1>4. scan'[s] = [scan[s] EXCEPT !.stage = "write", !.write = data']
  BY <1>0, <1>1 DEF TypeOK
<1>5. /\ scan'[s].phase = scan[s].phase /\ scan'[s].scripts = scan[s].scripts
      /\ scan'[s].outpoints = scan[s].outpoints
      /\ scan'[s].queue = scan[s].queue /\ scan'[s].matching = scan[s].matching
      /\ scan'[s].from = scan[s].from /\ scan'[s].tip = scan[s].tip
      /\ scan'[s].stage = "write" /\ scan'[s].todo = scan[s].todo
      /\ scan'[s].nextApply = scan[s].nextApply /\ scan'[s].write = data'
  BY <1>0, <1>4 DEF ScanState
<1>6. scan[s].stage = "apply" /\ scan[s].todo = {}
  BY DEF Checkpoint
<1>7. Live(s)
  BY <1>0, <1>6 DEF IInv, StageInv, Live, ScanState
<1>8. \A t \in Scans : (Awaited(t)' <=> Awaited(t)) /\ (Live(t)' <=> Live(t))
  BY <1>3, <1>5 DEF Awaited, Live
<1>9. OneAwaited' /\ ScriptsInv' /\ OutpointsInv'
  BY <1>2, <1>3, <1>5, <1>8 DEF IInv, OneAwaited, ScriptsInv, OutpointsInv
<1>10. ProcessedInv'
  <2> SUFFICES ASSUME NEW t \in Scans, Live(t), NEW c \in Coins, Relevant(data, c)
               PROVE  /\ Processed(t, foundAt[c])' => c \in Known(data)'
                      /\ Processed(t, spentAt[c])' => c \in data'.spent
    BY <1>2, <1>3, <1>8 DEF ProcessedInv, Relevant
  <2>1. /\ Processed(t, foundAt[c])' => Processed(t, foundAt[c])
        /\ Processed(t, spentAt[c])' => Processed(t, spentAt[c])
    BY <1>3, <1>5, <1>6 DEF Processed, RangeEnd
  <2> QED BY <1>2, <2>1 DEF IInv, ProcessedInv, Known
<1>11. SnapshotInv'
  <2>1. SoundUpTo(data, e)
    <3> SUFFICES ASSUME NEW c \in Coins, Relevant(data, c)
                 PROVE  /\ foundAt[c] <= e => c \in Known(data)
                        /\ spentAt[c] <= e => c \in data.spent
      BY DEF SoundUpTo
    <3>1. e \in Int /\ e <= scan[s].tip /\ scan[s].tip \in Int
      <4>1. scan[s].nextApply \in Nat /\ scan[s].tip \in Int
        BY <1>0 DEF ScanState
      <4>2. e \in Int
        BY <1>0, <4>1, RangeEndBound
      <4> QED BY <4>1, <4>2, ConstantsAssumption DEF RangeEnd
    <3>2. foundAt[c] \in Nat /\ spentAt[c] \in Nat
      BY <1>0, ConstantsAssumption DEF TypeOK, Heights
    <3>3. \A h \in Nat : h <= e => Processed(s, h)
      BY <1>6, <3>1 DEF Processed
    <3> QED BY <1>7, <3>2, <3>3 DEF IInv, ProcessedInv
  <2>2. Snapshot(data)'
    BY <1>2, <1>3, <2>1 DEF IInv, SnapshotInv, Snapshot, SoundUpTo, Relevant, Known
  <2>3. Snapshot(disk)' /\ \A d \in adding' : Snapshot(d)'
    BY <1>2, <1>3 DEF IInv, SnapshotInv, Snapshot, SoundUpTo, Relevant, Known
  <2>4. ASSUME NEW t \in Scans, t # s, scan'[t].stage = "write"
        PROVE  Snapshot(scan[t].write)'
    <3>1. scan[t].stage = "write" /\ scan'[t].write = scan[t].write
      BY <1>3, <2>4
    <3>2. Snapshot(scan[t].write)
      BY <3>1 DEF IInv, SnapshotInv
    <3> QED BY <1>2, <1>3, <3>1, <3>2 DEF Snapshot, SoundUpTo, Relevant, Known
  <2>5. Snapshot(scan[s].write)'
    BY <1>5, <2>2 DEF Snapshot, SoundUpTo, Relevant, Known
  <2> QED BY <2>2, <2>3, <2>4, <2>5 DEF SnapshotInv
<1> QED BY <1>9, <1>10, <1>11 DEF Rest

LEMMA WorkKeeps ==
    ASSUME IInv, NEW s \in Scans, Work(s)
    PROVE  IInv'
<1>1. TypeOK' /\ ChainInv'
  BY WorkTypeOK, WorkFrame DEF IInv, ChainInv
<1>2. StageInv'
  BY StageStep
<1>3. CASE Quiet(s) /\ Snapshot(disk')
  BY <1>1, <1>2, <1>3, QuietKeeps DEF IInv
<1>4. CASE Prepared(s) \/ ApplyTake(s) \/ ApplyBlock(s) \/ Checkpoint(s)
  BY <1>1, <1>2, <1>4, PreparedKeeps, ApplyTakeKeeps, ApplyBlockKeeps, CheckpointKeeps
     DEF IInv, Rest
<1> QED BY <1>3, <1>4, QuietLane, QuietApplier, QuietCall DEF Work

(* A call starts at the cursor or, before it, at the lowest birthday: what *)
(* lies below was seen or concerns no watch.                               *)
LEMMA StartKeeps ==
    ASSUME IInv, NEW s \in Scans, Start(s), \A t \in Scans : ~Awaited(t)
    PROVE  IInv'
<1>0. TypeOK /\ data \in Wallet /\ ConstantsAssumption
  BY ConstantsAssumption DEF IInv, TypeOK
<1>1. PICK from \in 0..chainTip :
        /\ IsScanStart(from)
        /\ scan' = [scan EXCEPT ![s] =
                      [IdleScan EXCEPT !.phase = "prepare", !.from = from,
                                       !.tip = chainTip,
                                       !.next = FileStart(from),
                                       !.nextApply = FileStart(from)]]
  BY DEF Start
<1>2. /\ \A t \in Scans \ {s} : scan'[t] = scan[t]
      /\ foundAt' = foundAt /\ spentAt' = spentAt /\ data' = data
      /\ adding' = adding /\ late' = late /\ disk' = disk
  BY <1>0, <1>1 DEF Start, TypeOK, chainVars
<1>3. /\ scan'[s].phase = "prepare" /\ scan'[s].from = from
      /\ scan'[s].nextApply = FileStart(from) /\ scan'[s].stage = "loop"
      /\ scan'[s].queue = << >> /\ scan'[s].matching = {} /\ scan'[s].todo = {}
  BY <1>0, <1>1 DEF TypeOK, IdleScan
<1>4. TypeOK' /\ ChainInv'
  BY <1>0, <1>2, StartTypeOK DEF IInv, ChainInv
<1>5. StageInv'
  BY <1>2, <1>3 DEF IInv, StageInv
<1>6. OneAwaited'
  BY <1>2, <1>3 DEF OneAwaited, Awaited
<1>7. ScriptsInv' /\ OutpointsInv'
  BY <1>2, <1>3 DEF IInv, ScriptsInv, OutpointsInv, Live
<1>8. ProcessedInv'
  <2> SUFFICES ASSUME NEW t \in Scans, Live(t)', NEW c \in Coins, Relevant(data, c)
               PROVE  /\ Processed(t, foundAt[c])' => c \in Known(data)
                      /\ Processed(t, spentAt[c])' => c \in data.spent
    BY <1>2 DEF ProcessedInv, Relevant, Known
  <2>1. CASE t # s
    <3>1. Live(t)
      BY <1>2, <2>1 DEF Live
    <3> QED BY <1>2, <2>1, <3>1 DEF IInv, ProcessedInv, Processed, RangeEnd
  <2>2. CASE t = s
    <3>1. foundAt[c] \in Nat /\ spentAt[c] \in Nat /\ foundAt[c] < spentAt[c]
      BY <1>0 DEF TypeOK, Heights, IInv, ChainInv
    <3>2. from \in Nat /\ data.scannedTo \in Int
      BY <1>0 DEF TypeOK, Wallet
    <3>3. FileStart(from) \in Nat /\ FileStart(from) <= from
      BY <3>2, FileStartBound
    <3>4. /\ Processed(s, foundAt[c])' => foundAt[c] < from
          /\ Processed(s, spentAt[c])' => spentAt[c] < from
      BY <1>2, <1>3, <3>1, <3>2, <3>3 DEF Processed
    <3>5. PICK w \in data.watches :
            /\ \A v \in data.watches : Birth[w] <= Birth[v]
            /\ from = IF Birth[w] > data.scannedTo THEN Birth[w] ELSE data.scannedTo + 1
      BY <1>1 DEF IsScanStart
    <3>6. Owner[c] \in data.watches /\ Birth[Owner[c]] <= foundAt[c]
      BY <1>0 DEF Relevant, TypeOK
    <3>7. Birth[w] \in Nat /\ Birth[Owner[c]] \in Nat
      BY <1>0, <3>5, <3>6 DEF Wallet, ConstantsAssumption
    <3>8. Birth[w] <= foundAt[c]
      BY <3>1, <3>5, <3>6, <3>7
    <3>9. /\ foundAt[c] < from => foundAt[c] <= data.scannedTo
          /\ spentAt[c] < from => spentAt[c] <= data.scannedTo
      BY <3>1, <3>2, <3>5, <3>7, <3>8
    <3> QED BY <2>2, <3>4, <3>9 DEF IInv, SnapshotInv, Snapshot, SoundUpTo
  <2> QED BY <2>1, <2>2
<1>9. SnapshotInv'
  BY <1>2, <1>3 DEF IInv, SnapshotInv, Snapshot, SoundUpTo, Relevant, Known
<1> QED BY <1>4, <1>5, <1>6, <1>7, <1>8, <1>9 DEF IInv

(* A watch that is added while no call is live is relevant from then on,   *)
(* with a cursor below its birthday; under a live call it is late.         *)
LEMMA AddWatchKeeps ==
    ASSUME IInv, NEW w \in Watches, AddWatch(w)
    PROVE  IInv'
<1> DEFINE cursor == IF data.scannedTo >= Birth[w] THEN Birth[w] - 1
                                                   ELSE data.scannedTo
<1>0. TypeOK /\ data \in Wallet /\ Birth[w] \in Nat /\ data.scannedTo \in Int
  BY ConstantsAssumption DEF IInv, TypeOK, Wallet
<1>1. /\ data' = [data EXCEPT !.watches = data.watches \cup {w}, !.scannedTo = cursor]
      /\ adding' = {data'}
      /\ late' = IF w \in data.watches THEN late
                 ELSE IF Busy THEN late \cup {w} ELSE late \ {w}
      /\ foundAt' = foundAt /\ spentAt' = spentAt
      /\ chainTip' = chainTip /\ disk' = disk /\ scan' = scan
  BY DEF AddWatch, chainVars
<1>2. /\ data'.watches = data.watches \cup {w} /\ data'.scannedTo = cursor
      /\ data'.utxos = data.utxos /\ data'.spent = data.spent
  BY <1>0, <1>1 DEF Wallet
<1>3. TypeOK'
  <2>0. data.scannedTo \in -1..MaxTip
    BY <1>0 DEF Wallet
  <2>1. cursor \in -1..MaxTip
    BY <1>0, <2>0, ConstantsAssumption
  <2>2. data' \in Wallet
    BY <1>0, <1>1, <2>1 DEF Wallet
  <2> QED BY <1>0, <1>1, <2>2 DEF TypeOK
<1>4. ChainInv' /\ StageInv' /\ OneAwaited' /\ OutpointsInv'
  BY <1>1, <1>2 DEF IInv, ChainInv, StageInv, OneAwaited, Awaited, OutpointsInv
<1>5. Busy => data'.watches \ late' \subseteq data.watches \ late
  BY <1>1, <1>2
<1>6. \A t \in Scans : Live(t)' => Live(t) /\ Busy
  BY <1>1 DEF Live, Busy
<1>7. ScriptsInv'
  BY <1>1, <1>5, <1>6 DEF IInv, ScriptsInv
<1>8. ProcessedInv'
  <2> SUFFICES ASSUME NEW t \in Scans, Live(t)', NEW c \in Coins, Relevant(data, c)'
               PROVE  /\ Processed(t, foundAt[c])' => c \in Known(data)'
                      /\ Processed(t, spentAt[c])' => c \in data'.spent
    BY DEF ProcessedInv
  <2>1. Live(t) /\ Relevant(data, c)
    BY <1>1, <1>5, <1>6 DEF Relevant
  <2> QED BY <1>1, <1>2, <2>1 DEF IInv, ProcessedInv, Processed, RangeEnd, Known
<1>9. ASSUME NEW d, Snapshot(d)
      PROVE  Snapshot(d)'
  <2>1. \A c \in Coins : Relevant(d, c)' => Relevant(d, c)
    BY <1>1, <1>9 DEF Relevant, Snapshot
  <2> QED BY <1>1, <1>2, <1>9, <2>1 DEF Snapshot, SoundUpTo, Known
<1>10. Snapshot(data)'
  <2> SUFFICES ASSUME NEW c \in Coins, Relevant(data, c)'
               PROVE  /\ foundAt[c] <= cursor => c \in Known(data)
                      /\ spentAt[c] <= cursor => c \in data.spent
    BY <1>1, <1>2 DEF IInv, SnapshotInv, Snapshot, SoundUpTo, Known
  <2>1. foundAt[c] \in Nat /\ spentAt[c] \in Nat /\ foundAt[c] < spentAt[c]
    BY <1>0, ConstantsAssumption DEF TypeOK, Heights, IInv, ChainInv
  <2>2. CASE Owner[c] = w
    <3>1. Birth[w] <= foundAt[c]
      BY <1>1, <2>2, <2>1, <1>0 DEF Relevant
    <3> QED BY <1>0, <2>1, <3>1
  <2>3. CASE Owner[c] # w
    <3>1. Relevant(data, c)
      BY <1>1, <1>2, <2>3 DEF Relevant
    <3>2. cursor <= data.scannedTo /\ cursor \in Int
      BY <1>0
    <3> QED BY <1>0, <2>1, <3>1, <3>2 DEF IInv, SnapshotInv, Snapshot, SoundUpTo
  <2> QED BY <2>2, <2>3
<1>11. SnapshotInv'
  <2>1. Snapshot(disk)'
    BY <1>1, <1>9 DEF IInv, SnapshotInv, Snapshot, SoundUpTo, Relevant, Known
  <2>2. \A d \in adding' : Snapshot(d)'
    BY <1>1, <1>10 DEF Snapshot, SoundUpTo, Relevant, Known
  <2>3. \A t \in Scans : scan'[t].stage = "write" => Snapshot(scan[t].write)'
    BY <1>1, <1>9 DEF IInv, SnapshotInv, Snapshot, SoundUpTo, Relevant, Known
  <2> QED BY <1>10, <2>1, <2>2, <2>3 DEF SnapshotInv
<1> QED BY <1>3, <1>4, <1>7, <1>8, <1>11 DEF IInv

LEMMA CallerKeeps ==
    ASSUME IInv,
           WatchWritten \/ WatchWriteFailed \/ Grow \/ Reopen \/ UNCHANGED vars
    PROVE  IInv'
<1>0. TypeOK'
  BY NextTypeOK DEF IInv, Next, Caller
<1>1. CASE WatchWritten \/ WatchWriteFailed
  <2>1. /\ foundAt' = foundAt /\ spentAt' = spentAt /\ data' = data
        /\ scan' = scan /\ late' = late /\ adding' = {}
    BY <1>1 DEF WatchWritten, WatchWriteFailed, chainVars
  <2>2. Snapshot(disk')
    BY <1>1 DEF WatchWritten, WatchWriteFailed, IInv, SnapshotInv
  <2> QED BY <1>0, <2>1, <2>2
          DEF IInv, ChainInv, StageInv, OneAwaited, Awaited, ScriptsInv, OutpointsInv,
              ProcessedInv, Processed, RangeEnd, Live, SnapshotInv, Snapshot,
              SoundUpTo, Relevant, Known
<1>2. CASE Grow \/ UNCHANGED vars
  <2>1. /\ foundAt' = foundAt /\ spentAt' = spentAt /\ data' = data /\ disk' = disk
        /\ scan' = scan /\ late' = late /\ adding' = adding
    BY <1>2 DEF Grow, chainVars, vars
  <2> QED BY <1>0, <2>1
          DEF IInv, ChainInv, StageInv, OneAwaited, Awaited, ScriptsInv, OutpointsInv,
              ProcessedInv, Processed, RangeEnd, Live, SnapshotInv, Snapshot,
              SoundUpTo, Relevant, Known
<1>3. CASE Reopen
  <2>1. /\ foundAt' = foundAt /\ spentAt' = spentAt /\ data' = disk /\ disk' = disk
        /\ late' = late /\ adding' = {}
        /\ \A s \in Scans : scan'[s] = IdleScan
    BY <1>3 DEF Reopen, chainVars
  <2>2. StageInv' /\ OneAwaited' /\ ScriptsInv' /\ OutpointsInv' /\ ProcessedInv'
    BY <2>1 DEF StageInv, OneAwaited, ScriptsInv, OutpointsInv, ProcessedInv,
                IdleScan, Live, Awaited
  <2>3. SnapshotInv'
    BY <2>1 DEF IInv, SnapshotInv, Snapshot, SoundUpTo, Relevant, Known, IdleScan
  <2> QED BY <1>0, <2>1, <2>2, <2>3 DEF IInv, ChainInv
<1> QED BY <1>1, <1>2, <1>3

LEMMA NextIInv == IInv /\ [Next]_vars => IInv'
<1> SUFFICES ASSUME IInv, [Next]_vars PROVE IInv'
  OBVIOUS
<1> QED BY StartKeeps, WorkKeeps, AddWatchKeeps, CallerKeeps DEF Next, Caller

LEMMA Invariance == Spec => []IInv
<1> QED BY InitIInv, NextIInv, PTL DEF Spec

(* The checkpoint never claims a block whose finds or spends were missed.  *)
THEOREM CheckpointIsSound == Spec => []CheckpointSound
<1>1. IInv => CheckpointSound
  BY DEF IInv, SnapshotInv, Snapshot, CheckpointSound
<1> QED BY <1>1, Invariance, PTL

(* Neither does the wallet on disk, whichever write landed last.           *)
THEOREM DiskIsSound == Spec => []DiskSound
<1>1. IInv => DiskSound
  BY DEF IInv, SnapshotInv, Snapshot, DiskSound
<1> QED BY <1>1, Invariance, PTL

(* No coin is ever both unspent and spent.                                 *)
THEOREM CoinsAreNeverBoth == Spec => []NeverBoth
<1>1. IInv => NeverBoth
  BY DEF IInv, SnapshotInv, Snapshot, NeverBoth
<1> QED BY <1>1, Invariance, PTL

(* A coin the cursor has seen spent is no longer listed as unspent.        *)
THEOREM ListedCoinsAreUnspent == Spec => []ListedIsUnspent
<1>1. IInv => ListedIsUnspent
  <2> SUFFICES ASSUME IInv, NEW c \in data.utxos, Relevant(data, c)
               PROVE  spentAt[c] > data.scannedTo
    BY DEF ListedIsUnspent
  <2>1. c \in Coins /\ spentAt[c] \in Nat /\ data.scannedTo \in Int
    BY DEF IInv, TypeOK, Wallet
  <2>2. c \notin data.spent
    BY DEF IInv, SnapshotInv, Snapshot
  <2>3. ~(spentAt[c] <= data.scannedTo)
    BY <2>1, <2>2 DEF IInv, SnapshotInv, Snapshot, SoundUpTo
  <2> QED BY <2>1, <2>3
<1> QED BY <1>1, Invariance, PTL

-----------------------------------------------------------------------------
(* The order of the ranges.  Every range a call has taken lies a whole     *)
(* number of filter files beyond the one the applier is at; as long as no  *)
(* lane and no applier has failed none of them is lost; and the link that  *)
(* returns last leaves no range that could be applied.                     *)
Taken(s) == scan[s].stage \in {"fetch", "apply", "write"}
Nth(s, k) == scan[s].nextApply + k * PerFile

RangesOrdered(s) ==
    /\ \E k \in Nat : scan[s].next = Nth(s, k)
    /\ \A r \in scan[s].matching \cup scan[s].parked :
          r < scan[s].next /\ \E k \in Nat : r = Nth(s, k)
    /\ scan[s].matching \cap scan[s].parked = {}
    /\ Taken(s) => /\ scan[s].nextApply < scan[s].next
                   /\ scan[s].nextApply \notin scan[s].matching \cup scan[s].parked
    /\ scan[s].queue = << >> => scan[s].nextApply \notin scan[s].parked

RangesKept(s) ==
    scan[s].phase \in {"prepare", "run"} =>
        /\ scan[s].stage # "dead"
        /\ \A k \in Nat : Nth(s, k) < scan[s].next =>
              \/ Nth(s, k) \in scan[s].matching \cup scan[s].parked
              \/ k = 0 /\ Taken(s)

RangesInv == \A s \in Scans : RangesOrdered(s) /\ RangesKept(s)

LEMMA Files ==
    ASSUME NEW a \in Nat, NEW k \in Nat
    PROVE  /\ a + k * PerFile \in Nat /\ a + 0 * PerFile = a
           /\ a + k * PerFile >= a
           /\ k # 0 => a + k * PerFile >= a + PerFile
           /\ (a + PerFile) + k * PerFile = a + (k + 1) * PerFile
           /\ k # 0 => /\ k - 1 \in Nat
                       /\ a + k * PerFile = (a + PerFile) + (k - 1) * PerFile
           /\ a + (k + 1) * PerFile = (a + k * PerFile) + PerFile
<1>1. PerFile \in Nat /\ PerFile > 0
  BY ConstantsAssumption
<1>2. k * PerFile \in Nat
  BY <1>1
<1>3. (k + 1) * PerFile = k * PerFile + PerFile
  BY <1>1, <1>2
<1>4. ASSUME k # 0
      PROVE  k - 1 \in Nat /\ k * PerFile = (k - 1) * PerFile + PerFile
             /\ (k - 1) * PerFile \in Nat
  BY <1>1, <1>4
<1> QED BY <1>1, <1>2, <1>3, <1>4

LEMMA FilesApart ==
    ASSUME NEW a \in Nat, NEW k \in Nat, NEW l \in Nat,
           a + k * PerFile < a + l * PerFile
    PROVE  a + (k + 1) * PerFile <= a + l * PerFile
<1>1. PerFile \in Nat /\ PerFile > 0
  BY ConstantsAssumption
<1>2. k < l
  <2>1. CASE l <= k
    <3>1. l * PerFile <= k * PerFile
      BY <1>1, <2>1
    <3>2. l * PerFile \in Nat /\ k * PerFile \in Nat
      BY <1>1
    <3> QED BY <3>1, <3>2
  <2> QED BY <2>1
<1>3. (k + 1) * PerFile <= l * PerFile
  BY <1>1, <1>2
<1>4. (k + 1) * PerFile \in Nat /\ l * PerFile \in Nat
  BY <1>1
<1> QED BY <1>3, <1>4

(* A step that takes no range and finishes none.                           *)
LEMMA RangesFrame ==
    ASSUME NEW s \in Scans, RangesOrdered(s), RangesKept(s),
           scan'[s].next = scan[s].next, scan'[s].nextApply = scan[s].nextApply,
           scan'[s].matching \subseteq scan[s].matching,
           scan'[s].parked = scan[s].parked,
           scan'[s].queue = << >> => scan[s].queue = << >> \/ Taken(s)
                                     \/ scan[s].nextApply \notin scan[s].parked,
           Taken(s)' => Taken(s),
           scan'[s].phase \in {"prepare", "run"} =>
               /\ scan[s].phase \in {"prepare", "run"} /\ scan'[s].stage # "dead"
               /\ Taken(s) => Taken(s)'
               /\ scan'[s].matching = scan[s].matching
    PROVE  RangesOrdered(s)' /\ RangesKept(s)'
<1>1. \A k \in Nat : Nth(s, k)' = Nth(s, k)
  BY DEF Nth
<1>2. RangesOrdered(s)'
  BY <1>1 DEF RangesOrdered, Nth
<1>3. RangesKept(s)'
  BY <1>1 DEF RangesKept, Nth
<1> QED BY <1>2, <1>3

LEMMA RangesIdle ==
    ASSUME NEW s \in Scans, NEW n \in Nat,
           scan'[s].next = n, scan'[s].nextApply = n, scan'[s].matching = {},
           scan'[s].parked = {}, scan'[s].stage = "loop"
    PROVE  RangesOrdered(s)' /\ RangesKept(s)'
<1>1. Nth(s, 0)' = n /\ \A k \in Nat : Nth(s, k)' >= n
  BY Files DEF Nth
<1>2. ~Taken(s)'
  BY DEF Taken
<1>3. \A k \in Nat : ~(Nth(s, k)' < n)
  <2>1. \A k \in Nat : Nth(s, k)' \in Nat
    BY Files DEF Nth
  <2> QED BY <1>1, <2>1
<1> QED BY <1>1, <1>2, <1>3 DEF RangesOrdered, RangesKept

LEMMA TakeRangeOrder ==
    ASSUME TypeOK, NEW s \in Scans, RangesOrdered(s), RangesKept(s), TakeRange(s)
    PROVE  RangesOrdered(s)' /\ RangesKept(s)'
<1>1. /\ scan[s] \in ScanState /\ scan[s].phase = "run"
      /\ scan' = [scan EXCEPT ![s] =
                    [scan[s] EXCEPT !.next = scan[s].next + PerFile,
                                    !.matching = scan[s].matching \cup {scan[s].next}]]
  BY DEF TypeOK, TakeRange
<1>2. /\ scan'[s].next = scan[s].next + PerFile
      /\ scan'[s].matching = scan[s].matching \cup {scan[s].next}
      /\ scan'[s].nextApply = scan[s].nextApply /\ scan'[s].parked = scan[s].parked
      /\ scan'[s].queue = scan[s].queue /\ scan'[s].stage = scan[s].stage
      /\ scan'[s].phase = scan[s].phase
      /\ scan[s].next \in Nat /\ scan[s].nextApply \in Nat
      /\ scan[s].matching \subseteq Nat /\ scan[s].parked \subseteq Nat
      /\ PerFile \in Nat \ {0}
  BY <1>1, ConstantsAssumption DEF TypeOK, ScanState
<1>3. /\ \A k \in Nat : Nth(s, k)' = Nth(s, k) /\ Nth(s, k) \in Nat
      /\ Taken(s)' <=> Taken(s)
  BY <1>2, Files DEF Nth, Taken
<1>4. PICK n \in Nat : scan[s].next = Nth(s, n)
  BY DEF RangesOrdered
<1>5. scan'[s].next = Nth(s, n + 1) /\ n + 1 \in Nat
  BY <1>2, <1>4, Files DEF Nth
<1>6. RangesOrdered(s)'
  <2>1. \E k \in Nat : scan'[s].next = Nth(s, k)'
    BY <1>3, <1>5
  <2>2. \A r \in scan'[s].matching \cup scan'[s].parked :
          r < scan'[s].next /\ \E k \in Nat : r = Nth(s, k)'
    <3>1. ASSUME NEW r \in scan[s].matching \cup scan[s].parked
          PROVE  r < scan'[s].next /\ \E k \in Nat : r = Nth(s, k)'
      <4>1. r < scan[s].next /\ r \in Nat /\ \E k \in Nat : r = Nth(s, k)
        BY <1>2 DEF RangesOrdered
      <4>2. r < scan'[s].next
        BY <1>2, <4>1
      <4> QED BY <1>3, <4>1, <4>2
    <3>2. scan[s].next < scan'[s].next /\ scan[s].next = Nth(s, n)'
      BY <1>2, <1>3, <1>4
    <3> QED BY <1>2, <3>1, <3>2
  <2>3. scan'[s].matching \cap scan'[s].parked = {}
    <3>1. scan[s].next \notin scan[s].parked
      BY <1>2 DEF RangesOrdered
    <3> QED BY <1>2, <3>1 DEF RangesOrdered
  <2>4. Taken(s)' => /\ scan'[s].nextApply < scan'[s].next
                     /\ scan'[s].nextApply \notin scan'[s].matching \cup scan'[s].parked
    <3>1. Taken(s) => /\ scan[s].nextApply < scan[s].next
                      /\ scan[s].nextApply \notin scan[s].matching \cup scan[s].parked
      BY DEF RangesOrdered
    <3>2. scan[s].nextApply < scan[s].next => /\ scan'[s].nextApply < scan'[s].next
                                              /\ scan[s].nextApply # scan[s].next
      BY <1>2
    <3> QED BY <1>2, <1>3, <3>1, <3>2
  <2>5. scan'[s].queue = << >> => scan'[s].nextApply \notin scan'[s].parked
    BY <1>2 DEF RangesOrdered
  <2> QED BY <2>1, <2>2, <2>3, <2>4, <2>5 DEF RangesOrdered
<1>7. RangesKept(s)'
  <2>1. ASSUME NEW k \in Nat, Nth(s, k) < scan'[s].next
        PROVE  \/ Nth(s, k) \in scan'[s].matching \cup scan'[s].parked
               \/ k = 0 /\ Taken(s)
    <3>1. CASE Nth(s, k) < scan[s].next
      BY <1>1, <1>2, <3>1 DEF RangesKept
    <3>2. CASE scan[s].next < Nth(s, k)
      <4>1. Nth(s, n + 1) <= Nth(s, k)
        BY <1>2, <1>4, <3>2, FilesApart DEF Nth
      <4> QED BY <1>3, <1>5, <2>1, <4>1
    <3>3. CASE scan[s].next = Nth(s, k)
      BY <1>2, <3>3
    <3> QED BY <1>2, <1>3, <3>1, <3>2, <3>3
  <2>2. scan'[s].stage # "dead"
    BY <1>1, <1>2 DEF RangesKept
  <2> QED BY <1>3, <2>1, <2>2 DEF RangesKept
<1> QED BY <1>6, <1>7

LEMMA MatchDoneOrder ==
    ASSUME TypeOK, NEW s \in Scans, RangesOrdered(s), RangesKept(s),
           NEW r \in scan[s].matching, MatchDone(s, r)
    PROVE  RangesOrdered(s)' /\ RangesKept(s)'
<1>1. /\ scan[s] \in ScanState
      /\ scan' = [scan EXCEPT ![s] =
                    [scan[s] EXCEPT !.matching = scan[s].matching \ {r},
                                    !.parked = scan[s].parked \cup {r},
                                    !.queue = Append(scan[s].queue, r)]]
  BY DEF TypeOK, MatchDone
<1>2. /\ scan'[s].matching = scan[s].matching \ {r}
      /\ scan'[s].parked = scan[s].parked \cup {r}
      /\ scan'[s].queue = Append(scan[s].queue, r)
      /\ scan'[s].next = scan[s].next /\ scan'[s].nextApply = scan[s].nextApply
      /\ scan'[s].stage = scan[s].stage /\ scan'[s].phase = scan[s].phase
  BY <1>1 DEF TypeOK, ScanState
<1>3. scan'[s].queue # << >>
  <2>1. scan[s].queue \in Seq(Nat) /\ r \in Nat
    BY <1>1 DEF ScanState
  <2> QED BY <1>2, <2>1
<1>4. (\A k \in Nat : Nth(s, k)' = Nth(s, k)) /\ (Taken(s)' <=> Taken(s))
  BY <1>2 DEF Nth, Taken
<1>5. scan'[s].matching \cup scan'[s].parked = scan[s].matching \cup scan[s].parked
  BY <1>2
<1>6. RangesOrdered(s)'
  BY <1>2, <1>3, <1>4, <1>5 DEF RangesOrdered
<1>7. RangesKept(s)'
  BY <1>2, <1>4, <1>5 DEF RangesKept
<1> QED BY <1>6, <1>7

LEMMA ApplyTakeOrder ==
    ASSUME TypeOK, StageInv, NEW s \in Scans, RangesOrdered(s), RangesKept(s), ApplyTake(s)
    PROVE  RangesOrdered(s)' /\ RangesKept(s)'
<1>1. /\ scan[s] \in ScanState /\ scan[s].nextApply \in scan[s].parked
      /\ scan[s].queue # << >>
      /\ scan' = [scan EXCEPT ![s] =
                    [scan[s] EXCEPT !.stage = "fetch",
                                    !.parked = scan[s].parked \ {scan[s].nextApply},
                                    !.todo = Matches(s, scan[s].nextApply)]]
  BY DEF TypeOK, ApplyTake
<1>2. /\ scan'[s].stage = "fetch" /\ scan'[s].matching = scan[s].matching
      /\ scan'[s].parked = scan[s].parked \ {scan[s].nextApply}
      /\ scan'[s].queue = scan[s].queue /\ scan'[s].phase = scan[s].phase
      /\ scan'[s].next = scan[s].next /\ scan'[s].nextApply = scan[s].nextApply
      /\ scan[s].nextApply \in Nat
  BY <1>1 DEF TypeOK, ScanState
<1>3. Taken(s)' /\ \A k \in Nat : Nth(s, k)' = Nth(s, k)
  BY <1>2 DEF Taken, Nth
<1>4. RangesOrdered(s)'
  BY <1>1, <1>2, <1>3 DEF RangesOrdered
<1>5. ASSUME NEW k \in Nat, Nth(s, k) = scan[s].nextApply
      PROVE  k = 0
  <2>1. k # 0 => Nth(s, k) >= scan[s].nextApply + PerFile
    BY <1>2, Files DEF Nth
  <2> QED BY <1>2, <1>5, <2>1, ConstantsAssumption
<1>6. ~Taken(s)
  BY DEF ApplyTake, Taken
<1>7. RangesKept(s)'
  BY <1>2, <1>3, <1>5, <1>6 DEF RangesKept
<1> QED BY <1>4, <1>7

LEMMA WrittenOrder ==
    ASSUME TypeOK, StageInv, NEW s \in Scans, RangesOrdered(s), RangesKept(s), Written(s)
    PROVE  RangesOrdered(s)' /\ RangesKept(s)'
<1>1. /\ scan[s] \in ScanState /\ Taken(s) /\ scan[s].queue # << >>
      /\ scan' = [scan EXCEPT ![s] =
                    [scan[s] EXCEPT !.stage = "loop", !.write = FreshWallet,
                                    !.nextApply = scan[s].nextApply + PerFile]]
  BY DEF TypeOK, StageInv, Written, Taken
<1>2. /\ scan'[s].stage = "loop" /\ scan'[s].nextApply = scan[s].nextApply + PerFile
      /\ scan'[s].matching = scan[s].matching /\ scan'[s].parked = scan[s].parked
      /\ scan'[s].queue = scan[s].queue /\ scan'[s].phase = scan[s].phase
      /\ scan'[s].next = scan[s].next /\ scan[s].nextApply \in Nat
      /\ scan[s].next \in Nat
  BY <1>1 DEF TypeOK, ScanState
<1>3. ~Taken(s)'
  BY <1>2 DEF Taken
<1> DEFINE a == scan[s].nextApply
<1>4. ASSUME NEW k \in Nat
      PROVE  Nth(s, k)' = Nth(s, k + 1)
  <2>1. (a + PerFile) + k * PerFile = a + (k + 1) * PerFile
    BY <1>2, Files
  <2> QED BY <1>2, <2>1 DEF Nth
<1>5. Nth(s, 0) = scan[s].nextApply
  BY <1>2, Files DEF Nth
<1>6. ASSUME NEW k \in Nat, Nth(s, k) # scan[s].nextApply
      PROVE  k - 1 \in Nat /\ Nth(s, k) = Nth(s, k - 1)'
  <2>1. k # 0
    BY <1>5, <1>6
  <2>2. k - 1 \in Nat /\ a + k * PerFile = (a + PerFile) + (k - 1) * PerFile
    BY <1>2, <2>1, Files
  <2> QED BY <1>2, <2>2 DEF Nth
<1>7. RangesOrdered(s)'
  <2>1. \E k \in Nat : scan'[s].next = Nth(s, k)'
    BY <1>1, <1>2, <1>6 DEF RangesOrdered
  <2>2. \A r \in scan'[s].matching \cup scan'[s].parked :
          r < scan'[s].next /\ \E k \in Nat : r = Nth(s, k)'
    BY <1>1, <1>2, <1>6 DEF RangesOrdered
  <2> QED BY <1>1, <1>2, <1>3, <2>1, <2>2 DEF RangesOrdered
<1>8. RangesKept(s)'
  <2>1. \A k \in Nat : k + 1 \in Nat /\ k + 1 # 0
    OBVIOUS
  <2> QED BY <1>2, <1>3, <1>4, <2>1 DEF RangesKept
<1> QED BY <1>7, <1>8

LEMMA ApplierDiesOrder ==
    ASSUME TypeOK, StageInv, NEW s \in Scans, RangesOrdered(s), RangesKept(s), ApplierDies(s),
           Taken(s)
    PROVE  RangesOrdered(s)' /\ RangesKept(s)'
<1> DEFINE p == IF scan[s].phase = "run" THEN "reject" ELSE scan[s].phase
<1>1. /\ scan' = [scan EXCEPT ![s] =
                    [scan[s] EXCEPT !.stage = "dead", !.queue = << >>, !.todo = {},
                                    !.write = FreshWallet, !.phase = p]]
      /\ scan[s] \in ScanState
  BY DEF TypeOK, ApplierDies
<1>2. /\ scan'[s].next = scan[s].next /\ scan'[s].nextApply = scan[s].nextApply
      /\ scan'[s].matching = scan[s].matching /\ scan'[s].parked = scan[s].parked
      /\ scan'[s].stage = "dead" /\ scan'[s].phase = p
  BY <1>1 DEF TypeOK, ScanState
<1>3. ~Taken(s)' /\ \A k \in Nat : Nth(s, k)' = Nth(s, k)
  BY <1>2 DEF Taken, Nth
<1>4. RangesOrdered(s)'
  BY <1>2, <1>3 DEF RangesOrdered
<1>5. scan[s].phase # "prepare"
  BY DEF StageInv, Taken
<1>6. scan'[s].phase \notin {"prepare", "run"}
  BY <1>2, <1>5
<1>7. RangesKept(s)'
  BY <1>6 DEF RangesKept
<1> QED BY <1>4, <1>7

LEMMA RangesWork ==
    ASSUME TypeOK, StageInv, NEW s \in Scans, RangesOrdered(s), RangesKept(s), Work(s)
    PROVE  RangesOrdered(s)' /\ RangesKept(s)'
<1>0. scan[s] \in ScanState /\ scan \in [Scans -> ScanState]
  BY DEF TypeOK
<1>1. CASE Prepared(s) \/ BlocksFetched(s) \/ Checkpoint(s)
  <2>1. /\ scan'[s].next = scan[s].next /\ scan'[s].nextApply = scan[s].nextApply
        /\ scan'[s].matching = scan[s].matching /\ scan'[s].parked = scan[s].parked
        /\ scan'[s].queue = scan[s].queue /\ scan'[s].stage # "dead"
        /\ Taken(s)' <=> Taken(s)
        /\ scan'[s].phase \in {"prepare", "run"} => scan[s].phase \in {"prepare", "run"}
    <3>1. CASE Prepared(s)
      BY <1>0, <3>1 DEF Prepared, ScanState, Taken, StageInv
    <3>2. CASE BlocksFetched(s)
      BY <1>0, <3>2 DEF BlocksFetched, ScanState, Taken
    <3>3. CASE Checkpoint(s)
      BY <1>0, <3>3 DEF Checkpoint, ScanState, Taken
    <3> QED BY <1>1, <3>1, <3>2, <3>3
  <2> QED BY <2>1, RangesFrame
<1>2. CASE PrepareFailed(s) \/ Resolve(s)
  <2>1. scan'[s] = IdleScan
    BY <1>0, <1>2 DEF PrepareFailed, Resolve
  <2> QED BY <2>1, RangesIdle DEF IdleScan
<1>3. CASE TakeRange(s)
  BY <1>3, TakeRangeOrder
<1>4. ASSUME NEW r \in scan[s].matching, MatchDone(s, r)
      PROVE  RangesOrdered(s)' /\ RangesKept(s)'
  BY <1>4, MatchDoneOrder
<1>5. ASSUME NEW r \in scan[s].matching, MatchFailed(s, r)
      PROVE  RangesOrdered(s)' /\ RangesKept(s)'
  <2>1. scan[s].phase # "prepare"
    BY DEF StageInv
  <2>2. scan' = [scan EXCEPT ![s] =
                   [scan[s] EXCEPT !.matching = scan[s].matching \ {r},
                                   !.phase = IF scan[s].phase = "run" THEN "reject"
                                             ELSE scan[s].phase]]
    BY <1>0, <1>5 DEF MatchFailed
  <2>3. /\ scan'[s].next = scan[s].next /\ scan'[s].nextApply = scan[s].nextApply
        /\ scan'[s].matching \subseteq scan[s].matching
        /\ scan'[s].parked = scan[s].parked
        /\ scan'[s].queue = scan[s].queue /\ scan'[s].stage = scan[s].stage
        /\ scan'[s].phase \notin {"prepare", "run"}
    BY <1>0, <2>1, <2>2 DEF ScanState
  <2>4. Taken(s)' <=> Taken(s)
    BY <2>3 DEF Taken
  <2> QED BY <2>3, <2>4, RangesFrame
<1>6. CASE ApplyTake(s)
  BY <1>6, ApplyTakeOrder
<1>7. CASE ApplyReturn(s)
  <2>1. /\ scan' = [scan EXCEPT ![s] = [scan[s] EXCEPT !.queue = Tail(scan[s].queue)]]
        /\ scan[s].nextApply \notin scan[s].parked
    BY <1>0, <1>7 DEF ApplyReturn
  <2>2. /\ scan'[s].next = scan[s].next /\ scan'[s].nextApply = scan[s].nextApply
        /\ scan'[s].matching = scan[s].matching /\ scan'[s].parked = scan[s].parked
        /\ scan'[s].stage = scan[s].stage /\ scan'[s].phase = scan[s].phase
    BY <1>0, <2>1 DEF ScanState
  <2>3. (Taken(s)' <=> Taken(s)) /\ scan[s].stage # "dead"
    BY <1>7, <2>2 DEF Taken, ApplyReturn
  <2> QED BY <2>1, <2>2, <2>3, RangesFrame
<1>8. CASE ApplyBlock(s)
  <2>1. PICK h \in scan[s].todo, new \in SUBSET Coins, gone \in SUBSET Coins :
          /\ \A g \in scan[s].todo : h <= g
          /\ new = BlockOutputs(s, h) \ Known(data)
          /\ gone = BlockSpends(s, h) \cap (data.utxos \cup new)
          /\ data' = [data EXCEPT !.utxos = (data.utxos \cup new) \ gone,
                                  !.spent = data.spent \cup gone]
          /\ scan' = [scan EXCEPT ![s] =
                        [scan[s] EXCEPT
                           !.outpoints = (scan[s].outpoints \cup new) \ gone,
                           !.todo = scan[s].todo \ {h}]]
    BY <1>8, ApplyBlockEffect
  <2>2. /\ scan'[s].next = scan[s].next /\ scan'[s].nextApply = scan[s].nextApply
        /\ scan'[s].matching = scan[s].matching /\ scan'[s].parked = scan[s].parked
        /\ scan'[s].queue = scan[s].queue
        /\ scan'[s].stage = scan[s].stage /\ scan'[s].phase = scan[s].phase
    BY <1>0, <2>1 DEF ScanState
  <2>3. (Taken(s)' <=> Taken(s)) /\ scan[s].stage # "dead"
    BY <1>8, <2>2 DEF Taken, ApplyBlock
  <2> QED BY <2>2, <2>3, RangesFrame
<1>9. CASE ApplyFailed(s) \/ WriteFailed(s)
  BY <1>9, ApplierDiesOrder DEF ApplyFailed, WriteFailed, Taken
<1>10. CASE Written(s)
  BY <1>10, WrittenOrder
<1>11. CASE Reject(s)
  <2>1. PICK replied \in SUBSET scan[s].matching :
          scan' = [scan EXCEPT ![s] =
                     [scan[s] EXCEPT !.phase = "freed", !.matching = replied]]
    BY <1>0, <1>11 DEF Reject
  <2>2. /\ scan'[s].next = scan[s].next /\ scan'[s].nextApply = scan[s].nextApply
        /\ scan'[s].matching \subseteq scan[s].matching
        /\ scan'[s].parked = scan[s].parked
        /\ scan'[s].queue = scan[s].queue /\ scan'[s].stage = scan[s].stage
        /\ scan'[s].phase = "freed"
    BY <1>0, <2>1 DEF ScanState
  <2>3. Taken(s)' <=> Taken(s)
    BY <2>2 DEF Taken
  <2> QED BY <2>2, <2>3, RangesFrame
<1> QED BY <1>1, <1>2, <1>3, <1>4, <1>5, <1>6, <1>7, <1>8, <1>9, <1>10, <1>11 DEF Work

LEMMA RangesStart ==
    ASSUME TypeOK, NEW s \in Scans, Start(s)
    PROVE  RangesOrdered(s)' /\ RangesKept(s)'
<1>1. PICK from \in 0..chainTip :
        scan' = [scan EXCEPT ![s] =
                   [IdleScan EXCEPT !.phase = "prepare", !.from = from,
                                    !.tip = chainTip,
                                    !.next = FileStart(from),
                                    !.nextApply = FileStart(from)]]
  BY DEF Start
<1>2. FileStart(from) \in Nat
  BY FileStartBound DEF TypeOK
<1>3. /\ scan'[s].next = FileStart(from) /\ scan'[s].nextApply = FileStart(from)
      /\ scan'[s].matching = {} /\ scan'[s].parked = {} /\ scan'[s].stage = "loop"
  BY <1>1 DEF TypeOK, IdleScan
<1> QED BY <1>2, <1>3, RangesIdle

LEMMA RangesOthers ==
    ASSUME NEW t \in Scans, RangesOrdered(t), RangesKept(t), scan'[t] = scan[t]
    PROVE  RangesOrdered(t)' /\ RangesKept(t)'
<1>1. (Taken(t)' <=> Taken(t)) /\ \A k \in Nat : Nth(t, k)' = Nth(t, k)
  BY DEF Taken, Nth
<1>2. RangesOrdered(t)'
  BY <1>1 DEF RangesOrdered
<1>3. RangesKept(t)'
  BY <1>1 DEF RangesKept
<1> QED BY <1>2, <1>3

LEMMA NextRanges == IInv /\ RangesInv /\ [Next]_vars => RangesInv'
<1> SUFFICES ASSUME IInv, RangesInv, [Next]_vars, NEW t \in Scans
             PROVE  RangesOrdered(t)' /\ RangesKept(t)'
  BY DEF RangesInv
<1>0. TypeOK /\ StageInv /\ RangesOrdered(t) /\ RangesKept(t)
  BY DEF IInv, RangesInv
<1>1. ASSUME NEW s \in Scans, Start(s)
      PROVE  RangesOrdered(t)' /\ RangesKept(t)'
  <2>1. CASE t = s
    BY <1>0, <1>1, <2>1, RangesStart
  <2>2. CASE t # s
    <3>1. scan'[t] = scan[t]
      BY <1>0, <1>1, <2>2 DEF Start, TypeOK
    <3> QED BY <1>0, <3>1, RangesOthers
  <2> QED BY <2>1, <2>2
<1>2. ASSUME NEW s \in Scans, Work(s)
      PROVE  RangesOrdered(t)' /\ RangesKept(t)'
  <2>1. CASE t = s
    BY <1>0, <1>2, <2>1, RangesWork
  <2>2. CASE t # s
    <3>1. scan'[t] = scan[t]
      BY <1>0, <1>2, <2>2, WorkFrame
    <3> QED BY <1>0, <3>1, RangesOthers
  <2> QED BY <2>1, <2>2
<1>3. CASE Reopen
  <2>1. scan'[t] = IdleScan
    BY <1>3 DEF Reopen
  <2> QED BY <2>1, RangesIdle DEF IdleScan
<1>4. CASE \/ \E w \in Watches : AddWatch(w)
           \/ WatchWritten \/ WatchWriteFailed \/ Grow \/ UNCHANGED vars
  <2>1. scan'[t] = scan[t]
    BY <1>4 DEF AddWatch, WatchWritten, WatchWriteFailed, Grow, vars
  <2> QED BY <1>0, <2>1, RangesOthers
<1> QED BY <1>1, <1>2, <1>3, <1>4 DEF Next, Caller

LEMMA InitRanges == Init => RangesInv
<1> SUFFICES ASSUME Init, NEW s \in Scans PROVE RangesOrdered(s) /\ RangesKept(s)
  BY DEF RangesInv
<1>1. /\ scan[s].next = 0 /\ scan[s].nextApply = 0 /\ scan[s].matching = {}
      /\ scan[s].parked = {} /\ scan[s].stage = "loop" /\ scan[s].phase = "idle"
  BY DEF Init, InitWallet, IdleScan
<1>2. Nth(s, 0) = 0
  BY <1>1, ConstantsAssumption DEF Nth
<1> QED BY <1>1, <1>2 DEF RangesOrdered, RangesKept, Taken

LEMMA RangesInvariance == Spec => [](IInv /\ RangesInv)
<1>1. Init => IInv /\ RangesInv
  BY InitIInv, InitRanges
<1>2. IInv /\ RangesInv /\ [Next]_vars => IInv' /\ RangesInv'
  BY NextIInv, NextRanges
<1> QED BY <1>1, <1>2, PTL DEF Spec

(* A range waits for every earlier one: nothing is applied ahead of a      *)
(* range that is still being matched or is parked.                         *)
THEOREM RangesAreAppliedInOrder == Spec => []AppliedInOrder
<1>1. IInv /\ RangesInv => AppliedInOrder
  <2> SUFFICES ASSUME IInv, RangesInv, NEW s \in Scans,
                      NEW r \in scan[s].matching \cup scan[s].parked
               PROVE  /\ scan[s].nextApply <= r
                      /\ Taken(s) => scan[s].nextApply < r
    BY DEF AppliedInOrder, Taken
  <2>1. scan[s].nextApply \in Nat /\ r \in Nat
    BY DEF IInv, TypeOK, ScanState
  <2>2. PICK k \in Nat : r = Nth(s, k)
    BY DEF RangesInv, RangesOrdered
  <2>3. scan[s].nextApply <= r
    BY <2>1, <2>2, Files DEF Nth
  <2>4. Taken(s) => scan[s].nextApply # r
    BY DEF RangesInv, RangesOrdered
  <2> QED BY <2>1, <2>3, <2>4
<1> QED BY <1>1, RangesInvariance, PTL

(* When the last lane returns, the applier has consumed every range of the *)
(* window: scan() resolves with a summary of all of it.                    *)
THEOREM ResolvedMeansComplete == Spec => []ResolvedIsComplete
<1>1. IInv /\ RangesInv => ResolvedIsComplete
  <2> SUFFICES ASSUME IInv, RangesInv, NEW s \in Scans, LanesReturned(s)
               PROVE  scan[s].parked = {} /\ scan[s].nextApply > scan[s].tip
    BY DEF ResolvedIsComplete
  <2>1. /\ scan[s].phase = "run" /\ scan[s].next > scan[s].tip
        /\ scan[s].matching = {} /\ scan[s].queue = << >>
        /\ scan[s].nextApply \in Nat /\ scan[s].next \in Nat /\ scan[s].tip \in Int
        /\ scan[s].parked \subseteq Nat
    BY ConstantsAssumption DEF LanesReturned, IInv, TypeOK, ScanState
  <2>2. ~Taken(s) /\ scan[s].nextApply \notin scan[s].parked
    BY <2>1 DEF IInv, StageInv, RangesInv, RangesOrdered, Taken
  <2>3. Nth(s, 0) = scan[s].nextApply
    BY <2>1, Files DEF Nth
  <2>4. ~(scan[s].nextApply < scan[s].next)
    <3>1. Nth(s, 0) < scan[s].next =>
            \/ Nth(s, 0) \in scan[s].matching \cup scan[s].parked
            \/ 0 = 0 /\ Taken(s)
      BY <2>1 DEF RangesInv, RangesKept
    <3> QED BY <2>1, <2>2, <2>3, <3>1
  <2>5. ASSUME NEW r \in scan[s].parked PROVE FALSE
    <3>1. PICK k \in Nat : r = Nth(s, k)
      BY DEF RangesInv, RangesOrdered
    <3>2. scan[s].nextApply <= r /\ r < scan[s].next
      BY <2>1, <3>1, Files DEF Nth, RangesInv, RangesOrdered
    <3> QED BY <2>1, <2>4, <3>2
  <2> QED BY <2>1, <2>4, <2>5
<1> QED BY <1>1, RangesInvariance, PTL

-----------------------------------------------------------------------------
(* The sliding-window scan implements the ledger: each step of the wallet  *)
(* is a step of the ledger or leaves it as it is.                          *)

(* What makes a wallet's page the one a sequential reading would write is  *)
(* that its cursor vouches for its coins.                                  *)
LEMMA SoundPage ==
    ASSUME NEW d \in Wallet, SoundUpTo(d, d.scannedTo), TypeOK
    PROVE  Page(d) = L!PageAt(d.watches \ late, d.scannedTo)
<1>1. d.scannedTo \in Int /\ d.utxos \subseteq Coins /\ d.spent \subseteq Coins
  BY DEF Wallet
<1>2. \A c \in Coins : foundAt[c] \in Nat /\ spentAt[c] \in Nat
  BY DEF TypeOK, Heights
<1> DEFINE mine == {c \in Known(d) : /\ Relevant(d, c)
                                     /\ foundAt[c] <= d.scannedTo
                                     /\ ~(c \in d.spent /\ spentAt[c] <= d.scannedTo)}
           read == {c \in Coins : /\ Owner[c] \in d.watches \ late
                                  /\ foundAt[c] >= Birth[Owner[c]]
                                  /\ foundAt[c] <= d.scannedTo
                                  /\ spentAt[c] > d.scannedTo}
<1>3. ASSUME NEW c \in mine PROVE c \in read
  <2>1. c \in Coins /\ Relevant(d, c) /\ foundAt[c] <= d.scannedTo
        /\ ~(c \in d.spent /\ spentAt[c] <= d.scannedTo)
    BY <1>1 DEF Known
  <2>2. spentAt[c] <= d.scannedTo => c \in d.spent
    BY <2>1 DEF SoundUpTo
  <2>3. spentAt[c] > d.scannedTo
    BY <1>1, <1>2, <2>1, <2>2
  <2> QED BY <2>1, <2>3 DEF Relevant
<1>4. ASSUME NEW c \in read PROVE c \in mine
  <2>1. Relevant(d, c) /\ foundAt[c] <= d.scannedTo /\ spentAt[c] > d.scannedTo
    BY DEF Relevant
  <2>2. c \in Known(d)
    BY <2>1 DEF SoundUpTo
  <2>3. ~(spentAt[c] <= d.scannedTo)
    BY <1>1, <1>2, <2>1
  <2> QED BY <2>1, <2>2, <2>3
<1>5. mine = read
  BY <1>3, <1>4
<1> QED BY <1>5 DEF Page, L!PageAt

(* The wallets that can be shown: in memory and on disk.                   *)
PagesSound ==
    /\ Page(data) = L!PageAt(data.watches \ late, data.scannedTo)
    /\ Page(disk) = L!PageAt(disk.watches \ late, disk.scannedTo)

LEMMA PagesAreSound == IInv => PagesSound
<1> SUFFICES ASSUME IInv PROVE PagesSound
  OBVIOUS
<1>1. TypeOK /\ data \in Wallet /\ disk \in Wallet
  BY DEF IInv, TypeOK
<1>2. SoundUpTo(data, data.scannedTo) /\ SoundUpTo(disk, disk.scannedTo)
  BY DEF IInv, SnapshotInv, Snapshot
<1> QED BY <1>1, <1>2, SoundPage DEF PagesSound

(* At most one addWatch() is being saved.                                  *)
OneAdding == \A d, e \in adding : d = e

(* A page depends on the wallet it is made from, on the fixed chain, and   *)
(* on which of its watches were slipped in under a scan.                   *)
LEMMA PageKept ==
    ASSUME foundAt' = foundAt, spentAt' = spentAt, NEW d,
           d.watches \ late' = d.watches \ late
    PROVE  Page(d)' = Page(d)
<1>1. \A c : Relevant(d, c)' <=> Relevant(d, c)
  BY DEF Relevant
<1>2. Known(d)' = Known(d)
  BY DEF Known
<1> QED BY <1>1, <1>2 DEF Page

LEMMA PageAtKept ==
    ASSUME foundAt' = foundAt, spentAt' = spentAt, NEW W, NEW h
    PROVE  L!PageAt(W, h)' = L!PageAt(W, h)
BY DEF L!PageAt

Saving == {Page(d) : d \in InFlight}

(* A step that leaves the pages alone.                                     *)
LEMMA Stutter ==
    ASSUME foundAt' = foundAt, spentAt' = spentAt, Page(data)' = Page(data),
           Page(disk)' = Page(disk), Saving' = Saving
    PROVE  UNCHANGED L!vars
BY DEF L!vars, Saving

(* A step that shows a page and starts writing it.                         *)
LEMMA Shows ==
    ASSUME foundAt' = foundAt, spentAt' = spentAt, disk' = disk,
           InFlight' = InFlight \cup {data'},
           \A d \in InFlight \cup {disk} : d.watches \ late' = d.watches \ late,
           NEW page, Page(data)' = page
    PROVE  L!Show(page)
<1>1. PICK x : x = data'
  OBVIOUS
<1>2. Page(disk)' = Page(disk)
  <2>1. disk.watches \ late' = disk.watches \ late
    OBVIOUS
  <2> QED BY <2>1 DEF Page, Known, Relevant
<1>3. \A d \in InFlight : Page(d)' = Page(d)
  BY PageKept
<1>4. Page(data)' = Page(x)'
  BY <1>1 DEF Page, Known, Relevant
<1>5. Saving' = Saving \cup {page}
  BY <1>1, <1>3, <1>4 DEF Saving
<1> QED BY <1>2, <1>4, <1>5 DEF L!Show, Saving

(* A write that lands, or is lost: one wallet less is in flight, though    *)
(* another may have the same page.                                         *)
LEMMA Writes ==
    ASSUME foundAt' = foundAt, spentAt' = spentAt, late' = late, data' = data,
           NEW x \in InFlight, InFlight' \subseteq InFlight,
           InFlight \ {x} \subseteq InFlight'
    PROVE  /\ disk' = x => L!Land(Page(x))
           /\ disk' = disk => L!Lose(Page(x)) \/ UNCHANGED L!vars
           /\ Page(x) \in Saving
<1>1. Page(data)' = Page(data)
  BY DEF Page, Known, Relevant
<1>2. \A d \in InFlight : Page(d)' = Page(d)
  BY PageKept
<1>3. Saving' = Saving \/ Saving' = Saving \ {Page(x)}
  <2>1. Saving' = {Page(d) : d \in InFlight'}
    BY <1>2 DEF Saving
  <2> QED BY <2>1 DEF Saving
<1>4. Page(x) \in Saving
  BY DEF Saving
<1>5. ASSUME disk' = x PROVE L!Land(Page(x))
  <2>1. Page(disk)' = Page(x)
    BY <1>2, <1>5 DEF Page, Known, Relevant
  <2> QED BY <1>1, <1>3, <2>1 DEF L!Land, Saving
<1>6. ASSUME disk' = disk PROVE L!Lose(Page(x)) \/ UNCHANGED L!vars
  <2>1. Page(disk)' = Page(disk)
    BY <1>6 DEF Page, Known, Relevant
  <2> QED BY <1>1, <1>3, <2>1 DEF L!Lose, L!vars, Saving
<1> QED BY <1>4, <1>5, <1>6

-----------------------------------------------------------------------------
(* Steps of a scan.  Applying a block changes the wallet, not its page.    *)
LEMMA InFlightKept ==
    ASSUME NEW s \in Scans, adding' = adding,
           \A t \in Scans \ {s} : scan'[t] = scan[t],
           scan'[s].stage = "write" <=> scan[s].stage = "write",
           scan[s].stage = "write" => scan'[s].write = scan[s].write
    PROVE  InFlight' = InFlight
<1>1. \A t \in Scans : /\ scan'[t].stage = "write" <=> scan[t].stage = "write"
                       /\ scan[t].stage = "write" => scan'[t].write = scan[t].write
  OBVIOUS
<1> QED BY <1>1 DEF InFlight

LEMMA SamePages ==
    ASSUME PagesSound, PagesSound', foundAt' = foundAt, spentAt' = spentAt,
           late' = late, InFlight' = InFlight, disk' = disk,
           data'.watches = data.watches, data'.scannedTo = data.scannedTo
    PROVE  UNCHANGED L!vars
<1>1. \A d \in InFlight : Page(d)' = Page(d)
  BY PageKept
<1>2. Saving' = Saving
  BY <1>1 DEF Saving
<1>3. Page(disk)' = Page(disk)
  BY DEF Page, Known, Relevant
<1>4. PICK W, h : W = data.watches \ late /\ h = data.scannedTo
  OBVIOUS
<1>5. Page(data) = L!PageAt(W, h)
  BY <1>4 DEF PagesSound
<1>6. Page(data)' = L!PageAt(W, h)'
  BY <1>4 DEF PagesSound, L!PageAt
<1>7. Page(data)' = Page(data)
  BY <1>5, <1>6, PageAtKept
<1> QED BY <1>2, <1>3, <1>7, Stutter

LEMMA WorkImplements ==
    ASSUME IInv, PagesSound, PagesSound', NEW s \in Scans, Work(s)
    PROVE  L!Next \/ UNCHANGED L!vars
<1>0. /\ TypeOK /\ StageInv /\ scan[s] \in ScanState /\ scan \in [Scans -> ScanState]
      /\ data \in Wallet
  BY DEF IInv, TypeOK
<1>1. /\ \A t \in Scans \ {s} : scan'[t] = scan[t]
      /\ foundAt' = foundAt /\ spentAt' = spentAt
      /\ adding' = adding /\ late' = late
  BY <1>0, WorkFrame
<1> DEFINE Still == /\ scan'[s].stage = "write" <=> scan[s].stage = "write"
                    /\ scan[s].stage = "write" => scan'[s].write = scan[s].write
                    /\ disk' = disk
                    /\ data'.watches = data.watches /\ data'.scannedTo = data.scannedTo
<1>2. ASSUME Still PROVE UNCHANGED L!vars
  <2>1. InFlight' = InFlight
    BY <1>1, <1>2, InFlightKept
  <2> QED BY <1>1, <1>2, <2>1, SamePages
<1>3. CASE Prepared(s) \/ TakeRange(s) \/ BlocksFetched(s) \/ ApplyReturn(s)
  BY <1>0, <1>2, <1>3 DEF Prepared, TakeRange, BlocksFetched, ApplyReturn, ScanState
<1>4. CASE PrepareFailed(s) \/ Resolve(s)
  <2>1. scan'[s] = IdleScan /\ scan[s].stage # "write" /\ data' = data /\ disk' = disk
    BY <1>0, <1>4 DEF PrepareFailed, Resolve, StageInv
  <2> QED BY <1>2, <2>1 DEF IdleScan
<1>5. ASSUME NEW r \in scan[s].matching, MatchDone(s, r) \/ MatchFailed(s, r)
      PROVE  UNCHANGED L!vars
  BY <1>0, <1>2, <1>5 DEF MatchDone, MatchFailed, ScanState
<1>6. CASE ApplyTake(s)
  BY <1>0, <1>2, <1>6 DEF ApplyTake, ScanState
<1>7. CASE ApplyFailed(s)
  BY <1>0, <1>2, <1>7 DEF ApplyFailed, ApplierDies, ScanState
<1>8. CASE Reject(s)
  <2>1. scan'[s].stage = scan[s].stage /\ scan'[s].write = scan[s].write
    BY <1>0, <1>8 DEF Reject, ScanState
  <2> QED BY <1>2, <1>8, <2>1 DEF Reject
<1>9. CASE ApplyBlock(s)
  <2>1. PICK h \in scan[s].todo, new \in SUBSET Coins, gone \in SUBSET Coins :
          /\ \A g \in scan[s].todo : h <= g
          /\ new = BlockOutputs(s, h) \ Known(data)
          /\ gone = BlockSpends(s, h) \cap (data.utxos \cup new)
          /\ data' = [data EXCEPT !.utxos = (data.utxos \cup new) \ gone,
                                  !.spent = data.spent \cup gone]
          /\ scan' = [scan EXCEPT ![s] =
                        [scan[s] EXCEPT
                           !.outpoints = (scan[s].outpoints \cup new) \ gone,
                           !.todo = scan[s].todo \ {h}]]
    BY <1>0, <1>9, ApplyBlockEffect
  <2>2. data'.watches = data.watches /\ data'.scannedTo = data.scannedTo
    BY <1>0, <2>1 DEF Wallet
  <2>3. scan'[s].stage = "apply" /\ scan[s].stage = "apply" /\ disk' = disk
    BY <1>0, <1>9, <2>1 DEF ApplyBlock, ScanState
  <2> QED BY <1>2, <2>2, <2>3
<1>10. CASE Checkpoint(s)
  <2>1. /\ scan[s].stage = "apply" /\ disk' = disk
        /\ data' = [data EXCEPT !.scannedTo = RangeEnd(s, scan[s].nextApply)]
        /\ scan'[s].stage = "write" /\ scan'[s].write = data'
    BY <1>0, <1>10 DEF Checkpoint, ScanState
  <2>2. PICK h : h = RangeEnd(s, scan[s].nextApply)
    OBVIOUS
  <2>3. h \in -1..MaxTip
    BY <1>0, <2>2, RangeEndBound DEF ScanState
  <2>4. data'.watches = data.watches /\ data'.scannedTo = h
    BY <1>0, <2>1, <2>2 DEF Wallet
  <2>5. InFlight' = InFlight \cup {data'}
    BY <1>1, <2>1 DEF InFlight
  <2>6. PICK W : W = data.watches \ late
    OBVIOUS
  <2>7. Page(data)' = L!PageAt(W, h)
    BY <1>1, <2>4, <2>6, PageAtKept DEF PagesSound
  <2>8. L!Show(L!PageAt(W, h))
    BY <1>1, <2>1, <2>5, <2>7, Shows
  <2>9. Page(data).watches = W
    BY <2>6 DEF Page
  <2>10. L!MoveTo(h)
    BY <2>8, <2>9 DEF L!MoveTo
  <2> QED BY <2>3, <2>10 DEF L!Next
<1>11. ASSUME scan[s].stage = "write", scan'[s].stage # "write"
       PROVE  /\ scan[s].write \in InFlight /\ InFlight' \subseteq InFlight
              /\ InFlight \ {scan[s].write} \subseteq InFlight'
  BY <1>1, <1>11 DEF InFlight
<1>12. CASE Written(s) \/ WriteFailed(s)
  <2>1. /\ scan[s].stage = "write" /\ scan'[s].stage # "write" /\ data' = data
        /\ disk' = scan[s].write \/ disk' = disk
    BY <1>0, <1>12 DEF Written, WriteFailed, ApplierDies, ScanState
  <2>2. PICK x : x = scan[s].write
    OBVIOUS
  <2>3. L!Land(Page(x)) \/ L!Lose(Page(x)) \/ UNCHANGED L!vars
    BY <1>1, <1>11, <2>1, <2>2, Writes
  <2>4. Page(x) \in {Page(d) : d \in InFlight}
    BY <1>11, <2>1, <2>2
  <2> QED BY <2>3, <2>4 DEF L!Next
<1> QED BY <1>3, <1>4, <1>5, <1>6, <1>7, <1>8, <1>9, <1>10, <1>12 DEF Work

-----------------------------------------------------------------------------
(* Steps of the caller.                                                    *)
LEMMA StartImplements ==
    ASSUME IInv, NEW s \in Scans, Start(s)
    PROVE  UNCHANGED L!vars
<1>1. /\ \A t \in Scans \ {s} : scan'[t] = scan[t]
      /\ scan'[s].stage = "loop"
      /\ foundAt' = foundAt /\ spentAt' = spentAt /\ data' = data
      /\ adding' = adding /\ late' = late /\ disk' = disk
  BY DEF Start, IInv, TypeOK, chainVars, IdleScan
<1>2. scan[s].stage # "write"
  BY DEF Start, Live, IInv, TypeOK, ScanState, StageInv
<1>3. InFlight' = InFlight
  BY <1>1, <1>2, InFlightKept
<1>4. Page(data)' = Page(data) /\ Page(disk)' = Page(disk)
  BY <1>1 DEF Page, Known, Relevant
<1>5. \A d \in InFlight : Page(d)' = Page(d)
  BY <1>1, PageKept
<1>6. Saving' = Saving
  BY <1>3, <1>5 DEF Saving
<1> QED BY <1>1, <1>4, <1>6, Stutter

(* A watch the wallet has already keeps its standing; a new one is the     *)
(* ledger's, unless it comes under a live scan.                            *)
LEMMA AddWatchImplements ==
    ASSUME IInv, PagesSound, PagesSound', NEW w \in Watches, AddWatch(w)
    PROVE  L!Next
<1>0. /\ TypeOK /\ SnapshotInv /\ data \in Wallet /\ Birth[w] \in Nat
      /\ data.scannedTo \in -1..MaxTip /\ MaxTip \in Nat
  BY ConstantsAssumption DEF IInv, TypeOK, Wallet
<1>1. PICK h : h = IF data.scannedTo >= Birth[w] THEN Birth[w] - 1 ELSE data.scannedTo
  OBVIOUS
<1>2. h \in -1..MaxTip
  BY <1>0, <1>1
<1>3. data' = [data EXCEPT !.watches = data.watches \cup {w}, !.scannedTo = h]
  BY <1>1 DEF AddWatch
<1>4. /\ data'.watches = data.watches \cup {w} /\ data'.scannedTo = h
      /\ foundAt' = foundAt /\ spentAt' = spentAt /\ disk' = disk /\ scan' = scan
      /\ adding = {} /\ adding' = {data'}
      /\ late' = IF w \in data.watches THEN late
                 ELSE IF Busy THEN late \cup {w} ELSE late \ {w}
  BY <1>0, <1>3 DEF AddWatch, Wallet, chainVars
<1>5. InFlight' = InFlight \cup {data'}
  BY <1>4 DEF InFlight
<1>6. \A d \in InFlight \cup {disk} : d.watches \subseteq data.watches
  BY <1>0 DEF SnapshotInv, Snapshot, InFlight
<1>7. \A d \in InFlight \cup {disk} : d.watches \ late' = d.watches \ late
  BY <1>4, <1>6
<1>8. PICK W : W = data.watches \ late
  OBVIOUS
<1>9. PICK V : V = data'.watches \ late'
  OBVIOUS
<1>10. V = W \/ V = W \cup {w}
  BY <1>4, <1>8, <1>9
<1>11. Page(data)' = L!PageAt(V, h)
  BY <1>4, <1>9, PageAtKept DEF PagesSound
<1>12. L!Show(L!PageAt(V, h))
  BY <1>4, <1>5, <1>7, <1>11, Shows
<1>13. Page(data).watches = W /\ Page(data).cursor = data.scannedTo
  BY <1>8 DEF Page
<1>14. CASE V = W
  BY <1>2, <1>12, <1>13, <1>14 DEF L!Next, L!MoveTo
<1>15. CASE V = W \cup {w}
  <2>1. L!Watch(w)
    BY <1>1, <1>12, <1>13, <1>15 DEF L!Watch
  <2> QED BY <2>1 DEF L!Next
<1> QED BY <1>10, <1>14, <1>15

LEMMA WatchWrittenImplements ==
    ASSUME IInv, OneAdding, WatchWritten
    PROVE  L!Next \/ UNCHANGED L!vars
<1>1. PICK x \in adding : disk' = x
  BY DEF WatchWritten
<1>2. /\ adding' = {} /\ foundAt' = foundAt /\ spentAt' = spentAt /\ data' = data
      /\ scan' = scan /\ late' = late
  BY DEF WatchWritten, chainVars
<1>3. adding = {x}
  BY DEF OneAdding
<1>4. x \in InFlight /\ InFlight' \subseteq InFlight /\ InFlight \ {x} \subseteq InFlight'
  BY <1>2, <1>3 DEF InFlight
<1>5. L!Land(Page(x)) /\ Page(x) \in {Page(d) : d \in InFlight}
  BY <1>1, <1>2, <1>4, Writes
<1> QED BY <1>5 DEF L!Next

LEMMA WatchWriteFailedImplements ==
    ASSUME IInv, OneAdding, WatchWriteFailed
    PROVE  L!Next \/ UNCHANGED L!vars
<1>1. PICK x \in adding : TRUE
  BY DEF WatchWriteFailed
<1>2. /\ adding' = {} /\ foundAt' = foundAt /\ spentAt' = spentAt /\ data' = data
      /\ disk' = disk /\ scan' = scan /\ late' = late
  BY DEF WatchWriteFailed, chainVars
<1>3. adding = {x}
  BY DEF OneAdding
<1>4. x \in InFlight /\ InFlight' \subseteq InFlight /\ InFlight \ {x} \subseteq InFlight'
  BY <1>2, <1>3 DEF InFlight
<1>5. /\ L!Lose(Page(x)) \/ UNCHANGED L!vars
      /\ Page(x) \in {Page(d) : d \in InFlight}
  BY <1>2, <1>4, Writes
<1> QED BY <1>5 DEF L!Next

LEMMA ReopenImplements ==
    ASSUME Reopen
    PROVE  L!Next
<1>1. /\ foundAt' = foundAt /\ spentAt' = spentAt /\ data' = disk /\ disk' = disk
      /\ late' = late /\ adding' = {} /\ \A s \in Scans : scan'[s] = IdleScan
  BY DEF Reopen, chainVars
<1>2. InFlight' = {}
  BY <1>1 DEF InFlight, IdleScan
<1>3. Saving' = {}
  BY <1>2 DEF Saving
<1>4. Page(data)' = Page(disk) /\ Page(disk)' = Page(disk)
  BY <1>1 DEF Page, Known, Relevant
<1>5. L!Crash
  BY <1>1, <1>3, <1>4 DEF L!Crash, Saving
<1> QED BY <1>5 DEF L!Next

LEMMA GrowImplements ==
    ASSUME Grow \/ UNCHANGED vars
    PROVE  UNCHANGED L!vars
<1>1. /\ foundAt' = foundAt /\ spentAt' = spentAt /\ data' = data /\ disk' = disk
      /\ scan' = scan /\ late' = late /\ adding' = adding
  BY DEF Grow, chainVars, vars
<1>2. InFlight' = InFlight
  BY <1>1 DEF InFlight
<1>3. \A d \in InFlight : Page(d)' = Page(d)
  BY <1>1, PageKept
<1>4. Page(data)' = Page(data) /\ Page(disk)' = Page(disk)
  BY <1>1 DEF Page, Known, Relevant
<1>5. Saving' = Saving
  BY <1>2, <1>3 DEF Saving
<1> QED BY <1>1, <1>4, <1>5, Stutter

-----------------------------------------------------------------------------
LEMMA NextOneAdding ==
    ASSUME TypeOK, OneAdding, [Next]_vars
    PROVE  OneAdding'
<1>1. ASSUME NEW s \in Scans, Work(s) \/ Start(s) PROVE adding' = adding
  BY <1>1, WorkFrame DEF Start
<1>2. ASSUME NEW w \in Watches, AddWatch(w) PROVE adding' = {data'}
  BY <1>2 DEF AddWatch
<1>3. CASE WatchWritten \/ WatchWriteFailed \/ Grow \/ Reopen \/ UNCHANGED vars
  BY <1>3 DEF OneAdding, WatchWritten, WatchWriteFailed, Grow, Reopen, vars
<1> QED BY <1>1, <1>2, <1>3 DEF OneAdding, Next, Caller

LEMMA InitImplements == Init => L!Init
<1> SUFFICES ASSUME Init PROVE L!Init
  OBVIOUS
<1>1. PagesSound
  BY InitIInv, PagesAreSound
<1>2. data = FreshWallet /\ disk = FreshWallet /\ late = {} /\ InFlight = {}
  BY DEF Init, InitWallet, InFlight, IdleScan
<1>3. Page(data) = L!PageAt({}, -1)
  BY <1>1, <1>2 DEF PagesSound, FreshWallet
<1> QED BY <1>2, <1>3 DEF L!Init

LEMMA NextImplements ==
    ASSUME IInv, OneAdding, PagesSound, PagesSound', [Next]_vars
    PROVE  [L!Next]_(L!vars)
<1>1. ASSUME NEW s \in Scans, Work(s) PROVE L!Next \/ UNCHANGED L!vars
  BY <1>1, WorkImplements
<1>2. ASSUME NEW s \in Scans, Start(s) PROVE UNCHANGED L!vars
  BY <1>2, StartImplements
<1>3. ASSUME NEW w \in Watches, AddWatch(w) PROVE L!Next
  BY <1>3, AddWatchImplements
<1>4. CASE WatchWritten
  BY <1>4, WatchWrittenImplements
<1>7. CASE WatchWriteFailed
  BY <1>7, WatchWriteFailedImplements
<1>5. CASE Reopen
  BY <1>5, ReopenImplements
<1>6. CASE Grow \/ UNCHANGED vars
  BY <1>6, GrowImplements
<1>8. L!Next \/ UNCHANGED L!vars
  BY <1>1, <1>2, <1>3, <1>4, <1>5, <1>6, <1>7 DEF Next, Caller
<1> QED BY <1>8

(* Every behaviour of the sliding-window scan, with its lanes, its failed  *)
(* and left-behind calls, its crashes and added watches, is a behaviour of *)
(* the ledger: the wallet at its cursor is what one sequential reading of  *)
(* the chain gives, and a restart shows a page that was shown before.      *)
THEOREM ScanImplementsLedger == Spec => ImplementsLedger
<1>1. Init => OneAdding
  BY DEF Init, InitWallet, OneAdding
<1>2. IInv /\ OneAdding /\ [Next]_vars => OneAdding'
  BY NextOneAdding DEF IInv
<1>3. IInv /\ OneAdding /\ PagesSound /\ PagesSound' /\ [Next]_vars
        => [L!Next]_(L!vars)
  BY NextImplements
<1> QED BY <1>1, <1>2, <1>3, Invariance, PagesAreSound, InitImplements, PTL
        DEF Spec, ImplementsLedger, L!Spec
=============================================================================
