-------------------------- MODULE WalletScanLedger --------------------------
(***************************************************************************)
(* The sliding-window scan implements the ledger: whatever the order in    *)
(* which ranges are matched, the wallet at its checkpoint is the page one  *)
(* sequential reading of the chain would have written.                     *)
(***************************************************************************)
EXTENDS WalletScan

(* The part of a wallet its cursor vouches for: blocks of a range that is  *)
(* still being applied lie beyond it.                                      *)
Page(d) ==
    [watches |-> d.watches \ late,
     cursor |-> d.scannedTo,
     unspent |-> {c \in Known(d) : /\ Relevant(d, c)
                                   /\ foundAt[c] <= d.scannedTo
                                   /\ ~(c \in d.spent /\ spentAt[c] <= d.scannedTo)}]

(* Wallets on their way to the disk: addWatch()'s, and the checkpoints'.   *)
InFlight ==
    adding \cup {scan[s].write : s \in {t \in Scans : scan[t].stage = "write"}}

L == INSTANCE Ledger WITH
        shown <- Page(data),
        saved <- Page(disk),
        saving <- {Page(d) : d \in InFlight}

(* Every step of the wallet is a step of the ledger or leaves it alone: a  *)
(* page never lists a spent coin nor misses an unspent one, pages are only *)
(* written whole, and a restart shows the page written last.               *)
ImplementsLedger == L!Spec
=============================================================================
