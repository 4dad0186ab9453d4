---------------------------- MODULE MCWalletScan ----------------------------
(* Small instances of WalletScan: one watch with a coin and, next to it,   *)
(* an older watch without one that moves the cursor.                       *)
EXTENDS WalletScanLedger, TLC

CONSTANTS w1, w2, c1

MCWatches == {w1, w2}
MCOneWatch == {w1}
MCOneCoin == {c1}
MCOneOwner == c1 :> w1
MCOneBirth == w1 :> 0
MCSwapBirth == w1 :> 1 @@ w2 :> 0
=============================================================================
