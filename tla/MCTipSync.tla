------------------------------ MODULE MCTipSync ------------------------------
(* Small instances of TipSync: a trunk and one branch that leaves it after *)
(* the genesis block, so that with Depth = 1 there are reorgs one rollback *)
(* undoes and deeper ones.                                                 *)
EXTENDS TipSync, TLC

CONSTANTS main, side

MCBranches == {main, side}
MCFork == main :> 0 @@ side :> 0

(* The trunk never becomes the longest branch again.                       *)
MCForkOnce == main :> MaxTip @@ side :> 0
=============================================================================
