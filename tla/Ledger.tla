------------------------------- MODULE Ledger -------------------------------
(***************************************************************************)
(* What the watch-only wallet promises, free of lanes, blocks and awaits:  *)
(* a page lists exactly the coins of the watches that are unspent at the   *)
(* cursor.  A page is shown in memory and saved at some later time; after  *)
(* a crash the wallet shows the page saved last.                           *)
(***************************************************************************)
EXTENDS Integers

CONSTANTS Watches, Coins, Owner, Birth, MaxTip

VARIABLES
    foundAt, spentAt,   \* the chain: where each coin is made and spent
    shown,              \* the page in memory
    saving,             \* pages on their way to the disk
    saved               \* the page on disk

vars == <<foundAt, spentAt, shown, saving, saved>>

(* The page an all-at-once reading of the chain up to h would give.        *)
PageAt(W, h) ==
    [watches |-> W, cursor |-> h,
     unspent |-> {c \in Coins : /\ Owner[c] \in W
                                /\ foundAt[c] >= Birth[Owner[c]]
                                /\ foundAt[c] <= h
                                /\ spentAt[c] > h}]

Init == /\ shown = PageAt({}, -1)
        /\ saved = shown
        /\ saving = {}

Show(page) == /\ shown' = page
              /\ saving' = saving \cup {page}
              /\ UNCHANGED <<foundAt, spentAt, saved>>

(* The cursor moves, forward by a scan or back for a rescan.               *)
MoveTo(h) == Show(PageAt(shown.watches, h))

(* A watch is added; its history is still to be read.                      *)
Watch(w) ==
    Show(PageAt(shown.watches \cup {w},
                IF shown.cursor >= Birth[w] THEN Birth[w] - 1 ELSE shown.cursor))

(* A write lands, or is lost.                                              *)
Land(page) == /\ saved' = page
              /\ saving' \in {saving, saving \ {page}}
              /\ UNCHANGED <<foundAt, spentAt, shown>>

Lose(page) == /\ saving' = saving \ {page}
              /\ UNCHANGED <<foundAt, spentAt, shown, saved>>

Crash == /\ shown' = saved
         /\ saving' = {}
         /\ UNCHANGED <<foundAt, spentAt, saved>>

Next ==
    \/ \E h \in -1..MaxTip : MoveTo(h)
    \/ \E w \in Watches : Watch(w)
    \/ \E page \in saving : Land(page) \/ Lose(page)
    \/ Crash

Spec == Init /\ [][Next]_vars
=============================================================================
