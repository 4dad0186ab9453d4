------------------------------- MODULE MCSpScan -------------------------------
(* SpScan over three files of two blocks: a window that starts and ends in *)
(* the middle of a file, one of a single block, an empty one, and starts   *)
(* one and two blocks beyond the tip.                                      *)
EXTENDS SpScan

MCOutputs == {1, 2}
MCFalseMatches == {3}
MCWindows == {<<1, 4>>, <<3, 3>>, <<3, 2>>, <<5, 4>>, <<6, 4>>}
===============================================================================
