----------------------------- MODULE MCSwapQueue -----------------------------
(***************************************************************************)
(* SwapQueue for TLC: two producers and the consumer, with enough puts for *)
(* both rings to fill, swap and fill again.  The .cfg files give the       *)
(* constants; the producers are not declared symmetric, because the runs   *)
(* check temporal formulas.                                                *)
(***************************************************************************)
EXTENDS SwapQueue

=============================================================================
