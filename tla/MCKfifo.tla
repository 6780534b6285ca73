------------------------------- MODULE MCKfifo -------------------------------
(***************************************************************************)
(* Kfifo for TLC.                                                          *)
(***************************************************************************)
EXTENDS Kfifo

=============================================================================
