---------------------------- MODULE MCDispatcher ----------------------------
(***************************************************************************)
(* Dispatcher for TLC: two clients, one of which may use the key of the    *)
(* other or log in under its token.                                        *)
(***************************************************************************)
EXTENDS Dispatcher, TLC

=============================================================================
