---------------------------- MODULE MCIdleTimeout ----------------------------
(***************************************************************************)
(* IdleTimeout for TLC: two connections and a clock long enough for a      *)
(* connection to time out twice.                                           *)
(***************************************************************************)
EXTENDS IdleTimeout, TLC

ClientSymmetry == Permutations(Clients)

=============================================================================
