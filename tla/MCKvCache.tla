------------------------------ MODULE MCKvCache ------------------------------
(***************************************************************************)
(* KvCache for TLC.                                                        *)
(***************************************************************************)
EXTENDS KvCache, TLC

\* the order of the keys is not the order of their hashes
TwoKeys == (1 :> 7 @@ 2 :> 3)

=============================================================================
