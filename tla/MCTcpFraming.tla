---------------------------- MODULE MCTcpFraming ----------------------------
(***************************************************************************)
(* TcpFraming for TLC, scaled down: a head of 2 bytes, a chunk of 3 and a  *)
(* limit of 6 keep the order head < chunk < limit of the code's 4, 4096    *)
(* and 5000, with bodies below, at and above the chunk and the limit.      *)
(***************************************************************************)
EXTENDS TcpFraming

=============================================================================
