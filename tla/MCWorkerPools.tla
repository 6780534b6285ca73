---------------------------- MODULE MCWorkerPools ----------------------------
(***************************************************************************)
(* WorkerPools for TLC: more workers than clients, so that fetches wait    *)
(* and fail, and a worker is left when a call does not return.  Nothing is *)
(* declared symmetric, because liveness is checked.                        *)
(***************************************************************************)
EXTENDS WorkerPools

=============================================================================
