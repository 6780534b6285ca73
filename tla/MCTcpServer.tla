----------------------------- MODULE MCTcpServer -----------------------------
(***************************************************************************)
(* TcpServer for TLC.  Two descriptors and up to three connections, so     *)
(* that a descriptor is reused while commands for its last connection are  *)
(* still queued, and two connections can claim one identity.               *)
(***************************************************************************)
EXTENDS TcpServer, TLC

CONSTANTS i1, i2       \* the two identities

\* every connection has one identity; the first two share it
OneLogin == [c \in Conns |-> IF c = 3 THEN {i2} ELSE {i1}]

\* the first connection may get two identities, which the others share with it
MixedLogin == [c \in Conns |-> CASE c = 1 -> {i1, i2} [] c = 2 -> {i1} [] OTHER -> {i2}]

\* a second auth on a connection may bring a second identity
AnyLogin == [c \in Conns |-> {i1, i2}]

\* nothing tells the descriptors apart
FdSymmetry == Permutations(Fds)

=============================================================================
