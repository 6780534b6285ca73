------------------------------ MODULE ByteFifo ------------------------------
(***************************************************************************)
(* What kfifo of mycache promises: a bounded queue of bytes.  put takes as *)
(* many bytes as there is room for, get gives as many as there are, in the *)
(* order they were put.                                                    *)
(***************************************************************************)
EXTENDS Integers, Sequences

CONSTANTS Bytes, MaxLen

VARIABLES size,        \* room for so many bytes
          held,        \* the bytes in the queue
          call         \* the last call: its bytes (put or got) and what it returned

fifo == <<size, held, call>>

Called(op, bs, n) == call' = [op |-> op, bytes |-> bs, ret |-> n]

Least(a, b) == IF a < b THEN a ELSE b

Start == size \in Nat /\ held = <<>> /\ call = [op |-> "none", bytes |-> <<>>, ret |-> 0]

Put(bs) ==
    LET n == Least(Len(bs), size - Len(held))
    IN  /\ Called("put", bs, n) /\ UNCHANGED size
        /\ held' = held \o SubSeq(bs, 1, n)

Get(len) ==
    LET n == Least(len, Len(held))
    IN  /\ Called("get", SubSeq(held, 1, n), n) /\ UNCHANGED size
        /\ held' = SubSeq(held, n + 1, Len(held))

Reset == held' = <<>> /\ Called("reset", <<>>, 0) /\ UNCHANGED size

Length == Called("len", <<>>, Len(held)) /\ UNCHANGED <<size, held>>

Step == \/ Reset \/ Length
        \/ \E len \in 0..MaxLen : Get(len) \/ \E bs \in [1..len -> Bytes] : Put(bs)

ByteSpec == Start /\ [][Step]_fifo

=============================================================================
