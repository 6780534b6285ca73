------------------------------ MODULE FifoQueue ------------------------------
(***************************************************************************)
(* What a queue of this repository promises its users: data come out in    *)
(* the order they were accepted, each exactly once.  Nothing is said of    *)
(* how the data are stored, nor of when a consumer gets one.               *)
(***************************************************************************)
EXTENDS Naturals, Sequences

CONSTANT Data          \* what can be queued

VARIABLES sent,        \* every datum accepted so far, in order
          got          \* every datum handed to a consumer so far, in order

vars == <<sent, got>>

Init == sent = <<>> /\ got = <<>>

Put(d) == sent' = Append(sent, d) /\ UNCHANGED got

Get == /\ Len(got) < Len(sent)
       /\ got' = Append(got, sent[Len(got) + 1])
       /\ UNCHANGED sent

Next == Get \/ \E d \in Data : Put(d)

Spec == Init /\ [][Next]_vars

=============================================================================
