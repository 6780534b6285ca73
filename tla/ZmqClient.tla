------------------------------ MODULE ZmqClient ------------------------------
(***************************************************************************)
(* client/zmq_client.cpp of notify_adapter_v2: the way to the router.       *)
(* send_data queues a message.  The sending thread moves it to a second     *)
(* queue and sends a message over an ipc socket, which only wakes the       *)
(* reactor thread; the reactor takes the message from the second queue and  *)
(* hands it to the router's socket, where the model ends.  The send on the  *)
(* ipc socket may fail, and nobody looks at its result; the send to the     *)
(* router may fail, which is logged, and the message is gone; a receive     *)
(* that fails leaves the message on the socket for the next round.          *)
(*                                                                          *)
(* Module Dispatcher composes this module with the threads that send.       *)
(***************************************************************************)
EXTENDS Integers, Sequences

CONSTANTS Msgs,        \* what is sent
          MaxFaults    \* bound: failed sends on either socket

VARIABLES queue_send,  \* m_queue_send
          queue_ipc,   \* m_queue_ipc
          ipc,         \* messages on the ipc socket
          spc,         \* the sending thread's place in send_msg_doit
          router,      \* history: what was handed to the router's socket
          lost,        \* history: what the router's socket did not take
          faults       \* history: failed sends on the ipc socket

zvars == <<queue_send, queue_ipc, ipc, spc, router, lost, faults>>

ZInit == /\ queue_send = <<>> /\ queue_ipc = <<>>
         /\ ipc = 0 /\ spc = "fetch" /\ router = <<>> /\ lost = <<>> /\ faults = 0

\* send_data, called by any thread
SendData(m) ==
    /\ queue_send' = Append(queue_send, m)
    /\ UNCHANGED <<queue_ipc, ipc, spc, router, lost, faults>>

\* send_msg_doit: the message changes queues ...
Forward ==
    /\ spc = "fetch" /\ queue_send # <<>>
    /\ queue_ipc' = Append(queue_ipc, Head(queue_send))
    /\ queue_send' = Tail(queue_send)
    /\ spc' = "send"
    /\ UNCHANGED <<ipc, router, lost, faults>>

MayFail == faults + Len(lost) < MaxFaults

\* mutant: the reactor is woken twice for a message
WakeTwice ==
    /\ spc = "send" /\ spc' = "fetch"
    /\ \/ ipc' = ipc + 2 /\ UNCHANGED faults
       \/ MayFail /\ faults' = faults + 1 /\ UNCHANGED ipc
    /\ UNCHANGED <<queue_send, queue_ipc, router, lost>>

\* ... and the reactor is woken, unless the send on the ipc socket fails
Wake ==
    /\ spc = "send" /\ spc' = "fetch"
    /\ \/ ipc' = ipc + 1 /\ UNCHANGED faults
       \/ MayFail /\ faults' = faults + 1 /\ UNCHANGED ipc
    /\ UNCHANGED <<queue_send, queue_ipc, router, lost>>

(***************************************************************************)
(* reactor_doit, the ipc branch: the message is off the queue before the   *)
(* router's socket is asked to take it.  A wake-up without a message (line *)
(* 181) does not occur: see WakeFindsMessage.                              *)
(***************************************************************************)
Relay ==
    /\ ipc > 0 /\ ipc' = ipc - 1
    /\ queue_ipc # <<>> /\ queue_ipc' = Tail(queue_ipc)
    /\ \/ router' = Append(router, Head(queue_ipc)) /\ UNCHANGED lost
       \/ MayFail /\ lost' = Append(lost, Head(queue_ipc)) /\ UNCHANGED router
    /\ UNCHANGED <<queue_send, spc, faults>>

ZNext == Forward \/ Wake \/ Relay

\* both threads loop for ever, and a received wake-up is handled
ZFairness == WF_zvars(Forward \/ Wake) /\ WF_zvars(Relay)

ZTypeOK ==
    /\ queue_send \in Seq(Msgs) /\ queue_ipc \in Seq(Msgs)
    /\ ipc \in Nat /\ spc \in {"fetch", "send"}
    /\ router \in Seq(Msgs) /\ lost \in Seq(Msgs)
    /\ faults \in 0..MaxFaults

=============================================================================
