----------------------------- MODULE BlockQueue -----------------------------
(***************************************************************************)
(* block_queue.h, the queue between the threads of notify_adapter_v2.      *)
(* Modules ThreadPool and ObjectPool compose it with its users.            *)
(*                                                                         *)
(* The list has a mutex of its own, so each access to it is one step, but  *)
(* the condition variable goes with another mutex that add_queue does not  *)
(* take: a signal can fall between a consumer's look at the list and its   *)
(* wait, and is lost then.  A wait ends by a signal, after m_seconds, or   *)
(* for no reason.  pthread_cond_timedwait cannot fail otherwise here, its  *)
(* time being valid and its mutex held: dequeue never returns -1.          *)
(***************************************************************************)
EXTENDS Sequences

CONSTANTS Producers, Consumers,
          NoData       \* dequeue returned 0

VARIABLES list,        \* m_list
          signal,      \* producers that have queued but not signalled yet
          wait,        \* where a consumer is in dequeue_expand
          data         \* what the last dequeue_expand of a consumer returned

Init == /\ list = <<>> /\ signal = {}
        /\ wait = [c \in Consumers |-> "out"]
        /\ data = [c \in Consumers |-> NoData]

AddQueue(p, d) ==
    /\ p \notin signal
    /\ list' = Append(list, d)
    /\ signal' = signal \cup {p}
    /\ UNCHANGED <<wait, data>>

\* pthread_cond_signal: one of those who wait, if there are any
Signal(p) ==
    /\ p \in signal
    /\ signal' = signal \ {p}
    /\ LET asleep == {c \in Consumers : wait[c] = "asleep"}
       IN  IF asleep = {} THEN UNCHANGED wait
           ELSE \E c \in asleep : wait' = [wait EXCEPT ![c] = "awake"]
    /\ UNCHANGED <<list, data>>

Pop(c) ==
    /\ list # <<>>
    /\ data' = [data EXCEPT ![c] = Head(list)]
    /\ list' = Tail(list)
    /\ wait' = [wait EXCEPT ![c] = "out"]
    /\ UNCHANGED signal

\* dequeue_nodelay, the first half of dequeue_expand
DequeueNodelay(c) ==
    /\ wait[c] = "out"
    /\ \/ Pop(c)
       \/ /\ list = <<>>
          /\ wait' = [wait EXCEPT ![c] = "empty"]
          /\ UNCHANGED <<list, signal, data>>

\* dequeue up to the wait
TimedWait(c) ==
    /\ wait[c] = "empty"
    /\ wait' = [wait EXCEPT ![c] = "asleep"]
    /\ UNCHANGED <<list, signal, data>>


\* ETIMEDOUT, or a spurious wakeup
Wake(c) ==
    /\ wait[c] = "asleep"
    /\ wait' = [wait EXCEPT ![c] = "awake"]
    /\ UNCHANGED <<list, signal, data>>

\* mutant: the datum is read but not removed
DequeueKeeps(c) ==
    /\ wait[c] = "awake" /\ list # <<>>
    /\ data' = [data EXCEPT ![c] = Head(list)]
    /\ wait' = [wait EXCEPT ![c] = "out"]
    /\ UNCHANGED <<list, signal>>

\* dequeue after the wait
Dequeue(c) ==
    /\ wait[c] = "awake"
    /\ \/ Pop(c)
       \/ /\ list = <<>>
          /\ data' = [data EXCEPT ![c] = NoData]
          /\ wait' = [wait EXCEPT ![c] = "out"]
          /\ UNCHANGED <<list, signal>>

=============================================================================
