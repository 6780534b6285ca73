------------------------------ MODULE SwapQueue ------------------------------
(***************************************************************************)
(* The swapping queue of swap_queue/swap_queue.c (struct/doublequeue.c of  *)
(* mycache is the same code): two rings and a semaphore.  Producers append *)
(* to the `in' ring under the mutex; the consumer takes from the `out'     *)
(* ring without it, and when that is empty waits for the semaphore and     *)
(* swaps the two rings under the mutex.                                    *)
(*                                                                         *)
(* A ring is the sequence of its data, oldest first: the code links a new  *)
(* node behind the dummy and takes the node in front of it.  The two       *)
(* dummies keep their identity through a swap, which is two assignments.   *)
(***************************************************************************)
EXTENDS Integers, Sequences

CONSTANTS Producers,   \* threads that call swap_queue_put
          Consumer,    \* the one thread that calls swap_queue_get
          Free,        \* the value of the mutex when nobody holds it
          Data,        \* the data pointers (never NULL: put refuses those)
          MaxPuts      \* bound: accepted puts in one behaviour

ASSUME ThreadsDistinct == Consumer \notin Producers /\ Free \notin Producers \cup {Consumer}
ASSUME MaxPutsNat == MaxPuts \in Nat

VARIABLES ring,        \* [Dummies -> Seq(Data)]: what is linked to each dummy
          in,          \* head->in
          out,         \* head->out
          no_empty,    \* value of the semaphore
          lock,        \* holder of the mutex
          pcP,         \* each producer's place in swap_queue_put
          pcC,         \* the consumer's place in swap_queue_get
          sent, got,   \* history: data linked into the queue, data returned by get
          freed        \* data swap_queue_free gave to the handler

vars == <<ring, in, out, no_empty, lock, pcP, pcC, sent, got, freed>>

Dummies == {"A", "B"}

Other(r) == IF r = "A" THEN "B" ELSE "A"

(***************************************************************************)
(* swap_queue_init with every allocation successful; sem_init(.., 0).      *)
(***************************************************************************)
Init == /\ ring = [r \in Dummies |-> <<>>]
        /\ in = "A" /\ out = "B"
        /\ no_empty = 0
        /\ lock = Free
        /\ pcP = [p \in Producers |-> "idle"]
        /\ pcC = "idle"
        /\ sent = <<>> /\ got = <<>> /\ freed = <<>>

-----------------------------------------------------------------------------
(***************************************************************************)
(* swap_queue_put: allocate the node, lock, link it, post the semaphore    *)
(* when it is the only one in the ring, unlock.                            *)
(***************************************************************************)
PutLock(p) ==
    /\ pcP[p] = "idle" /\ pcC # "freed"
    /\ Len(sent) < MaxPuts
    /\ lock = Free
    /\ lock' = p
    /\ pcP' = [pcP EXCEPT ![p] = "locked"]
    /\ UNCHANGED <<ring, in, out, no_empty, pcC, sent, got, freed>>

\* d is the datum of the node allocated before the lock was taken
PutLink(p, d) ==
    /\ pcP[p] = "locked"
    /\ ring' = [ring EXCEPT ![in] = Append(@, d)]
    /\ sent' = Append(sent, d)
    /\ pcP' = [pcP EXCEPT ![p] = "linked"]
    /\ UNCHANGED <<in, out, no_empty, lock, pcC, got, freed>>

\* mutant: post on every put, without the test of line 147
PutPostAlways(p) ==
    /\ pcP[p] = "linked"
    /\ no_empty' = no_empty + 1
    /\ pcP' = [pcP EXCEPT ![p] = "posted"]
    /\ UNCHANGED <<ring, in, out, lock, pcC, sent, got, freed>>

\* mutant: post when the node has a successor instead of when it is alone
PutPostNotFirst(p) ==
    /\ pcP[p] = "linked"
    /\ no_empty' = IF Len(ring[in]) = 1 THEN no_empty ELSE no_empty + 1
    /\ pcP' = [pcP EXCEPT ![p] = "posted"]
    /\ UNCHANGED <<ring, in, out, lock, pcC, sent, got, freed>>

PutPost(p) ==
    /\ pcP[p] = "linked"
    /\ no_empty' = IF Len(ring[in]) = 1 THEN no_empty + 1 ELSE no_empty
    /\ pcP' = [pcP EXCEPT ![p] = "posted"]
    /\ UNCHANGED <<ring, in, out, lock, pcC, sent, got, freed>>

PutUnlock(p) ==
    /\ pcP[p] = "posted"
    /\ lock' = Free
    /\ pcP' = [pcP EXCEPT ![p] = "idle"]
    /\ UNCHANGED <<ring, in, out, no_empty, pcC, sent, got, freed>>

-----------------------------------------------------------------------------
(***************************************************************************)
(* swap_queue_get.                                                         *)
(***************************************************************************)
ConsumerStep(from, to) ==
    /\ pcC = from
    /\ pcC' = to
    /\ UNCHANGED <<pcP, sent, freed>>

\* is the out ring empty?
GetEnter ==
    /\ ConsumerStep("idle", IF ring[out] = <<>> THEN "wait" ELSE "take")
    /\ UNCHANGED <<ring, in, out, no_empty, lock, got>>

\* sem_timedwait fails (COND_TIMEOUT passed, or a signal): get returns NULL
GetTimeout ==
    /\ no_empty = 0
    /\ ConsumerStep("wait", "idle")
    /\ UNCHANGED <<ring, in, out, no_empty, lock, got>>

GetWake ==
    /\ no_empty > 0
    /\ no_empty' = no_empty - 1
    /\ ConsumerStep("wait", "woken")
    /\ UNCHANGED <<ring, in, out, lock, got>>

\* mutant: the rings are swapped without the mutex
GetNoLock ==
    /\ ConsumerStep("woken", "locked")
    /\ UNCHANGED <<ring, in, out, no_empty, lock, got>>

GetLock ==
    /\ lock = Free
    /\ lock' = Consumer
    /\ ConsumerStep("woken", "locked")
    /\ UNCHANGED <<ring, in, out, no_empty, got>>

\* head->out = head->in
GetSwapOut ==
    /\ out' = in
    /\ ConsumerStep("locked", "half")
    /\ UNCHANGED <<ring, in, no_empty, lock, got>>

\* head->in = out_head, the dummy that was out on entry
GetSwapIn ==
    /\ in' = Other(out)
    /\ ConsumerStep("half", "swapped")
    /\ UNCHANGED <<ring, out, no_empty, lock, got>>

GetUnlock ==
    /\ lock' = Free
    /\ ConsumerStep("swapped", "take")
    /\ UNCHANGED <<ring, in, out, no_empty, got>>

\* mutant: take the node behind the dummy, the newest
GetTakeNewest ==
    /\ ConsumerStep("take", "idle")
    /\ \/ /\ ring[out] = <<>>
          /\ UNCHANGED <<ring, got>>
       \/ /\ ring[out] # <<>>
          /\ got' = Append(got, ring[out][Len(ring[out])])
          /\ ring' = [ring EXCEPT ![out] = SubSeq(@, 1, Len(@) - 1)]
    /\ UNCHANGED <<in, out, no_empty, lock>>

\* unlink the node in front of the dummy, or return NULL when there is none
GetTake ==
    /\ ConsumerStep("take", "idle")
    /\ \/ /\ ring[out] = <<>>
          /\ UNCHANGED <<ring, got>>
       \/ /\ ring[out] # <<>>
          /\ got' = Append(got, Head(ring[out]))
          /\ ring' = [ring EXCEPT ![out] = Tail(@)]
    /\ UNCHANGED <<in, out, no_empty, lock>>

\* the data of a ring, newest first
Reverse(s) == [i \in 1..Len(s) |-> s[Len(s) - i + 1]]

\* mutant: only the in ring is walked
QueueFreeInOnly ==
    /\ \A p \in Producers : pcP[p] = "idle"
    /\ pcC = "idle"
    /\ pcC' = "freed"
    /\ freed' = Reverse(ring[in])
    /\ ring' = [r \in Dummies |-> <<>>]
    /\ UNCHANGED <<in, out, no_empty, lock, pcP, sent, got>>

(***************************************************************************)
(* swap_queue_free, called once both threads are joined: the handler gets  *)
(* the data of the in ring, newest first, then those of the out ring.      *)
(***************************************************************************)
QueueFree ==
    /\ \A p \in Producers : pcP[p] = "idle"
    /\ pcC = "idle"
    /\ pcC' = "freed"
    /\ freed' = Reverse(ring[in]) \o Reverse(ring[out])
    /\ ring' = [r \in Dummies |-> <<>>]
    /\ UNCHANGED <<in, out, no_empty, lock, pcP, sent, got>>

Put(p) == PutLock(p) \/ (\E d \in Data : PutLink(p, d)) \/ PutPost(p) \/ PutUnlock(p)

Get == \/ GetEnter \/ GetTimeout \/ GetWake \/ GetLock
       \/ GetSwapOut \/ GetSwapIn \/ GetUnlock \/ GetTake

Next == (\E p \in Producers : Put(p)) \/ Get \/ QueueFree

Spec == Init /\ [][Next]_vars

(***************************************************************************)
(* The threads run until they return: a producer inside swap_queue_put     *)
(* finishes it, and the consumer calls swap_queue_get again whenever it    *)
(* returned, as the loop of test.c does.  Nobody has to start a put.       *)
(***************************************************************************)
FairSpec == /\ Spec
            /\ WF_vars(Get)
            /\ \A p \in Producers : WF_vars(pcP[p] # "idle" /\ Put(p))

-----------------------------------------------------------------------------
(***************************************************************************)
(* Types: each variable holds a value of the C object it stands for.       *)
(***************************************************************************)
TypeOK ==
    /\ ring \in [Dummies -> Seq(Data)]
    /\ in \in Dummies /\ out \in Dummies
    /\ no_empty \in Nat
    /\ lock \in Producers \cup {Consumer, Free}
    /\ pcP \in [Producers -> {"idle", "locked", "linked", "posted"}]
    /\ pcC \in {"idle", "wait", "woken", "locked", "half", "swapped", "take", "freed"}
    /\ sent \in Seq(Data) /\ got \in Seq(Data) /\ freed \in Seq(Data)

\* what is queued, oldest first
Contents == ring[out] \o (IF in = out THEN <<>> ELSE ring[in])

\* the mutex has the holder that the places of the threads say it has
LockInv ==
    /\ \A p \in Producers : pcP[p] # "idle" <=> lock = p
    /\ pcC \in {"locked", "half", "swapped"} <=> lock = Consumer
    /\ pcC = "freed" => lock = Free

\* which rings are where, and which are empty, at each place of the consumer
RingInv ==
    /\ in = out <=> pcC = "half"
    /\ pcC \in {"wait", "woken", "locked"} => ring[out] = <<>>
    /\ pcC = "half" => ring[Other(out)] = <<>>

\* the first node was linked into an empty ring and its post is still to come
PostPending == (\E p \in Producers : pcP[p] = "linked") /\ Len(ring[in]) = 1

\* the consumer took the semaphore and has not yet swapped the rings away
TokenTaken == pcC \in {"woken", "locked", "half"}

(***************************************************************************)
(* The semaphore is a token for "the in ring is not empty": exactly one of *)
(* the semaphore, a pending post and a woken consumer holds it, and only   *)
(* then.  A timeout, a put between the wake-up and the swap, or a put that *)
(* finds the ring emptied by a swap could each lose or duplicate it.       *)
(***************************************************************************)
TokenInv ==
    pcC # "freed" =>
    /\ ring[in] = <<>> => no_empty = 0 /\ ~TokenTaken
    /\ ring[in] # <<>> => \/ no_empty = 1 /\ ~PostPending /\ ~TokenTaken
                          \/ no_empty = 0 /\ (PostPending <=> ~TokenTaken)

(***************************************************************************)
(* A get that got past the semaphore, or found the out ring not empty on   *)
(* entry, always has a node to return: the NULL of line 217 is dead code,  *)
(* and get returns NULL only when sem_timedwait failed.                    *)
(***************************************************************************)
TakeFindsNode == pcC \in {"swapped", "take"} => ring[out] # <<>>

(***************************************************************************)
(* No datum is lost, duplicated or reordered, whatever the place of the    *)
(* threads: what was put is what was got followed by what is queued.       *)
(***************************************************************************)
QueueOrder == pcC # "freed" => sent = got \o Contents

(***************************************************************************)
(* swap_queue_free gives the handler exactly the data nobody got; reversed *)
(* they continue what the consumer got, in the order of the puts.          *)
(***************************************************************************)
FreeReleasesRest == pcC = "freed" => sent = got \o Reverse(freed)

Inv == /\ TypeOK /\ LockInv /\ RingInv /\ TokenInv
       /\ TakeFindsNode /\ QueueOrder /\ FreeReleasesRest

(***************************************************************************)
(* swap_queue.h's put and get are the operations of a FIFO queue.          *)
(***************************************************************************)
Fifo == INSTANCE FifoQueue

ImplementsFifo == Fifo!Spec

(***************************************************************************)
(* No wake-up is lost: a datum that was put is got (or given to the        *)
(* handler), although the post is skipped for every put into a ring that   *)
(* was not empty.                                                          *)
(***************************************************************************)
EveryPutIsGot ==
    \A n \in 1..MaxPuts : Len(sent) >= n ~> (Len(got) >= n \/ pcC = "freed")

=============================================================================
