----------------------------- MODULE ObjectPool -----------------------------
(***************************************************************************)
(* template_pool.h and template_guard.h: threads borrow the objects of a   *)
(* pool (the redis and database clients of the adapter) through a guard.   *)
(* The pool is a block_queue; a fetch calls dequeue_expand up to Retries   *)
(* times, and the guard's destructor gives the object back.                *)
(***************************************************************************)
EXTENDS Naturals, Sequences, FiniteSets, Functions

CONSTANTS Users,       \* threads with a guard
          Objects, NoObj,
          Retries      \* 5 in the code

ASSUME PoolAssumption ==
    NoObj \notin Objects /\ IsFiniteSet(Objects) /\ Retries \in Nat \ {0}

VARIABLES list, signal, wait, data,   \* the pool's m_queue
          pc,          \* where a user is: no guard, in fetch_obj, using or restoring
          retry_count,
          pobj         \* m_pobj of the user's guard

Queue == INSTANCE BlockQueue WITH Producers <- Users, Consumers <- Users,
                                  NoData <- NoObj

queue == <<list, signal, wait, data>>
poolVars == <<queue, pc, retry_count, pobj>>

\* after install_obj of every object, in some order
PoolInit ==
    /\ list \in Bijection(1 .. Cardinality(Objects), Objects)
    /\ signal = {}
    /\ wait = [u \in Users |-> "out"]
    /\ data = [u \in Users |-> NoObj]
    /\ pc = [u \in Users |-> "idle"]
    /\ retry_count = [u \in Users |-> 0]
    /\ pobj = [u \in Users |-> NoObj]

\* fetch_obj_from_pool of a new guard
FetchObj(u) ==
    /\ pc[u] = "idle"
    /\ pc' = [pc EXCEPT ![u] = "fetch"]
    /\ retry_count' = [retry_count EXCEPT ![u] = 0]
    /\ UNCHANGED <<queue, pobj>>

\* mutant: the last try is given up without a look at its result
FetchedLast(u) ==
    /\ pobj' = [pobj EXCEPT ![u] = IF retry_count'[u] = Retries THEN NoObj ELSE data'[u]]
    /\ pc' = IF retry_count'[u] = Retries THEN [pc EXCEPT ![u] = "idle"]
             ELSE IF data'[u] # NoObj THEN [pc EXCEPT ![u] = "use"]
             ELSE pc

(***************************************************************************)
(* dequeue_expand has returned.  On failure the guard has no object and    *)
(* its destructor gives nothing back.                                      *)
(***************************************************************************)
Fetched(u) ==
    /\ pobj' = [pobj EXCEPT ![u] = data'[u]]
    /\ pc' = IF data'[u] # NoObj THEN [pc EXCEPT ![u] = "use"]
             ELSE IF retry_count'[u] = Retries THEN [pc EXCEPT ![u] = "idle"]
             ELSE pc

\* mutant: retry_count is set inside the loop
FetchProbeUncounted(u) ==
    /\ pc[u] = "fetch"
    /\ Queue!DequeueNodelay(u)
    /\ retry_count' = [retry_count EXCEPT ![u] = 1]
    /\ IF wait'[u] = "out" THEN Fetched(u) ELSE UNCHANGED <<pc, pobj>>

FetchProbe(u) ==
    /\ pc[u] = "fetch"
    /\ Queue!DequeueNodelay(u)
    /\ retry_count' = [retry_count EXCEPT ![u] = @ + 1]
    /\ IF wait'[u] = "out" THEN Fetched(u) ELSE UNCHANGED <<pc, pobj>>

FetchWait(u) ==
    (Queue!TimedWait(u) \/ Queue!Wake(u)) /\ UNCHANGED <<pc, retry_count, pobj>>

FetchDequeue(u) ==
    Queue!Dequeue(u) /\ UNCHANGED retry_count /\ Fetched(u)

\* ~template_guard: restore_obj
RestoreObj(u) ==
    /\ pc[u] = "use"
    /\ Queue!AddQueue(u, pobj[u])
    /\ pobj' = [pobj EXCEPT ![u] = NoObj]
    /\ pc' = [pc EXCEPT ![u] = "restored"]
    /\ UNCHANGED retry_count

RestoreSignal(u) ==
    /\ Queue!Signal(u)
    /\ pc' = [pc EXCEPT ![u] = "idle"]
    /\ UNCHANGED <<retry_count, pobj>>

Fetch(u) == FetchProbe(u) \/ FetchWait(u) \/ FetchDequeue(u)

PoolNext == \E u \in Users : FetchObj(u) \/ Fetch(u) \/ RestoreObj(u) \/ RestoreSignal(u)

PoolSpec == PoolInit /\ [][PoolNext]_poolVars

-----------------------------------------------------------------------------
\* types of the variables
PoolTypeOK ==
    /\ list \in Seq(Objects) /\ signal \subseteq Users
    /\ wait \in [Users -> {"out", "empty", "asleep", "awake"}]
    /\ data \in [Users -> Objects \cup {NoObj}]
    /\ pc \in [Users -> {"idle", "fetch", "use", "restored"}]
    /\ retry_count \in [Users -> 0..Retries]
    /\ pobj \in [Users -> Objects \cup {NoObj}]

(***************************************************************************)
(* Every object is in the pool or in one guard, never in two places and    *)
(* never lost, whichever fetches fail, time out or overtake one another:   *)
(* a client that is not thread-safe is used by one thread at a time.       *)
(***************************************************************************)
OnePlace ==
    /\ \A i, j \in DOMAIN list : list[i] = list[j] => i = j
    /\ \A u, v \in Users : pobj[u] = pobj[v] /\ pobj[u] # NoObj => u = v
    /\ \A u \in Users, i \in DOMAIN list : pobj[u] # list[i]
    /\ \A o \in Objects : (\E i \in DOMAIN list : list[i] = o) \/ (\E u \in Users : pobj[u] = o)

(***************************************************************************)
(* A fetch ends, with an object or without one, even when no object is     *)
(* ever given back: the loop of fetch_obj is bounded.                      *)
(***************************************************************************)
EveryFetchEnds == \A u \in Users : pc[u] = "fetch" ~> pc[u] # "fetch"

=============================================================================
