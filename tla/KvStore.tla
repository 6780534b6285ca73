------------------------------- MODULE KvStore -------------------------------
(***************************************************************************)
(* What the cache of mycache/src/cache/kvcache.c does for its caller, as    *)
(* the code is: for every key a queue of entries.  set adds an entry, where *)
(* one would expect it to replace the old one (SetReplaces of KvCache); the *)
(* others look at the oldest entry, which also covers the newer ones once   *)
(* it has expired.  get and ttl change nothing and are functions of the     *)
(* state.  Results are numbers, 0 standing for NULL.                        *)
(***************************************************************************)
EXTENDS Integers, Sequences

CONSTANTS Keys, Values, Ttls

VARIABLES store,   \* the entries of a key, oldest first
          now      \* time(NULL)

kvvars == <<store, now>>

KvInit == store = [k \in Keys |-> <<>>] /\ now = 0

Has(k) == store[k] # <<>>
Expired(k) == now > Head(store[k]).tms + Head(store[k]).ttl

Get(k) == IF Has(k) /\ ~Expired(k) THEN Head(store[k]).value ELSE 0

\* the age of the entry
Ttl(k) == IF ~Has(k) THEN 0
          ELSE IF now > Head(store[k]).tms THEN now - Head(store[k]).tms ELSE -1

Set(k, v, t) ==
    /\ store' = [store EXCEPT ![k] = Append(@, [value |-> v, ttl |-> t, tms |-> now])]
    /\ UNCHANGED now

Del(k) ==
    /\ store' = [store EXCEPT ![k] = IF Has(k) THEN Tail(@) ELSE @]
    /\ UNCHANGED now

\* an entry that has expired stays so
Expire(k, t) ==
    /\ store' = IF Has(k) /\ ~Expired(k) THEN [store EXCEPT ![k][1].tms = now, ![k][1].ttl = t]
                ELSE store
    /\ UNCHANGED now

Time == now' > now /\ UNCHANGED store

KvNext == \/ Time
          \/ \E k \in Keys : \/ Del(k)
                             \/ \E t \in Ttls : Expire(k, t) \/ \E v \in Values : Set(k, v, t)

KvSpec == KvInit /\ [][KvNext]_kvvars

=============================================================================
