------------------------------- MODULE KvCache -------------------------------
(***************************************************************************)
(* One area of the cache of mycache/src/cache/kvcache.c: a skip list whose  *)
(* nodes are ordered by the first hash of their key (priority) and told     *)
(* apart by two more hashes (ack), which stand for the key here.  The areas *)
(* are independent of each other.  The height of a new node is random.      *)
(***************************************************************************)
EXTENDS Integers, Sequences

CONSTANTS Keys, Values, Ttls,
          Priority,    \* ack_hash_0 / MAX_AREA_SIZE of every key
          MaxLevel,    \* MAX_SK_LEVEL_INDEX
          MaxNodes,    \* bound: nodes allocated at a time
          MaxTime      \* bound: seconds

(***************************************************************************)
(* No two keys of an area have the same priority.  With two that have,     *)
(* __kvcache_del can free a node that stays in the list: when the node is  *)
(* not the first of its priority, update[0] does not point at it and the   *)
(* loop of line 135 unlinks nothing.                                       *)
(***************************************************************************)
ASSUME PriorityAssumption ==
    Priority \in [Keys -> Nat] /\ \A j, k \in Keys : Priority[j] = Priority[k] => j = k
ASSUME BoundAssumption == MaxLevel \in Nat /\ MaxNodes \in Nat /\ MaxTime \in Nat

VARIABLES elem,        \* elem[n][l]: the successor of a node on level l
          node,        \* the data of a node
          alive,       \* nodes that are allocated
          level,       \* shead->level
          now          \* time(NULL)

vars == <<elem, node, alive, level, now>>

Nodes == 1..MaxNodes
NIL == 0
TheHead == MaxNodes + 1
Places == Nodes \cup {TheHead}
Levels == 0..MaxLevel

NoData == [key |-> NIL, value |-> 0, ttl |-> 0, tms |-> 0, height |-> 0]
Bare == [l \in Levels |-> NIL]

Init == /\ elem = [n \in Places |-> Bare]
        /\ node = [n \in Nodes |-> NoData]
        /\ alive = {} /\ level = 0 /\ now = 0

Prio(n) == Priority[node[n].key]

\* is n before priority p?  equal says that the comparison is <=, not <
Before(n, p, equal) == Prio(n) < p \/ (equal /\ Prio(n) = p)

\* the inner loop of the descents: from n along level l while the next node is before p
Along(l, p, equal) ==
    LET walk[n \in Places] ==
            IF elem[n][l] # NIL /\ Before(elem[n][l], p, equal) THEN walk[elem[n][l]] ELSE n
    IN  walk

\* update[] of the descents
Update(p, equal) ==
    LET upd[l \in 0..level] ==
            Along(l, p, equal)[IF l = level THEN TheHead ELSE upd[l + 1]]
    IN  upd

\* the loop behind the descents: the node of k among those of its priority, from n on
Match(k) ==
    LET match[n \in Nodes \cup {NIL}] ==
            IF n = NIL \/ Prio(n) # Priority[k] THEN NIL
            ELSE IF node[n].key = k THEN n ELSE match[elem[n][0]]
    IN  match

\* mutant: get descends like set
LookupBehind(k) == Match(k)[elem[Update(Priority[k], TRUE)[0]][0]]

\* __kvcache_get
Lookup(k) == Match(k)[elem[Update(Priority[k], FALSE)[0]][0]]

Expired(n) == now > node[n].tms + node[n].ttl

KvcacheGet(k) == LET n == Lookup(k) IN IF n = NIL \/ Expired(n) THEN 0 ELSE node[n].value

\* kvcache_ttl: the age, not what is left
KvcacheTtl(k) ==
    LET n == Lookup(k)
    IN  IF n = NIL THEN 0 ELSE IF now > node[n].tms THEN now - node[n].tms ELSE -1

-----------------------------------------------------------------------------
\* mutant: the new node is linked at its topmost level only
LinkTop(n, h, upd) ==
    [elem EXCEPT ![n][h] = elem[upd[h]][h], ![upd[h]][h] = n]

\* a node of height h enters behind the nodes of upd
Link(n, h, upd) ==
    [m \in DOMAIN elem |-> [l \in Levels |->
        IF l > h THEN elem[m][l]
        ELSE IF m = n THEN elem[upd[l]][l]
        ELSE IF m = upd[l] THEN n ELSE elem[m][l]]]

\* mutant: the level is not capped
HeightsUncapped == 0..(level + 1)

\* __get_random_level, and the list grows by one level at most
Heights == 0..(IF level < MaxLevel THEN level + 1 ELSE level)

\* what kvcache_set puts into a new node
NewNode(k, v, t, h) == [key |-> k, value |-> v, ttl |-> t, tms |-> now, height |-> h]

(***************************************************************************)
(* kvcache_set.  The descent passes the nodes with an equal priority, so   *)
(* the search behind it (lines 75 to 82) never finds the key, and          *)
(* the branch for an old node is dead.                                     *)
(***************************************************************************)
KvcacheSet(k, v, t) ==
    /\ alive # Nodes
    /\ LET upd == Update(Priority[k], TRUE)
           old == Match(k)[elem[upd[0]][0]]
           n   == CHOOSE m \in Nodes \ alive : \A o \in Nodes \ alive : m <= o
       IN  IF old # NIL
           THEN node' = [node EXCEPT ![old].value = v] /\ UNCHANGED <<elem, alive, level>>
           ELSE /\ \E h \in Heights :
                      LET above == [l \in 0..h |-> IF l > level THEN TheHead ELSE upd[l]]
                      IN  /\ elem' = Link(n, h, above)
                          /\ level' = IF h > level THEN h ELSE level
                          /\ node' = [node EXCEPT ![n] = NewNode(k, v, t, h)]
                /\ alive' = alive \cup {n}
    /\ UNCHANGED now

\* levels on which n is unlinked: from below, while the node of upd points at n
Unlinked(n, upd) == {l \in 0..level : \A i \in 0..l : elem[upd[i]][i] = n}

\* mutant: n is unlinked on the lowest level only
UnlinkLowest(n, upd) ==
    [elem EXCEPT ![upd[0]][0] = elem[n][0], ![n] = Bare]

\* n leaves the list and its memory is released
Unlink(n, upd) ==
    [m \in DOMAIN elem |->
        IF m = n THEN Bare
        ELSE [l \in Levels |-> IF l \in Unlinked(n, upd) /\ m = upd[l] THEN elem[n][l] ELSE elem[m][l]]]

\* the level after a delete: the highest one that is not empty
LevelOf(e) ==
    CHOOSE l \in 0..level : /\ l = 0 \/ e[TheHead][l] # NIL
                            /\ \A i \in (l + 1)..level : e[TheHead][i] = NIL

\* mutant: the node the descent stops at is taken without a look at its hashes
DelUnmatched(k) ==
    /\ LET upd == Update(Priority[k], FALSE)
           n   == elem[upd[0]][0]
       IN  \/ /\ n = NIL
              /\ UNCHANGED <<elem, node, alive, level>>
           \/ /\ n # NIL
              /\ elem' = Unlink(n, upd)
              /\ level' = LevelOf(elem')
              /\ node' = [node EXCEPT ![n] = NoData]
              /\ alive' = alive \ {n}
    /\ UNCHANGED now

KvcacheDel(k) ==
    /\ LET upd == Update(Priority[k], FALSE)
           n   == Match(k)[elem[upd[0]][0]]
       IN  \/ /\ n = NIL
              /\ UNCHANGED <<elem, node, alive, level>>
           \/ /\ n # NIL
              /\ elem' = Unlink(n, upd)
              /\ level' = LevelOf(elem')
              /\ node' = [node EXCEPT ![n] = NoData]
              /\ alive' = alive \ {n}
    /\ UNCHANGED now

KvcacheExpire(k, t) ==
    /\ LET n == Lookup(k)
       IN  \/ n = NIL /\ UNCHANGED node
           \/ n # NIL /\ Expired(n) /\ UNCHANGED node
           \/ /\ n # NIL /\ ~Expired(n)
              /\ node' = [node EXCEPT ![n].tms = now, ![n].ttl = t]
    /\ UNCHANGED <<elem, alive, level, now>>

Tick == now < MaxTime /\ now' = now + 1 /\ UNCHANGED <<elem, node, alive, level>>

Next == \/ Tick
        \/ \E k \in Keys : \/ KvcacheDel(k)
                           \/ \E t \in Ttls : \/ KvcacheExpire(k, t)
                                              \/ \E v \in Values : KvcacheSet(k, v, t)

Spec == Init /\ [][Next]_vars

-----------------------------------------------------------------------------
\* types of the variables; released nodes have no data and no successors
TypeOK ==
    /\ elem \in [Places -> [Levels -> Nodes \cup {NIL}]]
    /\ alive \subseteq Nodes
    /\ node \in [Nodes -> [key : Keys \cup {NIL}, value : Values \cup {0}, ttl : Ttls \cup {0},
                           tms : 0..MaxTime, height : Levels]]
    /\ \A n \in alive : node[n].key \in Keys
    /\ \A n \in Nodes \ alive : node[n] = NoData /\ elem[n] = Bare
    /\ level \in Levels /\ now \in 0..MaxTime

Successor(n) == IF n = NIL THEN NIL ELSE elem[n][0]

\* the places along level 0: place 0 is the head, NIL follows the last node
List ==
    LET list[i \in 0..MaxNodes] == IF i = 0 THEN TheHead ELSE Successor(list[i - 1])
    IN  list

\* the number of nodes among them
Length ==
    LET list == List
    IN  CHOOSE N \in 0..MaxNodes : list[N] # NIL /\ (N = MaxNodes \/ list[N + 1] = NIL)

(***************************************************************************)
(* The list on level 0 has every allocated node once, ordered by priority: *)
(* set and del neither lose nodes nor keep released ones, and no cycle     *)
(* arises whatever the heights.                                            *)
(***************************************************************************)
ListComplete ==
    LET list == List
        N    == Length
    IN  /\ {list[i] : i \in 1..N} = alive
        /\ elem[list[N]][0] = NIL
        /\ \A i, j \in 1..N : i < j => Prio(list[i]) <= Prio(list[j])

\* the places of a list of N nodes that are on level l
OnLevel(list, N, l) == {i \in 1..N : node[list[i]].height >= l}

\* e is the first node behind place i that is in a place of on, or NIL
IsNext(e, list, i, on) ==
    \/ e = NIL /\ \A j \in on : j <= i
    \/ \E j \in on : j > i /\ e = list[j] /\ \A m \in on : m <= i \/ j <= m

(***************************************************************************)
(* The list on a higher level has exactly the nodes of that height, in the *)
(* order of level 0, so the shortcuts of a search lead nowhere else; none  *)
(* is in use above shead->level, and the topmost is not empty.             *)
(***************************************************************************)
LevelsNested ==
    /\ LET list == List
           N    == Length
       IN  \A l \in Levels :
              LET on == OnLevel(list, N, l)
              IN  \A i \in {0} \cup on : IsNext(elem[list[i]][l], list, i, on)
    /\ \A l \in Levels : l > level => elem[TheHead][l] = NIL
    /\ level > 0 => elem[TheHead][level] # NIL

\* how many nodes of the list, which is ordered, are before priority p
Ahead(list, p, equal) ==
    LET IsBefore(i) == list[i] # NIL /\ Before(list[i], p, equal)
    IN  CHOOSE J \in 0..MaxNodes : (J > 0 => IsBefore(J)) /\ (J < MaxNodes => ~IsBefore(J + 1))

Entry(n) == [value |-> node[n].value, ttl |-> node[n].ttl, tms |-> node[n].tms]

\* the entries of the keys in the order of the list
Entries ==
    [k \in Keys |->
        LET list  == List
            first == Ahead(list, Priority[k], FALSE)
            last  == Ahead(list, Priority[k], TRUE)
        IN  [i \in 1..(last - first) |-> Entry(list[first + i])]]

Store == INSTANCE KvStore WITH store <- Entries

(***************************************************************************)
(* get and ttl find the oldest entry of a key by way of the levels,        *)
(* whatever the heights.                                                   *)
(***************************************************************************)
AnswersExact ==
    \A k \in Keys : KvcacheGet(k) = Store!Get(k) /\ KvcacheTtl(k) = Store!Ttl(k)

\* kvcache_set, kvcache_del or kvcache_expire is called for k
CalledFor(k) ==
    \/ KvcacheDel(k)
    \/ \E t \in Ttls : KvcacheExpire(k, t) \/ \E v \in Values : KvcacheSet(k, v, t)

(***************************************************************************)
(* No operation on a key changes what get and ttl answer for another one,  *)
(* although its node is linked and unlinked between the nodes of others on *)
(* every level.                                                            *)
(***************************************************************************)
KeysIndependent ==
    [][\A k \in Keys : CalledFor(k) =>
          \A j \in Keys \ {k} : /\ KvcacheGet(j)' = KvcacheGet(j)
                                /\ KvcacheTtl(j)' = KvcacheTtl(j)]_vars

\* the value get finds for a key, expired or not
Stored(k) == LET n == Lookup(k) IN IF n = NIL THEN 0 ELSE node[n].value

(***************************************************************************)
(* What the branch for an "old kv_node" in kvcache_set says: a set of a    *)
(* key that is there replaces its value.                                   *)
(***************************************************************************)
SetReplaces ==
    [][\A k \in Keys, v \in Values, t \in Ttls : KvcacheSet(k, v, t) => Stored(k)' = v]_vars

=============================================================================
