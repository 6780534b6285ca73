---------------------------- MODULE KvListProofs ----------------------------
(***************************************************************************)
(* Proofs about the skip list of KvCache, first part: the invariant of the *)
(* list, and what linking and unlinking a node do to it, for every number  *)
(* of nodes, every number of levels and every set of keys, values and      *)
(* times.                                                                  *)
(* The list is described by a sequence s of places, the head at 0, of      *)
(* length N: every node that is alive is in s once and s ascends in        *)
(* priority (Ordered), and on every level a place points to the next place *)
(* of s that is high enough, or to nothing (Linked). A node taken into s   *)
(* at a place, or taken out of it, changes the pointers of one place on    *)
(* each level up to its height: the levels are opened and closed there.    *)
(* The last part follows the entries of a key through a removal: they are  *)
(* a block of s, and a removal takes one out of it.                        *)
(***************************************************************************)
EXTENDS KvCache, TLAPS

-----------------------------------------------------------------------------
(* The inductive invariant.                                                 *)

\* s has the head in place 0 and every allocated node once, ordered by priority
Ordered(s, N) ==
    /\ s \in [0..N -> Places] /\ s[0] = TheHead
    /\ \A i \in 1..N : s[i] \in alive
    /\ \A n \in alive : \E i \in 1..N : s[i] = n
    /\ \A i, j \in 1..N : s[i] = s[j] => i = j
    /\ \A i, j \in 1..N : i < j => Prio(s[i]) <= Prio(s[j])

\* every level leads through its nodes in their order
Linked(s, N) ==
    \A l \in Levels : \A i \in {0} \cup OnLevel(s, N, l) :
        IsNext(elem[s[i]][l], s, i, OnLevel(s, N, l))

\* a node has no successor above its height
Capped == \A n \in alive, l \in Levels : l > node[n].height => elem[n][l] = NIL

\* shead->level is the topmost level in use, or 0, and the levels above it are empty
LevelInv ==
    /\ \A l \in Levels : l > level => elem[TheHead][l] = NIL
    /\ level > 0 => elem[TheHead][level] # NIL

\* N nodes in the sequence s, in order and linked on every level
Shape(s, N) == N \in Nat /\ Ordered(s, N) /\ Linked(s, N)

\* the inductive invariant
Inv == TypeOK /\ Capped /\ LevelInv /\ \E N, s : Shape(s, N)

\* constants
LEMMA Consts ==
    /\ MaxLevel \in Nat /\ MaxNodes \in Nat /\ MaxTime \in Nat
    /\ Nodes \subseteq Nat /\ Nodes \subseteq Places /\ NIL \notin Nodes /\ NIL \notin Places
    /\ TheHead \in Places /\ TheHead \notin Nodes /\ TheHead # NIL
    /\ Levels \subseteq Nat /\ 0 \in Levels
  BY BoundAssumption DEF Nodes, Places, NIL, TheHead, Levels

\* heights are levels
LEMMA HeightLevel == ASSUME TypeOK PROVE \A n \in Nodes : node[n].height \in Levels /\ node[n].height \in Nat
<1>1. \A n \in Nodes : node[n] \in [key : Keys \cup {NIL}, value : Values \cup {0}, ttl : Ttls \cup {0},
                                     tms : 0..MaxTime, height : Levels]
  BY DEF TypeOK
<1>2. \A n \in Nodes : node[n].height \in Levels
  BY <1>1
<1> QED
  BY <1>2, Consts, Zenon

\* the head is in place 0 only
LEMMA NodesBehind ==
    ASSUME TypeOK, NEW N, NEW s, Shape(s, N)
    PROVE  /\ \A i \in 1..N : s[i] \in alive /\ s[i] \in Nodes /\ s[i] # NIL /\ s[i] # TheHead
           /\ \A i, j \in 0..N : s[i] = s[j] => i = j
<1>1. \A i \in 1..N : s[i] \in alive /\ s[i] \in Nodes /\ s[i] # NIL /\ s[i] # TheHead
  BY Consts, Zenon DEF Shape, Ordered, TypeOK
<1>2. \A i, j \in 0..N : s[i] = s[j] => i = j
  BY <1>1 DEF Shape, Ordered
<1> QED
  BY <1>1, <1>2

\* the nodes of s before priority p are those up to place J
IsAhead(s, N, p, equal, J) ==
    J \in 0..N /\ \A i \in 1..N : Before(s[i], p, equal) <=> i <= J

\* priorities are numbers
LEMMA PrioNat == ASSUME TypeOK PROVE \A n \in alive : Prio(n) \in Nat /\ node[n].key \in Keys
  BY PriorityAssumption DEF TypeOK, Prio

\* K is the last place up to J that is on the level whose places are on, or the head
IsLast(K, J, on) ==
    K \in {0} \cup on /\ K <= J /\ \A m \in on : m <= K \/ m > J

\* a node that is on a level is on the levels below
LEMMA Nested ==
    ASSUME TypeOK, NEW N, NEW s, Shape(s, N)
    PROVE  /\ \A l \in Levels : OnLevel(s, N, l) \subseteq 1..N
           /\ \A k, l \in Levels : l <= k => OnLevel(s, N, k) \subseteq OnLevel(s, N, l)
           /\ OnLevel(s, N, 0) = 1..N
<1>1. \A i \in 1..N : node[s[i]].height \in Nat
  BY NodesBehind, HeightLevel
<1>2. \A l \in Levels : l \in Nat
  BY Consts
<1>3. \A l \in Levels : OnLevel(s, N, l) \subseteq 1..N
  BY DEF OnLevel
<1>4. ASSUME NEW k \in Levels, NEW l \in Levels, l <= k PROVE OnLevel(s, N, k) \subseteq OnLevel(s, N, l)
  <2>1. \A i \in 1..N : node[s[i]].height >= k => node[s[i]].height >= l
    BY <1>1, <1>2, <1>4
  <2> QED
    BY <2>1, Zenon DEF OnLevel
<1>5. OnLevel(s, N, 0) = 1..N
  BY <1>1 DEF OnLevel
<1> QED
  BY <1>3, <1>4, <1>5

\* U gives for every level the last place up to J
Lasts(U, s, N, J) == \A l \in Levels : IsLast(U[l], J, OnLevel(s, N, l)) /\ U[l] \in 0..N

\* nobody is on a level above that of the list
LEMMA EmptyAbove ==
    ASSUME TypeOK, LevelInv, NEW N, NEW s, Shape(s, N)
    PROVE  \A l \in Levels : l > level => OnLevel(s, N, l) = {}
<1> SUFFICES ASSUME NEW l \in Levels, l > level PROVE OnLevel(s, N, l) = {}
  OBVIOUS
<1>1. elem[s[0]][l] = NIL
  BY DEF LevelInv, Shape, Ordered
<1>2. IsNext(NIL, s, 0, OnLevel(s, N, l))
  BY <1>1 DEF Shape, Linked
<1>3. OnLevel(s, N, l) \subseteq 1..N /\ \A i \in 1..N : s[i] # NIL
  BY Nested, NodesBehind
<1>4. \A j \in OnLevel(s, N, l) : ~(j <= 0) /\ s[j] # NIL
  BY <1>3 DEF Shape
<1> QED
  BY <1>2, <1>4 DEF IsNext

\* the nodes that the search leaves in update_nodes are those of the places U
Updated(U, s, p, equal) == \A l \in 0..level : Update(p, equal)[l] = s[U[l]]

\* where a place goes
Up(i, J) == IF i <= J THEN i ELSE i + 1

-----------------------------------------------------------------------------
(* A level on which a place is opened for a node, or closed behind one.     *)

\* t is s with n behind place J, and P are the places of the level O after that
Opened(s, N, J, n, O, t, P) ==
    /\ N \in Nat /\ J \in 0..N /\ O \subseteq 1..N /\ P \subseteq 1..(N + 1)
    /\ \A i \in 0..J : t[i] = s[i]
    /\ t[J + 1] = n
    /\ \A i \in (J + 1)..N : t[i + 1] = s[i]
    /\ \A i \in 1..J : i \in P <=> i \in O
    /\ \A i \in (J + 1)..N : i + 1 \in P <=> i \in O

\* the places of the list with one more node are those of the old list and the new one
LEMMA OpenedPlaces ==
    ASSUME NEW s, NEW N, NEW J, NEW n, NEW O, NEW t, NEW P, Opened(s, N, J, n, O, t, P)
    PROVE  /\ \A j \in O : Up(j, J) \in P /\ t[Up(j, J)] = s[j]
           /\ \A m \in P : m = J + 1 \/ \E j \in O : m = Up(j, J)
<1>0. /\ N \in Nat /\ J \in 0..N /\ O \subseteq 1..N /\ P \subseteq 1..(N + 1)
      /\ \A i \in 0..J : t[i] = s[i]
      /\ \A i \in (J + 1)..N : t[i + 1] = s[i]
      /\ \A i \in 1..J : i \in P <=> i \in O
      /\ \A i \in (J + 1)..N : i + 1 \in P <=> i \in O
  BY DEF Opened
<1>1. ASSUME NEW j \in O PROVE Up(j, J) \in P /\ t[Up(j, J)] = s[j]
  BY <1>0 DEF Up
<1>2. ASSUME NEW m \in P, m # J + 1 PROVE \E j \in O : m = Up(j, J)
  <2>1. CASE m <= J
    BY <1>0, <2>1 DEF Up
  <2>2. CASE m > J + 1
    <3>1. m - 1 \in (J + 1)..N /\ (m - 1) + 1 = m
      BY <1>0, <2>2
    <3>2. m - 1 \in O
      BY <1>0, <3>1
    <3> QED
      BY <1>0, <3>1, <3>2 DEF Up
  <2> QED
    BY <1>0, <1>2, <2>1, <2>2
<1> QED
  BY <1>1, <1>2

\* a node whose level n is not on, or that is behind n, keeps its successor
LEMMA OpenedSame ==
    ASSUME NEW s, NEW N, NEW J, NEW n, NEW O, NEW t, NEW P, Opened(s, N, J, n, O, t, P),
           NEW e, NEW i \in 0..N, J + 1 \notin P \/ i > J, IsNext(e, s, i, O)
    PROVE  IsNext(e, t, Up(i, J), P)
<1>0. N \in Nat /\ J \in 0..N /\ O \subseteq 1..N /\ P \subseteq 1..(N + 1)
  BY DEF Opened
<1>1. /\ \A j \in O : Up(j, J) \in P /\ t[Up(j, J)] = s[j]
      /\ \A m \in P : m = J + 1 \/ \E j \in O : m = Up(j, J)
  BY OpenedPlaces
<1>2. \A j \in 0..N : /\ j <= i <=> Up(j, J) <= Up(i, J)
                      /\ \A m \in 0..N : j <= m <=> Up(j, J) <= Up(m, J)
  BY <1>0 DEF Up
<1>3. J + 1 \in P => J + 1 <= Up(i, J)
  BY <1>0 DEF Up
<1>4. CASE e = NIL /\ \A j \in O : j <= i
  <2>1. \A m \in P : m <= Up(i, J)
    BY <1>0, <1>1, <1>2, <1>3, <1>4
  <2> QED
    BY <1>4, <2>1 DEF IsNext
<1>5. ASSUME NEW j \in O, j > i, e = s[j], \A m \in O : m <= i \/ j <= m
      PROVE  IsNext(e, t, Up(i, J), P)
  <2>1. Up(j, J) \in P /\ t[Up(j, J)] = s[j] /\ Up(j, J) > Up(i, J)
    BY <1>0, <1>1, <1>5 DEF Up
  <2>2. \A m \in P : m <= Up(i, J) \/ Up(j, J) <= m
    BY <1>0, <1>1, <1>2, <1>3, <1>5
  <2> QED
    BY <1>5, <2>1, <2>2 DEF IsNext
<1> QED
  BY <1>4, <1>5 DEF IsNext

\* a node before the last one of its level up to J keeps its successor
LEMMA OpenedBefore ==
    ASSUME NEW s, NEW N, NEW J, NEW n, NEW O, NEW t, NEW P, Opened(s, N, J, n, O, t, P),
           NEW K, IsLast(K, J, O), NEW e, NEW i \in 0..N, i < K, IsNext(e, s, i, O)
    PROVE  IsNext(e, t, i, P)
<1>0. /\ N \in Nat /\ J \in 0..N /\ O \subseteq 1..N /\ P \subseteq 1..(N + 1)
      /\ K \in {0} \cup O /\ K <= J /\ \A m \in O : m <= K \/ m > J
  BY DEF Opened, IsLast
<1>1. /\ \A j \in O : Up(j, J) \in P /\ t[Up(j, J)] = s[j]
      /\ \A m \in P : m = J + 1 \/ \E j \in O : m = Up(j, J)
  BY OpenedPlaces
<1>2. K \in O /\ K > i /\ K \in Nat /\ i \in Nat
  BY <1>0
<1>3. PICK j \in O : j > i /\ e = s[j] /\ \A m \in O : m <= i \/ j <= m
  BY <1>0, <1>2 DEF IsNext
<1>4. j <= K /\ j <= J /\ j \in Nat
  BY <1>0, <1>2, <1>3
<1>5. j \in P /\ t[j] = s[j]
  BY <1>0, <1>1, <1>4 DEF Up
<1>6. \A m \in P : m <= i \/ j <= m
  <2> SUFFICES ASSUME NEW m \in P PROVE m <= i \/ j <= m
    OBVIOUS
  <2>1. CASE m = J + 1
    BY <1>0, <1>4, <2>1
  <2>2. ASSUME NEW q \in O, m = Up(q, J) PROVE m <= i \/ j <= m
    <3>1. q \in Nat /\ (q <= i \/ j <= q)
      BY <1>0, <1>3
    <3> QED
      BY <1>0, <1>2, <1>4, <2>2, <3>1 DEF Up
  <2> QED
    BY <1>1, <2>1, <2>2
<1> QED
  BY <1>3, <1>5, <1>6 DEF IsNext

\* the last node of a level up to J gets n as its successor
LEMMA OpenedLast ==
    ASSUME NEW s, NEW N, NEW J, NEW n, NEW O, NEW t, NEW P, Opened(s, N, J, n, O, t, P),
           NEW K, IsLast(K, J, O), J + 1 \in P
    PROVE  IsNext(n, t, K, P)
<1>0. /\ N \in Nat /\ J \in 0..N /\ O \subseteq 1..N /\ P \subseteq 1..(N + 1)
      /\ K \in {0} \cup O /\ K <= J /\ t[J + 1] = n /\ \A m \in O : m <= K \/ m > J
  BY DEF Opened, IsLast
<1>1. \A m \in P : m = J + 1 \/ \E j \in O : m = Up(j, J)
  BY OpenedPlaces
<1>2. K \in Nat /\ J + 1 > K
  BY <1>0
<1>3. \A m \in P : m <= K \/ J + 1 <= m
  <2> SUFFICES ASSUME NEW m \in P, m # J + 1 PROVE m <= K \/ J + 1 <= m
    BY <1>0
  <2>1. PICK j \in O : m = Up(j, J)
    BY <1>1
  <2>2. j \in Nat /\ (j <= K \/ j > J)
    BY <1>0
  <2> QED
    BY <1>0, <1>2, <2>1, <2>2 DEF Up
<1> QED
  BY <1>0, <1>2, <1>3 DEF IsNext

\* and n gets the successor that node had
LEMMA OpenedNew ==
    ASSUME NEW s, NEW N, NEW J, NEW n, NEW O, NEW t, NEW P, Opened(s, N, J, n, O, t, P),
           NEW K, IsLast(K, J, O), NEW e, IsNext(e, s, K, O)
    PROVE  IsNext(e, t, J + 1, P)
<1>0. /\ N \in Nat /\ J \in 0..N /\ O \subseteq 1..N /\ P \subseteq 1..(N + 1)
      /\ K \in {0} \cup O /\ K <= J /\ \A m \in O : m <= K \/ m > J
  BY Zenon DEF Opened, IsLast
<1>1. /\ \A j \in O : Up(j, J) \in P /\ t[Up(j, J)] = s[j]
      /\ \A m \in P : m = J + 1 \/ \E j \in O : m = Up(j, J)
  BY OpenedPlaces
<1>2. K \in Nat
  BY <1>0
<1>3. CASE e = NIL /\ \A j \in O : j <= K
  <2>1. \A j \in O : Up(j, J) <= J + 1
    BY <1>0, <1>2, <1>3 DEF Up
  <2>2. \A m \in P : m <= J + 1
    BY <1>0, <1>1, <2>1
  <2> QED
    BY <1>3, <2>2 DEF IsNext
<1>4. ASSUME NEW j \in O, j > K, e = s[j], \A m \in O : m <= K \/ j <= m
      PROVE  IsNext(e, t, J + 1, P)
  <2>1. j > J /\ j \in Nat
    BY <1>0, <1>2, <1>4
  <2>2. Up(j, J) \in P /\ t[Up(j, J)] = s[j] /\ Up(j, J) > J + 1 /\ Up(j, J) = j + 1
    BY <1>0, <1>1, <2>1 DEF Up
  <2>3. \A m \in P : m <= J + 1 \/ Up(j, J) <= m
    <3> SUFFICES ASSUME NEW m \in P, m # J + 1 PROVE m <= J + 1 \/ Up(j, J) <= m
      BY <1>0
    <3>1. PICK q \in O : m = Up(q, J)
      BY <1>1
    <3>2. q \in Nat /\ (q <= K \/ j <= q)
      BY <1>0, <1>4
    <3> QED
      BY <1>0, <1>2, <2>1, <2>2, <3>1, <3>2 DEF Up
  <2> QED
    BY <1>4, <2>2, <2>3 DEF IsNext
<1> QED
  BY <1>3, <1>4 DEF IsNext

\* when n leaves, a node whose level n is not on, or that is behind n, keeps its successor
LEMMA ClosedSame ==
    ASSUME NEW s, NEW N, NEW J, NEW n, NEW O, NEW t, NEW P, Opened(s, N, J, n, O, t, P),
           NEW e, NEW i \in 0..N, J + 1 \notin P \/ i > J, IsNext(e, t, Up(i, J), P)
    PROVE  IsNext(e, s, i, O)
<1>0. N \in Nat /\ J \in 0..N /\ O \subseteq 1..N /\ P \subseteq 1..(N + 1) /\ i \in Nat
  BY DEF Opened
<1>1. /\ \A j \in O : Up(j, J) \in P /\ t[Up(j, J)] = s[j]
      /\ \A m \in P : m = J + 1 \/ \E j \in O : m = Up(j, J)
  BY OpenedPlaces
<1>2. \A j, m \in 0..N : j <= m <=> Up(j, J) <= Up(m, J)
  BY <1>0 DEF Up
<1>3. J + 1 \in P => J + 1 <= Up(i, J)
  BY <1>0 DEF Up
<1>4. CASE e = NIL /\ \A m \in P : m <= Up(i, J)
  <2>1. ASSUME NEW j \in O PROVE j <= i
    <3>1. Up(j, J) \in P
      BY <1>1, Zenon
    <3>2. Up(j, J) <= Up(i, J)
      BY <1>4, <3>1, Zenon
    <3>3. j \in 0..N
      BY <1>0
    <3> QED
      BY <1>2, <3>2, <3>3
  <2> QED
    BY <1>4, <2>1 DEF IsNext
<1>5. ASSUME NEW m \in P, m > Up(i, J), e = t[m], \A q \in P : q <= Up(i, J) \/ m <= q
      PROVE  IsNext(e, s, i, O)
  <2>0. m # J + 1
    BY <1>0, <1>3, <1>5 DEF Up
  <2>1. PICK j \in O : m = Up(j, J)
    BY <1>1, <2>0
  <2>2. e = s[j] /\ j > i
    BY <1>0, <1>1, <1>5, <2>1 DEF Up
  <2>3. ASSUME NEW q \in O PROVE q <= i \/ j <= q
    <3>1. Up(q, J) \in P
      BY <1>1, Zenon
    <3>2. Up(q, J) <= Up(i, J) \/ Up(j, J) <= Up(q, J)
      BY <1>5, <2>1, <3>1, Zenon
    <3>3. q \in 0..N /\ j \in 0..N
      BY <1>0
    <3> QED
      BY <1>2, <3>2, <3>3
  <2> QED
    BY <2>2, <2>3 DEF IsNext
<1> QED
  BY <1>4, <1>5 DEF IsNext

\* so does a node before the last one of its level up to J
LEMMA ClosedBefore ==
    ASSUME NEW s, NEW N, NEW J, NEW n, NEW O, NEW t, NEW P, Opened(s, N, J, n, O, t, P),
           NEW K, IsLast(K, J, O), NEW e, NEW i \in 0..N, i < K, IsNext(e, t, i, P)
    PROVE  IsNext(e, s, i, O)
<1>0. /\ N \in Nat /\ J \in 0..N /\ O \subseteq 1..N /\ P \subseteq 1..(N + 1) /\ i \in Nat
      /\ K \in {0} \cup O /\ K <= J /\ \A m \in O : m <= K \/ m > J
  BY DEF Opened, IsLast
<1>1. /\ \A j \in O : Up(j, J) \in P /\ t[Up(j, J)] = s[j]
      /\ \A m \in P : m = J + 1 \/ \E j \in O : m = Up(j, J)
  BY OpenedPlaces
<1>2. K \in O /\ K \in P /\ K > i /\ K \in Nat
  BY <1>0, <1>1 DEF Up
<1>3. PICK m \in P : m > i /\ e = t[m] /\ \A q \in P : q <= i \/ m <= q
  BY <1>0, <1>2 DEF IsNext
<1>4. m <= K /\ m \in Nat /\ m # J + 1
  BY <1>0, <1>2, <1>3
<1>5. m \in O /\ e = s[m]
  <2>1. PICK j \in O : m = Up(j, J)
    BY <1>1, <1>4
  <2>2. j = m
    BY <1>0, <1>4, <2>1 DEF Up
  <2> QED
    BY <1>1, <1>3, <2>1, <2>2
<1>6. \A q \in O : q <= i \/ m <= q
  <2> SUFFICES ASSUME NEW q \in O PROVE q <= i \/ m <= q
    OBVIOUS
  <2>1. Up(q, J) <= i \/ m <= Up(q, J)
    BY <1>1, <1>3
  <2> QED
    BY <1>0, <1>2, <1>4, <2>1 DEF Up
<1> QED
  BY <1>3, <1>5, <1>6 DEF IsNext

\* and the last node of its level up to J gets the successor of n
LEMMA ClosedLast ==
    ASSUME NEW s, NEW N, NEW J, NEW n, NEW O, NEW t, NEW P, Opened(s, N, J, n, O, t, P),
           NEW K, IsLast(K, J, O), NEW e, IsNext(e, t, J + 1, P)
    PROVE  IsNext(e, s, K, O)
<1>0. /\ N \in Nat /\ J \in 0..N /\ O \subseteq 1..N /\ P \subseteq 1..(N + 1)
      /\ K \in {0} \cup O /\ K <= J /\ \A m \in O : m <= K \/ m > J
  BY Zenon DEF Opened, IsLast
<1>1. /\ \A j \in O : Up(j, J) \in P /\ t[Up(j, J)] = s[j]
      /\ \A m \in P : m = J + 1 \/ \E j \in O : m = Up(j, J)
  BY OpenedPlaces
<1>2. K \in Nat
  BY <1>0
<1>3. CASE e = NIL /\ \A m \in P : m <= J + 1
  <2>1. \A j \in O : Up(j, J) <= J + 1
    BY <1>1, <1>3
  <2>2. \A j \in O : j <= K
    BY <1>0, <1>2, <2>1 DEF Up
  <2> QED
    BY <1>3, <2>2 DEF IsNext
<1>4. ASSUME NEW m \in P, m > J + 1, e = t[m], \A q \in P : q <= J + 1 \/ m <= q
      PROVE  IsNext(e, s, K, O)
  <2>1. PICK j \in O : m = Up(j, J)
    BY <1>0, <1>1, <1>4
  <2>2. e = s[j] /\ j > J /\ j > K /\ j \in Nat /\ m = j + 1
    BY <1>0, <1>1, <1>2, <1>4, <2>1 DEF Up
  <2>3. \A q \in O : q <= K \/ j <= q
    <3> SUFFICES ASSUME NEW q \in O PROVE q <= K \/ j <= q
      OBVIOUS
    <3>1. q \in Nat /\ (q <= K \/ q > J)
      BY <1>0
    <3>2. Up(q, J) <= J + 1 \/ m <= Up(q, J)
      BY <1>1, <1>4
    <3> QED
      BY <1>0, <1>2, <2>2, <3>1, <3>2 DEF Up
  <2> QED
    BY <2>2, <2>3 DEF IsNext
<1> QED
  BY <1>3, <1>4 DEF IsNext

-----------------------------------------------------------------------------
(* kvcache_set inserts a node.                                              *)

\* n enters behind place J with height h; the data of other nodes stay
Inserts(s, N, J, n, h, U, k, v, t) ==
    /\ IsAhead(s, N, Priority[k], TRUE, J) /\ Lasts(U, s, N, J)
    /\ n \in Nodes \ alive /\ h \in Heights
    /\ elem' = [m \in Places |-> [l \in Levels |->
                  IF l > h THEN elem[m][l]
                  ELSE IF m = n THEN elem[s[U[l]]][l]
                  ELSE IF m = s[U[l]] THEN n ELSE elem[m][l]]]
    /\ level' = (IF h > level THEN h ELSE level)
    /\ node' = [node EXCEPT ![n] = [key |-> k, value |-> v, ttl |-> t, tms |-> now, height |-> h]]
    /\ alive' = alive \cup {n} /\ now' = now

\* the list with n behind place J
Grown(s, N, J, n) ==
    [i \in 0..(N + 1) |-> IF i <= J THEN s[i] ELSE IF i = J + 1 THEN n ELSE s[i - 1]]

\* the list after an insertion has one node more
LEMMA GrownIs ==
    ASSUME NEW s, NEW N \in Nat, NEW J \in 0..N, NEW n
    PROVE  /\ \A i \in 0..J : Grown(s, N, J, n)[i] = s[i]
           /\ Grown(s, N, J, n)[J + 1] = n
           /\ \A i \in (J + 1)..N : Grown(s, N, J, n)[i + 1] = s[i]
  BY DEF Grown

\* n has got its data, the other nodes keep theirs
Entered(n, h, k, v, t) ==
    /\ \A m \in alive : m # n /\ node'[m] = node[m] /\ m \in Nodes
    /\ node'[n] = [key |-> k, value |-> v, ttl |-> t, tms |-> now, height |-> h]
    /\ n \in Nodes /\ n \notin alive /\ n # TheHead /\ n # NIL
    /\ h \in Levels /\ h \in Nat
    /\ DOMAIN node' = Nodes

\* the fields of one level after set
Entering(s, n, h, U) ==
    \A m \in Places, l \in Levels :
        elem'[m][l] = IF l > h THEN elem[m][l]
                      ELSE IF m = n THEN elem[s[U[l]]][l]
                      ELSE IF m = s[U[l]] THEN n ELSE elem[m][l]

\* what an insertion does to the nodes
LEMMA InsertNodes ==
    ASSUME TypeOK, NEW N, NEW s, NEW J, NEW n, NEW h, NEW U, NEW k, NEW v, NEW t,
           Inserts(s, N, J, n, h, U, k, v, t)
    PROVE  Entered(n, h, k, v, t)
<1>1. n \in Nodes /\ n \notin alive /\ n # TheHead /\ n # NIL
  BY Consts DEF Inserts
<1>2. DOMAIN node = Nodes /\ alive \subseteq Nodes
  BY DEF TypeOK
<1>3. h \in Levels /\ h \in Nat
  BY Consts DEF Inserts, Heights, TypeOK, Levels
<1> QED
  BY <1>1, <1>2, <1>3 DEF Inserts, Entered

\* what an insertion does to the links
LEMMA InsertElem ==
    ASSUME NEW N, NEW s, NEW J, NEW n, NEW h, NEW U, NEW k, NEW v, NEW t,
           Inserts(s, N, J, n, h, U, k, v, t)
    PROVE  Entering(s, n, h, U)
  BY DEF Inserts, Entering

\* the new list is ordered: set passes the nodes of an equal priority
LEMMA InsertOrdered ==
    ASSUME TypeOK, NEW N, NEW s, Shape(s, N), NEW J, NEW n, NEW h, NEW U, NEW k \in Keys, NEW v, NEW t,
           Inserts(s, N, J, n, h, U, k, v, t)
    PROVE  Ordered(Grown(s, N, J, n), N + 1)'
<1> DEFINE w == Grown(s, N, J, n)
<1>0. Entered(n, h, k, v, t)
  BY InsertNodes, Zenon
<1>1. /\ N \in Nat /\ J \in 0..N
      /\ \A i \in 1..N : Before(s[i], Priority[k], TRUE) <=> i <= J
      /\ s \in [0..N -> Places] /\ s[0] = TheHead
      /\ alive' = alive \cup {n}
  BY Zenon DEF Shape, Ordered, Inserts, IsAhead
<1>2. /\ \A i \in 0..J : w[i] = s[i]
      /\ w[J + 1] = n
      /\ \A i \in (J + 1)..N : w[i + 1] = s[i]
  BY <1>1, GrownIs
<1>3. /\ \A i \in 1..N : s[i] \in alive /\ s[i] \in Nodes /\ s[i] # n
      /\ \A m \in alive : \E i \in 1..N : s[i] = m
      /\ \A i, j \in 1..N : s[i] = s[j] => i = j
      /\ n \in Nodes
  BY <1>0, NodesBehind DEF Shape, Ordered, Entered
<1>4. w \in [0..(N + 1) -> Places] /\ w[0] = TheHead
  <2>1. \A i \in 0..(N + 1) : w[i] \in Places
    BY <1>1, <1>3, Consts DEF Grown
  <2>2. w = [i \in 0..(N + 1) |-> w[i]]
    BY DEF Grown
  <2> QED
    BY <1>1, <1>2, <2>1, <2>2
<1>5. \A i \in 1..(N + 1) : (i \in 1..J /\ w[i] = s[i]) \/ (i = J + 1 /\ w[i] = n)
                            \/ (i - 1 \in (J + 1)..N /\ w[i] = s[i - 1])
  BY <1>1 DEF Grown
<1> HIDE DEF w
<1>6. \A i \in 1..(N + 1) : w[i] \in alive'
  BY <1>1, <1>3, <1>5
<1>7. \A m \in alive' : \E i \in 1..(N + 1) : w[i] = m
  <2> SUFFICES ASSUME NEW m \in alive' PROVE \E i \in 1..(N + 1) : w[i] = m
    OBVIOUS
  <2>1. CASE m = n
    BY <1>1, <1>2, <2>1
  <2>2. CASE m \in alive
    <3>1. PICK i \in 1..N : s[i] = m
      BY <1>3, <2>2
    <3>2. CASE i <= J
      BY <1>1, <1>2, <3>1, <3>2
    <3>3. CASE i > J
      <4>1. i \in (J + 1)..N /\ i + 1 \in 1..(N + 1)
        BY <1>1, <3>3
      <4> QED
        BY <1>2, <3>1, <4>1
    <3> QED
      BY <1>1, <3>2, <3>3
  <2> QED
    BY <1>1, <2>1, <2>2
<1>8. \A i, j \in 1..(N + 1) : w[i] = w[j] => i = j
  <2> SUFFICES ASSUME NEW i \in 1..(N + 1), NEW j \in 1..(N + 1), w[i] = w[j] PROVE i = j
    OBVIOUS
  <2> QED
    BY <1>1, <1>3, <1>5, SMTT(20)
<1>9. \A i, j \in 1..(N + 1) : i < j => Prio(w[i])' <= Prio(w[j])'
  <2> DEFINE q(m) == Prio(m)'
  <2>1. \A i \in 1..N : q(s[i]) = Prio(s[i]) /\ Prio(s[i]) \in Nat
    BY <1>0, <1>3, PrioNat DEF Prio, Entered
  <2>2. q(n) = Priority[k] /\ Priority[k] \in Nat
    BY <1>0, PriorityAssumption DEF Prio, Entered
  <2>3. \A i \in 1..N : i <= J => q(s[i]) <= q(n)
    BY <1>1, <2>1, <2>2 DEF Before
  <2>4. \A i \in 1..N : i > J => q(n) <= q(s[i])
    BY <1>1, <2>1, <2>2 DEF Before
  <2>5. \A i, j \in 1..N : i < j => q(s[i]) <= q(s[j])
    BY <2>1 DEF Shape, Ordered
  <2> HIDE DEF q
  <2>6. \A i, j \in 1..(N + 1) : i < j => q(w[i]) <= q(w[j])
    <3> SUFFICES ASSUME NEW i \in 1..(N + 1), NEW j \in 1..(N + 1), i < j PROVE q(w[i]) <= q(w[j])
      OBVIOUS
    <3>1. CASE i \in 1..J /\ w[i] = s[i]
      BY <1>1, <1>5, <2>3, <2>5, <3>1
    <3>2. CASE i = J + 1 /\ w[i] = n
      BY <1>1, <1>5, <2>4, <3>2
    <3>3. CASE i - 1 \in (J + 1)..N /\ w[i] = s[i - 1]
      BY <1>1, <1>5, <2>5, <3>3
    <3> QED
      BY <1>5, <3>1, <3>2, <3>3
  <2> QED
    BY <2>6 DEF q
<1>10. Ordered(w, N + 1)'
  BY <1>4, <1>6, <1>7, <1>8, <1>9 DEF Ordered
<1> QED
  BY <1>10 DEF w

\* one level of the new list is the old one with n in it if n is high enough
LEMMA InsertOpened ==
    ASSUME TypeOK, NEW N, NEW s, Shape(s, N), NEW J, NEW n, NEW h, NEW U, NEW k \in Keys, NEW v, NEW t,
           Inserts(s, N, J, n, h, U, k, v, t), NEW l \in Levels
    PROVE  /\ Opened(s, N, J, n, OnLevel(s, N, l), Grown(s, N, J, n), OnLevel(Grown(s, N, J, n), N + 1, l)')
           /\ J + 1 \in OnLevel(Grown(s, N, J, n), N + 1, l)' <=> l <= h
<1> DEFINE w == Grown(s, N, J, n)
           P == OnLevel(w, N + 1, l)'
<1>0. Entered(n, h, k, v, t)
  BY InsertNodes, Zenon
<1>1. N \in Nat /\ J \in 0..N
  BY DEF Shape, Inserts, IsAhead
<1>2. /\ \A i \in 0..J : w[i] = s[i]
      /\ w[J + 1] = n
      /\ \A i \in (J + 1)..N : w[i + 1] = s[i]
  BY <1>1, GrownIs
<1>3. \A i \in 1..N : s[i] \in alive
  BY NodesBehind
<1>4. OnLevel(s, N, l) \subseteq 1..N
  BY Nested
<1> HIDE DEF w
<1>5. P = {i \in 1..(N + 1) : node'[w[i]].height >= l}
  BY DEF OnLevel
<1> HIDE DEF P
<1>6. \A i \in 1..N : node'[s[i]] = node[s[i]]
  BY <1>0, <1>3 DEF Entered
<1>7. \A i \in 1..J : i \in P <=> i \in OnLevel(s, N, l)
  BY <1>1, <1>2, <1>5, <1>6 DEF OnLevel
<1>8. \A i \in (J + 1)..N : i + 1 \in P <=> i \in OnLevel(s, N, l)
  BY <1>1, <1>2, <1>5, <1>6 DEF OnLevel
<1>9. J + 1 \in P <=> l <= h
  <2>1. node'[w[J + 1]].height = h /\ h \in Nat /\ l \in Nat
    BY <1>0, <1>2, Consts DEF Entered
  <2> QED
    BY <1>1, <1>5, <2>1
<1>10. Opened(s, N, J, n, OnLevel(s, N, l), w, P)
  <2>1. P \subseteq 1..(N + 1)
    BY <1>5
  <2> QED
    BY <1>1, <1>2, <1>4, <1>7, <1>8, <2>1 DEF Opened
<1> QED
  BY <1>9, <1>10 DEF w, P

\* every level leads through the nodes of the new list
LEMMA InsertLinked ==
    ASSUME TypeOK, NEW N, NEW s, Shape(s, N), NEW J, NEW n, NEW h, NEW U, NEW k \in Keys, NEW v, NEW t,
           Inserts(s, N, J, n, h, U, k, v, t)
    PROVE  Linked(Grown(s, N, J, n), N + 1)'
<1> DEFINE w == Grown(s, N, J, n)
<1>0. Entered(n, h, k, v, t)
  BY InsertNodes, Zenon
<1>1. N \in Nat /\ J \in 0..N /\ h \in Nat /\ n \in Places /\ s \in [0..N -> Places]
  BY <1>0, Consts DEF Shape, Ordered, Inserts, IsAhead, Entered
<1>2. Entering(s, n, h, U)
  BY InsertElem, Zenon
<1>3. SUFFICES ASSUME NEW l \in Levels,
                      NEW i \in {0} \cup OnLevel(w, N + 1, l)'
               PROVE  IsNext(elem'[w[i]][l], w, i, OnLevel(w, N + 1, l)')
  <2>1. Linked(w, N + 1)' <=> \A l \in Levels : \A i \in {0} \cup OnLevel(w, N + 1, l)' :
                                 IsNext(elem'[w[i]][l], w, i, OnLevel(w, N + 1, l)')
    BY DEF Linked, IsNext
  <2> QED
    BY <2>1, SMTT(20)
<1> DEFINE O == OnLevel(s, N, l)
           P == OnLevel(w, N + 1, l)'
           K == U[l]
<1>4. Opened(s, N, J, n, O, w, P)
  BY InsertOpened, Zenon
<1>5. J + 1 \in P <=> l <= h
  BY InsertOpened, Zenon
<1>6. IsLast(K, J, O) /\ K \in 0..N /\ O \subseteq 1..N /\ l \in Nat
  BY Nested, Consts DEF Inserts, Lasts
<1>7. \A j \in {0} \cup O : IsNext(elem[s[j]][l], s, j, O)
  BY Zenon DEF Shape, Linked
<1>c. \A a, b \in 0..N : s[a] = s[b] => a = b
  BY NodesBehind, Zenon
<1>8. /\ \A j \in 0..N : s[j] \in Places /\ s[j] # n
      /\ \A a, b \in 0..N : s[a] = s[b] => a = b
  BY <1>0, <1>1, <1>c DEF Shape, Ordered, Entered
<1> HIDE DEF w, O, P, K
<1>a. IsLast(K, J, O)
  BY <1>6
<1>b. \A m \in P : m = J + 1 \/ \E j \in O : m = Up(j, J)
  BY <1>4, OpenedPlaces
<1>9. CASE i = J + 1
  <2>1. w[i] = n
    BY <1>4, <1>9 DEF Opened
  <2>2. i \in P
    BY <1>1, <1>3, <1>9 DEF P
  <2>3. elem'[n][l] = elem[s[K]][l]
    BY <1>1, <1>2, <1>5, <1>6, <1>9, <2>2 DEF Entering, K
  <2>4. IsNext(elem[s[K]][l], s, K, O)
    BY <1>6, <1>7 DEF IsLast
  <2>5. IsNext(elem[s[K]][l], w, J + 1, P)
    BY <1>4, <1>a, <2>4, OpenedNew
  <2> QED
    BY <1>9, <2>1, <2>3, <2>5 DEF P
<1>10. CASE i # J + 1
  <2>1. PICK j \in {0} \cup O : i = Up(j, J)
    <3>1. CASE i = 0
      BY <1>1, <3>1 DEF Up
    <3>2. CASE i \in P
      BY <1>10, <1>b, <3>2, Zenon
    <3> QED
      BY <1>3, <3>1, <3>2 DEF P
  <2>2. j \in 0..N
    BY <1>1, <1>6, <2>1
  <2>3. w[i] = s[j]
    BY <1>1, <1>4, <2>1, <2>2 DEF Opened, Up
  <2>4. IsNext(elem[s[j]][l], s, j, O) /\ s[j] \in Places /\ s[j] # n
    BY <1>7, <1>8, <2>1, <2>2
  <2>5. CASE J + 1 \notin P
    <3>1. elem'[s[j]][l] = elem[s[j]][l]
      BY <1>1, <1>2, <1>5, <1>6, <2>4, <2>5 DEF Entering, K
    <3>2. IsNext(elem[s[j]][l], w, Up(j, J), P)
      BY <1>4, <2>2, <2>4, <2>5, OpenedSame, Zenon
    <3> QED
      BY <2>1, <2>3, <3>1, <3>2 DEF P
  <2>6. CASE J + 1 \in P /\ j = K
    <3>1. elem'[s[j]][l] = n
      BY <1>1, <1>2, <1>5, <1>6, <2>4, <2>6 DEF Entering, K
    <3>2. IsNext(n, w, K, P)
      BY <1>4, <1>a, <2>6, OpenedLast, Zenon
    <3>3. i = K
      BY <1>6, <2>1, <2>6 DEF Up, IsLast
    <3> QED
      BY <2>3, <3>1, <3>2, <3>3 DEF P
  <2>7. CASE J + 1 \in P /\ j # K
    <3>0. s[j] # s[K]
      BY <1>6, <1>8, <2>2, <2>7
    <3>1. elem'[s[j]][l] = elem[s[j]][l]
      BY <1>1, <1>2, <1>5, <1>6, <2>4, <2>7, <3>0 DEF Entering, K
    <3>2. CASE j > J
      <4>1. IsNext(elem[s[j]][l], w, Up(j, J), P)
        BY <1>4, <2>2, <2>4, <3>2, OpenedSame, Zenon
      <4> QED
        BY <2>1, <2>3, <3>1, <4>1 DEF P
    <3>3. CASE ~(j > J)
      <4>1. j < K /\ i = j
        BY <1>1, <1>6, <2>1, <2>2, <2>7, <3>3 DEF IsLast, Up
      <4>2. IsNext(elem[s[j]][l], w, j, P)
        BY <1>4, <1>a, <2>2, <2>4, <4>1, OpenedBefore
      <4> QED
        BY <2>3, <3>1, <4>1, <4>2 DEF P
    <3> QED
      BY <3>2, <3>3
  <2> QED
    BY <2>5, <2>6, <2>7
<1> QED
  BY <1>9, <1>10

\* set keeps what the descents rely on
LEMMA InsertKeeps ==
    ASSUME TypeOK, Capped, LevelInv, NEW N, NEW s, Shape(s, N), NEW J, NEW n, NEW h, NEW U,
           NEW k \in Keys, NEW v \in Values, NEW t \in Ttls, Inserts(s, N, J, n, h, U, k, v, t)
    PROVE  TypeOK' /\ Capped' /\ LevelInv'
<1>0. Entered(n, h, k, v, t)
  BY InsertNodes, Zenon
<1>1. Entering(s, n, h, U)
  BY InsertElem, Zenon
<1>2. /\ h \in Nat /\ h \in Levels /\ level \in Nat /\ level \in Levels /\ Levels \subseteq Nat
      /\ n \in Nodes /\ n \notin alive /\ n \in Places /\ n # TheHead /\ n # NIL
      /\ alive' = alive \cup {n} /\ alive \subseteq Nodes
  BY <1>0, Consts DEF Entered, Inserts, TypeOK
<1>3. \A l \in Levels : \/ U[l] = 0 /\ s[U[l]] = TheHead
                        \/ U[l] \in OnLevel(s, N, l) /\ s[U[l]] \in alive /\ node[s[U[l]]].height >= l
  <2>1. \A l \in Levels : U[l] \in {0} \cup OnLevel(s, N, l)
    BY DEF Inserts, Lasts, IsLast
  <2>2. \A l \in Levels : \A i \in OnLevel(s, N, l) : i \in 1..N /\ node[s[i]].height >= l
    BY DEF OnLevel
  <2>3. s[0] = TheHead /\ \A i \in 1..N : s[i] \in alive
    BY DEF Shape, Ordered
  <2> QED
    BY <2>1, <2>2, <2>3
<1>4. \A l \in Levels : s[U[l]] \in Places
  BY <1>2, <1>3, Consts, Zenon
<1>5. elem \in [Places -> [Levels -> Nodes \cup {NIL}]]
  BY DEF TypeOK
<1>6. elem' \in [Places -> [Levels -> Nodes \cup {NIL}]]
  <2>1. \A m \in Places : \A l \in Levels : elem'[m][l] \in Nodes \cup {NIL}
    BY <1>1, <1>2, <1>4, <1>5 DEF Entering
  <2>2. elem' = [m \in Places |-> [l \in Levels |-> elem'[m][l]]]
    BY DEF Inserts
  <2> QED
    BY <2>1, <2>2
<1>7. \A m \in Nodes \ alive' : elem'[m] = Bare
  <2> SUFFICES ASSUME NEW m \in Nodes \ alive' PROVE elem'[m] = Bare
    OBVIOUS
  <2>1. m \in Nodes \ alive /\ m # n /\ m \in Places /\ m # TheHead
    BY <1>2, Consts
  <2>2. elem[m] = Bare
    BY <2>1 DEF TypeOK
  <2>3. \A l \in Levels : elem'[m][l] = elem[m][l]
    BY <1>1, <1>3, <2>1 DEF Entering
  <2>4. elem'[m] = [l \in Levels |-> elem'[m][l]]
    BY <1>6, <2>1
  <2> QED
    BY <2>2, <2>3, <2>4 DEF Bare
<1>8. Capped'
  <2> SUFFICES ASSUME NEW m \in alive', NEW l \in Levels, l > node'[m].height
               PROVE  elem'[m][l] = NIL
    BY DEF Capped
  <2>1. CASE m = n
    <3>1. l > h
      BY <1>0, <2>1 DEF Entered
    <3>2. elem[n] = Bare
      BY <1>2 DEF TypeOK
    <3> QED
      BY <1>1, <1>2, <2>1, <3>1, <3>2 DEF Entering, Bare
  <2>2. CASE m \in alive
    <3>1. node'[m] = node[m] /\ m # n /\ m \in Places /\ m # TheHead
      BY <1>0, <2>2, Consts, Zenon DEF Entered
    <3>2. elem[m][l] = NIL
      BY <2>2, <3>1 DEF Capped
    <3>3. node[m].height \in Nat /\ l \in Nat
      BY <1>2, <2>2, HeightLevel
    <3>4. m # s[U[l]]
      BY <1>3, <3>1, <3>3
    <3> QED
      BY <1>1, <3>1, <3>2, <3>4 DEF Entering
  <2> QED
    BY <1>2, <2>1, <2>2
<1>9. LevelInv'
  <2>1. level' = (IF h > level THEN h ELSE level)
    BY DEF Inserts
  <2>2. \A l \in Levels : l > level => U[l] = 0 /\ s[U[l]] = TheHead
    BY <1>3, EmptyAbove
  <2>3. ASSUME NEW l \in Levels, l > level' PROVE elem'[TheHead][l] = NIL
    <3>1. l > h /\ l > level
      BY <1>2, <2>1, <2>3
    <3>2. elem[TheHead][l] = NIL
      BY <3>1 DEF LevelInv
    <3> QED
      BY <1>1, <3>1, <3>2, Consts DEF Entering
  <2>4. ASSUME level' > 0 PROVE elem'[TheHead][level'] # NIL
    <3>1. CASE h > level
      <4>1. s[U[h]] = TheHead /\ ~(h > h)
        BY <1>2, <2>2, <3>1
      <4>2. elem'[TheHead][h] = n
        BY <1>1, <1>2, <4>1, Consts DEF Entering
      <4> QED
        BY <1>2, <2>1, <3>1, <4>2
    <3>2. CASE ~(h > level)
      <4>1. elem[TheHead][level] # NIL
        BY <2>1, <2>4, <3>2 DEF LevelInv
      <4>2. elem'[TheHead][level] # NIL
        BY <1>1, <1>2, <4>1, Consts DEF Entering
      <4> QED
        BY <2>1, <3>2, <4>2
    <3> QED
      BY <3>1, <3>2
  <2> QED
    BY <2>3, <2>4 DEF LevelInv
<1>10. TypeOK'
  <2> DEFINE R == [key : Keys \cup {NIL}, value : Values \cup {0}, ttl : Ttls \cup {0},
                   tms : 0..MaxTime, height : Levels]
  <2>1. node \in [Nodes -> R] /\ now \in 0..MaxTime /\ now' = now
    BY DEF TypeOK, Inserts
  <2>2. [key |-> k, value |-> v, ttl |-> t, tms |-> now, height |-> h] \in R
    BY <1>2, <2>1
  <2>3. node' \in [Nodes -> R]
    <3> HIDE DEF R
    <3> QED
      BY <2>1, <2>2 DEF Inserts
  <2>4. \A m \in alive' : node'[m].key \in Keys
    <3>1. \A m \in alive : node'[m] = node[m] /\ node[m].key \in Keys
      BY <1>0 DEF Entered, TypeOK
    <3>2. node'[n].key = k
      BY <1>0 DEF Entered
    <3> QED
      BY <1>2, <3>1, <3>2
  <2>5. \A m \in Nodes \ alive' : node'[m] = NoData
    <3>1. \A m \in Nodes \ alive' : node'[m] = node[m] /\ m \in Nodes \ alive
      BY <1>2, <2>1 DEF Inserts
    <3> QED
      BY <3>1 DEF TypeOK
  <2>6. level' \in Levels
    BY <1>2 DEF Inserts
  <2> QED
    BY <1>2, <1>6, <1>7, <2>1, <2>3, <2>4, <2>5, <2>6 DEF TypeOK
<1> QED
  BY <1>8, <1>9, <1>10

-----------------------------------------------------------------------------
(* kvcache_del removes one.                                                 *)

\* the node behind place J leaves the list on all its levels
Removes(s, M, J, n, U, k) ==
    /\ IsAhead(s, M, Priority[k], FALSE, J) /\ Lasts(U, s, M, J)
    /\ J < M /\ n = s[J + 1] /\ Prio(n) = Priority[k]
    /\ elem' = [m \in Places |->
                  IF m = n THEN Bare
                  ELSE [l \in Levels |-> IF l <= node[n].height /\ m = s[U[l]]
                                         THEN elem[n][l] ELSE elem[m][l]]]
    /\ level' \in 0..level /\ (level' = 0 \/ elem'[TheHead][level'] # NIL)
    /\ \A i \in (level' + 1)..level : elem'[TheHead][i] = NIL
    /\ node' = [node EXCEPT ![n] = NoData] /\ alive' = alive \ {n} /\ now' = now

\* the list without the node behind place J
Shrunk(s, M, J) == [i \in 0..(M - 1) |-> IF i <= J THEN s[i] ELSE s[i + 1]]

\* n has lost its data, the other nodes keep theirs
Left(s, M, J, n) ==
    /\ M \in Nat /\ J \in Nat /\ J < M /\ s \in [0..M -> Places] /\ s[0] = TheHead
    /\ s[J + 1] = n /\ n \in alive /\ n \in Nodes /\ n \in Places /\ n # TheHead /\ n # NIL
    /\ \A i \in 1..M : i = J + 1 \/ (s[i] # n /\ s[i] \in alive /\ s[i] \in Nodes)
    /\ \A m \in alive : m # n => node'[m] = node[m] /\ m \in Nodes
    /\ node'[n] = NoData /\ alive' = alive \ {n}

\* the fields after del
Leaving(s, n, U) ==
    \A m \in Places, l \in Levels :
        m # n => elem'[m][l] = IF l <= node[n].height /\ m = s[U[l]] THEN elem[n][l] ELSE elem[m][l]

\* what a removal does to the nodes
LEMMA RemoveNodes ==
    ASSUME TypeOK, NEW M, NEW s, Shape(s, M), NEW J, NEW n, NEW U, NEW k, Removes(s, M, J, n, U, k)
    PROVE  Left(s, M, J, n)
<1>1. M \in Nat /\ J \in Nat /\ J < M /\ s \in [0..M -> Places] /\ s[0] = TheHead /\ s[J + 1] = n
  <2>1. J \in 0..M /\ J < M /\ n = s[J + 1]
    BY Zenon DEF Removes, IsAhead
  <2>2. M \in Nat /\ s \in [0..M -> Places] /\ s[0] = TheHead
    BY DEF Shape, Ordered
  <2> QED
    BY <2>1, <2>2
<1>2. J + 1 \in 1..M
  BY <1>1
<1>3. n \in alive /\ n \in Nodes /\ n \in Places /\ n # TheHead /\ n # NIL
  BY <1>1, <1>2, NodesBehind, Consts
<1>4. \A i \in 1..M : i = J + 1 \/ (s[i] # n /\ s[i] \in alive /\ s[i] \in Nodes)
  BY <1>1, <1>2, NodesBehind
<1>5. DOMAIN node = Nodes /\ alive \subseteq Nodes
  BY DEF TypeOK
<1> QED
  BY <1>1, <1>3, <1>4, <1>5, Zenon DEF Left, Removes

\* what a removal does to the links
LEMMA RemoveElem ==
    ASSUME NEW M, NEW s, NEW J, NEW n, NEW U, NEW k, Removes(s, M, J, n, U, k)
    PROVE  Leaving(s, n, U)
  BY Zenon DEF Removes, Leaving

\* the list that is left is ordered
LEMMA RemoveOrdered ==
    ASSUME TypeOK, NEW M, NEW s, Shape(s, M), NEW J, NEW n, NEW U, NEW k, Removes(s, M, J, n, U, k)
    PROVE  Ordered(Shrunk(s, M, J), M - 1)'
<1> DEFINE w == Shrunk(s, M, J)
<1>0. Left(s, M, J, n)
  BY RemoveNodes, Zenon
<1>1. /\ M \in Nat /\ J \in Nat /\ J < M /\ s \in [0..M -> Places] /\ s[0] = TheHead
      /\ \A i \in 1..M : i = J + 1 \/ (s[i] # n /\ s[i] \in alive /\ s[i] \in Nodes)
      /\ \A m \in alive : m # n => node'[m] = node[m] /\ m \in Nodes
      /\ alive' = alive \ {n} /\ s[J + 1] = n /\ M - 1 \in Nat
  BY <1>0 DEF Left
<1>2. /\ \A m \in alive : \E i \in 1..M : s[i] = m
      /\ \A i, j \in 1..M : s[i] = s[j] => i = j
      /\ \A i, j \in 1..M : i < j => Prio(s[i]) <= Prio(s[j])
  BY DEF Shape, Ordered
<1>3. \A i \in 0..(M - 1) : w[i] = s[Up(i, J)] /\ Up(i, J) \in 0..M /\ Up(i, J) # J + 1
                            /\ (i > 0 => Up(i, J) \in 1..M)
  BY <1>1 DEF Shrunk, Up
<1>4. w \in [0..(M - 1) -> Places] /\ w[0] = TheHead
  <2>1. \A i \in 0..(M - 1) : w[i] \in Places
    BY <1>1, <1>3
  <2>2. w = [i \in 0..(M - 1) |-> w[i]]
    BY DEF Shrunk
  <2>3. w[0] = s[0]
    BY <1>1 DEF Shrunk
  <2> QED
    BY <1>1, <2>1, <2>2, <2>3
<1>5. \A i, j \in 0..(M - 1) : i < j => Up(i, J) < Up(j, J)
  BY <1>1 DEF Up
<1> HIDE DEF w
<1>6. \A i \in 1..(M - 1) : w[i] \in alive' /\ w[i] \in alive /\ w[i] # n
  BY <1>1, <1>3
<1>7. \A m \in alive' : \E i \in 1..(M - 1) : w[i] = m
  <2> SUFFICES ASSUME NEW m \in alive' PROVE \E i \in 1..(M - 1) : w[i] = m
    OBVIOUS
  <2>1. PICK j \in 1..M : s[j] = m
    BY <1>1, <1>2
  <2>2. j # J + 1
    BY <1>1, <2>1
  <2>3. CASE j <= J
    <3>1. j \in 1..(M - 1) /\ Up(j, J) = j
      BY <1>1, <2>3 DEF Up
    <3> QED
      BY <1>3, <2>1, <3>1
  <2>4. CASE j > J
    <3>1. j - 1 \in 1..(M - 1) /\ Up(j - 1, J) = j
      BY <1>1, <2>2, <2>4 DEF Up
    <3> QED
      BY <1>3, <2>1, <3>1
  <2> QED
    BY <1>1, <2>3, <2>4
<1>8. \A i, j \in 1..(M - 1) : w[i] = w[j] => i = j
  <2> SUFFICES ASSUME NEW i \in 1..(M - 1), NEW j \in 1..(M - 1), w[i] = w[j] PROVE i = j
    OBVIOUS
  <2>0. /\ Up(i, J) \in 1..M /\ s[Up(i, J)] = w[i]
        /\ Up(j, J) \in 1..M /\ s[Up(j, J)] = w[j]
    BY <1>1, <1>3
  <2>1. Up(i, J) = Up(j, J)
    BY <1>2, <2>0, Zenon
  <2>2. ~(i < j) /\ ~(j < i)
    BY <1>1, <1>3, <1>5, <2>1
  <2> QED
    BY <1>1, <2>2
<1>9. \A i, j \in 1..(M - 1) : i < j => Prio(w[i])' <= Prio(w[j])'
  <2>1. \A i \in 1..(M - 1) : Prio(w[i])' = Prio(w[i])
    BY <1>1, <1>6 DEF Prio
  <2>2. \A i, j \in 1..(M - 1) : i < j => Prio(w[i]) <= Prio(w[j])
    BY <1>1, <1>2, <1>3, <1>5, SMTT(20)
  <2> QED
    BY <2>1, <2>2
<1>10. Ordered(w, M - 1)'
  BY <1>4, <1>6, <1>7, <1>8, <1>9 DEF Ordered
<1> QED
  BY <1>10 DEF w

\* one level of the list that is left
LEMMA RemoveOpened ==
    ASSUME TypeOK, NEW M, NEW s, Shape(s, M), NEW J, NEW n, NEW U, NEW k, Removes(s, M, J, n, U, k),
           NEW l \in Levels
    PROVE  /\ Opened(Shrunk(s, M, J), M - 1, J, n, OnLevel(Shrunk(s, M, J), M - 1, l)', s, OnLevel(s, M, l))
           /\ J + 1 \in OnLevel(s, M, l) <=> l <= node[n].height
           /\ IsLast(U[l], J, OnLevel(Shrunk(s, M, J), M - 1, l)')
<1> DEFINE w == Shrunk(s, M, J)
           O == OnLevel(w, M - 1, l)'
           P == OnLevel(s, M, l)
<1>0. Left(s, M, J, n)
  BY RemoveNodes, Zenon
<1>1. /\ M \in Nat /\ M - 1 \in Nat /\ J \in 0..(M - 1) /\ s[J + 1] = n /\ (M - 1) + 1 = M
      /\ \A i \in 1..M : i = J + 1 \/ node'[s[i]] = node[s[i]]
  BY <1>0 DEF Left
<1>2. /\ \A i \in 0..J : w[i] = s[i]
      /\ \A i \in (J + 1)..(M - 1) : w[i] = s[i + 1]
  BY <1>1 DEF Shrunk
<1> HIDE DEF w
<1>3. O = {i \in 1..(M - 1) : node'[w[i]].height >= l} /\ P = {i \in 1..M : node[s[i]].height >= l}
  BY DEF OnLevel
<1> HIDE DEF O, P
<1>4. \A i \in 1..J : i \in P <=> i \in O
  BY <1>1, <1>2, <1>3
<1>5. \A i \in (J + 1)..(M - 1) : i + 1 \in P <=> i \in O
  BY <1>1, <1>2, <1>3
<1>6. J + 1 \in P <=> l <= node[n].height
  <2>1. node[n].height \in Nat /\ l \in Nat
    BY <1>0, HeightLevel, Consts DEF Left
  <2> QED
    BY <1>1, <1>3, <2>1
<1>7. Opened(w, M - 1, J, n, O, s, P)
  <2>1. O \subseteq 1..(M - 1) /\ P \subseteq 1..M
    BY <1>3
  <2> QED
    BY <1>1, <1>2, <1>4, <1>5, <2>1 DEF Opened
<1>8. IsLast(U[l], J, O)
  <2>1. IsLast(U[l], J, P)
    BY Zenon DEF Removes, Lasts, P
  <2>2. U[l] \in {0} \cup P /\ U[l] <= J /\ \A m \in P : m <= U[l] \/ m > J
    BY <2>1 DEF IsLast
  <2>3. U[l] \in {0} \cup O
    <3>1. CASE U[l] \in P
      <4>1. U[l] \in 1..J
        BY <1>1, <1>3, <2>2, <3>1
      <4> QED
        BY <1>4, <3>1, <4>1
    <3> QED
      BY <2>2, <3>1
  <2>4. ASSUME NEW m \in O, ~(m > J) PROVE m <= U[l]
    <3>1. m \in 1..J
      BY <1>1, <1>3, <2>4
    <3> QED
      BY <1>4, <2>2, <2>4, <3>1
  <2> QED
    BY <2>2, <2>3, <2>4 DEF IsLast
<1> QED
  BY <1>6, <1>7, <1>8 DEF w, O, P

\* every level leads through the nodes that are left
LEMMA RemoveLinked ==
    ASSUME TypeOK, NEW M, NEW s, Shape(s, M), NEW J, NEW n, NEW U, NEW k, Removes(s, M, J, n, U, k)
    PROVE  Linked(Shrunk(s, M, J), M - 1)'
<1> DEFINE w == Shrunk(s, M, J)
<1>0. Left(s, M, J, n)
  BY RemoveNodes, Zenon
<1>1. /\ M \in Nat /\ M - 1 \in Nat /\ J \in 0..(M - 1) /\ s[J + 1] = n /\ n \in Places
      /\ s \in [0..M -> Places]
  BY <1>0 DEF Left
<1>2. Leaving(s, n, U)
  BY RemoveElem, Zenon
<1>3. SUFFICES ASSUME NEW l \in Levels,
                      NEW i \in {0} \cup OnLevel(w, M - 1, l)'
               PROVE  IsNext(elem'[w[i]][l], w, i, OnLevel(w, M - 1, l)')
  <2>1. Linked(w, M - 1)' <=> \A l \in Levels : \A i \in {0} \cup OnLevel(w, M - 1, l)' :
                                 IsNext(elem'[w[i]][l], w, i, OnLevel(w, M - 1, l)')
    BY Zenon DEF Linked, IsNext
  <2> QED
    BY <2>1, Zenon
<1> DEFINE O == OnLevel(w, M - 1, l)'
           P == OnLevel(s, M, l)
           K == U[l]
<1>4. Opened(w, M - 1, J, n, O, s, P)
  BY RemoveOpened, Zenon
<1>5. J + 1 \in P <=> l <= node[n].height
  BY RemoveOpened, Zenon
<1>6. IsLast(K, J, O)
  BY RemoveOpened, Zenon
<1>7. \A j \in {0} \cup P : IsNext(elem[s[j]][l], s, j, P)
  BY Zenon DEF Shape, Linked
<1>8. \A a, b \in 0..M : s[a] = s[b] => a = b
  BY NodesBehind, SMTT(20)
<1> HIDE DEF w, O, P, K
<1>9. \A j \in O : Up(j, J) \in P /\ s[Up(j, J)] = w[j]
  BY <1>4, OpenedPlaces
<1>10. i \in 0..(M - 1) /\ Up(i, J) \in 0..M /\ Up(i, J) # J + 1 /\ w[i] = s[Up(i, J)]
  <2>1. i \in 0..(M - 1)
    BY <1>1, <1>3, <1>4 DEF Opened, O
  <2> QED
    BY <1>1, <1>4, <2>1 DEF Opened, Up
<1>11. Up(i, J) \in {0} \cup P
  <2>1. CASE i = 0
    BY <1>1, <2>1 DEF Up
  <2>2. CASE i \in O
    BY <1>9, <2>2
  <2> QED
    BY <1>3, <2>1, <2>2 DEF O
<1>12. w[i] \in Places /\ w[i] # n
  BY <1>1, <1>8, <1>10
<1>13. IsNext(elem[w[i]][l], s, Up(i, J), P)
  BY <1>7, <1>10, <1>11
<1>14. K \in 0..(M - 1) /\ K <= J /\ Up(K, J) = K /\ w[K] = s[K]
  <2>1. K \in 0..(M - 1) /\ K <= J
    BY <1>1, <1>4, <1>6 DEF IsLast, Opened
  <2> QED
    BY <1>1, <1>4, <2>1 DEF Opened, Up
<1>15. CASE J + 1 \notin P
  <2>1. elem'[w[i]][l] = elem[w[i]][l]
    BY <1>2, <1>5, <1>12, <1>15 DEF Leaving
  <2>2. IsNext(elem[w[i]][l], w, i, O)
    BY <1>4, <1>10, <1>13, <1>15, ClosedSame
  <2> QED
    BY <2>1, <2>2 DEF O
<1>16. CASE J + 1 \in P /\ i = K
  <2>1. elem'[w[i]][l] = elem[n][l]
    BY <1>2, <1>5, <1>12, <1>14, <1>16 DEF Leaving, K
  <2>2. IsNext(elem[n][l], s, J + 1, P)
    BY <1>1, <1>7, <1>16
  <2>3. IsNext(elem[n][l], w, K, O)
    BY <1>4, <1>6, <2>2, ClosedLast
  <2> QED
    BY <1>16, <2>1, <2>3 DEF O
<1>17. CASE J + 1 \in P /\ i # K
  <2>1. w[i] # s[K]
    BY <1>1, <1>8, <1>10, <1>14, <1>17 DEF Up
  <2>2. elem'[w[i]][l] = elem[w[i]][l]
    BY <1>2, <1>12, <2>1 DEF Leaving, K
  <2>3. CASE i > J
    <3>1. IsNext(elem[w[i]][l], w, i, O)
      BY <1>4, <1>10, <1>13, <2>3, ClosedSame
    <3> QED
      BY <2>2, <3>1 DEF O
  <2>4. CASE ~(i > J)
    <3>1. i < K /\ Up(i, J) = i
      <4>1. i \in {0} \cup O
        BY <1>3 DEF O
      <4> QED
        BY <1>1, <1>6, <1>10, <1>14, <1>17, <2>4, <4>1 DEF IsLast, Up
    <3>2. IsNext(elem[w[i]][l], s, i, P)
      BY <1>13, <3>1, SMTT(20)
    <3>3. IsNext(elem[w[i]][l], w, i, O)
      BY <1>4, <1>6, <1>10, <3>1, <3>2, ClosedBefore
    <3> QED
      BY <2>2, <3>3 DEF O
  <2> QED
    BY <2>3, <2>4
<1> QED
  BY <1>15, <1>16, <1>17

\* the numbers above a, and not above b
LEMMA Between ==
    ASSUME NEW a \in Nat, NEW b \in Nat, NEW l \in Nat, l > a, ~(l > b)
    PROVE  l \in (a + 1)..b
  OBVIOUS

\* del keeps what the descents rely on
LEMMA RemoveKeeps ==
    ASSUME TypeOK, Capped, LevelInv, NEW M, NEW s, Shape(s, M), NEW J, NEW n, NEW U, NEW k,
           Removes(s, M, J, n, U, k)
    PROVE  TypeOK' /\ Capped' /\ LevelInv'
<1>0. Left(s, M, J, n)
  BY RemoveNodes, Zenon
<1>1. Leaving(s, n, U)
  BY RemoveElem, Zenon
<1>2. /\ level \in Nat /\ level \in Levels /\ Levels \subseteq Nat /\ level' \in 0..level
      /\ n \in Nodes /\ n \in alive /\ n \in Places /\ n # TheHead /\ n # NIL
      /\ alive' = alive \ {n} /\ alive \subseteq Nodes
  BY <1>0, Consts DEF Left, Removes, TypeOK
<1>3. \A l \in Levels : \/ s[U[l]] = TheHead
                        \/ s[U[l]] \in alive /\ node[s[U[l]]].height >= l
  <2>1. \A l \in Levels : U[l] \in {0} \cup OnLevel(s, M, l)
    BY Zenon DEF Removes, Lasts, IsLast
  <2>2. \A l \in Levels : \A i \in OnLevel(s, M, l) : i \in 1..M /\ node[s[i]].height >= l
    BY DEF OnLevel
  <2>3. s[0] = TheHead /\ \A i \in 1..M : s[i] \in alive
    BY DEF Shape, Ordered
  <2> QED
    BY <2>1, <2>2, <2>3
<1>4. elem'[n] = Bare
  BY <1>2, Zenon DEF Removes
<1>5. elem \in [Places -> [Levels -> Nodes \cup {NIL}]]
  BY DEF TypeOK
<1>6. elem' \in [Places -> [Levels -> Nodes \cup {NIL}]]
  <2>1. \A m \in Places : \A l \in Levels : elem'[m][l] \in Nodes \cup {NIL}
    BY <1>1, <1>2, <1>4, <1>5 DEF Leaving, Bare
  <2>2. \A m \in Places : elem'[m] = [l \in Levels |-> elem'[m][l]]
    BY Zenon DEF Removes, Bare
  <2>3. elem' = [m \in Places |-> elem'[m]]
    BY Zenon DEF Removes
  <2>4. \A m \in Places : elem'[m] \in [Levels -> Nodes \cup {NIL}]
    BY <2>1, <2>2, Zenon
  <2> QED
    BY <2>3, <2>4
<1>7. \A m \in Nodes \ alive' : elem'[m] = Bare
  <2> SUFFICES ASSUME NEW m \in Nodes \ alive', m # n PROVE elem'[m] = Bare
    BY <1>4
  <2>1. m \in Nodes \ alive /\ m \in Places /\ m # TheHead
    BY <1>2, Consts
  <2>2. elem[m] = Bare
    BY <2>1 DEF TypeOK
  <2>3. \A l \in Levels : elem'[m][l] = elem[m][l]
    BY <1>1, <1>3, <2>1 DEF Leaving
  <2>4. elem'[m] = [l \in Levels |-> elem'[m][l]]
    BY <1>6, <2>1
  <2> QED
    BY <2>2, <2>3, <2>4 DEF Bare
<1>8. Capped'
  <2> SUFFICES ASSUME NEW m \in alive', NEW l \in Levels, l > node'[m].height
               PROVE  elem'[m][l] = NIL
    BY DEF Capped
  <2>1. m \in alive /\ node'[m] = node[m] /\ m # n /\ m \in Places /\ m # TheHead /\ m \in Nodes
    BY <1>0, <1>2, Consts DEF Left
  <2>2. elem[m][l] = NIL
    BY <2>1 DEF Capped
  <2>3. node[m].height \in Nat /\ l \in Nat
    BY <1>2, <2>1, HeightLevel
  <2>4. m # s[U[l]]
    BY <1>3, <2>1, <2>3
  <2> QED
    BY <1>1, <2>1, <2>2, <2>4 DEF Leaving
<1>9. LevelInv'
  <2>1. node[n].height \in Nat /\ node[n].height <= level
    <3>1. node[n].height \in Levels /\ node[n].height \in Nat
      BY <1>2, HeightLevel
    <3>2. J + 1 \in OnLevel(s, M, node[n].height)
      BY <1>0, <3>1 DEF OnLevel, Left
    <3>3. ~(node[n].height > level)
      BY <3>1, <3>2, EmptyAbove
    <3> QED
      BY <1>2, <3>1, <3>3
  <2>2. ASSUME NEW l \in Levels, l > level' PROVE elem'[TheHead][l] = NIL
    <3>1. CASE l > level
      <4>1. elem[TheHead][l] = NIL
        BY <3>1 DEF LevelInv
      <4>2. ~(l <= node[n].height)
        BY <1>2, <2>1, <3>1
      <4> QED
        BY <1>1, <1>2, <4>1, <4>2, Consts, Zenon DEF Leaving
    <3>2. CASE ~(l > level)
      <4>0. level' \in Nat /\ l \in Nat /\ level \in Nat
        BY <1>2, Consts
      <4>1. l \in (level' + 1)..level
        BY <2>2, <3>2, <4>0, Between, Zenon
      <4> QED
        BY <4>1, Zenon DEF Removes
    <3> QED
      BY <3>1, <3>2
  <2>3. level' > 0 => elem'[TheHead][level'] # NIL
    <3>1. level' = 0 \/ elem'[TheHead][level'] # NIL
      BY Zenon DEF Removes
    <3> QED
      BY <1>2, <3>1
  <2> QED
    BY <2>2, <2>3 DEF LevelInv
<1>10. TypeOK'
  <2> DEFINE R == [key : Keys \cup {NIL}, value : Values \cup {0}, ttl : Ttls \cup {0},
                   tms : 0..MaxTime, height : Levels]
  <2>1. node \in [Nodes -> R] /\ now \in 0..MaxTime /\ now' = now
    BY Zenon DEF TypeOK, Removes
  <2>2. NoData \in R
    BY Consts DEF NoData
  <2>3. node' \in [Nodes -> R]
    <3> HIDE DEF R
    <3> QED
      BY <2>1, <2>2, Zenon DEF Removes
  <2>4. \A m \in alive' : node'[m].key \in Keys
    BY <1>0, <1>2 DEF Left, TypeOK
  <2>5. \A m \in Nodes \ alive' : node'[m] = NoData
    <3>1. \A m \in Nodes \ alive' : m # n => node'[m] = node[m] /\ m \in Nodes \ alive
      BY <1>2, <2>1, Zenon DEF Removes
    <3>2. \A m \in Nodes \ alive : node[m] = NoData
      BY DEF TypeOK
    <3> QED
      BY <1>0, <3>1, <3>2 DEF Left
  <2>6. level' \in Levels
    BY <1>2, Consts DEF Levels
  <2> QED
    BY <1>2, <1>6, <1>7, <2>1, <2>3, <2>4, <2>5, <2>6 DEF TypeOK
<1> QED
  BY <1>8, <1>9, <1>10

-----------------------------------------------------------------------------
(* The entries of a key are a block of the list; what a removal does to them.*)

\* the nodes of k are in places a + 1 to b
IsBlock(s, N, k, a, b) ==
    /\ N \in Nat /\ a \in Nat /\ b \in Nat /\ a <= b /\ b <= N
    /\ \A i \in 1..N : (Prio(s[i]) < Priority[k] <=> i <= a) /\ (Prio(s[i]) <= Priority[k] <=> i <= b)

\* every key has a block, and the entries of the key are those of its nodes
Reads(s, N) ==
    /\ \A k \in Keys : \E a, b : IsBlock(s, N, k, a, b)
    /\ \A k \in Keys : \A a, b : IsBlock(s, N, k, a, b) =>
           Entries[k] = [i \in 1..(b - a) |-> Entry(s[a + i])]

\* Entries is a function on the keys
LEMMA EntriesFun == Entries = [j \in Keys |-> Entries[j]] /\ Entries' = [j \in Keys |-> Entries'[j]]
  BY DEF Entries

\* the oldest entry of a key is that of the first node of its block
LEMMA HeadIs ==
    ASSUME NEW N, NEW s, Reads(s, N), NEW k \in Keys, NEW a, NEW b, IsBlock(s, N, k, a, b)
    PROVE  /\ Entries[k] # <<>> <=> a < b
           /\ a < b => Head(Entries[k]) = Entry(s[a + 1])
<1>1. Entries[k] = [i \in 1..(b - a) |-> Entry(s[a + i])]
  BY DEF Reads
<1>2. a \in Nat /\ b \in Nat /\ a <= b
  BY DEF IsBlock
<1>3. ASSUME a < b PROVE Entries[k] # <<>> /\ Head(Entries[k]) = Entry(s[a + 1])
  <2>1. 1 \in 1..(b - a)
    BY <1>2, <1>3
  <2>2. Entries[k][1] = Entry(s[a + 1])
    BY <1>1, <2>1
  <2>3. DOMAIN Entries[k] # {}
    BY <1>1, <2>1
  <2> QED
    BY <2>2, <2>3
<1>4. ASSUME ~(a < b) PROVE Entries[k] = <<>>
  <2>1. 1..(b - a) = {}
    BY <1>2, <1>4
  <2> QED
    BY <1>1, <2>1
<1> QED
  BY <1>3, <1>4

\* the entries in places a + 1 to b are now in places from c + 1 on
Kept(s, w, M, j, a, b, c, d) ==
    IsBlock(w, M, j, c, d)' /\ \A i \in 1..(b - a) : Entry(w[c + i])' = Entry(s[a + i])

\* w is the list after del; the other nodes keep their entries
Shed(s, M, J, w, k) ==
    /\ M \in Nat /\ J \in Nat /\ J < M
    /\ \A i \in 1..J : w[i] = s[i]
    /\ \A i \in (J + 1)..(M - 1) : w[i] = s[i + 1]
    /\ Prio(s[J + 1]) = Priority[k]
    /\ \A i \in 1..M : i # J + 1 => Prio(s[i])' = Prio(s[i]) /\ Entry(s[i])' = Entry(s[i])
    /\ \A i \in 1..M : Prio(s[i]) \in Nat
    /\ \A i \in 1..M : Prio(s[i]) < Priority[k] <=> i <= J

\* the old place of the nodes of w
LEMMA ShedPlaces ==
    ASSUME NEW s, NEW M, NEW J, NEW w, NEW k, Shed(s, M, J, w, k), NEW i \in 1..(M - 1)
    PROVE  \/ i <= J /\ i \in 1..M /\ Prio(w[i])' = Prio(s[i]) /\ Entry(w[i])' = Entry(s[i])
           \/ i > J /\ i + 1 \in 1..M /\ Prio(w[i])' = Prio(s[i + 1]) /\ Entry(w[i])' = Entry(s[i + 1])
<1>1. M \in Nat /\ J \in Nat /\ J < M
  BY DEF Shed
<1>2. CASE i <= J
  <2>1. i \in 1..M /\ i \in 1..J /\ i # J + 1
    BY <1>1, <1>2
  <2>2. w[i] = s[i]
    BY <2>1 DEF Shed
  <2> QED
    BY <1>2, <2>1, <2>2 DEF Shed
<1>3. CASE i > J
  <2>1. i \in (J + 1)..(M - 1) /\ i + 1 \in 1..M /\ i + 1 # J + 1
    BY <1>1, <1>3
  <2>2. w[i] = s[i + 1]
    BY <2>1 DEF Shed
  <2> QED
    BY <1>3, <2>1, <2>2 DEF Shed
<1> QED
  BY <1>1, <1>2, <1>3

\* a key with less priority keeps its block
LEMMA DelBelow ==
    ASSUME NEW s, NEW M, NEW J, NEW w, NEW k \in Keys, Shed(s, M, J, w, k),
           NEW j \in Keys, NEW a, NEW b, IsBlock(s, M, j, a, b), Priority[j] < Priority[k]
    PROVE  Kept(s, w, M - 1, j, a, b, a, b)
<1>1. /\ M \in Nat /\ J \in Nat /\ J < M /\ a \in Nat /\ b \in Nat /\ a <= b /\ b <= M
      /\ Priority[j] \in Nat /\ Priority[k] \in Nat /\ J + 1 \in 1..M
  BY PriorityAssumption DEF Shed, IsBlock
<1>2. \A i \in 1..M : (Prio(s[i]) < Priority[j] <=> i <= a) /\ (Prio(s[i]) <= Priority[j] <=> i <= b)
  BY DEF IsBlock
<1>3. b <= J
  <2>1. ~(Prio(s[J + 1]) <= Priority[j])
    BY <1>1 DEF Shed
  <2> QED
    BY <1>1, <1>2, <2>1
<1>4. ASSUME NEW i \in 1..(M - 1)
      PROVE  (Prio(w[i])' < Priority[j] <=> i <= a) /\ (Prio(w[i])' <= Priority[j] <=> i <= b)
  <2>1. CASE i <= J /\ i \in 1..M /\ Prio(w[i])' = Prio(s[i])
    BY <1>2, <2>1
  <2>2. CASE i > J /\ i + 1 \in 1..M /\ Prio(w[i])' = Prio(s[i + 1])
    <3>1. ~(i <= a) /\ ~(i <= b) /\ ~(i + 1 <= a) /\ ~(i + 1 <= b)
      BY <1>1, <1>3, <2>2
    <3> QED
      BY <1>2, <2>2, <3>1
  <2> QED
    BY <2>1, <2>2, ShedPlaces
<1>5. IsBlock(w, M - 1, j, a, b)'
  <2>1. M - 1 \in Nat /\ b <= M - 1
    BY <1>1, <1>3
  <2> QED
    BY <1>1, <1>4, <2>1 DEF IsBlock
<1>6. ASSUME NEW i \in 1..(b - a) PROVE Entry(w[a + i])' = Entry(s[a + i])
  <2>1. a + i \in 1..(M - 1) /\ ~(a + i > J)
    BY <1>1, <1>3
  <2> QED
    BY <2>1, ShedPlaces
<1> QED
  BY <1>5, <1>6 DEF Kept

\* that of a key with more priority moves by one place
LEMMA DelAbove ==
    ASSUME NEW s, NEW M, NEW J, NEW w, NEW k \in Keys, Shed(s, M, J, w, k),
           NEW j \in Keys, NEW a, NEW b, IsBlock(s, M, j, a, b), Priority[k] < Priority[j]
    PROVE  a - 1 \in Nat /\ b - 1 \in Nat /\ Kept(s, w, M - 1, j, a, b, a - 1, b - 1)
<1>1. /\ M \in Nat /\ J \in Nat /\ J < M /\ a \in Nat /\ b \in Nat /\ a <= b /\ b <= M
      /\ Priority[j] \in Nat /\ Priority[k] \in Nat /\ J + 1 \in 1..M
  BY PriorityAssumption DEF Shed, IsBlock
<1>2. \A i \in 1..M : (Prio(s[i]) < Priority[j] <=> i <= a) /\ (Prio(s[i]) <= Priority[j] <=> i <= b)
  BY DEF IsBlock
<1>3. J + 1 <= a
  <2>1. Prio(s[J + 1]) < Priority[j]
    BY <1>1 DEF Shed
  <2> QED
    BY <1>1, <1>2, <2>1
<1>4. ASSUME NEW i \in 1..(M - 1)
      PROVE  (Prio(w[i])' < Priority[j] <=> i <= a - 1) /\ (Prio(w[i])' <= Priority[j] <=> i <= b - 1)
  <2>1. CASE i <= J /\ i \in 1..M /\ Prio(w[i])' = Prio(s[i])
    <3>1. i <= a /\ i <= b /\ i <= a - 1 /\ i <= b - 1
      BY <1>1, <1>3, <2>1
    <3> QED
      BY <1>2, <2>1, <3>1
  <2>2. CASE i > J /\ i + 1 \in 1..M /\ Prio(w[i])' = Prio(s[i + 1])
    <3>1. (i + 1 <= a <=> i <= a - 1) /\ (i + 1 <= b <=> i <= b - 1)
      BY <1>1
    <3> QED
      BY <1>2, <2>2, <3>1
  <2> QED
    BY <2>1, <2>2, ShedPlaces
<1>5. M - 1 \in Nat /\ a - 1 \in Nat /\ b - 1 \in Nat /\ a - 1 <= b - 1 /\ b - 1 <= M - 1
  BY <1>1, <1>3
<1>6. IsBlock(w, M - 1, j, a - 1, b - 1)'
  BY <1>4, <1>5 DEF IsBlock
<1>7. ASSUME NEW i \in 1..(b - a) PROVE Entry(w[(a - 1) + i])' = Entry(s[a + i])
  <2>1. (a - 1) + i \in 1..(M - 1) /\ ~((a - 1) + i <= J) /\ ((a - 1) + i) + 1 = a + i
    BY <1>1, <1>3
  <2> QED
    BY <2>1, ShedPlaces
<1> QED
  BY <1>5, <1>6, <1>7 DEF Kept

\* the block of the key of the node loses its first place
LEMMA DelOwn ==
    ASSUME NEW s, NEW M, NEW J, NEW w, NEW k \in Keys, Shed(s, M, J, w, k),
           NEW b, IsBlock(s, M, k, J, b)
    PROVE  J < b /\ Kept(s, w, M - 1, k, J + 1, b, J, b - 1)
<1>1. /\ M \in Nat /\ J \in Nat /\ J < M /\ b \in Nat /\ J <= b /\ b <= M
      /\ Priority[k] \in Nat /\ J + 1 \in 1..M
  BY PriorityAssumption DEF Shed, IsBlock
<1>2. \A i \in 1..M : (Prio(s[i]) < Priority[k] <=> i <= J) /\ (Prio(s[i]) <= Priority[k] <=> i <= b)
  BY DEF IsBlock
<1>3. J + 1 <= b
  <2>1. Prio(s[J + 1]) <= Priority[k]
    BY <1>1 DEF Shed
  <2> QED
    BY <1>1, <1>2, <2>1
<1>4. ASSUME NEW i \in 1..(M - 1)
      PROVE  (Prio(w[i])' < Priority[k] <=> i <= J) /\ (Prio(w[i])' <= Priority[k] <=> i <= b - 1)
  <2>1. CASE i <= J /\ i \in 1..M /\ Prio(w[i])' = Prio(s[i])
    <3>1. i <= b /\ i <= b - 1
      BY <1>1, <1>3, <2>1
    <3> QED
      BY <1>2, <2>1, <3>1
  <2>2. CASE i > J /\ i + 1 \in 1..M /\ Prio(w[i])' = Prio(s[i + 1])
    <3>1. ~(i <= J) /\ ~(i + 1 <= J) /\ (i + 1 <= b <=> i <= b - 1)
      BY <1>1, <2>2
    <3> QED
      BY <1>2, <2>2, <3>1
  <2> QED
    BY <2>1, <2>2, ShedPlaces
<1>5. M - 1 \in Nat /\ b - 1 \in Nat /\ J <= b - 1 /\ b - 1 <= M - 1
  BY <1>1, <1>3
<1>6. IsBlock(w, M - 1, k, J, b - 1)'
  BY <1>1, <1>4, <1>5 DEF IsBlock
<1>7. ASSUME NEW i \in 1..(b - (J + 1)) PROVE Entry(w[J + i])' = Entry(s[(J + 1) + i])
  <2>1. J + i \in 1..(M - 1) /\ ~(J + i <= J) /\ (J + i) + 1 = (J + 1) + i
    BY <1>1, <1>3
  <2> QED
    BY <2>1, ShedPlaces
<1> QED
  BY <1>1, <1>3, <1>6, <1>7 DEF Kept

\* Tail of a sequence given as a function
LEMMA Tailed ==
    ASSUME NEW m \in Nat, m > 0, NEW S, NEW f \in [1..m -> S]
    PROVE  Tail(f) = [i \in 1..(m - 1) |-> f[i + 1]]
<1> DEFINE g == Tail(f)
<1>1. f \in Seq(S) /\ Len(f) = m
  OBVIOUS
<1>2. /\ g \in Seq(S) /\ Len(g) = m - 1
      /\ \A i \in 1..(m - 1) : g[i] = f[i + 1]
  BY <1>1
<1> HIDE DEF g
<1>3. g = [i \in 1..Len(g) |-> g[i]]
  BY <1>2
<1>4. g = [i \in 1..(m - 1) |-> f[i + 1]]
  BY <1>2, <1>3
<1> QED
  BY <1>4 DEF g

\* kvcache_del removes the oldest entry of its key
LEMMA DelEntries ==
    ASSUME NEW s, NEW M, NEW J, NEW w, NEW k \in Keys,
           Shed(s, M, J, w, k), Reads(s, M), Reads(w, M - 1)', now' = now
    PROVE  Store!Del(k)
<1>3. PICK a, b : IsBlock(s, M, k, a, b)
  BY DEF Reads
<1>4. a = J
  <2>1. /\ M \in Nat /\ J \in Nat /\ J < M /\ a \in Nat /\ a <= M
        /\ \A i \in 1..M : i <= a <=> i <= J
    BY <1>3 DEF IsBlock, Shed
  <2> QED
    BY <2>1
<1>5. IsBlock(s, M, k, J, b)
  BY <1>3, <1>4, SMTT(20)
<1>6. ASSUME NEW j \in Keys, j # k PROVE Entries'[j] = Entries[j]
  <2>1. PICK c, d : IsBlock(s, M, j, c, d)
    BY Zenon DEF Reads
  <2>2. c \in Nat /\ d \in Nat
    BY <2>1, SMTT(20) DEF IsBlock
  <2>3. Entries[j] = [i \in 1..(d - c) |-> Entry(s[c + i])]
    BY <2>1 DEF Reads
  <2>4. Priority[j] \in Nat /\ Priority[k] \in Nat /\ Priority[j] # Priority[k]
    BY <1>6, PriorityAssumption, SMTT(20)
  <2>5. CASE Priority[j] < Priority[k]
    <3>0. Kept(s, w, M - 1, j, c, d, c, d)
      BY <2>1, <2>5, DelBelow, Zenon
    <3>1. /\ IsBlock(w, M - 1, j, c, d)'
          /\ \A i \in 1..(d - c) : Entry(w[c + i])' = Entry(s[c + i])
      BY <3>0, SMTT(20) DEF Kept
    <3>2. Entries'[j] = [i \in 1..(d - c) |-> Entry(w[c + i])']
      BY <3>1, SMTT(20) DEF Reads
    <3> QED
      BY <2>3, <3>1, <3>2
  <2>6. CASE Priority[k] < Priority[j]
    <3>0. Kept(s, w, M - 1, j, c, d, c - 1, d - 1)
      BY <2>1, <2>6, DelAbove, Zenon
    <3>1. /\ IsBlock(w, M - 1, j, c - 1, d - 1)'
          /\ \A i \in 1..(d - c) : Entry(w[(c - 1) + i])' = Entry(s[c + i])
      BY <3>0 DEF Kept
    <3>2. Entries'[j] = [i \in 1..((d - 1) - (c - 1)) |-> Entry(w[(c - 1) + i])']
      BY <3>1 DEF Reads
    <3>3. (d - 1) - (c - 1) = d - c
      BY <2>2
    <3> QED
      BY <2>3, <3>1, <3>2, <3>3
  <2> QED
    BY <2>4, <2>5, <2>6, SMTT(20)
<1>7. Entries[k] # <<>> /\ Entries'[k] = Tail(Entries[k])
  <2>1. J < b /\ Kept(s, w, M - 1, k, J + 1, b, J, b - 1)
    BY <1>5, DelOwn, Zenon
  <2>2. J \in Nat /\ b \in Nat
    BY <1>5 DEF IsBlock
  <2>3. Entries[k] = [i \in 1..(b - J) |-> Entry(s[J + i])]
    BY <1>5 DEF Reads
  <2>4. /\ IsBlock(w, M - 1, k, J, b - 1)'
        /\ \A i \in 1..(b - (J + 1)) : Entry(w[J + i])' = Entry(s[(J + 1) + i])
    BY <2>1, SMTT(20) DEF Kept
  <2>5. Entries'[k] = [i \in 1..((b - 1) - J) |-> Entry(w[J + i])']
    BY <2>4 DEF Reads
  <2>6. Tail(Entries[k]) = [i \in 1..((b - J) - 1) |-> Entries[k][i + 1]]
    <3> DEFINE S == {Entry(s[J + i]) : i \in 1..(b - J)}
    <3>1. b - J \in Nat /\ b - J > 0 /\ \A i \in 1..(b - J) : Entry(s[J + i]) \in S
      BY <2>1, <2>2
    <3> HIDE DEF S
    <3>2. Entries[k] \in [1..(b - J) -> S]
      BY <2>3, <3>1
    <3> QED
      BY <3>1, <3>2, Tailed
  <2>7. (b - 1) - J = (b - J) - 1 /\ b - (J + 1) = (b - J) - 1
    BY <2>2, SMTT(20)
  <2>8. ASSUME NEW i \in 1..((b - J) - 1) PROVE Entry(w[J + i])' = Entries[k][i + 1]
    <3>1. i + 1 \in 1..(b - J) /\ J + (i + 1) = (J + 1) + i
      BY <2>1, <2>2
    <3>2. Entries[k][i + 1] = Entry(s[(J + 1) + i])
      BY <2>3, <3>1, SMTT(20)
    <3> QED
      BY <2>4, <2>7, <3>2
  <2>9. Entries[k] # <<>>
    BY <1>5, <2>1, HeadIs
  <2> QED
    BY <2>5, <2>6, <2>7, <2>8, <2>9, Zenon
<1>9. Store!Has(k)
  BY <1>7 DEF Store!Has
<1>10. Entries' = [Entries EXCEPT ![k] = IF Store!Has(k) THEN Tail(@) ELSE @]
  BY <1>6, <1>7, <1>9, EntriesFun
<1> QED
  BY <1>10, SMTT(20) DEF Store!Del
=============================================================================
