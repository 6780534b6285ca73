--------------------------- MODULE KvSearchProofs ---------------------------
(***************************************************************************)
(* Proofs about the skip list of KvCache, second part: what the search     *)
(* finds, and that every operation keeps the invariant.                    *)
(* The search of a level stops at the last place of s before a priority,   *)
(* wherever it enters the level, so the path that Update finds is the one  *)
(* that linking and unlinking need. That s has room in the bounded list    *)
(* follows from the pigeonhole principle, which is proved here from the    *)
(* least number principle. The second half shows that List, Length and     *)
(* Ahead, by which the properties of KvCache walk the list, are s, N and   *)
(* the number of places before a priority.                                 *)
(***************************************************************************)
EXTENDS KvListProofs, WellFoundedInduction

-----------------------------------------------------------------------------
(* Induction over the places of a list.                                     *)

\* a set of natural numbers has a least element
LEMMA LeastNat ==
    ASSUME NEW S, S \subseteq Nat, S # {}
    PROVE  \E x \in S : \A y \in S : x <= y
<1> DEFINE R == OpToRel(<, Nat)
<1>1. \A i, j \in Nat : i < j => <<i, j>> \in R
  BY DEF OpToRel
<1>2. IsWellFoundedOn(R, Nat)
  BY NatLessThanWellFounded, Zenon
<1> HIDE DEF R
<1>3. PICK x \in S : \A y \in S : <<y, x>> \notin R
  BY <1>2, WFMin, Zenon
<1>4. \A y \in S : ~(y < x)
  BY <1>1, <1>3, Zenon
<1> QED
  BY <1>4

\* a set of natural numbers up to m has a greatest element
LEMMA GreatestNat ==
    ASSUME NEW m \in Nat, NEW S, S \subseteq 0..m, S # {}
    PROVE  \E x \in S : \A y \in S : y <= x
<1> DEFINE T == {m - x : x \in S}
<1>1. T \subseteq Nat
  OBVIOUS
<1>0. T # {}
  BY Zenon
<1>2. PICK d \in T : \A e \in T : d <= e
  BY <1>0, <1>1, LeastNat, Zenon
<1>3. PICK x \in S : d = m - x
  OBVIOUS
<1>4. \A y \in S : m - x <= m - y
  BY <1>2, <1>3
<1> QED
  BY <1>4

\* what holds at i when it holds above i holds from 0 to m
LEMMA Downward ==
    ASSUME NEW m \in Nat, NEW S,
           \A i \in 0..m : (\A j \in 0..m : j > i => j \in S) => i \in S
    PROVE  \A i \in 0..m : i \in S
<1> SUFFICES ASSUME (0..m) \ S # {} PROVE FALSE
  OBVIOUS
<1>1. PICK i \in (0..m) \ S : \A j \in (0..m) \ S : j <= i
  BY GreatestNat, Zenon
<1> QED
  BY <1>1

\* what holds at i when it holds below i holds from 0 to m
LEMMA Upward ==
    ASSUME NEW m \in Nat, NEW S,
           \A i \in 0..m : (\A j \in 0..m : j < i => j \in S) => i \in S
    PROVE  \A i \in 0..m : i \in S
<1> SUFFICES ASSUME (0..m) \ S # {} PROVE FALSE
  OBVIOUS
<1>0. (0..m) \ S \subseteq Nat
  OBVIOUS
<1>1. PICK i \in (0..m) \ S : \A j \in (0..m) \ S : i <= j
  BY <1>0, LeastNat, Zenon
<1> QED
  BY <1>1

\* places that all name different ones of m nodes are not more than m
LEMMA Pigeonhole ==
    ASSUME NEW m \in Nat, NEW N \in Nat, NEW s,
           \A i \in 1..N : s[i] \in 1..m,
           \A i, j \in 1..N : s[i] = s[j] => i = j
    PROVE  N <= m
<1> DEFINE Crowds(f, x) == /\ \A i \in 1..(x + 1) : f[i] \in 1..x
                           /\ \A i, j \in 1..(x + 1) : f[i] = f[j] => i = j
           S == {x \in Nat : \E f : Crowds(f, x)}
<1>1. ASSUME NEW x \in S PROVE \E y \in S : y < x
  <2>1. PICK f : Crowds(f, x)
    OBVIOUS
  <2>2. x \in Nat /\ x # 0 /\ f[x + 1] \in 1..x
    BY <2>1
  <2> DEFINE g == [i \in 1..x |-> IF f[i] = x THEN f[x + 1] ELSE f[i]]
  <2>3. \A i \in 1..x : f[i] \in 1..x /\ f[i] # f[x + 1]
    BY <2>1, <2>2
  <2>4. \A i \in 1..x : g[i] \in 1..(x - 1)
    BY <2>2, <2>3
  <2>5. \A i, j \in 1..x : f[i] = f[j] => i = j
    BY <2>1, <2>2
  <2>6. \A i, j \in 1..x : g[i] = g[j] => i = j
    BY <2>3, <2>5
  <2>7. x - 1 \in Nat /\ (x - 1) + 1 = x /\ x - 1 < x
    BY <2>2
  <2> HIDE DEF g
  <2>8. Crowds(g, x - 1)
    BY <2>4, <2>6, <2>7
  <2> QED
    BY <2>7, <2>8
<1>2. S \subseteq Nat
  OBVIOUS
<1>3. m \notin S
  <2> HIDE DEF S
  <2> SUFFICES ASSUME S # {} PROVE FALSE
    OBVIOUS
  <2>1. PICK x \in S : \A y \in S : x <= y
    BY <1>2, LeastNat, Zenon
  <2> QED
    BY <1>1, <1>2, <2>1
<1>4. ASSUME ~(N <= m) PROVE Crowds(s, m)
  BY <1>4
<1> QED
  BY <1>3, <1>4

\* there are no more places than nodes
LEMMA NodesFit == ASSUME TypeOK, NEW N, NEW s, Shape(s, N) PROVE N \in 0..MaxNodes
<1>1. /\ N \in Nat
      /\ \A i \in 1..N : s[i] \in 1..MaxNodes
      /\ \A i, j \in 1..N : s[i] = s[j] => i = j
  BY Zenon DEF Shape, Ordered, TypeOK, Nodes
<1>2. MaxNodes \in Nat
  BY BoundAssumption
<1>3. N <= MaxNodes
  BY <1>1, <1>2, Pigeonhole, Zenon
<1> QED
  BY <1>1, <1>2, <1>3

-----------------------------------------------------------------------------
(* The search finds the last node before a priority on each level.          *)

\* the nodes before a priority are the first ones, since the list is ordered
LEMMA AheadExists ==
    ASSUME TypeOK, NEW N, NEW s, Shape(s, N), NEW p \in Nat, NEW equal
    PROVE  \E J : IsAhead(s, N, p, equal, J)
<1> DEFINE G == {i \in 0..N : i = 0 \/ Before(s[i], p, equal)}
<1>0. N \in Nat /\ 0 \in G /\ G \subseteq 0..N
  BY DEF Shape
<1>1. PICK J \in G : \A i \in G : i <= J
  BY <1>0, GreatestNat, Zenon
<1>2. \A i \in 1..N : Prio(s[i]) \in Nat
  BY PrioNat, NodesBehind
<1>3. ASSUME NEW i \in 1..N PROVE Before(s[i], p, equal) <=> i <= J
  <2>1. CASE J < i
    BY <1>0, <1>1, <2>1
  <2>2. CASE J = i
    BY <1>1, <2>2
  <2>3. CASE i < J
    <3>1. J \in 1..N /\ Before(s[J], p, equal)
      BY <1>0, <1>1, <2>3
    <3>2. Prio(s[i]) <= Prio(s[J])
      BY <2>3, <3>1 DEF Shape, Ordered
    <3> QED
      BY <1>2, <2>3, <3>1, <3>2 DEF Before
  <2> QED
    BY <1>0, <2>1, <2>2, <2>3
<1> QED
  BY <1>0, <1>1, <1>3, Zenon DEF IsAhead

\* below a bound there is a last place of a level, the head if no other
LEMMA LastExists ==
    ASSUME NEW N \in Nat, NEW on, on \subseteq 1..N, NEW J \in 0..N
    PROVE  \E K \in 0..N : IsLast(K, J, on)
<1> DEFINE G == {i \in {0} \cup on : i <= J}
<1>0. 0 \in G
  OBVIOUS
<1>1. G \subseteq 0..N
  <2>1. \A i \in {0} \cup on : i \in 0..N
    OBVIOUS
  <2> QED
    BY <2>1, Zenon
<1>2. PICK K \in G : \A i \in G : i <= K
  BY <1>0, <1>1, GreatestNat, Zenon
<1>3. \A m \in on : m <= K \/ m > J
  BY <1>2
<1> QED
  BY <1>1, <1>2, <1>3 DEF IsLast

\* what one turn of the inner loop finds: the last place before the priority, or a later one
LEMMA WalkStep ==
    ASSUME TypeOK, NEW N, NEW s, Shape(s, N), NEW p, NEW equal, NEW J, IsAhead(s, N, p, equal, J),
           NEW l \in Levels, NEW K, IsLast(K, J, OnLevel(s, N, l)),
           NEW i \in {0} \cup OnLevel(s, N, l), i <= K
    PROVE  \/ i = K /\ ~(elem[s[i]][l] # NIL /\ Before(elem[s[i]][l], p, equal))
           \/ \E j \in OnLevel(s, N, l) : /\ i < j /\ j <= K
                                          /\ elem[s[i]][l] = s[j] /\ s[j] # NIL
                                          /\ Before(s[j], p, equal)
<1> DEFINE on == OnLevel(s, N, l)
<1>0. /\ N \in Nat /\ on \subseteq 1..N /\ J \in 0..N /\ K \in 0..N /\ i \in 0..N
      /\ K \in {0} \cup on /\ K <= J /\ \A m \in on : m <= K \/ m > J
      /\ \A m \in 1..N : Before(s[m], p, equal) <=> m <= J
  BY DEF Shape, OnLevel, IsLast, IsAhead
<1>1. IsNext(elem[s[i]][l], s, i, on)
  BY DEF Shape, Linked
<1>2. \A j \in on : s[j] # NIL
  BY <1>0, NodesBehind
<1> HIDE DEF on
<1>3. CASE elem[s[i]][l] = NIL /\ \A j \in on : j <= i
  BY <1>0, <1>3
<1>4. ASSUME NEW j \in on, j > i, elem[s[i]][l] = s[j], \A m \in on : m <= i \/ j <= m
      PROVE  \/ i = K /\ ~(elem[s[i]][l] # NIL /\ Before(elem[s[i]][l], p, equal))
             \/ \E k \in on : /\ i < k /\ k <= K
                              /\ elem[s[i]][l] = s[k] /\ s[k] # NIL
                              /\ Before(s[k], p, equal)
  <2>1. CASE j <= J
    <3>1. j <= K /\ Before(s[j], p, equal)
      BY <1>0, <2>1
    <3> QED
      BY <1>2, <1>4, <3>1
  <2>2. CASE j > J
    <3>1. ~Before(s[j], p, equal) /\ i = K
      BY <1>0, <1>4, <2>2
    <3> QED
      BY <1>4, <3>1
  <2> QED
    BY <1>0, <2>1, <2>2
<1> QED
  BY <1>1, <1>3, <1>4 DEF IsNext, on

\* the inner loop, from a place on level l that is not behind K, ends at K
LEMMA WalkIs ==
    ASSUME TypeOK, Capped, NEW N, NEW s, Shape(s, N), NEW p, NEW equal,
           NEW J, IsAhead(s, N, p, equal, J),
           NEW l \in Levels, NEW K, IsLast(K, J, OnLevel(s, N, l))
    PROVE  \A i \in {0} \cup OnLevel(s, N, l) : i <= K => Along(l, p, equal)[s[i]] = s[K]
<1> DEFINE on == OnLevel(s, N, l)
           Goes(n) == elem[n][l] # NIL /\ Before(elem[n][l], p, equal)
           P(f) == f = [n \in Places |-> IF Goes(n) THEN f[elem[n][l]] ELSE n]
           W == [n \in Places |-> IF \E i \in {0} \cup on : s[i] = n /\ i <= K THEN s[K] ELSE n]
<1>0. /\ N \in Nat /\ on \subseteq 1..N /\ J \in 0..N /\ K \in 0..N
      /\ K \in {0} \cup on /\ K <= J /\ \A m \in on : m <= K \/ m > J
      /\ \A m \in 1..N : Before(s[m], p, equal) <=> m <= J
      /\ \A i \in 0..N : s[i] \in Places
  BY DEF Shape, OnLevel, IsLast, IsAhead, Ordered
<1>1. \A i \in {0} \cup on : i <= K =>
         \/ i = K /\ ~Goes(s[i])
         \/ \E j \in on : i < j /\ j <= K /\ elem[s[i]][l] = s[j] /\ Goes(s[i])
  <2> SUFFICES ASSUME NEW i \in {0} \cup on, i <= K
               PROVE  \/ i = K /\ ~Goes(s[i])
                      \/ \E j \in on : i < j /\ j <= K /\ elem[s[i]][l] = s[j] /\ Goes(s[i])
    OBVIOUS
  <2>1. \/ i = K /\ ~(elem[s[i]][l] # NIL /\ Before(elem[s[i]][l], p, equal))
        \/ \E j \in OnLevel(s, N, l) : /\ i < j /\ j <= K
                                       /\ elem[s[i]][l] = s[j] /\ s[j] # NIL
                                       /\ Before(s[j], p, equal)
    BY WalkStep
  <2> QED
    BY <2>1
<1>2. ASSUME NEW n \in Places, ~\E i \in {0} \cup on : s[i] = n /\ i <= K
      PROVE  ~Goes(n)
  <2> SUFFICES ASSUME elem[n][l] # NIL PROVE ~Before(elem[n][l], p, equal)
    OBVIOUS
  <2>1. n # TheHead
    BY <1>0, <1>2 DEF Shape, Ordered
  <2>2. n \in alive
    BY <2>1 DEF TypeOK, Places, Bare
  <2>3. PICK i \in 1..N : s[i] = n
    BY <2>2 DEF Shape, Ordered
  <2>4. i \in on
    <3>1. ~(l > node[n].height)
      BY <2>2 DEF Capped
    <3>2. l \in Int /\ node[n].height \in Int
      BY <2>2, HeightLevel, Consts DEF TypeOK
    <3> QED
      BY <2>3, <3>1, <3>2 DEF OnLevel
  <2>5. i > J
    BY <1>0, <1>2, <2>3, <2>4
  <2>6. IsNext(elem[s[i]][l], s, i, on)
    BY <2>4 DEF Shape, Linked
  <2>7. PICK j \in on : j > i /\ elem[n][l] = s[j]
    BY <2>3, <2>6 DEF IsNext
  <2> QED
    BY <1>0, <2>5, <2>7
<1> HIDE DEF Goes, on
<1>3. \A i \in {0} \cup on : i <= K => W[s[i]] = s[K]
  BY <1>0
<1>4. \A n \in Places : W[n] = IF Goes(n) THEN W[elem[n][l]] ELSE n
  <2> SUFFICES ASSUME NEW n \in Places PROVE W[n] = IF Goes(n) THEN W[elem[n][l]] ELSE n
    OBVIOUS
  <2>1. CASE ~\E i \in {0} \cup on : s[i] = n /\ i <= K
    BY <1>2, <2>1
  <2>2. ASSUME NEW i \in {0} \cup on, s[i] = n, i <= K
        PROVE  W[n] = IF Goes(n) THEN W[elem[n][l]] ELSE n
    <3>1. W[n] = s[K]
      BY <1>3, <2>2
    <3> HIDE DEF W
    <3>2. CASE i = K /\ ~Goes(s[i])
      BY <2>2, <3>1, <3>2
    <3>3. ASSUME NEW j \in on, i < j, j <= K, elem[s[i]][l] = s[j], Goes(s[i])
          PROVE  W[n] = IF Goes(n) THEN W[elem[n][l]] ELSE n
      BY <1>3, <2>2, <3>1, <3>3, Zenon
    <3> QED
      BY <1>1, <2>2, <3>2, <3>3
  <2> QED
    BY <2>1, <2>2
<1>5. P(W)
  <2> DEFINE V == [n \in Places |-> IF Goes(n) THEN W[elem[n][l]] ELSE n]
  <2>1. W = [n \in Places |-> W[n]] 
    OBVIOUS
  <2>2. \A n \in Places : W[n] = V[n]
    BY <1>4
  <2> HIDE DEF W
  <2>3. W = V
    BY <2>1, <2>2
  <2> QED
    BY <2>3
<1> DEFINE f == Along(l, p, equal)
<1>6. f = CHOOSE g : P(g)
  BY Zenon DEF Along, Goes
<1>7. P(f)
  <2> HIDE DEF P, W, f
  <2> QED
    BY <1>5, <1>6, Zenon
<1>8. \A n \in Places : f[n] = IF Goes(n) THEN f[elem[n][l]] ELSE n
  BY <1>7, Zenon
<1> HIDE DEF f, P, W
<1> DEFINE S == {i \in 0..K : i \in {0} \cup on => f[s[i]] = s[K]}
<1>9. ASSUME NEW i \in 0..K, \A j \in 0..K : j > i => j \in S
      PROVE  i \in S
  <2> SUFFICES ASSUME i \in {0} \cup on PROVE f[s[i]] = s[K]
    OBVIOUS
  <2>1. s[i] \in Places
    BY <1>0
  <2>2. CASE i = K /\ ~Goes(s[i])
    BY <1>8, <2>1, <2>2
  <2>3. ASSUME NEW j \in on, i < j, j <= K, elem[s[i]][l] = s[j], Goes(s[i])
        PROVE  f[s[i]] = s[K]
    <3>1. j \in 0..K /\ j > i
      BY <1>0, <2>3
    <3>2. f[s[j]] = s[K]
      BY <1>9, <3>1
    <3> QED
      BY <1>8, <2>1, <2>3, <3>2
  <2> QED
    BY <1>1, <2>2, <2>3
<1>10. \A i \in 0..K : i \in S
  <2> HIDE DEF S
  <2>1. K \in Nat
    BY <1>0
  <2> QED
    BY <1>9, <2>1, Downward
<1> QED
  BY <1>0, <1>10 DEF f, on

\* every level has a last place before a given one
LEMMA LastsExist ==
    ASSUME TypeOK, NEW N, NEW s, Shape(s, N), NEW J \in 0..N
    PROVE  \E U : Lasts(U, s, N, J)
<1> DEFINE U == [l \in Levels |-> CHOOSE K \in 0..N : IsLast(K, J, OnLevel(s, N, l))]
<1>0. N \in Nat
  BY DEF Shape
<1>1. ASSUME NEW l \in Levels PROVE \E K \in 0..N : IsLast(K, J, OnLevel(s, N, l))
  <2>1. OnLevel(s, N, l) \subseteq 1..N
    BY Nested
  <2> QED
    BY <1>0, <2>1, LastExists
<1>2. \A l \in Levels : IsLast(U[l], J, OnLevel(s, N, l)) /\ U[l] \in 0..N
  BY <1>1, Zenon
<1> HIDE DEF U
<1> QED
  BY <1>2, Zenon DEF Lasts

\* the descent finds these places, level by level
LEMMA UpdateIs ==
    ASSUME TypeOK, Capped, NEW N, NEW s, Shape(s, N), NEW p, NEW equal,
           NEW J, IsAhead(s, N, p, equal, J), NEW U, Lasts(U, s, N, J)
    PROVE  \A l \in 0..level : Update(p, equal)[l] = s[U[l]]
<1> DEFINE A(l) == Along(l, p, equal)
           P(f) == f = [l \in 0..level |-> Along(l, p, equal)[IF l = level THEN TheHead ELSE f[l + 1]]]
           W == [l \in 0..level |-> s[U[l]]]
<1>0. level \in Nat /\ level \in Levels /\ 0..level \subseteq Levels
  BY Consts DEF TypeOK, Levels
<1>1. A(level)[TheHead] = s[U[level]]
  <2>1. IsLast(U[level], J, OnLevel(s, N, level)) /\ U[level] \in 0..N
    BY <1>0 DEF Lasts
  <2>2. \A i \in {0} \cup OnLevel(s, N, level) : i <= U[level] => A(level)[s[i]] = s[U[level]]
    BY <1>0, <2>1, WalkIs
  <2>3. 0 <= U[level] /\ s[0] = TheHead
    BY <2>1 DEF Shape, Ordered
  <2> QED
    BY <2>2, <2>3
<1>2. ASSUME NEW l \in 0..level, l # level PROVE l + 1 \in 0..level /\ A(l)[s[U[l + 1]]] = s[U[l]]
  <2>0. l \in Levels /\ l + 1 \in Levels /\ l + 1 \in 0..level /\ l <= l + 1
    BY <1>0, <1>2
  <2>1. /\ IsLast(U[l], J, OnLevel(s, N, l)) /\ U[l] \in 0..N
        /\ IsLast(U[l + 1], J, OnLevel(s, N, l + 1)) /\ U[l + 1] \in 0..N
    BY <2>0 DEF Lasts
  <2>2. \A i \in {0} \cup OnLevel(s, N, l) : i <= U[l] => A(l)[s[i]] = s[U[l]]
    BY <2>0, <2>1, WalkIs
  <2>3. U[l + 1] \in {0} \cup OnLevel(s, N, l)
    BY <2>0, <2>1, Nested DEF IsLast
  <2>4. U[l + 1] <= U[l]
    <3>1. J \in 0..N
      BY DEF IsAhead
    <3> QED
      BY <2>1, <2>3, <3>1 DEF IsLast
  <2> QED
    BY <2>0, <2>2, <2>3, <2>4, Zenon
<1>3. P(W)
  <2>1. \A l \in 0..level : W[l] = Along(l, p, equal)[IF l = level THEN TheHead ELSE W[l + 1]]
    <3> SUFFICES ASSUME NEW l \in 0..level
                 PROVE  W[l] = Along(l, p, equal)[IF l = level THEN TheHead ELSE W[l + 1]]
      OBVIOUS
    <3>1. CASE l = level
      BY <1>1, <3>1
    <3>2. CASE l # level
      BY <1>2, <3>2
    <3> QED
      BY <3>1, <3>2
  <2> DEFINE V == [l \in 0..level |-> Along(l, p, equal)[IF l = level THEN TheHead ELSE W[l + 1]]]
  <2>2. W = [l \in 0..level |-> W[l]]
    OBVIOUS
  <2>3. \A l \in 0..level : W[l] = V[l]
    BY <2>1
  <2> HIDE DEF W
  <2>4. W = V
    BY <2>2, <2>3
  <2> QED
    BY <2>4, Zenon
<1> DEFINE f == Update(p, equal)
<1>4. f = CHOOSE g : P(g)
  BY Zenon DEF Update
<1>5. P(f)
  <2> HIDE DEF P, W, f
  <2> QED
    BY <1>3, <1>4, Zenon
<1>6. \A l \in 0..level : f[l] = A(l)[IF l = level THEN TheHead ELSE f[l + 1]]
  BY <1>5, Zenon
<1> HIDE DEF f, P, W, A
<1> DEFINE S == {l \in 0..level : f[l] = s[U[l]]}
<1>7. ASSUME NEW l \in 0..level, \A j \in 0..level : j > l => j \in S
      PROVE  l \in S
  <2>1. CASE l = level
    BY <1>1, <1>6, <2>1
  <2>2. CASE l # level
    <3>1. l + 1 \in 0..level /\ A(l)[s[U[l + 1]]] = s[U[l]]
      BY <1>2, <2>2
    <3>2. f[l + 1] = s[U[l + 1]]
      BY <1>7, <3>1
    <3> QED
      BY <1>6, <2>2, <3>1, <3>2
  <2> QED
    BY <2>1, <2>2
<1>8. \A l \in 0..level : l \in S
  <2> HIDE DEF S
  <2> QED
    BY <1>0, <1>7, Downward
<1> QED
  BY <1>8 DEF f

\* the loop behind the descents looks at one node only: a priority tells its key
LEMMA MatchIs ==
    ASSUME TypeOK, NEW k \in Keys
    PROVE  /\ Match(k)[NIL] = NIL
           /\ \A n \in alive : Match(k)[n] = IF Prio(n) = Priority[k] THEN n ELSE NIL
<1> DEFINE D == Nodes \cup {NIL}
           P(f) == f = [n \in Nodes \cup {NIL} |->
                          IF n = NIL \/ Prio(n) # Priority[k] THEN NIL
                          ELSE IF node[n].key = k THEN n ELSE f[elem[n][0]]]
           W == [n \in D |-> IF n = NIL \/ Prio(n) # Priority[k] THEN NIL
                             ELSE IF node[n].key = k THEN n ELSE NIL]
<1>1. \A n \in alive : Prio(n) = Priority[k] => node[n].key = k
  BY PriorityAssumption DEF TypeOK, Prio
<1>2. \A n \in Nodes : Prio(n) = Priority[k] /\ node[n].key # k => elem[n][0] = NIL
  BY <1>1, Consts DEF TypeOK, Bare
<1>3. W[NIL] = NIL
  OBVIOUS
<1>4. \A n \in D : W[n] = IF n = NIL \/ Prio(n) # Priority[k] THEN NIL
                          ELSE IF node[n].key = k THEN n ELSE W[elem[n][0]]
  <2> SUFFICES ASSUME NEW n \in D
               PROVE  W[n] = IF n = NIL \/ Prio(n) # Priority[k] THEN NIL
                             ELSE IF node[n].key = k THEN n ELSE W[elem[n][0]]
    OBVIOUS
  <2>1. CASE n = NIL \/ Prio(n) # Priority[k] \/ node[n].key = k
    BY <2>1
  <2>2. CASE ~(n = NIL \/ Prio(n) # Priority[k] \/ node[n].key = k)
    <3>1. elem[n][0] = NIL
      BY <1>2, <2>2
    <3>2. W[n] = NIL
      BY <2>2
    <3> HIDE DEF W
    <3> QED
      BY <1>3, <2>2, <3>1, <3>2
  <2> QED
    BY <2>1, <2>2
<1>5. P(W)
  <2> DEFINE V == [n \in D |-> IF n = NIL \/ Prio(n) # Priority[k] THEN NIL
                               ELSE IF node[n].key = k THEN n ELSE W[elem[n][0]]]
  <2>1. W = [n \in D |-> W[n]]
    OBVIOUS
  <2>2. \A n \in D : W[n] = V[n]
    BY <1>4, Zenon
  <2> HIDE DEF W
  <2>3. W = V
    BY <2>1, <2>2, Zenon
  <2> QED
    BY <2>3
<1> DEFINE f == Match(k)
<1>6. f = CHOOSE g : P(g)
  BY Zenon DEF Match
<1>7. P(f)
  <2> HIDE DEF P, W, f
  <2> QED
    BY <1>5, <1>6, Zenon
<1>8. \A n \in D : f[n] = IF n = NIL \/ Prio(n) # Priority[k] THEN NIL
                          ELSE IF node[n].key = k THEN n ELSE f[elem[n][0]]
  BY <1>7, Zenon
<1> HIDE DEF f, P, W
<1>9. f[NIL] = NIL
  BY <1>8
<1>10. ASSUME NEW n \in alive PROVE f[n] = IF Prio(n) = Priority[k] THEN n ELSE NIL
  <2>1. n \in D /\ n # NIL
    BY Consts DEF TypeOK
  <2> QED
    BY <1>1, <1>8, <2>1
<1> QED
  BY <1>9, <1>10 DEF f

\* the descent ends at place J, and n is the next node
Found(U, J, s, N, n) == U[0] = J /\ n = IF J < N THEN s[J + 1] ELSE NIL

\* what a search for k finds behind its descent
LEMMA FirstIs ==
    ASSUME TypeOK, Capped, NEW N, NEW s, Shape(s, N), NEW k \in Keys, NEW equal,
           NEW J, IsAhead(s, N, Priority[k], equal, J), NEW U, Lasts(U, s, N, J)
    PROVE  Found(U, J, s, N, elem[Update(Priority[k], equal)[0]][0])
<1>0. N \in Nat /\ J \in 0..N /\ OnLevel(s, N, 0) = 1..N /\ 0 \in Levels /\ 0 \in 0..level
  BY Nested, Consts DEF Shape, IsAhead, TypeOK
<1>1. U[0] = J
  <2>1. IsLast(U[0], J, 1..N) /\ U[0] \in 0..N
    BY <1>0 DEF Lasts
  <2>2. \A m \in 1..N : m <= U[0] \/ m > J
    BY <2>1 DEF IsLast
  <2>3. U[0] <= J
    BY <2>1 DEF IsLast
  <2>4. CASE J = 0
    BY <2>1, <2>3, <2>4
  <2>5. CASE J # 0
    <3>1. J <= U[0] \/ J > J
      BY <1>0, <2>2, <2>5
    <3> QED
      BY <1>0, <2>1, <2>3, <3>1
  <2> QED
    BY <2>4, <2>5
<1>2. Update(Priority[k], equal)[0] = s[J]
  BY <1>0, <1>1, UpdateIs
<1>3. IsNext(elem[s[J]][0], s, J, 1..N)
  BY <1>0 DEF Shape, Linked
<1>4. elem[s[J]][0] = IF J < N THEN s[J + 1] ELSE NIL
  <2>1. CASE J < N
    <3>1. J + 1 \in 1..N
      BY <1>0, <2>1
    <3>2. PICK j \in 1..N : j > J /\ elem[s[J]][0] = s[j] /\ \A m \in 1..N : m <= J \/ j <= m
      BY <1>0, <1>3, <3>1 DEF IsNext
    <3>3. j = J + 1
      BY <1>0, <3>1, <3>2
    <3> QED
      BY <2>1, <3>2, <3>3
  <2>2. CASE J = N
    BY <1>0, <1>3, <2>2 DEF IsNext
  <2> QED
    BY <1>0, <2>1, <2>2
<1> QED
  BY <1>1, <1>2, <1>4 DEF Found

\* set finds no old node
LEMMA SetFinds ==
    ASSUME TypeOK, Capped, NEW N, NEW s, Shape(s, N), NEW k \in Keys,
           NEW J, IsAhead(s, N, Priority[k], TRUE, J)
    PROVE  Match(k)[elem[Update(Priority[k], TRUE)[0]][0]] = NIL
<1>0. N \in Nat /\ J \in 0..N
  BY DEF Shape, IsAhead
<1>1. PICK U : Lasts(U, s, N, J)
  BY <1>0, LastsExist
<1>2. elem[Update(Priority[k], TRUE)[0]][0] = IF J < N THEN s[J + 1] ELSE NIL
  <2>1. Found(U, J, s, N, elem[Update(Priority[k], TRUE)[0]][0])
    BY <1>1, FirstIs, Zenon
  <2> QED
    BY <2>1 DEF Found
<1>3. CASE J < N
  <2>1. J + 1 \in 1..N
    BY <1>0, <1>3
  <2>2. s[J + 1] \in alive
    BY <2>1, NodesBehind
  <2>4. Prio(s[J + 1]) # Priority[k]
    BY <1>0, <2>1 DEF IsAhead, Before
  <2> QED
    BY <1>2, <1>3, <2>2, <2>4, MatchIs
<1>4. CASE ~(J < N)
  BY <1>2, <1>4, MatchIs
<1> QED
  BY <1>3, <1>4, Zenon

\* get, del, ttl and expire find the first node of the key
LEMMA Finds ==
    ASSUME TypeOK, Capped, NEW N, NEW s, Shape(s, N), NEW k \in Keys,
           NEW J, IsAhead(s, N, Priority[k], FALSE, J)
    PROVE  Lookup(k) = IF J < N /\ Prio(s[J + 1]) = Priority[k] THEN s[J + 1] ELSE NIL
<1>0. N \in Nat /\ J \in 0..N
  BY DEF Shape, IsAhead
<1>1. PICK U : Lasts(U, s, N, J)
  BY <1>0, LastsExist
<1>2. elem[Update(Priority[k], FALSE)[0]][0] = IF J < N THEN s[J + 1] ELSE NIL
  <2>1. Found(U, J, s, N, elem[Update(Priority[k], FALSE)[0]][0])
    BY <1>1, FirstIs, Zenon
  <2> QED
    BY <2>1 DEF Found
<1>3. CASE J < N
  <2>1. J + 1 \in 1..N
    BY <1>0, <1>3
  <2>2. s[J + 1] \in alive
    BY <2>1, NodesBehind
  <2> QED
    BY <1>2, <1>3, <2>2, MatchIs DEF Lookup
<1>4. CASE ~(J < N)
  BY <1>2, <1>4, MatchIs DEF Lookup
<1> QED
  BY <1>3, <1>4

\* the search leaves the last places before the priority in update_nodes
LEMMA UpdatedIs ==
    ASSUME TypeOK, Capped, NEW N, NEW s, Shape(s, N), NEW p, NEW equal,
           NEW J, IsAhead(s, N, p, equal, J), NEW U, Lasts(U, s, N, J)
    PROVE  Updated(U, s, p, equal)
  BY UpdateIs DEF Updated

-----------------------------------------------------------------------------
(* Every operation keeps the invariant.                                     *)

\* an area that was just created
LEMMA InitInv == Init => Inv
<1> SUFFICES ASSUME Init PROVE Inv
  OBVIOUS
<1> DEFINE s == [i \in 0..0 |-> TheHead]
<1>1. TypeOK
  <2>1. elem \in [Places -> [Levels -> Nodes \cup {NIL}]]
    BY DEF Init, Bare
  <2>2. NoData \in [key : Keys \cup {NIL}, value : Values \cup {0}, ttl : Ttls \cup {0},
                    tms : 0..MaxTime, height : Levels]
    BY Consts DEF NoData
  <2>3. \A n \in Nodes : node[n] = NoData /\ elem[n] = Bare
    BY Consts DEF Init
  <2> QED
    BY <2>1, <2>2, <2>3, Consts DEF Init, TypeOK
<1>2. Capped
  BY DEF Init, Capped
<1>3. LevelInv
  BY Consts DEF Init, LevelInv, Bare
<1>4. Ordered(s, 0)
  BY Consts DEF Init, Ordered
<1>5. Linked(s, 0)
  <2>1. \A l \in Levels : OnLevel(s, 0, l) = {}
    BY DEF OnLevel
  <2>2. \A l \in Levels : elem[s[0]][l] = NIL
    BY Consts DEF Init, Bare
  <2> QED
    BY <2>1, <2>2 DEF Linked, IsNext
<1>6. Shape(s, 0)
  BY <1>4, <1>5 DEF Shape
<1> QED
  BY <1>1, <1>2, <1>3, <1>6 DEF Inv

\* that is what kvcache_set does
LEMMA SetInserts ==
    ASSUME TypeOK, Capped, LevelInv, NEW N, NEW s, Shape(s, N),
           NEW k \in Keys, NEW v, NEW t, KvcacheSet(k, v, t)
    PROVE  \E J, n, h, U : Inserts(s, N, J, n, h, U, k, v, t)
<1>0. Priority[k] \in Nat /\ N \in Nat
  BY PriorityAssumption DEF Shape
<1>1. PICK J : IsAhead(s, N, Priority[k], TRUE, J)
  BY <1>0, AheadExists, Zenon
<1>2. J \in 0..N
  BY <1>1 DEF IsAhead
<1>3. PICK U : Lasts(U, s, N, J)
  BY <1>2, LastsExist
<1> DEFINE upd == Update(Priority[k], TRUE)
           n == CHOOSE m \in Nodes \ alive : \A o \in Nodes \ alive : m <= o
           above(h) == [l \in 0..h |-> IF l > level THEN TheHead ELSE upd[l]]
<1>4. Match(k)[elem[upd[0]][0]] = NIL
  BY <1>1, SetFinds, Zenon
<1>5. n \in Nodes \ alive
  <2>1. Nodes \ alive \subseteq Nat /\ Nodes \ alive # {}
    BY Consts, Zenon DEF KvcacheSet, TypeOK
  <2>2. \E m \in Nodes \ alive : \A o \in Nodes \ alive : m <= o
    BY <2>1, LeastNat, Zenon
  <2> QED
    BY <2>2, Zenon
<1>6. PICK h \in Heights :
         /\ elem' = Link(n, h, above(h))
         /\ level' = (IF h > level THEN h ELSE level)
         /\ node' = [node EXCEPT ![n] = [key |-> k, value |-> v, ttl |-> t, tms |-> now, height |-> h]]
  BY <1>4, Zenon DEF KvcacheSet, NewNode
<1>7. alive' = alive \cup {n} /\ now' = now
  BY <1>4, Zenon DEF KvcacheSet, NewNode
<1>8. \A l \in 0..level : upd[l] = s[U[l]]
  <2>1. Updated(U, s, Priority[k], TRUE)
    BY <1>1, <1>3, UpdatedIs, Zenon
  <2> QED
    BY <2>1, Zenon DEF Updated
<1> HIDE DEF upd, n
<1>9. ASSUME NEW l \in Levels, ~(l > h) PROVE above(h)[l] = s[U[l]]
  <2>0. h \in Nat /\ l \in 0..h /\ level \in Nat
    BY <1>9, Consts DEF Heights, TypeOK, Levels
  <2>1. CASE l > level
    <3>1. OnLevel(s, N, l) = {}
      BY <2>1, EmptyAbove
    <3>2. U[l] = 0
      BY <1>3, <3>1 DEF Lasts, IsLast
    <3> QED
      BY <2>0, <2>1, <3>2 DEF Shape, Ordered
  <2>2. CASE ~(l > level)
    <3>1. l \in 0..level
      BY <2>0, <2>2
    <3> QED
      BY <1>8, <2>0, <2>2, <3>1
  <2> QED
    BY <2>1, <2>2
<1>10. elem' = [m \in Places |-> [l \in Levels |->
                  IF l > h THEN elem[m][l]
                  ELSE IF m = n THEN elem[s[U[l]]][l]
                  ELSE IF m = s[U[l]] THEN n ELSE elem[m][l]]]
  <2> HIDE DEF above
  <2>1. DOMAIN elem = Places
    BY DEF TypeOK
  <2> QED
    BY <1>6, <1>9, <2>1 DEF Link
<1>11. Inserts(s, N, J, n, h, U, k, v, t)
  <2> HIDE DEF above
  <2> QED
    BY <1>1, <1>3, <1>5, <1>6, <1>7, <1>10, Zenon DEF Inserts
<1> QED
  BY <1>11, Zenon

\* on a level the node before place J + 1 points at it exactly if that one is so high
LEMMA PointsAt ==
    ASSUME TypeOK, NEW M, NEW s, Shape(s, M), NEW J \in 0..M, J < M, NEW l \in Levels,
           NEW K, IsLast(K, J, OnLevel(s, M, l))
    PROVE  elem[s[K]][l] = s[J + 1] <=> l <= node[s[J + 1]].height
<1> DEFINE O == OnLevel(s, M, l)
<1>1. M \in Nat /\ J + 1 \in 1..M /\ O \subseteq 1..M
  BY Nested DEF Shape
<1>2. l <= node[s[J + 1]].height <=> J + 1 \in O
  BY <1>1, HeightLevel, NodesBehind, Consts DEF OnLevel
<1>3. IsNext(elem[s[K]][l], s, K, O)
  BY Zenon DEF IsLast, Shape, Linked
<1>4. K <= J /\ (K = 0 \/ K \in 1..M) /\ \A m \in O : m <= K \/ m > J
  BY <1>1 DEF IsLast
<1>5. s[J + 1] # NIL /\ \A j \in O : s[j] = s[J + 1] => j = J + 1
  BY <1>1, NodesBehind
<1> HIDE DEF O
<1>6. CASE J + 1 \in O
  <2>1. ~(J + 1 <= K)
    BY <1>4
  <2>2. PICK j \in O : j > K /\ elem[s[K]][l] = s[j] /\ \A m \in O : m <= K \/ j <= m
    BY <1>3, <1>6, <2>1 DEF IsNext
  <2>3. j <= J + 1 /\ j > J /\ j \in Nat
    BY <1>1, <1>4, <1>6, <2>1, <2>2
  <2>4. j = J + 1
    BY <2>3
  <2> QED
    BY <1>2, <1>6, <2>2, <2>4
<1>7. CASE J + 1 \notin O
  BY <1>2, <1>3, <1>5, <1>7 DEF IsNext
<1> QED
  BY <1>6, <1>7

\* so del unlinks the node on the levels it is on
LEMMA UnlinkedIs ==
    ASSUME TypeOK, LevelInv, NEW M, NEW s, Shape(s, M), NEW J \in 0..M, J < M,
           NEW U, Lasts(U, s, M, J), NEW upd, \A l \in 0..level : upd[l] = s[U[l]]
    PROVE  \A l \in Levels : l \in Unlinked(s[J + 1], upd) <=> l <= node[s[J + 1]].height
<1> DEFINE n == s[J + 1]
<1>1. M \in Nat /\ J + 1 \in 1..M /\ level \in Nat /\ Levels \subseteq Nat /\ level \in Levels
  BY Consts DEF Shape, TypeOK
<1>2. n \in Nodes /\ node[n].height \in Levels /\ node[n].height \in Nat
  BY <1>1, NodesBehind, HeightLevel
<1>3. node[n].height <= level
  <2>1. J + 1 \in OnLevel(s, M, node[n].height)
    BY <1>1, <1>2 DEF OnLevel
  <2>2. ~(node[n].height > level)
    BY <1>2, <2>1, EmptyAbove
  <2> QED
    BY <1>1, <1>2, <2>2
<1>4. 0..level \subseteq Levels
  BY <1>1, BoundAssumption DEF Levels
<1>5. \A l \in 0..level : elem[upd[l]][l] = n <=> l <= node[n].height
  BY <1>4, PointsAt DEF Lasts
<1> HIDE DEF n
<1>6. \A l \in Levels : l \in Unlinked(n, upd) <=> l \in 0..level /\ \A i \in 0..l : i <= node[n].height
  BY <1>1, <1>5 DEF Unlinked
<1>7. \A l \in Levels : l \in Unlinked(n, upd) <=> l <= node[n].height
  <2> SUFFICES ASSUME NEW l \in Levels PROVE l \in Unlinked(n, upd) <=> l <= node[n].height
    OBVIOUS
  <2>1. l \in 0..l /\ node[n].height \in Nat /\ l \in Nat
    BY <1>2, Consts
  <2> QED
    BY <1>1, <1>3, <1>6, <2>1
<1> QED
  BY <1>7 DEF n

\* the level after del
LEMMA LevelOfIs ==
    ASSUME TypeOK, NEW e
    PROVE  /\ LevelOf(e) \in 0..level
           /\ LevelOf(e) = 0 \/ e[TheHead][LevelOf(e)] # NIL
           /\ \A i \in (LevelOf(e) + 1)..level : e[TheHead][i] = NIL
<1> DEFINE S == {l \in 0..level : l = 0 \/ e[TheHead][l] # NIL}
           Q(l) == /\ l = 0 \/ e[TheHead][l] # NIL
                   /\ \A i \in (l + 1)..level : e[TheHead][i] = NIL
<1>1. level \in Nat
  BY Consts DEF TypeOK
<1>2. S \subseteq 0..level /\ 0 \in S
  BY <1>1
<1>3. PICK l \in S : \A y \in S : y <= l
  BY <1>1, <1>2, GreatestNat, Zenon
<1>4. l \in 0..level /\ Q(l)
  <2>1. ASSUME NEW i \in (l + 1)..level PROVE e[TheHead][i] = NIL
    <3>1. i \in 0..level /\ ~(i <= l)
      BY <1>1, <1>3
    <3> QED
      BY <1>3, <3>1
  <2> QED
    BY <1>3, <2>1
<1>5. LevelOf(e) = CHOOSE x \in 0..level : Q(x)
  BY DEF LevelOf
<1>6. LevelOf(e) \in 0..level /\ Q(LevelOf(e))
  <2> HIDE DEF Q
  <2> QED
    BY <1>4, <1>5, Zenon
<1> QED
  BY <1>6

\* kvcache_del removes the first node of its key, and changes nothing if there is none
LEMMA DelRemoves ==
    ASSUME TypeOK, Capped, LevelInv, NEW M, NEW s, Shape(s, M), NEW k \in Keys, KvcacheDel(k)
    PROVE  \/ Lookup(k) = NIL /\ UNCHANGED vars
           \/ \E J, n, U : Lookup(k) = n /\ Removes(s, M, J, n, U, k)
<1> DEFINE upd == Update(Priority[k], FALSE)
           n == Match(k)[elem[upd[0]][0]]
<1>1. Lookup(k) = n
  BY DEF Lookup
<1>2. CASE n = NIL
  BY <1>1, <1>2 DEF KvcacheDel, vars
<1>3. CASE n # NIL
  <2>0. Priority[k] \in Nat /\ M \in Nat
    BY PriorityAssumption DEF Shape
  <2>1. PICK J : IsAhead(s, M, Priority[k], FALSE, J)
    BY <2>0, AheadExists, Zenon
  <2>2. J \in 0..M
    BY <2>1 DEF IsAhead
  <2>3. PICK U : Lasts(U, s, M, J)
    BY <2>2, LastsExist
  <2>4. Lookup(k) = IF J < M /\ Prio(s[J + 1]) = Priority[k] THEN s[J + 1] ELSE NIL
    BY <2>1, Finds, Zenon
  <2>5. J < M /\ Prio(n) = Priority[k] /\ n = s[J + 1]
    BY <1>1, <1>3, <2>4
  <2>6. Updated(U, s, Priority[k], FALSE)
    BY <2>1, <2>3, UpdatedIs, Zenon
  <2>7. \A l \in 0..level : upd[l] = s[U[l]]
    BY <2>6, Zenon DEF Updated
  <2>8. /\ elem' = Unlink(n, upd) /\ level' = LevelOf(elem')
        /\ node' = [node EXCEPT ![n] = NoData] /\ alive' = alive \ {n} /\ now' = now
    BY <1>3, Zenon DEF KvcacheDel
  <2> HIDE DEF upd, n
  <2>9. \A l \in Levels : l \in Unlinked(n, upd) <=> l <= node[n].height
    BY <2>2, <2>3, <2>5, <2>7, UnlinkedIs
  <2>10. \A l \in Levels : l <= node[n].height => upd[l] = s[U[l]]
    <3>1. \A l \in Levels : l \in Unlinked(n, upd) => l \in 0..level
      BY DEF Unlinked
    <3> QED
      BY <2>7, <2>9, <3>1
  <2>11. elem' = [m \in Places |->
                  IF m = n THEN Bare
                  ELSE [l \in Levels |-> IF l <= node[n].height /\ m = s[U[l]]
                                         THEN elem[n][l] ELSE elem[m][l]]]
    <3>1. DOMAIN elem = Places
      BY DEF TypeOK
    <3>2. \A m \in Places, l \in Levels :
             (l \in Unlinked(n, upd) /\ m = upd[l]) <=> (l <= node[n].height /\ m = s[U[l]])
      BY <2>9, <2>10
    <3> QED
      BY <2>8, <3>1, <3>2 DEF Unlink
  <2>12. /\ level' \in 0..level /\ (level' = 0 \/ elem'[TheHead][level'] # NIL)
         /\ \A i \in (level' + 1)..level : elem'[TheHead][i] = NIL
    BY <2>8, LevelOfIs
  <2>13. Removes(s, M, J, n, U, k)
    BY <2>1, <2>3, <2>5, <2>8, <2>11, <2>12, Zenon DEF Removes
  <2> QED
    BY <1>1, <2>13, Zenon
<1> QED
  BY <1>2, <1>3, Zenon

\* kvcache_expire sets the time and the time to live of the first node of its key
LEMMA ExpireIs ==
    ASSUME TypeOK, NEW k \in Keys, NEW t, KvcacheExpire(k, t)
    PROVE  \/ /\ Lookup(k) = NIL \/ Expired(Lookup(k))
              /\ UNCHANGED vars
           \/ /\ Lookup(k) # NIL /\ ~Expired(Lookup(k))
              /\ node' = [node EXCEPT ![Lookup(k)].tms = now, ![Lookup(k)].ttl = t]
              /\ UNCHANGED <<elem, alive, level, now>>
  BY DEF KvcacheExpire, vars

\* the nodes keep their keys and heights
Refreshes == /\ UNCHANGED <<elem, alive, level>> /\ DOMAIN node' = Nodes
             /\ \A n \in Nodes : node'[n].key = node[n].key /\ node'[n].height = node[n].height

\* a step that changes neither the links nor the priorities and heights keeps the list
LEMMA RefreshShape ==
    ASSUME TypeOK, Capped, LevelInv, NEW N, NEW s, Shape(s, N), Refreshes
    PROVE  Capped' /\ LevelInv' /\ Shape(s, N)'
<1>1. /\ \A n \in alive : node'[n].height = node[n].height /\ Prio(n)' = Prio(n)
      /\ elem' = elem /\ alive' = alive /\ level' = level
  BY DEF Refreshes, TypeOK, Prio
<1>2. Capped' /\ LevelInv'
  BY <1>1 DEF Capped, LevelInv
<1>3. Ordered(s, N)'
  BY <1>1 DEF Shape, Ordered
<1>4. \A l \in Levels : OnLevel(s, N, l)' = OnLevel(s, N, l)
  BY <1>1, NodesBehind DEF OnLevel
<1>5. Linked(s, N)'
  <2> SUFFICES ASSUME NEW l \in Levels, NEW i \in {0} \cup OnLevel(s, N, l)
               PROVE  IsNext(elem[s[i]][l], s, i, OnLevel(s, N, l))
    BY <1>1, <1>4 DEF Linked, IsNext
  <2> QED
    BY DEF Shape, Linked
<1> QED
  BY <1>2, <1>3, <1>5 DEF Shape

\* time passing keeps the invariant
LEMMA TickKeeps ==
    ASSUME TypeOK, Capped, LevelInv, NEW N, NEW s, Shape(s, N), Tick
    PROVE  TypeOK' /\ Capped' /\ LevelInv' /\ Shape(s, N)'
<1>1. Refreshes
  BY DEF Tick, Refreshes, TypeOK
<1>2. TypeOK'
  <2>1. now' \in 0..MaxTime
    BY Consts DEF Tick, TypeOK
  <2> QED
    BY <2>1 DEF Tick, TypeOK
<1> QED
  BY <1>1, <1>2, RefreshShape

\* a step that changes nothing keeps the invariant
LEMMA StutterKeeps ==
    ASSUME TypeOK, Capped, LevelInv, NEW N, NEW s, Shape(s, N), UNCHANGED vars
    PROVE  TypeOK' /\ Capped' /\ LevelInv' /\ Shape(s, N)'
<1>1. Refreshes
  BY DEF vars, Refreshes, TypeOK
<1>2. TypeOK'
  BY DEF vars, TypeOK
<1> QED
  BY <1>1, <1>2, RefreshShape

\* kvcache_expire keeps the invariant
LEMMA ExpireKeeps ==
    ASSUME TypeOK, Capped, LevelInv, NEW N, NEW s, Shape(s, N),
           NEW k \in Keys, NEW t \in Ttls, KvcacheExpire(k, t)
    PROVE  TypeOK' /\ Capped' /\ LevelInv' /\ Shape(s, N)'
<1> DEFINE n == Lookup(k)
           R == [key : Keys \cup {NIL}, value : Values \cup {0}, ttl : Ttls \cup {0},
                 tms : 0..MaxTime, height : Levels]
<1>1. CASE UNCHANGED vars
  BY <1>1, StutterKeeps
<1>2. CASE ~UNCHANGED vars
  <2>1. /\ n # NIL
        /\ node' = [node EXCEPT ![n].tms = now, ![n].ttl = t]
        /\ UNCHANGED <<elem, alive, level, now>>
    BY <1>2, ExpireIs
  <2>2. n \in alive
    <3>1. Priority[k] \in Nat
      BY PriorityAssumption
    <3>2. PICK J : IsAhead(s, N, Priority[k], FALSE, J)
      BY <3>1, AheadExists, Zenon
    <3>3. n = IF J < N /\ Prio(s[J + 1]) = Priority[k] THEN s[J + 1] ELSE NIL
      BY <3>2, Finds, Zenon
    <3>4. J < N /\ n = s[J + 1] /\ J \in 0..N /\ N \in Nat
      BY <2>1, <3>2, <3>3 DEF IsAhead, Shape
    <3> QED
      BY <3>4 DEF Shape, Ordered
  <2> HIDE DEF n
  <2>3. node \in [Nodes -> R] /\ n \in Nodes /\ now \in 0..MaxTime /\ alive \subseteq Nodes
    BY <2>2 DEF TypeOK
  <2>4. node[n] \in R
    BY <2>3
  <2> DEFINE r == [node[n] EXCEPT !.tms = now, !.ttl = t]
  <2>5. r \in R /\ r.key = node[n].key /\ r.height = node[n].height
    BY <2>3, <2>4, Zenon
  <2>6. node' = [node EXCEPT ![n] = r]
    <3> HIDE DEF R
    <3> QED
      BY <2>1, <2>3, Zenon
  <2> HIDE DEF r, R
  <2>7. /\ node' \in [Nodes -> R]
        /\ \A m \in Nodes : m # n => node'[m] = node[m]
        /\ node'[n] = r
    BY <2>3, <2>5, <2>6
  <2>8. Refreshes
    BY <2>1, <2>5, <2>7 DEF Refreshes
  <2>9. TypeOK'
    <3>1. \A m \in alive : node'[m].key \in Keys
      BY <2>3, <2>8 DEF TypeOK, Refreshes
    <3>2. \A m \in Nodes \ alive : node'[m] = NoData /\ elem'[m] = Bare
      BY <2>1, <2>2, <2>7 DEF TypeOK
    <3> QED
      BY <2>1, <2>7, <3>1, <3>2 DEF TypeOK, R
  <2> QED
    BY <2>8, <2>9, RefreshShape
<1> QED
  BY <1>1, <1>2

\* every step keeps the invariant
LEMMA NextInv == Inv /\ [Next]_vars => Inv'
<1> SUFFICES ASSUME Inv, [Next]_vars PROVE Inv'
  OBVIOUS
<1>0. TypeOK /\ Capped /\ LevelInv
  BY DEF Inv
<1>1. PICK N, s : Shape(s, N)
  BY DEF Inv
<1>2. CASE Tick
  BY <1>0, <1>1, <1>2, TickKeeps DEF Inv
<1>3. ASSUME NEW k \in Keys, KvcacheDel(k) PROVE Inv'
  <2>1. CASE UNCHANGED vars
    BY <1>0, <1>1, <2>1, StutterKeeps DEF Inv
  <2>2. CASE ~UNCHANGED vars
    <3>1. PICK J, n, U : Removes(s, N, J, n, U, k)
      BY <1>0, <1>1, <1>3, <2>2, DelRemoves, Zenon
    <3>2. Ordered(Shrunk(s, N, J), N - 1)'
      BY <1>0, <1>1, <3>1, RemoveOrdered, Zenon
    <3>6. Linked(Shrunk(s, N, J), N - 1)'
      BY <1>0, <1>1, <3>1, RemoveLinked, Zenon
    <3>7. Left(s, N, J, n)
      BY <1>0, <1>1, <3>1, RemoveNodes, Zenon
    <3>3. N - 1 \in Nat
      BY <3>7 DEF Left
    <3>4. Shape(Shrunk(s, N, J), N - 1)'
      BY <3>2, <3>3, <3>6 DEF Shape
    <3>5. TypeOK' /\ Capped' /\ LevelInv'
      BY <1>0, <1>1, <3>1, RemoveKeeps, Zenon
    <3> QED
      BY <3>4, <3>5, Zenon DEF Inv
  <2> QED
    BY <2>1, <2>2
<1>4. ASSUME NEW k \in Keys, NEW t \in Ttls, KvcacheExpire(k, t) PROVE Inv'
  BY <1>0, <1>1, <1>4, ExpireKeeps DEF Inv
<1>5. ASSUME NEW k \in Keys, NEW t \in Ttls, NEW v \in Values, KvcacheSet(k, v, t) PROVE Inv'
  <2>1. PICK J, n, h, U : Inserts(s, N, J, n, h, U, k, v, t)
    BY <1>0, <1>1, <1>5, SetInserts, Zenon
  <2>2. Ordered(Grown(s, N, J, n), N + 1)'
    BY <1>0, <1>1, <2>1, InsertOrdered, Zenon
  <2>6. Linked(Grown(s, N, J, n), N + 1)'
    BY <1>0, <1>1, <2>1, InsertLinked, Zenon
  <2>3. N + 1 \in Nat
    BY <1>1 DEF Shape
  <2>4. Shape(Grown(s, N, J, n), N + 1)'
    BY <2>2, <2>3, <2>6 DEF Shape
  <2>5. TypeOK' /\ Capped' /\ LevelInv'
    BY <1>0, <1>1, <2>1, InsertKeeps, Zenon
  <2> QED
    BY <2>4, <2>5, Zenon DEF Inv
<1>6. CASE UNCHANGED vars
  BY <1>0, <1>1, <1>6, StutterKeeps DEF Inv
<1> QED
  BY <1>2, <1>3, <1>4, <1>5, <1>6 DEF Next

(***************************************************************************)
(* Whatever kvcache_set, kvcache_del and kvcache_expire are called with,    *)
(* the allocated nodes form one ordered sequence that every level follows,  *)
(* and shead->level is the topmost level in use.                            *)
(***************************************************************************)
THEOREM Invariance == Spec => []Inv
  BY InitInv, NextInv, PTL DEF Spec

-----------------------------------------------------------------------------
(* The list of the invariant is the one along level 0.                      *)

\* along level 0 every node leads to the next one
LEMMA NextIs ==
    ASSUME TypeOK, NEW N, NEW s, Shape(s, N), NEW i \in 0..N
    PROVE  elem[s[i]][0] = IF i < N THEN s[i + 1] ELSE NIL
<1>1. N \in Nat /\ OnLevel(s, N, 0) = 1..N /\ 0 \in Levels
  BY Nested, Consts DEF Shape
<1>2. i \in {0} \cup OnLevel(s, N, 0)
  BY <1>1
<1>3. IsNext(elem[s[i]][0], s, i, 1..N)
  BY <1>1, <1>2 DEF Shape, Linked
<1>4. CASE i < N
  <2>1. i + 1 \in 1..N /\ ~(i + 1 <= i)
    BY <1>1, <1>4
  <2>2. PICK j \in 1..N : j > i /\ elem[s[i]][0] = s[j] /\ \A m \in 1..N : m <= i \/ j <= m
    BY <1>3, <2>1 DEF IsNext
  <2>3. j = i + 1
    BY <1>1, <2>1, <2>2
  <2> QED
    BY <1>4, <2>2, <2>3
<1>5. CASE ~(i < N)
  BY <1>1, <1>3, <1>5 DEF IsNext
<1> QED
  BY <1>4, <1>5

\* List finds it, and NIL behind it
LEMMA ListIs ==
    ASSUME TypeOK, NEW N, NEW s, Shape(s, N)
    PROVE  \A i \in 0..MaxNodes : List[i] = IF i <= N THEN s[i] ELSE NIL
<1> DEFINE P(f) == f = [i \in 0..MaxNodes |-> IF i = 0 THEN TheHead ELSE Successor(f[i - 1])]
           t == [i \in 0..MaxNodes |-> IF i <= N THEN s[i] ELSE NIL]
<1>1. N \in 0..MaxNodes /\ MaxNodes \in Nat
  BY NodesFit, BoundAssumption
<1>2. List = CHOOSE f : P(f)
  BY Zenon DEF List
<1>3. s \in [0..N -> Places] /\ s[0] = TheHead
  BY DEF Shape, Ordered
<1>4. \A i \in 0..N : Successor(s[i]) = IF i < N THEN s[i + 1] ELSE NIL
  <2>1. \A i \in 0..N : s[i] # NIL
    BY <1>3, Consts
  <2> QED
    BY <2>1, NextIs DEF Successor
<1>5. Successor(NIL) = NIL
  BY DEF Successor
<1>6. ASSUME NEW i \in 0..MaxNodes, i # 0 PROVE t[i] = Successor(t[i - 1])
  <2>1. i - 1 \in 0..MaxNodes /\ (i - 1 < N <=> i <= N) /\ (i - 1) + 1 = i
    BY <1>1, <1>6
  <2>2. CASE i - 1 <= N
    <3>1. i - 1 \in 0..N /\ t[i - 1] = s[i - 1]
      BY <1>1, <2>1, <2>2
    <3> QED
      BY <1>4, <2>1, <3>1
  <2>3. CASE ~(i - 1 <= N)
    <3>1. t[i - 1] = NIL /\ t[i] = NIL
      BY <1>1, <2>1, <2>3
    <3> QED
      BY <1>5, <3>1
  <2> QED
    BY <2>2, <2>3
<1>7. P(t)
  <2>1. t[0] = TheHead
    BY <1>1, <1>3
  <2>2. t = [i \in 0..MaxNodes |-> t[i]]
    OBVIOUS
  <2> HIDE DEF t
  <2> QED
    BY <1>6, <2>1, <2>2, Zenon
<1>8. P(List)
  <2> HIDE DEF P, t
  <2> QED
    BY <1>2, <1>7, Zenon
<1>9. \A i \in 0..MaxNodes : List[i] = IF i = 0 THEN TheHead ELSE Successor(List[i - 1])
  BY <1>8, Zenon
<1>10. t[0] = TheHead
  BY <1>1, <1>3
<1>11. \A i \in 0..MaxNodes : t[i] = IF i <= N THEN s[i] ELSE NIL
  OBVIOUS
<1> HIDE DEF P, t
<1> DEFINE S == {i \in 0..MaxNodes : List[i] = t[i]}
<1>12. \A i \in 0..MaxNodes : i \in S
  <2>1. ASSUME NEW i \in 0..MaxNodes, \A j \in 0..MaxNodes : j < i => j \in S PROVE i \in S
    <3>1. CASE i = 0
      BY <1>9, <1>10, <3>1
    <3>2. CASE i # 0
      <4>1. i - 1 \in 0..MaxNodes /\ i - 1 < i
        BY <1>1, <3>2
      <4>2. List[i - 1] = t[i - 1]
        BY <2>1, <4>1
      <4> QED
        BY <1>6, <1>9, <3>2, <4>2
    <3> QED
      BY <3>1, <3>2
  <2> HIDE DEF S
  <2> QED
    BY <1>1, <2>1, Upward
<1> QED
  BY <1>11, <1>12

\* and Length its nodes
LEMMA LengthIs ==
    ASSUME TypeOK, NEW N, NEW s, Shape(s, N)
    PROVE  Length = N /\ N \in Nat /\ \A i \in 0..N : List[i] = s[i]
<1>1. N \in 0..MaxNodes /\ MaxNodes \in Nat
  BY NodesFit, BoundAssumption
<1>2. \A i \in 0..N : s[i] # NIL
  BY Consts DEF Shape, Ordered
<1>3. \A i \in 0..MaxNodes : List[i] = IF i <= N THEN s[i] ELSE NIL
  BY ListIs
<1> DEFINE Ends(M) == List[M] # NIL /\ (M = MaxNodes \/ List[M + 1] = NIL)
<1>4. Ends(N)
  BY <1>1, <1>2, <1>3
<1>5. ASSUME NEW M \in 0..MaxNodes, Ends(M) PROVE M = N
  <2>1. M <= N
    BY <1>1, <1>3, <1>5
  <2>2. ~(M < N)
    <3> SUFFICES ASSUME M < N PROVE FALSE
      OBVIOUS
    <3>1. M + 1 \in 0..N /\ M + 1 \in 0..MaxNodes /\ M # MaxNodes
      BY <1>1
    <3> QED
      BY <1>2, <1>3, <1>5, <3>1
  <2> QED
    BY <1>1, <2>1, <2>2
<1>6. Length = CHOOSE M \in 0..MaxNodes : Ends(M)
  BY Zenon DEF Length
<1>7. \A i \in 0..N : List[i] = s[i]
  BY <1>1, <1>3
<1> HIDE DEF Ends
<1> QED
  BY <1>1, <1>4, <1>5, <1>6, <1>7

\* Ahead finds that place
LEMMA AheadIs ==
    ASSUME TypeOK, NEW N, NEW s, Shape(s, N), NEW p, NEW equal, NEW J, IsAhead(s, N, p, equal, J)
    PROVE  Ahead(List, p, equal) = J
<1> DEFINE IsBefore(i) == List[i] # NIL /\ Before(List[i], p, equal)
           Ends(M) == (M > 0 => IsBefore(M)) /\ (M < MaxNodes => ~IsBefore(M + 1))
<1>1. N \in 0..MaxNodes /\ MaxNodes \in Nat /\ J \in 0..N
  BY NodesFit, BoundAssumption DEF IsAhead
<1>2. \A i \in 0..N : s[i] # NIL
  BY Consts DEF Shape, Ordered
<1>3. \A i \in 0..MaxNodes : List[i] = IF i <= N THEN s[i] ELSE NIL
  BY ListIs
<1>4. \A i \in 1..N : Before(s[i], p, equal) <=> i <= J
  BY DEF IsAhead
<1>5. ASSUME NEW i \in 1..MaxNodes PROVE IsBefore(i) <=> i <= J
  <2>1. CASE i <= N
    BY <1>1, <1>2, <1>3, <1>4, <2>1
  <2>2. CASE ~(i <= N)
    BY <1>1, <1>3, <2>2
  <2> QED
    BY <2>1, <2>2
<1> HIDE DEF IsBefore
<1>6. Ends(J)
  BY <1>1, <1>5
<1>7. ASSUME NEW M \in 0..MaxNodes, Ends(M) PROVE M = J
  BY <1>1, <1>5, <1>7
<1>8. Ahead(List, p, equal) = CHOOSE M \in 0..MaxNodes : Ends(M)
  BY Zenon DEF Ahead, IsBefore
<1> HIDE DEF Ends
<1> QED
  BY <1>1, <1>6, <1>7, <1>8
=============================================================================
