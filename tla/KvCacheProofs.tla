--------------------------- MODULE KvCacheProofs ----------------------------
(***************************************************************************)
(* Proofs about the skip list of KvCache, third part: the theorems. The    *)
(* types, the order and completeness of the list, the nesting of its       *)
(* levels and the exactness of every answer hold in every reachable state, *)
(* and every operation does to the entries of its key what the one of      *)
(* KvStore does to them, and nothing to the answers for another key.       *)
(***************************************************************************)
EXTENDS KvSearchProofs

-----------------------------------------------------------------------------
(* The list and its levels.                                                 *)

\* the nodes of the list are the allocated ones, in their order, none twice
LEMMA ListHolds == ASSUME Inv PROVE ListComplete
<1>1. PICK N, s : Shape(s, N)
  BY DEF Inv
<1>2. TypeOK
  BY DEF Inv
<1>3. Length = N /\ N \in Nat /\ \A i \in 0..N : List[i] = s[i]
  BY <1>1, <1>2, LengthIs, Zenon
<1>4. /\ \A i \in 1..N : s[i] \in alive
      /\ \A n \in alive : \E i \in 1..N : s[i] = n
  BY <1>1 DEF Shape, Ordered
<1>5. elem[s[N]][0] = NIL
  BY <1>1, <1>2, <1>3, NextIs
<1>6. \A i, j \in 1..N : i < j => Prio(s[i]) <= Prio(s[j])
  BY <1>1 DEF Shape, Ordered
<1>7. \A i \in 1..N : List[i] = s[i]
  BY <1>3
<1>8. {List[i] : i \in 1..N} = alive
  BY <1>4, <1>7
<1>9. elem[List[N]][0] = NIL
  BY <1>3, <1>5
<1>10. \A i, j \in 1..N : i < j => Prio(List[i]) <= Prio(List[j])
  BY <1>6, <1>7
<1> QED
  BY <1>3, <1>8, <1>9, <1>10, Zenon DEF ListComplete

\* and the levels are sublists of it
LEMMA LevelsHold == ASSUME Inv PROVE LevelsNested
<1>1. PICK N, s : Shape(s, N)
  BY DEF Inv
<1>2. TypeOK /\ LevelInv
  BY DEF Inv
<1>3. Length = N /\ N \in Nat /\ \A i \in 0..N : List[i] = s[i]
  BY <1>1, <1>2, LengthIs, Zenon
<1>4. ASSUME NEW l \in Levels, NEW i \in {0} \cup OnLevel(List, N, l)
      PROVE  IsNext(elem[List[i]][l], List, i, OnLevel(List, N, l))
  <2>1. OnLevel(List, N, l) = OnLevel(s, N, l)
    BY <1>3 DEF OnLevel
  <2>2. i \in 0..N /\ List[i] = s[i] /\ \A j \in OnLevel(s, N, l) : List[j] = s[j]
    BY <1>3, <2>1 DEF OnLevel
  <2>3. IsNext(elem[s[i]][l], s, i, OnLevel(s, N, l))
    BY <1>1, <1>4, <2>1, Zenon DEF Shape, Linked
  <2> QED
    BY <2>1, <2>2, <2>3 DEF IsNext
<1> QED
  BY <1>2, <1>3, <1>4 DEF LevelsNested, LevelInv

(***************************************************************************)
(* The types of the variables, for any number of nodes, levels and keys:    *)
(* the links of a released node are cleared, and the time never passes its  *)
(* bound.                                                                    *)
(***************************************************************************)
THEOREM TypeCorrect == Spec => []TypeOK
<1>1. Inv => TypeOK
  BY DEF Inv
<1> QED
  BY <1>1, Invariance, PTL

(***************************************************************************)
(* kvcache_set and kvcache_del neither lose nodes nor keep released ones,   *)
(* and level 0 stays in the order of the priorities, without a cycle,       *)
(* whatever heights __get_random_level draws.                               *)
(***************************************************************************)
THEOREM ListSafe == Spec => []ListComplete
<1>1. Inv => ListComplete
  BY ListHolds
<1> QED
  BY <1>1, Invariance, PTL

(***************************************************************************)
(* A level has exactly the nodes of its height, in the order of level 0,    *)
(* and shead->level is the topmost level that is in use: what the descents  *)
(* of __kvcache_set, __kvcache_del and __kvcache_get rely on.               *)
(***************************************************************************)
THEOREM LevelsSafe == Spec => []LevelsNested
<1>1. Inv => LevelsNested
  BY LevelsHold
<1> QED
  BY <1>1, Invariance, PTL

-----------------------------------------------------------------------------
(* What an insertion and a removal do.                                     *)

\* w is the list after set; the other nodes keep their entries
Grew(s, N, J, n, w, k, v, t) ==
    /\ N \in Nat /\ J \in Nat /\ J <= N
    /\ \A i \in 1..J : w[i] = s[i]
    /\ w[J + 1] = n /\ Prio(n)' = Priority[k]
    /\ \A i \in (J + 1)..N : w[i + 1] = s[i]
    /\ \A i \in 1..N : Prio(s[i])' = Prio(s[i]) /\ Entry(s[i])' = Entry(s[i]) /\ Prio(s[i]) \in Nat
    /\ \A i \in 1..N : Prio(s[i]) <= Priority[k] <=> i <= J
    /\ Entry(n)' = [value |-> v, ttl |-> t, tms |-> now]

\* the new place of the nodes of w
LEMMA GrewPlaces ==
    ASSUME NEW s, NEW N, NEW J, NEW n, NEW w, NEW k, NEW v, NEW t, Grew(s, N, J, n, w, k, v, t)
    PROVE  \A i \in 1..(N + 1) : \/ i <= J /\ i \in 1..N /\ w[i] = s[i] /\ Prio(w[i])' = Prio(s[i])
                                 \/ i = J + 1 /\ Prio(w[i])' = Priority[k]
                                 \/ /\ i > J + 1 /\ i - 1 \in 1..N /\ w[i] = s[i - 1]
                                    /\ Prio(w[i])' = Prio(s[i - 1])
<1> SUFFICES ASSUME NEW i \in 1..(N + 1)
             PROVE  \/ i <= J /\ i \in 1..N /\ w[i] = s[i] /\ Prio(w[i])' = Prio(s[i])
                    \/ i = J + 1 /\ Prio(w[i])' = Priority[k]
                    \/ /\ i > J + 1 /\ i - 1 \in 1..N /\ w[i] = s[i - 1]
                       /\ Prio(w[i])' = Prio(s[i - 1])
  OBVIOUS
<1>1. N \in Nat /\ J \in Nat /\ J <= N
  BY DEF Grew
<1>2. CASE i <= J
  <2>1. i \in 1..N /\ i \in 1..J
    BY <1>1, <1>2
  <2> QED
    BY <1>2, <2>1 DEF Grew
<1>3. CASE i = J + 1
  BY <1>3 DEF Grew
<1>4. CASE i > J + 1
  <2>1. i - 1 \in (J + 1)..N /\ i - 1 \in 1..N /\ (i - 1) + 1 = i
    BY <1>1, <1>4
  <2>2. w[i] = s[i - 1]
    BY <2>1 DEF Grew
  <2> QED
    BY <1>4, <2>1, <2>2 DEF Grew
<1> QED
  BY <1>1, <1>2, <1>3, <1>4

\* the block of a key with a lower priority stays where it is
LEMMA SetBelow ==
    ASSUME NEW s, NEW N, NEW J, NEW n, NEW w, NEW k \in Keys, NEW v, NEW t, Grew(s, N, J, n, w, k, v, t),
           NEW j \in Keys, NEW a, NEW b, IsBlock(s, N, j, a, b),
           \A i \in 1..N : Prio(s[i]) <= Priority[k] <=> i <= J, Priority[j] < Priority[k]
    PROVE  Kept(s, w, N + 1, j, a, b, a, b)
<1>1. /\ N \in Nat /\ J \in Nat /\ J <= N /\ a \in Nat /\ b \in Nat /\ a <= b /\ b <= N
      /\ Priority[j] \in Nat /\ Priority[k] \in Nat /\ \A i \in 1..N : Prio(s[i]) \in Nat
  BY PriorityAssumption DEF Grew, IsBlock
<1>2. \A i \in 1..N : (Prio(s[i]) < Priority[j] <=> i <= a) /\ (Prio(s[i]) <= Priority[j] <=> i <= b)
  BY DEF IsBlock
<1>3. b <= J
  <2>1. CASE b = 0
    BY <1>1, <2>1
  <2>2. CASE b # 0
    <3>1. b \in 1..N /\ b <= b
      BY <1>1, <2>2
    <3>2. Prio(s[b]) <= Priority[j] /\ Prio(s[b]) \in Nat
      BY <1>1, <1>2, <3>1
    <3>3. Prio(s[b]) <= Priority[k]
      BY <1>1, <3>2
    <3> QED
      BY <3>1, <3>3
  <2> QED
    BY <2>1, <2>2
<1>4. ASSUME NEW i \in 1..(N + 1)
      PROVE  (Prio(w[i])' < Priority[j] <=> i <= a) /\ (Prio(w[i])' <= Priority[j] <=> i <= b)
  <2>1. CASE i <= J /\ i \in 1..N /\ Prio(w[i])' = Prio(s[i])
    BY <1>2, <2>1
  <2>2. CASE i = J + 1 /\ Prio(w[i])' = Priority[k]
    BY <1>1, <1>3, <2>2
  <2>3. CASE i > J + 1 /\ i - 1 \in 1..N /\ Prio(w[i])' = Prio(s[i - 1])
    <3>1. ~(i <= a) /\ ~(i <= b) /\ ~(i - 1 <= a) /\ ~(i - 1 <= b)
      BY <1>1, <1>3, <2>3
    <3> QED
      BY <1>2, <2>3, <3>1
  <2> QED
    BY <2>1, <2>2, <2>3, GrewPlaces
<1>5. IsBlock(w, N + 1, j, a, b)'
  <2>1. N + 1 \in Nat /\ b <= N + 1
    BY <1>1
  <2> QED
    BY <1>1, <1>4, <2>1 DEF IsBlock
<1>6. ASSUME NEW i \in 1..(b - a) PROVE Entry(w[a + i])' = Entry(s[a + i])
  <2>1. a + i \in 1..J /\ a + i \in 1..N
    BY <1>1, <1>3
  <2>2. w[a + i] = s[a + i]
    BY <2>1 DEF Grew
  <2>3. Entry(s[a + i])' = Entry(s[a + i])
    BY <2>1 DEF Grew
  <2> QED
    BY <2>2, <2>3
<1> QED
  BY <1>5, <1>6 DEF Kept

\* the block of a key with a higher priority moves up by one place
LEMMA SetAbove ==
    ASSUME NEW s, NEW N, NEW J, NEW n, NEW w, NEW k \in Keys, NEW v, NEW t, Grew(s, N, J, n, w, k, v, t),
           NEW j \in Keys, NEW a, NEW b, IsBlock(s, N, j, a, b),
           \A i \in 1..N : Prio(s[i]) <= Priority[k] <=> i <= J, Priority[k] < Priority[j]
    PROVE  Kept(s, w, N + 1, j, a, b, a + 1, b + 1)
<1>1. /\ N \in Nat /\ J \in Nat /\ J <= N /\ a \in Nat /\ b \in Nat /\ a <= b /\ b <= N
      /\ Priority[j] \in Nat /\ Priority[k] \in Nat /\ \A i \in 1..N : Prio(s[i]) \in Nat
  BY PriorityAssumption DEF Grew, IsBlock
<1>2. \A i \in 1..N : (Prio(s[i]) < Priority[j] <=> i <= a) /\ (Prio(s[i]) <= Priority[j] <=> i <= b)
  BY DEF IsBlock
<1>3. J <= a
  <2>1. CASE J = 0
    BY <1>1, <2>1
  <2>2. CASE J # 0
    <3>1. J \in 1..N /\ J <= J
      BY <1>1, <2>2
    <3>2. Prio(s[J]) <= Priority[k] /\ Prio(s[J]) \in Nat
      BY <1>1, <3>1
    <3>3. Prio(s[J]) < Priority[j]
      BY <1>1, <3>2
    <3> QED
      BY <1>2, <3>1, <3>3
  <2> QED
    BY <2>1, <2>2
<1>4. ASSUME NEW i \in 1..(N + 1)
      PROVE  (Prio(w[i])' < Priority[j] <=> i <= a + 1) /\ (Prio(w[i])' <= Priority[j] <=> i <= b + 1)
  <2>1. CASE i <= J /\ i \in 1..N /\ Prio(w[i])' = Prio(s[i])
    <3>1. i <= a /\ i <= b /\ i <= a + 1 /\ i <= b + 1
      BY <1>1, <1>3, <2>1
    <3> QED
      BY <1>2, <2>1, <3>1
  <2>2. CASE i = J + 1 /\ Prio(w[i])' = Priority[k]
    BY <1>1, <1>3, <2>2
  <2>3. CASE i > J + 1 /\ i - 1 \in 1..N /\ Prio(w[i])' = Prio(s[i - 1])
    <3>1. (i - 1 <= a <=> i <= a + 1) /\ (i - 1 <= b <=> i <= b + 1)
      BY <1>1
    <3> QED
      BY <1>2, <2>3, <3>1
  <2> QED
    BY <2>1, <2>2, <2>3, GrewPlaces
<1>5. IsBlock(w, N + 1, j, a + 1, b + 1)'
  <2>1. N + 1 \in Nat /\ a + 1 \in Nat /\ b + 1 \in Nat /\ a + 1 <= b + 1 /\ b + 1 <= N + 1
    BY <1>1
  <2> QED
    BY <1>4, <2>1 DEF IsBlock
<1>6. ASSUME NEW i \in 1..(b - a) PROVE Entry(w[a + 1 + i])' = Entry(s[a + i])
  <2>1. a + i \in (J + 1)..N /\ a + i \in 1..N /\ (a + i) + 1 = a + 1 + i
    BY <1>1, <1>3
  <2>2. w[a + 1 + i] = s[a + i]
    BY <2>1 DEF Grew
  <2>3. Entry(s[a + i])' = Entry(s[a + i])
    BY <2>1 DEF Grew
  <2> QED
    BY <2>2, <2>3
<1> QED
  BY <1>5, <1>6 DEF Kept

\* the new node is the last one of the block of its key
LEMMA SetOwn ==
    ASSUME NEW s, NEW N, NEW J, NEW n, NEW w, NEW k \in Keys, NEW v, NEW t, Grew(s, N, J, n, w, k, v, t),
           NEW a, IsBlock(s, N, k, a, J)
    PROVE  Kept(s, w, N + 1, k, a, J, a, J + 1)
<1>1. /\ N \in Nat /\ J \in Nat /\ J <= N /\ a \in Nat /\ a <= J
      /\ Priority[k] \in Nat /\ \A i \in 1..N : Prio(s[i]) \in Nat
  BY PriorityAssumption DEF Grew, IsBlock
<1>2. \A i \in 1..N : (Prio(s[i]) < Priority[k] <=> i <= a) /\ (Prio(s[i]) <= Priority[k] <=> i <= J)
  BY DEF IsBlock
<1>4. ASSUME NEW i \in 1..(N + 1)
      PROVE  (Prio(w[i])' < Priority[k] <=> i <= a) /\ (Prio(w[i])' <= Priority[k] <=> i <= J + 1)
  <2>1. CASE i <= J /\ i \in 1..N /\ Prio(w[i])' = Prio(s[i])
    <3>1. i <= J + 1
      BY <1>1, <2>1
    <3> QED
      BY <1>2, <2>1, <3>1
  <2>2. CASE i = J + 1 /\ Prio(w[i])' = Priority[k]
    BY <1>1, <2>2
  <2>3. CASE i > J + 1 /\ i - 1 \in 1..N /\ Prio(w[i])' = Prio(s[i - 1])
    <3>1. ~(i <= a) /\ ~(i <= J + 1) /\ ~(i - 1 <= a) /\ ~(i - 1 <= J)
      BY <1>1, <2>3
    <3> QED
      BY <1>2, <2>3, <3>1
  <2> QED
    BY <2>1, <2>2, <2>3, GrewPlaces
<1>5. IsBlock(w, N + 1, k, a, J + 1)'
  <2>1. N + 1 \in Nat /\ J + 1 \in Nat /\ a <= J + 1 /\ J + 1 <= N + 1
    BY <1>1
  <2> QED
    BY <1>1, <1>4, <2>1 DEF IsBlock
<1>6. ASSUME NEW i \in 1..(J - a) PROVE Entry(w[a + i])' = Entry(s[a + i])
  <2>1. a + i \in 1..J /\ a + i \in 1..N
    BY <1>1
  <2>2. w[a + i] = s[a + i]
    BY <2>1 DEF Grew
  <2>3. Entry(s[a + i])' = Entry(s[a + i])
    BY <2>1 DEF Grew
  <2> QED
    BY <2>2, <2>3
<1> QED
  BY <1>5, <1>6 DEF Kept

\* Append to a sequence given as a function
LEMMA Appended ==
    ASSUME NEW m \in Nat, NEW S, NEW f \in [1..m -> S], NEW e
    PROVE  Append(f, e) = [i \in 1..(m + 1) |-> IF i = m + 1 THEN e ELSE f[i]]
<1> DEFINE T == S \cup {e}
           g == Append(f, e)
<1>1. f \in Seq(T) /\ Len(f) = m /\ e \in T
  OBVIOUS
<1> HIDE DEF T
<1>2. /\ g \in Seq(T) /\ Len(g) = m + 1 /\ g[m + 1] = e
      /\ \A i \in 1..m : g[i] = f[i]
  BY <1>1
<1> HIDE DEF g
<1>3. g = [i \in 1..(m + 1) |-> g[i]]
  <2>1. g = [i \in 1..Len(g) |-> g[i]]
    BY <1>2
  <2> QED
    BY <1>2, <2>1
<1>4. \A i \in 1..(m + 1) : g[i] = IF i = m + 1 THEN e ELSE f[i]
  BY <1>2
<1>5. g = [i \in 1..(m + 1) |-> IF i = m + 1 THEN e ELSE f[i]]
  BY <1>3, <1>4
<1> QED
  BY <1>5 DEF g

\* kvcache_set appends an entry to those of its key
LEMMA SetEntries ==
    ASSUME NEW s, NEW N, NEW J, NEW n, NEW w, NEW k \in Keys, NEW v, NEW t,
           Grew(s, N, J, n, w, k, v, t), Reads(s, N), Reads(w, N + 1)', now' = now
    PROVE  Store!Set(k, v, t)
<1> DEFINE e == [value |-> v, ttl |-> t, tms |-> now]
<1>3. PICK a, b : IsBlock(s, N, k, a, b)
  BY DEF Reads
<1>4. b = J
  <2>1. /\ N \in Nat /\ J \in Nat /\ J <= N /\ b \in Nat /\ b <= N
        /\ \A i \in 1..N : i <= b <=> i <= J
    BY <1>3 DEF IsBlock, Grew
  <2> QED
    BY <2>1
<1>5. IsBlock(s, N, k, a, J) /\ \A i \in 1..N : Prio(s[i]) <= Priority[k] <=> i <= J
  BY <1>3, <1>4 DEF Grew
<1>6. ASSUME NEW j \in Keys, j # k PROVE Entries'[j] = Entries[j]
  <2>1. PICK c, d : IsBlock(s, N, j, c, d)
    BY DEF Reads
  <2>2. c \in Nat /\ d \in Nat
    BY <2>1 DEF IsBlock
  <2>3. Entries[j] = [i \in 1..(d - c) |-> Entry(s[c + i])]
    BY <2>1 DEF Reads
  <2>4. Priority[j] \in Nat /\ Priority[k] \in Nat /\ Priority[j] # Priority[k]
    BY <1>6, PriorityAssumption
  <2>5. CASE Priority[j] < Priority[k]
    <3>0. Kept(s, w, N + 1, j, c, d, c, d)
      BY <1>5, <2>1, <2>5, SetBelow, Zenon
    <3>1. /\ IsBlock(w, N + 1, j, c, d)'
          /\ \A i \in 1..(d - c) : Entry(w[c + i])' = Entry(s[c + i])
      BY <3>0 DEF Kept
    <3>2. Entries'[j] = [i \in 1..(d - c) |-> Entry(w[c + i])']
      BY <3>1 DEF Reads
    <3> QED
      BY <2>3, <3>1, <3>2
  <2>6. CASE Priority[k] < Priority[j]
    <3>0. Kept(s, w, N + 1, j, c, d, c + 1, d + 1)
      BY <1>5, <2>1, <2>6, SetAbove, Zenon
    <3>1. /\ IsBlock(w, N + 1, j, c + 1, d + 1)'
          /\ \A i \in 1..(d - c) : Entry(w[c + 1 + i])' = Entry(s[c + i])
      BY <3>0 DEF Kept
    <3>2. Entries'[j] = [i \in 1..((d + 1) - (c + 1)) |-> Entry(w[c + 1 + i])']
      BY <3>1 DEF Reads
    <3>3. (d + 1) - (c + 1) = d - c
      BY <2>2
    <3> QED
      BY <2>3, <3>1, <3>2, <3>3
  <2> QED
    BY <2>4, <2>5, <2>6
<1>7. Entries'[k] = Append(Entries[k], e)
  <2>1. a \in Nat /\ J \in Nat /\ a <= J
    BY <1>5 DEF IsBlock
  <2>2. Entries[k] = [i \in 1..(J - a) |-> Entry(s[a + i])]
    BY <1>5 DEF Reads
  <2>3. /\ IsBlock(w, N + 1, k, a, J + 1)'
        /\ \A i \in 1..(J - a) : Entry(w[a + i])' = Entry(s[a + i])
        /\ Entry(w[J + 1])' = e
    <3>1. Kept(s, w, N + 1, k, a, J, a, J + 1)
      BY <1>5, SetOwn, Zenon
    <3>2. Entry(w[J + 1])' = e
      BY DEF Grew
    <3> QED
      BY <3>1, <3>2 DEF Kept
  <2>4. Entries'[k] = [i \in 1..((J + 1) - a) |-> Entry(w[a + i])']
    BY <2>3 DEF Reads
  <2> HIDE DEF e
  <2>6. Append(Entries[k], e) = [i \in 1..((J - a) + 1) |-> IF i = (J - a) + 1 THEN e ELSE Entries[k][i]]
    <3> DEFINE S == {Entry(s[a + i]) : i \in 1..(J - a)}
    <3>0. J - a \in Nat /\ \A i \in 1..(J - a) : Entry(s[a + i]) \in S
      BY <2>1
    <3> HIDE DEF S
    <3>1. Entries[k] \in [1..(J - a) -> S]
      BY <2>2, <3>0
    <3> QED
      BY <3>0, <3>1, Appended
  <2>7. (J + 1) - a = (J - a) + 1 /\ a + ((J - a) + 1) = J + 1
    BY <2>1
  <2>8. ASSUME NEW i \in 1..((J - a) + 1)
        PROVE  Entry(w[a + i])' = IF i = (J - a) + 1 THEN e ELSE Entries[k][i]
    <3>1. CASE i = (J - a) + 1
      BY <2>3, <2>7, <3>1
    <3>2. CASE i # (J - a) + 1
      <4>1. i \in 1..(J - a)
        BY <2>1, <3>2
      <4> QED
        BY <2>2, <2>3, <3>2, <4>1
    <3> QED
      BY <3>1, <3>2
  <2> QED
    BY <2>4, <2>6, <2>7, <2>8
<1>8. Entries = [j \in Keys |-> Entries[j]] /\ Entries' = [j \in Keys |-> Entries'[j]]
  BY EntriesFun
<1>10. Entries' = [Entries EXCEPT ![k] = Append(@, e)]
  <2> HIDE DEF e
  <2> QED
    BY <1>6, <1>7, <1>8
<1> QED
  BY <1>10 DEF Store!Set

\* what set does to the list
LEMMA InsertGrew ==
    ASSUME TypeOK, NEW N, NEW s, Shape(s, N), NEW J, NEW n, NEW h, NEW U, NEW k \in Keys, NEW v, NEW t,
           Inserts(s, N, J, n, h, U, k, v, t)
    PROVE  Grew(s, N, J, n, Grown(s, N, J, n), k, v, t)
<1>0. Entered(n, h, k, v, t)
  BY InsertNodes, Zenon
<1>1. N \in Nat /\ J \in Nat /\ J <= N
  BY DEF Shape, Inserts, IsAhead
<1>2. /\ \A i \in 1..J : Grown(s, N, J, n)[i] = s[i]
      /\ Grown(s, N, J, n)[J + 1] = n
      /\ \A i \in (J + 1)..N : Grown(s, N, J, n)[i + 1] = s[i]
  BY <1>1 DEF Grown
<1>3. \A i \in 1..N : s[i] \in alive /\ node'[s[i]] = node[s[i]]
  BY <1>0, NodesBehind DEF Entered
<1>4. \A i \in 1..N : Prio(s[i])' = Prio(s[i]) /\ Entry(s[i])' = Entry(s[i]) /\ Prio(s[i]) \in Nat
  BY <1>3, PrioNat DEF Prio, Entry
<1>5. Prio(n)' = Priority[k] /\ Entry(n)' = [value |-> v, ttl |-> t, tms |-> now]
  BY <1>0 DEF Prio, Entry, Entered
<1>6. Priority[k] \in Nat /\ IsAhead(s, N, Priority[k], TRUE, J)
  BY PriorityAssumption, Zenon DEF Inserts
<1>7. \A i \in 1..N : Prio(s[i]) <= Priority[k] <=> i <= J
  BY <1>4, <1>6 DEF IsAhead, Before
<1> QED
  BY <1>1, <1>2, <1>4, <1>5, <1>7 DEF Grew

\* what del does to the list
LEMMA RemoveShed ==
    ASSUME TypeOK, NEW M, NEW s, Shape(s, M), NEW J, NEW n, NEW U, NEW k, Removes(s, M, J, n, U, k)
    PROVE  Shed(s, M, J, Shrunk(s, M, J), k)
<1>0. Left(s, M, J, n)
  BY RemoveNodes, Zenon
<1>1. M \in Nat /\ J \in Nat /\ J < M
  BY <1>0 DEF Left
<1>2. /\ \A i \in 1..J : Shrunk(s, M, J)[i] = s[i]
      /\ \A i \in (J + 1)..(M - 1) : Shrunk(s, M, J)[i] = s[i + 1]
  BY <1>1 DEF Shrunk
<1>3. Prio(s[J + 1]) = Priority[k]
  BY Zenon DEF Removes
<1>4. \A i \in 1..M : i # J + 1 => node'[s[i]] = node[s[i]]
  BY <1>0 DEF Left
<1>5. \A i \in 1..M : i # J + 1 => Prio(s[i])' = Prio(s[i]) /\ Entry(s[i])' = Entry(s[i])
  BY <1>4, Zenon DEF Prio, Entry
<1>6. \A i \in 1..M : Prio(s[i]) \in Nat
  BY NodesBehind, PrioNat
<1>7. \A i \in 1..M : Prio(s[i]) < Priority[k] <=> i <= J
  BY Zenon DEF Removes, IsAhead, Before
<1> QED
  BY <1>1, <1>2, <1>3, <1>5, <1>6, <1>7 DEF Shed

-----------------------------------------------------------------------------
(* What a new time and lifetime do to them.                                 *)

\* and depends on the list and on the nodes only
LEMMA EntriesSame == ASSUME UNCHANGED <<elem, node, alive>> PROVE Entries' = Entries
  BY DEF Entries, List, Successor, Ahead, Before, Prio, Entry

\* a record with two fields replaced
IsExcept(r, v, x, y) == [r EXCEPT !.tms = x, !.ttl = y] = [value |-> v, ttl |-> y, tms |-> x]

\* is the record with the new values
LEMMA RecordExcept ==
    ASSUME NEW r, NEW v, NEW p, NEW q, NEW x, NEW y, r = [value |-> v, ttl |-> p, tms |-> q]
    PROVE  IsExcept(r, v, x, y)
<1> DEFINE e == [r EXCEPT !.tms = x, !.ttl = y]
<1>1. DOMAIN e = {"value", "ttl", "tms"} /\ e = [f \in DOMAIN e |-> e[f]]
  BY Zenon
<1>2. e.value = v /\ e.ttl = y /\ e.tms = x
  OBVIOUS
<1> HIDE DEF e
<1>3. e = [value |-> v, ttl |-> y, tms |-> x]
  BY <1>1, <1>2
<1> QED
  BY <1>3 DEF e, IsExcept

\* of F and G only two fields of the first entry of k differ
Differ(F, G, k, m, x, y) ==
    /\ m \in Nat /\ 1 <= m
    /\ F = [j \in Keys |-> F[j]] /\ G = [j \in Keys |-> G[j]]
    /\ F[k] = [i \in 1..m |-> F[k][i]] /\ G[k] = [i \in 1..m |-> G[k][i]]
    /\ \A j \in Keys : j # k => G[j] = F[j]
    /\ \A i \in 1..m : i # 1 => G[k][i] = F[k][i]
    /\ G[k][1] = [F[k][1] EXCEPT !.tms = x, !.ttl = y]

\* G is F with two fields of the first entry of k replaced
IsReplaced(F, G, k, x, y) == G = [F EXCEPT ![k][1].tms = x, ![k][1].ttl = y]

\* which is what they differ in
LEMMA Replaced ==
    ASSUME NEW F, NEW G, NEW k \in Keys, NEW m, NEW x, NEW y, Differ(F, G, k, m, x, y)
    PROVE  IsReplaced(F, G, k, x, y)
<1> USE DEF Differ
<1> DEFINE r == [F[k][1] EXCEPT !.tms = x, !.ttl = y]
           H == [F EXCEPT ![k][1].tms = x, ![k][1].ttl = y]
<1>1. 1 \in 1..m
  OBVIOUS
<1>2. H = [F EXCEPT ![k] = [F[k] EXCEPT ![1] = r]]
  <2>1. [F EXCEPT ![k][1].tms = x] = [F EXCEPT ![k] = [F[k] EXCEPT ![1] = [F[k][1] EXCEPT !.tms = x]]]
    OBVIOUS
  <2> DEFINE F1 == [F EXCEPT ![k] = [F[k] EXCEPT ![1] = [F[k][1] EXCEPT !.tms = x]]]
  <2>2. H = [F1 EXCEPT ![k][1].ttl = y]
    BY <2>1
  <2>3. F1[k] = [F[k] EXCEPT ![1] = [F[k][1] EXCEPT !.tms = x]] /\ DOMAIN F1 = Keys
    OBVIOUS
  <2>4. F1[k][1] = [F[k][1] EXCEPT !.tms = x]
    BY <1>1, <2>3
  <2>5. [F1[k][1] EXCEPT !.ttl = y] = r
    BY <2>4
  <2>6. [F1[k] EXCEPT ![1] = r] = [F[k] EXCEPT ![1] = r]
    BY <1>1, <2>3, Zenon
  <2>7. [F1 EXCEPT ![k] = [F[k] EXCEPT ![1] = r]] = [F EXCEPT ![k] = [F[k] EXCEPT ![1] = r]]
    BY Zenon
  <2> HIDE DEF F1, r, H
  <2>8. H = [F1 EXCEPT ![k] = [F1[k] EXCEPT ![1] = [F1[k][1] EXCEPT !.ttl = y]]]
    BY <2>2
  <2> QED
    BY <2>5, <2>6, <2>7, <2>8, Zenon
<1> HIDE DEF r, H
<1>3. H[k] = [F[k] EXCEPT ![1] = r] /\ DOMAIN H = Keys /\ \A j \in Keys : j # k => H[j] = F[j]
  BY <1>2, Zenon
<1>4. G[k] = [F[k] EXCEPT ![1] = r]
  BY <1>1 DEF r
<1>5. G = H
  <2>1. H = [j \in Keys |-> H[j]]
    BY <1>2, Zenon
  <2>2. \A j \in Keys : G[j] = H[j]
    BY <1>3, <1>4, Zenon
  <2> QED
    BY <2>1, <2>2
<1> QED
  BY <1>5, Zenon DEF H, IsReplaced

\* the first node of the block behind a gets a new time and time to live
Refreshed(s, N, a, t) ==
    /\ \A i \in 1..N : Prio(s[i])' = Prio(s[i]) /\ Prio(s[i]) \in Nat
    /\ \A i \in 1..N : i # a + 1 => Entry(s[i])' = Entry(s[i])
    /\ Entry(s[a + 1])' = [Entry(s[a + 1]) EXCEPT !.tms = now, !.ttl = t]

\* kvcache_expire changes the oldest entry of its key
LEMMA ExpireEntries ==
    ASSUME NEW s, NEW N, NEW k \in Keys, NEW a, NEW b, NEW t, IsBlock(s, N, k, a, b), a < b,
           Refreshed(s, N, a, t), Reads(s, N), Reads(s, N)'
    PROVE  IsReplaced(Entries, Entries', k, now, t)
<1>1. a \in Nat /\ b \in Nat /\ a <= b /\ b <= N /\ N \in Nat
  BY DEF IsBlock
<1>2. ASSUME NEW j \in Keys, NEW c, NEW d, IsBlock(s, N, j, c, d)
      PROVE  Entries[j] = [i \in 1..(d - c) |-> Entry(s[c + i])]
             /\ Entries'[j] = [i \in 1..(d - c) |-> Entry(s[c + i])']
  <2>1. IsBlock(s, N, j, c, d)'
    BY <1>2 DEF IsBlock, Refreshed
  <2>2. Entries[j] = [i \in 1..(d - c) |-> Entry(s[c + i])]
    BY <1>2 DEF Reads
  <2>3. Entries'[j] = [i \in 1..(d - c) |-> Entry(s[c + i])']
    BY <2>1 DEF Reads
  <2> QED
    BY <2>2, <2>3
<1>3. ASSUME NEW j \in Keys, j # k PROVE Entries'[j] = Entries[j]
  <2>1. PICK c, d : IsBlock(s, N, j, c, d)
    BY DEF Reads
  <2>2. ASSUME NEW i \in 1..(d - c) PROVE Entry(s[c + i])' = Entry(s[c + i])
    <3>1. c + i \in 1..N /\ c + i > c /\ c + i <= d
      BY <2>1 DEF IsBlock
    <3>2. c + i # a + 1
      <4> SUFFICES ASSUME c + i = a + 1 PROVE FALSE
        OBVIOUS
      <4>1. a + 1 \in 1..N /\ ~(a + 1 <= a) /\ a + 1 <= b /\ ~(a + 1 <= c) /\ a + 1 <= d
        BY <1>1, <2>1, <3>1 DEF IsBlock
      <4>2. /\ ~(Prio(s[a + 1]) < Priority[k]) /\ Prio(s[a + 1]) <= Priority[k]
            /\ ~(Prio(s[a + 1]) < Priority[j]) /\ Prio(s[a + 1]) <= Priority[j]
        BY <2>1, <4>1 DEF IsBlock
      <4>3. Priority[j] \in Nat /\ Priority[k] \in Nat /\ Prio(s[a + 1]) \in Nat
        BY <4>1, PriorityAssumption DEF Refreshed
      <4>4. Priority[j] = Priority[k]
        BY <4>2, <4>3
      <4> QED
        BY <1>3, <4>4, PriorityAssumption
    <3> QED
      BY <3>1, <3>2 DEF Refreshed
  <2>3. /\ Entries[j] = [i \in 1..(d - c) |-> Entry(s[c + i])]
        /\ Entries'[j] = [i \in 1..(d - c) |-> Entry(s[c + i])']
    BY <1>2, <2>1
  <2> QED
    BY <2>2, <2>3
<1>4. /\ Entries[k] = [i \in 1..(b - a) |-> Entry(s[a + i])]
      /\ Entries'[k] = [i \in 1..(b - a) |-> Entry(s[a + i])']
  BY <1>2
<1>5. b - a \in Nat /\ 1 <= b - a /\ 1 \in 1..(b - a)
  BY <1>1
<1>6. Entries'[k][1] = [Entries[k][1] EXCEPT !.tms = now, !.ttl = t]
  BY <1>4, <1>5 DEF Refreshed
<1>7. ASSUME NEW i \in 1..(b - a), i # 1 PROVE Entries'[k][i] = Entries[k][i]
  <2>1. a + i \in 1..N /\ a + i # a + 1
    BY <1>1, <1>7
  <2>2. Entry(s[a + i])' = Entry(s[a + i])
    BY <2>1 DEF Refreshed
  <2> QED
    BY <1>4, <2>2
<1>8. /\ Entries[k] = [i \in 1..(b - a) |-> Entries[k][i]]
      /\ Entries'[k] = [i \in 1..(b - a) |-> Entries'[k][i]]
  BY <1>4
<1>9. Differ(Entries, Entries', k, b - a, now, t)
  BY <1>3, <1>5, <1>6, <1>7, <1>8, EntriesFun DEF Differ
<1> QED
  BY <1>9, Replaced, Zenon

-----------------------------------------------------------------------------
(* The answers.                                                             *)

\* every key has a block, if only an empty one
LEMMA BlockExists ==
    ASSUME TypeOK, NEW N, NEW s, Shape(s, N), NEW k \in Keys
    PROVE  \E a, b : IsBlock(s, N, k, a, b)
<1>1. Priority[k] \in Nat /\ N \in Nat /\ \A i \in 1..N : Prio(s[i]) \in Nat
  BY PriorityAssumption, NodesBehind, PrioNat DEF Shape
<1>2. PICK a : IsAhead(s, N, Priority[k], FALSE, a)
  BY <1>1, AheadExists, Zenon
<1>3. PICK b : IsAhead(s, N, Priority[k], TRUE, b)
  BY <1>1, AheadExists, Zenon
<1>4. a \in 0..N /\ \A i \in 1..N : Prio(s[i]) < Priority[k] <=> i <= a
  BY <1>2 DEF IsAhead, Before
<1>5. b \in 0..N /\ \A i \in 1..N : Prio(s[i]) <= Priority[k] <=> i <= b
  BY <1>1, <1>3 DEF IsAhead, Before
<1>6. a <= b
  <2> SUFFICES ASSUME ~(a <= b) PROVE FALSE
    OBVIOUS
  <2>1. a \in 1..N /\ a <= a
    BY <1>1, <1>4, <1>5
  <2> QED
    BY <1>1, <1>4, <1>5, <2>1
<1>7. IsBlock(s, N, k, a, b)
  BY <1>1, <1>4, <1>5, <1>6 DEF IsBlock
<1> QED
  BY <1>7

\* its ends are what Ahead finds
LEMMA BlockAhead ==
    ASSUME TypeOK, NEW N, NEW s, Shape(s, N), NEW k \in Keys, NEW a, NEW b, IsBlock(s, N, k, a, b)
    PROVE  IsAhead(s, N, Priority[k], FALSE, a) /\ IsAhead(s, N, Priority[k], TRUE, b)
<1>1. Priority[k] \in Nat /\ N \in Nat /\ \A i \in 1..N : Prio(s[i]) \in Nat
  BY PriorityAssumption, NodesBehind, PrioNat DEF Shape
<1>2. a \in 0..N /\ b \in 0..N
  BY DEF IsBlock
<1> QED
  BY <1>1, <1>2 DEF IsAhead, Before, IsBlock

\* the entries of k
LEMMA EntriesIs ==
    ASSUME NEW N, NEW s, NEW k \in Keys, NEW a, NEW b
    PROVE  TypeOK /\ Shape(s, N) /\ IsBlock(s, N, k, a, b)
              => Entries[k] = [i \in 1..(b - a) |-> Entry(s[a + i])]
<1> SUFFICES ASSUME TypeOK, Shape(s, N), IsBlock(s, N, k, a, b)
             PROVE  Entries[k] = [i \in 1..(b - a) |-> Entry(s[a + i])]
  OBVIOUS
<1>1. N \in Nat /\ \A i \in 0..N : List[i] = s[i]
  BY LengthIs, Zenon
<1>2. IsAhead(s, N, Priority[k], FALSE, a) /\ IsAhead(s, N, Priority[k], TRUE, b)
  BY BlockAhead, Zenon
<1>3. Ahead(List, Priority[k], FALSE) = a /\ Ahead(List, Priority[k], TRUE) = b
  BY <1>2, AheadIs, Zenon
<1>4. \A i \in 1..(b - a) : List[a + i] = s[a + i]
  BY <1>1 DEF IsBlock
<1>5. Entries[k] = [i \in 1..(Ahead(List, Priority[k], TRUE) - Ahead(List, Priority[k], FALSE)) |->
                       Entry(List[Ahead(List, Priority[k], FALSE) + i])]
  BY Zenon DEF Entries
<1>6. Entries[k] = [i \in 1..(b - a) |-> Entry(List[a + i])]
  BY <1>3, <1>5, Zenon
<1> QED
  BY <1>4, <1>6

\* so the entries are read from the list
LEMMA ReadsHold == ASSUME NEW s, NEW N PROVE TypeOK /\ Shape(s, N) => Reads(s, N)
<1> SUFFICES ASSUME TypeOK, Shape(s, N) PROVE Reads(s, N)
  OBVIOUS
<1>1. \A k \in Keys : \E a, b : IsBlock(s, N, k, a, b)
  BY BlockExists
<1>2. ASSUME NEW k \in Keys, NEW a, NEW b, IsBlock(s, N, k, a, b)
      PROVE  Entries[k] = [i \in 1..(b - a) |-> Entry(s[a + i])]
  BY <1>2, EntriesIs
<1> QED
  BY <1>1, <1>2 DEF Reads

\* in the next state too
LEMMA ReadsNext == ASSUME NEW s, NEW N PROVE TypeOK' /\ Shape(s, N)' => Reads(s, N)'
<1>1. TypeOK /\ Shape(s, N) => Reads(s, N)
  BY ReadsHold
<1>2. (TypeOK /\ Shape(s, N) => Reads(s, N))'
  BY <1>1, PTL
<1> QED
  BY <1>2

\* get, ttl, expire and del look at the first node of the block
LEMMA FindsBlock ==
    ASSUME TypeOK, Capped, NEW N, NEW s, Shape(s, N), NEW k \in Keys, NEW a, NEW b, IsBlock(s, N, k, a, b)
    PROVE  Lookup(k) = IF a < b THEN s[a + 1] ELSE NIL
<1>1. IsAhead(s, N, Priority[k], FALSE, a)
  BY BlockAhead, Zenon
<1>2. Lookup(k) = IF a < N /\ Prio(s[a + 1]) = Priority[k] THEN s[a + 1] ELSE NIL
  BY <1>1, Finds, Zenon
<1>3. Priority[k] \in Nat /\ N \in Nat /\ \A i \in 1..N : Prio(s[i]) \in Nat
  BY PriorityAssumption, NodesBehind, PrioNat DEF Shape
<1>4. a < N /\ Prio(s[a + 1]) = Priority[k] <=> a < b
  <2>1. a \in Nat /\ b \in Nat /\ a <= b /\ b <= N
    BY DEF IsBlock
  <2>2. CASE a < N
    <3>1. a + 1 \in 1..N /\ ~(a + 1 <= a)
      BY <1>3, <2>1, <2>2
    <3>2. ~(Prio(s[a + 1]) < Priority[k]) /\ (Prio(s[a + 1]) <= Priority[k] <=> a + 1 <= b)
      BY <3>1 DEF IsBlock
    <3> QED
      BY <1>3, <2>1, <2>2, <3>1, <3>2
  <2>3. CASE ~(a < N)
    BY <1>3, <2>1, <2>3
  <2> QED
    BY <2>2, <2>3
<1> QED
  BY <1>2, <1>4

\* get and ttl look at the first node of the block
LEMMA AnswersHold == ASSUME Inv PROVE AnswersExact
<1> SUFFICES ASSUME NEW k \in Keys
             PROVE  KvcacheGet(k) = Store!Get(k) /\ KvcacheTtl(k) = Store!Ttl(k)
  BY Zenon DEF AnswersExact
<1>0. TypeOK /\ Capped
  BY DEF Inv
<1>1. PICK N, s : Shape(s, N)
  BY DEF Inv
<1>a. Reads(s, N)
  BY <1>0, <1>1, ReadsHold
<1>2. PICK a, b : IsBlock(s, N, k, a, b)
  BY <1>a DEF Reads
<1>3. Lookup(k) = IF a < b THEN s[a + 1] ELSE NIL
  BY <1>0, <1>1, <1>2, FindsBlock, Zenon
<1>4. Store!Has(k) <=> a < b
  BY <1>a, <1>2, HeadIs DEF Store!Has
<1>5. CASE a < b
  <2>1. s[a + 1] # NIL
    BY <1>0, <1>1, <1>2, <1>5, NodesBehind DEF IsBlock
  <2>2. Head(Entries[k]) = Entry(s[a + 1])
    BY <1>a, <1>2, <1>5, HeadIs
  <2>3. /\ Head(Entries[k]).value = node[s[a + 1]].value
        /\ Head(Entries[k]).tms = node[s[a + 1]].tms
        /\ Head(Entries[k]).ttl = node[s[a + 1]].ttl
    BY <2>2 DEF Entry
  <2> QED
    BY <1>3, <1>4, <1>5, <2>1, <2>3 DEF KvcacheGet, KvcacheTtl, Expired, Store!Get, Store!Ttl, Store!Expired
<1>6. CASE ~(a < b)
  BY <1>3, <1>4, <1>6 DEF KvcacheGet, KvcacheTtl, Store!Get, Store!Ttl
<1> QED
  BY <1>5, <1>6

(***************************************************************************)
(* kvcache_get and kvcache_ttl answer from the oldest entry of their key,   *)
(* and find it through the levels whenever there is one.                    *)
(***************************************************************************)
THEOREM AnswersSafe == Spec => []AnswersExact
<1>1. Inv => AnswersExact
  BY AnswersHold
<1> QED
  BY <1>1, Invariance, PTL

-----------------------------------------------------------------------------
(* The refinement.                                                          *)

\* kvcache_set is Set of KvStore
LEMMA SetStep ==
    ASSUME Inv, Inv', NEW k \in Keys, NEW v \in Values, NEW t \in Ttls, KvcacheSet(k, v, t)
    PROVE  Store!Set(k, v, t)
<1>0. TypeOK /\ Capped /\ LevelInv
  BY DEF Inv
<1>1. PICK N, s : Shape(s, N)
  BY DEF Inv
<1>2. PICK J, n, h, U : Inserts(s, N, J, n, h, U, k, v, t)
  BY <1>0, <1>1, SetInserts, Zenon
<1> DEFINE w == Grown(s, N, J, n)
<1>3. Ordered(w, N + 1)' /\ Linked(w, N + 1)'
  BY <1>0, <1>1, <1>2, InsertOrdered, InsertLinked, Zenon
<1>4. N + 1 \in Nat /\ TypeOK'
  BY <1>1 DEF Shape, Inv
<1>5. Shape(w, N + 1)'
  BY <1>3, <1>4 DEF Shape
<1>6. Grew(s, N, J, n, w, k, v, t)
  BY <1>0, <1>1, <1>2, InsertGrew, Zenon
<1> HIDE DEF w
<1>7. Reads(s, N)
  BY <1>0, <1>1, ReadsHold, Zenon
<1>9. Reads(w, N + 1)'
  BY <1>4, <1>5, ReadsNext, Zenon
<1>8. now' = now
  BY <1>2 DEF Inserts
<1> QED
  BY <1>6, <1>7, <1>8, <1>9, SetEntries, Zenon

\* kvcache_del does nothing if the key has no entry
LEMMA DelNothing ==
    ASSUME Inv, NEW k \in Keys, Lookup(k) = NIL, UNCHANGED vars
    PROVE  Store!Del(k)
<1>0. TypeOK /\ Capped
  BY DEF Inv
<1>1. PICK N, s : Shape(s, N)
  BY DEF Inv
<1>a. Reads(s, N)
  BY <1>0, <1>1, ReadsHold
<1>2. PICK a, b : IsBlock(s, N, k, a, b)
  BY <1>a DEF Reads
<1>3. ~(a < b)
  <2> SUFFICES ASSUME a < b PROVE FALSE
    OBVIOUS
  <2>1. Lookup(k) = s[a + 1]
    BY <1>0, <1>1, <1>2, FindsBlock
  <2>2. a + 1 \in 1..N
    BY <1>2 DEF IsBlock
  <2> QED
    BY <1>0, <1>1, <2>1, <2>2, NodesBehind
<1>4. ~Store!Has(k)
  BY <1>a, <1>2, <1>3, HeadIs DEF Store!Has
<1>5. Entries' = Entries /\ now' = now
  BY EntriesSame DEF vars
<1>6. Entries' = [Entries EXCEPT ![k] = IF Store!Has(k) THEN Tail(@) ELSE @]
  BY <1>4, <1>5, EntriesFun
<1> QED
  BY <1>5, <1>6, Zenon DEF Store!Del

\* kvcache_del is Del
LEMMA DelStep ==
    ASSUME Inv, Inv', NEW k \in Keys, KvcacheDel(k)
    PROVE  Store!Del(k)
<1>0. TypeOK /\ Capped /\ LevelInv
  BY DEF Inv
<1>1. PICK N, s : Shape(s, N)
  BY DEF Inv
<1>2. CASE Lookup(k) = NIL /\ UNCHANGED vars
  BY <1>2, DelNothing
<1>3. CASE \E J, n, U : Removes(s, N, J, n, U, k)
  <2>1. PICK J, n, U : Removes(s, N, J, n, U, k)
    BY <1>3
  <2> DEFINE w == Shrunk(s, N, J)
  <2>2. Shed(s, N, J, w, k)
    BY <1>0, <1>1, <2>1, RemoveShed, Zenon
  <2>3. Ordered(w, N - 1)' /\ Linked(w, N - 1)'
    BY <1>0, <1>1, <2>1, RemoveOrdered, RemoveLinked, Zenon
  <2>4. N - 1 \in Nat /\ TypeOK'
    BY <2>2 DEF Shed, Inv
  <2>5. Shape(w, N - 1)'
    BY <2>3, <2>4 DEF Shape
  <2> HIDE DEF w
  <2>6. Reads(s, N)
    BY <1>0, <1>1, ReadsHold, Zenon
  <2>8. Reads(w, N - 1)'
    BY <2>4, <2>5, ReadsNext, Zenon
  <2>7. now' = now
    BY <2>1 DEF Removes
  <2> QED
    BY <2>2, <2>6, <2>7, <2>8, DelEntries, Zenon
<1>4. \/ Lookup(k) = NIL /\ UNCHANGED vars
      \/ \E J, n, U : Lookup(k) = n /\ Removes(s, N, J, n, U, k)
  BY <1>0, <1>1, DelRemoves, Zenon
<1> QED
  BY <1>2, <1>3, <1>4, Zenon

\* the clock is Time
LEMMA TickTime == ASSUME TypeOK, Tick PROVE Store!Time
<1>1. Entries' = Entries
  BY EntriesSame DEF Tick
<1>2. now' > now
  BY Consts DEF Tick, TypeOK
<1> QED
  BY <1>1, <1>2 DEF Store!Time

\* kvcache_expire is Expire
LEMMA ExpireStep ==
    ASSUME Inv, Inv', NEW k \in Keys, NEW t \in Ttls, KvcacheExpire(k, t)
    PROVE  Store!Expire(k, t)
<1>0. TypeOK /\ Capped /\ LevelInv
  BY DEF Inv
<1>1. PICK N, s : Shape(s, N)
  BY DEF Inv
<1>a. Reads(s, N)
  BY <1>0, <1>1, ReadsHold
<1>2. PICK a, b : IsBlock(s, N, k, a, b)
  BY <1>a DEF Reads
<1>3. a \in Nat /\ b \in Nat /\ a <= b /\ b <= N /\ N \in Nat
  BY <1>2 DEF IsBlock
<1>4. Lookup(k) = IF a < b THEN s[a + 1] ELSE NIL
  BY <1>0, <1>1, <1>2, FindsBlock, Zenon
<1>5. a < b => s[a + 1] \in alive /\ s[a + 1] \in Nodes /\ s[a + 1] # NIL
  <2>1. a < b => a + 1 \in 1..N
    BY <1>3
  <2> QED
    BY <1>0, <1>1, <2>1, NodesBehind
<1>6. Store!Has(k) <=> a < b
  BY <1>a, <1>2, HeadIs DEF Store!Has
<1>7. a < b => (Store!Expired(k) <=> Expired(s[a + 1]))
  <2> SUFFICES ASSUME a < b PROVE Store!Expired(k) <=> Expired(s[a + 1])
    OBVIOUS
  <2>1. Head(Entries[k]) = Entry(s[a + 1])
    BY <1>a, <1>2, HeadIs
  <2>2. Head(Entries[k]).tms = node[s[a + 1]].tms /\ Head(Entries[k]).ttl = node[s[a + 1]].ttl
    BY <2>1 DEF Entry
  <2> QED
    BY <2>2 DEF Expired, Store!Expired
<1>8. CASE (Lookup(k) = NIL \/ Expired(Lookup(k))) /\ UNCHANGED vars
  <2>1. ~(Store!Has(k) /\ ~Store!Expired(k))
    BY <1>4, <1>5, <1>6, <1>7, <1>8
  <2>2. Entries' = Entries /\ now' = now
    BY <1>8, EntriesSame DEF vars
  <2> QED
    BY <2>1, <2>2 DEF Store!Expire
<1>9. CASE /\ Lookup(k) # NIL /\ ~Expired(Lookup(k))
           /\ node' = [node EXCEPT ![Lookup(k)].tms = now, ![Lookup(k)].ttl = t]
           /\ UNCHANGED <<elem, alive, level, now>>
  <2> DEFINE n == s[a + 1]
  <2>1. a < b /\ Lookup(k) = n /\ n \in Nodes
    BY <1>4, <1>5, <1>9
  <2>2. Store!Has(k) /\ ~Store!Expired(k)
    BY <1>6, <1>7, <1>9, <2>1
  <2>3. TypeOK' /\ Shape(s, N)'
    BY <1>0, <1>1, ExpireKeeps
  <2> HIDE DEF n
  <2>4. node' = [node EXCEPT ![n].tms = now, ![n].ttl = t]
    BY <1>9, <2>1
  <2>5. \A m \in Nodes : m # n => node'[m] = node[m]
    BY <1>0, <2>4 DEF TypeOK
  <2>6. node'[n] = [node[n] EXCEPT !.tms = now, !.ttl = t]
    BY <1>0, <2>1, <2>4 DEF TypeOK
  <2>7. node[n] = [key |-> node[n].key, value |-> node[n].value, ttl |-> node[n].ttl,
                   tms |-> node[n].tms, height |-> node[n].height]
    <3>1. node[n] \in [key : Keys \cup {NIL}, value : Values \cup {0}, ttl : Ttls \cup {0},
                       tms : 0..MaxTime, height : Levels]
      BY <1>0, <2>1 DEF TypeOK
    <3> QED
      BY <3>1
  <2>8. node'[n].key = node[n].key /\ node'[n].value = node[n].value
        /\ node'[n].tms = now /\ node'[n].ttl = t
    BY <2>6, <2>7
  <2>9. /\ \A m \in Nodes : Prio(m)' = Prio(m) /\ (m # n => Entry(m)' = Entry(m))
        /\ Entry(n)' = [Entry(n) EXCEPT !.tms = now, !.ttl = t]
    <3>1. \A m \in Nodes : Prio(m)' = Prio(m)
      BY <2>5, <2>8 DEF Prio
    <3>2. \A m \in Nodes : m # n => Entry(m)' = Entry(m)
      BY <2>5 DEF Entry
    <3>3. Entry(n)' = [value |-> node[n].value, ttl |-> t, tms |-> now]
      BY <2>8 DEF Entry
    <3>4. Entry(n) = [value |-> node[n].value, ttl |-> node[n].ttl, tms |-> node[n].tms]
      BY DEF Entry
    <3>5. [Entry(n) EXCEPT !.tms = now, !.ttl = t] = [value |-> node[n].value, ttl |-> t, tms |-> now]
      <4>1. IsExcept(Entry(n), node[n].value, now, t)
        BY <3>4, RecordExcept, Zenon
      <4> QED
        BY <4>1 DEF IsExcept
    <3> QED
      BY <3>1, <3>2, <3>3, <3>5
  <2>10. /\ \A i \in 1..N : s[i] \in Nodes
         /\ \A i \in 1..N : s[i] = n => i = a + 1
    <3>1. \A i \in 1..N : s[i] \in Nodes
      BY <1>0, <1>1, NodesBehind
    <3>2. a + 1 \in 1..N /\ \A i, j \in 1..N : s[i] = s[j] => i = j
      BY <1>1, <1>3, <2>1 DEF Shape, Ordered
    <3> QED
      BY <3>1, <3>2 DEF n
  <2>11. Refreshed(s, N, a, t)
    <3>1. \A i \in 1..N : Prio(s[i])' = Prio(s[i]) /\ Prio(s[i]) \in Nat
      BY <1>0, <1>1, <2>9, <2>10, NodesBehind, PrioNat
    <3>2. \A i \in 1..N : i # a + 1 => Entry(s[i])' = Entry(s[i])
      BY <2>9, <2>10
    <3> QED
      BY <2>9, <3>1, <3>2 DEF Refreshed, n
  <2>12. Reads(s, N)'
    BY <2>3, ReadsNext
  <2>13. IsReplaced(Entries, Entries', k, now, t)
    BY <1>a, <1>2, <2>1, <2>11, <2>12, ExpireEntries, Zenon
  <2> QED
    BY <1>9, <2>2, <2>13 DEF Store!Expire, IsReplaced
<1> QED
  BY <1>0, <1>8, <1>9, ExpireIs

\* the area starts without entries
LEMMA InitStore == Init => Store!KvInit
<1> SUFFICES ASSUME Init PROVE Store!KvInit
  OBVIOUS
<1>0. Inv /\ TypeOK
  BY InitInv DEF Inv
<1>1. PICK N, s : Shape(s, N)
  BY <1>0 DEF Inv
<1>a. Reads(s, N)
  BY <1>0, <1>1, ReadsHold
<1>2. N = 0
  BY <1>1 DEF Init, Shape, Ordered
<1>3. ASSUME NEW k \in Keys PROVE Entries[k] = <<>>
  <2>1. PICK a, b : IsBlock(s, N, k, a, b)
    BY <1>a DEF Reads
  <2>2. ~(a < b)
    BY <1>2, <2>1 DEF IsBlock
  <2> QED
    BY <1>a, <2>1, <2>2, HeadIs
<1>4. Entries = [k \in Keys |-> <<>>]
  BY <1>3, EntriesFun
<1> QED
  BY <1>4 DEF Init, Store!KvInit

\* every step is the one of KvStore with the same name
Simulated ==
    \/ Tick /\ Store!Time
    \/ \E k \in Keys :
          \/ KvcacheDel(k) /\ Store!Del(k)
          \/ \E t \in Ttls :
                \/ KvcacheExpire(k, t) /\ Store!Expire(k, t)
                \/ \E v \in Values : KvcacheSet(k, v, t) /\ Store!Set(k, v, t)

\* which every step is
LEMMA StepSimulated == Inv /\ Inv' /\ [Next]_vars => [Simulated]_vars
<1> SUFFICES ASSUME Inv, Inv', Next PROVE Simulated
  OBVIOUS
<1>0. TypeOK
  BY DEF Inv
<1>1. CASE Tick
  BY <1>0, <1>1, TickTime DEF Simulated
<1>2. ASSUME NEW k \in Keys, KvcacheDel(k) PROVE Simulated
  <2>1. Store!Del(k)
    BY <1>2, DelStep
  <2> QED
    BY <1>2, <2>1, Zenon DEF Simulated
<1>3. ASSUME NEW k \in Keys, NEW t \in Ttls, KvcacheExpire(k, t) PROVE Simulated
  <2>1. Store!Expire(k, t)
    BY <1>3, ExpireStep
  <2> QED
    BY <1>3, <2>1, Zenon DEF Simulated
<1>4. ASSUME NEW k \in Keys, NEW t \in Ttls, NEW v \in Values, KvcacheSet(k, v, t) PROVE Simulated
  <2>1. Store!Set(k, v, t)
    BY <1>4, SetStep
  <2> QED
    BY <1>4, <2>1, Zenon DEF Simulated
<1> QED
  BY <1>1, <1>2, <1>3, <1>4, Zenon DEF Next

\* whichever operation a step is, the store takes the same one
SameOperation ==
    \A k \in Keys :
        /\ KvcacheDel(k) => Store!Del(k)
        /\ \A t \in Ttls : /\ KvcacheExpire(k, t) => Store!Expire(k, t)
                           /\ \A v \in Values : KvcacheSet(k, v, t) => Store!Set(k, v, t)

(***************************************************************************)
(* A step that can be read as two operations, such as a kvcache_del of one  *)
(* key and of another, is right in every reading.                           *)
(***************************************************************************)
THEOREM EachOperation == Spec => [][SameOperation]_vars
<1>1. Inv /\ Inv' => SameOperation
  BY SetStep, DelStep, ExpireStep, Zenon DEF SameOperation
<1> QED
  BY <1>1, Invariance, PTL

\* in the next state too, the answers are those of the store
LEMMA AnswersNext == Inv' => AnswersExact'
<1>1. Inv => AnswersExact
  BY AnswersHold
<1> QED
  BY <1>1, PTL

\* a key whose entries stay the same is answered the same
LEMMA SameAnswer ==
    ASSUME AnswersExact, AnswersExact', NEW j \in Keys, Entries'[j] = Entries[j], now' = now
    PROVE  KvcacheGet(j)' = KvcacheGet(j) /\ KvcacheTtl(j)' = KvcacheTtl(j)
<1>1. Store!Get(j)' = Store!Get(j) /\ Store!Ttl(j)' = Store!Ttl(j)
  BY DEF Store!Get, Store!Ttl, Store!Has, Store!Expired
<1> QED
  BY <1>1, Zenon DEF AnswersExact

\* an operation of the store leaves the entries of other keys alone
LEMMA OthersKept ==
    ASSUME NEW k \in Keys, NEW j \in Keys, j # k,
           \/ Store!Del(k)
           \/ \E t \in Ttls : Store!Expire(k, t) \/ \E v \in Values : Store!Set(k, v, t)
    PROVE  Entries'[j] = Entries[j] /\ now' = now
<1>1. DOMAIN Entries = Keys
  BY DEF Entries
<1>2. CASE Store!Del(k)
  BY <1>1, <1>2 DEF Store!Del
<1>3. ASSUME NEW t \in Ttls, Store!Expire(k, t) PROVE Entries'[j] = Entries[j] /\ now' = now
  BY <1>1, <1>3 DEF Store!Expire
<1>4. ASSUME NEW t \in Ttls, NEW v \in Values, Store!Set(k, v, t)
      PROVE  Entries'[j] = Entries[j] /\ now' = now
  BY <1>1, <1>4 DEF Store!Set
<1> QED
  BY <1>2, <1>3, <1>4, Zenon

(***************************************************************************)
(* kvcache_set, kvcache_del and kvcache_expire change no answer of          *)
(* kvcache_get and kvcache_ttl but those for their own key, for any number  *)
(* of nodes, levels, keys and values and whatever heights are drawn.        *)
(***************************************************************************)
THEOREM KeysApart == Spec => KeysIndependent
<1>1. ASSUME Inv, Inv', NEW k \in Keys, CalledFor(k), NEW j \in Keys \ {k}
      PROVE  KvcacheGet(j)' = KvcacheGet(j) /\ KvcacheTtl(j)' = KvcacheTtl(j)
  <2>1. \/ Store!Del(k)
        \/ \E t \in Ttls : Store!Expire(k, t) \/ \E v \in Values : Store!Set(k, v, t)
    BY <1>1, SetStep, DelStep, ExpireStep, Zenon DEF CalledFor
  <2>2. j \in Keys /\ j # k
    BY <1>1, Zenon
  <2>3. Entries'[j] = Entries[j] /\ now' = now
    BY <2>1, <2>2, OthersKept, Zenon
  <2> QED
    BY <1>1, <2>2, <2>3, AnswersHold, AnswersNext, SameAnswer, Zenon
<1> DEFINE A == \A k \in Keys : CalledFor(k) =>
                   \A j \in Keys \ {k} : /\ KvcacheGet(j)' = KvcacheGet(j)
                                         /\ KvcacheTtl(j)' = KvcacheTtl(j)
<1>2. Inv /\ Inv' => A
  BY <1>1, Zenon
<1>3. KeysIndependent <=> [][A]_vars
  BY DEF KeysIndependent
<1> HIDE DEF A
<1> QED
  BY <1>2, <1>3, Invariance, PTL

(***************************************************************************)
(* An area of the cache behaves as KvStore describes it, the set that adds  *)
(* an entry and replaces none included: the skip list is an implementation  *)
(* detail that no caller can tell from queues of entries.                   *)
(***************************************************************************)
THEOREM StoreRefinement == Spec => Store!KvSpec
<1>1. Init => Store!KvInit
  BY InitStore
<1>2. Inv /\ Inv' /\ [Next]_vars => [Simulated]_vars
  BY StepSimulated
<1>3. [Simulated]_vars => [Store!KvNext]_(Store!kvvars)
  <2>1. Simulated => Store!KvNext
    BY Zenon DEF Simulated, Store!KvNext
  <2>2. UNCHANGED vars => UNCHANGED Store!kvvars
    BY EntriesSame DEF vars, Store!kvvars
  <2> QED
    BY <2>1, <2>2
<1> QED
  BY <1>1, <1>2, <1>3, Invariance, PTL DEF Spec, Store!KvSpec
=============================================================================
