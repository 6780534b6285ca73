---------------------------- MODULE QueueProofs -----------------------------
(***************************************************************************)
(* Proofs about the components that hand something from one thread to      *)
(* another: the swap queue (SwapQueue), the thread pool on its blocking    *)
(* queue (ThreadPool) and the object pool (ObjectPool).  They hold for any *)
(* number of producers, committers, workers, threads, data, tasks, objects *)
(* and retries.  Each part states an inductive invariant and derives the   *)
(* safety properties and the FIFO refinement of its component from it.     *)
(***************************************************************************)
EXTENDS SwapQueue, WorkerPools, FiniteSetTheorems, TLAPS

-----------------------------------------------------------------------------
(* Facts about sequences.                                                   *)

\* what \o does to lengths and elements
LEMMA Joined ==
  ASSUME NEW S, NEW s \in Seq(S), NEW t \in Seq(S)
  PROVE  /\ s \o t \in Seq(S) /\ Len(s \o t) = Len(s) + Len(t)
         /\ \A i \in 1..(Len(s) + Len(t)) :
                (s \o t)[i] = IF i <= Len(s) THEN s[i] ELSE t[i - Len(s)]
  OBVIOUS

\* sequences with the same elements are equal
LEMMA SameSeq ==
  ASSUME NEW S, NEW s \in Seq(S), NEW t \in Seq(S), Len(s) = Len(t),
         \A i \in 1..Len(s) : s[i] = t[i]
  PROVE  s = t
  OBVIOUS

\* only the empty sequence has no element
LEMMA EmptyLen == ASSUME NEW S, NEW s \in Seq(S) PROVE s = <<>> <=> Len(s) = 0
  OBVIOUS

\* a ring with one node is not empty
LEMMA OneLen == ASSUME NEW S, NEW s \in Seq(S), Len(s) = 1 PROVE s # <<>>
  BY EmptyLen

\* a ring that got an element is not empty
LEMMA OneMore ==
  ASSUME NEW S, NEW s \in Seq(S), NEW d \in S
  PROVE  Append(s, d) # <<>> /\ Len(Append(s, d)) = Len(s) + 1
<1>1. Len(Append(s, d)) = Len(s) + 1 /\ Len(s) \in Nat
  OBVIOUS
<1>2. Len(<<>>) = 0
  OBVIOUS
<1> QED BY <1>1, <1>2

\* the empty sequence is neutral
LEMMA ConcatEmpty == \A s \in Seq(Data) : s \o <<>> = s /\ <<>> \o s = s
  OBVIOUS

\* appending to the second ring appends to the whole queue
LEMMA ConcatAppend ==
  \A s, t \in Seq(Data), d \in Data : s \o Append(t, d) = Append(s \o t, d)
  OBVIOUS

\* moving the head of the rest behind what was taken changes nothing in all
LEMMA MoveHead ==
  \A s, t \in Seq(Data) : t # <<>> => Append(s, Head(t)) \o Tail(t) = s \o t
  OBVIOUS

\* joining three sequences
LEMMA ConcatAssoc ==
  \A s, t, u \in Seq(Data) : (s \o t) \o u = s \o (t \o u)
  OBVIOUS

\* the head of a queue is the head of its first ring
LEMMA ConcatHead ==
  \A s, t \in Seq(Data) : s # <<>> => s \o t \in Seq(Data) /\ s \o t # <<>> /\ Head(s \o t) = Head(s)
  OBVIOUS

\* the element behind a prefix is the head of the rest
LEMMA NextAfterPrefix ==
  \A s, t \in Seq(Data) :
      t # <<>> => Len(s) < Len(s \o t) /\ (s \o t)[Len(s) + 1] = Head(t)
  OBVIOUS

\* what Reverse does to lengths and elements
LEMMA ReverseProperties ==
  ASSUME NEW S, NEW s \in Seq(S)
  PROVE  /\ Reverse(s) \in Seq(S)
         /\ Len(Reverse(s)) = Len(s)
         /\ \A i \in 1..Len(s) : Reverse(s)[i] = s[Len(s) - i + 1]
<1>1. Len(s) \in Nat /\ \A i \in 1..Len(s) : s[i] \in S
  OBVIOUS
<1>2. \A i \in 1..Len(s) : s[Len(s) - i + 1] \in S
  BY <1>1
<1>3. Reverse(s) \in Seq(S)
  BY <1>1, <1>2 DEF Reverse
<1> QED BY <1>1, <1>3 DEF Reverse

\* two reversed sequences, joined and reversed, change places
LEMMA ReverseTwo ==
  ASSUME NEW S, NEW s \in Seq(S), NEW t \in Seq(S)
  PROVE  Reverse(Reverse(s) \o Reverse(t)) = t \o s
<1>1. SUFFICES ASSUME NEW a \in Seq(S), NEW b \in Seq(S),
                      Len(a) = Len(s), Len(b) = Len(t),
                      \A i \in 1..Len(s) : a[i] = s[Len(s) - i + 1],
                      \A i \in 1..Len(t) : b[i] = t[Len(t) - i + 1]
               PROVE  Reverse(a \o b) = t \o s
  BY ReverseProperties
<1>2. PICK r \in Seq(S) : r = a \o b
  BY Joined, Zenon
<1>3. /\ Len(r) = Len(a) + Len(b)
      /\ \A i \in 1..Len(r) : r[i] = IF i <= Len(a) THEN a[i] ELSE b[i - Len(a)]
  BY <1>2
<1>4. /\ Len(r) = Len(s) + Len(t)
      /\ \A i \in 1..Len(r) : r[i] = IF i <= Len(s) THEN a[i] ELSE b[i - Len(s)]
  BY <1>1, <1>3
<1>5. PICK u \in Seq(S) : u = t \o s
  BY Joined, Zenon
<1>6. /\ Len(u) = Len(s) + Len(t)
      /\ \A i \in 1..Len(u) : u[i] = IF i <= Len(t) THEN t[i] ELSE s[i - Len(t)]
  BY <1>5
<1>7. \A i \in 1..Len(u) : Reverse(r)[i] = u[i]
  <2> TAKE i \in 1..Len(u)
  <2>1. Reverse(r)[i] = r[Len(s) + Len(t) - i + 1]
    BY <1>4, <1>6, ReverseProperties
  <2>2. Len(s) \in Nat /\ Len(t) \in Nat /\ i \in 1..(Len(s) + Len(t))
    BY <1>6
  <2>3. CASE i <= Len(t)
    <3> DEFINE j == Len(s) + Len(t) - i + 1
    <3>1. j \in 1..Len(r) /\ j > Len(s) /\ j - Len(s) = Len(t) - i + 1
      BY <1>4, <2>2, <2>3
    <3>2. r[j] = b[Len(t) - i + 1]
      BY <1>4, <2>2, <3>1
    <3>3. Len(t) - i + 1 \in 1..Len(t) /\ Len(t) - (Len(t) - i + 1) + 1 = i
      BY <2>2, <2>3
    <3>4. b[Len(t) - i + 1] = t[i]
      BY <1>1, <3>3, Zenon
    <3> QED BY <1>6, <2>1, <2>3, <3>2, <3>4
  <2>4. CASE i > Len(t)
    <3> DEFINE j == Len(s) + Len(t) - i + 1
    <3>1. j \in 1..Len(r) /\ j <= Len(s) /\ j \in 1..Len(s)
      BY <1>4, <2>2, <2>4
    <3>2. r[j] = a[j]
      BY <1>4, <3>1
    <3>3. Len(s) - j + 1 = i - Len(t)
      BY <2>2
    <3>4. a[j] = s[i - Len(t)]
      BY <1>1, <3>1, <3>3, Zenon
    <3>5. u[i] = s[i - Len(t)]
      BY <1>6, <2>2, <2>4
    <3> QED BY <2>1, <3>2, <3>4, <3>5
  <2> QED BY <2>2, <2>3, <2>4
<1>8. Reverse(r) \in Seq(S) /\ Len(Reverse(r)) = Len(u)
  BY <1>4, <1>6, ReverseProperties
<1> QED BY <1>2, <1>5, <1>7, <1>8, SameSeq, Zenon

-----------------------------------------------------------------------------
\* the invariant holds of a new queue
LEMMA InitInv == Init => Inv
  BY ThreadsDistinct DEF Init, Inv, TypeOK, LockInv, RingInv, TokenInv, TakeFindsNode, QueueOrder,
     FreeReleasesRest, Contents, Dummies, PostPending, TokenTaken, Other

\* every step keeps the types
LEMMA NextType == TypeOK /\ [Next]_vars => TypeOK'
<1> SUFFICES ASSUME TypeOK, [Next]_vars PROVE TypeOK'
  OBVIOUS
<1> USE DEF TypeOK, Dummies, Other
<1>1. ASSUME NEW p \in Producers, PutLock(p) \/ PutPost(p) \/ PutUnlock(p) PROVE TypeOK'
  <2>1. CASE PutLock(p)
    BY <2>1 DEF PutLock
  <2>2. CASE PutPost(p)
    BY <2>2 DEF PutPost
  <2>3. CASE PutUnlock(p)
    BY <2>3 DEF PutUnlock
  <2> QED BY <1>1, <2>1, <2>2, <2>3
<1>2. ASSUME NEW p \in Producers, NEW d \in Data, PutLink(p, d) PROVE TypeOK'
  <2>1. ring[in] \in Seq(Data)
    OBVIOUS
  <2>2. Append(ring[in], d) \in Seq(Data) /\ Append(sent, d) \in Seq(Data)
    BY <2>1
  <2> QED BY <1>2, <2>2 DEF PutLink
<1>3. CASE GetEnter \/ GetTimeout \/ GetWake \/ GetLock
  BY <1>3 DEF GetEnter, GetTimeout, GetWake, GetLock, ConsumerStep
<1>4. CASE GetSwapOut \/ GetSwapIn \/ GetUnlock
  BY <1>4 DEF GetSwapOut, GetSwapIn, GetUnlock, ConsumerStep
<1>5. CASE GetTake
  <2>1. CASE ring[out] = <<>>
    BY <1>5, <2>1 DEF GetTake, ConsumerStep
  <2>2. CASE ring[out] # <<>>
    <3>1. Head(ring[out]) \in Data /\ Tail(ring[out]) \in Seq(Data)
      BY <2>2
    <3>2. Append(got, Head(ring[out])) \in Seq(Data)
      BY <3>1
    <3> QED BY <1>5, <2>2, <3>1, <3>2, Zenon DEF GetTake, ConsumerStep
  <2> QED BY <2>1, <2>2
<1>6. CASE QueueFree
  <2>1. Reverse(ring[in]) \in Seq(Data) /\ Reverse(ring[out]) \in Seq(Data)
    BY ReverseProperties
  <2>2. Reverse(ring[in]) \o Reverse(ring[out]) \in Seq(Data)
    BY <2>1
  <2> QED BY <1>6, <2>2 DEF QueueFree
<1>7. CASE UNCHANGED vars
  BY <1>7 DEF vars
<1> QED BY <1>1, <1>2, <1>3, <1>4, <1>5, <1>6, <1>7 DEF Next, Get, Put

-----------------------------------------------------------------------------
(* The conjuncts of Inv, one lemma each, one step per action.               *)

\* every step keeps mutual exclusion
LEMMA NextLock == Inv /\ [Next]_vars => LockInv'
<1> SUFFICES ASSUME Inv, [Next]_vars PROVE LockInv'
  OBVIOUS
<1> USE ThreadsDistinct DEF Inv, TypeOK, LockInv
<1>1. ASSUME NEW p \in Producers, PutLock(p) PROVE LockInv'
  BY <1>1 DEF PutLock
<1>2. ASSUME NEW p \in Producers, NEW d \in Data, PutLink(p, d) PROVE LockInv'
  BY <1>2 DEF PutLink
<1>3. ASSUME NEW p \in Producers, PutPost(p) PROVE LockInv'
  BY <1>3 DEF PutPost
<1>4. ASSUME NEW p \in Producers, PutUnlock(p) PROVE LockInv'
  BY <1>4 DEF PutUnlock
<1>5. CASE GetEnter \/ GetTimeout \/ GetWake \/ GetTake
  BY <1>5 DEF GetEnter, GetTimeout, GetWake, GetTake, ConsumerStep
<1>6. CASE GetLock
  BY <1>6 DEF GetLock, ConsumerStep
<1>7. CASE GetSwapOut \/ GetSwapIn
  BY <1>7 DEF GetSwapOut, GetSwapIn, ConsumerStep
<1>8. CASE GetUnlock
  BY <1>8 DEF GetUnlock, ConsumerStep
<1>9. CASE QueueFree
  BY <1>9 DEF QueueFree
<1>10. CASE UNCHANGED vars
  BY <1>10 DEF vars
<1> QED BY <1>1, <1>2, <1>3, <1>4, <1>5, <1>6, <1>7, <1>8, <1>9, <1>10 DEF Next, Get, Put

\* every step keeps the rings as put, get and swap expect them
LEMMA NextRing == Inv /\ [Next]_vars => RingInv' /\ TakeFindsNode'
<1> SUFFICES ASSUME Inv, [Next]_vars PROVE RingInv' /\ TakeFindsNode'
  OBVIOUS
<1> USE ThreadsDistinct DEF Inv, TypeOK, LockInv, RingInv, TakeFindsNode, Dummies, Other
<1>1. ASSUME NEW p \in Producers, PutLock(p) \/ PutPost(p) \/ PutUnlock(p)
      PROVE  RingInv' /\ TakeFindsNode'
  BY <1>1 DEF PutLock, PutPost, PutUnlock
<1>2. ASSUME NEW p \in Producers, NEW d \in Data, PutLink(p, d)
      PROVE  RingInv' /\ TakeFindsNode'
  <2>1. pcC \notin {"locked", "half", "swapped"} /\ in # out
    BY <1>2, Zenon DEF PutLink
  <2>2. ring'[out] = ring[out] /\ in' = in /\ out' = out /\ pcC' = pcC
    BY <1>2, <2>1 DEF PutLink
  <2> QED BY <2>1, <2>2
<1>3. CASE GetEnter \/ GetTimeout \/ GetLock \/ GetUnlock
  BY <1>3 DEF GetEnter, GetTimeout, GetLock, GetUnlock, ConsumerStep
<1>4. CASE GetWake
  BY <1>4 DEF GetWake, ConsumerStep
<1>5. CASE GetSwapOut
  BY <1>5 DEF GetSwapOut, ConsumerStep
<1>6. CASE GetSwapIn
  BY <1>6 DEF GetSwapIn, ConsumerStep, TokenInv, TokenTaken
<1>7. CASE GetTake
  BY <1>7 DEF GetTake, ConsumerStep
<1>8. CASE QueueFree
  BY <1>8 DEF QueueFree
<1>9. CASE UNCHANGED vars
  BY <1>9, SMTT(20) DEF vars
<1> QED BY <1>1, <1>2, <1>3, <1>4, <1>5, <1>6, <1>7, <1>8, <1>9 DEF Next, Get, Put

\* every step keeps the token of the semaphore
LEMMA NextToken == Inv /\ [Next]_vars => TokenInv'
<1> SUFFICES ASSUME Inv, [Next]_vars PROVE TokenInv'
  OBVIOUS
<1> USE ThreadsDistinct DEF Inv, TypeOK, LockInv, RingInv, TokenInv, PostPending, TokenTaken,
                            Dummies, Other
<1>1. ASSUME NEW p \in Producers, PutLock(p) PROVE TokenInv'
  BY <1>1 DEF PutLock
<1>2. ASSUME NEW p \in Producers, NEW d \in Data, PutLink(p, d) PROVE TokenInv'
  <2>1. ring'[in] = Append(ring[in], d) /\ ring[in] \in Seq(Data)
    BY <1>2 DEF PutLink
  <2>2. Len(ring'[in]) = Len(ring[in]) + 1 /\ ring'[in] # <<>>
    BY <2>1, OneMore
  <2>3. Len(ring[in]) \in Nat /\ (Len(ring[in]) = 0 <=> ring[in] = <<>>)
    BY <2>1
  <2>4. ~PostPending
    BY <1>2, Zenon DEF PutLink
  <2>5. PostPending' <=> Len(ring'[in]) = 1
    BY <1>2 DEF PutLink
  <2>6. PostPending' <=> ring[in] = <<>>
    BY <2>2, <2>3, <2>5
  <2> QED BY <1>2, <2>2, <2>4, <2>6 DEF PutLink
<1>3. ASSUME NEW p \in Producers, PutPost(p) PROVE TokenInv'
  <2>1. ~PostPending' /\ (PostPending <=> Len(ring[in]) = 1)
    BY <1>3, Zenon DEF PutPost
  <2>2. Len(ring[in]) = 1 => ring[in] # <<>>
    <3>1. ring[in] \in Seq(Data)
      OBVIOUS
    <3> QED BY <3>1, OneLen, Zenon
  <2> QED BY <1>3, <2>1, <2>2 DEF PutPost
<1>4. ASSUME NEW p \in Producers, PutUnlock(p) PROVE TokenInv'
  BY <1>4 DEF PutUnlock
<1>5. CASE GetEnter \/ GetTimeout \/ GetLock
  BY <1>5 DEF GetEnter, GetTimeout, GetLock, ConsumerStep
<1>6. CASE GetWake
  BY <1>6 DEF GetWake, ConsumerStep
<1>7. CASE GetSwapOut
  BY <1>7 DEF GetSwapOut, ConsumerStep
<1>8. CASE GetSwapIn
  BY <1>8 DEF GetSwapIn, ConsumerStep
<1>9. CASE GetUnlock
  BY <1>9 DEF GetUnlock, ConsumerStep
<1>10. CASE GetTake
  BY <1>10 DEF GetTake, ConsumerStep
<1>11. CASE QueueFree
  BY <1>11 DEF QueueFree
<1>12. CASE UNCHANGED vars
  BY <1>12 DEF vars
<1> QED BY <1>1, <1>2, <1>3, <1>4, <1>5, <1>6, <1>7, <1>8, <1>9, <1>10, <1>11, <1>12
        DEF Next, Get, Put

\* every step keeps the order of the data
LEMMA NextOrder == Inv /\ [Next]_vars => QueueOrder'
<1> SUFFICES ASSUME Inv, [Next]_vars PROVE QueueOrder'
  OBVIOUS
<1> USE ThreadsDistinct DEF Inv, TypeOK, LockInv, RingInv, QueueOrder, Dummies
<1>1. /\ ring[in] \in Seq(Data) /\ ring[out] \in Seq(Data)
      /\ (IF in = out THEN <<>> ELSE ring[in]) \in Seq(Data)
  OBVIOUS
<1>2. ASSUME UNCHANGED <<ring, in, out, sent, got>>, pcC' = "freed" \/ pcC # "freed"
      PROVE  QueueOrder'
  BY <1>2, Zenon DEF Contents
<1>3. ASSUME NEW p \in Producers, PutLock(p) \/ PutPost(p) \/ PutUnlock(p) PROVE QueueOrder'
  BY <1>2, <1>3 DEF PutLock, PutPost, PutUnlock
<1>4. ASSUME NEW p \in Producers, NEW d \in Data, PutLink(p, d) PROVE QueueOrder'
  <2>1. pcC # "freed" /\ in # out
    BY <1>4, Zenon DEF PutLink
  <2>2. Contents' = ring[out] \o Append(ring[in], d)
    BY <1>4, <2>1, Zenon DEF PutLink, Contents
  <2>3. Contents = ring[out] \o ring[in] /\ Contents \in Seq(Data)
    BY <1>1, <2>1, Joined, Zenon DEF Contents
  <2>4. Contents' = Append(Contents, d)
    <3>1. ring[out] \o Append(ring[in], d) = Append(ring[out] \o ring[in], d)
      <4>1. ring[out] \in Seq(Data) /\ ring[in] \in Seq(Data)
        BY <1>1
      <4> HIDE DEF Inv, TypeOK, LockInv, RingInv, QueueOrder, Dummies
      <4> QED BY <4>1, ConcatAppend, Zenon
    <3> QED BY <2>2, <2>3, <3>1, Zenon
  <2>5. got \o Contents' = Append(got \o Contents, d)
    BY <2>3, <2>4, ConcatAppend, Zenon
  <2> QED BY <1>4, <2>1, <2>5, Zenon DEF PutLink
<1>5. CASE GetEnter \/ GetTimeout \/ GetWake \/ GetLock \/ GetUnlock
  BY <1>2, <1>5 DEF GetEnter, GetTimeout, GetWake, GetLock, GetUnlock, ConsumerStep
<1>6. CASE GetSwapOut
  <2>1. Contents = ring[in] /\ Contents' = ring[in]
    BY <1>1, <1>6, ConcatEmpty, Zenon DEF GetSwapOut, ConsumerStep, Contents
  <2> QED BY <1>6, <2>1 DEF GetSwapOut, ConsumerStep
<1>7. CASE GetSwapIn
  <2>1. in = out /\ in' # out /\ ring[in'] = <<>>
    BY <1>7 DEF GetSwapIn, ConsumerStep, Other
  <2>2. Contents' = Contents
    BY <1>7, <2>1 DEF GetSwapIn, Contents
  <2> QED BY <1>7, <2>2 DEF GetSwapIn, ConsumerStep
<1>8. CASE GetTake
  <2>1. ring[out] # <<>> /\ in # out
    BY <1>8 DEF GetTake, ConsumerStep, TakeFindsNode
  <2>2. Head(ring[out]) \in Data /\ Tail(ring[out]) \in Seq(Data)
    BY <1>1, <2>1
  <2>3. got' = Append(got, Head(ring[out]))
    BY <1>8, <2>1 DEF GetTake
  <2>4. got' \in Seq(Data)
    BY <2>2, <2>3
  <2>5. got' \o Tail(ring[out]) = got \o ring[out]
    BY <1>1, <2>1, <2>3, MoveHead, Zenon
  <2>6. Contents' = Tail(ring[out]) \o ring[in]
    BY <1>8, <2>1, Zenon DEF GetTake, Contents
  <2>7. got' \o Contents' = (got' \o Tail(ring[out])) \o ring[in]
    <3>1. ring[in] \in Seq(Data)
      BY <1>1
    <3> HIDE DEF Inv, TypeOK, LockInv, RingInv, QueueOrder, Dummies
    <3> QED BY <2>2, <2>4, <2>6, <3>1, ConcatAssoc, Zenon
  <2>8. got \o Contents = (got \o ring[out]) \o ring[in]
    <3>1. ring[in] \in Seq(Data) /\ ring[out] \in Seq(Data) /\ got \in Seq(Data)
      BY <1>1
    <3>2. Contents = ring[out] \o ring[in]
      BY <2>1, Zenon DEF Contents
    <3> HIDE DEF Inv, TypeOK, LockInv, RingInv, QueueOrder, Dummies
    <3> QED BY <3>1, <3>2, ConcatAssoc, Zenon
  <2> QED BY <1>8, <2>5, <2>7, <2>8, Zenon DEF GetTake, ConsumerStep
<1>9. CASE QueueFree
  BY <1>9 DEF QueueFree
<1>10. CASE UNCHANGED vars
  BY <1>10, Zenon DEF vars, Contents
<1> QED BY <1>3, <1>4, <1>5, <1>6, <1>7, <1>8, <1>9, <1>10, SMTT(20) DEF Next, Get, Put

\* destroying the queue releases what is left in it
LEMMA NextFree == Inv /\ [Next]_vars => FreeReleasesRest'
<1> SUFFICES ASSUME Inv, [Next]_vars, pcC' = "freed" PROVE (sent = got \o Reverse(freed))'
  BY DEF FreeReleasesRest
<1> USE DEF Inv, TypeOK, Dummies
<1>1. CASE pcC = "freed"
  <2>1. \A p \in Producers : pcP[p] = "idle"
    BY <1>1, ThreadsDistinct, SMTT(20) DEF LockInv
  <2>2. UNCHANGED <<sent, got, freed>>
    BY <1>1, <2>1 DEF Next, Put, Get, PutLock, PutLink, PutPost, PutUnlock, GetEnter, GetTimeout,
       GetWake, GetLock, GetSwapOut, GetSwapIn, GetUnlock, GetTake, ConsumerStep, QueueFree, vars
  <2> QED BY <1>1, <2>2 DEF FreeReleasesRest
<1>2. CASE pcC # "freed"
  <2>1. QueueFree
    BY <1>2 DEF Next, Put, Get, PutLock, PutLink, PutPost, PutUnlock, GetEnter, GetTimeout,
       GetWake, GetLock, GetSwapOut, GetSwapIn, GetUnlock, GetTake, ConsumerStep, vars
  <2>2. Contents = ring[out] \o ring[in]
    BY <2>1, Zenon DEF QueueFree, Contents, RingInv
  <2>3. Reverse(freed') = Contents
    BY <2>1, <2>2, ReverseTwo, Zenon DEF QueueFree
  <2> QED BY <1>2, <2>1, <2>3, SMTT(20) DEF QueueFree, QueueOrder
<1> QED BY <1>1, <1>2

(***************************************************************************)
(* Every reachable state satisfies Inv: the mutex holder, the place of the *)
(* rings, the semaphore token, the node a get finds, the order of the data *)
(* and what swap_queue_free releases.                                      *)
(***************************************************************************)
THEOREM Invariance == Spec => []Inv
<1>1. Inv /\ [Next]_vars => Inv'
  BY NextType, NextLock, NextRing, NextToken, NextOrder, NextFree DEF Inv
<1> QED BY InitInv, <1>1, PTL DEF Spec

(***************************************************************************)
(* A get past the semaphore finds a node: __swap_queue_get's second NULL   *)
(* is never returned.                                                      *)
(***************************************************************************)
THEOREM TakeSafe == Spec => []TakeFindsNode
<1>1. Inv => TakeFindsNode
  BY DEF Inv
<1> QED BY Invariance, <1>1, PTL

(***************************************************************************)
(* The semaphore never loses or duplicates the "in ring not empty" token   *)
(* that __swap_queue_put posts and __swap_queue_get consumes.              *)
(***************************************************************************)
THEOREM TokenSafe == Spec => []TokenInv
<1>1. Inv => TokenInv
  BY DEF Inv
<1> QED BY Invariance, <1>1, PTL

(***************************************************************************)
(* swap_queue_free hands over exactly the data that nobody got.            *)
(***************************************************************************)
THEOREM FreeSafe == Spec => []FreeReleasesRest
<1>1. Inv => FreeReleasesRest
  BY DEF Inv
<1> QED BY Invariance, <1>1, PTL

(***************************************************************************)
(* The two rings, the mutex and the semaphore implement a FIFO queue:      *)
(* PutLink maps to Put, GetTake to Get, everything else to a stutter.      *)
(***************************************************************************)
THEOREM Refinement == Spec => ImplementsFifo
<1>1. Init => Fifo!Init
  BY DEF Init, Fifo!Init
<1>2. Inv /\ [Next]_vars => [Fifo!Next]_(Fifo!vars)
  <2> SUFFICES ASSUME Inv, [Next]_vars PROVE [Fifo!Next]_(Fifo!vars)
    OBVIOUS
  <2> USE DEF Fifo!Next, Fifo!vars
  <2>1. ASSUME NEW p \in Producers, NEW d \in Data, PutLink(p, d) PROVE Fifo!Next
    BY <2>1 DEF PutLink, Fifo!Put
  <2>2. CASE GetTake
    <3>1. ring[out] # <<>> /\ in # out /\ pcC # "freed"
      BY <2>2 DEF GetTake, ConsumerStep, Inv, TakeFindsNode, RingInv
    <3>2. ring[out] \in Seq(Data) /\ ring[in] \in Seq(Data) /\ got \in Seq(Data)
      BY DEF Inv, TypeOK, Dummies
    <3>3. Contents \in Seq(Data) /\ Contents # <<>> /\ Head(Contents) = Head(ring[out])
      BY <3>1, <3>2, ConcatHead, Zenon DEF Contents
    <3>4. sent = got \o Contents
      BY <3>1 DEF Inv, QueueOrder
    <3>5. Len(got) < Len(sent) /\ sent[Len(got) + 1] = Head(ring[out])
      BY <3>2, <3>3, <3>4, NextAfterPrefix
    <3> QED BY <2>2, <3>1, <3>5 DEF GetTake, ConsumerStep, Fifo!Get
  <2>3. ASSUME NEW p \in Producers, PutLock(p) \/ PutPost(p) \/ PutUnlock(p)
        PROVE  UNCHANGED <<sent, got>>
    BY <2>3 DEF PutLock, PutPost, PutUnlock
  <2>4. CASE GetEnter \/ GetTimeout \/ GetWake \/ GetLock \/ GetSwapOut \/ GetSwapIn \/ GetUnlock
    BY <2>4 DEF GetEnter, GetTimeout, GetWake, GetLock, GetSwapOut, GetSwapIn, GetUnlock, ConsumerStep
  <2>5. CASE QueueFree \/ UNCHANGED vars
    BY <2>5 DEF QueueFree, vars
  <2> QED BY <2>1, <2>2, <2>3, <2>4, <2>5 DEF Next, Get, Put
<1> QED BY Invariance, <1>1, <1>2, PTL DEF Spec, ImplementsFifo, Fifo!Spec

\* the rings, places and counters of the swapping queue keep their types, for ever
THEOREM TypeCorrect == Spec => []TypeOK
<1>1. Inv => TypeOK
  BY DEF Inv
<1> QED
  BY <1>1, Invariance, PTL

-----------------------------------------------------------------------------
(* The thread pool.                                                        *)

\* what appending to, or taking from, the second part does to a concatenation
LEMMA TaskConcatAppend ==
    \A s, t \in Seq(Tasks), d \in Tasks : s \o Append(t, d) = Append(s \o t, d)
OBVIOUS

\* moving the first task behind the ones taken changes nothing in all
LEMMA TaskMoveHead ==
    \A s, t \in Seq(Tasks) : t # <<>> => Append(s, Head(t)) \o Tail(t) = s \o t
OBVIOUS

\* the task behind the ones taken is the first one waiting
LEMMA TaskNextAfterPrefix ==
    \A s, t \in Seq(Tasks) :
        t # <<>> => Len(s) < Len(s \o t) /\ (s \o t)[Len(s) + 1] = Head(t)
OBVIOUS

\* what is committed and not taken is in the list, in order
InOrder == committed = taken \o tasks

TaskInv == TaskTypeOK /\ InOrder

\* the invariant holds of a new pool
LEMMA TaskInitInv == TaskInit => TaskInv
BY DEF TaskInit, TaskQueue!Init, TaskInv, TaskTypeOK, InOrder

\* what a worker does when its queue operation took a task
LEMMA TaskTaken ==
    ASSUME TaskInv, NEW w \in Workers, task_wait[w] # "asleep", TaskQueue!Pop(w), Returned(w)
    PROVE  /\ TaskInv'
           /\ tasks # <<>> /\ taken' = Append(taken, Head(tasks)) /\ committed' = committed
<1> USE DEF TaskQueue!Pop
<1>1. tasks \in Seq(Tasks) /\ tasks # <<>> /\ taken \in Seq(Tasks)
  BY DEF TaskInv, TaskTypeOK
<1>2. Head(tasks) \in Tasks /\ Tail(tasks) \in Seq(Tasks)
  BY <1>1
<1>3. task_data'[w] = Head(tasks) /\ task_data'[w] # NoTask
  BY <1>2, TaskAssumption DEF TaskInv, TaskTypeOK
<1>4. taken' = Append(taken, Head(tasks)) /\ running' = running \cup {w} /\ committed' = committed
  BY <1>3 DEF Returned
<1>5. TaskTypeOK'
  BY <1>1, <1>2, <1>4 DEF TaskInv, TaskTypeOK
<1>6. InOrder'
  BY <1>1, <1>4, TaskMoveHead DEF TaskInv, InOrder
<1> QED
  BY <1>1, <1>4, <1>5, <1>6 DEF TaskInv

(***************************************************************************)
(* A step keeps the invariant and is a step of the FIFO queue.             *)
(***************************************************************************)
LEMMA TaskNextInv == TaskInv /\ [TaskNext]_taskVars => TaskInv' /\ [TaskFifo!Next]_(TaskFifo!vars)
<1> SUFFICES ASSUME TaskInv, [TaskNext]_taskVars PROVE TaskInv' /\ [TaskFifo!Next]_(TaskFifo!vars)
  OBVIOUS
<1> USE DEF TaskFifo!Next, TaskFifo!vars
<1>1. ASSUME NEW p \in Committers, NEW t \in Tasks, CommitTask(p, t)
      PROVE  TaskInv' /\ [TaskFifo!Next]_(TaskFifo!vars)
  <2> USE <1>1 DEF CommitTask, TaskQueue!AddQueue
  <2>1. TaskTypeOK'
    BY DEF TaskInv, TaskTypeOK
  <2>2. InOrder'
    BY TaskConcatAppend, Zenon DEF TaskInv, TaskTypeOK, InOrder
  <2>3. TaskFifo!Put(t)
    BY DEF TaskFifo!Put
  <2> QED
    BY <2>1, <2>2, <2>3 DEF TaskInv
<1>2. ASSUME NEW p \in Committers, CommitSignal(p)
      PROVE  TaskInv' /\ [TaskFifo!Next]_(TaskFifo!vars)
  <2>1. UNCHANGED <<tasks, task_data, running, committed, taken>> /\ task_signal' \subseteq Committers
    BY <1>2 DEF CommitSignal, TaskQueue!Signal, TaskInv, TaskTypeOK
  <2>2. \/ task_wait' = task_wait
        \/ \E c \in Workers : task_wait[c] = "asleep" /\ task_wait' = [task_wait EXCEPT ![c] = "awake"]
    BY <1>2 DEF CommitSignal, TaskQueue!Signal
  <2>3. TaskTypeOK'
    BY <2>1, <2>2, SMTT(20) DEF TaskInv, TaskTypeOK
  <2> QED
    BY <2>1, <2>3 DEF TaskInv, InOrder
<1>3. ASSUME NEW w \in Workers, task_wait[w] # "asleep", TaskQueue!Pop(w), Returned(w)
      PROVE  TaskInv' /\ [TaskFifo!Next]_(TaskFifo!vars)
  <2>1. TaskInv' /\ tasks # <<>> /\ taken' = Append(taken, Head(tasks)) /\ committed' = committed
    BY <1>3, TaskTaken
  <2>2. Len(taken) < Len(committed) /\ committed[Len(taken) + 1] = Head(tasks)
    BY <2>1, TaskNextAfterPrefix DEF TaskInv, TaskTypeOK, InOrder
  <2>3. TaskFifo!Get
    BY <2>1, <2>2 DEF TaskFifo!Get
  <2> QED
    BY <2>1, <2>3
<1>4. ASSUME NEW w \in Workers, WorkerProbe(w)
      PROVE  TaskInv' /\ [TaskFifo!Next]_(TaskFifo!vars)
  <2>1. CASE TaskQueue!Pop(w)
    <3>1. task_wait'[w] = "out"
      BY <2>1 DEF TaskQueue!Pop, TaskInv, TaskTypeOK
    <3>2. Returned(w) /\ task_wait[w] = "out"
      BY <1>4, <3>1 DEF WorkerProbe, TaskQueue!DequeueNodelay
    <3> QED
      BY <2>1, <3>2, <1>3
  <2>2. CASE ~TaskQueue!Pop(w)
    <3>1. /\ w \notin running /\ task_wait' = [task_wait EXCEPT ![w] = "empty"]
          /\ UNCHANGED <<tasks, task_signal, task_data>>
      BY <1>4, <2>2 DEF WorkerProbe, TaskQueue!DequeueNodelay
    <3>2. UNCHANGED <<running, committed, taken>>
      BY <1>4, <3>1 DEF WorkerProbe, TaskInv, TaskTypeOK
    <3> QED
      BY <3>1, <3>2 DEF TaskInv, TaskTypeOK, InOrder
  <2> QED
    BY <2>1, <2>2
<1>5. ASSUME NEW w \in Workers, WorkerWait(w)
      PROVE  TaskInv' /\ [TaskFifo!Next]_(TaskFifo!vars)
  BY <1>5, Zenon DEF WorkerWait, TaskQueue!TimedWait, TaskQueue!Wake, TaskInv, TaskTypeOK, InOrder
<1>6. ASSUME NEW w \in Workers, WorkerDequeue(w)
      PROVE  TaskInv' /\ [TaskFifo!Next]_(TaskFifo!vars)
  <2>1. CASE TaskQueue!Pop(w)
    BY <1>6, <2>1, <1>3 DEF WorkerDequeue, TaskQueue!Dequeue
  <2>2. CASE ~TaskQueue!Pop(w)
    <3>1. /\ task_wait[w] = "awake"
          /\ task_wait' = [task_wait EXCEPT ![w] = "out"] /\ task_data' = [task_data EXCEPT ![w] = NoTask]
          /\ UNCHANGED <<tasks, task_signal>>
      BY <1>6, <2>2 DEF WorkerDequeue, TaskQueue!Dequeue
    <3>2. UNCHANGED <<running, committed, taken>>
      BY <1>6, <3>1 DEF WorkerDequeue, Returned, TaskInv, TaskTypeOK
    <3> QED
      BY <3>1, <3>2 DEF TaskInv, TaskTypeOK, InOrder
  <2> QED
    BY <2>1, <2>2
<1>7. ASSUME NEW w \in Workers, TaskDone(w)
      PROVE  TaskInv' /\ [TaskFifo!Next]_(TaskFifo!vars)
  BY <1>7 DEF TaskDone, taskQueue, TaskInv, TaskTypeOK, InOrder
<1>8. CASE UNCHANGED taskVars
  BY <1>8 DEF taskVars, taskQueue, TaskInv, TaskTypeOK, InOrder
<1> QED
  BY <1>1, <1>2, <1>4, <1>5, <1>6, <1>7, <1>8 DEF TaskNext, GeneralThreadDoit

(***************************************************************************)
(* Types hold, and what was committed and not taken is in m_queue_task.    *)
(***************************************************************************)
THEOREM TaskInvariance == TaskSpec => []TaskInv
BY TaskInitInv, TaskNextInv, PTL DEF TaskSpec

(***************************************************************************)
(* However commits, signals, timeouts and workers interleave, the pool     *)
(* takes the tasks in the order of their commits, each one once.           *)
(***************************************************************************)
THEOREM TaskRefinement == TaskSpec => ImplementsTaskFifo
<1>1. TaskInit => TaskFifo!Init
  BY DEF TaskInit, TaskFifo!Init
<1> QED
  BY <1>1, TaskNextInv, TaskInvariance, PTL DEF TaskSpec, ImplementsTaskFifo, TaskFifo!Spec

\* the queue, its waiters and the places of committers and workers keep their types
THEOREM TaskTypeCorrect == TaskSpec => []TaskTypeOK
<1>1. TaskInv => TaskTypeOK
  BY DEF TaskInv
<1> QED
  BY <1>1, TaskInvariance, PTL

-----------------------------------------------------------------------------
(* The object pool.                                                        *)

\* where the elements of a longer and of a shorter list are
LEMMA AppendElements ==
    \A s \in Seq(Objects), o \in Objects :
        /\ Append(s, o) \in Seq(Objects)
        /\ DOMAIN Append(s, o) = DOMAIN s \cup {Len(s) + 1}
        /\ \A i \in DOMAIN s : Append(s, o)[i] = s[i]
        /\ Append(s, o)[Len(s) + 1] = o
        /\ Len(s) + 1 \notin DOMAIN s
OBVIOUS

\* where the elements of a list without its head are
LEMMA TailElements ==
    \A s \in Seq(Objects) : s # <<>> =>
        /\ Head(s) \in Objects /\ Tail(s) \in Seq(Objects)
        /\ 1 \in DOMAIN s /\ Head(s) = s[1]
        /\ \A i \in DOMAIN Tail(s) : i + 1 \in DOMAIN s /\ i + 1 # 1 /\ Tail(s)[i] = s[i + 1]
        /\ \A i \in DOMAIN s : i # 1 => i - 1 \in DOMAIN Tail(s) /\ Tail(s)[i - 1] = s[i]
        /\ DOMAIN s \subseteq Nat /\ DOMAIN Tail(s) \subseteq Nat
OBVIOUS

(***************************************************************************)
(* What a thread is doing agrees with its guard and with the queue: a      *)
(* guard has an object while it is used and only then, a thread is in      *)
(* dequeue_expand only to fetch, and has retries left when it calls it.    *)
(***************************************************************************)
GuardInv ==
    \A u \in Users :
        /\ pobj[u] # NoObj <=> pc[u] = "use"
        /\ wait[u] # "out" => pc[u] = "fetch"
        /\ u \in signal <=> pc[u] = "restored"
        /\ pc[u] = "fetch" /\ wait[u] = "out" => retry_count[u] < Retries

PoolInv == PoolTypeOK /\ GuardInv /\ OnePlace

\* the invariant holds of a new pool: every object is in the list once
LEMMA PoolInitInv == PoolInit => PoolInv
<1> SUFFICES ASSUME PoolInit PROVE PoolInv
  OBVIOUS
<1>1. Cardinality(Objects) \in Nat
  BY PoolAssumption, FS_CardinalityType
<1>2. /\ list \in [1 .. Cardinality(Objects) -> Objects]
      /\ \A i, j \in DOMAIN list : list[i] = list[j] => i = j
      /\ \A o \in Objects : \E i \in DOMAIN list : list[i] = o
  BY DEF PoolInit, Bijection, Injection, Surjection, IsInjective
<1>3. list \in Seq(Objects)
  BY <1>1, <1>2
<1> QED
  BY <1>2, <1>3, PoolAssumption DEF PoolInit, PoolInv, PoolTypeOK, GuardInv, OnePlace

(***************************************************************************)
(* A thread takes the first object of the list into its guard.             *)
(***************************************************************************)
LEMMA Taken ==
    ASSUME PoolInv, NEW u \in Users, pc[u] = "fetch", Queue!Pop(u), Fetched(u),
           retry_count' \in [Users -> 0..Retries],
           \A v \in Users : v # u => retry_count'[v] = retry_count[v]
    PROVE  PoolInv'
<1>1. /\ list \in Seq(Objects) /\ list # <<>>
      /\ Head(list) \in Objects /\ Tail(list) \in Seq(Objects)
  BY TailElements DEF PoolInv, PoolTypeOK, Queue!Pop
<1>2. /\ data' = [data EXCEPT ![u] = Head(list)] /\ list' = Tail(list)
      /\ wait' = [wait EXCEPT ![u] = "out"] /\ signal' = signal
  BY DEF Queue!Pop
<1>3. data'[u] = Head(list) /\ Head(list) # NoObj
  BY <1>1, <1>2, PoolAssumption DEF PoolInv, PoolTypeOK
<1>4. pobj' = [pobj EXCEPT ![u] = Head(list)] /\ pc' = [pc EXCEPT ![u] = "use"]
  BY <1>3 DEF Fetched
<1>5. PoolTypeOK'
  BY <1>1, <1>2, <1>4 DEF PoolInv, PoolTypeOK
<1>6. GuardInv'
  BY <1>2, <1>3, <1>4, SMTT(20) DEF PoolInv, PoolTypeOK, GuardInv
<1>a. \A i, j \in DOMAIN list : list[i] = list[j] => i = j
  BY DEF PoolInv, OnePlace
<1>b. \A v, w \in Users : pobj[v] = pobj[w] /\ pobj[v] # NoObj => v = w
  BY DEF PoolInv, OnePlace
<1>c. \A v \in Users, i \in DOMAIN list : pobj[v] # list[i]
  BY DEF PoolInv, OnePlace
<1>7. OnePlace'
  <2>1. \A i, j \in DOMAIN list' : list'[i] = list'[j] => i = j
    <3> SUFFICES ASSUME NEW i \in DOMAIN list', NEW j \in DOMAIN list', list'[i] = list'[j]
                 PROVE  i = j
      OBVIOUS
    <3>1. /\ i \in Nat /\ i + 1 \in DOMAIN list /\ list'[i] = list[i + 1]
          /\ j \in Nat /\ j + 1 \in DOMAIN list /\ list'[j] = list[j + 1]
      BY <1>1, <1>2, TailElements
    <3>2. i + 1 = j + 1
      BY <1>a, <3>1, Zenon
    <3> QED BY <3>1, <3>2
  <2>2. \A v \in Users : pobj'[v] = IF v = u THEN Head(list) ELSE pobj[v]
    BY <1>4, SMTT(20) DEF PoolInv, PoolTypeOK
  <2>3. \A v, w \in Users : pobj'[v] = pobj'[w] /\ pobj'[v] # NoObj => v = w
    <3> SUFFICES ASSUME NEW v \in Users, NEW w \in Users, pobj'[v] = pobj'[w], pobj'[v] # NoObj
                 PROVE  v = w
      BY Zenon
    <3>1. 1 \in DOMAIN list /\ Head(list) = list[1]
      BY <1>1, TailElements, Zenon
    <3>2. pobj[v] # Head(list) /\ pobj[w] # Head(list)
      BY <1>c, <3>1, Zenon
    <3>3. CASE v # u /\ w # u
      BY <1>b, <2>2, <3>3, Zenon
    <3>4. CASE v = u \/ w = u
      BY <2>2, <3>2, <3>4, Zenon
    <3> QED BY <3>3, <3>4, Zenon
  <2>4. \A v \in Users, i \in DOMAIN list' : pobj'[v] # list'[i]
    <3> SUFFICES ASSUME NEW v \in Users, NEW i \in DOMAIN Tail(list)
                 PROVE  pobj'[v] # Tail(list)[i]
      BY <1>2, Zenon
    <3>1. /\ i + 1 \in DOMAIN list /\ i + 1 # 1 /\ Tail(list)[i] = list[i + 1]
          /\ 1 \in DOMAIN list /\ Head(list) = list[1]
      BY <1>1, TailElements, Zenon
    <3>2. list[1] # list[i + 1] /\ pobj[v] # list[i + 1]
      BY <1>a, <1>c, <3>1, Zenon
    <3> QED
      BY <3>1, <3>2, <2>2, Zenon
  <2>5. ASSUME NEW o \in Objects
        PROVE  (\E i \in DOMAIN list' : list'[i] = o) \/ (\E v \in Users : pobj'[v] = o)
    <3>1. CASE \E v \in Users : pobj[v] = o
      <4>1. PICK v \in Users : pobj[v] = o
        BY <3>1, Zenon
      <4>2. pobj[u] = NoObj
        BY DEF PoolInv, GuardInv
      <4> QED
        BY <4>1, <4>2, <2>2, PoolAssumption, SMTT(20)
    <3>2. CASE \E i \in DOMAIN list : list[i] = o
      <4>1. PICK i \in DOMAIN list : list[i] = o
        BY <3>2
      <4>2. CASE i = 1
        BY <4>1, <4>2, <1>1, <2>2, TailElements
      <4>3. CASE i # 1
        BY <4>1, <4>3, <1>1, <1>2, TailElements, Zenon
      <4> QED
        BY <4>2, <4>3
    <3> QED
      BY <3>1, <3>2, Zenon DEF PoolInv, OnePlace
  <2> QED
    BY <2>1, <2>3, <2>4, <2>5, Zenon DEF OnePlace
<1> QED
  BY <1>5, <1>6, <1>7 DEF PoolInv

\* a step that touches neither the list nor a guard keeps the objects where they are
LEMMA Unmoved ==
    ASSUME PoolInv, UNCHANGED <<list, pobj>>, PoolTypeOK', GuardInv'
    PROVE  PoolInv'
BY DEF PoolInv, OnePlace

\* every step of a thread keeps the invariant
LEMMA PoolNextInv == PoolInv /\ [PoolNext]_poolVars => PoolInv'
<1> SUFFICES ASSUME PoolInv, [PoolNext]_poolVars PROVE PoolInv'
  OBVIOUS
<1>1. ASSUME NEW u \in Users, FetchObj(u) PROVE PoolInv'
  <2>1. PoolTypeOK'
    BY <1>1, PoolAssumption DEF FetchObj, queue, PoolInv, PoolTypeOK
  <2>2. GuardInv'
    BY <1>1, PoolAssumption DEF FetchObj, queue, PoolInv, PoolTypeOK, GuardInv
  <2> QED
    BY <1>1, <2>1, <2>2, Unmoved DEF FetchObj, queue
<1>2. ASSUME NEW u \in Users, FetchProbe(u) PROVE PoolInv'
  <2>1. /\ pc[u] = "fetch" /\ wait[u] = "out"
        /\ retry_count' = [retry_count EXCEPT ![u] = @ + 1]
    BY <1>2 DEF FetchProbe, Queue!DequeueNodelay
  <2>2. retry_count' \in [Users -> 0..Retries]
    BY <2>1, PoolAssumption DEF PoolInv, PoolTypeOK, GuardInv
  <2>3. CASE Queue!Pop(u)
    <3>1. wait'[u] = "out"
      BY <2>3 DEF Queue!Pop, PoolInv, PoolTypeOK
    <3>2. Fetched(u)
      BY <1>2, <3>1 DEF FetchProbe
    <3> QED
      BY <2>1, <2>2, <2>3, <3>2, Taken DEF PoolInv, PoolTypeOK
  <2>4. CASE ~Queue!Pop(u)
    <3>1. wait' = [wait EXCEPT ![u] = "empty"] /\ UNCHANGED <<list, signal, data>>
      BY <1>2, <2>4 DEF FetchProbe, Queue!DequeueNodelay
    <3>2. UNCHANGED <<pc, pobj>>
      BY <1>2, <3>1 DEF FetchProbe, PoolInv, PoolTypeOK
    <3> QED
      <4>1. PoolTypeOK'
        BY <2>2, <3>1, <3>2 DEF PoolInv, PoolTypeOK
      <4>2. GuardInv'
        BY <2>1, <3>1, <3>2 DEF PoolInv, PoolTypeOK, GuardInv
      <4> QED
        BY <3>1, <3>2, <4>1, <4>2, Unmoved
  <2> QED
    BY <2>3, <2>4
<1>3. ASSUME NEW u \in Users, FetchWait(u) PROVE PoolInv'
  <2>1. /\ UNCHANGED <<list, signal, data, pc, retry_count, pobj>>
        /\ wait[u] # "out"
        /\ \/ wait' = [wait EXCEPT ![u] = "asleep"]
           \/ wait' = [wait EXCEPT ![u] = "awake"]
    BY <1>3 DEF FetchWait, Queue!TimedWait, Queue!Wake
  <2>2. PoolTypeOK'
    BY <2>1, Zenon DEF PoolInv, PoolTypeOK
  <2>3. GuardInv'
    BY <2>1, SMTT(20) DEF PoolInv, PoolTypeOK, GuardInv
  <2> QED
    BY <2>1, <2>2, <2>3, Unmoved
<1>4. ASSUME NEW u \in Users, FetchDequeue(u) PROVE PoolInv'
  <2>1. wait[u] = "awake" /\ pc[u] = "fetch" /\ retry_count' = retry_count /\ Fetched(u)
    BY <1>4, Zenon DEF FetchDequeue, Queue!Dequeue, PoolInv, GuardInv
  <2>2. CASE Queue!Pop(u)
    BY <2>1, <2>2, Taken DEF PoolInv, PoolTypeOK
  <2>3. CASE ~Queue!Pop(u)
    <3>1. /\ wait' = [wait EXCEPT ![u] = "out"] /\ data' = [data EXCEPT ![u] = NoObj]
          /\ UNCHANGED <<list, signal>>
      BY <1>4, <2>3 DEF FetchDequeue, Queue!Dequeue
    <3>2. data'[u] = NoObj /\ pobj[u] = NoObj
      BY <2>1, <3>1 DEF PoolInv, PoolTypeOK, GuardInv
    <3>3. /\ pobj' = pobj
          /\ pc' = IF retry_count[u] = Retries THEN [pc EXCEPT ![u] = "idle"] ELSE pc
      BY <2>1, <3>2 DEF Fetched, PoolInv, PoolTypeOK
    <3> QED
      <4>1. PoolTypeOK'
        BY <2>1, <3>1, <3>3 DEF PoolInv, PoolTypeOK
      <4>2. GuardInv'
        BY <2>1, <3>1, <3>3, PoolAssumption DEF PoolInv, PoolTypeOK, GuardInv
      <4> QED
        BY <3>1, <3>3, <4>1, <4>2, Unmoved
  <2> QED
    BY <2>2, <2>3
<1>5. ASSUME NEW u \in Users, RestoreObj(u) PROVE PoolInv'
  <2>1. /\ pc[u] = "use" /\ pobj[u] \in Objects /\ list \in Seq(Objects)
        /\ wait[u] = "out"
    BY <1>5 DEF RestoreObj, PoolInv, PoolTypeOK, GuardInv
  <2>2. /\ list' = Append(list, pobj[u]) /\ signal' = signal \cup {u}
        /\ pobj' = [pobj EXCEPT ![u] = NoObj] /\ pc' = [pc EXCEPT ![u] = "restored"]
        /\ UNCHANGED <<wait, data, retry_count>>
    BY <1>5 DEF RestoreObj, Queue!AddQueue
  <2>3. PoolTypeOK'
    BY <2>1, <2>2, AppendElements DEF PoolInv, PoolTypeOK
  <2>4. GuardInv'
    BY <2>1, <2>2 DEF PoolInv, PoolTypeOK, GuardInv
  <2>5. OnePlace'
    <3>1. \A v \in Users : pobj'[v] = IF v = u THEN NoObj ELSE pobj[v]
      BY <2>2 DEF PoolInv, PoolTypeOK
    <3>2. \A i \in DOMAIN list' :
              \/ i \in DOMAIN list /\ list'[i] = list[i]
              \/ i = Len(list) + 1 /\ list'[i] = pobj[u]
      BY <2>1, <2>2, AppendElements
    <3>3. \A i, j \in DOMAIN list' : list'[i] = list'[j] => i = j
      BY <3>2 DEF PoolInv, OnePlace
    <3>4. \A v, w \in Users : pobj'[v] = pobj'[w] /\ pobj'[v] # NoObj => v = w
      BY <3>1 DEF PoolInv, OnePlace
    <3>5. \A v \in Users, i \in DOMAIN list' : pobj'[v] # list'[i]
      <4> SUFFICES ASSUME NEW v \in Users, NEW i \in DOMAIN list' PROVE pobj'[v] # list'[i]
        OBVIOUS
      <4>1. list'[i] # NoObj
        BY <2>1, <2>3, PoolAssumption DEF PoolTypeOK
      <4>2. CASE i \in DOMAIN list /\ list'[i] = list[i]
        BY <3>1, <4>1, <4>2 DEF PoolInv, OnePlace
      <4>3. CASE list'[i] = pobj[u]
        BY <3>1, <4>1, <4>3 DEF PoolInv, OnePlace
      <4> QED
        BY <3>2, <4>2, <4>3
    <3>6. \A o \in Objects : (\E i \in DOMAIN list' : list'[i] = o)
                             \/ (\E v \in Users : pobj'[v] = o)
      BY <2>1, <2>2, <3>1, AppendElements DEF PoolInv, OnePlace
    <3> QED
      BY <3>3, <3>4, <3>5, <3>6 DEF OnePlace
  <2> QED
    BY <2>3, <2>4, <2>5 DEF PoolInv
<1>6. ASSUME NEW u \in Users, RestoreSignal(u) PROVE PoolInv'
  <2>1. /\ u \in signal /\ signal' = signal \ {u} /\ pc' = [pc EXCEPT ![u] = "idle"]
        /\ UNCHANGED <<list, data, retry_count, pobj>>
    BY <1>6 DEF RestoreSignal, Queue!Signal
  <2>2. \/ wait' = wait
        \/ \E c \in Users : wait[c] = "asleep" /\ wait' = [wait EXCEPT ![c] = "awake"]
    BY <1>6 DEF RestoreSignal, Queue!Signal
  <2>3. PoolTypeOK'
    BY <2>1, <2>2, Zenon DEF PoolInv, PoolTypeOK
  <2>4. GuardInv'
    BY <2>1, <2>2, SMTT(20) DEF PoolInv, PoolTypeOK, GuardInv
  <2> QED
    BY <2>1, <2>3, <2>4, Unmoved
<1>7. CASE UNCHANGED poolVars
  BY <1>7 DEF poolVars, queue, PoolInv, PoolTypeOK, GuardInv, OnePlace
<1> QED
  BY <1>1, <1>2, <1>3, <1>4, <1>5, <1>6, <1>7 DEF PoolNext, Fetch

\* the inductive invariant of the pool and its guards
THEOREM PoolInvariance == PoolSpec => []PoolInv
BY PoolInitInv, PoolNextInv, PTL DEF PoolSpec

(***************************************************************************)
(* No object of the pool is ever lost, or used by two threads at once.     *)
(***************************************************************************)
THEOREM PoolSafe == PoolSpec => []OnePlace
<1>1. PoolInv => OnePlace
  BY DEF PoolInv
<1> QED
  BY <1>1, PoolInvariance, PTL

\* the list, its waiters and the guards of the object pool keep their types
THEOREM PoolTypeCorrect == PoolSpec => []PoolTypeOK
<1>1. PoolInv => PoolTypeOK
  BY DEF PoolInv
<1> QED
  BY <1>1, PoolInvariance, PTL

-----------------------------------------------------------------------------
(***************************************************************************)
(* Tasks that borrow clients (dispatcher.cpp): what the tasks do with the  *)
(* guards is for the queue of tasks nothing, and what workers do with the  *)
(* queue of tasks is for the pool nothing.                                 *)
(***************************************************************************)
LEMMA WorkNextParts ==
    [WorkNext]_workVars => [TaskNext]_taskVars /\ [PoolNext]_poolVars
<1> SUFFICES ASSUME [WorkNext]_workVars PROVE [TaskNext]_taskVars /\ [PoolNext]_poolVars
  OBVIOUS
<1>1. CASE Commit
  BY <1>1 DEF Commit, TaskNext
<1>2. CASE \E w \in Workers : Idle(w) \/ TaskReturns(w)
  BY <1>2 DEF Idle, TaskReturns, TaskNext, GeneralThreadDoit
<1>3. CASE \E w \in Workers : Borrow(w) \/ InGuard(w) \/ GiveBack(w)
  BY <1>3, UserAssumption DEF Borrow, InGuard, GiveBack, PoolNext
<1>4. CASE UNCHANGED workVars
  BY <1>4 DEF workVars
<1> QED
  BY <1>1, <1>2, <1>3, <1>4 DEF WorkNext

\* the two pools composed are each the pool it is alone
THEOREM WorkParts == WorkSpec => TaskSpec /\ PoolSpec
<1>1. WorkInit => TaskInit /\ PoolInit
  BY DEF WorkInit
<1> QED
  BY <1>1, WorkNextParts, PTL DEF WorkSpec, TaskSpec, PoolSpec

(***************************************************************************)
(* While tasks borrow clients, tasks are still taken once each and in the  *)
(* order commit_task queued them, and a client is still in the pool or in  *)
(* one guard, for any number of workers, clients and guards of a task.     *)
(***************************************************************************)
THEOREM WorkSafe == WorkSpec => ImplementsTaskFifo /\ []OnePlace
BY WorkParts, TaskRefinement, PoolSafe

=============================================================================
