-------------------------- MODULE TcpServerProofs --------------------------
(***************************************************************************)
(* Proofs about the reactor of tcpserver.cpp, for any number of            *)
(* descriptors, connections, identities, threads and commands, as long as  *)
(* fewer connections are accepted than the counter in a tag tells apart.   *)
(***************************************************************************)
EXTENDS TcpServer, FiniteSetTheorems, TLAPS

\* the counter of a tag does not wrap: a tag is the number of its connection
LEMMA TagIsNumber == \A n \in 0..MaxConns : Tag(n) = n /\ n \in 0..(TagMod - 1)
<1> SUFFICES ASSUME NEW n \in 0..MaxConns PROVE Tag(n) = n /\ n \in 0..(TagMod - 1)
  OBVIOUS
<1>1. n \in Nat /\ TagMod \in Nat /\ n < TagMod
  BY TagAssumption
<1>2. n % TagMod = n
  BY <1>1
<1> QED
  BY <1>1, <1>2 DEF Tag

\* queues of commands
LEMMA AppendSeq == \A S : \A q \in Seq(S), c \in S : Append(q, c) \in Seq(S) /\ Len(Append(q, c)) = Len(q) + 1
  OBVIOUS

\* a queue without its head
LEMMA TailSeq ==
    \A S : \A q \in Seq(S) : q # <<>> => Head(q) \in S /\ Tail(q) \in Seq(S) /\ Len(Tail(q)) = Len(q) - 1
  OBVIOUS

-----------------------------------------------------------------------------
\* the commands that reply_data, reply_close, reply_auth_ok and boadcast make
Meant ==
    {c \in Command : /\ c.to # NoEntry => c.to.tag = c.id /\ c.op # "cast"
                     /\ c.to # NoEntry /\ c.op # "auth" => c.ident = NoId
                     /\ c.op = "auth" => c.to # NoEntry /\ c.ident \in Identities
                     /\ c.op = "close" => c.to # NoEntry}

\* the types that a step on the table needs
TableType ==
    /\ owner \in [Fds -> {"free", "conn", "foreign", "leaked"}]
    /\ client \in [Fds -> Client \cup {NoClient}]
    /\ idmap \in [Identities -> Entry \cup {NoEntry}]
    /\ clientcount \in Int
    /\ unify_id \in 0..MaxConns
    /\ auths \subseteq Conns \X Identities

(***************************************************************************)
(* A client has its own number as its tag, an open descriptor, and only an *)
(* identity that some AUTH_OK gave it; an entry of the map was put there   *)
(* by an AUTH_OK for the connection with that tag.                         *)
(***************************************************************************)
Numbered ==
    \A fd \in Fds : client[fd] # NoClient =>
        /\ client[fd].tag = client[fd].id
        /\ owner[fd] = "conn"
        /\ client[fd].ident # NoId => <<client[fd].id, client[fd].ident>> \in auths

EntryInv == \A i \in Identities : idmap[i] # NoEntry => <<idmap[i].tag, i>> \in auths

\* messages, commands and bytes on their way
FlowInv ==
    /\ known \subseteq {k \in [fd : Fds, tag : 0..(TagMod - 1), id : Conns] : k.tag = k.id}
    /\ queue \in Seq(Meant)
    /\ pipe \in 0..PipeCap
    /\ batch \subseteq Fds \cup {"listen", "pipe"}
    /\ "pipe" \in batch => pipe > 0
    /\ rpc \in {"wait", "events", "write"}
    /\ tpc \in [Threads -> {"run", "write"}]
    /\ issued \in 0..MaxCmds

WireType == wire \subseteq [cmd : Command, conn : Conns \cup {0}, sent : {"all", "part", "none"}]

TableInv == TableType /\ Numbered /\ EntryInv /\ MapExact /\ CountNeverHigh

Inv == /\ TableInv /\ FlowInv /\ WireType
       /\ HitsItsConnection /\ IdentityReachesOwner

\* the types are part of the invariant
LEMMA InvType == Inv => TypeOK
<1>1. Meant \subseteq Command
  BY DEF Meant
<1>2. queue \in Seq(Meant) => queue \in Seq(Command)
  BY <1>1
<1> QED
  BY <1>2 DEF Inv, TableInv, TableType, FlowInv, WireType, TypeOK

\* the invariant holds of a new reactor
LEMMA InitInv == Init => Inv
<1> SUFFICES ASSUME Init PROVE Inv
  OBVIOUS
<1>1. Live = {} /\ Cardinality(Live) = 0
  <2>1. Live = {}
    BY DEF Init, Live
  <2> QED
    BY <2>1, FS_EmptySet
<1>2. TableInv
  BY <1>1, TagAssumption, IdentityAssumption
     DEF Init, TableInv, TableType, Numbered, EntryInv, MapExact, CountNeverHigh
<1>3. FlowInv
  BY BoundAssumption DEF Init, FlowInv
<1> QED
  BY <1>2, <1>3 DEF Init, Inv, WireType, HitsItsConnection, IdentityReachesOwner

-----------------------------------------------------------------------------
(* What a step can do to the table: one of four things.                     *)

Untouched ==
    /\ owner' \in [Fds -> {"free", "conn", "foreign", "leaked"}]
    /\ \A fd \in Fds : client[fd] # NoClient => owner'[fd] = owner[fd]
    /\ UNCHANGED <<client, idmap, clientcount, unify_id, auths>>

Closes(S, calls) ==
    /\ Cardinality(S \cap Live) <= calls
    /\ CloseInternal(S, calls)
    /\ UNCHANGED <<unify_id, auths>>

Accepts(fd) ==
    /\ owner[fd] = "free"
    /\ unify_id < MaxConns
    /\ unify_id' = unify_id + 1
    /\ owner' = [owner EXCEPT ![fd] = "conn"]
    /\ client' = [client EXCEPT ![fd] = [id |-> unify_id', tag |-> Tag(unify_id'), ident |-> NoId]]
    /\ clientcount' = clientcount + 1
    /\ UNCHANGED <<idmap, auths>>

Authenticates(c) ==
    /\ c.op = "auth" /\ Current(c.to)
    /\ LET old == idmap[c.ident]
           S   == IF old # NoEntry /\ old.fd # c.to.fd THEN {old.fd} ELSE {}
           m   == MapWithout(S)
       IN  /\ client' = [ClientWithout(S) EXCEPT ![c.to.fd].ident = c.ident]
           /\ owner' = OwnerWithout(S)
           /\ clientcount' = clientcount - Cardinality(S)
           /\ idmap' = IF m[c.ident] = NoEntry THEN [m EXCEPT ![c.ident] = c.to] ELSE m
    /\ auths' = auths \cup {<<client[c.to.fd].id, c.ident>>}
    /\ UNCHANGED unify_id

\* only finitely many descriptors are live
LEMMA LiveFinite == IsFiniteSet(Live) /\ Cardinality(Live) \in Nat
<1>1. Live \subseteq Fds
  BY DEF Live
<1> QED
  BY <1>1, FiniteAssumption, FS_Subset, FS_CardinalityType

\* one descriptor closed by one call
LEMMA CloseOne == \A fd \in Fds : CloseInternal({fd}, 1) /\ UNCHANGED <<unify_id, auths>> => Closes({fd}, 1)
<1> SUFFICES ASSUME NEW fd \in Fds, CloseInternal({fd}, 1), UNCHANGED <<unify_id, auths>>
             PROVE  Closes({fd}, 1)
  OBVIOUS
<1>1. {fd} \cap Live = {fd} \/ {fd} \cap Live = {}
  OBVIOUS
<1>2. Cardinality({fd}) = 1 /\ Cardinality({}) = 0
  BY FS_Singleton, FS_EmptySet
<1> QED
  BY <1>1, <1>2 DEF Closes

\* a broadcast makes at least as many calls as it closes descriptors
LEMMA CastCloses ==
    ASSUME TableType, NEW failed \in SUBSET {i \in Identities : idmap[i] # NoEntry}
    PROVE  /\ Cardinality(failed) \in Nat
           /\ {idmap[i].fd : i \in failed} \in SUBSET Fds
           /\ Cardinality({idmap[i].fd : i \in failed} \cap Live) <= Cardinality(failed)
<1> DEFINE f == [i \in failed |-> idmap[i].fd]
           S == {idmap[i].fd : i \in failed}
<1>1. IsFiniteSet(failed) /\ Cardinality(failed) \in Nat
  BY FiniteAssumption, FS_Subset, FS_CardinalityType
<1>2. S \in SUBSET Fds
  BY DEF TableType, Entry
<1>3. f \in Surjection(failed, S)
  BY DEF Surjection
<1>4. IsFiniteSet(S) /\ Cardinality(S) <= Cardinality(failed)
  BY <1>1, <1>3, FS_Surjection
<1>5. IsFiniteSet(S \cap Live) /\ Cardinality(S \cap Live) <= Cardinality(S)
  BY <1>4, FS_Subset
<1>6. Cardinality(S) \in Nat /\ Cardinality(S \cap Live) \in Nat
  BY <1>4, <1>5, FS_CardinalityType
<1> QED
  BY <1>1, <1>2, <1>4, <1>5, <1>6

\* the command at the head of the queue, and the connection it is for
LEMMA HeadMeant ==
    ASSUME Inv, queue # <<>>
    PROVE  /\ Head(queue) \in Meant
           /\ Target(Head(queue)) \in Entry \cup {NoEntry}
           /\ Head(queue).op = "close" => Target(Head(queue)) = Head(queue).to
<1>1. Head(queue) \in Meant
  BY TailSeq DEF Inv, FlowInv
<1>2. Head(queue).ident \in Identities \/ Head(queue).ident = NoId
  BY <1>1 DEF Meant, Command
<1>3. Head(queue).to \in Entry \cup {NoEntry}
  BY <1>1 DEF Meant, Command
<1> QED
  BY <1>1, <1>2, <1>3 DEF Meant, Target, Inv, TableInv, TableType

\* every step leaves the tables alone, closes descriptors, accepts one or authenticates one
LEMMA Shape ==
    ASSUME Inv, [Next]_vars
    PROVE  \/ Untouched
           \/ \E S \in SUBSET Fds : \E n \in Nat : Closes(S, n)
           \/ \E fd \in Fds : Accepts(fd)
           \/ \E c \in Meant : Authenticates(c)
<1> DEFINE Goal == \/ Untouched
                   \/ \E S \in SUBSET Fds : \E n \in Nat : Closes(S, n)
                   \/ \E fd \in Fds : Accepts(fd)
                   \/ \E c \in Meant : Authenticates(c)
<1>0. TableType /\ Numbered
  BY DEF Inv, TableInv
<1>1. UNCHANGED <<table, unify_id, auths>> => Goal
  BY <1>0 DEF table, Untouched, TableType
<1>2. ASSUME NEW t \in Threads, Upper(t) PROVE Goal
  BY <1>1, <1>2 DEF Upper, Issue, WriteByte, table
<1>3. ASSUME NEW fd \in Fds, Environment(fd) PROVE Goal
  BY <1>0, <1>3, Zenon DEF Environment, ForeignOpen, ForeignClose, Untouched, TableType, Numbered
<1>4. CASE EpollWait \/ ReactorWrite
  BY <1>1, <1>4 DEF EpollWait, ReactorWrite
<1>5. CASE CheckTimeout
  <2>1. PICK S \in SUBSET Live : CloseInternal(S, Cardinality(S))
    BY <1>5 DEF CheckTimeout
  <2>2. S \in SUBSET Fds /\ S \cap Live = S
    BY DEF Live
  <2>3. Cardinality(S) \in Nat
    BY <2>2, LiveFinite, FS_Subset, FS_CardinalityType
  <2>4. Closes(S, Cardinality(S))
    BY <1>5, <2>1, <2>2, <2>3 DEF CheckTimeout, Closes
  <2> QED
    BY <2>2, <2>3, <2>4
<1>6. CASE NewConnection
  <2>1. CASE \E fd \in Fds : Accepts(fd)
    BY <2>1
  <2>2. CASE UNCHANGED <<table, unify_id>>
    BY <1>1, <1>6, <2>2 DEF NewConnection
  <2>3. CASE /\ \E fd \in Fds : owner[fd] = "free" /\ owner' = [owner EXCEPT ![fd] = "leaked"]
             /\ UNCHANGED <<client, idmap, clientcount, unify_id>>
    BY <1>0, <1>6, <2>3, Zenon DEF NewConnection, Untouched, TableType, Numbered
  <2> QED
    BY <1>6, <2>1, <2>2, <2>3 DEF NewConnection, Accepts
<1>7. ASSUME NEW fd \in Fds, RecvStep(fd) PROVE Goal
  <2>1. CASE RecvPart(fd) \/ RecvMessage(fd) \/ RecvHeartbeat(fd)
    BY <1>1, <2>1 DEF RecvPart, RecvMessage, RecvHeartbeat
  <2>2. CASE RecvClose(fd) \/ RecvStale(fd)
    BY <2>2, CloseOne DEF RecvClose, RecvStale
  <2> QED
    BY <1>7, <2>1, <2>2 DEF RecvStep
<1>8. ASSUME queue # <<>>, CmdStep(Head(queue)) PROVE Goal
  <2> DEFINE c == Head(queue)
  <2>0. c \in Meant /\ Target(c) \in Entry \cup {NoEntry} /\ UNCHANGED unify_id
    BY <1>8, HeadMeant, Zenon DEF CmdStep, CmdDropped, CmdSend, CmdClose, CmdAuth, CmdCast, PipeCmd
  <2>1. CASE CmdDropped(c)
    BY <1>1, <2>1 DEF CmdDropped, PipeCmd
  <2>2. CASE CmdSend(c)
    <3>1. Target(c).fd \in Fds
      BY <2>0, <2>2 DEF CmdSend, Current, Entry
    <3>2. UNCHANGED table \/ CloseInternal({Target(c).fd}, 1)
      BY <2>2 DEF CmdSend, SendDataInternal
    <3>3. UNCHANGED auths
      BY <2>2 DEF CmdSend
    <3> QED
      BY <1>1, <2>0, <3>1, <3>2, <3>3, CloseOne
  <2>3. CASE CmdClose(c)
    <3>1. Target(c).fd \in Fds
      BY <2>0, <2>3 DEF CmdClose, Current, Entry
    <3> QED
      BY <2>0, <2>3, <3>1, CloseOne DEF CmdClose
  <2>4. CASE CmdAuth(c)
    BY <2>0, <2>4, Zenon DEF CmdAuth, Authenticates
  <2>5. CASE CmdCast(c)
    <3> DEFINE all == {i \in Identities : idmap[i] # NoEntry}
    <3>1. PICK failed \in SUBSET all :
              CloseInternal({idmap[i].fd : i \in failed}, Cardinality(failed))
      BY <2>5, Zenon DEF CmdCast
    <3>2. Closes({idmap[i].fd : i \in failed}, Cardinality(failed))
      BY <1>0, <2>0, <2>5, <3>1, CastCloses DEF CmdCast, Closes
    <3> QED
      BY <1>0, <3>2, CastCloses, Zenon
  <2> QED
    BY <1>8, <2>1, <2>2, <2>3, <2>4, <2>5 DEF CmdStep
<1>9. CASE UNCHANGED vars
  BY <1>1, <1>9 DEF vars, table
<1> QED
  BY <1>2, <1>3, <1>4, <1>5, <1>6, <1>7, <1>8, <1>9 DEF Next, Reactor

-----------------------------------------------------------------------------
(* Each of the four keeps the invariants of the table.                      *)

\* a step that leaves the tables alone keeps their invariant
LEMMA UntouchedTable == TableInv /\ Untouched => TableInv'
<1> SUFFICES ASSUME TableInv, Untouched PROVE TableInv'
  OBVIOUS
<1>1. TableType' /\ Numbered' /\ EntryInv'
  BY DEF TableInv, TableType, Numbered, EntryInv, Untouched
<1>2. Live' = Live /\ (MapExact <=> MapExact')
  BY DEF Untouched, Live, MapExact, OneIdentityEach, Current
<1> QED
  BY <1>1, <1>2 DEF TableInv, CountNeverHigh, Untouched

\* closing a connection keeps the invariant of the tables
LEMMA ClosesTable ==
    ASSUME TableInv, NEW S \in SUBSET Fds, NEW n \in Nat, Closes(S, n)
    PROVE  TableInv'
<1>1. /\ client' = [fd \in Fds |-> IF fd \in S THEN NoClient ELSE client[fd]]
      /\ owner' = [fd \in Fds |-> IF fd \in S THEN "free" ELSE owner[fd]]
      /\ idmap' = MapWithout(S)
      /\ clientcount' = clientcount - n /\ unify_id' = unify_id /\ auths' = auths
  BY DEF Closes, CloseInternal, ClientWithout, OwnerWithout
<1>2. \A i \in Identities : idmap'[i] = IF \E fd \in S \cap Live : client[fd].ident = i
                                        THEN NoEntry ELSE idmap[i]
  BY <1>1 DEF MapWithout
<1>3. TableType'
  BY <1>1 DEF TableInv, TableType, MapWithout
<1>4. Numbered' /\ EntryInv'
  BY <1>1, <1>2 DEF TableInv, TableType, Numbered, EntryInv
<1>5. MapExact'
  <2>1. Live' = Live \ S
    BY <1>1 DEF Live
  <2>2. OneIdentityEach' = OneIdentityEach
    BY <1>1 DEF OneIdentityEach
  <2> SUFFICES ASSUME OneIdentityEach, NEW i \in Identities
               PROVE  /\ \A fd \in Live' : client'[fd].ident = i => idmap'[i] = [fd |-> fd, tag |-> client'[fd].tag]
                      /\ idmap'[i] # NoEntry => Current(idmap[i])' /\ client'[idmap'[i].fd].ident = i
    BY <2>2 DEF MapExact
  <2>3. ASSUME NEW fd \in Live', client'[fd].ident = i
        PROVE  idmap'[i] = [fd |-> fd, tag |-> client'[fd].tag]
    <3>1. fd \in Live /\ fd \notin S /\ client'[fd] = client[fd]
      BY <1>1, <2>1 DEF Live
    <3>2. idmap[i] = [fd |-> fd, tag |-> client[fd].tag]
      BY <2>3, <3>1 DEF TableInv, MapExact
    <3>3. ~\E f \in S \cap Live : client[f].ident = i
      <4>1. ASSUME NEW f \in S \cap Live, client[f].ident = i PROVE FALSE
        <5>1. idmap[i] = [fd |-> f, tag |-> client[f].tag]
          BY <4>1 DEF TableInv, MapExact
        <5> QED
          BY <3>1, <3>2, <5>1
      <4> QED
        BY <4>1
    <3> QED
      BY <1>2, <3>1, <3>2, <3>3
  <2>4. ASSUME idmap'[i] # NoEntry PROVE Current(idmap[i])' /\ client'[idmap'[i].fd].ident = i
    <3>1. idmap'[i] = idmap[i] /\ ~\E f \in S \cap Live : client[f].ident = i
      BY <1>2, <2>4
    <3>2. Current(idmap[i]) /\ client[idmap[i].fd].ident = i
      BY <2>4, <3>1 DEF TableInv, MapExact
    <3>3. idmap[i].fd \in Live
      BY <2>4, <3>1, <3>2 DEF Current, Live, TableInv, TableType, Entry
    <3>4. client'[idmap[i].fd] = client[idmap[i].fd]
      BY <1>1, <3>1, <3>2, <3>3 DEF Live
    <3> QED
      BY <3>1, <3>2, <3>4 DEF Current
  <2> QED
    BY <2>3, <2>4
<1>6. CountNeverHigh'
  <2>1. Live' = Live \ (S \cap Live)
    BY <1>1 DEF Live
  <2>2. IsFiniteSet(S \cap Live) /\ Cardinality(S \cap Live) \in Nat
    BY LiveFinite, FS_Subset, FS_CardinalityType
  <2>3. Cardinality(Live') = Cardinality(Live) - Cardinality(S \cap Live)
    <3>1. Live \cap (S \cap Live) = S \cap Live
      OBVIOUS
    <3>2. Cardinality(Live \ (S \cap Live)) = Cardinality(Live) - Cardinality(Live \cap (S \cap Live))
      BY LiveFinite, FS_Difference, Zenon
    <3> QED
      BY <2>1, <3>1, <3>2
  <2> QED
    BY <1>1, <2>2, <2>3, LiveFinite DEF CountNeverHigh, TableInv, TableType, Closes
<1> QED
  BY <1>3, <1>4, <1>5, <1>6 DEF TableInv

\* accepting a connection keeps the invariant of the tables
LEMMA AcceptsTable ==
    ASSUME TableInv, NEW f \in Fds, Accepts(f)
    PROVE  TableInv'
<1> DEFINE new == [id |-> unify_id + 1, tag |-> unify_id + 1, ident |-> NoId]
<1>0. new \in Client /\ new # NoClient
  BY TagIsNumber, TagAssumption, EmptyAssumption DEF Accepts, TableInv, TableType, Client, Conns
<1>1. client' = [client EXCEPT ![f] = new]
  <2>1. unify_id + 1 \in 0..MaxConns
    BY TagAssumption DEF Accepts, TableInv, TableType
  <2>2. Tag(unify_id + 1) = unify_id + 1
    BY <2>1, TagIsNumber
  <2>3. client' = [client EXCEPT ![f] = [id |-> unify_id + 1, tag |-> Tag(unify_id + 1), ident |-> NoId]]
    BY DEF Accepts
  <2> QED
    BY <2>2, <2>3, Zenon
<1>2. client[f] = NoClient /\ f \notin Live /\ Live' = Live \cup {f}
  <2>1. client[f] = NoClient
    BY Zenon DEF Accepts, TableInv, Numbered
  <2>2. client'[f] # NoClient /\ \A fd \in Fds : fd # f => client'[fd] = client[fd]
    BY <1>0, <1>1 DEF TableInv, TableType
  <2> QED
    BY <2>1, <2>2 DEF Live
<1>3. TableType'
  BY <1>0, <1>1, TagAssumption DEF Accepts, TableInv, TableType
<1>4. Numbered' /\ EntryInv'
  BY <1>1 DEF Accepts, TableInv, TableType, Numbered, EntryInv
<1>5. MapExact'
  <2> SUFFICES ASSUME OneIdentityEach, NEW i \in Identities
               PROVE  /\ \A fd \in Live' : client'[fd].ident = i => idmap[i] = [fd |-> fd, tag |-> client'[fd].tag]
                      /\ idmap[i] # NoEntry => Current(idmap[i])' /\ client'[idmap[i].fd].ident = i
    BY DEF MapExact, OneIdentityEach, Accepts
  <2>1. i # NoId
    BY IdentityAssumption
  <2>2. \A fd \in Live' : client'[fd].ident = i => idmap[i] = [fd |-> fd, tag |-> client'[fd].tag]
    BY <1>1, <1>2, <2>1 DEF TableInv, TableType, MapExact, Live
  <2>3. ASSUME idmap[i] # NoEntry PROVE Current(idmap[i])' /\ client'[idmap[i].fd].ident = i
    <3>1. Current(idmap[i]) /\ client[idmap[i].fd].ident = i
      BY <2>3 DEF TableInv, MapExact
    <3>2. idmap[i].fd # f
      BY <1>2, <3>1 DEF Current
    <3>3. client'[idmap[i].fd] = client[idmap[i].fd] /\ idmap' = idmap
      BY <1>1, <3>2 DEF TableInv, TableType, Accepts
    <3> QED
      BY <3>1, <3>3 DEF Current
  <2> QED
    BY <2>2, <2>3
<1>6. CountNeverHigh'
  <2>1. Cardinality(Live') = Cardinality(Live) + 1
    BY <1>2, LiveFinite, FS_AddElement
  <2> QED
    BY <2>1, LiveFinite DEF CountNeverHigh, TableInv, TableType, Accepts
<1> QED
  BY <1>3, <1>4, <1>5, <1>6 DEF TableInv

\* authenticating a connection, an older one of the same identity included, keeps the invariant of the tables
LEMMA AuthenticatesTable ==
    ASSUME TableInv, NEW c \in Meant, Authenticates(c)
    PROVE  TableInv'
<1> DEFINE f   == c.to.fd
           old == idmap[c.ident]
           S   == IF old # NoEntry /\ old.fd # f THEN {old.fd} ELSE {}
           m   == MapWithout(S)
           n   == client[f].id
<1>0. /\ c.ident \in Identities /\ c.ident # NoId
      /\ c.to \in Entry /\ f \in Fds
      /\ client[f] \in Client /\ client[f] # NoClient
      /\ client[f].tag = c.to.tag /\ n = c.to.tag /\ n \in Conns
  <2>1. c.to \in Entry /\ c.ident \in Identities
    BY DEF Authenticates, Meant, Command
  <2>2. f \in Fds
    BY <2>1 DEF Entry
  <2>3. client[f] # NoClient /\ client[f].tag = c.to.tag
    BY Zenon DEF Authenticates, Current
  <2>4. client[f] \in Client
    BY <2>2, <2>3 DEF TableInv, TableType
  <2> QED
    BY <2>1, <2>2, <2>3, <2>4, IdentityAssumption, Zenon DEF TableInv, Numbered, Client
<1>1. /\ S \subseteq Fds /\ f \notin S
      /\ IsFiniteSet(S) /\ Cardinality(S) \in Nat
  <2>1. S \subseteq Fds /\ f \notin S
    BY <1>0, SMTT(20) DEF TableInv, TableType, Entry
  <2> HIDE DEF S
  <2> QED
    BY <2>1, FiniteAssumption, FS_Subset, FS_CardinalityType
<1>2. /\ client' = [ClientWithout(S) EXCEPT ![f].ident = c.ident]
      /\ owner' = OwnerWithout(S)
      /\ clientcount' = clientcount - Cardinality(S)
      /\ idmap' = IF m[c.ident] = NoEntry THEN [m EXCEPT ![c.ident] = c.to] ELSE m
      /\ auths' = auths \cup {<<n, c.ident>>}
      /\ unify_id' = unify_id
  BY Zenon DEF Authenticates
<1>3. /\ client' \in [Fds -> Client \cup {NoClient}]
      /\ client'[f] = [client[f] EXCEPT !.ident = c.ident]
      /\ \A fd \in Fds : fd \in S => client'[fd] = NoClient
      /\ \A fd \in Fds : fd # f /\ fd \notin S => client'[fd] = client[fd]
  <2>1. ClientWithout(S) = [fd \in Fds |-> IF fd \in S THEN NoClient ELSE client[fd]]
    BY DEF ClientWithout
  <2>2. [client[f] EXCEPT !.ident = c.ident] \in Client
    BY <1>0 DEF Client
  <2>3. client' = [fd \in Fds |-> IF fd = f THEN [client[f] EXCEPT !.ident = c.ident]
                                  ELSE IF fd \in S THEN NoClient ELSE client[fd]]
    BY <1>0, <1>1, <1>2, <2>1, Zenon
  <2> HIDE DEF S
  <2> QED
    BY <1>0, <1>1, <2>2, <2>3 DEF TableInv, TableType
<1>4. /\ client'[f] # NoClient
      /\ client'[f].ident = c.ident /\ client'[f].id = n /\ client'[f].tag = c.to.tag
  BY <1>0, <1>3, EmptyAssumption DEF Client
<1>5. /\ m \in [Identities -> Entry \cup {NoEntry}]
      /\ \A i \in Identities : m[i] = IF \E fd \in S \cap Live : client[fd].ident = i
                                      THEN NoEntry ELSE idmap[i]
  BY DEF MapWithout, TableInv, TableType
<1>6. TableType'
  <2>1. idmap' \in [Identities -> Entry \cup {NoEntry}]
    BY <1>0, <1>2, <1>5, Zenon
  <2>2. owner' \in [Fds -> {"free", "conn", "foreign", "leaked"}]
    BY <1>2, Zenon DEF OwnerWithout, TableInv, TableType
  <2> HIDE DEF S, m, n, f
  <2>3. clientcount' \in Int
    BY <1>1, <1>2 DEF TableInv, TableType
  <2>4. auths' \subseteq Conns \X Identities
    BY <1>0, <1>2 DEF TableInv, TableType
  <2> QED
    BY <1>2, <1>3, <2>1, <2>2, <2>3, <2>4 DEF TableInv, TableType
<1>7. Numbered'
  <2> SUFFICES ASSUME NEW fd \in Fds, client'[fd] # NoClient
               PROVE  /\ client'[fd].tag = client'[fd].id /\ owner'[fd] = "conn"
                      /\ client'[fd].ident # NoId => <<client'[fd].id, client'[fd].ident>> \in auths'
    BY DEF Numbered
  <2>1. fd \notin S
    BY <1>3
  <2>2. owner'[fd] = owner[fd]
    BY <1>2, <2>1, Zenon DEF OwnerWithout
  <2>3. CASE fd = f
    <3>1. owner[f] = "conn" /\ <<n, c.ident>> \in auths'
      BY <1>0, <1>2, Zenon DEF TableInv, Numbered
    <3> HIDE DEF n, f
    <3> QED
      BY <1>0, <1>4, <2>2, <2>3, <3>1
  <2>4. CASE fd # f
    <3>1. client'[fd] = client[fd] /\ auths \subseteq auths'
      BY <1>2, <1>3, <2>1, <2>4, Zenon
    <3> QED
      BY <2>2, <3>1 DEF TableInv, Numbered
  <2> QED
    BY <2>3, <2>4
<1>8. EntryInv'
  <2> SUFFICES ASSUME NEW i \in Identities, idmap'[i] # NoEntry PROVE <<idmap'[i].tag, i>> \in auths'
    BY DEF EntryInv
  <2>1. idmap'[i] = idmap[i] \/ (i = c.ident /\ idmap'[i] = c.to)
    BY <1>0, <1>2, <1>5, Zenon
  <2>2. <<n, c.ident>> \in auths' /\ auths \subseteq auths'
    BY <1>2, Zenon
  <2> HIDE DEF n
  <2>3. CASE i = c.ident /\ idmap'[i] = c.to
    BY <1>0, <2>2, <2>3
  <2>4. CASE idmap'[i] = idmap[i]
    BY <2>2, <2>4 DEF TableInv, EntryInv
  <2> QED
    BY <2>1, <2>3, <2>4
<1>9. MapExact'
  <2> SUFFICES ASSUME OneIdentityEach'
               PROVE  \A i \in Identities :
                        /\ \A fd \in Live' : client'[fd].ident = i => idmap'[i] = [fd |-> fd, tag |-> client'[fd].tag]
                        /\ idmap'[i] # NoEntry => Current(idmap[i])' /\ client'[idmap'[i].fd].ident = i
    BY DEF MapExact
  <2>1. OneIdentityEach
    <3>1. auths \subseteq auths'
      BY <1>2, Zenon
    <3> QED
      BY <3>1 DEF OneIdentityEach
  <2>2. \A i \in Identities :
          /\ \A fd \in Live : client[fd].ident = i => idmap[i] = [fd |-> fd, tag |-> client[fd].tag]
          /\ idmap[i] # NoEntry => Current(idmap[i]) /\ client[idmap[i].fd].ident = i
    BY <2>1 DEF TableInv, MapExact
  <2>3. client[f].ident = NoId \/ client[f].ident = c.ident
    <3>1. CASE client[f].ident # NoId
      <4>1. <<n, client[f].ident>> \in auths
        BY <1>0, <3>1 DEF TableInv, Numbered
      <4>2. <<n, client[f].ident>> \in auths' /\ <<n, c.ident>> \in auths'
        BY <1>2, <4>1, Zenon
      <4> HIDE DEF n, f
      <4> QED
        BY <4>2 DEF OneIdentityEach
    <3> QED
      BY <3>1
  <2>4. idmap'[c.ident] = c.to
    <3>1. CASE old = NoEntry
      <4>1. m[c.ident] = NoEntry
        BY <1>0, <1>5, <3>1, SMTT(20)
      <4> QED
        BY <1>0, <1>2, <1>5, <4>1, Zenon
    <3>2. CASE old # NoEntry /\ old.fd # f
      <4>1. old.fd \in S \cap Live /\ client[old.fd].ident = c.ident
        BY <1>0, <1>1, <2>2, <3>2 DEF Current, Live
      <4>2. m[c.ident] = NoEntry
        BY <1>0, <1>5, <4>1, SMTT(20)
      <4> QED
        BY <1>0, <1>2, <1>5, <4>2, Zenon
    <3>3. CASE old # NoEntry /\ old.fd = f
      <4>1. S = {} /\ m[c.ident] = old
        BY <1>0, <1>5, <3>3
      <4>2. idmap'[c.ident] = old
        BY <1>2, <3>3, <4>1
      <4>3. old \in Entry /\ old.tag = c.to.tag
        BY <1>0, <2>2, <3>3 DEF Current, TableInv, TableType
      <4>4. \A a, b \in Entry : a.fd = b.fd /\ a.tag = b.tag => a = b
        BY DEF Entry
      <4> HIDE DEF old, f
      <4>5. c.to \in Entry /\ c.to.fd = f
        BY <1>0 DEF f
      <4> QED
        BY <3>3, <4>2, <4>3, <4>4, <4>5
    <3> QED
      BY <3>1, <3>2, <3>3
  <2>5. \A i \in Identities : i # c.ident => idmap'[i] = m[i]
    BY <1>2, <1>5, Zenon
  <2>6. ASSUME NEW i \in Identities, NEW fd \in Live', client'[fd].ident = i
        PROVE  idmap'[i] = [fd |-> fd, tag |-> client'[fd].tag]
    <3>1. fd \in Fds /\ fd \notin S
      BY <1>3, SMTT(20) DEF Live
    <3>2. CASE fd = f
      BY <1>0, <1>4, <2>4, <2>6, <3>2 DEF Entry
    <3>3. CASE fd # f
      <4>1. client'[fd] = client[fd] /\ fd \in Live
        BY <1>3, <3>1, <3>3 DEF Live
      <4>2. idmap[i] = [fd |-> fd, tag |-> client[fd].tag]
        BY <2>2, <2>6, <4>1
      <4>3. i # c.ident
        <5>1. CASE i = c.ident
          <6>1. old.fd = fd /\ old # NoEntry
            <7>1. client[fd] \in Client
              BY <3>1, <4>1 DEF Live, TableInv, TableType
            <7> QED
              BY <3>1, <4>2, <5>1, <7>1, EmptyAssumption DEF Entry, Client
          <6> QED
            BY <3>1, <3>3, <6>1
        <5> QED
          BY <5>1
      <4>4. ~\E g \in S \cap Live : client[g].ident = i
        <5>1. ASSUME NEW g \in S \cap Live, client[g].ident = i PROVE FALSE
          <6>1. idmap[i] = [fd |-> g, tag |-> client[g].tag]
            BY <2>2, <5>1
          <6> QED
            BY <3>1, <4>2, <6>1
        <5> QED
          BY <5>1
      <4> QED
        BY <1>5, <2>5, <4>1, <4>2, <4>3, <4>4, Zenon
    <3> QED
      BY <3>2, <3>3
  <2>7. ASSUME NEW i \in Identities, idmap'[i] # NoEntry
        PROVE  Current(idmap[i])' /\ client'[idmap'[i].fd].ident = i
    <3>1. CASE i = c.ident
      BY <1>4, <2>4, <2>7, <3>1 DEF Current
    <3>2. CASE i # c.ident
      <4>1. idmap'[i] = idmap[i] /\ ~\E g \in S \cap Live : client[g].ident = i
        BY <1>5, <2>5, <2>7, <3>2
      <4>2. Current(idmap[i]) /\ client[idmap[i].fd].ident = i /\ idmap[i].fd \in Live
        <5>1. Current(idmap[i]) /\ client[idmap[i].fd].ident = i
          BY <2>2, <2>7, <4>1
        <5>2. idmap[i].fd \in Fds
          BY <2>7, <4>1 DEF TableInv, TableType, Entry
        <5> QED
          BY <5>1, <5>2 DEF Current, Live
      <4>3. idmap[i].fd # f /\ idmap[i].fd \notin S
        BY <2>3, <3>2, <4>1, <4>2, IdentityAssumption
      <4>4. client'[idmap[i].fd] = client[idmap[i].fd]
        BY <1>3, <4>2, <4>3 DEF Live
      <4> QED
        BY <4>1, <4>2, <4>4 DEF Current
    <3> QED
      BY <3>1, <3>2
  <2> QED
    BY <2>6, <2>7
<1>10. CountNeverHigh'
  <2>1. Live' = Live \ S
    BY <1>0, <1>1, <1>3, <1>4 DEF Live
  <2>2. Cardinality(Live \ S) = Cardinality(Live) - Cardinality(Live \cap S)
    BY LiveFinite, FS_Difference, Zenon
  <2>3. Cardinality(Live \cap S) <= Cardinality(S) /\ Cardinality(Live \cap S) \in Nat
    BY <1>1, FS_Subset, FS_CardinalityType
  <2> HIDE DEF S
  <2> QED
    BY <1>1, <1>2, <2>1, <2>2, <2>3, LiveFinite DEF CountNeverHigh, TableInv, TableType
<1> QED
  BY <1>6, <1>7, <1>8, <1>9, <1>10 DEF TableInv

\* every step keeps the invariant of the tables
LEMMA NextTable == Inv /\ [Next]_vars => TableInv'
<1> SUFFICES ASSUME Inv, [Next]_vars PROVE TableInv'
  OBVIOUS
<1>1. TableInv
  BY DEF Inv
<1> QED
  BY <1>1, Shape, UntouchedTable, ClosesTable, AcceptsTable, AuthenticatesTable

-----------------------------------------------------------------------------
(* Messages, commands and bytes.                                            *)

\* a queued command names a connection that was meant
LEMMA CommandsMeant == TableType /\ FlowInv => Commands \subseteq Meant
<1> SUFFICES ASSUME TableType, FlowInv, NEW c \in Commands PROVE c \in Meant
  OBVIOUS
<1>1. \A k \in known : /\ [fd |-> k.fd, tag |-> k.tag] \in Entry /\ k.id \in Conns /\ k.tag = k.id
                       /\ [fd |-> k.fd, tag |-> k.tag] # NoEntry
                       /\ IdentityOf[k.id] \subseteq Identities
  BY EmptyAssumption, IdentityAssumption DEF FlowInv, Entry
<1>2. CASE \E k \in known : \E o \in {"send", "close"} :
             c = [op |-> o, to |-> [fd |-> k.fd, tag |-> k.tag], ident |-> NoId, id |-> k.id]
  <2>1. PICK k \in known, o \in {"send", "close"} :
             c = [op |-> o, to |-> [fd |-> k.fd, tag |-> k.tag], ident |-> NoId, id |-> k.id]
    BY <1>2, Zenon
  <2> DEFINE e == [fd |-> k.fd, tag |-> k.tag]
  <2>2. e \in Entry /\ e # NoEntry /\ e.tag = k.id /\ k.id \in Conns
    BY <1>1
  <2>3. c = [op |-> o, to |-> e, ident |-> NoId, id |-> k.id]
    BY <2>1
  <2> HIDE DEF e
  <2> QED
    BY <2>2, <2>3 DEF Meant, Command
<1>3. CASE \E k \in known : \E i \in IdentityOf[k.id] :
             c = [op |-> "auth", to |-> [fd |-> k.fd, tag |-> k.tag], ident |-> i, id |-> k.id]
  <2>1. PICK k \in known : \E i \in IdentityOf[k.id] :
             c = [op |-> "auth", to |-> [fd |-> k.fd, tag |-> k.tag], ident |-> i, id |-> k.id]
    BY <1>3, Zenon
  <2> DEFINE e == [fd |-> k.fd, tag |-> k.tag]
  <2>2. PICK i \in Identities : c = [op |-> "auth", to |-> e, ident |-> i, id |-> k.id]
    BY <1>1, <2>1
  <2>3. e \in Entry /\ e # NoEntry /\ e.tag = k.id /\ k.id \in Conns
    BY <1>1
  <2> HIDE DEF e
  <2> QED
    BY <2>2, <2>3 DEF Meant, Command
<1>4. CASE \E i \in Identities : c = [op |-> "send", to |-> NoEntry, ident |-> i, id |-> 0]
  BY <1>4 DEF Meant, Command
<1>5. CASE c = [op |-> "cast", to |-> NoEntry, ident |-> NoId, id |-> 0]
  BY <1>5 DEF Meant, Command
<1> QED
  <2>1. CASE c \in UNION { {[op |-> "send", to |-> [fd |-> k.fd, tag |-> k.tag], ident |-> NoId, id |-> k.id],
                            [op |-> "close", to |-> [fd |-> k.fd, tag |-> k.tag], ident |-> NoId, id |-> k.id]} :
                           k \in known }
    BY <1>2, <2>1
  <2>2. CASE c \in UNION { {[op |-> "auth", to |-> [fd |-> k.fd, tag |-> k.tag], ident |-> i, id |-> k.id] :
                            i \in IdentityOf[k.id]} : k \in known }
    BY <1>3, <2>2
  <2>3. CASE c \in {[op |-> "send", to |-> NoEntry, ident |-> i, id |-> 0] : i \in Identities}
    BY <1>4, <2>3
  <2> QED
    BY <1>5, <2>1, <2>2, <2>3 DEF Commands

\* the parts of FlowInv that most steps leave alone
LEMMA FlowSame ==
    FlowInv /\ UNCHANGED <<known, queue, pipe, batch, rpc, tpc, issued>> => FlowInv'
  BY DEF FlowInv

\* what reading a connection queues
LEMMA RecvFlow ==
    ASSUME Inv, NEW fd \in Fds, RecvStep(fd)
    PROVE  FlowInv'
<1>1. FlowInv /\ batch' = batch \ {fd} /\ rpc = "events"
  BY DEF Inv, RecvStep, RecvPart, RecvClose, RecvStale, RecvMessage, RecvHeartbeat, Recv
<1>2. CASE RecvPart(fd) \/ RecvClose(fd) \/ RecvStale(fd)
  BY <1>1, <1>2 DEF RecvPart, RecvClose, RecvStale, Others, FlowInv
<1>3. ASSUME fd \in Live
      PROVE  /\ [fd |-> fd, tag |-> client[fd].tag] \in Entry
             /\ client[fd].id \in Conns /\ client[fd].tag = client[fd].id
             /\ client[fd].tag \in 0..(TagMod - 1)
  BY <1>3, Zenon DEF Live, Inv, TableInv, TableType, Numbered, Client, Entry
<1>4. CASE RecvMessage(fd)
  <2> DEFINE k == [fd |-> fd, tag |-> client[fd].tag, id |-> client[fd].id]
  <2>1. k \in [fd : Fds, tag : 0..(TagMod - 1), id : Conns] /\ k.tag = k.id
    BY <1>3, <1>4 DEF RecvMessage
  <2>2. known' = known \cup {k}
    BY <1>4 DEF RecvMessage
  <2> HIDE DEF k
  <2>3. known' \subseteq {x \in [fd : Fds, tag : 0..(TagMod - 1), id : Conns] : x.tag = x.id}
    BY <1>1, <2>1, <2>2 DEF FlowInv
  <2> QED
    BY <1>1, <1>4, <2>3 DEF RecvMessage, Others, FlowInv
<1>5. CASE RecvHeartbeat(fd)
  <2> DEFINE c == [op |-> "send", to |-> [fd |-> fd, tag |-> client[fd].tag],
                   ident |-> NoId, id |-> client[fd].id]
  <2>1. c \in Meant
    BY <1>3, <1>5 DEF RecvHeartbeat, Meant, Command
  <2>2. queue' = Append(queue, c)
    BY <1>5 DEF RecvHeartbeat
  <2> HIDE DEF c
  <2>3. queue' \in Seq(Meant)
    BY <1>1, <2>1, <2>2, AppendSeq DEF FlowInv
  <2>4. issued' \in 0..MaxCmds
    BY <1>1, <1>5, BoundAssumption DEF RecvHeartbeat, FlowInv
  <2> QED
    BY <1>1, <1>5, <2>3, <2>4 DEF RecvHeartbeat, FlowInv
<1> QED
  BY <1>2, <1>4, <1>5 DEF RecvStep

\* every step keeps the invariant of the queues
LEMMA NextFlow == Inv /\ [Next]_vars => FlowInv'
<1> SUFFICES ASSUME Inv, [Next]_vars PROVE FlowInv'
  OBVIOUS
<1>0. FlowInv /\ TableType
  BY DEF Inv, TableInv
<1>1. ASSUME NEW t \in Threads, Issue(t) PROVE FlowInv'
  <2>1. PICK c \in Commands : queue' = Append(queue, c)
    BY <1>1 DEF Issue
  <2>2. queue' \in Seq(Meant)
    BY <1>0, <2>1, CommandsMeant, AppendSeq DEF FlowInv
  <2>3. issued' \in 0..MaxCmds
    BY <1>0, <1>1, BoundAssumption DEF Issue, FlowInv
  <2> QED
    BY <1>0, <1>1, <2>2, <2>3 DEF Issue, FlowInv
<1>2. ASSUME NEW t \in Threads, WriteByte(t) PROVE FlowInv'
  <2>1. pipe' \in 0..PipeCap /\ pipe' > 0
    BY <1>0, <1>2, BoundAssumption DEF WriteByte, FlowInv
  <2> QED
    BY <1>0, <1>2, <2>1 DEF WriteByte, FlowInv
<1>3. ASSUME NEW fd \in Fds, Environment(fd) PROVE FlowInv'
  BY <1>0, <1>3, FlowSame DEF Environment, ForeignOpen, ForeignClose
<1>4. CASE EpollWait
  <2>1. batch' \subseteq Fds \cup {"listen", "pipe"} /\ ("pipe" \in batch' => pipe > 0)
    BY <1>4, EmptyAssumption DEF EpollWait, Live
  <2> QED
    BY <1>0, <1>4, <2>1 DEF EpollWait, Others, FlowInv
<1>5. CASE CheckTimeout
  BY <1>0, <1>5 DEF CheckTimeout, Others, FlowInv
<1>6. CASE NewConnection
  BY <1>0, <1>6 DEF NewConnection, Others, FlowInv
<1>7. CASE ReactorWrite
  <2>1. pipe' \in 0..PipeCap /\ pipe' > 0
    BY <1>0, <1>7, BoundAssumption DEF ReactorWrite, FlowInv
  <2> QED
    BY <1>0, <1>7, <2>1 DEF ReactorWrite, Others, FlowInv
<1>8. ASSUME NEW fd \in Fds, RecvStep(fd) PROVE FlowInv'
  BY <1>8, RecvFlow
<1>9. ASSUME queue # <<>>, CmdStep(Head(queue)) PROVE FlowInv'
  <2>1. PipeCmd(Head(queue))
    BY <1>9, Zenon DEF CmdStep, CmdDropped, CmdSend, CmdClose, CmdAuth, CmdCast
  <2>2. queue' \in Seq(Meant)
    BY <1>0, <1>9, <2>1, TailSeq DEF PipeCmd, FlowInv
  <2>3. pipe' \in 0..PipeCap
    BY <1>0, <2>1, BoundAssumption DEF PipeCmd, FlowInv
  <2> QED
    BY <1>0, <2>1, <2>2, <2>3 DEF PipeCmd, Others, FlowInv
<1>10. CASE UNCHANGED vars
  BY <1>0, <1>10, FlowSame DEF vars
<1> QED
  BY <1>1, <1>2, <1>3, <1>4, <1>5, <1>6, <1>7, <1>8, <1>9, <1>10 DEF Next, Reactor, Upper

-----------------------------------------------------------------------------
(* What goes out.                                                           *)

\* the connection that a current entry names
LEMMA CurrentConn ==
    ASSUME TableType, Numbered, NEW e \in Entry \cup {NoEntry}, Current(e)
    PROVE  At(e.fd) = e.tag /\ At(e.fd) \in Conns
  BY Zenon DEF TableType, Numbered, Current, At, Entry, Client

\* what sending to one connection writes
LEMMA SendWire ==
    ASSUME Inv, queue # <<>>,
           LET c == Head(queue) IN c.op \in {"send", "close"} /\ Current(Target(c)),
           UNCHANGED auths,
           NEW s \in {"all", "part", "none"},
           wire' = {[cmd |-> Head(queue), conn |-> At(Target(Head(queue)).fd), sent |-> s]}
    PROVE  WireType' /\ HitsItsConnection' /\ IdentityReachesOwner'
<1> DEFINE c == Head(queue)
           n == At(Target(c).fd)
<1>1. c \in Meant /\ c \in Command /\ Target(c) \in Entry \cup {NoEntry} /\ Target(c) # NoEntry
  BY HeadMeant DEF Meant, Current
<1>2. n = Target(c).tag /\ n \in Conns
  BY <1>1, CurrentConn DEF Inv, TableInv
<1>3. c.to # NoEntry => n = c.id
  BY <1>1, <1>2 DEF Meant, Target
<1>4. c.op = "send" /\ c.ident # NoId => <<n, c.ident>> \in auths
  <2> SUFFICES ASSUME c.op = "send", c.ident # NoId PROVE <<n, c.ident>> \in auths
    OBVIOUS
  <2>1. Target(c) = idmap[c.ident] /\ c.ident \in Identities
    BY <1>1 DEF Target, Command
  <2> HIDE DEF n, c
  <2> QED
    BY <1>1, <1>2, <2>1 DEF Inv, TableInv, EntryInv
<1>5. wire' = {[cmd |-> c, conn |-> n, sent |-> s]} /\ auths' = auths
  OBVIOUS
<1> HIDE DEF c, n
<1>6. \A w \in wire' : w.cmd = c /\ w.conn = n
  <2> DEFINE r == [cmd |-> c, conn |-> n, sent |-> s]
  <2>1. r.cmd = c /\ r.conn = n /\ wire' = {r}
    BY <1>5
  <2> HIDE DEF r
  <2> QED
    BY <2>1
<1>7. WireType'
  <2>1. [cmd |-> c, conn |-> n, sent |-> s] \in [cmd : Command, conn : Conns \cup {0}, sent : {"all", "part", "none"}]
    BY <1>1, <1>2
  <2> QED
    BY <1>5, <2>1, Zenon DEF WireType
<1> QED
  BY <1>3, <1>4, <1>5, <1>6, <1>7 DEF HitsItsConnection, IdentityReachesOwner

\* what sending to all connections writes
LEMMA CastWire ==
    ASSUME Inv, queue # <<>>, CmdCast(Head(queue))
    PROVE  WireType' /\ HitsItsConnection' /\ IdentityReachesOwner'
<1> DEFINE c == Head(queue)
<1>1. c \in Meant /\ c \in Command /\ c.op = "cast" /\ c.to = NoEntry
  BY HeadMeant DEF CmdCast, Meant
<1>2. \A fd \in Fds : At(fd) \in Conns \cup {0}
  BY DEF At, Inv, TableInv, TableType, Client
<1>3. ASSUME NEW w \in wire'
      PROVE  w \in [cmd : Command, conn : Conns \cup {0}, sent : {"all", "part", "none"}] /\ w.cmd = c
  <2> DEFINE all == {i \in Identities : idmap[i] # NoEntry}
  <2>1. PICK sent \in [all -> {"all", "part", "none"}] :
             wire' = {[cmd |-> c, conn |-> At(idmap[i].fd), sent |-> sent[i]] : i \in all}
    BY Zenon DEF CmdCast
  <2>2. PICK i \in all : w = [cmd |-> c, conn |-> At(idmap[i].fd), sent |-> sent[i]]
    BY <1>3, <2>1
  <2>3. idmap[i].fd \in Fds
    BY DEF Inv, TableInv, TableType, Entry
  <2> QED
    BY <1>1, <1>2, <2>2, <2>3
<1> HIDE DEF c
<1> QED
  BY <1>1, <1>3 DEF WireType, HitsItsConnection, IdentityReachesOwner

\* every step keeps what is said of the writes
LEMMA NextWire == Inv /\ [Next]_vars => WireType' /\ HitsItsConnection' /\ IdentityReachesOwner'
<1> SUFFICES ASSUME Inv, [Next]_vars PROVE WireType' /\ HitsItsConnection' /\ IdentityReachesOwner'
  OBVIOUS
<1> DEFINE Goal == WireType' /\ HitsItsConnection' /\ IdentityReachesOwner'
<1>1. wire' = {} => Goal
  BY DEF WireType, HitsItsConnection, IdentityReachesOwner
<1>2. ASSUME NEW t \in Threads, Upper(t) PROVE Goal
  BY <1>1, <1>2 DEF Upper, Issue, WriteByte
<1>3. ASSUME NEW fd \in Fds, Environment(fd) PROVE Goal
  BY <1>1, <1>3 DEF Environment, ForeignOpen, ForeignClose
<1>4. CASE EpollWait \/ CheckTimeout \/ NewConnection \/ ReactorWrite
  BY <1>1, <1>4 DEF EpollWait, CheckTimeout, NewConnection, ReactorWrite
<1>5. ASSUME NEW fd \in Fds, RecvStep(fd) PROVE Goal
  BY <1>1, <1>5 DEF RecvStep, RecvPart, RecvClose, RecvStale, RecvMessage, RecvHeartbeat
<1>6. ASSUME queue # <<>>, CmdStep(Head(queue)) PROVE Goal
  <2>1. CASE CmdDropped(Head(queue)) \/ CmdAuth(Head(queue))
    BY <1>1, <2>1, Zenon DEF CmdDropped, CmdAuth
  <2>2. CASE CmdSend(Head(queue))
    BY <1>6, <2>2, SendWire, Zenon DEF CmdSend
  <2>3. CASE CmdClose(Head(queue))
    BY <1>6, <2>3, SendWire DEF CmdClose
  <2>4. CASE CmdCast(Head(queue))
    BY <1>6, <2>4, CastWire
  <2> QED
    BY <1>6, <2>1, <2>2, <2>3, <2>4 DEF CmdStep
<1>7. CASE UNCHANGED vars
  BY <1>7 DEF vars, Inv, WireType, HitsItsConnection, IdentityReachesOwner
<1> QED
  BY <1>2, <1>3, <1>4, <1>5, <1>6, <1>7 DEF Next, Reactor

-----------------------------------------------------------------------------
(* The results.                                                             *)

(***************************************************************************)
(* The invariant of the table, the queue and what goes out holds whatever  *)
(* the reactor, the other threads and the peers do.                        *)
(***************************************************************************)
THEOREM Invariance == Spec => []Inv
<1>1. Inv /\ [Next]_vars => Inv'
  BY NextTable, NextFlow, NextWire DEF Inv
<1> QED
  BY <1>1, InitInv, PTL DEF Spec

\* the reactor's tables, queues and histories keep their types
THEOREM TypeCorrect == Spec => []TypeOK
  BY Invariance, InvType, PTL

(***************************************************************************)
(* A late reply or close never reaches the connection that took over the   *)
(* descriptor of the one it was meant for.                                 *)
(***************************************************************************)
THEOREM LateCommandsHarmless == Spec => []HitsItsConnection
<1>1. Inv => HitsItsConnection
  BY DEF Inv
<1> QED
  BY <1>1, Invariance, PTL

(***************************************************************************)
(* Data for an identity reach only connections that were authenticated     *)
(* under it, although the map may keep entries of closed connections.      *)
(***************************************************************************)
THEOREM IdentitySafe == Spec => []IdentityReachesOwner
<1>1. Inv => IdentityReachesOwner
  BY DEF Inv
<1> QED
  BY <1>1, Invariance, PTL

(***************************************************************************)
(* m_map_socket_ientity and the clients agree for as long as no connection *)
(* is authenticated under a second identity.                               *)
(***************************************************************************)
THEOREM MapAgrees == Spec => []MapExact
<1>1. Inv => MapExact
  BY DEF Inv, TableInv
<1> QED
  BY <1>1, Invariance, PTL

(***************************************************************************)
(* m_clientcount is never more than the number of open connections: each   *)
(* call of close_internal decrements it, also one without a client.        *)
(***************************************************************************)
THEOREM CountSafe == Spec => []CountNeverHigh
<1>1. Inv => CountNeverHigh
  BY DEF Inv, TableInv
<1> QED
  BY <1>1, Invariance, PTL

(***************************************************************************)
(* A broadcast goes to exactly the authenticated connections, as long as   *)
(* none was authenticated under two identities.                            *)
(***************************************************************************)
THEOREM CastSafe == Spec => CastExact
<1>1. ASSUME Inv, OneIdentityEach, queue # <<>>, CmdCast(Head(queue))
      PROVE  {w.conn : w \in wire'} = {client[fd].id : fd \in {f \in Fds : Authed(f)}}
  <2> DEFINE c   == Head(queue)
             all == {i \in Identities : idmap[i] # NoEntry}
  <2>1. PICK sent \in [all -> {"all", "part", "none"}] :
             wire' = {[cmd |-> c, conn |-> At(idmap[i].fd), sent |-> sent[i]] : i \in all}
    BY <1>1, Zenon DEF CmdCast
  <2>2. /\ \A w \in wire' : \E i \in all : w.conn = At(idmap[i].fd)
        /\ \A i \in all : \E w \in wire' : w.conn = At(idmap[i].fd)
    <3> DEFINE out(i) == [cmd |-> c, conn |-> At(idmap[i].fd), sent |-> sent[i]]
    <3>1. \A i : out(i).conn = At(idmap[i].fd)
      OBVIOUS
    <3>2. wire' = {out(i) : i \in all}
      BY <2>1
    <3> HIDE DEF out, all
    <3> QED
      BY <3>1, <3>2
  <2>3. \A i \in Identities :
          /\ \A fd \in Live : client[fd].ident = i => idmap[i] = [fd |-> fd, tag |-> client[fd].tag]
          /\ idmap[i] # NoEntry => Current(idmap[i]) /\ client[idmap[i].fd].ident = i
    BY <1>1 DEF Inv, TableInv, MapExact
  <2>4. ASSUME NEW i \in all
        PROVE  \E fd \in {f \in Fds : Authed(f)} : At(idmap[i].fd) = client[fd].id
    <3>1. idmap[i].fd \in Fds
      BY <1>1 DEF Inv, TableInv, TableType, Entry
    <3>2. client[idmap[i].fd] # NoClient /\ client[idmap[i].fd].ident = i /\ i # NoId
      BY <2>3, IdentityAssumption DEF Current
    <3> QED
      BY <3>1, <3>2 DEF Authed, At
  <2>5. ASSUME NEW fd \in {f \in Fds : Authed(f)}
        PROVE  \E i \in all : At(idmap[i].fd) = client[fd].id
    <3>1. client[fd] \in Client /\ client[fd] # NoClient /\ client[fd].ident # NoId
      BY <1>1 DEF Authed, Inv, TableInv, TableType
    <3>2. client[fd].ident \in Identities /\ fd \in Live
      BY <3>1 DEF Client, Live
    <3>3. idmap[client[fd].ident] = [fd |-> fd, tag |-> client[fd].tag]
      BY <2>3, <3>2
    <3>4. [fd |-> fd, tag |-> client[fd].tag] \in Entry
      BY <3>1 DEF Client, Entry
    <3>5. idmap[client[fd].ident] # NoEntry /\ idmap[client[fd].ident].fd = fd
      <4>1. [fd |-> fd, tag |-> client[fd].tag].fd = fd
        OBVIOUS
      <4> QED
        BY <3>3, <3>4, <4>1, EmptyAssumption, Zenon
    <3>6. client[fd].ident \in all /\ At(idmap[client[fd].ident].fd) = client[fd].id
      BY <3>1, <3>2, <3>5 DEF At
    <3> QED
      BY <3>6
  <2> HIDE DEF all
  <2>6. \A w \in wire' : \E fd \in {f \in Fds : Authed(f)} : w.conn = client[fd].id
    BY <2>2, <2>4
  <2>7. \A fd \in {f \in Fds : Authed(f)} : \E w \in wire' : w.conn = client[fd].id
    BY <2>2, <2>5
  <2> QED
    BY <2>6, <2>7
<1> QED
  BY <1>1, Invariance, PTL DEF Spec, CastExact

-----------------------------------------------------------------------------
(* Bytes and commands.                                                      *)

Writing == {t \in Threads : tpc[t] = "write"}

\* only finitely many threads are writing
LEMMA WritingFinite == IsFiniteSet(Writing) /\ Cardinality(Writing) \in Nat
<1>1. Writing \subseteq Threads
  BY DEF Writing
<1> QED
  BY <1>1, FiniteAssumption, FS_Subset, FS_CardinalityType

\* steps that leave queue, bytes and writers alone
LEMMA PairedSame ==
    Paired /\ UNCHANGED <<queue, pipe, tpc>> /\ (rpc = "write" <=> rpc' = "write") => Paired'
  BY DEF Paired

\* every step keeps the count of wake-ups
LEMMA NextPaired == Inv /\ Paired /\ [Next]_vars => Paired'
<1> SUFFICES ASSUME Inv, Paired, [Next]_vars PROVE Paired'
  OBVIOUS
<1> DEFINE W == Cardinality(Writing)
           R == IF rpc = "write" THEN 1 ELSE 0
<1>0. /\ queue \in Seq(Meant) /\ Len(queue) \in Nat /\ pipe \in Nat
      /\ W \in Nat /\ Len(queue) = pipe + W + R /\ tpc \in [Threads -> {"run", "write"}]
  BY WritingFinite, BoundAssumption DEF Inv, FlowInv, Paired, Writing
<1>1. ASSUME NEW t \in Threads, Issue(t) PROVE Paired'
  <2>1. PICK c \in Commands : queue' = Append(queue, c)
    BY <1>1 DEF Issue
  <2>2. Len(queue') = Len(queue) + 1
    BY <1>0, <2>1, CommandsMeant, AppendSeq DEF Inv, TableInv
  <2>3. Writing' = Writing \cup {t} /\ t \notin Writing
    BY <1>0, <1>1 DEF Issue, Writing
  <2>4. Cardinality(Writing') = W + 1
    BY <2>3, WritingFinite, FS_AddElement
  <2>5. pipe' = pipe /\ rpc' = rpc
    BY <1>1 DEF Issue
  <2> QED
    BY <1>0, <2>2, <2>4, <2>5 DEF Paired, Writing
<1>2. ASSUME NEW t \in Threads, WriteByte(t) PROVE Paired'
  <2>3. Writing' = Writing \ {t} /\ t \in Writing
    BY <1>0, <1>2 DEF WriteByte, Writing
  <2>4. Cardinality(Writing') = W - 1
    BY <2>3, WritingFinite, FS_RemoveElement
  <2>5. pipe' = pipe + 1 /\ rpc' = rpc /\ queue' = queue
    BY <1>2 DEF WriteByte
  <2> QED
    BY <1>0, <2>4, <2>5 DEF Paired, Writing
<1>3. ASSUME NEW fd \in Fds, Environment(fd) PROVE Paired'
  BY <1>3, PairedSame DEF Environment, ForeignOpen, ForeignClose
<1>4. CASE EpollWait \/ CheckTimeout \/ NewConnection
  BY <1>4, PairedSame DEF EpollWait, CheckTimeout, NewConnection, Others
<1>5. CASE ReactorWrite
  BY <1>0, <1>5 DEF ReactorWrite, Others, Paired, Writing
<1>6. ASSUME NEW fd \in Fds, RecvStep(fd) PROVE Paired'
  <2>1. CASE RecvPart(fd) \/ RecvClose(fd) \/ RecvStale(fd) \/ RecvMessage(fd)
    BY <2>1, PairedSame DEF RecvPart, RecvClose, RecvStale, RecvMessage, Others
  <2>2. CASE RecvHeartbeat(fd)
    <3>1. rpc = "events" /\ rpc' = "write" /\ pipe' = pipe /\ tpc' = tpc
      BY <2>2 DEF RecvHeartbeat, Recv
    <3>2. queue' = Append(queue, [op |-> "send", to |-> [fd |-> fd, tag |-> client[fd].tag],
                                  ident |-> NoId, id |-> client[fd].id])
      BY <2>2 DEF RecvHeartbeat
    <3>3. Len(queue') = Len(queue) + 1
      BY <1>0, <3>2
    <3> QED
      BY <1>0, <3>1, <3>3 DEF Paired, Writing
  <2> QED
    BY <1>6, <2>1, <2>2 DEF RecvStep
<1>7. ASSUME queue # <<>>, CmdStep(Head(queue)) PROVE Paired'
  <2>1. PipeCmd(Head(queue))
    BY <1>7, Zenon DEF CmdStep, CmdDropped, CmdSend, CmdClose, CmdAuth, CmdCast
  <2>2. Len(queue') = Len(queue) - 1
    BY <1>0, <1>7, <2>1, TailSeq DEF PipeCmd
  <2>3. pipe' = pipe - 1 /\ rpc' = rpc /\ tpc' = tpc
    BY <2>1 DEF PipeCmd, Others
  <2> QED
    BY <1>0, <2>2, <2>3 DEF Paired, Writing
<1>8. CASE UNCHANGED vars
  BY <1>8, PairedSame DEF vars
<1> QED
  BY <1>1, <1>2, <1>3, <1>4, <1>5, <1>6, <1>7, <1>8 DEF Next, Reactor, Upper

(***************************************************************************)
(* Commands and bytes stay paired for any number of threads: the read of a *)
(* byte finds a command, and no command is left without its byte.          *)
(***************************************************************************)
THEOREM PairedSafe == Spec => []Paired
<1>1. Init => Paired
  <2> SUFFICES ASSUME Init PROVE Paired
    OBVIOUS
  <2>1. {t \in Threads : tpc[t] = "write"} = {}
    BY DEF Init
  <2>2. Cardinality({t \in Threads : tpc[t] = "write"}) = 0
    BY <2>1, FS_EmptySet
  <2>3. Len(queue) = 0 /\ pipe = 0 /\ rpc # "write"
    BY DEF Init
  <2> QED
    BY <2>2, <2>3 DEF Paired
<1> QED
  BY <1>1, NextPaired, Invariance, PTL DEF Spec

=============================================================================
