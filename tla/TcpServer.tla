------------------------------ MODULE TcpServer ------------------------------
(***************************************************************************)
(* The reactor of notify_adapter_v2, main/tcpserver.cpp, with the callbacks *)
(* main/tcpservermanager.cpp gives it.  One thread serves an epoll set: it  *)
(* accepts connections, receives messages and executes the commands that    *)
(* the other threads put into a queue, one byte in a pipe for each.  A file *)
(* descriptor is reused as soon as it is closed; a command carries the tag  *)
(* of the connection it is meant for.                                       *)
(*                                                                          *)
(* The bytes of a message are the business of TcpFraming: here a readable   *)
(* socket yields a part of a message, a whole one, or a reason to close.    *)
(* The clock behind check_timeout is the business of IdleTimeout: here any  *)
(* connection may have been idle for too long.                              *)
(***************************************************************************)
EXTENDS Integers, Sequences, FiniteSets

CONSTANTS Fds,         \* file descriptors (model values)
          Identities,  \* socket identities (tokenids)
          NoId,        \* the empty identity
          NoClient,    \* NULL in m_array_epoll_data
          NoEntry,     \* identity not in m_map_socket_ientity
          Threads,     \* threads of the upper layers
          TagMod,      \* width of the counter in a tag: 2^32 in the code
          PipeCap,     \* capacity of the pipe
          Foreign,     \* do other parts of the process open and close descriptors?
          IdentityOf,  \* [connection -> identities the upper layers may give it]
          MaxConns,    \* bound: connections accepted
          MaxCmds      \* bound: commands issued

Conns == 1 .. MaxConns

ASSUME TagAssumption == TagMod \in Nat /\ MaxConns \in Nat /\ MaxConns < TagMod
ASSUME BoundAssumption == MaxCmds \in Nat /\ PipeCap \in Nat \ {0}
ASSUME IdentityAssumption == NoId \notin Identities /\ IdentityOf \in [Conns -> SUBSET Identities]

VARIABLES owner,       \* the process's descriptor table: what each fd is
          client,      \* m_array_epoll_data
          idmap,       \* m_map_socket_ientity
          clientcount, \* m_clientcount
          unify_id,    \* m_unify_id (and m_client_history_count: they grow together)
          queue,       \* m_queue_rtn
          pipe,        \* bytes in the pipe
          batch,       \* events of this epoll_wait still to be handled
          rpc,         \* the reactor's place in reactor_doit
          tpc,         \* the other threads' place in send_data, close_socket, ...
          known,       \* connections the upper layers were told of
          issued,      \* history: number of commands issued
          auths,       \* history: <<connection, identity>> of every executed AUTH_OK
          wire         \* history: what the last step sent, and to which connection

vars == <<owner, client, idmap, clientcount, unify_id, queue, pipe, batch, rpc, tpc,
          known, issued, auths, wire>>

table == <<owner, client, idmap, clientcount>>

(***************************************************************************)
(* A connection is numbered by the m_unify_id it was accepted with; `id'   *)
(* is that number, `tag' what get_unify_tag keeps of it.                   *)
(***************************************************************************)
Tag(n) == n % TagMod

Client == [id : Conns, tag : 0..(TagMod - 1), ident : Identities \cup {NoId}]

\* get_unify_tag has the fd in its upper half: an entry is the pair
Entry == [fd : Fds, tag : 0..(TagMod - 1)]

\* op, the entry it names, the identity it names, and the connection it is meant for
Command == [op : {"send", "close", "auth", "cast"}, to : Entry \cup {NoEntry},
            ident : Identities \cup {NoId}, id : Conns \cup {0}]

ASSUME EmptyAssumption ==
    NoClient \notin Client /\ NoEntry \notin Entry /\ "listen" \notin Fds /\ "pipe" \notin Fds
ASSUME FiniteAssumption == IsFiniteSet(Fds) /\ IsFiniteSet(Identities) /\ IsFiniteSet(Threads)

Live == {fd \in Fds : client[fd] # NoClient}

Authed(fd) == client[fd] # NoClient /\ client[fd].ident # NoId

Init == /\ owner = [fd \in Fds |-> "free"]
        /\ client = [fd \in Fds |-> NoClient]
        /\ idmap = [i \in Identities |-> NoEntry]
        /\ clientcount = 0 /\ unify_id = 0
        /\ queue = <<>> /\ pipe = 0
        /\ batch = {} /\ rpc = "wait"
        /\ tpc = [t \in Threads |-> "run"]
        /\ known = {} /\ issued = 0 /\ auths = {} /\ wire = {}

-----------------------------------------------------------------------------
(***************************************************************************)
(* close_internal, for the descriptors S closed by one handler in a row:   *)
(* each is closed whatever it is by now, its client is forgotten, and so   *)
(* is the identity of that client.  The count is decremented per call.     *)
(***************************************************************************)
ClientWithout(S) == [fd \in Fds |-> IF fd \in S THEN NoClient ELSE client[fd]]

OwnerWithout(S) == [fd \in Fds |-> IF fd \in S THEN "free" ELSE owner[fd]]

\* mutant: close_internal does not erase the identity
MapUnchanged(S) == idmap

MapWithout(S) ==
    [i \in Identities |->
        IF \E fd \in S \cap Live : client[fd].ident = i THEN NoEntry ELSE idmap[i]]

\* mutant: the count is not decremented
CloseUncounted(S, calls) ==
    /\ client' = ClientWithout(S)
    /\ owner' = OwnerWithout(S)
    /\ idmap' = MapWithout(S)
    /\ UNCHANGED clientcount

CloseInternal(S, calls) ==
    /\ client' = ClientWithout(S)
    /\ owner' = OwnerWithout(S)
    /\ idmap' = MapWithout(S)
    /\ clientcount' = clientcount - calls

\* what the reactor thread leaves alone while it handles an event
Others == UNCHANGED <<tpc, issued>>

-----------------------------------------------------------------------------
(* The threads of the upper layers: reply_data, reply_data_identity,        *)
(* reply_close, reply_auth_ok and boadcast of tcpservermanager.             *)

Commands ==
    (UNION { {[op |-> "send", to |-> [fd |-> k.fd, tag |-> k.tag], ident |-> NoId, id |-> k.id],
              [op |-> "close", to |-> [fd |-> k.fd, tag |-> k.tag], ident |-> NoId, id |-> k.id]} :
              k \in known })
    \cup (UNION { {[op |-> "auth", to |-> [fd |-> k.fd, tag |-> k.tag], ident |-> i, id |-> k.id] :
                   i \in IdentityOf[k.id]} : k \in known })
    \cup {[op |-> "send", to |-> NoEntry, ident |-> i, id |-> 0] : i \in Identities}
    \cup {[op |-> "cast", to |-> NoEntry, ident |-> NoId, id |-> 0]}

\* m_queue_rtn.add_queue
Issue(t) ==
    /\ tpc[t] = "run"
    /\ issued < MaxCmds
    /\ \E c \in Commands : queue' = Append(queue, c)
    /\ issued' = issued + 1
    /\ tpc' = [tpc EXCEPT ![t] = "write"]
    /\ wire' = {}
    /\ UNCHANGED <<table, unify_id, pipe, batch, rpc, known, auths>>

\* mutant: no byte when the pipe already holds one
WriteByteOnce(t) ==
    /\ tpc[t] = "write"
    /\ pipe < PipeCap
    /\ pipe' = IF pipe > 0 THEN pipe ELSE pipe + 1
    /\ tpc' = [tpc EXCEPT ![t] = "run"]
    /\ wire' = {}
    /\ UNCHANGED <<table, unify_id, queue, batch, rpc, known, issued, auths>>

\* write_byte_to_pipe: blocks while the pipe is full
WriteByte(t) ==
    /\ tpc[t] = "write"
    /\ pipe < PipeCap
    /\ pipe' = pipe + 1
    /\ tpc' = [tpc EXCEPT ![t] = "run"]
    /\ wire' = {}
    /\ UNCHANGED <<table, unify_id, queue, batch, rpc, known, issued, auths>>

\* the redis, http and zmq clients of the process use the same descriptor table
ForeignOpen(fd) ==
    /\ Foreign /\ owner[fd] = "free"
    /\ owner' = [owner EXCEPT ![fd] = "foreign"]
    /\ wire' = {}
    /\ UNCHANGED <<client, idmap, clientcount, unify_id, queue, pipe, batch, rpc, tpc,
                   known, issued, auths>>

ForeignClose(fd) ==
    /\ Foreign /\ owner[fd] = "foreign"
    /\ owner' = [owner EXCEPT ![fd] = "free"]
    /\ wire' = {}
    /\ UNCHANGED <<client, idmap, clientcount, unify_id, queue, pipe, batch, rpc, tpc,
                   known, issued, auths>>

-----------------------------------------------------------------------------
(* reactor_doit.                                                            *)

\* epoll_wait returns every ready descriptor; the order of the events is open
EpollWait ==
    /\ rpc = "wait"
    /\ \E ready \in SUBSET (Live \cup {"listen"}) :
           batch' = ready \cup (IF pipe > 0 THEN {"pipe"} ELSE {})
    /\ batch' # {}
    /\ rpc' = "events"
    /\ wire' = {}
    /\ Others
    /\ UNCHANGED <<table, unify_id, queue, pipe, known, auths>>

(***************************************************************************)
(* check_timeout, after a batch and when epoll_wait times out: the idle    *)
(* connections S are closed.  Any time may have passed since the last send *)
(* to a connection (IdleTimeout has the clock), so S is open here.         *)
(***************************************************************************)
CheckTimeout ==
    /\ \/ rpc = "events" /\ batch = {}
       \/ rpc = "wait" /\ pipe = 0
    /\ rpc' = "wait"
    /\ \E S \in SUBSET Live : CloseInternal(S, Cardinality(S))
    /\ wire' = {}
    /\ Others
    /\ UNCHANGED <<unify_id, queue, pipe, batch, known, auths>>

\* dealwith_new_connection
NewConnection ==
    /\ rpc = "events" /\ "listen" \in batch
    /\ batch' = batch \ {"listen"}
    /\ \/ \E fd \in Fds :
             /\ owner[fd] = "free"
             /\ unify_id < MaxConns
             /\ unify_id' = unify_id + 1
             /\ owner' = [owner EXCEPT ![fd] = "conn"]
             /\ client' = [client EXCEPT ![fd] = [id |-> unify_id', tag |-> Tag(unify_id'),
                                                  ident |-> NoId]]
             /\ clientcount' = clientcount + 1
             /\ UNCHANGED idmap
       \/ \* accept fails
          UNCHANGED <<table, unify_id>>
       \/ \* a later call fails: the descriptor stays open and unknown
          /\ \E fd \in Fds : owner[fd] = "free" /\ owner' = [owner EXCEPT ![fd] = "leaked"]
          /\ UNCHANGED <<client, idmap, clientcount, unify_id>>
    /\ wire' = {}
    /\ Others
    /\ UNCHANGED <<queue, pipe, rpc, known, auths>>

-----------------------------------------------------------------------------
(* dealwith_recv and data_notify_callback.                                  *)

Recv(fd) == rpc = "events" /\ fd \in batch /\ batch' = batch \ {fd}

\* nothing to read after all, or a part of a message
RecvPart(fd) ==
    /\ Recv(fd) /\ fd \in Live
    /\ wire' = {}
    /\ Others
    /\ UNCHANGED <<table, unify_id, queue, pipe, rpc, known, auths>>

\* end of file, an error, a bad header or body, or a message before its time
RecvClose(fd) ==
    /\ Recv(fd) /\ fd \in Live
    /\ CloseInternal({fd}, 1)
    /\ wire' = {}
    /\ Others
    /\ UNCHANGED <<unify_id, queue, pipe, rpc, known, auths>>

\* an event of this batch for a connection that was closed earlier in it
RecvStale(fd) ==
    /\ Recv(fd) /\ fd \notin Live
    /\ CloseInternal({fd}, 1)
    /\ wire' = {}
    /\ Others
    /\ UNCHANGED <<unify_id, queue, pipe, rpc, known, auths>>

\* a message for the upper layers: m_queue_adapter_cmd.add_queue
RecvMessage(fd) ==
    /\ Recv(fd) /\ fd \in Live
    /\ known' = known \cup {[fd |-> fd, tag |-> client[fd].tag, id |-> client[fd].id]}
    /\ wire' = {}
    /\ Others
    /\ UNCHANGED <<table, unify_id, queue, pipe, rpc, auths>>

\* mutant: the reply is queued without a byte for the pipe
RecvHeartbeatNoByte(fd) ==
    /\ Recv(fd) /\ fd \in Live /\ client[fd].ident # NoId
    /\ issued < MaxCmds
    /\ issued' = issued + 1
    /\ queue' = Append(queue, [op |-> "send", to |-> [fd |-> fd, tag |-> client[fd].tag],
                               ident |-> NoId, id |-> client[fd].id])
    /\ wire' = {}
    /\ UNCHANGED <<table, unify_id, pipe, rpc, tpc, known, auths>>

\* a heartbeat of an authenticated connection: the reactor itself queues the reply ...
RecvHeartbeat(fd) ==
    /\ Recv(fd) /\ fd \in Live /\ client[fd].ident # NoId
    /\ issued < MaxCmds
    /\ issued' = issued + 1
    /\ queue' = Append(queue, [op |-> "send", to |-> [fd |-> fd, tag |-> client[fd].tag],
                               ident |-> NoId, id |-> client[fd].id])
    /\ rpc' = "write"
    /\ wire' = {}
    /\ UNCHANGED <<table, unify_id, pipe, tpc, known, auths>>

\* ... writes the byte, which blocks while the pipe is full, and goes on
ReactorWrite ==
    /\ rpc = "write"
    /\ pipe < PipeCap
    /\ pipe' = pipe + 1
    /\ rpc' = "events"
    /\ wire' = {}
    /\ Others
    /\ UNCHANGED <<table, unify_id, queue, batch, known, auths>>

-----------------------------------------------------------------------------
(***************************************************************************)
(* dealwith_pipe_cmd: read a byte, fetch a command, execute it.  A byte    *)
(* without a command (line 337) does not occur: see Paired.                *)
(***************************************************************************)

\* mutant: the read takes two bytes from the pipe
PipeCmdTwoBytes(c) ==
    /\ rpc = "events" /\ "pipe" \in batch
    /\ batch' = batch \ {"pipe"}
    /\ pipe' = pipe - 2
    /\ queue # <<>> /\ c = Head(queue) /\ queue' = Tail(queue)
    /\ Others
    /\ UNCHANGED <<unify_id, rpc, known>>

PipeCmd(c) ==
    /\ rpc = "events" /\ "pipe" \in batch
    /\ batch' = batch \ {"pipe"}
    /\ pipe' = pipe - 1
    /\ queue # <<>> /\ c = Head(queue) /\ queue' = Tail(queue)
    /\ Others
    /\ UNCHANGED <<unify_id, rpc, known>>

\* the connection a command is for: by its own fd and tag, or by identity
Target(c) == IF c.op # "auth" /\ c.ident # NoId THEN idmap[c.ident] ELSE c.to

\* mutant: only the fd is compared
CurrentFd(e) == e # NoEntry /\ client[e.fd] # NoClient

\* fd and tag are compared with those of the client now at that fd
Current(e) == e # NoEntry /\ client[e.fd] # NoClient /\ client[e.fd].tag = e.tag

CmdDropped(c) ==
    /\ PipeCmd(c)
    /\ c.op # "cast" /\ ~Current(Target(c))
    /\ wire' = {}
    /\ UNCHANGED <<table, auths>>

\* the connection at a descriptor, 0 for what is not one of ours
At(fd) == IF client[fd] = NoClient THEN 0 ELSE client[fd].id

\* a failed send closes; a short one is only logged
SendDataInternal(fd, sent) ==
    IF sent = "none" THEN CloseInternal({fd}, 1) ELSE UNCHANGED table

CmdSend(c) ==
    /\ PipeCmd(c)
    /\ c.op = "send" /\ Current(Target(c))
    /\ LET fd == Target(c).fd
       IN  \E sent \in {"all", "part", "none"} :
             /\ SendDataInternal(fd, sent)
             /\ wire' = {[cmd |-> c, conn |-> At(fd), sent |-> sent]}
    /\ UNCHANGED auths

CmdClose(c) ==
    /\ PipeCmd(c)
    /\ c.op = "close" /\ Current(Target(c))
    /\ CloseInternal({Target(c).fd}, 1)
    /\ wire' = {[cmd |-> c, conn |-> At(Target(c).fd), sent |-> "none"]}
    /\ UNCHANGED auths

\* mutant: the connection that holds the identity is not closed
CmdAuthKeepOld(c) ==
    /\ PipeCmd(c)
    /\ c.op = "auth" /\ Current(c.to)
    /\ client' = [client EXCEPT ![c.to.fd].ident = c.ident]
    /\ idmap' = IF idmap[c.ident] = NoEntry THEN [idmap EXCEPT ![c.ident] = c.to] ELSE idmap
    /\ UNCHANGED <<owner, clientcount>>
    /\ auths' = auths \cup {<<client[c.to.fd].id, c.ident>>}
    /\ wire' = {}

(***************************************************************************)
(* PIPE_CMD_AUTH_OK.  An identity not yet in the map is inserted.  One     *)
(* that is there with the same fd is left alone; with another fd that      *)
(* connection is closed, and the insert takes effect if the close removed  *)
(* the old entry (map::insert never overwrites).                           *)
(***************************************************************************)
CmdAuth(c) ==
    /\ PipeCmd(c)
    /\ c.op = "auth" /\ Current(c.to)
    /\ LET old == idmap[c.ident]
           S   == IF old # NoEntry /\ old.fd # c.to.fd THEN {old.fd} ELSE {}
           m   == MapWithout(S)
       IN  /\ client' = [ClientWithout(S) EXCEPT ![c.to.fd].ident = c.ident]
           /\ owner' = OwnerWithout(S)
           /\ clientcount' = clientcount - Cardinality(S)
           /\ idmap' = IF m[c.ident] = NoEntry THEN [m EXCEPT ![c.ident] = c.to] ELSE m
    /\ auths' = auths \cup {<<client[c.to.fd].id, c.ident>>}
    /\ wire' = {}

(***************************************************************************)
(* boadcast_internal: send to the fd of every entry, without looking at    *)
(* the tag; then close those whose send failed or was short, once per      *)
(* entry.  A descriptor that is not open fails.                            *)
(***************************************************************************)
CmdCast(c) ==
    /\ PipeCmd(c)
    /\ c.op = "cast"
    /\ LET all == {i \in Identities : idmap[i] # NoEntry}
       IN  \E sent \in [all -> {"all", "part", "none"}] :
             LET failed == {i \in all : sent[i] # "all"}
             IN  /\ \A i \in all : owner[idmap[i].fd] = "free" => sent[i] = "none"
                 /\ CloseInternal({idmap[i].fd : i \in failed}, Cardinality(failed))
                 /\ wire' = {[cmd |-> c, conn |-> At(idmap[i].fd), sent |-> sent[i]] : i \in all}
    /\ UNCHANGED auths

-----------------------------------------------------------------------------
Upper(t) == Issue(t) \/ WriteByte(t)

Environment(fd) == ForeignOpen(fd) \/ ForeignClose(fd)

RecvStep(fd) == RecvPart(fd) \/ RecvClose(fd) \/ RecvStale(fd) \/ RecvMessage(fd) \/ RecvHeartbeat(fd)

CmdStep(c) == CmdDropped(c) \/ CmdSend(c) \/ CmdClose(c) \/ CmdAuth(c) \/ CmdCast(c)

Reactor == \/ EpollWait \/ CheckTimeout \/ NewConnection \/ ReactorWrite
           \/ (\E fd \in Fds : RecvStep(fd))
           \/ (queue # <<>> /\ CmdStep(Head(queue)))

Next == Reactor \/ (\E t \in Threads : Upper(t)) \/ (\E fd \in Fds : Environment(fd))

Spec == Init /\ [][Next]_vars

(***************************************************************************)
(* The reactor loops for ever and a thread inside write_byte_to_pipe goes  *)
(* on when there is room.  Nobody has to issue a command or to connect.    *)
(***************************************************************************)
FairSpec == Spec /\ WF_vars(Reactor) /\ \A t \in Threads : WF_vars(WriteByte(t))

-----------------------------------------------------------------------------
\* types of the variables
TypeOK ==
    /\ owner \in [Fds -> {"free", "conn", "foreign", "leaked"}]
    /\ client \in [Fds -> Client \cup {NoClient}]
    /\ idmap \in [Identities -> Entry \cup {NoEntry}]
    /\ clientcount \in Int
    /\ unify_id \in 0..MaxConns
    /\ queue \in Seq(Command)
    /\ pipe \in 0..PipeCap
    /\ batch \subseteq Fds \cup {"listen", "pipe"}
    /\ rpc \in {"wait", "events", "write"}
    /\ tpc \in [Threads -> {"run", "write"}]
    /\ known \subseteq [fd : Fds, tag : 0..(TagMod - 1), id : Conns]
    /\ issued \in 0..MaxCmds
    /\ auths \subseteq Conns \X Identities
    /\ wire \subseteq [cmd : Command, conn : Conns \cup {0}, sent : {"all", "part", "none"}]

(***************************************************************************)
(* Bytes and commands stay paired although add_queue and the write are two *)
(* steps of several threads, the reactor being one of them: a byte always  *)
(* finds a command, so "failed to fetch send/close cmd data from queue"    *)
(* is never logged, and no command is left without its byte.               *)
(***************************************************************************)
Paired ==
    Len(queue) = pipe + Cardinality({t \in Threads : tpc[t] = "write"})
                      + (IF rpc = "write" THEN 1 ELSE 0)

(***************************************************************************)
(* A late reply or close never reaches the connection that took over the   *)
(* descriptor: what a command for one connection does, it does to that one.*)
(***************************************************************************)
HitsItsConnection ==
    \A w \in wire : w.cmd.to # NoEntry => w.conn = w.cmd.id

(***************************************************************************)
(* Data sent to an identity reach only a connection that was authenticated *)
(* under it, whatever was closed, reused or logged in again meanwhile.     *)
(***************************************************************************)
IdentityReachesOwner ==
    \A w \in wire : w.cmd.op = "send" /\ w.cmd.ident # NoId => <<w.conn, w.cmd.ident>> \in auths

\* no connection was ever authenticated under two identities
OneIdentityEach == \A a, b \in auths : a[1] = b[1] => a[2] = b[2]

(***************************************************************************)
(* m_map_socket_ientity and the clients agree: an entry names a live       *)
(* connection with that tag and that identity, and every authenticated     *)
(* connection is found under its identity; so nobody is logged in twice.   *)
(* It holds until a connection is authenticated under a second identity.   *)
(***************************************************************************)
MapExact ==
    OneIdentityEach => \A i \in Identities :
        /\ \A fd \in Live : client[fd].ident = i => idmap[i] = [fd |-> fd, tag |-> client[fd].tag]
        /\ idmap[i] # NoEntry => Current(idmap[i]) /\ client[idmap[i].fd].ident = i

(***************************************************************************)
(* A broadcast goes to every connection that is authenticated at that      *)
(* moment and to nobody else, with the same proviso.                       *)
(***************************************************************************)
CastExact ==
    [][ OneIdentityEach /\ queue # <<>> /\ CmdCast(Head(queue)) =>
            {w.conn : w \in wire'} = {client[fd].id : fd \in {f \in Fds : Authed(f)}} ]_vars

(***************************************************************************)
(* get_current_conn never reports more than the connections that are open. *)
(***************************************************************************)
CountNeverHigh == clientcount <= Cardinality(Live)

(***************************************************************************)
(* "exist same sock_identity, and same fd, means same tcp link": an entry  *)
(* found with the fd of the connection just authenticated is its own.      *)
(***************************************************************************)
SameFdSameLink ==
    queue # <<>> /\ Head(queue).op = "auth" /\ Current(Head(queue).to) =>
        LET old == idmap[Head(queue).ident]
        IN  old # NoEntry /\ old.fd = Head(queue).to.fd => old = Head(queue).to

(***************************************************************************)
(* Every command is executed in the end, however many connections are      *)
(* readable at the same time.                                              *)
(***************************************************************************)
CommandsExecuted == \A n \in 1..MaxCmds : issued >= n ~> issued - Len(queue) >= n

=============================================================================
