----------------------------- MODULE Dispatcher -----------------------------
(***************************************************************************)
(* main/dispatcher.cpp of notify_adapter_v2 between its neighbours: the     *)
(* callbacks of tcpservermanager.cpp that feed it from the reactor thread,  *)
(* the thread pool that runs its tasks, redis, which holds the random keys, *)
(* the token service, the reactor's commands, and the zmq client.           *)
(*                                                                          *)
(* A client asks for a random key (getkey), authenticates with it (auth),   *)
(* and is known by its token from then on.  When its connection closes, an  *)
(* offline notice goes to the router; and also when a client sends a        *)
(* request with the path of the notice, although its connection stays open. *)
(*                                                                          *)
(* The queues here are first-in first-out and a command reaches the         *)
(* connection it names or nobody: ThreadPool and TcpServer show that, and   *)
(* when the map entry of a connection that changed its token misleads.      *)
(* A request's path is getkey, auth, heartbeat, offline, or another one,    *)
(* which makes it application data.                                         *)
(***************************************************************************)
EXTENDS Integers, Sequences, FiniteSets

CONSTANTS Conns,       \* connections
          Keys,        \* random keys
          Tokens,      \* tokenids
          NoKey, NoToken, NoJob, NoConn,
          Workers,     \* threads of m_thread_pool
          MaxMsgs,     \* bound: requests of clients and pushes of the app server
          MaxFaults    \* bound: failed sends of the zmq client

ASSUME EmptyAssumption == NoKey \notin Keys /\ NoToken \notin Tokens /\ NoConn \notin Conns
ASSUME BoundAssumption == MaxMsgs \in Nat /\ MaxFaults \in Nat
                          /\ IsFiniteSet(Workers) /\ IsFiniteSet(Conns)

VARIABLES open,        \* connections the reactor has a client for
          ident,       \* m_socket_identity; kept when the connection is closed
          holder,      \* m_map_socket_ientity
          queue_cmd,   \* m_queue_adapter_cmd
          tasks,       \* queue of m_thread_pool
          job, wpc,    \* a worker's request, and its place in it
          redis,       \* keys in redis
          expiring,    \* keys with an expiry time
          issued,      \* history: keys ever generated
          rtn,         \* the reactor's command queue
          queue_send, queue_ipc, ipc, spc, router, lost, faults,  \* the zmq client
          told,        \* history: answers the client of an open connection received
          uses,        \* history: how often a key was found valid
          kept,        \* history: keys whose removal failed
          msgs,        \* history: requests and pushes so far
          asked        \* history: how often a client sent the path offline itself

\* what is published: process_offline, process_heartbeat, and requests passed on
Notices == [path : {"offline", "heartbeat", "data"}, token : Tokens]

INSTANCE ZmqClient WITH Msgs <- Notices

reactor == <<open, ident, holder, told>>
cache == <<redis, expiring, issued, uses, kept>>
pool == <<job, wpc>>
zmq == <<queue_send, queue_ipc, ipc, spc, router, lost, faults>>
traffic == <<msgs, asked>>
vars == <<reactor, cache, pool, queue_cmd, tasks, rtn, traffic, zmq>>

\* STU_MSG_INFO: who asks for what, under which token, with which key
Request == [path : {"getkey", "auth", "heartbeat", "data", "offline"}, conn : Conns,
            token : Tokens \cup {NoToken}, key : Keys \cup {NoKey}]

Command == [op : {"send", "close", "auth", "push"}, conn : Conns \cup {NoConn},
            token : Tokens \cup {NoToken}, text : {"yes", "no", "other"}]

ASSUME JobAssumption == NoJob \notin Request

Cmd(op, c, t, text) == [op |-> op, conn |-> c, token |-> t, text |-> text]

Authed(c) == ident[c] # NoToken

Init == /\ open = Conns
        /\ ident = [c \in Conns |-> NoToken]
        /\ holder = [t \in Tokens |-> NoConn]
        /\ queue_cmd = <<>> /\ tasks = <<>> /\ rtn = <<>>
        /\ job = [w \in Workers |-> NoJob] /\ wpc = [w \in Workers |-> "idle"]
        /\ redis = {} /\ expiring = {} /\ issued = {}
        /\ told = [c \in Conns |-> {}]
        /\ uses = [k \in Keys |-> 0] /\ kept = {}
        /\ msgs = 0 /\ asked = [t \in Tokens |-> 0]
        /\ ZInit

-----------------------------------------------------------------------------
(* The reactor thread, with the callbacks of tcpservermanager.              *)

\* enum_sock_close: the offline notice of a connection that has a token
OfflineOf(c) ==
    IF Authed(c) THEN <<[path |-> "offline", conn |-> c, token |-> ident[c], key |-> NoKey]>>
    ELSE <<>>

\* the identity map after close_internal
HolderWithout(c) == [t \in Tokens |-> IF t = ident[c] THEN NoConn ELSE holder[t]]

\* mutant: enum_sock_close tells nobody
CloseSilently(c) ==
    /\ open' = open \ {c}
    /\ holder' = HolderWithout(c)
    /\ told' = [told EXCEPT ![c] = {}]
    /\ UNCHANGED queue_cmd

CloseInternal(c) ==
    /\ open' = open \ {c}
    /\ holder' = HolderWithout(c)
    /\ told' = [told EXCEPT ![c] = {}]
    /\ queue_cmd' = queue_cmd \o OfflineOf(c)

\* the peer leaves, is idle for too long, or sends what does not decode
PeerCloses(c) ==
    /\ c \in open
    /\ CloseInternal(c)
    /\ UNCHANGED <<ident, cache, pool, tasks, rtn, traffic, zmq>>

Receives(c) == c \in open /\ msgs < MaxMsgs /\ msgs' = msgs + 1

\* a request is handed on, under the token the connection has
HandOn(c, p, k) ==
    /\ queue_cmd' = Append(queue_cmd, [path |-> p, conn |-> c, token |-> ident[c], key |-> k])
    /\ asked' = [t \in Tokens |-> asked[t] + (IF p = "offline" /\ t = ident[c] THEN 1 ELSE 0)]

\* mutant: any request is handed on before authentication
RecvAny(c) ==
    /\ Receives(c)
    /\ \E p \in {"getkey", "auth", "data", "offline"}, k \in Keys \cup {NoKey} : HandOn(c, p, k)
    /\ UNCHANGED <<reactor, cache, pool, tasks, rtn, zmq>>

\* before authentication only auth and getkey are handed on, then every path
RecvRequest(c) ==
    /\ Receives(c)
    /\ \E p \in {"getkey", "auth", "data", "offline"}, k \in Keys \cup {NoKey} :
          /\ p \in {"data", "offline"} => Authed(c)
          /\ p # "auth" => k = NoKey
          /\ HandOn(c, p, k)
    /\ UNCHANGED <<reactor, cache, pool, tasks, rtn, zmq>>

\* anything else, or a badly signed auth, closes an unauthenticated connection
RecvRefused(c) ==
    /\ Receives(c) /\ ~Authed(c)
    /\ CloseInternal(c)
    /\ UNCHANGED <<ident, cache, pool, tasks, rtn, asked, zmq>>

\* a heartbeat is answered at once, and handed on
RecvHeartbeat(c) ==
    /\ Receives(c) /\ Authed(c)
    /\ rtn' = Append(rtn, Cmd("send", c, NoToken, "other"))
    /\ queue_cmd' = Append(queue_cmd, [path |-> "heartbeat", conn |-> c, token |-> ident[c],
                                       key |-> NoKey])
    /\ UNCHANGED <<reactor, cache, pool, tasks, asked, zmq>>

\* dealwith_pipe_cmd fetches the next command
PipeCmd(c) ==
    /\ rtn # <<>> /\ c = Head(rtn) /\ rtn' = Tail(rtn)
    /\ UNCHANGED <<cache, pool, tasks, traffic, zmq>>

\* the connection a command names, by number or by token
Target(c) == IF c.op = "push" THEN holder[c.token] ELSE c.conn

CmdDropped(c) ==
    /\ PipeCmd(c)
    /\ Target(c) \notin open
    /\ UNCHANGED <<reactor, queue_cmd>>

CmdSend(c) ==
    /\ PipeCmd(c)
    /\ c.op \in {"send", "push"} /\ Target(c) \in open
    /\ \/ /\ told' = [told EXCEPT ![Target(c)] = @ \cup ({c.text} \cap {"yes", "no"})]
          /\ UNCHANGED <<open, holder, queue_cmd>>
       \/ CloseInternal(Target(c))    \* the send fails
    /\ UNCHANGED ident

CmdClose(c) ==
    /\ PipeCmd(c)
    /\ c.op = "close" /\ c.conn \in open
    /\ CloseInternal(c.conn)
    /\ UNCHANGED ident

\* PIPE_CMD_AUTH_OK: another connection with this token is closed
CmdAuth(c) ==
    /\ PipeCmd(c)
    /\ c.op = "auth" /\ c.conn \in open
    /\ LET old   == holder[c.token]
           other == old \in open /\ old # c.conn
           left  == IF other THEN HolderWithout(old) ELSE holder
       IN  /\ open' = IF other THEN open \ {old} ELSE open
           /\ told' = IF other THEN [told EXCEPT ![old] = {}] ELSE told
           /\ queue_cmd' = IF other THEN queue_cmd \o OfflineOf(old) ELSE queue_cmd
           /\ holder' = IF left[c.token] = NoConn THEN [left EXCEPT ![c.token] = c.conn] ELSE left
    /\ ident' = [ident EXCEPT ![c.conn] = c.token]

-----------------------------------------------------------------------------
(* adapter_cmd_doit: requests become tasks; the rest is passed on.          *)

Dispatch ==
    /\ queue_cmd # <<>> /\ queue_cmd' = Tail(queue_cmd)
    /\ LET m == Head(queue_cmd)
       IN  \/ /\ m.path # "data"
              /\ tasks' = Append(tasks, m)
              /\ UNCHANGED zmq
           \/ /\ m.path = "data"
              /\ SendData([path |-> "data", token |-> m.token])
              /\ UNCHANGED tasks
    /\ UNCHANGED <<reactor, cache, pool, rtn, traffic>>

\* zmq_sub_recv_callback: the app server pushes data to a token of this adapter
SubRecv(t) ==
    /\ msgs < MaxMsgs /\ msgs' = msgs + 1
    /\ rtn' = Append(rtn, Cmd("push", NoConn, t, "other"))
    /\ UNCHANGED <<reactor, cache, pool, queue_cmd, tasks, asked, zmq>>

-----------------------------------------------------------------------------
(* The workers.  A call to redis, to the token service or into a queue is a *)
(* step of its own.                                                         *)

Goto(w, from, to) ==
    /\ wpc[w] = from
    /\ wpc' = [wpc EXCEPT ![w] = to]

Done(w, from) ==
    /\ Goto(w, from, "idle")
    /\ job' = [job EXCEPT ![w] = NoJob]

Start(m) == CASE m.path = "getkey" -> "set"
              [] m.path = "auth" -> IF m.key = NoKey THEN "refuse" ELSE "query"
              [] OTHER -> "publish"

\* mutant: the last task stays in the queue until another one follows
TakeTaskLate(w) ==
    /\ Len(tasks) > 1 /\ tasks' = Tail(tasks)
    /\ Goto(w, "idle", Start(Head(tasks)))
    /\ job' = [job EXCEPT ![w] = Head(tasks)]
    /\ UNCHANGED <<reactor, cache, queue_cmd, rtn, traffic, zmq>>

TakeTask(w) ==
    /\ tasks # <<>> /\ tasks' = Tail(tasks)
    /\ Goto(w, "idle", Start(Head(tasks)))
    /\ job' = [job EXCEPT ![w] = Head(tasks)]
    /\ UNCHANGED <<reactor, cache, queue_cmd, rtn, traffic, zmq>>

\* process_getkey: a key nobody has seen is generated and stored
SetKey(w) ==
    /\ \/ \E k \in Keys \ issued :
             /\ Goto(w, "set", "expire")
             /\ redis' = redis \cup {k} /\ issued' = issued \cup {k}
             /\ job' = [job EXCEPT ![w].key = k]
       \/ \* no client in the pool, or redis fails
          Goto(w, "set", "refuse") /\ UNCHANGED <<redis, issued, job>>
    /\ UNCHANGED <<reactor, expiring, uses, kept, queue_cmd, tasks, rtn, traffic, zmq>>

\* set_expire, whose result is ignored
SetExpire(w) ==
    /\ Goto(w, "expire", "reply")
    /\ expiring' \in {expiring, expiring \cup ({job[w].key} \cap redis)}
    /\ UNCHANGED <<reactor, redis, issued, uses, kept, job, queue_cmd, tasks, rtn, traffic, zmq>>

\* the expiry time of a key is over
KeyExpires(k) ==
    /\ k \in redis \cap expiring
    /\ redis' = redis \ {k} /\ expiring' = expiring \ {k}
    /\ UNCHANGED <<reactor, pool, issued, uses, kept, queue_cmd, tasks, rtn, traffic, zmq>>

\* query_randomkey_cache: without a client in the pool, or when redis fails, it is a no
QueryKey(w) ==
    /\ \/ /\ Goto(w, "query", "remove")
          /\ job[w].key \in redis
          /\ uses' = [uses EXCEPT ![job[w].key] = @ + 1]
       \/ Goto(w, "query", "refuse") /\ UNCHANGED uses
    /\ UNCHANGED <<reactor, redis, expiring, issued, kept, job, queue_cmd, tasks, rtn, traffic, zmq>>

\* mutant: the key is not removed
RemoveNothing(w) ==
    /\ Goto(w, "remove", "token")
    /\ UNCHANGED <<reactor, cache, job, queue_cmd, tasks, rtn, traffic, zmq>>

\* remove_randomkey_cache, whose result is ignored
RemoveKey(w) ==
    /\ Goto(w, "remove", "token")
    /\ \/ /\ redis' = redis \ {job[w].key} /\ expiring' = expiring \ {job[w].key}
          /\ UNCHANGED kept
       \/ kept' = kept \cup {job[w].key} /\ UNCHANGED <<redis, expiring>>
    /\ UNCHANGED <<reactor, issued, uses, job, queue_cmd, tasks, rtn, traffic, zmq>>

\* fetch_tokenid
FetchToken(w) ==
    /\ \/ /\ Goto(w, "token", "authok")
          /\ \E t \in Tokens : job' = [job EXCEPT ![w].token = t]
       \/ Goto(w, "token", "refuse") /\ UNCHANGED job
    /\ UNCHANGED <<reactor, cache, queue_cmd, tasks, rtn, traffic, zmq>>

\* mutant: the answer goes out without AUTH_OK before it
ReplyFirst(w) ==
    /\ Goto(w, "authok", "reply")
    /\ rtn' = Append(rtn, Cmd("send", job[w].conn, NoToken, "yes"))
    /\ UNCHANGED <<reactor, cache, job, queue_cmd, tasks, traffic, zmq>>

\* reply_auth_ok
AuthOk(w) ==
    /\ Goto(w, "authok", "reply")
    /\ rtn' = Append(rtn, Cmd("auth", job[w].conn, job[w].token, "other"))
    /\ UNCHANGED <<reactor, cache, job, queue_cmd, tasks, traffic, zmq>>

\* reply_data with the good news
Reply(w) ==
    /\ Done(w, "reply")
    /\ rtn' = Append(rtn, Cmd("send", job[w].conn, NoToken,
                              IF job[w].path = "auth" THEN "yes" ELSE "other"))
    /\ UNCHANGED <<reactor, cache, queue_cmd, tasks, traffic, zmq>>

\* reply_data with the bad news ...
Refuse(w) ==
    /\ Goto(w, "refuse", "close")
    /\ rtn' = Append(rtn, Cmd("send", job[w].conn, NoToken, "no"))
    /\ UNCHANGED <<reactor, cache, job, queue_cmd, tasks, traffic, zmq>>

\* mutant: no reply_close
RefuseOnly(w) ==
    /\ Done(w, "close")
    /\ UNCHANGED <<reactor, cache, rtn, queue_cmd, tasks, traffic, zmq>>

\* ... and reply_close
ReplyClose(w) ==
    /\ Done(w, "close")
    /\ rtn' = Append(rtn, Cmd("close", job[w].conn, NoToken, "other"))
    /\ UNCHANGED <<reactor, cache, queue_cmd, tasks, traffic, zmq>>

\* process_offline, process_heartbeat
Publish(w) ==
    /\ Done(w, "publish")
    /\ SendData([path |-> job[w].path, token |-> job[w].token])
    /\ UNCHANGED <<reactor, cache, queue_cmd, tasks, rtn, traffic>>

-----------------------------------------------------------------------------
ReactorCmd == rtn # <<>> /\ LET c == Head(rtn)
                            IN  CmdDropped(c) \/ CmdSend(c) \/ CmdClose(c) \/ CmdAuth(c)

Worker(w) == \/ TakeTask(w) \/ SetKey(w) \/ SetExpire(w) \/ QueryKey(w) \/ RemoveKey(w)
             \/ FetchToken(w) \/ AuthOk(w) \/ Reply(w) \/ Refuse(w) \/ ReplyClose(w) \/ Publish(w)

ZmqStep == ZNext /\ UNCHANGED <<reactor, cache, pool, queue_cmd, tasks, rtn, traffic>>

Environment == \/ \E c \in Conns : PeerCloses(c) \/ RecvRequest(c) \/ RecvRefused(c) \/ RecvHeartbeat(c)
               \/ \E k \in Keys : KeyExpires(k)
               \/ \E t \in Tokens : SubRecv(t)

Next == ReactorCmd \/ Dispatch \/ ZmqStep \/ (\E w \in Workers : Worker(w)) \/ Environment

Spec == Init /\ [][Next]_vars

(***************************************************************************)
(* The loops of the reactor, the dispatcher, the workers and the zmq       *)
(* client never end.  That the calls they make return is an assumption on  *)
(* redis and the token service: only connecting to redis has a timeout.    *)
(* No client has to do anything.                                           *)
(***************************************************************************)
FairSpec == /\ Spec /\ ZFairness
            /\ WF_vars(ReactorCmd) /\ WF_vars(Dispatch)
            /\ \A w \in Workers : WF_vars(Worker(w))

-----------------------------------------------------------------------------
\* types of the variables
TypeOK ==
    /\ open \subseteq Conns
    /\ ident \in [Conns -> Tokens \cup {NoToken}]
    /\ holder \in [Tokens -> Conns \cup {NoConn}]
    /\ queue_cmd \in Seq(Request) /\ tasks \in Seq(Request)
    /\ rtn \in Seq(Command)
    /\ job \in [Workers -> Request \cup {NoJob}]
    /\ wpc \in [Workers -> {"idle", "set", "expire", "query", "remove", "token", "authok",
                            "reply", "refuse", "close", "publish"}]
    /\ redis \subseteq Keys /\ expiring \subseteq Keys
    /\ issued \subseteq Keys /\ kept \subseteq Keys
    /\ told \in [Conns -> SUBSET {"yes", "no"}]
    /\ uses \in [Keys -> Nat]
    /\ msgs \in 0..MaxMsgs /\ asked \in [Tokens -> Nat]
    /\ ZTypeOK

(***************************************************************************)
(* A client that was told yes is authenticated in the reactor, although    *)
(* worker, queue and reactor lie between: process_auth queues AUTH_OK      *)
(* before the answer.  So its next request is not refused, and the         *)
(* connection not closed as unauthenticated.                               *)
(***************************************************************************)
ToldMeansAuthed == \A c \in open : "yes" \in told[c] => Authed(c)

\* workers that found k valid and have yet to remove it
Removing(k) == {w \in Workers : wpc[w] = "remove" /\ job[w].key = k}

(***************************************************************************)
(* A random key is looked up and removed in two requests, so it can be     *)
(* used more than once.  But while it is in redis only the authentications *)
(* about to remove it have used it, so never more than there are workers   *)
(* do, unless a removal fails; and none before it was generated.           *)
(***************************************************************************)
KeyUseBounded ==
    \A k \in Keys \ kept :
        /\ k \in redis => uses[k] <= Cardinality(Removing(k))
        /\ uses[k] <= Cardinality(Workers)
        /\ uses[k] > 0 => k \in issued

\* how many offline notices for a token the queue s of requests holds
Offlines(s, t) == Cardinality({i \in DOMAIN s : s[i].path = "offline" /\ s[i].token = t})

\* closed connections that had a token
Closed(t) == {c \in Conns \ open : ident[c] = t}

\* the notices there have to be: one for each of those, and one for each request
Due(t) == Cardinality(Closed(t)) + asked[t]

\* workers that have a notice in their hands
Holding(t) == {w \in Workers : job[w] # NoJob /\ job[w].path = "offline" /\ job[w].token = t}

\* notices on their way to the router, there, or lost at its socket
Published(t) ==
    Offlines(queue_send, t) + Offlines(queue_ipc, t) + Offlines(router, t) + Offlines(lost, t)

(***************************************************************************)
(* For every authenticated connection that was closed, by whomever, and    *)
(* for every offline request of a client, there is exactly one notice with *)
(* its token: in one of the queues between reactor and router, in the      *)
(* hands of a worker, with the router, or among the sends to it that       *)
(* failed.  None vanishes on the way or is sent twice, duplicate logins    *)
(* included.                                                               *)
(***************************************************************************)
OneOfflineEach ==
    \A t \in Tokens :
        Due(t) =
            Offlines(queue_cmd, t) + Offlines(tasks, t) + Cardinality(Holding(t)) + Published(t)

(***************************************************************************)
(* A wake-up of the zmq reactor finds a message in m_queue_ipc, also after *)
(* wake-ups were lost; each lost one leaves a message behind for good.     *)
(***************************************************************************)
WakeFindsMessage ==
    Len(queue_ipc) = ipc + faults + (IF spc = "send" THEN 1 ELSE 0)

(***************************************************************************)
(* Every notice gets there, or is one of those the zmq client loses: time  *)
(* and again no more messages are left on the way than sends on the ipc    *)
(* socket failed, and each token's notices are all with the router, among  *)
(* the messages left, or among the sends to the router that failed.        *)
(***************************************************************************)
OfflineReachesRouter ==
    []<>(/\ Len(queue_ipc) <= faults
         /\ \A t \in Tokens :
               Due(t) = Offlines(router, t) + Offlines(lost, t) + Offlines(queue_ipc, t))

(***************************************************************************)
(* A client that was told no is disconnected by the server, since          *)
(* reply_close follows the answer: time and again no such client is left.  *)
(***************************************************************************)
RefusedIsClosed == []<>(\A c \in open : "no" \notin told[c])

=============================================================================
