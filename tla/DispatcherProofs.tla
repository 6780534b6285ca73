-------------------------- MODULE DispatcherProofs --------------------------
(***************************************************************************)
(* Proofs about dispatcher.cpp and its neighbours, for any number of       *)
(* connections, keys, tokens, workers, requests and failed sends.          *)
(***************************************************************************)
EXTENDS Dispatcher, FiniteSetTheorems, TLAPS

\* a queue with one more message
LEMMA AppendSeq == \A S : \A q \in Seq(S), m \in S : Append(q, m) \in Seq(S) /\ Len(Append(q, m)) = Len(q) + 1
  OBVIOUS

\* a queue without its head
LEMMA TailSeq ==
    \A S : \A q \in Seq(S) : q # <<>> => Head(q) \in S /\ Tail(q) \in Seq(S) /\ Len(Tail(q)) = Len(q) - 1
  OBVIOUS

-----------------------------------------------------------------------------
\* requests as data_notify_callback queues them: what is published has a token
Sound == {m \in Request : m.path \in {"heartbeat", "data", "offline"} => m.token \in Tokens}

\* adapter_cmd_doit makes no tasks of data
Task == {m \in Sound : m.path # "data"}

\* commands as reply_data, reply_close, reply_auth_ok and the pushes queue them
Proper ==
    {c \in Command : /\ c.op # "push" => c.conn \in Conns
                     /\ c.op \in {"auth", "push"} => c.token \in Tokens
                     /\ c.op # "send" => c.text = "other"}

ReactorType ==
    /\ open \subseteq Conns
    /\ ident \in [Conns -> Tokens \cup {NoToken}]
    /\ holder \in [Tokens -> Conns \cup {NoConn}]
    /\ told \in [Conns -> SUBSET {"yes", "no"}]

QueueInv == /\ queue_cmd \in Seq(Sound) /\ tasks \in Seq(Task) /\ rtn \in Seq(Proper)
            /\ msgs \in 0..MaxMsgs /\ asked \in [Tokens -> Nat]

\* what a worker at a place of a request has in its hands
Fits(m, pc) ==
    /\ m \in Request
    /\ pc \in {"set", "expire"} => m.path = "getkey"
    /\ pc = "expire" => m.key \in Keys
    /\ pc \in {"query", "remove", "token", "authok"} => m.path = "auth"
    /\ pc \in {"query", "remove"} => m.key \in Keys
    /\ pc = "authok" => m.token \in Tokens
    /\ pc \in {"reply", "refuse", "close"} => m.path \in {"getkey", "auth"}
    /\ pc = "publish" => m.path \in {"heartbeat", "offline"} /\ m.token \in Tokens

Places == {"idle", "set", "expire", "query", "remove", "token", "authok",
           "reply", "refuse", "close", "publish"}

JobInv ==
    /\ job \in [Workers -> Request \cup {NoJob}] /\ wpc \in [Workers -> Places]
    /\ \A w \in Workers : IF wpc[w] = "idle" THEN job[w] = NoJob ELSE Fits(job[w], wpc[w])

CacheType == /\ redis \subseteq issued /\ issued \subseteq Keys
             /\ expiring \subseteq Keys /\ kept \subseteq Keys
             /\ uses \in [Keys -> Nat]

Types == ReactorType /\ QueueInv /\ JobInv /\ CacheType /\ ZTypeOK

\* the types of the parts are the types of the whole
LEMMA TypesOK == Types => TypeOK
<1> SUFFICES ASSUME Types PROVE TypeOK
  OBVIOUS
<1>1. Sound \subseteq Request /\ Task \subseteq Request /\ Proper \subseteq Command
  BY DEF Sound, Task, Proper
<1>2. queue_cmd \in Seq(Request) /\ tasks \in Seq(Request) /\ rtn \in Seq(Command)
  BY <1>1 DEF Types, QueueInv
<1>3. redis \subseteq Keys
  BY DEF Types, CacheType
<1> QED
  BY <1>2, <1>3 DEF Types, ReactorType, QueueInv, JobInv, CacheType, Places, TypeOK

\* the types hold initially
LEMMA InitTypes == Init => Types
<1> SUFFICES ASSUME Init PROVE Types
  OBVIOUS
<1>1. ReactorType
  BY DEF Init, ReactorType
<1>2. QueueInv
  BY BoundAssumption DEF Init, QueueInv
<1>3. JobInv
  BY DEF Init, JobInv, Places
<1>4. CacheType
  BY DEF Init, CacheType
<1>5. ZTypeOK
  BY BoundAssumption DEF Init, ZInit, ZTypeOK
<1> QED
  BY <1>1, <1>2, <1>3, <1>4, <1>5 DEF Types

-----------------------------------------------------------------------------
(* The types, one group of variables after the other.                       *)

\* close_internal of an open connection
LEMMA ClosesReactor ==
    ASSUME ReactorType, queue_cmd \in Seq(Sound), NEW c \in Conns, CloseInternal(c), UNCHANGED ident
    PROVE  ReactorType' /\ queue_cmd' \in Seq(Sound)
<1>1. ReactorType'
  BY DEF CloseInternal, ReactorType, HolderWithout
<1>2. OfflineOf(c) \in Seq(Sound)
  <2>1. CASE Authed(c)
    <3>1. [path |-> "offline", conn |-> c, token |-> ident[c], key |-> NoKey] \in Sound
      BY <2>1 DEF Authed, ReactorType, Sound, Request
    <3> QED
      BY <2>1, <3>1 DEF OfflineOf
  <2>2. CASE ~Authed(c)
    BY <2>2 DEF OfflineOf
  <2> QED
    BY <2>1, <2>2
<1>3. queue_cmd' \in Seq(Sound)
  BY <1>2 DEF CloseInternal
<1> QED
  BY <1>1, <1>3

\* the commands change the reactor's variables and the queues
LEMMA CmdTypes ==
    ASSUME Types, ReactorCmd
    PROVE  ReactorType' /\ QueueInv'
<1> DEFINE c == Head(rtn)
<1>1. ReactorType /\ QueueInv /\ rtn # <<>> /\ c \in Proper /\ PipeCmd(c)
  BY TailSeq, Zenon DEF Types, QueueInv, ReactorCmd, CmdDropped, CmdSend, CmdClose, CmdAuth
<1>2. /\ rtn' \in Seq(Proper) /\ tasks' \in Seq(Task)
      /\ msgs' \in 0..MaxMsgs /\ asked' \in [Tokens -> Nat]
  BY <1>1, TailSeq DEF QueueInv, PipeCmd, traffic
<1>3. CASE CmdDropped(c)
  BY <1>1, <1>2, <1>3 DEF CmdDropped, reactor, ReactorType, QueueInv
<1>4. CASE CmdSend(c)
  <2>1. Target(c) \in Conns /\ UNCHANGED ident
    BY <1>1, <1>4 DEF CmdSend, ReactorType
  <2>2. CASE CloseInternal(Target(c))
    BY <1>1, <1>2, <2>1, <2>2, ClosesReactor DEF QueueInv
  <2>3. CASE /\ told' = [told EXCEPT ![Target(c)] = @ \cup ({c.text} \cap {"yes", "no"})]
             /\ UNCHANGED <<open, holder, queue_cmd>>
    BY <1>1, <1>2, <2>1, <2>3 DEF ReactorType, QueueInv
  <2> QED
    BY <1>4, <2>2, <2>3 DEF CmdSend
<1>5. CASE CmdClose(c)
  BY <1>1, <1>2, <1>5, ClosesReactor DEF CmdClose, ReactorType, QueueInv
<1>6. CASE CmdAuth(c)
  <2>1. c.conn \in Conns /\ c.token \in Tokens
    BY <1>1, <1>6 DEF CmdAuth, Proper
  <2> DEFINE old   == holder[c.token]
             other == old \in open /\ old # c.conn
             left  == IF other THEN HolderWithout(old) ELSE holder
  <2>2. left \in [Tokens -> Conns \cup {NoConn}]
    BY <1>1 DEF HolderWithout, ReactorType
  <2>3. holder' = IF left[c.token] = NoConn THEN [left EXCEPT ![c.token] = c.conn] ELSE left
    BY <1>6 DEF CmdAuth
  <2>4. holder' \in [Tokens -> Conns \cup {NoConn}]
    <3> HIDE DEF left
    <3> QED
      BY <2>1, <2>2, <2>3
  <2>5. ident' \in [Conns -> Tokens \cup {NoToken}]
    BY <1>1, <1>6, <2>1 DEF CmdAuth, ReactorType
  <2>6. open' \subseteq Conns /\ told' \in [Conns -> SUBSET {"yes", "no"}]
    BY <1>1, <1>6 DEF CmdAuth, ReactorType
  <2>7. queue_cmd' \in Seq(Sound)
    <3>1. CASE ~other
      BY <1>1, <1>6, <3>1 DEF CmdAuth, QueueInv
    <3>2. CASE other /\ ~Authed(old)
      BY <1>1, <1>6, <3>2 DEF CmdAuth, QueueInv, OfflineOf
    <3>3. CASE other /\ Authed(old)
      <4>1. [path |-> "offline", conn |-> old, token |-> ident[old], key |-> NoKey] \in Sound
        BY <1>1, <3>3 DEF Authed, ReactorType, Sound, Request
      <4>2. OfflineOf(old) \in Seq(Sound)
        BY <3>3, <4>1 DEF OfflineOf
      <4> QED
        BY <1>1, <1>6, <3>3, <4>2 DEF CmdAuth, QueueInv
    <3> QED
      BY <3>1, <3>2, <3>3
  <2> QED
    BY <1>2, <2>4, <2>5, <2>6, <2>7 DEF ReactorType, QueueInv
<1> QED
  BY <1>3, <1>4, <1>5, <1>6 DEF ReactorCmd

\* so do the peers and the app server
LEMMA EnvTypes ==
    ASSUME Types, Environment
    PROVE  ReactorType' /\ QueueInv'
<1>1. ReactorType /\ QueueInv
  BY DEF Types
<1>2. ASSUME NEW c \in Conns, PeerCloses(c) PROVE ReactorType' /\ QueueInv'
  BY <1>1, <1>2, ClosesReactor DEF PeerCloses, QueueInv, traffic
<1>3. ASSUME NEW c \in Conns, RecvRefused(c) PROVE ReactorType' /\ QueueInv'
  BY <1>1, <1>3, ClosesReactor, BoundAssumption DEF RecvRefused, Receives, QueueInv
<1>4. ASSUME NEW c \in Conns, RecvRequest(c) PROVE ReactorType' /\ QueueInv'
  <2>1. PICK p \in {"getkey", "auth", "data", "offline"}, k \in Keys \cup {NoKey} :
            (p \in {"data", "offline"} => Authed(c)) /\ HandOn(c, p, k)
    BY <1>4, Zenon DEF RecvRequest
  <2>2. [path |-> p, conn |-> c, token |-> ident[c], key |-> k] \in Sound
    BY <1>1, <2>1 DEF Authed, ReactorType, Sound, Request
  <2>3. queue_cmd' \in Seq(Sound)
    BY <1>1, <2>1, <2>2, AppendSeq DEF HandOn, QueueInv
  <2>4. asked' \in [Tokens -> Nat]
    BY <1>1, <2>1 DEF HandOn, QueueInv
  <2> QED
    BY <1>1, <1>4, <2>3, <2>4, BoundAssumption DEF RecvRequest, Receives, reactor, ReactorType, QueueInv
<1>5. ASSUME NEW c \in Conns, RecvHeartbeat(c) PROVE ReactorType' /\ QueueInv'
  <2>1. /\ [path |-> "heartbeat", conn |-> c, token |-> ident[c], key |-> NoKey] \in Sound
        /\ Cmd("send", c, NoToken, "other") \in Proper
    BY <1>1, <1>5 DEF RecvHeartbeat, Authed, ReactorType, Sound, Request, Cmd, Proper, Command
  <2>2. queue_cmd' \in Seq(Sound) /\ rtn' \in Seq(Proper)
    BY <1>1, <1>5, <2>1, AppendSeq DEF RecvHeartbeat, QueueInv
  <2> QED
    BY <1>1, <1>5, <2>2, BoundAssumption DEF RecvHeartbeat, Receives, reactor, ReactorType, QueueInv
<1>6. ASSUME NEW k \in Keys, KeyExpires(k) PROVE ReactorType' /\ QueueInv'
  BY <1>1, <1>6 DEF KeyExpires, reactor, ReactorType, QueueInv, traffic
<1>7. ASSUME NEW t \in Tokens, SubRecv(t) PROVE ReactorType' /\ QueueInv'
  <2>1. Cmd("push", NoConn, t, "other") \in Proper
    BY DEF Cmd, Proper, Command
  <2>2. rtn' \in Seq(Proper)
    BY <1>1, <1>7, <2>1, AppendSeq DEF SubRecv, QueueInv
  <2> QED
    BY <1>1, <1>7, <2>2, BoundAssumption DEF SubRecv, reactor, ReactorType, QueueInv
<1> QED
  BY <1>2, <1>3, <1>4, <1>5, <1>6, <1>7 DEF Environment

\* a worker moves on
LEMMA GotoJob ==
    ASSUME JobInv, NEW w \in Workers, NEW from, NEW to \in Places, Goto(w, from, to),
           job' = job \/ \E m \in Request \cup {NoJob} : job' = [job EXCEPT ![w] = m],
           IF to = "idle" THEN job'[w] = NoJob ELSE Fits(job'[w], to)
    PROVE  JobInv'
<1>1. wpc' = [wpc EXCEPT ![w] = to]
  BY DEF Goto
<1>2. \A v \in Workers : v # w => wpc'[v] = wpc[v] /\ job'[v] = job[v]
  BY <1>1 DEF JobInv
<1>3. wpc'[w] = to
  BY <1>1 DEF JobInv
<1>4. job' \in [Workers -> Request \cup {NoJob}] /\ wpc' \in [Workers -> Places]
  BY <1>1 DEF JobInv
<1> QED
  BY <1>2, <1>3, <1>4 DEF JobInv

\* the same for a worker that is through
LEMMA DoneJob ==
    ASSUME JobInv, NEW w \in Workers, NEW from, Done(w, from)
    PROVE  JobInv'
<1>1. Goto(w, from, "idle") /\ job' = [job EXCEPT ![w] = NoJob] /\ "idle" \in Places /\ job'[w] = NoJob
  BY DEF Done, Places, JobInv
<1> QED
  BY <1>1, GotoJob, Zenon

\* a step that leaves the reactor alone keeps its types
LEMMA ReactorSame == ReactorType /\ UNCHANGED reactor => ReactorType'
  BY DEF reactor, ReactorType

\* a step that leaves the cache alone keeps its types
LEMMA CacheSame == CacheType /\ UNCHANGED cache => CacheType'
  BY DEF cache, CacheType

\* a step that leaves the sockets alone keeps their types
LEMMA ZmqSame == ZTypeOK /\ UNCHANGED zmq => ZTypeOK'
  BY DEF zmq, ZTypeOK

\* a command of a worker that serves a request
LEMMA ReplyQueue ==
    ASSUME QueueInv, NEW c \in Proper, rtn' = Append(rtn, c), UNCHANGED <<queue_cmd, tasks, traffic>>
    PROVE  QueueInv'
  BY AppendSeq DEF QueueInv, traffic

\* send_data keeps the types of the reactor
LEMMA SendDataType ==
    ASSUME ZTypeOK, NEW n \in Notices, SendData(n)
    PROVE  ZTypeOK'
  BY AppendSeq DEF SendData, ZTypeOK

\* steps that serve getkey and auth up to the answer
LEMMA AskTypes ==
    ASSUME Types, NEW w \in Workers,
           TakeTask(w) \/ SetKey(w) \/ SetExpire(w) \/ QueryKey(w) \/ RemoveKey(w) \/ FetchToken(w)
    PROVE  Types'
<1>0. ReactorType /\ QueueInv /\ JobInv /\ CacheType /\ ZTypeOK
  BY DEF Types
<1>1. ReactorType' /\ ZTypeOK'
  <2>1. UNCHANGED reactor /\ UNCHANGED zmq
    BY DEF TakeTask, SetKey, SetExpire, QueryKey, RemoveKey, FetchToken
  <2> QED
    BY <1>0, <2>1, ReactorSame, ZmqSame
<1>2. CASE TakeTask(w)
  <2> DEFINE m == Head(tasks)
  <2>1. m \in Task /\ tasks' \in Seq(Task)
    BY <1>0, <1>2, TailSeq DEF TakeTask, QueueInv
  <2>2. m \in Request /\ job' = [job EXCEPT ![w] = m] /\ job'[w] = m
    BY <1>0, <1>2, <2>1 DEF TakeTask, Task, Sound, JobInv
  <2>3. Start(m) \in Places /\ Start(m) # "idle" /\ Fits(m, Start(m))
    BY <2>1 DEF Task, Sound, Request, Start, Fits, Places
  <2>4. JobInv'
    BY <1>0, <1>2, <2>2, <2>3, GotoJob, Zenon DEF TakeTask
  <2>5. QueueInv' /\ CacheType'
    BY <1>0, <1>2, <2>1, CacheSame DEF TakeTask, QueueInv, traffic
  <2> QED
    BY <1>1, <2>4, <2>5 DEF Types
<1>3. CASE ~TakeTask(w)
  <2>1. QueueInv'
    BY <1>0, <1>3 DEF SetKey, SetExpire, QueryKey, RemoveKey, FetchToken, QueueInv, traffic
  <2>2. CASE SetKey(w)
    <3>1. CASE Goto(w, "set", "refuse") /\ UNCHANGED <<redis, issued, job>>
      <4>1. JobInv'
        <5>1. Fits(job[w], "set")
          BY <1>0, <3>1 DEF Goto, JobInv
        <5>2. Fits(job'[w], "refuse") /\ "refuse" \in Places
          BY <3>1, <5>1 DEF Fits, Places
        <5> QED
          BY <1>0, <3>1, <5>2, GotoJob
      <4> QED
        BY <1>0, <1>1, <2>1, <2>2, <3>1, <4>1 DEF SetKey, CacheType, Types
    <3>2. CASE \E k \in Keys \ issued :
                 /\ Goto(w, "set", "expire")
                 /\ redis' = redis \cup {k} /\ issued' = issued \cup {k}
                 /\ job' = [job EXCEPT ![w].key = k]
      <4>1. PICK k \in Keys \ issued :
                 /\ Goto(w, "set", "expire")
                 /\ redis' = redis \cup {k} /\ issued' = issued \cup {k}
                 /\ job' = [job EXCEPT ![w].key = k]
        BY <3>2, Zenon
      <4>2. Fits(job[w], "set")
        BY <1>0, <4>1 DEF Goto, JobInv
      <4> DEFINE m == [job[w] EXCEPT !.key = k]
      <4>3. m \in Request /\ Fits(m, "expire") /\ "expire" \in Places
        BY <4>2 DEF Fits, Request, Places
      <4>4. job' = [job EXCEPT ![w] = m] /\ job'[w] = m
        BY <1>0, <4>1 DEF JobInv
      <4>5. JobInv'
        <5> HIDE DEF m
        <5> QED
          BY <1>0, <4>1, <4>3, <4>4, GotoJob, Zenon
      <4> QED
        BY <1>0, <1>1, <2>1, <2>2, <4>1, <4>5 DEF SetKey, CacheType, Types
    <3> QED
      BY <2>2, <3>1, <3>2 DEF SetKey
  <2>3. CASE SetExpire(w)
    <3>1. Fits(job[w], "expire")
      BY <1>0, <2>3 DEF SetExpire, Goto, JobInv
    <3>2. Fits(job'[w], "reply") /\ "reply" \in Places
      BY <2>3, <3>1 DEF SetExpire, Fits, Places
    <3>3. JobInv'
      BY <1>0, <2>3, <3>2, GotoJob DEF SetExpire
    <3>4. CacheType'
      BY <1>0, <2>3, <3>1 DEF SetExpire, CacheType, Fits
    <3> QED
      BY <1>1, <2>1, <3>3, <3>4 DEF Types
  <2>4. CASE QueryKey(w)
    <3>1. Fits(job[w], "query") /\ UNCHANGED job
      BY <1>0, <2>4 DEF QueryKey, Goto, JobInv
    <3>2. /\ Fits(job'[w], "remove") /\ Fits(job'[w], "refuse")
          /\ "remove" \in Places /\ "refuse" \in Places
      BY <3>1 DEF Fits, Places
    <3>3. JobInv'
      BY <1>0, <2>4, <3>1, <3>2, GotoJob DEF QueryKey
    <3>4. CacheType'
      <4>1. job[w].key \in Keys
        BY <3>1 DEF Fits
      <4>2. uses \in [Keys -> Nat]
        BY <1>0 DEF CacheType
      <4>3. uses' \in [Keys -> Nat]
        BY <2>4, <4>1, <4>2 DEF QueryKey
      <4> QED
        BY <1>0, <2>4, <4>3 DEF QueryKey, CacheType
    <3> QED
      BY <1>1, <2>1, <3>3, <3>4 DEF Types
  <2>5. CASE RemoveKey(w)
    <3>1. Fits(job[w], "remove") /\ UNCHANGED job
      BY <1>0, <2>5 DEF RemoveKey, Goto, JobInv
    <3>2. Fits(job'[w], "token") /\ "token" \in Places
      BY <3>1 DEF Fits, Places
    <3>3. JobInv'
      BY <1>0, <2>5, <3>1, <3>2, GotoJob DEF RemoveKey
    <3>4. CacheType'
      BY <1>0, <2>5, <3>1 DEF RemoveKey, CacheType, Fits
    <3> QED
      BY <1>1, <2>1, <3>3, <3>4 DEF Types
  <2>6. CASE FetchToken(w)
    <3>1. Fits(job[w], "token") /\ "authok" \in Places /\ "refuse" \in Places
      BY <1>0, <2>6 DEF FetchToken, Goto, JobInv, Places
    <3>2. CASE Goto(w, "token", "refuse") /\ UNCHANGED job
      <4>1. Fits(job'[w], "refuse")
        BY <3>1, <3>2 DEF Fits
      <4> QED
        BY <1>0, <1>1, <2>1, <2>6, <3>1, <3>2, <4>1, GotoJob, CacheSame DEF FetchToken, Types
    <3>3. CASE Goto(w, "token", "authok") /\ \E t \in Tokens : job' = [job EXCEPT ![w].token = t]
      <4>1. PICK t \in Tokens : job' = [job EXCEPT ![w].token = t]
        BY <3>3, Zenon
      <4> DEFINE m == [job[w] EXCEPT !.token = t]
      <4>2. m \in Request /\ Fits(m, "authok")
        BY <3>1 DEF Fits, Request
      <4>3. job' = [job EXCEPT ![w] = m] /\ job'[w] = m
        BY <1>0, <4>1 DEF JobInv
      <4> HIDE DEF m
      <4>4. JobInv'
        BY <1>0, <3>1, <3>3, <4>2, <4>3, GotoJob, Zenon
      <4> QED
        BY <1>0, <1>1, <2>1, <2>6, <4>4, CacheSame DEF FetchToken, Types
    <3> QED
      BY <2>6, <3>2, <3>3 DEF FetchToken
  <2> QED
    BY <1>3, <2>2, <2>3, <2>4, <2>5, <2>6
<1> QED
  BY <1>2, <1>3

\* the answers
LEMMA AnswerTypes ==
    ASSUME Types, NEW w \in Workers, AuthOk(w) \/ Reply(w) \/ Refuse(w) \/ ReplyClose(w) \/ Publish(w)
    PROVE  Types'
<1>0. ReactorType /\ QueueInv /\ JobInv /\ CacheType /\ ZTypeOK
  BY DEF Types
<1>1. ReactorType' /\ CacheType'
  <2>1. UNCHANGED reactor /\ UNCHANGED cache
    BY DEF AuthOk, Reply, Refuse, ReplyClose, Publish
  <2> QED
    BY <1>0, <2>1, ReactorSame, CacheSame
<1>2. wpc[w] # "idle" /\ Fits(job[w], wpc[w]) /\ job[w].conn \in Conns
  BY <1>0 DEF AuthOk, Reply, Refuse, ReplyClose, Publish, Done, Goto, JobInv, Fits, Request
<1>3. CASE AuthOk(w)
  <2>1. Cmd("auth", job[w].conn, job[w].token, "other") \in Proper
    BY <1>2, <1>3 DEF AuthOk, Goto, Fits, Cmd, Proper, Command
  <2>2. Fits(job'[w], "reply") /\ "reply" \in Places
    BY <1>2, <1>3 DEF AuthOk, Goto, Fits, Places
  <2> QED
    BY <1>0, <1>1, <1>3, <2>1, <2>2, ReplyQueue, GotoJob, ZmqSame DEF AuthOk, Types
<1>4. CASE Reply(w)
  <2>1. Cmd("send", job[w].conn, NoToken, IF job[w].path = "auth" THEN "yes" ELSE "other") \in Proper
    BY <1>2 DEF Cmd, Proper, Command
  <2> QED
    BY <1>0, <1>1, <1>4, <2>1, ReplyQueue, DoneJob, ZmqSame, Zenon DEF Reply, Types
<1>5. CASE Refuse(w)
  <2>1. Cmd("send", job[w].conn, NoToken, "no") \in Proper
    BY <1>2 DEF Cmd, Proper, Command
  <2>2. Fits(job'[w], "close") /\ "close" \in Places
    BY <1>2, <1>5 DEF Refuse, Goto, Fits, Places
  <2> QED
    BY <1>0, <1>1, <1>5, <2>1, <2>2, ReplyQueue, GotoJob, ZmqSame DEF Refuse, Types
<1>6. CASE ReplyClose(w)
  <2>1. Cmd("close", job[w].conn, NoToken, "other") \in Proper
    BY <1>2 DEF Cmd, Proper, Command
  <2> QED
    BY <1>0, <1>1, <1>6, <2>1, ReplyQueue, DoneJob, ZmqSame DEF ReplyClose, Types
<1>7. CASE Publish(w)
  <2>1. [path |-> job[w].path, token |-> job[w].token] \in Notices
    BY <1>2, <1>7 DEF Publish, Done, Goto, Fits, Notices
  <2>2. ZTypeOK'
    BY <1>0, <1>7, <2>1, SendDataType DEF Publish
  <2>3. QueueInv'
    BY <1>0, <1>7 DEF Publish, QueueInv, traffic
  <2> QED
    BY <1>0, <1>1, <1>7, <2>2, <2>3, DoneJob DEF Publish, Types
<1> QED
  BY <1>3, <1>4, <1>5, <1>6, <1>7

\* adapter_cmd_doit, and the threads of the zmq client
LEMMA PassTypes ==
    ASSUME Types, Dispatch \/ ZmqStep
    PROVE  Types'
<1>0. ReactorType /\ QueueInv /\ JobInv /\ CacheType /\ ZTypeOK
  BY DEF Types
<1>1. ReactorType' /\ CacheType' /\ JobInv'
  <2>1. UNCHANGED reactor /\ UNCHANGED cache /\ UNCHANGED pool
    BY DEF Dispatch, ZmqStep
  <2> QED
    BY <1>0, <2>1, ReactorSame, CacheSame DEF pool, JobInv
<1>2. CASE Dispatch
  <2> DEFINE m == Head(queue_cmd)
  <2>1. m \in Sound /\ queue_cmd' \in Seq(Sound)
    BY <1>0, <1>2, TailSeq DEF Dispatch, QueueInv
  <2>2. CASE m.path # "data" /\ tasks' = Append(tasks, m) /\ UNCHANGED zmq
    <3>1. m \in Task
      BY <2>1, <2>2 DEF Task
    <3>2. tasks' \in Seq(Task)
      BY <1>0, <2>2, <3>1, AppendSeq DEF QueueInv
    <3> QED
      BY <1>0, <1>1, <1>2, <2>1, <2>2, <3>2, ZmqSame DEF Dispatch, QueueInv, traffic, Types
  <2>3. CASE m.path = "data" /\ SendData([path |-> "data", token |-> m.token]) /\ UNCHANGED tasks
    <3>1. [path |-> "data", token |-> m.token] \in Notices
      BY <2>1, <2>3 DEF Sound, Notices
    <3>2. ZTypeOK'
      BY <1>0, <2>3, <3>1, SendDataType
    <3> QED
      BY <1>0, <1>1, <1>2, <2>1, <2>3, <3>2 DEF Dispatch, QueueInv, traffic, Types
  <2> QED
    BY <1>2, <2>2, <2>3 DEF Dispatch
<1>3. CASE ZmqStep
  <2>1. QueueInv'
    BY <1>0, <1>3 DEF ZmqStep, QueueInv, traffic
  <2>2. CASE Forward
    BY <1>0, <1>1, <2>1, <2>2, AppendSeq, TailSeq DEF Forward, ZTypeOK, Types
  <2>3. CASE Wake
    BY <1>0, <1>1, <2>1, <2>3, BoundAssumption DEF Wake, MayFail, ZTypeOK, Types
  <2>4. CASE Relay
    <3>1. /\ Head(queue_ipc) \in Notices /\ queue_ipc' \in Seq(Notices) /\ ipc' \in Nat
          /\ UNCHANGED <<queue_send, spc, faults>>
      BY <1>0, <2>4, TailSeq DEF Relay, ZTypeOK
    <3>2. router' \in Seq(Notices) /\ lost' \in Seq(Notices)
      BY <1>0, <2>4, <3>1, AppendSeq, Zenon DEF Relay, ZTypeOK
    <3> QED
      BY <1>0, <1>1, <2>1, <3>1, <3>2 DEF ZTypeOK, Types
  <2> QED
    BY <1>3, <2>2, <2>3, <2>4 DEF ZmqStep, ZNext
<1> QED
  BY <1>2, <1>3

\* every step keeps the types
LEMMA NextTypes == Types /\ [Next]_vars => Types'
<1> SUFFICES ASSUME Types, [Next]_vars PROVE Types'
  OBVIOUS
<1>0. JobInv /\ CacheType /\ ZTypeOK
  BY DEF Types
<1>1. CASE ReactorCmd
  <2>1. UNCHANGED <<cache, pool, zmq>>
    BY <1>1, Zenon DEF ReactorCmd, CmdDropped, CmdSend, CmdClose, CmdAuth, PipeCmd
  <2> QED
    BY <1>0, <1>1, <2>1, CmdTypes, CacheSame, ZmqSame DEF pool, JobInv, Types
<1>2. CASE Environment
  <2>1. UNCHANGED <<pool, zmq>>
    BY <1>2, Zenon DEF Environment, PeerCloses, RecvRequest, RecvRefused, RecvHeartbeat, KeyExpires, SubRecv
  <2>2. CacheType'
    <3>1. CASE \E k \in Keys : KeyExpires(k)
      BY <1>0, <3>1 DEF KeyExpires, CacheType
    <3>2. CASE ~\E k \in Keys : KeyExpires(k)
      BY <1>0, <1>2, <3>2, CacheSame, Zenon DEF Environment, PeerCloses, RecvRequest, RecvRefused, RecvHeartbeat, SubRecv
    <3> QED
      BY <3>1, <3>2
  <2> QED
    BY <1>0, <1>2, <2>1, <2>2, EnvTypes, ZmqSame DEF pool, JobInv, Types
<1>3. ASSUME NEW w \in Workers, Worker(w) PROVE Types'
  BY <1>3, AskTypes, AnswerTypes DEF Worker
<1>4. CASE UNCHANGED vars
  BY <1>0, <1>4, CacheSame, ReactorSame, ZmqSame DEF vars, traffic, pool, JobInv, QueueInv, Types
<1> QED
  BY <1>1, <1>2, <1>3, <1>4, PassTypes DEF Next

(***************************************************************************)
(* Connections, queues, jobs, keys and notices keep their types; a worker  *)
(* has the request in its hands that its place in process_auth,            *)
(* process_getkey or process_offline needs.                                *)
(***************************************************************************)
THEOREM TypesInvariant == Spec => []Types
  BY InitTypes, NextTypes, PTL DEF Spec

\* the variables keep their types
THEOREM TypeCorrect == Spec => []TypeOK
  BY TypesInvariant, TypesOK, PTL

-----------------------------------------------------------------------------
(* The wake-ups of the zmq client.                                          *)

\* every step keeps a message behind each wake-up
LEMMA NextWake == Types /\ WakeFindsMessage /\ [Next]_vars => WakeFindsMessage'
<1> SUFFICES ASSUME Types, WakeFindsMessage, [Next]_vars PROVE WakeFindsMessage'
  OBVIOUS
<1>0. /\ queue_send \in Seq(Notices) /\ queue_ipc \in Seq(Notices) /\ Len(queue_ipc) \in Nat
      /\ ipc \in Nat /\ faults \in Nat
      /\ Len(queue_ipc) = ipc + faults + (IF spc = "send" THEN 1 ELSE 0)
  BY BoundAssumption DEF Types, ZTypeOK, WakeFindsMessage
<1>1. UNCHANGED <<queue_ipc, ipc, spc, faults>> => WakeFindsMessage'
  BY DEF WakeFindsMessage
<1>2. CASE ZmqStep
  <2>1. CASE Forward
    <3>1. Len(queue_ipc') = Len(queue_ipc) + 1
      BY <1>0, <2>1, TailSeq, AppendSeq DEF Forward
    <3>2. spc = "fetch" /\ spc' = "send" /\ ipc' = ipc /\ faults' = faults
      BY <2>1 DEF Forward
    <3> QED
      BY <1>0, <3>1, <3>2 DEF WakeFindsMessage
  <2>2. CASE Wake
    BY <1>0, <2>2 DEF Wake, WakeFindsMessage
  <2>3. CASE Relay
    <3>1. Len(queue_ipc') = Len(queue_ipc) - 1
      BY <1>0, <2>3, TailSeq DEF Relay
    <3>2. spc' = spc /\ ipc' = ipc - 1 /\ faults' = faults
      BY <2>3 DEF Relay
    <3> QED
      BY <1>0, <3>1, <3>2 DEF WakeFindsMessage
  <2> QED
    BY <1>2, <2>1, <2>2, <2>3 DEF ZmqStep, ZNext
<1>3. CASE ReactorCmd
  BY <1>1, <1>3, Zenon DEF ReactorCmd, CmdDropped, CmdSend, CmdClose, CmdAuth, PipeCmd, zmq
<1>4. CASE Environment
  BY <1>1, <1>4, Zenon DEF Environment, PeerCloses, RecvRequest, RecvRefused, RecvHeartbeat, KeyExpires, SubRecv, zmq
<1>5. CASE Dispatch
  BY <1>1, <1>5 DEF Dispatch, SendData, zmq
<1>6. ASSUME NEW w \in Workers, Worker(w) PROVE WakeFindsMessage'
  BY <1>1, <1>6 DEF Worker, TakeTask, SetKey, SetExpire, QueryKey, RemoveKey, FetchToken, AuthOk,
                    Reply, Refuse, ReplyClose, Publish, SendData, zmq
<1>7. CASE UNCHANGED vars
  BY <1>1, <1>7 DEF vars, zmq
<1> QED
  BY <1>2, <1>3, <1>4, <1>5, <1>6, <1>7 DEF Next

(***************************************************************************)
(* Every wake-up of the zmq reactor finds a message, and a lost one leaves *)
(* exactly one message behind, however the threads interleave.             *)
(***************************************************************************)
THEOREM WakeSafe == Spec => []WakeFindsMessage
<1>1. Init => WakeFindsMessage
  BY DEF Init, ZInit, WakeFindsMessage
<1> QED
  BY <1>1, NextWake, TypesInvariant, PTL DEF Spec

-----------------------------------------------------------------------------
(* How often a random key is used.                                          *)

\* only finitely many workers are about to remove a key
LEMMA RemovingFinite ==
    \A k \in Keys : /\ IsFiniteSet(Removing(k)) /\ Cardinality(Removing(k)) \in Nat
                    /\ Cardinality(Removing(k)) <= Cardinality(Workers) /\ Cardinality(Workers) \in Nat
<1> SUFFICES ASSUME NEW k \in Keys
             PROVE  /\ IsFiniteSet(Removing(k)) /\ Cardinality(Removing(k)) \in Nat
                    /\ Cardinality(Removing(k)) <= Cardinality(Workers) /\ Cardinality(Workers) \in Nat
  OBVIOUS
<1>1. Removing(k) \subseteq Workers
  BY DEF Removing
<1> QED
  BY <1>1, BoundAssumption, FS_Subset, FS_CardinalityType

\* steps that make no key valid and find none valid
LEMMA KeySame ==
    ASSUME KeyUseBounded, UNCHANGED <<issued, uses, kept>>, redis' \subseteq redis,
           \A k \in Keys : k \in redis' => Removing(k)' = Removing(k)
    PROVE  KeyUseBounded'
  BY DEF KeyUseBounded

\* steps of a worker that is not about to remove a key, nor will be
LEMMA RemovingSame ==
    ASSUME JobInv, NEW w \in Workers, NEW from, NEW to, from # "remove", to # "remove",
           Goto(w, from, to),
           job' = job \/ \E m : job' = [job EXCEPT ![w] = m]
    PROVE  \A k \in Keys : Removing(k)' = Removing(k)
<1>1. wpc[w] # "remove" /\ wpc'[w] # "remove"
  BY DEF Goto, JobInv
<1>2. \A v \in Workers : v # w => wpc'[v] = wpc[v] /\ job'[v] = job[v]
  BY DEF Goto, JobInv
<1>3. ASSUME NEW k \in Keys PROVE Removing(k)' = Removing(k)
  BY <1>1, <1>2 DEF Removing
<1> QED
  BY <1>3

\* every step keeps the count of the uses of a key
LEMMA NextKey == Types /\ KeyUseBounded /\ [Next]_vars => KeyUseBounded'
<1> SUFFICES ASSUME Types, KeyUseBounded, [Next]_vars PROVE KeyUseBounded'
  OBVIOUS
<1>0. JobInv /\ CacheType
  BY DEF Types
<1>1. UNCHANGED <<pool, cache>> => KeyUseBounded'
  BY DEF pool, cache, KeyUseBounded, Removing
<1>2. CASE ReactorCmd \/ Dispatch \/ ZmqStep
  BY <1>1, <1>2, Zenon DEF ReactorCmd, CmdDropped, CmdSend, CmdClose, CmdAuth, PipeCmd, Dispatch, ZmqStep
<1>3. CASE Environment
  <2>1. ASSUME NEW k \in Keys, KeyExpires(k) PROVE KeyUseBounded'
    <3>1. redis' \subseteq redis /\ UNCHANGED <<pool, issued, uses, kept>>
      BY <2>1 DEF KeyExpires
    <3>2. \A j \in Keys : Removing(j)' = Removing(j)
      BY <3>1 DEF pool, Removing
    <3> QED
      BY <3>1, <3>2, KeySame
  <2> QED
    BY <1>1, <1>3, <2>1, Zenon DEF Environment, PeerCloses, RecvRequest, RecvRefused, RecvHeartbeat, SubRecv
<1>4. ASSUME NEW w \in Workers, Worker(w) PROVE KeyUseBounded'
  <2>1. CASE TakeTask(w)
    <3>1. Start(Head(tasks)) # "remove"
      BY DEF Start
    <3>2. \A k \in Keys : Removing(k)' = Removing(k)
      BY <1>0, <2>1, <3>1, RemovingSame, Zenon DEF TakeTask
    <3> QED
      BY <2>1, <3>2, KeySame DEF TakeTask, cache
  <2>2. CASE SetKey(w)
    <3>1. CASE Goto(w, "set", "refuse") /\ UNCHANGED <<redis, issued, job>>
      <4>1. \A k \in Keys : Removing(k)' = Removing(k)
        BY <1>0, <3>1, RemovingSame
      <4> QED
        BY <2>2, <3>1, <4>1, KeySame DEF SetKey
    <3>2. ASSUME NEW k \in Keys \ issued,
                 Goto(w, "set", "expire"), redis' = redis \cup {k}, issued' = issued \cup {k},
                 job' = [job EXCEPT ![w].key = k]
          PROVE  KeyUseBounded'
      <4>1. \A j \in Keys : Removing(j)' = Removing(j)
        <5>1. \E m : job' = [job EXCEPT ![w] = m]
          BY <3>2, Zenon
        <5> QED
          BY <1>0, <3>2, <5>1, RemovingSame, Zenon
      <4>2. UNCHANGED <<uses, kept>>
        BY <2>2 DEF SetKey
      <4>3. k \notin kept => uses[k] = 0
        BY <1>0 DEF KeyUseBounded, CacheType
      <4>4. ASSUME NEW j \in Keys \ kept'
            PROVE  /\ j \in redis' => uses'[j] <= Cardinality(Removing(j)')
                   /\ uses'[j] <= Cardinality(Workers)
                   /\ uses'[j] > 0 => j \in issued'
        <5>1. CASE j = k
          BY <4>1, <4>2, <4>3, <4>4, <5>1, RemovingFinite
        <5>2. CASE j # k
          BY <3>2, <4>1, <4>2, <5>2 DEF KeyUseBounded
        <5> QED
          BY <5>1, <5>2
      <4> QED
        BY <4>4 DEF KeyUseBounded
    <3> QED
      BY <2>2, <3>1, <3>2 DEF SetKey
  <2>3. CASE SetExpire(w)
    <3>1. \A k \in Keys : Removing(k)' = Removing(k)
      BY <1>0, <2>3, RemovingSame DEF SetExpire
    <3> QED
      BY <2>3, <3>1, KeySame DEF SetExpire
  <2>4. CASE QueryKey(w)
    <3>1. CASE Goto(w, "query", "refuse") /\ UNCHANGED uses
      <4>1. \A k \in Keys : Removing(k)' = Removing(k)
        BY <1>0, <2>4, <3>1, RemovingSame DEF QueryKey
      <4> QED
        BY <2>4, <3>1, <4>1, KeySame DEF QueryKey
    <3>2. CASE /\ Goto(w, "query", "remove") /\ job[w].key \in redis
               /\ uses' = [uses EXCEPT ![job[w].key] = @ + 1]
      <4> DEFINE k == job[w].key
      <4>1. UNCHANGED <<redis, issued, kept, job>>
        BY <2>4 DEF QueryKey
      <4>2. k \in redis /\ k \in issued /\ k \in Keys
        BY <1>0, <3>2 DEF CacheType
      <4>3. /\ wpc[w] = "query" /\ wpc'[w] = "remove"
            /\ \A v \in Workers : v # w => wpc'[v] = wpc[v]
        BY <1>0, <3>2 DEF Goto, JobInv
      <4>4. Removing(k)' = Removing(k) \cup {w} /\ w \notin Removing(k)
        BY <4>1, <4>3 DEF Removing
      <4>5. Cardinality(Removing(k)') = Cardinality(Removing(k)) + 1
        BY <4>2, <4>4, RemovingFinite, FS_AddElement, Zenon
      <4>6. Cardinality(Removing(k)') <= Cardinality(Workers) /\ Cardinality(Workers) \in Nat
        <5>1. Removing(k)' \subseteq Workers
          BY DEF Removing
        <5> QED
          BY <5>1, BoundAssumption, FS_Subset, FS_CardinalityType
      <4>7. uses[k] \in Nat /\ uses'[k] = uses[k] + 1 /\ \A j \in Keys : j # k => uses'[j] = uses[j]
        BY <1>0, <3>2, <4>2 DEF CacheType
      <4>8. \A j \in Keys : j # k => Removing(j)' = Removing(j)
        BY <4>1, <4>3 DEF Removing
      <4>9. ASSUME NEW j \in Keys \ kept'
            PROVE  /\ j \in redis' => uses'[j] <= Cardinality(Removing(j)')
                   /\ uses'[j] <= Cardinality(Workers)
                   /\ uses'[j] > 0 => j \in issued'
        <5>1. CASE j = k
          <6>1. uses[k] <= Cardinality(Removing(k)) /\ Cardinality(Removing(k)) \in Nat
            BY <4>1, <4>2, <4>9, <5>1, RemovingFinite DEF KeyUseBounded
          <6>2. ASSUME NEW a \in Nat, NEW b \in Nat, NEW n \in Nat, a <= b, b + 1 <= n
                PROVE  a + 1 <= b + 1 /\ a + 1 <= n
            BY <6>2
          <6>3. uses'[k] <= Cardinality(Removing(k)') /\ uses'[k] <= Cardinality(Workers)
            BY <4>5, <4>6, <4>7, <6>1, <6>2
          <6> QED
            BY <4>1, <4>2, <5>1, <6>3
        <5>2. CASE j # k
          BY <4>1, <4>7, <4>8, <4>9, <5>2 DEF KeyUseBounded
        <5> QED
          BY <5>1, <5>2
      <4> QED
        BY <4>9 DEF KeyUseBounded
    <3> QED
      BY <2>4, <3>1, <3>2 DEF QueryKey
  <2>5. CASE RemoveKey(w)
    <3> DEFINE k == job[w].key
    <3>1. /\ UNCHANGED <<issued, uses, job>> /\ redis' \subseteq redis /\ kept \subseteq kept'
          /\ k \notin redis' \/ k \in kept'
      BY <2>5 DEF RemoveKey
    <3>2. \A v \in Workers : v # w => wpc'[v] = wpc[v]
      BY <1>0, <2>5 DEF RemoveKey, Goto, JobInv
    <3>3. \A j \in Keys : j # k => Removing(j)' = Removing(j)
      BY <3>1, <3>2 DEF Removing
    <3> HIDE DEF k
    <3> QED
      BY <3>1, <3>3 DEF KeyUseBounded
  <2>6. CASE FetchToken(w)
    <3>1. \E to \in {"authok", "refuse"} : Goto(w, "token", to)
      BY <2>6 DEF FetchToken
    <3>2. job' = job \/ \E m : job' = [job EXCEPT ![w] = m]
      BY <2>6 DEF FetchToken
    <3>3. \A k \in Keys : Removing(k)' = Removing(k)
      BY <1>0, <3>1, <3>2, RemovingSame
    <3> QED
      BY <2>6, <3>3, KeySame DEF FetchToken, cache
  <2>7. CASE AuthOk(w) \/ Refuse(w)
    <3>1. \A k \in Keys : Removing(k)' = Removing(k)
      BY <1>0, <2>7, RemovingSame DEF AuthOk, Refuse
    <3> QED
      BY <2>7, <3>1, KeySame DEF AuthOk, Refuse, cache
  <2>8. CASE Reply(w) \/ ReplyClose(w) \/ Publish(w)
    <3>1. \A k \in Keys : Removing(k)' = Removing(k)
      BY <1>0, <2>8, RemovingSame DEF Reply, ReplyClose, Publish, Done
    <3> QED
      BY <2>8, <3>1, KeySame DEF Reply, ReplyClose, Publish, cache
  <2> QED
    BY <1>4, <2>1, <2>2, <2>3, <2>4, <2>5, <2>6, <2>7, <2>8 DEF Worker
<1>5. CASE UNCHANGED vars
  BY <1>1, <1>5 DEF vars
<1> QED
  BY <1>2, <1>3, <1>4, <1>5 DEF Next

(***************************************************************************)
(* Looking a key up and removing it are two requests to redis, yet a key   *)
(* whose removal does not fail is used at most once per worker.            *)
(***************************************************************************)
THEOREM KeySafe == Spec => []KeyUseBounded
<1>1. Init => KeyUseBounded
  BY BoundAssumption, FS_CardinalityType DEF Init, KeyUseBounded
<1> QED
  BY <1>1, NextKey, TypesInvariant, PTL DEF Spec

=============================================================================
