------------------------ MODULE DispatcherFlowProofs ------------------------
(***************************************************************************)
(* Proofs about what dispatcher.cpp and its neighbours hand on from queue  *)
(* to queue: the yes to an authentication behind its AUTH_OK, and one      *)
(* offline notice for each authenticated connection that is closed and     *)
(* each offline request.                                                   *)
(***************************************************************************)
EXTENDS DispatcherProofs

-----------------------------------------------------------------------------
(* Told yes only after AUTH_OK.                                             *)

\* the connections that are authenticated, or gone: a yes for one is true or drops
Settled == {c \in Conns : c \notin open \/ Authed(c)}

\* an AUTH_OK for c among the first n commands of the queue q
Ahead(q, n, c) == \E j \in 1..n : q[j].op = "auth" /\ q[j].conn = c

(***************************************************************************)
(* A yes in the reactor's queue, and a worker about to queue one, have the *)
(* AUTH_OK before them, unless it has been executed already.               *)
(***************************************************************************)
YesInv ==
    /\ \A i \in 1..Len(rtn) : rtn[i].text = "yes" =>
          rtn[i].conn \in Settled \/ Ahead(rtn, i - 1, rtn[i].conn)
    /\ \A w \in Workers : wpc[w] = "reply" /\ job[w].path = "auth" =>
          job[w].conn \in Settled \/ Ahead(rtn, Len(rtn), job[w].conn)

\* steps that only open fewer connections and authenticate more
Lasting == Settled \subseteq Settled'

\* worker w is about to queue a yes, as it was before
StillReplying(w) == wpc[w] = "reply" /\ job'[w] = job[w]

AboutToReply(w) == wpc[w] = "reply" /\ job[w].path = "auth"

\* the queue gets a command: a yes that was in a worker's hands, or the AUTH_OK, or another
LEMMA YesAppend ==
    ASSUME Types, YesInv, Lasting, NEW m \in Proper, rtn' = Append(rtn, m),
           m.text = "yes" => m.conn \in Settled \/ Ahead(rtn, Len(rtn), m.conn),
           \A w \in Workers : AboutToReply(w)' =>
              StillReplying(w) \/ (m.op = "auth" /\ job'[w].conn = m.conn)
    PROVE  YesInv'
<1>1. rtn \in Seq(Proper) /\ Len(rtn) \in Nat
  BY DEF Types, QueueInv
<1>2. Len(rtn') = Len(rtn) + 1 /\ rtn'[Len(rtn) + 1] = m /\ \A i \in 1..Len(rtn) : rtn'[i] = rtn[i]
  BY <1>1
<1>3. \A i \in 1..Len(rtn) : rtn[i] \in Proper
  BY <1>1
<1>4. ASSUME NEW i \in 1..Len(rtn'), rtn'[i].text = "yes"
      PROVE  rtn'[i].conn \in Settled' \/ Ahead(rtn', i - 1, rtn'[i].conn)
  <2>1. CASE i = Len(rtn) + 1
    <3>1. i - 1 = Len(rtn) /\ rtn'[i] = m
      BY <1>1, <1>2, <2>1
    <3> QED
      BY <1>2, <1>4, <3>1 DEF Lasting, Ahead
  <2>2. CASE i # Len(rtn) + 1
    <3>1. i \in 1..Len(rtn) /\ rtn'[i] = rtn[i]
      BY <1>1, <1>2, <2>2
    <3>2. \A j \in 1..(i - 1) : rtn'[j] = rtn[j]
      BY <1>1, <1>2, <3>1
    <3> QED
      BY <1>4, <3>1, <3>2 DEF YesInv, Lasting, Ahead
  <2> QED
    BY <2>1, <2>2
<1>5. ASSUME NEW w \in Workers, wpc'[w] = "reply", job'[w].path = "auth"
      PROVE  job'[w].conn \in Settled' \/ Ahead(rtn', Len(rtn'), job'[w].conn)
  <2>1. CASE StillReplying(w)
    <3>1. \A j \in 1..Len(rtn) : j \in 1..Len(rtn') /\ rtn'[j] = rtn[j]
      BY <1>1, <1>2
    <3> QED
      BY <1>5, <2>1, <3>1 DEF YesInv, Lasting, Ahead, StillReplying
  <2>2. CASE m.op = "auth" /\ job'[w].conn = m.conn
    <3>1. Len(rtn) + 1 \in 1..Len(rtn')
      BY <1>1, <1>2
    <3> QED
      BY <1>2, <2>2, <3>1 DEF Ahead
  <2> QED
    BY <1>5, <2>1, <2>2 DEF AboutToReply
<1> QED
  BY <1>4, <1>5 DEF YesInv

\* the queue stays as it is
LEMMA YesSame ==
    ASSUME YesInv, Lasting, UNCHANGED rtn,
           \A w \in Workers : AboutToReply(w)' => StillReplying(w)
    PROVE  YesInv'
  BY DEF YesInv, Lasting, Ahead, AboutToReply, StillReplying

\* the reactor executes the first command
LEMMA YesTail ==
    ASSUME Types, YesInv, Lasting, UNCHANGED pool, rtn # <<>>, rtn' = Tail(rtn),
           Head(rtn).op = "auth" => Head(rtn).conn \in Settled'
    PROVE  YesInv'
<1>1. rtn \in Seq(Proper) /\ Len(rtn) \in Nat \ {0}
  BY DEF Types, QueueInv
<1>2. Len(rtn') = Len(rtn) - 1 /\ rtn[1] = Head(rtn) /\ \A i \in 1..Len(rtn') : rtn'[i] = rtn[i + 1]
  BY <1>1
<1>3. \A i \in 1..Len(rtn) : rtn[i] \in Proper
  BY <1>1
<1>4. ASSUME NEW n \in 0..Len(rtn'), NEW c \in Conns, c \in Settled \/ Ahead(rtn, n + 1, c)
      PROVE  c \in Settled' \/ Ahead(rtn', n, c)
  <2>1. CASE c \in Settled
    BY <2>1 DEF Lasting
  <2>2. CASE Ahead(rtn, n + 1, c)
    <3>1. PICK j \in 1..(n + 1) : rtn[j].op = "auth" /\ rtn[j].conn = c
      BY <2>2 DEF Ahead
    <3>2. CASE j = 1
      BY <1>2, <3>1, <3>2
    <3>3. CASE j # 1
      <4>1. j - 1 \in 1..n /\ j - 1 \in 1..Len(rtn') /\ (j - 1) + 1 = j
        BY <1>1, <1>2, <3>3
      <4>2. rtn'[j - 1] = rtn[j]
        BY <1>2, <4>1
      <4> QED
        BY <3>1, <4>1, <4>2 DEF Ahead
    <3> QED
      BY <3>2, <3>3
  <2> QED
    BY <1>4, <2>1, <2>2
<1>5. ASSUME NEW i \in 1..Len(rtn'), rtn'[i].text = "yes"
      PROVE  rtn'[i].conn \in Settled' \/ Ahead(rtn', i - 1, rtn'[i].conn)
  <2>1. i + 1 \in 1..Len(rtn) /\ rtn'[i] = rtn[i + 1] /\ i - 1 \in 0..Len(rtn') /\ (i + 1) - 1 = (i - 1) + 1
    BY <1>1, <1>2
  <2>2. rtn'[i].conn \in Conns
    BY <1>3, <1>5, <2>1 DEF Proper
  <2>3. rtn'[i].conn \in Settled \/ Ahead(rtn, (i - 1) + 1, rtn'[i].conn)
    BY <1>5, <2>1 DEF YesInv
  <2> QED
    BY <1>4, <2>1, <2>2, <2>3
<1>6. ASSUME NEW w \in Workers, wpc'[w] = "reply", job'[w].path = "auth"
      PROVE  job'[w].conn \in Settled' \/ Ahead(rtn', Len(rtn'), job'[w].conn)
  <2>1. wpc[w] = "reply" /\ job'[w] = job[w] /\ job[w].conn \in Conns
    BY <1>6 DEF pool, Types, JobInv, Fits, Request
  <2>2. Len(rtn') \in 0..Len(rtn') /\ Len(rtn') + 1 = Len(rtn)
    BY <1>1, <1>2
  <2>3. job[w].conn \in Settled \/ Ahead(rtn, Len(rtn') + 1, job[w].conn)
    BY <1>6, <2>1, <2>2 DEF YesInv
  <2> QED
    BY <1>4, <2>1, <2>2, <2>3
<1> QED
  BY <1>5, <1>6 DEF YesInv

-----------------------------------------------------------------------------
(* The steps.                                                               *)

TellInv == ToldMeansAuthed /\ YesInv

\* the reactor's variables stay as they are
LEMMA LastingSame ==
    ASSUME UNCHANGED <<open, ident>>
    PROVE  Lasting
  BY DEF Lasting, Settled, Authed

\* a step that leaves the reactor alone keeps every telling true
LEMMA ToldSame ==
    ASSUME ToldMeansAuthed, UNCHANGED reactor
    PROVE  ToldMeansAuthed'
  BY DEF ToldMeansAuthed, reactor, Authed

\* no worker does anything
LEMMA PoolSame ==
    ASSUME UNCHANGED pool
    PROVE  \A w \in Workers : AboutToReply(w)' => StillReplying(w)
  BY DEF pool, AboutToReply, StillReplying

\* close_internal takes what was told with it
LEMMA CloseTells ==
    ASSUME ReactorType, ToldMeansAuthed, NEW c \in Conns, CloseInternal(c), UNCHANGED ident
    PROVE  ToldMeansAuthed' /\ Lasting
<1>1. \A d \in open' : d \in open /\ told'[d] = told[d]
  BY DEF CloseInternal, ReactorType
<1>2. Lasting
  BY DEF CloseInternal, Lasting, Settled, Authed
<1> QED
  BY <1>1, <1>2 DEF ToldMeansAuthed, Authed

\* a command of the reactor keeps what is said of the tellings
LEMMA CmdTells ==
    ASSUME Types, TellInv, ReactorCmd
    PROVE  TellInv'
<1> DEFINE c == Head(rtn)
<1>1. ReactorType /\ rtn # <<>> /\ c \in Proper /\ PipeCmd(c)
  BY TailSeq, Zenon DEF Types, QueueInv, ReactorCmd, CmdDropped, CmdSend, CmdClose, CmdAuth
<1>2. rtn' = Tail(rtn) /\ UNCHANGED pool
  BY <1>1 DEF PipeCmd
<1>3. ASSUME Lasting, c.op = "auth" => c.conn \in Settled' PROVE YesInv'
  BY <1>1, <1>2, <1>3, YesTail DEF TellInv
<1>4. CASE CmdDropped(c)
  <2>1. UNCHANGED reactor /\ Lasting
    BY <1>4, LastingSame DEF CmdDropped, reactor
  <2>2. c.op = "auth" => c.conn \in Settled'
    BY <1>1, <1>4, <2>1, Zenon DEF CmdDropped, Target, Proper, reactor, Settled
  <2> QED
    BY <1>3, <2>1, <2>2, ToldSame DEF TellInv
<1>5. CASE CmdSend(c)
  <2>1. c.op \in {"send", "push"} /\ Target(c) \in open /\ Target(c) \in Conns /\ UNCHANGED ident
    BY <1>1, <1>5 DEF CmdSend, ReactorType
  <2>2. CASE CloseInternal(Target(c))
    BY <1>1, <1>3, <2>1, <2>2, CloseTells DEF TellInv
  <2>3. CASE /\ told' = [told EXCEPT ![Target(c)] = @ \cup ({c.text} \cap {"yes", "no"})]
             /\ UNCHANGED <<open, holder, queue_cmd>>
    <3>1. Lasting
      BY <2>1, <2>3, LastingSame
    <3>2. c.text = "yes" => Authed(Target(c))
      <4>1. rtn \in Seq(Proper) /\ 1 \in 1..Len(rtn) /\ rtn[1] = c
        BY <1>1 DEF Types, QueueInv
      <4>2. c.text = "yes" => c.conn \in Settled \/ Ahead(rtn, 1 - 1, c.conn)
        BY <4>1 DEF TellInv, YesInv
      <4>3. ~Ahead(rtn, 1 - 1, c.conn)
        BY DEF Ahead
      <4>4. c.text = "yes" => Target(c) = c.conn
        BY <1>1 DEF Target, Proper
      <4> QED
        BY <2>1, <4>2, <4>3, <4>4 DEF Settled
    <3>3. ASSUME NEW d \in open', "yes" \in told'[d] PROVE Authed(d)'
      <4>1. d \in open /\ d \in Conns
        BY <1>1, <2>3 DEF ReactorType
      <4>2. "yes" \in told[d] \/ (d = Target(c) /\ c.text = "yes")
        BY <1>1, <2>1, <2>3, <3>3, <4>1 DEF ReactorType
      <4> QED
        BY <2>1, <3>2, <4>1, <4>2 DEF TellInv, ToldMeansAuthed, Authed
    <3> QED
      BY <1>3, <2>1, <3>1, <3>3 DEF TellInv, ToldMeansAuthed
  <2> QED
    BY <1>5, <2>2, <2>3 DEF CmdSend
<1>6. CASE CmdClose(c)
  <2>1. c.op # "auth" /\ c.conn \in Conns /\ CloseInternal(c.conn) /\ UNCHANGED ident
    BY <1>1, <1>6 DEF CmdClose, ReactorType
  <2> QED
    BY <1>1, <1>3, <2>1, CloseTells, Zenon DEF TellInv
<1>7. CASE CmdAuth(c)
  <2>1. /\ c.conn \in Conns /\ c.token \in Tokens /\ ident' = [ident EXCEPT ![c.conn] = c.token]
        /\ open' \subseteq open
    BY <1>1, <1>7, Zenon DEF CmdAuth, Proper, ReactorType
  <2>2. ident'[c.conn] # NoToken /\ \A d \in Conns : Authed(d) => ident'[d] # NoToken
    BY <1>1, <2>1, EmptyAssumption DEF Authed, ReactorType
  <2>3. Lasting /\ c.conn \in Settled'
    BY <2>1, <2>2 DEF Lasting, Settled, Authed
  <2>4. \A d \in open' : d \in open /\ d \in Conns /\ told'[d] = told[d]
    BY <1>1, <1>7 DEF CmdAuth, ReactorType
  <2> QED
    BY <1>3, <2>2, <2>3, <2>4, Zenon DEF TellInv, ToldMeansAuthed, Authed
<1> QED
  BY <1>4, <1>5, <1>6, <1>7 DEF ReactorCmd

\* a step of the clients keeps what is said of the tellings
LEMMA EnvTells ==
    ASSUME Types, TellInv, Environment
    PROVE  TellInv'
<1>0. ReactorType
  BY DEF Types
<1>1. ASSUME NEW c \in Conns, PeerCloses(c) \/ RecvRefused(c) PROVE TellInv'
  <2>1. CloseInternal(c) /\ UNCHANGED <<ident, pool, rtn>>
    BY <1>1 DEF PeerCloses, RecvRefused
  <2> QED
    BY <1>0, <2>1, CloseTells, PoolSame, YesSame DEF TellInv
<1>2. ASSUME UNCHANGED <<reactor, pool, rtn>> PROVE TellInv'
  <2>1. UNCHANGED <<open, ident>>
    BY <1>2 DEF reactor
  <2> QED
    BY <1>2, <2>1, LastingSame, ToldSame, PoolSame, YesSame DEF TellInv
<1>3. ASSUME NEW m \in Proper, m.text = "other", rtn' = Append(rtn, m), UNCHANGED <<reactor, pool>>
      PROVE  TellInv'
  <2>1. UNCHANGED <<open, ident>>
    BY <1>3 DEF reactor
  <2>2. Lasting /\ ToldMeansAuthed'
    BY <1>3, <2>1, LastingSame, ToldSame DEF TellInv
  <2>3. \A w \in Workers : AboutToReply(w)' => StillReplying(w)
    BY <1>3, PoolSame
  <2> QED
    BY <1>3, <2>2, <2>3, YesAppend DEF TellInv
<1>4. ASSUME NEW c \in Conns, RecvHeartbeat(c) PROVE TellInv'
  <2>1. Cmd("send", c, NoToken, "other") \in Proper /\ Cmd("send", c, NoToken, "other").text = "other"
    BY DEF Cmd, Proper, Command
  <2> QED
    BY <1>3, <1>4, <2>1 DEF RecvHeartbeat
<1>5. ASSUME NEW t \in Tokens, SubRecv(t) PROVE TellInv'
  <2>1. Cmd("push", NoConn, t, "other") \in Proper /\ Cmd("push", NoConn, t, "other").text = "other"
    BY DEF Cmd, Proper, Command
  <2> QED
    BY <1>3, <1>5, <2>1 DEF SubRecv
<1>6. ASSUME NEW c \in Conns, RecvRequest(c) PROVE TellInv'
  BY <1>2, <1>6 DEF RecvRequest
<1>7. ASSUME NEW k \in Keys, KeyExpires(k) PROVE TellInv'
  BY <1>2, <1>7 DEF KeyExpires
<1> QED
  BY <1>1, <1>4, <1>5, <1>6, <1>7 DEF Environment

\* a worker goes on to a place where nothing is answered
LEMMA GotoSilent ==
    ASSUME JobInv, NEW w \in Workers, NEW from, NEW to, Goto(w, from, to), to # "reply",
           \A v \in Workers : v # w => job'[v] = job[v]
    PROVE  \A v \in Workers : AboutToReply(v)' => StillReplying(v)
<1>1. wpc'[w] = to /\ \A v \in Workers : v # w => wpc'[v] = wpc[v]
  BY DEF Goto, JobInv
<1> QED
  BY <1>1 DEF AboutToReply, StillReplying

\* a step of a worker keeps what is said of the tellings
LEMMA WorkerTells ==
    ASSUME Types, TellInv, NEW w \in Workers, Worker(w)
    PROVE  TellInv'
<1>1. JobInv
  BY DEF Types
<1>2. UNCHANGED reactor
  BY DEF Worker, TakeTask, SetKey, SetExpire, QueryKey, RemoveKey, FetchToken, AuthOk, Reply,
         Refuse, ReplyClose, Publish
<1>3. Lasting /\ ToldMeansAuthed'
  BY <1>2, LastingSame, ToldSame DEF reactor, TellInv
<1>4. \A v \in Workers : v # w => job'[v] = job[v]
  BY <1>1 DEF JobInv, Worker, TakeTask, SetKey, SetExpire, QueryKey, RemoveKey, FetchToken, AuthOk,
              Reply, Refuse, ReplyClose, Publish, Done
<1>5. ASSUME UNCHANGED rtn, NEW from, NEW to, Goto(w, from, to), to # "reply" PROVE TellInv'
  BY <1>1, <1>3, <1>4, <1>5, GotoSilent, YesSame, Zenon DEF TellInv
<1>6. ASSUME NEW m \in Proper, m.text # "yes", rtn' = Append(rtn, m),
             NEW from, NEW to, Goto(w, from, to), to # "reply"
      PROVE  TellInv'
  <2>1. \A v \in Workers : AboutToReply(v)' => StillReplying(v)
    BY <1>1, <1>4, <1>6, GotoSilent, Zenon
  <2> QED
    BY <1>3, <1>6, <2>1, YesAppend, Zenon DEF TellInv
<1>7. CASE TakeTask(w)
  <2>1. Start(Head(tasks)) # "reply"
    BY DEF Start
  <2> QED
    BY <1>5, <1>7, <2>1 DEF TakeTask
<1>8. CASE SetKey(w) \/ QueryKey(w) \/ RemoveKey(w) \/ FetchToken(w) \/ Publish(w)
  BY <1>5, <1>8 DEF SetKey, QueryKey, RemoveKey, FetchToken, Publish, Done
<1>9. CASE SetExpire(w)
  <2>1. wpc[w] = "expire" /\ UNCHANGED <<job, rtn>> /\ \A v \in Workers : v # w => wpc'[v] = wpc[v]
    BY <1>1, <1>9 DEF SetExpire, Goto, JobInv
  <2>2. job[w].path = "getkey"
    BY <1>1, <2>1 DEF JobInv, Fits
  <2>3. \A v \in Workers : AboutToReply(v)' => StillReplying(v)
    BY <2>1, <2>2 DEF AboutToReply, StillReplying
  <2> QED
    BY <1>3, <2>1, <2>3, YesSame DEF TellInv
<1>10. CASE AuthOk(w)
  <2> DEFINE m == Cmd("auth", job[w].conn, job[w].token, "other")
  <2>1. wpc[w] = "authok" /\ rtn' = Append(rtn, m) /\ UNCHANGED job
        /\ \A v \in Workers : v # w => wpc'[v] = wpc[v]
    BY <1>1, <1>10 DEF AuthOk, Goto, JobInv
  <2>2. job[w].conn \in Conns /\ job[w].token \in Tokens
    BY <1>1, <2>1 DEF JobInv, Fits, Request
  <2>3. m \in Proper /\ m.text = "other" /\ m.op = "auth" /\ m.conn = job[w].conn
    BY <2>2 DEF Cmd, Proper, Command
  <2> HIDE DEF m
  <2>4. \A v \in Workers : AboutToReply(v)' => StillReplying(v) \/ (m.op = "auth" /\ job'[v].conn = m.conn)
    BY <2>1, <2>3 DEF AboutToReply, StillReplying
  <2> QED
    BY <1>3, <2>1, <2>3, <2>4, YesAppend DEF TellInv
<1>11. CASE Reply(w)
  <2> DEFINE m == Cmd("send", job[w].conn, NoToken, IF job[w].path = "auth" THEN "yes" ELSE "other")
  <2>1. wpc[w] = "reply" /\ rtn' = Append(rtn, m) /\ Goto(w, "reply", "idle")
    BY <1>11 DEF Reply, Done, Goto
  <2>2. job[w].conn \in Conns
    BY <1>1, <2>1 DEF JobInv, Fits, Request
  <2>3. m \in Proper /\ m.conn = job[w].conn /\ (m.text = "yes" => job[w].path = "auth")
    BY <2>2 DEF Cmd, Proper, Command
  <2> HIDE DEF m
  <2>4. m.text = "yes" => m.conn \in Settled \/ Ahead(rtn, Len(rtn), m.conn)
    BY <2>1, <2>3, Zenon DEF TellInv, YesInv
  <2>5. \A v \in Workers : AboutToReply(v)' => StillReplying(v)
    BY <1>1, <1>4, <2>1, GotoSilent
  <2> QED
    BY <1>3, <2>1, <2>3, <2>4, <2>5, YesAppend DEF TellInv
<1>12. CASE Refuse(w)
  <2>1. wpc[w] = "refuse" /\ job[w].conn \in Conns
    BY <1>1, <1>12 DEF Refuse, Goto, JobInv, Fits, Request
  <2>2. Cmd("send", job[w].conn, NoToken, "no") \in Proper /\ Cmd("send", job[w].conn, NoToken, "no").text # "yes"
    BY <2>1 DEF Cmd, Proper, Command
  <2> QED
    BY <1>6, <1>12, <2>2 DEF Refuse
<1>13. CASE ReplyClose(w)
  <2>1. wpc[w] = "close" /\ job[w].conn \in Conns
    BY <1>1, <1>13 DEF ReplyClose, Done, Goto, JobInv, Fits, Request
  <2>2. /\ Cmd("close", job[w].conn, NoToken, "other") \in Proper
        /\ Cmd("close", job[w].conn, NoToken, "other").text # "yes"
    BY <2>1, Zenon DEF Cmd, Proper, Command
  <2> QED
    BY <1>6, <1>13, <2>2 DEF ReplyClose, Done
<1> QED
  BY <1>7, <1>8, <1>9, <1>10, <1>11, <1>12, <1>13 DEF Worker

\* every step keeps what is said of the tellings
LEMMA NextTells == Types /\ TellInv /\ [Next]_vars => TellInv'
<1> SUFFICES ASSUME Types, TellInv, [Next]_vars PROVE TellInv'
  OBVIOUS
<1>1. CASE Dispatch \/ ZmqStep \/ UNCHANGED vars
  <2>1. UNCHANGED <<reactor, pool, rtn>>
    BY <1>1 DEF Dispatch, ZmqStep, vars
  <2>2. UNCHANGED <<open, ident>>
    BY <2>1 DEF reactor
  <2> QED
    BY <2>1, <2>2, LastingSame, ToldSame, PoolSame, YesSame DEF TellInv
<1> QED
  BY <1>1, CmdTells, EnvTells, WorkerTells DEF Next

(***************************************************************************)
(* A client that was told yes is authenticated in the reactor: the yes     *)
(* never overtakes AUTH_OK on its way through the command queue, and what  *)
(* closes the connection in between also drops the yes.                    *)
(***************************************************************************)
THEOREM ToldSafe == Spec => []ToldMeansAuthed
<1>1. Init => TellInv
  <2> SUFFICES ASSUME Init PROVE TellInv
    OBVIOUS
  <2>1. ToldMeansAuthed
    BY DEF Init, ToldMeansAuthed
  <2>2. Len(rtn) = 0 /\ \A w \in Workers : wpc[w] = "idle"
    BY DEF Init
  <2>3. 1..Len(rtn) = {} /\ YesInv
    BY <2>2 DEF YesInv
  <2> QED
    BY <2>1, <2>3 DEF TellInv
<1>2. TellInv => ToldMeansAuthed
  BY DEF TellInv
<1> QED
  BY <1>1, <1>2, NextTells, TypesInvariant, PTL DEF Spec

-----------------------------------------------------------------------------
(* One offline notice for each.                                             *)

One(m, t) == IF m.path = "offline" /\ m.token = t THEN 1 ELSE 0

\* the messages counted are finitely many
LEMMA OfflinesNat ==
    ASSUME NEW S, NEW s \in Seq(S), NEW t
    PROVE  /\ Offlines(s, t) \in Nat
           /\ IsFiniteSet({i \in DOMAIN s : s[i].path = "offline" /\ s[i].token = t})
<1> DEFINE I == {i \in DOMAIN s : s[i].path = "offline" /\ s[i].token = t}
<1>1. DOMAIN s = 1..Len(s) /\ Len(s) \in Nat
  OBVIOUS
<1>2. IsFiniteSet(1..Len(s)) /\ I \subseteq 1..Len(s)
  BY <1>1, FS_Interval
<1>3. IsFiniteSet(I)
  BY <1>2, FS_Subset
<1>4. Cardinality(I) \in Nat
  BY <1>3, FS_CardinalityType
<1> QED
  BY <1>3, <1>4 DEF Offlines

\* an empty queue holds no OFFLINE
LEMMA OfflinesEmpty ==
    ASSUME NEW t
    PROVE  Offlines(<<>>, t) = 0
<1>1. {i \in DOMAIN <<>> : <<>>[i].path = "offline" /\ <<>>[i].token = t} = {}
  OBVIOUS
<1> QED
  BY <1>1, FS_EmptySet DEF Offlines

\* a queue with one more message counts it
LEMMA OfflinesAppend ==
    ASSUME NEW S, NEW s \in Seq(S), NEW m \in S, NEW t
    PROVE  Offlines(Append(s, m), t) = Offlines(s, t) + One(m, t)
<1> DEFINE I == {i \in DOMAIN s : s[i].path = "offline" /\ s[i].token = t}
           q == Append(s, m)
           J == {i \in DOMAIN q : q[i].path = "offline" /\ q[i].token = t}
           n == Len(s) + 1
<1>1. /\ DOMAIN s = 1..Len(s) /\ Len(s) \in Nat /\ DOMAIN q = 1..(Len(s) + 1)
      /\ q[Len(s) + 1] = m /\ \A i \in 1..Len(s) : q[i] = s[i]
  OBVIOUS
<1>2. n \notin DOMAIN s /\ DOMAIN q = DOMAIN s \cup {n} /\ q[n] = m /\ \A i \in DOMAIN s : q[i] = s[i]
  BY <1>1
<1>3. IsFiniteSet(I) /\ Cardinality(I) \in Nat
  BY OfflinesNat, Zenon DEF Offlines
<1>4. Offlines(s, t) = Cardinality(I) /\ Offlines(q, t) = Cardinality(J)
  BY DEF Offlines
<1> HIDE DEF q, n
<1>5. CASE m.path = "offline" /\ m.token = t
  <2>1. J = I \cup {n} /\ n \notin I
    BY <1>2, <1>5
  <2>2. Cardinality(I \cup {n}) = Cardinality(I) + 1
    BY <1>3, <2>1, FS_AddElement, Zenon
  <2> QED
    BY <1>4, <1>5, <2>1, <2>2, Zenon DEF One, q
<1>6. CASE ~(m.path = "offline" /\ m.token = t)
  <2>1. J = I
    BY <1>2, <1>6
  <2> HIDE DEF I, J
  <2>2. One(m, t) = 0 /\ Offlines(q, t) = Offlines(s, t) /\ Offlines(s, t) \in Nat
    BY <1>3, <1>4, <1>6, <2>1 DEF One
  <2> QED
    BY <2>2 DEF q
<1> QED
  BY <1>5, <1>6

\* a queue without its head no longer counts it
LEMMA OfflinesTail ==
    ASSUME NEW S, NEW s \in Seq(S), s # <<>>, NEW t
    PROVE  Offlines(s, t) = Offlines(Tail(s), t) + One(Head(s), t)
<1> DEFINE I == {i \in DOMAIN s : s[i].path = "offline" /\ s[i].token = t}
           q == Tail(s)
           J == {i \in DOMAIN q : q[i].path = "offline" /\ q[i].token = t}
           f == [i \in J |-> i + 1]
<1>1. /\ DOMAIN s = 1..Len(s) /\ Len(s) \in Nat \ {0} /\ DOMAIN q = 1..(Len(s) - 1)
      /\ s[1] = Head(s) /\ \A i \in 1..(Len(s) - 1) : q[i] = s[i + 1]
  OBVIOUS
<1>2. IsFiniteSet(I) /\ Cardinality(I) \in Nat
  BY OfflinesNat, Zenon DEF Offlines
<1>3. q \in Seq(S)
  BY TailSeq
<1>4. IsFiniteSet(J) /\ Cardinality(J) \in Nat
  BY <1>3, OfflinesNat, Zenon DEF Offlines
<1>5. Offlines(s, t) = Cardinality(I) /\ Offlines(q, t) = Cardinality(J)
  BY DEF Offlines
<1>6. J \subseteq Int /\ \A i \in J : i + 1 \in I \ {1}
  BY <1>1
<1>7. \A k \in I \ {1} : k - 1 \in J /\ (k - 1) + 1 = k
  BY <1>1
<1>8. f \in Bijection(J, I \ {1})
  <2> HIDE DEF I, J, q
  <2>1. f \in [J -> I \ {1}] /\ \A a, b \in J : f[a] = f[b] => a = b
    BY <1>6
  <2>2. \A k \in I \ {1} : \E a \in J : f[a] = k
    BY <1>7
  <2> QED
    BY <2>1, <2>2 DEF Bijection, Injection, Surjection, IsInjective
<1>9. Cardinality(I \ {1}) = Cardinality(J)
  BY <1>4, <1>8, FS_Bijection, Zenon DEF ExistsBijection
<1>10. 1 \in I <=> (Head(s).path = "offline" /\ Head(s).token = t)
  BY <1>1
<1>11. Cardinality(I \ {1}) = IF 1 \in I THEN Cardinality(I) - 1 ELSE Cardinality(I)
  BY <1>2, FS_RemoveElement, Zenon
<1> HIDE DEF I, J, q
<1>12. Offlines(s, t) = Offlines(q, t) + One(Head(s), t)
  BY <1>2, <1>4, <1>5, <1>9, <1>10, <1>11 DEF One
<1> QED
  BY <1>12 DEF q

\* every part of the balance is a natural number
LEMMA CountsNat ==
    ASSUME Types, NEW t \in Tokens
    PROVE  /\ Offlines(queue_cmd, t) \in Nat /\ Offlines(tasks, t) \in Nat
           /\ Offlines(queue_send, t) \in Nat /\ Offlines(queue_ipc, t) \in Nat
           /\ Offlines(router, t) \in Nat /\ Offlines(lost, t) \in Nat
           /\ IsFiniteSet(Closed(t)) /\ Cardinality(Closed(t)) \in Nat
           /\ IsFiniteSet(Holding(t)) /\ Cardinality(Holding(t)) \in Nat
           /\ asked[t] \in Nat
<1>1. Closed(t) \subseteq Conns /\ Holding(t) \subseteq Workers
  BY DEF Closed, Holding
<1>2. IsFiniteSet(Closed(t)) /\ IsFiniteSet(Holding(t))
  BY <1>1, BoundAssumption, FS_Subset
<1>3. asked[t] \in Nat
  BY DEF Types, QueueInv
<1> QED
  BY <1>2, <1>3, FS_CardinalityType, OfflinesNat, Zenon DEF Types, QueueInv, ZTypeOK

\* a connection leaves the open ones, and enum_sock_close queues its notice
LEMMA CloseBalances ==
    ASSUME Types, NEW c \in open, open' = open \ {c}, queue_cmd' = queue_cmd \o OfflineOf(c),
           \A d \in Conns \ open' : ident'[d] = ident[d], NEW t \in Tokens
    PROVE  \E n \in {0, 1} : /\ Cardinality(Closed(t)') = Cardinality(Closed(t)) + n
                             /\ Offlines(queue_cmd', t) = Offlines(queue_cmd, t) + n
<1>1. c \in Conns /\ queue_cmd \in Seq(Sound) /\ Offlines(queue_cmd, t) \in Nat
      /\ IsFiniteSet(Closed(t)) /\ Cardinality(Closed(t)) \in Nat /\ c \notin Closed(t)
  BY CountsNat, Zenon DEF Types, ReactorType, QueueInv, Closed
<1>2. CASE ~Authed(c)
  <2>1. queue_cmd' = queue_cmd
    BY <1>1, <1>2 DEF OfflineOf
  <2>2. Closed(t)' = Closed(t)
    BY <1>1, <1>2, EmptyAssumption DEF Closed, Authed
  <2>3. /\ Cardinality(Closed(t)') = Cardinality(Closed(t)) + 0
        /\ Offlines(queue_cmd', t) = Offlines(queue_cmd, t) + 0
    BY <1>1, <2>1, <2>2
  <2> QED
    BY <2>3
<1>3. CASE Authed(c)
  <2> DEFINE m == [path |-> "offline", conn |-> c, token |-> ident[c], key |-> NoKey]
  <2>1. m \in Sound /\ One(m, t) = IF ident[c] = t THEN 1 ELSE 0
    BY <1>1, <1>3 DEF Authed, Types, ReactorType, Sound, Request, One
  <2>2. queue_cmd' = queue_cmd \o <<m>>
    BY <1>3 DEF OfflineOf
  <2> HIDE DEF m
  <2>3. queue_cmd' = Append(queue_cmd, m)
    BY <1>1, <2>1, <2>2
  <2>4. Offlines(queue_cmd', t) = Offlines(queue_cmd, t) + One(m, t)
    BY <1>1, <2>1, <2>3, OfflinesAppend
  <2>5. CASE ident[c] = t
    <3>1. Closed(t)' = Closed(t) \cup {c}
      BY <1>1, <2>5 DEF Closed
    <3>2. Cardinality(Closed(t) \cup {c}) = Cardinality(Closed(t)) + 1
      BY <1>1, FS_AddElement, Zenon
    <3> QED
      BY <2>1, <2>4, <2>5, <3>1, <3>2
  <2>6. CASE ident[c] # t
    <3>1. Closed(t)' = Closed(t)
      BY <1>1, <2>6 DEF Closed
    <3> QED
      BY <1>1, <2>1, <2>4, <2>6, <3>1
  <2> QED
    BY <2>5, <2>6
<1> QED
  BY <1>2, <1>3

\* what lies behind the queue of adapter_cmd_doit
Rest(t) == Offlines(tasks, t) + Cardinality(Holding(t)) + Published(t)

\* a step that leaves a part alone leaves its count alone
LEMMA RestSame ==
    ASSUME UNCHANGED <<tasks, pool, zmq>>, NEW t
    PROVE  Rest(t)' = Rest(t)
  BY DEF pool, zmq, Rest, Holding, Published

Balanced == \A t \in Tokens : Due(t) = Offlines(queue_cmd, t) + Rest(t)

\* the same sum, in the two ways it is split
LEMMA Balance == Types => (OneOfflineEach <=> Balanced)
<1> SUFFICES ASSUME Types PROVE OneOfflineEach <=> Balanced
  OBVIOUS
<1>1. \A t \in Tokens : /\ Offlines(queue_cmd, t) \in Nat /\ Offlines(tasks, t) \in Nat
                        /\ Cardinality(Holding(t)) \in Nat /\ Published(t) \in Nat
  BY CountsNat DEF Published
<1> QED
  BY <1>1 DEF OneOfflineEach, Balanced, Rest

\* the balance of the next state, in terms of the counts
LEMMA BalanceNext == Types' => (OneOfflineEach' <=> Balanced')
<1>1. Types => (OneOfflineEach <=> Balanced)
  BY Balance
<1> QED
  BY <1>1, PTL

\* the rest of the balance is a natural number
LEMMA RestNat ==
    ASSUME Types, NEW t \in Tokens
    PROVE  Rest(t) \in Nat
  BY CountsNat DEF Rest, Published

\* a connection is closed, the rest stays
LEMMA CloseKeepsBalance ==
    ASSUME Types, Types', OneOfflineEach, NEW c \in open, open' = open \ {c},
           queue_cmd' = queue_cmd \o OfflineOf(c),
           \A d \in Conns \ open' : ident'[d] = ident[d], UNCHANGED <<tasks, pool, asked, zmq>>
    PROVE  OneOfflineEach'
<1>1. ASSUME NEW t \in Tokens PROVE Due(t)' = Offlines(queue_cmd', t) + Rest(t)'
  <2>1. PICK n \in {0, 1} : /\ Cardinality(Closed(t)') = Cardinality(Closed(t)) + n
                            /\ Offlines(queue_cmd', t) = Offlines(queue_cmd, t) + n
    BY CloseBalances
  <2>2. Due(t) = Offlines(queue_cmd, t) + Rest(t)
    BY Balance DEF Balanced
  <2>3. /\ Offlines(queue_cmd, t) \in Nat /\ Rest(t) \in Nat /\ Rest(t)' = Rest(t)
        /\ Cardinality(Closed(t)) \in Nat /\ asked[t] \in Nat
    BY CountsNat, RestNat, RestSame, Zenon
  <2>4. Due(t)' = Due(t) + n
    BY <2>1, <2>3 DEF Due
  <2> QED
    BY <2>1, <2>2, <2>3, <2>4 DEF Due
<1> QED
  BY <1>1, BalanceNext DEF Balanced

\* neither the notices due nor the notices there are change
LEMMA BalanceSame ==
    ASSUME OneOfflineEach, \A t \in Tokens : Due(t)' = Due(t), UNCHANGED <<queue_cmd, tasks, pool, zmq>>
    PROVE  OneOfflineEach'
  BY DEF OneOfflineEach, Holding, Published, pool, zmq

\* the same, for the reactor's variables
LEMMA DueSame ==
    ASSUME UNCHANGED <<open, ident, asked>>
    PROVE  \A t : Due(t)' = Due(t)
  BY DEF Due, Closed

\* a command of the reactor keeps the balance
LEMMA CmdBalance ==
    ASSUME Types, Types', OneOfflineEach, ReactorCmd
    PROVE  OneOfflineEach'
<1> DEFINE c == Head(rtn)
<1>1. ReactorType /\ rtn # <<>> /\ c \in Proper /\ PipeCmd(c)
  BY TailSeq, Zenon DEF Types, QueueInv, ReactorCmd, CmdDropped, CmdSend, CmdClose, CmdAuth
<1>2. UNCHANGED <<tasks, pool, asked, zmq>>
  BY <1>1 DEF PipeCmd, traffic
<1>3. ASSUME NEW d \in open, CloseInternal(d), UNCHANGED ident PROVE OneOfflineEach'
  BY <1>2, <1>3, CloseKeepsBalance DEF CloseInternal
<1>4. CASE CmdDropped(c)
  BY <1>2, <1>4, DueSame, BalanceSame DEF CmdDropped, reactor
<1>5. CASE CmdSend(c)
  BY <1>2, <1>3, <1>5, DueSame, BalanceSame DEF CmdSend
<1>6. CASE CmdClose(c)
  BY <1>3, <1>6 DEF CmdClose
<1>7. CASE CmdAuth(c)
  <2> DEFINE old == holder[c.token]
             other == old \in open /\ old # c.conn
  <2>1. /\ c.conn \in open /\ c.conn \in Conns /\ ident' = [ident EXCEPT ![c.conn] = c.token]
        /\ open' = (IF other THEN open \ {old} ELSE open)
        /\ queue_cmd' = IF other THEN queue_cmd \o OfflineOf(old) ELSE queue_cmd
    BY <1>1, <1>7, Zenon DEF CmdAuth, ReactorType
  <2>2. \A d \in Conns : d # c.conn => ident'[d] = ident[d]
    BY <1>1, <2>1, Zenon DEF ReactorType
  <2>3. c.conn \in open'
    BY <2>1
  <2>4. CASE other
    BY <1>2, <2>1, <2>2, <2>3, <2>4, CloseKeepsBalance
  <2>5. CASE ~other
    <3>1. \A t \in Tokens : Due(t)' = Due(t)
      BY <1>2, <2>1, <2>2, <2>5, Zenon DEF Due, Closed
    <3> QED
      BY <1>2, <2>1, <2>5, <3>1, BalanceSame
  <2> QED
    BY <2>4, <2>5
<1> QED
  BY <1>4, <1>5, <1>6, <1>7 DEF ReactorCmd

\* a step of the clients keeps the balance
LEMMA EnvBalance ==
    ASSUME Types, Types', OneOfflineEach, Environment
    PROVE  OneOfflineEach'
<1>1. ASSUME NEW c \in Conns, PeerCloses(c) \/ RecvRefused(c) PROVE OneOfflineEach'
  <2>1. c \in open /\ CloseInternal(c) /\ UNCHANGED <<ident, tasks, pool, asked, zmq>>
    BY <1>1 DEF PeerCloses, RecvRefused, Receives, traffic
  <2> QED
    BY <2>1, CloseKeepsBalance DEF CloseInternal
<1>2. ASSUME NEW m \in Sound, queue_cmd' = Append(queue_cmd, m),
             \A t \in Tokens : asked'[t] = asked[t] + One(m, t),
             UNCHANGED <<reactor, tasks, pool, zmq>>
      PROVE  OneOfflineEach'
  <2>1. ASSUME NEW t \in Tokens PROVE Due(t)' = Offlines(queue_cmd', t) + Rest(t)'
    <3>1. queue_cmd \in Seq(Sound) /\ One(m, t) \in {0, 1}
      BY DEF One, Types, QueueInv
    <3>2. Offlines(queue_cmd', t) = Offlines(queue_cmd, t) + One(m, t)
      BY <1>2, <3>1, OfflinesAppend
    <3>3. Closed(t)' = Closed(t) /\ Rest(t)' = Rest(t)
      BY <1>2, RestSame DEF reactor, Closed
    <3>4. /\ Offlines(queue_cmd, t) \in Nat /\ Rest(t) \in Nat
          /\ Cardinality(Closed(t)) \in Nat /\ asked[t] \in Nat
      BY CountsNat, RestNat, Zenon
    <3>5. Due(t) = Offlines(queue_cmd, t) + Rest(t)
      BY Balance DEF Balanced
    <3>6. Due(t)' = Due(t) + One(m, t)
      BY <1>2, <3>1, <3>3, <3>4 DEF Due
    <3> QED
      BY <3>1, <3>2, <3>3, <3>4, <3>5, <3>6
  <2> QED
    BY <2>1, BalanceNext DEF Balanced
<1>3. ASSUME NEW c \in Conns, RecvRequest(c) PROVE OneOfflineEach'
  <2>1. PICK p \in {"getkey", "auth", "data", "offline"}, k \in Keys \cup {NoKey} :
            (p \in {"data", "offline"} => Authed(c)) /\ HandOn(c, p, k)
    BY <1>3, Zenon DEF RecvRequest
  <2> DEFINE m == [path |-> p, conn |-> c, token |-> ident[c], key |-> k]
  <2>2. m \in Sound
    BY <2>1 DEF Authed, Types, ReactorType, Sound, Request
  <2>3. \A t \in Tokens : asked'[t] = asked[t] + One(m, t)
    BY <2>1 DEF HandOn, One
  <2>4. queue_cmd' = Append(queue_cmd, m) /\ UNCHANGED <<reactor, tasks, pool, zmq>>
    BY <1>3, <2>1 DEF RecvRequest, HandOn
  <2> HIDE DEF m
  <2> QED
    BY <1>2, <2>2, <2>3, <2>4
<1>4. ASSUME NEW c \in Conns, RecvHeartbeat(c) PROVE OneOfflineEach'
  <2> DEFINE m == [path |-> "heartbeat", conn |-> c, token |-> ident[c], key |-> NoKey]
  <2>1. m \in Sound
    BY <1>4 DEF RecvHeartbeat, Authed, Types, ReactorType, Sound, Request
  <2>2. \A t \in Tokens : asked'[t] = asked[t] + One(m, t)
    <3>1. \A t \in Tokens : One(m, t) = 0 /\ asked[t] \in Nat
      BY DEF One, Types, QueueInv
    <3> QED
      BY <1>4, <3>1 DEF RecvHeartbeat
  <2>3. queue_cmd' = Append(queue_cmd, m) /\ UNCHANGED <<reactor, tasks, pool, zmq>>
    BY <1>4 DEF RecvHeartbeat
  <2> HIDE DEF m
  <2> QED
    BY <1>2, <2>1, <2>2, <2>3
<1>5. ASSUME NEW k \in Keys, KeyExpires(k) PROVE OneOfflineEach'
  BY <1>5, DueSame, BalanceSame DEF KeyExpires, reactor, traffic
<1>6. ASSUME NEW t \in Tokens, SubRecv(t) PROVE OneOfflineEach'
  BY <1>6, DueSame, BalanceSame DEF SubRecv, reactor
<1> QED
  BY <1>1, <1>3, <1>4, <1>5, <1>6 DEF Environment

\* no notice is in a queue but moves on to the next
LEMMA DispatchBalance ==
    ASSUME Types, Types', OneOfflineEach, Dispatch
    PROVE  OneOfflineEach'
<1> DEFINE m == Head(queue_cmd)
<1>1. /\ queue_cmd \in Seq(Sound) /\ queue_cmd # <<>> /\ queue_cmd' = Tail(queue_cmd)
      /\ m \in Sound /\ tasks \in Seq(Task) /\ queue_send \in Seq(Notices)
  BY TailSeq DEF Dispatch, Types, QueueInv, ZTypeOK
<1>2. ASSUME NEW t \in Tokens
      PROVE  Due(t)' = Offlines(queue_cmd', t) + Rest(t)'
  <2>1. Due(t)' = Due(t) /\ Holding(t)' = Holding(t)
    BY DEF Dispatch, reactor, pool, traffic, Due, Closed, Holding
  <2>2. Offlines(queue_cmd, t) = Offlines(queue_cmd', t) + One(m, t)
    BY <1>1, OfflinesTail
  <2>3. /\ Offlines(queue_cmd', t) \in Nat /\ Offlines(tasks, t) \in Nat /\ Cardinality(Holding(t)) \in Nat
        /\ Published(t) \in Nat /\ One(m, t) \in {0, 1}
    <3>1. queue_cmd' \in Seq(Sound)
      BY DEF Types, QueueInv
    <3>2. Offlines(queue_cmd', t) \in Nat
      BY <3>1, OfflinesNat, Zenon
    <3>3. One(m, t) \in {0, 1}
      BY DEF One
    <3> QED
      BY <3>2, <3>3, CountsNat DEF Published
  <2>4. Due(t) = Offlines(queue_cmd, t) + (Offlines(tasks, t) + Cardinality(Holding(t)) + Published(t))
    BY Balance DEF Balanced, Rest
  <2>5. CASE m.path # "data" /\ tasks' = Append(tasks, m) /\ UNCHANGED zmq
    <3>1. m \in Task /\ Published(t)' = Published(t)
      BY <1>1, <2>5 DEF Task, zmq, Published
    <3>2. Offlines(tasks', t) = Offlines(tasks, t) + One(m, t)
      BY <1>1, <2>5, <3>1, OfflinesAppend
    <3> HIDE DEF m
    <3> QED
      BY <2>1, <2>2, <2>3, <2>4, <3>1, <3>2 DEF Rest
  <2>6. CASE m.path = "data" /\ SendData([path |-> "data", token |-> m.token]) /\ UNCHANGED tasks
    <3> DEFINE n == [path |-> "data", token |-> m.token]
    <3>1. One(m, t) = 0 /\ One(n, t) = 0 /\ n \in Notices
      BY <1>1, <2>6 DEF One, Sound, Notices
    <3>2. queue_send' = Append(queue_send, n) /\ UNCHANGED <<queue_ipc, router, lost>>
      BY <2>6 DEF SendData
    <3> HIDE DEF n
    <3>3. Offlines(queue_send', t) = Offlines(queue_send, t) + 0
      BY <1>1, <3>1, <3>2, OfflinesAppend
    <3>4. Offlines(queue_send, t) \in Nat
      BY CountsNat
    <3>5. Published(t)' = Published(t)
      BY <3>2, <3>3, <3>4 DEF Published
    <3> HIDE DEF m
    <3> QED
      BY <2>1, <2>2, <2>3, <2>4, <2>6, <3>1, <3>5, SMTT(20) DEF Rest
  <2> QED
    BY <2>5, <2>6, Zenon DEF Dispatch
<1> QED
  BY <1>2, BalanceNext DEF Balanced

\* a step of the sockets keeps the balance
LEMMA ZmqBalance ==
    ASSUME Types, Types', OneOfflineEach, ZmqStep
    PROVE  OneOfflineEach'
<1>1. ASSUME NEW t \in Tokens PROVE Published(t)' = Published(t)
  <2>1. /\ queue_send \in Seq(Notices) /\ queue_ipc \in Seq(Notices)
        /\ router \in Seq(Notices) /\ lost \in Seq(Notices)
    BY DEF Types, ZTypeOK
  <2>2. /\ Offlines(queue_send, t) \in Nat /\ Offlines(queue_ipc, t) \in Nat
        /\ Offlines(router, t) \in Nat /\ Offlines(lost, t) \in Nat
    BY CountsNat
  <2>3. CASE Forward
    <3> DEFINE m == Head(queue_send)
    <3>1. /\ queue_send # <<>> /\ queue_send' = Tail(queue_send)
          /\ queue_ipc' = Append(queue_ipc, m) /\ UNCHANGED <<router, lost>>
      BY <2>3 DEF Forward
    <3>2. m \in Notices /\ queue_send' \in Seq(Notices) /\ One(m, t) \in {0, 1}
      BY <2>1, <3>1, TailSeq DEF One
    <3>3. Offlines(queue_send, t) = Offlines(queue_send', t) + One(m, t) /\ Offlines(queue_send', t) \in Nat
      BY <2>1, <3>1, <3>2, OfflinesTail, OfflinesNat, Zenon
    <3>4. Offlines(queue_ipc', t) = Offlines(queue_ipc, t) + One(m, t)
      BY <2>1, <3>1, <3>2, OfflinesAppend
    <3> HIDE DEF m
    <3> QED
      BY <2>2, <3>1, <3>2, <3>3, <3>4 DEF Published
  <2>4. CASE Wake
    BY <2>4 DEF Wake, Published
  <2>5. CASE Relay
    <3> DEFINE m == Head(queue_ipc)
    <3>1. /\ queue_ipc # <<>> /\ queue_ipc' = Tail(queue_ipc) /\ UNCHANGED queue_send
          /\ \/ router' = Append(router, m) /\ UNCHANGED lost
             \/ lost' = Append(lost, m) /\ UNCHANGED router
      BY <2>5 DEF Relay
    <3>2. m \in Notices /\ queue_ipc' \in Seq(Notices) /\ One(m, t) \in {0, 1}
      BY <2>1, <3>1, TailSeq DEF One
    <3>3. Offlines(queue_ipc, t) = Offlines(queue_ipc', t) + One(m, t) /\ Offlines(queue_ipc', t) \in Nat
      BY <2>1, <3>1, <3>2, OfflinesTail, OfflinesNat, Zenon
    <3> HIDE DEF m
    <3>4. CASE router' = Append(router, m) /\ UNCHANGED lost
      <4>1. Offlines(router', t) = Offlines(router, t) + One(m, t)
        BY <2>1, <3>2, <3>4, OfflinesAppend
      <4> QED
        BY <2>2, <3>1, <3>2, <3>3, <3>4, <4>1, SMTT(20) DEF Published
    <3>5. CASE lost' = Append(lost, m) /\ UNCHANGED router
      <4>1. Offlines(lost', t) = Offlines(lost, t) + One(m, t)
        BY <2>1, <3>2, <3>5, OfflinesAppend
      <4> QED
        BY <2>2, <3>1, <3>2, <3>3, <3>5, <4>1, SMTT(20) DEF Published
    <3> QED
      BY <3>1, <3>4, <3>5
  <2> QED
    BY <2>3, <2>4, <2>5 DEF ZmqStep, ZNext
<1>2. UNCHANGED <<queue_cmd, tasks>> /\ \A t : Due(t)' = Due(t) /\ Holding(t)' = Holding(t)
  BY Zenon DEF ZmqStep, reactor, pool, traffic, Due, Closed, Holding
<1> QED
  BY <1>1, <1>2 DEF OneOfflineEach

\* w's job is no notice, before and after
LEMMA HoldingSame ==
    ASSUME NEW w \in Workers, NEW t, \A v \in Workers : v # w => job'[v] = job[v],
           job[w] = NoJob \/ job[w].path # "offline", job'[w] = NoJob \/ job'[w].path # "offline"
    PROVE  Holding(t)' = Holding(t)
  BY DEF Holding

\* a worker that answers, or asks redis and the token service, has no notice
LEMMA AnswerBalance ==
    ASSUME Types, OneOfflineEach, NEW w \in Workers,
           \/ SetKey(w) \/ SetExpire(w) \/ QueryKey(w) \/ RemoveKey(w) \/ FetchToken(w)
           \/ AuthOk(w) \/ Reply(w) \/ Refuse(w) \/ ReplyClose(w)
    PROVE  OneOfflineEach'
<1>1. JobInv
  BY DEF Types
<1>2. UNCHANGED <<reactor, queue_cmd, tasks, traffic, zmq>>
  BY DEF SetKey, SetExpire, QueryKey, RemoveKey, FetchToken, AuthOk, Reply, Refuse, ReplyClose
<1>3. \A v \in Workers : v # w => job'[v] = job[v]
  BY <1>1 DEF JobInv, SetKey, SetExpire, QueryKey, RemoveKey, FetchToken, AuthOk,
              Reply, Refuse, ReplyClose, Done
<1>4. wpc[w] \in {"set", "expire", "query", "remove", "token", "authok", "reply", "refuse", "close"}
  BY DEF Goto, Done, SetKey, SetExpire, QueryKey, RemoveKey, FetchToken, AuthOk, Reply, Refuse, ReplyClose
<1>5. job[w] \in Request /\ job[w].path \in {"getkey", "auth"}
  BY <1>1, <1>4 DEF JobInv, Fits
<1>6. job'[w] = NoJob \/ job'[w].path = job[w].path
  <2>1. CASE job' = job
    BY <2>1
  <2>2. CASE job' = [job EXCEPT ![w] = NoJob]
    BY <1>1, <2>2 DEF JobInv
  <2>3. ASSUME NEW k, job' = [job EXCEPT ![w].key = k] \/ job' = [job EXCEPT ![w].token = k]
        PROVE  job'[w].path = job[w].path
    BY <1>1, <1>5, <2>3 DEF JobInv, Request
  <2> QED
    BY <2>1, <2>2, <2>3 DEF SetKey, SetExpire, QueryKey, RemoveKey, FetchToken, AuthOk,
                            Reply, Refuse, ReplyClose, Done
<1>7. \A t : Holding(t)' = Holding(t) /\ Due(t)' = Due(t) /\ Published(t)' = Published(t)
  <2>1. \A t : Holding(t)' = Holding(t)
    BY <1>3, <1>5, <1>6, HoldingSame, Zenon
  <2>2. \A t : Due(t)' = Due(t) /\ Published(t)' = Published(t)
    BY <1>2, Zenon DEF reactor, traffic, zmq, Due, Closed, Published
  <2> QED
    BY <2>1, <2>2
<1> QED
  BY <1>2, <1>7 DEF OneOfflineEach

\* a worker taking a task keeps the balance
LEMMA TakeBalance ==
    ASSUME Types, Types', OneOfflineEach, NEW w \in Workers, TakeTask(w)
    PROVE  OneOfflineEach'
<1> DEFINE m == Head(tasks)
<1>1. /\ tasks \in Seq(Task) /\ tasks # <<>> /\ tasks' = Tail(tasks) /\ m \in Request
      /\ UNCHANGED <<reactor, queue_cmd, traffic, zmq>>
  BY TailSeq DEF TakeTask, Types, QueueInv, Task, Sound
<1>2. job[w] = NoJob /\ job'[w] = m /\ m # NoJob /\ \A v \in Workers : v # w => job'[v] = job[v]
  BY <1>1, JobAssumption DEF TakeTask, Goto, Types, JobInv
<1> HIDE DEF m
<1>3. ASSUME NEW t \in Tokens
      PROVE  Offlines(tasks', t) + Cardinality(Holding(t)') = Offlines(tasks, t) + Cardinality(Holding(t))
  <2>1. Offlines(tasks, t) = Offlines(tasks', t) + One(m, t)
    BY <1>1, OfflinesTail DEF m
  <2>2. Offlines(tasks', t) \in Nat
    BY OfflinesNat, Zenon DEF Types, QueueInv
  <2>3. IsFiniteSet(Holding(t)) /\ Cardinality(Holding(t)) \in Nat /\ w \notin Holding(t)
    BY <1>2, CountsNat, Zenon DEF Holding
  <2>4. CASE m.path = "offline" /\ m.token = t
    <3>1. Holding(t)' = Holding(t) \cup {w} /\ One(m, t) = 1
      <4>1. One(m, t) = 1
        BY <2>4 DEF One
      <4>2. ASSUME NEW v \in Workers, v # w PROVE v \in Holding(t)' <=> v \in Holding(t)
        BY <1>2, <4>2 DEF Holding
      <4>3. w \in Holding(t)'
        BY <1>2, <2>4 DEF Holding
      <4>4. Holding(t) \subseteq Workers /\ Holding(t)' \subseteq Workers
        BY DEF Holding
      <4> QED
        BY <4>1, <4>2, <4>3, <4>4
    <3>2. Cardinality(Holding(t) \cup {w}) = Cardinality(Holding(t)) + 1
      BY <2>3, FS_AddElement, Zenon
    <3> QED
      BY <2>1, <2>2, <2>3, <3>1, <3>2
  <2>5. CASE ~(m.path = "offline" /\ m.token = t)
    <3>1. Holding(t)' = Holding(t) /\ One(m, t) = 0
      BY <1>2, <2>5 DEF Holding, One
    <3> QED
      BY <2>1, <2>2, <2>3, <3>1, SMTT(20)
  <2> QED
    BY <2>4, <2>5
<1>4. ASSUME NEW t \in Tokens PROVE Due(t)' = Offlines(queue_cmd', t) + Rest(t)'
  <2>1. Due(t)' = Due(t) /\ Published(t)' = Published(t)
    BY <1>1 DEF reactor, traffic, zmq, Due, Closed, Published
  <2>2. Due(t) = Offlines(queue_cmd, t) + Rest(t)
    BY Balance DEF Balanced
  <2> QED
    BY <1>1, <1>3, <2>1, <2>2, SMTT(20) DEF Rest
<1> QED
  BY <1>4, BalanceNext DEF Balanced

\* publishing a message keeps the balance
LEMMA PublishBalance ==
    ASSUME Types, Types', OneOfflineEach, NEW w \in Workers, Publish(w)
    PROVE  OneOfflineEach'
<1> DEFINE n == [path |-> job[w].path, token |-> job[w].token]
<1>1. /\ UNCHANGED <<reactor, queue_cmd, tasks, traffic, queue_ipc, router, lost>>
      /\ queue_send' = Append(queue_send, n) /\ queue_send \in Seq(Notices)
  BY DEF Publish, SendData, Types, ZTypeOK
<1>2. Fits(job[w], "publish") /\ job'[w] = NoJob /\ \A v \in Workers : v # w => job'[v] = job[v]
  BY Zenon DEF Publish, Done, Goto, Types, JobInv
<1>3. job[w] # NoJob /\ n \in Notices /\ n.path = job[w].path /\ n.token = job[w].token
  BY <1>2, JobAssumption, Zenon DEF Fits, Notices
<1> HIDE DEF n
<1>4. ASSUME NEW t \in Tokens
      PROVE  Offlines(queue_send', t) + Cardinality(Holding(t)') = Offlines(queue_send, t) + Cardinality(Holding(t))
  <2>1. Offlines(queue_send', t) = Offlines(queue_send, t) + One(n, t)
    BY <1>1, <1>3, OfflinesAppend, Zenon
  <2>2. Offlines(queue_send, t) \in Nat /\ IsFiniteSet(Holding(t)) /\ Cardinality(Holding(t)) \in Nat
    BY CountsNat
  <2>3. CASE n.path = "offline" /\ n.token = t
    <3>1. Holding(t)' = Holding(t) \ {w} /\ w \in Holding(t) /\ One(n, t) = 1
      BY <1>2, <1>3, <2>3, Zenon DEF Holding, One
    <3>2. Cardinality(Holding(t) \ {w}) = Cardinality(Holding(t)) - 1
      BY <2>2, <3>1, FS_RemoveElement, Zenon
    <3> QED
      BY <2>1, <2>2, <3>1, <3>2
  <2>4. CASE ~(n.path = "offline" /\ n.token = t)
    <3>1. Holding(t)' = Holding(t) /\ One(n, t) = 0
      BY <1>2, <1>3, <2>4 DEF Holding, One
    <3> QED
      BY <2>1, <2>2, <3>1
  <2> QED
    BY <2>3, <2>4
<1>5. ASSUME NEW t \in Tokens PROVE Due(t)' = Offlines(queue_cmd', t) + Rest(t)'
  <2>1. Due(t)' = Due(t)
    BY <1>1 DEF reactor, traffic, Due, Closed
  <2>2. Due(t) = Offlines(queue_cmd, t) + Rest(t)
    BY Balance DEF Balanced
  <2>3. Offlines(queue_send', t) \in Nat /\ Cardinality(Holding(t)') \in Nat
    <3>1. queue_send' \in Seq(Notices) /\ Holding(t)' \subseteq Workers
      BY DEF Types, ZTypeOK, Holding
    <3>2. IsFiniteSet(Holding(t)')
      BY <3>1, BoundAssumption, FS_Subset
    <3> QED
      BY <3>1, <3>2, OfflinesNat, FS_CardinalityType, Zenon
  <2>4. /\ Offlines(tasks, t) \in Nat /\ Offlines(queue_send, t) \in Nat
        /\ Offlines(queue_ipc, t) \in Nat /\ Offlines(router, t) \in Nat
        /\ Offlines(lost, t) \in Nat /\ Cardinality(Holding(t)) \in Nat
    BY CountsNat
  <2>5. Rest(t)' = Rest(t)
    <3>1. Rest(t) = Offlines(tasks, t) + Cardinality(Holding(t))
                    + (Offlines(queue_send, t) + Offlines(queue_ipc, t) + Offlines(router, t) + Offlines(lost, t))
      BY DEF Rest, Published
    <3>2. Rest(t)' = Offlines(tasks, t) + Cardinality(Holding(t)')
                     + (Offlines(queue_send', t) + Offlines(queue_ipc, t) + Offlines(router, t) + Offlines(lost, t))
      BY <1>1 DEF Rest, Published
    <3>3. Offlines(queue_send', t) + Cardinality(Holding(t)') = Offlines(queue_send, t) + Cardinality(Holding(t))
      BY <1>4
    <3> HIDE DEF n
    <3> QED
      BY <2>3, <2>4, <3>1, <3>2, <3>3, SMTT(30)
  <2> QED
    BY <1>1, <2>1, <2>2, <2>5
<1> QED
  BY <1>5, BalanceNext DEF Balanced

\* every step keeps the balance
LEMMA NextBalance == Types /\ Types' /\ OneOfflineEach /\ [Next]_vars => OneOfflineEach'
<1> SUFFICES ASSUME Types, Types', OneOfflineEach, [Next]_vars PROVE OneOfflineEach'
  OBVIOUS
<1>1. ASSUME NEW w \in Workers, Worker(w) PROVE OneOfflineEach'
  BY <1>1, AnswerBalance, TakeBalance, PublishBalance DEF Worker
<1>2. CASE UNCHANGED vars
  BY <1>2, DueSame, BalanceSame DEF vars, reactor, traffic
<1> QED
  BY <1>1, <1>2, CmdBalance, EnvBalance, DispatchBalance, ZmqBalance DEF Next

(***************************************************************************)
(* Between the reactor and the router's socket no offline notice vanishes  *)
(* or is sent twice: one is on its way, delivered, or counted among the    *)
(* failed sends for each authenticated connection that was closed, in      *)
(* whichever way, and for each time a client sent the path itself.         *)
(***************************************************************************)
THEOREM OfflineSafe == Spec => []OneOfflineEach
<1>1. Init => OneOfflineEach
  <2> SUFFICES ASSUME Init, NEW t \in Tokens
               PROVE  Due(t) =
                        Offlines(queue_cmd, t) + Offlines(tasks, t) + Cardinality(Holding(t)) + Published(t)
    BY DEF OneOfflineEach
  <2>1. Closed(t) = {} /\ Holding(t) = {}
    BY DEF Init, Closed, Holding
  <2>2. Cardinality(Closed(t)) = 0 /\ Cardinality(Holding(t)) = 0 /\ asked[t] = 0
    BY <2>1, FS_EmptySet DEF Init
  <2>3. /\ Offlines(queue_cmd, t) = 0 /\ Offlines(tasks, t) = 0 /\ Offlines(queue_send, t) = 0
        /\ Offlines(queue_ipc, t) = 0 /\ Offlines(router, t) = 0 /\ Offlines(lost, t) = 0
    BY OfflinesEmpty DEF Init, ZInit
  <2> QED
    BY <2>2, <2>3 DEF Published, Due
<1> QED
  BY <1>1, NextBalance, TypesInvariant, PTL DEF Spec

=============================================================================
