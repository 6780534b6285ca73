---------------------------- MODULE IdleTimeout ----------------------------
(***************************************************************************)
(* The clock behind tcpserver::check_timeout: which connections of the     *)
(* reactor are closed for being idle, and when.  A connection is refreshed *)
(* by its creation and by every command that sends it data, and by nothing *)
(* it sends itself.  The reactor looks at the clock after every batch of   *)
(* events, and at the latest when epoll_wait times out.                    *)
(*                                                                         *)
(* Seconds are uint64_t: a difference is taken modulo 2^64.  The clock is  *)
(* the wall clock time(NULL): it may be set back or put forward at any     *)
(* time, and a correction of the one is the other.  Seconds by which it is *)
(* put forward count as idle ones.                                         *)
(***************************************************************************)
EXTENDS Integers, FiniteSets

CONSTANTS Clients,       \* connections
          Gone,          \* not connected
          Interval,      \* check_timeout_interval_seconds
          Timeout,       \* invalid_socket_timeout_seconds
          EpollTimeout,  \* epoll_timeout_seconds
          Seconds,       \* values of a count of seconds: 2^64 in the code
          MaxTime,       \* bound: the last second
          MaxSkip        \* bound: seconds the clock is put forward after an update

ASSUME TimeAssumption ==
    /\ Interval \in Nat /\ Timeout \in Nat /\ EpollTimeout \in Nat \ {0}
    /\ MaxTime \in Nat /\ MaxSkip \in Nat
    /\ Seconds \in Nat /\ Timeout < Seconds /\ MaxTime < Seconds
    /\ Gone \notin Nat

VARIABLES real,          \* seconds that have really passed
          now,           \* time(NULL)
          last,          \* m_last_update_seconds of each connection, or Gone
          since,         \* history: real time of that update
          skipped,       \* history: seconds the clock was put forward after it
          checked,       \* m_last_timeout_check_seconds
          rpc,           \* is the reactor in epoll_wait or handling events?
          waiting,       \* seconds since epoll_wait was called
          disturbed      \* history: was the clock set back, or epoll_wait interrupted?

idleVars == <<real, now, last, since, skipped, checked, rpc, waiting, disturbed>>

\* init_tcpserver
IdleInit == /\ real = 0 /\ now = 0
            /\ last = [c \in Clients |-> Gone]
            /\ since = [c \in Clients |-> 0] /\ skipped = [c \in Clients |-> 0]
            /\ checked = now
            /\ rpc = "wait" /\ waiting = 0
            /\ disturbed = FALSE

Elapsed(a, b) == (a - b) % Seconds

Due == now > checked /\ Elapsed(now, checked) >= Interval

\* mutant: the difference is taken without the comparison of line 760
IdleUnguarded(c) == last[c] # Gone /\ Elapsed(now, last[c]) > Timeout

Idle(c) == last[c] # Gone /\ last[c] < now /\ Elapsed(now, last[c]) > Timeout

-----------------------------------------------------------------------------
\* time passes in epoll_wait only: a batch of non-blocking handlers takes no second
Tick ==
    /\ rpc = "wait" /\ waiting < EpollTimeout
    /\ real < MaxTime /\ now < MaxTime
    /\ real' = real + 1 /\ now' = now + 1 /\ waiting' = waiting + 1
    /\ UNCHANGED <<last, since, skipped, checked, rpc, disturbed>>

SetBack ==
    /\ now' \in 0 .. (now - 1)
    /\ disturbed' = TRUE
    /\ UNCHANGED <<real, last, since, skipped, checked, rpc, waiting>>

SetForward ==
    /\ \E d \in 1..MaxSkip :
          /\ now + d <= MaxTime /\ \A c \in Clients : skipped[c] + d <= MaxSkip
          /\ now' = now + d
          /\ skipped' = [c \in Clients |-> skipped[c] + d]
    /\ UNCHANGED <<real, last, since, checked, rpc, waiting, disturbed>>

\* EINTR: the loop calls epoll_wait again, with the whole timeout and no check
Interrupted ==
    /\ rpc = "wait"
    /\ waiting' = 0
    /\ disturbed' = TRUE
    /\ UNCHANGED <<real, now, last, since, skipped, checked, rpc>>

Wake ==
    /\ rpc = "wait"
    /\ rpc' = "events"
    /\ UNCHANGED <<real, now, last, since, skipped, checked, waiting, disturbed>>

Update(c) ==
    /\ last' = [last EXCEPT ![c] = now]
    /\ since' = [since EXCEPT ![c] = real]
    /\ skipped' = [skipped EXCEPT ![c] = 0]

\* socket_client's constructor
Connect(c) ==
    /\ rpc = "events" /\ last[c] = Gone
    /\ Update(c)
    /\ UNCHANGED <<real, now, checked, rpc, waiting, disturbed>>

\* PIPE_CMD_SEND
Send(c) ==
    /\ rpc = "events" /\ last[c] # Gone
    /\ Update(c)
    /\ UNCHANGED <<real, now, checked, rpc, waiting, disturbed>>

\* the connection is closed for another reason
Close(c) ==
    /\ rpc = "events" /\ last[c] # Gone
    /\ last' = [last EXCEPT ![c] = Gone]
    /\ UNCHANGED <<real, now, since, skipped, checked, rpc, waiting, disturbed>>

\* mutant: the time of the last check is set whether or not a check was due
CheckTimeoutAlways ==
    /\ rpc = "events" \/ waiting = EpollTimeout
    /\ last' = [c \in Clients |-> IF Due /\ Idle(c) THEN Gone ELSE last[c]]
    /\ checked' = now
    /\ rpc' = "wait" /\ waiting' = 0
    /\ UNCHANGED <<real, now, since, skipped, disturbed>>

\* check_timeout, at the end of a batch or when epoll_wait times out
CheckTimeout ==
    /\ rpc = "events" \/ waiting = EpollTimeout
    /\ last' = [c \in Clients |-> IF Due /\ Idle(c) THEN Gone ELSE last[c]]
    /\ checked' = IF Due THEN now ELSE checked
    /\ rpc' = "wait" /\ waiting' = 0
    /\ UNCHANGED <<real, now, since, skipped, disturbed>>

IdleNext ==
    \/ Tick \/ SetBack \/ SetForward \/ Interrupted \/ Wake \/ CheckTimeout
    \/ \E c \in Clients : Connect(c) \/ Send(c) \/ Close(c)

IdleSpec == IdleInit /\ [][IdleNext]_idleVars

-----------------------------------------------------------------------------
\* types of the variables
IdleTypeOK ==
    /\ real \in 0..MaxTime /\ now \in 0..MaxTime
    /\ last \in [Clients -> (0..MaxTime) \cup {Gone}]
    /\ since \in [Clients -> 0..MaxTime] /\ skipped \in [Clients -> 0..MaxSkip]
    /\ checked \in 0..MaxTime
    /\ rpc \in {"wait", "events"}
    /\ waiting \in 0..EpollTimeout
    /\ disturbed \in BOOLEAN

(***************************************************************************)
(* check_timeout closes nobody who was created or sent something in the    *)
(* last Timeout seconds, where the seconds that really passed count and    *)
(* those by which the clock was put forward: setting it back never brings  *)
(* a close about, although the unsigned difference would wrap, and putting *)
(* it forward brings a close forward by no more than that.                 *)
(***************************************************************************)
NeverTooEarly ==
    [][ \A c \in Clients : CheckTimeout /\ last[c] # Gone /\ last'[c] = Gone
            => real - since[c] + skipped[c] > Timeout ]_idleVars

(***************************************************************************)
(* While the clock is not set back and no signal restarts epoll_wait, an   *)
(* idle connection is open at most the timeout, one check interval and one *)
(* epoll_wait after its last send: check_timeout runs after every batch    *)
(* and whenever epoll_wait times out.  Putting the clock forward delays    *)
(* nothing.                                                                *)
(***************************************************************************)
NeverTooLate ==
    ~disturbed =>
        \A c \in Clients :
            last[c] # Gone => real - since[c] <= Timeout + Interval + EpollTimeout

=============================================================================
