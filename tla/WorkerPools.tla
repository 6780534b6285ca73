---------------------------- MODULE WorkerPools -----------------------------
(***************************************************************************)
(* The thread pool and the redis pool of notify_adapter_v2 together: the   *)
(* tasks of dispatcher.cpp run on the workers of ThreadPool, and while     *)
(* they run they borrow a redis client of ObjectPool, each time through a  *)
(* guard of its own.                                                       *)
(***************************************************************************)
EXTENDS ThreadPool, ObjectPool

CONSTANT MaxGuards     \* bound: guards of a task, one after the other

\* only tasks have guards
ASSUME UserAssumption == Users = Workers /\ MaxGuards \in Nat

VARIABLE guards        \* history: guards the task of a worker has had

workVars == <<taskVars, poolVars, guards>>

WorkInit == TaskInit /\ PoolInit /\ guards = [w \in Workers |-> 0]

Commit ==
    /\ \E p \in Committers : CommitSignal(p) \/ \E t \in Tasks : CommitTask(p, t)
    /\ UNCHANGED <<poolVars, guards>>

\* a worker without a task is in the queue of tasks
Idle(w) ==
    /\ WorkerProbe(w) \/ WorkerWait(w) \/ WorkerDequeue(w)
    /\ UNCHANGED <<poolVars, guards>>

\* the task makes a guard and asks it for a client
Borrow(w) ==
    /\ w \in running /\ guards[w] < MaxGuards
    /\ FetchObj(w)
    /\ guards' = [guards EXCEPT ![w] = @ + 1]
    /\ UNCHANGED taskVars

InGuard(w) ==
    /\ Fetch(w) \/ RestoreSignal(w)
    /\ UNCHANGED <<taskVars, guards>>

\* the request to redis has returned and the guard goes out of scope
GiveBack(w) == RestoreObj(w) /\ UNCHANGED <<taskVars, guards>>

TaskReturns(w) ==
    /\ pc[w] = "idle"
    /\ TaskDone(w)
    /\ guards' = [guards EXCEPT ![w] = 0]
    /\ UNCHANGED poolVars

WorkNext ==
    \/ Commit
    \/ \E w \in Workers : Idle(w) \/ Borrow(w) \/ InGuard(w) \/ GiveBack(w) \/ TaskReturns(w)

WorkSpec == WorkInit /\ [][WorkNext]_workVars

(***************************************************************************)
(* Workers are scheduled, timed waits end, and a task that uses no client  *)
(* returns.  A request to redis may last for ever: only connecting has a   *)
(* timeout, so GiveBack is not fair.                                       *)
(***************************************************************************)
WorkFairSpec ==
    WorkSpec /\ \A w \in Workers : WF_workVars(Idle(w) \/ InGuard(w) \/ TaskReturns(w))

=============================================================================
