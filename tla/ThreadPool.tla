----------------------------- MODULE ThreadPool -----------------------------
(***************************************************************************)
(* threadpoll_manager.cpp: threads of the adapter commit tasks, workers    *)
(* take them from a block_queue and run them.                              *)
(***************************************************************************)
EXTENDS Naturals, Sequences

CONSTANTS Committers,  \* threads that commit tasks
          Workers,     \* general_thread_proc
          Tasks, NoTask,
          MaxCommits   \* bound: tasks committed

ASSUME TaskAssumption == NoTask \notin Tasks /\ MaxCommits \in Nat

VARIABLES tasks, task_signal, task_wait, task_data,   \* m_queue_task
          running,             \* workers inside task()
          committed, taken     \* history: tasks committed, and taken, in order

TaskQueue == INSTANCE BlockQueue WITH Producers <- Committers, Consumers <- Workers,
                 NoData <- NoTask, list <- tasks, signal <- task_signal, wait <- task_wait,
                 data <- task_data

taskQueue == <<tasks, task_signal, task_wait, task_data>>
taskVars == <<taskQueue, running, committed, taken>>

TaskInit == TaskQueue!Init /\ running = {} /\ committed = <<>> /\ taken = <<>>

CommitTask(p, t) ==
    /\ Len(committed) < MaxCommits
    /\ TaskQueue!AddQueue(p, t)
    /\ committed' = Append(committed, t)
    /\ UNCHANGED <<running, taken>>

CommitSignal(p) == TaskQueue!Signal(p) /\ UNCHANGED <<running, committed, taken>>

\* dequeue_expand has returned: 1 with a task, or 0 and the loop goes on
Returned(w) ==
    /\ IF task_data'[w] = NoTask
       THEN UNCHANGED <<running, taken>>
       ELSE running' = running \cup {w} /\ taken' = Append(taken, task_data'[w])
    /\ UNCHANGED committed

WorkerProbe(w) ==
    /\ w \notin running
    /\ TaskQueue!DequeueNodelay(w)
    /\ IF task_wait'[w] = "out" THEN Returned(w) ELSE UNCHANGED <<running, committed, taken>>

WorkerWait(w) ==
    (TaskQueue!TimedWait(w) \/ TaskQueue!Wake(w)) /\ UNCHANGED <<running, committed, taken>>

WorkerDequeue(w) == TaskQueue!Dequeue(w) /\ Returned(w)

\* task() returns
TaskDone(w) ==
    /\ w \in running
    /\ running' = running \ {w}
    /\ UNCHANGED <<taskQueue, committed, taken>>

GeneralThreadDoit(w) ==
    WorkerProbe(w) \/ WorkerWait(w) \/ WorkerDequeue(w) \/ TaskDone(w)

TaskNext ==
    \/ \E p \in Committers : CommitSignal(p) \/ \E t \in Tasks : CommitTask(p, t)
    \/ \E w \in Workers : GeneralThreadDoit(w)

TaskSpec == TaskInit /\ [][TaskNext]_taskVars

-----------------------------------------------------------------------------
\* types, and where a worker can be: the ones in a task are not in the queue
TaskTypeOK ==
    /\ tasks \in Seq(Tasks) /\ task_signal \subseteq Committers
    /\ task_wait \in [Workers -> {"out", "empty", "asleep", "awake"}]
    /\ task_data \in [Workers -> Tasks \cup {NoTask}]
    /\ running \subseteq {w \in Workers : task_wait[w] = "out"}
    /\ committed \in Seq(Tasks) /\ taken \in Seq(Tasks)

\* tasks are taken in the order they were committed, each by one worker
TaskFifo == INSTANCE FifoQueue WITH Data <- Tasks, sent <- committed, got <- taken

ImplementsTaskFifo == TaskFifo!Spec


=============================================================================
