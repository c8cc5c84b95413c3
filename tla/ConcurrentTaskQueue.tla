------------------------- MODULE ConcurrentTaskQueue -------------------------
(***************************************************************************)
(* The thread pool of utils/ConcurrentTaskQueue.cpp: a queue of tasks      *)
(* under taskMutex_, worker threads that sleep on taskCond_, and stop().   *)
(*                                                                         *)
(* A worker is interleaved at every point where it reads stop_, takes or   *)
(* releases the mutex, since stop() touches neither the mutex nor the      *)
(* queue.  A call of runTaskInQueue() is one step: all of it happens under *)
(* the mutex.  Tasks are given by client threads and by running tasks.     *)
(***************************************************************************)
EXTENDS Naturals, Sequences, FiniteSets

CONSTANTS Workers,   \* the threads of threads_
          Tasks,     \* the tasks, each given at most once
          SyncTasks, \* those given to syncTaskInQueue(), which waits
          LongTasks, \* those that may never end
          None       \* no worker, no task

ASSUME WorkersAssumption == IsFiniteSet(Workers) /\ Workers # {}
ASSUME TasksAssumption == /\ SyncTasks \subseteq Tasks /\ LongTasks \subseteq Tasks
                          /\ None \notin Workers \cup Tasks

VARIABLES
  taskQueue_, \* ConcurrentTaskQueue::taskQueue_
  mutex,      \* the worker that holds taskMutex_, or None
  stop_,      \* ConcurrentTaskQueue::stop_
  pc,         \* where each worker is in queueFunc()
  task,       \* the local r of each worker, or None
  executed,   \* the tasks that have returned
  promised,   \* the synchronous tasks whose promise is set
  returned,   \* the synchronous calls that have returned
  stopper     \* where the thread that calls stop() is

vars == <<taskQueue_, mutex, stop_, pc, task, executed, promised, returned, stopper>>

At(p) == {w \in Workers : pc[w] \in p}
Given == {taskQueue_[i] : i \in 1 .. Len(taskQueue_)} \cup {task[w] : w \in Workers} \cup executed

Init ==
  /\ taskQueue_ = <<>> /\ mutex = None /\ stop_ = FALSE
  /\ pc = [w \in Workers |-> "test"] /\ task = [w \in Workers |-> None]
  /\ executed = {} /\ promised = {} /\ returned = {} /\ stopper = "no"

-----------------------------------------------------------------------------
(* The clients *)

\* notify_one: one of the workers that wait, if there are any, has to take the
\* mutex again.
NotifyOne ==
  IF At({"waiting"}) = {} THEN UNCHANGED pc
  ELSE \E w \in At({"waiting"}) : pc' = [pc EXCEPT ![w] = "lock"]

\* Mutant of runTaskInQueue: only the first task of the queue is announced.
runTaskInQueueFirst(t) ==
  /\ t \notin Given /\ mutex = None
  /\ taskQueue_' = Append(taskQueue_, t)
  /\ IF taskQueue_ = <<>> THEN NotifyOne ELSE UNCHANGED pc
  /\ UNCHANGED <<mutex, stop_, task, executed, promised, returned, stopper>>

\* Called by a client or by a running task, also when the queue is stopped.
runTaskInQueue(t) ==
  /\ t \notin Given /\ mutex = None
  /\ taskQueue_' = Append(taskQueue_, t)
  /\ NotifyOne
  /\ UNCHANGED <<mutex, stop_, task, executed, promised, returned, stopper>>

\* syncTaskInQueue: fut.get() returns.
SyncReturn(t) ==
  /\ t \in promised \ returned
  /\ returned' = returned \cup {t}
  /\ UNCHANGED <<taskQueue_, mutex, stop_, pc, task, executed, promised, stopper>>

-----------------------------------------------------------------------------
(* queueFunc() *)

\* while (!stop_)
TestStop(w) ==
  /\ pc[w] = "test"
  /\ pc' = [pc EXCEPT ![w] = IF stop_ THEN "ended" ELSE "lock"]
  /\ UNCHANGED <<taskQueue_, mutex, stop_, task, executed, promised, returned, stopper>>

\* The lock, at first or when wait() has been woken.
Lock(w) ==
  /\ pc[w] = "lock" /\ mutex = None
  /\ mutex' = w
  /\ pc' = [pc EXCEPT ![w] = "check"]
  /\ UNCHANGED <<taskQueue_, stop_, task, executed, promised, returned, stopper>>

\* The test of the inner loop comes out true: on to wait().
CheckWait(w) ==
  /\ pc[w] = "check" /\ ~stop_ /\ taskQueue_ = <<>>
  /\ pc' = [pc EXCEPT ![w] = "wait"]
  /\ UNCHANGED <<taskQueue_, mutex, stop_, task, executed, promised, returned, stopper>>

\* taskCond_.wait releases the mutex and sleeps, in one step.
Wait(w) ==
  /\ pc[w] = "wait"
  /\ pc' = [pc EXCEPT ![w] = "waiting"]
  /\ mutex' = None
  /\ UNCHANGED <<taskQueue_, stop_, task, executed, promised, returned, stopper>>

\* A condition variable may wake without a notification.
WakeSpurious(w) ==
  /\ pc[w] = "waiting"
  /\ pc' = [pc EXCEPT ![w] = "lock"]
  /\ UNCHANGED <<taskQueue_, mutex, stop_, task, executed, promised, returned, stopper>>

\* Mutant of CheckTake: the task is read and not popped.
CheckTakeRead(w) ==
  /\ pc[w] = "check" /\ taskQueue_ # <<>>
  /\ task' = [task EXCEPT ![w] = Head(taskQueue_)]
  /\ mutex' = None
  /\ pc' = [pc EXCEPT ![w] = "run"]
  /\ UNCHANGED <<taskQueue_, stop_, executed, promised, returned, stopper>>

\* There is a task: it is taken even when stop_ is set.
CheckTake(w) ==
  /\ pc[w] = "check" /\ taskQueue_ # <<>>
  /\ task' = [task EXCEPT ![w] = Head(taskQueue_)]
  /\ taskQueue_' = Tail(taskQueue_)
  /\ mutex' = None
  /\ pc' = [pc EXCEPT ![w] = "run"]
  /\ UNCHANGED <<stop_, executed, promised, returned, stopper>>

\* There is none, and stop_ is set: continue.
CheckStop(w) ==
  /\ pc[w] = "check" /\ stop_ /\ taskQueue_ = <<>>
  /\ mutex' = None
  /\ pc' = [pc EXCEPT ![w] = "test"]
  /\ UNCHANGED <<taskQueue_, stop_, task, executed, promised, returned, stopper>>

\* r() returns; the function of syncTaskInQueue has its promise to set still.
TaskEnd(w) ==
  /\ pc[w] = "run" /\ task[w] # None
  /\ executed' = executed \cup {task[w]}
  /\ IF task[w] \in SyncTasks
     THEN pc' = [pc EXCEPT ![w] = "promise"] /\ UNCHANGED task
     ELSE pc' = [pc EXCEPT ![w] = "test"] /\ task' = [task EXCEPT ![w] = None]
  /\ UNCHANGED <<taskQueue_, mutex, stop_, promised, returned, stopper>>

SetPromise(w) ==
  /\ pc[w] = "promise"
  /\ promised' = promised \cup {task[w]}
  /\ pc' = [pc EXCEPT ![w] = "test"]
  /\ task' = [task EXCEPT ![w] = None]
  /\ UNCHANGED <<taskQueue_, mutex, stop_, executed, returned, stopper>>

-----------------------------------------------------------------------------
(* stop(), also called by the destructor *)

StopSet ==
  /\ stopper = "no" /\ ~stop_
  /\ stop_' = TRUE
  /\ stopper' = "notify"
  /\ UNCHANGED <<taskQueue_, mutex, pc, task, executed, promised, returned>>

\* Mutant of StopNotify: notify_one instead of notify_all.
StopNotifyOne ==
  /\ stopper = "notify"
  /\ NotifyOne
  /\ stopper' = "join"
  /\ UNCHANGED <<taskQueue_, mutex, stop_, task, executed, promised, returned>>

StopNotify ==
  /\ stopper = "notify"
  /\ pc' = [w \in Workers |-> IF pc[w] = "waiting" THEN "lock" ELSE pc[w]]
  /\ stopper' = "join"
  /\ UNCHANGED <<taskQueue_, mutex, stop_, task, executed, promised, returned>>

\* All threads are joined.
StopReturn ==
  /\ stopper = "join" /\ At({"ended"}) = Workers
  /\ stopper' = "returned"
  /\ UNCHANGED <<taskQueue_, mutex, stop_, pc, task, executed, promised, returned>>

-----------------------------------------------------------------------------
\* What a worker does by itself: all but being woken for nothing.
Step(w) ==
  \/ TestStop(w) \/ Lock(w) \/ CheckWait(w) \/ Wait(w) \/ CheckTake(w) \/ CheckStop(w)
  \/ SetPromise(w)

Next ==
  \/ \E t \in Tasks : runTaskInQueue(t)
  \/ \E t \in SyncTasks : SyncReturn(t)
  \/ \E w \in Workers : Step(w) \/ TaskEnd(w) \/ WakeSpurious(w)
  \/ StopSet \/ StopNotify \/ StopReturn

Spec == Init /\ [][Next]_vars

\* Every thread that can run does, and a thread that wants the mutex gets it at
\* some time; only the tasks of LongTasks may take for ever.
FairSpec ==
  /\ Spec
  /\ \A w \in Workers : SF_vars(Step(w)) /\ WF_vars(TaskEnd(w) /\ task[w] \notin LongTasks)
  /\ \A t \in SyncTasks : WF_vars(SyncReturn(t))
  /\ WF_vars(StopNotify) /\ WF_vars(StopReturn)

-----------------------------------------------------------------------------
(* Properties *)

\* No notification is lost: unless the queue is stopped, either no worker sleeps
\* or at least as many workers are on their way to the queue as tasks are in it.
\* So a task never waits for one that is already running, however long that is
\* (runTaskInQueue notifies one worker for each task, queueFunc tests the size
\* under the mutex before it waits).
NoLostNotify ==
  ~stop_ => \/ At({"waiting"}) = {}
            \/ Len(taskQueue_) <= Cardinality(At({"test", "lock", "check", "wait"}))

TQ == INSTANCE TaskQueue WITH
        queue <- taskQueue_,
        running <- {task[w] : w \in At({"run"})},
        done <- executed,
        Width <- Cardinality(Workers)

\* The pool is a TaskQueue: tasks begin once each and in the order of the calls,
\* and "the task is executed before the method returns" (syncTaskInQueue,
\* utils/TaskQueue.h).
ImplementsTaskQueue == TQ!Spec

\* stop() wakes every worker and returns, unless a task never ends or a worker
\* was between its test of stop_ and its wait: stop() sets stop_ and notifies
\* without the mutex, and that worker then sleeps for good.
StopReturns ==
  (stopper = "notify" /\ At({"wait"}) = {})
    ~> (stopper = "returned" \/ \E w \in Workers : pc[w] = "run" /\ task[w] \in LongTasks)
=============================================================================
