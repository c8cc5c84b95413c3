--------------------------- MODULE EventLoopThread ---------------------------
(***************************************************************************)
(* Threads that run an EventLoop each: net/EventLoopThread.cpp, the pool   *)
(* of them of net/EventLoopThreadPool.cpp, and utils/SerialTaskQueue.cpp,  *)
(* which is one of them used as a TaskQueue.                               *)
(*                                                                         *)
(* The owner constructs the threads, starts them, stops and destroys them, *)
(* one thread after the other and waiting on promises and joins; the loop  *)
(* threads, clients that queue tasks, and the tasks themselves go on       *)
(* meanwhile.  Of EventLoop only what these classes use is here, with the  *)
(* behaviour that module EventLoop checks: functions run in order, a       *)
(* function or quit() of another thread ends poll(), loop() resets quit_.  *)
(***************************************************************************)
EXTENDS Naturals, Sequences, FiniteSets

CONSTANTS MaxThreads, \* bound on the size of the pool
          Tasks,      \* the tasks, each given at most once
          SyncTasks,  \* those given to syncTaskInQueue() by a client
          QuitTasks   \* those that call quit() of the loop they run in

ASSUME ThreadsAssumption == MaxThreads \in Nat \ {0}
ASSUME TasksAssumption == SyncTasks \subseteq Tasks /\ QuitTasks \subseteq Tasks \ SyncTasks

Threads == 1 .. MaxThreads

\* The function that loopFuncs() queues first: promiseForLoop_.set_value(1).
Entered == "Entered"

ASSUME EnteredAssumption == Entered \notin Tasks

VARIABLES
  n,        \* how many threads there are: loopThreadVector_.size()
  serial,   \* is this a SerialTaskQueue?
  pc,       \* where each loop thread is
  loop_,    \* EventLoopThread::loop_: is it set?
  asked,    \* promiseForRun_ is set
  entered,  \* promiseForLoop_ is set
  quit_,    \* EventLoop::quit_
  awake,    \* the wake-up descriptor can be read
  funcs,    \* the functions queued to each loop
  current,  \* the task each loop thread is in, as a set of at most one
  owner,    \* what the owner is doing, and with which thread
  given,    \* the tasks queued to each loop, in order
  done,     \* the tasks executed by each loop
  returned, \* the synchronous calls that have returned
  loopIndex_  \* EventLoopThreadPool::loopIndex_

thread == <<pc, loop_, asked, entered, quit_, awake, funcs, current>>
user == <<given, done, returned, loopIndex_>>
vars == <<n, serial, thread, owner, user>>

At(o, i) == owner = [op |-> o, th |-> i]
Goto(o, i) == owner' = [op |-> o, th |-> i]

Init ==
  /\ n \in Threads /\ serial \in BOOLEAN /\ (serial => n = 1)
  /\ pc = [i \in Threads |-> "none"] /\ loop_ = [i \in Threads |-> FALSE]
  /\ asked = [i \in Threads |-> FALSE] /\ entered = [i \in Threads |-> FALSE]
  /\ quit_ = [i \in Threads |-> FALSE] /\ awake = [i \in Threads |-> FALSE]
  /\ funcs = [i \in Threads |-> <<>>] /\ current = [i \in Threads |-> {}]
  /\ owner = [op |-> "construct", th |-> 1]
  /\ given = [i \in Threads |-> <<>>] /\ done = [i \in Threads |-> {}]
  /\ returned = {} /\ loopIndex_ = 0

-----------------------------------------------------------------------------
(* The loop thread: loopFuncs() *)

\* The loop is made, its first function queued and its pointer handed over.
MakeLoop(i) ==
  /\ pc[i] = "start"
  /\ pc' = [pc EXCEPT ![i] = "ready"]
  /\ funcs' = [funcs EXCEPT ![i] = <<Entered>>]
  /\ awake' = [awake EXCEPT ![i] = TRUE]
  /\ UNCHANGED <<n, serial, loop_, asked, entered, quit_, current, owner, user>>

\* promiseForRun_ is set, and loop() called, which resets quit_.
EnterLoop(i) ==
  /\ pc[i] = "ready" /\ asked[i]
  /\ pc' = [pc EXCEPT ![i] = "test"]
  /\ quit_' = [quit_ EXCEPT ![i] = FALSE]
  /\ UNCHANGED <<n, serial, loop_, asked, entered, awake, funcs, current, owner, user>>

TestQuit(i) ==
  /\ pc[i] = "test"
  /\ pc' = [pc EXCEPT ![i] = IF quit_[i] THEN "leave" ELSE "poll"]
  /\ UNCHANGED <<n, serial, loop_, asked, entered, quit_, awake, funcs, current, owner, user>>

\* poll() returns because of the wake-up descriptor, wakeupRead() reads it.
Poll(i) ==
  /\ pc[i] = "poll" /\ awake[i]
  /\ pc' = [pc EXCEPT ![i] = "drain"]
  /\ awake' = [awake EXCEPT ![i] = FALSE]
  /\ UNCHANGED <<n, serial, loop_, asked, entered, quit_, funcs, current, owner, user>>

RunEntered(i) ==
  /\ pc[i] = "drain" /\ funcs[i] # <<>> /\ Head(funcs[i]) = Entered
  /\ funcs' = [funcs EXCEPT ![i] = Tail(@)]
  /\ entered' = [entered EXCEPT ![i] = TRUE]
  /\ UNCHANGED <<n, serial, pc, loop_, asked, quit_, awake, current, owner, user>>

RunTask(i) ==
  /\ pc[i] = "drain" /\ funcs[i] # <<>> /\ Head(funcs[i]) # Entered
  /\ funcs' = [funcs EXCEPT ![i] = Tail(@)]
  /\ current' = [current EXCEPT ![i] = {Head(funcs[i])}]
  /\ pc' = [pc EXCEPT ![i] = "run"]
  /\ UNCHANGED <<n, serial, loop_, asked, entered, quit_, awake, owner, user>>

\* The task returns; it may have called quit() of its loop.
TaskEnd(i) == \E t \in current[i] :
  /\ pc[i] = "run"
  /\ done' = [done EXCEPT ![i] = @ \cup {t}]
  /\ current' = [current EXCEPT ![i] = {}]
  /\ quit_' = [quit_ EXCEPT ![i] = @ \/ t \in QuitTasks]
  /\ pc' = [pc EXCEPT ![i] = "drain"]
  /\ UNCHANGED <<n, serial, loop_, asked, entered, awake, funcs, owner, given, returned, loopIndex_>>

DrainEnd(i) ==
  /\ pc[i] = "drain" /\ funcs[i] = <<>>
  /\ pc' = [pc EXCEPT ![i] = "test"]
  /\ UNCHANGED <<n, serial, loop_, asked, entered, quit_, awake, funcs, current, owner, user>>

\* loop() has returned: loop_ is reset under loopMutex_ and the thread ends.
LeaveLoop(i) ==
  /\ pc[i] = "leave"
  /\ loop_' = [loop_ EXCEPT ![i] = FALSE]
  /\ pc' = [pc EXCEPT ![i] = "ended"]
  /\ UNCHANGED <<n, serial, asked, entered, quit_, awake, funcs, current, owner, user>>

-----------------------------------------------------------------------------
(* The owner *)

\* EventLoop::quit() called in another thread: the flag, then the wake-up.  One step,
\* by an owner whose pointer to the loop is good.
Quit(i) ==
  /\ quit_' = [quit_ EXCEPT ![i] = TRUE]
  /\ awake' = [awake EXCEPT ![i] = TRUE]

OnlyOwner == UNCHANGED <<n, serial, thread, user>>

\* The constructor of the i-th thread starts it and waits for the pointer.
Construct(i) ==
  /\ At("construct", i) /\ pc[i] = "none"
  /\ pc' = [pc EXCEPT ![i] = "start"]
  /\ UNCHANGED <<n, serial, loop_, asked, entered, quit_, awake, funcs, current, owner, user>>

\* The pointer is there.  A SerialTaskQueue runs its thread at once.
Constructed(i) ==
  /\ At("construct", i) /\ pc[i] \notin {"none", "start"}
  /\ loop_' = [loop_ EXCEPT ![i] = TRUE]
  /\ IF i < n THEN Goto("construct", i + 1)
     ELSE IF serial THEN Goto("run", 1) ELSE Goto("idle", 0)
  /\ UNCHANGED <<n, serial, pc, asked, entered, quit_, awake, funcs, current, user>>

\* EventLoopThreadPool::start() calls run() of each thread.
Start == At("idle", 0) /\ Goto("run", 1) /\ OnlyOwner

\* run(), the first time: promiseForRun_ is set.
RunAsk(i) ==
  /\ At("run", i) \/ At("dtor", i)
  /\ ~asked[i]
  /\ asked' = [asked EXCEPT ![i] = TRUE]
  /\ UNCHANGED <<n, serial, pc, loop_, entered, quit_, awake, funcs, current, owner, user>>

\* Mutant of Entry: run() does not wait for the loop.
EntryAtOnce(i) == asked[i]

\* call_once is over: promiseForLoop_ was set.
Entry(i) == asked[i] /\ entered[i]

RunDone(i) ==
  /\ At("run", i) /\ Entry(i)
  /\ IF i < n THEN Goto("run", i + 1) ELSE Goto("up", 0)
  /\ OnlyOwner

\* EventLoopThreadPool::wait() joins one thread after the other.
WaitCall == ~serial /\ At("up", 0) /\ Goto("wait", 1) /\ OnlyOwner
WaitDone(i) ==
  /\ At("wait", i) /\ pc[i] = "ended"
  /\ IF i < n THEN Goto("wait", i + 1) ELSE Goto("waited", 0)
  /\ OnlyOwner

\* SerialTaskQueue::stop(), also called by its destructor: quit() and wait().
StopQuit ==
  /\ serial /\ At("up", 0)
  /\ Quit(1)
  /\ Goto("stop", 1)
  /\ UNCHANGED <<n, serial, pc, loop_, asked, entered, funcs, current, user>>

StopDone == At("stop", 1) /\ pc[1] = "ended" /\ Goto("stopped", 0) /\ OnlyOwner

\* Destruction: of a pool that was started or not, of threads that were joined
\* or not, of a queue that was stopped.
Destroy ==
  /\ At("idle", 0) \/ At("waited", 0) \/ (~serial /\ At("up", 0)) \/ At("stopped", 0)
  /\ Goto("dtor", 1)
  /\ OnlyOwner

\* ~EventLoopThread after run(): quit() if loop_ is still set, then join().
DtorQuit(i) ==
  /\ At("dtor", i) /\ Entry(i)
  /\ IF loop_[i] THEN Quit(i) ELSE UNCHANGED <<quit_, awake>>
  /\ Goto("join", i)
  /\ UNCHANGED <<n, serial, pc, loop_, asked, entered, funcs, current, user>>

\* thread_ is joined, if it is still joinable; the next thread is destroyed.
JoinDone(i) ==
  /\ At("join", i) /\ pc[i] = "ended"
  /\ IF i < n THEN Goto("dtor", i + 1) ELSE Goto("gone", 0)
  /\ OnlyOwner

-----------------------------------------------------------------------------
(* The clients *)

Fresh(t) == \A i \in Threads : t \notin done[i] \cup current[i] /\
                               \A k \in 1 .. Len(given[i]) : given[i][k] # t

\* Tasks are given from the construction to the beginning of the end, and to a
\* loop whose pointer is not null.
Open == owner.op \in {"idle", "run", "up", "wait"}

\* The thread that getNextLoop() chooses.
NextLoop == (loopIndex_ % n) + 1

\* Mutant of Give: the task overtakes those that wait.
GiveFront(t) ==
  /\ Open /\ Fresh(t) /\ loop_[NextLoop]
  /\ serial => t \notin QuitTasks
  /\ funcs' = [funcs EXCEPT ![NextLoop] = <<t>> \o @]
  /\ awake' = [awake EXCEPT ![NextLoop] = TRUE]
  /\ given' = [given EXCEPT ![NextLoop] = Append(@, t)]
  /\ loopIndex_' = loopIndex_ + 1
  /\ UNCHANGED <<n, serial, pc, loop_, asked, entered, quit_, current, owner, done, returned>>

\* getNextLoop()->queueInLoop(t), or runTaskInQueue(t) of a SerialTaskQueue:
\* queued, and the loop woken.
Give(t) ==
  /\ Open /\ Fresh(t) /\ loop_[NextLoop]
  /\ serial => t \notin QuitTasks
  /\ funcs' = [funcs EXCEPT ![NextLoop] = Append(@, t)]
  /\ awake' = [awake EXCEPT ![NextLoop] = TRUE]
  /\ given' = [given EXCEPT ![NextLoop] = Append(@, t)]
  /\ loopIndex_' = loopIndex_ + 1
  /\ UNCHANGED <<n, serial, pc, loop_, asked, entered, quit_, current, owner, done, returned>>

\* Mutant of GiveInside: the task is put before the queue.
GiveInsideFront(i, t) ==
  /\ pc[i] = "run" /\ Fresh(t) /\ t \notin SyncTasks \cup QuitTasks
  /\ funcs' = [funcs EXCEPT ![i] = <<t>> \o @]
  /\ UNCHANGED <<n, serial, pc, loop_, asked, entered, quit_, awake, current, owner, user>>

\* runInLoop() called by a task of that loop: executed on the spot.
GiveInside(i, t) ==
  /\ pc[i] = "run" /\ Fresh(t) /\ t \notin SyncTasks \cup QuitTasks
  /\ done' = [done EXCEPT ![i] = @ \cup {t}]
  /\ UNCHANGED <<n, serial, thread, owner, given, returned, loopIndex_>>

\* syncTaskInQueue() returns: the promise was set when the task returned.
SyncReturn(i, t) ==
  /\ t \in done[i] \ returned
  /\ returned' = returned \cup {t}
  /\ UNCHANGED <<n, serial, thread, owner, given, done, loopIndex_>>

-----------------------------------------------------------------------------
LoopStep(i) ==
  \/ MakeLoop(i) \/ EnterLoop(i) \/ TestQuit(i) \/ Poll(i) \/ RunEntered(i) \/ RunTask(i)
  \/ TaskEnd(i) \/ DrainEnd(i) \/ LeaveLoop(i)

\* What the owner does to go on with a call it is in.
OwnerStep ==
  \/ StopDone
  \/ \E i \in Threads :
       \/ Construct(i) \/ Constructed(i) \/ RunAsk(i) \/ RunDone(i)
       \/ WaitDone(i) \/ DtorQuit(i) \/ JoinDone(i)

OwnerCall == Start \/ WaitCall \/ StopQuit \/ Destroy

Client ==
  \/ \E t \in Tasks : Give(t)
  \/ \E i \in Threads, t \in Tasks : GiveInside(i, t)
  \/ \E i \in Threads, t \in SyncTasks : SyncReturn(i, t)

Next == OwnerStep \/ OwnerCall \/ Client \/ \E i \in Threads : LoopStep(i)

Spec == Init /\ [][Next]_vars

\* Every thread that is not blocked goes on, and every task returns; when the
\* owner stops or destroys, and what the clients do, is theirs to choose.
FairSpec == Spec /\ WF_vars(OwnerStep) /\ \A i \in Threads : WF_vars(LoopStep(i))

-----------------------------------------------------------------------------
(* Properties *)

\* The destructor returns, with every thread ended, and so does stop() of a
\* SerialTaskQueue: their quit() is never the one that loop() overwrites, since
\* run() waits until the loop has run its first function; this also when the
\* pool was never started, or when a loop quits by itself (~EventLoopThread).
DtorReturns ==
  /\ (owner.op = "dtor") ~> At("gone", 0)
  /\ (owner.op = "stop") ~> (owner.op = "stopped")

\* waitAllTasksFinished() and syncTaskInQueue() return only when every task
\* given to the loop before is finished: "Wait until all tasks in the queue are
\* finished." (utils/SerialTaskQueue.h).
SyncCoversEarlier ==
  \A i \in Threads : \A k, l \in 1 .. Len(given[i]) :
    k < l /\ given[i][l] \in returned => given[i][k] \in done[i]

\* The tasks that wait: loopFuncs() queues Entered before any task.
Waiting(i) ==
  IF funcs[i] # <<>> /\ Head(funcs[i]) = Entered THEN Tail(funcs[i]) ELSE funcs[i]

TQ(i) == INSTANCE TaskQueue WITH
           queue <- Waiting(i),
           running <- current[i],
           done <- done[i],
           returned <- returned \cap done[i],
           Width <- 1

\* Each loop thread is a TaskQueue of width one: its tasks begin in the order
\* they were given, once each, one at a time (SerialTaskQueue: "all tasks are
\* executed one by one").
ImplementsTaskQueue ==
  /\ \A i \in Threads : TQ(i)!Init
  /\ [][\A i \in Threads : [TQ(i)!Next]_(TQ(i)!vars)]_vars
=============================================================================
