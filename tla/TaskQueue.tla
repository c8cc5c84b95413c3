------------------------------ MODULE TaskQueue ------------------------------
(***************************************************************************)
(* What the class TaskQueue (utils/TaskQueue.h) promises of its two        *)
(* implementations, ConcurrentTaskQueue and SerialTaskQueue: every task    *)
(* that is begun is begun once and in the order of the calls, at most      *)
(* Width of them are under way at a time, and a synchronous call returns   *)
(* only after its task is done.  A task may be left in the queue for ever: *)
(* both classes forget what is queued when they are stopped.               *)
(***************************************************************************)
EXTENDS Naturals, Sequences, FiniteSets

CONSTANTS Tasks,     \* the tasks, each given at most once
          SyncTasks, \* those given to syncTaskInQueue()
          Width      \* how many tasks run at a time

VARIABLES
  queue,    \* the tasks given and not begun
  running,  \* the tasks under way
  done,     \* the tasks executed
  returned  \* the synchronous calls that have returned

vars == <<queue, running, done, returned>>

Given == {queue[i] : i \in 1 .. Len(queue)} \cup running \cup done

Init == queue = <<>> /\ running = {} /\ done = {} /\ returned = {}

runTaskInQueue(t) ==
  /\ t \notin Given
  /\ queue' = Append(queue, t)
  /\ UNCHANGED <<running, done, returned>>

\* A task that gives a task may execute it on the spot, as part of itself.
RunInside(t) ==
  /\ t \notin Given
  /\ running # {}
  /\ done' = done \cup {t}
  /\ UNCHANGED <<queue, running, returned>>

Begin ==
  /\ queue # <<>> /\ Cardinality(running) < Width
  /\ queue' = Tail(queue)
  /\ running' = running \cup {Head(queue)}
  /\ UNCHANGED <<done, returned>>

End(t) ==
  /\ t \in running
  /\ running' = running \ {t}
  /\ done' = done \cup {t}
  /\ UNCHANGED <<queue, returned>>

syncTaskInQueue(t) ==
  /\ t \in done \ returned
  /\ returned' = returned \cup {t}
  /\ UNCHANGED <<queue, running, done>>

Next ==
  \/ \E t \in Tasks : runTaskInQueue(t) \/ RunInside(t) \/ End(t)
  \/ \E t \in SyncTasks : syncTaskInQueue(t)
  \/ Begin

Spec == Init /\ [][Next]_vars
=============================================================================
