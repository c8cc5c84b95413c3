---------------------- MODULE ConcurrentTaskQueueProofs ----------------------
(***************************************************************************)
(* Proofs about ConcurrentTaskQueue, for any number of workers and tasks.  *)
(***************************************************************************)
EXTENDS ConcurrentTaskQueue, FiniteSetTheorems, TLAPS

Pcs == {"test", "lock", "check", "wait", "waiting", "run", "promise", "ended"}

(* Types: workers take tasks from the queue, and nothing else. *)
TypeOK ==
  /\ taskQueue_ \in Seq(Tasks)
  /\ mutex \in Workers \cup {None}
  /\ stop_ \in BOOLEAN
  /\ pc \in [Workers -> Pcs]
  /\ task \in [Workers -> Tasks \cup {None}]
  /\ executed \subseteq Tasks
  /\ promised \subseteq Tasks
  /\ returned \subseteq Tasks
  /\ stopper \in {"no", "notify", "join", "returned"}

(* taskMutex_ is held by the worker that looks at the queue, and by no     *)
(* other; one that has decided to wait has seen the queue empty, and it    *)
(* stays so until wait() has released the mutex.                           *)
MutexHeld ==
  /\ \A w \in Workers : pc[w] \in {"check", "wait"} <=> mutex = w
  /\ \A w \in Workers : pc[w] = "wait" => taskQueue_ = <<>>

(* A task is in one place: once in the queue, or in the hands of one       *)
(* worker, or executed.                                                    *)
QueueDistinct ==
  \A i, j \in 1 .. Len(taskQueue_) : taskQueue_[i] = taskQueue_[j] => i = j

QueueFresh ==
  \A i \in 1 .. Len(taskQueue_) :
    /\ taskQueue_[i] \notin executed
    /\ \A w \in Workers : task[w] # taskQueue_[i]

TaskHeld ==
  /\ \A w \in Workers : task[w] # None <=> pc[w] \in {"run", "promise"}
  /\ \A w \in Workers : pc[w] = "run" => task[w] \notin executed
  /\ \A w \in Workers : pc[w] = "promise" => task[w] \in executed
  /\ \A v, w \in Workers : task[v] = task[w] /\ task[v] # None => v = w

(* A promise is set after its task was executed. *)
Promises == promised \subseteq executed /\ returned \subseteq promised

OnePlace == QueueDistinct /\ QueueFresh /\ TaskHeld /\ Promises

Inv == TypeOK /\ MutexHeld /\ OnePlace

-----------------------------------------------------------------------------
(* What Append and Tail do to the places of a queue. *)
LEMMA AppendFacts ==
  ASSUME NEW S, NEW s \in Seq(S), NEW x \in S
  PROVE  /\ Append(s, x) \in Seq(S)
         /\ Len(Append(s, x)) = Len(s) + 1
         /\ Len(s) \in Nat
         /\ \A i \in 1..Len(s) : Append(s, x)[i] = s[i] /\ s[i] \in S
         /\ Append(s, x)[Len(s) + 1] = x
OBVIOUS

LEMMA TailFacts ==
  ASSUME NEW S, NEW s \in Seq(S), s # <<>>
  PROVE  /\ Tail(s) \in Seq(S)
         /\ Len(Tail(s)) = Len(s) - 1
         /\ Len(s) \in Nat \ {0}
         /\ Head(s) = s[1]
         /\ \A i \in 1..Len(s) : s[i] \in S
         /\ \A i \in 1..Len(s) - 1 : Tail(s)[i] = s[i + 1]
OBVIOUS

(* Moving one worker changes the sets At by that worker only. *)
LEMMA AtMove ==
  ASSUME TypeOK, NEW w \in Workers, NEW q, NEW p, pc' = [pc EXCEPT ![w] = q]
  PROVE  At(p)' = IF q \in p THEN At(p) \cup {w} ELSE At(p) \ {w}
  BY DEF At, TypeOK

LEMMA AtFinite == \A p : IsFiniteSet(At(p)) /\ Cardinality(At(p)) \in Nat
  BY WorkersAssumption, FS_Subset, FS_CardinalityType DEF At

LEMMA InitInv == Init => Inv
  <1> SUFFICES ASSUME Init PROVE Inv
    OBVIOUS
  <1> USE TasksAssumption
  <1>1. taskQueue_ \in Seq(Tasks) /\ Len(taskQueue_) = 0
    BY DEF Init
  <1>2. stop_ \in BOOLEAN
    BY Zenon DEF Init
  <1>3. TypeOK
    BY <1>1, <1>2 DEF Init, TypeOK, Pcs
  <1>4. MutexHeld
    BY DEF Init, MutexHeld
  <1>5. OnePlace
    BY <1>1 DEF Init, OnePlace, QueueDistinct, QueueFresh, TaskHeld, Promises
  <1> QED
    BY <1>3, <1>4, <1>5 DEF Inv

(* notify_one moves at most one worker, from "waiting" to "lock". *)
LEMMA NotifyOneMoves ==
  ASSUME TypeOK, NotifyOne
  PROVE  /\ pc' \in [Workers -> Pcs]
         /\ \A w \in Workers : pc'[w] = pc[w] \/ (pc[w] = "waiting" /\ pc'[w] = "lock")
  BY DEF NotifyOne, TypeOK, At, Pcs

LEMMA GiveInv ==
  ASSUME Inv, NEW t \in Tasks, runTaskInQueue(t)
  PROVE  Inv'
  <1> USE TasksAssumption
  <1> USE DEF Inv
  <1> DEFINE L == Len(taskQueue_)
  <1>1. /\ t \notin Given /\ mutex = None
        /\ taskQueue_' = Append(taskQueue_, t)
        /\ UNCHANGED <<mutex, stop_, task, executed, promised, returned, stopper>>
        /\ NotifyOne
    BY DEF runTaskInQueue
  <1>2. /\ taskQueue_' \in Seq(Tasks) /\ L \in Nat /\ Len(taskQueue_') = L + 1
        /\ \A i \in 1 .. L : taskQueue_'[i] = taskQueue_[i]
        /\ taskQueue_'[L + 1] = t
    BY <1>1, AppendFacts DEF TypeOK
  <1>3. /\ \A i \in 1 .. L : taskQueue_[i] # t
        /\ \A w \in Workers : task[w] # t
        /\ t \notin executed
    BY <1>1 DEF Given
  <1>4. /\ pc' \in [Workers -> Pcs]
        /\ \A w \in Workers : pc'[w] = pc[w] \/ (pc[w] = "waiting" /\ pc'[w] = "lock")
    BY <1>1, NotifyOneMoves
  <1> HIDE DEF L
  <1>5. TypeOK'
    BY <1>1, <1>2, <1>4 DEF TypeOK
  <1>6. MutexHeld'
    BY <1>1, <1>4 DEF MutexHeld, TypeOK
  <1>7. QueueDistinct'
    BY <1>2, <1>3 DEF OnePlace, QueueDistinct, L
  <1>8. QueueFresh'
    BY <1>1, <1>2, <1>3 DEF OnePlace, QueueFresh, L
  <1>9. TaskHeld' /\ Promises'
    BY <1>1, <1>4 DEF OnePlace, TaskHeld, Promises, TypeOK
  <1> QED
    BY <1>5, <1>6, <1>7, <1>8, <1>9 DEF OnePlace

(* Steps that leave the queue and the tasks where they are. *)
LEMMA QuietInv ==
  ASSUME Inv,
         \/ \E t \in SyncTasks : SyncReturn(t)
         \/ \E w \in Workers : \/ TestStop(w) \/ Lock(w) \/ CheckWait(w)
                               \/ Wait(w) \/ WakeSpurious(w) \/ CheckStop(w)
         \/ StopSet \/ StopNotify \/ StopReturn
  PROVE  Inv'
  <1> USE TasksAssumption
  <1> USE DEF Inv
  <1>1. UNCHANGED <<taskQueue_, task, executed, promised>>
    BY DEF SyncReturn, TestStop, Lock, CheckWait, Wait, WakeSpurious, CheckStop,
           StopSet, StopNotify, StopReturn
  <1>2. returned' \subseteq promised
    BY DEF SyncReturn, TestStop, Lock, CheckWait, Wait, WakeSpurious, CheckStop,
           StopSet, StopNotify, StopReturn, OnePlace, Promises
  <1>3. /\ pc' \in [Workers -> Pcs]
        /\ \A w \in Workers : \/ pc'[w] = pc[w]
                              \/ /\ pc[w] \notin {"run", "promise"}
                                 /\ pc'[w] \notin {"run", "promise"}
    BY DEF SyncReturn, TestStop, Lock, CheckWait, Wait, WakeSpurious, CheckStop,
           StopSet, StopNotify, StopReturn, TypeOK, Pcs
  <1>4. stop_' \in BOOLEAN
    BY Zenon DEF SyncReturn, TestStop, Lock, CheckWait, Wait, WakeSpurious, CheckStop,
           StopSet, StopNotify, StopReturn, TypeOK
  <1>5. mutex' \in Workers \cup {None} /\ stopper' \in {"no", "notify", "join", "returned"}
    BY DEF SyncReturn, TestStop, Lock, CheckWait, Wait, WakeSpurious, CheckStop,
           StopSet, StopNotify, StopReturn, TypeOK
  <1>6. TypeOK'
    BY <1>1, <1>2, <1>3, <1>4, <1>5 DEF TypeOK
  <1>7. MutexHeld'
    BY DEF SyncReturn, TestStop, Lock, CheckWait, Wait, WakeSpurious, CheckStop,
           StopSet, StopNotify, StopReturn, TypeOK, MutexHeld
  <1>8. OnePlace'
    BY <1>1, <1>2, <1>3 DEF OnePlace, QueueDistinct, QueueFresh, TaskHeld, Promises
  <1> QED
    BY <1>6, <1>7, <1>8

LEMMA TakeInv ==
  ASSUME Inv, NEW w \in Workers, CheckTake(w)
  PROVE  Inv'
  <1> USE TasksAssumption
  <1> USE DEF Inv
  <1> DEFINE L == Len(taskQueue_)
  <1>1. /\ pc[w] = "check" /\ taskQueue_ # <<>>
        /\ task' = [task EXCEPT ![w] = Head(taskQueue_)]
        /\ taskQueue_' = Tail(taskQueue_)
        /\ mutex' = None
        /\ pc' = [pc EXCEPT ![w] = "run"]
        /\ UNCHANGED <<stop_, executed, promised, returned, stopper>>
    BY DEF CheckTake
  <1>2. /\ taskQueue_' \in Seq(Tasks) /\ L \in Nat \ {0} /\ Len(taskQueue_') = L - 1
        /\ \A i \in 1 .. L - 1 : taskQueue_'[i] = taskQueue_[i + 1] /\ i + 1 \in 1 .. L
        /\ Head(taskQueue_) = taskQueue_[1] /\ taskQueue_[1] \in Tasks /\ 1 \in 1 .. L
    BY <1>1, TailFacts DEF TypeOK
  <1>3. /\ \A i \in 1 .. L, j \in 1 .. L : taskQueue_[i] = taskQueue_[j] => i = j
        /\ \A i \in 1 .. L : /\ taskQueue_[i] \notin executed
                             /\ \A v \in Workers : task[v] # taskQueue_[i]
    BY DEF OnePlace, QueueDistinct, QueueFresh
  <1>4. /\ task'[w] = taskQueue_[1] /\ pc'[w] = "run"
        /\ \A v \in Workers : v # w => task'[v] = task[v] /\ pc'[v] = pc[v]
    BY <1>1, <1>2 DEF TypeOK
  <1>5. mutex = w /\ \A v \in Workers : v # w => pc[v] \notin {"check", "wait"}
    BY <1>1 DEF MutexHeld
  <1> HIDE DEF L
  <1>6. TypeOK'
    BY <1>1, <1>2 DEF TypeOK, Pcs
  <1>7. MutexHeld'
    BY <1>1, <1>4, <1>5 DEF MutexHeld
  <1>8. QueueDistinct'
    BY <1>2, <1>3 DEF QueueDistinct
  <1>9. QueueFresh'
    <2> SUFFICES ASSUME NEW i \in 1 .. L - 1
                 PROVE  /\ taskQueue_'[i] \notin executed'
                        /\ \A v \in Workers : task'[v] # taskQueue_'[i]
      BY <1>2 DEF QueueFresh
    <2>1. i + 1 # 1 /\ taskQueue_[i + 1] # taskQueue_[1]
      BY <1>2, <1>3
    <2> QED
      BY <2>1, <1>1, <1>2, <1>3, <1>4
  <1>10. TaskHeld'
    BY <1>1, <1>2, <1>3, <1>4 DEF OnePlace, TaskHeld
  <1>11. Promises'
    BY <1>1 DEF OnePlace, Promises
  <1> QED
    BY <1>6, <1>7, <1>8, <1>9, <1>10, <1>11 DEF OnePlace

LEMMA TaskEndInv ==
  ASSUME Inv, NEW w \in Workers, TaskEnd(w)
  PROVE  Inv'
  <1> USE TasksAssumption
  <1> USE DEF Inv
  <1>1. /\ pc[w] = "run" /\ task[w] \in Tasks
        /\ executed' = executed \cup {task[w]}
        /\ UNCHANGED <<taskQueue_, mutex, stop_, promised, returned, stopper>>
    BY DEF TaskEnd, TypeOK
  <1>2. \/ /\ pc' = [pc EXCEPT ![w] = "promise"] /\ task' = task
        \/ /\ pc' = [pc EXCEPT ![w] = "test"] /\ task' = [task EXCEPT ![w] = None]
    BY DEF TaskEnd
  <1>3. TypeOK'
    BY <1>1, <1>2 DEF TypeOK, Pcs
  <1>4. MutexHeld'
    BY <1>1, <1>2 DEF MutexHeld, TypeOK
  <1>5. QueueDistinct' /\ QueueFresh'
    BY <1>1, <1>2 DEF OnePlace, QueueDistinct, QueueFresh, TypeOK
  <1>6. TaskHeld' /\ Promises'
    BY <1>1, <1>2 DEF OnePlace, TaskHeld, Promises, TypeOK
  <1> QED
    BY <1>3, <1>4, <1>5, <1>6 DEF OnePlace

LEMMA SetPromiseInv ==
  ASSUME Inv, NEW w \in Workers, SetPromise(w)
  PROVE  Inv'
  <1> USE TasksAssumption
  <1> USE DEF Inv
  <1>1. /\ pc[w] = "promise" /\ task[w] \in executed
        /\ promised' = promised \cup {task[w]}
        /\ pc' = [pc EXCEPT ![w] = "test"]
        /\ task' = [task EXCEPT ![w] = None]
        /\ UNCHANGED <<taskQueue_, mutex, stop_, executed, returned, stopper>>
    BY DEF SetPromise, OnePlace, TaskHeld
  <1>2. TypeOK'
    BY <1>1 DEF TypeOK, Pcs
  <1>3. MutexHeld'
    BY <1>1 DEF MutexHeld, TypeOK
  <1>4. QueueDistinct' /\ QueueFresh'
    BY <1>1 DEF OnePlace, QueueDistinct, QueueFresh, TypeOK
  <1>5. TaskHeld' /\ Promises'
    BY <1>1 DEF OnePlace, TaskHeld, Promises, TypeOK
  <1> QED
    BY <1>2, <1>3, <1>4, <1>5 DEF OnePlace

LEMMA NextInv ==
  ASSUME Inv, [Next]_vars
  PROVE  Inv'
  <1>1. CASE \E t \in Tasks : runTaskInQueue(t)
    BY <1>1, GiveInv
  <1>2. CASE \E w \in Workers : CheckTake(w)
    BY <1>2, TakeInv
  <1>3. CASE \E w \in Workers : TaskEnd(w)
    BY <1>3, TaskEndInv
  <1>4. CASE \E w \in Workers : SetPromise(w)
    BY <1>4, SetPromiseInv
  <1>5. CASE \/ \E t \in SyncTasks : SyncReturn(t)
             \/ \E w \in Workers : \/ TestStop(w) \/ Lock(w) \/ CheckWait(w)
                                   \/ Wait(w) \/ WakeSpurious(w) \/ CheckStop(w)
             \/ StopSet \/ StopNotify \/ StopReturn
    BY <1>5, QuietInv
  <1>6. CASE UNCHANGED vars
    BY <1>6 DEF vars, Inv, TypeOK, MutexHeld, OnePlace, QueueDistinct, QueueFresh,
                TaskHeld, Promises
  <1> QED
    BY <1>1, <1>2, <1>3, <1>4, <1>5, <1>6 DEF Next, Step

(* The mutex protects the queue, and a task is in one place only, whatever *)
(* the number of workers, clients and tasks (queueFunc, runTaskInQueue).   *)
THEOREM InvHolds == Spec => []Inv
  <1> QED
    BY InitInv, NextInv, PTL DEF Spec

(* A worker whose place is a known one, a queue of tasks, one task in one  *)
(* place.                                                                  *)
THEOREM TypeCorrect == Spec => []TypeOK
  <1>1. Inv => TypeOK
    BY DEF Inv
  <1> QED
    BY <1>1, InvHolds, PTL

-----------------------------------------------------------------------------
(* No notification is lost *)

Awake == {"test", "lock", "check", "wait"}

LEMMA CountIn ==
  ASSUME TypeOK, NEW w \in Workers, NEW q, NEW p, pc' = [pc EXCEPT ![w] = q], q \in p
  PROVE  Cardinality(At(p)') = IF pc[w] \in p THEN Cardinality(At(p))
                                              ELSE Cardinality(At(p)) + 1
  <1>1. At(p)' = At(p) \cup {w}
    BY AtMove
  <1>2. w \in At(p) <=> pc[w] \in p
    BY DEF At
  <1> QED
    BY <1>1, <1>2, AtFinite, FS_AddElement

LEMMA CountOut ==
  ASSUME TypeOK, NEW w \in Workers, NEW q, NEW p, pc' = [pc EXCEPT ![w] = q], q \notin p
  PROVE  Cardinality(At(p)') = IF pc[w] \in p THEN Cardinality(At(p)) - 1
                                              ELSE Cardinality(At(p))
  <1>1. At(p)' = At(p) \ {w}
    BY AtMove
  <1>2. w \in At(p) <=> pc[w] \in p
    BY DEF At
  <1> QED
    BY <1>1, <1>2, AtFinite, FS_RemoveElement

LEMMA NotifyNext ==
  ASSUME Inv, NoLostNotify, [Next]_vars
  PROVE  NoLostNotify'
  <1> DEFINE L == Len(taskQueue_)
             C == Cardinality(At(Awake))
             W == At({"waiting"})
  <1> SUFFICES ASSUME ~stop_'
               PROVE  W' = {} \/ L' <= C'
    BY DEF NoLostNotify, Awake
  <1> USE DEF Inv
  <1>1. TypeOK /\ TypeOK' /\ L \in Nat /\ C \in Nat /\ C' \in Nat /\ L' \in Nat
    <2>1. Inv'
      BY NextInv
    <2>2. IsFiniteSet(At(Awake)')
      BY WorkersAssumption, FS_Subset DEF At
    <2> QED
      BY <2>1, <2>2, AtFinite, FS_CardinalityType DEF TypeOK
  <1>2. ~stop_
    BY DEF Next, Step, runTaskInQueue, SyncReturn, TestStop, Lock, CheckWait, Wait, WakeSpurious, CheckStop,
           CheckTake, TaskEnd, SetPromise, StopSet, StopNotify, StopReturn, vars
  <1>3. W = {} \/ L <= C
    BY <1>2 DEF NoLostNotify, Awake
  <1> HIDE DEF L, C, W
  <1>4. CASE \E t \in Tasks : runTaskInQueue(t)
    <2> PICK t \in Tasks : runTaskInQueue(t)
      BY <1>4
    <2>1. L' = L + 1
      BY <1>1, AppendFacts DEF L, runTaskInQueue, TypeOK
    <2>2. CASE W = {}
      <3>1. UNCHANGED pc
        BY <2>2 DEF runTaskInQueue, NotifyOne, W
      <3> QED
        BY <2>2, <3>1 DEF W, At
    <2>3. CASE W # {}
      <3>1. PICK v \in W : pc' = [pc EXCEPT ![v] = "lock"]
        BY <2>3 DEF runTaskInQueue, NotifyOne, W
      <3>2. v \in Workers /\ pc[v] \notin Awake /\ "lock" \in Awake
        BY DEF W, At, Awake
      <3>3. C' = C + 1
        BY <3>1, <3>2, <1>1, CountIn DEF C
      <3> QED
        BY <2>1, <2>3, <3>3, <1>1, <1>3
    <2> QED
      BY <2>2, <2>3
  <1>5. CASE \E w \in Workers : CheckTake(w)
    <2> PICK w \in Workers : CheckTake(w)
      BY <1>5
    <2>1. L' = L - 1
      BY <1>1, TailFacts DEF L, CheckTake, TypeOK
    <2>2. pc' = [pc EXCEPT ![w] = "run"] /\ pc[w] \in Awake /\ "run" \notin Awake
      BY DEF CheckTake, Awake
    <2>3. C' = C - 1
      BY <2>2, <1>1, CountOut DEF C
    <2>4. W = {} => W' = {}
      BY <2>2, <1>1 DEF W, At, TypeOK
    <2> QED
      BY <2>1, <2>3, <2>4, <1>1, <1>3
  <1>6. CASE \E w \in Workers : Wait(w)
    <2>1. L' = 0
      BY <1>6, <1>1 DEF Wait, MutexHeld, L
    <2> QED
      BY <2>1, <1>1
  <1>7. CASE \E w \in Workers : \/ TestStop(w) \/ Lock(w) \/ CheckWait(w) \/ WakeSpurious(w)
                                \/ SetPromise(w) \/ TaskEnd(w)
    <2> PICK w \in Workers : \/ TestStop(w) \/ Lock(w) \/ CheckWait(w) \/ WakeSpurious(w)
                             \/ SetPromise(w) \/ TaskEnd(w)
      BY <1>7
    <2>1. UNCHANGED taskQueue_
      BY DEF TestStop, Lock, CheckWait, WakeSpurious, SetPromise, TaskEnd
    <2>2. PICK q \in {"test", "lock", "check", "wait", "promise"} : pc' = [pc EXCEPT ![w] = q]
      BY <1>2 DEF TestStop, Lock, CheckWait, WakeSpurious, SetPromise, TaskEnd
    <2>3. q \notin Awake => pc[w] \notin Awake
      BY <2>2, <1>1 DEF TestStop, Lock, CheckWait, WakeSpurious, SetPromise, TaskEnd, Awake, TypeOK
    <2>4. C' >= C
      <3>1. q \in Awake => C' = IF pc[w] \in Awake THEN C ELSE C + 1
        BY <2>2, <1>1, CountIn DEF C
      <3>2. q \notin Awake => C' = C
        BY <2>2, <2>3, <1>1, CountOut DEF C
      <3> QED
        BY <3>1, <3>2, <1>1
    <2>5. W = {} => W' = {}
      BY <2>2, <1>1 DEF W, At, TypeOK
    <2>6. L' = L
      BY <2>1 DEF L
    <2> QED
      BY <2>4, <2>5, <2>6, <1>1, <1>3
  <1>8. CASE StopNotify
    BY <1>8, <1>1 DEF StopNotify, W, At, TypeOK
  <1>9. CASE \/ \E t \in SyncTasks : SyncReturn(t)
             \/ StopReturn
             \/ UNCHANGED vars
    <2>1. UNCHANGED <<taskQueue_, pc>>
      BY <1>9 DEF SyncReturn, StopReturn, vars
    <2>2. L' = L /\ C' = C /\ W' = W
      BY <2>1 DEF L, C, W, At
    <2> QED
      BY <2>2, <1>3
  <1>10. CASE StopSet \/ \E w \in Workers : CheckStop(w)
    BY <1>10, <1>2 DEF StopSet, CheckStop
  <1> QED
    BY <1>4, <1>5, <1>6, <1>7, <1>8, <1>9, <1>10 DEF Next, Step

(* Unless the queue is stopped, either no worker sleeps or at least as     *)
(* many workers are on their way to the queue as tasks are in it, for any  *)
(* number of workers: no notify_one of runTaskInQueue() is lost between    *)
(* the test of the queue and the wait.                                     *)
THEOREM NoNotifyIsLost == Spec => []NoLostNotify
  <1>1. Init => NoLostNotify
    BY DEF Init, NoLostNotify, At
  <1>2. Inv /\ NoLostNotify /\ [Next]_vars => NoLostNotify'
    BY NotifyNext
  <1> QED
    BY <1>1, <1>2, InvHolds, PTL DEF Spec

-----------------------------------------------------------------------------
(* The pool implements TaskQueue *)

Running == {task[w] : w \in At({"run"})}

(* While a worker is not running a task, fewer tasks than workers run. *)
LEMMA RunningFewer ==
  ASSUME NEW w \in Workers, pc[w] # "run"
  PROVE  Cardinality(Running) < Cardinality(Workers)
  <1> DEFINE S == At({"run"})
             f == [v \in S |-> task[v]]
  <1>1. IsFiniteSet(S) /\ Cardinality(S) \in Nat
    BY AtFinite
  <1>2. f \in Surjection(S, Running)
    BY DEF Surjection, Running
  <1>3. Cardinality(Running) <= Cardinality(S) /\ IsFiniteSet(Running)
    BY <1>1, <1>2, FS_Surjection
  <1>4. S \subseteq Workers \ {w}
    BY DEF At
  <1>5. /\ IsFiniteSet(Workers \ {w}) /\ Cardinality(Workers \ {w}) = Cardinality(Workers) - 1
        /\ Cardinality(Workers) \in Nat
    BY WorkersAssumption, FS_RemoveElement, FS_CardinalityType
  <1>6. Cardinality(S) <= Cardinality(Workers \ {w})
    BY <1>4, <1>5, FS_Subset
  <1>7. Cardinality(Running) \in Nat
    BY <1>3, FS_CardinalityType
  <1> QED
    BY <1>1, <1>3, <1>5, <1>6, <1>7

(* TaskQueue counts with the same Cardinality. *)
LEMMA CardinalitySame == \A S : TQ!Cardinality(S) = Cardinality(S)
  BY Zenon DEF TQ!Cardinality, Cardinality

LEMMA RefineInit == Init => TQ!Init
  BY DEF Init, TQ!Init, At

LEMMA RefineNext ==
  ASSUME Inv, [Next]_vars
  PROVE  [TQ!Next]_TQ!vars
  <1> USE DEF Inv
  <1>1. TypeOK
    OBVIOUS
  <1>2. CASE \E t \in Tasks : runTaskInQueue(t)
    <2> PICK t \in Tasks : runTaskInQueue(t)
      BY <1>2
    <2>1. Running' = Running
      BY NotifyOneMoves DEF runTaskInQueue, Running, At
    <2>2. TQ!runTaskInQueue(t)
      BY <2>1 DEF runTaskInQueue, TQ!runTaskInQueue, TQ!Given, Given, Running, At
    <2> QED
      BY <2>2 DEF TQ!Next
  <1>3. CASE \E w \in Workers : CheckTake(w)
    <2> PICK w \in Workers : CheckTake(w)
      BY <1>3
    <2>1. Cardinality(Running) < Cardinality(Workers)
      BY RunningFewer DEF CheckTake
    <2>2. Running' = Running \cup {Head(taskQueue_)}
      BY DEF CheckTake, Running, At, TypeOK
    <2>3. taskQueue_ # <<>> /\ taskQueue_' = Tail(taskQueue_) /\ UNCHANGED <<executed, returned>>
      BY DEF CheckTake
    <2>4. Cardinality({task[v] : v \in At({"run"})}) < Cardinality(Workers)
      BY <2>1 DEF Running
    <2>5. {task[v] : v \in At({"run"})}' = {task[v] : v \in At({"run"})} \cup {Head(taskQueue_)}
      BY <2>2 DEF Running
    <2>6. TQ!Begin
      BY <2>3, <2>4, <2>5, CardinalitySame DEF TQ!Begin
    <2> QED
      BY <2>6 DEF TQ!Next
  <1>4. CASE \E w \in Workers : TaskEnd(w)
    <2> PICK w \in Workers : TaskEnd(w)
      BY <1>4
    <2>1. task[w] \in Running /\ task[w] \in Tasks
      BY DEF TaskEnd, Running, At, TypeOK
    <2>2. Running' = Running \ {task[w]}
      BY DEF TaskEnd, Running, At, TypeOK, OnePlace, TaskHeld
    <2> PICK t \in Tasks : t = task[w]
      BY <2>1
    <2>3. TQ!End(t)
      BY <2>1, <2>2 DEF TaskEnd, TQ!End, Running
    <2> QED
      BY <2>3 DEF TQ!Next
  <1>5. CASE \E t \in SyncTasks : SyncReturn(t)
    <2> PICK t \in SyncTasks : SyncReturn(t)
      BY <1>5
    <2>1. Running' = Running /\ t \in executed
      BY DEF SyncReturn, Running, At, OnePlace, Promises
    <2>2. TQ!syncTaskInQueue(t)
      BY <2>1 DEF SyncReturn, TQ!syncTaskInQueue, Running
    <2> QED
      BY <2>2 DEF TQ!Next
  <1>6. CASE \/ \E w \in Workers : \/ TestStop(w) \/ Lock(w) \/ CheckWait(w) \/ Wait(w)
                                   \/ WakeSpurious(w) \/ CheckStop(w) \/ SetPromise(w)
             \/ StopSet \/ StopNotify \/ StopReturn
    <2>1. UNCHANGED <<taskQueue_, executed, returned>>
      BY <1>6 DEF TestStop, Lock, CheckWait, Wait, WakeSpurious, CheckStop, SetPromise,
                  StopSet, StopNotify, StopReturn
    <2>2. At({"run"})' = At({"run"})
      BY <1>6 DEF TestStop, Lock, CheckWait, Wait, WakeSpurious, CheckStop, SetPromise,
                  StopSet, StopNotify, StopReturn, At, TypeOK
    <2>3. \A w \in At({"run"}) : task'[w] = task[w]
      BY <1>6 DEF TestStop, Lock, CheckWait, Wait, WakeSpurious, CheckStop, SetPromise,
                  StopSet, StopNotify, StopReturn, At, TypeOK
    <2>4. Running' = Running
      BY <2>2, <2>3 DEF Running
    <2> QED
      BY <2>1, <2>4 DEF TQ!vars, Running
  <1>7. CASE UNCHANGED vars
    BY <1>7 DEF vars, TQ!vars, At
  <1> QED
    BY <1>2, <1>3, <1>4, <1>5, <1>6, <1>7 DEF Next, Step

(* The pool is a TaskQueue, for any number of workers: the tasks begin     *)
(* once each and in the order of the calls, never more of them at a time   *)
(* than there are workers, and syncTaskInQueue() returns after its task.   *)
THEOREM PoolImplementsTaskQueue == Spec => ImplementsTaskQueue
  <1> QED
    BY InvHolds, RefineInit, RefineNext, PTL DEF Spec, ImplementsTaskQueue, TQ!Spec
=============================================================================
