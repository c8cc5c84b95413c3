------------------------ MODULE EventLoopThreadProofs ------------------------
(***************************************************************************)
(* Proofs about EventLoopThread, for any number of loop threads and tasks, *)
(* and, in the second part, about the timers of a loop: the two models     *)
(* share no variable and no name.                                          *)
(***************************************************************************)
EXTENDS EventLoopThread, TimerQueue, FiniteSetTheorems, WellFoundedInduction, TLAPS

Pcs == {"none", "start", "ready", "test", "poll", "drain", "run", "leave", "ended"}
Ops == {"construct", "idle", "run", "up", "wait", "waited", "stop", "stopped", "dtor",
        "join", "gone"}

(* Types: a loop has the function of loopFuncs() and tasks in its queue. *)
Typed ==
  /\ n \in Threads /\ serial \in BOOLEAN
  /\ pc \in [Threads -> Pcs]
  /\ loop_ \in [Threads -> BOOLEAN]
  /\ asked \in [Threads -> BOOLEAN] /\ entered \in [Threads -> BOOLEAN]
  /\ quit_ \in [Threads -> BOOLEAN] /\ awake \in [Threads -> BOOLEAN]
  /\ funcs \in [Threads -> Seq(Tasks \cup {Entered})]
  /\ current \in [Threads -> SUBSET Tasks]
  /\ owner \in [op : Ops, th : 0 .. MaxThreads]
  /\ given \in [Threads -> Seq(Tasks)]
  /\ done \in [Threads -> SUBSET Tasks]
  /\ returned \subseteq Tasks
  /\ loopIndex_ \in Nat

(* Before its loop is made a thread has no pointer to give away, so that   *)
(* no task can come before the function of loopFuncs().                    *)
Unborn ==
  \A i \in Threads :
    pc[i] \in {"none", "start"} => ~loop_[i] /\ funcs[i] = <<>> /\ given[i] = <<>>

(* How many of the tasks given to a loop it has begun. *)
Begun(i) == Len(given[i]) - Len(Waiting(i))

(* The tasks given to a loop are those executed, then the one it is in,    *)
(* then those that wait, in the order in which they were given.            *)
InOrder(i) ==
  /\ Waiting(i) \in Seq(Tasks)
  /\ Begun(i) \in Nat
  /\ \A k \in 1 .. Len(Waiting(i)) : Waiting(i)[k] = given[i][Begun(i) + k]
  /\ \A k \in 1 .. Begun(i) : given[i][k] \in done[i] \cup current[i]
  /\ \A k \in 1 .. Len(given[i]) : given[i][k] \in done[i] => k <= Begun(i)
  /\ \A t \in current[i] : Begun(i) >= 1 /\ t = given[i][Begun(i)]

(* One task is run at a time, and it is not done. *)
OneAtATime(i) ==
  /\ pc[i] = "run" => \E t \in Tasks : current[i] = {t}
  /\ pc[i] # "run" => current[i] = {}
  /\ current[i] \cap done[i] = {}

GivenOnce(i) ==
  \A k, l \in 1 .. Len(given[i]) : given[i][k] = given[i][l] => k = l

ThreadInv(i) == InOrder(i) /\ OneAtATime(i) /\ GivenOnce(i)

(* A task belongs to one loop. *)
Known(i, t) ==
  t \in done[i] \cup current[i] \/ \E k \in 1 .. Len(given[i]) : given[i][k] = t

Apart == \A i, j \in Threads : \A t \in Tasks : Known(i, t) /\ Known(j, t) => i = j

(* A synchronous call returns after its task. *)
ReturnedDone == \A t \in returned : \E i \in Threads : t \in done[i]

Inv == Typed /\ Unborn /\ (\A i \in Threads : ThreadInv(i)) /\ Apart /\ ReturnedDone

-----------------------------------------------------------------------------
LEMMA AppendFacts ==
  ASSUME NEW S, NEW s \in Seq(S), NEW x \in S
  PROVE  /\ Append(s, x) \in Seq(S)
         /\ Len(Append(s, x)) = Len(s) + 1
         /\ Len(s) \in Nat
         /\ \A i \in 1..Len(s) : Append(s, x)[i] = s[i] /\ s[i] \in S
         /\ Append(s, x)[Len(s) + 1] = x
OBVIOUS

LEMMA TailFacts ==
  ASSUME NEW S, NEW s \in Seq(S), s # <<>>
  PROVE  /\ Tail(s) \in Seq(S)
         /\ Len(Tail(s)) = Len(s) - 1
         /\ Len(s) \in Nat \ {0}
         /\ Head(s) = s[1]
         /\ \A i \in 1..Len(s) : s[i] \in S
         /\ \A i \in 1..Len(s) - 1 : Tail(s)[i] = s[i + 1]
OBVIOUS

LEMMA SeqEq ==
  ASSUME NEW S, NEW s \in Seq(S), NEW t \in Seq(S), Len(s) = Len(t),
         \A i \in 1..Len(s) : s[i] = t[i]
  PROVE  s = t
OBVIOUS

LEMMA AppendTail ==
  ASSUME NEW S, NEW s \in Seq(S), NEW x \in S, s # <<>>
  PROVE  Head(Append(s, x)) = Head(s) /\ Tail(Append(s, x)) = Append(Tail(s), x)
OBVIOUS

LEMMA NextLoopThread == ASSUME Typed PROVE NextLoop \in Threads
  BY ThreadsAssumption DEF Typed, NextLoop, Threads

(* The queue of a loop without the function of loopFuncs(). *)
LEMMA WaitingSame ==
  ASSUME NEW i \in Threads, funcs'[i] = funcs[i]
  PROVE  Waiting(i)' = Waiting(i)
  BY DEF Waiting

LEMMA WaitingTake ==
  ASSUME Typed, NEW i \in Threads, InOrder(i), funcs[i] # <<>>, Head(funcs[i]) # Entered,
         funcs' = [funcs EXCEPT ![i] = Tail(@)]
  PROVE  Waiting(i) = funcs[i] /\ Waiting(i)' = Tail(Waiting(i))
  <1>1. Waiting(i) = funcs[i] /\ funcs'[i] = Tail(funcs[i])
    BY DEF Waiting, Typed
  <1>2. /\ Tail(funcs[i]) \in Seq(Tasks)
        /\ Tail(funcs[i]) # <<>> => Head(Tail(funcs[i])) \in Tasks
    BY <1>1, TailFacts DEF InOrder
  <1> QED
    BY <1>1, <1>2, EnteredAssumption DEF Waiting

LEMMA WaitingGive ==
  ASSUME Typed, NEW i \in Threads, NEW t \in Tasks, InOrder(i),
         funcs' = [funcs EXCEPT ![i] = Append(@, t)]
  PROVE  Waiting(i)' = Append(Waiting(i), t)
  <1>1. funcs'[i] = Append(funcs[i], t) /\ funcs[i] \in Seq(Tasks \cup {Entered})
    BY DEF Typed
  <1>2. CASE funcs[i] = <<>>
    BY <1>1, <1>2, EnteredAssumption DEF Waiting
  <1>3. CASE funcs[i] # <<>>
    <2>1. /\ Head(Append(funcs[i], t)) = Head(funcs[i])
          /\ Tail(Append(funcs[i], t)) = Append(Tail(funcs[i]), t)
          /\ Append(funcs[i], t) # <<>>
      BY <1>1, <1>3, AppendTail
    <2> QED
      BY <1>1, <1>3, <2>1 DEF Waiting
  <1> QED
    BY <1>2, <1>3

LEMMA InitInv == Init => Inv
  <1> SUFFICES ASSUME Init PROVE Inv
    OBVIOUS
  <1> USE ThreadsAssumption
  <1>1. Typed
    BY DEF Init, Typed, Threads, Pcs, Ops
  <1>2. Unborn
    BY DEF Init, Unborn
  <1>3. ASSUME NEW i \in Threads PROVE ThreadInv(i)
    <2>1. Waiting(i) = <<>> /\ given[i] = <<>> /\ done[i] = {} /\ current[i] = {} /\ pc[i] = "none"
      BY DEF Init, Waiting
    <2>2. Waiting(i) \in Seq(Tasks) /\ Len(Waiting(i)) = 0 /\ Len(given[i]) = 0
      BY <2>1
    <2> QED
      BY <2>1, <2>2 DEF ThreadInv, InOrder, OneAtATime, GivenOnce, Begun
  <1>4. Apart /\ ReturnedDone
    BY DEF Init, Apart, Known, ReturnedDone
  <1> QED
    BY <1>1, <1>2, <1>3, <1>4 DEF Inv

-----------------------------------------------------------------------------
(* Type correctness *)

OwnerMoves ==
  \/ \E i \in Threads : \/ Construct(i) \/ Constructed(i) \/ RunAsk(i) \/ RunDone(i)
                        \/ WaitDone(i) \/ DtorQuit(i) \/ JoinDone(i)
  \/ StopDone \/ Start \/ WaitCall \/ StopQuit \/ Destroy

LoopMoves(i) == EnterLoop(i) \/ TestQuit(i) \/ Poll(i) \/ DrainEnd(i) \/ LeaveLoop(i)

LEMMA OwnerTypes ==
  ASSUME Typed, OwnerMoves
  PROVE  Typed'
  <1> USE ThreadsAssumption
  <1>1. owner' \in [op : Ops, th : 0 .. MaxThreads]
    BY DEF OwnerMoves, Construct, Constructed, RunAsk, RunDone, WaitDone, DtorQuit, JoinDone,
           StopDone, Start, WaitCall, StopQuit, Destroy, Goto, At, Typed, Ops, Threads
  <1>2. UNCHANGED <<n, serial, entered, funcs, current, given, done, returned, loopIndex_>>
    BY DEF OwnerMoves, Construct, Constructed, RunAsk, RunDone, WaitDone, DtorQuit, JoinDone,
           StopDone, Start, WaitCall, StopQuit, Destroy, OnlyOwner, user, thread
  <1>3. pc' \in [Threads -> Pcs]
    BY DEF OwnerMoves, Construct, Constructed, RunAsk, RunDone, WaitDone, DtorQuit, JoinDone,
           StopDone, Start, WaitCall, StopQuit, Destroy, OnlyOwner, thread, Typed, Pcs
  <1>4. /\ loop_' \in [Threads -> BOOLEAN] /\ asked' \in [Threads -> BOOLEAN]
        /\ quit_' \in [Threads -> BOOLEAN] /\ awake' \in [Threads -> BOOLEAN]
    BY DEF OwnerMoves, Construct, Constructed, RunAsk, RunDone, WaitDone, DtorQuit, JoinDone,
           StopDone, Start, WaitCall, StopQuit, Destroy, OnlyOwner, thread, Quit, Typed
  <1> QED
    BY <1>1, <1>2, <1>3, <1>4 DEF Typed

LEMMA LoopTypes ==
  ASSUME Typed, NEW i \in Threads, LoopMoves(i) \/ MakeLoop(i) \/ RunEntered(i)
  PROVE  Typed'
  <1>1. UNCHANGED <<n, serial, asked, current, owner, given, done, returned, loopIndex_>>
    BY DEF LoopMoves, EnterLoop, TestQuit, Poll, DrainEnd, LeaveLoop, MakeLoop, RunEntered, user
  <1>2. pc' \in [Threads -> Pcs]
    BY DEF LoopMoves, EnterLoop, TestQuit, Poll, DrainEnd, LeaveLoop, MakeLoop, RunEntered,
           Typed, Pcs
  <1>3. /\ loop_' \in [Threads -> BOOLEAN] /\ entered' \in [Threads -> BOOLEAN]
        /\ quit_' \in [Threads -> BOOLEAN] /\ awake' \in [Threads -> BOOLEAN]
    BY DEF LoopMoves, EnterLoop, TestQuit, Poll, DrainEnd, LeaveLoop, MakeLoop, RunEntered,
           Typed
  <1>4. funcs' \in [Threads -> Seq(Tasks \cup {Entered})]
    <2>1. CASE LoopMoves(i)
      BY <2>1 DEF LoopMoves, EnterLoop, TestQuit, Poll, DrainEnd, LeaveLoop, Typed
    <2>2. CASE MakeLoop(i)
      <3>1. <<Entered>> \in Seq(Tasks \cup {Entered})
        OBVIOUS
      <3> QED
        BY <2>2, <3>1 DEF MakeLoop, Typed
    <2>3. CASE RunEntered(i)
      BY <2>3, TailFacts DEF RunEntered, Typed
    <2> QED
      BY <2>1, <2>2, <2>3
  <1> QED
    BY <1>1, <1>2, <1>3, <1>4 DEF Typed

LEMMA TaskTypes ==
  ASSUME Typed, NEW i \in Threads, InOrder(i), RunTask(i) \/ TaskEnd(i)
  PROVE  Typed'
  <1>1. CASE RunTask(i)
    <2>1. funcs[i] \in Seq(Tasks) /\ funcs[i] # <<>>
      BY <1>1 DEF RunTask, InOrder, Waiting
    <2>2. Head(funcs[i]) \in Tasks /\ Tail(funcs[i]) \in Seq(Tasks \cup {Entered})
      <3>1. Tail(funcs[i]) \in Seq(Tasks \cup {Entered})
        BY <2>1, TailFacts DEF Typed
      <3> QED
        BY <2>1, <3>1, TailFacts
    <2> QED
      BY <1>1, <2>2 DEF RunTask, Typed, Pcs, user
  <1>2. CASE TaskEnd(i)
    <2>1. PICK t \in current[i] :
               /\ done' = [done EXCEPT ![i] = @ \cup {t}]
               /\ current' = [current EXCEPT ![i] = {}]
               /\ quit_' = [quit_ EXCEPT ![i] = @ \/ t \in QuitTasks]
               /\ pc' = [pc EXCEPT ![i] = "drain"]
      BY <1>2 DEF TaskEnd
    <2>2. UNCHANGED <<n, serial, loop_, asked, entered, awake, funcs, owner, given, returned,
                      loopIndex_>>
      BY <1>2 DEF TaskEnd
    <2>3. quit_' \in [Threads -> BOOLEAN]
      BY <2>1 DEF Typed
    <2> QED
      BY <2>1, <2>2, <2>3 DEF Typed, Pcs
  <1> QED
    BY <1>1, <1>2

LEMMA ClientTypes ==
  ASSUME Typed, Client
  PROVE  Typed'
  <1>1. CASE \E t \in Tasks : Give(t)
    <2> PICK t \in Tasks : Give(t)
      BY <1>1
    <2>1. NextLoop \in Threads
      BY NextLoopThread
    <2>2. funcs' \in [Threads -> Seq(Tasks \cup {Entered})] /\ given' \in [Threads -> Seq(Tasks)]
      BY <2>1, AppendFacts DEF Give, Typed
    <2> QED
      BY <2>1, <2>2 DEF Give, Typed
  <1>2. CASE \E i \in Threads, t \in Tasks : GiveInside(i, t)
    BY <1>2 DEF GiveInside, Typed, thread
  <1>3. CASE \E i \in Threads, t \in SyncTasks : SyncReturn(i, t)
    BY <1>3 DEF SyncReturn, Typed, thread
  <1> QED
    BY <1>1, <1>2, <1>3 DEF Client

-----------------------------------------------------------------------------
(* The tasks of the loops *)

(* A loop whose tasks stay where they are keeps its invariant. *)
Still(i) ==
  /\ Waiting(i)' = Waiting(i)
  /\ given'[i] = given[i] /\ done'[i] = done[i] /\ current'[i] = current[i]
  /\ pc'[i] = "run" <=> pc[i] = "run"

LEMMA StillKeeps ==
  ASSUME NEW i \in Threads, ThreadInv(i), Still(i)
  PROVE  ThreadInv(i)'
  <1>1. Begun(i)' = Begun(i)
    BY DEF Still, Begun
  <1> QED
    BY <1>1 DEF Still, ThreadInv, InOrder, OneAtATime, GivenOnce

LEMMA QuietInv ==
  ASSUME Inv, Typed', Unborn', \A i \in Threads : Still(i), returned' = returned
  PROVE  Inv'
  <1>1. \A i \in Threads : ThreadInv(i)'
    BY StillKeeps DEF Inv
  <1>2. \A i \in Threads : done'[i] = done[i] /\ current'[i] = current[i] /\ given'[i] = given[i]
    BY DEF Still
  <1>3. Apart' /\ ReturnedDone'
    BY <1>2 DEF Inv, Apart, Known, ReturnedDone
  <1> QED
    BY <1>1, <1>3 DEF Inv

LEMMA OwnerInv ==
  ASSUME Inv, OwnerMoves
  PROVE  Inv'
  <1>1. Typed'
    BY OwnerTypes DEF Inv
  <1>2. UNCHANGED <<funcs, current, given, done, returned>>
    BY DEF OwnerMoves, Construct, Constructed, RunAsk, RunDone, WaitDone, DtorQuit, JoinDone,
           StopDone, Start, WaitCall, StopQuit, Destroy, OnlyOwner, user, thread
  <1>3. Unborn'
    BY <1>2 DEF Inv, Typed, Unborn, OwnerMoves, Construct, Constructed, RunAsk, RunDone, WaitDone,
           DtorQuit, JoinDone, StopDone, Start, WaitCall, StopQuit, Destroy, OnlyOwner, thread
  <1>4. \A i \in Threads : pc'[i] = "run" <=> pc[i] = "run"
    BY DEF Inv, Typed, OwnerMoves, Construct, Constructed, RunAsk, RunDone, WaitDone,
           DtorQuit, JoinDone, StopDone, Start, WaitCall, StopQuit, Destroy, OnlyOwner, thread
  <1>5. \A i \in Threads : Still(i)
    BY <1>2, <1>4, WaitingSame DEF Still
  <1> QED
    BY <1>1, <1>2, <1>3, <1>5, QuietInv

(* The steps of a loop thread outside its tasks do not move a task. *)
LEMMA LoopStill ==
  ASSUME Inv, NEW i \in Threads, LoopMoves(i) \/ MakeLoop(i) \/ RunEntered(i), NEW j \in Threads
  PROVE  Waiting(j)' = Waiting(j)
  <1>1. CASE j # i
    <2>1. funcs'[j] = funcs[j]
      BY <1>1 DEF LoopMoves, EnterLoop, TestQuit, Poll, DrainEnd, LeaveLoop, MakeLoop, RunEntered,
             Inv, Typed
    <2> QED
      BY <2>1, WaitingSame
  <1>2. CASE j = i
    <2> SUFFICES Waiting(i)' = Waiting(i)
      BY <1>2
    <2>1. CASE LoopMoves(i)
      BY <2>1 DEF LoopMoves, EnterLoop, TestQuit, Poll, DrainEnd, LeaveLoop, Waiting
    <2>2. CASE MakeLoop(i)
      <3>1. funcs[i] = <<>> /\ funcs'[i] = <<Entered>>
        BY <2>2 DEF MakeLoop, Inv, Unborn, Typed
      <3>2. Head(<<Entered>>) = Entered /\ Tail(<<Entered>>) = <<>>
        OBVIOUS
      <3> QED
        BY <3>1, <3>2 DEF Waiting
    <2>3. CASE RunEntered(i)
      <3>1. Waiting(i) = Tail(funcs[i]) /\ funcs'[i] = Tail(funcs[i])
        BY <2>3 DEF RunEntered, Waiting, Inv, Typed
      <3>2. Tail(funcs[i]) \in Seq(Tasks)
        BY <3>1 DEF Inv, ThreadInv, InOrder
      <3>3. Tail(funcs[i]) # <<>> => Head(Tail(funcs[i])) \in Tasks
        BY <3>2
      <3> QED
        BY <3>1, <3>3, EnteredAssumption DEF Waiting
    <2> QED
      BY <2>1, <2>2, <2>3
  <1> QED
    BY <1>1, <1>2

LEMMA LoopInv ==
  ASSUME Inv, NEW i \in Threads, LoopMoves(i) \/ MakeLoop(i) \/ RunEntered(i)
  PROVE  Inv'
  <1>1. Typed'
    BY LoopTypes DEF Inv
  <1>2. UNCHANGED <<current, given, done, returned>>
    BY DEF LoopMoves, EnterLoop, TestQuit, Poll, DrainEnd, LeaveLoop, MakeLoop, RunEntered, user
  <1>3. \A j \in Threads : j # i => funcs'[j] = funcs[j]
    BY DEF LoopMoves, EnterLoop, TestQuit, Poll, DrainEnd, LeaveLoop, MakeLoop, RunEntered,
           Inv, Typed
  <1>4. Unborn'
    BY <1>2, <1>3 DEF LoopMoves, EnterLoop, TestQuit, Poll, DrainEnd, LeaveLoop, MakeLoop,
           RunEntered, Inv, Typed, Unborn
  <1>5. \A j \in Threads : pc'[j] = "run" <=> pc[j] = "run"
    BY DEF LoopMoves, EnterLoop, TestQuit, Poll, DrainEnd, LeaveLoop, MakeLoop, RunEntered,
           Inv, Typed
  <1>6. \A j \in Threads : Waiting(j)' = Waiting(j)
    BY LoopStill
  <1>7. \A j \in Threads : Still(j)
    BY <1>2, <1>5, <1>6 DEF Still
  <1> QED
    BY <1>1, <1>2, <1>4, <1>7, QuietInv

LEMMA RunTaskInv ==
  ASSUME Inv, NEW i \in Threads, RunTask(i)
  PROVE  Inv'
  <1> DEFINE G == Len(given[i])
             W == Len(Waiting(i))
             t == Head(Waiting(i))
  <1>1. Typed /\ Typed' /\ ThreadInv(i) /\ Unborn /\ Apart /\ ReturnedDone
    BY TaskTypes DEF Inv, ThreadInv
  <1>2. /\ pc[i] = "drain" /\ funcs' = [funcs EXCEPT ![i] = Tail(@)]
        /\ pc' = [pc EXCEPT ![i] = "run"] /\ current' = [current EXCEPT ![i] = {Head(funcs[i])}]
        /\ UNCHANGED <<loop_, given, done, returned>>
    BY DEF RunTask, user
  <1>3. Waiting(i) = funcs[i] /\ Waiting(i)' = Tail(Waiting(i)) /\ Waiting(i) # <<>>
    BY <1>1, WaitingTake DEF RunTask, ThreadInv
  <1>4. /\ W \in Nat \ {0} /\ Len(Waiting(i)') = W - 1 /\ Waiting(i)' \in Seq(Tasks)
        /\ \A k \in 1 .. W - 1 : Waiting(i)'[k] = Waiting(i)[k + 1]
        /\ t = Waiting(i)[1] /\ t \in Tasks
    BY <1>1, <1>3, TailFacts DEF ThreadInv, InOrder
  <1>5. /\ current[i] = {} /\ current'[i] = {t} /\ pc'[i] = "run"
        /\ \A j \in Threads : j # i => current'[j] = current[j] /\ pc'[j] = pc[j] /\ funcs'[j] = funcs[j]
    BY <1>1, <1>2, <1>3 DEF ThreadInv, OneAtATime, Typed
  <1>6. G \in Nat
    BY <1>1 DEF Typed
  <1> DEFINE B == Begun(i)
  <1>7. /\ B \in Nat /\ G = B + W
        /\ \A k \in 1 .. W : Waiting(i)[k] = given[i][B + k]
        /\ \A k \in 1 .. B : given[i][k] \in done[i]
        /\ \A k \in 1 .. G : given[i][k] \in done[i] => k <= B
    BY <1>1, <1>4, <1>5, <1>6 DEF ThreadInv, InOrder, Begun
  <1>8. Begun(i)' = B + 1
    BY <1>2, <1>4, <1>6 DEF Begun
  <1> HIDE DEF G, W, B
  <1>9. t = given[i][B + 1] /\ B + 1 \in 1 .. G
    BY <1>4, <1>7
  <1>10. InOrder(i)'
    <2>1. \A k \in 1 .. W - 1 : Waiting(i)'[k] = given[i][(B + 1) + k]
      <3> SUFFICES ASSUME NEW k \in 1 .. W - 1
                   PROVE  Waiting(i)'[k] = given[i][(B + 1) + k]
        OBVIOUS
      <3>1. k + 1 \in 1 .. W /\ (B + 1) + k = B + (k + 1)
        BY <1>4, <1>7
      <3> QED
        BY <3>1, <1>4, <1>7
    <2>2. \A k \in 1 .. B + 1 : given[i][k] \in done[i] \cup {t}
      <3>1. \A k \in 1 .. B + 1 : k \in 1 .. B \/ k = B + 1
        BY <1>7
      <3> QED
        BY <3>1, <1>7, <1>9
    <2>3. \A k \in 1 .. G : given[i][k] \in done[i] => k <= B + 1
      BY <1>7
    <2>4. \A u \in current'[i] : Begun(i)' >= 1 /\ u = given'[i][Begun(i)']
      <3> HIDE DEF t
      <3>1. B + 1 >= 1 /\ given'[i][Begun(i)'] = given[i][B + 1]
        BY <1>2, <1>7, <1>8
      <3> QED
        BY <3>1, <1>5, <1>8, <1>9
    <2>5. Begun(i)' \in Nat
      BY <1>7, <1>8
    <2>6. \A k \in 1 .. Len(Waiting(i)') : Waiting(i)'[k] = given'[i][Begun(i)' + k]
      BY <2>1, <1>2, <1>4, <1>8
    <2>7. \A k \in 1 .. Begun(i)' : given'[i][k] \in done'[i] \cup current'[i]
      BY <2>2, <1>2, <1>5, <1>8
    <2>8. \A k \in 1 .. Len(given'[i]) : given'[i][k] \in done'[i] => k <= Begun(i)'
      BY <2>3, <1>2, <1>8 DEF G
    <2> QED
      BY <2>4, <2>5, <2>6, <2>7, <2>8, <1>4 DEF InOrder
  <1>11. t \notin done[i]
    BY <1>7, <1>9
  <1>12. ThreadInv(i)'
    <2>1. OneAtATime(i)'
      BY <1>2, <1>4, <1>5, <1>11 DEF OneAtATime
    <2>2. GivenOnce(i)'
      BY <1>1, <1>2 DEF ThreadInv, GivenOnce
    <2> QED
      BY <2>1, <2>2, <1>10 DEF ThreadInv
  <1>13. \A j \in Threads : j # i => ThreadInv(j)'
    <2>1. \A j \in Threads : j # i => Still(j)
      BY <1>2, <1>5, WaitingSame DEF Still
    <2> QED
      BY <2>1, StillKeeps DEF Inv
  <1>14. Apart'
    <2>1. \A j \in Threads, u \in Tasks : Known(j, u)' => Known(j, u)
      BY <1>2, <1>5, <1>9 DEF Known, G
    <2> QED
      BY <2>1, <1>1 DEF Apart
  <1>15. Unborn'
    <2>1. \A j \in Threads : pc'[j] \in {"none", "start"} => j # i
      BY <1>5
    <2> QED
      BY <2>1, <1>1, <1>2, <1>5 DEF Unborn
  <1>16. ReturnedDone'
    BY <1>1, <1>2 DEF ReturnedDone
  <1> QED
    BY <1>1, <1>12, <1>13, <1>14, <1>15, <1>16 DEF Inv

LEMMA TaskEndInv ==
  ASSUME Inv, NEW i \in Threads, TaskEnd(i)
  PROVE  Inv'
  <1>1. Typed /\ Typed' /\ ThreadInv(i) /\ Unborn /\ Apart /\ ReturnedDone
    BY TaskTypes DEF Inv, ThreadInv
  <1>2. PICK t \in current[i] :
             /\ done' = [done EXCEPT ![i] = @ \cup {t}]
             /\ current' = [current EXCEPT ![i] = {}]
             /\ pc' = [pc EXCEPT ![i] = "drain"]
    BY DEF TaskEnd
  <1>3. pc[i] = "run" /\ UNCHANGED <<loop_, funcs, given, returned>>
    BY DEF TaskEnd
  <1>4. /\ current[i] = {t} /\ current'[i] = {} /\ done'[i] = done[i] \cup {t} /\ pc'[i] = "drain"
        /\ \A j \in Threads : j # i => /\ current'[j] = current[j] /\ done'[j] = done[j]
                                       /\ pc'[j] = pc[j]
    BY <1>1, <1>2, <1>3 DEF ThreadInv, OneAtATime, Typed
  <1>5. Waiting(i)' = Waiting(i) /\ Begun(i)' = Begun(i)
    BY <1>3 DEF Waiting, Begun
  <1>6. InOrder(i)'
    <2>1. Begun(i) \in Nat /\ Begun(i) >= 1 /\ t = given[i][Begun(i)]
      BY <1>1 DEF ThreadInv, InOrder
    <2>2. Begun(i) \in 1 .. Len(given[i])
      BY <1>1, <2>1 DEF Begun, Typed, ThreadInv, InOrder
    <2>3. \A k \in 1 .. Len(given[i]) : given[i][k] = t => k = Begun(i)
      BY <1>1, <2>1, <2>2 DEF ThreadInv, GivenOnce
    <2>4. \A k \in 1 .. Len(given[i]) : given[i][k] \in done[i] \cup {t} => k <= Begun(i)
      BY <1>1, <2>1, <2>3 DEF ThreadInv, InOrder
    <2> QED
      BY <2>4, <1>1, <1>3, <1>4, <1>5 DEF ThreadInv, InOrder
  <1>7. ThreadInv(i)'
    BY <1>1, <1>3, <1>4, <1>6 DEF ThreadInv, OneAtATime, GivenOnce
  <1>8. \A j \in Threads : j # i => ThreadInv(j)'
    <2>1. \A j \in Threads : j # i => Still(j)
      BY <1>3, <1>4, WaitingSame DEF Still
    <2> QED
      BY <2>1, StillKeeps DEF Inv
  <1>9. Apart'
    <2>1. \A j \in Threads, u \in Tasks : Known(j, u)' => Known(j, u)
      BY <1>3, <1>4 DEF Known
    <2> QED
      BY <2>1, <1>1 DEF Apart
  <1>10. Unborn'
    <2>1. \A j \in Threads : pc'[j] \in {"none", "start"} => j # i
      BY <1>4
    <2> QED
      BY <2>1, <1>1, <1>3, <1>4 DEF Unborn
  <1>11. ReturnedDone'
    BY <1>1, <1>3, <1>4 DEF ReturnedDone
  <1> QED
    BY <1>1, <1>7, <1>8, <1>9, <1>10, <1>11 DEF Inv

LEMMA GiveInv ==
  ASSUME Inv, NEW t \in Tasks, Give(t)
  PROVE  Inv'
  <1> PICK i \in Threads : i = NextLoop
    BY NextLoopThread DEF Inv
  <1>1. Typed /\ Typed' /\ ThreadInv(i) /\ Unborn /\ Apart /\ ReturnedDone
    BY ClientTypes DEF Inv, Client
  <1>2. /\ Fresh(t) /\ loop_[i]
        /\ funcs' = [funcs EXCEPT ![i] = Append(@, t)]
        /\ given' = [given EXCEPT ![i] = Append(@, t)]
        /\ UNCHANGED <<pc, loop_, current, done, returned>>
    BY DEF Give
  <1> DEFINE G == Len(given[i])
             W == Len(Waiting(i))
             B == Begun(i)
  <1>3. Waiting(i)' = Append(Waiting(i), t) /\ given'[i] = Append(given[i], t)
        /\ \A j \in Threads : j # i => funcs'[j] = funcs[j] /\ given'[j] = given[j]
    BY <1>1, <1>2, WaitingGive DEF ThreadInv, Typed
  <1>4. /\ G \in Nat /\ Len(given'[i]) = G + 1 /\ given'[i][G + 1] = t
        /\ \A k \in 1 .. G : given'[i][k] = given[i][k]
    BY <1>1, <1>3, AppendFacts DEF Typed
  <1>5. /\ W \in Nat /\ Len(Waiting(i)') = W + 1 /\ Waiting(i)'[W + 1] = t
        /\ \A k \in 1 .. W : Waiting(i)'[k] = Waiting(i)[k]
        /\ Waiting(i)' \in Seq(Tasks)
    BY <1>1, <1>3, AppendFacts DEF ThreadInv, InOrder
  <1>6. /\ B \in Nat /\ G = B + W
        /\ \A k \in 1 .. W : Waiting(i)[k] = given[i][B + k]
        /\ \A k \in 1 .. B : given[i][k] \in done[i] \cup current[i]
        /\ \A k \in 1 .. G : given[i][k] \in done[i] => k <= B
        /\ \A u \in current[i] : B >= 1 /\ u = given[i][B]
    <2>1. G = B + W
      BY <1>1, <1>4, <1>5 DEF Begun
    <2> HIDE DEF G, W, B
    <2> QED
      BY <2>1, <1>1 DEF ThreadInv, InOrder, G, W, B
  <1>7. Begun(i)' = B
    BY <1>4, <1>5 DEF Begun
  <1>8. /\ \A j \in Threads : t \notin done[j] \cup current[j]
        /\ \A j \in Threads : \A k \in 1 .. Len(given[j]) : given[j][k] # t
    BY <1>2 DEF Fresh
  <1> HIDE DEF G, W, B
  <1>9. \A k \in 1 .. G + 1 : k \in 1 .. G \/ k = G + 1
    BY <1>4
  <1>10. InOrder(i)'
    <2>1. \A k \in 1 .. W + 1 : Waiting(i)'[k] = given'[i][B + k]
      <3> SUFFICES ASSUME NEW k \in 1 .. W + 1
                   PROVE  Waiting(i)'[k] = given'[i][B + k]
        OBVIOUS
      <3>1. CASE k \in 1 .. W
        <4>1. B + k \in 1 .. G
          BY <3>1, <1>4, <1>5, <1>6
        <4> QED
          BY <3>1, <4>1, <1>4, <1>5, <1>6
      <3>2. CASE k = W + 1
        <4>1. B + k = G + 1
          BY <3>2, <1>5, <1>6
        <4> QED
          BY <3>2, <4>1, <1>4, <1>5
      <3> QED
        BY <3>1, <3>2, <1>5
    <2>2. \A k \in 1 .. B : k \in 1 .. G /\ given'[i][k] \in done[i] \cup current[i]
      <3> SUFFICES ASSUME NEW k \in 1 .. B
                   PROVE  k \in 1 .. G /\ given'[i][k] \in done[i] \cup current[i]
        OBVIOUS
      <3>1. k \in 1 .. G
        BY <1>5, <1>6
      <3>2. given'[i][k] = given[i][k]
        BY <3>1, <1>4
      <3>3. given[i][k] \in done[i] \cup current[i]
        BY <1>6
      <3> QED
        BY <3>1, <3>2, <3>3
    <2>3. \A k \in 1 .. G + 1 : given'[i][k] \in done[i] => k <= B
      BY <1>4, <1>6, <1>8, <1>9
    <2>4. \A u \in current[i] : B >= 1 /\ u = given'[i][B]
      <3>1. B >= 1 => B \in 1 .. G
        BY <1>5, <1>6
      <3> QED
        BY <3>1, <1>4, <1>6
    <2>5. \A k \in 1 .. Len(Waiting(i)') : Waiting(i)'[k] = given'[i][Begun(i)' + k]
      BY <2>1, <1>5, <1>7
    <2>6. \A k \in 1 .. Begun(i)' : given'[i][k] \in done'[i] \cup current'[i]
      BY <2>2, <1>2, <1>7
    <2>7. \A k \in 1 .. Len(given'[i]) : given'[i][k] \in done'[i] => k <= Begun(i)'
      BY <2>3, <1>2, <1>4, <1>7
    <2>8. Begun(i)' \in Nat /\ \A u \in current'[i] : Begun(i)' >= 1 /\ u = given'[i][Begun(i)']
      BY <2>4, <1>2, <1>6, <1>7
    <2> QED
      BY <2>5, <2>6, <2>7, <2>8, <1>5 DEF InOrder
  <1>11. GivenOnce(i)'
    <2>1. \A k, l \in 1 .. G : given[i][k] = given[i][l] => k = l
      BY <1>1 DEF ThreadInv, GivenOnce, G
    <2>2. \A k \in 1 .. G : given[i][k] # t
      BY <1>8 DEF G
    <2>3. Len(given'[i]) = G + 1
      BY <1>4
    <2>4. \A k \in 1 .. G : given'[i][k] = given[i][k] /\ given'[i][k] # t
      BY <2>2, <1>4
    <2>5. given'[i][G + 1] = t
      BY <1>4
    <2>6. \A k, l \in 1 .. G + 1 : given'[i][k] = given'[i][l] => k = l
      BY <2>1, <2>4, <2>5, <1>9
    <2> QED
      BY <2>3, <2>6 DEF GivenOnce
  <1>12. ThreadInv(i)'
    BY <1>1, <1>2, <1>10, <1>11 DEF ThreadInv, OneAtATime
  <1>13. \A j \in Threads : j # i => ThreadInv(j)'
    <2>1. \A j \in Threads : j # i => Still(j)
      BY <1>2, <1>3, WaitingSame DEF Still
    <2> QED
      BY <2>1, StillKeeps DEF Inv
  <1>14. Apart'
    <2>1. \A j \in Threads, u \in Tasks : Known(j, u)' => Known(j, u) \/ (u = t /\ j = i)
      BY <1>2, <1>3, <1>4, <1>9 DEF Known, G
    <2>2. \A j \in Threads : ~Known(j, t)
      BY <1>8 DEF Known
    <2> QED
      BY <2>1, <2>2, <1>1 DEF Apart
  <1>15. Unborn'
    BY <1>1, <1>2, <1>3 DEF Unborn
  <1>16. ReturnedDone'
    BY <1>1, <1>2 DEF ReturnedDone
  <1> QED
    BY <1>1, <1>12, <1>13, <1>14, <1>15, <1>16 DEF Inv

LEMMA GiveInsideInv ==
  ASSUME Inv, NEW i \in Threads, NEW t \in Tasks, GiveInside(i, t)
  PROVE  Inv'
  <1>1. Typed /\ Typed' /\ ThreadInv(i) /\ Unborn /\ Apart /\ ReturnedDone
    BY ClientTypes DEF Inv, Client
  <1>2. /\ pc[i] = "run" /\ Fresh(t)
        /\ done' = [done EXCEPT ![i] = @ \cup {t}]
        /\ UNCHANGED <<pc, loop_, funcs, current, given, returned>>
    BY DEF GiveInside, thread
  <1>3. done'[i] = done[i] \cup {t} /\ \A j \in Threads : j # i => done'[j] = done[j]
    BY <1>1, <1>2 DEF Typed
  <1>4. /\ \A j \in Threads : t \notin done[j] \cup current[j]
        /\ \A j \in Threads : \A k \in 1 .. Len(given[j]) : given[j][k] # t
    BY <1>2 DEF Fresh
  <1>5. Waiting(i)' = Waiting(i) /\ Begun(i)' = Begun(i)
    BY <1>2 DEF Waiting, Begun
  <1>6. ThreadInv(i)'
    BY <1>1, <1>2, <1>3, <1>4, <1>5 DEF ThreadInv, InOrder, OneAtATime, GivenOnce
  <1>7. \A j \in Threads : j # i => ThreadInv(j)'
    <2>1. \A j \in Threads : j # i => Still(j)
      BY <1>2, <1>3, WaitingSame DEF Still
    <2> QED
      BY <2>1, StillKeeps DEF Inv
  <1>8. Apart'
    <2>1. \A j \in Threads, u \in Tasks : Known(j, u)' => Known(j, u) \/ (u = t /\ j = i)
      BY <1>2, <1>3 DEF Known
    <2>2. \A j \in Threads : ~Known(j, t)
      BY <1>4 DEF Known
    <2> QED
      BY <2>1, <2>2, <1>1 DEF Apart
  <1>9. Unborn' /\ ReturnedDone'
    BY <1>1, <1>2, <1>3 DEF Unborn, ReturnedDone
  <1> QED
    BY <1>1, <1>6, <1>7, <1>8, <1>9 DEF Inv

LEMMA SyncReturnInv ==
  ASSUME Inv, NEW i \in Threads, NEW t \in SyncTasks, SyncReturn(i, t)
  PROVE  Inv'
  <1>1. Typed' /\ Unborn /\ Apart /\ ReturnedDone
    BY ClientTypes DEF Inv, Client
  <1>2. /\ t \in done[i] /\ returned' = returned \cup {t}
        /\ UNCHANGED <<pc, loop_, funcs, current, given, done>>
    BY DEF SyncReturn, thread
  <1>3. \A j \in Threads : ThreadInv(j)'
    <2>1. \A j \in Threads : Still(j)
      BY <1>2, WaitingSame DEF Still
    <2> QED
      BY <2>1, StillKeeps DEF Inv
  <1>4. Apart' /\ Unborn' /\ ReturnedDone'
    BY <1>1, <1>2 DEF Apart, Known, Unborn, ReturnedDone
  <1> QED
    BY <1>1, <1>3, <1>4 DEF Inv

LEMMA NextInv ==
  ASSUME Inv, [Next]_vars
  PROVE  Inv'
  <1>1. CASE OwnerStep \/ OwnerCall
    BY <1>1, OwnerInv DEF OwnerStep, OwnerCall, OwnerMoves
  <1>2. CASE \E i \in Threads : LoopStep(i)
    BY <1>2, LoopInv, RunTaskInv, TaskEndInv DEF LoopStep, LoopMoves
  <1>3. CASE Client
    BY <1>3, GiveInv, GiveInsideInv, SyncReturnInv DEF Client
  <1>4. CASE UNCHANGED vars
    <2>1. /\ UNCHANGED <<n, serial, pc, loop_, asked, entered, quit_, awake, funcs, current>>
          /\ UNCHANGED <<owner, given, done, returned, loopIndex_>>
      BY <1>4 DEF vars, thread, user
    <2>2. Typed' /\ Unborn'
      BY <2>1 DEF Inv, Typed, Unborn
    <2>3. \A i \in Threads : Still(i)
      BY <2>1, WaitingSame DEF Still
    <2> QED
      BY <2>1, <2>2, <2>3, QuietInv
  <1> QED
    BY <1>1, <1>2, <1>3, <1>4 DEF Next

(* The tasks of a loop stay in the order in which they were given, and a   *)
(* task belongs to one loop, for any number of loops and tasks.            *)
THEOREM InvHolds == Spec => []Inv
  <1> QED
    BY InitInv, NextInv, PTL DEF Spec

(* Type correctness of EventLoopThread. *)
THEOREM TypeCorrect == Spec => []Typed
  <1>1. Inv => Typed
    BY DEF Inv
  <1> QED
    BY <1>1, InvHolds, PTL

(* syncTaskInQueue() returns only when every task given to the loop before *)
(* is finished, whatever is given in between and by whom.                  *)
THEOREM SyncCovers == Spec => []SyncCoversEarlier
  <1>1. Inv => SyncCoversEarlier
    <2> SUFFICES ASSUME Inv, NEW i \in Threads, NEW k \in 1 .. Len(given[i]),
                        NEW l \in 1 .. Len(given[i]), k < l, given[i][l] \in returned
                 PROVE  given[i][k] \in done[i]
      BY DEF SyncCoversEarlier
    <2>1. ThreadInv(i) /\ Apart /\ ReturnedDone /\ Typed
      BY DEF Inv
    <2>2. PICK j \in Threads : given[i][l] \in done[j]
      BY <2>1 DEF ReturnedDone
    <2>3. j = i
      BY <2>1, <2>2 DEF Apart, Known, Typed
    <2>4. l <= Begun(i) /\ Begun(i) \in Nat
      BY <2>1, <2>2, <2>3 DEF ThreadInv, InOrder
    <2>5. k \in 1 .. Begun(i) /\ k # Begun(i)
      BY <2>1, <2>4 DEF Typed
    <2>6. Len(given[i]) \in Nat /\ Begun(i) \in 1 .. Len(given[i])
      BY <2>1, <2>4 DEF Typed, ThreadInv, InOrder, Begun
    <2>7. given[i][k] \notin current[i]
      BY <2>1, <2>5, <2>6 DEF ThreadInv, InOrder, GivenOnce
    <2> QED
      BY <2>1, <2>5, <2>7 DEF ThreadInv, InOrder
  <1> QED
    BY <1>1, InvHolds, PTL

-----------------------------------------------------------------------------
(* Each loop thread implements TaskQueue *)

LEMMA CardinalitySame == \A i \in Threads : \A S : TQ(i)!Cardinality(S) = Cardinality(S)
  BY Zenon DEF TQ!Cardinality, Cardinality

(* What waits at a loop was given to it. *)
LEMMA WaitingKnown ==
  ASSUME Typed, NEW i \in Threads, InOrder(i), NEW k \in 1 .. Len(Waiting(i))
  PROVE  Known(i, Waiting(i)[k])
  <1> DEFINE W == Len(Waiting(i))
             G == Len(given[i])
             B == Begun(i)
  <1>1. G \in Nat /\ W \in Nat /\ B \in Nat /\ G = B + W
    BY DEF Typed, InOrder, Begun
  <1>2. Waiting(i)[k] = given[i][B + k]
    BY DEF InOrder
  <1> HIDE DEF B, G
  <1>3. B + k \in 1 .. G
    BY <1>1
  <1> QED
    BY <1>2, <1>3 DEF Known, G

(* The tasks of TQ(i) are those that the loop knows. *)
LEMMA FreshInTQ ==
  ASSUME Inv, NEW i \in Threads, NEW t, ~Known(i, t)
  PROVE  t \notin TQ(i)!Given
  <1>1. \A k \in 1 .. Len(Waiting(i)) : Waiting(i)[k] # t
    BY WaitingKnown DEF Inv, ThreadInv
  <1> QED
    BY <1>1 DEF TQ!Given, Known

TQSame(i) ==
  /\ Waiting(i)' = Waiting(i) /\ current'[i] = current[i] /\ done'[i] = done[i]
  /\ returned' \cap done[i] = returned \cap done[i]

LEMMA SameStutters ==
  ASSUME NEW i \in Threads, TQSame(i)
  PROVE  [TQ(i)!Next]_(TQ(i)!vars)
  BY DEF TQSame, TQ!vars

LEMMA RefineLoop ==
  ASSUME Inv, Inv', NEW i \in Threads, LoopStep(i), NEW j \in Threads
  PROVE  [TQ(j)!Next]_(TQ(j)!vars)
  <1>1. Typed /\ ThreadInv(i) /\ Apart /\ ReturnedDone
    BY DEF Inv
  <1>2. CASE LoopMoves(i) \/ MakeLoop(i) \/ RunEntered(i)
    <2>1. UNCHANGED <<current, given, done, returned>>
      BY <1>2 DEF LoopMoves, EnterLoop, TestQuit, Poll, DrainEnd, LeaveLoop, MakeLoop, RunEntered,
             user
    <2>2. Waiting(j)' = Waiting(j)
      BY <1>2, LoopStill
    <2> QED
      BY <2>1, <2>2, SameStutters DEF TQSame
  <1>3. CASE RunTask(i)
    <2>1. /\ funcs' = [funcs EXCEPT ![i] = Tail(@)]
          /\ current' = [current EXCEPT ![i] = {Head(funcs[i])}]
          /\ UNCHANGED <<done, returned>>
      BY <1>3 DEF RunTask, user
    <2>2. CASE j = i
      <3>1. Waiting(i) = funcs[i] /\ Waiting(i)' = Tail(Waiting(i)) /\ Waiting(i) # <<>>
        BY <1>1, <1>3, WaitingTake DEF RunTask, ThreadInv
      <3>2. current[i] = {} /\ current'[i] = current[i] \cup {Head(Waiting(i))}
        BY <1>1, <1>3, <2>1, <3>1 DEF RunTask, ThreadInv, OneAtATime, Typed
      <3>3. TQ(i)!Cardinality(current[i]) < 1
        BY <3>2, CardinalitySame, FS_EmptySet
      <3>4. TQ(i)!Begin
        BY <2>1, <3>1, <3>2, <3>3 DEF TQ!Begin
      <3> QED
        BY <2>2, <3>4 DEF TQ!Next
    <2>3. CASE j # i
      <3>1. funcs'[j] = funcs[j] /\ current'[j] = current[j]
        BY <2>1, <2>3, <1>1 DEF Typed
      <3> QED
        BY <2>1, <3>1, WaitingSame, SameStutters DEF TQSame
    <2> QED
      BY <2>2, <2>3
  <1>4. CASE TaskEnd(i)
    <2>1. PICK t \in current[i] :
               /\ done' = [done EXCEPT ![i] = @ \cup {t}]
               /\ current' = [current EXCEPT ![i] = {}]
      BY <1>4 DEF TaskEnd
    <2>2. pc[i] = "run" /\ UNCHANGED <<funcs, returned>> /\ t \in Tasks
      BY <1>1, <1>4 DEF TaskEnd, Typed
    <2>3. CASE j = i
      <3>1. current[i] = {t} /\ current'[i] = {} /\ done'[i] = done[i] \cup {t}
        BY <1>1, <2>1, <2>2 DEF ThreadInv, OneAtATime, Typed
      <3>2. t \notin returned
        BY <1>1, <2>2, <3>1 DEF ReturnedDone, Apart, Known, ThreadInv, OneAtATime
      <3>3. returned' \cap done'[i] = returned \cap done[i]
        BY <2>2, <3>1, <3>2
      <3>4. Waiting(i)' = Waiting(i)
        BY <2>2, WaitingSame
      <3>5. TQ(i)!End(t)
        BY <3>1, <3>3, <3>4 DEF TQ!End
      <3> QED
        BY <2>2, <2>3, <3>5 DEF TQ!Next
    <2>4. CASE j # i
      <3>1. done'[j] = done[j] /\ current'[j] = current[j]
        BY <2>1, <2>4, <1>1 DEF Typed
      <3> QED
        BY <2>2, <3>1, WaitingSame, SameStutters DEF TQSame
    <2> QED
      BY <2>3, <2>4
  <1> QED
    BY <1>2, <1>3, <1>4 DEF LoopStep, LoopMoves

LEMMA RefineClient ==
  ASSUME Inv, Inv', Client, NEW j \in Threads
  PROVE  [TQ(j)!Next]_(TQ(j)!vars)
  <1>1. Typed /\ (\A i \in Threads : ThreadInv(i)) /\ Apart /\ ReturnedDone
    BY DEF Inv
  <1>2. CASE \E t \in Tasks : Give(t)
    <2> PICK t \in Tasks : Give(t)
      BY <1>2
    <2> PICK i \in Threads : i = NextLoop
      BY <1>1, NextLoopThread
    <2>1. /\ Fresh(t) /\ funcs' = [funcs EXCEPT ![i] = Append(@, t)]
          /\ UNCHANGED <<current, done, returned>>
      BY DEF Give
    <2>2. CASE j = i
      <3>1. Waiting(i)' = Append(Waiting(i), t)
        BY <1>1, <2>1, WaitingGive DEF ThreadInv
      <3>2. t \notin TQ(i)!Given
        BY <2>1, FreshInTQ DEF Fresh, Known
      <3>3. TQ(i)!runTaskInQueue(t)
        BY <2>1, <3>1, <3>2 DEF TQ!runTaskInQueue
      <3> QED
        BY <2>2, <3>3 DEF TQ!Next
    <2>3. CASE j # i
      <3>1. funcs'[j] = funcs[j]
        BY <2>1, <2>3, <1>1 DEF Typed
      <3> QED
        BY <2>1, <3>1, WaitingSame, SameStutters DEF TQSame
    <2> QED
      BY <2>2, <2>3
  <1>3. CASE \E i \in Threads, t \in Tasks : GiveInside(i, t)
    <2> PICK i \in Threads, t \in Tasks : GiveInside(i, t)
      BY <1>3
    <2>1. /\ Fresh(t) /\ pc[i] = "run" /\ done' = [done EXCEPT ![i] = @ \cup {t}]
          /\ UNCHANGED <<funcs, current, returned>>
      BY DEF GiveInside, thread
    <2>2. Waiting(j)' = Waiting(j)
      BY <2>1, WaitingSame
    <2>3. CASE j = i
      <3>1. t \notin TQ(i)!Given
        BY <2>1, FreshInTQ DEF Fresh, Known
      <3>2. current[i] # {}
        BY <1>1, <2>1 DEF ThreadInv, OneAtATime
      <3>3. done'[i] = done[i] \cup {t}
        BY <1>1, <2>1 DEF Typed
      <3>4. returned' \cap done'[i] = returned \cap done[i]
        BY <1>1, <2>1, <3>3 DEF Fresh, ReturnedDone
      <3>5. TQ(i)!RunInside(t)
        BY <2>1, <2>2, <2>3, <3>1, <3>2, <3>3, <3>4 DEF TQ!RunInside
      <3> QED
        BY <2>3, <3>5 DEF TQ!Next
    <2>4. CASE j # i
      <3>1. done'[j] = done[j]
        BY <2>1, <2>4, <1>1 DEF Typed
      <3> QED
        BY <2>1, <2>2, <3>1, SameStutters DEF TQSame
    <2> QED
      BY <2>3, <2>4
  <1>4. CASE \E i \in Threads, t \in SyncTasks : SyncReturn(i, t)
    <2> PICK i \in Threads, t \in SyncTasks : SyncReturn(i, t)
      BY <1>4
    <2>1. /\ t \in done[i] /\ t \notin returned /\ returned' = returned \cup {t}
          /\ UNCHANGED <<funcs, current, done>>
      BY DEF SyncReturn, thread
    <2>2. Waiting(j)' = Waiting(j)
      BY <2>1, WaitingSame
    <2>3. CASE j = i
      <3>1. returned' \cap done'[i] = (returned \cap done[i]) \cup {t}
        BY <2>1
      <3>2. TQ(i)!syncTaskInQueue(t)
        BY <2>1, <2>2, <2>3, <3>1 DEF TQ!syncTaskInQueue
      <3> QED
        BY <2>3, <3>2 DEF TQ!Next
    <2>4. CASE j # i
      <3>1. t \notin done[j]
        BY <1>1, <2>1, <2>4, TasksAssumption DEF Apart, Known
      <3>2. returned' \cap done[j] = returned \cap done[j]
        BY <2>1, <3>1
      <3> QED
        BY <2>1, <2>2, <3>2, SameStutters DEF TQSame
    <2> QED
      BY <2>3, <2>4
  <1> QED
    BY <1>2, <1>3, <1>4 DEF Client

LEMMA RefineNext ==
  ASSUME Inv, Inv', [Next]_vars, NEW j \in Threads
  PROVE  [TQ(j)!Next]_(TQ(j)!vars)
  <1>1. CASE OwnerStep \/ OwnerCall \/ UNCHANGED vars
    <2>1. UNCHANGED <<funcs, current, done, returned>>
      BY <1>1 DEF OwnerStep, OwnerCall, Construct, Constructed, RunAsk, RunDone, WaitDone, DtorQuit,
             JoinDone, StopDone, Start, WaitCall, StopQuit, Destroy, OnlyOwner, user, thread, vars
    <2> QED
      BY <2>1, WaitingSame, SameStutters DEF TQSame
  <1>2. CASE \E i \in Threads : LoopStep(i)
    BY <1>2, RefineLoop
  <1>3. CASE Client
    BY <1>3, RefineClient
  <1> QED
    BY <1>1, <1>2, <1>3 DEF Next

(* Each loop thread is a TaskQueue of width one, for any number of loops:  *)
(* its tasks begin in the order they were given, once each and one at a    *)
(* time, and a synchronous call returns after its task.                    *)
THEOREM LoopsImplementTaskQueue == Spec => ImplementsTaskQueue
  <1>1. Init => \A i \in Threads : TQ(i)!Init
    BY DEF Init, TQ!Init, Waiting
  <1>2. Inv /\ Inv' /\ [Next]_vars => [\A i \in Threads : [TQ(i)!Next]_(TQ(i)!vars)]_vars
    BY RefineNext
  <1> QED
    BY <1>1, <1>2, InvHolds, PTL DEF Spec, ImplementsTaskQueue

-----------------------------------------------------------------------------
(***************************************************************************)
(* The timers of a loop, for any set of timers, delays and intervals and   *)
(* an unbounded clock.                                                     *)
(***************************************************************************)
(* timers_.top() exists and is a timer that is due first. *)
LEMMA TopFirst ==
  ASSUME NEW S \in SUBSET Timers, S # {}, NEW w \in [Timers -> Nat]
  PROVE  Top(w, S) \in S /\ \A u \in S : w[Top(w, S)] <= w[u]
  <1> DEFINE W == {w[t] : t \in S}
  <1>1. W \subseteq Nat /\ W # {}
    OBVIOUS
  <1>2. PICK m \in W : \A v \in W : ~(<<v, m>> \in OpToRel(<, Nat))
    BY <1>1, NatLessThanWellFounded, WFMin, Zenon
  <1>3. \A v \in W : m <= v
    <2> SUFFICES ASSUME NEW v \in W PROVE m <= v
      OBVIOUS
    <2>1. v \in Nat /\ m \in Nat
      BY <1>1
    <2>2. v < m => <<v, m>> \in OpToRel(<, Nat)
      BY <2>1 DEF OpToRel
    <2>3. ~(v < m)
      BY <2>2, <1>2
    <2> HIDE DEF W
    <2> QED
      BY <2>1, <2>3
  <1>4. \E t \in S : \A u \in S : w[t] <= w[u]
    BY <1>3
  <1> QED
    BY <1>4 DEF Top

-----------------------------------------------------------------------------
(* The inductive invariant.  A closure that adds a timer is on its way     *)
(* only while nobody has seen that timer, so that an invalidated id cannot *)
(* come back; between callbacks todo is empty.                             *)
Seen == timers_ \cup expired \cup timerIdSet_ \cup cancelled \cup fired

AddsUnseen ==
  /\ \A i \in DOMAIN funcs_ :
        /\ funcs_[i].id \in created
        /\ funcs_[i].op = "add" => funcs_[i].id \notin Seen
  /\ \A i, j \in DOMAIN funcs_ :
        funcs_[i] = funcs_[j] /\ funcs_[i].op = "add" => i = j

Erased == cancelled \cap timerIdSet_ = {}

Idle == lpc = "idle" => expired = {} /\ todo = {}

Kept == ~threw => NoForgottenTimer /\ IdsMatch

TimerInv == TypeOK /\ AddsUnseen /\ Erased /\ Idle /\ Kept

LEMMA TimerInitInv == TimerInit => TimerInv
  <1> SUFFICES ASSUME TimerInit PROVE TimerInv
    OBVIOUS
  <1>1. funcs_ \in Seq(Closure) /\ DOMAIN funcs_ = {}
    BY DEF TimerInit
  <1>2. TypeOK
    BY <1>1 DEF TimerInit, TypeOK, Disarmed
  <1>3. AddsUnseen
    BY <1>1 DEF AddsUnseen
  <1>4. Erased /\ Idle /\ Kept
    BY DEF TimerInit, Erased, Idle, Kept, NoForgottenTimer, IdsMatch
  <1> QED
    BY <1>2, <1>3, <1>4 DEF TimerInv

(* The kernel timer is never armed for later than w or one tick from now.  *)
LEMMA ArmedFacts ==
  ASSUME clock \in Nat, NEW w \in Nat
  PROVE  /\ Armed(w) \in Nat /\ Armed(w) # Disarmed
         /\ Armed(w) <= w \/ Armed(w) <= clock + 1
BY DEF Armed, Disarmed

(* What addTimerInLoop() does to the invariant of timerfd_. *)
LEMMA AddCovers ==
  ASSUME TypeOK, NEW t \in Timers, NEW w \in Nat, AddTimerInLoop(t, w),
         \A u \in timers_ : Covered(u),
         clock' = clock, when'[t] = w, \A u \in timers_ : when'[u] = when[u]
  PROVE  \A u \in timers_' : Covered(u)'
  <1>1. clock \in Nat /\ timerfd_ \in Nat /\ \A u \in timers_ : when[u] \in Nat
    BY DEF TypeOK
  <1>2. timers_' = timers_ \cup {t}
    BY DEF AddTimerInLoop
  <1>3. CASE \A u \in timers_ : w < when[u]
    <2>1. timerfd_' = Armed(w)
      BY <1>3 DEF AddTimerInLoop
    <2> QED
      BY <2>1, <1>1, <1>2, <1>3, ArmedFacts DEF Covered
  <1>4. CASE ~ \A u \in timers_ : w < when[u]
    <2>1. timerfd_' = timerfd_
      BY <1>4 DEF AddTimerInLoop
    <2>2. PICK v \in timers_ : when[v] <= w
      BY <1>1, <1>4
    <2> QED
      BY <2>1, <2>2, <1>1, <1>2 DEF Covered
  <1> QED
    BY <1>3, <1>4

LEMMA AddHereInv ==
  ASSUME TimerInv, NEW t \in Timers, NEW d \in Delays, NEW i \in Intervals,
         AddHere(t, d, i)
  PROVE  TimerInv'
  <1> USE DelaysAssumption, IntervalsAssumption DEF TimerInv
  <1>1. /\ t \notin created /\ created' = created \cup {t}
        /\ when' = [when EXCEPT ![t] = clock + d]
        /\ interval' = [interval EXCEPT ![t] = i]
        /\ timerIdSet_' = timerIdSet_ \cup {t}
        /\ timers_' = timers_ \cup {t}
        /\ UNCHANGED <<clock, funcs_, running, lpc, expired, todo, now, fired,
                       cancelled, threw>>
    BY DEF AddHere, NewTimer, AddTimerInLoop
  <1>2. clock + d \in Nat
    BY DEF TypeOK
  <1>3. timerfd_' \in Nat
    BY <1>2, ArmedFacts DEF AddHere, AddTimerInLoop, TypeOK
  <1>4. TypeOK'
    BY <1>1, <1>2, <1>3 DEF TypeOK
  <1>5. AddsUnseen'
    BY <1>1 DEF AddsUnseen, Seen
  <1>6. Erased' /\ Idle'
    BY <1>1 DEF Erased, Idle, TypeOK
  <1>7. ASSUME ~threw
        PROVE  NoForgottenTimer'
    <2> SUFFICES ASSUME lpc = "idle" PROVE \A u \in timers_' : Covered(u)'
      BY <1>1 DEF NoForgottenTimer
    <2>1. \A u \in timers_ : Covered(u)
      BY <1>7 DEF Kept, NoForgottenTimer
    <2>2. when'[t] = clock + d /\ \A u \in timers_ : when'[u] = when[u]
      BY <1>1 DEF TypeOK
    <2> QED
      BY <2>1, <2>2, <1>1, <1>2, AddCovers DEF AddHere
  <1>8. ASSUME ~threw
        PROVE  IdsMatch'
    BY <1>8, <1>1 DEF Kept, IdsMatch, TypeOK
  <1> QED
    BY <1>1, <1>4, <1>5, <1>6, <1>7, <1>8 DEF Kept

LEMMA AddElsewhereInv ==
  ASSUME TimerInv, NEW t \in Timers, NEW d \in Delays, NEW i \in Intervals,
         AddElsewhere(t, d, i)
  PROVE  TimerInv'
  <1> USE DelaysAssumption, IntervalsAssumption DEF TimerInv
  <1> DEFINE c == [op |-> "add", id |-> t]
  <1>1. /\ t \notin created /\ created' = created \cup {t}
        /\ when' = [when EXCEPT ![t] = clock + d]
        /\ interval' = [interval EXCEPT ![t] = i]
        /\ funcs_' = Append(funcs_, c)
        /\ UNCHANGED <<clock, timers_, timerIdSet_, timerfd_, running, lpc,
                       expired, todo, now, fired, cancelled, threw>>
    BY DEF AddElsewhere, NewTimer
  <1>2. c \in Closure /\ c.op = "add" /\ c.id = t
    BY DEF Closure
  <1> HIDE DEF c
  <1>3. /\ funcs_' \in Seq(Closure)
        /\ Len(funcs_) \in Nat /\ DOMAIN funcs_ = 1..Len(funcs_)
        /\ DOMAIN funcs_' = 1..(Len(funcs_) + 1)
        /\ \A j \in 1..Len(funcs_) : funcs_'[j] = funcs_[j]
        /\ funcs_'[Len(funcs_) + 1] = c
    BY <1>1, <1>2 DEF TypeOK
  <1>4. TypeOK'
    <2>1. clock + d \in Nat
      BY DEF TypeOK
    <2> QED
      BY <2>1, <1>1, <1>3 DEF TypeOK
  <1>5. AddsUnseen'
    <2>1. t \notin Seen'
      BY <1>1 DEF Seen, TypeOK
    <2>2. \A j \in 1..Len(funcs_) : funcs_[j].id # t
      BY <1>1, <1>3 DEF AddsUnseen
    <2>3. Seen' = Seen
      BY <1>1 DEF Seen
    <2>4. \A j \in DOMAIN funcs_' :
             /\ funcs_'[j].id \in created'
             /\ funcs_'[j].op = "add" => funcs_'[j].id \notin Seen'
      BY <2>1, <2>3, <1>1, <1>2, <1>3 DEF AddsUnseen
    <2>5. ASSUME NEW j \in 1..(Len(funcs_) + 1), NEW k \in 1..(Len(funcs_) + 1),
                 funcs_'[j] = funcs_'[k], funcs_'[j].op = "add"
          PROVE  j = k
      <3>1. CASE j \in 1..Len(funcs_) /\ k \in 1..Len(funcs_)
        BY <3>1, <2>5, <1>3 DEF AddsUnseen
      <3>2. CASE j = Len(funcs_) + 1 \/ k = Len(funcs_) + 1
        BY <3>2, <2>2, <2>5, <1>2, <1>3
      <3> QED
        BY <3>1, <3>2, <1>3
    <2> QED
      BY <2>4, <2>5, <1>3 DEF AddsUnseen
  <1>6. Erased' /\ Idle'
    BY <1>1 DEF Erased, Idle
  <1>7. ASSUME ~threw
        PROVE  NoForgottenTimer' /\ IdsMatch'
    <2>1. \A u \in timers_ : when'[u] = when[u]
      BY <1>1 DEF TypeOK
    <2> QED
      BY <2>1, <1>1, <1>7 DEF Kept, NoForgottenTimer, Covered, IdsMatch
  <1> QED
    BY <1>1, <1>4, <1>5, <1>6, <1>7 DEF Kept

(* Erasing an id turns it from accepted into cancelled. *)
LEMMA EraseFacts ==
  ASSUME TypeOK, Erased, NEW t \in Timers, Erase(t)
  PROVE  /\ timerIdSet_' \subseteq created /\ cancelled' \subseteq created
         /\ cancelled' \cap timerIdSet_' = {}
         /\ cancelled' \cup timerIdSet_' = cancelled \cup timerIdSet_
         /\ timerIdSet_' \subseteq timerIdSet_
BY DEF TypeOK, Erased, Erase

LEMMA InvalidateHereInv ==
  ASSUME TimerInv, NEW t \in Timers, InvalidateHere(t)
  PROVE  TimerInv'
  <1> USE DEF TimerInv
  <1>1. UNCHANGED <<clock, created, when, interval, timers_, timerfd_, funcs_,
                    running, lpc, expired, todo, now, fired, threw>>
    BY DEF InvalidateHere
  <1>2. /\ timerIdSet_' \subseteq created /\ cancelled' \subseteq created
        /\ cancelled' \cap timerIdSet_' = {}
        /\ cancelled' \cup timerIdSet_' = cancelled \cup timerIdSet_
        /\ timerIdSet_' \subseteq timerIdSet_
    BY EraseFacts DEF InvalidateHere, Erased, TypeOK
  <1>3. TypeOK'
    BY <1>1, <1>2 DEF TypeOK
  <1>4. Seen' = Seen
    BY <1>1, <1>2 DEF Seen
  <1>5. AddsUnseen' /\ Erased' /\ Idle'
    BY <1>1, <1>2, <1>4 DEF AddsUnseen, Erased, Idle
  <1>6. Kept'
    BY <1>1, <1>2 DEF Kept, NoForgottenTimer, Covered, IdsMatch
  <1> QED
    BY <1>3, <1>5, <1>6

LEMMA InvalidateElsewhereInv ==
  ASSUME TimerInv, NEW t \in Timers, InvalidateElsewhere(t)
  PROVE  TimerInv'
  <1> USE DEF TimerInv
  <1> DEFINE c == [op |-> "erase", id |-> t]
  <1>1. /\ t \in created
        /\ funcs_' = Append(funcs_, c)
        /\ UNCHANGED <<clock, created, when, interval, timers_, timerIdSet_,
                       timerfd_, running, lpc, expired, todo, now, fired,
                       cancelled, threw>>
    BY DEF InvalidateElsewhere
  <1>2. c \in Closure /\ c.op = "erase" /\ c.id = t
    BY DEF Closure
  <1> HIDE DEF c
  <1>3. /\ funcs_' \in Seq(Closure)
        /\ Len(funcs_) \in Nat /\ DOMAIN funcs_ = 1..Len(funcs_)
        /\ DOMAIN funcs_' = 1..(Len(funcs_) + 1)
        /\ \A j \in 1..Len(funcs_) : funcs_'[j] = funcs_[j]
        /\ funcs_'[Len(funcs_) + 1] = c
    BY <1>1, <1>2 DEF TypeOK
  <1>4. TypeOK'
    BY <1>1, <1>3 DEF TypeOK
  <1>5. AddsUnseen'
    <2>1. \A j \in 1..(Len(funcs_) + 1) : j \in 1..Len(funcs_) \/ j = Len(funcs_) + 1
      BY <1>3
    <2>2. Seen' = Seen
      BY <1>1 DEF Seen
    <2> QED
      BY <2>1, <2>2, <1>1, <1>2, <1>3 DEF AddsUnseen
  <1>6. Erased' /\ Idle' /\ Kept'
    BY <1>1 DEF Erased, Idle, Kept, NoForgottenTimer, Covered, IdsMatch
  <1> QED
    BY <1>4, <1>5, <1>6

LEMMA RunFuncInv ==
  ASSUME TimerInv, RunFunc
  PROVE  TimerInv'
  <1> USE DEF TimerInv
  <1> DEFINE t == Head(funcs_).id
  <1>1. /\ lpc = "idle" /\ funcs_ # <<>> /\ funcs_' = Tail(funcs_)
        /\ UNCHANGED <<clock, created, when, interval, running, lpc, expired,
                       todo, now, fired, threw>>
    BY DEF RunFunc
  <1>2. /\ funcs_' \in Seq(Closure)
        /\ Len(funcs_) \in Nat /\ Len(funcs_) > 0
        /\ DOMAIN funcs_ = 1..Len(funcs_)
        /\ DOMAIN funcs_' = 1..(Len(funcs_) - 1)
        /\ \A j \in 1..(Len(funcs_) - 1) : funcs_'[j] = funcs_[j + 1]
        /\ funcs_[1] = Head(funcs_) /\ funcs_[1] \in Closure
    BY <1>1 DEF TypeOK
  <1>3. t \in Timers /\ t \in created
    BY <1>2 DEF AddsUnseen, Closure
  <1>4. CASE Head(funcs_).op = "add"
    <2>1. AddTimerInLoop(t, when[t]) /\ cancelled' = cancelled
      BY <1>4 DEF RunFunc
    <2>2. timerIdSet_' = timerIdSet_ \cup {t} /\ timers_' = timers_ \cup {t}
      BY <2>1 DEF AddTimerInLoop
    <2>3. t \notin Seen
      BY <1>2, <1>4 DEF AddsUnseen
    <2>4. timerfd_' \in Nat
      BY <2>1, <1>3, ArmedFacts DEF AddTimerInLoop, TypeOK
    <2>5. TypeOK'
      BY <2>1, <2>2, <2>4, <1>1, <1>2, <1>3 DEF TypeOK
    <2>6. AddsUnseen'
      <3>1. ASSUME NEW j \in 1..(Len(funcs_) - 1)
            PROVE  /\ funcs_'[j].id \in created
                   /\ funcs_'[j].op = "add" => funcs_'[j].id \notin Seen'
        <4>1. j + 1 \in 1..Len(funcs_) /\ 1 \in 1..Len(funcs_) /\ j + 1 # 1
          BY <1>2
        <4>2. funcs_[j + 1].id \in created
          BY <4>1, <1>2 DEF AddsUnseen
        <4>3. ASSUME funcs_[j + 1].op = "add"
              PROVE  funcs_[j + 1].id \notin Seen /\ funcs_[j + 1].id # t
          <5>1. funcs_[j + 1] # funcs_[1]
            BY <4>1, <4>3, <1>2 DEF AddsUnseen
          <5>2. funcs_[j + 1] \in Closure
            BY <4>1, <1>2 DEF TypeOK
          <5> QED
            BY <5>1, <5>2, <4>1, <4>3, <1>2, <1>4 DEF AddsUnseen, Closure
        <4> QED
          BY <4>1, <4>2, <4>3, <2>1, <2>2, <1>1, <1>2 DEF Seen
      <3>2. ASSUME NEW j \in 1..(Len(funcs_) - 1), NEW k \in 1..(Len(funcs_) - 1),
                   funcs_'[j] = funcs_'[k], funcs_'[j].op = "add"
            PROVE  j = k
        <4>1. j + 1 \in 1..Len(funcs_) /\ k + 1 \in 1..Len(funcs_)
          BY <1>2
        <4>2. j + 1 = k + 1
          BY <3>2, <4>1, <1>2 DEF AddsUnseen
        <4> QED
          BY <4>2
      <3> QED
        BY <3>1, <3>2, <1>1, <1>2 DEF AddsUnseen
    <2>7. Erased' /\ Idle'
      BY <2>1, <2>2, <2>3, <1>1 DEF Erased, Idle, Seen
    <2>8. ASSUME ~threw
          PROVE  NoForgottenTimer' /\ IdsMatch'
      <3>1. \A u \in timers_ : Covered(u)
        BY <2>8, <1>1 DEF Kept, NoForgottenTimer
      <3>2. \A u \in timers_' : Covered(u)'
        BY <3>1, <2>1, <1>1, <1>3, AddCovers DEF TypeOK
      <3> QED
        BY <2>8, <3>2, <2>1, <2>2, <2>3, <1>1
           DEF Kept, NoForgottenTimer, IdsMatch, Seen
    <2> QED
      BY <1>1, <2>5, <2>6, <2>7, <2>8 DEF Kept
  <1>5. CASE Head(funcs_).op = "erase"
    <2>1. Erase(t) /\ UNCHANGED <<timers_, timerfd_>>
      BY <1>5 DEF RunFunc
    <2>2. /\ timerIdSet_' \subseteq created /\ cancelled' \subseteq created
          /\ cancelled' \cap timerIdSet_' = {}
          /\ cancelled' \cup timerIdSet_' = cancelled \cup timerIdSet_
          /\ timerIdSet_' \subseteq timerIdSet_
      BY <2>1, <1>3, EraseFacts
    <2>3. TypeOK'
      BY <2>1, <2>2, <1>1, <1>2 DEF TypeOK
    <2>4. Seen' = Seen
      BY <2>1, <2>2, <1>1 DEF Seen
    <2>5. AddsUnseen'
      <3>1. \A j \in 1..(Len(funcs_) - 1) : j + 1 \in 1..Len(funcs_)
        BY <1>2
      <3>2. \A j, k \in 1..(Len(funcs_) - 1) : j + 1 = k + 1 => j = k
        BY <1>2
      <3> QED
        BY <3>1, <3>2, <2>4, <1>1, <1>2 DEF AddsUnseen
    <2>6. Erased' /\ Idle'
      BY <2>2, <1>1 DEF Erased, Idle
    <2>7. Kept'
      BY <2>1, <2>2, <1>1 DEF Kept, NoForgottenTimer, Covered, IdsMatch
    <2> QED
      BY <2>3, <2>5, <2>6, <2>7
  <1> QED
    BY <1>4, <1>5, <1>2 DEF Closure

LEMMA HandleReadInv ==
  ASSUME TimerInv, HandleRead
  PROVE  TimerInv'
  <1> USE DEF TimerInv
  <1>1. expired' \subseteq timers_ /\ timers_' = timers_ \ expired' /\ expired = {}
    BY DEF HandleRead, Idle
  <1>2. TypeOK'
    BY <1>1 DEF HandleRead, TypeOK, Disarmed
  <1>3. AddsUnseen'
    BY <1>1 DEF HandleRead, AddsUnseen, Seen
  <1>4. Erased' /\ Idle'
    BY DEF HandleRead, Erased, Idle
  <1>5. Kept'
    BY <1>1 DEF HandleRead, Kept, NoForgottenTimer, IdsMatch
  <1> QED
    BY <1>2, <1>3, <1>4, <1>5

LEMMA CallbackInv ==
  ASSUME TimerInv,
         \/ \E t \in Timers : RunCallback(t) \/ SkipCallback(t)
         \/ CallbackReturn
  PROVE  TimerInv'
  <1> USE DEF TimerInv, RunCallback, SkipCallback, CallbackReturn
  <1>1. TypeOK'
    BY DEF TypeOK
  <1>2. Seen' = Seen /\ UNCHANGED <<funcs_, created>>
    BY DEF Seen, TypeOK
  <1>3. AddsUnseen'
    BY <1>2 DEF AddsUnseen
  <1>4. Erased' /\ Idle'
    BY DEF Erased, Idle
  <1>5. Kept'
    BY DEF Kept, NoForgottenTimer, IdsMatch
  <1> QED
    BY <1>1, <1>3, <1>4, <1>5

LEMMA CallbackThrowInv ==
  ASSUME TimerInv, CallbackThrow
  PROVE  TimerInv'
  <1> USE DEF TimerInv, CallbackThrow
  <1>1. TypeOK'
    BY DEF TypeOK
  <1>2. AddsUnseen'
    BY DEF AddsUnseen, Seen
  <1>3. Erased' /\ Idle' /\ Kept'
    BY DEF Erased, Idle, Kept
  <1> QED
    BY <1>1, <1>2, <1>3

LEMMA ResetInv ==
  ASSUME TimerInv, Reset
  PROVE  TimerInv'
  <1> USE DEF TimerInv
  <1>1. /\ when' = [t \in Timers |-> IF t \in Again THEN now + interval[t] ELSE when[t]]
        /\ timers_' = timers_ \cup Again
        /\ timerIdSet_' = timerIdSet_ \ (expired \ Again)
        /\ timerfd_' = IF timers_' = {} THEN timerfd_
                       ELSE Armed(when'[Top(when', timers_')])
        /\ expired' = {} /\ todo = {} /\ lpc' = "idle"
        /\ UNCHANGED <<clock, created, interval, funcs_, running, todo, now,
                       fired, cancelled, threw>>
    BY DEF Reset
  <1>2. Again \subseteq expired /\ Again \subseteq timerIdSet_
    BY DEF Again
  <1>3. timers_' \subseteq Timers /\ timers_' \subseteq created
    BY <1>1, <1>2 DEF TypeOK
  <1>4. when' \in [Timers -> Nat]
    BY <1>1 DEF TypeOK
  <1>5. ASSUME timers_' # {}
        PROVE  timerfd_' \in Nat /\ \A u \in timers_' : Covered(u)'
    <2> DEFINE w == when'[Top(when', timers_')]
    <2>1. /\ Top(when', timers_') \in timers_'
          /\ \A u \in timers_' : w <= when'[u]
      BY <1>3, <1>4, <1>5, TopFirst
    <2>2. w \in Nat
      BY <2>1, <1>3, <1>4
    <2>3. timerfd_' = Armed(w)
      BY <1>1, <1>5
    <2> HIDE DEF w
    <2>4. clock \in Nat /\ clock' = clock /\ \A u \in timers_' : when'[u] \in Nat
      BY <1>1, <1>3, <1>4 DEF TypeOK
    <2>5. timerfd_' \in Nat /\ timerfd_' # Disarmed
      BY <2>2, <2>3, <2>4, ArmedFacts
    <2>6. timerfd_' <= w \/ timerfd_' <= clock + 1
      BY <2>2, <2>3, <2>4, ArmedFacts
    <2> QED
      BY <2>1, <2>2, <2>4, <2>5, <2>6 DEF Covered
  <1>6. TypeOK'
    BY <1>1, <1>2, <1>3, <1>4, <1>5 DEF TypeOK
  <1>7. Seen' \subseteq Seen
    BY <1>1, <1>2 DEF Seen
  <1>8. AddsUnseen'
    BY <1>1, <1>7 DEF AddsUnseen
  <1>9. Erased' /\ Idle'
    BY <1>1 DEF Erased, Idle
  <1>10. ASSUME ~threw
         PROVE  NoForgottenTimer' /\ IdsMatch'
    BY <1>1, <1>2, <1>5, <1>10 DEF Kept, NoForgottenTimer, IdsMatch
  <1> QED
    BY <1>1, <1>6, <1>8, <1>9, <1>10 DEF Kept

LEMMA OtherInv ==
  ASSUME TimerInv, StartLoop \/ ResetAfterFork \/ Tick \/ UNCHANGED timerVars
  PROVE  TimerInv'
  <1> USE DEF TimerInv
  <1>1. CASE StartLoop \/ UNCHANGED timerVars
    <2>1. TypeOK'
      BY <1>1 DEF StartLoop, timerVars, TypeOK
    <2>2. AddsUnseen' /\ Erased' /\ Idle' /\ Kept'
      BY <1>1 DEF StartLoop, timerVars, AddsUnseen, Seen, Erased, Idle, Kept,
                  NoForgottenTimer, Covered, IdsMatch
    <2> QED
      BY <2>1, <2>2
  <1>2. CASE ResetAfterFork
    <2>1. /\ timerfd_' = IF timers_ = {} THEN Disarmed
                         ELSE Armed(when[Top(when, timers_)])
          /\ UNCHANGED <<clock, created, when, interval, timers_, timerIdSet_,
                         funcs_, running, lpc, expired, todo, now, fired,
                         cancelled, threw>>
      BY <1>2 DEF ResetAfterFork
    <2>2. ASSUME timers_ # {}
          PROVE  timerfd_' \in Nat /\ \A u \in timers_ : Covered(u)'
      <3> DEFINE w == when[Top(when, timers_)]
      <3>1. timers_ \subseteq Timers /\ when \in [Timers -> Nat] /\ clock \in Nat
        BY DEF TypeOK
      <3>2. Top(when, timers_) \in timers_ /\ \A u \in timers_ : w <= when[u]
        BY <2>2, <3>1, TopFirst
      <3>3. w \in Nat /\ \A u \in timers_ : when[u] \in Nat
        BY <3>1, <3>2
      <3>4. timerfd_' = Armed(w)
        BY <2>1, <2>2
      <3> HIDE DEF w
      <3>5. /\ timerfd_' \in Nat /\ timerfd_' # Disarmed
            /\ timerfd_' <= w \/ timerfd_' <= clock + 1
        BY <3>1, <3>3, <3>4, ArmedFacts
      <3> QED
        BY <2>1, <3>1, <3>2, <3>3, <3>5 DEF Covered
    <2>3. TypeOK'
      BY <2>1, <2>2 DEF TypeOK, Disarmed
    <2>4. AddsUnseen' /\ Erased' /\ Idle'
      BY <2>1 DEF AddsUnseen, Seen, Erased, Idle
    <2>5. Kept'
      BY <2>1, <2>2 DEF Kept, NoForgottenTimer, IdsMatch
    <2> QED
      BY <2>3, <2>4, <2>5
  <1>3. CASE Tick
    <2>1. TypeOK'
      BY <1>3 DEF Tick, TypeOK
    <2>2. AddsUnseen' /\ Erased' /\ Idle'
      BY <1>3 DEF Tick, AddsUnseen, Seen, Erased, Idle
    <2>3. Kept'
      <3>1. clock \in Nat /\ timerfd_ \in Nat
        BY DEF TypeOK
      <3> QED
        BY <1>3, <3>1 DEF Tick, Kept, NoForgottenTimer, Covered, IdsMatch
    <2> QED
      BY <2>1, <2>2, <2>3
  <1> QED
    BY <1>1, <1>2, <1>3

LEMMA TimerNextInv ==
  ASSUME TimerInv, [TimerNext]_timerVars
  PROVE  TimerInv'
  BY AddHereInv, AddElsewhereInv, InvalidateHereInv, InvalidateElsewhereInv,
     RunFuncInv, HandleReadInv, CallbackInv, CallbackThrowInv, ResetInv,
     OtherInv
     DEF TimerNext, Loop, User

THEOREM TimerInvHolds == TimerSpec => []TimerInv
  <1> QED
    BY TimerInitInv, TimerNextInv, PTL DEF TimerSpec

(* Type correctness of TimerQueue. *)
THEOREM TimerTypes == TimerSpec => []TypeOK
  <1>1. TimerInv => TypeOK
    BY DEF TimerInv
  <1> QED
    BY TimerInvHolds, <1>1, PTL

(* timerfd_ always covers every pending timer, as long as no callback has  *)
(* thrown.                                                                 *)
THEOREM TimersCovered == TimerSpec => []NoForgottenTimer
  <1>1. TimerInv => NoForgottenTimer
    BY DEF TimerInv, Kept, NoForgottenTimer
  <1> QED
    BY TimerInvHolds, <1>1, PTL

(* timerIdSet_ holds exactly the ids it should, as long as no callback has *)
(* thrown.                                                                 *)
THEOREM IdsSafe == TimerSpec => []IdsMatch
  <1>1. TimerInv => IdsMatch
    BY DEF TimerInv, Kept, IdsMatch
  <1> QED
    BY TimerInvHolds, <1>1, PTL

(* An erased id never fires again, with or without exceptions.             *)
THEOREM CancelSafe == TimerSpec => CancelledNeverFires
  <1>1. ASSUME TimerInv, TimerInv', [TimerNext]_timerVars
        PROVE  [\A t \in cancelled : ~RunCallback(t) /\ t \notin timerIdSet_']_timerVars
    <2> SUFFICES ASSUME TimerNext, NEW t \in cancelled
                 PROVE  ~RunCallback(t) /\ t \notin timerIdSet_'
      BY <1>1
    <2>1. t \notin timerIdSet_
      BY <1>1 DEF TimerInv, Erased
    <2>2. ~RunCallback(t)
      BY <2>1 DEF RunCallback
    <2>3. cancelled \subseteq cancelled'
      BY DEF TimerNext, Loop, User, RunFunc, HandleRead, CallbackReturn, Reset,
             RunCallback, SkipCallback, AddHere, AddElsewhere, InvalidateHere,
             InvalidateElsewhere, ResetAfterFork, StartLoop, CallbackThrow,
             Tick, Erase
    <2>4. t \notin timerIdSet_'
      BY <2>3, <1>1 DEF TimerInv, Erased
    <2> QED
      BY <2>2, <2>4
  <1> QED
    BY TimerInvHolds, <1>1, PTL DEF TimerSpec, CancelledNeverFires
=============================================================================
