-------------------------- MODULE EventLoopProofs ---------------------------
(***************************************************************************)
(* Proofs about EventLoop, for any number of threads, functions and calls  *)
(* of loop(), with and without exceptions.                                 *)
(***************************************************************************)
EXTENDS EventLoop, TLAPS

(* NoLostWakeup is inductive once the flag looping_ is tied to the place   *)
(* of the loop thread, which decides whether its own queueInLoop() writes  *)
(* wakeupFd_.                                                              *)
Inv == TypeOK /\ FlagsClean /\ NoLostWakeup

(* enqueue() keeps a queue a queue, and only adds behind its first entry.  *)
LEMMA AppendEntry ==
  ASSUME NEW S, NEW q \in Seq(S), NEW e \in S
  PROVE  /\ Append(q, e) \in Seq(S)
         /\ q # <<>> => Append(q, e) # <<>> /\ Append(q, e)[1] = q[1]
         /\ q = <<>> => Append(q, e)[1] = e
OBVIOUS

(* Publishing changes one publisher. *)
LEMMA PublishEntry ==
  ASSUME NEW q \in Seq(Q!Entry), NEW i \in DOMAIN q
  PROVE  [q EXCEPT ![i].publisher = NoOne] \in Seq(Q!Entry)
  <1> DEFINE r == [q EXCEPT ![i].publisher = NoOne]
  <1>1. Len(q) \in Nat /\ DOMAIN q = 1..Len(q) /\ \A j \in 1..Len(q) : q[j] \in Q!Entry
    OBVIOUS
  <1>2. [q[i] EXCEPT !.publisher = NoOne] \in Q!Entry
    BY <1>1 DEF Q!Entry
  <1>3. r \in [1..Len(q) -> Q!Entry]
    BY <1>1, <1>2
  <1> QED
    BY <1>1, <1>3

(* dequeue() takes the first entry away. *)
LEMMA TakeEntry ==
  ASSUME NEW q \in Seq(Q!Entry), q # <<>>
  PROVE  Tail(q) \in Seq(Q!Entry) /\ q[1].item \in Tasks
  <1>1. Tail(q) \in Seq(Q!Entry) /\ q[1] \in Q!Entry
    OBVIOUS
  <1> QED
    BY <1>1 DEF Q!Entry

LEMMA SameEntry == QQ!Entry = Q!Entry
BY DEF QQ!Entry, Q!Entry

LEMMA InitInv == Init => Inv
  <1> SUFFICES ASSUME Init PROVE Inv
    OBVIOUS
  <1>1. TypeOK
    <2>1. /\ funcs_ \in Seq(Q!Entry) /\ funcsOnQuit_ \in Seq(QQ!Entry)
          /\ ran \in Seq(Tasks)
          /\ submitted \in [Clients \cup {LoopThread} -> Seq(Tasks)]
      BY DEF Init
    <2>2. runs \in 0..MaxRuns
      BY RunsAssumption DEF Init
    <2>3. /\ loopPc \in LoopPcs /\ active \in SUBSET {"wakeup", "io"}
          /\ func \in Tasks \cup {NoItem}
          /\ cpc \in [Clients -> {"idle", "publish", "publishQuit", "wakeup"}]
          /\ dtor \in {"no", "wakeup", "spin", "done"}
          /\ ranOnQuit \subseteq Tasks
      BY DEF Init, LoopPcs
    <2>4. /\ looping_ \in BOOLEAN /\ quit_ \in BOOLEAN
          /\ callingFuncs_ \in BOOLEAN /\ wakeupFd_ \in BOOLEAN
          /\ threw \in BOOLEAN
      BY Zenon DEF Init
    <2> QED
      BY <2>1, <2>2, <2>3, <2>4 DEF TypeOK
  <1>2. FlagsClean
    BY DEF Init, FlagsClean
  <1>3. NoLostWakeup
    BY DEF Init, NoLostWakeup, Q!FirstVisible
  <1> QED
    BY <1>1, <1>2, <1>3 DEF Inv

LEMMA ClientInv ==
  ASSUME Inv, NEW t \in Clients, Call(t) \/ Finish(t)
  PROVE  Inv'
  <1> USE DEF Inv
  <1>1. ASSUME NEW f \in Tasks, QueueInLoop(t, f)
        PROVE  Inv'
    <2>1. [item |-> f, publisher |-> t] \in Q!Entry
      BY DEF Q!Entry
    <2>2. /\ funcs_' = Append(funcs_, [item |-> f, publisher |-> t])
          /\ func' = func
          /\ cpc' = [cpc EXCEPT ![t] = "publish"] /\ cpc[t] = "idle"
          /\ submitted' = [submitted EXCEPT ![t] = Append(@, f)]
          /\ UNCHANGED <<looping_, quit_, callingFuncs_, wakeupFd_,
                         funcsOnQuit_, loopPc, active, dtor, runs, ran,
                         ranOnQuit, threw>>
      BY <1>1 DEF QueueInLoop, Q!Claim, CanCall
    <2>3. funcs_' \in Seq(Q!Entry)
      BY <2>1, <2>2, AppendEntry DEF TypeOK
    <2>4. submitted' \in [Clients \cup {LoopThread} -> Seq(Tasks)]
      BY <2>2, AppendEntry DEF TypeOK
    <2>5. TypeOK'
      BY <2>2, <2>3, <2>4 DEF TypeOK
    <2>6. FlagsClean'
      BY <2>2 DEF FlagsClean
    <2>7. Q!FirstVisible' => Q!FirstVisible
      BY <2>1, <2>2, AppendEntry, NoOneAssumption DEF Q!FirstVisible, TypeOK
    <2>8. WakeupPending => WakeupPending'
      BY <2>2 DEF WakeupPending, TypeOK
    <2> QED
      BY <2>2, <2>5, <2>6, <2>7, <2>8 DEF NoLostWakeup, MaySleep
  <1>2. ASSUME NEW f \in Tasks, RunOnQuit(t, f)
        PROVE  Inv'
    <2>1. [item |-> f, publisher |-> t] \in Q!Entry
      BY DEF Q!Entry
    <2>2. /\ funcsOnQuit_' = Append(funcsOnQuit_, [item |-> f, publisher |-> t])
          /\ cpc' = [cpc EXCEPT ![t] = "publishQuit"] /\ cpc[t] = "idle"
          /\ UNCHANGED <<looping_, quit_, callingFuncs_, wakeupFd_, funcs_,
                         func, loopPc, active, dtor, runs, histVars>>
      BY <1>2 DEF RunOnQuit, QQ!Claim, CanCall
    <2>3. funcsOnQuit_' \in Seq(QQ!Entry)
      BY <2>1, <2>2, AppendEntry, SameEntry DEF TypeOK
    <2>4. TypeOK'
      BY <2>2, <2>3 DEF TypeOK, histVars
    <2>5. WakeupPending => WakeupPending'
      BY <2>2 DEF WakeupPending, TypeOK
    <2> QED
      BY <2>2, <2>4, <2>5
         DEF FlagsClean, NoLostWakeup, MaySleep, Q!FirstVisible, histVars
  <1>3. ASSUME Quit(t) \/ Wakeup(t)
        PROVE  Inv'
    <2>1. TypeOK'
      BY <1>3 DEF Quit, Wakeup, TypeOK, loopVars, histVars
    <2>2. FlagsClean'
      BY <1>3 DEF Quit, Wakeup, FlagsClean, loopVars
    <2>3. WakeupPending'
      BY <1>3 DEF Quit, Wakeup, TypeOK, WakeupPending
    <2> QED
      BY <2>1, <2>2, <2>3 DEF NoLostWakeup
  <1>4. ASSUME PublishFunc(t)
        PROVE  Inv'
    <2>1. PICK i \in DOMAIN funcs_ :
                 funcs_' = [funcs_ EXCEPT ![i].publisher = NoOne]
      BY <1>4 DEF PublishFunc, Q!Publish
    <2>2. /\ func' = func
          /\ cpc' = [cpc EXCEPT ![t] = "wakeup"]
          /\ UNCHANGED <<looping_, quit_, callingFuncs_, wakeupFd_,
                         funcsOnQuit_, loopPc, active, dtor, runs, histVars>>
      BY <1>4 DEF PublishFunc, Q!Publish
    <2>3. funcs_' \in Seq(Q!Entry)
      BY <2>1, PublishEntry DEF TypeOK
    <2>4. TypeOK' /\ WakeupPending' /\ FlagsClean'
      BY <2>2, <2>3 DEF TypeOK, WakeupPending, FlagsClean, histVars
    <2> QED
      BY <2>4 DEF NoLostWakeup
  <1>5. ASSUME PublishOnQuit(t)
        PROVE  Inv'
    <2>1. PICK i \in DOMAIN funcsOnQuit_ :
                 funcsOnQuit_' = [funcsOnQuit_ EXCEPT ![i].publisher = NoOne]
      BY <1>5 DEF PublishOnQuit, QQ!Publish
    <2>2. /\ cpc' = [cpc EXCEPT ![t] = "idle"] /\ cpc[t] = "publishQuit"
          /\ UNCHANGED <<looping_, quit_, callingFuncs_, wakeupFd_, funcs_,
                         func, loopPc, active, dtor, runs, histVars>>
      BY <1>5 DEF PublishOnQuit, QQ!Publish
    <2>3. funcsOnQuit_' \in Seq(QQ!Entry)
      BY <2>1, PublishEntry, SameEntry DEF TypeOK
    <2>4. TypeOK'
      BY <2>2, <2>3 DEF TypeOK, histVars
    <2>5. WakeupPending => WakeupPending'
      BY <2>2 DEF WakeupPending, TypeOK
    <2> QED
      BY <2>2, <2>4, <2>5
         DEF FlagsClean, NoLostWakeup, MaySleep, Q!FirstVisible, histVars
  <1> QED
    BY <1>1, <1>2, <1>3, <1>4, <1>5 DEF Call, Finish

LEMMA UserInv ==
  ASSUME Inv, User
  PROVE  Inv'
  <1> USE DEF Inv
  <1>1. ASSUME NEW f \in Tasks, LoopQueueInLoop(f)
        PROVE  Inv'
    <2>1. [item |-> f, publisher |-> NoOne] \in Q!Entry
      BY DEF Q!Entry
    <2>2. /\ funcs_' = Append(funcs_, [item |-> f, publisher |-> NoOne])
          /\ wakeupFd_' = (wakeupFd_ \/ ~looping_)
          /\ submitted' = [submitted EXCEPT ![LoopThread] = Append(@, f)]
          /\ loopPc \in {"out", "io", "run", "runq"}
          /\ UNCHANGED <<loopVars, quit_, funcsOnQuit_, cpc, dtor, ran,
                         ranOnQuit, threw>>
      BY <1>1 DEF LoopQueueInLoop, UserCode
    <2>3. funcs_' \in Seq(Q!Entry)
      BY <2>1, <2>2, AppendEntry DEF TypeOK
    <2>4. submitted' \in [Clients \cup {LoopThread} -> Seq(Tasks)]
      BY <2>2, AppendEntry DEF TypeOK
    <2>5. wakeupFd_' \in BOOLEAN
      BY <2>2 DEF TypeOK
    <2>6. TypeOK'
      BY <2>2, <2>3, <2>4, <2>5 DEF TypeOK, loopVars
    <2>7. FlagsClean'
      BY <2>2 DEF FlagsClean, loopVars
    <2>8. MaySleep' => WakeupPending'
      BY <2>2 DEF FlagsClean, MaySleep, WakeupPending, loopVars
    <2> QED
      BY <2>6, <2>7, <2>8 DEF NoLostWakeup
  <1>2. ASSUME NEW f \in Tasks, LoopRunOnQuit(f)
        PROVE  Inv'
    <2>1. [item |-> f, publisher |-> NoOne] \in Q!Entry
      BY DEF Q!Entry
    <2>2. funcsOnQuit_' \in Seq(QQ!Entry)
      BY <1>2, <2>1, AppendEntry, SameEntry DEF TypeOK, LoopRunOnQuit
    <2> QED
      BY <1>2, <2>2 DEF LoopRunOnQuit, TypeOK, FlagsClean, NoLostWakeup,
           MaySleep, WakeupPending, Q!FirstVisible, loopVars, histVars
  <1>3. ASSUME LoopQuit
        PROVE  Inv'
    BY <1>3 DEF LoopQuit, TypeOK, FlagsClean, NoLostWakeup, MaySleep,
         WakeupPending, Q!FirstVisible, loopVars, histVars
  <1> QED
    BY <1>1, <1>2, <1>3 DEF User

LEMMA LoopInv ==
  ASSUME Inv, Loop \/ LoopCall \/ PollOther \/ Throw \/ ThrowOnQuit
  PROVE  Inv'
  <1> USE DEF Inv
  <1>1. ASSUME LoopEnter \/ LoopTest \/ LoopCall
        PROVE  Inv'
    <2>1. TypeOK'
      <3>1. CASE LoopEnter
        BY <3>1 DEF LoopEnter, TypeOK, LoopPcs, histVars
      <3>2. CASE LoopCall
        <4>1. runs' \in 0..MaxRuns
          BY <3>2, RunsAssumption DEF LoopCall, TypeOK
        <4>2. looping_' \in BOOLEAN /\ loopPc' \in LoopPcs
          BY <3>2 DEF LoopCall, LoopPcs
        <4> QED
          BY <3>2, <4>1, <4>2 DEF LoopCall, TypeOK, histVars
      <3>3. CASE LoopTest
        <4>1. looping_' \in BOOLEAN
          BY <3>3 DEF LoopTest, TypeOK
        <4> QED
          BY <3>3, <4>1 DEF LoopTest, TypeOK, LoopPcs, histVars
      <3> QED
        BY <1>1, <3>1, <3>2, <3>3
    <2>2. FlagsClean'
      BY <1>1 DEF LoopEnter, LoopTest, LoopCall, FlagsClean, TypeOK
    <2>3. NoLostWakeup'
      BY <1>1 DEF LoopEnter, LoopTest, LoopCall, NoLostWakeup, MaySleep,
           WakeupPending, Q!FirstVisible, histVars
    <2> QED
      BY <2>1, <2>2, <2>3
  <1>2. ASSUME PollWakeup \/ PollOther \/ HandleWakeup \/ HandleIo \/ EventsDone
        PROVE  Inv'
    <2>1. TypeOK'
      BY <1>2 DEF PollWakeup, PollOther, HandleWakeup, HandleIo, EventsDone,
           TypeOK, LoopPcs, histVars
    <2>2. FlagsClean'
      BY <1>2 DEF PollWakeup, PollOther, HandleWakeup, HandleIo, EventsDone,
           FlagsClean
    <2>3. ~MaySleep'
      BY <1>2 DEF PollWakeup, PollOther, HandleWakeup, HandleIo, EventsDone,
           MaySleep
    <2> QED
      BY <2>1, <2>2, <2>3 DEF NoLostWakeup
  <1>3. ASSUME FuncsTest
        PROVE  Inv'
    BY <1>3 DEF FuncsTest, TypeOK, FlagsClean, NoLostWakeup, MaySleep,
           WakeupPending, Q!FirstVisible, LoopPcs, histVars
  <1>4. ASSUME DrainTake
        PROVE  Inv'
    <2>1. /\ funcs_ # <<>>
          /\ func' = funcs_[1].item /\ funcs_' = Tail(funcs_)
          /\ ran' = Append(ran, func')
          /\ loopPc = "drain" /\ loopPc' = "run"
          /\ UNCHANGED <<looping_, quit_, callingFuncs_, wakeupFd_,
                         funcsOnQuit_, active, cpc, dtor, runs, submitted,
                         ranOnQuit, threw>>
      BY <1>4 DEF DrainTake, Q!Take, Q!FirstVisible
    <2>2. funcs_' \in Seq(Q!Entry) /\ func' \in Tasks
      BY <2>1, TakeEntry DEF TypeOK
    <2>3. ran' \in Seq(Tasks)
      BY <2>1, <2>2, AppendEntry DEF TypeOK
    <2> QED
      BY <2>1, <2>2, <2>3 DEF TypeOK, FlagsClean, NoLostWakeup, MaySleep, LoopPcs
  <1>5. ASSUME DrainEnd
        PROVE  Inv'
    BY <1>5 DEF DrainEnd, Q!TakeNothing, TypeOK, FlagsClean, NoLostWakeup,
           MaySleep, LoopPcs, histVars
  <1>6. ASSUME OnQuitTake
        PROVE  Inv'
    <2>1. /\ funcsOnQuit_ # <<>>
          /\ func' = funcsOnQuit_[1].item /\ funcsOnQuit_' = Tail(funcsOnQuit_)
          /\ ranOnQuit' = ranOnQuit \cup {func'}
          /\ loopPc = "onquit" /\ loopPc' = "runq"
          /\ UNCHANGED <<looping_, quit_, callingFuncs_, wakeupFd_, funcs_,
                         active, cpc, dtor, runs, submitted, ran, threw>>
      BY <1>6 DEF OnQuitTake, QQ!Take, QQ!FirstVisible
    <2>2. funcsOnQuit_' \in Seq(QQ!Entry) /\ func' \in Tasks
      BY <2>1, TakeEntry, SameEntry DEF TypeOK
    <2> QED
      BY <2>1, <2>2 DEF TypeOK, FlagsClean, NoLostWakeup, MaySleep,
           WakeupPending, Q!FirstVisible, LoopPcs
  <1>7. ASSUME OnQuitEnd
        PROVE  Inv'
    BY <1>7 DEF OnQuitEnd, QQ!TakeNothing, TypeOK, FlagsClean, NoLostWakeup,
           MaySleep, WakeupPending, Q!FirstVisible, LoopPcs, histVars
  <1>8. ASSUME Return
        PROVE  Inv'
    BY <1>8 DEF Return, TypeOK, FlagsClean, NoLostWakeup, MaySleep,
           WakeupPending, Q!FirstVisible, LoopPcs, histVars
  <1>9. ASSUME Throw \/ ThrowOnQuit
        PROVE  Inv'
    <2>1. TypeOK'
      BY <1>9 DEF Throw, ThrowOnQuit, TypeOK, LoopPcs
    <2>2. FlagsClean'
      BY <1>9 DEF Throw, ThrowOnQuit, FlagsClean
    <2>3. threw'
      BY <1>9 DEF Throw, ThrowOnQuit
    <2> QED
      BY <2>1, <2>2, <2>3 DEF NoLostWakeup
  <1> QED
    BY <1>1, <1>2, <1>3, <1>4, <1>5, <1>6, <1>7, <1>8, <1>9 DEF Loop

LEMMA DtorInv ==
  ASSUME Inv, Dtor
  PROVE  Inv'
  <1> USE DEF Inv, Dtor, DtorQuit, DtorWakeup, DtorSpin, DtorHere
  <1>1. TypeOK'
    BY DEF TypeOK, loopVars, histVars
  <1>2. FlagsClean'
    BY DEF FlagsClean, loopVars
  <1>3. NoLostWakeup'
    BY DEF NoLostWakeup, MaySleep, WakeupPending, Q!FirstVisible, loopVars,
           histVars
  <1> QED
    BY <1>1, <1>2, <1>3

LEMMA NextInv ==
  ASSUME Inv, [Next]_vars
  PROVE  Inv'
  <1>1. CASE \E t \in Clients : Call(t) \/ Finish(t)
    BY <1>1, ClientInv
  <1>2. CASE User
    BY <1>2, UserInv
  <1>3. CASE Loop \/ LoopCall \/ PollOther \/ Throw \/ ThrowOnQuit
    BY <1>3, LoopInv
  <1>4. CASE Dtor
    BY <1>4, DtorInv
  <1>5. CASE UNCHANGED vars
    BY <1>5 DEF Inv, vars, TypeOK, FlagsClean, NoLostWakeup, MaySleep,
                WakeupPending, Q!FirstVisible
  <1> QED
    BY <1>1, <1>2, <1>3, <1>4, <1>5 DEF Next

THEOREM InvHolds == Spec => []Inv
  <1> QED
    BY InitInv, NextInv, PTL DEF Spec

(* Type correctness of EventLoop. *)
THEOREM TypeCorrect == Spec => []TypeOK
  <1>1. Inv => TypeOK
    BY DEF Inv
  <1> QED
    BY InvHolds, <1>1, PTL

(* However many threads call queueInLoop(), and wherever each of them is   *)
(* interrupted, the loop thread never sleeps on a function it could run.   *)
THEOREM WakeupSafe == Spec => []NoLostWakeup
  <1>1. Inv => NoLostWakeup
    BY DEF Inv
  <1> QED
    BY InvHolds, <1>1, PTL

(* The flags of the loop tell where it is, also after an exception.        *)
THEOREM FlagsSafe == Spec => []FlagsClean
  <1>1. Inv => FlagsClean
    BY DEF Inv
  <1> QED
    BY InvHolds, <1>1, PTL

-----------------------------------------------------------------------------
(* The order of the functions *)

(* What was run followed by what is still queued: a line at whose end      *)
(* queueInLoop() puts a function, and along which the loop advances.       *)
Line == [k \in 1..(Len(ran) + Len(funcs_)) |->
           IF k <= Len(ran) THEN ran[k] ELSE funcs_[k - Len(ran)].item]

Threads == Clients \cup {LoopThread}

(* A function stands once in the line, it was submitted, what was          *)
(* submitted is in the line, and the functions of a thread stand in the    *)
(* order of its calls.                                                     *)
LineOnce == \A a, b \in 1..Len(Line) : Line[a] = Line[b] => a = b

LineSubmitted ==
  \A a \in 1..Len(Line) :
    \E t \in Threads : \E i \in 1..Len(submitted[t]) : submitted[t][i] = Line[a]

SubmittedInLine ==
  \A t \in Threads : \A i \in 1..Len(submitted[t]) :
    \E a \in 1..Len(Line) : Line[a] = submitted[t][i]

LineOrdered ==
  \A t \in Threads : \A i, j \in 1..Len(submitted[t]) : i < j =>
    \A b \in 1..Len(Line) : Line[b] = submitted[t][j] =>
      \E a \in 1..b - 1 : Line[a] = submitted[t][i]

OrderInv == LineOnce /\ LineSubmitted /\ SubmittedInLine /\ LineOrdered

LineOK ==
  /\ Len(ran) \in Nat /\ Len(funcs_) \in Nat
  /\ Line \in Seq(Tasks)
  /\ Len(Line) = Len(ran) + Len(funcs_)
  /\ \A k \in 1..Len(ran) : Line[k] = ran[k]
  /\ \A k \in 1..Len(funcs_) : Line[Len(ran) + k] = funcs_[k].item

LEMMA SeqOfFunction ==
  ASSUME NEW S, NEW n \in Nat, NEW f \in [1..n -> S]
  PROVE  f \in Seq(S) /\ Len(f) = n
OBVIOUS

LEMMA SeqEq ==
  ASSUME NEW S, NEW s \in Seq(S), NEW t \in Seq(S), Len(s) = Len(t),
         \A i \in 1..Len(s) : s[i] = t[i]
  PROVE  s = t
OBVIOUS

LEMMA AppendFacts ==
  ASSUME NEW S, NEW s \in Seq(S), NEW x \in S
  PROVE  /\ Append(s, x) \in Seq(S)
         /\ Len(Append(s, x)) = Len(s) + 1
         /\ Len(s) \in Nat
         /\ \A i \in 1..Len(s) : Append(s, x)[i] = s[i] /\ s[i] \in S
         /\ Append(s, x)[Len(s) + 1] = x
OBVIOUS

LEMMA TailFacts ==
  ASSUME NEW S, NEW s \in Seq(S), s # <<>>
  PROVE  /\ Tail(s) \in Seq(S)
         /\ Len(Tail(s)) = Len(s) - 1
         /\ Len(s) \in Nat \ {0}
         /\ \A i \in 1..Len(s) - 1 : Tail(s)[i] = s[i + 1]
OBVIOUS

LEMMA LineFacts == TypeOK => LineOK
  <1> SUFFICES ASSUME TypeOK PROVE LineOK
    OBVIOUS
  <1> DEFINE R == Len(ran)
             F == Len(funcs_)
  <1>1. /\ R \in Nat /\ F \in Nat /\ R + F \in Nat
        /\ \A k \in 1..R : ran[k] \in Tasks
        /\ \A k \in 1..F : funcs_[k].item \in Tasks
    <2>1. \A k \in 1..F : funcs_[k] \in Q!Entry
      BY DEF TypeOK
    <2> QED
      BY <2>1 DEF TypeOK, Q!Entry
  <1> HIDE DEF R, F
  <1>2. Line = [k \in 1..(R + F) |-> IF k <= R THEN ran[k] ELSE funcs_[k - R].item]
    BY DEF Line, R, F
  <1>3. \A k \in 1..(R + F) : /\ k <= R => k \in 1..R
                              /\ ~(k <= R) => k - R \in 1..F
    BY <1>1
  <1>4. Line \in [1..(R + F) -> Tasks]
    BY <1>1, <1>2, <1>3
  <1>5. Line \in Seq(Tasks) /\ Len(Line) = R + F
    BY <1>1, <1>4, SeqOfFunction
  <1>6. \A k \in 1..R : k \in 1..(R + F) /\ Line[k] = ran[k]
    BY <1>1, <1>2
  <1>7. \A k \in 1..F : R + k \in 1..(R + F) /\ ~(R + k <= R) /\ (R + k) - R = k
    BY <1>1
  <1>8. \A k \in 1..F : Line[R + k] = funcs_[k].item
    BY <1>2, <1>7
  <1> QED
    BY <1>1, <1>5, <1>6, <1>8 DEF LineOK, R, F

(* A place of the line is one of what was run or one of what is queued. *)
LEMMA Places ==
  ASSUME NEW R \in Nat, NEW F \in Nat, NEW k \in 1..(R + F)
  PROVE  k \in 1..R \/ \E j \in 1..F : k = R + j
  <1>1. CASE k <= R
    BY <1>1
  <1>2. CASE ~(k <= R)
    <2>1. k - R \in 1..F /\ k = R + (k - R)
      BY <1>2
    <2> QED
      BY <2>1
  <1> QED
    BY <1>1, <1>2

LEMMA LineKept ==
  ASSUME TypeOK, TypeOK', UNCHANGED ran, Len(funcs_') = Len(funcs_),
         \A k \in 1..Len(funcs_) : funcs_'[k].item = funcs_[k].item
  PROVE  Line' = Line
  <1>1. LineOK /\ LineOK'
    BY LineFacts, PTL
  <1>2. ASSUME NEW k \in 1..Len(Line)
        PROVE  Line'[k] = Line[k]
    <2>1. k \in 1..Len(ran) \/ \E j \in 1..Len(funcs_) : k = Len(ran) + j
      <3>1. Len(ran) \in Nat /\ Len(funcs_) \in Nat /\ k \in 1..(Len(ran) + Len(funcs_))
        BY <1>1 DEF LineOK
      <3> HIDE DEF Line
      <3> QED
        BY <3>1, Places
    <2>2. CASE k \in 1..Len(ran)
      BY <2>2, <1>1 DEF LineOK
    <2>3. ASSUME NEW j \in 1..Len(funcs_), k = Len(ran) + j
          PROVE  Line'[k] = Line[k]
      <3>1. Line[Len(ran) + j] = funcs_[j].item
        BY <1>1 DEF LineOK
      <3>2. Line'[Len(ran) + j] = funcs_'[j].item
        BY <1>1 DEF LineOK
      <3> QED
        BY <2>3, <3>1, <3>2
    <2> QED
      BY <2>1, <2>2, <2>3
  <1> QED
    BY <1>1, <1>2, SeqEq DEF LineOK

LEMMA LineGrows ==
  ASSUME TypeOK, TypeOK', UNCHANGED ran, NEW e \in Q!Entry,
         funcs_' = Append(funcs_, e)
  PROVE  Line' = Append(Line, e.item)
  <1> DEFINE R == Len(ran)
             F == Len(funcs_)
  <1>1. LineOK /\ LineOK'
    BY LineFacts, PTL
  <1>2. e.item \in Tasks
    BY DEF Q!Entry
  <1>3. /\ Len(funcs_') = F + 1 /\ funcs_'[F + 1] = e
        /\ \A k \in 1..F : funcs_'[k] = funcs_[k]
    BY AppendFacts DEF TypeOK
  <1>4. /\ R \in Nat /\ F \in Nat
        /\ Line \in Seq(Tasks) /\ Line' \in Seq(Tasks)
        /\ Len(Line) = R + F /\ Len(Line') = R + F + 1
        /\ \A k \in 1..R : Line[k] = ran[k] /\ Line'[k] = ran[k]
        /\ \A k \in 1..F : Line[R + k] = funcs_[k].item
        /\ \A k \in 1..F + 1 : Line'[R + k] = funcs_'[k].item
    <2>1. /\ R \in Nat /\ F \in Nat /\ Line \in Seq(Tasks) /\ Len(Line) = R + F
          /\ \A k \in 1..R : Line[k] = ran[k]
          /\ \A k \in 1..F : Line[R + k] = funcs_[k].item
      BY <1>1 DEF LineOK
    <2>2. Len(ran') = R /\ \A k \in 1..R : ran'[k] = ran[k]
      OBVIOUS
    <2>3. /\ Line' \in Seq(Tasks) /\ Len(Line') = Len(ran') + Len(funcs_')
          /\ \A k \in 1..Len(ran') : Line'[k] = ran'[k]
          /\ \A k \in 1..Len(funcs_') : Line'[Len(ran') + k] = funcs_'[k].item
      BY <1>1 DEF LineOK
    <2>4. Len(Line') = R + F + 1
      BY <2>1, <2>2, <2>3, <1>3
    <2>5. \A k \in 1..R : Line'[k] = ran[k]
      BY <2>2, <2>3
    <2>6. \A k \in 1..F + 1 : Line'[R + k] = funcs_'[k].item
      BY <2>2, <2>3, <1>3
    <2> QED
      BY <2>1, <2>3, <2>4, <2>5, <2>6
  <1> HIDE DEF R, F
  <1>5. ASSUME NEW k \in 1..F
        PROVE  Line'[R + k] = Line[R + k]
    <2>1. k \in 1..F + 1
      BY <1>4
    <2>2. Line'[R + k] = funcs_'[k].item /\ Line[R + k] = funcs_[k].item
      BY <2>1, <1>4
    <2> QED
      BY <2>2, <1>3
  <1>6. \A k \in 1..(R + F) : Line'[k] = Line[k]
    BY <1>4, <1>5, Places
  <1>7. Line'[(R + F) + 1] = e.item
    <2>1. Line'[R + (F + 1)] = e.item
      BY <1>3, <1>4
    <2>2. R + (F + 1) = (R + F) + 1
      BY <1>4
    <2> QED
      BY <2>1, <2>2
  <1>8. /\ Append(Line, e.item) \in Seq(Tasks)
        /\ Len(Append(Line, e.item)) = (R + F) + 1
        /\ \A k \in 1..(R + F) : Append(Line, e.item)[k] = Line[k]
        /\ Append(Line, e.item)[(R + F) + 1] = e.item
    BY <1>2, <1>4, AppendFacts
  <1>9. \A k \in 1..((R + F) + 1) : Line'[k] = Append(Line, e.item)[k]
    <2>1. \A k \in 1..((R + F) + 1) : k \in 1..(R + F) \/ k = (R + F) + 1
      BY <1>4
    <2> QED
      BY <2>1, <1>6, <1>7, <1>8
  <1> QED
    BY <1>4, <1>8, <1>9, SeqEq

LEMMA LineAdvances ==
  ASSUME TypeOK, TypeOK', funcs_ # <<>>, funcs_' = Tail(funcs_),
         ran' = Append(ran, funcs_[1].item)
  PROVE  Line' = Line
  <1> DEFINE R == Len(ran)
             F == Len(funcs_)
  <1>1. LineOK /\ LineOK'
    BY LineFacts, PTL
  <1>2. /\ F \in Nat \ {0} /\ Len(funcs_') = F - 1
        /\ \A k \in 1..F - 1 : funcs_'[k] = funcs_[k + 1]
    BY TailFacts DEF TypeOK
  <1>3. funcs_[1].item \in Tasks
    BY TakeEntry DEF TypeOK
  <1>4. /\ Len(ran') = R + 1 /\ ran'[R + 1] = funcs_[1].item
        /\ \A k \in 1..R : ran'[k] = ran[k]
    BY <1>3, AppendFacts DEF TypeOK
  <1>5. /\ R \in Nat
        /\ Line \in Seq(Tasks) /\ Line' \in Seq(Tasks)
        /\ Len(Line) = R + F /\ Len(Line') = R + F
        /\ \A k \in 1..R : Line[k] = ran[k]
        /\ \A k \in 1..F : Line[R + k] = funcs_[k].item
        /\ \A k \in 1..R + 1 : Line'[k] = ran'[k]
        /\ \A k \in 1..F - 1 : Line'[(R + 1) + k] = funcs_[k + 1].item
    BY <1>1, <1>2, <1>4 DEF LineOK
  <1> HIDE DEF R, F
  <1>6. \A k \in 1..R : Line'[k] = Line[k]
    BY <1>4, <1>5
  <1>7. ASSUME NEW j \in 1..F
        PROVE  Line'[R + j] = Line[R + j]
    <2>1. CASE j = 1
      <3>1. R + 1 \in 1..R + 1 /\ 1 \in 1..F
        BY <1>2, <1>5
      <3>2. Line'[R + 1] = ran'[R + 1]
        BY <3>1, <1>5
      <3>3. Line[R + 1] = funcs_[1].item
        BY <3>1, <1>5
      <3> QED
        BY <2>1, <3>2, <3>3, <1>4
    <2>2. CASE j # 1
      <3>1. j - 1 \in 1..F - 1 /\ (R + 1) + (j - 1) = R + j /\ (j - 1) + 1 = j
        BY <2>2, <1>2, <1>5
      <3> QED
        BY <3>1, <1>5
    <2> QED
      BY <2>1, <2>2
  <1>8. \A k \in 1..(R + F) : Line'[k] = Line[k]
    <2>1. F \in Nat
      BY <1>2
    <2> QED
      BY <2>1, <1>5, <1>6, <1>7, Places
  <1> QED
    BY <1>5, <1>8, SeqEq

Submits ==
  \E t \in Threads, f \in Tasks :
    /\ Fresh(f)
    /\ submitted' = [submitted EXCEPT ![t] = Append(@, f)]
    /\ Line' = Append(Line, f)

(* A step submits a function at the end of the line, or leaves the line. *)
LEMMA LineStep ==
  ASSUME TypeOK, TypeOK', [Next]_vars
  PROVE  Submits \/ (UNCHANGED submitted /\ Line' = Line)
  <1>1. ASSUME NEW t \in Clients, NEW f \in Tasks, QueueInLoop(t, f)
        PROVE  Submits
    <2>1. [item |-> f, publisher |-> t] \in Q!Entry
      BY DEF Q!Entry
    <2>2. Line' = Append(Line, f)
      BY <1>1, <2>1, LineGrows DEF QueueInLoop, Q!Claim
    <2> QED
      BY <1>1, <2>2 DEF Submits, Threads, QueueInLoop
  <1>2. ASSUME NEW f \in Tasks, LoopQueueInLoop(f)
        PROVE  Submits
    <2>1. [item |-> f, publisher |-> NoOne] \in Q!Entry
      BY DEF Q!Entry
    <2>2. Line' = Append(Line, f)
      BY <1>2, <2>1, LineGrows DEF LoopQueueInLoop
    <2> QED
      BY <1>2, <2>2 DEF Submits, Threads, LoopQueueInLoop
  <1>3. ASSUME NEW t \in Clients, PublishFunc(t)
        PROVE  UNCHANGED submitted /\ Line' = Line
    <2>1. PICK i \in DOMAIN funcs_ :
                 funcs_' = [funcs_ EXCEPT ![i].publisher = NoOne]
      BY <1>3 DEF PublishFunc, Q!Publish
    <2>2. UNCHANGED <<ran, submitted>>
      BY <1>3 DEF PublishFunc, histVars
    <2>3. DOMAIN funcs_ = 1..Len(funcs_) /\ Len(funcs_) \in Nat
          /\ \A k \in 1..Len(funcs_) : funcs_[k] \in Q!Entry
      BY DEF TypeOK
    <2>4. Len(funcs_') = Len(funcs_)
      BY <2>1, <2>3 DEF TypeOK
    <2>5. \A k \in 1..Len(funcs_) : funcs_'[k].item = funcs_[k].item
      BY <2>1, <2>3 DEF Q!Entry
    <2> QED
      BY <2>2, <2>4, <2>5, LineKept
  <1>4. ASSUME DrainTake
        PROVE  UNCHANGED submitted /\ Line' = Line
    BY <1>4, LineAdvances DEF DrainTake, Q!Take, Q!FirstVisible
  <1>5. ASSUME UNCHANGED <<submitted, ran, funcs_>>
        PROVE  UNCHANGED submitted /\ Line' = Line
    BY <1>5 DEF Line
  <1>6. CASE \E t \in Clients : Call(t) \/ Finish(t)
    BY <1>1, <1>3, <1>5, <1>6 DEF Call, Finish, RunOnQuit, Quit, PublishOnQuit, Wakeup, histVars
  <1>7. CASE User
    BY <1>2, <1>5, <1>7 DEF User, LoopRunOnQuit, LoopQuit, histVars
  <1>8. CASE Loop
    BY <1>4, <1>5, <1>8 DEF Loop, LoopEnter, LoopTest, PollWakeup, HandleWakeup, HandleIo,
         EventsDone, FuncsTest, DrainEnd, Q!TakeNothing, OnQuitTake, OnQuitEnd, Return, histVars
  <1>9. CASE LoopCall \/ PollOther \/ Throw \/ ThrowOnQuit \/ Dtor \/ UNCHANGED vars
    BY <1>5, <1>9 DEF LoopCall, PollOther, Throw, ThrowOnQuit, Dtor, DtorQuit, DtorWakeup,
         DtorSpin, DtorHere, vars, histVars
  <1> QED
    BY <1>6, <1>7, <1>8, <1>9 DEF Next

LEMMA OrderNext ==
  ASSUME Inv, Inv', OrderInv, [Next]_vars
  PROVE  OrderInv'
  <1>1. TypeOK /\ TypeOK'
    BY DEF Inv
  <1>2. CASE UNCHANGED submitted /\ Line' = Line
    <2>1. LineOnce'
      BY <1>2 DEF OrderInv, LineOnce
    <2>2. LineSubmitted'
      BY <1>2 DEF OrderInv, LineSubmitted
    <2>3. SubmittedInLine'
      <3> SUFFICES ASSUME NEW t \in Threads, NEW i \in 1..Len(submitted'[t])
                   PROVE  \E a \in 1..Len(Line') : Line'[a] = submitted'[t][i]
        BY DEF SubmittedInLine
      <3>1. submitted' = submitted /\ Line' = Line
        BY <1>2
      <3>2. PICK a \in 1..Len(Line) : Line[a] = submitted[t][i]
        BY <3>1 DEF OrderInv, SubmittedInLine
      <3>3. Line'[a] = submitted'[t][i]
        BY <3>1, <3>2, Zenon
      <3>4. a \in 1..Len(Line')
        BY <3>1, <3>2, Zenon
      <3> QED
        BY <3>3, <3>4, Zenon
    <2>4. LineOrdered'
      <3>1. submitted' = submitted /\ Line' = Line
        BY <1>2
      <3> SUFFICES ASSUME NEW t \in Threads, NEW i \in 1..Len(submitted'[t]),
                          NEW j \in 1..Len(submitted'[t]), i < j,
                          NEW b \in 1..Len(Line'), Line'[b] = submitted'[t][j]
                   PROVE  \E a \in 1..b - 1 : Line'[a] = submitted'[t][i]
        BY Zenon DEF LineOrdered
      <3>2. /\ i \in 1..Len(submitted[t]) /\ j \in 1..Len(submitted[t])
            /\ b \in 1..Len(Line) /\ Line[b] = submitted[t][j]
        BY <3>1
      <3>3. PICK a \in 1..b - 1 : Line[a] = submitted[t][i]
        BY <3>2, Zenon DEF OrderInv, LineOrdered
      <3>4. Line'[a] = submitted'[t][i]
        BY <3>1, <3>3, Zenon
      <3> QED
        BY <3>4, Zenon
    <2> QED
      BY <2>1, <2>2, <2>3, <2>4 DEF OrderInv
  <1>3. CASE Submits
    <2>1. PICK t \in Threads, f \in Tasks :
                 /\ Fresh(f)
                 /\ submitted' = [submitted EXCEPT ![t] = Append(@, f)]
                 /\ Line' = Append(Line, f)
      BY <1>3 DEF Submits
    <2> DEFINE L == Len(Line)
               N == Len(submitted[t])
    <2>2. /\ L \in Nat /\ Len(Line') = L + 1
          /\ \A a \in 1..L : Line'[a] = Line[a]
          /\ Line'[L + 1] = f
      <3>1. Line \in Seq(Tasks)
        BY <1>1, LineFacts DEF LineOK
      <3> QED
        BY <3>1, <2>1, AppendFacts
    <2>3. /\ N \in Nat /\ Len(submitted'[t]) = N + 1
          /\ \A i \in 1..N : submitted'[t][i] = submitted[t][i]
          /\ submitted'[t][N + 1] = f
      <3>1. submitted[t] \in Seq(Tasks) /\ submitted'[t] = Append(submitted[t], f)
        BY <1>1, <2>1 DEF TypeOK, Threads
      <3> QED
        BY <3>1, AppendFacts
    <2>4. \A u \in Threads : u # t => submitted'[u] = submitted[u]
      BY <1>1, <2>1 DEF TypeOK, Threads
    <2>5. \A u \in Threads : \A i \in 1..Len(submitted[u]) : submitted[u][i] # f
      <3>1. \A u \in Threads : submitted[u] \in Seq(Tasks)
        BY <1>1 DEF TypeOK, Threads
      <3>2. \A u \in Threads : DOMAIN submitted[u] = 1..Len(submitted[u])
        BY <3>1
      <3> QED
        BY <2>1, <3>2 DEF Fresh, Threads
    <2>6. \A a \in 1..L : Line[a] # f
      BY <2>5 DEF OrderInv, LineSubmitted
    (* what was submitted before stays where it is *)
    <2>7. \A u \in Threads : \A i \in 1..Len(submitted[u]) :
             i \in 1..Len(submitted'[u]) /\ submitted'[u][i] = submitted[u][i]
      BY <2>3, <2>4
    (* and what is new is f of t *)
    <2>8. ASSUME NEW u \in Threads, NEW i \in 1..Len(submitted'[u])
          PROVE  i \in 1..Len(submitted[u]) \/ (u = t /\ i = N + 1)
      BY <2>3, <2>4
    <2>9. \A a \in 1..L + 1 : a \in 1..L \/ a = L + 1
      BY <2>2
    <2> HIDE DEF L, N
    <2>10. LineOnce'
      BY <2>2, <2>6, <2>9 DEF OrderInv, LineOnce, L
    <2>11. LineSubmitted'
      <3> SUFFICES ASSUME NEW a \in 1..L + 1
                   PROVE  \E u \in Threads : \E i \in 1..Len(submitted'[u]) :
                             submitted'[u][i] = Line'[a]
        BY <2>2 DEF LineSubmitted
      <3>1. CASE a \in 1..L
        <4>1. PICK u \in Threads : \E i \in 1..Len(submitted[u]) : submitted[u][i] = Line[a]
          BY <3>1 DEF OrderInv, LineSubmitted, L
        <4> QED
          BY <4>1, <3>1, <2>2, <2>7
      <3>2. CASE a = L + 1
        <4>1. N + 1 \in 1..Len(submitted'[t])
          BY <2>3
        <4> QED
          BY <4>1, <3>2, <2>2, <2>3
      <3> QED
        BY <3>1, <3>2, <2>9
    <2>12. SubmittedInLine'
      <3> SUFFICES ASSUME NEW u \in Threads, NEW i \in 1..Len(submitted'[u])
                   PROVE  \E a \in 1..L + 1 : Line'[a] = submitted'[u][i]
        BY <2>2 DEF SubmittedInLine
      <3>1. CASE i \in 1..Len(submitted[u])
        <4>1. PICK a \in 1..L : Line[a] = submitted[u][i]
          BY <3>1 DEF OrderInv, SubmittedInLine, L
        <4> QED
          BY <4>1, <3>1, <2>2, <2>7
      <3>2. CASE u = t /\ i = N + 1
        BY <3>2, <2>2, <2>3
      <3> QED
        BY <3>1, <3>2, <2>8
    <2>13. LineOrdered'
      <3> SUFFICES ASSUME NEW u \in Threads, NEW i \in 1..Len(submitted'[u]),
                          NEW j \in 1..Len(submitted'[u]), i < j,
                          NEW b \in 1..L + 1, Line'[b] = submitted'[u][j]
                   PROVE  \E a \in 1..b - 1 : Line'[a] = submitted'[u][i]
        BY <2>2 DEF LineOrdered
      <3>1. i \in 1..Len(submitted[u])
        <4>1. Len(submitted[u]) \in Nat
          BY <1>1 DEF TypeOK, Threads
        <4> QED
          BY <4>1, <2>3, <2>8 DEF N
      <3>2. CASE j \in 1..Len(submitted[u])
        <4>1. b \in 1..L
          BY <3>2, <2>2, <2>5, <2>7, <2>9
        <4>2. Line[b] = submitted[u][j]
          BY <3>2, <4>1, <2>2, <2>7
        <4>3. PICK a \in 1..b - 1 : Line[a] = submitted[u][i]
          BY <3>1, <3>2, <4>1, <4>2 DEF OrderInv, LineOrdered, L
        <4>4. a \in 1..L
          BY <4>1, <2>2
        <4> QED
          BY <4>3, <4>4, <3>1, <2>2, <2>7
      <3>3. CASE u = t /\ j = N + 1
        <4>1. b = L + 1
          BY <3>3, <2>2, <2>3, <2>6, <2>9
        <4>2. PICK a \in 1..L : Line[a] = submitted[u][i]
          BY <3>1 DEF OrderInv, SubmittedInLine, L
        <4>3. a \in 1..b - 1
          BY <4>1, <2>2
        <4> QED
          BY <4>2, <4>3, <3>1, <2>2, <2>7
      <3> QED
        BY <3>2, <3>3, <2>8
    <2> QED
      BY <2>10, <2>11, <2>12, <2>13 DEF OrderInv
  <1> QED
    BY <1>1, <1>2, <1>3, LineStep

LEMMA OrderInit == Init => OrderInv
  <1> SUFFICES ASSUME Init PROVE OrderInv
    OBVIOUS
  <1>1. Len(Line) = 0 /\ \A t \in Threads : Len(submitted[t]) = 0
    <2>1. LineOK
      BY InitInv, LineFacts DEF Inv
    <2> QED
      BY <2>1 DEF Init, LineOK, Threads
  <1> QED
    BY <1>1 DEF OrderInv, LineOnce, LineSubmitted, SubmittedInLine, LineOrdered

(* The functions that one thread queues run in the order of its calls of   *)
(* queueInLoop(), none is skipped and none runs twice, for any number of   *)
(* threads, across exceptions and further calls of loop().                 *)
THEOREM OrderSafe == Spec => []OrderKept
  <1>1. Inv /\ Inv' /\ OrderInv /\ [Next]_vars => OrderInv'
    BY OrderNext
  <1>2. Inv /\ OrderInv => OrderKept
    <2> SUFFICES ASSUME Inv, OrderInv PROVE OrderKept
      OBVIOUS
    <2>1. /\ LineOK /\ DOMAIN ran = 1..Len(ran)
          /\ \A t \in Threads : DOMAIN submitted[t] = 1..Len(submitted[t])
      <3>1. LineOK
        BY LineFacts DEF Inv
      <3>2. ran \in Seq(Tasks) /\ \A t \in Threads : submitted[t] \in Seq(Tasks)
        BY DEF Inv, TypeOK, Threads
      <3> QED
        BY <3>1, <3>2
    <2>2. /\ Len(ran) \in Nat /\ \A a \in 1..Len(ran) : a \in 1..Len(Line) /\ Line[a] = ran[a]
      BY <2>1 DEF LineOK
    <2>3. \A a, b \in DOMAIN ran : ran[a] = ran[b] => a = b
      BY <2>1, <2>2 DEF OrderInv, LineOnce
    <2>4. ASSUME NEW t \in Threads, NEW i \in 1..Len(submitted[t]),
                 NEW j \in 1..Len(submitted[t]), i < j,
                 NEW b \in 1..Len(ran), ran[b] = submitted[t][j]
          PROVE  \E a \in 1..b - 1 : ran[a] = submitted[t][i]
      <3>1. PICK a \in 1..b - 1 : Line[a] = submitted[t][i]
        BY <2>2, <2>4 DEF OrderInv, LineOrdered
      <3>2. a \in 1..Len(ran)
        BY <2>2
      <3> QED
        BY <3>1, <3>2, <2>2
    <2> QED
      BY <2>1, <2>3, <2>4 DEF OrderKept, Threads
  <1> QED
    BY <1>1, <1>2, InvHolds, OrderInit, PTL DEF Spec
=============================================================================
