----------------------------- MODULE EventLoop ------------------------------
(***************************************************************************)
(* net/EventLoop.cpp: the reactor.  One thread, the loop thread, runs      *)
(* loop(): it polls, handles the active channels, then runs the functions  *)
(* that any thread has queued.  The other threads (Clients) hand it work   *)
(* with queueInLoop() / runInLoop(), register functions with runOnQuit(),  *)
(* and stop it with quit(); wakeupFd_ is how they get it out of poll().    *)
(*                                                                         *)
(* funcs_ and funcsOnQuit_ are the queues of LockFreeQueue.h, taken here   *)
(* by what they promise (MpscFifo; MpscQueue shows that the code keeps     *)
(* it): an enqueue() claims a place and publishes later, and dequeue()     *)
(* stops at a place that is not published.                                 *)
(***************************************************************************)
EXTENDS Naturals, Sequences

CONSTANTS Clients,        \* the threads other than the loop thread
          LoopThread,     \* the thread that owns the loop (threadId_)
          Tasks,          \* the functions that are queued, each at most once
          NoItem, NoOne,  \* as in MpscFifo
          MaxRuns,        \* bound: how often loop() is called
          Throwing,       \* may functions and handlers throw?
          DtorElsewhere   \* may another thread destroy the loop as it runs?

ASSUME ThreadsAssumption == LoopThread \notin Clients
ASSUME TasksAssumption == NoItem \notin Tasks
ASSUME NoOneAssumption == NoOne \notin Clients
ASSUME RunsAssumption == MaxRuns \in Nat
ASSUME SwitchesAssumption == Throwing \in BOOLEAN /\ DtorElsewhere \in BOOLEAN

VARIABLES
  looping_, quit_, callingFuncs_,  \* the flags of EventLoop
  wakeupFd_,     \* is the eventfd readable?
  funcs_,        \* the queue of queueInLoop()
  funcsOnQuit_,  \* the queue of runOnQuit()
  loopPc,        \* where the loop thread is
  active,        \* active channels not handled yet: "wakeup", "io"
  func,          \* the function being run
  cpc,           \* where each client is in queueInLoop, runOnQuit or quit
  dtor,          \* ~EventLoop(): "no", "wakeup", "spin", "done"
  runs,          \* how often loop() was called
  submitted,     \* history: what each thread queued, in order
  ran,           \* history: what was run from funcs_, in order
  ranOnQuit,     \* history: what was run from funcsOnQuit_
  threw          \* history: an exception has left the loop body

loopVars == <<looping_, callingFuncs_, loopPc, active, func, runs>>
histVars == <<submitted, ran, ranOnQuit, threw>>
vars == <<looping_, quit_, callingFuncs_, wakeupFd_, funcs_, funcsOnQuit_,
          loopPc, active, func, cpc, dtor, runs, submitted, ran, ranOnQuit,
          threw>>

Q  == INSTANCE MpscFifo WITH Producers <- Clients, Items <- Tasks,
                             queue <- funcs_, taken <- func
QQ == INSTANCE MpscFifo WITH Producers <- Clients, Items <- Tasks,
                             queue <- funcsOnQuit_, taken <- func

LoopPcs == {"out", "enter", "test", "poll", "events", "io", "funcs", "drain",
            "run", "onquit", "runq"}

(* Types: in particular only functions that were queued are ever run, never *)
(* the empty answer of a dequeue() that returned false.                     *)
TypeOK ==
  /\ looping_ \in BOOLEAN /\ quit_ \in BOOLEAN /\ callingFuncs_ \in BOOLEAN
  /\ wakeupFd_ \in BOOLEAN
  /\ funcs_ \in Seq(Q!Entry)
  /\ funcsOnQuit_ \in Seq(QQ!Entry)
  /\ loopPc \in LoopPcs
  /\ active \in SUBSET {"wakeup", "io"}
  /\ func \in Tasks \cup {NoItem}
  /\ cpc \in [Clients -> {"idle", "publish", "publishQuit", "wakeup"}]
  /\ dtor \in {"no", "wakeup", "spin", "done"}
  /\ runs \in 0..MaxRuns
  /\ submitted \in [Clients \cup {LoopThread} -> Seq(Tasks)]
  /\ ran \in Seq(Tasks)
  /\ ranOnQuit \subseteq Tasks
  /\ threw \in BOOLEAN

(* EventLoop(): nothing queued, not looping. *)
Init ==
  /\ looping_ = FALSE /\ quit_ = FALSE /\ callingFuncs_ = FALSE
  /\ wakeupFd_ = FALSE
  /\ funcs_ = <<>> /\ funcsOnQuit_ = <<>>
  /\ loopPc = "out" /\ active = {} /\ func = NoItem
  /\ cpc = [t \in Clients |-> "idle"]
  /\ dtor = "no"
  /\ runs = 0
  /\ submitted = [t \in Clients \cup {LoopThread} |-> <<>>]
  /\ ran = <<>> /\ ranOnQuit = {} /\ threw = FALSE

(* A function is queued at most once, so that it can be told apart. *)
Fresh(f) ==
  /\ \A t \in Clients \cup {LoopThread} :
        \A i \in DOMAIN submitted[t] : submitted[t][i] # f
  /\ \A i \in DOMAIN funcsOnQuit_ : funcsOnQuit_[i].item # f
  /\ f \notin ranOnQuit

-----------------------------------------------------------------------------
(* The other threads.  No call may overlap the destructor.                 *)

CanCall(t) == cpc[t] = "idle" /\ dtor = "no"

(* queueInLoop() (and runInLoop()) of another thread: funcs_.enqueue()     *)
(* claims a place ...                                                      *)
QueueInLoop(t, f) ==
  /\ CanCall(t) /\ Fresh(f)
  /\ Q!Claim(t, f)
  /\ submitted' = [submitted EXCEPT ![t] = Append(@, f)]
  /\ cpc' = [cpc EXCEPT ![t] = "publish"]
  /\ UNCHANGED <<looping_, quit_, callingFuncs_, wakeupFd_, funcsOnQuit_,
                 loopPc, active, dtor, runs, ran, ranOnQuit, threw>>

(* ... and publishes it; !isInLoopThread(), so wakeup() follows.           *)
PublishFunc(t) ==
  /\ cpc[t] = "publish"
  /\ Q!Publish(t)
  /\ cpc' = [cpc EXCEPT ![t] = "wakeup"]
  /\ UNCHANGED <<looping_, quit_, callingFuncs_, wakeupFd_, funcsOnQuit_,
                 loopPc, active, dtor, runs, histVars>>

(* wakeup(): write(wakeupFd_). *)
Wakeup(t) ==
  /\ cpc[t] = "wakeup"
  /\ wakeupFd_' = TRUE
  /\ cpc' = [cpc EXCEPT ![t] = "idle"]
  /\ UNCHANGED <<loopVars, quit_, funcs_, funcsOnQuit_, dtor, histVars>>

(* runOnQuit() of another thread: an enqueue() without a wakeup().         *)
RunOnQuit(t, f) ==
  /\ CanCall(t) /\ Fresh(f)
  /\ QQ!Claim(t, f)
  /\ cpc' = [cpc EXCEPT ![t] = "publishQuit"]
  /\ UNCHANGED <<looping_, quit_, callingFuncs_, wakeupFd_, funcs_,
                 loopPc, active, dtor, runs, histVars>>

PublishOnQuit(t) ==
  /\ cpc[t] = "publishQuit"
  /\ QQ!Publish(t)
  /\ cpc' = [cpc EXCEPT ![t] = "idle"]
  /\ UNCHANGED <<looping_, quit_, callingFuncs_, wakeupFd_, funcs_,
                 loopPc, active, dtor, runs, histVars>>

(* Mutant of Quit: no wakeup() after the store. *)
QuitSilent(t) ==
  /\ CanCall(t)
  /\ quit_' = TRUE
  /\ UNCHANGED <<loopVars, wakeupFd_, funcs_, funcsOnQuit_, cpc, dtor, histVars>>

(* quit() of another thread: the store, then wakeup(). *)
Quit(t) ==
  /\ CanCall(t)
  /\ quit_' = TRUE
  /\ cpc' = [cpc EXCEPT ![t] = "wakeup"]
  /\ UNCHANGED <<loopVars, wakeupFd_, funcs_, funcsOnQuit_, dtor, histVars>>

-----------------------------------------------------------------------------
(* What a function or a handler does in the loop thread: it may call the   *)
(* loop's operations any number of times, then it returns or throws.       *)

UserCode == loopPc \in {"out", "io", "run", "runq"} /\ dtor # "done"

(* Mutant of LoopQueueInLoop: the test of looping_ is missing. *)
LoopQueueInLoopSilent(f) ==
  /\ UserCode /\ Fresh(f)
  /\ funcs_' = Append(funcs_, [item |-> f, publisher |-> NoOne])
  /\ submitted' = [submitted EXCEPT ![LoopThread] = Append(@, f)]
  /\ UNCHANGED <<loopVars, quit_, wakeupFd_, funcsOnQuit_, cpc, dtor, ran,
                 ranOnQuit, threw>>

(* queueInLoop() in the loop thread: wakeup() only when not looping_.      *)
LoopQueueInLoop(f) ==
  /\ UserCode /\ Fresh(f)
  /\ funcs_' = Append(funcs_, [item |-> f, publisher |-> NoOne])
  /\ wakeupFd_' = (wakeupFd_ \/ ~looping_)
  /\ submitted' = [submitted EXCEPT ![LoopThread] = Append(@, f)]
  /\ UNCHANGED <<loopVars, quit_, funcsOnQuit_, cpc, dtor, ran, ranOnQuit,
                 threw>>

LoopRunOnQuit(f) ==
  /\ UserCode /\ Fresh(f)
  /\ funcsOnQuit_' = Append(funcsOnQuit_, [item |-> f, publisher |-> NoOne])
  /\ UNCHANGED <<loopVars, quit_, wakeupFd_, funcs_, cpc, dtor, histVars>>

(* quit() in the loop thread: no wakeup(). *)
LoopQuit ==
  /\ UserCode
  /\ quit_' = TRUE
  /\ UNCHANGED <<loopVars, wakeupFd_, funcs_, funcsOnQuit_, cpc, dtor, histVars>>

-----------------------------------------------------------------------------
(* loop().                                                                 *)

(* looping_ = true ... *)
LoopCall ==
  /\ loopPc = "out" /\ dtor = "no" /\ runs < MaxRuns
  /\ looping_' = TRUE
  /\ loopPc' = "enter"
  /\ runs' = runs + 1
  /\ UNCHANGED <<quit_, callingFuncs_, wakeupFd_, funcs_, funcsOnQuit_, active,
                 func, cpc, dtor, histVars>>

(* ... then quit_ = false. *)
LoopEnter ==
  /\ loopPc = "enter"
  /\ quit_' = FALSE
  /\ loopPc' = "test"
  /\ UNCHANGED <<looping_, callingFuncs_, wakeupFd_, funcs_, funcsOnQuit_,
                 active, func, cpc, dtor, runs, histVars>>

(* Mutant of LoopTest: the functions on quit are left out. *)
LoopTestNoOnQuit ==
  /\ loopPc = "test"
  /\ loopPc' = IF quit_ THEN "out" ELSE "poll"
  /\ looping_' = ~quit_
  /\ UNCHANGED <<quit_, callingFuncs_, wakeupFd_, funcs_, funcsOnQuit_, active,
                 func, cpc, dtor, runs, histVars>>

(* while (!quit_): when it ends, the scope's cleaner clears looping_.      *)
LoopTest ==
  /\ loopPc = "test"
  /\ loopPc' = IF quit_ THEN "onquit" ELSE "poll"
  /\ looping_' = ~quit_
  /\ UNCHANGED <<quit_, callingFuncs_, wakeupFd_, funcs_, funcsOnQuit_, active,
                 func, cpc, dtor, runs, histVars>>

(* Mutant of PollWakeup: wakeupFd_ is watched only for quit(). *)
PollWakeupQuit ==
  /\ loopPc = "poll"
  /\ wakeupFd_ /\ quit_
  /\ active' \in {{"wakeup"}, {"wakeup", "io"}}
  /\ loopPc' = "events"
  /\ UNCHANGED <<looping_, quit_, callingFuncs_, wakeupFd_, funcs_,
                 funcsOnQuit_, func, cpc, dtor, runs, histVars>>

(* poll() with wakeupFd_ among the ready channels. *)
PollWakeup ==
  /\ loopPc = "poll"
  /\ wakeupFd_
  /\ active' \in {{"wakeup"}, {"wakeup", "io"}}
  /\ loopPc' = "events"
  /\ UNCHANGED <<looping_, quit_, callingFuncs_, wakeupFd_, funcs_,
                 funcsOnQuit_, func, cpc, dtor, runs, histVars>>

(* poll() for another reason: other channels (events_ may be full, so      *)
(* wakeupFd_ may be left out), the time-out of kPollTimeMs, a signal.      *)
PollOther ==
  /\ loopPc = "poll"
  /\ active' \in {{"io"}, {}}
  /\ loopPc' = "events"
  /\ UNCHANGED <<looping_, quit_, callingFuncs_, wakeupFd_, funcs_,
                 funcsOnQuit_, func, cpc, dtor, runs, histVars>>

(* wakeupRead() *)
HandleWakeup ==
  /\ loopPc = "events" /\ "wakeup" \in active
  /\ wakeupFd_' = FALSE
  /\ active' = active \ {"wakeup"}
  /\ UNCHANGED <<looping_, quit_, callingFuncs_, funcs_, funcsOnQuit_, loopPc,
                 func, cpc, dtor, runs, histVars>>

(* handleEvent() of another channel: a socket's or a timer's callbacks.    *)
HandleIo ==
  /\ loopPc = "events" /\ "io" \in active
  /\ active' = active \ {"io"}
  /\ loopPc' = "io"
  /\ UNCHANGED <<looping_, quit_, callingFuncs_, wakeupFd_, funcs_,
                 funcsOnQuit_, func, cpc, dtor, runs, histVars>>

(* All channels are handled: doRunInLoopFuncs() begins. *)
EventsDone ==
  /\ loopPc = "events" /\ active = {}
  /\ callingFuncs_' = TRUE
  /\ loopPc' = "funcs"
  /\ UNCHANGED <<looping_, quit_, wakeupFd_, funcs_, funcsOnQuit_, active, func,
                 cpc, dtor, runs, histVars>>

(* while (!funcs_.empty()) of doRunInLoopFuncs(). *)
FuncsTest ==
  /\ loopPc = "funcs"
  /\ loopPc' = IF Q!FirstVisible THEN "drain" ELSE "test"
  /\ callingFuncs_' = Q!FirstVisible
  /\ UNCHANGED <<looping_, quit_, wakeupFd_, funcs_, funcsOnQuit_, active, func,
                 cpc, dtor, runs, histVars>>

(* while (funcs_.dequeue(func)) func(); *)
DrainTake ==
  /\ loopPc = "drain"
  /\ Q!Take
  /\ ran' = Append(ran, func')
  /\ loopPc' = "run"
  /\ UNCHANGED <<looping_, quit_, callingFuncs_, wakeupFd_, funcsOnQuit_,
                 active, cpc, dtor, runs, submitted, ranOnQuit, threw>>

DrainEnd ==
  /\ loopPc = "drain"
  /\ Q!TakeNothing
  /\ loopPc' = "funcs"
  /\ UNCHANGED <<looping_, quit_, callingFuncs_, wakeupFd_, funcsOnQuit_,
                 active, cpc, dtor, runs, histVars>>

(* A handler or a function returns. *)
Return ==
  /\ loopPc \in {"io", "run", "runq"}
  /\ loopPc' = CASE loopPc = "io" -> "events"
                 [] loopPc = "run" -> "drain"
                 [] loopPc = "runq" -> "onquit"
  /\ UNCHANGED <<looping_, quit_, callingFuncs_, wakeupFd_, funcs_,
                 funcsOnQuit_, active, func, cpc, dtor, runs, histVars>>

(* Mutant of Throw: the function that threw is queued again.               *)
ThrowRequeue ==
  /\ Throwing
  /\ loopPc \in {"io", "run"}
  /\ looping_' = FALSE /\ callingFuncs_' = FALSE /\ threw' = TRUE
  /\ loopPc' = "onquit"
  /\ funcs_' = IF loopPc = "run"
               THEN Append(funcs_, [item |-> func, publisher |-> NoOne])
               ELSE funcs_
  /\ UNCHANGED <<quit_, wakeupFd_, funcsOnQuit_, active, func, cpc, dtor, runs,
                 submitted, ran, ranOnQuit>>

(* A handler or a function throws: the cleaners clear both flags, the      *)
(* exception is kept and the functions on quit still run.  What is thrown  *)
(* is a std::exception, the only type that loop() catches.                 *)
Throw ==
  /\ Throwing
  /\ loopPc \in {"io", "run"}
  /\ looping_' = FALSE
  /\ callingFuncs_' = FALSE
  /\ threw' = TRUE
  /\ loopPc' = "onquit"
  /\ UNCHANGED <<quit_, wakeupFd_, funcs_, funcsOnQuit_, active, func, cpc,
                 dtor, runs, submitted, ran, ranOnQuit>>

(* A function on quit throws: nothing catches it, it leaves loop(). *)
ThrowOnQuit ==
  /\ Throwing
  /\ loopPc = "runq"
  /\ threw' = TRUE
  /\ loopPc' = "out"
  /\ active' = {}
  /\ UNCHANGED <<looping_, quit_, callingFuncs_, wakeupFd_, funcs_,
                 funcsOnQuit_, func, cpc, dtor, runs, submitted, ran,
                 ranOnQuit>>

(* while (funcsOnQuit_.dequeue(f)) f(); *)
OnQuitTake ==
  /\ loopPc = "onquit"
  /\ QQ!Take
  /\ ranOnQuit' = ranOnQuit \cup {func'}
  /\ loopPc' = "runq"
  /\ UNCHANGED <<looping_, quit_, callingFuncs_, wakeupFd_, funcs_, active, cpc,
                 dtor, runs, submitted, ran, threw>>

(* loop() returns, or rethrows what it caught. *)
OnQuitEnd ==
  /\ loopPc = "onquit"
  /\ QQ!TakeNothing
  /\ loopPc' = "out"
  /\ active' = {}
  /\ UNCHANGED <<looping_, quit_, callingFuncs_, wakeupFd_, funcs_, cpc, dtor,
                 runs, histVars>>

-----------------------------------------------------------------------------
(* ~EventLoop().  Its caller has no other call in progress.                *)

(* In another thread, while loop() runs: quit(), that is a store ... *)
DtorQuit ==
  /\ DtorElsewhere
  /\ dtor = "no" /\ loopPc # "out"
  /\ \A t \in Clients : cpc[t] = "idle"
  /\ quit_' = TRUE
  /\ dtor' = "wakeup"
  /\ UNCHANGED <<loopVars, wakeupFd_, funcs_, funcsOnQuit_, cpc, histVars>>

(* ... and a wakeup(), *)
DtorWakeup ==
  /\ dtor = "wakeup"
  /\ wakeupFd_' = TRUE
  /\ dtor' = "spin"
  /\ UNCHANGED <<loopVars, quit_, funcs_, funcsOnQuit_, cpc, histVars>>

(* then the spin on looping_; the loop is gone afterwards. *)
DtorSpin ==
  /\ dtor = "spin"
  /\ ~looping_
  /\ dtor' = "done"
  /\ UNCHANGED <<loopVars, quit_, wakeupFd_, funcs_, funcsOnQuit_, cpc, histVars>>

(* In the loop thread, outside loop(): nothing to wait for. *)
DtorHere ==
  /\ dtor = "no" /\ loopPc = "out"
  /\ \A t \in Clients : cpc[t] = "idle"
  /\ quit_' = TRUE
  /\ dtor' = "done"
  /\ UNCHANGED <<loopVars, wakeupFd_, funcs_, funcsOnQuit_, cpc, histVars>>

-----------------------------------------------------------------------------
Call(t) ==
  \/ \E f \in Tasks : QueueInLoop(t, f) \/ RunOnQuit(t, f)
  \/ Quit(t)

Finish(t) == PublishFunc(t) \/ PublishOnQuit(t) \/ Wakeup(t)

User ==
  \/ \E f \in Tasks : LoopQueueInLoop(f) \/ LoopRunOnQuit(f)
  \/ LoopQuit

(* The steps of the loop thread that need nothing from outside. *)
Loop ==
  \/ LoopEnter \/ LoopTest \/ PollWakeup
  \/ HandleWakeup \/ HandleIo \/ EventsDone
  \/ FuncsTest \/ DrainTake \/ DrainEnd
  \/ OnQuitTake \/ OnQuitEnd
  \/ Return

Dtor == DtorQuit \/ DtorWakeup \/ DtorSpin \/ DtorHere

Next ==
  \/ \E t \in Clients : Call(t) \/ Finish(t)
  \/ User \/ Loop \/ LoopCall \/ PollOther \/ Throw \/ ThrowOnQuit \/ Dtor

Spec == Init /\ [][Next]_vars

(* enqueue(), wakeup() and quit() do not block; functions and handlers     *)
(* return; epoll_wait reports a readable wakeupFd_.  Nothing is assumed of *)
(* the poll time-out: a queued function must not have to wait for it.      *)
Fairness ==
  /\ WF_vars(Loop)
  /\ \A t \in Clients : WF_vars(Finish(t))
  /\ WF_vars(DtorWakeup) /\ WF_vars(DtorSpin)

FairSpec == Spec /\ Fairness

-----------------------------------------------------------------------------
(* Properties.                                                             *)

(* No lost wake-up: whenever the loop thread may go to sleep in poll() (or *)
(* is outside loop()) while a published function is first in funcs_,       *)
(* wakeupFd_ is readable or a thread is about to write it.  This is what   *)
(* the order "enqueue, then wakeup" in queueInLoop(), the test of looping_ *)
(* there, and the order "channels, then functions" in loop() are for.      *)
(* After an exception it does not hold: the wake-up was consumed and the   *)
(* functions were left.                                                    *)
MaySleep == loopPc \in {"out", "enter", "test", "poll", "onquit", "runq"}

WakeupPending == wakeupFd_ \/ \E t \in Clients : cpc[t] = "wakeup"

NoLostWakeup == MaySleep /\ Q!FirstVisible /\ ~threw => WakeupPending

(* Functions queued by one thread run in the order of its queueInLoop()    *)
(* calls, none is skipped and none runs twice, across exceptions and       *)
(* further calls of loop().  TcpConnectionImpl::send() rests on it.        *)
OrderKept ==
  /\ \A a, b \in DOMAIN ran : ran[a] = ran[b] => a = b
  /\ \A t \in Clients \cup {LoopThread} :
       \A i, j \in DOMAIN submitted[t] : i < j =>
         \A b \in DOMAIN ran : ran[b] = submitted[t][j] =>
           \E a \in 1..b - 1 : ran[a] = submitted[t][i]

(* However the loop body ends, by quit() or by an exception, its flags are *)
(* cleared before the functions on quit run, so that a queueInLoop() there *)
(* wakes the next loop(); isRunning() and isCallingFunctions() are honest. *)
FlagsClean ==
  /\ looping_ <=> loopPc \notin {"out", "onquit", "runq"}
  /\ callingFuncs_ <=> loopPc \in {"funcs", "drain", "run"}

Queued(f) == \E i \in DOMAIN funcs_ : funcs_[i].item = f

(* A function handed to a loop that is running is run, unless the loop     *)
(* stops: it does not stay in funcs_ while the loop sleeps.  (What is left *)
(* after an exception may have to wait for the time-out of the next poll.) *)
FuncsRun ==
  \A f \in Tasks :
    (Queued(f) /\ looping_ /\ ~threw) ~> (~Queued(f) \/ ~looping_)

(* quit(), once loop() has reset the flag, ends the loop, even when the    *)
(* loop thread is on its way into poll().                                  *)
QuitStops == (looping_ /\ quit_ /\ loopPc # "enter") ~> ~looping_

(* A function whose runOnQuit() has returned, with no other registration   *)
(* in progress before it, is run when a running loop quits, unless another *)
(* one throws.                                                             *)
RegisteredFirst(f) ==
  \E i \in DOMAIN funcsOnQuit_ :
     /\ funcsOnQuit_[i].item = f
     /\ \A j \in 1..i : funcsOnQuit_[j].publisher = NoOne

OnQuitRun ==
  \A f \in Tasks :
    (RegisteredFirst(f) /\ looping_ /\ quit_ /\ loopPc # "enter")
      ~> (f \in ranOnQuit \/ threw)
=============================================================================
