----------------------------- MODULE TimerQueue -----------------------------
(***************************************************************************)
(* net/inner/TimerQueue.cpp and Timer.cpp, with the timer operations of    *)
(* EventLoop: runAt, runAfter, runEvery and invalidateTimer.               *)
(*                                                                         *)
(* timers_ is a priority queue of the pending timers, timerIdSet_ the set  *)
(* of the ids that have not been invalidated, and timerfd_ one kernel      *)
(* timer that must always be armed for the first of timers_.  All of it    *)
(* belongs to the loop thread: other threads send closures through         *)
(* funcs_ (EventLoop.tla), in the order of their calls.                    *)
(*                                                                         *)
(* Time is counted in ticks of the 100 microseconds that                   *)
(* howMuchTimeFromNow() never goes below.                                  *)
(***************************************************************************)
EXTENDS Naturals, Sequences

CONSTANTS Timers,     \* the ids Timer's constructor hands out
          Delays,     \* delays passed to runAt / runAfter
          Intervals,  \* intervals of the timers; 0 for one that fires once
          Clients,    \* are there threads other than the loop thread?
          MaxTime     \* bound: the clock stops here; nobody calls any more

ASSUME DelaysAssumption == Delays \subseteq Nat
ASSUME IntervalsAssumption == Intervals \subseteq Nat
ASSUME ClientsAssumption == Clients \in BOOLEAN
ASSUME TimeAssumption == MaxTime \in Nat

VARIABLES
  clock,        \* steady_clock::now()
  created,      \* Timer::timersCreated_: the ids in use
  when, interval, \* Timer::when_ and Timer::interval_
  timers_,      \* the priority queue, by ids
  timerIdSet_,
  timerfd_,     \* when the kernel timer expires; Disarmed
  funcs_,       \* closures on their way to the loop thread
  running,      \* EventLoop::isRunning()
  lpc,          \* the loop thread: "idle", "handling", "callback"
  expired,      \* handleRead()'s local expired
  todo,         \* the part of it the for loop has not visited
  now,          \* handleRead()'s local now
  fired,        \* history: timers whose callback ran
  cancelled,    \* history: timers whose id invalidateTimer() erased
  threw         \* history: has a callback thrown?

timerVars == <<clock, created, when, interval, timers_, timerIdSet_, timerfd_,
          funcs_, running, lpc, expired, todo, now, fired, cancelled,
          threw>>

(* As in the kernel, 0 is "not armed": Armed() is never 0. *)
Disarmed == 0

Closure == [op : {"add", "erase"}, id : Timers]

(* Types, and that the timers of every collection were created and that    *)
(* handleRead() visits only what getExpired() gave it.                     *)
TypeOK ==
  /\ clock \in Nat /\ now \in Nat
  /\ created \subseteq Timers
  /\ when \in [Timers -> Nat] /\ interval \in [Timers -> Nat]
  /\ timers_ \subseteq created /\ timerIdSet_ \subseteq created
  /\ timerfd_ \in Nat
  /\ funcs_ \in Seq(Closure)
  /\ running \in BOOLEAN
  /\ lpc \in {"idle", "handling", "callback"}
  /\ todo \subseteq expired /\ expired \subseteq created
  /\ fired \subseteq created /\ cancelled \subseteq created /\ threw \in BOOLEAN

TimerInit ==
  /\ clock = 0 /\ now = 0
  /\ created = {}
  /\ when = [t \in Timers |-> 0] /\ interval = [t \in Timers |-> 0]
  /\ timers_ = {} /\ timerIdSet_ = {}
  /\ timerfd_ = Disarmed
  /\ funcs_ = <<>>
  /\ running = FALSE
  /\ lpc = "idle"
  /\ expired = {} /\ todo = {}
  /\ fired = {} /\ cancelled = {} /\ threw = FALSE

-----------------------------------------------------------------------------
(* howMuchTimeFromNow() and resetTimerfd(): expire at w, at the earliest   *)
(* one tick from now.                                                      *)
Armed(w) == IF w > clock THEN w ELSE clock + 1

(* timers_.top(): a timer of S that is due first, w being their when_.     *)
Top(w, S) == CHOOSE t \in S : \A u \in S : w[t] <= w[u]

(* Mutant of AddTimerInLoop: timerfd_ is armed for the first timer only. *)
AddTimerInLoopFirst(t, w) ==
  /\ timerIdSet_' = timerIdSet_ \cup {t}
  /\ timers_' = timers_ \cup {t}
  /\ timerfd_' = IF timers_ = {} THEN Armed(w) ELSE timerfd_

(* addTimerInLoop(): insert() says whether t became the earliest. *)
AddTimerInLoop(t, w) ==
  /\ timerIdSet_' = timerIdSet_ \cup {t}
  /\ timers_' = timers_ \cup {t}
  /\ timerfd_' = IF \A u \in timers_ : w < when[u]
                 THEN Armed(w) ELSE timerfd_

(* Timer's constructor: a new id, when_ and interval_. *)
NewTimer(t, w, i) ==
  /\ t \notin created
  /\ created' = created \cup {t}
  /\ when' = [when EXCEPT ![t] = w]
  /\ interval' = [interval EXCEPT ![t] = i]

(* User code runs in the loop thread: before loop(), in a handler or in a  *)
(* function (both at "idle"), or in a timer's callback.                    *)
UserCode == lpc \in {"idle", "callback"}

(* runAt(), runAfter(), runEvery() in the loop thread. *)
AddHere(t, d, i) ==
  /\ UserCode
  /\ NewTimer(t, clock + d, i)
  /\ AddTimerInLoop(t, clock + d)
  /\ UNCHANGED <<clock, funcs_, running, lpc, expired, todo, now, fired,
                 cancelled, threw>>

(* The same in another thread: the Timer is made, the rest is queued. *)
AddElsewhere(t, d, i) ==
  /\ Clients
  /\ NewTimer(t, clock + d, i)
  /\ funcs_' = Append(funcs_, [op |-> "add", id |-> t])
  /\ UNCHANGED <<clock, timers_, timerIdSet_, timerfd_, running, lpc, expired,
                 todo, now, fired, cancelled, threw>>

(* timerIdSet_.erase(id): the entry in timers_ stays until it expires.     *)
Erase(t) ==
  /\ timerIdSet_' = timerIdSet_ \ {t}
  /\ cancelled' = cancelled \cup (timerIdSet_ \cap {t})

(* EventLoop::invalidateTimer() in the loop thread. *)
InvalidateHere(t) ==
  /\ UserCode /\ t \in created
  /\ IF running THEN Erase(t) ELSE UNCHANGED <<timerIdSet_, cancelled>>
  /\ UNCHANGED <<clock, created, when, interval, timers_, timerfd_, funcs_,
                 running, lpc, expired, todo, now, fired, threw>>

(* The same in another thread. *)
InvalidateElsewhere(t) ==
  /\ Clients /\ running /\ t \in created
  /\ \A i \in DOMAIN funcs_ : funcs_[i] # [op |-> "erase", id |-> t]
  /\ funcs_' = Append(funcs_, [op |-> "erase", id |-> t])
  /\ UNCHANGED <<clock, created, when, interval, timers_, timerIdSet_,
                 timerfd_, running, lpc, expired, todo, now, fired, cancelled, threw>>

(* The loop runs the first queued closure. *)
RunFunc ==
  /\ running /\ lpc = "idle"
  /\ funcs_ # <<>>
  /\ funcs_' = Tail(funcs_)
  /\ LET t == Head(funcs_).id IN
       \/ /\ Head(funcs_).op = "add"
          /\ AddTimerInLoop(t, when[t])
          /\ UNCHANGED cancelled
       \/ /\ Head(funcs_).op = "erase"
          /\ Erase(t)
          /\ UNCHANGED <<timers_, timerfd_>>
  /\ UNCHANGED <<clock, created, when, interval, running, lpc, expired, todo,
                 now, fired, threw>>

(* loop() is called. *)
StartLoop ==
  /\ ~running /\ lpc = "idle"
  /\ running' = TRUE
  /\ UNCHANGED <<clock, created, when, interval, timers_, timerIdSet_,
                 timerfd_, funcs_, lpc, expired, todo, now, fired, cancelled, threw>>

(* EventLoop::resetTimerQueue() in the child after a fork: reset() makes a *)
(* new timerfd_ and arms it.                                               *)
ResetAfterFork ==
  /\ ~running /\ lpc = "idle"
  /\ timerfd_' = IF timers_ = {} THEN Disarmed ELSE Armed(when[Top(when, timers_)])
  /\ UNCHANGED <<clock, created, when, interval, timers_, timerIdSet_, funcs_,
                 running, lpc, expired, todo, now, fired, cancelled, threw>>

(* Mutant of HandleRead: the loop visits all timers, not the expired ones. *)
HandleReadAll ==
  /\ running /\ lpc = "idle"
  /\ timerfd_ # Disarmed /\ timerfd_ <= clock
  /\ timerfd_' = Disarmed
  /\ now' = clock
  /\ expired' = {t \in timers_ : when[t] < clock}
  /\ todo' = timers_
  /\ timers_' = timers_ \ expired'
  /\ lpc' = "handling"
  /\ UNCHANGED <<clock, created, when, interval, timerIdSet_, funcs_, running,
                 fired, cancelled, threw>>

(* timerfd_ is readable: handleRead() takes the time, reads timerfd_ and   *)
(* getExpired() pops what is strictly before now.                          *)
HandleRead ==
  /\ running /\ lpc = "idle"
  /\ timerfd_ # Disarmed /\ timerfd_ <= clock
  /\ timerfd_' = Disarmed
  /\ now' = clock
  /\ expired' = {t \in timers_ : when[t] < clock}
  /\ todo' = expired'
  /\ timers_' = timers_ \ expired'
  /\ lpc' = "handling"
  /\ UNCHANGED <<clock, created, when, interval, timerIdSet_, funcs_, running,
                 fired, cancelled, threw>>

(* Mutant of RunCallback: timerIdSet_ is not looked at. *)
RunCallbackAnyway(t) ==
  /\ lpc = "handling"
  /\ t \in todo /\ \A u \in todo : when[t] <= when[u]
  /\ todo' = todo \ {t}
  /\ fired' = fired \cup {t}
  /\ lpc' = "callback"
  /\ UNCHANGED <<clock, created, when, interval, timers_, timerIdSet_,
                 timerfd_, funcs_, running, expired, now, cancelled, threw>>

(* The next of expired, earliest first: its callback is called only if its *)
(* id is still in timerIdSet_.                                             *)
RunCallback(t) ==
  /\ lpc = "handling"
  /\ t \in todo /\ \A u \in todo : when[t] <= when[u]
  /\ t \in timerIdSet_
  /\ todo' = todo \ {t}
  /\ fired' = fired \cup {t}
  /\ lpc' = "callback"
  /\ UNCHANGED <<clock, created, when, interval, timers_, timerIdSet_,
                 timerfd_, funcs_, running, expired, now, cancelled, threw>>

(* Mutant of SkipCallback: a timer is skipped though its id is valid. *)
SkipCallbackAnyway(t) ==
  /\ lpc = "handling"
  /\ t \in todo /\ \A u \in todo : when[t] <= when[u]
  /\ todo' = todo \ {t}
  /\ UNCHANGED <<clock, created, when, interval, timers_, timerIdSet_,
                 timerfd_, funcs_, running, lpc, expired, now, fired,
                 cancelled, threw>>

SkipCallback(t) ==
  /\ lpc = "handling"
  /\ t \in todo /\ \A u \in todo : when[t] <= when[u]
  /\ t \notin timerIdSet_
  /\ todo' = todo \ {t}
  /\ UNCHANGED <<clock, created, when, interval, timers_, timerIdSet_,
                 timerfd_, funcs_, running, lpc, expired, now, fired,
                 cancelled, threw>>

CallbackReturn ==
  /\ lpc = "callback"
  /\ lpc' = "handling"
  /\ UNCHANGED <<clock, created, when, interval, timers_, timerIdSet_,
                 timerfd_, funcs_, running, expired, todo, now, fired,
                 cancelled, threw>>

(* A callback throws: handleRead() is left, reset() is not reached, and    *)
(* loop() ends.                                                            *)
CallbackThrow ==
  /\ lpc = "callback"
  /\ lpc' = "idle"
  /\ running' = FALSE
  /\ expired' = {} /\ todo' = {} /\ threw' = TRUE
  /\ UNCHANGED <<clock, created, when, interval, timers_, timerIdSet_,
                 timerfd_, funcs_, now, fired, cancelled>>

(* reset(expired, now): repeating timers go back into timers_, one-shot    *)
(* timers lose their id; then timerfd_ is armed for the first of timers_.  *)
Again == {t \in expired \cap timerIdSet_ : interval[t] > 0}

(* Mutants of Reset: one-shot timers keep their id; repeating timers are   *)
(* not restarted.                                                          *)
ResetKeepIds ==
  /\ lpc = "handling" /\ todo = {}
  /\ when' = [t \in Timers |-> IF t \in Again THEN now + interval[t] ELSE when[t]]
  /\ timers_' = timers_ \cup Again
  /\ timerfd_' = IF timers_' = {} THEN timerfd_ ELSE Armed(when'[Top(when', timers_')])
  /\ expired' = {} /\ lpc' = "idle"
  /\ UNCHANGED <<clock, created, interval, timerIdSet_, funcs_, running, todo,
                 now, fired, cancelled, threw>>

ResetNoRestart ==
  /\ lpc = "handling" /\ todo = {}
  /\ timers_' = timers_ \cup Again
  /\ timerIdSet_' = timerIdSet_ \ (expired \ Again)
  /\ timerfd_' = IF timers_' = {} THEN timerfd_ ELSE Armed(when[Top(when, timers_')])
  /\ expired' = {} /\ lpc' = "idle"
  /\ UNCHANGED <<clock, created, when, interval, funcs_, running, todo, now,
                 fired, cancelled, threw>>

Reset ==
  /\ lpc = "handling" /\ todo = {}
  /\ when' = [t \in Timers |-> IF t \in Again THEN now + interval[t] ELSE when[t]]
  /\ timers_' = timers_ \cup Again
  /\ timerIdSet_' = timerIdSet_ \ (expired \ Again)
  /\ timerfd_' = IF timers_' = {} THEN timerfd_ ELSE Armed(when'[Top(when', timers_')])
  /\ expired' = {}
  /\ lpc' = "idle"
  /\ UNCHANGED <<clock, created, interval, funcs_, running, todo, now, fired,
                 cancelled, threw>>

(* The last tick waits until the loop thread has nothing in hand, so that  *)
(* what is due by then is really handled.                                  *)
Tick ==
  /\ clock < MaxTime
  /\ clock + 1 = MaxTime => lpc = "idle" /\ funcs_ = <<>>
  /\ clock' = clock + 1
  /\ UNCHANGED <<created, when, interval, timers_, timerIdSet_, timerfd_,
                 funcs_, running, lpc, expired, todo, now, fired, cancelled, threw>>

Loop ==
  \/ RunFunc \/ HandleRead \/ CallbackReturn \/ Reset
  \/ \E t \in Timers : RunCallback(t) \/ SkipCallback(t)

User ==
  /\ clock < MaxTime
  /\ \/ \E t \in Timers :
          \/ \E d \in Delays, i \in Intervals : \/ AddHere(t, d, i)
                                               \/ AddElsewhere(t, d, i)
          \/ InvalidateHere(t)
          \/ InvalidateElsewhere(t)
     \/ ResetAfterFork

TimerNext == Loop \/ User \/ StartLoop \/ CallbackThrow \/ Tick

TimerSpec == TimerInit /\ [][TimerNext]_timerVars

(* Every round of loop() handles the channels that are ready and then the  *)
(* queued closures, so neither starves the other; callbacks return; time   *)
(* passes whatever the threads do.                                         *)
FairTimerSpec == TimerSpec /\ WF_timerVars(Loop) /\ WF_timerVars(HandleRead) /\ SF_timerVars(Tick)

-----------------------------------------------------------------------------
(* Properties.                                                             *)

(* No timer is forgotten: between two handleRead() calls, timerfd_ is      *)
(* armed whenever a timer is pending, and expires no later than any of     *)
(* them is due (or one tick from now).  Timers added in a callback, timers *)
(* exactly at now, repetition and the re-arming only "if earlier" all have *)
(* to keep this.  A callback that throws loses the rest of its batch: from *)
(* then on nothing is claimed, here and in IdsMatch, Fires and Repeats.    *)
Covered(t) ==
  /\ timerfd_ # Disarmed
  /\ timerfd_ <= when[t] \/ timerfd_ <= clock + 1

NoForgottenTimer == lpc = "idle" /\ ~threw => \A t \in timers_ : Covered(t)

(* A timer whose id invalidateTimer() has erased never fires, even when it *)
(* was already among the expired timers that handleRead() is running, and  *)
(* is not put back by reset().                                             *)
CancelledNeverFires ==
  [][\A t \in cancelled : ~RunCallback(t) /\ t \notin timerIdSet_']_timerVars

(* timerIdSet_ does not leak: an id in it belongs to a timer that is       *)
(* pending or in the hands of handleRead(), and only a fired or            *)
(* invalidated timer leaves it.                                            *)
IdsMatch ==
  ~threw => /\ timerIdSet_ \subseteq timers_ \cup expired
            /\ timers_ \cup expired \subseteq timerIdSet_ \cup cancelled
            /\ timers_ \cap expired = {}

(* A timer that a running loop has accepted fires, or is invalidated.      *)
Fires ==
  \A t \in Timers :
    (running /\ t \in timers_ /\ t \in timerIdSet_ /\ when[t] < MaxTime)
      ~> (t \in fired \/ t \in cancelled \/ threw)

(* A repeating timer goes on: when it is overdue it comes to be due at a   *)
(* later time, after every expiry anew (handleRead, reset).                *)
Repeats ==
  \A t \in Timers :
    (running /\ t \in timers_ /\ t \in timerIdSet_ /\ interval[t] > 0 /\ when[t] < clock)
      ~> (when[t] >= clock \/ t \in cancelled \/ threw)
=============================================================================
