------------------------------ MODULE TcpServer ------------------------------
(***************************************************************************)
(* A TcpServer and its Acceptor: net/TcpServer.{h,cpp} and                 *)
(* net/inner/Acceptor.cpp.  The acceptor takes connections in the loop of  *)
(* the server (Base), which spreads them over the I/O loops.  Every loop   *)
(* is a thread that runs the functions queued to it in their order.        *)
(*                                                                         *)
(* stop() is called in the loop of the server, which then waits for the    *)
(* other loops, or in another thread.  The I/O loops are the user's        *)
(* (setIoLoops) or the server's own pool (setIoLoopNum), which stop() ends.*)
(*                                                                         *)
(* A connection is reduced to its status, its place in connSet_ and its    *)
(* descriptor; the module TcpConnection has the rest.  Descriptors run     *)
(* out, another thread of the process takes and returns one of them.       *)
(***************************************************************************)
EXTENDS Naturals, Sequences, FiniteSets, SequencesExt

CONSTANTS Base,     \* the loop of the server
          IoLoops,  \* the loops of the I/O, when they are others
          MaxConns, \* bound on the attempts to connect
          MaxFds    \* descriptors, apart from idleFd_

Loops == {Base} \cup IoLoops
Conns == 1 .. MaxConns

ASSUME ServerAssumption ==
  Base \notin IoLoops /\ IsFiniteSet(IoLoops) /\ MaxConns \in Nat /\ MaxFds \in Nat \ {0}

VARIABLES
  ioLoops_,     \* TcpServer::ioLoops_
  own,          \* is the pool of the loops the server's own?
  idle,         \* is idleTimeout_ > 0?
  started_,     \* TcpServer::started_
  acceptor,     \* "new", "listening" or "gone"
  nextLoopIdx_, \* TcpServer::nextLoopIdx_, from 1
  connSet_,     \* TcpServer::connSet_
  wheels,       \* the loops that timingWheelMap_ has a wheel for
  status,       \* each connection: "none", "Connecting", "Connected",
                \* "Disconnected" or "gone" (connectDestroyed has run)
  loopOf,       \* the loop of each connection
  funcs,        \* the functions queued to each loop
  live,         \* the loops that still turn
  stopAt,       \* where stop() is: "no", "queued", "hung", "join", "wheels", "done"
  (* descriptors and the listening socket *)
  arrived,      \* how many peers have asked for a connection
  backlog,      \* how many of them wait
  accepted,     \* how many became connections
  idleFd_,      \* is Acceptor::idleFd_ open?
  other,        \* does the other thread hold a descriptor?
  raced,        \* did it take the one that idleFd_ had left?
  aborted       \* what went wrong, or "no": then nothing moves

cfg == <<ioLoops_, own, idle>>
srv == <<started_, acceptor, nextLoopIdx_, connSet_, wheels, stopAt>>
cns == <<status, loopOf, accepted>>
fds == <<arrived, backlog, idleFd_, other, raced>>
vars == <<cfg, srv, cns, fds, funcs, live, aborted>>

Fn(op, c) == [op |-> op, conn |-> c]

\* The constructor, then setIoLoops or setIoLoopNum and kickoffIdleConnections
\* with their calls or without.
Init ==
  /\ \/ ioLoops_ = <<Base>> /\ own = FALSE
     \/ IoLoops # {} /\ ioLoops_ \in SetToSeqs(IoLoops) /\ own \in BOOLEAN
  /\ idle \in BOOLEAN
  /\ started_ = FALSE /\ acceptor = "new" /\ nextLoopIdx_ = 1
  /\ connSet_ = {} /\ wheels = {} /\ stopAt = "no"
  /\ status = [c \in Conns |-> "none"] /\ loopOf = [c \in Conns |-> Base] /\ accepted = 0
  /\ funcs = [l \in Loops |-> <<>>] /\ live = Loops
  /\ arrived = 0 /\ backlog = 0 /\ idleFd_ = TRUE /\ other = FALSE /\ raced = FALSE
  /\ aborted = "no"

\* The loop of the server does nothing else while stop() runs in it.
Busy == stopAt \in {"join", "wheels"}

Turns(l) == aborted = "no" /\ l \in live /\ (l = Base => ~Busy)

\* queueInLoop to a loop that has ended reaches no object.
Queue(l, f) ==
  IF l \in live THEN funcs' = [funcs EXCEPT ![l] = Append(@, f)] /\ UNCHANGED aborted
                ELSE aborted' = "dangling" /\ UNCHANGED funcs

-----------------------------------------------------------------------------
(* Starting and accepting *)

\* start(), run in the loop: a wheel for each I/O loop, then listen().
Start ==
  /\ Turns(Base) /\ ~started_
  /\ started_' = TRUE
  /\ wheels' = IF idle THEN ToSet(ioLoops_) ELSE {}
  /\ acceptor' = "listening"
  /\ UNCHANGED <<cfg, nextLoopIdx_, connSet_, stopAt, cns, fds, funcs, live, aborted>>

Arrive ==
  /\ aborted = "no" /\ acceptor = "listening" /\ arrived < MaxConns
  /\ arrived' = arrived + 1 /\ backlog' = backlog + 1
  /\ UNCHANGED <<cfg, srv, cns, idleFd_, other, raced, funcs, live, aborted>>

\* Descriptors in use, apart from idleFd_.
Used == Cardinality({c \in Conns : status[c] \notin {"none", "gone"}}) + (IF other THEN 1 ELSE 0)
Full == Used + (IF idleFd_ THEN 1 ELSE 0) = MaxFds + 1

\* newConnection for the next connection: established at once if its loop is
\* this one, else by a function that is queued to its loop.
newConnection ==
  LET c == accepted + 1
      l == ioLoops_[nextLoopIdx_] IN
  /\ accepted' = c
  /\ nextLoopIdx_' = IF nextLoopIdx_ >= Len(ioLoops_) THEN 1 ELSE nextLoopIdx_ + 1
  /\ loopOf' = [loopOf EXCEPT ![c] = l]
  /\ connSet_' = connSet_ \cup {c}
  /\ IF idle /\ l \notin wheels
     THEN aborted' = "wheel" /\ UNCHANGED <<status, funcs>>
     ELSE IF l = Base
     THEN status' = [status EXCEPT ![c] = "Connected"] /\ UNCHANGED <<funcs, aborted>>
     ELSE /\ status' = [status EXCEPT ![c] = "Connecting"]
          /\ Queue(l, Fn("established", c))

\* Acceptor::readCallback when accept() has a descriptor.
Accept ==
  /\ Turns(Base) /\ acceptor = "listening" /\ backlog > 0 /\ ~Full
  /\ backlog' = backlog - 1
  /\ newConnection
  /\ UNCHANGED <<cfg, started_, acceptor, wheels, stopAt, arrived, idleFd_, other, raced, live>>

\* Mutant of AcceptFull: idleFd_ is not opened again.
AcceptFullOnce ==
  /\ Turns(Base) /\ acceptor = "listening" /\ backlog > 0 /\ Full
  /\ idleFd_ /\ backlog' = backlog - 1 /\ idleFd_' = FALSE
  /\ UNCHANGED <<other, raced, cfg, srv, cns, arrived, funcs, live, aborted>>

\* readCallback on EMFILE: idleFd_ is closed, the connection accepted and closed,
\* and idleFd_ opened again.  In between the other thread may take the descriptor
\* that idleFd_ gives up, or leave it its own if there is no idleFd_ any more:
\* before the accept() or between it and the reopening.
AcceptFull ==
  /\ Turns(Base) /\ acceptor = "listening" /\ backlog > 0 /\ Full
  /\ \/ idleFd_ /\ backlog' = backlog - 1 /\ UNCHANGED <<idleFd_, other, raced>>
     \/ /\ idleFd_ # other /\ idleFd_' = other /\ other' = idleFd_
        /\ backlog' \in {backlog - 1, backlog}
        /\ raced' = (raced \/ idleFd_)
  /\ UNCHANGED <<cfg, srv, cns, arrived, funcs, live, aborted>>

\* readCallback when accept() fails for another reason, such as a peer that has
\* gone again: nothing is done.
AcceptFails ==
  /\ Turns(Base) /\ acceptor = "listening" /\ backlog > 0
  /\ backlog' = backlog - 1
  /\ UNCHANGED <<cfg, srv, cns, arrived, idleFd_, other, raced, funcs, live, aborted>>

\* The other thread of the process.
OtherFd ==
  /\ aborted = "no" /\ (other \/ ~Full)
  /\ other' = ~other
  /\ UNCHANGED <<cfg, srv, cns, arrived, backlog, idleFd_, raced, funcs, live, aborted>>

-----------------------------------------------------------------------------
(* Closing a connection *)

\* Mutant of handleCloseInLoop: the connection stays in connSet_.
handleCloseInLoopKeep(c, q) ==
  IF c \notin connSet_ THEN aborted' = "erase" /\ funcs' = q /\ UNCHANGED connSet_
  ELSE /\ UNCHANGED connSet_
       /\ IF loopOf[c] \in live
          THEN /\ funcs' = [q EXCEPT ![loopOf[c]] = Append(@, Fn("destroyed", c))]
               /\ UNCHANGED aborted
          ELSE aborted' = "dangling" /\ funcs' = q

\* handleCloseInLoop, with the queues q: connectDestroyed is always queued.
handleCloseInLoop(c, q) ==
  IF c \notin connSet_ THEN aborted' = "erase" /\ funcs' = q /\ UNCHANGED connSet_
  ELSE /\ connSet_' = connSet_ \ {c}
       /\ IF loopOf[c] \in live
          THEN /\ funcs' = [q EXCEPT ![loopOf[c]] = Append(@, Fn("destroyed", c))]
               /\ UNCHANGED aborted
          ELSE aborted' = "dangling" /\ funcs' = q

\* handleClose of the connection, then connectionClosed of the server.
HandleClose(c, q) ==
  /\ status' = [status EXCEPT ![c] = "Disconnected"]
  /\ IF loopOf[c] = Base THEN handleCloseInLoop(c, q)
     ELSE /\ funcs' = [q EXCEPT ![Base] = Append(@, Fn("closed", c))]
          /\ UNCHANGED <<connSet_, aborted>>

\* The peer closes a connection.
PeerCloses == \E c \in Conns :
  /\ Turns(loopOf[c]) /\ status[c] = "Connected"
  /\ HandleClose(c, funcs)
  /\ UNCHANGED <<cfg, started_, acceptor, nextLoopIdx_, wheels, stopAt, loopOf, accepted, fds, live>>

-----------------------------------------------------------------------------
(* Stopping *)

\* What stop() does in the loop of the server, with the queues q: the acceptor is
\* destroyed; forceClose is called for every connection, in the order of the set,
\* which may be any: here at once (the status is Connected), elsewhere by a
\* function that is queued.
CloseAll(q) ==
  LET of(l) == {c \in connSet_ : loopOf[c] = l} IN
  /\ acceptor' = "gone"
  /\ status' = [c \in Conns |-> IF c \in of(Base) THEN "Disconnected" ELSE status[c]]
  /\ connSet_' = connSet_ \ of(Base)
  /\ \E order \in [Loops -> UNION {SetToSeqs(of(l)) : l \in Loops}] :
       /\ \A l \in Loops : order[l] \in SetToSeqs(of(l))
       /\ funcs' = [l \in Loops |-> q[l] \o
                      [i \in DOMAIN order[l] |->
                         Fn(IF l = Base THEN "destroyed" ELSE "force", order[l][i])]]

\* stop() in the loop of the server.
StopHere ==
  /\ Turns(Base) /\ started_ /\ stopAt = "no"
  /\ CloseAll(funcs)
  /\ stopAt' = "join"
  /\ UNCHANGED <<cfg, started_, nextLoopIdx_, wheels, loopOf, accepted, fds, live, aborted>>

\* stop() in another thread, which waits for the promise.
StopAway ==
  /\ aborted = "no" /\ started_ /\ stopAt = "no"
  /\ funcs' = [funcs EXCEPT ![Base] = Append(@, Fn("stop", 0))]
  /\ stopAt' = "queued"
  /\ UNCHANGED <<cfg, started_, acceptor, nextLoopIdx_, connSet_, wheels, cns, fds, live, aborted>>

\* loopPoolPtr_.reset(): the threads of the pool, if it is the server's own, are
\* joined one after the other; each may have functions left.
StopJoin ==
  /\ aborted = "no" /\ stopAt = "join"
  /\ \/ /\ own /\ live # {Base}
        /\ live' = live \ {CHOOSE l \in live : l # Base}
        /\ UNCHANGED stopAt
     \/ (~own \/ live = {Base}) /\ stopAt' = "wheels" /\ UNCHANGED live
  /\ UNCHANGED <<cfg, started_, acceptor, nextLoopIdx_, connSet_, wheels, cns, fds, funcs, aborted>>

WheelFn == Fn("wheel", 0)

\* Mutant of StopWheel: the function is queued also when the loop is this one.
StopWheelQueued ==
  /\ aborted = "no" /\ stopAt = "wheels"
  /\ \A l \in Loops : WheelFn \notin ToSet(funcs[l])
  /\ IF wheels = {} THEN stopAt' = "done" /\ UNCHANGED <<funcs, aborted>>
                    ELSE Queue(CHOOSE k \in wheels : TRUE, WheelFn) /\ UNCHANGED stopAt
  /\ UNCHANGED <<cfg, started_, acceptor, nextLoopIdx_, connSet_, wheels, cns, fds, live>>

\* The next wheel is reset in its loop, at once if that is this one; stop() waits
\* for it before it goes to the next.
StopWheel ==
  /\ aborted = "no" /\ stopAt = "wheels"
  /\ \A l \in Loops : WheelFn \notin ToSet(funcs[l])
  /\ IF wheels = {} THEN stopAt' = "done" /\ UNCHANGED <<wheels, funcs, aborted>>
     ELSE LET l == CHOOSE k \in wheels : TRUE IN
          IF l = Base THEN wheels' = wheels \ {l} /\ UNCHANGED <<stopAt, funcs, aborted>>
                      ELSE Queue(l, WheelFn) /\ UNCHANGED <<stopAt, wheels>>
  /\ UNCHANGED <<cfg, started_, acceptor, nextLoopIdx_, connSet_, cns, fds, live>>

-----------------------------------------------------------------------------
(* The queued functions *)

Take(l, op) == Turns(l) /\ funcs[l] # <<>> /\ Head(funcs[l]).op = op
Arg(l) == Head(funcs[l]).conn
Rest(l) == [funcs EXCEPT ![l] = Tail(@)]

\* connectEstablished, with its assertion.
RunEstablished(l) ==
  /\ Take(l, "established")
  /\ IF status[Arg(l)] = "Connecting"
     THEN status' = [status EXCEPT ![Arg(l)] = "Connected"] /\ UNCHANGED aborted
     ELSE aborted' = "established" /\ UNCHANGED status
  /\ funcs' = Rest(l)
  /\ UNCHANGED <<cfg, srv, loopOf, accepted, fds, live>>

\* Mutant of RunForce: the status is not tested.
RunForceAnyway(l) ==
  /\ Take(l, "force")
  /\ HandleClose(Arg(l), Rest(l))
  /\ UNCHANGED <<cfg, started_, acceptor, nextLoopIdx_, wheels, stopAt, loopOf, accepted, fds, live>>

\* forceClose.
RunForce(l) ==
  /\ Take(l, "force")
  /\ IF status[Arg(l)] = "Connected" THEN HandleClose(Arg(l), Rest(l))
     ELSE funcs' = Rest(l) /\ UNCHANGED <<status, connSet_, aborted>>
  /\ UNCHANGED <<cfg, started_, acceptor, nextLoopIdx_, wheels, stopAt, loopOf, accepted, fds, live>>

\* handleCloseInLoop, queued by connectionClosed.
RunClosed ==
  /\ Take(Base, "closed")
  /\ handleCloseInLoop(Arg(Base), Rest(Base))
  /\ UNCHANGED <<cfg, started_, acceptor, nextLoopIdx_, wheels, stopAt, cns, fds, live>>

\* connectDestroyed; the last reference to the connection goes.
RunDestroyed(l) ==
  /\ Take(l, "destroyed")
  /\ status' = [status EXCEPT ![Arg(l)] = "gone"]
  /\ funcs' = Rest(l)
  /\ UNCHANGED <<cfg, srv, loopOf, accepted, fds, live, aborted>>

\* The function of stop() in another thread; it does not fulfil the promise.
RunStop ==
  /\ Take(Base, "stop")
  /\ CloseAll(Rest(Base))
  /\ stopAt' = "hung"
  /\ UNCHANGED <<cfg, started_, nextLoopIdx_, wheels, loopOf, accepted, fds, live, aborted>>

RunWheel(l) ==
  /\ Take(l, "wheel")
  /\ wheels' = wheels \ {l}
  /\ funcs' = Rest(l)
  /\ UNCHANGED <<cfg, started_, acceptor, nextLoopIdx_, connSet_, stopAt, cns, fds, live, aborted>>

-----------------------------------------------------------------------------
RunIn(l) == RunEstablished(l) \/ RunForce(l) \/ RunDestroyed(l) \/ RunWheel(l)
Run == (\E l \in Loops : RunIn(l)) \/ RunClosed \/ RunStop
Stopping == StopJoin \/ StopWheel

Next ==
  \/ Start \/ Arrive \/ Accept \/ AcceptFull \/ AcceptFails \/ OtherFd \/ PeerCloses
  \/ StopHere \/ StopAway \/ Stopping \/ Run

Spec == Init /\ [][Next]_vars

\* Every loop runs what is queued to it, the acceptor's channel is reported as
\* long as a peer waits, and stop() goes on.
FairSpec ==
  /\ Spec
  /\ \A l \in Loops : WF_vars(RunIn(l))
  /\ WF_vars(RunClosed) /\ WF_vars(RunStop)
  /\ WF_vars(Accept \/ AcceptFull) /\ WF_vars(Stopping)

-----------------------------------------------------------------------------
(* Properties *)

\* stop() in the loop of the server has ended the server's own pool (172) and then
\* uses one of its loops: for the reset of a wheel (177), even when there is no
\* connection, or, after stop(), to destroy a connection whose close comes to the
\* loop of the server only then (196).
PoolUsed ==
  /\ aborted = "dangling" /\ own /\ live = {Base}
  /\ \/ stopAt = "wheels" /\ wheels # {}
     \/ stopAt = "done" /\ \E c \in Conns : status[c] = "Disconnected" /\ loopOf[c] # Base

\* No assertion of newConnection, connectEstablished or handleCloseInLoop fails,
\* whichever way a connection is closed, by its peer and by stop() at once, and
\* on whichever loop, also while stop() runs; and no function is given to a loop
\* that has ended, with the two uses of the server's own pool as the only
\* exception (PoolUsed), which does happen.
NoAssertFails == aborted = "no" \/ PoolUsed

\* Once stop() has run in the loop of the server every connection that there was
\* is closed and destroyed in the end, also one that is not yet established, and
\* none comes after it, whether or not the caller of stop() ever returns.  The
\* exception: stop() has begun to end the loops of the server's own pool (172),
\* which leave behind what is queued to them.
StopCloses ==
  (stopAt \notin {"no", "queued"}) ~>
    (live # Loops \/ [](connSet_ = {} /\ \A c \in Conns : status[c] \in {"none", "gone"}))

\* stop() in the loop of the server returns: it joins the threads of its own pool,
\* waits for each I/O loop in turn to reset its wheel, and no I/O loop waits for it.
\* The exception: with its own pool and an idle time-out it hands the reset of the
\* first wheel to a loop that it has destroyed (172, 177) and waits for it (181).
StopReturns == (stopAt = "join" /\ ~(own /\ idle)) ~> (stopAt = "done")

\* A peer that waits is accepted or turned away even while no descriptor is free,
\* every time, unless another thread took the one that idleFd_ had kept.
BacklogServed ==
  (acceptor = "listening" /\ backlog > 0) ~> (backlog = 0 \/ acceptor = "gone" \/ raced)
=============================================================================
