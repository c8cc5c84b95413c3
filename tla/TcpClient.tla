------------------------------ MODULE TcpClient ------------------------------
(***************************************************************************)
(* A TcpClient and its Connector: net/TcpClient.cpp and                    *)
(* net/inner/Connector.cpp.  The Connector opens a socket, watches its     *)
(* channel until the socket is connected or fails, perhaps tries again     *)
(* later, and hands the socket to the client, who makes a connection of it.*)
(*                                                                         *)
(* The loop's thread runs the handlers, timers and queued functions.  The  *)
(* user calls from that thread, or from another one (away), where the      *)
(* calls set the flags at once and queue the rest.                         *)
(*                                                                         *)
(* What is at stake is the life of the sockets: each must be closed once.  *)
(* The connection itself is reduced to what the client sees of it: up,     *)
(* closed (connectDestroyed is queued), gone with its socket closed.       *)
(***************************************************************************)
EXTENDS Naturals, Sequences, FiniteSets

CONSTANTS MaxSockets,  \* bound on the sockets opened
          MaxConnects, \* bound on the calls of connect()
          None         \* no socket

Sockets == 1 .. MaxSockets

ASSUME BoundsAssumption ==
  MaxSockets \in Nat /\ MaxConnects \in Nat /\ None \notin Sockets

VARIABLES
  (* the connector *)
  retry_,        \* Connector::retry_; a TcpClient passes false
  connect_,      \* Connector::connect_
  status_,       \* Connector::status_
  fd_,           \* Connector::fd_
  socketHanded_, \* Connector::socketHanded_
  channelPtr_,   \* the socket of Connector::channelPtr_, or None
  timers,        \* how many retries are scheduled
  connector,     \* is the Connector alive?
  (* the client *)
  client,        \* "alive", "dying" (no reference is left), "dead" (destroyed)
  connection_,   \* the socket of TcpClient::connection_, or None
  conn,          \* each connection: "none", "up", "shut", "closed" or "gone"
  (* the rest *)
  away,          \* does the user call from another thread?
  connects,      \* how many times connect() was called
  stopped,       \* has stop() been called since?
  early,         \* did connect() itself schedule a retry?
  funcs_,        \* the functions queued to the loop
  opened,        \* how many sockets were opened
  closings,      \* how many times each socket was closed
  aborted        \* the assertion that failed, or "no": then nothing moves

cntr == <<retry_, connect_, status_, fd_, socketHanded_, channelPtr_, timers>>
clnt == <<client, connection_, conn>>
calls == <<away, connects, stopped>>
vars == <<cntr, connector, clnt, calls, early, funcs_, opened, closings, aborted>>

Fn(op) == [op |-> op, sock |-> None]
FnOf(op, s) == [op |-> op, sock |-> s]

Init ==
  /\ retry_ \in BOOLEAN /\ connect_ = FALSE /\ status_ = "Disconnected"
  /\ fd_ = None /\ socketHanded_ = FALSE /\ channelPtr_ = None /\ timers = 0
  /\ connector = TRUE /\ client = "alive" /\ connection_ = None
  /\ conn = [s \in Sockets |-> "none"]
  /\ away \in BOOLEAN /\ connects = 0 /\ stopped = FALSE /\ early = FALSE
  /\ funcs_ = <<>> /\ opened = 0 /\ closings = [s \in Sockets |-> 0] /\ aborted = "no"

-----------------------------------------------------------------------------
(* The connector, in the loop's thread *)

CloseSocket(s) == closings' = [closings EXCEPT ![s] = @ + 1]

\* retry: the socket is closed, and startInLoop scheduled; stop() does not reset
\* connect_, so it is set.  n retries are scheduled already.
Retry(s, n) == CloseSocket(s) /\ status_' = "Disconnected" /\ timers' = n + 1

\* connecting: a channel watches the socket; there must be none yet.
connecting(s) ==
  /\ status_' = "Connecting"
  /\ IF channelPtr_ = None THEN channelPtr_' = s /\ UNCHANGED aborted
                           ELSE aborted' = "connecting" /\ UNCHANGED channelPtr_

\* connect, with n retries scheduled: the call goes on in the kernel, or it fails
\* in a way that a retry may help, or it fails for good.
connect(n) ==
  LET s == opened + 1 IN
  /\ opened < MaxSockets
  /\ opened' = s /\ fd_' = s
  /\ \/ /\ connecting(s)
        /\ socketHanded_' = FALSE /\ timers' = n
        /\ UNCHANGED <<closings, early>>
     \/ /\ IF retry_ THEN Retry(s, n) ELSE timers' = n /\ UNCHANGED <<closings, status_>>
        /\ socketHanded_' = FALSE /\ early' = retry_
        /\ UNCHANGED <<channelPtr_, aborted>>
     \/ /\ CloseSocket(s)
        /\ socketHanded_' = TRUE /\ timers' = n
        /\ UNCHANGED <<status_, channelPtr_, early, aborted>>

\* startInLoop, with its assertion.  connect_ is set whenever it runs.
startInLoop(n) ==
  IF status_ = "Disconnected" THEN connect(n)
  ELSE /\ aborted' = "start" /\ timers' = n
       /\ UNCHANGED <<status_, fd_, socketHanded_, channelPtr_, early, opened, closings>>

\* removeAndResetChannel: the channel, and with it the connector, is kept by a
\* function that is queued, q being the queue so far.
removeAndResetChannel(q) ==
  /\ channelPtr_' = None
  /\ funcs_' = IF channelPtr_ = None THEN q ELSE Append(q, Fn("keep"))

\* A socket that cannot be used is closed, and perhaps tried again.
GiveUp(s) ==
  IF retry_ THEN Retry(s, timers) ELSE CloseSocket(s) /\ UNCHANGED timers

\* What the channel reports while the connector is connecting.
Event ==
  /\ aborted = "no" /\ channelPtr_ # None
  /\ socketHanded_' = TRUE
  /\ UNCHANGED <<retry_, connect_, fd_, connector, client, calls, early, opened>>

\* handleWrite: the socket is in error, or connected to itself.
HandleWriteFail ==
  /\ Event /\ status_ = "Connecting"
  /\ removeAndResetChannel(funcs_)
  /\ GiveUp(channelPtr_) /\ (~retry_ => UNCHANGED status_)
  /\ UNCHANGED <<connection_, conn, aborted>>

\* handleError, also the close callback of the channel.
HandleError ==
  /\ Event /\ status_ = "Connecting"
  /\ removeAndResetChannel(funcs_)
  /\ GiveUp(channelPtr_) /\ status_' = "Disconnected"
  /\ UNCHANGED <<connection_, conn, aborted>>

\* TcpClient::newConnection makes a connection of the socket, unless the client is
\* gone: then nobody has the socket any more.
newConnection(s) ==
  IF client = "alive" THEN connection_' = s /\ conn' = [conn EXCEPT ![s] = "up"]
                      ELSE UNCHANGED <<connection_, conn>>

\* handleWrite: the socket is connected.  It is one step: a stop() of another thread
\* comes before or after it.
HandleWriteConnected ==
  /\ Event /\ status_ = "Connecting"
  /\ removeAndResetChannel(funcs_)
  /\ status_' = "Connected"
  /\ newConnection(channelPtr_)
  /\ UNCHANGED <<timers, closings, aborted>>

\* handleWrite or handleError after stop(), before the channel is removed.
HandleStopped ==
  /\ Event /\ status_ # "Connecting"
  /\ aborted' = IF status_ = "Disconnected" THEN "no" ELSE "write"
  /\ UNCHANGED <<status_, channelPtr_, timers, connection_, conn, funcs_, closings>>

\* The timer of a retry fires.
RetryTimer ==
  /\ aborted = "no" /\ timers > 0
  /\ startInLoop(timers - 1)
  /\ UNCHANGED <<retry_, connect_, connector, clnt, calls, funcs_>>

-----------------------------------------------------------------------------
(* The connection *)

\* handleClose, with the close callback: removeConnection if the client is there,
\* else the connection is only destroyed.
HandleClose(s, q) ==
  /\ conn' = [conn EXCEPT ![s] = "closed"]
  /\ IF client = "alive" /\ connection_ # s
     THEN aborted' = "remove" /\ funcs_' = q /\ UNCHANGED connection_
     ELSE /\ connection_' = IF client = "alive" THEN None ELSE connection_
          /\ funcs_' = Append(q, FnOf("destroyed", s))
          /\ UNCHANGED aborted

Open(s) == conn[s] \in {"up", "shut"}

\* forceClose in the loop's thread, with the queue q.
ForceClose(s, q) ==
  IF Open(s) THEN HandleClose(s, q) ELSE funcs_' = q /\ UNCHANGED <<connection_, conn, aborted>>

\* shutdown in the loop's thread: nothing is left to send.
ShutdownInLoop(s) == conn' = IF conn[s] = "up" THEN [conn EXCEPT ![s] = "shut"] ELSE conn

\* The peer closes a connection.
PeerCloses == \E s \in Sockets :
  /\ aborted = "no" /\ Open(s)
  /\ HandleClose(s, funcs_)
  /\ UNCHANGED <<cntr, connector, client, calls, early, opened, closings>>

-----------------------------------------------------------------------------
(* The queued functions *)

Turn(f) == aborted = "no" /\ funcs_ # <<>> /\ Head(funcs_).op = f
Arg == Head(funcs_).sock

\* startInLoop, queued by start() with a bare pointer to the connector.
RunStart ==
  /\ Turn("start")
  /\ IF connector THEN startInLoop(timers)
     ELSE /\ aborted' = "dangling"
          /\ UNCHANGED <<status_, fd_, socketHanded_, channelPtr_, timers, early, opened, closings>>
  /\ funcs_' = Tail(funcs_)
  /\ UNCHANGED <<retry_, connect_, connector, clnt, calls>>

\* removeAndResetChannel, queued by stop().
RunRemove ==
  /\ Turn("remove")
  /\ removeAndResetChannel(Tail(funcs_))
  /\ UNCHANGED <<retry_, connect_, status_, fd_, socketHanded_, timers, connector, clnt, calls,
                 early, opened, closings, aborted>>

\* The function that kept the channel is gone.
RunKeep ==
  /\ Turn("keep")
  /\ funcs_' = Tail(funcs_)
  /\ UNCHANGED <<cntr, connector, clnt, calls, early, opened, closings, aborted>>

\* connectDestroyed: the last reference goes, and the socket is closed.
RunDestroyed ==
  /\ Turn("destroyed")
  /\ conn' = [conn EXCEPT ![Arg] = "gone"]
  /\ CloseSocket(Arg)
  /\ funcs_' = Tail(funcs_)
  /\ UNCHANGED <<cntr, connector, client, connection_, calls, early, opened, aborted>>

\* forceClose, queued by the destructor of the client in another thread.
RunForceClose ==
  /\ Turn("close")
  /\ ForceClose(Arg, Tail(funcs_))
  /\ UNCHANGED <<cntr, connector, client, calls, early, opened, closings>>

\* shutdown, queued by disconnect() in another thread.
RunShutdown ==
  /\ Turn("shutdown")
  /\ ShutdownInLoop(Arg)
  /\ funcs_' = Tail(funcs_)
  /\ UNCHANGED <<cntr, connector, client, connection_, calls, early, opened, closings, aborted>>

-----------------------------------------------------------------------------
(* The user *)

CanCall == aborted = "no" /\ client = "alive"

\* connect(): a second time only after stop(), and once the old connection has
\* gone; the model does not have a connect() over a connection that lives.
Connect ==
  /\ CanCall /\ connects < MaxConnects
  /\ connects > 0 => stopped /\ connection_ = None
  /\ connects' = connects + 1 /\ stopped' = FALSE
  /\ connect_' = TRUE
  /\ IF away
     THEN /\ funcs_' = Append(funcs_, Fn("start"))
          /\ UNCHANGED <<status_, fd_, socketHanded_, channelPtr_, timers, early, opened, closings,
                         aborted>>
     ELSE startInLoop(timers) /\ UNCHANGED funcs_
  /\ UNCHANGED <<retry_, connector, clnt, away>>

\* disconnect(): the connection is shut down.
Disconnect ==
  /\ CanCall /\ connection_ # None /\ conn[connection_] # "shut"
  /\ IF away THEN /\ FnOf("shutdown", connection_) \notin {funcs_[i] : i \in 1 .. Len(funcs_)}
                  /\ funcs_' = Append(funcs_, FnOf("shutdown", connection_)) /\ UNCHANGED conn
             ELSE ShutdownInLoop(connection_) /\ UNCHANGED funcs_
  /\ UNCHANGED <<cntr, connector, client, connection_, calls, early, opened, closings, aborted>>

\* Mutant of ConnectorStop: the channel is left to itself.
ConnectorStopKeeps ==
  /\ status_' = "Disconnected"
  /\ UNCHANGED <<channelPtr_, funcs_>>

\* Connector::stop(): the status at once, the channel in the loop's thread.
ConnectorStop ==
  /\ status_' = "Disconnected"
  /\ IF away THEN funcs_' = Append(funcs_, Fn("remove")) /\ UNCHANGED channelPtr_
             ELSE removeAndResetChannel(funcs_)

Stop ==
  /\ CanCall /\ connects > 0 /\ ~stopped
  /\ stopped' = TRUE
  /\ ConnectorStop
  /\ UNCHANGED <<retry_, connect_, fd_, socketHanded_, timers, connector, clnt, away, connects,
                 early, opened, closings, aborted>>

\* The last reference to the client goes, in another thread: from now on the
\* callbacks find no client, but its destructor has yet to be run.
Drop ==
  /\ CanCall /\ away
  /\ client' = "dying"
  /\ UNCHANGED <<cntr, connector, connection_, conn, calls, early, funcs_, opened, closings, aborted>>

\* Mutant of Destroy: a connection is left to itself.
DestroyNoClose ==
  /\ aborted = "no" /\ client = IF away THEN "dying" ELSE "alive"
  /\ client' = "dead"
  /\ IF connection_ = None THEN ConnectorStop ELSE UNCHANGED <<status_, funcs_, channelPtr_>>
  /\ UNCHANGED <<retry_, connect_, fd_, socketHanded_, timers, connector, connection_, conn, calls,
                 early, opened, closings, aborted>>

\* ~TcpClient: the connector is stopped, or the connection closed, with a close
\* callback that only destroys it.
Destroy ==
  /\ aborted = "no" /\ client = IF away THEN "dying" ELSE "alive"
  /\ client' = "dead"
  /\ IF connection_ = None THEN ConnectorStop /\ UNCHANGED conn
     ELSE /\ IF away
             THEN funcs_' = Append(funcs_, FnOf("close", connection_)) /\ UNCHANGED conn
             ELSE /\ funcs_' = Append(funcs_, FnOf("destroyed", connection_))
                  /\ conn' = [conn EXCEPT ![connection_] = "closed"]
          /\ UNCHANGED <<status_, channelPtr_>>
  /\ UNCHANGED <<retry_, connect_, fd_, socketHanded_, timers, connector, connection_, calls, early,
                 opened, closings, aborted>>

-----------------------------------------------------------------------------
\* What keeps the connector alive: the client, its channel's callbacks, the
\* functions queued by stop() and for the channel, a retry that is scheduled.
Referenced ==
  \/ client # "dead" \/ channelPtr_ # None \/ timers > 0
  \/ \E i \in 1 .. Len(funcs_) : funcs_[i].op \in {"remove", "keep"}

\* Mutant of ConnectorDtor: the socket is closed whoever has it.
ConnectorDtorAlways ==
  /\ connector /\ ~Referenced
  /\ connector' = FALSE
  /\ IF fd_ # None THEN CloseSocket(fd_) ELSE UNCHANGED closings
  /\ UNCHANGED <<cntr, clnt, calls, early, funcs_, opened, aborted>>

\* ~Connector.
ConnectorDtor ==
  /\ connector /\ ~Referenced
  /\ connector' = FALSE
  /\ IF ~socketHanded_ /\ fd_ # None THEN CloseSocket(fd_) ELSE UNCHANGED closings
  /\ UNCHANGED <<cntr, clnt, calls, early, funcs_, opened, aborted>>

Kernel == HandleWriteFail \/ HandleError \/ HandleWriteConnected \/ HandleStopped
Loop == RunStart \/ RunRemove \/ RunKeep \/ RunDestroyed \/ RunForceClose \/ RunShutdown
User == Connect \/ Disconnect \/ Stop \/ Drop \/ Destroy

\* An object is destroyed as soon as nothing refers to it.
Next ==
  \/ ConnectorDtor
  \/ (~connector \/ Referenced) /\ (Kernel \/ RetryTimer \/ Loop \/ PeerCloses \/ User)

Spec == Init /\ [][Next]_vars

\* The loop turns, and destructors are run.  Nothing is asked of the kernel, the
\* peer or the user.
FairSpec == Spec /\ WF_vars(Loop) /\ WF_vars(away /\ Destroy) /\ WF_vars(ConnectorDtor)

-----------------------------------------------------------------------------
(* Properties *)

\* No socket is closed twice, whichever of handleWrite, handleError, retry, the
\* connection and the destructors closes it, and however they interleave with
\* stop() and the end of the client.  Excepted is a retry that connect() itself
\* schedules: it closes the socket, which ~Connector then closes again.
ClosedOnce == \A s \in Sockets : closings[s] <= 1 \/ early

\* No assertion of startInLoop, connecting, handleWrite or removeConnection fails,
\* and no queued function finds the connector gone, however the kernel, retries,
\* stop(), disconnect() and the end of the client interleave.  Excepted are a
\* second connect() that is queued, or that a retry is still scheduled for, and
\* a client that is dropped before its start() has run.  Not covered is a connect()
\* after stop() while the old connection still lives (see Connect): the new one
\* then takes its place in connection_, and removeConnection asserts it for the old.
NoAssertFails ==
  aborted = "no" \/ (connects > 1 /\ (away \/ retry_)) \/ (away /\ aborted = "dangling")

\* When the client is destroyed, every socket it opened is closed in the end: the
\* one that is connecting, the one that failed, the one of the connection.
\* Excepted are a second connect(), whose socket takes the place of the first in
\* fd_; calls in another thread, where handleWrite after stop() counts the socket
\* as handed over; and a connector that retries, which goes on without the client.
DropCloses ==
  (client = "dead") ~> (\/ \A s \in 1 .. opened : closings[s] > 0
                        \/ away \/ connects > 1 \/ retry_)
=============================================================================
