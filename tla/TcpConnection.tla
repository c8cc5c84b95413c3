---------------------------- MODULE TcpConnection ----------------------------
(***************************************************************************)
(* One connection of a TcpServer, from TcpServer::newConnection to         *)
(* TcpConnectionImpl::connectDestroyed: net/inner/TcpConnectionImpl.cpp,   *)
(* the Channel it owns and the epoll registration of that channel          *)
(* (net/Channel.{h,cpp}, net/inner/poller/EpollPoller.cpp), and the        *)
(* server's side of closing it (net/TcpServer.cpp).                        *)
(*                                                                         *)
(* Two threads matter to a connection.  Its own loop's thread runs the     *)
(* event handlers, the functions queued to the loop and whatever user      *)
(* function they call; any other thread only queues functions.  So every   *)
(* step of the loop's thread below is atomic, and a call of the user's is  *)
(* either executed on the spot (LoopCall...) or queued (AwayCall...).      *)
(* The server's loop may be the same loop or another one (sameLoop).       *)
(*                                                                         *)
(* The build has no TLS backend, so tlsProviderPtr_ is null everywhere.    *)
(* The idle timeout (extendLife, and what sendAsyncStream does to it) is   *)
(* in the module TimingWheel.  Left out: the high water mark callback and  *)
(* the data received.                                                      *)
(*                                                                         *)
(* A message is two bytes, so that it can be sent in part.  The list       *)
(* writeBufferList_ is the sequence of the bytes its nodes have left, as   *)
(* no handler treats the nodes differently once they are in the list; but  *)
(* the node of an asynchronous stream goes on until the stream is ended,   *)
(* so the mark End is put behind its bytes.                                *)
(***************************************************************************)
EXTENDS Naturals, Sequences

CONSTANTS Sends,      \* messages given to send()
          Files,      \* files given to sendFile()
          Streams,    \* streams given to sendStream()
          Chunks,     \* chunks given to the stream of sendAsyncStream()
          LoopMsgs,   \* the messages given in the loop's own thread
          MaxCalls    \* bound on the calls of the user, apart from those that open
                      \* and end the stream

Kinds == {Sends, Files, Streams, Chunks}
Msgs == UNION Kinds

ASSUME MsgsAssumption ==
  /\ Sends \cap (Files \cup Streams \cup Chunks) = {}
  /\ Files \cap (Streams \cup Chunks) = {} /\ Streams \cap Chunks = {}
  /\ LoopMsgs \subseteq Msgs /\ "end" \notin Msgs
  /\ MaxCalls \in Nat

VARIABLES
  status_,   \* TcpConnectionImpl::status_
  events_,   \* Channel::events_
  index_,    \* Channel::index_: kNew, kAdded, kDeleted
  list,      \* the bytes left in writeBufferList_
  done,      \* isDone_ of the node of the asynchronous stream
  funcs_,    \* the functions queued to the connection's loop
  base,      \* how many handleCloseInLoop are queued to the server's loop
  inSet,     \* is the connection in TcpServer::connSet_?
  ups,       \* calls of connectionCallback_ with the connection connected
  downs,     \* calls of connectionCallback_ with it disconnected
  sameLoop,  \* is the server's loop the connection's loop?
  stale,     \* did a function that does not look at the status run after the close?
  aborted,   \* the assertion that failed, or "no": then nothing moves
  (* the socket *)
  peer,      \* "open", "fin" (no more data to read) or "rst"
  wire,      \* the bytes written to the socket
  wrShut,    \* closeWrite() was called
  (* the user *)
  called,    \* the messages given to the connection so far, in order
  stream,    \* the asynchronous stream: "no", the thread that has it ("loop" or
             \* "away"), "ended"
  shutAsked, \* where the one shutdown() of the user is: "no", "queued", "run"
  closeAsked \* likewise for forceClose()

conn == <<status_, events_, index_, list, done, inSet, ups, downs, sameLoop, stale, aborted>>
sock == <<peer, wire, wrShut>>
user == <<called, stream, shutAsked, closeAsked>>
vars == <<conn, funcs_, base, sock, user>>

Bytes(m) == << <<m, 1>>, <<m, 2>> >>
End == <<"end", 0>>

Established == [op |-> "established"]
Destroyed   == [op |-> "destroyed"]
ShutdownFn  == [op |-> "shutdown"]
CloseFn     == [op |-> "close"]
OpenFn      == [op |-> "open"]
EndFn       == [op |-> "end"]
SendFn(m)   == [op |-> "send", msg |-> m]

\* newConnection has inserted the connection and called connectEstablished:
\* queued to the connection's loop when that is another thread's, and about to
\* run when it is this one.
Init ==
  /\ status_ = "Connecting" /\ events_ = {} /\ index_ = "new"
  /\ list = <<>> /\ done = FALSE /\ funcs_ = <<Established>> /\ base = 0
  /\ inSet = TRUE /\ ups = 0 /\ downs = 0
  /\ sameLoop \in BOOLEAN /\ stale = FALSE /\ aborted = "no"
  /\ peer = "open" /\ wire = <<>> /\ wrShut = FALSE
  /\ called = <<>> /\ stream = "no" /\ shutAsked = "no" /\ closeAsked = "no"

-----------------------------------------------------------------------------
(* The channel and the poller *)

\* Channel::enableReading and its like: the new set of events, then update(),
\* which is EpollPoller::updateChannel.
Update(e) ==
  /\ events_' = e
  /\ index_' = IF index_ = "added" /\ e = {} THEN "deleted" ELSE "added"

isWriting == "write" \in events_

\* Can epoll report event e on the channel?  Channel::disableAll empties
\* events_ without update(), but then Channel::handleEvent returns at once.
Watched(e) == index_ = "added" /\ e \in events_

\* Write succeeds only on a socket that is open for writing.
Writable == ~wrShut /\ peer # "rst"

-----------------------------------------------------------------------------
(* Sending *)

\* The socket takes the first n bytes of b, the rest goes to the list, in which
\* no bytes are.
Put(b, n) ==
  /\ wire' = wire \o SubSeq(b, 1, n)
  /\ list' = SubSeq(b, n + 1, Len(b)) \o list

\* writeRaw on a whole message, with no data before it in the list: the test of
\* errno is on the function isEAGAIN and not on its result, so an error counts
\* as zero bytes written; when bytes are left and the channel is not writing,
\* the channel is told to read.
WriteRaw(m) ==
  \E n \in 0 .. 2 :
    /\ n > 0 => Writable
    /\ Put(Bytes(m), n)
    /\ IF n < 2 /\ ~isWriting
       THEN Update(events_ \cup {"read"})
       ELSE UNCHANGED <<events_, index_>>

Append2List(m) ==
  /\ list' = list \o Bytes(m)
  /\ UNCHANGED <<wire, events_, index_>>

Nothing == UNCHANGED <<wire, list, events_, index_>>

\* Mutants of sendInLoop: the status is not tested; the list is not tested.
sendInLoopAnyway(m) ==
  IF ~isWriting /\ list = <<>> THEN WriteRaw(m) ELSE Append2List(m)

sendInLoopAhead(m) ==
  \/ status_ # "Connected" /\ Nothing
  \/ status_ = "Connected" /\ (IF isWriting THEN Append2List(m) ELSE WriteRaw(m))

sendInLoop(m) ==
  \/ status_ # "Connected" /\ Nothing
  \/ /\ status_ = "Connected"
     /\ IF ~isWriting /\ list = <<>> THEN WriteRaw(m) ELSE Append2List(m)

\* sendNodeInLoop on a file, through sendfile().  When the socket is full the
\* channel is told to write and the node is returned with -1; on another error
\* it is returned with -1 at once.  Either way sendFile does not push it.
SendFileNode(m) ==
  \/ \E n \in 1 .. 2 :
       /\ Writable
       /\ Put(Bytes(m), n)
       /\ IF n < 2 /\ ~isWriting
          THEN Update(events_ \cup {"write"})
          ELSE UNCHANGED <<events_, index_>>
  \/ /\ Writable
     /\ IF isWriting THEN UNCHANGED <<events_, index_>>
                     ELSE Update(events_ \cup {"write"})
     /\ UNCHANGED <<wire, list>>
  \/ ~Writable /\ Nothing

\* A file that finds the list occupied waits there.
sendFile(m) == IF list = <<>> THEN SendFileNode(m) ELSE Append2List(m)

\* In the loop's thread a stream that finds the list occupied is not pushed.
sendStream(m) ==
  IF list = <<>> THEN WriteRaw(m)
  ELSE IF m \in LoopMsgs THEN Nothing
  ELSE Append2List(m)

\* Mutant of sendAsyncDataInLoop: the bytes go to the end of the list.
sendAsyncDataInLoopLast(m) ==
  IF list # <<>> /\ Head(list) = End THEN WriteRaw(m) ELSE Append2List(m)

\* A chunk of the asynchronous stream is written if its node is the first of the
\* list and has no bytes, else it is added to the node's bytes.
sendAsyncDataInLoop(m) ==
  IF list # <<>> /\ Head(list) = End THEN WriteRaw(m)
  ELSE LET i == CHOOSE k \in 1 .. Len(list) : list[k] = End IN
       /\ list' = SubSeq(list, 1, i - 1) \o Bytes(m) \o SubSeq(list, i, Len(list))
       /\ UNCHANGED <<wire, events_, index_>>

\* send() gives up after the close, the others do not.
Send(m) ==
  /\ m \in Sends => sendInLoop(m)
  /\ m \in Files => sendFile(m)
  /\ m \in Streams => sendStream(m)
  /\ m \in Chunks => sendAsyncDataInLoop(m)
  /\ stale' = (stale \/ (status_ = "Disconnected" /\ m \notin Sends))
  /\ UNCHANGED <<status_, done, inSet, ups, downs, sameLoop, aborted, peer, wrShut, base, stream,
                 shutAsked, closeAsked>>

\* sendAsyncStream: the node is put at the end of the list.
OpenStream ==
  /\ list' = Append(list, End)
  /\ UNCHANGED <<status_, events_, index_, done, inSet, ups, downs, sameLoop, stale, aborted, base,
                 sock, called, shutAsked, closeAsked>>

\* The stream is ended: if its node is the first of the list, the channel is told
\* to write, so that writeCallback takes it out.
EndStream ==
  LET first == \E i \in 1 .. Len(list) :
                 list[i] = End /\ \A k \in 1 .. i - 1 : list[k][1] \in Chunks IN
  /\ done' = TRUE
  /\ IF first /\ ~isWriting THEN Update(events_ \cup {"write"}) ELSE UNCHANGED <<events_, index_>>
  /\ stale' = (stale \/ status_ = "Disconnected")
  /\ UNCHANGED <<status_, list, inSet, ups, downs, sameLoop, aborted, base, sock, called,
                 shutAsked, closeAsked>>

-----------------------------------------------------------------------------
(* Closing *)

\* Mutant of handleCloseInLoop: connectDestroyed is not queued.
handleCloseInLoopOnly(q) ==
  IF inSet THEN inSet' = FALSE /\ funcs_' = q /\ UNCHANGED aborted
           ELSE aborted' = "erase" /\ funcs_' = q /\ UNCHANGED inSet

\* TcpServer::handleCloseInLoop, with q the queue of the connection's loop.
handleCloseInLoop(q) ==
  IF inSet THEN inSet' = FALSE /\ funcs_' = Append(q, Destroyed) /\ UNCHANGED aborted
           ELSE aborted' = "erase" /\ funcs_' = q /\ UNCHANGED inSet

\* handleClose: whatever the status was.  disableAll does not reach the poller.
handleClose(q) ==
  /\ status_' = "Disconnected"
  /\ events_' = {}
  /\ downs' = downs + 1
  /\ IF sameLoop
     THEN handleCloseInLoop(q) /\ UNCHANGED base
     ELSE base' = base + 1 /\ funcs_' = q /\ UNCHANGED <<inSet, aborted>>
  /\ UNCHANGED <<index_, list, done, ups, sameLoop, stale, sock, called, stream>>

\* A shutdown with data in the list does nothing: closeOnEmpty_ stays false,
\* the statement meant to set it is a subtraction whose value is not used.
shutdownInLoop ==
  /\ IF status_ = "Connected" /\ list = <<>>
     THEN status_' = "Disconnecting" /\ wrShut' = (wrShut \/ ~isWriting)
     ELSE UNCHANGED <<status_, wrShut>>
  /\ shutAsked' = "run"
  /\ UNCHANGED <<events_, index_, list, done, inSet, ups, downs, sameLoop, stale, aborted, base,
                 peer, wire, called, stream, closeAsked>>

\* Mutant of forceCloseInLoop: the status is not tested.
forceCloseInLoopAnyway(q) ==
  handleClose(q) /\ closeAsked' = "run" /\ UNCHANGED shutAsked

forceCloseInLoop(q) ==
  /\ IF status_ \in {"Connected", "Disconnecting"}
     THEN handleClose(q)
     ELSE funcs_' = q /\ UNCHANGED <<conn, base, sock, called, stream>>
  /\ closeAsked' = "run"
  /\ UNCHANGED shutAsked

\* connectDestroyed, down to the assertions of Channel::remove and of
\* EpollPoller::removeChannel.
connectDestroyed ==
  /\ IF status_ = "Connected"
     THEN status_' = "Disconnected" /\ events_' = {} /\ downs' = downs + 1
     ELSE UNCHANGED <<status_, events_, downs>>
  /\ IF events_' # {} \/ index_ = "new"
     THEN aborted' = "remove" /\ UNCHANGED index_
     ELSE index_' = "new" /\ UNCHANGED aborted
  /\ UNCHANGED <<list, done, inSet, ups, sameLoop, stale, base, sock, user>>

-----------------------------------------------------------------------------
(* The steps of the connection's loop *)

\* After a failed assertion nothing moves, and what follows a stale use of the
\* channel is not followed.
Alive == aborted = "no" /\ ~stale
Next2Run(f) == Alive /\ funcs_ # <<>> /\ Head(funcs_) = f

RunEstablished ==
  /\ Next2Run(Established)
  /\ funcs_' = Tail(funcs_)
  /\ Update(events_ \cup {"read"})
  /\ status_' = "Connected"
  /\ ups' = ups + 1
  /\ UNCHANGED <<list, done, inSet, downs, sameLoop, stale, aborted, base, sock, user>>

RunSend == \E m \in Msgs :
  /\ Next2Run(SendFn(m))
  /\ funcs_' = Tail(funcs_)
  /\ Send(m)
  /\ UNCHANGED called

RunOpen ==
  /\ Next2Run(OpenFn)
  /\ funcs_' = Tail(funcs_)
  /\ OpenStream
  /\ UNCHANGED stream

RunEnd ==
  /\ Next2Run(EndFn)
  /\ funcs_' = Tail(funcs_)
  /\ EndStream
  /\ UNCHANGED stream

RunShutdown ==
  /\ Next2Run(ShutdownFn)
  /\ funcs_' = Tail(funcs_)
  /\ shutdownInLoop

RunForceClose ==
  /\ Next2Run(CloseFn)
  /\ forceCloseInLoop(Tail(funcs_))

RunDestroyed ==
  /\ Next2Run(Destroyed)
  /\ funcs_' = Tail(funcs_)
  /\ connectDestroyed

\* readCallback when read() returns 0.  A read that returns data, EAGAIN or
\* ECONNRESET leaves the connection as it is.  The closeCallback_ of the channel
\* needs POLLHUP without POLLIN, a channel that does not watch for input: only a
\* stale use makes one.
ReadClosed ==
  /\ Alive /\ Watched("read") /\ peer # "open"
  /\ handleClose(funcs_)
  /\ UNCHANGED <<shutAsked, closeAsked>>

\* The list without the node of a stream that is ended; and the bytes of it that
\* can be written before an open stream.
EndAt == {i \in 1 .. Len(list) : list[i] = End}
Nodes ==
  IF ~done \/ EndAt = {} THEN list
  ELSE LET i == CHOOSE k \in EndAt : TRUE IN SubSeq(list, 1, i - 1) \o SubSeq(list, i + 1, Len(list))
Ready == LET open == {i \in 1 .. Len(Nodes) : Nodes[i] = End}
         IN  IF open = {} THEN Len(Nodes) ELSE (CHOOSE i \in open : TRUE) - 1

\* Mutant of WriteCallback: writing is disabled though data is left.
WriteCallbackOnce ==
  /\ Alive /\ Watched("write")
  /\ \E n \in 0 .. Ready :
       /\ Ready > 0 => Writable /\ n > 0
       /\ wire' = wire \o SubSeq(Nodes, 1, n)
       /\ list' = SubSeq(Nodes, n + 1, Len(Nodes))
       /\ Update(events_ \ {"write"})
  /\ UNCHANGED <<status_, done, inSet, ups, downs, sameLoop, stale, aborted, funcs_, base, peer,
                 wrShut, user>>

\* writeCallback: the socket takes n > 0 bytes; when none is left, or those behind
\* an open stream, the channel is told not to write any more.
WriteCallback ==
  /\ Alive /\ Watched("write")
  /\ \E n \in 0 .. Ready :
       /\ Ready > 0 => Writable /\ n > 0
       /\ wire' = wire \o SubSeq(Nodes, 1, n)
       /\ list' = SubSeq(Nodes, n + 1, Len(Nodes))
       /\ IF n = Ready THEN Update(events_ \ {"write"}) ELSE UNCHANGED <<events_, index_>>
  /\ UNCHANGED <<status_, done, inSet, ups, downs, sameLoop, stale, aborted, funcs_, base, peer,
                 wrShut, user>>

\* The server's loop, when it is another one, runs handleCloseInLoop.
RunBase ==
  /\ Alive /\ base > 0
  /\ base' = base - 1
  /\ handleCloseInLoop(funcs_)
  /\ UNCHANGED <<status_, events_, index_, list, done, ups, downs, sameLoop, stale, sock, user>>

-----------------------------------------------------------------------------
(* The user, who has the connection once connectionCallback_ was called *)

MayCall ==
  /\ Alive /\ ups = 1
  /\ Len(called) + (IF shutAsked = "no" THEN 0 ELSE 1) + (IF closeAsked = "no" THEN 0 ELSE 1)
       < MaxCalls

\* A chunk is given by the thread that has the stream, while the status is Connected.
Given(m) ==
  /\ MayCall
  /\ \A i \in 1 .. Len(called) : called[i] # m
  /\ m \in Chunks =>
       /\ status_ = "Connected"
       /\ stream = IF m \in LoopMsgs THEN "loop" ELSE "away"

LoopCallSend == \E m \in LoopMsgs :
  /\ Given(m)
  /\ called' = Append(called, m)
  /\ Send(m)
  /\ UNCHANGED funcs_

AwayCallSend == \E m \in Msgs \ LoopMsgs :
  /\ Given(m)
  /\ called' = Append(called, m)
  /\ funcs_' = Append(funcs_, SendFn(m))
  /\ UNCHANGED <<conn, base, sock, stream, shutAsked, closeAsked>>

\* sendAsyncStream; the stream may be handed to another thread.
LoopCallOpen ==
  /\ MayCall /\ stream = "no" /\ Chunks # {}
  /\ stream' \in {"loop", "away"}
  /\ OpenStream
  /\ UNCHANGED funcs_

\* A stream opened by another thread is taken to have no chunk before its node is in
\* the list; so the node goes to the end of the list and is not sent at once.
AwayCallOpen ==
  /\ MayCall /\ stream = "no" /\ Chunks # {}
  /\ stream' = "away"
  /\ funcs_' = Append(funcs_, OpenFn)
  /\ UNCHANGED <<conn, base, sock, called, shutAsked, closeAsked>>

\* close() or the destructor of the stream; nothing is done once the status is
\* not Connected.
LoopCallEnd ==
  /\ Alive /\ stream = "loop"
  /\ stream' = "ended"
  /\ IF status_ = "Connected" THEN EndStream
     ELSE UNCHANGED <<conn, base, sock, called, shutAsked, closeAsked>>
  /\ UNCHANGED funcs_

AwayCallEnd ==
  /\ Alive /\ stream = "away"
  /\ stream' = "ended"
  /\ funcs_' = IF status_ = "Connected" THEN Append(funcs_, EndFn) ELSE funcs_
  /\ UNCHANGED <<conn, base, sock, called, shutAsked, closeAsked>>

LoopCallShutdown ==
  /\ MayCall /\ shutAsked = "no"
  /\ shutdownInLoop
  /\ UNCHANGED funcs_

AwayCallShutdown ==
  /\ MayCall /\ shutAsked = "no"
  /\ shutAsked' = "queued"
  /\ funcs_' = Append(funcs_, ShutdownFn)
  /\ UNCHANGED <<conn, base, sock, called, stream, closeAsked>>

LoopCallForceClose ==
  /\ MayCall /\ closeAsked = "no"
  /\ forceCloseInLoop(funcs_)

AwayCallForceClose ==
  /\ MayCall /\ closeAsked = "no"
  /\ closeAsked' = "queued"
  /\ funcs_' = Append(funcs_, CloseFn)
  /\ UNCHANGED <<conn, base, sock, called, stream, shutAsked>>

\* The other end of the socket.
PeerCloses ==
  /\ Alive /\ peer = "open"
  /\ peer' \in {"fin", "rst"}
  /\ UNCHANGED <<conn, funcs_, base, wire, wrShut, user>>

PeerResets ==
  /\ Alive /\ peer = "fin"
  /\ peer' = "rst"
  /\ UNCHANGED <<conn, funcs_, base, wire, wrShut, user>>

-----------------------------------------------------------------------------
Run == RunEstablished \/ RunSend \/ RunOpen \/ RunEnd \/ RunShutdown \/ RunForceClose
       \/ RunDestroyed
Handle == ReadClosed \/ WriteCallback
Call == LoopCallSend \/ AwayCallSend \/ LoopCallOpen \/ AwayCallOpen
        \/ LoopCallEnd \/ AwayCallEnd \/ LoopCallShutdown \/ AwayCallShutdown
        \/ LoopCallForceClose \/ AwayCallForceClose
Next == Run \/ Handle \/ RunBase \/ Call \/ PeerCloses \/ PeerResets

Spec == Init /\ [][Next]_vars

\* Both loops keep turning: they run what is queued and handle what the poller
\* reports, which it does again as long as the condition lasts.
FairSpec ==
  /\ Spec
  /\ WF_vars(Run)
  /\ WF_vars(ReadClosed)
  /\ WF_vars(WriteCallback)
  /\ WF_vars(RunBase)

-----------------------------------------------------------------------------
(* Properties *)

\* The bytes of a sequence of messages; those of the messages that are queued to
\* the loop, with marks for the other functions.
Flat(s) == [i \in 1 .. 2 * Len(s) |-> Bytes(s[(i + 1) \div 2])[2 - (i % 2)]]
Queued == [i \in 1 .. 2 * Len(funcs_) |->
             LET f == funcs_[(i + 1) \div 2]
             IN  IF f.op = "send" THEN Bytes(f.msg)[2 - (i % 2)] ELSE End]

\* s and t have the same bytes of messages of C, each once, in the same order.
Places(s, C) == {i \in DOMAIN s : s[i][1] \in C}
SameOf(s, t, C) ==
  /\ {s[i] : i \in Places(s, C)} = {t[k] : k \in Places(t, C)}
  /\ \A i \in Places(s, C), k \in Places(t, C) : s[i] = t[k] =>
       \A j \in Places(s, C), l \in Places(t, C) : s[j] = t[l] => (i < j <=> k < l)

\* While the connection is up, the bytes written, then the bytes left in the
\* list, then the messages still queued are, for each of the two threads, what
\* that thread gave to send(), in that order, and likewise the chunks it gave to
\* the asynchronous stream: nothing is lost, doubled or overtaken.
WireInOrder ==
  status_ = "Connected" =>
    \A M \in {LoopMsgs, Msgs \ LoopMsgs}, K \in {Sends, Chunks} :
      SameOf(wire \o list \o Queued, Flat(called), M \cap K)

\* A message that was begun is continued with its next byte, and the chunks of an
\* asynchronous stream "are sent continuously" (net/AsyncStream.h): no other
\* message, file or stream gets between (Put, writeCallback, sendFile).
NoTornMessage ==
  LET s == wire \o list
  IN /\ \A i \in 1 .. Len(s) : s[i][2] = 2 => i > 1 /\ s[i - 1] = <<s[i][1], 1>>
     /\ \A i, j \in 1 .. Len(s) : s[i][1] \in Chunks /\ s[j][1] \in Chunks =>
          \A k \in i .. j : s[k][1] \in Chunks

\* The callbacks come in pairs: connectionCallback_ says "connected" once, then
\* "disconnected" once, and not before the connection is disconnected; unless a
\* file or stream that was queued has used the channel after the close.
CallbacksPaired ==
  \/ stale
  \/ /\ ups <= 1 /\ downs <= ups
     /\ (downs = 1) <=> (status_ = "Disconnected")

\* No assertion fails: not "n == 1" in TcpServer::handleCloseInLoop, nor those
\* of Channel::remove and EpollPoller::removeChannel; with the same exception.
NoAssertFails == aborted = "no" \/ stale

\* The connection is out of the server's set and out of the poller.
Gone == ~inSet /\ index_ = "new" /\ status_ = "Disconnected"

\* A connection whose peer is gone is closed, removed from the server's set and
\* from the poller, whatever calls are under way (readCallback, handleClose,
\* connectionClosed, connectDestroyed); with the same exception.
CloseCompletes == (peer # "open") ~> (Gone \/ stale)

\* Data in the list of a channel that watches for writing is written, up to a
\* stream that is still open, unless the connection ends: also behind a stream
\* when that ends (writeCallback, sendAsyncDataInLoop).
WatchedIsFlushed ==
  (list # <<>> /\ Watched("write"))
     ~> (Ready = 0 \/ status_ # "Connected" \/ peer # "open")

\* Data left in the list is written, unless the connection ends: "Send some data
\* to the peer." (net/TcpConnection.h).
SentIsFlushed ==
  (list # <<>> /\ status_ = "Connected")
     ~> (list = <<>> \/ status_ # "Connected" \/ peer # "open")
=============================================================================
