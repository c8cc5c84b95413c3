--------------------------- MODULE TcpClientProofs ---------------------------
(***************************************************************************)
(* Proofs about TcpClient and its Connector, for any number of sockets and *)
(* of calls of connect(): no socket is closed twice, and no assertion      *)
(* fails.                                                                  *)
(***************************************************************************)
EXTENDS TcpClient, TLAPS

SocketOps == {"destroyed", "close", "shutdown"}
Fns == [op : {"start", "remove", "keep"}, sock : {None}] \cup [op : SocketOps, sock : Sockets]

TypeOK ==
  /\ retry_ \in BOOLEAN /\ away \in BOOLEAN /\ stopped \in BOOLEAN
  /\ early \in BOOLEAN /\ connector \in BOOLEAN /\ socketHanded_ \in BOOLEAN
  /\ status_ \in {"Disconnected", "Connecting", "Connected"}
  /\ fd_ \in Sockets \cup {None} /\ channelPtr_ \in Sockets \cup {None}
  /\ connection_ \in Sockets \cup {None}
  /\ timers \in Nat /\ connects \in Nat /\ opened \in 0 .. MaxSockets
  /\ client \in {"alive", "dying", "dead"}
  /\ conn \in [Sockets -> {"none", "up", "shut", "closed", "gone"}]
  /\ closings \in [Sockets -> Nat]
  /\ funcs_ \in Seq(Fns)
  /\ early => retry_

(* Is f among the functions q?  Is f there at most once? *)
Has(q, f) == \E i \in 1 .. Len(q) : q[i] = f
Once(q, f) == \A i, j \in 1 .. Len(q) : q[i] = f /\ q[j] = f => i = j

Start == Fn("start")
Gone(s) == FnOf("destroyed", s)

-----------------------------------------------------------------------------
(* Who may close a socket *)

(* One that was not opened yet, nobody. *)
Unopened ==
  /\ \A s \in Sockets : s > opened => closings[s] = 0 /\ conn[s] = "none"
  /\ fd_ # None => fd_ <= opened
  /\ channelPtr_ # None => channelPtr_ <= opened

(* The channel of the connector, which then gives it away; ~Connector, if  *)
(* it was not handed over; the connection made of it.  No two of them, and *)
(* none of them when it is closed.                                         *)
OfChannel == channelPtr_ # None => closings[channelPtr_] = 0 /\ conn[channelPtr_] = "none"
OfConnector ==
  connector /\ ~socketHanded_ /\ fd_ # None => closings[fd_] = 0 /\ conn[fd_] = "none"
OfConnection ==
  /\ \A s \in Sockets : closings[s] <= 1 /\ (conn[s] \in {"up", "shut", "closed"} => closings[s] = 0)
  /\ client = "alive" /\ connection_ # None => Open(connection_)

(* connectDestroyed is queued for a connection that is closed, and once.   *)
DestroyedOnce == \A s \in Sockets :
  /\ Has(funcs_, Gone(s)) => conn[s] = "closed"
  /\ Once(funcs_, Gone(s))

Owned == Unopened /\ OfChannel /\ OfConnector /\ OfConnection /\ DestroyedOnce

-----------------------------------------------------------------------------
(* What the assertions need *)

(* start() is queued once, and is the first that is done.                  *)
Idle == status_ = "Disconnected" /\ channelPtr_ = None /\ timers = 0 /\ connection_ = None
StartFirst ==
  /\ Has(funcs_, Start) => connects = 1 /\ Idle
  /\ Once(funcs_, Start)
  /\ connects = 0 => Idle

(* One attempt to connect at a time: a retry, a channel or a connection.   *)
OneAttempt ==
  /\ timers <= 1
  /\ timers = 1 => retry_ /\ status_ = "Disconnected" /\ channelPtr_ = None /\ connection_ = None
  /\ channelPtr_ # None => status_ # "Connected" /\ connection_ = None
  /\ ~away /\ stopped /\ ~retry_ => status_ = "Disconnected" /\ channelPtr_ = None

(* The client knows the connection that is open. *)
Known == client = "alive" => \A s \in Sockets : Open(s) => connection_ = s

(* connect() is called again, if at all, in the loop and without retries.  *)
Orderly == connects <= 1 \/ (~away /\ ~retry_)

NoneFailed == aborted = "no" \/ (away /\ aborted = "dangling")

StartAway == Has(funcs_, Start) => away

Tidy == StartFirst /\ OneAttempt /\ Known /\ NoneFailed

Inv == TypeOK /\ StartAway /\ (early \/ Owned) /\ (Orderly => Tidy)

-----------------------------------------------------------------------------
(* The functions that are queued *)

(* f is not in r unless it is in q, nor more often. *)
Keeps(r, q, f) == (Has(r, f) => Has(q, f)) /\ (Once(q, f) => Once(r, f))

(* Neither start() nor connectDestroyed is added. *)
Less(r, q) ==
  /\ r \in Seq(Fns)
  /\ Keeps(r, q, Start)
  /\ \A s \in Sockets : Keeps(r, q, Gone(s))

LEMMA FnFacts ==
  /\ Start \in Fns /\ Fn("remove") \in Fns /\ Fn("keep") \in Fns
  /\ Fn("remove") # Start /\ Fn("keep") # Start
  /\ \A s \in Sockets :
       /\ Gone(s) \in Fns /\ FnOf("close", s) \in Fns /\ FnOf("shutdown", s) \in Fns
       /\ FnOf("close", s) # Start /\ FnOf("shutdown", s) # Start /\ Gone(s) # Start
       /\ \A t \in Sockets :
            /\ Gone(t) # Fn("remove") /\ Gone(t) # Fn("keep")
            /\ FnOf("close", s) # Gone(t) /\ FnOf("shutdown", s) # Gone(t)
            /\ s # t => Gone(s) # Gone(t)
  /\ \A f \in Fns :
       /\ f.op = "start" => f = Start
       /\ f.op \in SocketOps => f.sock \in Sockets
       /\ f.op = "destroyed" => f = Gone(f.sock)
  <1>1. /\ Start \in Fns /\ Fn("remove") \in Fns /\ Fn("keep") \in Fns
        /\ \A s \in Sockets :
             Gone(s) \in Fns /\ FnOf("close", s) \in Fns /\ FnOf("shutdown", s) \in Fns
    BY DEF Fns, Start, Gone, Fn, FnOf, SocketOps
  <1>2. /\ Start.op = "start" /\ Fn("remove").op = "remove" /\ Fn("keep").op = "keep"
        /\ \A s : /\ Gone(s).op = "destroyed" /\ Gone(s).sock = s
                 /\ FnOf("close", s).op = "close" /\ FnOf("shutdown", s).op = "shutdown"
    BY DEF Start, Gone, Fn, FnOf
  <1>3. ASSUME NEW f \in Fns, f.op = "start" PROVE f = Start
    BY <1>3 DEF Fns, SocketOps, Start, Fn
  <1>4. ASSUME NEW f \in Fns, f.op \in SocketOps PROVE f.sock \in Sockets
    BY <1>4 DEF Fns, SocketOps
  <1>5. ASSUME NEW f \in Fns, f.op = "destroyed" PROVE f = Gone(f.sock)
    BY <1>5 DEF Fns, SocketOps, Gone, FnOf
  <1>6. Fn("remove") # Start /\ Fn("keep") # Start
    BY <1>2
  <1>7. ASSUME NEW s, NEW t
        PROVE  /\ FnOf("close", s) # Start /\ FnOf("shutdown", s) # Start /\ Gone(s) # Start
               /\ Gone(t) # Fn("remove") /\ Gone(t) # Fn("keep")
               /\ FnOf("close", s) # Gone(t) /\ FnOf("shutdown", s) # Gone(t)
               /\ s # t => Gone(s) # Gone(t)
    <2>1. PICK a, b, c, d, e, g, h :
            /\ a = Start /\ b = Fn("remove") /\ c = Fn("keep")
            /\ d = Gone(s) /\ e = Gone(t) /\ g = FnOf("close", s) /\ h = FnOf("shutdown", s)
      OBVIOUS
    <2>2. /\ a.op = "start" /\ b.op = "remove" /\ c.op = "keep"
          /\ d.op = "destroyed" /\ d.sock = s /\ e.op = "destroyed" /\ e.sock = t
          /\ g.op = "close" /\ h.op = "shutdown"
      BY <1>2, <2>1
    <2>3. /\ g # a /\ h # a /\ d # a /\ e # b /\ e # c /\ g # e /\ h # e
          /\ s # t => d # e
      BY <2>2
    <2>. QED BY <2>1, <2>3
  <1>. QED BY <1>1, <1>3, <1>4, <1>5, <1>6, <1>7, Zenon

LEMMA TailKeeps ==
  ASSUME NEW q \in Seq(Fns), q # <<>>
  PROVE  /\ Tail(q) \in Seq(Fns) /\ Head(q) \in Fns
         /\ \A f : Keeps(Tail(q), q, f)
         /\ Has(q, Head(q))
         /\ Once(q, Head(q)) => ~Has(Tail(q), Head(q))
  <1>1. /\ Tail(q) \in Seq(Fns) /\ Head(q) \in Fns
        /\ Len(q) \in Nat \ {0} /\ Len(Tail(q)) = Len(q) - 1
        /\ Head(q) = q[1] /\ \A i \in 1 .. Len(q) - 1 : Tail(q)[i] = q[i + 1]
    OBVIOUS
  <1>2. PICK r, n : r = Tail(q) /\ n = Len(q)
    OBVIOUS
  <1>3. /\ n \in Nat \ {0} /\ Len(r) = n - 1
        /\ \A i \in 1 .. n - 1 : r[i] = q[i + 1] /\ i + 1 \in 1 .. n /\ i + 1 # 1
    BY <1>1, <1>2
  <1>4. ASSUME NEW f, Has(r, f) PROVE \E i \in 1 .. n : i # 1 /\ q[i] = f
    BY <1>3, <1>4 DEF Has
  <1>5. ASSUME NEW f, Once(q, f) PROVE Once(r, f)
    <2>. SUFFICES ASSUME NEW i \in 1 .. n - 1, NEW j \in 1 .. n - 1, r[i] = f, r[j] = f
                  PROVE  i = j
      BY <1>3 DEF Once
    <2>1. i + 1 = j + 1
      BY <1>2, <1>3, <1>5 DEF Once
    <2>. QED BY <2>1
  <1>6. Has(q, Head(q))
    BY <1>1 DEF Has
  <1>7. Once(q, Head(q)) => ~Has(r, Head(q))
    BY <1>1, <1>2, <1>4 DEF Once
  <1>8. \A f : Keeps(r, q, f)
    BY <1>2, <1>4, <1>5 DEF Keeps, Has
  <1>. QED BY <1>1, <1>2, <1>6, <1>7, <1>8, Zenon

LEMMA AppendKeeps ==
  ASSUME NEW q \in Seq(Fns), NEW f \in Fns
  PROVE  /\ Append(q, f) \in Seq(Fns)
         /\ \A g : g # f => Keeps(Append(q, f), q, g)
         /\ ~Has(q, f) => Once(Append(q, f), f)
  <1>0. /\ Append(q, f) \in Seq(Fns) /\ Len(Append(q, f)) = Len(q) + 1 /\ Len(q) \in Nat
        /\ \A i \in 1 .. Len(q) : Append(q, f)[i] = q[i]
        /\ Append(q, f)[Len(q) + 1] = f
    OBVIOUS
  <1>1. PICK r, n : r = Append(q, f) /\ n = Len(q)
    OBVIOUS
  <1>2. /\ n \in Nat /\ r \in Seq(Fns) /\ Len(r) = n + 1
        /\ \A i \in 1 .. n : r[i] = q[i]
        /\ r[n + 1] = f
    BY <1>0, <1>1
  <1>3. ASSUME NEW i \in 1 .. n + 1, i # n + 1 PROVE i \in 1 .. n /\ r[i] = q[i]
    BY <1>2, <1>3
  <1>4. ASSUME NEW g, g # f, NEW i \in 1 .. n + 1, r[i] = g PROVE i \in 1 .. n /\ q[i] = g
    BY <1>2, <1>3, <1>4
  <1>5. ASSUME NEW g, g # f, Has(r, g) PROVE Has(q, g)
    BY <1>1, <1>2, <1>4, <1>5 DEF Has
  <1>6. ASSUME NEW g, g # f, Once(q, g) PROVE Once(r, g)
    <2>. SUFFICES ASSUME NEW i \in 1 .. n + 1, NEW j \in 1 .. n + 1, r[i] = g, r[j] = g
                  PROVE  i = j
      BY <1>2 DEF Once
    <2>1. i \in 1 .. n /\ q[i] = g /\ j \in 1 .. n /\ q[j] = g
      BY <1>4, <1>6
    <2>. QED BY <1>1, <1>6, <2>1 DEF Once
  <1>7. ASSUME ~Has(q, f) PROVE Once(r, f)
    <2>1. ASSUME NEW i \in 1 .. n + 1, r[i] = f PROVE i = n + 1
      BY <1>1, <1>3, <1>7, <2>1 DEF Has
    <2>. QED BY <1>2, <2>1 DEF Once
  <1>. QED BY <1>1, <1>2, <1>5, <1>6, <1>7, Zenon DEF Keeps

LEMMA SameLess == ASSUME NEW q \in Seq(Fns) PROVE Less(q, q)
BY DEF Less, Keeps

LEMMA AppendLess ==
  ASSUME NEW q \in Seq(Fns), NEW f \in Fns, f # Start, \A s \in Sockets : Gone(s) # f
  PROVE  Less(Append(q, f), q)
BY AppendKeeps, Zenon DEF Less

LEMMA LessTrans == ASSUME NEW p, NEW q, NEW r, Less(p, q), Less(q, r) PROVE Less(p, r)
BY Zenon DEF Less, Keeps

(* One connectDestroyed was added, and the rest kept. *)
Adds(r, q, s) ==
  /\ r \in Seq(Fns)
  /\ Keeps(r, q, Start)
  /\ \A t \in Sockets : t # s => Keeps(r, q, Gone(t))
  /\ ~Has(q, Gone(s)) => Once(r, Gone(s))

LEMMA AppendAdds ==
  ASSUME NEW q, NEW p, Less(q, p), q \in Seq(Fns), NEW s \in Sockets
  PROVE  Adds(Append(q, Gone(s)), p, s)
  <1>1. /\ Gone(s) \in Fns /\ Start # Gone(s)
        /\ \A t \in Sockets : t # s => Gone(t) # Gone(s)
    BY FnFacts, Zenon
  <1>2. PICK r : r = Append(q, Gone(s))
    OBVIOUS
  <1>3. /\ r \in Seq(Fns)
        /\ \A g : g # Gone(s) => Keeps(r, q, g)
        /\ ~Has(q, Gone(s)) => Once(r, Gone(s))
    BY <1>1, <1>2, AppendKeeps, Zenon
  <1>4. Adds(r, q, s)
    BY <1>1, <1>3, Zenon DEF Adds
  <1>. QED BY <1>2, <1>4, Zenon DEF Adds, Less, Keeps

(* The function whose turn it is. *)
LEMMA TurnFacts ==
  ASSUME TypeOK, NEW op, Turn(op)
  PROVE  /\ Less(Tail(funcs_), funcs_)
         /\ op = "start" => /\ Has(funcs_, Start)
                            /\ Once(funcs_, Start) => ~Has(Tail(funcs_), Start)
         /\ op \in SocketOps => Arg \in Sockets
         /\ op = "destroyed" => /\ Has(funcs_, Gone(Arg))
                                /\ Once(funcs_, Gone(Arg)) => ~Has(Tail(funcs_), Gone(Arg))
  <1>1. funcs_ \in Seq(Fns) /\ funcs_ # <<>> /\ Head(funcs_).op = op
    BY Zenon DEF TypeOK, Turn
  <1>2. PICK h, r : h = Head(funcs_) /\ r = Tail(funcs_)
    OBVIOUS
  <1>3. /\ r \in Seq(Fns) /\ h \in Fns /\ h.op = op
        /\ \A f : Keeps(r, funcs_, f)
        /\ Has(funcs_, h)
        /\ Once(funcs_, h) => ~Has(r, h)
    BY <1>1, <1>2, TailKeeps, Zenon
  <1>4. /\ op = "start" => h = Start
        /\ op \in SocketOps => h.sock \in Sockets
        /\ op = "destroyed" => h = Gone(h.sock)
    BY <1>3, FnFacts, Zenon
  <1>5. Less(r, funcs_)
    BY <1>3, Zenon DEF Less
  <1>6. Arg = h.sock
    BY <1>2 DEF Arg
  <1>. QED BY <1>2, <1>3, <1>4, <1>5, <1>6, Zenon

(* What removeAndResetChannel adds. *)
LEMMA RemoveLess ==
  ASSUME TypeOK, NEW q \in Seq(Fns), Less(q, funcs_), removeAndResetChannel(q)
  PROVE  channelPtr_' = None /\ Less(funcs_', funcs_)
  <1>1. Less(Append(q, Fn("keep")), q)
    BY FnFacts, AppendLess, Zenon
  <1>2. Less(Append(q, Fn("keep")), funcs_)
    BY <1>1, LessTrans, Zenon
  <1>. QED BY <1>2, Zenon DEF removeAndResetChannel

-----------------------------------------------------------------------------
(* What the operators that actions share do to the types *)

LEMMA OpenedNext ==
  ASSUME TypeOK, opened < MaxSockets
  PROVE  opened + 1 \in Sockets /\ opened + 1 > opened
BY BoundsAssumption DEF TypeOK, Sockets

LEMMA CloseSocketType ==
  ASSUME closings \in [Sockets -> Nat], NEW s \in Sockets, CloseSocket(s)
  PROVE  /\ closings' \in [Sockets -> Nat]
         /\ closings'[s] = closings[s] + 1
         /\ \A t \in Sockets : t # s => closings'[t] = closings[t]
BY DEF CloseSocket

ConnectTypes ==
  /\ status_' \in {"Disconnected", "Connecting", "Connected"}
  /\ fd_' \in Sockets \cup {None} /\ channelPtr_' \in Sockets \cup {None}
  /\ socketHanded_' \in BOOLEAN /\ early' \in BOOLEAN /\ (early' => retry_)
  /\ timers' \in Nat /\ opened' \in 0 .. MaxSockets
  /\ closings' \in [Sockets -> Nat]

LEMMA ConnectType ==
  ASSUME TypeOK, NEW n \in Nat, startInLoop(n)
  PROVE  ConnectTypes
  <1>1. CASE status_ = "Disconnected"
    <2>1. connect(n)
      BY <1>1, Zenon DEF startInLoop
    <2>2. PICK s : s = opened + 1
      OBVIOUS
    <2>3. opened < MaxSockets /\ opened' = s /\ fd_' = s /\ s \in Sockets
      BY <2>1, <2>2, OpenedNext DEF connect
    <2>4. s \in 0 .. MaxSockets
      BY <2>3, BoundsAssumption DEF Sockets
    <2>5. CASE connecting(s) /\ socketHanded_' = FALSE /\ timers' = n
               /\ UNCHANGED <<closings, early>>
      BY <2>3, <2>4, <2>5 DEF connecting, TypeOK, ConnectTypes
    <2>6. CASE /\ IF retry_ THEN Retry(s, n)
                  ELSE timers' = n /\ UNCHANGED <<closings, status_>>
               /\ socketHanded_' = FALSE /\ early' = retry_
               /\ UNCHANGED <<channelPtr_, aborted>>
      <3>1. closings' \in [Sockets -> Nat] /\ timers' \in Nat
            /\ status_' \in {"Disconnected", "Connecting", "Connected"}
        <4>1. CASE retry_
          <5>1. CloseSocket(s) /\ status_' = "Disconnected" /\ timers' = n + 1
            BY <2>6, <4>1, Zenon DEF Retry
          <5>. QED BY <2>3, <5>1, CloseSocketType DEF TypeOK
        <4>2. CASE ~retry_
          BY <2>6, <4>2 DEF TypeOK
        <4>. QED BY <4>1, <4>2
      <3>. QED BY <2>3, <2>4, <2>6, <3>1 DEF TypeOK, ConnectTypes
    <2>7. CASE /\ CloseSocket(s) /\ socketHanded_' = TRUE /\ timers' = n
               /\ UNCHANGED <<status_, channelPtr_, early, aborted>>
      BY <2>3, <2>4, <2>7, CloseSocketType DEF TypeOK, ConnectTypes
    <2>. QED BY <2>1, <2>2, <2>5, <2>6, <2>7, Zenon DEF connect
  <1>2. CASE status_ # "Disconnected"
    BY <1>2 DEF startInLoop, TypeOK, ConnectTypes
  <1>. QED BY <1>1, <1>2

LEMMA GiveUpType ==
  ASSUME TypeOK, NEW s \in Sockets, GiveUp(s)
  PROVE  /\ CloseSocket(s) /\ closings' \in [Sockets -> Nat]
         /\ retry_ => status_' = "Disconnected" /\ timers' = timers + 1
         /\ ~retry_ => timers' = timers
         /\ timers' \in Nat
BY CloseSocketType DEF GiveUp, Retry, TypeOK

States == {"none", "up", "shut", "closed", "gone"}

LEMMA HandleCloseType ==
  ASSUME TypeOK, NEW s \in Sockets, NEW q \in Seq(Fns), Less(q, funcs_), HandleClose(s, q)
  PROVE  /\ conn' = [conn EXCEPT ![s] = "closed"] /\ conn' \in [Sockets -> States]
         /\ connection_' = connection_ \/ connection_' = None
         /\ client = "alive" /\ connection_ = s => connection_' = None
         /\ client = "alive" /\ connection_ # s => connection_' = connection_
         /\ Less(funcs_', funcs_) \/ Adds(funcs_', funcs_, s)
         /\ funcs_' \in Seq(Fns)
  <1>1. /\ conn' = [conn EXCEPT ![s] = "closed"] /\ conn' \in [Sockets -> States]
        /\ connection_' = connection_ \/ connection_' = None
        /\ client = "alive" /\ connection_ = s => connection_' = None
        /\ client = "alive" /\ connection_ # s => connection_' = connection_
    BY DEF HandleClose, TypeOK, States
  <1>2. Adds(Append(q, Gone(s)), funcs_, s)
    BY AppendAdds, Zenon
  <1>3. Less(funcs_', funcs_) \/ Adds(funcs_', funcs_, s)
    BY <1>2, Zenon DEF HandleClose, Gone
  <1>. QED BY <1>1, <1>3, Zenon DEF Less, Adds

-----------------------------------------------------------------------------
(* The types are kept *)

LEMMA TypeInit == Init => TypeOK
  <1>1. 0 \in 0 .. MaxSockets
    BY BoundsAssumption
  <1>2. Init => funcs_ \in Seq(Fns) /\ opened \in 0 .. MaxSockets
    BY <1>1 DEF Init
  <1>3. Init => /\ conn \in [Sockets -> {"none", "up", "shut", "closed", "gone"}]
                /\ closings \in [Sockets -> Nat]
    BY DEF Init
  <1>4. Init => /\ retry_ \in BOOLEAN /\ away \in BOOLEAN /\ stopped \in BOOLEAN
                /\ early \in BOOLEAN /\ connector \in BOOLEAN /\ socketHanded_ \in BOOLEAN
                /\ early => retry_
    BY Zenon DEF Init
  <1>5. Init => /\ status_ \in {"Disconnected", "Connecting", "Connected"}
                /\ fd_ \in Sockets \cup {None} /\ channelPtr_ \in Sockets \cup {None}
                /\ connection_ \in Sockets \cup {None}
                /\ timers \in Nat /\ connects \in Nat
                /\ client \in {"alive", "dying", "dead"}
    BY DEF Init
  <1>. QED BY <1>2, <1>3, <1>4, <1>5, Zenon DEF TypeOK

LEMMA KernelType == ASSUME TypeOK, Kernel PROVE TypeOK'
  <1>1. CASE HandleWriteFail
    <2>1. /\ channelPtr_ \in Sockets /\ socketHanded_' = TRUE /\ removeAndResetChannel(funcs_)
          /\ GiveUp(channelPtr_) /\ (~retry_ => UNCHANGED status_)
          /\ UNCHANGED <<retry_, connect_, fd_, connector, client, calls, early, opened>>
          /\ UNCHANGED <<connection_, conn, aborted>>
      BY <1>1 DEF HandleWriteFail, Event, TypeOK
    <2>2. Less(funcs_', funcs_) /\ channelPtr_' = None
      BY <2>1, SameLess, RemoveLess DEF TypeOK
    <2>3. closings' \in [Sockets -> Nat] /\ timers' \in Nat /\ (retry_ => status_' = "Disconnected")
      BY <2>1, GiveUpType
    <2>. QED BY <2>1, <2>2, <2>3 DEF TypeOK, Less, calls
  <1>2. CASE HandleError
    <2>1. /\ channelPtr_ \in Sockets /\ socketHanded_' = TRUE /\ removeAndResetChannel(funcs_)
          /\ GiveUp(channelPtr_) /\ status_' = "Disconnected"
          /\ UNCHANGED <<retry_, connect_, fd_, connector, client, calls, early, opened>>
          /\ UNCHANGED <<connection_, conn, aborted>>
      BY <1>2 DEF HandleError, Event, TypeOK
    <2>2. Less(funcs_', funcs_) /\ channelPtr_' = None
      BY <2>1, SameLess, RemoveLess DEF TypeOK
    <2>3. closings' \in [Sockets -> Nat] /\ timers' \in Nat
      BY <2>1, GiveUpType
    <2>. QED BY <2>1, <2>2, <2>3 DEF TypeOK, Less, calls
  <1>3. CASE HandleWriteConnected
    <2>1. /\ channelPtr_ \in Sockets /\ socketHanded_' = TRUE /\ removeAndResetChannel(funcs_)
          /\ newConnection(channelPtr_) /\ status_' = "Connected"
          /\ UNCHANGED <<retry_, connect_, fd_, connector, client, calls, early, opened>>
          /\ UNCHANGED <<timers, closings, aborted>>
      BY <1>3 DEF HandleWriteConnected, Event, TypeOK
    <2>2. Less(funcs_', funcs_) /\ channelPtr_' = None
      BY <2>1, SameLess, RemoveLess DEF TypeOK
    <2>3. conn' \in [Sockets -> States] /\ connection_' \in Sockets \cup {None}
      BY <2>1 DEF newConnection, TypeOK, States
    <2>. QED BY <2>1, <2>2, <2>3 DEF TypeOK, Less, calls, States
  <1>4. CASE HandleStopped
    BY <1>4 DEF HandleStopped, Event, TypeOK, calls
  <1>. QED BY <1>1, <1>2, <1>3, <1>4 DEF Kernel

LEMMA LoopType == ASSUME TypeOK, Loop PROVE TypeOK'
  <1>1. CASE RunStart
    <2>1. /\ funcs_' = Tail(funcs_) /\ Turn("start")
          /\ UNCHANGED <<retry_, connect_, connector, clnt, calls>>
      BY <1>1 DEF RunStart
    <2>2. funcs_' \in Seq(Fns)
      BY <2>1, TurnFacts, Zenon DEF Less
    <2>3. CASE connector
      <3>1. startInLoop(timers)
        BY <1>1, <2>3 DEF RunStart
      <3>2. ConnectTypes
        BY <3>1, ConnectType DEF TypeOK
      <3>. QED BY <2>1, <2>2, <3>2 DEF TypeOK, ConnectTypes, clnt, calls
    <2>4. CASE ~connector
      BY <1>1, <2>1, <2>2, <2>4 DEF RunStart, TypeOK, clnt, calls
    <2>. QED BY <2>3, <2>4
  <1>2. CASE RunRemove
    <2>1. /\ removeAndResetChannel(Tail(funcs_)) /\ Turn("remove")
          /\ UNCHANGED <<retry_, connect_, status_, fd_, socketHanded_, timers, connector, clnt,
                         calls, early, opened, closings, aborted>>
      BY <1>2 DEF RunRemove
    <2>2. Less(Tail(funcs_), funcs_) /\ Tail(funcs_) \in Seq(Fns)
      BY <2>1, TurnFacts, Zenon DEF Less
    <2>3. Less(funcs_', funcs_) /\ channelPtr_' = None
      BY <2>1, <2>2, RemoveLess, Zenon
    <2>. QED BY <2>1, <2>3 DEF TypeOK, Less, clnt, calls
  <1>3. CASE RunKeep
    <2>1. funcs_' \in Seq(Fns)
      BY <1>3, TurnFacts, Zenon DEF Less, RunKeep
    <2>. QED BY <1>3, <2>1 DEF RunKeep, TypeOK, cntr, clnt, calls
  <1>4. CASE RunDestroyed
    <2>1. Turn("destroyed") /\ "destroyed" \in SocketOps
      BY <1>4 DEF RunDestroyed, SocketOps
    <2>2. funcs_' \in Seq(Fns) /\ Arg \in Sockets
      BY <1>4, <2>1, TurnFacts, Zenon DEF Less, RunDestroyed
    <2>3. closings' \in [Sockets -> Nat]
      BY <1>4, <2>2, CloseSocketType DEF RunDestroyed, TypeOK
    <2>4. conn' \in [Sockets -> States]
      BY <1>4, <2>2 DEF RunDestroyed, TypeOK, States
    <2>5. UNCHANGED <<cntr, connector, client, connection_, calls, early, opened, aborted>>
      BY <1>4 DEF RunDestroyed
    <2>. QED BY <2>2, <2>3, <2>4, <2>5 DEF TypeOK, cntr, calls, States
  <1>5. CASE RunForceClose
    <2>1. /\ Turn("close") /\ "close" \in SocketOps /\ ForceClose(Arg, Tail(funcs_))
          /\ UNCHANGED <<cntr, connector, client, calls, early, opened, closings>>
      BY <1>5 DEF RunForceClose, SocketOps
    <2>2. Less(Tail(funcs_), funcs_) /\ Tail(funcs_) \in Seq(Fns) /\ Arg \in Sockets
      BY <2>1, TurnFacts, Zenon DEF Less
    <2>3. /\ conn' \in [Sockets -> States] /\ connection_' \in {connection_, None}
          /\ funcs_' \in Seq(Fns)
      <3>1. CASE Open(Arg)
        BY <2>1, <2>2, <3>1, HandleCloseType DEF ForceClose
      <3>2. CASE ~Open(Arg)
        BY <2>1, <2>2, <3>2 DEF ForceClose, TypeOK, States
      <3>. QED BY <3>1, <3>2
    <2>. QED BY <2>1, <2>3 DEF TypeOK, cntr, calls, States
  <1>6. CASE RunShutdown
    <2>1. Turn("shutdown") /\ "shutdown" \in SocketOps
      BY <1>6 DEF RunShutdown, SocketOps
    <2>2. funcs_' \in Seq(Fns) /\ Arg \in Sockets
      BY <1>6, <2>1, TurnFacts, Zenon DEF Less, RunShutdown
    <2>. QED BY <1>6, <2>2 DEF RunShutdown, ShutdownInLoop, TypeOK, cntr, calls
  <1>. QED BY <1>1, <1>2, <1>3, <1>4, <1>5, <1>6 DEF Loop

LEMMA RestType ==
  ASSUME TypeOK, RetryTimer \/ PeerCloses \/ ConnectorDtor
  PROVE  TypeOK'
  <1>1. CASE RetryTimer
    <2>1. startInLoop(timers - 1) /\ timers - 1 \in Nat
      BY <1>1 DEF RetryTimer, TypeOK
    <2>2. ConnectTypes
      BY <2>1, ConnectType
    <2>. QED BY <1>1, <2>2 DEF RetryTimer, TypeOK, ConnectTypes, clnt, calls
  <1>2. CASE PeerCloses
    <2>1. PICK s \in Sockets :
            /\ HandleClose(s, funcs_)
            /\ UNCHANGED <<cntr, connector, client, calls, early, opened, closings>>
      BY <1>2 DEF PeerCloses
    <2>2. /\ conn' \in [Sockets -> States] /\ connection_' \in {connection_, None}
          /\ funcs_' \in Seq(Fns)
      BY <2>1, SameLess, HandleCloseType DEF TypeOK
    <2>. QED BY <2>1, <2>2 DEF TypeOK, cntr, calls, States
  <1>3. CASE ConnectorDtor
    <2>1. closings' \in [Sockets -> Nat]
      BY <1>3, CloseSocketType DEF ConnectorDtor, TypeOK
    <2>. QED BY <1>3, <2>1 DEF ConnectorDtor, TypeOK, cntr, clnt, calls
  <1>. QED BY <1>1, <1>2, <1>3

LEMMA StopFacts ==
  ASSUME TypeOK, ConnectorStop
  PROVE  /\ status_' = "Disconnected" /\ Less(funcs_', funcs_)
         /\ channelPtr_' = None \/ channelPtr_' = channelPtr_
         /\ ~away => channelPtr_' = None
  <1>1. funcs_ \in Seq(Fns) /\ Less(funcs_, funcs_)
    BY SameLess DEF TypeOK
  <1>2. CASE away
    <2>1. Less(Append(funcs_, Fn("remove")), funcs_)
      BY <1>1, FnFacts, AppendLess, Zenon
    <2>. QED BY <1>2, <2>1 DEF ConnectorStop
  <1>3. CASE ~away
    <2>1. removeAndResetChannel(funcs_) /\ status_' = "Disconnected"
      BY <1>3, Zenon DEF ConnectorStop
    <2>. QED BY <1>1, <1>3, <2>1, RemoveLess, Zenon
  <1>. QED BY <1>2, <1>3

LEMMA UserType == ASSUME TypeOK, User PROVE TypeOK'
  <1>1. CASE Connect
    <2>1. /\ connects' \in Nat /\ stopped' \in BOOLEAN
          /\ UNCHANGED <<retry_, connector, client, connection_, conn, away>>
      <3>1. /\ connects' = connects + 1 /\ stopped' = FALSE /\ connects \in Nat
            /\ UNCHANGED <<retry_, connector, clnt, away>>
        BY <1>1, Zenon DEF Connect, TypeOK
      <3>2. connects' \in Nat
        BY <3>1
      <3>. QED BY <3>1, <3>2, Zenon DEF clnt
    <2>2. CASE away
      <3>1. Append(funcs_, Start) \in Seq(Fns)
        BY FnFacts, AppendKeeps DEF TypeOK
      <3>2. /\ funcs_' \in Seq(Fns)
            /\ UNCHANGED <<status_, fd_, socketHanded_, channelPtr_, timers, early, opened,
                           closings>>
        BY <1>1, <2>2, <3>1 DEF Connect, Start
      <3>. QED BY <2>1, <3>2 DEF TypeOK
    <2>3. CASE ~away
      <3>1. startInLoop(timers) /\ UNCHANGED funcs_
        BY <1>1, <2>3 DEF Connect
      <3>2. ConnectTypes
        BY <3>1, ConnectType DEF TypeOK
      <3>. QED BY <2>1, <3>1, <3>2 DEF TypeOK, ConnectTypes
    <2>. QED BY <2>2, <2>3
  <1>2. CASE Disconnect
    <2>1. /\ connection_ \in Sockets
          /\ UNCHANGED <<cntr, connector, client, connection_, calls, early, opened, closings,
                         aborted>>
      BY <1>2 DEF Disconnect, TypeOK
    <2>2. CASE away
      <3>1. Append(funcs_, FnOf("shutdown", connection_)) \in Seq(Fns)
        BY <2>1, FnFacts, AppendKeeps DEF TypeOK
      <3>2. funcs_' \in Seq(Fns) /\ conn' = conn
        BY <1>2, <2>2, <3>1 DEF Disconnect
      <3>. QED BY <2>1, <3>2 DEF TypeOK, cntr, calls
    <2>3. CASE ~away
      <3>1. funcs_' \in Seq(Fns) /\ conn' \in [Sockets -> States]
        BY <1>2, <2>1, <2>3 DEF Disconnect, ShutdownInLoop, TypeOK, States
      <3>. QED BY <2>1, <3>1 DEF TypeOK, cntr, calls, States
    <2>. QED BY <2>2, <2>3
  <1>3. CASE Stop
    <2>1. /\ stopped' = TRUE /\ ConnectorStop
          /\ UNCHANGED <<retry_, connect_, fd_, socketHanded_, timers, connector, clnt, away,
                         connects, early, opened, closings, aborted>>
      BY <1>3 DEF Stop
    <2>2. /\ status_' = "Disconnected" /\ funcs_' \in Seq(Fns)
          /\ channelPtr_' = None \/ channelPtr_' = channelPtr_
      BY <2>1, StopFacts, Zenon DEF Less
    <2>. QED BY <2>1, <2>2 DEF TypeOK, clnt
  <1>4. CASE Drop
    BY <1>4 DEF Drop, TypeOK, cntr, calls
  <1>5. CASE Destroy
    <2>1. /\ client' = "dead"
          /\ UNCHANGED <<retry_, connect_, fd_, socketHanded_, timers, connector, connection_,
                         calls, early, opened, closings, aborted>>
      BY <1>5 DEF Destroy
    <2>2. CASE connection_ = None
      <3>1. ConnectorStop /\ conn' = conn
        BY <1>5, <2>2 DEF Destroy
      <3>2. /\ status_' = "Disconnected" /\ funcs_' \in Seq(Fns)
            /\ channelPtr_' = None \/ channelPtr_' = channelPtr_
        BY <3>1, StopFacts, Zenon DEF Less
      <3>. QED BY <2>1, <3>1, <3>2 DEF TypeOK, calls
    <2>3. CASE connection_ # None
      <3>1. connection_ \in Sockets /\ UNCHANGED <<status_, channelPtr_>>
        BY <1>5, <2>3 DEF Destroy, TypeOK
      <3>2. /\ Append(funcs_, FnOf("close", connection_)) \in Seq(Fns)
            /\ Append(funcs_, FnOf("destroyed", connection_)) \in Seq(Fns)
        BY <3>1, FnFacts, AppendKeeps DEF TypeOK, Gone
      <3>3. funcs_' \in Seq(Fns)
        BY <1>5, <2>3, <3>2, Zenon DEF Destroy
      <3>4. conn' \in [Sockets -> States]
        BY <1>5, <2>3, <3>1 DEF Destroy, TypeOK, States
      <3>. QED BY <2>1, <3>1, <3>3, <3>4 DEF TypeOK, calls, States
    <2>. QED BY <2>2, <2>3
  <1>. QED BY <1>1, <1>2, <1>3, <1>4, <1>5 DEF User

LEMMA TypeStep == ASSUME TypeOK, [Next]_vars PROVE TypeOK'
  <1>1. CASE UNCHANGED vars
    BY <1>1 DEF TypeOK, vars, cntr, clnt, calls
  <1>2. CASE Next
    BY <1>2, KernelType, LoopType, RestType, UserType, Zenon DEF Next
  <1>. QED BY <1>1, <1>2

-----------------------------------------------------------------------------
(* Who may close a socket: one step at a time *)

(* Nothing is closed, nor newly owned. *)
LEMMA QuietOwned ==
  ASSUME TypeOK, TypeOK', Owned, \A s \in Sockets : Keeps(funcs_', funcs_, Gone(s)),
         UNCHANGED <<opened, fd_, closings, connector, connection_>>,
         channelPtr_' = channelPtr_ \/ channelPtr_' = None,
         socketHanded_' = socketHanded_ \/ socketHanded_' = TRUE,
         client' = client \/ client' # "alive",
         \A s \in Sockets : conn'[s] = conn[s] \/ (conn[s] = "up" /\ conn'[s] = "shut")
  PROVE  Owned'
  <1>1. Unopened' /\ OfChannel'
    BY DEF Owned, Unopened, OfChannel, TypeOK
  <1>2. OfConnector'
    BY DEF Owned, OfConnector, TypeOK
  <1>3. OfConnection'
    BY DEF Owned, OfConnection, TypeOK, Open
  <1>4. DestroyedOnce'
    BY DEF Owned, DestroyedOnce, Keeps
  <1>. QED BY <1>1, <1>2, <1>3, <1>4 DEF Owned

(* The socket of the channel is closed. *)
LEMMA GiveUpOwned ==
  ASSUME TypeOK, TypeOK', Owned, channelPtr_ # None, CloseSocket(channelPtr_),
         channelPtr_' = None, socketHanded_' = TRUE, Less(funcs_', funcs_),
         UNCHANGED <<opened, fd_, connector, client, connection_, conn>>
  PROVE  Owned'
  <1>1. PICK s \in Sockets : s = channelPtr_
    BY DEF TypeOK
  <1>2. /\ closings'[s] = closings[s] + 1
        /\ \A t \in Sockets : t # s => closings'[t] = closings[t]
    BY <1>1, CloseSocketType DEF TypeOK
  <1>3. closings[s] = 0 /\ conn[s] = "none" /\ s <= opened
    BY <1>1 DEF Owned, OfChannel, Unopened
  <1>4. Unopened'
    BY <1>1, <1>2, <1>3 DEF Owned, Unopened, TypeOK, Sockets
  <1>5. OfChannel' /\ OfConnector'
    BY DEF OfChannel, OfConnector
  <1>6. OfConnection'
    BY <1>2, <1>3 DEF Owned, OfConnection, TypeOK, Open
  <1>7. DestroyedOnce'
    BY DEF Owned, DestroyedOnce, Less, Keeps
  <1>. QED BY <1>4, <1>5, <1>6, <1>7 DEF Owned

(* The socket of the channel becomes a connection, or is lost. *)
LEMMA ConnectedOwned ==
  ASSUME TypeOK, TypeOK', Owned, channelPtr_ # None, newConnection(channelPtr_),
         channelPtr_' = None, socketHanded_' = TRUE, Less(funcs_', funcs_),
         UNCHANGED <<opened, fd_, connector, client, closings>>
  PROVE  Owned'
  <1>1. PICK s \in Sockets : s = channelPtr_
    BY DEF TypeOK
  <1>3. closings[s] = 0 /\ conn[s] = "none" /\ s <= opened
    BY <1>1 DEF Owned, OfChannel, Unopened
  <1>2. CASE client # "alive"
    BY <1>2, QuietOwned DEF newConnection, Less
  <1>0. CASE client = "alive"
    <2>1. /\ conn'[s] = "up" /\ connection_' = s
          /\ \A t \in Sockets : t # s => conn'[t] = conn[t]
      BY <1>0, <1>1 DEF newConnection, TypeOK
    <2>2. Unopened'
      BY <1>1, <1>3, <2>1 DEF Owned, Unopened, TypeOK, Sockets
    <2>3. OfChannel' /\ OfConnector'
      BY DEF OfChannel, OfConnector
    <2>4. OfConnection'
      BY <1>3, <2>1 DEF Owned, OfConnection, TypeOK, Open
    <2>5. DestroyedOnce'
      BY <1>3, <2>1 DEF Owned, DestroyedOnce, Less, Keeps
    <2>. QED BY <2>2, <2>3, <2>4, <2>5 DEF Owned
  <1>. QED BY <1>0, <1>2

(* An open connection is closed: connectDestroyed is queued, or an         *)
(* assertion fails.                                                        *)
Closes(s) ==
  /\ Open(s) /\ conn' = [conn EXCEPT ![s] = "closed"]
  /\ client' = client \/ client' = "dead"
  /\ client' = "alive" => connection_' = IF connection_ = s THEN None ELSE connection_
  /\ Less(funcs_', funcs_) \/ Adds(funcs_', funcs_, s)
  /\ UNCHANGED <<opened, fd_, closings, connector, channelPtr_, socketHanded_>>

LEMMA CloseOwned ==
  ASSUME TypeOK, TypeOK', Owned, NEW s \in Sockets, Closes(s)
  PROVE  Owned'
  <1>0. /\ Open(s) /\ conn' = [conn EXCEPT ![s] = "closed"]
        /\ client' = "alive" =>
             client = "alive" /\ connection_' = IF connection_ = s THEN None ELSE connection_
        /\ Less(funcs_', funcs_) \/ Adds(funcs_', funcs_, s)
        /\ UNCHANGED <<opened, fd_, closings, connector, channelPtr_, socketHanded_>>
    BY DEF Closes
  <1>1. conn'[s] = "closed" /\ \A t \in Sockets : t # s => conn'[t] = conn[t]
    BY <1>0 DEF TypeOK
  <1>2. closings[s] = 0 /\ conn[s] \in {"up", "shut"} /\ s <= opened
    BY <1>0 DEF Owned, OfConnection, Open, Unopened, TypeOK, Sockets
  <1>3. Unopened'
    BY <1>0, <1>1, <1>2 DEF Owned, Unopened, TypeOK, Sockets
  <1>4. OfChannel' /\ OfConnector'
    BY <1>0, <1>1, <1>2 DEF Owned, OfChannel, OfConnector, TypeOK
  <1>5. OfConnection'
    BY <1>0, <1>1, <1>2 DEF Owned, OfConnection, TypeOK, Open
  <1>6. ~Has(funcs_, Gone(s))
    BY <1>2 DEF Owned, DestroyedOnce
  <1>7. DestroyedOnce'
    BY <1>0, <1>1, <1>6 DEF Owned, DestroyedOnce, Less, Adds, Keeps
  <1>. QED BY <1>3, <1>4, <1>5, <1>7 DEF Owned

(* A socket is opened, or the assertion of startInLoop fails. *)
LEMMA ConnectOwned ==
  ASSUME TypeOK, TypeOK', early \/ Owned, NEW n \in Nat, startInLoop(n),
         \A s \in Sockets : Keeps(funcs_', funcs_, Gone(s)),
         UNCHANGED <<retry_, connector, client, connection_, conn>>
  PROVE  (early \/ Owned)'
  <1>. SUFFICES ASSUME ~early' PROVE Owned'
    OBVIOUS
  <1>1. CASE status_ # "Disconnected"
    <2>1. UNCHANGED <<fd_, socketHanded_, channelPtr_, early, opened, closings>>
      BY <1>1 DEF startInLoop
    <2>2. Owned
      BY <2>1
    <2>. QED BY <2>1, <2>2, QuietOwned
  <1>2. CASE status_ = "Disconnected"
    <2>0. connect(n)
      BY <1>2, Zenon DEF startInLoop
    <2>1. PICK s : s = opened + 1
      OBVIOUS
    <2>2. opened < MaxSockets /\ opened' = s /\ fd_' = s /\ s \in Sockets /\ s > opened
      BY <2>0, <2>1, OpenedNext DEF connect
    <2>3. early => early'
      <3>1. early => retry_
        BY Zenon DEF TypeOK
      <3>2. early' = early \/ early' = retry_
        BY <2>0 DEF connect
      <3>. QED BY <3>1, <3>2, Zenon
    <2>4. Owned
      BY <2>3
    <2>5. closings[s] = 0 /\ conn[s] = "none"
      BY <2>2, <2>4 DEF Owned, Unopened
    <2>6. channelPtr_ # s /\ \A t \in Sockets : t > s => t > opened
      <3>1. s \in 1 .. MaxSockets /\ opened \in Nat /\ MaxSockets \in Nat
        BY <2>2, BoundsAssumption DEF TypeOK, Sockets
      <3>2. \A t \in Sockets : t > s => t > opened
        BY <2>2, <3>1 DEF Sockets
      <3>3. channelPtr_ # None => channelPtr_ # s
        BY <2>2, <2>4, <3>1 DEF Owned, Unopened
      <3>4. None # s
        BY <2>2, BoundsAssumption
      <3>. QED BY <3>2, <3>3, <3>4
    <2>7. DestroyedOnce'
      BY <2>4 DEF Owned, DestroyedOnce, Keeps
    <2>8. CASE closings' = closings /\ channelPtr_' \in {s, channelPtr_}
      <3>1. Unopened'
        BY <2>2, <2>4, <2>6, <2>8 DEF Owned, Unopened, TypeOK, Sockets
      <3>2. OfChannel' /\ OfConnector'
        BY <2>2, <2>4, <2>5, <2>8 DEF Owned, OfChannel, OfConnector
      <3>3. OfConnection'
        BY <2>4, <2>8 DEF Owned, OfConnection, Open
      <3>. QED BY <2>7, <3>1, <3>2, <3>3 DEF Owned
    <2>9. CASE CloseSocket(s) /\ channelPtr_' = channelPtr_ /\ socketHanded_' = TRUE
      <3>0. closings'[s] = 1 /\ \A t \in Sockets : t # s => closings'[t] = closings[t]
        BY <2>2, <2>5, <2>9, CloseSocketType DEF TypeOK
      <3>1. Unopened'
        BY <2>2, <2>4, <2>6, <2>9, <3>0 DEF Owned, Unopened, TypeOK, Sockets
      <3>2. OfChannel' /\ OfConnector'
        BY <2>4, <2>6, <2>9, <3>0 DEF Owned, OfChannel, OfConnector, TypeOK
      <3>3. OfConnection'
        BY <2>4, <2>5, <3>0 DEF Owned, OfConnection, Open
      <3>. QED BY <2>7, <3>1, <3>2, <3>3 DEF Owned
    <2>10. CASE connecting(s) /\ UNCHANGED <<closings, early>>
      BY <2>8, <2>10 DEF connecting
    <2>11. CASE /\ IF retry_ THEN Retry(s, n)
                   ELSE timers' = n /\ UNCHANGED <<closings, status_>>
                /\ early' = retry_ /\ UNCHANGED channelPtr_
      <3>1. ~retry_
        BY <2>11, Zenon
      <3>. QED BY <2>8, <2>11, <3>1
    <2>. QED BY <2>0, <2>1, <2>9, <2>10, <2>11, Zenon DEF connect
  <1>. QED BY <1>1, <1>2

(* connectDestroyed closes the socket of its connection. *)
LEMMA DestroyedOwned == ASSUME TypeOK, TypeOK', Owned, RunDestroyed PROVE Owned'
  <1>1. Turn("destroyed") /\ "destroyed" \in SocketOps /\ funcs_' = Tail(funcs_)
    BY DEF RunDestroyed, SocketOps
  <1>2. PICK s \in Sockets : s = Arg
    BY <1>1, TurnFacts, Zenon
  <1>3. /\ Less(funcs_', funcs_) /\ Has(funcs_, Gone(s))
        /\ Once(funcs_, Gone(s)) => ~Has(funcs_', Gone(s))
    BY <1>1, <1>2, TurnFacts, Zenon
  <1>4. conn[s] = "closed" /\ closings[s] = 0 /\ ~Has(funcs_', Gone(s))
    BY <1>3 DEF Owned, DestroyedOnce, OfConnection
  <1>5. /\ conn' = [conn EXCEPT ![s] = "gone"] /\ CloseSocket(s)
        /\ UNCHANGED <<cntr, connector, client, connection_, opened>>
    BY <1>2 DEF RunDestroyed
  <1>6. conn'[s] = "gone" /\ \A t \in Sockets : t # s => conn'[t] = conn[t]
    BY <1>5 DEF TypeOK
  <1>7. closings'[s] = 1 /\ \A t \in Sockets : t # s => closings'[t] = closings[t]
    BY <1>4, <1>5, CloseSocketType DEF TypeOK
  <1>8. UNCHANGED <<fd_, channelPtr_, socketHanded_, connector, client, connection_, opened>>
    BY <1>5 DEF cntr
  <1>9. Unopened'
    BY <1>4, <1>6, <1>7, <1>8 DEF Owned, Unopened
  <1>10. OfChannel' /\ OfConnector'
    BY <1>4, <1>6, <1>7, <1>8 DEF Owned, OfChannel, OfConnector, TypeOK
  <1>11. OfConnection'
    <2>1. \A t \in Sockets :
            closings'[t] <= 1 /\ (conn'[t] \in {"up", "shut", "closed"} => closings'[t] = 0)
      BY <1>6, <1>7 DEF Owned, OfConnection
    <2>2. ASSUME client = "alive", connection_ # None PROVE Open(connection_)'
      <3>1. Open(connection_) /\ connection_ \in Sockets
        BY <2>2 DEF Owned, OfConnection, TypeOK
      <3>2. connection_ # s /\ connection_' = connection_
        BY <1>4, <1>8, <3>1 DEF Open
      <3>. QED BY <1>6, <3>1, <3>2 DEF Open
    <2>. QED BY <1>8, <2>1, <2>2 DEF OfConnection
  <1>12. DestroyedOnce'
    BY <1>3, <1>4, <1>6 DEF Owned, DestroyedOnce, Less, Keeps
  <1>. QED BY <1>9, <1>10, <1>11, <1>12 DEF Owned

(* ~Connector closes a socket that was not handed over. *)
LEMMA DtorOwned == ASSUME TypeOK, TypeOK', Owned, ConnectorDtor PROVE Owned'
  <1>1. /\ connector /\ channelPtr_ = None /\ connector' = FALSE
        /\ UNCHANGED <<cntr, clnt, calls, early, funcs_, opened, aborted>>
    BY Zenon DEF ConnectorDtor, Referenced
  <1>2. UNCHANGED <<fd_, channelPtr_, socketHanded_, client, connection_, conn, opened, funcs_>>
    BY <1>1 DEF cntr, clnt
  <1>3. OfChannel' /\ OfConnector'
    BY <1>1, <1>2, Zenon DEF OfChannel, OfConnector
  <1>4. DestroyedOnce'
    BY <1>2 DEF Owned, DestroyedOnce
  <1>5. CASE closings' = closings
    BY <1>2, <1>3, <1>4, <1>5 DEF Owned, Unopened, OfConnection, Open
  <1>6. CASE ~socketHanded_ /\ fd_ # None /\ CloseSocket(fd_)
    <2>1. PICK s \in Sockets : s = fd_
      BY <1>6 DEF TypeOK
    <2>2. closings[s] = 0 /\ conn[s] = "none"
      BY <1>1, <1>6, <2>1, Zenon DEF Owned, OfConnector
    <2>3. s <= opened
      BY <1>6, <2>1 DEF Owned, Unopened
    <2>4. closings'[s] = 1 /\ \A t \in Sockets : t # s => closings'[t] = closings[t]
      BY <1>6, <2>1, <2>2, CloseSocketType DEF TypeOK
    <2>5. Unopened'
      BY <1>1, <1>2, <2>3, <2>4 DEF Owned, Unopened, TypeOK, Sockets
    <2>6. OfConnection'
      BY <1>2, <2>2, <2>4 DEF Owned, OfConnection, Open, TypeOK
    <2>. QED BY <1>3, <1>4, <2>5, <2>6 DEF Owned
  <1>. QED BY <1>5, <1>6, Zenon DEF ConnectorDtor

LEMMA OpenType == ASSUME TypeOK, Owned, client = "alive", connection_ # None
                  PROVE  connection_ \in Sockets /\ Open(connection_)
BY DEF TypeOK, Owned, OfConnection

(* ~TcpClient, and the other calls. *)
LEMMA UserOwned == ASSUME TypeOK, TypeOK', early \/ Owned, User PROVE (early \/ Owned)'
  <1>0. \A s \in Sockets : Keeps(funcs_, funcs_, Gone(s))
    BY DEF Keeps
  <1>1. CASE Connect
    <2>1. UNCHANGED <<retry_, connector, client, connection_, conn>>
      BY <1>1, Zenon DEF Connect, clnt
    <2>2. CASE away
      <3>1. /\ funcs_' = Append(funcs_, Start)
            /\ UNCHANGED <<status_, fd_, socketHanded_, channelPtr_, timers, early, opened,
                           closings>>
        BY <1>1, <2>2, Zenon DEF Connect, Start
      <3>2. \A s \in Sockets : Gone(s) # Start
        BY FnFacts, Zenon
      <3>3. \A s \in Sockets : Keeps(funcs_', funcs_, Gone(s))
        BY <3>1, <3>2, FnFacts, AppendKeeps, Zenon DEF TypeOK
      <3>. QED BY <2>1, <3>1, <3>3, QuietOwned
    <2>3. CASE ~away
      <3>1. startInLoop(timers) /\ funcs_' = funcs_ /\ timers \in Nat
        BY <1>1, <2>3, Zenon DEF Connect, TypeOK
      <3>2. \A s \in Sockets : Keeps(funcs_', funcs_, Gone(s))
        BY <1>0, <3>1, Zenon
      <3>. QED BY <2>1, <3>1, <3>2, ConnectOwned, Zenon
    <2>. QED BY <2>2, <2>3
  <1>. SUFFICES ASSUME Owned, ~Connect PROVE Owned'
    <2>1. ~Connect => early' = early
      BY DEF User, Disconnect, Stop, Drop, Destroy
    <2>. QED BY <1>1, <2>1
  <1>2. CASE Disconnect
    <2>1. /\ connection_ \in Sockets
          /\ UNCHANGED <<channelPtr_, socketHanded_, fd_, connector, client, connection_, opened,
                         closings>>
      BY <1>2 DEF Disconnect, TypeOK, cntr
    <2>2. CASE away
      <3>1. funcs_' = Append(funcs_, FnOf("shutdown", connection_)) /\ conn' = conn
        BY <1>2, <2>2 DEF Disconnect
      <3>2. Less(funcs_', funcs_)
        BY <2>1, <3>1, FnFacts, AppendLess, Zenon DEF TypeOK
      <3>. QED BY <2>1, <3>1, <3>2, QuietOwned DEF Less
    <2>3. CASE ~away
      <3>1. /\ funcs_' = funcs_
            /\ \A s \in Sockets : conn'[s] = conn[s] \/ (conn[s] = "up" /\ conn'[s] = "shut")
        BY <1>2, <2>1, <2>3 DEF Disconnect, ShutdownInLoop, TypeOK
      <3>. QED BY <1>0, <2>1, <3>1, QuietOwned
    <2>. QED BY <2>2, <2>3
  <1>3. CASE Stop
    <2>1. ConnectorStop /\ UNCHANGED <<fd_, socketHanded_, connector, clnt, opened, closings>>
      BY <1>3 DEF Stop
    <2>2. Less(funcs_', funcs_) /\ (channelPtr_' = None \/ channelPtr_' = channelPtr_)
      BY <2>1, StopFacts
    <2>. QED BY <2>1, <2>2, QuietOwned DEF Less, clnt
  <1>4. CASE Drop
    BY <1>0, <1>4, QuietOwned DEF Drop, cntr
  <1>5. CASE Destroy
    <2>1. /\ client' = "dead"
          /\ UNCHANGED <<fd_, socketHanded_, connector, connection_, opened, closings>>
      BY <1>5 DEF Destroy
    <2>2. CASE connection_ = None
      <3>1. ConnectorStop /\ conn' = conn
        BY <1>5, <2>2 DEF Destroy
      <3>2. Less(funcs_', funcs_) /\ (channelPtr_' = None \/ channelPtr_' = channelPtr_)
        BY <3>1, StopFacts
      <3>. QED BY <2>1, <3>1, <3>2, QuietOwned DEF Less
    <2>3. CASE connection_ # None /\ away
      <3>1. /\ funcs_' = Append(funcs_, FnOf("close", connection_)) /\ conn' = conn
            /\ channelPtr_' = channelPtr_
        BY <1>5, <2>3 DEF Destroy
      <3>2. Less(funcs_', funcs_)
        <4>1. connection_ \in Sockets
          BY <2>3 DEF TypeOK
        <4>. QED BY <3>1, <4>1, FnFacts, AppendLess, Zenon DEF TypeOK
      <3>. QED BY <2>1, <3>1, <3>2, QuietOwned DEF Less
    <2>4. CASE connection_ # None /\ ~away
      <3>1. client = "alive"
        BY <1>5, <2>4, Zenon DEF Destroy
      <3>2. PICK s \in Sockets : s = connection_ /\ Open(s)
        BY <2>4, <3>1, OpenType
      <3>3. /\ funcs_' = Append(funcs_, Gone(s)) /\ conn' = [conn EXCEPT ![s] = "closed"]
            /\ channelPtr_' = channelPtr_
        BY <1>5, <2>4, <3>2 DEF Destroy, Gone
      <3>4. Adds(funcs_', funcs_, s)
        BY <3>3, SameLess, AppendAdds DEF TypeOK
      <3>5. Closes(s)
        BY <2>1, <3>2, <3>3, <3>4 DEF Closes
      <3>. QED BY <3>5, CloseOwned
    <2>. QED BY <2>2, <2>3, <2>4
  <1>. QED BY <1>2, <1>3, <1>4, <1>5, Zenon DEF User

LEMMA KernelOwned == ASSUME TypeOK, TypeOK', Owned, Kernel PROVE Owned'
  <1>1. CASE HandleWriteFail \/ HandleError
    <2>1. /\ channelPtr_ # None /\ socketHanded_' = TRUE /\ removeAndResetChannel(funcs_)
          /\ GiveUp(channelPtr_)
          /\ UNCHANGED <<opened, fd_, connector, client, connection_, conn>>
      BY <1>1 DEF HandleWriteFail, HandleError, Event
    <2>2. Less(funcs_', funcs_) /\ channelPtr_' = None
      BY <2>1, SameLess, RemoveLess DEF TypeOK
    <2>3. CloseSocket(channelPtr_)
      BY <2>1 DEF GiveUp, Retry
    <2>. QED BY <2>1, <2>2, <2>3, GiveUpOwned
  <1>2. CASE HandleWriteConnected
    <2>1. /\ channelPtr_ # None /\ socketHanded_' = TRUE /\ removeAndResetChannel(funcs_)
          /\ newConnection(channelPtr_)
          /\ UNCHANGED <<opened, fd_, connector, client, closings>>
      BY <1>2 DEF HandleWriteConnected, Event
    <2>2. Less(funcs_', funcs_) /\ channelPtr_' = None
      BY <2>1, SameLess, RemoveLess DEF TypeOK
    <2>. QED BY <2>1, <2>2, ConnectedOwned
  <1>3. CASE HandleStopped
    BY <1>3, QuietOwned DEF HandleStopped, Event, Keeps
  <1>. QED BY <1>1, <1>2, <1>3 DEF Kernel

LEMMA LoopOwned == ASSUME TypeOK, TypeOK', early \/ Owned, Loop PROVE (early \/ Owned)'
  <1>1. CASE RunStart
    <2>1. /\ funcs_' = Tail(funcs_) /\ Turn("start")
          /\ UNCHANGED <<retry_, connect_, connector, clnt, calls>>
      BY <1>1 DEF RunStart
    <2>2. Less(funcs_', funcs_)
      BY <2>1, TurnFacts, Zenon
    <2>3. CASE connector
      <3>1. startInLoop(timers) /\ timers \in Nat
        BY <1>1, <2>3, Zenon DEF RunStart, TypeOK
      <3>. QED BY <2>1, <2>2, <3>1, ConnectOwned DEF Less, clnt
    <2>4. CASE ~connector
      <3>1. UNCHANGED <<fd_, socketHanded_, channelPtr_, early, opened, closings>>
        BY <1>1, <2>4, Zenon DEF RunStart
      <3>. QED BY <2>1, <2>2, <3>1, QuietOwned DEF Less, clnt
    <2>. QED BY <2>3, <2>4
  <1>. SUFFICES ASSUME Owned, ~RunStart PROVE Owned'
    <2>1. ~RunStart => early' = early
      BY DEF Loop, RunRemove, RunKeep, RunDestroyed, RunForceClose, RunShutdown
    <2>. QED BY <1>1, <2>1
  <1>2. CASE RunRemove
    <2>1. /\ removeAndResetChannel(Tail(funcs_)) /\ Turn("remove")
          /\ UNCHANGED <<fd_, socketHanded_, connector, clnt, opened, closings>>
      BY <1>2 DEF RunRemove
    <2>2. Less(Tail(funcs_), funcs_) /\ Tail(funcs_) \in Seq(Fns)
      BY <2>1, TurnFacts, Zenon DEF Less
    <2>3. Less(funcs_', funcs_) /\ channelPtr_' = None
      BY <2>1, <2>2, RemoveLess, Zenon
    <2>. QED BY <2>1, <2>3, QuietOwned DEF Less, clnt
  <1>3. CASE RunKeep
    <2>1. Less(funcs_', funcs_)
      BY <1>3, TurnFacts, Zenon DEF RunKeep
    <2>. QED BY <1>3, <2>1, QuietOwned DEF RunKeep, Less, cntr, clnt
  <1>4. CASE RunDestroyed
    BY <1>4, DestroyedOwned
  <1>5. CASE RunForceClose
    <2>1. /\ Turn("close") /\ "close" \in SocketOps /\ ForceClose(Arg, Tail(funcs_))
          /\ UNCHANGED <<cntr, connector, client, opened, closings>>
      BY <1>5 DEF RunForceClose, SocketOps
    <2>2. Less(Tail(funcs_), funcs_) /\ Tail(funcs_) \in Seq(Fns) /\ Arg \in Sockets
      BY <2>1, TurnFacts, Zenon DEF Less
    <2>3. CASE Open(Arg)
      <3>1. HandleClose(Arg, Tail(funcs_))
        BY <2>1, <2>3 DEF ForceClose
      <3>2. /\ conn' = [conn EXCEPT ![Arg] = "closed"]
            /\ client = "alive" /\ connection_ = Arg => connection_' = None
            /\ client = "alive" /\ connection_ # Arg => connection_' = connection_
            /\ Less(funcs_', funcs_) \/ Adds(funcs_', funcs_, Arg)
        BY <2>2, <3>1, HandleCloseType
      <3>3. Closes(Arg)
        BY <2>1, <2>3, <3>2 DEF Closes, cntr
      <3>. QED BY <2>2, <3>3, CloseOwned, Zenon
    <2>4. CASE ~Open(Arg)
      BY <2>1, <2>2, <2>4, QuietOwned DEF ForceClose, cntr, Less
    <2>. QED BY <2>3, <2>4
  <1>6. CASE RunShutdown
    <2>1. Turn("shutdown") /\ "shutdown" \in SocketOps
      BY <1>6 DEF RunShutdown, SocketOps
    <2>2. Less(funcs_', funcs_) /\ Arg \in Sockets
      BY <1>6, <2>1, TurnFacts, Zenon DEF RunShutdown
    <2>3. \A s \in Sockets : conn'[s] = conn[s] \/ (conn[s] = "up" /\ conn'[s] = "shut")
      BY <1>6, <2>2 DEF RunShutdown, ShutdownInLoop, TypeOK
    <2>. QED BY <1>6, <2>2, <2>3, QuietOwned DEF RunShutdown, Less, cntr
  <1>. QED BY <1>2, <1>3, <1>4, <1>5, <1>6, Zenon DEF Loop

LEMMA OwnedStep == ASSUME TypeOK, TypeOK', early \/ Owned, [Next]_vars PROVE (early \/ Owned)'
  <1>0. \A s \in Sockets : Keeps(funcs_, funcs_, Gone(s))
    BY DEF Keeps
  <1>1. CASE UNCHANGED vars
    BY <1>0, <1>1, QuietOwned DEF vars, cntr, clnt
  <1>2. CASE ConnectorDtor
    <2>1. early' = early
      BY <1>2 DEF ConnectorDtor
    <2>. QED BY <1>2, <2>1, DtorOwned
  <1>3. CASE Kernel
    <2>1. early' = early
      BY <1>3 DEF Kernel, HandleWriteFail, HandleError, HandleWriteConnected, HandleStopped, Event
    <2>. QED BY <1>3, <2>1, KernelOwned
  <1>4. CASE RetryTimer
    <2>1. /\ startInLoop(timers - 1) /\ timers - 1 \in Nat
          /\ UNCHANGED <<retry_, connector, clnt, funcs_>>
      BY <1>4 DEF RetryTimer, TypeOK
    <2>. QED BY <1>0, <2>1, ConnectOwned DEF clnt
  <1>5. CASE PeerCloses
    <2>1. PICK s \in Sockets :
            /\ Open(s) /\ HandleClose(s, funcs_)
            /\ UNCHANGED <<cntr, connector, client, early, opened, closings>>
      BY <1>5 DEF PeerCloses
    <2>2. funcs_ \in Seq(Fns) /\ Less(funcs_, funcs_)
      BY SameLess DEF TypeOK
    <2>3. /\ conn' = [conn EXCEPT ![s] = "closed"]
          /\ client = "alive" /\ connection_ = s => connection_' = None
          /\ client = "alive" /\ connection_ # s => connection_' = connection_
          /\ Less(funcs_', funcs_) \/ Adds(funcs_', funcs_, s)
      BY <2>1, <2>2, HandleCloseType
    <2>4. Closes(s) /\ early' = early
      BY <2>1, <2>3 DEF Closes, cntr
    <2>. QED BY <2>4, CloseOwned, Zenon
  <1>. QED BY <1>1, <1>2, <1>3, <1>4, <1>5, LoopOwned, UserOwned, Zenon DEF Next

LEMMA OwnedInit == Init => Owned
  <1>. SUFFICES ASSUME Init PROVE Owned
    OBVIOUS
  <1>1. Unopened /\ OfChannel /\ OfConnector
    BY DEF Init, Unopened, OfChannel, OfConnector
  <1>2. OfConnection
    BY DEF Init, OfConnection
  <1>3. DestroyedOnce
    BY DEF Init, DestroyedOnce, Has, Once
  <1>. QED BY <1>1, <1>2, <1>3 DEF Owned

-----------------------------------------------------------------------------
(* When start() is queued *)

LEMMA KeepsSame == ASSUME NEW q, NEW f PROVE Keeps(q, q, f)
BY DEF Keeps

LEMMA StartKept ==
  ASSUME TypeOK, [Next]_vars, ~(Connect /\ away)
  PROVE  Keeps(funcs_', funcs_, Start)
  <1>0. funcs_ \in Seq(Fns) /\ Less(funcs_, funcs_)
    BY SameLess DEF TypeOK
  <1>1. CASE funcs_' = funcs_
    BY <1>1, KeepsSame, Zenon
  <1>2. CASE HandleWriteFail \/ HandleError \/ HandleWriteConnected
    <2>1. removeAndResetChannel(funcs_)
      BY <1>2, Zenon DEF HandleWriteFail, HandleError, HandleWriteConnected
    <2>. QED BY <1>0, <2>1, RemoveLess, Zenon DEF Less
  <1>3. CASE Loop
    <2>1. \E op : Turn(op)
      BY <1>3, Zenon DEF Loop, RunStart, RunRemove, RunKeep, RunDestroyed, RunForceClose,
                         RunShutdown
    <2>2. Less(Tail(funcs_), funcs_) /\ Tail(funcs_) \in Seq(Fns)
      BY <2>1, TurnFacts, Zenon DEF Less
    <2>3. CASE funcs_' = Tail(funcs_)
      BY <2>2, <2>3, Zenon DEF Less
    <2>4. CASE RunRemove
      BY <2>2, <2>4, RemoveLess, Zenon DEF RunRemove, Less
    <2>5. CASE RunForceClose
      <3>1. Turn("close") /\ "close" \in SocketOps
        BY <2>5 DEF RunForceClose, SocketOps
      <3>2. Arg \in Sockets
        BY <3>1, TurnFacts, Zenon
      <3>3. funcs_' = Tail(funcs_) \/ HandleClose(Arg, Tail(funcs_))
        BY <2>5, Zenon DEF RunForceClose, ForceClose
      <3>. QED BY <2>2, <2>3, <3>2, <3>3, HandleCloseType, Zenon DEF Less, Adds
    <2>. QED BY <1>3, <2>3, <2>4, <2>5, Zenon DEF Loop, RunStart, RunKeep, RunDestroyed,
                                                  RunShutdown
  <1>4. CASE PeerCloses
    BY <1>0, <1>4, HandleCloseType, Zenon DEF PeerCloses, Less, Adds
  <1>5. CASE Connect /\ ~away
    BY <1>1, <1>5, Zenon DEF Connect
  <1>6. CASE Disconnect
    <2>1. connection_ \in Sockets
      BY <1>6 DEF Disconnect, TypeOK
    <2>2. Less(Append(funcs_, FnOf("shutdown", connection_)), funcs_)
      BY <1>0, <2>1, FnFacts, AppendLess, Zenon
    <2>. QED BY <1>1, <1>6, <2>2, Zenon DEF Disconnect, Less
  <1>7. CASE Stop \/ (Destroy /\ connection_ = None)
    <2>1. ConnectorStop
      BY <1>7, Zenon DEF Stop, Destroy
    <2>. QED BY <2>1, StopFacts, Zenon DEF Less
  <1>8. CASE Destroy /\ connection_ # None
    <2>1. connection_ \in Sockets
      BY <1>8 DEF TypeOK
    <2>2. Less(Append(funcs_, FnOf("close", connection_)), funcs_)
      BY <1>0, <2>1, FnFacts, AppendLess, Zenon
    <2>3. Adds(Append(funcs_, FnOf("destroyed", connection_)), funcs_, connection_)
      BY <1>0, <2>1, AppendAdds, Zenon DEF Gone
    <2>. QED BY <1>8, <2>2, <2>3, Zenon DEF Destroy, Less, Adds
  <1>9. CASE UNCHANGED vars \/ HandleStopped \/ RetryTimer \/ Drop \/ ConnectorDtor
    <2>1. funcs_' = funcs_
      BY <1>9 DEF vars, HandleStopped, RetryTimer, Drop, ConnectorDtor
    <2>. QED BY <1>1, <2>1
  <1>. QED BY <1>2, <1>3, <1>4, <1>5, <1>6, <1>7, <1>8, <1>9, Zenon DEF Next, Kernel, User

LEMMA StartAwayStep == ASSUME TypeOK, StartAway, [Next]_vars PROVE StartAway'
  <1>1. away' = away
    BY DEF Next, ConnectorDtor, Kernel, HandleWriteFail, HandleError, HandleWriteConnected,
           HandleStopped, Event, RetryTimer, Loop, RunStart, RunRemove, RunKeep, RunDestroyed,
           RunForceClose, RunShutdown, PeerCloses, User, Connect, Disconnect, Stop, Drop, Destroy,
           vars, calls
  <1>. QED BY <1>1, StartKept, Zenon DEF StartAway, Keeps

LEMMA OrderlyBefore == ASSUME TypeOK, [Next]_vars, Orderly' PROVE Orderly
  <1>1. retry_' = retry_ /\ away' = away
    BY DEF Next, ConnectorDtor, Kernel, HandleWriteFail, HandleError, HandleWriteConnected,
           HandleStopped, Event, RetryTimer, Loop, RunStart, RunRemove, RunKeep, RunDestroyed,
           RunForceClose, RunShutdown, PeerCloses, User, Connect, Disconnect, Stop, Drop, Destroy,
           vars, calls, cntr
  <1>2. connects' = connects \/ connects' = connects + 1
    BY DEF Next, ConnectorDtor, Kernel, HandleWriteFail, HandleError, HandleWriteConnected,
           HandleStopped, Event, RetryTimer, Loop, RunStart, RunRemove, RunKeep, RunDestroyed,
           RunForceClose, RunShutdown, PeerCloses, User, Connect, Disconnect, Stop, Drop, Destroy,
           vars, calls, cntr
  <1>3. connects' <= 1 => connects <= 1
    BY <1>2 DEF TypeOK
  <1>. QED BY <1>1, <1>3, Zenon DEF Orderly

-----------------------------------------------------------------------------
(* What the assertions need: one step at a time *)

(* No attempt begins, and none fails. *)
LEMMA QuietTidy ==
  ASSUME TypeOK, TypeOK', Tidy, Known', Keeps(funcs_', funcs_, Start),
         UNCHANGED <<retry_, away, connects, timers, aborted>>,
         connection_' = connection_ \/ connection_' = None,
         channelPtr_' = channelPtr_ \/ channelPtr_' = None,
         status_' = status_ \/ status_' = "Disconnected",
         stopped' = stopped \/ away \/ (status_' = "Disconnected" /\ channelPtr_' = None)
  PROVE  Tidy'
  <1>1. Idle => Idle'
    BY DEF Idle
  <1>2. StartFirst'
    BY <1>1, Zenon DEF Tidy, StartFirst, Keeps
  <1>3. OneAttempt'
    BY DEF Tidy, OneAttempt
  <1>4. NoneFailed'
    BY DEF Tidy, NoneFailed
  <1>. QED BY <1>2, <1>3, <1>4 DEF Tidy

(* No connection is made. *)
LEMMA QuietKnown ==
  ASSUME Known, client' = "alive" => client = "alive" /\ connection_' = connection_,
         \A s \in Sockets : Open(s)' => Open(s)
  PROVE  Known'
BY DEF Known

(* startInLoop, when no attempt is under way. *)
LEMMA StartTidy ==
  ASSUME TypeOK, TypeOK', Tidy, NEW n, n = 0, startInLoop(n), ~Has(funcs_', Start),
         status_ = "Disconnected", channelPtr_ = None, connection_ = None, aborted = "no",
         connects' # 0, away \/ retry_ \/ ~stopped',
         UNCHANGED <<retry_, away, client, connection_, conn>>, Once(funcs_', Start)
  PROVE  Tidy'
  <1>1. connect(n)
    BY Zenon DEF startInLoop
  <1>2. StartFirst'
    BY DEF StartFirst
  <1>3. Known'
    BY DEF Tidy, Known, Open
  <1>4. PICK s : s = opened + 1
    OBVIOUS
  <1>5. CASE connecting(s) /\ timers' = n
    <2>1. channelPtr_' = s /\ status_' = "Connecting" /\ aborted' = aborted
      BY <1>5, Zenon DEF connecting
    <2>2. OneAttempt' /\ NoneFailed'
      BY <1>5, <2>1 DEF OneAttempt, NoneFailed
    <2>. QED BY <1>2, <1>3, <2>2 DEF Tidy
  <1>6. CASE retry_ /\ Retry(s, n) /\ UNCHANGED <<channelPtr_, aborted>>
    <2>1. status_' = "Disconnected" /\ timers' = 1 /\ channelPtr_' = None /\ aborted' = "no"
      BY <1>6 DEF Retry
    <2>2. OneAttempt' /\ NoneFailed'
      BY <1>6, <2>1 DEF OneAttempt, NoneFailed
    <2>. QED BY <1>2, <1>3, <2>2 DEF Tidy
  <1>7. CASE timers' = n /\ UNCHANGED <<channelPtr_, aborted, status_>>
    <2>1. OneAttempt' /\ NoneFailed'
      BY <1>7 DEF OneAttempt, NoneFailed
    <2>. QED BY <1>2, <1>3, <2>1 DEF Tidy
  <1>. QED BY <1>1, <1>4, <1>5, <1>6, <1>7, Zenon DEF connect

(* handleClose of an open connection, which the client knows. *)
LEMMA CloseTidy ==
  ASSUME TypeOK, TypeOK', Tidy, NEW s \in Sockets, Open(s), NEW q \in Seq(Fns),
         Less(q, funcs_), HandleClose(s, q),
         UNCHANGED <<retry_, away, connects, timers, channelPtr_, status_, stopped, client>>
  PROVE  Tidy'
  <1>1. /\ conn' = [conn EXCEPT ![s] = "closed"]
        /\ client = "alive" /\ connection_ = s => connection_' = None
        /\ connection_' = connection_ \/ connection_' = None
        /\ Keeps(funcs_', funcs_, Start)
    BY HandleCloseType, Zenon DEF Less, Adds
  <1>2. client = "alive" => connection_ = s
    BY DEF Tidy, Known
  <1>3. aborted' = aborted
    BY <1>2, Zenon DEF HandleClose
  <1>4. Known'
    <2>. SUFFICES ASSUME client = "alive", NEW t \in Sockets, conn'[t] \in {"up", "shut"}
                  PROVE  FALSE
      BY DEF Known, Open
    <2>1. t # s /\ conn'[t] = conn[t]
      BY <1>1 DEF TypeOK
    <2>2. Open(t)
      BY <2>1 DEF Open
    <2>. QED BY <1>2, <2>1, <2>2 DEF Tidy, Known
  <1>. QED BY <1>1, <1>3, <1>4, QuietTidy

LEMMA KernelTidy ==
  ASSUME TypeOK, TypeOK', Tidy, Keeps(funcs_', funcs_, Start), Kernel
  PROVE  Tidy'
  <1>0. /\ channelPtr_ # None /\ aborted = "no"
        /\ UNCHANGED <<retry_, client, away, connects, stopped>>
    BY DEF Kernel, HandleWriteFail, HandleError, HandleWriteConnected, HandleStopped, Event, calls
  <1>1. /\ connects # 0 /\ ~Has(funcs_, Start) /\ connection_ = None
        /\ timers = 0 /\ (away \/ retry_ \/ ~stopped)
    BY <1>0 DEF Tidy, StartFirst, Idle, OneAttempt, TypeOK
  <1>2. StartFirst'
    BY <1>0, <1>1, Zenon DEF Tidy, StartFirst, Keeps
  <1>3. CASE HandleWriteFail \/ HandleError
    <2>1. /\ status_ = "Connecting" /\ removeAndResetChannel(funcs_) /\ GiveUp(channelPtr_)
          /\ ~retry_ => status_' = "Connecting" \/ status_' = "Disconnected"
          /\ UNCHANGED <<connection_, conn, aborted>>
      BY <1>3 DEF HandleWriteFail, HandleError
    <2>2. PICK s \in Sockets : s = channelPtr_
      BY <1>0 DEF TypeOK
    <2>3. /\ retry_ => status_' = "Disconnected" /\ timers' = 1
          /\ ~retry_ => timers' = 0
      BY <1>1, <2>1, <2>2, GiveUpType
    <2>4. channelPtr_' = None
      BY <2>1, Zenon DEF removeAndResetChannel
    <2>5. OneAttempt'
      BY <1>0, <1>1, <2>1, <2>3, <2>4 DEF OneAttempt
    <2>6. Known' /\ NoneFailed'
      BY <1>0, <2>1 DEF Tidy, Known, NoneFailed, Open
    <2>. QED BY <1>2, <2>5, <2>6 DEF Tidy
  <1>4. CASE HandleWriteConnected
    <2>1. /\ removeAndResetChannel(funcs_) /\ newConnection(channelPtr_)
          /\ status_' = "Connected" /\ UNCHANGED <<timers, aborted>>
      BY <1>4 DEF HandleWriteConnected
    <2>2. channelPtr_' = None
      BY <2>1, Zenon DEF removeAndResetChannel
    <2>3. OneAttempt' /\ NoneFailed'
      BY <1>0, <1>1, <2>1, <2>2 DEF OneAttempt, NoneFailed
    <2>4. Known'
      <3>. SUFFICES ASSUME client = "alive", NEW t \in Sockets, conn'[t] \in {"up", "shut"}
                    PROVE  connection_' = t
        BY <1>0 DEF Known, Open
      <3>1. connection_' = channelPtr_ /\ conn' = [conn EXCEPT ![channelPtr_] = "up"]
        BY <2>1 DEF newConnection
      <3>. SUFFICES ASSUME t # channelPtr_ PROVE FALSE
        BY <3>1
      <3>2. Open(t)
        BY <3>1 DEF TypeOK, Open
      <3>3. connection_ = t
        BY <3>2 DEF Tidy, Known
      <3>. QED BY <1>1, <3>3, BoundsAssumption
    <2>. QED BY <1>2, <2>3, <2>4 DEF Tidy
  <1>5. CASE HandleStopped
    <2>1. status_ = "Disconnected"
      BY <1>0, <1>5 DEF HandleStopped, Tidy, OneAttempt, TypeOK
    <2>2. aborted' = "no" /\ UNCHANGED <<status_, channelPtr_, timers, connection_, conn>>
      BY <1>5, <2>1 DEF HandleStopped
    <2>3. Known'
      BY <1>0, <2>2 DEF Tidy, Known, Open
    <2>. QED BY <1>0, <2>2, <2>3, QuietTidy
  <1>. QED BY <1>3, <1>4, <1>5 DEF Kernel

LEMMA LoopTidy ==
  ASSUME TypeOK, TypeOK', StartAway, Tidy, Keeps(funcs_', funcs_, Start), Loop
  PROVE  Tidy'
  <1>1. CASE RunStart
    <2>1. /\ Turn("start") /\ funcs_' = Tail(funcs_)
          /\ UNCHANGED <<retry_, connector, clnt, calls>>
      BY <1>1 DEF RunStart
    <2>2. Has(funcs_, Start) /\ (Once(funcs_, Start) => ~Has(funcs_', Start))
      BY <2>1, TurnFacts, Zenon
    <2>3. /\ status_ = "Disconnected" /\ channelPtr_ = None /\ timers = 0 /\ connection_ = None
          /\ connects = 1 /\ Once(funcs_, Start) /\ away
      BY <2>2, Zenon DEF Tidy, StartFirst, Idle, StartAway
    <2>4. ~Has(funcs_', Start) /\ Once(funcs_', Start) /\ aborted = "no"
      BY <2>1, <2>2, <2>3, Zenon DEF Keeps, Turn
    <2>5. CASE connector
      <3>1. startInLoop(timers)
        BY <1>1, <2>5, Zenon DEF RunStart
      <3>. QED BY <2>1, <2>3, <2>4, <3>1, StartTidy DEF clnt, calls
    <2>6. CASE ~connector
      <3>1. aborted' = "dangling" /\ UNCHANGED <<status_, channelPtr_, timers>>
        BY <1>1, <2>6, Zenon DEF RunStart
      <3>2. Known'
        BY <2>1 DEF Tidy, Known, Open, clnt
      <3>3. StartFirst' /\ OneAttempt' /\ NoneFailed'
        BY <2>1, <2>3, <2>4, <3>1 DEF StartFirst, OneAttempt, NoneFailed, clnt, calls
      <3>. QED BY <3>2, <3>3 DEF Tidy
    <2>. QED BY <2>5, <2>6
  <1>2. CASE RunRemove
    <2>1. /\ removeAndResetChannel(Tail(funcs_))
          /\ UNCHANGED <<retry_, status_, timers, clnt, calls, aborted>>
      BY <1>2 DEF RunRemove
    <2>2. channelPtr_' = None
      BY <2>1, Zenon DEF removeAndResetChannel
    <2>3. Known'
      BY <2>1 DEF Tidy, Known, Open, clnt
    <2>. QED BY <2>1, <2>2, <2>3, QuietTidy DEF clnt, calls
  <1>3. CASE RunKeep
    <2>1. Known'
      BY <1>3 DEF RunKeep, Tidy, Known, Open, clnt
    <2>. QED BY <1>3, <2>1, QuietTidy DEF RunKeep, cntr, clnt, calls
  <1>4. CASE RunDestroyed
    <2>1. conn' = [conn EXCEPT ![Arg] = "gone"] /\ UNCHANGED <<client, connection_>>
      BY <1>4 DEF RunDestroyed
    <2>2. \A s \in Sockets : Open(s)' => Open(s)
      BY <2>1 DEF Open, TypeOK
    <2>3. Known'
      BY <2>1, <2>2, QuietKnown DEF Tidy
    <2>. QED BY <1>4, <2>3, QuietTidy DEF RunDestroyed, cntr, calls
  <1>5. CASE RunForceClose
    <2>1. /\ Turn("close") /\ "close" \in SocketOps /\ ForceClose(Arg, Tail(funcs_))
          /\ UNCHANGED <<cntr, client, calls>>
      BY <1>5 DEF RunForceClose, SocketOps
    <2>2. PICK q, s : q = Tail(funcs_) /\ s = Arg
      OBVIOUS
    <2>3. Less(q, funcs_) /\ q \in Seq(Fns) /\ s \in Sockets
      BY <2>1, <2>2, TurnFacts, Zenon DEF Less
    <2>4. UNCHANGED <<retry_, away, connects, timers, channelPtr_, status_, stopped, client>>
      BY <2>1 DEF cntr, calls
    <2>5. CASE Open(s)
      <3>1. HandleClose(s, q)
        BY <2>1, <2>2, <2>5 DEF ForceClose
      <3>. QED BY <2>3, <2>4, <2>5, <3>1, CloseTidy
    <2>6. CASE ~Open(s)
      <3>1. UNCHANGED <<connection_, conn, aborted>>
        BY <2>1, <2>2, <2>6 DEF ForceClose
      <3>2. Known'
        BY <2>4, <3>1 DEF Tidy, Known, Open
      <3>. QED BY <2>4, <3>1, <3>2, QuietTidy
    <2>. QED BY <2>5, <2>6
  <1>6. CASE RunShutdown
    <2>1. ShutdownInLoop(Arg) /\ UNCHANGED <<cntr, client, connection_, calls, aborted>>
      BY <1>6 DEF RunShutdown
    <2>2. \A s \in Sockets : Open(s)' => Open(s)
      BY <2>1 DEF Open, TypeOK, ShutdownInLoop
    <2>3. Known'
      BY <2>1, <2>2, QuietKnown DEF Tidy
    <2>. QED BY <2>1, <2>3, QuietTidy DEF cntr, calls
  <1>. QED BY <1>1, <1>2, <1>3, <1>4, <1>5, <1>6 DEF Loop

LEMMA ConnectTidy ==
  ASSUME TypeOK, TypeOK', StartAway, Tidy, Orderly', Connect
  PROVE  Tidy'
  <1>1. /\ connects' = connects + 1 /\ stopped' = FALSE /\ connects \in Nat
        /\ connects > 0 => stopped /\ connection_ = None
        /\ UNCHANGED <<retry_, connector, clnt, away>> /\ aborted = "no"
    BY Zenon DEF Connect, TypeOK, CanCall
  <1>2. connects' # 0 /\ (connects > 0 => connects' > 1) /\ (connects = 0 => connects' = 1)
    BY <1>1
  <1>3. CASE away
    <2>1. /\ funcs_' = Append(funcs_, Start)
          /\ UNCHANGED <<status_, channelPtr_, timers, aborted>>
      BY <1>3, Zenon DEF Connect, Start
    <2>2. connects = 0
      BY <1>1, <1>2, <1>3 DEF Orderly
    <2>3. Idle /\ ~Has(funcs_, Start)
      BY <2>2 DEF Tidy, StartFirst
    <2>4. Once(funcs_', Start)
      BY <2>1, <2>3, FnFacts, AppendKeeps, Zenon DEF TypeOK
    <2>5. Idle'
      BY <1>1, <2>1, <2>3 DEF Idle, clnt
    <2>6. StartFirst'
      BY <1>2, <2>2, <2>4, <2>5 DEF StartFirst
    <2>7. OneAttempt'
      BY <2>5 DEF OneAttempt, Idle
    <2>8. Known' /\ NoneFailed'
      BY <1>1, <2>1 DEF Tidy, Known, Open, NoneFailed, clnt
    <2>. QED BY <2>6, <2>7, <2>8 DEF Tidy
  <1>4. CASE ~away
    <2>1. startInLoop(timers) /\ funcs_' = funcs_
      BY <1>4, Zenon DEF Connect
    <2>2. ~Has(funcs_, Start) /\ Once(funcs_, Start)
      BY <1>4, Zenon DEF StartAway, Tidy, StartFirst
    <2>3. Idle
      <3>1. CASE connects = 0
        BY <3>1 DEF Tidy, StartFirst
      <3>2. CASE connects > 0
        <4>1. stopped /\ connection_ = None /\ ~retry_
          BY <1>1, <1>2, <3>2 DEF Orderly
        <4>. QED BY <1>4, <4>1 DEF Tidy, OneAttempt, Idle, TypeOK
      <3>. QED BY <1>1, <3>1, <3>2
    <2>4. status_ = "Disconnected" /\ channelPtr_ = None /\ timers = 0 /\ connection_ = None
      BY <2>3 DEF Idle
    <2>5. ~Has(funcs_', Start) /\ Once(funcs_', Start)
      BY <2>1, <2>2, Zenon
    <2>6. ~stopped' /\ UNCHANGED <<retry_, away, client, connection_, conn>>
      BY <1>1, Zenon DEF clnt
    <2>. QED BY <1>1, <1>2, <2>1, <2>4, <2>5, <2>6, StartTidy
  <1>. QED BY <1>3, <1>4

LEMMA CallTidy ==
  ASSUME TypeOK, TypeOK', Tidy, Keeps(funcs_', funcs_, Start),
         Disconnect \/ Stop \/ Drop \/ Destroy
  PROVE  Tidy'
  <1>1. CASE Disconnect
    <2>1. /\ conn' = conn \/ ShutdownInLoop(connection_)
          /\ UNCHANGED <<cntr, client, connection_, calls, aborted>>
      BY <1>1, Zenon DEF Disconnect
    <2>2. \A s \in Sockets : Open(s)' => Open(s)
      BY <2>1 DEF Open, TypeOK, ShutdownInLoop
    <2>3. Known'
      BY <2>1, <2>2, QuietKnown DEF Tidy
    <2>. QED BY <2>1, <2>3, QuietTidy DEF cntr, calls
  <1>2. CASE Stop
    <2>1. ConnectorStop /\ UNCHANGED <<retry_, timers, clnt, away, connects, aborted>>
      BY <1>2 DEF Stop
    <2>2. /\ status_' = "Disconnected" /\ (channelPtr_' = None \/ channelPtr_' = channelPtr_)
          /\ ~away => channelPtr_' = None
      BY <2>1, StopFacts, Zenon
    <2>3. Known'
      BY <2>1 DEF Tidy, Known, Open, clnt
    <2>. QED BY <2>1, <2>2, <2>3, QuietTidy DEF clnt
  <1>3. CASE Drop
    <2>1. Known'
      BY <1>3 DEF Drop, Known
    <2>. QED BY <1>3, <2>1, QuietTidy DEF Drop, cntr, calls
  <1>4. CASE Destroy
    <2>1. /\ client' = "dead" /\ UNCHANGED <<retry_, timers, connection_, calls, aborted>>
          /\ ConnectorStop \/ UNCHANGED <<status_, channelPtr_>>
      BY <1>4 DEF Destroy
    <2>2. Known'
      BY <2>1 DEF Known
    <2>3. /\ status_' = status_ \/ status_' = "Disconnected"
          /\ channelPtr_' = channelPtr_ \/ channelPtr_' = None
      BY <2>1, StopFacts
    <2>. QED BY <2>1, <2>2, <2>3, QuietTidy DEF calls
  <1>. QED BY <1>1, <1>2, <1>3, <1>4

LEMMA TidyStep ==
  ASSUME TypeOK, TypeOK', StartAway, Tidy, Orderly', [Next]_vars
  PROVE  Tidy'
  <1>1. CASE Connect
    BY <1>1, ConnectTidy
  <1>. SUFFICES ASSUME ~Connect PROVE Tidy'
    BY <1>1
  <1>2. Keeps(funcs_', funcs_, Start)
    BY StartKept, Zenon
  <1>3. CASE RetryTimer
    <2>1. /\ startInLoop(timers - 1) /\ timers > 0 /\ timers \in Nat /\ aborted = "no"
          /\ UNCHANGED <<retry_, clnt, calls, funcs_>>
      BY <1>3, Zenon DEF RetryTimer, TypeOK
    <2>2. /\ timers - 1 = 0 /\ retry_ /\ status_ = "Disconnected"
          /\ channelPtr_ = None /\ connection_ = None
      BY <2>1 DEF Tidy, OneAttempt
    <2>3. ~Has(funcs_, Start) /\ Once(funcs_, Start) /\ connects # 0
      BY <2>1 DEF Tidy, StartFirst, Idle
    <2>4. PICK n : n = timers - 1
      OBVIOUS
    <2>5. ~Has(funcs_', Start) /\ Once(funcs_', Start) /\ connects' # 0
      BY <2>1, <2>3 DEF calls
    <2>6. UNCHANGED <<retry_, away, client, connection_, conn>>
      BY <2>1 DEF calls, clnt
    <2>. QED BY <2>1, <2>2, <2>4, <2>5, <2>6, StartTidy
  <1>4. CASE PeerCloses
    <2>1. PICK s \in Sockets :
            Open(s) /\ HandleClose(s, funcs_) /\ UNCHANGED <<cntr, client, calls>>
      BY <1>4 DEF PeerCloses
    <2>2. funcs_ \in Seq(Fns) /\ Less(funcs_, funcs_)
      BY SameLess DEF TypeOK
    <2>3. UNCHANGED <<retry_, away, connects, timers, channelPtr_, status_, stopped, client>>
      BY <2>1 DEF cntr, calls
    <2>. QED BY <2>1, <2>2, <2>3, CloseTidy
  <1>5. CASE ConnectorDtor \/ UNCHANGED vars
    <2>1. UNCHANGED <<cntr, clnt, calls, aborted>>
      BY <1>5 DEF ConnectorDtor, vars
    <2>2. Known'
      BY <2>1 DEF Tidy, Known, Open, clnt
    <2>. QED BY <1>2, <2>1, <2>2, QuietTidy DEF cntr, clnt, calls
  <1>. QED BY <1>2, <1>3, <1>4, <1>5, KernelTidy, LoopTidy, CallTidy, Zenon DEF Next, User

-----------------------------------------------------------------------------
LEMMA InitInv == Init => Inv
  <1>. SUFFICES ASSUME Init PROVE Inv
    OBVIOUS
  <1>1. ~Has(funcs_, Start) /\ Once(funcs_, Start)
    BY DEF Init, Has, Once
  <1>2. Idle
    BY DEF Init, Idle
  <1>3. StartFirst
    BY <1>1, <1>2 DEF StartFirst
  <1>4. OneAttempt /\ NoneFailed
    BY DEF Init, OneAttempt, NoneFailed
  <1>5. Known
    BY DEF Init, Known, Open
  <1>. QED BY <1>1, <1>3, <1>4, <1>5, TypeInit, OwnedInit DEF Inv, Tidy, StartAway

LEMMA NextInv == Inv /\ [Next]_vars => Inv'
  <1>. SUFFICES ASSUME Inv, [Next]_vars PROVE Inv'
    OBVIOUS
  <1>1. TypeOK /\ TypeOK'
    BY TypeStep, Zenon DEF Inv
  <1>2. StartAway /\ StartAway'
    BY <1>1, StartAwayStep, Zenon DEF Inv
  <1>3. (early \/ Owned)'
    BY <1>1, OwnedStep, Zenon DEF Inv
  <1>4. ASSUME Orderly' PROVE Tidy'
    <2>1. Tidy
      BY <1>1, <1>4, OrderlyBefore, Zenon DEF Inv
    <2>. QED BY <1>1, <1>2, <1>4, <2>1, TidyStep, Zenon
  <1>. QED BY <1>1, <1>2, <1>3, <1>4, Zenon DEF Inv

(* The invariant of the client and its connector holds in every state.     *)
THEOREM InvHolds == Spec => []Inv
  <1>. QED BY InitInv, NextInv, PTL DEF Spec

(* The variables of TcpClient and Connector, the queue of the loop and the *)
(* life of each socket keep their types, whatever the callbacks, the       *)
(* kernel and the user do.                                                 *)
THEOREM TypeCorrect == Spec => []TypeOK
  <1>1. Inv => TypeOK
    BY DEF Inv
  <1>. QED BY <1>1, InvHolds, PTL

(* No socket is closed twice by handleWrite, handleError, retry, the       *)
(* connection and the destructors of Connector and TcpClient, whatever     *)
(* their order, but for a retry that connect() itself schedules.           *)
THEOREM SocketsClosedOnce == Spec => []ClosedOnce
  <1>1. Inv => ClosedOnce
    BY DEF Inv, Owned, OfConnection, ClosedOnce
  <1>. QED BY <1>1, InvHolds, PTL

(* The assertions of startInLoop, connecting, handleWrite and              *)
(* removeConnection hold, and no queued function finds the connector gone, *)
(* with the exceptions NoAssertFails names.                                *)
THEOREM ClientAssertionsHold == Spec => []NoAssertFails
  <1>1. ASSUME Inv PROVE NoAssertFails
    <2>1. connects \in Nat
      BY <1>1 DEF Inv, TypeOK
    <2>2. connects > 1 \/ connects <= 1
      BY <2>1
    <2>3. Orderly \/ (connects > 1 /\ (away \/ retry_))
      BY <2>2, Zenon DEF Orderly
    <2>. QED BY <1>1, <2>3, Zenon DEF Inv, Tidy, NoneFailed, NoAssertFails
  <1>. QED BY <1>1, InvHolds, PTL

=============================================================================
