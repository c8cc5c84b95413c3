------------------------- MODULE TcpConnectionProofs -------------------------
(***************************************************************************)
(* Proofs about TcpConnection, for any messages and any number of calls:   *)
(* the callbacks of a connection come in pairs, and no assertion fails on  *)
(* the way from its establishment to its destruction; what a thread sends  *)
(* is written in its order, and no message is torn.                        *)
(***************************************************************************)
EXTENDS TcpConnection, TLAPS

Fns == {Established, Destroyed, ShutdownFn, CloseFn, OpenFn, EndFn} \cup {SendFn(m) : m \in Msgs}

(* The types of what decides how the connection begins and ends. *)
TypeOK ==
  /\ status_ \in {"Connecting", "Connected", "Disconnecting", "Disconnected"}
  /\ events_ \subseteq {"read", "write"}
  /\ index_ \in {"new", "added", "deleted"}
  /\ funcs_ \in Seq(Fns)
  /\ base \in Nat
  /\ inSet \in BOOLEAN
  /\ stale \in BOOLEAN
  /\ ups \in Nat /\ downs \in Nat

(* Is f among the functions q?  Is f there at most once? *)
InQueue(q, f) == \E i \in 1 .. Len(q) : q[i] = f
AtMostOnce(q, f) == \A i, j \in 1 .. Len(q) : q[i] = f /\ q[j] = f => i = j

(* Before connectEstablished has run nothing but that can happen; it runs  *)
(* once.                                                                   *)
Starting ==
  status_ = "Connecting" =>
    /\ ups = 0 /\ downs = 0 /\ events_ = {} /\ index_ = "new"
    /\ funcs_ = <<Established>> /\ base = 0 /\ inSet /\ stream = "no"
Begun == status_ # "Connecting" => ups = 1 /\ ~InQueue(funcs_, Established)

(* A connection that is up watches for input; nobody has closed it.        *)
Up ==
  status_ \in {"Connected", "Disconnecting"} =>
    /\ downs = 0 /\ "read" \in events_ /\ index_ = "added"
    /\ inSet /\ base = 0 /\ ~InQueue(funcs_, Destroyed)

(* One that is down is closed by the server and destroyed in its loop once *)
(* each, in this order: either the server has yet to take it out of its    *)
(* set, or connectDestroyed may be queued, once, and has not run.          *)
Down ==
  status_ = "Disconnected" =>
    /\ downs = 1 /\ events_ = {}
    /\ base > 0 => base = 1 /\ inSet /\ index_ # "new" /\ ~InQueue(funcs_, Destroyed)
    /\ InQueue(funcs_, Destroyed) => ~inSet /\ index_ # "new"
Once == AtMostOnce(funcs_, Destroyed)

(* The life of a connection, as long as its channel was not used after its *)
(* close.                                                                  *)
Life == Starting /\ Begun /\ Up /\ Down /\ Once /\ aborted = "no"

Inv == TypeOK /\ (stale \/ Life)

-----------------------------------------------------------------------------
(* The functions that are queued *)

LEMMA OpsDiffer ==
  /\ \A f \in {Established, ShutdownFn, CloseFn, OpenFn, EndFn} : f # Destroyed
  /\ \A f \in {Destroyed, ShutdownFn, CloseFn, OpenFn, EndFn} : f # Established
  /\ \A m \in Msgs : SendFn(m) # Established /\ SendFn(m) # Destroyed
  <1>1. \A f \in {Established, ShutdownFn, CloseFn, OpenFn, EndFn} : f.op # Destroyed.op
    BY DEF Established, Destroyed, ShutdownFn, CloseFn, OpenFn, EndFn
  <1>2. \A f \in {Destroyed, ShutdownFn, CloseFn, OpenFn, EndFn} : f.op # Established.op
    BY DEF Established, Destroyed, ShutdownFn, CloseFn, OpenFn, EndFn
  <1>3. \A m \in Msgs : SendFn(m).op # Established.op /\ SendFn(m).op # Destroyed.op
    BY DEF Established, Destroyed, SendFn
  <1>4. \A f \in {Established, ShutdownFn, CloseFn, OpenFn, EndFn} : f # Destroyed
    BY <1>1, Zenon
  <1>5. \A f \in {Destroyed, ShutdownFn, CloseFn, OpenFn, EndFn} : f # Established
    BY <1>2, Zenon
  <1>6. \A m \in Msgs : SendFn(m) # Established /\ SendFn(m) # Destroyed
    BY <1>3, Zenon
  <1>. QED BY <1>4, <1>5, <1>6

(* No function is in r that is not in q, nor more often. *)
Less(r, q) ==
  /\ r \in Seq(Fns)
  /\ InQueue(r, Established) => InQueue(q, Established)
  /\ InQueue(r, Destroyed) => InQueue(q, Destroyed)
  /\ AtMostOnce(q, Destroyed) => AtMostOnce(r, Destroyed)

LEMMA TailLess ==
  ASSUME NEW q \in Seq(Fns), q # <<>>
  PROVE  /\ Less(Tail(q), q) /\ InQueue(q, Head(q))
         /\ AtMostOnce(q, Head(q)) => ~InQueue(Tail(q), Head(q))
  <1>1. /\ Tail(q) \in Seq(Fns) /\ Len(q) \in Nat \ {0} /\ Len(Tail(q)) = Len(q) - 1
        /\ Head(q) = q[1] /\ \A i \in 1 .. Len(q) - 1 : Tail(q)[i] = q[i + 1]
    OBVIOUS
  <1>2. PICK r, n : r = Tail(q) /\ n = Len(q)
    OBVIOUS
  <1>3. /\ n \in Nat \ {0} /\ Len(r) = n - 1 /\ r \in Seq(Fns)
        /\ \A i \in 1 .. n - 1 : r[i] = q[i + 1] /\ i + 1 \in 1 .. n /\ i + 1 # 1
    BY <1>1, <1>2
  <1>4. ASSUME NEW f, InQueue(r, f) PROVE \E i \in 1 .. n : i # 1 /\ q[i] = f
    BY <1>3, <1>4 DEF InQueue
  <1>5. AtMostOnce(q, Destroyed) => AtMostOnce(r, Destroyed)
    <2>. SUFFICES ASSUME AtMostOnce(q, Destroyed), NEW i \in 1 .. n - 1, NEW j \in 1 .. n - 1,
                         r[i] = Destroyed, r[j] = Destroyed
                  PROVE  i = j
      BY <1>3 DEF AtMostOnce
    <2>1. i + 1 = j + 1
      BY <1>2, <1>3 DEF AtMostOnce
    <2>. QED BY <2>1
  <1>6. InQueue(q, Head(q))
    BY <1>1 DEF InQueue
  <1>7. AtMostOnce(q, Head(q)) => ~InQueue(r, Head(q))
    BY <1>1, <1>2, <1>4 DEF AtMostOnce
  <1>. QED BY <1>2, <1>3, <1>4, <1>5, <1>6, <1>7 DEF Less, InQueue

LEMMA SameLess == ASSUME NEW q \in Seq(Fns) PROVE Less(q, q)
BY DEF Less

LEMMA AppendFacts ==
  ASSUME NEW q \in Seq(Fns), NEW f \in Fns
  PROVE  /\ Append(q, f) \in Seq(Fns) /\ Len(Append(q, f)) = Len(q) + 1 /\ Len(q) \in Nat
         /\ \A i \in 1 .. Len(q) : Append(q, f)[i] = q[i]
         /\ Append(q, f)[Len(q) + 1] = f
OBVIOUS

LEMMA AppendLess ==
  ASSUME NEW q \in Seq(Fns), NEW f \in Fns, f # Established, f # Destroyed
  PROVE  Less(Append(q, f), q)
  <1>1. PICK r, n : r = Append(q, f) /\ n = Len(q)
    OBVIOUS
  <1>2. /\ n \in Nat /\ r \in Seq(Fns) /\ Len(r) = n + 1
        /\ \A i \in 1 .. n : r[i] = q[i]
        /\ r[n + 1] = f
    BY <1>1, AppendFacts
  <1>3. ASSUME NEW g, g # f, NEW i \in 1 .. n + 1, r[i] = g PROVE i \in 1 .. n /\ q[i] = g
    <2>1. i # n + 1
      BY <1>2, <1>3
    <2>2. i \in 1 .. n
      BY <1>2, <2>1
    <2>. QED BY <1>2, <1>3, <2>2
  <1>4. /\ InQueue(r, Established) => InQueue(q, Established)
        /\ InQueue(r, Destroyed) => InQueue(q, Destroyed)
    BY <1>1, <1>2, <1>3, Zenon DEF InQueue
  <1>5. AtMostOnce(q, Destroyed) => AtMostOnce(r, Destroyed)
    <2>. SUFFICES ASSUME AtMostOnce(q, Destroyed), NEW i \in 1 .. n + 1, NEW j \in 1 .. n + 1,
                         r[i] = Destroyed, r[j] = Destroyed
                  PROVE  i = j
      BY <1>2 DEF AtMostOnce
    <2>1. i \in 1 .. n /\ q[i] = Destroyed /\ j \in 1 .. n /\ q[j] = Destroyed
      BY <1>3, OpsDiffer
    <2>. QED BY <1>1, <2>1 DEF AtMostOnce
  <1>. QED BY <1>1, <1>2, <1>4, <1>5 DEF Less

LEMMA AppendDestroyed ==
  ASSUME NEW q \in Seq(Fns), ~InQueue(q, Destroyed)
  PROVE  /\ Append(q, Destroyed) \in Seq(Fns)
         /\ AtMostOnce(Append(q, Destroyed), Destroyed)
         /\ InQueue(Append(q, Destroyed), Established) => InQueue(q, Established)
  <1>1. PICK r, n : r = Append(q, Destroyed) /\ n = Len(q)
    OBVIOUS
  <1>0. Destroyed \in Fns
    BY DEF Fns
  <1>2. /\ n \in Nat /\ r \in Seq(Fns) /\ Len(r) = n + 1
        /\ \A i \in 1 .. n : r[i] = q[i]
        /\ r[n + 1] = Destroyed
    BY <1>0, <1>1, AppendFacts
  <1>3. ASSUME NEW i \in 1 .. n + 1, r[i] = Destroyed PROVE i = n + 1
    <2>. SUFFICES ASSUME i # n + 1 PROVE FALSE
      OBVIOUS
    <2>1. i \in 1 .. n
      BY <1>2
    <2>2. q[i] = Destroyed
      BY <1>2, <1>3, <2>1
    <2>. QED BY <1>1, <2>1, <2>2 DEF InQueue
  <1>4. AtMostOnce(r, Destroyed)
    BY <1>2, <1>3 DEF AtMostOnce
  <1>5. ASSUME NEW i \in 1 .. n + 1, r[i] = Established PROVE InQueue(q, Established)
    <2>1. i # n + 1
      BY <1>2, <1>5, OpsDiffer
    <2>2. i \in 1 .. n
      BY <1>2, <2>1
    <2>. QED BY <1>1, <1>2, <1>5, <2>2 DEF InQueue
  <1>6. InQueue(r, Established) => InQueue(q, Established)
    BY <1>2, <1>5, Zenon DEF InQueue
  <1>. QED BY <1>1, <1>2, <1>4, <1>6

-----------------------------------------------------------------------------
(* The kinds of steps *)

(* The connection is neither opened nor closed; shutdown() may begin.      *)
(* Only a connection that is up gets other events, input among them.       *)
QuietStep ==
  /\ status_ # "Connecting"
  /\ status_' = status_ \/ (status_ = "Connected" /\ status_' = "Disconnecting")
  /\ UNCHANGED <<ups, downs, inSet, base, aborted>>
  /\ Less(funcs_', funcs_)
  /\ events_' \subseteq {"read", "write"}
  /\ stale' \in BOOLEAN
  /\ \/ UNCHANGED <<events_, index_>>
     \/ /\ stale' \/ status_ # "Disconnected"
        /\ index_' \in {"added", "deleted"}
        /\ "read" \in events_ => "read" \in events_' /\ index_' = "added"

LEMMA QuietInv == ASSUME Inv, ~stale, QuietStep PROVE Inv'
  <1>1. Life /\ TypeOK
    BY DEF Inv
  <1>2. TypeOK'
    BY <1>1 DEF TypeOK, QuietStep, Less
  <1>3. ASSUME ~stale' PROVE Life'
    <2>1. Starting'
      BY DEF Starting, QuietStep
    <2>2. Begun'
      BY <1>1 DEF Life, Begun, QuietStep, Less
    <2>3. Up'
      <3>1. ASSUME status_' \in {"Connected", "Disconnecting"}
            PROVE  /\ downs' = 0 /\ "read" \in events_' /\ index_' = "added"
                   /\ inSet' /\ base' = 0 /\ ~InQueue(funcs_', Destroyed)
        <4>1. status_ \in {"Connected", "Disconnecting"}
          BY <3>1 DEF QuietStep
        <4>. QED BY <1>1, <4>1 DEF Life, Up, QuietStep, Less
      <3>. QED BY <3>1 DEF Up
    <2>4. Down'
      <3>1. ASSUME status_' = "Disconnected"
            PROVE  status_ = "Disconnected" /\ UNCHANGED <<events_, index_>>
        BY <1>3, <3>1 DEF QuietStep
      <3>. QED BY <1>1, <3>1 DEF Life, Down, QuietStep, Less
    <2>5. Once' /\ aborted' = "no"
      BY <1>1 DEF Life, Once, QuietStep, Less
    <2>. QED BY <2>1, <2>2, <2>3, <2>4, <2>5 DEF Life
  <1>. QED BY <1>2, <1>3 DEF Inv

(* handleClose of a connection that is up. *)
LEMMA CloseInv ==
  ASSUME Inv, ~stale, status_ \in {"Connected", "Disconnecting"},
         NEW q, Less(q, funcs_), handleClose(q)
  PROVE  Inv'
  <1>1. Life /\ TypeOK
    BY DEF Inv
  <1>2. /\ ups = 1 /\ ~InQueue(funcs_, Established) /\ downs = 0 /\ index_ = "added"
        /\ inSet /\ base = 0 /\ ~InQueue(funcs_, Destroyed) /\ AtMostOnce(funcs_, Destroyed)
        /\ aborted = "no"
    BY <1>1 DEF Life, Begun, Up, Once
  <1>3. /\ q \in Seq(Fns) /\ ~InQueue(q, Established) /\ ~InQueue(q, Destroyed)
        /\ AtMostOnce(q, Destroyed)
    BY <1>2 DEF Less
  <1>4. /\ status_' = "Disconnected" /\ events_' = {} /\ downs' = 1 /\ ups' = 1
        /\ index_' = "added" /\ stale' = stale
    BY <1>2 DEF handleClose
  <1>5. CASE sameLoop
    <2>1. inSet' = FALSE /\ funcs_' = Append(q, Destroyed) /\ base' = 0 /\ aborted' = "no"
      BY <1>2, <1>5 DEF handleClose, handleCloseInLoop
    <2>2. /\ funcs_' \in Seq(Fns) /\ AtMostOnce(funcs_', Destroyed)
          /\ ~InQueue(funcs_', Established)
      BY <1>3, <2>1, AppendDestroyed
    <2>3. TypeOK'
      BY <1>1, <1>4, <2>1, <2>2 DEF TypeOK
    <2>4. Starting' /\ Begun' /\ Up' /\ Once'
      BY <1>4, <2>1, <2>2 DEF Starting, Begun, Up, Once
    <2>5. Down'
      BY <1>4, <2>1 DEF Down
    <2>. QED BY <2>1, <2>3, <2>4, <2>5 DEF Inv, Life
  <1>6. CASE ~sameLoop
    <2>1. inSet' = inSet /\ funcs_' = q /\ base' = 1 /\ aborted' = "no"
      BY <1>2, <1>6 DEF handleClose
    <2>2. TypeOK'
      BY <1>1, <1>3, <1>4, <2>1 DEF TypeOK
    <2>3. Starting' /\ Begun' /\ Up' /\ Once'
      BY <1>3, <1>4, <2>1 DEF Starting, Begun, Up, Once
    <2>4. Down'
      BY <1>2, <1>3, <1>4, <2>1 DEF Down
    <2>. QED BY <2>1, <2>2, <2>3, <2>4 DEF Inv, Life
  <1>. QED BY <1>5, <1>6

(* A connection that is connecting has nothing queued but its start. *)
LEMMA OnlyStart ==
  ASSUME Inv, ~stale, status_ = "Connecting"
  PROVE  funcs_ = <<Established>> /\ Head(funcs_) = Established /\ Tail(funcs_) = <<>>
         /\ stream = "no" /\ ups = 0 /\ events_ = {} /\ base = 0 /\ downs = 0 /\ inSet
  <1>1. funcs_ = <<Established>> /\ stream = "no" /\ ups = 0 /\ events_ = {} /\ base = 0
        /\ downs = 0 /\ inSet
    BY DEF Inv, Life, Starting
  <1>2. PICK e : e = Established
    OBVIOUS
  <1>3. Head(<<e>>) = e /\ Tail(<<e>>) = <<>>
    OBVIOUS
  <1>. QED BY <1>1, <1>2, <1>3

(* Taking a function from the queue. *)
LEMMA TakeQuiet ==
  ASSUME Inv, NEW f, f # Established, Next2Run(f)
  PROVE  /\ ~stale /\ status_ # "Connecting" /\ Less(Tail(funcs_), funcs_)
         /\ funcs_ # <<>> /\ Head(funcs_) = f
  <1>1. ~stale /\ funcs_ # <<>> /\ Head(funcs_) = f
    BY DEF Next2Run, Alive
  <1>2. funcs_ \in Seq(Fns)
    BY DEF Inv, TypeOK
  <1>3. status_ # "Connecting"
    BY <1>1, OnlyStart
  <1>. QED BY <1>1, <1>2, <1>3, TailLess

(* What the user, who has seen the connection, may assume of it. *)
LEMMA UserQuiet ==
  ASSUME Inv, ~stale, ups = 1 \/ stream # "no"
  PROVE  status_ # "Connecting"
BY OnlyStart

-----------------------------------------------------------------------------
(* The actions *)

LEMMA InitInv == Init => Inv
  <1>. SUFFICES ASSUME Init PROVE Inv
    OBVIOUS
  <1>1. funcs_ = <<Established>> /\ Established \in Fns
    BY DEF Init, Fns
  <1>2. TypeOK
    <2>1. PICK e \in Fns : e = Established
      BY <1>1
    <2>2. <<e>> \in Seq(Fns)
      OBVIOUS
    <2>. QED BY <1>1, <2>1, <2>2 DEF Init, TypeOK
  <1>3. Starting /\ Begun /\ Up /\ Down
    BY DEF Init, Starting, Begun, Up, Down
  <1>4. Once
    <2>1. PICK e : e = Established
      OBVIOUS
    <2>2. Len(<<e>>) = 1
      OBVIOUS
    <2>. QED BY <1>1, <2>1, <2>2 DEF Once, AtMostOnce
  <1>. QED BY <1>2, <1>3, <1>4 DEF Init, Inv, Life

(* connectEstablished, the first function of the queue, runs once. *)
LEMMA EstablishedInv == ASSUME Inv, RunEstablished PROVE Inv'
  <1>1. ~stale /\ funcs_ # <<>> /\ Head(funcs_) = Established
    BY DEF RunEstablished, Next2Run, Alive
  <1>2. Life /\ TypeOK
    BY <1>1 DEF Inv
  <1>3. status_ = "Connecting"
    BY <1>1, <1>2, TailLess DEF Life, Begun, TypeOK
  <1>4. /\ funcs_' = <<>> /\ status_' = "Connected" /\ events_' = {"read"} /\ index_' = "added"
        /\ ups' = 1 /\ downs' = 0 /\ inSet' = inSet /\ inSet /\ base' = 0 /\ stale' = stale
        /\ aborted' = "no"
    BY <1>1, <1>2, <1>3, OnlyStart DEF RunEstablished, Update, Life
  <1>5. <<>> \in Seq(Fns) /\ Len(<<>>) = 0
    OBVIOUS
  <1>6. TypeOK'
    BY <1>2, <1>4, <1>5 DEF TypeOK
  <1>7. \A f : ~InQueue(funcs_', f)
    BY <1>4, <1>5 DEF InQueue
  <1>8. Starting' /\ Begun' /\ Up' /\ Down'
    BY <1>4, <1>7 DEF Starting, Begun, Up, Down
  <1>9. Once'
    BY <1>4, <1>5 DEF Once, AtMostOnce
  <1>. QED BY <1>4, <1>6, <1>8, <1>9 DEF Inv, Life

(* Sending leaves the channel as it is, or adds an event; after the close  *)
(* send() does nothing.                                                    *)
Adds == \E w \in {"read", "write"} : Update(events_ \cup {w})
SameChannel == UNCHANGED <<events_, index_>>

LEMMA SendKinds ==
  ASSUME NEW m \in Msgs, Send(m)
  PROVE  SameChannel \/ (Adds /\ (status_ = "Connected" \/ m \notin Sends))
  <1>1. ASSUME WriteRaw(m) PROVE SameChannel \/ Adds
    BY <1>1 DEF WriteRaw, Adds, SameChannel
  <1>2. ASSUME Append2List(m) \/ Nothing PROVE SameChannel
    BY <1>2 DEF Append2List, Nothing, SameChannel
  <1>3. CASE m \in Sends
    BY <1>1, <1>2, <1>3 DEF Send, sendInLoop
  <1>4. CASE m \in Files
    <2>1. ASSUME SendFileNode(m) PROVE SameChannel \/ Adds
      BY <1>2, <2>1 DEF SendFileNode, Adds, SameChannel
    <2>2. SameChannel \/ Adds
      BY <1>2, <1>4, <2>1 DEF Send, sendFile
    <2>. QED BY <1>3, <2>2
  <1>5. CASE m \in Streams
    <2>1. SameChannel \/ Adds
      BY <1>1, <1>2, <1>5 DEF Send, sendStream
    <2>. QED BY <1>3, <2>1
  <1>6. CASE m \in Chunks
    <2>1. SameChannel \/ Adds
      <3>1. CASE list # <<>> /\ Head(list) = End
        BY <1>1, <1>6, <3>1 DEF Send, sendAsyncDataInLoop
      <3>2. CASE ~(list # <<>> /\ Head(list) = End)
        BY <1>6, <3>2 DEF Send, sendAsyncDataInLoop, SameChannel
      <3>. QED BY <3>1, <3>2
    <2>. QED BY <1>3, <2>1
  <1>. QED BY <1>3, <1>4, <1>5, <1>6 DEF Msgs, Kinds

LEMMA SendQuiet ==
  ASSUME Inv, ~stale, status_ # "Connecting", NEW m \in Msgs, Send(m), Less(funcs_', funcs_)
  PROVE  QuietStep
  <1>1. /\ UNCHANGED <<status_, ups, downs, inSet, base, aborted>>
        /\ stale' = (stale \/ (status_ = "Disconnected" /\ m \notin Sends))
    BY DEF Send
  <1>2. stale' \in BOOLEAN /\ events_ \subseteq {"read", "write"}
    BY <1>1 DEF Inv, TypeOK
  <1>3. CASE SameChannel
    BY <1>1, <1>2, <1>3 DEF QuietStep, SameChannel
  <1>4. CASE Adds /\ (status_ = "Connected" \/ m \notin Sends)
    <2>1. PICK w \in {"read", "write"} : Update(events_ \cup {w})
      BY <1>4 DEF Adds
    <2>2. /\ events_' \subseteq {"read", "write"} /\ index_' \in {"added", "deleted"}
          /\ "read" \in events_ => "read" \in events_' /\ index_' = "added"
      BY <1>2, <2>1 DEF Update
    <2>3. stale' \/ status_ # "Disconnected"
      BY <1>1, <1>4
    <2>. QED BY <1>1, <1>2, <2>2, <2>3 DEF QuietStep
  <1>. QED BY <1>3, <1>4, SendKinds

LEMMA RunSendInv == ASSUME Inv, RunSend PROVE Inv'
  <1>1. PICK m \in Msgs : Next2Run(SendFn(m)) /\ funcs_' = Tail(funcs_) /\ Send(m)
    BY DEF RunSend
  <1>2. ~stale /\ status_ # "Connecting" /\ Less(funcs_', funcs_)
    BY <1>1, OpsDiffer, TakeQuiet
  <1>. QED BY <1>1, <1>2, SendQuiet, QuietInv

LEMMA OpenQuiet ==
  ASSUME Inv, ~stale, status_ # "Connecting", OpenStream, Less(funcs_', funcs_)
  PROVE  QuietStep
BY DEF OpenStream, QuietStep, sock, Inv, TypeOK

LEMMA EndQuiet ==
  ASSUME Inv, ~stale, status_ # "Connecting", EndStream, Less(funcs_', funcs_)
  PROVE  QuietStep
  <1>1. /\ UNCHANGED <<status_, ups, downs, inSet, base, aborted>>
        /\ stale' = (stale \/ status_ = "Disconnected")
        /\ SameChannel \/ Update(events_ \cup {"write"})
    BY DEF EndStream, SameChannel
  <1>2. stale' \in BOOLEAN /\ events_ \subseteq {"read", "write"}
    BY <1>1 DEF Inv, TypeOK
  <1>3. CASE SameChannel
    BY <1>1, <1>2, <1>3 DEF QuietStep, SameChannel
  <1>4. CASE Update(events_ \cup {"write"})
    <2>1. /\ events_' \subseteq {"read", "write"} /\ index_' \in {"added", "deleted"}
          /\ "read" \in events_ => "read" \in events_' /\ index_' = "added"
      BY <1>2, <1>4 DEF Update
    <2>. QED BY <1>1, <1>2, <2>1 DEF QuietStep
  <1>. QED BY <1>1, <1>3, <1>4

LEMMA ShutdownQuiet ==
  ASSUME Inv, ~stale, status_ # "Connecting", shutdownInLoop, Less(funcs_', funcs_)
  PROVE  QuietStep
BY DEF shutdownInLoop, QuietStep, Inv, TypeOK

(* forceCloseInLoop, with the queue q. *)
LEMMA ForceInv ==
  ASSUME Inv, ~stale, status_ # "Connecting", NEW q, Less(q, funcs_), forceCloseInLoop(q)
  PROVE  Inv'
  <1>1. CASE status_ \in {"Connected", "Disconnecting"}
    BY <1>1, CloseInv DEF forceCloseInLoop
  <1>2. CASE status_ \notin {"Connected", "Disconnecting"}
    <2>1. QuietStep
      BY <1>2 DEF forceCloseInLoop, QuietStep, conn, Inv, TypeOK
    <2>. QED BY <2>1, QuietInv
  <1>. QED BY <1>1, <1>2

(* The functions of the user that run in the loop. *)
LEMMA RunUserInv == ASSUME Inv, RunOpen \/ RunEnd \/ RunShutdown \/ RunForceClose PROVE Inv'
  <1>1. CASE RunOpen
    <2>1. ~stale /\ status_ # "Connecting" /\ Less(funcs_', funcs_) /\ OpenStream
      BY <1>1, OpsDiffer, TakeQuiet DEF RunOpen
    <2>. QED BY <2>1, OpenQuiet, QuietInv
  <1>2. CASE RunEnd
    <2>1. ~stale /\ status_ # "Connecting" /\ Less(funcs_', funcs_) /\ EndStream
      BY <1>2, OpsDiffer, TakeQuiet DEF RunEnd
    <2>. QED BY <2>1, EndQuiet, QuietInv
  <1>3. CASE RunShutdown
    <2>1. ~stale /\ status_ # "Connecting" /\ Less(funcs_', funcs_) /\ shutdownInLoop
      BY <1>3, OpsDiffer, TakeQuiet DEF RunShutdown
    <2>. QED BY <2>1, ShutdownQuiet, QuietInv
  <1>4. CASE RunForceClose
    <2>1. /\ ~stale /\ status_ # "Connecting" /\ Less(Tail(funcs_), funcs_)
          /\ forceCloseInLoop(Tail(funcs_))
      BY <1>4, OpsDiffer, TakeQuiet DEF RunForceClose
    <2>. QED BY <2>1, ForceInv
  <1>. QED BY <1>1, <1>2, <1>3, <1>4

(* connectDestroyed is queued when the connection is down and out of the   *)
(* set of the server; it runs once, and finds a channel without events.    *)
LEMMA DestroyedInv == ASSUME Inv, RunDestroyed PROVE Inv'
  <1>1. /\ ~stale /\ status_ # "Connecting" /\ Less(Tail(funcs_), funcs_)
        /\ funcs_ # <<>> /\ Head(funcs_) = Destroyed
    BY OpsDiffer, TakeQuiet DEF RunDestroyed
  <1>2. Life /\ TypeOK
    BY <1>1 DEF Inv
  <1>3. InQueue(funcs_, Destroyed) /\ ~InQueue(Tail(funcs_), Destroyed)
    BY <1>1, <1>2, TailLess DEF Life, Once, TypeOK
  <1>4. status_ = "Disconnected"
    BY <1>1, <1>2, <1>3 DEF Life, Up, TypeOK
  <1>5. /\ events_ = {} /\ downs = 1 /\ ~inSet /\ index_ # "new" /\ base = 0 /\ ups = 1
        /\ ~InQueue(funcs_, Established) /\ AtMostOnce(funcs_, Destroyed) /\ aborted = "no"
    BY <1>2, <1>3, <1>4 DEF Life, Down, Begun, Once, TypeOK
  <1>6. /\ funcs_' = Tail(funcs_) /\ index_' = "new" /\ aborted' = "no"
        /\ UNCHANGED <<status_, events_, downs, ups, inSet, base, stale>>
    BY <1>4, <1>5 DEF RunDestroyed, connectDestroyed
  <1>7. TypeOK'
    BY <1>1, <1>2, <1>6 DEF TypeOK, Less
  <1>8. Starting' /\ Begun' /\ Up' /\ Once'
    BY <1>1, <1>4, <1>5, <1>6 DEF Starting, Begun, Up, Once, Less
  <1>9. Down'
    BY <1>3, <1>4, <1>5, <1>6 DEF Down
  <1>. QED BY <1>6, <1>7, <1>8, <1>9 DEF Inv, Life

(* The events. *)
LEMMA ReadClosedInv == ASSUME Inv, ReadClosed PROVE Inv'
  <1>1. ~stale /\ "read" \in events_ /\ handleClose(funcs_)
    BY DEF ReadClosed, Alive, Watched
  <1>2. Life /\ TypeOK
    BY <1>1 DEF Inv
  <1>3. status_ \in {"Connected", "Disconnecting"}
    BY <1>1, <1>2 DEF Life, Starting, Down, TypeOK
  <1>4. Less(funcs_, funcs_)
    BY <1>2, SameLess DEF TypeOK
  <1>. QED BY <1>1, <1>3, <1>4, CloseInv

LEMMA WriteInv == ASSUME Inv, WriteCallback PROVE Inv'
  <1>1. /\ ~stale /\ "write" \in events_
        /\ UNCHANGED <<status_, ups, downs, inSet, base, aborted, stale, funcs_>>
        /\ Update(events_ \ {"write"}) \/ SameChannel
    BY DEF WriteCallback, Alive, Watched, SameChannel
  <1>2. Life /\ TypeOK
    BY <1>1 DEF Inv
  <1>3. status_ \in {"Connected", "Disconnecting"}
    BY <1>1, <1>2 DEF Life, Starting, Down, TypeOK
  <1>4. Less(funcs_', funcs_)
    BY <1>1, <1>2, SameLess DEF TypeOK
  <1>5. CASE SameChannel
    <2>1. QuietStep
      BY <1>1, <1>2, <1>3, <1>4, <1>5 DEF QuietStep, SameChannel, TypeOK
    <2>. QED BY <1>1, <2>1, QuietInv
  <1>6. CASE Update(events_ \ {"write"})
    <2>1. /\ events_' \subseteq {"read", "write"} /\ "read" \in events_' /\ index_' = "added"
      BY <1>2, <1>3, <1>6 DEF Update, Life, Up, TypeOK
    <2>2. QuietStep
      BY <1>1, <1>2, <1>3, <1>4, <2>1 DEF QuietStep, TypeOK
    <2>. QED BY <1>1, <2>2, QuietInv
  <1>. QED BY <1>1, <1>5, <1>6

(* handleCloseInLoop in the loop of the server. *)
LEMMA BaseInv == ASSUME Inv, RunBase PROVE Inv'
  <1>1. ~stale /\ base > 0 /\ base' = base - 1 /\ handleCloseInLoop(funcs_)
        /\ UNCHANGED <<status_, events_, index_, ups, downs, stale>>
    BY DEF RunBase, Alive
  <1>2. Life /\ TypeOK
    BY <1>1 DEF Inv
  <1>3. status_ = "Disconnected"
    BY <1>1, <1>2 DEF Life, Starting, Up, TypeOK
  <1>4. /\ base = 1 /\ inSet /\ index_ # "new" /\ ~InQueue(funcs_, Destroyed)
        /\ downs = 1 /\ ups = 1 /\ events_ = {} /\ ~InQueue(funcs_, Established)
        /\ aborted = "no" /\ funcs_ \in Seq(Fns)
    BY <1>1, <1>2, <1>3 DEF Life, Down, Begun, TypeOK
  <1>5. inSet' = FALSE /\ funcs_' = Append(funcs_, Destroyed) /\ aborted' = "no" /\ base' = 0
    BY <1>1, <1>4 DEF handleCloseInLoop
  <1>6. /\ funcs_' \in Seq(Fns) /\ AtMostOnce(funcs_', Destroyed)
        /\ ~InQueue(funcs_', Established)
    BY <1>4, <1>5, AppendDestroyed
  <1>7. TypeOK'
    <2>1. base' \in Nat /\ inSet' \in BOOLEAN
      BY <1>5
    <2>. QED BY <1>1, <1>2, <1>6, <2>1 DEF TypeOK
  <1>8. Starting' /\ Begun' /\ Up' /\ Once'
    BY <1>1, <1>3, <1>4, <1>6 DEF Starting, Begun, Up, Once
  <1>9. Down'
    BY <1>1, <1>3, <1>4, <1>5 DEF Down
  <1>. QED BY <1>5, <1>7, <1>8, <1>9 DEF Inv, Life

(* Calls in the loop's own thread. *)
LEMMA LoopCallInv ==
  ASSUME Inv, LoopCallSend \/ LoopCallOpen \/ LoopCallEnd \/ LoopCallShutdown \/ LoopCallForceClose
  PROVE  Inv'
  <1>1. ~stale /\ (ups = 1 \/ stream # "no")
    BY DEF LoopCallSend, LoopCallOpen, LoopCallEnd, LoopCallShutdown, LoopCallForceClose,
           Given, MayCall, Alive
  <1>2. status_ # "Connecting" /\ Less(funcs_, funcs_)
    BY <1>1, UserQuiet, SameLess DEF Inv, TypeOK
  <1>3. CASE LoopCallSend
    <2>1. PICK m \in LoopMsgs : Send(m) /\ funcs_' = funcs_
      BY <1>3 DEF LoopCallSend
    <2>2. m \in Msgs /\ Less(funcs_', funcs_)
      BY <1>2, <2>1, MsgsAssumption
    <2>. QED BY <1>1, <1>2, <2>1, <2>2, SendQuiet, QuietInv
  <1>4. CASE LoopCallOpen
    <2>1. OpenStream /\ Less(funcs_', funcs_)
      BY <1>2, <1>4 DEF LoopCallOpen
    <2>. QED BY <1>1, <1>2, <2>1, OpenQuiet, QuietInv
  <1>5. CASE LoopCallEnd
    <2>1. Less(funcs_', funcs_)
      BY <1>2, <1>5 DEF LoopCallEnd
    <2>2. CASE EndStream
      BY <1>1, <1>2, <2>1, <2>2, EndQuiet, QuietInv
    <2>3. CASE UNCHANGED <<conn, base>>
      <3>1. QuietStep
        BY <1>2, <2>1, <2>3 DEF QuietStep, conn, Inv, TypeOK
      <3>. QED BY <1>1, <3>1, QuietInv
    <2>. QED BY <1>5, <2>2, <2>3 DEF LoopCallEnd
  <1>6. CASE LoopCallShutdown
    <2>1. shutdownInLoop /\ Less(funcs_', funcs_)
      BY <1>2, <1>6 DEF LoopCallShutdown
    <2>. QED BY <1>1, <1>2, <2>1, ShutdownQuiet, QuietInv
  <1>7. CASE LoopCallForceClose
    <2>1. forceCloseInLoop(funcs_)
      BY <1>7 DEF LoopCallForceClose
    <2>. QED BY <1>1, <1>2, <2>1, ForceInv
  <1>. QED BY <1>3, <1>4, <1>5, <1>6, <1>7

(* Calls in another thread only queue a function. *)
LEMMA AwayCallInv ==
  ASSUME Inv, AwayCallSend \/ AwayCallOpen \/ AwayCallEnd \/ AwayCallShutdown \/ AwayCallForceClose
  PROVE  Inv'
  <1>1. ~stale /\ (ups = 1 \/ stream # "no") /\ UNCHANGED <<conn, base>>
    BY DEF AwayCallSend, AwayCallOpen, AwayCallEnd, AwayCallShutdown, AwayCallForceClose,
           Given, MayCall, Alive
  <1>2. status_ # "Connecting"
    BY <1>1, UserQuiet
  <1>3. \/ funcs_' = funcs_
        \/ \E f \in {OpenFn, EndFn, ShutdownFn, CloseFn} : funcs_' = Append(funcs_, f)
        \/ \E m \in Msgs : funcs_' = Append(funcs_, SendFn(m))
    BY DEF AwayCallSend, AwayCallOpen, AwayCallEnd, AwayCallShutdown, AwayCallForceClose
  <1>4. funcs_ \in Seq(Fns)
    BY DEF Inv, TypeOK
  <1>5. CASE funcs_' = funcs_
    <2>1. Less(funcs_', funcs_)
      BY <1>4, <1>5, SameLess
    <2>2. QuietStep
      BY <1>1, <1>2, <2>1 DEF QuietStep, conn, Inv, TypeOK
    <2>. QED BY <1>1, <2>2, QuietInv
  <1>6. ASSUME NEW f \in Fns, f # Established, f # Destroyed, funcs_' = Append(funcs_, f)
        PROVE  Inv'
    <2>1. Less(funcs_', funcs_)
      BY <1>4, <1>6, AppendLess
    <2>2. QuietStep
      BY <1>1, <1>2, <2>1 DEF QuietStep, conn, Inv, TypeOK
    <2>. QED BY <1>1, <2>2, QuietInv
  <1>7. CASE \E f \in {OpenFn, EndFn, ShutdownFn, CloseFn} : funcs_' = Append(funcs_, f)
    BY <1>6, <1>7, OpsDiffer DEF Fns
  <1>8. CASE \E m \in Msgs : funcs_' = Append(funcs_, SendFn(m))
    BY <1>6, <1>8, OpsDiffer DEF Fns
  <1>. QED BY <1>3, <1>5, <1>7, <1>8

LEMMA StutterInv == ASSUME Inv, UNCHANGED <<conn, funcs_, base, stream>> PROVE Inv'
BY DEF conn, Inv, TypeOK, Life, Starting, Begun, Up, Down, Once, InQueue, AtMostOnce

LEMMA NextInv == Inv /\ [Next]_vars => Inv'
  <1>. SUFFICES ASSUME Inv, [Next]_vars PROVE Inv'
    OBVIOUS
  <1>1. CASE Run
    BY <1>1, EstablishedInv, RunSendInv, RunUserInv, DestroyedInv DEF Run
  <1>2. CASE Handle \/ RunBase
    BY <1>2, ReadClosedInv, WriteInv, BaseInv DEF Handle
  <1>3. CASE Call
    BY <1>3, LoopCallInv, AwayCallInv DEF Call
  <1>4. CASE PeerCloses \/ PeerResets \/ UNCHANGED vars
    <2>1. UNCHANGED <<conn, funcs_, base, stream>>
      BY <1>4 DEF PeerCloses, PeerResets, vars, user
    <2>. QED BY <2>1, StutterInv
  <1>. QED BY <1>1, <1>2, <1>3, <1>4 DEF Next

THEOREM InvHolds == Spec => []Inv
BY InitInv, NextInv, PTL DEF Spec

-----------------------------------------------------------------------------
(* The data: where the bytes of a class are *)

(* A byte of a message, or the mark of a stream.  Is there a mark in s?  Is there *)
(* no byte of C?                                                                  *)
B == (Msgs \X {1, 2}) \cup {End}
HasEnd(s) == \E i \in 1 .. Len(s) : s[i] = End
Lacks(s, C) == \A i \in 1 .. Len(s) : s[i][1] \notin C

-----------------------------------------------------------------------------
(* Sequences *)
LEMMA ConcatFacts ==
  ASSUME NEW S, NEW s \in Seq(S), NEW t \in Seq(S)
  PROVE  /\ s \o t \in Seq(S) /\ Len(s \o t) = Len(s) + Len(t)
         /\ Len(s) \in Nat /\ Len(t) \in Nat
         /\ \A i \in 1 .. Len(s) : (s \o t)[i] = s[i] /\ s[i] \in S
         /\ \A i \in 1 .. Len(t) : (s \o t)[Len(s) + i] = t[i] /\ t[i] \in S
OBVIOUS

LEMMA SeqEq ==
  ASSUME NEW S, NEW s \in Seq(S), NEW t \in Seq(S), Len(s) = Len(t),
         \A i \in 1 .. Len(s) : s[i] = t[i]
  PROVE  s = t
OBVIOUS

LEMMA ConcatEmpty ==
  ASSUME NEW S, NEW a \in Seq(S)
  PROVE  a \o <<>> = a /\ <<>> \o a = a
OBVIOUS

(* Every place of a \o b is one of a or one of b. *)
LEMMA ConcatPlace ==
  ASSUME NEW S, NEW s \in Seq(S), NEW t \in Seq(S), NEW i \in 1 .. Len(s \o t)
  PROVE  \/ i \in 1 .. Len(s) /\ (s \o t)[i] = s[i]
         \/ \E k \in 1 .. Len(t) : i = Len(s) + k /\ (s \o t)[i] = t[k]
  <1>1. /\ Len(s \o t) = Len(s) + Len(t) /\ Len(s) \in Nat /\ Len(t) \in Nat
        /\ \A k \in 1 .. Len(s) : (s \o t)[k] = s[k]
        /\ \A k \in 1 .. Len(t) : (s \o t)[Len(s) + k] = t[k]
    BY ConcatFacts
  <1>2. CASE i <= Len(s)
    BY <1>1, <1>2
  <1>3. CASE i > Len(s)
    <2>1. i - Len(s) \in 1 .. Len(t) /\ i = Len(s) + (i - Len(s))
      BY <1>1, <1>3
    <2>2. PICK k \in 1 .. Len(t) : i = Len(s) + k
      BY <2>1, Zenon
    <2>. QED BY <1>1, <2>2
  <1>. QED BY <1>1, <1>2, <1>3

-----------------------------------------------------------------------------
LEMMA SameSym == ASSUME NEW s, NEW t, NEW C, SameOf(s, t, C) PROVE SameOf(t, s, C)
BY DEF SameOf

(* The bytes of C are in u where f puts those of s, in the same order.     *)
LEMMA SameMoved ==
  ASSUME NEW s, NEW u, NEW t, NEW C, NEW f, SameOf(s, t, C),
         \A i \in Places(s, C) : f[i] \in Places(u, C) /\ u[f[i]] = s[i],
         \A j \in Places(u, C) : \E i \in Places(s, C) : j = f[i],
         \A i, j \in Places(s, C) : i < j <=> f[i] < f[j]
  PROVE  SameOf(u, t, C)
  <1>1. {u[i] : i \in Places(u, C)} = {s[i] : i \in Places(s, C)}
    OBVIOUS
  <1>2. ASSUME NEW i \in Places(u, C), NEW k \in Places(t, C), u[i] = t[k],
               NEW j \in Places(u, C), NEW l \in Places(t, C), u[j] = t[l]
        PROVE  i < j <=> k < l
    <2>1. PICK a \in Places(s, C) : i = f[a]
      OBVIOUS
    <2>2. PICK b \in Places(s, C) : j = f[b]
      OBVIOUS
    <2>3. s[a] = t[k] /\ s[b] = t[l]
      BY <1>2, <2>1, <2>2
    <2>4. a < b <=> k < l
      BY <2>3 DEF SameOf
    <2>. QED BY <2>1, <2>2, <2>4
  <1>3. {s[i] : i \in Places(s, C)} = {t[k] : k \in Places(t, C)}
    BY DEF SameOf
  <1>4. {u[i] : i \in Places(u, C)} = {t[k] : k \in Places(t, C)}
    BY <1>1, <1>3, Zenon
  <1>. QED BY <1>2, <1>4, Zenon DEF SameOf

LEMMA PlacesOf ==
  ASSUME NEW s \in Seq(B), NEW C
  PROVE  Places(s, C) = {i \in 1 .. Len(s) : s[i][1] \in C}
  <1>1. DOMAIN s = 1 .. Len(s)
    OBVIOUS
  <1>. QED BY <1>1, Zenon DEF Places

LEMMA ThreeParts ==
  ASSUME NEW S, NEW a \in Seq(S), NEW r \in Seq(S), NEW c \in Seq(S)
  PROVE  /\ a \o c \in Seq(S) /\ (a \o r) \o c \in Seq(S)
         /\ Len(a) \in Nat /\ Len(r) \in Nat /\ Len(c) \in Nat
         /\ Len(a \o c) = Len(a) + Len(c) /\ Len((a \o r) \o c) = Len(a) + Len(r) + Len(c)
         /\ \A i \in 1 .. Len(a) : (a \o c)[i] = a[i] /\ ((a \o r) \o c)[i] = a[i]
         /\ \A i \in 1 .. Len(r) : ((a \o r) \o c)[Len(a) + i] = r[i]
         /\ \A i \in 1 .. Len(c) : (a \o c)[Len(a) + i] = c[i]
                                   /\ ((a \o r) \o c)[Len(a) + Len(r) + i] = c[i]
  <1>1. PICK b : b = a \o r
    OBVIOUS
  <1>2. /\ b \in Seq(S) /\ Len(b) = Len(a) + Len(r) /\ Len(a) \in Nat /\ Len(r) \in Nat
        /\ \A i \in 1 .. Len(a) : b[i] = a[i]
        /\ \A i \in 1 .. Len(r) : b[Len(a) + i] = r[i]
    BY <1>1, ConcatFacts
  <1>3. /\ b \o c \in Seq(S) /\ Len(b \o c) = Len(b) + Len(c) /\ Len(c) \in Nat
        /\ \A i \in 1 .. Len(b) : (b \o c)[i] = b[i]
        /\ \A i \in 1 .. Len(c) : (b \o c)[Len(b) + i] = c[i]
    <2>1. b \in Seq(S)
      BY <1>2
    <2>. QED BY <2>1, ConcatFacts
  <1>4. /\ a \o c \in Seq(S) /\ Len(a \o c) = Len(a) + Len(c)
        /\ \A i \in 1 .. Len(a) : (a \o c)[i] = a[i]
        /\ \A i \in 1 .. Len(c) : (a \o c)[Len(a) + i] = c[i]
    BY ConcatFacts
  <1>5. \A i \in 1 .. Len(a) : (b \o c)[i] = a[i]
    <2>. TAKE i \in 1 .. Len(a)
    <2>1. i \in 1 .. Len(b)
      BY <1>2
    <2>. QED BY <1>2, <1>3, <2>1
  <1>6. \A i \in 1 .. Len(r) : (b \o c)[Len(a) + i] = r[i]
    <2>. TAKE i \in 1 .. Len(r)
    <2>1. Len(a) + i \in 1 .. Len(b)
      BY <1>2
    <2>. QED BY <1>2, <1>3, <2>1
  <1>. QED BY <1>1, <1>2, <1>3, <1>4, <1>5, <1>6

(* Bytes that are not of C may come between. *)
LEMMA SameInsert ==
  ASSUME NEW C, NEW a \in Seq(B), NEW r \in Seq(B), NEW c \in Seq(B), Lacks(r, C),
         NEW t, SameOf(a \o c, t, C)
  PROVE  SameOf((a \o r) \o c, t, C)
  <1>1. PICK s, u, n, k, l :
          s = a \o c /\ u = (a \o r) \o c /\ n = Len(a) /\ k = Len(r) /\ l = Len(c)
    OBVIOUS
  <1>2. /\ s \in Seq(B) /\ u \in Seq(B) /\ n \in Nat /\ k \in Nat /\ l \in Nat
        /\ Len(s) = n + l /\ Len(u) = n + k + l
        /\ \A i \in 1 .. n : s[i] = a[i] /\ u[i] = a[i]
        /\ \A i \in 1 .. k : u[n + i] = r[i]
        /\ \A i \in 1 .. l : s[n + i] = c[i] /\ u[n + k + i] = c[i]
    BY <1>1, ThreeParts
  <1>. DEFINE f == [i \in 1 .. n + l |-> IF i <= n THEN i ELSE i + k]
  <1>3. /\ Places(s, C) = {i \in 1 .. n + l : s[i][1] \in C}
        /\ Places(u, C) = {i \in 1 .. n + k + l : u[i][1] \in C}
    <2>1. /\ Places(s, C) = {i \in 1 .. Len(s) : s[i][1] \in C}
          /\ Places(u, C) = {i \in 1 .. Len(u) : u[i][1] \in C}
      BY <1>2, PlacesOf
    <2>. QED BY <1>2, <2>1
  <1>4. ASSUME NEW i \in 1 .. n + l PROVE f[i] \in 1 .. n + k + l /\ u[f[i]] = s[i]
    <2>1. CASE i <= n
      <3>1. i \in 1 .. n /\ f[i] = i /\ i \in 1 .. n + k + l
        BY <1>2, <2>1
      <3>. QED BY <1>2, <3>1
    <2>2. CASE i > n
      <3>1. i - n \in 1 .. l /\ i = n + (i - n) /\ f[i] = n + k + (i - n)
            /\ f[i] \in 1 .. n + k + l
        BY <1>2, <2>2
      <3>2. PICK j \in 1 .. l : i = n + j /\ f[i] = n + k + j
        BY <3>1, Zenon
      <3>. QED BY <1>2, <3>1, <3>2
    <2>. QED BY <1>2, <2>1, <2>2
  <1>5. ASSUME NEW j \in 1 .. n + k + l, u[j][1] \in C
        PROVE  \E i \in 1 .. n + l : j = f[i] /\ s[i] = u[j]
    <2>1. CASE j <= n
      <3>1. j \in 1 .. n + l /\ f[j] = j
        BY <1>2, <2>1
      <3>. QED BY <1>4, <3>1
    <2>2. CASE j > n + k
      <3>1. j - k \in 1 .. n + l /\ f[j - k] = j
        BY <1>2, <2>2
      <3>. QED BY <1>4, <3>1
    <2>3. CASE j > n /\ j <= n + k
      <3>1. j - n \in 1 .. k /\ j = n + (j - n)
        BY <1>2, <2>3
      <3>2. PICK i \in 1 .. k : j = n + i
        BY <3>1, Zenon
      <3>3. u[j] = r[i]
        BY <1>2, <3>2
      <3>. QED BY <1>1, <1>5, <3>2, <3>3 DEF Lacks
    <2>. QED BY <1>2, <2>1, <2>2, <2>3
  <1>6. ASSUME NEW i \in 1 .. n + l, NEW j \in 1 .. n + l PROVE i < j <=> f[i] < f[j]
    BY <1>2
  <1>. HIDE DEF f
  <1>7. \A i \in Places(s, C) : f[i] \in Places(u, C) /\ u[f[i]] = s[i]
    BY <1>3, <1>4
  <1>8. \A j \in Places(u, C) : \E i \in Places(s, C) : j = f[i]
    BY <1>3, <1>5
  <1>9. \A i, j \in Places(s, C) : i < j <=> f[i] < f[j]
    BY <1>3, <1>6
  <1>10. SameOf(u, t, C)
    BY <1>1, <1>7, <1>8, <1>9, SameMoved
  <1>. QED BY <1>1, <1>10

LEMMA SameDelete ==
  ASSUME NEW C, NEW a \in Seq(B), NEW r \in Seq(B), NEW c \in Seq(B), Lacks(r, C),
         NEW t, SameOf((a \o r) \o c, t, C)
  PROVE  SameOf(a \o c, t, C)
  <1>1. PICK s, u, n, k, l :
          s = a \o c /\ u = (a \o r) \o c /\ n = Len(a) /\ k = Len(r) /\ l = Len(c)
    OBVIOUS
  <1>2. /\ s \in Seq(B) /\ u \in Seq(B) /\ n \in Nat /\ k \in Nat /\ l \in Nat
        /\ Len(s) = n + l /\ Len(u) = n + k + l
        /\ \A i \in 1 .. n : s[i] = a[i] /\ u[i] = a[i]
        /\ \A i \in 1 .. k : u[n + i] = r[i]
        /\ \A i \in 1 .. l : s[n + i] = c[i] /\ u[n + k + i] = c[i]
    BY <1>1, ThreeParts
  <1>. DEFINE f == [i \in 1 .. n + k + l |-> IF i <= n THEN i ELSE i - k]
  <1>3. /\ Places(s, C) = {i \in 1 .. n + l : s[i][1] \in C}
        /\ Places(u, C) = {i \in 1 .. n + k + l : u[i][1] \in C}
    <2>1. /\ Places(s, C) = {i \in 1 .. Len(s) : s[i][1] \in C}
          /\ Places(u, C) = {i \in 1 .. Len(u) : u[i][1] \in C}
      BY <1>2, PlacesOf
    <2>. QED BY <1>2, <2>1
  <1>4. ASSUME NEW i \in 1 .. n + k + l, u[i][1] \in C
        PROVE  f[i] \in 1 .. n + l /\ s[f[i]] = u[i] /\ (i <= n \/ i > n + k)
    <2>1. CASE i <= n
      <3>1. i \in 1 .. n /\ f[i] = i /\ i \in 1 .. n + l
        BY <1>2, <2>1
      <3>. QED BY <1>2, <2>1, <3>1
    <2>2. CASE i > n + k
      <3>1. i - k - n \in 1 .. l /\ i = n + k + (i - k - n) /\ f[i] = n + (i - k - n)
            /\ f[i] \in 1 .. n + l
        BY <1>2, <2>2
      <3>2. PICK j \in 1 .. l : i = n + k + j /\ f[i] = n + j
        BY <3>1, Zenon
      <3>. QED BY <1>2, <2>2, <3>1, <3>2
    <2>3. CASE i > n /\ i <= n + k
      <3>1. i - n \in 1 .. k /\ i = n + (i - n)
        BY <1>2, <2>3
      <3>2. PICK j \in 1 .. k : i = n + j
        BY <3>1, Zenon
      <3>3. u[i] = r[j]
        BY <1>2, <3>2
      <3>. QED BY <1>1, <1>4, <3>2, <3>3 DEF Lacks
    <2>. QED BY <1>2, <2>1, <2>2, <2>3
  <1>5. ASSUME NEW j \in 1 .. n + l
        PROVE  \E i \in 1 .. n + k + l : j = f[i] /\ s[j] = u[i]
    <2>1. CASE j <= n
      <3>1. j \in 1 .. n + k + l /\ f[j] = j /\ j \in 1 .. n
        BY <1>2, <2>1
      <3>. QED BY <1>2, <3>1
    <2>2. CASE j > n
      <3>1. j + k \in 1 .. n + k + l /\ f[j + k] = j /\ j - n \in 1 .. l /\ j = n + (j - n)
            /\ j + k = n + k + (j - n)
        BY <1>2, <2>2
      <3>2. PICK i \in 1 .. l : j = n + i /\ j + k = n + k + i
        BY <3>1, Zenon
      <3>. QED BY <1>2, <3>1, <3>2
    <2>. QED BY <1>2, <2>1, <2>2
  <1>6. ASSUME NEW i \in 1 .. n + k + l, NEW j \in 1 .. n + k + l,
               i <= n \/ i > n + k, j <= n \/ j > n + k
        PROVE  i < j <=> f[i] < f[j]
    BY <1>2, <1>6
  <1>. HIDE DEF f
  <1>7. \A i \in Places(u, C) : f[i] \in Places(s, C) /\ s[f[i]] = u[i]
    BY <1>3, <1>4
  <1>8. \A j \in Places(s, C) : \E i \in Places(u, C) : j = f[i]
    BY <1>3, <1>5
  <1>9. \A i, j \in Places(u, C) : i < j <=> f[i] < f[j]
    BY <1>3, <1>4, <1>6
  <1>10. SameOf(s, t, C)
    BY <1>1, <1>7, <1>8, <1>9, SameMoved
  <1>. QED BY <1>1, <1>10

-----------------------------------------------------------------------------
(* The bytes of messages, and those of the queue *)

(* Two elements of each of n. *)
Pairs(n, g) == [i \in 1 .. 2 * n |-> g[(i + 1) \div 2][2 - (i % 2)]]
PairsOK(n, g) == \A k \in 1 .. n : \E x, y \in B : g[k] = <<x, y>>

(* Half the numbers up to 2 * n *)
LEMMA HalfFacts ==
  ASSUME NEW n \in Nat, NEW i \in 1 .. 2 * n
  PROVE  \E k \in 1 .. n : \/ i = 2 * k - 1 /\ (i + 1) \div 2 = k /\ 2 - (i % 2) = 1
                           \/ i = 2 * k /\ (i + 1) \div 2 = k /\ 2 - (i % 2) = 2
OBVIOUS

LEMMA PairFacts ==
  ASSUME NEW k \in Nat \ {0}
  PROVE  /\ (2 * k - 1 + 1) \div 2 = k /\ 2 - ((2 * k - 1) % 2) = 1
         /\ (2 * k + 1) \div 2 = k /\ 2 - ((2 * k) % 2) = 2
OBVIOUS

LEMMA PairsAre ==
  ASSUME NEW n \in Nat, NEW g, PairsOK(n, g)
  PROVE  /\ Pairs(n, g) \in Seq(B) /\ Len(Pairs(n, g)) = 2 * n
         /\ \A k \in 1 .. n : Pairs(n, g)[2 * k - 1] = g[k][1] /\ Pairs(n, g)[2 * k] = g[k][2]
  <1>1. ASSUME NEW k \in 1 .. n
        PROVE  /\ 2 * k - 1 \in 1 .. 2 * n /\ 2 * k \in 1 .. 2 * n
               /\ Pairs(n, g)[2 * k - 1] = g[k][1] /\ Pairs(n, g)[2 * k] = g[k][2]
               /\ g[k][1] \in B /\ g[k][2] \in B
    <2>1. 2 * k - 1 \in 1 .. 2 * n /\ 2 * k \in 1 .. 2 * n
      OBVIOUS
    <2>2. PICK i, j : i = 2 * k - 1 /\ j = 2 * k
      OBVIOUS
    <2>3. /\ (i + 1) \div 2 = k /\ 2 - (i % 2) = 1 /\ (j + 1) \div 2 = k /\ 2 - (j % 2) = 2
          /\ i \in 1 .. 2 * n /\ j \in 1 .. 2 * n
      BY <2>1, <2>2, PairFacts
    <2>4. Pairs(n, g)[i] = g[k][1] /\ Pairs(n, g)[j] = g[k][2]
      BY <2>3 DEF Pairs
    <2>5. g[k][1] \in B /\ g[k][2] \in B
      BY DEF PairsOK
    <2>. QED BY <2>1, <2>2, <2>4, <2>5
  <1>2. ASSUME NEW i \in 1 .. 2 * n PROVE g[(i + 1) \div 2][2 - (i % 2)] \in B
    <2>1. PICK k \in 1 .. n : \/ (i + 1) \div 2 = k /\ 2 - (i % 2) = 1
                              \/ (i + 1) \div 2 = k /\ 2 - (i % 2) = 2
      BY HalfFacts
    <2>. QED BY <1>1, <2>1
  <1>3. Pairs(n, g) \in [1 .. 2 * n -> B]
    BY <1>2 DEF Pairs
  <1>4. \A f \in [1 .. 2 * n -> B] : f \in Seq(B) /\ Len(f) = 2 * n
    OBVIOUS
  <1>. QED BY <1>1, <1>3, <1>4

(* Taking the first or the last pair. *)
LEMMA PairsLast ==
  ASSUME NEW n \in Nat, NEW g, NEW h, PairsOK(n, g), PairsOK(n + 1, h),
         \A k \in 1 .. n : h[k] = g[k]
  PROVE  h[n + 1] \in Seq(B) /\ Pairs(n + 1, h) = Pairs(n, g) \o h[n + 1]
  <1>1. PICK x \in B, y \in B : h[n + 1] = <<x, y>>
    BY DEF PairsOK
  <1>2. PICK p, q, r : p = Pairs(n, g) /\ q = Pairs(n + 1, h) /\ r = h[n + 1]
    OBVIOUS
  <1>3. /\ p \in Seq(B) /\ Len(p) = 2 * n
        /\ \A k \in 1 .. n : p[2 * k - 1] = g[k][1] /\ p[2 * k] = g[k][2]
    BY <1>2, PairsAre
  <1>4. /\ q \in Seq(B) /\ Len(q) = 2 * (n + 1)
        /\ \A k \in 1 .. n + 1 : q[2 * k - 1] = h[k][1] /\ q[2 * k] = h[k][2]
    BY <1>2, PairsAre
  <1>5. r \in Seq(B) /\ Len(r) = 2 /\ r[1] = x /\ r[2] = y
    BY <1>1, <1>2
  <1>6. /\ p \o r \in Seq(B) /\ Len(p \o r) = 2 * n + 2
        /\ \A i \in 1 .. 2 * n : (p \o r)[i] = p[i]
        /\ (p \o r)[2 * n + 1] = x /\ (p \o r)[2 * n + 2] = y
    <2>0. p \in Seq(B) /\ r \in Seq(B)
      BY <1>3, <1>5
    <2>1. /\ p \o r \in Seq(B) /\ Len(p \o r) = Len(p) + Len(r)
          /\ \A i \in 1 .. Len(p) : (p \o r)[i] = p[i]
          /\ \A i \in 1 .. Len(r) : (p \o r)[Len(p) + i] = r[i]
      BY <2>0, ConcatFacts
    <2>. QED BY <1>3, <1>5, <2>1
  <1>7. ASSUME NEW i \in 1 .. Len(q) PROVE q[i] = (p \o r)[i]
    <2>0. PICK l \in Nat : l = n + 1 /\ i \in 1 .. 2 * l
      BY <1>4
    <2>1. PICK k \in 1 .. n + 1 : i = 2 * k - 1 \/ i = 2 * k
      BY <2>0, HalfFacts
    <2>2. CASE k \in 1 .. n
      <3>1. i \in 1 .. 2 * n
        BY <2>1, <2>2
      <3>2. q[i] = p[i]
        BY <1>3, <1>4, <2>1, <2>2
      <3>. QED BY <1>6, <3>1, <3>2
    <2>3. CASE k = n + 1
      <3>1. q[2 * k - 1] = x /\ q[2 * k] = y /\ 2 * k - 1 = 2 * n + 1 /\ 2 * k = 2 * n + 2
        BY <1>1, <1>4, <2>3
      <3>. QED BY <1>6, <2>1, <3>1
    <2>4. k \in 1 .. n \/ k = n + 1
      OBVIOUS
    <2>. QED BY <2>2, <2>3, <2>4
  <1>8. q = p \o r
    <2>1. Len(q) = Len(p \o r)
      BY <1>4, <1>6
    <2>. QED BY <1>4, <1>6, <1>7, <2>1, SeqEq
  <1>. QED BY <1>2, <1>5, <1>8

LEMMA PairsFirst ==
  ASSUME NEW n \in Nat, NEW g, NEW h, PairsOK(n, g), PairsOK(n + 1, h),
         \A k \in 1 .. n : h[k + 1] = g[k]
  PROVE  h[1] \in Seq(B) /\ Pairs(n + 1, h) = h[1] \o Pairs(n, g)
  <1>1. PICK x \in B, y \in B : h[1] = <<x, y>>
    BY DEF PairsOK
  <1>2. PICK p, q, r : p = Pairs(n, g) /\ q = Pairs(n + 1, h) /\ r = h[1]
    OBVIOUS
  <1>3. /\ p \in Seq(B) /\ Len(p) = 2 * n
        /\ \A k \in 1 .. n : p[2 * k - 1] = g[k][1] /\ p[2 * k] = g[k][2]
    BY <1>2, PairsAre
  <1>4. /\ q \in Seq(B) /\ Len(q) = 2 * (n + 1)
        /\ \A k \in 1 .. n + 1 : q[2 * k - 1] = h[k][1] /\ q[2 * k] = h[k][2]
    BY <1>2, PairsAre
  <1>5. r \in Seq(B) /\ Len(r) = 2 /\ r[1] = x /\ r[2] = y
    BY <1>1, <1>2
  <1>6. /\ r \o p \in Seq(B) /\ Len(r \o p) = 2 + 2 * n
        /\ (r \o p)[1] = x /\ (r \o p)[2] = y
        /\ \A i \in 1 .. 2 * n : (r \o p)[2 + i] = p[i]
    <2>0. p \in Seq(B) /\ r \in Seq(B)
      BY <1>3, <1>5
    <2>1. /\ r \o p \in Seq(B) /\ Len(r \o p) = Len(r) + Len(p)
          /\ \A i \in 1 .. Len(r) : (r \o p)[i] = r[i]
          /\ \A i \in 1 .. Len(p) : (r \o p)[Len(r) + i] = p[i]
      BY <2>0, ConcatFacts
    <2>. QED BY <1>3, <1>5, <2>1
  <1>7. ASSUME NEW i \in 1 .. Len(q) PROVE q[i] = (r \o p)[i]
    <2>0. PICK l \in Nat : l = n + 1 /\ i \in 1 .. 2 * l
      BY <1>4
    <2>1. PICK k \in 1 .. n + 1 : i = 2 * k - 1 \/ i = 2 * k
      BY <2>0, HalfFacts
    <2>2. CASE k = 1
      BY <1>1, <1>4, <1>6, <2>1, <2>2
    <2>3. CASE k # 1
      <3>1. k - 1 \in 1 .. n /\ k = (k - 1) + 1
        BY <2>3
      <3>2. PICK j \in 1 .. n : k = j + 1
        BY <3>1, Zenon
      <3>3. /\ p[2 * j - 1] = h[k][1] /\ p[2 * j] = h[k][2]
            /\ q[2 * k - 1] = h[k][1] /\ q[2 * k] = h[k][2]
        BY <1>3, <1>4, <3>2
      <3>4. /\ 2 * j - 1 \in 1 .. 2 * n /\ 2 * j \in 1 .. 2 * n
            /\ 2 * k - 1 = 2 + (2 * j - 1) /\ 2 * k = 2 + 2 * j
        BY <3>2
      <3>5. (r \o p)[2 * k - 1] = p[2 * j - 1] /\ (r \o p)[2 * k] = p[2 * j]
        BY <1>6, <3>4
      <3>. QED BY <2>1, <3>3, <3>5
    <2>. QED BY <2>2, <2>3
  <1>8. q = r \o p
    <2>1. Len(q) = Len(r \o p)
      BY <1>4, <1>6
    <2>. QED BY <1>4, <1>6, <1>7, <2>1, SeqEq
  <1>. QED BY <1>2, <1>5, <1>8

-----------------------------------------------------------------------------
(* What a queued function stands for in Queued. *)
Marks(f) == IF f.op = "send" THEN Bytes(f.msg) ELSE <<End, End>>
QueuedOf(q) == Pairs(Len(q), [k \in 1 .. Len(q) |-> Marks(q[k])])

(* The bytes of a message, those of a function, those of a queue. *)
LEMMA BytesAre ==
  ASSUME NEW m \in Msgs
  PROVE  /\ Bytes(m) = <<<<m, 1>>, <<m, 2>>>> /\ <<m, 1>> \in B /\ <<m, 2>> \in B
         /\ Bytes(m) \in Seq(B) /\ Len(Bytes(m)) = 2
         /\ Bytes(m)[1] = <<m, 1>> /\ Bytes(m)[2] = <<m, 2>>
BY DEF Bytes, B

LEMMA MarksAre ==
  ASSUME NEW f \in Fns
  PROVE  /\ \E x, y \in B : Marks(f) = <<x, y>>
         /\ (\E m \in Msgs : f = SendFn(m) /\ Marks(f) = Bytes(m)) \/ Marks(f) = <<End, End>>
  <1>1. CASE f \in {Established, Destroyed, ShutdownFn, CloseFn, OpenFn, EndFn}
    <2>1. f.op # "send"
      BY <1>1 DEF Established, Destroyed, ShutdownFn, CloseFn, OpenFn, EndFn
    <2>2. Marks(f) = <<End, End>> /\ End \in B
      BY <2>1 DEF Marks, B
    <2>. QED BY <2>2
  <1>2. CASE \E m \in Msgs : f = SendFn(m)
    <2>1. PICK m \in Msgs : f = SendFn(m)
      BY <1>2
    <2>2. f.op = "send" /\ f.msg = m
      BY <2>1 DEF SendFn
    <2>3. Marks(f) = Bytes(m)
      BY <2>2 DEF Marks
    <2>. QED BY <2>1, <2>3, BytesAre
  <1>. QED BY <1>1, <1>2 DEF Fns

LEMMA MarksSend == ASSUME NEW m \in Msgs PROVE Marks(SendFn(m)) = Bytes(m)
BY DEF Marks, SendFn

LEMMA MarksOther ==
  \A f \in {Established, Destroyed, ShutdownFn, CloseFn, OpenFn, EndFn} : Marks(f) = <<End, End>>
BY DEF Marks, Established, Destroyed, ShutdownFn, CloseFn, OpenFn, EndFn

LEMMA MarksOK ==
  ASSUME NEW q \in Seq(Fns)
  PROVE  /\ Len(q) \in Nat /\ PairsOK(Len(q), [k \in 1 .. Len(q) |-> Marks(q[k])])
         /\ QueuedOf(q) \in Seq(B)
  <1>1. Len(q) \in Nat /\ \A k \in 1 .. Len(q) : q[k] \in Fns
    OBVIOUS
  <1>2. PairsOK(Len(q), [k \in 1 .. Len(q) |-> Marks(q[k])])
    BY <1>1, MarksAre DEF PairsOK
  <1>. QED BY <1>1, <1>2, PairsAre DEF QueuedOf

LEMMA QueuedIs == ASSUME funcs_ \in Seq(Fns) PROVE Queued = QueuedOf(funcs_)
  <1>1. Len(funcs_) \in Nat
    OBVIOUS
  <1>2. ASSUME NEW i \in 1 .. 2 * Len(funcs_)
        PROVE  (LET f == funcs_[(i + 1) \div 2]
                IN  IF f.op = "send" THEN Bytes(f.msg)[2 - (i % 2)] ELSE End)
               = [k \in 1 .. Len(funcs_) |-> Marks(funcs_[k])][(i + 1) \div 2][2 - (i % 2)]
    <2>1. PICK k \in 1 .. Len(funcs_) : (i + 1) \div 2 = k /\ 2 - (i % 2) \in {1, 2}
      BY <1>1, HalfFacts
    <2>2. PICK j \in {1, 2} : 2 - (i % 2) = j
      BY <2>1
    <2>3. <<End, End>>[j] = End
      BY <2>2
    <2>. QED BY <2>1, <2>2, <2>3 DEF Marks
  <1>. QED BY <1>2, Zenon DEF Queued, QueuedOf, Pairs

(* A function is put in the queue; one is taken; a message is given. *)
LEMMA QueuedAppend ==
  ASSUME NEW q \in Seq(Fns), NEW f \in Fns
  PROVE  Marks(f) \in Seq(B) /\ QueuedOf(Append(q, f)) = QueuedOf(q) \o Marks(f)
  <1>1. PICK r, n : r = Append(q, f) /\ n = Len(q)
    OBVIOUS
  <1>2. /\ r \in Seq(Fns) /\ Len(r) = n + 1 /\ n \in Nat
        /\ \A i \in 1 .. n : r[i] = q[i]
        /\ r[n + 1] = f
    BY <1>1, AppendFacts
  <1>. DEFINE g == [k \in 1 .. n |-> Marks(q[k])]
              h == [k \in 1 .. n + 1 |-> Marks(r[k])]
  <1>3. PairsOK(n, g) /\ PairsOK(n + 1, h)
    BY <1>1, <1>2, MarksOK
  <1>4. h[n + 1] = Marks(f) /\ \A k \in 1 .. n : h[k] = g[k]
    BY <1>2
  <1>. HIDE DEF g, h
  <1>5. h[n + 1] \in Seq(B) /\ Pairs(n + 1, h) = Pairs(n, g) \o h[n + 1]
    BY <1>2, <1>3, <1>4, PairsLast
  <1>6. QueuedOf(q) = Pairs(n, g) /\ QueuedOf(r) = Pairs(n + 1, h)
    BY <1>1, <1>2 DEF QueuedOf, g, h
  <1>. QED BY <1>1, <1>4, <1>5, <1>6

LEMMA QueuedTail ==
  ASSUME NEW q \in Seq(Fns), q # <<>>
  PROVE  /\ Head(q) \in Fns /\ Tail(q) \in Seq(Fns) /\ Marks(Head(q)) \in Seq(B)
         /\ QueuedOf(q) = Marks(Head(q)) \o QueuedOf(Tail(q))
  <1>1. PICK r, n : r = Tail(q) /\ n = Len(r)
    OBVIOUS
  <1>2. /\ r \in Seq(Fns) /\ Len(q) = n + 1 /\ n \in Nat
        /\ \A i \in 1 .. n : q[i + 1] = r[i]
        /\ Head(q) = q[1] /\ q[1] \in Fns
    BY <1>1
  <1>. DEFINE g == [k \in 1 .. n |-> Marks(r[k])]
              h == [k \in 1 .. n + 1 |-> Marks(q[k])]
  <1>3. PairsOK(n, g) /\ PairsOK(n + 1, h)
    BY <1>1, <1>2, MarksOK
  <1>4. h[1] = Marks(Head(q)) /\ \A k \in 1 .. n : h[k + 1] = g[k]
    BY <1>2
  <1>. HIDE DEF g, h
  <1>5. h[1] \in Seq(B) /\ Pairs(n + 1, h) = h[1] \o Pairs(n, g)
    BY <1>2, <1>3, <1>4, PairsFirst
  <1>6. QueuedOf(r) = Pairs(n, g) /\ QueuedOf(q) = Pairs(n + 1, h)
    BY <1>1, <1>2 DEF QueuedOf, g, h
  <1>. QED BY <1>1, <1>2, <1>4, <1>5, <1>6

LEMMA FlatAppend ==
  ASSUME NEW c \in Seq(Msgs), NEW m \in Msgs
  PROVE  /\ Flat(c) \in Seq(B) /\ Flat(Append(c, m)) = Flat(c) \o Bytes(m)
         /\ (\A i \in 1 .. Len(c) : c[i] # m) => \A k \in 1 .. Len(Flat(c)) : Flat(c)[k][1] # m
  <1>1. PICK r, n : r = Append(c, m) /\ n = Len(c)
    OBVIOUS
  <1>2. /\ r \in Seq(Msgs) /\ Len(r) = n + 1 /\ n \in Nat
        /\ \A i \in 1 .. n : r[i] = c[i] /\ c[i] \in Msgs
        /\ r[n + 1] = m
    BY <1>1
  <1>. DEFINE g == [k \in 1 .. n |-> Bytes(c[k])]
              h == [k \in 1 .. n + 1 |-> Bytes(r[k])]
  <1>3. PairsOK(n, g)
    BY <1>2, BytesAre DEF PairsOK
  <1>4. PairsOK(n + 1, h)
    <2>1. \A k \in 1 .. n + 1 : r[k] \in Msgs
      BY <1>2
    <2>. QED BY <2>1, BytesAre DEF PairsOK
  <1>5. h[n + 1] = Bytes(m) /\ \A k \in 1 .. n : h[k] = g[k]
    BY <1>2
  <1>6. ASSUME NEW s \in Seq(Msgs), NEW l \in Nat, l = Len(s)
        PROVE  Flat(s) = Pairs(l, [k \in 1 .. l |-> Bytes(s[k])])
    <2>1. ASSUME NEW i \in 1 .. 2 * l
          PROVE  Bytes(s[(i + 1) \div 2])[2 - (i % 2)]
                 = [k \in 1 .. l |-> Bytes(s[k])][(i + 1) \div 2][2 - (i % 2)]
      <3>1. (i + 1) \div 2 \in 1 .. l
        BY HalfFacts
      <3>. QED BY <3>1
    <2>. QED BY <1>6, <2>1, Zenon DEF Flat, Pairs
  <1>7. Flat(c) = Pairs(n, g) /\ Flat(r) = Pairs(n + 1, h)
    <2>1. n + 1 \in Nat /\ n + 1 = Len(r) /\ n = Len(c) /\ r \in Seq(Msgs)
      BY <1>1, <1>2
    <2>2. Flat(c) = Pairs(n, g)
      BY <1>2, <1>6, <2>1
    <2>3. Flat(r) = Pairs(n + 1, h)
      BY <1>6, <2>1
    <2>. QED BY <2>2, <2>3
  <1>8. ASSUME \A i \in 1 .. n : c[i] # m, NEW k \in 1 .. 2 * n
        PROVE  Pairs(n, g)[k][1] # m
    <2>1. PICK j \in 1 .. n : k = 2 * j - 1 \/ k = 2 * j
      BY <1>2, HalfFacts
    <2>2. Pairs(n, g)[2 * j - 1] = g[j][1] /\ Pairs(n, g)[2 * j] = g[j][2]
      BY <1>2, <1>3, PairsAre
    <2>3. g[j] = Bytes(c[j])
      OBVIOUS
    <2>4. g[j][1][1] = c[j] /\ g[j][2][1] = c[j]
      BY <2>3 DEF Bytes
    <2>. QED BY <1>8, <2>1, <2>2, <2>4
  <1>. HIDE DEF g, h
  <1>9. Pairs(n + 1, h) = Pairs(n, g) \o h[n + 1]
    BY <1>2, <1>3, <1>4, <1>5, PairsLast
  <1>10. Pairs(n, g) \in Seq(B) /\ Len(Pairs(n, g)) = 2 * n
    BY <1>2, <1>3, PairsAre
  <1>. QED BY <1>1, <1>5, <1>7, <1>8, <1>9, <1>10

-----------------------------------------------------------------------------
(* The order of what is written, left and queued *)

(* A message of C is added to both sides. *)
LEMMA SameAppend ==
  ASSUME NEW C, NEW m \in Msgs, m \in C, NEW s \in Seq(B), NEW t \in Seq(B), SameOf(s, t, C),
         \A k \in 1 .. Len(t) : t[k][1] # m
  PROVE  SameOf(s \o Bytes(m), t \o Bytes(m), C)
  <1>1. PICK b, u, v, n, p :
          b = Bytes(m) /\ u = s \o b /\ v = t \o b /\ n = Len(s) /\ p = Len(t)
    OBVIOUS
  <1>2. b \in Seq(B) /\ Len(b) = 2 /\ b[1] = <<m, 1>> /\ b[2] = <<m, 2>>
    BY <1>1, BytesAre
  <1>3. /\ u \in Seq(B) /\ Len(u) = n + 2 /\ n \in Nat
        /\ \A i \in 1 .. n : u[i] = s[i]
        /\ u[n + 1] = <<m, 1>> /\ u[n + 2] = <<m, 2>>
    <2>0. b \in Seq(B)
      BY <1>2
    <2>1. /\ s \o b \in Seq(B) /\ Len(s \o b) = Len(s) + Len(b) /\ Len(s) \in Nat
          /\ \A i \in 1 .. Len(s) : (s \o b)[i] = s[i]
          /\ \A i \in 1 .. Len(b) : (s \o b)[Len(s) + i] = b[i]
      BY <2>0, ConcatFacts
    <2>. QED BY <1>1, <1>2, <2>1
  <1>4. /\ v \in Seq(B) /\ Len(v) = p + 2 /\ p \in Nat
        /\ \A i \in 1 .. p : v[i] = t[i]
        /\ v[p + 1] = <<m, 1>> /\ v[p + 2] = <<m, 2>>
    <2>0. b \in Seq(B)
      BY <1>2
    <2>1. /\ t \o b \in Seq(B) /\ Len(t \o b) = Len(t) + Len(b) /\ Len(t) \in Nat
          /\ \A i \in 1 .. Len(t) : (t \o b)[i] = t[i]
          /\ \A i \in 1 .. Len(b) : (t \o b)[Len(t) + i] = b[i]
      BY <2>0, ConcatFacts
    <2>. QED BY <1>1, <1>2, <2>1
  <1>5. /\ Places(s, C) = {i \in 1 .. n : s[i][1] \in C}
        /\ Places(t, C) = {i \in 1 .. p : t[i][1] \in C}
        /\ Places(u, C) = {i \in 1 .. n + 2 : u[i][1] \in C}
        /\ Places(v, C) = {i \in 1 .. p + 2 : v[i][1] \in C}
    <2>1. /\ Places(s, C) = {i \in 1 .. Len(s) : s[i][1] \in C}
          /\ Places(t, C) = {i \in 1 .. Len(t) : t[i][1] \in C}
          /\ Places(u, C) = {i \in 1 .. Len(u) : u[i][1] \in C}
          /\ Places(v, C) = {i \in 1 .. Len(v) : v[i][1] \in C}
      BY <1>3, <1>4, PlacesOf
    <2>. QED BY <1>1, <1>3, <1>4, <2>1
  <1>6. {s[i] : i \in Places(s, C)} = {t[k] : k \in Places(t, C)}
    BY DEF SameOf
  <1>7. \A i \in Places(s, C) : s[i][1] # m
    <2>1. \A i \in Places(s, C) : \E k \in Places(t, C) : s[i] = t[k]
      BY <1>6
    <2>. QED BY <1>1, <1>5, <2>1
  <1>8. \A k \in Places(t, C) : t[k][1] # m
    BY <1>1, <1>5
  <1>9. ASSUME NEW i \in Places(u, C)
        PROVE  (i \in Places(s, C) /\ u[i] = s[i]) \/ i = n + 1 \/ i = n + 2
    BY <1>3, <1>5
  <1>10. ASSUME NEW i \in Places(v, C)
         PROVE  (i \in Places(t, C) /\ v[i] = t[i]) \/ i = p + 1 \/ i = p + 2
    BY <1>4, <1>5
  <1>11. <<m, 1>> # <<m, 2>> /\ <<m, 1>>[1] = m /\ <<m, 2>>[1] = m
    OBVIOUS
  <1>12. ASSUME NEW i \in Places(u, C), NEW k \in Places(v, C), u[i] = v[k]
         PROVE  \/ i \in Places(s, C) /\ k \in Places(t, C) /\ s[i] = t[k]
                \/ i = n + 1 /\ k = p + 1
                \/ i = n + 2 /\ k = p + 2
    <2>1. CASE i \in Places(s, C) /\ u[i] = s[i]
      BY <1>4, <1>7, <1>10, <1>11, <1>12, <2>1
    <2>2. CASE i = n + 1
      BY <1>3, <1>4, <1>8, <1>10, <1>11, <1>12, <2>2
    <2>3. CASE i = n + 2
      BY <1>3, <1>4, <1>8, <1>10, <1>11, <1>12, <2>3
    <2>. QED BY <1>9, <2>1, <2>2, <2>3
  <1>13. ASSUME NEW i \in Places(u, C) PROVE \E k \in Places(v, C) : v[k] = u[i]
    <2>1. CASE i \in Places(s, C) /\ u[i] = s[i]
      <3>1. PICK k \in Places(t, C) : t[k] = s[i]
        BY <1>6, <2>1
      <3>2. k \in 1 .. p /\ v[k] = t[k] /\ k \in 1 .. p + 2 /\ t[k][1] \in C
        BY <1>4, <1>5, <3>1
      <3>. QED BY <1>5, <2>1, <3>1, <3>2
    <2>2. n + 1 # n + 2 /\ p + 1 \in Places(v, C) /\ p + 2 \in Places(v, C)
      BY <1>3, <1>4, <1>5, <1>11
    <2>. QED BY <1>3, <1>4, <1>9, <2>1, <2>2
  <1>14. ASSUME NEW k \in Places(v, C) PROVE \E i \in Places(u, C) : u[i] = v[k]
    <2>1. CASE k \in Places(t, C) /\ v[k] = t[k]
      <3>1. PICK i \in Places(s, C) : s[i] = t[k]
        BY <1>6, <2>1
      <3>2. i \in 1 .. n /\ u[i] = s[i] /\ i \in 1 .. n + 2 /\ s[i][1] \in C
        BY <1>3, <1>5, <3>1
      <3>. QED BY <1>5, <2>1, <3>1, <3>2
    <2>2. p + 1 # p + 2 /\ n + 1 \in Places(u, C) /\ n + 2 \in Places(u, C)
      BY <1>3, <1>4, <1>5, <1>11
    <2>. QED BY <1>3, <1>4, <1>10, <2>1, <2>2
  <1>15. {u[i] : i \in Places(u, C)} = {v[k] : k \in Places(v, C)}
    BY <1>13, <1>14
  <1>16. ASSUME NEW i \in Places(u, C), NEW k \in Places(v, C), u[i] = v[k],
                NEW j \in Places(u, C), NEW l \in Places(v, C), u[j] = v[l]
         PROVE  i < j <=> k < l
    <2>1. /\ \/ i \in Places(s, C) /\ k \in Places(t, C) /\ s[i] = t[k]
             \/ i = n + 1 /\ k = p + 1
             \/ i = n + 2 /\ k = p + 2
          /\ \/ j \in Places(s, C) /\ l \in Places(t, C) /\ s[j] = t[l]
             \/ j = n + 1 /\ l = p + 1
             \/ j = n + 2 /\ l = p + 2
      BY <1>12, <1>16
    <2>2. /\ i \in Places(s, C) => i \in 1 .. n
          /\ j \in Places(s, C) => j \in 1 .. n
          /\ k \in Places(t, C) => k \in 1 .. p
          /\ l \in Places(t, C) => l \in 1 .. p
      BY <1>5
    <2>3. CASE i \in Places(s, C) /\ k \in Places(t, C) /\ s[i] = t[k]
               /\ j \in Places(s, C) /\ l \in Places(t, C) /\ s[j] = t[l]
      BY <2>3 DEF SameOf
    <2>. QED BY <1>3, <1>4, <2>1, <2>2, <2>3
  <1>17. SameOf(u, v, C)
    BY <1>15, <1>16, Zenon DEF SameOf
  <1>. QED BY <1>1, <1>17

(* What has no byte of C, behind the others, makes no difference. *)
LEMMA EmptyLacks == ASSUME NEW C PROVE <<>> \in Seq(B) /\ Lacks(<<>>, C)
BY DEF Lacks

LEMMA SameInsertEnd ==
  ASSUME NEW C, NEW a \in Seq(B), NEW r \in Seq(B), Lacks(r, C), NEW t, SameOf(a, t, C)
  PROVE  SameOf(a \o r, t, C)
  <1>1. PICK e : e = <<>>
    OBVIOUS
  <1>2. e \in Seq(B) /\ a \o e = a /\ a \o r \in Seq(B)
    BY <1>1, ConcatEmpty, ConcatFacts
  <1>3. (a \o r) \o e = a \o r
    BY <1>1, <1>2, ConcatEmpty
  <1>4. SameOf(a \o e, t, C)
    BY <1>2, Zenon
  <1>5. SameOf((a \o r) \o e, t, C)
    BY <1>2, <1>4, SameInsert
  <1>. QED BY <1>3, <1>5, Zenon

LEMMA SameDeleteEnd ==
  ASSUME NEW C, NEW a \in Seq(B), NEW r \in Seq(B), Lacks(r, C), NEW t, SameOf(a \o r, t, C)
  PROVE  SameOf(a, t, C)
  <1>1. PICK e : e = <<>>
    OBVIOUS
  <1>2. e \in Seq(B) /\ a \o e = a /\ a \o r \in Seq(B)
    BY <1>1, ConcatEmpty, ConcatFacts
  <1>3. (a \o r) \o e = a \o r
    BY <1>1, <1>2, ConcatEmpty
  <1>4. SameOf((a \o r) \o e, t, C)
    BY <1>3, Zenon
  <1>5. SameOf(a \o e, t, C)
    BY <1>2, <1>4, SameDelete
  <1>. QED BY <1>2, <1>5, Zenon

-----------------------------------------------------------------------------
Classes == {M \cap K : M \in {LoopMsgs, Msgs \ LoopMsgs}, K \in {Sends, Chunks}}
OrderedOn(s, c) == \A C \in Classes : SameOf(s, Flat(c), C)

LEMMA ClassFacts ==
  ASSUME NEW C \in Classes
  PROVE  /\ C \subseteq Msgs /\ "end" \notin C
         /\ C \subseteq LoopMsgs \/ C \cap LoopMsgs = {}
         /\ \/ C \subseteq Sends /\ C \cap Chunks = {}
            \/ C \subseteq Chunks /\ C \cap Sends = {}
         /\ C \cap Files = {} /\ C \cap Streams = {}
  <1>1. PICK M \in {LoopMsgs, Msgs \ LoopMsgs}, K \in {Sends, Chunks} : C = M \cap K
    BY DEF Classes
  <1>2. /\ Sends \subseteq Msgs /\ Chunks \subseteq Msgs /\ "end" \notin Msgs
        /\ LoopMsgs \subseteq Msgs
    BY MsgsAssumption DEF Msgs, Kinds
  <1>3. /\ C \subseteq Sends \/ C \subseteq Chunks
        /\ C \subseteq Msgs /\ "end" \notin C
        /\ C \subseteq LoopMsgs \/ C \cap LoopMsgs = {}
    BY <1>1, <1>2
  <1>4. C \cap Files = {} /\ C \cap Streams = {}
    BY <1>3, MsgsAssumption
  <1>5. \/ C \subseteq Sends /\ C \cap Chunks = {}
        \/ C \subseteq Chunks /\ C \cap Sends = {}
    BY <1>3, MsgsAssumption
  <1>. QED BY <1>3, <1>4, <1>5

LEMMA OrdInsert ==
  ASSUME NEW a \in Seq(B), NEW r \in Seq(B), NEW c \in Seq(B), Lacks(r, Sends \cup Chunks),
         NEW d, OrderedOn(a \o c, d)
  PROVE  OrderedOn((a \o r) \o c, d)
  <1>. SUFFICES ASSUME NEW C \in Classes PROVE SameOf((a \o r) \o c, Flat(d), C)
    BY DEF OrderedOn
  <1>1. Lacks(r, C)
    BY ClassFacts DEF Lacks
  <1>2. SameOf(a \o c, Flat(d), C)
    BY DEF OrderedOn
  <1>. QED BY <1>1, <1>2, SameInsert

LEMMA OrdDelete ==
  ASSUME NEW a \in Seq(B), NEW r \in Seq(B), NEW c \in Seq(B), Lacks(r, Sends \cup Chunks),
         NEW d, OrderedOn((a \o r) \o c, d)
  PROVE  OrderedOn(a \o c, d)
  <1>. SUFFICES ASSUME NEW C \in Classes PROVE SameOf(a \o c, Flat(d), C)
    BY DEF OrderedOn
  <1>1. Lacks(r, C)
    BY ClassFacts DEF Lacks
  <1>2. SameOf((a \o r) \o c, Flat(d), C)
    BY DEF OrderedOn
  <1>. QED BY <1>1, <1>2, SameDelete

(* Where a message may come in front of x. *)
Behind(m, x) == IF m \in Chunks THEN Lacks(x, Chunks) ELSE x = <<>>

(* A message that may overtake x: no byte of its class is in x, or x is empty. *)
LEMMA BytesLack == ASSUME NEW m \in Msgs, NEW C, m \notin C PROVE Lacks(Bytes(m), C)
  <1>1. PICK b : b = Bytes(m)
    OBVIOUS
  <1>2. Len(b) = 2 /\ b[1] = <<m, 1>> /\ b[2] = <<m, 2>>
    BY <1>1, BytesAre
  <1>3. Lacks(b, C)
    BY <1>2 DEF Lacks
  <1>. QED BY <1>1, <1>3

(* A message that was the first in the queue comes to its place. *)
LEMMA OrdTake ==
  ASSUME NEW a \in Seq(B), NEW x \in Seq(B), NEW c \in Seq(B), NEW m \in Msgs, Behind(m, x),
         NEW d, OrderedOn(((a \o x) \o Bytes(m)) \o c, d)
  PROVE  OrderedOn(((a \o Bytes(m)) \o x) \o c, d)
  <1>0. PICK b \in Seq(B) : b = Bytes(m)
    BY BytesAre
  <1>1. CASE m \notin Chunks
    <2>1. (a \o x) \o b = (a \o b) \o x
      <3>1. a \o b \in Seq(B) /\ x = <<>>
        BY <1>0, <1>1, ConcatFacts DEF Behind
      <3>2. a \o <<>> = a /\ (a \o b) \o <<>> = a \o b
        BY <3>1, ConcatEmpty
      <3>. QED BY <3>1, <3>2
    <2>. QED BY <1>0, <2>1
  <1>2. CASE m \in Chunks
    <2>. SUFFICES ASSUME NEW C \in Classes PROVE SameOf(((a \o b) \o x) \o c, Flat(d), C)
      BY <1>0 DEF OrderedOn
    <2>1. SameOf(((a \o x) \o b) \o c, Flat(d), C)
      BY <1>0 DEF OrderedOn
    <2>2. a \o x \in Seq(B) /\ a \o b \in Seq(B) /\ b \o c \in Seq(B) /\ x \o c \in Seq(B)
      BY <1>0, ConcatFacts
    <2>3. CASE C \subseteq Chunks
      <3>1. Lacks(x, C)
        BY <1>2, <2>3 DEF Behind, Lacks
      <3>2. ((a \o x) \o b) \o c = (a \o x) \o (b \o c) /\ a \o (b \o c) = (a \o b) \o c
        <4>1. PICK p \in Seq(B) : p = a \o x
          BY <2>2, Zenon
        <4>2. (p \o b) \o c = p \o (b \o c)
          OBVIOUS
        <4>3. a \o (b \o c) = (a \o b) \o c
          OBVIOUS
        <4>. QED BY <4>1, <4>2, <4>3, Zenon
      <3>3. SameOf((a \o x) \o (b \o c), Flat(d), C)
        BY <2>1, <3>2
      <3>4. SameOf(a \o (b \o c), Flat(d), C)
        BY <2>2, <3>1, <3>3, SameDelete
      <3>5. SameOf((a \o b) \o c, Flat(d), C)
        BY <3>2, <3>4
      <3>. QED BY <2>2, <3>1, <3>5, SameInsert
    <2>4. CASE C \cap Chunks = {}
      <3>1. Lacks(b, C)
        BY <1>0, <1>2, <2>4, BytesLack
      <3>2. SameOf((a \o x) \o c, Flat(d), C)
        BY <1>0, <2>1, <2>2, <3>1, SameDelete
      <3>3. (a \o x) \o c = a \o (x \o c) /\ (a \o b) \o (x \o c) = ((a \o b) \o x) \o c
        <4>1. PICK p \in Seq(B) : p = a \o b
          BY <2>2, Zenon
        <4>2. p \o (x \o c) = (p \o x) \o c
          OBVIOUS
        <4>3. (a \o x) \o c = a \o (x \o c)
          OBVIOUS
        <4>. QED BY <4>1, <4>2, <4>3, Zenon
      <3>4. SameOf(a \o (x \o c), Flat(d), C)
        BY <3>2, <3>3
      <3>5. SameOf((a \o b) \o (x \o c), Flat(d), C)
        BY <1>0, <2>2, <3>1, <3>4, SameInsert
      <3>. QED BY <3>3, <3>5
    <2>. QED BY <2>3, <2>4, ClassFacts
  <1>. QED BY <1>1, <1>2

(* A message may be given that is none of C. *)
LEMMA SameGiven ==
  ASSUME NEW C, NEW s, NEW d \in Seq(Msgs), NEW m \in Msgs, m \notin C, SameOf(s, Flat(d), C)
  PROVE  SameOf(s, Flat(Append(d, m)), C)
  <1>1. Flat(d) \in Seq(B) /\ Flat(Append(d, m)) = Flat(d) \o Bytes(m) /\ Bytes(m) \in Seq(B)
    BY FlatAppend, BytesAre
  <1>2. SameOf(Flat(d), s, C)
    BY SameSym
  <1>3. SameOf(Flat(d) \o Bytes(m), s, C)
    BY <1>1, <1>2, BytesLack, SameInsertEnd
  <1>. QED BY <1>1, <1>3, SameSym

(* A message is given in another thread, and queued. *)
LEMMA OrdAway ==
  ASSUME NEW s \in Seq(B), NEW d \in Seq(Msgs), NEW m \in Msgs, \A i \in 1 .. Len(d) : d[i] # m,
         OrderedOn(s, d)
  PROVE  OrderedOn(s \o Bytes(m), Append(d, m))
  <1>. SUFFICES ASSUME NEW C \in Classes PROVE SameOf(s \o Bytes(m), Flat(Append(d, m)), C)
    BY DEF OrderedOn
  <1>1. SameOf(s, Flat(d), C)
    BY DEF OrderedOn
  <1>2. /\ Flat(d) \in Seq(B) /\ Flat(Append(d, m)) = Flat(d) \o Bytes(m) /\ Bytes(m) \in Seq(B)
        /\ \A k \in 1 .. Len(Flat(d)) : Flat(d)[k][1] # m
    BY FlatAppend, BytesAre
  <1>3. CASE m \in C
    <2>1. SameOf(s \o Bytes(m), Flat(d) \o Bytes(m), C)
      BY <1>1, <1>2, <1>3, SameAppend
    <2>. QED BY <1>2, <2>1
  <1>4. CASE m \notin C
    <2>1. SameOf(s, Flat(Append(d, m)), C)
      BY <1>1, <1>4, SameGiven
    <2>2. Lacks(Bytes(m), C)
      BY <1>4, BytesLack
    <2>. QED BY <1>2, <2>1, <2>2, SameInsertEnd
  <1>. QED BY <1>3, <1>4

(* A message is given in the loop's thread, and comes to its place before  *)
(* those of other threads that are queued.                                 *)
LEMMA OrdLoop ==
  ASSUME NEW a \in Seq(B), NEW x \in Seq(B), NEW c \in Seq(B), NEW m \in LoopMsgs, Behind(m, x),
         NEW d \in Seq(Msgs), \A i \in 1 .. Len(d) : d[i] # m, Lacks(c, LoopMsgs),
         OrderedOn((a \o x) \o c, d)
  PROVE  OrderedOn(((a \o Bytes(m)) \o x) \o c, Append(d, m))
  <1>. SUFFICES ASSUME NEW C \in Classes
                PROVE  SameOf(((a \o Bytes(m)) \o x) \o c, Flat(Append(d, m)), C)
    BY DEF OrderedOn
  <1>0. m \in Msgs
    BY MsgsAssumption
  <1>1. SameOf((a \o x) \o c, Flat(d), C)
    BY DEF OrderedOn
  <1>2. /\ Flat(d) \in Seq(B) /\ Flat(Append(d, m)) = Flat(d) \o Bytes(m)
        /\ \A k \in 1 .. Len(Flat(d)) : Flat(d)[k][1] # m
    BY <1>0, FlatAppend
  <1>3. PICK b \in Seq(B) : b = Bytes(m)
    BY <1>0, BytesAre
  <1>. DEFINE f == Flat(d)
              g == Flat(Append(d, m))
  <1>4. a \o x \in Seq(B) /\ a \o b \in Seq(B) /\ x \o c \in Seq(B) /\ (a \o b) \o x \in Seq(B)
    <2>1. a \o x \in Seq(B) /\ a \o b \in Seq(B) /\ x \o c \in Seq(B)
      BY <1>3, ConcatFacts
    <2>. QED BY <2>1, ConcatFacts
  <1>5. CASE m \in C
    <2>1. Lacks(c, C)
      BY <1>5, ClassFacts DEF Lacks
    <2>2. Lacks(x, C)
      <3>1. CASE m \in Chunks
        <4>1. C \subseteq Chunks
          BY <1>5, <3>1, ClassFacts
        <4>. QED BY <3>1, <4>1 DEF Behind, Lacks
      <3>2. CASE m \notin Chunks
        BY <3>2, EmptyLacks DEF Behind
      <3>. QED BY <3>1, <3>2
    <2>3. SameOf(a \o x, f, C)
      BY <1>1, <1>3, <1>4, <2>1, SameDeleteEnd
    <2>4. SameOf(a, f, C)
      BY <2>2, <2>3, SameDeleteEnd
    <2>5. SameOf(a \o Bytes(m), Flat(d) \o Bytes(m), C)
      BY <1>0, <1>2, <1>3, <1>5, <2>4, SameAppend
    <2>6. SameOf(a \o b, g, C)
      BY <1>2, <1>3, <2>5
    <2>7. SameOf((a \o b) \o x, g, C)
      BY <1>4, <2>2, <2>6, SameInsertEnd
    <2>8. SameOf(((a \o b) \o x) \o c, g, C)
      BY <1>4, <2>1, <2>7, SameInsertEnd
    <2>. QED BY <1>3, <2>8
  <1>6. CASE m \notin C
    <2>1. Lacks(b, C)
      BY <1>0, <1>3, <1>6, BytesLack
    <2>2. (a \o x) \o c = a \o (x \o c) /\ (a \o b) \o (x \o c) = ((a \o b) \o x) \o c
      <3>1. PICK p \in Seq(B) : p = a \o b
        BY <1>4, Zenon
      <3>2. p \o (x \o c) = (p \o x) \o c
        OBVIOUS
      <3>3. (a \o x) \o c = a \o (x \o c)
        OBVIOUS
      <3>. QED BY <3>1, <3>2, <3>3, Zenon
    <2>3. SameOf((a \o x) \o c, g, C)
      BY <1>0, <1>1, <1>3, <1>6, SameGiven
    <2>4. SameOf(a \o (x \o c), g, C)
      BY <2>2, <2>3
    <2>5. SameOf((a \o b) \o (x \o c), g, C)
      BY <1>3, <1>4, <2>1, <2>4, SameInsert
    <2>. QED BY <1>3, <2>2, <2>5
  <1>. QED BY <1>5, <1>6

(* A file or stream may be given. *)
LEMMA OrdGiven ==
  ASSUME NEW s, NEW d \in Seq(Msgs), NEW m \in Msgs, m \notin Sends \cup Chunks, OrderedOn(s, d)
  PROVE  OrderedOn(s, Append(d, m))
  <1>. SUFFICES ASSUME NEW C \in Classes PROVE SameOf(s, Flat(Append(d, m)), C)
    BY DEF OrderedOn
  <1>1. SameOf(s, Flat(d), C) /\ m \notin C
    BY ClassFacts DEF OrderedOn
  <1>. QED BY <1>1, SameGiven

LEMMA OrderedIs ==
  WireInOrder <=> (status_ = "Connected" => OrderedOn(wire \o list \o Queued, called))
BY DEF WireInOrder, OrderedOn, Classes

-----------------------------------------------------------------------------
(* The bytes that are written or in the list *)

(* They are tidy: second bytes follow first ones, the chunks are together, *)
(* there is one mark at most, and it is right behind the chunks.           *)
Whole(v) == \A i \in 1 .. Len(v) : v[i][2] = 2 => i > 1 /\ v[i - 1] = <<v[i][1], 1>>
Together(v) ==
  \A i, j \in 1 .. Len(v) : v[i][1] \in Chunks /\ v[j][1] \in Chunks =>
    \A k \in i .. j : v[k][1] \in Chunks
OneEnd(v) == \A i, j \in 1 .. Len(v) : v[i] = End /\ v[j] = End => i = j
UpToEnd(v) ==
  \A i, e \in 1 .. Len(v) : v[i][1] \in Chunks /\ v[e] = End =>
    i < e /\ \A k \in i .. e - 1 : v[k][1] \in Chunks
Tidy(v) == Whole(v) /\ Together(v) /\ OneEnd(v) /\ UpToEnd(v)

(* u is v with the bytes of m in their place. *)
Placed(v, u, m) ==
  \E a, x \in Seq(B) : /\ v = a \o x /\ u = (a \o Bytes(m)) \o x
                       /\ IF m \in Chunks THEN x # <<>> /\ x[1] = End ELSE x = <<>>

LEMMA ByteFacts ==
  /\ End \in B /\ End[1] \notin Msgs /\ End[2] = 0 /\ End[1] \notin Chunks
  /\ \A e \in B : e = End \/ (e[1] \in Msgs /\ e[2] \in {1, 2} /\ e # End)
  <1>1. End \in B /\ End[1] = "end" /\ End[2] = 0
    BY DEF End, B
  <1>2. "end" \notin Msgs /\ Chunks \subseteq Msgs
    BY MsgsAssumption DEF Msgs, Kinds
  <1>3. ASSUME NEW e \in B, e # End PROVE e[1] \in Msgs /\ e[2] \in {1, 2}
    BY <1>3 DEF B
  <1>. QED BY <1>1, <1>2, <1>3

(* A sequence is cut in two; marks and bytes of C of two sequences. *)
LEMMA SplitAt ==
  ASSUME NEW s \in Seq(B), NEW n \in 0 .. Len(s)
  PROVE  /\ SubSeq(s, 1, n) \in Seq(B) /\ SubSeq(s, n + 1, Len(s)) \in Seq(B)
         /\ Len(SubSeq(s, 1, n)) = n /\ Len(SubSeq(s, n + 1, Len(s))) = Len(s) - n
         /\ \A i \in 1 .. n : SubSeq(s, 1, n)[i] = s[i]
         /\ \A i \in 1 .. Len(s) - n : SubSeq(s, n + 1, Len(s))[i] = s[n + i]
         /\ SubSeq(s, 1, n) \o SubSeq(s, n + 1, Len(s)) = s
  <1>1. PICK p, q, l : p = SubSeq(s, 1, n) /\ q = SubSeq(s, n + 1, Len(s)) /\ l = Len(s)
    OBVIOUS
  <1>2. /\ l \in Nat /\ n \in 0 .. l
        /\ p \in Seq(B) /\ q \in Seq(B) /\ Len(p) = n /\ Len(q) = l - n
        /\ \A i \in 1 .. n : p[i] = s[i]
        /\ \A i \in 1 .. l - n : q[i] = s[n + i]
    <2>1. l \in Nat /\ n \in 0 .. l /\ \A i \in 1 .. l : s[i] \in B
      BY <1>1
    <2>2. p \in Seq(B) /\ Len(p) = n /\ \A i \in 1 .. n : p[i] = s[i]
      BY <1>1, <2>1
    <2>3. q \in Seq(B) /\ Len(q) = l - n
      BY <1>1, <2>1
    <2>4. \A i \in 1 .. l - n : q[i] = s[n + i]
      BY <1>1, <2>1
    <2>. QED BY <2>1, <2>2, <2>3, <2>4
  <1>3. /\ p \o q \in Seq(B) /\ Len(p \o q) = l
        /\ \A i \in 1 .. n : (p \o q)[i] = p[i]
        /\ \A i \in 1 .. l - n : (p \o q)[n + i] = q[i]
    <2>0. p \in Seq(B) /\ q \in Seq(B)
      BY <1>2
    <2>1. /\ p \o q \in Seq(B) /\ Len(p \o q) = Len(p) + Len(q)
          /\ \A i \in 1 .. Len(p) : (p \o q)[i] = p[i]
          /\ \A i \in 1 .. Len(q) : (p \o q)[Len(p) + i] = q[i]
      BY <2>0, ConcatFacts
    <2>. QED BY <1>2, <2>1
  <1>4. ASSUME NEW i \in 1 .. l PROVE (p \o q)[i] = s[i]
    <2>1. CASE i <= n
      BY <1>2, <1>3, <2>1
    <2>2. CASE i > n
      <3>1. i - n \in 1 .. l - n /\ i = n + (i - n)
        BY <1>2, <2>2
      <3>2. PICK k \in 1 .. l - n : i = n + k
        BY <3>1, Zenon
      <3>3. (p \o q)[n + k] = q[k] /\ q[k] = s[n + k]
        BY <1>2, <1>3
      <3>. QED BY <3>2, <3>3
    <2>. QED BY <1>2, <2>1, <2>2
  <1>5. p \o q = s
    <2>1. Len(p \o q) = Len(s) /\ p \o q \in Seq(B) /\ \A i \in 1 .. Len(p \o q) : (p \o q)[i] = s[i]
      BY <1>1, <1>3, <1>4
    <2>. QED BY <2>1, SeqEq
  <1>. QED BY <1>1, <1>2, <1>5

LEMMA EndConcat ==
  ASSUME NEW s \in Seq(B), NEW t \in Seq(B)
  PROVE  HasEnd(s \o t) <=> HasEnd(s) \/ HasEnd(t)
  <1>1. PICK v, n, k : v = s \o t /\ n = Len(s) /\ k = Len(t)
    OBVIOUS
  <1>2. /\ Len(v) = n + k /\ n \in Nat /\ k \in Nat
        /\ \A i \in 1 .. n : v[i] = s[i] /\ i \in 1 .. n + k
        /\ \A i \in 1 .. k : v[n + i] = t[i] /\ n + i \in 1 .. n + k
    BY <1>1, ConcatFacts
  <1>3. ASSUME NEW i \in 1 .. n + k, v[i] = End PROVE HasEnd(s) \/ HasEnd(t)
    <2>1. i \in 1 .. Len(s \o t)
      BY <1>1, <1>2
    <2>2. \/ i \in 1 .. Len(s) /\ (s \o t)[i] = s[i]
          \/ \E j \in 1 .. Len(t) : i = Len(s) + j /\ (s \o t)[i] = t[j]
      BY <2>1, ConcatPlace
    <2>. QED BY <1>1, <1>3, <2>2 DEF HasEnd
  <1>. QED BY <1>1, <1>2, <1>3 DEF HasEnd

LEMMA LacksConcat ==
  ASSUME NEW s \in Seq(B), NEW t \in Seq(B), NEW C
  PROVE  Lacks(s \o t, C) <=> Lacks(s, C) /\ Lacks(t, C)
  <1>1. PICK v, n, k : v = s \o t /\ n = Len(s) /\ k = Len(t)
    OBVIOUS
  <1>2. /\ Len(v) = n + k /\ n \in Nat /\ k \in Nat
        /\ \A i \in 1 .. n : v[i] = s[i] /\ i \in 1 .. n + k
        /\ \A i \in 1 .. k : v[n + i] = t[i] /\ n + i \in 1 .. n + k
    BY <1>1, ConcatFacts
  <1>3. ASSUME NEW i \in 1 .. n + k, v[i][1] \in C PROVE ~Lacks(s, C) \/ ~Lacks(t, C)
    <2>1. i \in 1 .. Len(s \o t)
      BY <1>1, <1>2
    <2>2. \/ i \in 1 .. Len(s) /\ (s \o t)[i] = s[i]
          \/ \E j \in 1 .. Len(t) : i = Len(s) + j /\ (s \o t)[i] = t[j]
      BY <2>1, ConcatPlace
    <2>. QED BY <1>1, <1>3, <2>2 DEF Lacks
  <1>. QED BY <1>1, <1>2, <1>3 DEF Lacks

LEMMA BytesNoEnd == ASSUME NEW m \in Msgs PROVE ~HasEnd(Bytes(m))
  <1>1. PICK b : b = Bytes(m)
    OBVIOUS
  <1>2. Len(b) = 2 /\ b[1] = <<m, 1>> /\ b[2] = <<m, 2>>
    BY <1>1, BytesAre
  <1>3. ~HasEnd(b)
    BY <1>2 DEF HasEnd, End
  <1>. QED BY <1>1, <1>3

(* The places of (a \o r) \o c and those of a \o c. *)
PartsOK(a, r, c) ==
  /\ a \o c \in Seq(B) /\ (a \o r) \o c \in Seq(B)
  /\ Len(a) \in Nat /\ Len(r) \in Nat /\ Len(c) \in Nat
  /\ Len(a \o c) = Len(a) + Len(c) /\ Len((a \o r) \o c) = Len(a) + Len(r) + Len(c)
  /\ \A i \in 1 .. Len(a) : (a \o c)[i] = a[i] /\ ((a \o r) \o c)[i] = a[i]
  /\ \A i \in 1 .. Len(r) : ((a \o r) \o c)[Len(a) + i] = r[i]
  /\ \A i \in 1 .. Len(c) : (a \o c)[Len(a) + i] = c[i]
                            /\ ((a \o r) \o c)[Len(a) + Len(r) + i] = c[i]

LEMMA PartsFacts == ASSUME NEW a \in Seq(B), NEW r \in Seq(B), NEW c \in Seq(B) PROVE PartsOK(a, r, c)
BY ThreeParts DEF PartsOK

(* The same with numbers. *)
LEMMA PlacedAt ==
  ASSUME NEW v, NEW u, NEW m \in Msgs, Placed(v, u, m)
  PROVE  \E n, l \in Nat :
           /\ v \in Seq(B) /\ u \in Seq(B) /\ Len(v) = n + l /\ Len(u) = n + 2 + l
           /\ \A i \in 1 .. n : u[i] = v[i]
           /\ u[n + 1] = <<m, 1>> /\ u[n + 2] = <<m, 2>>
           /\ \A i \in 1 .. l : u[n + 2 + i] = v[n + i]
           /\ IF m \in Chunks THEN l > 0 /\ v[n + 1] = End ELSE l = 0
  <1>1. PICK a \in Seq(B), x \in Seq(B) :
          /\ v = a \o x /\ u = (a \o Bytes(m)) \o x
          /\ IF m \in Chunks THEN x # <<>> /\ x[1] = End ELSE x = <<>>
    BY DEF Placed
  <1>2. PICK b \in Seq(B) : b = Bytes(m)
    BY BytesAre
  <1>3. Len(b) = 2 /\ b[1] = <<m, 1>> /\ b[2] = <<m, 2>>
    BY <1>2, BytesAre
  <1>4. PICK n \in Nat, l \in Nat :
           /\ n = Len(a) /\ l = Len(x)
           /\ a \o x \in Seq(B) /\ (a \o b) \o x \in Seq(B)
           /\ Len(a \o x) = n + l /\ Len((a \o b) \o x) = n + 2 + l
           /\ \A i \in 1 .. n : ((a \o b) \o x)[i] = (a \o x)[i]
           /\ ((a \o b) \o x)[n + 1] = b[1] /\ ((a \o b) \o x)[n + 2] = b[2]
           /\ \A i \in 1 .. l : /\ ((a \o b) \o x)[n + 2 + i] = (a \o x)[n + i]
                                /\ (a \o x)[n + i] = x[i]
    <2>1. PartsOK(a, b, x)
      BY PartsFacts
    <2>2. PICK n, l : n = Len(a) /\ l = Len(x)
      OBVIOUS
    <2>3. /\ n \in Nat /\ l \in Nat
          /\ a \o x \in Seq(B) /\ (a \o b) \o x \in Seq(B)
          /\ Len(a \o x) = n + l /\ Len((a \o b) \o x) = n + 2 + l
          /\ \A i \in 1 .. n : ((a \o b) \o x)[i] = (a \o x)[i]
          /\ ((a \o b) \o x)[n + 1] = b[1] /\ ((a \o b) \o x)[n + 2] = b[2]
          /\ \A i \in 1 .. l : /\ ((a \o b) \o x)[n + 2 + i] = (a \o x)[n + i]
                               /\ (a \o x)[n + i] = x[i]
      BY <1>3, <2>1, <2>2 DEF PartsOK
    <2>. QED BY <2>2, <2>3
  <1>5. v = a \o x /\ u = (a \o b) \o x
    BY <1>1, <1>2
  <1>6. IF m \in Chunks THEN l > 0 /\ v[n + 1] = End ELSE l = 0
    <2>1. CASE m \in Chunks
      <3>1. x # <<>> /\ x[1] = End
        BY <1>1, <2>1
      <3>2. l > 0
        BY <1>4, <3>1
      <3>3. v[n + 1] = x[1]
        BY <1>4, <1>5, <3>2
      <3>. QED BY <2>1, <3>1, <3>2, <3>3
    <2>2. CASE m \notin Chunks
      BY <1>1, <1>4, <2>2
    <2>. QED BY <2>1, <2>2
  <1>. QED BY <1>3, <1>4, <1>5, <1>6, Zenon

(* A message in its place leaves the rest tidy. *)
LEMMA TidyPlaced ==
  ASSUME NEW v, NEW u, NEW m \in Msgs, Placed(v, u, m), Tidy(v)
  PROVE  Tidy(u)
  <1>1. PICK n \in Nat, l \in Nat :
           /\ v \in Seq(B) /\ u \in Seq(B) /\ Len(v) = n + l /\ Len(u) = n + 2 + l
           /\ \A i \in 1 .. n : u[i] = v[i]
           /\ u[n + 1] = <<m, 1>> /\ u[n + 2] = <<m, 2>>
           /\ \A i \in 1 .. l : u[n + 2 + i] = v[n + i]
           /\ IF m \in Chunks THEN l > 0 /\ v[n + 1] = End ELSE l = 0
    BY PlacedAt
  <1>. DEFINE f(i) == IF i <= n THEN i ELSE i - 2
  <1>2. ASSUME NEW i \in 1 .. n + 2 + l, i # n + 1, i # n + 2
        PROVE  f(i) \in 1 .. n + l /\ u[i] = v[f(i)]
    <2>1. CASE i <= n
      BY <1>1, <2>1
    <2>2. CASE i > n + 2
      <3>1. i - n - 2 \in 1 .. l /\ i = n + 2 + (i - n - 2) /\ f(i) = n + (i - n - 2)
        BY <1>2, <2>2
      <3>2. PICK k \in 1 .. l : i = n + 2 + k /\ f(i) = n + k
        BY <3>1, Zenon
      <3>3. u[n + 2 + k] = v[n + k]
        BY <1>1, Zenon
      <3>4. n + k \in 1 .. n + l
        OBVIOUS
      <3>. QED BY <3>2, <3>3, <3>4
    <2>. QED BY <1>2, <2>1, <2>2
  <1>3. u[n + 1][1] = m /\ u[n + 1][2] = 1 /\ u[n + 2][1] = m /\ u[n + 2][2] = 2
    BY <1>1
  <1>4. u[n + 1] # End /\ u[n + 2] # End
    BY <1>3, ByteFacts
  <1>5. m \notin Chunks => l = 0
    BY <1>1
  <1>6. m \in Chunks => n + 1 \in 1 .. n + l /\ v[n + 1] = End
    BY <1>1
  <1>7. Whole(u)
    <2>. SUFFICES ASSUME NEW i \in 1 .. n + 2 + l, u[i][2] = 2
                  PROVE  i > 1 /\ u[i - 1] = <<u[i][1], 1>>
      BY <1>1 DEF Whole
    <2>1. CASE i = n + 1
      BY <1>3, <2>1
    <2>2. CASE i = n + 2
      BY <1>1, <1>3, <2>2
    <2>3. CASE i <= n
      <3>1. i \in 1 .. n + l /\ v[i] = u[i]
        BY <1>1, <2>3
      <3>2. i > 1 /\ v[i - 1] = <<v[i][1], 1>>
        BY <1>1, <3>1 DEF Tidy, Whole
      <3>3. i - 1 \in 1 .. n
        BY <2>3, <3>2
      <3>4. u[i - 1] = v[i - 1]
        BY <1>1, <3>3
      <3>. QED BY <3>1, <3>2, <3>4
    <2>4. CASE i > n + 2
      <3>1. i - 2 \in 1 .. n + l /\ u[i] = v[i - 2]
        BY <1>2, <2>4
      <3>2. i - 2 > 1 /\ v[i - 2 - 1] = <<v[i - 2][1], 1>>
        BY <1>1, <3>1 DEF Tidy, Whole
      <3>3. m \in Chunks
        BY <1>5, <2>4
      <3>4. v[n + 1][2] = 0
        BY <1>6, <3>3, ByteFacts
      <3>5. i - 2 # n + 1
        BY <3>1, <3>4
      <3>6. i - 1 > n + 2 /\ i - 1 \in 1 .. n + 2 + l /\ i - 1 # n + 1 /\ i - 1 # n + 2
        BY <2>4, <3>5
      <3>7. u[i - 1] = v[f(i - 1)]
        BY <1>2, <3>6
      <3>8. f(i - 1) = i - 2 - 1
        BY <3>6
      <3>. QED BY <3>1, <3>2, <3>7, <3>8
    <2>. QED BY <2>1, <2>2, <2>3, <2>4
  <1>8. OneEnd(u)
    <2>. SUFFICES ASSUME NEW i \in 1 .. n + 2 + l, NEW j \in 1 .. n + 2 + l, u[i] = End, u[j] = End
                  PROVE  i = j
      BY <1>1 DEF OneEnd
    <2>1. /\ i # n + 1 /\ i # n + 2 /\ j # n + 1 /\ j # n + 2
      BY <1>4
    <2>2. f(i) \in 1 .. n + l /\ v[f(i)] = End /\ f(j) \in 1 .. n + l /\ v[f(j)] = End
      BY <1>2, <2>1
    <2>3. f(i) = f(j)
      BY <1>1, <2>2 DEF Tidy, OneEnd
    <2>. QED BY <2>1, <2>3
  <1>9. UpToEnd(u)
    <2>. SUFFICES ASSUME NEW i \in 1 .. n + 2 + l, NEW e \in 1 .. n + 2 + l,
                         u[i][1] \in Chunks, u[e] = End
                  PROVE  i < e /\ \A k \in i .. e - 1 : u[k][1] \in Chunks
      BY <1>1 DEF UpToEnd
    <2>1. e # n + 1 /\ e # n + 2
      BY <1>4
    <2>2. f(e) \in 1 .. n + l /\ v[f(e)] = End
      BY <1>2, <2>1
    <2>3. CASE m \in Chunks
      <3>1. f(e) = n + 1
        BY <1>1, <1>6, <2>2, <2>3 DEF Tidy, OneEnd
      <3>2. e = n + 3
        BY <2>1, <3>1
      <3>3. CASE i \in {n + 1, n + 2}
        BY <1>3, <2>3, <3>2, <3>3
      <3>4. CASE i \notin {n + 1, n + 2}
        <4>1. f(i) \in 1 .. n + l /\ v[f(i)][1] \in Chunks
          BY <1>2, <3>4
        <4>2. f(i) < f(e) /\ \A k \in f(i) .. f(e) - 1 : v[k][1] \in Chunks
          BY <1>1, <2>2, <4>1 DEF Tidy, UpToEnd
        <4>3. i <= n /\ \A k \in i .. n : v[k][1] \in Chunks
          BY <3>1, <3>4, <4>2
        <4>4. ASSUME NEW k \in i .. e - 1 PROVE u[k][1] \in Chunks
          <5>1. CASE k <= n
            BY <1>1, <4>3, <5>1
          <5>2. CASE k \in {n + 1, n + 2}
            BY <1>3, <2>3, <5>2
          <5>. QED BY <3>2, <5>1, <5>2
        <4>. QED BY <3>2, <4>3, <4>4
      <3>. QED BY <3>3, <3>4
    <2>4. CASE m \notin Chunks
      <3>1. e <= n /\ l = 0 /\ i <= n
        BY <1>3, <1>5, <2>1, <2>4
      <3>2. i \in 1 .. n /\ e \in 1 .. n /\ i \in 1 .. n + l /\ e \in 1 .. n + l
        BY <3>1
      <3>3. i < e /\ \A k \in i .. e - 1 : v[k][1] \in Chunks
        BY <1>1, <3>2 DEF Tidy, UpToEnd
      <3>. QED BY <1>1, <3>1, <3>3
    <2>. QED BY <2>3, <2>4
  <1>10. Together(u)
    <2>. SUFFICES ASSUME NEW i \in 1 .. n + 2 + l, NEW j \in 1 .. n + 2 + l,
                         u[i][1] \in Chunks, u[j][1] \in Chunks, NEW k \in i .. j
                  PROVE  u[k][1] \in Chunks
      BY <1>1 DEF Together
    <2>1. CASE m \in Chunks
      <3>1. n + 3 \in 1 .. n + 2 + l /\ u[n + 3] = End
        <4>1. u[n + 2 + 1] = v[n + 1]
          BY <1>1, <2>1
        <4>. QED BY <1>1, <1>6, <2>1, <4>1
      <3>2. j < n + 3 /\ i < n + 3 /\ \A h \in i .. (n + 3) - 1 : u[h][1] \in Chunks
        BY <1>1, <1>9, <3>1 DEF UpToEnd
      <3>. QED BY <3>2
    <2>2. CASE m \notin Chunks
      <3>1. l = 0 /\ i <= n /\ j <= n
        BY <1>3, <1>5, <2>2
      <3>2. i \in 1 .. n + l /\ j \in 1 .. n + l /\ v[i][1] \in Chunks /\ v[j][1] \in Chunks
        BY <1>1, <3>1
      <3>3. v[k][1] \in Chunks
        BY <1>1, <3>2 DEF Tidy, Together
      <3>. QED BY <1>1, <3>1, <3>3
    <2>. QED BY <2>1, <2>2
  <1>. QED BY <1>7, <1>8, <1>9, <1>10 DEF Tidy

(* The mark comes when there is none, and no chunk.                        *)
LEMMA TidyOpened ==
  ASSUME NEW v \in Seq(B), Tidy(v), ~HasEnd(v), Lacks(v, Chunks)
  PROVE  Tidy(v \o <<End>>)
  <1>1. PICK u, r, n : r = <<End>> /\ u = v \o r /\ n = Len(v)
    OBVIOUS
  <1>2. r \in Seq(B) /\ Len(r) = 1 /\ r[1] = End
    BY <1>1, ByteFacts
  <1>3. /\ n \in Nat /\ Len(u) = n + 1 /\ u \in Seq(B)
        /\ \A i \in 1 .. n : u[i] = v[i] /\ u[i] # End /\ u[i][1] \notin Chunks
        /\ u[n + 1] = End /\ u[n + 1][1] \notin Chunks /\ u[n + 1][2] = 0
    <2>0. r \in Seq(B)
      BY <1>2
    <2>1. /\ v \o r \in Seq(B) /\ Len(v \o r) = Len(v) + Len(r) /\ Len(v) \in Nat
          /\ \A i \in 1 .. Len(v) : (v \o r)[i] = v[i]
          /\ \A i \in 1 .. Len(r) : (v \o r)[Len(v) + i] = r[i]
      BY <2>0, ConcatFacts
    <2>. QED BY <1>1, <1>2, <2>1, ByteFacts DEF HasEnd, Lacks
  <1>4. Whole(u)
    <2>. SUFFICES ASSUME NEW i \in 1 .. n + 1, u[i][2] = 2
                  PROVE  i > 1 /\ u[i - 1] = <<u[i][1], 1>>
      BY <1>3 DEF Whole
    <2>1. i \in 1 .. n
      BY <1>3
    <2>2. i > 1 /\ v[i - 1] = <<v[i][1], 1>>
      BY <1>1, <1>3, <2>1 DEF Tidy, Whole
    <2>. QED BY <1>3, <2>1, <2>2
  <1>5. \A i \in 1 .. Len(u) : u[i][1] \notin Chunks
    BY <1>3
  <1>6. \A i \in 1 .. Len(u) : u[i] = End => i = n + 1
    BY <1>3
  <1>7. Together(u) /\ UpToEnd(u)
    BY <1>5 DEF Together, UpToEnd
  <1>8. OneEnd(u)
    BY <1>6 DEF OneEnd
  <1>. QED BY <1>1, <1>4, <1>7, <1>8 DEF Tidy

(* The mark goes when the stream is ended. *)
LEMMA TidyEnded ==
  ASSUME NEW a \in Seq(B), NEW c \in Seq(B), Tidy((a \o <<End>>) \o c)
  PROVE  Tidy(a \o c) /\ ~HasEnd(a \o c)
  <1>0. PICK r \in Seq(B) : r = <<End>> /\ Len(r) = 1 /\ r[1] = End
    <2>1. <<End>> \in Seq(B) /\ Len(<<End>>) = 1 /\ <<End>>[1] = End
      BY ByteFacts
    <2>. QED BY <2>1
  <1>1. PICK u, v, n, l : u = (a \o r) \o c /\ v = a \o c /\ n = Len(a) /\ l = Len(c)
    OBVIOUS
  <1>2. /\ a \o c \in Seq(B) /\ (a \o r) \o c \in Seq(B)
        /\ Len(a) \in Nat /\ Len(r) \in Nat /\ Len(c) \in Nat
        /\ Len(a \o c) = Len(a) + Len(c) /\ Len((a \o r) \o c) = Len(a) + Len(r) + Len(c)
        /\ \A i \in 1 .. Len(a) : (a \o c)[i] = a[i] /\ ((a \o r) \o c)[i] = a[i]
        /\ \A i \in 1 .. Len(r) : ((a \o r) \o c)[Len(a) + i] = r[i]
        /\ \A i \in 1 .. Len(c) : (a \o c)[Len(a) + i] = c[i]
                                  /\ ((a \o r) \o c)[Len(a) + Len(r) + i] = c[i]
    BY ThreeParts
  <1>3. /\ n \in Nat /\ l \in Nat /\ Len(u) = n + 1 + l /\ Len(v) = n + l
        /\ \A i \in 1 .. n : u[i] = v[i]
        /\ u[n + 1] = End
        /\ \A i \in 1 .. l : u[n + 1 + i] = v[n + i]
    BY <1>0, <1>1, <1>2
  <1>. DEFINE f(i) == IF i <= n THEN i ELSE i + 1
  <1>4. ASSUME NEW i \in 1 .. n + l
        PROVE  f(i) \in 1 .. n + 1 + l /\ f(i) # n + 1 /\ u[f(i)] = v[i]
    <2>1. CASE i <= n
      BY <1>3, <2>1
    <2>2. CASE i > n
      <3>1. i - n \in 1 .. l /\ i = n + (i - n) /\ f(i) = n + 1 + (i - n)
        BY <1>3, <2>2
      <3>2. PICK k \in 1 .. l : i = n + k /\ f(i) = n + 1 + k
        BY <3>1, Zenon
      <3>3. u[n + 1 + k] = v[n + k]
        BY <1>3, Zenon
      <3>4. n + 1 + k \in 1 .. n + 1 + l
        BY <1>3
      <3>. QED BY <1>3, <3>2, <3>3, <3>4
    <2>. QED BY <1>3, <2>1, <2>2
  <1>5. Tidy(u)
    BY <1>0, <1>1
  <1>6. n + 1 \in 1 .. n + 1 + l /\ u[n + 1][2] = 0
    BY <1>3, ByteFacts
  <1>7. ASSUME NEW i \in 1 .. n + l PROVE v[i] # End
    BY <1>3, <1>4, <1>5, <1>6 DEF Tidy, OneEnd
  <1>8. ASSUME NEW i \in 1 .. n + l, v[i][1] \in Chunks PROVE i <= n
    <2>1. f(i) \in 1 .. n + 1 + l /\ u[f(i)][1] \in Chunks
      BY <1>4, <1>8
    <2>2. f(i) < n + 1
      BY <1>3, <1>5, <1>6, <2>1 DEF Tidy, UpToEnd
    <2>. QED BY <1>3, <2>2
  <1>9. Whole(v)
    <2>. SUFFICES ASSUME NEW i \in 1 .. n + l, v[i][2] = 2
                  PROVE  i > 1 /\ v[i - 1] = <<v[i][1], 1>>
      BY <1>3 DEF Whole
    <2>1. f(i) \in 1 .. n + 1 + l /\ u[f(i)] = v[i] /\ f(i) # n + 1
      BY <1>4
    <2>2. f(i) > 1 /\ u[f(i) - 1] = <<v[i][1], 1>>
      BY <1>3, <1>5, <2>1 DEF Tidy, Whole
    <2>3. f(i) - 1 # n + 1
      BY <1>6, <2>2
    <2>4. i > 1 /\ f(i) - 1 = f(i - 1) /\ i - 1 \in 1 .. n + l
      BY <1>3, <2>1, <2>2, <2>3
    <2>5. u[f(i - 1)] = v[i - 1]
      BY <1>4, <2>4
    <2>. QED BY <2>2, <2>4, <2>5
  <1>10. Together(v)
    <2>. SUFFICES ASSUME NEW i \in 1 .. n + l, NEW j \in 1 .. n + l,
                         v[i][1] \in Chunks, v[j][1] \in Chunks, NEW k \in i .. j
                  PROVE  v[k][1] \in Chunks
      BY <1>3 DEF Together
    <2>1. i <= n /\ j <= n
      BY <1>8
    <2>2. k \in 1 .. n /\ u[i][1] \in Chunks /\ u[j][1] \in Chunks
          /\ i \in 1 .. n + 1 + l /\ j \in 1 .. n + 1 + l
      BY <1>3, <2>1
    <2>3. u[k][1] \in Chunks
      BY <1>3, <1>5, <2>2 DEF Tidy, Together
    <2>. QED BY <1>3, <2>2, <2>3
  <1>11. OneEnd(v) /\ UpToEnd(v) /\ ~HasEnd(v)
    BY <1>3, <1>7 DEF OneEnd, UpToEnd, HasEnd
  <1>. QED BY <1>1, <1>9, <1>10, <1>11 DEF Tidy

-----------------------------------------------------------------------------
(* What Send does with the bytes *)

(* Three parts *)
Joined(a, b, c) ==
  /\ a \o b \in Seq(B) /\ b \o c \in Seq(B) /\ (a \o b) \o c \in Seq(B)
  /\ (a \o b) \o c = a \o (b \o c)

LEMMA JoinedFacts == ASSUME NEW a \in Seq(B), NEW b \in Seq(B), NEW c \in Seq(B) PROVE Joined(a, b, c)
  <1>1. a \o b \in Seq(B) /\ b \o c \in Seq(B)
    BY ConcatFacts
  <1>2. (a \o b) \o c \in Seq(B)
    BY <1>1, ConcatFacts
  <1>3. (a \o b) \o c = a \o (b \o c)
    OBVIOUS
  <1>. QED BY <1>1, <1>2, <1>3 DEF Joined

(* Part of b goes behind w, the rest before l. *)
Between(w, b, l, w2, l2) ==
  /\ w2 \in Seq(B) /\ l2 \in Seq(B) /\ w2 \o l2 = (w \o b) \o l
  /\ ~HasEnd(b) => (HasEnd(w2) <=> HasEnd(w)) /\ (HasEnd(l2) <=> HasEnd(l))

LEMMA PutSplits ==
  ASSUME NEW w \in Seq(B), NEW b \in Seq(B), NEW l \in Seq(B), NEW n \in 0 .. Len(b)
  PROVE  Between(w, b, l, w \o SubSeq(b, 1, n), SubSeq(b, n + 1, Len(b)) \o l)
  <1>1. SubSeq(b, 1, n) \in Seq(B) /\ SubSeq(b, n + 1, Len(b)) \in Seq(B)
        /\ SubSeq(b, 1, n) \o SubSeq(b, n + 1, Len(b)) = b
    BY SplitAt
  <1>2. PICK p \in Seq(B), q \in Seq(B) : p = SubSeq(b, 1, n) /\ q = SubSeq(b, n + 1, Len(b))
    BY <1>1, Zenon
  <1>3. /\ w \o p \in Seq(B) /\ q \o l \in Seq(B) /\ p \o q \in Seq(B)
        /\ (w \o p) \o (q \o l) = (w \o (p \o q)) \o l
    <2>1. Joined(w, p, q) /\ Joined(p, q, l)
      BY JoinedFacts
    <2>2. w \o p \in Seq(B)
      BY <2>1 DEF Joined
    <2>3. Joined(w \o p, q, l)
      BY <2>2, JoinedFacts
    <2>. QED BY <2>1, <2>3, Zenon DEF Joined
  <1>4. p \o q = b
    BY <1>1, <1>2
  <1>5. (HasEnd(b) <=> HasEnd(p) \/ HasEnd(q)) /\ (HasEnd(w \o p) <=> HasEnd(w) \/ HasEnd(p))
        /\ (HasEnd(q \o l) <=> HasEnd(q) \/ HasEnd(l))
    BY <1>4, EndConcat
  <1>6. Between(w, b, l, w \o p, q \o l)
    BY <1>3, <1>4, <1>5, Zenon DEF Between
  <1>. QED BY <1>2, <1>6, Zenon

(* What may come of a message that is sent: its bytes are put in their     *)
(* place, or not at all.                                                   *)
SentOK(w, l, w2, l2, m) ==
  /\ w2 \in Seq(B) /\ l2 \in Seq(B)
  /\ HasEnd(w2) <=> HasEnd(w)
  /\ HasEnd(l2) <=> HasEnd(l)
  /\ \/ Placed(w \o l, w2 \o l2, m)
     \/ w2 = w /\ l2 = l

LEMMA PlacedLast ==
  ASSUME NEW v \in Seq(B), NEW m \in Msgs \ Chunks
  PROVE  Placed(v, v \o Bytes(m), m)
  <1>1. PICK b \in Seq(B) : b = Bytes(m)
    BY BytesAre
  <1>2. v = v \o <<>> /\ v \o b = (v \o b) \o <<>> /\ <<>> \in Seq(B)
    <2>1. v \o b \in Seq(B)
      BY ConcatFacts
    <2>. QED BY <2>1, ConcatEmpty, EmptyLacks
  <1>. QED BY <1>1, <1>2, Zenon DEF Placed

LEMMA PutPlaces ==
  ASSUME NEW m \in Msgs, wire \in Seq(B), list \in Seq(B), NEW n \in 0 .. 2, Put(Bytes(m), n),
         IF m \in Chunks THEN list # <<>> /\ Head(list) = End ELSE list = <<>>
  PROVE  SentOK(wire, list, wire', list', m) /\ Placed(wire \o list, wire' \o list', m)
  <1>1. PICK b \in Seq(B) : b = Bytes(m) /\ Len(b) = 2
    BY BytesAre
  <1>2. ~HasEnd(b) /\ n \in 0 .. Len(b)
    BY <1>1, BytesNoEnd
  <1>3. PICK w \in Seq(B), l \in Seq(B) : w = wire /\ l = list
    OBVIOUS
  <1>4. wire' = w \o SubSeq(b, 1, n) /\ list' = SubSeq(b, n + 1, Len(b)) \o l
    BY <1>1, <1>3 DEF Put
  <1>5. /\ wire' \in Seq(B) /\ list' \in Seq(B) /\ wire' \o list' = (w \o b) \o l
        /\ (HasEnd(wire') <=> HasEnd(w)) /\ (HasEnd(list') <=> HasEnd(l))
    <2>1. Between(w, b, l, w \o SubSeq(b, 1, n), SubSeq(b, n + 1, Len(b)) \o l)
      BY <1>2, PutSplits
    <2>. QED BY <1>2, <1>4, <2>1, Zenon DEF Between
  <1>6. IF m \in Chunks THEN l # <<>> /\ l[1] = End ELSE l = <<>>
    BY <1>3
  <1>7. Placed(w \o l, wire' \o list', m)
    BY <1>1, <1>5, <1>6, Zenon DEF Placed
  <1>. QED BY <1>3, <1>5, <1>7 DEF SentOK

LEMMA AppendPlaces ==
  ASSUME NEW m \in Msgs \ Chunks, wire \in Seq(B), list \in Seq(B), wire' = wire,
         list' = list \o Bytes(m)
  PROVE  SentOK(wire, list, wire', list', m) /\ Placed(wire \o list, wire' \o list', m)
  <1>1. PICK b \in Seq(B) : b = Bytes(m)
    BY BytesAre
  <1>2. ~HasEnd(b)
    BY <1>1, BytesNoEnd
  <1>3. PICK w \in Seq(B), l \in Seq(B) : w = wire /\ l = list
    OBVIOUS
  <1>4. w \o l \in Seq(B) /\ l \o b \in Seq(B) /\ w \o (l \o b) = (w \o l) \o b
    <2>1. Joined(w, l, b)
      BY JoinedFacts
    <2>. QED BY <2>1 DEF Joined
  <1>5. HasEnd(l \o b) <=> HasEnd(l)
    BY <1>2, EndConcat
  <1>6. Placed(w \o l, (w \o l) \o b, m)
    BY <1>1, <1>4, PlacedLast
  <1>7. wire' = w /\ list' = l \o b
    BY <1>1, <1>3
  <1>8. Placed(w \o l, wire' \o list', m)
    BY <1>4, <1>6, <1>7
  <1>. QED BY <1>3, <1>4, <1>5, <1>7, <1>8 DEF SentOK

(* The list is cut at the mark. *)
LEMMA EndSplits ==
  ASSUME NEW l \in Seq(B), NEW i \in 1 .. Len(l), l[i] = End
  PROVE  \E p, q \in Seq(B) : /\ p = SubSeq(l, 1, i - 1) /\ q = SubSeq(l, i, Len(l))
                             /\ p \o q = l /\ q # <<>> /\ q[1] = End
  <1>1. PICK n \in 0 .. Len(l) : n = i - 1
    <2>1. i - 1 \in 0 .. Len(l)
      OBVIOUS
    <2>. QED BY <2>1, Zenon
  <1>2. n + 1 = i /\ 1 \in 1 .. Len(l) - n /\ Len(l) - n > 0
    BY <1>1
  <1>3. /\ SubSeq(l, 1, n) \in Seq(B) /\ SubSeq(l, n + 1, Len(l)) \in Seq(B)
        /\ Len(SubSeq(l, n + 1, Len(l))) = Len(l) - n
        /\ \A k \in 1 .. Len(l) - n : SubSeq(l, n + 1, Len(l))[k] = l[n + k]
        /\ SubSeq(l, 1, n) \o SubSeq(l, n + 1, Len(l)) = l
    BY SplitAt
  <1>4. PICK p, q : p = SubSeq(l, 1, n) /\ q = SubSeq(l, n + 1, Len(l))
    OBVIOUS
  <1>5. /\ p \in Seq(B) /\ q \in Seq(B) /\ p \o q = l
        /\ Len(q) = Len(l) - n /\ \A k \in 1 .. Len(l) - n : q[k] = l[n + k]
    BY <1>3, <1>4, Zenon
  <1>6. q[1] = End /\ q # <<>>
    BY <1>2, <1>5
  <1>7. p = SubSeq(l, 1, i - 1) /\ q = SubSeq(l, i, Len(l))
    BY <1>1, <1>2, <1>4
  <1>. QED BY <1>5, <1>6, <1>7, Zenon

LEMMA InsertPlaces ==
  ASSUME NEW m \in Chunks, wire \in Seq(B), list \in Seq(B), HasEnd(list), wire' = wire,
         NEW i, i = (CHOOSE k \in 1 .. Len(list) : list[k] = End),
         list' = SubSeq(list, 1, i - 1) \o Bytes(m) \o SubSeq(list, i, Len(list))
  PROVE  SentOK(wire, list, wire', list', m) /\ Placed(wire \o list, wire' \o list', m)
  <1>0. m \in Msgs
    BY DEF Msgs, Kinds
  <1>1. PICK b \in Seq(B) : b = Bytes(m)
    BY <1>0, BytesAre
  <1>2. ~HasEnd(b)
    BY <1>0, <1>1, BytesNoEnd
  <1>3. PICK w \in Seq(B), l \in Seq(B) : w = wire /\ l = list
    OBVIOUS
  <1>4. i \in 1 .. Len(l) /\ l[i] = End
    BY <1>3 DEF HasEnd
  <1>7. PICK p \in Seq(B), q \in Seq(B) :
          /\ p = SubSeq(l, 1, i - 1) /\ q = SubSeq(l, i, Len(l))
          /\ p \o q = l /\ q # <<>> /\ q[1] = End
    BY <1>4, EndSplits
  <1>8. p \o q = l /\ q # <<>> /\ q[1] = End
    BY <1>7, Zenon
  <1>9. wire' = w /\ list' = (p \o b) \o q
    BY <1>1, <1>3, <1>7
  <1>10. Joined(w, p, q) /\ Joined(w, p, b) /\ Joined(p, b, q)
    BY JoinedFacts
  <1>11. w \o p \in Seq(B) /\ p \o b \in Seq(B) /\ (p \o b) \o q \in Seq(B)
         /\ w \o l = (w \o p) \o q
    BY <1>8, <1>10, Zenon DEF Joined
  <1>12. w \o ((p \o b) \o q) = ((w \o p) \o b) \o q
    <2>1. Joined(w, p \o b, q)
      BY <1>11, JoinedFacts
    <2>. QED BY <1>10, <2>1, Zenon DEF Joined
  <1>13. Placed(w \o l, w \o ((p \o b) \o q), m)
    BY <1>1, <1>8, <1>11, <1>12, Zenon DEF Placed
  <1>14. HasEnd((p \o b) \o q) <=> HasEnd(l)
    <2>1. HasEnd(l) <=> HasEnd(p) \/ HasEnd(q)
      BY <1>8, EndConcat
    <2>2. HasEnd(p \o b) <=> HasEnd(p) \/ HasEnd(b)
      BY EndConcat
    <2>3. HasEnd((p \o b) \o q) <=> HasEnd(p \o b) \/ HasEnd(q)
      BY <1>11, EndConcat
    <2>. QED BY <1>2, <2>1, <2>2, <2>3
  <1>. QED BY <1>3, <1>9, <1>11, <1>13, <1>14 DEF SentOK

(* sendInLoop, sendFile, sendStream and sendAsyncDataInLoop. *)
LEMMA SendPlaces ==
  ASSUME NEW m \in Msgs, wire \in Seq(B), list \in Seq(B), m \in Chunks => HasEnd(list), Send(m)
  PROVE  /\ SentOK(wire, list, wire', list', m)
         /\ m \in Chunks \/ (m \in Sends /\ status_ = "Connected") =>
              Placed(wire \o list, wire' \o list', m)
  <1>1. m \in Sends \cup Files \cup Streams \cup Chunks
    BY DEF Msgs, Kinds
  <1>2. m \in Sends \cup Files \cup Streams => m \in Msgs \ Chunks
    BY MsgsAssumption
  <1>3. ASSUME WriteRaw(m), m \notin Chunks, list = <<>>
        PROVE  SentOK(wire, list, wire', list', m) /\ Placed(wire \o list, wire' \o list', m)
    BY <1>3, PutPlaces DEF WriteRaw
  <1>4. ASSUME Append2List(m), m \notin Chunks
        PROVE  SentOK(wire, list, wire', list', m) /\ Placed(wire \o list, wire' \o list', m)
    BY <1>4, AppendPlaces DEF Append2List
  <1>5. ASSUME UNCHANGED <<wire, list>> PROVE SentOK(wire, list, wire', list', m)
    BY <1>5 DEF SentOK
  <1>6. CASE m \in Sends
    BY <1>2, <1>3, <1>4, <1>5, <1>6 DEF Send, sendInLoop, Nothing
  <1>7. CASE m \in Files
    <2>0. m \notin Chunks /\ m \notin Sends /\ sendFile(m)
      BY <1>7, MsgsAssumption DEF Send
    <2>1. CASE list # <<>>
      BY <1>4, <2>0, <2>1 DEF sendFile
    <2>2. CASE list = <<>>
      <3>1. CASE \E n \in 1 .. 2 : Put(Bytes(m), n)
        BY <2>0, <2>2, <3>1, PutPlaces
      <3>2. (\E n \in 1 .. 2 : Put(Bytes(m), n)) \/ UNCHANGED <<wire, list>>
        BY <2>0, <2>2 DEF sendFile, SendFileNode, Nothing
      <3>. QED BY <1>5, <2>0, <3>1, <3>2
    <2>. QED BY <2>1, <2>2
  <1>8. CASE m \in Streams
    <2>0. m \notin Chunks /\ m \notin Sends /\ sendStream(m)
      BY <1>8, MsgsAssumption DEF Send
    <2>. QED BY <1>3, <1>4, <1>5, <2>0 DEF sendStream, Nothing
  <1>9. CASE m \in Chunks
    <2>0. sendAsyncDataInLoop(m)
      BY <1>9 DEF Send
    <2>1. CASE list # <<>> /\ Head(list) = End
      BY <1>9, <2>0, <2>1, PutPlaces DEF sendAsyncDataInLoop, WriteRaw
    <2>2. CASE ~(list # <<>> /\ Head(list) = End)
      BY <1>9, <2>0, <2>2, InsertPlaces DEF sendAsyncDataInLoop
    <2>. QED BY <2>1, <2>2
  <1>. QED BY <1>1, <1>6, <1>7, <1>8, <1>9

-----------------------------------------------------------------------------
(* The asynchronous stream and its functions in the queue *)

(* No chunk is in the queue q; one is at j. *)
NoChunkIn(q) == \A m \in Chunks : ~InQueue(q, SendFn(m))
ChunkAt(q, j) == \E m \in Chunks : q[j] = SendFn(m)

(* For the queue q and the thread st that has the stream: there is a mark  *)
(* (h) when a chunk comes to the loop, and the stream is not ended yet (d);*)
(* before it is opened nothing of it is there (f).                         *)
Stream(q, h, f, d, st) ==
  /\ AtMostOnce(q, OpenFn)
  /\ InQueue(q, OpenFn) => f
  /\ InQueue(q, EndFn) => st = "ended"
  /\ \A j \in 1 .. Len(q) : ChunkAt(q, j) =>
       /\ ~d
       /\ h \/ \E i \in 1 .. j - 1 : q[i] = OpenFn
       /\ \A i \in 1 .. j - 1 : q[i] # EndFn
  /\ st = "no" => f /\ ~d /\ ~InQueue(q, OpenFn) /\ NoChunkIn(q)
  /\ st = "loop" => h /\ ~d /\ NoChunkIn(q)
  /\ st = "away" => ~d /\ (h \/ InQueue(q, OpenFn))

(* The functions of the queue differ. *)
LEMMA StreamFns ==
  /\ OpenFn # EndFn /\ OpenFn \in Fns /\ EndFn \in Fns
  /\ \A f \in {Established, Destroyed, ShutdownFn, CloseFn} : f # OpenFn /\ f # EndFn
  /\ \A m \in Msgs : SendFn(m) # OpenFn /\ SendFn(m) # EndFn /\ SendFn(m) \in Fns
  /\ \A m, l \in Msgs : SendFn(m) = SendFn(l) => m = l
  /\ \A f \in {Established, Destroyed, ShutdownFn, CloseFn, OpenFn, EndFn}, m \in Msgs : f # SendFn(m)
  /\ Chunks \subseteq Msgs
  <1>1. OpenFn.op # EndFn.op
    BY DEF OpenFn, EndFn
  <1>2. \A f \in {Established, Destroyed, ShutdownFn, CloseFn} : f.op # OpenFn.op /\ f.op # EndFn.op
    BY DEF Established, Destroyed, ShutdownFn, CloseFn, OpenFn, EndFn
  <1>3. \A f \in {Established, Destroyed, ShutdownFn, CloseFn, OpenFn, EndFn} : f.op # "send"
    BY DEF Established, Destroyed, ShutdownFn, CloseFn, OpenFn, EndFn
  <1>4. \A m \in Msgs : SendFn(m).op = "send" /\ SendFn(m).msg = m
    BY DEF SendFn
  <1>5. OpenFn \in Fns /\ EndFn \in Fns /\ \A m \in Msgs : SendFn(m) \in Fns
    BY DEF Fns
  <1>6. OpenFn # EndFn
    BY <1>1, Zenon
  <1>7. \A f \in {Established, Destroyed, ShutdownFn, CloseFn} : f # OpenFn /\ f # EndFn
    BY <1>2, Zenon
  <1>8. \A f \in {Established, Destroyed, ShutdownFn, CloseFn, OpenFn, EndFn}, m \in Msgs :
          f # SendFn(m)
    BY <1>3, <1>4, Zenon
  <1>9. \A m \in Msgs : SendFn(m) # OpenFn /\ SendFn(m) # EndFn
    BY <1>8
  <1>10. \A m, l \in Msgs : SendFn(m) = SendFn(l) => m = l
    BY <1>4, Zenon
  <1>11. Chunks \subseteq Msgs
    BY DEF Msgs, Kinds
  <1>. QED BY <1>5, <1>6, <1>7, <1>8, <1>9, <1>10, <1>11, Zenon

(* One is taken from the queue. *)
LEMMA TailPlaces ==
  ASSUME NEW q \in Seq(Fns), q # <<>>
  PROVE  /\ Len(Tail(q)) \in Nat /\ Len(q) = Len(Tail(q)) + 1 /\ Head(q) = q[1]
         /\ \A i \in 1 .. Len(Tail(q)) : Tail(q)[i] = q[i + 1]
OBVIOUS

LEMMA StreamTail ==
  ASSUME NEW q \in Seq(Fns), q # <<>>, NEW h, NEW f, NEW d, NEW st, Stream(q, h, f, d, st)
  PROVE  /\ Head(q) \notin {OpenFn, EndFn} => Stream(Tail(q), h, f, d, st)
         /\ Head(q) = OpenFn => f /\ \A g : Stream(Tail(q), TRUE, g, d, st)
         /\ Head(q) = EndFn => Stream(Tail(q), h, f, TRUE, st)
         /\ (\E m \in Chunks : Head(q) = SendFn(m)) => h /\ ~d
  <1>1. PICK r, n : r = Tail(q) /\ n = Len(r)
    OBVIOUS
  <1>2. /\ n \in Nat /\ Len(q) = n + 1 /\ Head(q) = q[1]
        /\ \A i \in 1 .. n : r[i] = q[i + 1] /\ i + 1 \in 1 .. n + 1
        /\ 1 \in 1 .. n + 1
    <2>1. n \in Nat /\ Len(q) = n + 1 /\ Head(q) = q[1] /\ \A i \in 1 .. n : r[i] = q[i + 1]
      BY <1>1, TailPlaces
    <2>. QED BY <2>1
  <1>3. \A g : InQueue(r, g) => InQueue(q, g)
    BY <1>1, <1>2, Zenon DEF InQueue
  <1>4. NoChunkIn(q) => NoChunkIn(r)
    BY <1>3 DEF NoChunkIn
  <1>5. AtMostOnce(r, OpenFn)
    <2>. SUFFICES ASSUME NEW i \in 1 .. n, NEW j \in 1 .. n, r[i] = OpenFn, r[j] = OpenFn
                  PROVE  i = j
      BY <1>1 DEF AtMostOnce
    <2>1. i + 1 = j + 1
      BY <1>2 DEF Stream, AtMostOnce
    <2>. QED BY <2>1
  <1>6. \A j \in 1 .. n : ChunkAt(r, j) => j + 1 \in 1 .. Len(q) /\ ChunkAt(q, j + 1)
    BY <1>2 DEF ChunkAt
  <1>7. ASSUME NEW j \in 1 .. n, ChunkAt(r, j)
        PROVE  /\ ~d /\ q[1] # EndFn
               /\ h \/ q[1] = OpenFn \/ \E i \in 1 .. j - 1 : r[i] = OpenFn
               /\ \A i \in 1 .. j - 1 : r[i] # EndFn
    <2>1. /\ ~d
          /\ h \/ \E i \in 1 .. j + 1 - 1 : q[i] = OpenFn
          /\ \A i \in 1 .. j + 1 - 1 : q[i] # EndFn
      BY <1>6, <1>7 DEF Stream
    <2>2. 1 \in 1 .. j + 1 - 1
      OBVIOUS
    <2>3. ASSUME NEW i \in 1 .. j + 1 - 1, q[i] = OpenFn
          PROVE  q[1] = OpenFn \/ \E k \in 1 .. j - 1 : r[k] = OpenFn
      <3>1. CASE i # 1
        <4>1. i - 1 \in 1 .. j - 1 /\ i - 1 \in 1 .. n /\ (i - 1) + 1 = i
          BY <1>2, <3>1
        <4>2. r[i - 1] = OpenFn
          BY <1>2, <2>3, <4>1
        <4>. QED BY <4>1, <4>2
      <3>. QED BY <2>3, <3>1
    <2>4. ASSUME NEW i \in 1 .. j - 1 PROVE r[i] # EndFn
      <3>1. i \in 1 .. n /\ i + 1 \in 1 .. j + 1 - 1
        BY <1>2
      <3>. QED BY <1>2, <2>1, <3>1
    <2>. QED BY <2>1, <2>2, <2>3, <2>4
  <1>8. ASSUME Head(q) \notin {OpenFn, EndFn} PROVE Stream(r, h, f, d, st)
    <2>1. q[1] # OpenFn /\ q[1] # EndFn
      BY <1>2, <1>8
    <2>2. InQueue(q, OpenFn) => InQueue(r, OpenFn)
      <3>. SUFFICES ASSUME NEW i \in 1 .. n + 1, q[i] = OpenFn PROVE \E k \in 1 .. n : r[k] = OpenFn
        BY <1>1, <1>2 DEF InQueue
      <3>1. i - 1 \in 1 .. n /\ (i - 1) + 1 = i
        BY <1>2, <2>1
      <3>. QED BY <1>2, <3>1
    <2>3. \A j \in 1 .. Len(r) : ChunkAt(r, j) =>
             /\ ~d
             /\ h \/ \E i \in 1 .. j - 1 : r[i] = OpenFn
             /\ \A i \in 1 .. j - 1 : r[i] # EndFn
      BY <1>1, <1>7, <2>1
    <2>4. Stream(r, h, f, d, st)
      BY <1>3, <1>4, <1>5, <2>2, <2>3 DEF Stream
    <2>. QED BY <2>4
  <1>9. ASSUME Head(q) = OpenFn PROVE f /\ \A g : Stream(r, TRUE, g, d, st)
    <2>1. InQueue(q, OpenFn)
      BY <1>2, <1>9 DEF InQueue
    <2>2. f /\ st # "no"
      BY <2>1 DEF Stream
    <2>3. ~InQueue(r, OpenFn)
      BY <1>1, <1>9, TailLess DEF Stream
    <2>4. ASSUME NEW g PROVE Stream(r, TRUE, g, d, st)
      <3>1. \A j \in 1 .. Len(r) : ChunkAt(r, j) => ~d /\ \A i \in 1 .. j - 1 : r[i] # EndFn
        BY <1>1, <1>7
      <3>. QED BY <1>3, <1>4, <1>5, <2>2, <2>3, <3>1 DEF Stream
    <2>. QED BY <2>2, <2>4
  <1>10. ASSUME Head(q) = EndFn PROVE Stream(r, h, f, TRUE, st)
    <2>1. InQueue(q, EndFn)
      BY <1>2, <1>10 DEF InQueue
    <2>2. st = "ended"
      BY <2>1 DEF Stream
    <2>3. \A j \in 1 .. Len(r) : ~ChunkAt(r, j)
      BY <1>1, <1>2, <1>7, <1>10
    <2>4. Stream(r, h, f, TRUE, st)
      BY <1>3, <1>5, <2>2, <2>3 DEF Stream
    <2>. QED BY <2>4
  <1>11. ASSUME NEW m \in Chunks, Head(q) = SendFn(m) PROVE h /\ ~d
    <2>1. ChunkAt(q, 1) /\ 1 \in 1 .. Len(q)
      BY <1>2, <1>11 DEF ChunkAt
    <2>2. ~d /\ (h \/ \E i \in 1 .. 1 - 1 : q[i] = OpenFn)
      BY <2>1 DEF Stream
    <2>. QED BY <2>2
  <1>. QED BY <1>1, <1>8, <1>9, <1>10, <1>11, Zenon

(* What does not touch the queue: the mark may be set, or go when the      *)
(* stream is ended.                                                        *)
LEMMA StreamSame ==
  ASSUME NEW q, NEW h, NEW f, NEW d, NEW st, Stream(q, h, f, d, st)
  PROVE  /\ \A g, k : (f => g) /\ (~d /\ h => k) => Stream(q, k, g, d, st)
         /\ st = "no" =>
              \A g, t : t \in {"loop", "away"} => Stream(q, TRUE, g, d, t)
         /\ st \in {"loop", "away"} => Stream(q, h, f, d, "ended")
         /\ st = "loop" => Stream(q, h, f, TRUE, "ended")
         /\ st = "loop" => h /\ ~d
  <1>1. ASSUME NEW g, NEW k, f => g, ~d /\ h => k PROVE Stream(q, k, g, d, st)
    BY <1>1 DEF Stream
  <1>2. ASSUME st = "no", NEW g, NEW t, t \in {"loop", "away"} PROVE Stream(q, TRUE, g, d, t)
    BY <1>2 DEF Stream
  <1>3. ASSUME st \in {"loop", "away"} PROVE Stream(q, h, f, d, "ended")
    BY <1>3 DEF Stream
  <1>4. ASSUME st = "loop" PROVE Stream(q, h, f, TRUE, "ended") /\ h /\ ~d
    <2>1. \A j \in 1 .. Len(q) : ~ChunkAt(q, j)
      BY <1>4 DEF Stream, NoChunkIn, ChunkAt, InQueue
    <2>. QED BY <1>4, <2>1 DEF Stream
  <1>. QED BY <1>1, <1>2, <1>3, <1>4

(* A function is queued. *)
LEMMA StreamAppend ==
  ASSUME NEW q \in Seq(Fns), NEW g \in Fns, NEW h, NEW f, NEW d, NEW st, Stream(q, h, f, d, st)
  PROVE  /\ g \notin {OpenFn, EndFn} /\ (st = "away" \/ \A m \in Chunks : g # SendFn(m)) =>
              Stream(Append(q, g), h, f, d, st)
         /\ g = OpenFn /\ st = "no" => Stream(Append(q, g), h, f, d, "away")
         /\ g = EndFn /\ st = "away" => Stream(Append(q, g), h, f, d, "ended")
  <1>1. PICK r, n : r = Append(q, g) /\ n = Len(q)
    OBVIOUS
  <1>2. /\ n \in Nat /\ Len(r) = n + 1 /\ r[n + 1] = g
        /\ \A i \in 1 .. n : r[i] = q[i] /\ i \in 1 .. n + 1
    <2>1. n \in Nat /\ Len(r) = n + 1 /\ r[n + 1] = g /\ \A i \in 1 .. n : r[i] = q[i]
      BY <1>1, AppendFacts
    <2>. QED BY <2>1
  <1>3. \A i \in 1 .. n + 1 : i = n + 1 \/ i \in 1 .. n
    BY <1>2
  <1>4. \A k : InQueue(r, k) <=> InQueue(q, k) \/ k = g
    <2>1. ASSUME NEW k, InQueue(r, k) PROVE InQueue(q, k) \/ k = g
      BY <1>1, <1>2, <1>3, <2>1 DEF InQueue
    <2>2. ASSUME NEW k, InQueue(q, k) PROVE InQueue(r, k)
      BY <1>1, <1>2, <2>2 DEF InQueue
    <2>3. InQueue(r, g)
      BY <1>2 DEF InQueue
    <2>. QED BY <2>1, <2>2, <2>3
  <1>5. ASSUME ~InQueue(q, OpenFn) \/ g # OpenFn PROVE AtMostOnce(r, OpenFn)
    <2>. SUFFICES ASSUME NEW i \in 1 .. n + 1, NEW j \in 1 .. n + 1, r[i] = OpenFn, r[j] = OpenFn
                  PROVE  i = j
      BY <1>2 DEF AtMostOnce
    <2>1. CASE g # OpenFn
      <3>1. i \in 1 .. n /\ j \in 1 .. n /\ q[i] = OpenFn /\ q[j] = OpenFn
        BY <1>2, <1>3, <2>1
      <3>. QED BY <1>1, <3>1 DEF Stream, AtMostOnce
    <2>2. CASE ~InQueue(q, OpenFn)
      <3>1. \A k \in 1 .. n : r[k] # OpenFn
        BY <1>1, <1>2, <2>2 DEF InQueue
      <3>. QED BY <1>3, <3>1
    <2>. QED BY <1>5, <2>1, <2>2
  <1>6. ASSUME NEW j \in 1 .. n, ChunkAt(r, j)
        PROVE  /\ ~d
               /\ h \/ \E i \in 1 .. j - 1 : r[i] = OpenFn
               /\ \A i \in 1 .. j - 1 : r[i] # EndFn
    <2>1. /\ ~d
          /\ h \/ \E i \in 1 .. j - 1 : q[i] = OpenFn
          /\ \A i \in 1 .. j - 1 : q[i] # EndFn
      BY <1>1, <1>2, <1>6 DEF Stream, ChunkAt
    <2>2. \A i \in 1 .. j - 1 : i \in 1 .. n
      BY <1>2
    <2>. QED BY <1>2, <2>1, <2>2
  <1>7. ASSUME \A m \in Chunks : g # SendFn(m)
        PROVE  /\ NoChunkIn(q) => NoChunkIn(r)
               /\ \A j \in 1 .. Len(r) : ChunkAt(r, j) => j \in 1 .. n
    <2>1. ~ChunkAt(r, n + 1)
      BY <1>2, <1>7 DEF ChunkAt
    <2>2. NoChunkIn(q) => NoChunkIn(r)
      BY <1>4, <1>7 DEF NoChunkIn
    <2>. QED BY <1>2, <1>3, <2>1, <2>2
  <1>8. ASSUME g \notin {OpenFn, EndFn}, st = "away" \/ \A m \in Chunks : g # SendFn(m)
        PROVE  Stream(r, h, f, d, st)
    <2>1. CASE \A m \in Chunks : g # SendFn(m)
      <3>1. \A j \in 1 .. Len(r) : ChunkAt(r, j) =>
             /\ ~d
             /\ h \/ \E i \in 1 .. j - 1 : r[i] = OpenFn
             /\ \A i \in 1 .. j - 1 : r[i] # EndFn
        BY <1>6, <1>7, <2>1
      <3>. QED BY <1>4, <1>5, <1>7, <1>8, <2>1, <3>1 DEF Stream
    <2>2. CASE st = "away"
      <3>1. ~d /\ (h \/ InQueue(q, OpenFn)) /\ ~InQueue(q, EndFn)
        BY <2>2 DEF Stream
      <3>2. h \/ \E i \in 1 .. n : r[i] = OpenFn
        BY <1>1, <1>2, <3>1 DEF InQueue
      <3>3. \A i \in 1 .. n : r[i] # EndFn
        BY <1>1, <1>2, <3>1 DEF InQueue
      <3>4. n + 1 - 1 = n
        BY <1>2
      <3>5. \A j \in 1 .. Len(r) : ChunkAt(r, j) =>
             /\ ~d
             /\ h \/ \E i \in 1 .. j - 1 : r[i] = OpenFn
             /\ \A i \in 1 .. j - 1 : r[i] # EndFn
        BY <1>2, <1>3, <1>6, <3>1, <3>2, <3>3, <3>4
      <3>. QED BY <1>4, <1>5, <1>8, <2>2, <3>1, <3>5 DEF Stream
    <2>. QED BY <1>8, <2>1, <2>2
  <1>9. ASSUME g = OpenFn, st = "no" PROVE Stream(r, h, f, d, "away")
    <2>1. f /\ ~d /\ ~InQueue(q, OpenFn) /\ NoChunkIn(q)
      BY <1>9 DEF Stream
    <2>2. \A m \in Chunks : g # SendFn(m)
      BY <1>9, StreamFns
    <2>3. \A j \in 1 .. Len(r) : ~ChunkAt(r, j)
      BY <1>7, <2>1, <2>2 DEF NoChunkIn, ChunkAt, InQueue
    <2>4. ~InQueue(q, EndFn)
      BY <1>9 DEF Stream
    <2>5. ~InQueue(r, EndFn)
      BY <1>4, <1>9, <2>4, StreamFns
    <2>6. AtMostOnce(r, OpenFn) /\ InQueue(r, OpenFn)
      BY <1>4, <1>5, <1>9, <2>1
    <2>. QED BY <2>1, <2>3, <2>5, <2>6 DEF Stream
  <1>10. ASSUME g = EndFn, st = "away" PROVE Stream(r, h, f, d, "ended")
    <2>1. \A m \in Chunks : g # SendFn(m)
      BY <1>10, StreamFns
    <2>2. \A j \in 1 .. Len(r) : ChunkAt(r, j) =>
             /\ ~d
             /\ h \/ \E i \in 1 .. j - 1 : r[i] = OpenFn
             /\ \A i \in 1 .. j - 1 : r[i] # EndFn
      BY <1>6, <1>7, <2>1
    <2>3. g # OpenFn
      BY <1>10, StreamFns
    <2>4. InQueue(r, OpenFn) => f
      BY <1>4, <2>3 DEF Stream
    <2>. QED BY <1>5, <2>2, <2>3, <2>4 DEF Stream
  <1>. QED BY <1>1, <1>8, <1>9, <1>10

-----------------------------------------------------------------------------
(* The invariant of the data *)

(* Nothing of an asynchronous stream is there. *)
FreshOn(w, l) == ~HasEnd(l) /\ Lacks(w \o l, Chunks)

(* The bytes written, w, and the list, l, with the messages given, c, the mark of *)
(* the end, d, the queue, q, and the thread that has the stream, st: they are     *)
(* tidy, no message of the loop's own thread is queued, and until the connection  *)
(* ends (s) everything is there in order.                                         *)
DataOn(w, l, c, d, q, st) ==
  /\ w \in Seq(B) /\ l \in Seq(B) /\ c \in Seq(Msgs) /\ d \in BOOLEAN
  /\ ~HasEnd(w) /\ Tidy(w \o l)
  /\ \A m \in LoopMsgs : ~InQueue(q, SendFn(m))
  /\ Stream(q, HasEnd(l), FreshOn(w, l), d, st)

OrderOn(s, w, l, c, q) ==
  s \in {"Connecting", "Connected"} => OrderedOn((w \o l) \o QueuedOf(q), c)

WireOn(s, w, l, c, d, q, st) == DataOn(w, l, c, d, q, st) /\ OrderOn(s, w, l, c, q)

(* The data of a connection. *)
WireInv == WireOn(status_, wire, list, called, done, funcs_, stream)

-----------------------------------------------------------------------------
(* A message that is placed overtakes nothing of its class. *)
Overtakes(v, u, m) ==
  \E a, x \in Seq(B) : v = a \o x /\ u = (a \o Bytes(m)) \o x /\ Behind(m, x)

LEMMA PlacedBehind ==
  ASSUME NEW v, NEW u, NEW m \in Msgs, Placed(v, u, m), Tidy(v)
  PROVE  Overtakes(v, u, m)
  <1>1. PICK a \in Seq(B), x \in Seq(B) :
          /\ v = a \o x /\ u = (a \o Bytes(m)) \o x
          /\ IF m \in Chunks THEN x # <<>> /\ x[1] = End ELSE x = <<>>
    BY DEF Placed
  <1>2. CASE m \in Chunks
    <2>1. PICK n, k : n = Len(a) /\ k = Len(x)
      OBVIOUS
    <2>2. /\ n \in Nat /\ k \in Nat /\ Len(v) = n + k
          /\ \A i \in 1 .. k : v[n + i] = x[i]
      BY <1>1, <2>1, ConcatFacts
    <2>3. x # <<>> /\ x[1] = End
      BY <1>1, <1>2
    <2>4. k > 0
      BY <2>1, <2>3
    <2>5. n + 1 \in 1 .. Len(v) /\ v[n + 1] = End
      BY <2>2, <2>3, <2>4
    <2>6. ASSUME NEW i \in 1 .. k, x[i][1] \in Chunks PROVE FALSE
      <3>1. n + i \in 1 .. Len(v) /\ v[n + i][1] \in Chunks
        BY <2>2, <2>6
      <3>2. n + i < n + 1
        BY <2>5, <3>1 DEF Tidy, UpToEnd
      <3>. QED BY <2>2, <3>2
    <2>7. Behind(m, x)
      BY <1>2, <2>1, <2>6 DEF Behind, Lacks
    <2>. QED BY <1>1, <2>7 DEF Overtakes
  <1>3. CASE m \notin Chunks
    BY <1>1, <1>3 DEF Behind, Overtakes
  <1>. QED BY <1>2, <1>3

(* What sending leaves as it was. *)
LEMMA SentTidy ==
  ASSUME NEW w \in Seq(B), NEW l \in Seq(B), NEW w2, NEW l2, NEW m \in Msgs,
         SentOK(w, l, w2, l2, m), ~HasEnd(w), Tidy(w \o l), m \in Chunks => HasEnd(l)
  PROVE  /\ w2 \in Seq(B) /\ l2 \in Seq(B) /\ ~HasEnd(w2) /\ Tidy(w2 \o l2)
         /\ HasEnd(l2) <=> HasEnd(l)
         /\ FreshOn(w, l) => FreshOn(w2, l2)
  <1>1. /\ w2 \in Seq(B) /\ l2 \in Seq(B) /\ ~HasEnd(w2) /\ (HasEnd(l2) <=> HasEnd(l))
        /\ Placed(w \o l, w2 \o l2, m) \/ w2 \o l2 = w \o l
    BY DEF SentOK
  <1>2. Tidy(w2 \o l2)
    BY <1>1, TidyPlaced
  <1>3. ASSUME FreshOn(w, l), Placed(w \o l, w2 \o l2, m) PROVE Lacks(w2 \o l2, Chunks)
    <2>1. m \notin Chunks /\ Lacks(w \o l, Chunks)
      BY <1>3 DEF FreshOn
    <2>2. PICK a \in Seq(B), x \in Seq(B) : w \o l = a \o x /\ w2 \o l2 = (a \o Bytes(m)) \o x
      BY <1>3 DEF Placed
    <2>3. PICK b \in Seq(B) : b = Bytes(m)
      BY BytesAre
    <2>4. Lacks(b, Chunks)
      BY <2>1, <2>3, BytesLack
    <2>5. Lacks(a \o x, Chunks)
      BY <2>1, <2>2
    <2>6. Lacks(a, Chunks) /\ Lacks(x, Chunks)
      BY <2>5, LacksConcat
    <2>7. Joined(a, b, x)
      BY JoinedFacts
    <2>8. a \o b \in Seq(B)
      BY <2>7 DEF Joined
    <2>9. Lacks(a \o b, Chunks)
      BY <2>4, <2>6, LacksConcat
    <2>10. Lacks((a \o b) \o x, Chunks)
      BY <2>6, <2>8, <2>9, LacksConcat
    <2>. QED BY <2>2, <2>3, <2>10
  <1>4. FreshOn(w, l) => FreshOn(w2, l2)
    BY <1>1, <1>3 DEF FreshOn
  <1>. QED BY <1>1, <1>2, <1>4

-----------------------------------------------------------------------------
(* The order, when a function is taken from the queue or put in it. *)
Others == {Established, Destroyed, ShutdownFn, CloseFn, OpenFn, EndFn}

LEMMA MarksLack == <<End, End>> \in Seq(B) /\ Lacks(<<End, End>>, Sends \cup Chunks)
  <1>1. PICK e : e = End
    OBVIOUS
  <1>2. e \in B /\ e[1] \notin Sends \cup Chunks
    BY <1>1, ByteFacts, MsgsAssumption DEF Msgs, Kinds
  <1>3. <<e, e>> \in Seq(B) /\ Lacks(<<e, e>>, Sends \cup Chunks)
    BY <1>2 DEF Lacks
  <1>. QED BY <1>1, <1>3

LEMMA OrdTakeOther ==
  ASSUME NEW v \in Seq(B), NEW q \in Seq(Fns), q # <<>>, Head(q) \in Others,
         NEW c, OrderedOn(v \o QueuedOf(q), c)
  PROVE  OrderedOn(v \o QueuedOf(Tail(q)), c)
  <1>1. PICK r \in Seq(B) : r = <<End, End>>
    BY MarksLack
  <1>2. Tail(q) \in Seq(Fns) /\ QueuedOf(q) = Marks(Head(q)) \o QueuedOf(Tail(q))
    BY QueuedTail
  <1>3. PICK p \in Seq(B) : p = QueuedOf(Tail(q))
    BY <1>2, MarksOK
  <1>4. Marks(Head(q)) = r
    BY <1>1, MarksOther DEF Others
  <1>5. OrderedOn(v \o (r \o p), c)
    BY <1>2, <1>3, <1>4
  <1>6. Joined(v, r, p)
    BY JoinedFacts
  <1>7. OrderedOn((v \o r) \o p, c)
    BY <1>5, <1>6, Zenon DEF Joined
  <1>8. Lacks(r, Sends \cup Chunks)
    BY <1>1, MarksLack
  <1>9. OrderedOn(v \o p, c)
    BY <1>7, <1>8, OrdDelete
  <1>. QED BY <1>3, <1>9

LEMMA OrdGiveOther ==
  ASSUME NEW v \in Seq(B), NEW q \in Seq(Fns), NEW g \in Others,
         NEW c, OrderedOn(v \o QueuedOf(q), c)
  PROVE  OrderedOn(v \o QueuedOf(Append(q, g)), c)
  <1>1. PICK r \in Seq(B), e \in Seq(B) : r = <<End, End>> /\ e = <<>>
    BY MarksLack, EmptyLacks
  <1>2. g \in Fns
    BY DEF Others, Fns
  <1>3. QueuedOf(Append(q, g)) = QueuedOf(q) \o Marks(g) /\ Marks(g) = r
    BY <1>1, <1>2, QueuedAppend, MarksOther DEF Others
  <1>4. PICK p \in Seq(B) : p = QueuedOf(q)
    BY MarksOK
  <1>5. Joined(v, p, r)
    BY JoinedFacts
  <1>6. v \o p \in Seq(B) /\ (v \o p) \o r \in Seq(B) /\ (v \o p) \o r = v \o (p \o r)
    BY <1>5, Zenon DEF Joined
  <1>7. (v \o p) \o e = v \o p /\ ((v \o p) \o r) \o e = (v \o p) \o r
    BY <1>1, <1>6, ConcatEmpty
  <1>8. Lacks(r, Sends \cup Chunks)
    BY <1>1, MarksLack
  <1>9. OrderedOn((v \o p) \o e, c)
    BY <1>4, <1>7
  <1>10. OrderedOn(((v \o p) \o r) \o e, c)
    BY <1>6, <1>8, <1>9, OrdInsert
  <1>11. OrderedOn(v \o (p \o r), c)
    BY <1>6, <1>7, <1>10
  <1>. QED BY <1>3, <1>4, <1>11

(* A message is taken from the queue and comes to its place, or, a file or *)
(* a stream, to none.                                                      *)
LEMMA OrdTakeSend ==
  ASSUME NEW v \in Seq(B), NEW u \in Seq(B), NEW q \in Seq(Fns), q # <<>>, NEW m \in Msgs,
         Head(q) = SendFn(m), Tidy(v),
         Placed(v, u, m) \/ (u = v /\ m \notin Sends \cup Chunks),
         NEW c, OrderedOn(v \o QueuedOf(q), c)
  PROVE  OrderedOn(u \o QueuedOf(Tail(q)), c)
  <1>1. PICK b \in Seq(B) : b = Bytes(m)
    BY BytesAre
  <1>2. Tail(q) \in Seq(Fns) /\ QueuedOf(q) = Marks(Head(q)) \o QueuedOf(Tail(q))
    BY QueuedTail
  <1>3. PICK p \in Seq(B) : p = QueuedOf(Tail(q))
    BY <1>2, MarksOK
  <1>4. Marks(Head(q)) = b
    BY <1>1, MarksSend
  <1>5. OrderedOn(v \o (b \o p), c)
    BY <1>2, <1>3, <1>4
  <1>6. Joined(v, b, p)
    BY JoinedFacts
  <1>7. OrderedOn((v \o b) \o p, c)
    BY <1>5, <1>6, Zenon DEF Joined
  <1>8. CASE Placed(v, u, m)
    <2>0. Overtakes(v, u, m)
      BY <1>8, PlacedBehind
    <2>1. PICK a \in Seq(B), x \in Seq(B) :
            v = a \o x /\ u = (a \o Bytes(m)) \o x /\ Behind(m, x)
      BY <2>0 DEF Overtakes
    <2>2. OrderedOn(((a \o x) \o Bytes(m)) \o p, c)
      BY <1>1, <1>7, <2>1
    <2>3. OrderedOn(((a \o Bytes(m)) \o x) \o p, c)
      BY <2>1, <2>2, OrdTake
    <2>. QED BY <1>3, <2>1, <2>3
  <1>9. CASE u = v /\ m \notin Sends \cup Chunks
    <2>1. Lacks(b, Sends \cup Chunks)
      BY <1>1, <1>9, BytesLack
    <2>2. OrderedOn(v \o p, c)
      BY <1>7, <2>1, OrdDelete
    <2>. QED BY <1>3, <1>9, <2>2
  <1>. QED BY <1>8, <1>9

(* A message of the loop's own thread comes to its place, or to none.      *)
LEMMA QueuedLacks ==
  ASSUME NEW q \in Seq(Fns), \A m \in LoopMsgs : ~InQueue(q, SendFn(m))
  PROVE  Lacks(QueuedOf(q), LoopMsgs)
  <1>1. PICK n, g : n = Len(q) /\ g = [k \in 1 .. Len(q) |-> Marks(q[k])]
    OBVIOUS
  <1>2. n \in Nat /\ PairsOK(n, g) /\ QueuedOf(q) = Pairs(n, g)
    BY <1>1, MarksOK DEF QueuedOf
  <1>3. /\ Len(Pairs(n, g)) = 2 * n
        /\ \A k \in 1 .. n : Pairs(n, g)[2 * k - 1] = g[k][1] /\ Pairs(n, g)[2 * k] = g[k][2]
    BY <1>2, PairsAre
  <1>4. ASSUME NEW k \in 1 .. n PROVE g[k][1][1] \notin LoopMsgs /\ g[k][2][1] \notin LoopMsgs
    <2>1. g[k] = Marks(q[k]) /\ q[k] \in Fns
      BY <1>1
    <2>2. CASE g[k] = <<End, End>>
      BY <2>2, ByteFacts, MsgsAssumption
    <2>3. ASSUME NEW m \in Msgs, q[k] = SendFn(m), g[k] = Bytes(m)
          PROVE  g[k][1][1] \notin LoopMsgs /\ g[k][2][1] \notin LoopMsgs
      <3>1. m \notin LoopMsgs
        BY <1>1, <2>3 DEF InQueue
      <3>2. g[k][1][1] = m /\ g[k][2][1] = m
        BY <2>3 DEF Bytes
      <3>. QED BY <3>1, <3>2
    <2>. QED BY <2>1, <2>2, <2>3, MarksAre
  <1>5. ASSUME NEW i \in 1 .. 2 * n PROVE Pairs(n, g)[i][1] \notin LoopMsgs
    <2>1. PICK k \in 1 .. n : i = 2 * k - 1 \/ i = 2 * k
      BY <1>2, HalfFacts
    <2>. QED BY <1>3, <1>4, <2>1
  <1>. QED BY <1>2, <1>3, <1>5 DEF Lacks

LEMMA OrdLoopSend ==
  ASSUME NEW v \in Seq(B), NEW u \in Seq(B), NEW q \in Seq(Fns), NEW m \in LoopMsgs, Tidy(v),
         \A l \in LoopMsgs : ~InQueue(q, SendFn(l)),
         Placed(v, u, m) \/ (u = v /\ m \notin Sends \cup Chunks),
         NEW c \in Seq(Msgs), \A i \in 1 .. Len(c) : c[i] # m, OrderedOn(v \o QueuedOf(q), c)
  PROVE  OrderedOn(u \o QueuedOf(q), Append(c, m))
  <1>1. m \in Msgs
    BY MsgsAssumption
  <1>2. PICK p \in Seq(B) : p = QueuedOf(q)
    BY MarksOK
  <1>3. Lacks(p, LoopMsgs)
    BY <1>2, QueuedLacks
  <1>4. CASE Placed(v, u, m)
    <2>0. Overtakes(v, u, m)
      BY <1>1, <1>4, PlacedBehind
    <2>1. PICK a \in Seq(B), x \in Seq(B) :
            v = a \o x /\ u = (a \o Bytes(m)) \o x /\ Behind(m, x)
      BY <2>0 DEF Overtakes
    <2>2. OrderedOn((a \o x) \o p, c)
      BY <1>2, <2>1
    <2>3. OrderedOn(((a \o Bytes(m)) \o x) \o p, Append(c, m))
      BY <1>3, <2>1, <2>2, OrdLoop
    <2>. QED BY <1>2, <2>1, <2>3
  <1>5. CASE u = v /\ m \notin Sends \cup Chunks
    BY <1>1, <1>5, OrdGiven
  <1>. QED BY <1>4, <1>5

(* A message of another thread is queued. *)
LEMMA OrdAwaySend ==
  ASSUME NEW v \in Seq(B), NEW q \in Seq(Fns), NEW m \in Msgs,
         NEW c \in Seq(Msgs), \A i \in 1 .. Len(c) : c[i] # m, OrderedOn(v \o QueuedOf(q), c)
  PROVE  OrderedOn(v \o QueuedOf(Append(q, SendFn(m))), Append(c, m))
  <1>1. PICK b \in Seq(B) : b = Bytes(m)
    BY BytesAre
  <1>2. QueuedOf(Append(q, SendFn(m))) = QueuedOf(q) \o b
    BY <1>1, StreamFns, MarksSend, QueuedAppend
  <1>3. PICK p \in Seq(B) : p = QueuedOf(q)
    BY MarksOK
  <1>4. Joined(v, p, b)
    BY JoinedFacts
  <1>5. v \o p \in Seq(B) /\ (v \o p) \o b = v \o (p \o b)
    BY <1>4, Zenon DEF Joined
  <1>6. OrderedOn(v \o p, c)
    BY <1>3
  <1>7. OrderedOn((v \o p) \o Bytes(m), Append(c, m))
    BY <1>5, <1>6, OrdAway
  <1>. QED BY <1>1, <1>2, <1>3, <1>5, <1>7

-----------------------------------------------------------------------------
(* Functions and messages that are taken, queued or called *)

(* A function that has nothing to do with data is taken or queued.         *)
Plain == {Established, Destroyed, ShutdownFn, CloseFn}

(* What Stream says of the lists themselves. *)
LEMMA StreamMark ==
  ASSUME NEW q \in Seq(Fns), NEW l, NEW f, NEW d, NEW st, Stream(q, HasEnd(l), f, d, st)
  PROVE  /\ st = "loop" => HasEnd(l) /\ ~d
         /\ q # <<>> => \A m \in Chunks : Head(q) = SendFn(m) => HasEnd(l) /\ ~d
  <1>1. st = "loop" => HasEnd(l) /\ ~d
    BY DEF Stream
  <1>2. ASSUME q # <<>>, NEW m \in Chunks, Head(q) = SendFn(m) PROVE HasEnd(l) /\ ~d
    <2>1. Head(q) = q[1] /\ 1 \in 1 .. Len(q)
      BY <1>2
    <2>2. ChunkAt(q, 1)
      BY <1>2, <2>1 DEF ChunkAt
    <2>3. ~d /\ (HasEnd(l) \/ \E i \in 1 .. 1 - 1 : q[i] = OpenFn)
      BY <2>1, <2>2 DEF Stream
    <2>. QED BY <2>3
  <1>. QED BY <1>1, <1>2

(* Where the marks are kept, so is Stream. *)
LEMMA StreamKept ==
  ASSUME NEW q, NEW w, NEW l, NEW d, NEW st, Stream(q, HasEnd(l), FreshOn(w, l), d, st),
         NEW w2, NEW l2, FreshOn(w, l) => FreshOn(w2, l2), ~d /\ HasEnd(l) => HasEnd(l2)
  PROVE  Stream(q, HasEnd(l2), FreshOn(w2, l2), d, st)
BY DEF Stream

(* No message of the loop's own thread comes into the queue. *)
LEMMA TailLacks ==
  ASSUME NEW q \in Seq(Fns), q # <<>>, \A m \in LoopMsgs : ~InQueue(q, SendFn(m))
  PROVE  \A m \in LoopMsgs : ~InQueue(Tail(q), SendFn(m))
  <1>1. PICK r, n : r = Tail(q) /\ n = Len(r)
    OBVIOUS
  <1>2. n \in Nat /\ Len(q) = n + 1 /\ \A i \in 1 .. n : r[i] = q[i + 1] /\ i + 1 \in 1 .. n + 1
    <2>1. n \in Nat /\ Len(q) = n + 1 /\ \A i \in 1 .. n : r[i] = q[i + 1]
      BY <1>1, TailPlaces
    <2>. QED BY <2>1
  <1>3. \A f : InQueue(r, f) => InQueue(q, f)
    BY <1>1, <1>2, Zenon DEF InQueue
  <1>. QED BY <1>1, <1>3

LEMMA AppendLacks ==
  ASSUME NEW q \in Seq(Fns), NEW g \in Fns, \A m \in LoopMsgs : ~InQueue(q, SendFn(m)),
         \A m \in LoopMsgs : g # SendFn(m)
  PROVE  \A m \in LoopMsgs : ~InQueue(Append(q, g), SendFn(m))
  <1>1. PICK r, n : r = Append(q, g) /\ n = Len(q)
    OBVIOUS
  <1>2. n \in Nat /\ Len(r) = n + 1 /\ r[n + 1] = g /\ \A i \in 1 .. n : r[i] = q[i]
    BY <1>1, AppendFacts
  <1>3. \A i \in 1 .. n + 1 : i = n + 1 \/ i \in 1 .. n
    BY <1>2
  <1>4. \A f : InQueue(r, f) => InQueue(q, f) \/ f = g
    BY <1>1, <1>2, <1>3, Zenon DEF InQueue
  <1>. QED BY <1>1, <1>4

(* Such a function is neither of the stream nor a message. *)
LEMMA PlainFacts ==
  /\ Plain \subseteq Others /\ Others \subseteq Fns
  /\ OpenFn \in Others /\ EndFn \in Others
  /\ \A g \in Plain : g \notin {OpenFn, EndFn}
  /\ \A g \in Others, m \in Msgs : g # SendFn(m)
  /\ Chunks \subseteq Msgs /\ LoopMsgs \subseteq Msgs
BY StreamFns, MsgsAssumption DEF Plain, Others, Fns

(* It is taken; it is queued; the status goes on. *)
LEMMA WireTake ==
  ASSUME NEW s, NEW w, NEW l, NEW c, NEW d, NEW q \in Seq(Fns), NEW st, WireOn(s, w, l, c, d, q, st),
         q # <<>>, Head(q) \in Plain
  PROVE  Tail(q) \in Seq(Fns) /\ WireOn(s, w, l, c, d, Tail(q), st)
  <1>1. DataOn(w, l, c, d, q, st) /\ OrderOn(s, w, l, c, q)
    BY DEF WireOn
  <1>2. Head(q) \notin {OpenFn, EndFn} /\ Head(q) \in Others
    BY PlainFacts
  <1>3. Tail(q) \in Seq(Fns)
    BY QueuedTail
  <1>4. Stream(Tail(q), HasEnd(l), FreshOn(w, l), d, st)
    BY <1>1, <1>2, StreamTail DEF DataOn
  <1>5. \A m \in LoopMsgs : ~InQueue(Tail(q), SendFn(m))
    BY <1>1, TailLacks DEF DataOn
  <1>6. DataOn(w, l, c, d, Tail(q), st)
    BY <1>1, <1>4, <1>5 DEF DataOn
  <1>7. w \o l \in Seq(B)
    BY <1>1, ConcatFacts DEF DataOn
  <1>8. OrderOn(s, w, l, c, Tail(q))
    BY <1>1, <1>2, <1>7, OrdTakeOther DEF OrderOn
  <1>. QED BY <1>3, <1>6, <1>8 DEF WireOn

LEMMA WireGive ==
  ASSUME NEW s, NEW w, NEW l, NEW c, NEW d, NEW q \in Seq(Fns), NEW st, WireOn(s, w, l, c, d, q, st),
         NEW g \in Plain
  PROVE  WireOn(s, w, l, c, d, Append(q, g), st)
  <1>1. DataOn(w, l, c, d, q, st) /\ OrderOn(s, w, l, c, q)
    BY DEF WireOn
  <1>2. g \notin {OpenFn, EndFn} /\ g \in Others /\ g \in Fns /\ \A m \in Msgs : g # SendFn(m)
    BY PlainFacts
  <1>3. Stream(Append(q, g), HasEnd(l), FreshOn(w, l), d, st)
    BY <1>1, <1>2, PlainFacts, StreamAppend DEF DataOn
  <1>4. \A m \in LoopMsgs : ~InQueue(Append(q, g), SendFn(m))
    BY <1>1, <1>2, PlainFacts, AppendLacks DEF DataOn
  <1>5. DataOn(w, l, c, d, Append(q, g), st)
    BY <1>1, <1>3, <1>4 DEF DataOn
  <1>6. w \o l \in Seq(B)
    BY <1>1, ConcatFacts DEF DataOn
  <1>7. OrderOn(s, w, l, c, Append(q, g))
    BY <1>1, <1>2, <1>6, OrdGiveOther DEF OrderOn
  <1>. QED BY <1>5, <1>7 DEF WireOn

LEMMA WireStatus ==
  ASSUME NEW s, NEW w, NEW l, NEW c, NEW d, NEW q, NEW st, WireOn(s, w, l, c, d, q, st),
         NEW t, t \in {"Connecting", "Connected"} => s \in {"Connecting", "Connected"}
  PROVE  WireOn(t, w, l, c, d, q, st)
BY DEF WireOn, OrderOn

(* A message is taken from the queue and sent. *)
LEMMA WireTakeSend ==
  ASSUME NEW s, NEW w, NEW l, NEW c, NEW d, NEW q \in Seq(Fns), NEW st, WireOn(s, w, l, c, d, q, st),
         s # "Connecting", q # <<>>, NEW m \in Msgs, Head(q) = SendFn(m),
         NEW w2, NEW l2, SentOK(w, l, w2, l2, m),
         m \in Chunks \/ (m \in Sends /\ s = "Connected") => Placed(w \o l, w2 \o l2, m)
  PROVE  WireOn(s, w2, l2, c, d, Tail(q), st)
  <1>1. DataOn(w, l, c, d, q, st) /\ OrderOn(s, w, l, c, q)
    BY DEF WireOn
  <1>2. Head(q) \notin {OpenFn, EndFn}
    BY StreamFns
  <1>3. Stream(Tail(q), HasEnd(l), FreshOn(w, l), d, st) /\ (m \in Chunks => HasEnd(l))
    <2>1. Stream(q, HasEnd(l), FreshOn(w, l), d, st)
      BY <1>1 DEF DataOn
    <2>2. Stream(Tail(q), HasEnd(l), FreshOn(w, l), d, st)
      BY <1>2, <2>1, StreamTail
    <2>3. m \in Chunks => HasEnd(l)
      BY <2>1, StreamMark
    <2>. QED BY <2>2, <2>3
  <1>4. /\ w2 \in Seq(B) /\ l2 \in Seq(B) /\ ~HasEnd(w2) /\ Tidy(w2 \o l2)
        /\ HasEnd(l2) <=> HasEnd(l)
        /\ FreshOn(w, l) => FreshOn(w2, l2)
    BY <1>1, <1>3, SentTidy DEF DataOn
  <1>5. Stream(Tail(q), HasEnd(l2), FreshOn(w2, l2), d, st)
    BY <1>3, <1>4, StreamKept
  <1>6. \A k \in LoopMsgs : ~InQueue(Tail(q), SendFn(k))
    BY <1>1, TailLacks DEF DataOn
  <1>7. DataOn(w2, l2, c, d, Tail(q), st)
    BY <1>1, <1>4, <1>5, <1>6 DEF DataOn
  <1>8. PICK v \in Seq(B), u \in Seq(B) : v = w \o l /\ u = w2 \o l2
    BY <1>1, <1>4, ConcatFacts DEF DataOn
  <1>9. Tidy(v)
    BY <1>1, <1>8 DEF DataOn
  <1>10. ASSUME s = "Connected", OrderedOn(v \o QueuedOf(q), c)
         PROVE  OrderedOn(u \o QueuedOf(Tail(q)), c)
    <2>1. Placed(v, u, m) \/ (u = v /\ m \notin Sends \cup Chunks)
      BY <1>8, <1>10 DEF SentOK
    <2>. QED BY <1>9, <1>10, <2>1, OrdTakeSend
  <1>11. OrderOn(s, w2, l2, c, Tail(q))
    BY <1>1, <1>8, <1>10 DEF OrderOn
  <1>. QED BY <1>7, <1>11 DEF WireOn

(* A message of the loop's own thread is sent. *)
LEMMA WireLoopSend ==
  ASSUME NEW s, NEW w, NEW l, NEW c, NEW d, NEW q \in Seq(Fns), NEW st, WireOn(s, w, l, c, d, q, st),
         s # "Connecting", NEW m \in LoopMsgs, \A i \in 1 .. Len(c) : c[i] # m,
         m \in Chunks => st = "loop",
         NEW w2, NEW l2, SentOK(w, l, w2, l2, m),
         m \in Chunks \/ (m \in Sends /\ s = "Connected") => Placed(w \o l, w2 \o l2, m)
  PROVE  WireOn(s, w2, l2, Append(c, m), d, q, st)
  <1>0. m \in Msgs
    BY MsgsAssumption
  <1>1. DataOn(w, l, c, d, q, st) /\ OrderOn(s, w, l, c, q)
    BY DEF WireOn
  <1>3. Stream(q, HasEnd(l), FreshOn(w, l), d, st) /\ (m \in Chunks => HasEnd(l))
    <2>1. Stream(q, HasEnd(l), FreshOn(w, l), d, st)
      BY <1>1 DEF DataOn
    <2>2. m \in Chunks => HasEnd(l)
      BY <2>1, StreamMark
    <2>. QED BY <2>1, <2>2
  <1>4. /\ w2 \in Seq(B) /\ l2 \in Seq(B) /\ ~HasEnd(w2) /\ Tidy(w2 \o l2)
        /\ HasEnd(l2) <=> HasEnd(l)
        /\ FreshOn(w, l) => FreshOn(w2, l2)
    BY <1>0, <1>1, <1>3, SentTidy DEF DataOn
  <1>5. Stream(q, HasEnd(l2), FreshOn(w2, l2), d, st)
    BY <1>3, <1>4, StreamKept
  <1>6. c \in Seq(Msgs) /\ Append(c, m) \in Seq(Msgs)
    BY <1>0, <1>1 DEF DataOn
  <1>7. DataOn(w2, l2, Append(c, m), d, q, st)
    BY <1>1, <1>4, <1>5, <1>6 DEF DataOn
  <1>8. PICK v \in Seq(B), u \in Seq(B) : v = w \o l /\ u = w2 \o l2
    BY <1>1, <1>4, ConcatFacts DEF DataOn
  <1>9. Tidy(v) /\ \A k \in LoopMsgs : ~InQueue(q, SendFn(k))
    BY <1>1, <1>8 DEF DataOn
  <1>10. ASSUME s = "Connected", OrderedOn(v \o QueuedOf(q), c)
         PROVE  OrderedOn(u \o QueuedOf(q), Append(c, m))
    <2>1. Placed(v, u, m) \/ (u = v /\ m \notin Sends \cup Chunks)
      BY <1>8, <1>10 DEF SentOK
    <2>. QED BY <1>6, <1>9, <1>10, <2>1, OrdLoopSend
  <1>11. OrderOn(s, w2, l2, Append(c, m), q)
    BY <1>1, <1>8, <1>10 DEF OrderOn
  <1>. QED BY <1>7, <1>11 DEF WireOn

(* One of another thread is queued. *)
LEMMA WireAwaySend ==
  ASSUME NEW s, NEW w, NEW l, NEW c, NEW d, NEW q \in Seq(Fns), NEW st, WireOn(s, w, l, c, d, q, st),
         NEW m \in Msgs \ LoopMsgs, \A i \in 1 .. Len(c) : c[i] # m,
         m \in Chunks => st = "away"
  PROVE  WireOn(s, w, l, Append(c, m), d, Append(q, SendFn(m)), st)
  <1>1. DataOn(w, l, c, d, q, st) /\ OrderOn(s, w, l, c, q)
    BY DEF WireOn
  <1>2. PICK g \in Fns : g = SendFn(m)
    BY StreamFns
  <1>3. g \notin {OpenFn, EndFn} /\ (st = "away" \/ \A k \in Chunks : g # SendFn(k))
    BY <1>2, StreamFns
  <1>4. Stream(Append(q, g), HasEnd(l), FreshOn(w, l), d, st)
    BY <1>1, <1>3, StreamAppend DEF DataOn
  <1>5. \A k \in LoopMsgs : g # SendFn(k)
    BY <1>2, StreamFns, MsgsAssumption
  <1>6. \A k \in LoopMsgs : ~InQueue(Append(q, g), SendFn(k))
    BY <1>1, <1>5, AppendLacks DEF DataOn
  <1>7. c \in Seq(Msgs) /\ Append(c, m) \in Seq(Msgs)
    BY <1>1 DEF DataOn
  <1>8. DataOn(w, l, Append(c, m), d, Append(q, g), st)
    BY <1>1, <1>4, <1>6, <1>7 DEF DataOn
  <1>9. w \o l \in Seq(B)
    BY <1>1, ConcatFacts DEF DataOn
  <1>10. OrderOn(s, w, l, Append(c, m), Append(q, g))
    BY <1>1, <1>2, <1>7, <1>9, OrdAwaySend DEF OrderOn
  <1>. QED BY <1>2, <1>8, <1>10 DEF WireOn

-----------------------------------------------------------------------------
(* The stream *)

LEMMA MarkPut ==
  ASSUME NEW w \in Seq(B), NEW l \in Seq(B), FreshOn(w, l), ~HasEnd(w), Tidy(w \o l)
  PROVE  /\ Append(l, End) \in Seq(B) /\ HasEnd(Append(l, End))
         /\ w \o Append(l, End) = (w \o l) \o <<End>> /\ <<End>> \in Seq(B)
         /\ Tidy(w \o Append(l, End)) /\ Lacks(<<End>>, Sends \cup Chunks)
  <1>1. PICK e \in B : e = End
    BY ByteFacts
  <1>2. <<e>> \in Seq(B) /\ Len(<<e>>) = 1 /\ <<e>>[1] = e
    OBVIOUS
  <1>3. PICK r \in Seq(B) : r = <<e>>
    BY <1>2, Zenon
  <1>4. Append(l, e) = l \o <<e>>
    OBVIOUS
  <1>5. Joined(w, l, r)
    BY JoinedFacts
  <1>6. l \o r \in Seq(B) /\ w \o l \in Seq(B) /\ w \o (l \o r) = (w \o l) \o r
    BY <1>5, Zenon DEF Joined
  <1>7. HasEnd(r)
    BY <1>1, <1>2, <1>3 DEF HasEnd
  <1>8. HasEnd(l \o r)
    BY <1>7, EndConcat
  <1>9. ~HasEnd(w \o l) /\ Lacks(w \o l, Chunks)
    BY EndConcat DEF FreshOn
  <1>10. Tidy((w \o l) \o <<End>>)
    BY <1>6, <1>9, TidyOpened
  <1>11. e[1] \notin Sends \cup Chunks
    BY <1>1, ByteFacts, MsgsAssumption DEF Msgs, Kinds
  <1>12. Lacks(r, Sends \cup Chunks)
    BY <1>2, <1>3, <1>11 DEF Lacks
  <1>. QED BY <1>1, <1>3, <1>4, <1>6, <1>8, <1>10, <1>12

LEMMA OrdOpened ==
  ASSUME NEW s, NEW w \in Seq(B), NEW l \in Seq(B), NEW c, NEW q \in Seq(Fns), OrderOn(s, w, l, c, q),
         FreshOn(w, l), ~HasEnd(w), Tidy(w \o l)
  PROVE  OrderOn(s, w, Append(l, End), c, q)
  <1>1. PICK r \in Seq(B) : r = <<End>> /\ Lacks(r, Sends \cup Chunks)
    BY MarkPut
  <1>2. PICK v \in Seq(B) : v = w \o l
    BY ConcatFacts
  <1>3. w \o Append(l, End) = v \o r
    BY <1>1, <1>2, MarkPut
  <1>4. PICK p \in Seq(B) : p = QueuedOf(q)
    BY MarksOK
  <1>5. ASSUME OrderedOn(v \o p, c) PROVE OrderedOn((v \o r) \o p, c)
    BY <1>1, <1>5, OrdInsert
  <1>. QED BY <1>2, <1>3, <1>4, <1>5 DEF OrderOn

(* The stream is opened: from the queue, in the loop's thread, in another one. *)
LEMMA WireTakeOpen ==
  ASSUME NEW s, NEW w, NEW l, NEW c, NEW d, NEW q \in Seq(Fns), NEW st, WireOn(s, w, l, c, d, q, st),
         q # <<>>, Head(q) = OpenFn
  PROVE  WireOn(s, w, Append(l, End), c, d, Tail(q), st)
  <1>1. DataOn(w, l, c, d, q, st) /\ OrderOn(s, w, l, c, q)
    BY DEF WireOn
  <1>2. /\ w \in Seq(B) /\ l \in Seq(B) /\ ~HasEnd(w) /\ Tidy(w \o l)
        /\ Stream(q, HasEnd(l), FreshOn(w, l), d, st)
    BY <1>1 DEF DataOn
  <1>3. FreshOn(w, l) /\ \A g : Stream(Tail(q), TRUE, g, d, st)
    BY <1>2, StreamTail
  <1>4. /\ Append(l, End) \in Seq(B) /\ HasEnd(Append(l, End)) /\ Tidy(w \o Append(l, End))
    BY <1>2, <1>3, MarkPut
  <1>5. Stream(Tail(q), HasEnd(Append(l, End)), FreshOn(w, Append(l, End)), d, st)
    <2>1. Stream(Tail(q), TRUE, FreshOn(w, Append(l, End)), d, st)
      BY <1>3
    <2>. QED BY <1>4, <2>1, StreamSame
  <1>6. \A m \in LoopMsgs : ~InQueue(Tail(q), SendFn(m))
    BY <1>1, TailLacks DEF DataOn
  <1>7. DataOn(w, Append(l, End), c, d, Tail(q), st)
    BY <1>1, <1>4, <1>5, <1>6 DEF DataOn
  <1>8. OrderOn(s, w, Append(l, End), c, q) /\ w \o Append(l, End) \in Seq(B)
    BY <1>1, <1>2, <1>3, <1>4, OrdOpened, ConcatFacts
  <1>9. OrderOn(s, w, Append(l, End), c, Tail(q))
    <2>1. Head(q) \in Others
      BY DEF Others
    <2>. QED BY <1>8, <2>1, OrdTakeOther DEF OrderOn
  <1>. QED BY <1>7, <1>9 DEF WireOn

LEMMA WireLoopOpen ==
  ASSUME NEW s, NEW w, NEW l, NEW c, NEW d, NEW q \in Seq(Fns), WireOn(s, w, l, c, d, q, "no"),
         NEW t \in {"loop", "away"}
  PROVE  WireOn(s, w, Append(l, End), c, d, q, t)
  <1>1. DataOn(w, l, c, d, q, "no") /\ OrderOn(s, w, l, c, q)
    BY DEF WireOn
  <1>2. /\ w \in Seq(B) /\ l \in Seq(B) /\ ~HasEnd(w) /\ Tidy(w \o l)
        /\ Stream(q, HasEnd(l), FreshOn(w, l), d, "no")
    BY <1>1 DEF DataOn
  <1>3. FreshOn(w, l) /\ \A g : Stream(q, TRUE, g, d, t)
    BY <1>2, StreamSame DEF Stream
  <1>4. /\ Append(l, End) \in Seq(B) /\ HasEnd(Append(l, End)) /\ Tidy(w \o Append(l, End))
    BY <1>2, <1>3, MarkPut
  <1>5. Stream(q, HasEnd(Append(l, End)), FreshOn(w, Append(l, End)), d, t)
    <2>1. Stream(q, TRUE, FreshOn(w, Append(l, End)), d, t)
      BY <1>3
    <2>. QED BY <1>4, <2>1, StreamSame
  <1>7. DataOn(w, Append(l, End), c, d, q, t)
    BY <1>1, <1>4, <1>5 DEF DataOn
  <1>8. OrderOn(s, w, Append(l, End), c, q)
    BY <1>1, <1>2, <1>3, OrdOpened
  <1>. QED BY <1>7, <1>8 DEF WireOn

LEMMA WireAwayOpen ==
  ASSUME NEW s, NEW w, NEW l, NEW c, NEW d, NEW q \in Seq(Fns), WireOn(s, w, l, c, d, q, "no")
  PROVE  WireOn(s, w, l, c, d, Append(q, OpenFn), "away")
  <1>1. DataOn(w, l, c, d, q, "no") /\ OrderOn(s, w, l, c, q)
    BY DEF WireOn
  <1>2. OpenFn \in Fns /\ OpenFn \in Others /\ \A m \in LoopMsgs : OpenFn # SendFn(m)
    BY StreamFns, PlainFacts
  <1>3. Stream(Append(q, OpenFn), HasEnd(l), FreshOn(w, l), d, "away")
    BY <1>1, <1>2, StreamAppend DEF DataOn
  <1>4. \A m \in LoopMsgs : ~InQueue(Append(q, OpenFn), SendFn(m))
    BY <1>1, <1>2, AppendLacks DEF DataOn
  <1>5. DataOn(w, l, c, d, Append(q, OpenFn), "away")
    BY <1>1, <1>3, <1>4 DEF DataOn
  <1>6. w \o l \in Seq(B)
    BY <1>1, ConcatFacts DEF DataOn
  <1>7. OrderOn(s, w, l, c, Append(q, OpenFn))
    BY <1>1, <1>2, <1>6, OrdGiveOther DEF OrderOn
  <1>. QED BY <1>5, <1>7 DEF WireOn

(* It is ended, likewise. *)
LEMMA WireTakeEnd ==
  ASSUME NEW s, NEW w, NEW l, NEW c, NEW d, NEW q \in Seq(Fns), NEW st, WireOn(s, w, l, c, d, q, st),
         q # <<>>, Head(q) = EndFn
  PROVE  WireOn(s, w, l, c, TRUE, Tail(q), st)
  <1>1. DataOn(w, l, c, d, q, st) /\ OrderOn(s, w, l, c, q)
    BY DEF WireOn
  <1>2. Stream(Tail(q), HasEnd(l), FreshOn(w, l), TRUE, st)
    BY <1>1, StreamTail DEF DataOn
  <1>3. \A m \in LoopMsgs : ~InQueue(Tail(q), SendFn(m))
    BY <1>1, TailLacks DEF DataOn
  <1>4. DataOn(w, l, c, TRUE, Tail(q), st)
    BY <1>1, <1>2, <1>3 DEF DataOn
  <1>5. w \o l \in Seq(B) /\ Head(q) \in Others
    BY <1>1, ConcatFacts DEF DataOn, Others
  <1>6. OrderOn(s, w, l, c, Tail(q))
    BY <1>1, <1>5, OrdTakeOther DEF OrderOn
  <1>. QED BY <1>4, <1>6 DEF WireOn

LEMMA WireLoopEnd ==
  ASSUME NEW s, NEW w, NEW l, NEW c, NEW d, NEW q, NEW st, WireOn(s, w, l, c, d, q, st),
         st \in {"loop", "away"}
  PROVE  /\ WireOn(s, w, l, c, d, q, "ended")
         /\ st = "loop" => WireOn(s, w, l, c, TRUE, q, "ended")
  <1>1. DataOn(w, l, c, d, q, st) /\ OrderOn(s, w, l, c, q)
    BY DEF WireOn
  <1>2. Stream(q, HasEnd(l), FreshOn(w, l), d, "ended")
    BY <1>1, StreamSame DEF DataOn
  <1>3. st = "loop" => Stream(q, HasEnd(l), FreshOn(w, l), TRUE, "ended")
    BY <1>1, StreamSame DEF DataOn
  <1>. QED BY <1>1, <1>2, <1>3 DEF WireOn, DataOn

LEMMA WireAwayEnd ==
  ASSUME NEW s, NEW w, NEW l, NEW c, NEW d, NEW q \in Seq(Fns), WireOn(s, w, l, c, d, q, "away")
  PROVE  WireOn(s, w, l, c, d, Append(q, EndFn), "ended")
  <1>1. DataOn(w, l, c, d, q, "away") /\ OrderOn(s, w, l, c, q)
    BY DEF WireOn
  <1>2. EndFn \in Fns /\ EndFn \in Others /\ \A m \in LoopMsgs : EndFn # SendFn(m)
    BY StreamFns, PlainFacts
  <1>3. Stream(Append(q, EndFn), HasEnd(l), FreshOn(w, l), d, "ended")
    BY <1>1, <1>2, StreamAppend DEF DataOn
  <1>4. \A m \in LoopMsgs : ~InQueue(Append(q, EndFn), SendFn(m))
    BY <1>1, <1>2, AppendLacks DEF DataOn
  <1>5. DataOn(w, l, c, d, Append(q, EndFn), "ended")
    BY <1>1, <1>3, <1>4 DEF DataOn
  <1>6. w \o l \in Seq(B)
    BY <1>1, ConcatFacts DEF DataOn
  <1>7. OrderOn(s, w, l, c, Append(q, EndFn))
    BY <1>1, <1>2, <1>6, OrdGiveOther DEF OrderOn
  <1>. QED BY <1>5, <1>7 DEF WireOn

-----------------------------------------------------------------------------
(* writeCallback *)

(* The list around the mark. *)
LEMMA AroundEnd ==
  ASSUME NEW l \in Seq(B), NEW i \in 1 .. Len(l), l[i] = End
  PROVE  \E p, r, c \in Seq(B) :
           /\ p = SubSeq(l, 1, i - 1) /\ r = <<End>> /\ c = SubSeq(l, i + 1, Len(l))
           /\ l = (p \o r) \o c
  <1>1. i \in Nat /\ i - 1 \in 0 .. Len(l) /\ i \in 0 .. Len(l) /\ Len(l) \in Nat
    OBVIOUS
  <1>2. PICK p \in Seq(B), b \in Seq(B), c \in Seq(B) :
          p = SubSeq(l, 1, i - 1) /\ b = SubSeq(l, 1, i) /\ c = SubSeq(l, i + 1, Len(l))
    BY <1>1, SplitAt
  <1>3. Len(p) = i - 1 /\ \A k \in 1 .. i - 1 : p[k] = l[k]
    BY <1>1, <1>2, SplitAt
  <1>4. Len(b) = i /\ b \o c = l /\ \A k \in 1 .. i : b[k] = l[k]
    BY <1>1, <1>2, SplitAt
  <1>5. PICK e \in B : e = End
    BY ByteFacts
  <1>6. <<e>> \in Seq(B) /\ Len(<<e>>) = 1 /\ <<e>>[1] = e
    OBVIOUS
  <1>7. PICK r \in Seq(B) : r = <<e>>
    BY <1>6, Zenon
  <1>8. /\ p \o r \in Seq(B) /\ Len(p \o r) = i
        /\ \A k \in 1 .. i - 1 : (p \o r)[k] = p[k]
        /\ (p \o r)[i - 1 + 1] = r[1]
    <2>1. PICK s, n : s = p \o r /\ n = Len(p)
      OBVIOUS
    <2>2. /\ s \in Seq(B) /\ Len(s) = n + Len(r)
          /\ \A k \in 1 .. n : s[k] = p[k]
          /\ \A k \in 1 .. Len(r) : s[n + k] = r[k]
      BY <2>1, ConcatFacts
    <2>3. 1 \in 1 .. Len(r) /\ Len(r) = 1 /\ n = i - 1
      BY <1>3, <1>6, <1>7, <2>1
    <2>4. Len(s) = i
      BY <1>1, <2>2, <2>3
    <2>. QED BY <2>1, <2>2, <2>3, <2>4
  <1>9. ASSUME NEW k \in 1 .. i PROVE b[k] = (p \o r)[k]
    <2>1. CASE k = i
      BY <1>1, <1>4, <1>5, <1>6, <1>7, <1>8, <2>1
    <2>2. CASE k # i
      <3>1. k \in 1 .. i - 1
        BY <1>1, <2>2
      <3>. QED BY <1>3, <1>4, <1>8, <3>1
    <2>. QED BY <2>1, <2>2
  <1>10. b = p \o r
    BY <1>4, <1>8, <1>9, SeqEq
  <1>. QED BY <1>2, <1>4, <1>5, <1>7, <1>10

(* The node of a stream that is ended is taken out. *)
LEMMA MarkTaken ==
  ASSUME NEW w \in Seq(B), NEW p \in Seq(B), NEW r \in Seq(B), NEW c \in Seq(B), r = <<End>>,
         NEW l, l = (p \o r) \o c, Tidy(w \o l),
         NEW k \in Seq(B), NEW d
  PROVE  /\ p \o c \in Seq(B) /\ Tidy(w \o (p \o c)) /\ ~HasEnd(p \o c)
         /\ Lacks(w \o l, Chunks) => Lacks(w \o (p \o c), Chunks)
         /\ OrderedOn((w \o l) \o k, d) => OrderedOn((w \o (p \o c)) \o k, d)
  <1>1. PICK a \in Seq(B), x \in Seq(B) : a = w \o p /\ x = c \o k
    BY ConcatFacts
  <1>2. p \o c \in Seq(B) /\ w \o (p \o c) = a \o c /\ a \o c \in Seq(B)
    <2>1. Joined(w, p, c)
      BY JoinedFacts
    <2>. QED BY <1>1, <2>1, Zenon DEF Joined
  <1>3. w \o l = (a \o r) \o c /\ a \o r \in Seq(B) /\ (a \o r) \o c \in Seq(B)
    <2>1. PICK s \in Seq(B) : s = p \o r
      BY ConcatFacts
    <2>2. Joined(w, p, r) /\ Joined(w, s, c)
      BY JoinedFacts
    <2>3. (w \o p) \o r = w \o s /\ (w \o p) \o r \in Seq(B)
      BY <2>1, <2>2, Zenon DEF Joined
    <2>4. (w \o s) \o c = w \o (s \o c) /\ (w \o s) \o c \in Seq(B)
      BY <2>2, Zenon DEF Joined
    <2>. QED BY <1>1, <2>1, <2>3, <2>4, Zenon
  <1>4. Tidy(a \o c) /\ ~HasEnd(a \o c)
    BY <1>3, TidyEnded
  <1>5. ~HasEnd(p \o c)
    BY <1>2, <1>4, EndConcat
  <1>6. Lacks(w \o l, Chunks) => Lacks(a \o c, Chunks)
    BY <1>3, LacksConcat
  <1>7. ASSUME OrderedOn((w \o l) \o k, d) PROVE OrderedOn((w \o (p \o c)) \o k, d)
    <2>1. Joined(a, c, k)
      BY JoinedFacts
    <2>2. PICK t \in Seq(B) : t = a \o r
      BY <1>3
    <2>3. Joined(t, c, k)
      BY JoinedFacts
    <2>4. OrderedOn((a \o r) \o x, d)
      BY <1>1, <1>3, <1>7, <2>2, <2>3, Zenon DEF Joined
    <2>5. Lacks(r, Sends \cup Chunks)
      <3>1. PICK e : e = End
        OBVIOUS
      <3>2. e[1] \notin Sends \cup Chunks
        BY <3>1, ByteFacts, MsgsAssumption DEF Msgs, Kinds
      <3>3. Lacks(<<e>>, Sends \cup Chunks)
        BY <3>2 DEF Lacks
      <3>. QED BY <3>1, <3>3
    <2>6. OrderedOn(a \o x, d)
      BY <2>4, <2>5, OrdDelete
    <2>. QED BY <1>1, <1>2, <2>1, <2>6, Zenon DEF Joined
  <1>. QED BY <1>2, <1>4, <1>5, <1>6, <1>7

(* What writeCallback finds in the list v. *)
Left(w, l, c, d, q, s, v) ==
  /\ v \in Seq(B) /\ Tidy(w \o v) /\ OrderOn(s, w, v, c, q)
  /\ d => ~HasEnd(v)
  /\ ~d => v = l
  /\ FreshOn(w, l) => FreshOn(w, v)

(* So it is what Nodes defines. *)
LEMMA NodesLeft ==
  ASSUME WireInv, funcs_ \in Seq(Fns)
  PROVE  Left(wire, list, called, done, funcs_, status_, Nodes)
  <1>1. /\ wire \in Seq(B) /\ list \in Seq(B) /\ done \in BOOLEAN /\ Tidy(wire \o list)
        /\ OrderOn(status_, wire, list, called, funcs_)
    BY DEF WireInv, WireOn, DataOn
  <1>2. CASE ~done \/ EndAt = {}
    <2>1. Nodes = list
      BY <1>2 DEF Nodes
    <2>2. done => ~HasEnd(list)
      BY <1>2 DEF EndAt, HasEnd
    <2>. QED BY <1>1, <2>1, <2>2 DEF Left
  <1>3. CASE done /\ EndAt # {}
    <2>1. PICK i : i = (CHOOSE k \in EndAt : TRUE)
      OBVIOUS
    <2>2. i \in EndAt
      BY <1>3, <2>1
    <2>3. i \in 1 .. Len(list) /\ list[i] = End
      BY <2>2 DEF EndAt
    <2>4. Nodes = SubSeq(list, 1, i - 1) \o SubSeq(list, i + 1, Len(list))
      BY <1>3, <2>1 DEF Nodes
    <2>5. PICK p \in Seq(B), r \in Seq(B), c \in Seq(B) :
            /\ p = SubSeq(list, 1, i - 1) /\ r = <<End>> /\ c = SubSeq(list, i + 1, Len(list))
            /\ list = (p \o r) \o c
      BY <1>1, <2>3, AroundEnd
    <2>6. PICK k \in Seq(B) : k = QueuedOf(funcs_)
      BY MarksOK
    <2>7. /\ p \o c \in Seq(B) /\ Tidy(wire \o (p \o c)) /\ ~HasEnd(p \o c)
          /\ Lacks(wire \o list, Chunks) => Lacks(wire \o (p \o c), Chunks)
          /\ OrderedOn((wire \o list) \o k, called) => OrderedOn((wire \o (p \o c)) \o k, called)
      BY <1>1, <2>5, MarkTaken
    <2>8. Nodes = p \o c
      BY <2>4, <2>5
    <2>9. OrderOn(status_, wire, p \o c, called, funcs_)
      BY <1>1, <2>6, <2>7 DEF OrderOn
    <2>. QED BY <1>3, <2>7, <2>8, <2>9 DEF Left, FreshOn
  <1>. QED BY <1>1, <1>2, <1>3

(* The first n bytes of them are written. *)
LEMMA WriteSplits ==
  ASSUME NEW w \in Seq(B), NEW v \in Seq(B), NEW n \in 0 .. Len(v), ~HasEnd(w),
         \A i \in 1 .. n : v[i] # End
  PROVE  /\ w \o SubSeq(v, 1, n) \in Seq(B) /\ SubSeq(v, n + 1, Len(v)) \in Seq(B)
         /\ (w \o SubSeq(v, 1, n)) \o SubSeq(v, n + 1, Len(v)) = w \o v
         /\ ~HasEnd(w \o SubSeq(v, 1, n))
         /\ HasEnd(SubSeq(v, n + 1, Len(v))) <=> HasEnd(v)
  <1>1. PICK p \in Seq(B), q \in Seq(B) : p = SubSeq(v, 1, n) /\ q = SubSeq(v, n + 1, Len(v))
    BY SplitAt
  <1>2. p \o q = v /\ Len(p) = n /\ \A i \in 1 .. n : p[i] = v[i]
    BY <1>1, SplitAt
  <1>3. ~HasEnd(p)
    BY <1>2 DEF HasEnd
  <1>4. Joined(w, p, q)
    BY JoinedFacts
  <1>5. w \o p \in Seq(B) /\ (w \o p) \o q = w \o v
    BY <1>2, <1>4, Zenon DEF Joined
  <1>6. ~HasEnd(w \o p)
    BY <1>3, EndConcat
  <1>7. HasEnd(q) <=> HasEnd(v)
    BY <1>2, <1>3, EndConcat
  <1>. QED BY <1>1, <1>5, <1>6, <1>7

(* No mark is among the bytes that can be written. *)
LEMMA ReadyFacts ==
  ASSUME Nodes \in Seq(B), OneEnd(Nodes), NEW n \in 0 .. Ready
  PROVE  n \in 0 .. Len(Nodes) /\ \A i \in 1 .. n : Nodes[i] # End
  <1>1. PICK v \in Seq(B) : v = Nodes
    OBVIOUS
  <1>2. PICK open : open = {i \in 1 .. Len(v) : v[i] = End}
    OBVIOUS
  <1>3. Ready = IF open = {} THEN Len(v) ELSE (CHOOSE i \in open : TRUE) - 1
    BY <1>1, <1>2 DEF Ready
  <1>4. CASE open = {}
    BY <1>1, <1>2, <1>3, <1>4
  <1>5. CASE open # {}
    <2>1. PICK j : j = CHOOSE i \in open : TRUE
      OBVIOUS
    <2>2. j \in 1 .. Len(v) /\ v[j] = End /\ Ready = j - 1
      BY <1>2, <1>3, <1>5, <2>1
    <2>3. n \in 0 .. Len(v) /\ n < j
      BY <2>2
    <2>4. ASSUME NEW i \in 1 .. n, v[i] = End PROVE FALSE
      <3>1. i \in 1 .. Len(v)
        BY <2>3
      <3>2. i = j
        BY <1>1, <2>2, <2>4, <3>1 DEF OneEnd
      <3>. QED BY <2>2, <2>3, <3>2
    <2>. QED BY <1>1, <2>3, <2>4
  <1>. QED BY <1>4, <1>5

LEMMA OneEndBehind ==
  ASSUME NEW w \in Seq(B), NEW v \in Seq(B), OneEnd(w \o v)
  PROVE  OneEnd(v)
  <1>1. PICK u, n, k : u = w \o v /\ n = Len(w) /\ k = Len(v)
    OBVIOUS
  <1>2. n \in Nat /\ k \in Nat /\ Len(u) = n + k /\ \A i \in 1 .. k : u[n + i] = v[i]
    BY <1>1, ConcatFacts
  <1>3. ASSUME NEW i \in 1 .. k, NEW j \in 1 .. k, v[i] = End, v[j] = End PROVE i = j
    <2>1. n + i \in 1 .. n + k /\ n + j \in 1 .. n + k
      BY <1>2
    <2>2. n + i = n + j
      BY <1>1, <1>2, <1>3, <2>1 DEF OneEnd
    <2>. QED BY <1>2, <2>2
  <1>. QED BY <1>1, <1>3 DEF OneEnd

(* writeCallback keeps the order. *)
LEMMA WriteWire == ASSUME Inv, WireInv, WriteCallback PROVE WireInv'
  <1>1. funcs_ \in Seq(Fns)
    BY DEF Inv, TypeOK
  <1>2. PICK n \in 0 .. Ready :
          wire' = wire \o SubSeq(Nodes, 1, n) /\ list' = SubSeq(Nodes, n + 1, Len(Nodes))
    BY DEF WriteCallback
  <1>3. UNCHANGED <<status_, called, done, funcs_, stream>>
    BY DEF WriteCallback, user
  <1>4. PICK v : v = Nodes
    OBVIOUS
  <1>5. Left(wire, list, called, done, funcs_, status_, v)
    BY <1>1, <1>4, NodesLeft
  <1>6. /\ v \in Seq(B) /\ Tidy(wire \o v) /\ OrderOn(status_, wire, v, called, funcs_)
        /\ FreshOn(wire, list) => FreshOn(wire, v)
        /\ ~done => v = list
    BY <1>5 DEF Left
  <1>7. /\ wire \in Seq(B) /\ called \in Seq(Msgs) /\ done \in BOOLEAN /\ ~HasEnd(wire)
        /\ \A m \in LoopMsgs : ~InQueue(funcs_, SendFn(m))
        /\ Stream(funcs_, HasEnd(list), FreshOn(wire, list), done, stream)
    BY DEF WireInv, WireOn, DataOn
  <1>8. OneEnd(v)
    BY <1>6, <1>7, OneEndBehind DEF Tidy
  <1>9. n \in 0 .. Len(v) /\ \A i \in 1 .. n : v[i] # End
    BY <1>4, <1>6, <1>8, ReadyFacts
  <1>10. /\ wire' \in Seq(B) /\ list' \in Seq(B) /\ wire' \o list' = wire \o v /\ ~HasEnd(wire')
         /\ HasEnd(list') <=> HasEnd(v)
    <2>1. wire' = wire \o SubSeq(v, 1, n) /\ list' = SubSeq(v, n + 1, Len(v))
      BY <1>2, <1>4
    <2>2. /\ wire \o SubSeq(v, 1, n) \in Seq(B) /\ SubSeq(v, n + 1, Len(v)) \in Seq(B)
          /\ (wire \o SubSeq(v, 1, n)) \o SubSeq(v, n + 1, Len(v)) = wire \o v
          /\ ~HasEnd(wire \o SubSeq(v, 1, n))
          /\ HasEnd(SubSeq(v, n + 1, Len(v))) <=> HasEnd(v)
      BY <1>6, <1>7, <1>9, WriteSplits
    <2>. QED BY <2>1, <2>2, Zenon
  <1>11. FreshOn(wire, v) => FreshOn(wire', list')
    BY <1>10 DEF FreshOn
  <1>12. Stream(funcs_, HasEnd(list'), FreshOn(wire', list'), done, stream)
    <2>1. FreshOn(wire, list) => FreshOn(wire', list')
      BY <1>6, <1>11
    <2>2. ~done /\ HasEnd(list) => HasEnd(list')
      BY <1>6, <1>10
    <2>. QED BY <1>7, <2>1, <2>2, StreamKept
  <1>13. DataOn(wire', list', called, done, funcs_, stream)
    BY <1>6, <1>7, <1>10, <1>12 DEF DataOn
  <1>14. OrderOn(status_, wire', list', called, funcs_)
    BY <1>6, <1>10 DEF OrderOn
  <1>15. WireOn(status_', wire', list', called', done', funcs_', stream')
    BY <1>3, <1>13, <1>14 DEF WireOn
  <1>. QED BY <1>15 DEF WireInv

-----------------------------------------------------------------------------
(* The actions and the data *)

(* At the beginning there is nothing but connectEstablished. *)
LEMMA InitWire == Init => WireInv
  <1>. SUFFICES ASSUME Init PROVE WireInv
    OBVIOUS
  <1>1. PICK e : e = Established
    OBVIOUS
  <1>2. e \in Fns /\ e \in Others /\ (\A m \in Msgs : e # SendFn(m)) /\ e # OpenFn /\ e # EndFn
    BY <1>1, PlainFacts, StreamFns DEF Others, Plain
  <1>3. PICK q : q = <<e>>
    OBVIOUS
  <1>4. q \in Seq(Fns) /\ Len(q) = 1 /\ q[1] = e /\ q # <<>> /\ Head(q) = e /\ Tail(q) = <<>>
    BY <1>2, <1>3
  <1>5. PICK w \in Seq(B) : w = <<>> /\ Len(w) = 0
    <2>1. <<>> \in Seq(B) /\ Len(<<>>) = 0
      OBVIOUS
    <2>. QED BY <2>1
  <1>6. PICK c \in Seq(Msgs) : c = <<>> /\ Len(c) = 0
    <2>1. <<>> \in Seq(Msgs) /\ Len(<<>>) = 0
      OBVIOUS
    <2>. QED BY <2>1
  <1>7. w \o w = w
    BY <1>5, ConcatEmpty
  <1>8. ~HasEnd(w) /\ Lacks(w, Chunks) /\ Tidy(w)
    BY <1>5 DEF HasEnd, Lacks, Tidy, Whole, Together, OneEnd, UpToEnd
  <1>9. FreshOn(w, w)
    BY <1>7, <1>8 DEF FreshOn
  <1>10. \A i \in 1 .. Len(q) : q[i] = e
    BY <1>4
  <1>11. Stream(q, HasEnd(w), FreshOn(w, w), FALSE, "no")
    BY <1>2, <1>4, <1>8, <1>9, <1>10, StreamFns
       DEF Stream, AtMostOnce, InQueue, ChunkAt, NoChunkIn
  <1>12. \A m \in LoopMsgs : ~InQueue(q, SendFn(m))
    BY <1>2, <1>10, MsgsAssumption DEF InQueue
  <1>13. DataOn(w, w, c, FALSE, q, "no")
    BY <1>7, <1>8, <1>11, <1>12 DEF DataOn
  <1>14. OrderedOn(w \o QueuedOf(q), c)
    <2>1. QueuedOf(q) = Marks(e) \o QueuedOf(<<>>) /\ Marks(e) = <<End, End>>
      BY <1>1, <1>4, QueuedTail, MarksOther
    <2>2. QueuedOf(<<>>) = <<>>
      BY DEF QueuedOf, Pairs
    <2>3. PICK r \in Seq(B) : r = <<End, End>> /\ Lacks(r, Sends \cup Chunks)
      BY MarksLack
    <2>4. r \o w = r /\ w \o r = r
      BY <1>5, ConcatEmpty
    <2>5. OrderedOn(w, c)
      <3>1. PICK f : f = Flat(c)
        OBVIOUS
      <3>2. f = <<>>
        BY <1>6, <3>1 DEF Flat
      <3>3. \A C : Places(w, C) = {} /\ Places(f, C) = {}
        BY <1>5, <3>2 DEF Places
      <3>4. \A C : SameOf(w, f, C)
        BY <3>3 DEF SameOf
      <3>. QED BY <3>1, <3>4 DEF OrderedOn
    <2>6. OrderedOn((w \o r) \o w, c)
      BY <1>7, <2>3, <2>5, OrdInsert
    <2>. QED BY <1>5, <2>1, <2>2, <2>3, <2>4, <2>6
  <1>15. WireOn("Connecting", w, w, c, FALSE, q, "no")
    BY <1>7, <1>13, <1>14 DEF WireOn, OrderOn
  <1>16. /\ status_ = "Connecting" /\ wire = w /\ list = w /\ called = c /\ done = FALSE
         /\ funcs_ = q /\ stream = "no"
    BY <1>1, <1>3, <1>5, <1>6 DEF Init
  <1>. QED BY <1>15, <1>16 DEF WireInv

(* What the invariant says of the lists now. *)
LEMMA StreamNow ==
  ASSUME WireInv
  PROVE  /\ wire \in Seq(B) /\ list \in Seq(B)
         /\ Stream(funcs_, HasEnd(list), FreshOn(wire, list), done, stream)
BY DEF WireInv, WireOn, DataOn

(* Functions that have nothing to do with data. *)
LEMMA TakeWire ==
  ASSUME Inv, WireInv, NEW f \in Plain, Next2Run(f)
  PROVE  /\ Tail(funcs_) \in Seq(Fns)
         /\ WireOn(status_, wire, list, called, done, Tail(funcs_), stream)
  <1>1. funcs_ \in Seq(Fns) /\ funcs_ # <<>> /\ Head(funcs_) \in Plain
    BY DEF Inv, TypeOK, Next2Run
  <1>2. WireOn(status_, wire, list, called, done, funcs_, stream)
    BY DEF WireInv
  <1>. QED BY <1>1, <1>2, WireTake

(* handleCloseInLoop, handleClose and forceCloseInLoop, which may queue *)
(* connectDestroyed.                                                    *)
LEMMA CloseLoopWire ==
  ASSUME NEW q \in Seq(Fns), NEW s, WireOn(s, wire, list, called, done, q, stream),
         handleCloseInLoop(q), UNCHANGED <<wire, list, called, done, stream>>,
         status_' \in {s, "Disconnected"}
  PROVE  WireInv'
  <1>1. funcs_' \in {q, Append(q, Destroyed)}
    BY DEF handleCloseInLoop
  <1>2. Destroyed \in Plain
    BY DEF Plain
  <1>3. WireOn(s, wire, list, called, done, funcs_', stream)
    BY <1>1, <1>2, WireGive
  <1>4. WireOn(status_', wire, list, called, done, funcs_', stream)
    BY <1>3, WireStatus
  <1>. QED BY <1>4 DEF WireInv

LEMMA CloseWire ==
  ASSUME NEW q \in Seq(Fns), WireOn(status_, wire, list, called, done, q, stream),
         handleClose(q) \/ forceCloseInLoop(q)
  PROVE  WireInv'
  <1>1. CASE handleClose(q)
    <2>1. UNCHANGED <<wire, list, called, done, stream>> /\ status_' = "Disconnected"
      BY <1>1 DEF handleClose, sock
    <2>2. CASE sameLoop
      <3>1. handleCloseInLoop(q)
        BY <1>1, <2>2 DEF handleClose
      <3>. QED BY <2>1, <3>1, CloseLoopWire
    <2>3. CASE ~sameLoop
      <3>1. funcs_' = q
        BY <1>1, <2>3 DEF handleClose
      <3>2. WireOn(status_', wire, list, called, done, q, stream)
        BY <2>1, WireStatus
      <3>. QED BY <2>1, <3>1, <3>2 DEF WireInv
    <2>. QED BY <2>2, <2>3
  <1>2. CASE ~handleClose(q)
    <2>1. funcs_' = q /\ UNCHANGED <<status_, wire, list, called, done, stream>>
      BY <1>2 DEF forceCloseInLoop, conn, sock
    <2>. QED BY <2>1 DEF WireInv
  <1>. QED BY <1>1, <1>2

(* connectEstablished, shutdownInLoop, connectDestroyed, forceCloseInLoop taken *)
(* from the queue.                                                              *)
LEMMA EstablishedWire == ASSUME Inv, WireInv, RunEstablished PROVE WireInv'
  <1>1. Next2Run(Established) /\ Established \in Plain
    BY DEF RunEstablished, Plain
  <1>2. ~stale /\ funcs_ # <<>> /\ Head(funcs_) = Established /\ funcs_ \in Seq(Fns)
    BY <1>1 DEF Next2Run, Alive, Inv, TypeOK
  <1>3. status_ = "Connecting"
    BY <1>2, TailLess DEF Inv, Life, Begun
  <1>4. WireOn(status_, wire, list, called, done, Tail(funcs_), stream)
    BY <1>1, TakeWire
  <1>5. WireOn("Connected", wire, list, called, done, Tail(funcs_), stream)
    BY <1>3, <1>4, WireStatus
  <1>6. /\ status_' = "Connected" /\ funcs_' = Tail(funcs_)
        /\ UNCHANGED <<wire, list, called, done, stream>>
    BY DEF RunEstablished, sock, user
  <1>. QED BY <1>5, <1>6 DEF WireInv

LEMMA RunShutdownWire == ASSUME Inv, WireInv, RunShutdown PROVE WireInv'
  <1>1. Next2Run(ShutdownFn) /\ ShutdownFn \in Plain
    BY DEF RunShutdown, Plain
  <1>2. WireOn(status_, wire, list, called, done, Tail(funcs_), stream)
    BY <1>1, TakeWire
  <1>3. /\ status_' \in {status_, "Disconnecting"} /\ funcs_' = Tail(funcs_)
        /\ UNCHANGED <<wire, list, called, done, stream>>
    BY DEF RunShutdown, shutdownInLoop
  <1>4. WireOn(status_', wire, list, called, done, Tail(funcs_), stream)
    BY <1>2, <1>3, WireStatus
  <1>. QED BY <1>3, <1>4 DEF WireInv

LEMMA DestroyedWire == ASSUME Inv, WireInv, RunDestroyed PROVE WireInv'
  <1>1. Next2Run(Destroyed) /\ Destroyed \in Plain
    BY DEF RunDestroyed, Plain
  <1>2. WireOn(status_, wire, list, called, done, Tail(funcs_), stream)
    BY <1>1, TakeWire
  <1>3. /\ status_' \in {status_, "Disconnected"} /\ funcs_' = Tail(funcs_)
        /\ UNCHANGED <<wire, list, called, done, stream>>
    BY DEF RunDestroyed, connectDestroyed, sock, user
  <1>4. WireOn(status_', wire, list, called, done, Tail(funcs_), stream)
    BY <1>2, <1>3, WireStatus
  <1>. QED BY <1>3, <1>4 DEF WireInv

LEMMA RunForceWire == ASSUME Inv, WireInv, RunForceClose PROVE WireInv'
  <1>1. Next2Run(CloseFn) /\ CloseFn \in Plain /\ forceCloseInLoop(Tail(funcs_))
    BY DEF RunForceClose, Plain
  <1>2. /\ Tail(funcs_) \in Seq(Fns)
        /\ WireOn(status_, wire, list, called, done, Tail(funcs_), stream)
    BY <1>1, TakeWire
  <1>. QED BY <1>1, <1>2, CloseWire

LEMMA ClosedWire == ASSUME Inv, WireInv, ReadClosed \/ RunBase PROVE WireInv'
  <1>1. funcs_ \in Seq(Fns) /\ WireOn(status_, wire, list, called, done, funcs_, stream)
    BY DEF Inv, TypeOK, WireInv
  <1>2. CASE ReadClosed
    BY <1>1, <1>2, CloseWire DEF ReadClosed
  <1>3. CASE RunBase
    <2>1. handleCloseInLoop(funcs_) /\ UNCHANGED <<status_, wire, list, called, done, stream>>
      BY <1>3 DEF RunBase, sock, user
    <2>. QED BY <1>1, <2>1, CloseLoopWire
  <1>. QED BY <1>2, <1>3

(* Messages and the stream *)
LEMMA RunSendWire == ASSUME Inv, WireInv, RunSend PROVE WireInv'
  <1>1. PICK m \in Msgs : Next2Run(SendFn(m)) /\ funcs_' = Tail(funcs_) /\ Send(m) /\ called' = called
    BY DEF RunSend
  <1>2. funcs_ # <<>> /\ Head(funcs_) = SendFn(m) /\ status_ # "Connecting" /\ funcs_ \in Seq(Fns)
    BY <1>1, OpsDiffer, TakeQuiet DEF Inv, TypeOK
  <1>3. m \in Chunks => HasEnd(list)
    BY <1>2, StreamNow, StreamMark
  <1>4. /\ SentOK(wire, list, wire', list', m)
        /\ m \in Chunks \/ (m \in Sends /\ status_ = "Connected") =>
             Placed(wire \o list, wire' \o list', m)
    BY <1>1, <1>3, StreamNow, SendPlaces
  <1>5. WireOn(status_, wire, list, called, done, funcs_, stream)
    BY DEF WireInv
  <1>6. WireOn(status_, wire', list', called, done, Tail(funcs_), stream)
    BY <1>2, <1>4, <1>5, WireTakeSend
  <1>7. UNCHANGED <<status_, done, stream>>
    BY <1>1 DEF Send
  <1>. QED BY <1>1, <1>6, <1>7 DEF WireInv

LEMMA RunStreamWire == ASSUME Inv, WireInv, RunOpen \/ RunEnd PROVE WireInv'
  <1>1. funcs_ \in Seq(Fns) /\ WireOn(status_, wire, list, called, done, funcs_, stream)
    BY DEF Inv, TypeOK, WireInv
  <1>2. CASE RunOpen
    <2>1. funcs_ # <<>> /\ Head(funcs_) = OpenFn
      BY <1>2 DEF RunOpen, Next2Run
    <2>2. WireOn(status_, wire, Append(list, End), called, done, Tail(funcs_), stream)
      BY <1>1, <2>1, WireTakeOpen
    <2>3. /\ funcs_' = Tail(funcs_) /\ list' = Append(list, End)
          /\ UNCHANGED <<status_, wire, called, done, stream>>
      BY <1>2 DEF RunOpen, OpenStream, sock
    <2>. QED BY <2>2, <2>3 DEF WireInv
  <1>3. CASE RunEnd
    <2>1. funcs_ # <<>> /\ Head(funcs_) = EndFn
      BY <1>3 DEF RunEnd, Next2Run
    <2>2. WireOn(status_, wire, list, called, TRUE, Tail(funcs_), stream)
      BY <1>1, <2>1, WireTakeEnd
    <2>3. /\ funcs_' = Tail(funcs_) /\ done' = TRUE
          /\ UNCHANGED <<status_, wire, list, called, stream>>
      BY <1>3 DEF RunEnd, EndStream, sock
    <2>. QED BY <2>2, <2>3 DEF WireInv
  <1>. QED BY <1>2, <1>3

(* The calls of the user: a message in the loop's own thread, what else is done *)
(* there, and what other threads queue.                                         *)
LEMMA LoopSendWire == ASSUME Inv, WireInv, LoopCallSend PROVE WireInv'
  <1>1. PICK m \in LoopMsgs : Given(m) /\ called' = Append(called, m) /\ Send(m) /\ funcs_' = funcs_
    BY DEF LoopCallSend
  <1>2. /\ \A i \in 1 .. Len(called) : called[i] # m
        /\ m \in Chunks => stream = "loop"
        /\ ~stale /\ ups = 1
    BY <1>1 DEF Given, MayCall, Alive
  <1>3. m \in Msgs /\ status_ # "Connecting" /\ funcs_ \in Seq(Fns)
    BY <1>2, UserQuiet, MsgsAssumption DEF Inv, TypeOK
  <1>4. m \in Chunks => HasEnd(list)
    BY <1>2, <1>3, StreamNow, StreamMark
  <1>5. /\ SentOK(wire, list, wire', list', m)
        /\ m \in Chunks \/ (m \in Sends /\ status_ = "Connected") =>
             Placed(wire \o list, wire' \o list', m)
    BY <1>1, <1>3, <1>4, StreamNow, SendPlaces
  <1>6. WireOn(status_, wire, list, called, done, funcs_, stream)
    BY DEF WireInv
  <1>7. WireOn(status_, wire', list', Append(called, m), done, funcs_, stream)
    BY <1>2, <1>3, <1>5, <1>6, WireLoopSend
  <1>8. UNCHANGED <<status_, done, stream>>
    BY <1>1 DEF Send
  <1>. QED BY <1>1, <1>7, <1>8 DEF WireInv

LEMMA LoopWire ==
  ASSUME Inv, WireInv, LoopCallOpen \/ LoopCallEnd \/ LoopCallShutdown \/ LoopCallForceClose
  PROVE  WireInv'
  <1>1. funcs_ \in Seq(Fns) /\ WireOn(status_, wire, list, called, done, funcs_, stream)
    BY DEF Inv, TypeOK, WireInv
  <1>2. CASE LoopCallOpen
    <2>1. stream = "no" /\ stream' \in {"loop", "away"} /\ list' = Append(list, End)
          /\ UNCHANGED <<status_, wire, called, done, funcs_>>
      BY <1>2 DEF LoopCallOpen, OpenStream, sock
    <2>2. WireOn(status_, wire, Append(list, End), called, done, funcs_, stream')
      BY <1>1, <2>1, WireLoopOpen
    <2>. QED BY <2>1, <2>2 DEF WireInv
  <1>3. CASE LoopCallEnd
    <2>1. stream = "loop" /\ stream' = "ended" /\ done' \in {done, TRUE}
          /\ UNCHANGED <<status_, wire, list, called, funcs_>>
      BY <1>3 DEF LoopCallEnd, EndStream, conn, sock
    <2>2. /\ WireOn(status_, wire, list, called, done, funcs_, "ended")
          /\ WireOn(status_, wire, list, called, TRUE, funcs_, "ended")
      BY <1>1, <2>1, WireLoopEnd
    <2>. QED BY <2>1, <2>2 DEF WireInv
  <1>4. CASE LoopCallShutdown
    <2>1. /\ status_' \in {status_, "Disconnecting"}
          /\ UNCHANGED <<wire, list, called, done, funcs_, stream>>
      BY <1>4 DEF LoopCallShutdown, shutdownInLoop
    <2>2. WireOn(status_', wire, list, called, done, funcs_, stream)
      BY <1>1, <2>1, WireStatus
    <2>. QED BY <2>1, <2>2 DEF WireInv
  <1>5. CASE LoopCallForceClose
    BY <1>1, <1>5, CloseWire DEF LoopCallForceClose
  <1>. QED BY <1>2, <1>3, <1>4, <1>5

LEMMA AwayWire ==
  ASSUME Inv, WireInv,
         AwayCallSend \/ AwayCallOpen \/ AwayCallEnd \/ AwayCallShutdown \/ AwayCallForceClose
  PROVE  WireInv'
  <1>1. funcs_ \in Seq(Fns) /\ WireOn(status_, wire, list, called, done, funcs_, stream)
    BY DEF Inv, TypeOK, WireInv
  <1>2. UNCHANGED <<status_, wire, list, done>>
    BY DEF AwayCallSend, AwayCallOpen, AwayCallEnd, AwayCallShutdown, AwayCallForceClose,
           conn, sock
  <1>3. CASE AwayCallSend
    <2>1. PICK m \in Msgs \ LoopMsgs :
            /\ Given(m) /\ called' = Append(called, m) /\ funcs_' = Append(funcs_, SendFn(m))
            /\ stream' = stream
      BY <1>3 DEF AwayCallSend
    <2>2. (\A i \in 1 .. Len(called) : called[i] # m) /\ (m \in Chunks => stream = "away")
      BY <2>1 DEF Given
    <2>3. WireOn(status_, wire, list, Append(called, m), done, Append(funcs_, SendFn(m)), stream)
      BY <1>1, <2>2, WireAwaySend
    <2>. QED BY <1>2, <2>1, <2>3 DEF WireInv
  <1>4. CASE AwayCallOpen
    <2>1. stream = "no" /\ stream' = "away" /\ funcs_' = Append(funcs_, OpenFn) /\ called' = called
      BY <1>4 DEF AwayCallOpen
    <2>2. WireOn(status_, wire, list, called, done, Append(funcs_, OpenFn), "away")
      BY <1>1, <2>1, WireAwayOpen
    <2>. QED BY <1>2, <2>1, <2>2 DEF WireInv
  <1>5. CASE AwayCallEnd
    <2>1. stream = "away" /\ stream' = "ended" /\ funcs_' \in {funcs_, Append(funcs_, EndFn)}
          /\ called' = called
      BY <1>5 DEF AwayCallEnd
    <2>2. /\ WireOn(status_, wire, list, called, done, funcs_, "ended")
          /\ WireOn(status_, wire, list, called, done, Append(funcs_, EndFn), "ended")
      BY <1>1, <2>1, WireLoopEnd, WireAwayEnd
    <2>. QED BY <1>2, <2>1, <2>2 DEF WireInv
  <1>6. CASE AwayCallShutdown \/ AwayCallForceClose
    <2>1. PICK f \in Plain : funcs_' = Append(funcs_, f)
      BY <1>6 DEF AwayCallShutdown, AwayCallForceClose, Plain
    <2>2. called' = called /\ stream' = stream
      BY <1>6 DEF AwayCallShutdown, AwayCallForceClose
    <2>3. WireOn(status_, wire, list, called, done, Append(funcs_, f), stream)
      BY <1>1, WireGive
    <2>. QED BY <1>2, <2>1, <2>2, <2>3 DEF WireInv
  <1>. QED BY <1>3, <1>4, <1>5, <1>6

LEMMA NextWire == Inv /\ WireInv /\ [Next]_vars => WireInv'
  <1>. SUFFICES ASSUME Inv, WireInv, [Next]_vars PROVE WireInv'
    OBVIOUS
  <1>1. CASE Run
    BY <1>1, EstablishedWire, RunSendWire, RunStreamWire, RunShutdownWire, RunForceWire, DestroyedWire
       DEF Run
  <1>2. CASE Handle \/ RunBase
    BY <1>2, ClosedWire, WriteWire DEF Handle
  <1>3. CASE Call
    BY <1>3, LoopSendWire, LoopWire, AwayWire DEF Call
  <1>4. CASE PeerCloses \/ PeerResets \/ UNCHANGED vars
    <2>1. UNCHANGED <<status_, wire, list, called, done, funcs_, stream>>
      BY <1>4 DEF PeerCloses, PeerResets, vars, conn, sock, user
    <2>. QED BY <2>1 DEF WireInv
  <1>. QED BY <1>1, <1>2, <1>3, <1>4 DEF Next

(* The order and the shape of the data hold throughout. *)
THEOREM WireHolds == Spec => []WireInv
  <1>1. Spec => []Inv
    BY InvHolds
  <1>. QED BY <1>1, InitWire, NextWire, PTL DEF Spec

-----------------------------------------------------------------------------
(* The results *)

(* The user is told once that the connection is up and once that it is     *)
(* down, the second exactly when its status is Disconnected, whoever       *)
(* closes it: the peer, shutdown(), forceClose() (connectEstablished,      *)
(* handleClose, connectDestroyed).                                         *)
THEOREM CallbacksInPairs == Spec => []CallbacksPaired
  <1>1. Inv => CallbacksPaired
    BY DEF Inv, TypeOK, Life, Starting, Begun, Up, Down, CallbacksPaired
  <1>. QED BY <1>1, InvHolds, PTL

(* handleCloseInLoop finds the connection in connSet_, and connectDestroyed *)
(* a channel that is registered and watches for nothing.                   *)
THEOREM AssertionsHold == Spec => []NoAssertFails
  <1>1. Inv => NoAssertFails
    BY DEF Inv, Life, NoAssertFails
  <1>. QED BY <1>1, InvHolds, PTL

(* What a thread gave to send(), and the chunks it gave to an asynchronous *)
(* stream, are written, left in writeBufferList_ or queued in the order of *)
(* its calls, each once, while the connection is up (sendInLoop,           *)
(* sendAsyncDataInLoop, writeCallback).                                    *)
THEOREM WireOrdered == Spec => []WireInOrder
  <1>1. Inv /\ WireInv => WireInOrder
    <2>. SUFFICES ASSUME Inv, WireInv, status_ = "Connected"
                  PROVE  OrderedOn(wire \o list \o Queued, called)
      BY OrderedIs
    <2>1. Queued = QueuedOf(funcs_)
      BY QueuedIs DEF Inv, TypeOK
    <2>2. OrderedOn((wire \o list) \o QueuedOf(funcs_), called)
      BY DEF WireInv, WireOn, OrderOn
    <2>. QED BY <2>1, <2>2
  <1>. QED BY <1>1, InvHolds, WireHolds, PTL

(* A message that is written in part is continued with its next byte, and  *)
(* nothing gets between the chunks of an asynchronous stream (Put,         *)
(* sendFile, sendAsyncDataInLoop, writeCallback).                          *)
THEOREM NothingTorn == Spec => []NoTornMessage
  <1>1. WireInv => NoTornMessage
    BY DEF WireInv, WireOn, DataOn, Tidy, Whole, Together, NoTornMessage
  <1>. QED BY <1>1, WireHolds, PTL

=============================================================================
