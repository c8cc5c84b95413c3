--------------------------- MODULE TcpServerProofs ---------------------------
(***************************************************************************)
(* Proofs about TcpServer, for any number of loops, connections and        *)
(* descriptors: no assertion fails, and a loop is used after its end only  *)
(* where stop() has ended the server's own pool (PoolUsed in TcpServer).   *)
(* In the second part, proofs about the timing wheels that start() makes   *)
(* for each loop; the two models share no variable and no name.            *)
(***************************************************************************)
EXTENDS TcpServer, TimingWheel, Integers, FiniteSetTheorems, TLAPS

(* Is f in the queue q?                                                   *)
Among(f, q) == \E i \in 1 .. Len(q) : q[i] = f

ConnOps == {"established", "force", "closed", "destroyed"}
Fns == [op : {"stop", "wheel"}, conn : {0}] \cup [op : ConnOps, conn : Conns]

Statuses == {"none", "Connecting", "Connected", "Disconnected", "gone"}

(* Types, in parts. *)
Settled ==
  /\ ioLoops_ \in Seq(Loops) /\ Len(ioLoops_) > 0 /\ own \in BOOLEAN /\ idle \in BOOLEAN
  /\ nextLoopIdx_ \in 1 .. Len(ioLoops_) /\ loopOf \in [Conns -> Loops]
  /\ arrived \in 0 .. MaxConns /\ backlog \in Nat /\ accepted \in Nat
  /\ accepted + backlog <= arrived
Stages ==
  /\ started_ \in BOOLEAN /\ acceptor \in {"new", "listening", "gone"}
  /\ stopAt \in {"no", "queued", "hung", "join", "wheels", "done"}
  /\ wheels \subseteq Loops /\ live \subseteq Loops
Connections ==
  connSet_ \subseteq Conns /\ status \in [Conns -> Statuses] /\ funcs \in [Loops -> Seq(Fns)]

TypeOK == Settled /\ Stages /\ Connections

(* The phases of the server: it is new until start(), and its acceptor is  *)
(* gone once stop() has run in its loop.                                   *)
Phases ==
  /\ acceptor = "new" <=> ~started_
  /\ stopAt # "no" => started_
  /\ stopAt \in {"hung", "join", "wheels", "done"} => acceptor = "gone"

(* A wheel for every loop as long as connections are accepted.             *)
WheelsMade == idle /\ acceptor = "listening" => \A i \in 1 .. Len(ioLoops_) : ioLoops_[i] \in wheels

(* A connection is in the set until it is closed; the next has no status.  *)
Open ==
  /\ \A c \in Conns : status[c] \in {"Connecting", "Connected"} => c \in connSet_
  /\ \A c \in Conns : c > accepted => status[c] = "none" /\ c \notin connSet_

(* What the function f, queued to loop l, relies on.                       *)
Awaited(f, l) ==
  /\ f.op = "established" =>
       status[f.conn] = "Connecting" /\ loopOf[f.conn] = l /\ l # Base
  /\ f.op = "closed" =>
       /\ l = Base /\ loopOf[f.conn] # Base
       /\ status[f.conn] = "Disconnected" /\ f.conn \in connSet_
  /\ f.op = "destroyed" => status[f.conn] \in {"Disconnected", "gone"} /\ f.conn \notin connSet_
  /\ f.op = "stop" => stopAt \in {"queued", "hung"}
  /\ f.op = "wheel" => acceptor = "gone"

Queued == \A l \in Loops : \A f \in Fns : Among(f, funcs[l]) => Awaited(f, l)

(* A connection is established once and erased once.                       *)
Unique(q) ==
  \A i, j \in 1 .. Len(q) : q[i] = q[j] /\ q[i].op \in {"established", "closed"} => i = j
EachUnique(q) == \A l \in Loops : Unique(q[l])
Once == EachUnique(funcs)

(* A loop ends only in stop(), and only if it is one of the server's own   *)
(* pool; when stop() goes on, the whole pool has ended.                    *)
Alive ==
  /\ Base \in live
  /\ live # Loops => own /\ stopAt \in {"join", "wheels", "done"}
  /\ own /\ stopAt \in {"wheels", "done"} => live = {Base}

Sound == aborted = "no" /\ Alive /\ Phases /\ WheelsMade /\ Open /\ Queued /\ Once

(* The inductive invariant: the server is sound, or it has used the pool   *)
(* that it had ended, and nothing moves any more.                          *)
Inv == TypeOK /\ (Sound \/ PoolUsed)

-----------------------------------------------------------------------------
(* Queues *)

(* The elements of Tail(q), of Append(q, x) and of q \o r.                 *)
LEMMA TailFacts ==
  ASSUME NEW S, NEW q \in Seq(S), q # <<>>
  PROVE  /\ Head(q) \in S /\ Tail(q) \in Seq(S) /\ Len(q) \in Nat /\ Len(q) > 0
         /\ Len(Tail(q)) = Len(q) - 1 /\ q[1] = Head(q)
         /\ \A i \in 1 .. Len(q) - 1 : Tail(q)[i] = q[i + 1]
OBVIOUS

LEMMA AppendFacts ==
  ASSUME NEW S, NEW q \in Seq(S), NEW x \in S
  PROVE  /\ Append(q, x) \in Seq(S) /\ Len(q) \in Nat /\ Len(Append(q, x)) = Len(q) + 1
         /\ \A i \in 1 .. Len(q) : Append(q, x)[i] = q[i]
         /\ Append(q, x)[Len(q) + 1] = x
OBVIOUS

LEMMA ConcatFacts ==
  ASSUME NEW S, NEW q \in Seq(S), NEW r \in Seq(S)
  PROVE  /\ q \o r \in Seq(S) /\ Len(q) \in Nat /\ Len(r) \in Nat
         /\ Len(q \o r) = Len(q) + Len(r)
         /\ \A i \in 1 .. Len(q) : (q \o r)[i] = q[i]
         /\ \A i \in 1 .. Len(r) : (q \o r)[Len(q) + i] = r[i]
OBVIOUS

(* What is left once the first function is taken.                          *)
LEMMA TailKeeps ==
  ASSUME NEW q \in Seq(Fns), q # <<>>
  PROVE  /\ Head(q) \in Fns /\ Tail(q) \in Seq(Fns) /\ Among(Head(q), q)
         /\ \A f : Among(f, Tail(q)) => Among(f, q)
         /\ Unique(q) => Unique(Tail(q))
         /\ Unique(q) /\ Head(q).op \in {"established", "closed"} => ~Among(Head(q), Tail(q))
  <1>1. PICK t \in Seq(Fns) : t = Tail(q)
    BY TailFacts
  <1>2. PICK h \in Fns : h = Head(q)
    BY TailFacts
  <1>3. PICK n \in Nat : n = Len(q)
    BY TailFacts
  <1>4. n > 0 /\ Len(t) = n - 1 /\ q[1] = h /\ \A i \in 1 .. n - 1 : t[i] = q[i + 1]
    BY <1>1, <1>2, <1>3, TailFacts
  <1>5. Among(h, q)
    BY <1>3, <1>4 DEF Among
  <1>6. ASSUME NEW f, Among(f, t) PROVE Among(f, q)
    <2>1. PICK i \in 1 .. n - 1 : t[i] = f
      BY <1>4, <1>6 DEF Among
    <2>2. i + 1 \in 1 .. n /\ q[i + 1] = f
      BY <1>4, <2>1
    <2>. QED BY <1>3, <2>2 DEF Among
  <1>7. ASSUME Unique(q) PROVE Unique(t)
    <2>. SUFFICES ASSUME NEW i \in 1 .. n - 1, NEW j \in 1 .. n - 1, t[i] = t[j],
                         t[i].op \in {"established", "closed"}
                  PROVE  i = j
      BY <1>4 DEF Unique
    <2>1. i + 1 \in 1 .. n /\ j + 1 \in 1 .. n /\ q[i + 1] = q[j + 1] /\ q[i + 1] = t[i]
      BY <1>4
    <2>2. i + 1 = j + 1
      BY <1>3, <1>7, <2>1 DEF Unique
    <2>. QED BY <2>2
  <1>8. ASSUME Unique(q), h.op \in {"established", "closed"}, Among(h, t) PROVE FALSE
    <2>1. PICK i \in 1 .. n - 1 : t[i] = h
      BY <1>4, <1>8 DEF Among
    <2>2. i + 1 \in 1 .. n /\ 1 \in 1 .. n /\ q[i + 1] = q[1] /\ q[1].op \in {"established", "closed"}
      BY <1>4, <1>8, <2>1
    <2>3. i + 1 = 1
      BY <1>3, <1>8, <2>2 DEF Unique
    <2>. QED BY <2>3
  <1>. QED BY <1>1, <1>2, <1>5, <1>6, <1>7, <1>8

(* Functions behind those of a queue; those of r are no functions that are *)
(* to be unique, or r is one that is not there.                            *)
LEMMA ConcatKeeps ==
  ASSUME NEW q \in Seq(Fns), NEW r \in Seq(Fns)
  PROVE  /\ q \o r \in Seq(Fns)
         /\ \A f : Among(f, q \o r) => Among(f, q) \/ Among(f, r)
         /\ Unique(q) /\ (\A i \in 1 .. Len(r) : r[i].op \notin {"established", "closed"})
              => Unique(q \o r)
  <1>1. PICK s \in Seq(Fns) : s = q \o r
    BY ConcatFacts
  <1>2. PICK n \in Nat, m \in Nat : n = Len(q) /\ m = Len(r)
    BY ConcatFacts
  <1>3. Len(s) = n + m /\ (\A i \in 1 .. n : s[i] = q[i]) /\ \A i \in 1 .. m : s[n + i] = r[i]
    BY <1>1, <1>2, ConcatFacts
  <1>4. ASSUME NEW i \in 1 .. n + m, i > n PROVE \E k \in 1 .. m : i = n + k /\ s[i] = r[k]
    <2>1. i - n \in 1 .. m /\ i = n + (i - n)
      BY <1>4
    <2>. QED BY <1>3, <2>1
  <1>5. ASSUME NEW f, Among(f, s) PROVE Among(f, q) \/ Among(f, r)
    <2>1. PICK i \in 1 .. n + m : s[i] = f
      BY <1>3, <1>5 DEF Among
    <2>2. CASE i > n
      BY <1>2, <1>4, <2>1, <2>2 DEF Among
    <2>3. CASE ~(i > n)
      <3>1. i \in 1 .. n
        BY <2>3
      <3>. QED BY <1>2, <1>3, <2>1, <3>1 DEF Among
    <2>. QED BY <2>2, <2>3
  <1>6. ASSUME Unique(q), \A i \in 1 .. m : r[i].op \notin {"established", "closed"}
        PROVE  Unique(s)
    <2>. SUFFICES ASSUME NEW i \in 1 .. n + m, NEW j \in 1 .. n + m, s[i] = s[j],
                         s[i].op \in {"established", "closed"}
                  PROVE  i = j
      BY <1>3 DEF Unique
    <2>1. ~(i > n) /\ ~(j > n)
      BY <1>4, <1>6
    <2>2. i \in 1 .. n /\ j \in 1 .. n /\ q[i] = q[j] /\ q[i].op \in {"established", "closed"}
      BY <1>3, <2>1
    <2>. QED BY <1>2, <1>6, <2>2 DEF Unique
  <1>. QED BY <1>1, <1>2, <1>5, <1>6

LEMMA AppendKeeps ==
  ASSUME NEW q \in Seq(Fns), NEW x \in Fns
  PROVE  /\ Append(q, x) \in Seq(Fns)
         /\ \A f : Among(f, Append(q, x)) => Among(f, q) \/ f = x
         /\ Unique(q) /\ (x.op \notin {"established", "closed"} \/ ~Among(x, q))
              => Unique(Append(q, x))
  <1>1. PICK s \in Seq(Fns) : s = Append(q, x)
    BY AppendFacts
  <1>2. PICK n \in Nat : n = Len(q)
    BY AppendFacts
  <1>3. Len(s) = n + 1 /\ (\A i \in 1 .. n : s[i] = q[i]) /\ s[n + 1] = x
    BY <1>1, <1>2, AppendFacts
  <1>4. \A i \in 1 .. n + 1 : i \in 1 .. n \/ i = n + 1
    OBVIOUS
  <1>5. ASSUME NEW f, Among(f, s) PROVE Among(f, q) \/ f = x
    BY <1>2, <1>3, <1>4, <1>5 DEF Among
  <1>6. ASSUME Unique(q), x.op \notin {"established", "closed"} \/ ~Among(x, q) PROVE Unique(s)
    <2>. SUFFICES ASSUME NEW i \in 1 .. n + 1, NEW j \in 1 .. n + 1, s[i] = s[j],
                         s[i].op \in {"established", "closed"}
                  PROVE  i = j
      BY <1>3 DEF Unique
    <2>1. CASE i \in 1 .. n /\ j \in 1 .. n
      BY <1>2, <1>3, <1>6, <2>1 DEF Unique
    <2>2. CASE i \in 1 .. n /\ j = n + 1
      BY <1>2, <1>3, <1>6, <2>2 DEF Among
    <2>3. CASE i = n + 1 /\ j \in 1 .. n
      BY <1>2, <1>3, <1>6, <2>3 DEF Among
    <2>. QED BY <1>4, <2>1, <2>2, <2>3
  <1>. QED BY <1>1, <1>5, <1>6

(* The queues r are q, with the function x queued to loop l. *)
Added(q, l, x, r) ==
  /\ r \in [Loops -> Seq(Fns)]
  /\ \A m \in Loops : \A f : Among(f, r[m]) => Among(f, q[m]) \/ (m = l /\ f = x)
  /\ EachUnique(q) /\ (x.op \notin {"established", "closed"} \/ ~Among(x, q[l]))
       => EachUnique(r)

LEMMA QueueAdd ==
  ASSUME NEW q \in [Loops -> Seq(Fns)], NEW l \in Loops, NEW x \in Fns,
         NEW r, r = [q EXCEPT ![l] = Append(@, x)]
  PROVE  Added(q, l, x, r)
  <1>1. r[l] = Append(q[l], x) /\ \A m \in Loops : m # l => r[m] = q[m]
    OBVIOUS
  <1>2. Append(q[l], x) \in Seq(Fns)
    BY AppendKeeps
  <1>3. r \in [Loops -> Seq(Fns)]
    BY <1>2
  <1>4. \A m \in Loops : \A f : Among(f, r[m]) => Among(f, q[m]) \/ (m = l /\ f = x)
    BY <1>1, AppendKeeps
  <1>5. ASSUME EachUnique(q), x.op \notin {"established", "closed"} \/ ~Among(x, q[l])
        PROVE  EachUnique(r)
    BY <1>1, <1>5, AppendKeeps DEF EachUnique
  <1>. QED BY <1>3, <1>4, <1>5 DEF Added

(* The first function of loop l is taken. *)
LEMMA QueueRest ==
  ASSUME funcs \in [Loops -> Seq(Fns)], NEW l \in Loops, funcs[l] # <<>>
  PROVE  /\ Rest(l) \in [Loops -> Seq(Fns)]
         /\ Head(funcs[l]) \in Fns /\ Among(Head(funcs[l]), funcs[l])
         /\ \A m \in Loops : \A f : Among(f, Rest(l)[m]) => Among(f, funcs[m])
         /\ Once => EachUnique(Rest(l))
         /\ Once /\ Head(funcs[l]).op \in {"established", "closed"}
              => ~Among(Head(funcs[l]), Rest(l)[l])
  <1>1. PICK q \in Seq(Fns) : q = funcs[l]
    OBVIOUS
  <1>2. PICK r : r = Rest(l)
    OBVIOUS
  <1>3. r[l] = Tail(q) /\ \A m \in Loops : m # l => r[m] = funcs[m]
    BY <1>1, <1>2 DEF Rest
  <1>4. /\ Head(q) \in Fns /\ Tail(q) \in Seq(Fns) /\ Among(Head(q), q)
        /\ \A f : Among(f, Tail(q)) => Among(f, q)
        /\ Unique(q) => Unique(Tail(q))
        /\ Unique(q) /\ Head(q).op \in {"established", "closed"} => ~Among(Head(q), Tail(q))
    BY <1>1, TailKeeps
  <1>5. r \in [Loops -> Seq(Fns)]
    BY <1>1, <1>2, <1>4 DEF Rest
  <1>6. \A m \in Loops : \A f : Among(f, r[m]) => Among(f, funcs[m])
    BY <1>1, <1>3, <1>4
  <1>7. ASSUME Once PROVE EachUnique(r) /\ Unique(q)
    BY <1>1, <1>3, <1>4, <1>7 DEF Once, EachUnique
  <1>. QED BY <1>1, <1>2, <1>3, <1>4, <1>5, <1>6, <1>7

(* What forceClose leaves in the queues, in whatever order.                *)
LEMMA QueueCloseAll ==
  ASSUME NEW q \in [Loops -> Seq(Fns)], connSet_ \subseteq Conns, loopOf \in [Conns -> Loops],
         CloseAll(q)
  PROVE  /\ funcs' \in [Loops -> Seq(Fns)]
         /\ \A m \in Loops : \A f : Among(f, funcs'[m]) =>
              \/ Among(f, q[m])
              \/ /\ f.conn \in connSet_ /\ loopOf[f.conn] = m
                 /\ f.op = IF m = Base THEN "destroyed" ELSE "force"
         /\ EachUnique(q) => EachUnique(funcs')
  <1>. DEFINE of(l) == {c \in connSet_ : loopOf[c] = l}
              op(l) == IF l = Base THEN "destroyed" ELSE "force"
              new(o, l) == [i \in DOMAIN o[l] |-> Fn(op(l), o[l][i])]
  <1>1. PICK o : /\ \A l \in Loops : o[l] \in SetToSeqs(of(l))
                 /\ funcs' = [l \in Loops |-> q[l] \o new(o, l)]
    BY DEF CloseAll
  <1>2. ASSUME NEW l \in Loops
        PROVE  /\ new(o, l) \in Seq(Fns)
               /\ \A i \in 1 .. Len(new(o, l)) :
                    /\ new(o, l)[i].op = op(l)
                    /\ new(o, l)[i].conn \in connSet_ /\ loopOf[new(o, l)[i].conn] = l
    <2>1. PICK n : o[l] \in [1 .. n -> of(l)] /\ n = Cardinality(of(l))
      BY <1>1 DEF SetToSeqs
    <2>2. n \in Nat
      <3>1. IsFiniteSet(Conns)
        BY ServerAssumption, FS_Interval DEF Conns
      <3>2. of(l) \subseteq Conns
        OBVIOUS
      <3>. QED BY <2>1, <3>1, <3>2, FS_Subset, FS_CardinalityType, Zenon
    <2>3. \A i \in 1 .. n : Fn(op(l), o[l][i]) \in Fns
      BY <2>1 DEF Fn, Fns, ConnOps
    <2>4. PICK r : r = new(o, l)
      OBVIOUS
    <2>5. r = [i \in 1 .. n |-> Fn(op(l), o[l][i])]
      BY <2>1, <2>4
    <2>6. r \in [1 .. n -> Fns]
      BY <2>3, <2>5
    <2>7. r \in Seq(Fns) /\ Len(r) = n
      BY <2>2, <2>6
    <2>8. \A i \in 1 .. n : r[i] = Fn(op(l), o[l][i]) /\ o[l][i] \in of(l)
      BY <2>1, <2>5
    <2>9. ASSUME NEW i \in 1 .. n
          PROVE  r[i].op = op(l) /\ r[i].conn \in connSet_ /\ loopOf[r[i].conn] = l
      <3>1. PICK c : c = o[l][i] /\ c \in connSet_ /\ loopOf[c] = l
        BY <2>8
      <3>. HIDE DEF op
      <3>2. r[i] = Fn(op(l), c)
        BY <2>8, <3>1, Zenon
      <3>3. r[i].op = op(l) /\ r[i].conn = c
        BY <3>2 DEF Fn
      <3>. QED BY <3>1, <3>3
    <2>. QED BY <2>4, <2>7, <2>9
  <1>. HIDE DEF new
  <1>3. ASSUME NEW l \in Loops PROVE funcs'[l] = q[l] \o new(o, l) /\ q[l] \in Seq(Fns)
    BY <1>1
  <1>4. ASSUME NEW l \in Loops
        PROVE  /\ funcs'[l] \in Seq(Fns)
               /\ \A f : Among(f, funcs'[l]) => Among(f, q[l]) \/ Among(f, new(o, l))
               /\ Unique(q[l]) => Unique(funcs'[l])
    <2>1. \A i \in 1 .. Len(new(o, l)) : new(o, l)[i].op \notin {"established", "closed"}
      BY <1>2
    <2>2. PICK s \in Seq(Fns) : s = q[l]
      BY <1>3
    <2>3. PICK r \in Seq(Fns) : r = new(o, l)
      BY <1>2
    <2>4. /\ s \o r \in Seq(Fns)
          /\ \A f : Among(f, s \o r) => Among(f, s) \/ Among(f, r)
          /\ Unique(s) => Unique(s \o r)
      BY <2>1, <2>3, ConcatKeeps
    <2>. QED BY <1>3, <2>2, <2>3, <2>4
  <1>5. funcs' \in [Loops -> Seq(Fns)]
    BY <1>1, <1>3, <1>4
  <1>6. ASSUME NEW m \in Loops, NEW f, Among(f, funcs'[m])
        PROVE  \/ Among(f, q[m])
               \/ f.conn \in connSet_ /\ loopOf[f.conn] = m /\ f.op = op(m)
    <2>1. CASE Among(f, new(o, m))
      BY <1>2, <2>1 DEF Among
    <2>. QED BY <1>4, <1>6, <2>1
  <1>7. EachUnique(q) => EachUnique(funcs')
    BY <1>4 DEF EachUnique
  <1>. QED BY <1>5, <1>6, <1>7

-----------------------------------------------------------------------------
(* Types *)

LEMMA BaseIsLoop == Base \in Loops
BY DEF Loops

(* The connection that a queued function is about. *)
LEMMA FnConn ==
  ASSUME NEW f \in Fns, f.op \in ConnOps
  PROVE  f.conn \in Conns
BY DEF Fns, ConnOps

LEMMA FnMade ==
  /\ Fn("stop", 0) \in Fns /\ Fn("wheel", 0) \in Fns
  /\ \A op \in ConnOps : \A c \in Conns : Fn(op, c) \in Fns
BY DEF Fns, Fn, ConnOps

(* The function that RunEstablished and the others take. *)
LEMMA TakeFacts ==
  ASSUME TypeOK, NEW l \in Loops, NEW op \in ConnOps, Take(l, op)
  PROVE  /\ Arg(l) \in Conns /\ Rest(l) \in [Loops -> Seq(Fns)]
         /\ Head(funcs[l]) \in Fns /\ Among(Head(funcs[l]), funcs[l])
         /\ Head(funcs[l]).op = op /\ Head(funcs[l]).conn = Arg(l)
         /\ \A m \in Loops : \A f : Among(f, Rest(l)[m]) => Among(f, funcs[m])
         /\ Once => EachUnique(Rest(l))
         /\ Once /\ op \in {"established", "closed"} => ~Among(Head(funcs[l]), Rest(l)[l])
  <1>1. funcs \in [Loops -> Seq(Fns)] /\ funcs[l] # <<>> /\ Head(funcs[l]).op = op
    BY DEF TypeOK, Connections, Take
  <1>2. /\ Rest(l) \in [Loops -> Seq(Fns)]
        /\ Head(funcs[l]) \in Fns /\ Among(Head(funcs[l]), funcs[l])
        /\ \A m \in Loops : \A f : Among(f, Rest(l)[m]) => Among(f, funcs[m])
        /\ Once => EachUnique(Rest(l))
        /\ Once /\ Head(funcs[l]).op \in {"established", "closed"}
             => ~Among(Head(funcs[l]), Rest(l)[l])
    BY <1>1, QueueRest
  <1>3. Arg(l) \in Conns /\ Head(funcs[l]).conn = Arg(l)
    BY <1>1, <1>2, FnConn DEF Arg
  <1>. QED BY <1>1, <1>2, <1>3

(* What handleCloseInLoop and HandleClose leave. *)
LEMMA CloseTypes ==
  ASSUME TypeOK, NEW c \in Conns, NEW q \in [Loops -> Seq(Fns)], handleCloseInLoop(c, q)
  PROVE  connSet_' \subseteq Conns /\ funcs' \in [Loops -> Seq(Fns)]
  <1>1. Fn("destroyed", c) \in Fns /\ loopOf[c] \in Loops /\ connSet_ \subseteq Conns
    BY FnMade DEF TypeOK, Settled, Connections, ConnOps
  <1>2. PICK r : r = [q EXCEPT ![loopOf[c]] = Append(@, Fn("destroyed", c))]
    OBVIOUS
  <1>3. r \in [Loops -> Seq(Fns)]
    BY <1>1, <1>2, QueueAdd DEF Added
  <1>4. connSet_' \in {connSet_, connSet_ \ {c}} /\ funcs' \in {q, r}
    BY <1>2 DEF handleCloseInLoop
  <1>. QED BY <1>1, <1>3, <1>4

LEMMA HandleTypes ==
  ASSUME TypeOK, NEW c \in Conns, NEW q \in [Loops -> Seq(Fns)], HandleClose(c, q)
  PROVE  /\ connSet_' \subseteq Conns /\ funcs' \in [Loops -> Seq(Fns)]
         /\ status' \in [Conns -> Statuses]
  <1>1. status' \in [Conns -> Statuses]
    BY DEF TypeOK, Connections, HandleClose, Statuses
  <1>2. CASE loopOf[c] = Base
    <2>1. handleCloseInLoop(c, q)
      BY <1>2 DEF HandleClose
    <2>. QED BY <1>1, <2>1, CloseTypes
  <1>3. CASE loopOf[c] # Base
    <2>1. funcs' = [q EXCEPT ![Base] = Append(@, Fn("closed", c))] /\ connSet_' = connSet_
      BY <1>3 DEF HandleClose
    <2>2. funcs' \in [Loops -> Seq(Fns)]
      BY <2>1, QueueAdd, FnMade, BaseIsLoop DEF ConnOps, Added
    <2>. QED BY <1>1, <2>1, <2>2 DEF TypeOK, Connections
  <1>. QED BY <1>2, <1>3

LEMMA InitTypes == Init => TypeOK
  <1>. SUFFICES ASSUME Init PROVE TypeOK
    OBVIOUS
  <1>1. ioLoops_ \in Seq(Loops) /\ Len(ioLoops_) > 0
    <2>1. CASE ioLoops_ = <<Base>>
      BY <2>1, BaseIsLoop
    <2>2. CASE IoLoops # {} /\ ioLoops_ \in SetToSeqs(IoLoops)
      <3>1. PICK n : n = Cardinality(IoLoops) /\ ioLoops_ \in [1 .. n -> IoLoops]
        BY <2>2 DEF SetToSeqs
      <3>2. n \in Nat /\ n # 0
        BY <2>2, <3>1, ServerAssumption, FS_CardinalityType, FS_EmptySet
      <3>3. ioLoops_ \in Seq(IoLoops) /\ Len(ioLoops_) = n
        BY <3>1, <3>2
      <3>4. ioLoops_ \in [1 .. n -> Loops]
        BY <3>1 DEF Loops
      <3>. QED BY <3>2, <3>3, <3>4
    <2>. QED BY <2>1, <2>2 DEF Init
  <1>2. Settled
    <2>1. own \in BOOLEAN /\ idle \in BOOLEAN
      BY DEF Init
    <2>2. nextLoopIdx_ \in 1 .. Len(ioLoops_)
      <3>1. PICK n \in Nat : n = Len(ioLoops_)
        BY <1>1
      <3>. QED BY <1>1, <3>1 DEF Init
    <2>3. loopOf \in [Conns -> Loops]
      BY BaseIsLoop DEF Init
    <2>4. arrived = 0 /\ backlog = 0 /\ accepted = 0 /\ MaxConns \in Nat
      BY ServerAssumption DEF Init
    <2>5. arrived \in 0 .. MaxConns /\ backlog \in Nat /\ accepted \in Nat
          /\ accepted + backlog <= arrived
      BY <2>4
    <2>. QED BY <1>1, <2>1, <2>2, <2>3, <2>5 DEF Settled
  <1>3. Stages
    BY DEF Init, Stages
  <1>4. Connections
    BY DEF Init, Connections, Statuses
  <1>. QED BY <1>2, <1>3, <1>4 DEF TypeOK

(* The loop of the next connection, and its number. *)
LEMMA NextFacts ==
  ASSUME TypeOK, Accept
  PROVE  /\ accepted + 1 \in Conns /\ ioLoops_[nextLoopIdx_] \in Loops
         /\ nextLoopIdx_' \in 1 .. Len(ioLoops_)
         /\ backlog - 1 \in Nat /\ accepted' + backlog' <= arrived /\ accepted' \in Nat
  <1>1. /\ accepted \in Nat /\ backlog \in Nat /\ arrived \in Nat /\ arrived <= MaxConns
        /\ MaxConns \in Nat /\ accepted + backlog <= arrived /\ backlog > 0
        /\ accepted' = accepted + 1 /\ backlog' = backlog - 1
    BY ServerAssumption DEF TypeOK, Settled, Accept, newConnection
  <1>2. /\ ioLoops_ \in Seq(Loops) /\ Len(ioLoops_) > 0 /\ nextLoopIdx_ \in 1 .. Len(ioLoops_)
        /\ nextLoopIdx_' = IF nextLoopIdx_ >= Len(ioLoops_) THEN 1 ELSE nextLoopIdx_ + 1
    BY DEF TypeOK, Settled, Accept, newConnection
  <1>3. accepted + 1 \in Conns
    BY <1>1 DEF Conns
  <1>4. nextLoopIdx_' \in 1 .. Len(ioLoops_)
    <2>1. PICK n \in Nat : n = Len(ioLoops_)
      BY <1>2
    <2>. QED BY <1>2, <2>1
  <1>. QED BY <1>1, <1>2, <1>3, <1>4

(* Queue, with which a function reaches another loop. *)
LEMMA QueueTypes ==
  ASSUME funcs \in [Loops -> Seq(Fns)], NEW l \in Loops, NEW f \in Fns, Queue(l, f)
  PROVE  funcs' \in [Loops -> Seq(Fns)]
BY QueueAdd DEF Queue, Added

LEMMA AcceptTypes ==
  ASSUME TypeOK, Accept
  PROVE  TypeOK'
  <1>1. PICK c \in Conns : c = accepted + 1
    BY NextFacts
  <1>2. PICK l \in Loops : l = ioLoops_[nextLoopIdx_]
    BY NextFacts
  <1>3. /\ loopOf' = [loopOf EXCEPT ![c] = l] /\ connSet_' = connSet_ \cup {c}
        /\ \/ UNCHANGED <<status, funcs>>
           \/ status' = [status EXCEPT ![c] = "Connected"] /\ UNCHANGED funcs
           \/ status' = [status EXCEPT ![c] = "Connecting"] /\ Queue(l, Fn("established", c))
    BY <1>1, <1>2 DEF Accept, newConnection
  <1>4. UNCHANGED <<ioLoops_, own, idle, arrived>> /\ backlog' = backlog - 1
    BY DEF Accept, cfg
  <1>5. Settled'
    BY <1>3, <1>4, NextFacts DEF TypeOK, Settled
  <1>6. Stages'
    BY DEF TypeOK, Stages, Accept, cfg
  <1>7. funcs' \in [Loops -> Seq(Fns)]
    <2>1. Fn("established", c) \in Fns
      BY FnMade DEF ConnOps
    <2>. QED BY <1>3, <2>1, QueueTypes DEF TypeOK, Connections
  <1>8. Connections'
    BY <1>3, <1>7 DEF TypeOK, Connections, Statuses
  <1>. QED BY <1>5, <1>6, <1>8 DEF TypeOK

LEMMA TypeStep ==
  ASSUME TypeOK, Next
  PROVE  TypeOK'
  <1>. USE DEF cfg, srv, cns, fds
  <1>1. CASE Start
    <2>1. wheels' \subseteq Loops
      <3>1. ioLoops_ \in Seq(Loops)
        BY DEF TypeOK, Settled
      <3>2. ToSet(ioLoops_) \subseteq Loops
        BY <3>1 DEF ToSet
      <3>. QED BY <1>1, <3>2 DEF Start
    <2>. QED BY <1>1, <2>1 DEF Start, TypeOK, Settled, Stages, Connections
  <1>2. CASE Arrive
    <2>1. UNCHANGED <<cfg, srv, status, loopOf, accepted, funcs, live>>
          /\ arrived' = arrived + 1 /\ backlog' = backlog + 1 /\ arrived < MaxConns
      BY <1>2 DEF Arrive
    <2>2. Settled'
      BY <2>1, ServerAssumption DEF TypeOK, Settled
    <2>. QED BY <2>1, <2>2 DEF TypeOK, Stages, Connections
  <1>3. CASE Accept
    BY <1>3, AcceptTypes
  <1>4. CASE AcceptFull
    <2>1. UNCHANGED <<cfg, srv, status, loopOf, accepted, arrived, funcs, live>>
          /\ backlog > 0 /\ backlog' \in {backlog, backlog - 1}
      BY <1>4 DEF AcceptFull
    <2>2. Settled'
      <3>1. backlog' \in Nat /\ accepted + backlog' <= arrived'
        <4>1. /\ arrived \in Nat /\ backlog \in Nat /\ accepted \in Nat /\ accepted + backlog <= arrived
          BY DEF TypeOK, Settled
        <4>2. arrived' = arrived /\ backlog > 0 /\ (backlog' = backlog \/ backlog' = backlog - 1)
          BY <2>1
        <4>. QED BY <4>1, <4>2
      <3>. QED BY <2>1, <3>1 DEF TypeOK, Settled
    <2>. QED BY <2>1, <2>2 DEF TypeOK, Stages, Connections
  <1>17. CASE AcceptFails
    <2>1. UNCHANGED <<cfg, srv, status, loopOf, accepted, arrived, funcs, live>>
          /\ backlog > 0 /\ backlog' = backlog - 1
      BY <1>17 DEF AcceptFails
    <2>2. Settled'
      <3>1. backlog' \in Nat /\ accepted + backlog' <= arrived'
        <4>1. arrived \in Nat /\ backlog \in Nat /\ accepted \in Nat /\ accepted + backlog <= arrived
          BY DEF TypeOK, Settled
        <4>. QED BY <2>1, <4>1
      <3>. QED BY <2>1, <3>1 DEF TypeOK, Settled
    <2>. QED BY <2>1, <2>2 DEF TypeOK, Stages, Connections
  <1>5. CASE OtherFd
    BY <1>5 DEF OtherFd, TypeOK, Settled, Stages, Connections
  <1>6. CASE PeerCloses
    <2>1. PICK c \in Conns : HandleClose(c, funcs)
      BY <1>6 DEF PeerCloses
    <2>2. Connections'
      BY <2>1, HandleTypes DEF TypeOK, Connections
    <2>. QED BY <1>6, <2>2 DEF PeerCloses, TypeOK, Settled, Stages
  <1>7. CASE StopHere
    <2>1. Connections' /\ acceptor' = "gone"
      BY <1>7, QueueCloseAll DEF StopHere, CloseAll, TypeOK, Settled, Connections, Statuses
    <2>. QED BY <1>7, <2>1 DEF StopHere, TypeOK, Settled, Stages
  <1>8. CASE StopAway
    <2>1. funcs' \in [Loops -> Seq(Fns)]
      BY <1>8, QueueAdd, FnMade, BaseIsLoop DEF StopAway, Added, TypeOK, Connections
    <2>. QED BY <1>8, <2>1 DEF StopAway, TypeOK, Settled, Stages, Connections
  <1>9. CASE StopJoin
    BY <1>9 DEF StopJoin, TypeOK, Settled, Stages, Connections
  <1>10. CASE StopWheel
    <2>1. funcs' \in [Loops -> Seq(Fns)] /\ wheels' \subseteq wheels
      <3>1. CASE wheels = {}
        BY <1>10, <3>1 DEF StopWheel, TypeOK, Connections
      <3>2. CASE wheels # {}
        <4>1. PICK l \in wheels : l = CHOOSE k \in wheels : TRUE
          BY <3>2
        <4>2. l \in Loops
          BY <4>1 DEF TypeOK, Stages
        <4>. QED BY <1>10, <3>2, <4>1, <4>2, QueueTypes, FnMade
                 DEF StopWheel, WheelFn, TypeOK, Connections
      <3>. QED BY <3>1, <3>2
    <2>. QED BY <1>10, <2>1 DEF StopWheel, TypeOK, Settled, Stages, Connections
  <1>11. ASSUME NEW l \in Loops, RunEstablished(l) PROVE TypeOK'
    <2>1. Arg(l) \in Conns /\ Rest(l) \in [Loops -> Seq(Fns)]
      BY <1>11, TakeFacts DEF RunEstablished, ConnOps
    <2>. QED BY <1>11, <2>1 DEF RunEstablished, TypeOK, Settled, Stages, Connections, Statuses
  <1>12. ASSUME NEW l \in Loops, RunForce(l) PROVE TypeOK'
    <2>1. Arg(l) \in Conns /\ Rest(l) \in [Loops -> Seq(Fns)]
      BY <1>12, TakeFacts DEF RunForce, ConnOps
    <2>2. Connections'
      <3>1. CASE HandleClose(Arg(l), Rest(l))
        BY <2>1, <3>1, HandleTypes DEF Connections
      <3>2. CASE funcs' = Rest(l) /\ UNCHANGED <<status, connSet_>>
        BY <2>1, <3>2 DEF TypeOK, Connections
      <3>. QED BY <1>12, <3>1, <3>2 DEF RunForce
    <2>. QED BY <1>12, <2>2 DEF RunForce, TypeOK, Settled, Stages
  <1>13. ASSUME NEW l \in Loops, RunDestroyed(l) PROVE TypeOK'
    <2>1. Arg(l) \in Conns /\ Rest(l) \in [Loops -> Seq(Fns)]
      BY <1>13, TakeFacts DEF RunDestroyed, ConnOps
    <2>. QED BY <1>13, <2>1 DEF RunDestroyed, TypeOK, Settled, Stages, Connections, Statuses
  <1>14. ASSUME NEW l \in Loops, RunWheel(l) PROVE TypeOK'
    <2>1. Rest(l) \in [Loops -> Seq(Fns)]
      BY <1>14, QueueRest DEF RunWheel, Take, TypeOK, Connections
    <2>. QED BY <1>14, <2>1 DEF RunWheel, TypeOK, Settled, Stages, Connections
  <1>15. CASE RunClosed
    <2>1. Arg(Base) \in Conns /\ Rest(Base) \in [Loops -> Seq(Fns)]
      BY <1>15, TakeFacts, BaseIsLoop DEF RunClosed, ConnOps
    <2>2. connSet_' \subseteq Conns /\ funcs' \in [Loops -> Seq(Fns)]
      BY <1>15, <2>1, CloseTypes DEF RunClosed
    <2>. QED BY <1>15, <2>2 DEF RunClosed, TypeOK, Settled, Stages, Connections
  <1>16. CASE RunStop
    <2>1. Rest(Base) \in [Loops -> Seq(Fns)]
      BY <1>16, QueueRest, BaseIsLoop DEF RunStop, Take, TypeOK, Connections
    <2>2. Connections' /\ acceptor' = "gone"
      BY <1>16, <2>1, QueueCloseAll DEF RunStop, CloseAll, TypeOK, Settled, Connections, Statuses
    <2>. QED BY <1>16, <2>2 DEF RunStop, TypeOK, Settled, Stages
  <1>. QED BY <1>1, <1>2, <1>3, <1>4, <1>5, <1>6, <1>7, <1>8, <1>9, <1>10, <1>11, <1>12,
              <1>13, <1>14, <1>15, <1>16, <1>17 DEF Next, Stopping, Run, RunIn

-----------------------------------------------------------------------------
(* No assertion fails *)

(* What a queued function relies on does not go away; those that are new   *)
(* are stop() and the reset of a wheel.                                    *)
LEMMA Calm ==
  ASSUME TypeOK, Sound, UNCHANGED <<status, loopOf, connSet_, accepted>>,
         stopAt \in {"queued", "hung"} => stopAt' \in {"queued", "hung"},
         acceptor = "gone" => acceptor' = "gone",
         \A m \in Loops : \A f \in Fns : Among(f, funcs'[m]) =>
           \/ Among(f, funcs[m])
           \/ f.op = "stop" /\ stopAt' \in {"queued", "hung"}
           \/ f.op = "wheel" /\ acceptor' = "gone"
  PROVE  Open' /\ Queued'
  <1>1. Open'
    BY DEF Sound, Open
  <1>2. ASSUME NEW m \in Loops, NEW f \in Fns, Among(f, funcs'[m]) PROVE Awaited(f, m)'
    <2>1. CASE Among(f, funcs[m])
      <3>1. Awaited(f, m)
        BY <2>1 DEF Sound, Queued
      <3>. QED BY <3>1 DEF Awaited
    <2>2. CASE f.op = "stop" /\ stopAt' \in {"queued", "hung"}
      BY <2>2 DEF Awaited
    <2>3. CASE f.op = "wheel" /\ acceptor' = "gone"
      BY <2>3 DEF Awaited
    <2>. QED BY <1>2, <2>1, <2>2, <2>3
  <1>3. Queued'
    BY <1>2 DEF Queued
  <1>. QED BY <1>1, <1>3

(* Connection c, that no function is about to establish or to close, is    *)
(* taken from the set.                                                     *)
LEMMA Erased ==
  ASSUME TypeOK, Sound, NEW c \in Conns, NEW q \in [Loops -> Seq(Fns)],
         \A m \in Loops : \A f : Among(f, q[m]) => Among(f, funcs[m]),
         \A m \in Loops : \A f \in Fns :
           Among(f, q[m]) /\ f.op \in {"established", "closed"} => f.conn # c,
         EachUnique(q), handleCloseInLoop(c, q), c \in connSet_, status[c] # "none",
         loopOf[c] \in live,
         status' \in [Conns -> Statuses], status'[c] = "Disconnected",
         \A d \in Conns : d # c => status'[d] = status[d],
         UNCHANGED <<loopOf, accepted, stopAt, acceptor>>
  PROVE  aborted' = "no" /\ Open' /\ Queued' /\ Once'
  <1>1. loopOf[c] \in Loops /\ aborted = "no"
    BY DEF TypeOK, Settled, Sound
  <1>2. PICK x \in Fns : x = Fn("destroyed", c)
    BY FnMade DEF ConnOps
  <1>3. /\ connSet_' = connSet_ \ {c} /\ aborted' = "no"
        /\ funcs' = [q EXCEPT ![loopOf[c]] = Append(@, x)]
    BY <1>1, <1>2 DEF handleCloseInLoop
  <1>4. x.op = "destroyed" /\ x.conn = c
    BY <1>2 DEF Fn
  <1>5. /\ \A m \in Loops : \A f : Among(f, funcs'[m]) => Among(f, q[m]) \/ f = x
        /\ EachUnique(funcs')
    <2>1. PICK r, l : r = funcs' /\ l = loopOf[c]
      OBVIOUS
    <2>2. l \in Loops /\ r = [q EXCEPT ![l] = Append(@, x)] /\ x.op \notin {"established", "closed"}
      BY <1>1, <1>3, <1>4, <2>1
    <2>3. Added(q, l, x, r)
      BY <2>2, QueueAdd
    <2>. QED BY <2>1, <2>2, <2>3 DEF Added
  <1>6. Open'
    BY <1>3 DEF Sound, Open
  <1>7. ASSUME NEW m \in Loops, NEW f \in Fns, Among(f, funcs'[m]) PROVE Awaited(f, m)'
    <2>1. CASE f = x
      BY <1>3, <1>4, <2>1 DEF Awaited
    <2>2. CASE Among(f, q[m])
      <3>1. Awaited(f, m)
        BY <2>2 DEF Sound, Queued
      <3>2. f.op \in ConnOps => f.conn \in Conns
        BY FnConn
      <3>3. CASE f.conn = c
        BY <1>3, <2>2, <3>1, <3>3 DEF Awaited
      <3>4. CASE f.conn # c
        BY <1>3, <3>1, <3>2, <3>4 DEF Awaited, ConnOps
      <3>. QED BY <3>3, <3>4
    <2>. QED BY <1>5, <1>7, <2>1, <2>2
  <1>8. Queued'
    BY <1>7 DEF Queued
  <1>. QED BY <1>3, <1>5, <1>6, <1>8 DEF Once

(* A connection that is up is closed, by its peer or by forceClose. *)
LEMMA Handled ==
  ASSUME TypeOK, Sound, NEW c \in Conns, NEW q \in [Loops -> Seq(Fns)],
         \A m \in Loops : \A f : Among(f, q[m]) => Among(f, funcs[m]),
         EachUnique(q), status[c] = "Connected", HandleClose(c, q),
         UNCHANGED <<loopOf, accepted, stopAt, acceptor>>
  PROVE  aborted' = "no" /\ Open' /\ Queued' /\ Once'
  <1>1. c \in connSet_ /\ aborted = "no" /\ Base \in live
    BY DEF Sound, Open, Alive
  <1>2. /\ status' \in [Conns -> Statuses] /\ status'[c] = "Disconnected"
        /\ \A d \in Conns : d # c => status'[d] = status[d]
    BY DEF TypeOK, Connections, HandleClose, Statuses
  <1>3. ASSUME NEW m \in Loops, NEW f \in Fns, Among(f, q[m]) PROVE Awaited(f, m)
    BY <1>3 DEF Sound, Queued
  <1>4. ASSUME NEW m \in Loops, NEW f \in Fns, Among(f, q[m]), f.op \in {"established", "closed"}
        PROVE  f.conn # c
    BY <1>3, <1>4 DEF Awaited
  <1>5. CASE loopOf[c] = Base
    <2>1. handleCloseInLoop(c, q)
      BY <1>5 DEF HandleClose
    <2>. QED BY <1>1, <1>2, <1>4, <1>5, <2>1, Erased
  <1>6. CASE loopOf[c] # Base
    <2>1. PICK x \in Fns : x = Fn("closed", c)
      BY FnMade DEF ConnOps
    <2>2. x.op = "closed" /\ x.conn = c
      BY <2>1 DEF Fn
    <2>3. UNCHANGED <<connSet_, aborted>> /\ funcs' = [q EXCEPT ![Base] = Append(@, x)]
      BY <1>6, <2>1 DEF HandleClose
    <2>4. ~Among(x, q[Base])
      BY <1>4, <2>2, BaseIsLoop
    <2>5. /\ \A m \in Loops : \A f : Among(f, funcs'[m]) => Among(f, q[m]) \/ (m = Base /\ f = x)
          /\ EachUnique(funcs')
      <3>1. PICK r : r = funcs'
        OBVIOUS
      <3>2. r = [q EXCEPT ![Base] = Append(@, x)]
        BY <2>3, <3>1
      <3>3. Added(q, Base, x, r)
        BY <3>2, BaseIsLoop, QueueAdd
      <3>. QED BY <2>4, <3>1, <3>3 DEF Added
    <2>6. Open'
      BY <1>1, <1>2, <2>3 DEF Sound, Open
    <2>7. ASSUME NEW m \in Loops, NEW f \in Fns, Among(f, funcs'[m]) PROVE Awaited(f, m)'
      <3>1. CASE m = Base /\ f = x
        BY <1>1, <1>2, <1>6, <2>2, <2>3, <3>1 DEF Awaited
      <3>2. CASE Among(f, q[m])
        <4>1. Awaited(f, m)
          BY <1>3, <3>2
        <4>2. f.op \in ConnOps => f.conn \in Conns
          BY FnConn
        <4>3. CASE f.conn = c
          BY <1>1, <1>2, <1>4, <2>3, <3>2, <4>1, <4>3 DEF Awaited
        <4>4. CASE f.conn # c
          BY <1>2, <2>3, <4>1, <4>2, <4>4 DEF Awaited, ConnOps
        <4>. QED BY <4>3, <4>4
      <3>. QED BY <2>5, <2>7, <3>1, <3>2
    <2>8. Queued'
      BY <2>7 DEF Queued
    <2>. QED BY <1>1, <2>3, <2>5, <2>6, <2>8 DEF Once
  <1>. QED BY <1>5, <1>6

(* stop() closes the connections of its own loop, and asks for the others. *)
LEMMA AllClosed ==
  ASSUME TypeOK, Sound, NEW q \in [Loops -> Seq(Fns)],
         \A m \in Loops : \A f : Among(f, q[m]) => Among(f, funcs[m]),
         EachUnique(q), CloseAll(q), UNCHANGED <<loopOf, accepted>>,
         stopAt \in {"queued", "hung"} => stopAt' \in {"queued", "hung"}
  PROVE  Open' /\ Queued' /\ Once'
  <1>. DEFINE here == {c \in connSet_ : loopOf[c] = Base}
  <1>1. /\ acceptor' = "gone" /\ connSet_' = connSet_ \ here
        /\ status' = [c \in Conns |-> IF c \in here THEN "Disconnected" ELSE status[c]]
    BY DEF CloseAll
  <1>2. /\ \A m \in Loops : \A f : Among(f, funcs'[m]) =>
              \/ Among(f, q[m])
              \/ /\ f.conn \in connSet_ /\ loopOf[f.conn] = m
                 /\ f.op = IF m = Base THEN "destroyed" ELSE "force"
        /\ EachUnique(funcs')
    BY QueueCloseAll DEF TypeOK, Settled, Connections
  <1>3. \A c \in Conns : c \in here => loopOf[c] = Base /\ c \in connSet_
    OBVIOUS
  <1>4. Open'
    BY <1>1 DEF Sound, Open
  <1>5. ASSUME NEW m \in Loops, NEW f \in Fns, Among(f, funcs'[m]) PROVE Awaited(f, m)'
    <2>1. f.op \in ConnOps => f.conn \in Conns
      BY FnConn
    <2>2. CASE Among(f, q[m])
      <3>1. Awaited(f, m)
        BY <2>2 DEF Sound, Queued
      <3>. QED BY <1>1, <1>3, <2>1, <3>1 DEF Awaited, ConnOps
    <2>3. CASE /\ f.conn \in connSet_ /\ loopOf[f.conn] = m
               /\ f.op = IF m = Base THEN "destroyed" ELSE "force"
      <3>1. f.conn \in Conns
        BY <2>3 DEF TypeOK, Connections
      <3>2. CASE m = Base
        BY <1>1, <2>3, <3>1, <3>2 DEF Awaited
      <3>3. CASE m # Base
        BY <2>3, <3>3 DEF Awaited
      <3>. QED BY <3>2, <3>3
    <2>. QED BY <1>2, <1>5, <2>2, <2>3
  <1>6. Queued'
    BY <1>5 DEF Queued
  <1>. QED BY <1>2, <1>4, <1>6 DEF Once

(* A new connection: its loop has a wheel, and it has never been queued. *)
LEMMA Accepted ==
  ASSUME TypeOK, Sound, Accept
  PROVE  aborted' = "no" /\ Open' /\ Queued' /\ Once'
  <1>1. PICK c \in Conns : c = accepted + 1
    BY NextFacts
  <1>2. PICK l \in Loops : l = ioLoops_[nextLoopIdx_]
    BY NextFacts
  <1>3. idle => l \in wheels
    BY <1>2 DEF Sound, WheelsMade, Accept, TypeOK, Settled
  <1>4. c > accepted /\ accepted \in Nat /\ accepted' = accepted + 1 /\ aborted = "no" /\ live = Loops
    BY <1>1 DEF TypeOK, Settled, Accept, newConnection, Sound, Alive, Phases
  <1>5. status[c] = "none" /\ c \notin connSet_
    BY <1>4 DEF Sound, Open
  <1>6. PICK x \in Fns : x = Fn("established", c)
    BY FnMade DEF ConnOps
  <1>7. x.op = "established" /\ x.conn = c
    BY <1>6 DEF Fn
  <1>8. /\ loopOf' = [loopOf EXCEPT ![c] = l] /\ connSet_' = connSet_ \cup {c}
        /\ UNCHANGED <<stopAt, acceptor>>
        /\ IF l = Base
           THEN status' = [status EXCEPT ![c] = "Connected"] /\ UNCHANGED <<funcs, aborted>>
           ELSE /\ status' = [status EXCEPT ![c] = "Connecting"]
                /\ funcs' = [funcs EXCEPT ![l] = Append(@, x)] /\ UNCHANGED aborted
    BY <1>1, <1>2, <1>3, <1>4, <1>6 DEF Accept, newConnection, Queue
  <1>9. /\ status \in [Conns -> Statuses] /\ loopOf \in [Conns -> Loops]
        /\ funcs \in [Loops -> Seq(Fns)]
    BY DEF TypeOK, Settled, Connections
  <1>10. /\ \A d \in Conns : d # c => status'[d] = status[d] /\ loopOf'[d] = loopOf[d]
         /\ status'[c] = (IF l = Base THEN "Connected" ELSE "Connecting") /\ loopOf'[c] = l
    BY <1>8, <1>9
  <1>11. Open'
    <2>1. ASSUME NEW d \in Conns, d > accepted' PROVE d # c /\ d > accepted
      BY <1>1, <1>4, <2>1 DEF Conns
    <2>. QED BY <1>8, <1>10, <2>1 DEF Sound, Open
  <1>12. ASSUME NEW m \in Loops, NEW f \in Fns, Among(f, funcs[m])
         PROVE  Awaited(f, m)' /\ f # x
    <2>1. Awaited(f, m)
      BY <1>12 DEF Sound, Queued
    <2>2. f.op \in ConnOps => f.conn \in Conns
      BY FnConn
    <2>3. CASE f.op \in ConnOps /\ f.conn = c
      BY <1>5, <1>7, <1>8, <2>1, <2>3 DEF Awaited, ConnOps
    <2>4. CASE f.op \in ConnOps /\ f.conn # c
      <3>1. Awaited(f, m)'
        BY <1>8, <1>10, <2>1, <2>2, <2>4 DEF Awaited
      <3>. QED BY <1>7, <2>4, <3>1
    <2>5. CASE f.op \notin ConnOps
      BY <1>7, <1>8, <2>1, <2>5 DEF Awaited, ConnOps
    <2>. QED BY <2>3, <2>4, <2>5
  <1>13. CASE l = Base
    BY <1>4, <1>8, <1>11, <1>12, <1>13 DEF Sound, Queued, Once
  <1>14. CASE l # Base
    <2>1. PICK r : r = funcs'
      OBVIOUS
    <2>2. Added(funcs, l, x, r)
      BY <1>8, <1>9, <1>14, <2>1, QueueAdd
    <2>3. Awaited(x, l)'
      BY <1>7, <1>10, <1>14 DEF Awaited
    <2>4. Queued'
      BY <1>12, <2>1, <2>2, <2>3 DEF Queued, Added
    <2>5. Once'
      BY <1>12, <2>1, <2>2 DEF Once, Sound, Added
    <2>. QED BY <1>4, <1>8, <1>11, <1>14, <2>4, <2>5
  <1>. QED BY <1>13, <1>14

(* The connection is established in its loop. *)
LEMMA Established ==
  ASSUME TypeOK, Sound, NEW l \in Loops, RunEstablished(l)
  PROVE  aborted' = "no" /\ Open' /\ Queued' /\ Once'
  <1>1. PICK c \in Conns, h \in Fns, q \in [Loops -> Seq(Fns)] :
          c = Arg(l) /\ h = Head(funcs[l]) /\ q = Rest(l)
    BY TakeFacts DEF RunEstablished, ConnOps
  <1>2. /\ h.op = "established" /\ h.conn = c /\ Among(h, funcs[l])
        /\ \A m \in Loops : \A f : Among(f, q[m]) => Among(f, funcs[m])
        /\ EachUnique(q) /\ ~Among(h, q[l])
    BY <1>1, TakeFacts DEF RunEstablished, ConnOps, Sound
  <1>3. status[c] = "Connecting" /\ loopOf[c] = l
    BY <1>2 DEF Sound, Queued, Awaited
  <1>4. /\ status' = [status EXCEPT ![c] = "Connected"] /\ funcs' = q /\ aborted' = "no"
        /\ UNCHANGED <<connSet_, loopOf, accepted, stopAt, acceptor>>
    BY <1>1, <1>3 DEF RunEstablished, Sound, srv
  <1>5. status'[c] = "Connected" /\ \A d \in Conns : d # c => status'[d] = status[d]
    BY <1>4 DEF TypeOK, Connections
  <1>6. Open'
    BY <1>3, <1>4, <1>5 DEF Sound, Open
  <1>7. ASSUME NEW m \in Loops, NEW f \in Fns, Among(f, q[m]) PROVE Awaited(f, m)'
    <2>1. Awaited(f, m)
      BY <1>2, <1>7 DEF Sound, Queued
    <2>2. f.op \in ConnOps => f.conn \in Conns
      BY FnConn
    <2>3. CASE f.op \in ConnOps /\ f.conn = c
      <3>1. f.op # "established"
        <4>1. SUFFICES ASSUME f.op = "established" PROVE FALSE
          OBVIOUS
        <4>2. f = h
          BY <1>2, <2>3, <4>1 DEF Fns, ConnOps
        <4>3. m = l
          BY <1>3, <2>1, <2>3, <4>1 DEF Awaited
        <4>. QED BY <1>2, <1>7, <4>2, <4>3
      <3>. QED BY <1>3, <2>1, <2>3, <3>1 DEF Awaited, ConnOps
    <2>4. CASE f.op \in ConnOps /\ f.conn # c
      BY <1>4, <1>5, <2>1, <2>2, <2>4 DEF Awaited
    <2>5. CASE f.op \notin ConnOps
      BY <1>4, <2>1, <2>5 DEF Awaited, ConnOps
    <2>. QED BY <2>3, <2>4, <2>5
  <1>. QED BY <1>2, <1>4, <1>6, <1>7 DEF Queued, Once

(* connectDestroyed. *)
LEMMA Destroyed ==
  ASSUME TypeOK, Sound, NEW l \in Loops, RunDestroyed(l)
  PROVE  Open' /\ Queued' /\ Once'
  <1>1. PICK c \in Conns, h \in Fns, q \in [Loops -> Seq(Fns)] :
          c = Arg(l) /\ h = Head(funcs[l]) /\ q = Rest(l)
    BY TakeFacts DEF RunDestroyed, ConnOps
  <1>2. /\ h.op = "destroyed" /\ h.conn = c /\ Among(h, funcs[l])
        /\ \A m \in Loops : \A f : Among(f, q[m]) => Among(f, funcs[m])
        /\ EachUnique(q)
    BY <1>1, TakeFacts DEF RunDestroyed, ConnOps, Sound
  <1>3. status[c] \in {"Disconnected", "gone"} /\ c \notin connSet_
    BY <1>2 DEF Sound, Queued, Awaited
  <1>4. /\ status' = [status EXCEPT ![c] = "gone"] /\ funcs' = q
        /\ UNCHANGED <<connSet_, loopOf, accepted, stopAt, acceptor>>
    BY <1>1 DEF RunDestroyed, srv
  <1>5. status'[c] = "gone" /\ \A d \in Conns : d # c => status'[d] = status[d]
    BY <1>4 DEF TypeOK, Connections
  <1>6. Open'
    BY <1>3, <1>4, <1>5 DEF Sound, Open
  <1>7. ASSUME NEW m \in Loops, NEW f \in Fns, Among(f, q[m]) PROVE Awaited(f, m)'
    <2>1. Awaited(f, m)
      BY <1>2, <1>7 DEF Sound, Queued
    <2>2. f.op \in ConnOps => f.conn \in Conns
      BY FnConn
    <2>3. CASE f.op \in ConnOps /\ f.conn = c
      BY <1>3, <1>4, <1>5, <2>1, <2>3 DEF Awaited, ConnOps
    <2>4. CASE f.op \in ConnOps /\ f.conn # c
      BY <1>4, <1>5, <2>1, <2>2, <2>4 DEF Awaited
    <2>5. CASE f.op \notin ConnOps
      BY <1>4, <2>1, <2>5 DEF Awaited, ConnOps
    <2>. QED BY <2>3, <2>4, <2>5
  <1>. QED BY <1>2, <1>4, <1>6, <1>7 DEF Queued, Once

(* handleCloseInLoop, which connectionClosed had queued.  The loop of the  *)
(* connection may have ended, but only with the whole pool.                *)
LEMMA Closed ==
  ASSUME TypeOK, Sound, RunClosed
  PROVE  (aborted' = "no" /\ Open' /\ Queued' /\ Once') \/ PoolUsed'
  <1>0. Base \in Loops /\ Take(Base, "closed") /\ "closed" \in ConnOps
    BY BaseIsLoop DEF RunClosed, ConnOps
  <1>1. PICK c \in Conns, h \in Fns, q \in [Loops -> Seq(Fns)] :
          c = Arg(Base) /\ h = Head(funcs[Base]) /\ q = Rest(Base)
    BY <1>0, TakeFacts
  <1>2. /\ h.op = "closed" /\ h.conn = c /\ Among(h, funcs[Base])
        /\ \A m \in Loops : \A f : Among(f, q[m]) => Among(f, funcs[m])
        /\ EachUnique(q) /\ ~Among(h, q[Base])
    BY <1>0, <1>1, TakeFacts DEF Sound
  <1>3. status[c] = "Disconnected" /\ c \in connSet_ /\ loopOf[c] # Base
    BY <1>0, <1>2 DEF Sound, Queued, Awaited
  <1>4. handleCloseInLoop(c, q) /\ UNCHANGED <<status, loopOf, accepted, stopAt, acceptor>>
    BY <1>1 DEF RunClosed, cns
  <1>5. ASSUME NEW m \in Loops, NEW f \in Fns, Among(f, q[m]), f.op \in {"established", "closed"}
        PROVE  f.conn # c
    <2>. SUFFICES ASSUME f.conn = c PROVE FALSE
      OBVIOUS
    <2>1. Awaited(f, m)
      BY <1>2, <1>5 DEF Sound, Queued
    <2>2. f.op = "closed"
      BY <1>3, <1>5, <2>1 DEF Awaited
    <2>3. f = h
      BY <1>2, <2>2 DEF Fns, ConnOps
    <2>4. m = Base
      BY <2>1, <2>2 DEF Awaited
    <2>. QED BY <1>2, <1>5, <2>3, <2>4
  <1>6. status' \in [Conns -> Statuses] /\ status'[c] = "Disconnected"
        /\ \A d \in Conns : d # c => status'[d] = status[d]
    BY <1>3, <1>4 DEF TypeOK, Connections
  <1>7. CASE loopOf[c] \in live
    BY <1>2, <1>3, <1>4, <1>5, <1>6, <1>7, Erased
  <1>8. CASE loopOf[c] \notin live
    <2>1. own /\ stopAt \in {"join", "wheels", "done"}
      <3>1. live # Loops
        BY <1>8 DEF TypeOK, Settled
      <3>. QED BY <3>1 DEF Sound, Alive
    <2>2. stopAt = "done"
      BY <2>1 DEF RunClosed, Take, Turns, Busy
    <2>3. live = {Base}
      BY <2>1, <2>2 DEF Sound, Alive
    <2>4. aborted' = "dangling" /\ UNCHANGED <<own, live, stopAt, status, loopOf>>
      BY <1>3, <1>4, <1>8 DEF handleCloseInLoop, RunClosed, cfg, cns
    <2>. QED BY <1>3, <2>1, <2>2, <2>3, <2>4 DEF PoolUsed
  <1>. QED BY <1>7, <1>8

LEMMA InitSound == Init => Sound
  <1>. SUFFICES ASSUME Init PROVE Sound
    OBVIOUS
  <1>1. Alive /\ Phases /\ WheelsMade /\ Open
    BY BaseIsLoop DEF Init, Alive, Phases, WheelsMade, Open
  <1>2. \A l \in Loops : funcs[l] = <<>>
    BY DEF Init
  <1>3. Queued /\ Once
    BY <1>2 DEF Queued, Among, Once, EachUnique, Unique
  <1>. QED BY <1>1, <1>3 DEF Init, Sound

(* The server stays sound, until it uses the pool that it has ended. *)
LEMMA SoundStep ==
  ASSUME TypeOK, Sound, Next
  PROVE  Sound' \/ PoolUsed'
  <1>. USE DEF cfg, srv, cns, fds
  <1>0. /\ aborted = "no" /\ Alive /\ Phases /\ WheelsMade /\ Open /\ Queued /\ Once
        /\ funcs \in [Loops -> Seq(Fns)] /\ own \in BOOLEAN
        /\ \A m \in Loops : \A f : Among(f, funcs[m]) => Among(f, funcs[m])
    BY DEF Sound, TypeOK, Connections, Settled
  <1>1. CASE Start
    <2>1. acceptor = "new" /\ ~started_ /\ stopAt = "no" /\ started_' /\ acceptor' = "listening"
      BY <1>0, <1>1 DEF Start, Phases
    <2>2. UNCHANGED <<status, loopOf, connSet_, accepted, funcs, live, aborted, stopAt, ioLoops_, own, idle>>
      BY <1>1 DEF Start
    <2>3. Open' /\ Queued'
      BY <2>1, <2>2, Calm
    <2>4. WheelsMade'
      <3>1. idle => wheels' = ToSet(ioLoops_)
        BY <1>1 DEF Start
      <3>2. ioLoops_ \in Seq(Loops)
        BY DEF TypeOK, Settled
      <3>. QED BY <2>2, <3>1, <3>2 DEF WheelsMade, ToSet
    <2>5. Phases'
      BY <2>1, <2>2 DEF Phases
    <2>. QED BY <1>0, <2>2, <2>3, <2>4, <2>5 DEF Sound, Alive, Once
  <1>2. CASE Arrive \/ AcceptFull \/ AcceptFails \/ OtherFd
    <2>1. UNCHANGED <<cfg, srv, cns, funcs, live, aborted>>
      BY <1>2 DEF Arrive, AcceptFull, AcceptFails, OtherFd
    <2>2. Open' /\ Queued'
      BY <2>1, Calm
    <2>. QED BY <1>0, <2>1, <2>2 DEF Sound, Alive, Once, Phases, WheelsMade
  <1>3. CASE Accept
    <2>1. UNCHANGED <<ioLoops_, own, idle, started_, acceptor, wheels, stopAt, live>>
      BY <1>3 DEF Accept
    <2>. QED BY <1>0, <1>3, <2>1, Accepted DEF Sound, Alive, Phases, WheelsMade
  <1>4. CASE PeerCloses
    <2>1. PICK c \in Conns : status[c] = "Connected" /\ HandleClose(c, funcs)
      BY <1>4 DEF PeerCloses
    <2>2. UNCHANGED <<ioLoops_, own, idle, started_, acceptor, wheels, stopAt, live, loopOf, accepted>>
      BY <1>4 DEF PeerCloses
    <2>3. aborted' = "no" /\ Open' /\ Queued' /\ Once'
      BY <1>0, <2>1, <2>2, Handled DEF Once
    <2>. QED BY <1>0, <2>2, <2>3 DEF Sound, Alive, Phases, WheelsMade
  <1>5. CASE StopHere
    <2>1. CloseAll(funcs) /\ acceptor' = "gone" /\ stopAt' = "join" /\ started_
      BY <1>5 DEF StopHere, CloseAll
    <2>2. UNCHANGED <<own, started_, loopOf, accepted, live, aborted>> /\ stopAt = "no"
      BY <1>5 DEF StopHere
    <2>3. Open' /\ Queued' /\ Once'
      BY <1>0, <2>1, <2>2, AllClosed DEF Once
    <2>. QED BY <1>0, <2>1, <2>2, <2>3 DEF Sound, Alive, Phases, WheelsMade
  <1>6. CASE StopAway
    <2>1. PICK x \in Fns : x = Fn("stop", 0)
      BY FnMade
    <2>2. /\ started_ /\ stopAt = "no" /\ stopAt' = "queued"
          /\ funcs' = [funcs EXCEPT ![Base] = Append(@, x)]
          /\ UNCHANGED <<cfg, started_, acceptor, connSet_, wheels, cns, live, aborted>>
      BY <1>6, <2>1 DEF StopAway
    <2>3. x.op = "stop"
      BY <2>1 DEF Fn
    <2>4. PICK r : r = funcs'
      OBVIOUS
    <2>5. Added(funcs, Base, x, r)
      BY <1>0, <2>2, <2>4, BaseIsLoop, QueueAdd
    <2>6. Once'
      BY <1>0, <2>3, <2>4, <2>5 DEF Once, Added
    <2>7. Open' /\ Queued'
      BY <2>2, <2>3, <2>4, <2>5, Calm DEF Added
    <2>. QED BY <1>0, <2>2, <2>6, <2>7 DEF Sound, Alive, Phases, WheelsMade
  <1>7. CASE StopJoin
    <2>1. /\ stopAt = "join"
          /\ UNCHANGED <<cfg, started_, acceptor, connSet_, wheels, cns, funcs, aborted>>
      BY <1>7 DEF StopJoin
    <2>2. /\ stopAt' \in {"join", "wheels"} /\ Base \in live'
          /\ live' # live => own /\ stopAt' = "join"
          /\ own /\ stopAt' = "wheels" => live' = {Base}
      <3>1. CASE own /\ live # {Base}
        <4>1. PICK l \in live : l # Base /\ l = CHOOSE k \in live : k # Base
          BY <1>0, <3>1 DEF Alive
        <4>2. live' = live \ {l} /\ stopAt' = "join"
          BY <1>7, <3>1, <4>1 DEF StopJoin
        <4>. QED BY <1>0, <3>1, <4>1, <4>2 DEF Alive
      <3>2. CASE ~own \/ live = {Base}
        <4>1. stopAt' = "wheels" /\ live' = live
          BY <1>7, <3>2 DEF StopJoin
        <4>. QED BY <1>0, <3>2, <4>1 DEF Alive
      <3>. QED BY <3>1, <3>2
    <2>3. Alive'
      BY <1>0, <2>1, <2>2 DEF Alive
    <2>4. Open' /\ Queued'
      BY <2>1, Calm
    <2>. QED BY <1>0, <2>1, <2>2, <2>3, <2>4 DEF Sound, Once, Phases, WheelsMade
  <1>8. CASE StopWheel
    <2>1. /\ stopAt = "wheels" /\ stopAt' \in {"wheels", "done"} /\ acceptor = "gone"
          /\ UNCHANGED <<cfg, started_, acceptor, connSet_, cns, live>>
      BY <1>0, <1>8 DEF StopWheel, Phases
    <2>2. CASE UNCHANGED <<funcs, aborted>>
      <3>1. Open' /\ Queued'
        BY <2>1, <2>2, Calm
      <3>. QED BY <1>0, <2>1, <2>2, <3>1 DEF Sound, Alive, Once, Phases, WheelsMade
    <2>3. CASE ~UNCHANGED <<funcs, aborted>>
      <3>1. PICK l \in wheels : Queue(l, WheelFn)
        BY <1>8, <2>3 DEF StopWheel
      <3>2. PICK x \in Fns : x = WheelFn
        BY FnMade DEF WheelFn
      <3>3. l \in Loops /\ x.op = "wheel"
        BY <3>2 DEF TypeOK, Stages, Fn, WheelFn
      <3>4. CASE l \notin live
        <4>1. live # Loops
          BY <3>3, <3>4
        <4>2. own /\ live = {Base}
          BY <1>0, <2>1, <4>1 DEF Alive
        <4>3. aborted' = "dangling"
          BY <3>1, <3>4 DEF Queue
        <4>4. UNCHANGED <<stopAt, wheels>> /\ wheels # {}
          BY <1>8, <2>3 DEF StopWheel
        <4>. QED BY <2>1, <4>2, <4>3, <4>4 DEF PoolUsed
      <3>. SUFFICES ASSUME l \in live PROVE Sound'
        BY <3>4
      <3>9. funcs' = [funcs EXCEPT ![l] = Append(@, x)] /\ UNCHANGED aborted
        BY <3>1, <3>2 DEF Queue
      <3>5. PICK r : r = funcs'
        OBVIOUS
      <3>6. Added(funcs, l, x, r)
        BY <1>0, <3>3, <3>5, <3>9, QueueAdd
      <3>7. Once'
        BY <1>0, <3>3, <3>5, <3>6 DEF Once, Added
      <3>8. Open' /\ Queued'
        BY <2>1, <3>3, <3>5, <3>6, Calm DEF Added
      <3>. QED BY <1>0, <2>1, <3>7, <3>8, <3>9 DEF Sound, Alive, Phases, WheelsMade
    <2>. QED BY <2>2, <2>3
  <1>9. ASSUME NEW l \in Loops, RunEstablished(l) PROVE Sound'
    <2>1. UNCHANGED <<cfg, srv, live>>
      BY <1>9 DEF RunEstablished
    <2>2. aborted' = "no" /\ Open' /\ Queued' /\ Once'
      BY <1>9, Established
    <2>. QED BY <1>0, <2>1, <2>2 DEF Sound, Alive, Phases, WheelsMade
  <1>10. ASSUME NEW l \in Loops, RunForce(l) PROVE Sound'
    <2>1. /\ Arg(l) \in Conns /\ Rest(l) \in [Loops -> Seq(Fns)] /\ EachUnique(Rest(l))
          /\ \A m \in Loops : \A f : Among(f, Rest(l)[m]) => Among(f, funcs[m])
      BY <1>0, <1>10, TakeFacts DEF RunForce, ConnOps
    <2>2. UNCHANGED <<ioLoops_, own, idle, started_, acceptor, wheels, stopAt, live, loopOf, accepted>>
      BY <1>10 DEF RunForce
    <2>3. aborted' = "no" /\ Open' /\ Queued' /\ Once'
      <3>1. CASE status[Arg(l)] = "Connected"
        <4>1. HandleClose(Arg(l), Rest(l))
          BY <1>10, <3>1 DEF RunForce
        <4>2. PICK c \in Conns, q \in [Loops -> Seq(Fns)] : c = Arg(l) /\ q = Rest(l)
          BY <2>1
        <4>. QED BY <2>1, <2>2, <3>1, <4>1, <4>2, Handled
      <3>2. CASE status[Arg(l)] # "Connected"
        <4>1. funcs' = Rest(l) /\ UNCHANGED <<status, connSet_, aborted>>
          BY <1>10, <3>2 DEF RunForce
        <4>. QED BY <1>0, <2>1, <2>2, <4>1, Calm DEF Once
      <3>. QED BY <3>1, <3>2
    <2>. QED BY <1>0, <2>2, <2>3 DEF Sound, Alive, Phases, WheelsMade
  <1>11. ASSUME NEW l \in Loops, RunDestroyed(l) PROVE Sound'
    <2>1. UNCHANGED <<cfg, srv, live, aborted>>
      BY <1>11 DEF RunDestroyed
    <2>2. Open' /\ Queued' /\ Once'
      BY <1>11, Destroyed
    <2>. QED BY <1>0, <2>1, <2>2 DEF Sound, Alive, Phases, WheelsMade
  <1>12. ASSUME NEW l \in Loops, RunWheel(l) PROVE Sound'
    <2>1. funcs[l] # <<>> /\ Head(funcs[l]).op = "wheel"
      BY <1>12 DEF RunWheel, Take
    <2>2. /\ Head(funcs[l]) \in Fns /\ Among(Head(funcs[l]), funcs[l]) /\ EachUnique(Rest(l))
          /\ \A m \in Loops : \A f : Among(f, Rest(l)[m]) => Among(f, funcs[m])
      BY <1>0, <2>1, QueueRest
    <2>3. acceptor = "gone"
      BY <1>0, <2>1, <2>2 DEF Queued, Awaited
    <2>4. funcs' = Rest(l) /\ UNCHANGED <<cfg, started_, acceptor, connSet_, stopAt, cns, live, aborted>>
      BY <1>12 DEF RunWheel
    <2>5. Open' /\ Queued'
      BY <2>2, <2>4, Calm
    <2>. QED BY <1>0, <2>2, <2>3, <2>4, <2>5 DEF Sound, Alive, Once, Phases, WheelsMade
  <1>13. CASE RunClosed
    <2>1. UNCHANGED <<cfg, started_, acceptor, wheels, stopAt, live>>
      BY <1>13 DEF RunClosed
    <2>2. (aborted' = "no" /\ Open' /\ Queued' /\ Once') \/ PoolUsed'
      BY <1>13, Closed
    <2>. QED BY <1>0, <2>1, <2>2 DEF Sound, Alive, Phases, WheelsMade
  <1>14. CASE RunStop
    <2>1. /\ CloseAll(Rest(Base)) /\ acceptor' = "gone" /\ stopAt' = "hung"
          /\ funcs[Base] # <<>> /\ Head(funcs[Base]).op = "stop"
      BY <1>14 DEF RunStop, CloseAll, Take
    <2>2. PICK q \in [Loops -> Seq(Fns)] : q = Rest(Base)
      BY <1>0, <2>1, BaseIsLoop, QueueRest
    <2>3. /\ Head(funcs[Base]) \in Fns /\ Among(Head(funcs[Base]), funcs[Base]) /\ EachUnique(q)
          /\ \A m \in Loops : \A f : Among(f, q[m]) => Among(f, funcs[m])
      BY <1>0, <2>1, <2>2, BaseIsLoop, QueueRest
    <2>4. stopAt \in {"queued", "hung"} /\ started_
      BY <1>0, <2>1, <2>3, BaseIsLoop DEF Queued, Awaited, Phases
    <2>5. UNCHANGED <<own, started_, loopOf, accepted, live, aborted>>
      BY <1>14 DEF RunStop
    <2>6. Open' /\ Queued' /\ Once'
      BY <2>1, <2>2, <2>3, <2>5, AllClosed
    <2>. QED BY <1>0, <2>1, <2>4, <2>5, <2>6 DEF Sound, Alive, Phases, WheelsMade
  <1>. QED BY <1>1, <1>2, <1>3, <1>4, <1>5, <1>6, <1>7, <1>8, <1>9, <1>10, <1>11, <1>12,
              <1>13, <1>14 DEF Next, Stopping, Run, RunIn

(* Nothing moves once the pool has been used. *)
LEMMA UsedStays ==
  ASSUME PoolUsed
  PROVE  ~Next
BY DEF PoolUsed, Next, Turns, Take, Start, Arrive, Accept, AcceptFull, AcceptFails, OtherFd,
       PeerCloses, StopHere, StopAway, Stopping, StopJoin, StopWheel, Run, RunIn,
       RunEstablished, RunForce, RunDestroyed, RunWheel, RunClosed, RunStop

LEMMA TypesKept ==
  ASSUME TypeOK, [Next]_vars
  PROVE  TypeOK'
  <1>1. CASE UNCHANGED vars
    BY <1>1 DEF vars, cfg, srv, cns, fds, TypeOK, Settled, Stages, Connections
  <1>. QED BY <1>1, TypeStep

LEMMA InvStep ==
  ASSUME Inv, [Next]_vars
  PROVE  Inv'
  <1>1. TypeOK /\ TypeOK'
    BY TypesKept DEF Inv
  <1>2. CASE Next
    <2>1. Sound
      BY <1>2, UsedStays DEF Inv
    <2>. QED BY <1>1, <1>2, <2>1, SoundStep DEF Inv
  <1>3. CASE UNCHANGED vars
    <2>1. UNCHANGED <<ioLoops_, own, idle, started_, acceptor, wheels, stopAt, live, aborted>>
          /\ UNCHANGED <<status, loopOf, connSet_, accepted, funcs>>
      BY <1>3 DEF vars, cfg, srv, cns
    <2>2. CASE PoolUsed
      BY <1>1, <2>1, <2>2 DEF Inv, PoolUsed
    <2>3. CASE Sound
      <3>1. Open' /\ Queued'
        BY <1>1, <2>1, <2>3, Calm
      <3>. QED BY <1>1, <2>1, <2>3, <3>1 DEF Inv, Sound, Alive, Phases, WheelsMade, Once
    <2>. QED BY <2>2, <2>3 DEF Inv
  <1>. QED BY <1>2, <1>3

(* Types: what is queued to a loop is a function of the server or of one   *)
(* of its connections, and the connections accepted are among those that   *)
(* have arrived.                                                           *)
THEOREM ServerTypes == Spec => []TypeOK
  <1>1. Init => TypeOK
    BY InitTypes
  <1>2. TypeOK /\ [Next]_vars => TypeOK'
    BY TypesKept
  <1>. QED BY <1>1, <1>2, PTL DEF Spec

(* The inductive invariant: the status of a connection, its place in       *)
(* connSet_, the functions queued about it and the loops that live agree,  *)
(* also while stop() runs, until the server has used the pool it ended.    *)
THEOREM ServerSound == Spec => [](Sound \/ PoolUsed)
  <1>1. Init => Inv
    BY InitTypes, InitSound DEF Inv
  <1>2. Inv /\ [Next]_vars => Inv'
    BY InvStep
  <1>3. Inv => Sound \/ PoolUsed
    BY DEF Inv
  <1>. QED BY <1>1, <1>2, <1>3, PTL DEF Spec

(* No assertion of newConnection(), connectEstablished() and               *)
(* handleCloseInLoop() fails, and no function is given to a loop that has  *)
(* ended.  One exception is left (PoolUsed): stop() in the loop of the     *)
(* server has ended all of its own pool, and one of its loops is used for  *)
(* the reset of a wheel, or for a connection whose close came late.        *)
THEOREM ServerSafe == Spec => []NoAssertFails
  <1>1. Sound \/ PoolUsed => NoAssertFails
    BY DEF Sound, NoAssertFails
  <1>. QED BY <1>1, ServerSound, PTL

-----------------------------------------------------------------------------
(***************************************************************************)
(* The timing wheels of a loop, for any number of connections and calls.   *)
(***************************************************************************)
\* What an item of the wheels is.
IsItem(x) ==
  /\ x = [owner |-> x.owner, num |-> x.num, path |-> x.path, due |-> x.due, inTick |-> x.inTick]
  /\ x.owner \in Peers /\ x.num \in Nat

\* The shape of the wheels, and what every item in them is.
Wheeled ==
  /\ wheels_ = [i \in Wheels |-> [k \in 0 .. b - 1 |-> wheels_[i][k]]]
  /\ \A i \in Wheels, k \in 0 .. b - 1 : \A x \in wheels_[i][k] :
       IsItem(x) /\ x.num <= entry[x.owner]

\* The types of the variables.
WheelTypeOK ==
  /\ \E s \in Shapes : b = s[1] /\ timeout = s[2]
  /\ ticksCounter_ \in Nat /\ part \in 0 .. Parts - 1
  /\ kicking \in BOOLEAN
  /\ idleTimeout_ \in [Peers -> Nat] /\ idleTimeoutBackup_ \in [Peers -> Nat]
  /\ entry \in [Peers -> Nat] /\ lastUpdate \in [Peers -> Nat]
  /\ conn \in [Peers -> {"none", "open", "kicked", "closed"}]
  /\ lastUse \in [Peers -> Nat] /\ kept \in [Peers -> BOOLEAN] /\ midTick \in [Peers -> BOOLEAN]

\* Is x an item of the entry that connection c has now?
Current(x, c) == x.owner = c /\ x.num = entry[c]

\* A connection that is kept alive has no time-out left to start again, and no
\* item left in the wheels.
Alone ==
  \A c \in Peers : kept[c] =>
    /\ conn[c] \notin {"none", "kicked"}
    /\ idleTimeout_[c] = 0 /\ idleTimeoutBackup_[c] = 0
    /\ \A i \in Wheels, k \in 0 .. b - 1 : \A x \in wheels_[i][k] : ~Current(x, c)

\* What the constants are.
LEMMA Numbers ==
  ASSUME WheelTypeOK
  PROVE  b \in Nat \ {0, 1} /\ timeout \in Nat \ {0, 1} /\ Parts \in Nat \ {0} /\ now \in Nat
  BY ShapesAssumption, PartsAssumption DEF WheelTypeOK, b, now

\* The types hold at the start and after each step.
LEMMA TypeInit ==
  ASSUME WheelInit
  PROVE  WheelTypeOK
<1>1. PICK s \in Shapes : bucketsNumPerWheel_ = s[1] /\ timeout = s[2]
  BY Zenon DEF WheelInit
<1>2. \E z \in Shapes : bucketsNumPerWheel_ = z[1] /\ timeout = z[2]
  BY <1>1
<1>3. /\ ticksCounter_ = 0 /\ part = 0 /\ kicking = FALSE
      /\ idleTimeout_ = [c \in Peers |-> 0] /\ idleTimeoutBackup_ = [c \in Peers |-> 0]
      /\ entry = [c \in Peers |-> 0] /\ lastUpdate = [c \in Peers |-> 0]
      /\ conn = [c \in Peers |-> "none"] /\ lastUse = [c \in Peers |-> 0]
      /\ kept = [c \in Peers |-> FALSE] /\ midTick = [c \in Peers |-> FALSE]
  BY Zenon DEF WheelInit
<1>4. part \in 0 .. Parts - 1
  BY <1>3, PartsAssumption
<1>. QED
  BY <1>2, <1>3, <1>4 DEF WheelTypeOK, b

LEMMA MidTick ==
  ASSUME WheelTypeOK, NEW c \in Peers, NEW e, NEW delay, insertEntryInloop(c, e, delay)
  PROVE  midTick' \in [Peers -> BOOLEAN]
<1>. DEFINE q == turning < wheelsNum_
<1>1. midTick' = [midTick EXCEPT ![c] = q]
  BY Zenon DEF insertEntryInloop
<1>2. midTick \in [Peers -> BOOLEAN] /\ q \in BOOLEAN
  BY DEF WheelTypeOK
<1>. HIDE DEF q
<1>. QED
  BY <1>1, <1>2

LEMMA WheelTypeStep ==
  ASSUME WheelTypeOK, [WheelNext]_wheelVars
  PROVE  WheelTypeOK'
<1>n. b \in Nat \ {0, 1} /\ timeout \in Nat \ {0, 1} /\ Parts \in Nat \ {0} /\ now \in Nat
  BY Numbers
<1>. USE DEF WheelTypeOK, b
<1>1. CASE PartPasses
  <2>1. part' = part + 1 /\ part < Parts - 1
    BY <1>1 DEF PartPasses
  <2>2. part' \in 0 .. Parts - 1
    BY <2>1, <1>n
  <2>3. kicking' \in BOOLEAN
    BY <1>1, Zenon DEF PartPasses
  <2>. QED
    BY <1>1, <2>2, <2>3 DEF PartPasses, kickoff
<1>2. CASE Tick
  <2>1. part' = 0 /\ ticksCounter_' = ticksCounter_ + 1
    BY <1>2, Zenon DEF Tick
  <2>2. part' \in 0 .. Parts - 1 /\ ticksCounter_' \in Nat
    BY <2>1, <1>n
  <2>3. kicking' \in BOOLEAN
    BY <1>2, Zenon DEF Tick
  <2>. QED
    BY <1>2, <2>2, <2>3 DEF Tick, kickoff
<1>3. CASE Turn
  <2>1. conn' \in [Peers -> {"none", "open", "kicked", "closed"}]
    BY <1>3 DEF Turn
  <2>2. kicking' \in BOOLEAN
    BY <1>3, Zenon DEF Turn
  <2>. QED
    BY <1>3, <2>1, <2>2 DEF Turn, kickoff
<1>4. CASE Destroy
  <2>1. conn' \in [Peers -> {"none", "open", "kicked", "closed"}]
    BY <1>4 DEF Destroy
  <2>. QED
    BY <1>4, <2>1 DEF Destroy
<1>5. ASSUME NEW c \in Peers, enableKickingOff(c)
      PROVE  WheelTypeOK'
  <2>1. midTick' \in [Peers -> BOOLEAN]
    BY <1>5, MidTick, Zenon DEF enableKickingOff
  <2>. HIDE DEF insertEntryInloop
  <2>. QED
    BY <1>5, <2>1, <1>n DEF enableKickingOff, clock
<1>6. ASSUME NEW c \in Peers, extendLife(c)
      PROVE  WheelTypeOK'
  <2>1. midTick' \in [Peers -> BOOLEAN]
    BY <1>6, MidTick, Zenon DEF extendLife, WheelTypeOK
  <2>. HIDE DEF insertEntryInloop
  <2>. QED
    BY <1>6, <2>1, <1>n DEF extendLife, clock
<1>7. ASSUME NEW c \in Peers, keepAlive(c)
      PROVE  WheelTypeOK'
  BY <1>7, <1>n DEF keepAlive, clock, wheel
<1>8. ASSUME NEW c \in Peers, SuspendKickoff(c)
      PROVE  WheelTypeOK'
  BY <1>8, <1>n DEF SuspendKickoff, clock, wheel
<1>9. ASSUME NEW c \in Peers, ResumeKickoff(c)
      PROVE  WheelTypeOK'
  <2>1. midTick' \in [Peers -> BOOLEAN]
    BY <1>9, MidTick, Zenon DEF ResumeKickoff
  <2>. HIDE DEF insertEntryInloop
  <2>. QED
    BY <1>9, <2>1, <1>n DEF ResumeKickoff, clock
<1>10. ASSUME NEW c \in Peers, Close(c)
       PROVE  WheelTypeOK'
  BY <1>10, <1>n DEF Close, clock, wheel
<1>11. CASE UNCHANGED wheelVars
  BY <1>11 DEF wheelVars, wheel, clock, kickoff
<1>. QED
  BY <1>1, <1>2, <1>3, <1>4, <1>5, <1>6, <1>7, <1>8, <1>9, <1>10, <1>11 DEF WheelNext, Call

-----------------------------------------------------------------------------
(* Connections that are kept alive, whatever the number of wheels *)

\* Whatever wheel and bucket the delay asks for, one item is added.
LEMMA Inserted ==
  ASSUME WheelTypeOK, Wheeled, NEW c \in Peers, NEW delay, insertEntryInloop(c, entry[c], delay)
  PROVE  /\ wheels_' = [i \in Wheels |-> [k \in 0 .. b - 1 |-> wheels_'[i][k]]]
         /\ \A i \in Wheels, k \in 0 .. b - 1 : \A x \in wheels_'[i][k] :
              x \in wheels_[i][k] \/ x = Item(c, entry[c], delay + 1)
         /\ IsItem(Item(c, entry[c], delay + 1))
<1>1. PICK l, k : wheels_' = [wheels_ EXCEPT ![l][k] = @ \cup {Item(c, entry[c], delay + 1)}]
  BY Zenon DEF insertEntryInloop
<1>2. wheels_ = [i \in Wheels |-> [j \in 0 .. b - 1 |-> wheels_[i][j]]]
  BY Zenon DEF Wheeled
<1>3. entry[c] \in Nat
  BY DEF WheelTypeOK
<1>4. IsItem(Item(c, entry[c], delay + 1))
  <2>. DEFINE p == [j \in 1 .. Level(delay + 1) |-> Slot(delay + 1, Level(delay + 1) - j)]
              t == ticksCounter_ + (delay + 1)
              q == turning < wheelsNum_
  <2>1. Item(c, entry[c], delay + 1)
          = [owner |-> c, num |-> entry[c], path |-> p, due |-> t, inTick |-> q]
    BY Zenon DEF Item
  <2>. HIDE DEF p, t, q
  <2>. QED
    BY <2>1, <1>3 DEF IsItem
<1>. HIDE DEF Wheels
<1>. QED
  BY <1>1, <1>2, <1>4

\* A wheel that turns makes no item: it may change the path of one.
LEMMA TurnedItems ==
  ASSUME WheelTypeOK, Wheeled, NEW t \in Wheels, wheels_' = Turned(t)
  PROVE  /\ wheels_' = [i \in Wheels |-> [k \in 0 .. b - 1 |-> wheels_'[i][k]]]
         /\ \A i \in Wheels, k \in 0 .. b - 1 : \A x \in wheels_'[i][k] :
              /\ IsItem(x)
              /\ \E j \in Wheels, n \in 0 .. b - 1 : \E y \in wheels_[j][n] :
                   x.owner = y.owner /\ x.num = y.num
<1>n. b \in Nat \ {0, 1}
  BY Numbers
<1>2. wheels_ = [i \in Wheels |-> [j \in 0 .. b - 1 |-> wheels_[i][j]]]
  BY Zenon DEF Wheeled
<1>. DEFINE shifted == [wheels_ EXCEPT ![t] =
                    [k \in 0 .. b - 1 |-> IF k = b - 1 THEN {} ELSE wheels_[t][k + 1]]]
            into(k) == {[x EXCEPT !.path = Tail(@)] : x \in {y \in wheels_[t][0] : Head(y.path) = k}}
<1>3. /\ shifted = [i \in Wheels |-> [k \in 0 .. b - 1 |-> shifted[i][k]]]
      /\ \A i \in Wheels, k \in 0 .. b - 1 : \A x \in shifted[i][k] :
           \E n \in 0 .. b - 1 : x \in wheels_[i][n]
  <2>1. shifted = [i \in Wheels |-> shifted[i]]
    BY <1>2 DEF Wheels
  <2>2. ASSUME NEW i \in Wheels, i # t
        PROVE  shifted[i] = wheels_[i] /\ wheels_[i] = [k \in 0 .. b - 1 |-> wheels_[i][k]]
    <3>. HIDE DEF Wheels
    <3>. QED
      BY <2>2, <1>2
  <2>3. shifted[t] = [k \in 0 .. b - 1 |-> IF k = b - 1 THEN {} ELSE wheels_[t][k + 1]]
    <3>. HIDE DEF Wheels
    <3>. QED
      BY <1>2
  <2>4. ASSUME NEW i \in Wheels
        PROVE  /\ shifted[i] = [k \in 0 .. b - 1 |-> shifted[i][k]]
               /\ \A k \in 0 .. b - 1 : \A x \in shifted[i][k] :
                    \E n \in 0 .. b - 1 : x \in wheels_[i][n]
    <3>. HIDE DEF shifted, Wheels
    <3>1. CASE i # t
      BY <3>1, <2>2
    <3>2. CASE i = t
      BY <3>2, <2>3, <1>n
    <3>. QED
      BY <3>1, <3>2
  <2>. HIDE DEF shifted, Wheels
  <2>. QED
    BY <2>1, <2>4
<1>4. \A i \in Wheels, k \in 0 .. b - 1 : \A x \in wheels_[i][k] : IsItem(x)
  BY Zenon DEF Wheeled
<1>5. \A i \in Wheels, k \in 0 .. b - 1 : \A x \in shifted[i][k] :
        /\ IsItem(x)
        /\ \E j \in Wheels, n \in 0 .. b - 1 : \E y \in wheels_[j][n] :
             x.owner = y.owner /\ x.num = y.num
  <2>. HIDE DEF shifted, Wheels
  <2>. QED
    BY <1>3, <1>4
<1>6. ASSUME NEW k, NEW x \in into(k)
      PROVE  /\ IsItem(x)
             /\ \E j \in Wheels, n \in 0 .. b - 1 : \E y \in wheels_[j][n] :
                  x.owner = y.owner /\ x.num = y.num
  <2>1. PICK y \in wheels_[t][0] : x = [y EXCEPT !.path = Tail(@)]
    BY <1>6
  <2>2. IsItem(y) /\ 0 \in 0 .. b - 1
    BY <1>4, <1>n
  <2>3. IsItem(x) /\ x.owner = y.owner /\ x.num = y.num
    BY <2>1, <2>2 DEF IsItem
  <2>. QED
    BY <2>2, <2>3
<1>7. CASE t = 0
  <2>1. wheels_' = shifted
    BY <1>7, Zenon DEF Turned
  <2>. HIDE DEF shifted, Wheels
  <2>. QED
    BY <2>1, <1>3, <1>5
<1>8. CASE t # 0
  <2>1. wheels_' = [shifted EXCEPT ![t - 1] = [k \in 0 .. b - 1 |-> @[k] \cup into(k)]]
    BY <1>8, Zenon DEF Turned
  <2>2. wheels_' = [i \in Wheels |-> [k \in 0 .. b - 1 |-> wheels_'[i][k]]]
    <3>. HIDE DEF shifted, into, Wheels
    <3>. QED
      BY <2>1, <1>3
  <2>3. \A i \in Wheels, k \in 0 .. b - 1 : \A x \in wheels_'[i][k] :
          x \in shifted[i][k] \/ x \in into(k)
    <3>. HIDE DEF shifted, into, Wheels
    <3>. QED
      BY <2>1, <1>3
  <2>. HIDE DEF shifted, into, Wheels
  <2>. QED
    BY <2>2, <2>3, <1>5, <1>6
<1>. QED
  BY <1>7, <1>8

LEMMA WheeledInit ==
  ASSUME WheelInit
  PROVE  Wheeled /\ Alone
<1>1. PICK s \in Shapes :
        /\ bucketsNumPerWheel_ = s[1] /\ timeout = s[2]
        /\ wheels_ = [i \in 0 .. WheelsNum(s[1], s[2]) - 1 |-> [k \in 0 .. s[1] - 1 |-> {}]]
        /\ kept = [c \in Peers |-> FALSE]
  BY Zenon DEF WheelInit
<1>2. wheels_ = [i \in Wheels |-> [k \in 0 .. b - 1 |-> {}]]
  BY <1>1 DEF Wheels, wheelsNum_, b
<1>. HIDE DEF Wheels
<1>. QED
  BY <1>1, <1>2 DEF Wheeled, Alone

\* The wheels' number and size are those of the constructor.
LEMMA Fixed ==
  ASSUME [WheelNext]_wheelVars
  PROVE  b' = b /\ timeout' = timeout /\ wheelsNum_' = wheelsNum_ /\ Wheels' = Wheels
<1>1. bucketsNumPerWheel_' = bucketsNumPerWheel_ /\ timeout' = timeout
  <2>1. ASSUME NEW c \in Peers,
               \/ enableKickingOff(c) \/ extendLife(c) \/ keepAlive(c)
               \/ SuspendKickoff(c) \/ ResumeKickoff(c) \/ Close(c)
        PROVE  bucketsNumPerWheel_' = bucketsNumPerWheel_ /\ timeout' = timeout
    BY <2>1, Zenon DEF enableKickingOff, extendLife, keepAlive, SuspendKickoff, ResumeKickoff,
         Close, clock
  <2>. QED
    BY <2>1, Zenon DEF WheelNext, Call, PartPasses, Tick, Turn, Destroy, wheelVars, clock
<1>. QED
  BY <1>1 DEF b, Wheels, wheelsNum_

\* What KeptAlive needs of one step: how the items, the entries and the
\* connections change.
Shifts(w) ==
  /\ w = [i \in Wheels |-> [k \in 0 .. b - 1 |-> w[i][k]]]
  /\ \A i \in Wheels, k \in 0 .. b - 1 : \A x \in w[i][k] :
       /\ IsItem(x)
       /\ \E j \in Wheels, n \in 0 .. b - 1 : \E y \in wheels_[j][n] :
            x.owner = y.owner /\ x.num = y.num

LEMMA StayShifts ==
  ASSUME Wheeled
  PROVE  Shifts(wheels_)
BY Zenon DEF Wheeled, Shifts

\* A step that moves the items, and makes none.
LEMMA ShiftStep ==
  ASSUME WheelTypeOK, Wheeled, Alone, [WheelNext]_wheelVars, Shifts(wheels_'),
         UNCHANGED <<idleTimeout_, idleTimeoutBackup_, entry, kept>>,
         \A c \in Peers : conn'[c] = conn[c]
           \/ (conn'[c] = "kicked" /\ \E k \in 0 .. b - 1, i \in Wheels : \E x \in wheels_[i][k] : Current(x, c))
           \/ (conn'[c] = "closed" /\ conn[c] = "open")
  PROVE  Wheeled' /\ Alone'
<1>1. b' = b /\ Wheels' = Wheels
  BY Fixed
<1>. HIDE DEF Wheels, b
<1>2. Wheeled'
  BY <1>1 DEF Wheeled, Shifts, IsItem
<1>3. ASSUME NEW c \in Peers, kept'[c]
      PROVE  /\ conn'[c] \notin {"none", "kicked"}
             /\ idleTimeout_'[c] = 0 /\ idleTimeoutBackup_'[c] = 0
             /\ \A i \in Wheels, k \in 0 .. b - 1 : \A x \in wheels_'[i][k] : ~Current(x, c)'
  <2>1. /\ conn[c] \notin {"none", "kicked"}
        /\ idleTimeout_[c] = 0 /\ idleTimeoutBackup_[c] = 0
        /\ \A i \in Wheels, k \in 0 .. b - 1 : \A x \in wheels_[i][k] : ~Current(x, c)
    BY <1>3 DEF Alone
  <2>2. conn'[c] \notin {"none", "kicked"}
    BY <2>1
  <2>. QED
    BY <2>1, <2>2 DEF Shifts, Current
<1>4. Alone'
  BY <1>1, <1>3, Zenon DEF Alone
<1>. QED
  BY <1>2, <1>4

\* A step that inserts an item for connection c, of its current entry.
LEMMA InsertStep ==
  ASSUME WheelTypeOK, Wheeled, Alone, [WheelNext]_wheelVars, NEW c \in Peers, NEW delay,
         insertEntryInloop(c, entry[c], delay), ~kept[c],
         UNCHANGED <<entry, kept>>,
         \A o \in Peers \ {c} : conn'[o] = conn[o] /\ idleTimeout_'[o] = idleTimeout_[o]
                                /\ idleTimeoutBackup_'[o] = idleTimeoutBackup_[o]
  PROVE  Wheeled' /\ Alone'
<1>1. b' = b /\ Wheels' = Wheels
  BY Fixed
<1>2. PICK it : /\ it.owner = c /\ it.num = entry[c] /\ IsItem(it)
                /\ wheels_' = [i \in Wheels |-> [k \in 0 .. b - 1 |-> wheels_'[i][k]]]
                /\ \A i \in Wheels, k \in 0 .. b - 1 : \A x \in wheels_'[i][k] :
                     x \in wheels_[i][k] \/ x = it
  <2>1. Item(c, entry[c], delay + 1).owner = c /\ Item(c, entry[c], delay + 1).num = entry[c]
    BY DEF Item
  <2>. QED
    BY <2>1, Inserted
<1>3. entry[c] \in Nat
  BY DEF WheelTypeOK
<1>. HIDE DEF Wheels, b
<1>4. Wheeled'
  BY <1>1, <1>2, <1>3 DEF Wheeled, IsItem
<1>5. ASSUME NEW o \in Peers, kept'[o]
      PROVE  /\ conn'[o] \notin {"none", "kicked"}
             /\ idleTimeout_'[o] = 0 /\ idleTimeoutBackup_'[o] = 0
             /\ \A i \in Wheels, k \in 0 .. b - 1 : \A x \in wheels_'[i][k] : ~Current(x, o)'
  <2>1. o # c
    BY <1>5
  <2>2. /\ conn[o] \notin {"none", "kicked"}
        /\ idleTimeout_[o] = 0 /\ idleTimeoutBackup_[o] = 0
        /\ \A i \in Wheels, k \in 0 .. b - 1 : \A x \in wheels_[i][k] : ~Current(x, o)
    BY <1>5 DEF Alone
  <2>. QED
    BY <2>1, <2>2, <1>2 DEF Current
<1>6. Alone'
  BY <1>1, <1>5, Zenon DEF Alone
<1>. QED
  BY <1>4, <1>6

\* A step of keepAlive or of a stream that starts: the entry of c loses it.
LEMMA DetachStep ==
  ASSUME WheelTypeOK, Wheeled, Alone, [WheelNext]_wheelVars, NEW c \in Peers, conn[c] = "open",
         entry' = [entry EXCEPT ![c] = @ + 1], UNCHANGED <<wheels_, conn>>,
         idleTimeout_' = [idleTimeout_ EXCEPT ![c] = 0],
         kept'[c] => idleTimeoutBackup_'[c] = 0,
         \A o \in Peers \ {c} : kept'[o] = kept[o] /\ idleTimeoutBackup_'[o] = idleTimeoutBackup_[o]
  PROVE  Wheeled' /\ Alone'
<1>1. b' = b /\ Wheels' = Wheels
  BY Fixed
<1>2. entry \in [Peers -> Nat] /\ idleTimeout_ \in [Peers -> Nat]
  BY DEF WheelTypeOK
<1>. HIDE DEF Wheels, b
<1>3. Wheeled'
  BY <1>1, <1>2 DEF Wheeled, IsItem
<1>4. ASSUME NEW o \in Peers, kept'[o]
      PROVE  /\ conn'[o] \notin {"none", "kicked"}
             /\ idleTimeout_'[o] = 0 /\ idleTimeoutBackup_'[o] = 0
             /\ \A i \in Wheels, k \in 0 .. b - 1 : \A x \in wheels_'[i][k] : ~Current(x, o)'
  <2>1. CASE o = c
    <3>1. ASSUME NEW i \in Wheels, NEW k \in 0 .. b - 1, NEW x \in wheels_[i][k], x.owner = c
          PROVE  x.num # entry'[c]
      BY <3>1, <1>2 DEF Wheeled, IsItem
    <3>. QED
      BY <2>1, <3>1, <1>4, <1>2 DEF Current
  <2>2. CASE o # c
    <3>1. /\ conn[o] \notin {"none", "kicked"}
          /\ idleTimeout_[o] = 0 /\ idleTimeoutBackup_[o] = 0
          /\ \A i \in Wheels, k \in 0 .. b - 1 : \A x \in wheels_[i][k] : ~Current(x, o)
      BY <2>2, <1>4 DEF Alone
    <3>. QED
      BY <2>2, <3>1, <1>2 DEF Current
  <2>. QED
    BY <2>1, <2>2
<1>5. Alone'
  BY <1>1, <1>4, Zenon DEF Alone
<1>. QED
  BY <1>3, <1>5

\* One step for each action: keepAlive() makes the items of the connection those
\* of a former entry, and nothing inserts one for it again.
LEMMA AloneStep ==
  ASSUME WheelTypeOK, Wheeled, Alone, [WheelNext]_wheelVars
  PROVE  Wheeled' /\ Alone'
<1>n. b \in Nat \ {0, 1}
  BY Numbers
<1>f. b' = b /\ Wheels' = Wheels
  BY Fixed
<1>s. Shifts(wheels_)
  BY StayShifts
<1>1. CASE UNCHANGED <<wheels_, conn, idleTimeout_, idleTimeoutBackup_, entry, kept>>
  BY <1>1, <1>s, ShiftStep
<1>2. CASE PartPasses
  BY <1>2, <1>1, Zenon DEF PartPasses, kickoff
<1>3. CASE Tick
  BY <1>3, <1>1, Zenon DEF Tick, kickoff
<1>4. CASE Turn
  <2>1. CASE ticksCounter_ % (b ^ turning) = 0
    <3>1. /\ turning \in Wheels /\ wheels_' = Turned(turning)
          /\ fell' = IF turning = 0 THEN wheels_[0][0] ELSE {}
          /\ conn' = [c \in Peers |-> IF c \in Kicked(wheels_', fell') THEN "kicked" ELSE conn[c]]
      BY <1>4, <2>1, Zenon DEF Turn
    <3>2. Shifts(wheels_')
      BY <3>1, TurnedItems, Zenon DEF Shifts
    <3>3. UNCHANGED <<idleTimeout_, idleTimeoutBackup_, entry, kept>>
      BY <1>4, Zenon DEF Turn, kickoff
    <3>4. ASSUME NEW c \in Peers, c \in Kicked(wheels_', fell')
          PROVE  \E k \in 0 .. b - 1, i \in Wheels : \E x \in wheels_[i][k] : Current(x, c)
      <4>1. PICK x \in fell' : Current(x, c)
        BY <3>4, Zenon DEF Kicked, Current
      <4>2. turning = 0 /\ x \in wheels_[0][0]
        BY <4>1, <3>1
      <4>. QED
        BY <4>1, <4>2, <3>1, <1>n
    <3>5. \A c \in Peers : conn'[c] = conn[c]
            \/ (conn'[c] = "kicked" /\ \E k \in 0 .. b - 1, i \in Wheels : \E x \in wheels_[i][k] : Current(x, c))
      BY <3>1, <3>4
    <3>. QED
      BY <3>2, <3>3, <3>5, ShiftStep
  <2>2. CASE ticksCounter_ % (b ^ turning) # 0
    BY <1>4, <2>2, <1>1, Zenon DEF Turn, kickoff
  <2>. QED
    BY <2>1, <2>2
<1>5. CASE Destroy
  <2>1. /\ wheels_' = [i \in Wheels |-> [k \in 0 .. b - 1 |-> {}]]
        /\ conn' = [c \in Peers |-> IF c \in Kicked(wheels_', Items) THEN "closed" ELSE conn[c]]
        /\ UNCHANGED <<idleTimeout_, idleTimeoutBackup_, entry, kept>>
    BY <1>5, Zenon DEF Destroy
  <2>2. Shifts(wheels_')
    <3>. HIDE DEF Wheels
    <3>. QED
      BY <2>1 DEF Shifts
  <2>3. \A c \in Peers : conn'[c] = conn[c] \/ (conn'[c] = "closed" /\ conn[c] = "open")
    <3>1. \A c \in Peers : c \in Kicked(wheels_', Items) => conn[c] = "open"
      BY Zenon DEF Kicked
    <3>. HIDE DEF Items
    <3>. QED
      BY <2>1, <3>1
  <2>. QED
    BY <2>1, <2>2, <2>3, ShiftStep
<1>6. ASSUME NEW c \in Peers, enableKickingOff(c)
      PROVE  Wheeled' /\ Alone'
  <2>1. conn[c] = "none" /\ insertEntryInloop(c, entry[c], timeout)
        /\ conn' = [conn EXCEPT ![c] = "open"]
        /\ idleTimeout_' = [idleTimeout_ EXCEPT ![c] = timeout]
        /\ UNCHANGED <<entry, kept, idleTimeoutBackup_>>
    BY <1>6, Zenon DEF enableKickingOff
  <2>2. ~kept[c]
    BY <2>1 DEF Alone
  <2>3. \A o \in Peers \ {c} : conn'[o] = conn[o] /\ idleTimeout_'[o] = idleTimeout_[o]
    BY <2>1 DEF WheelTypeOK
  <2>. QED
    BY <2>1, <2>2, <2>3, InsertStep
<1>7. ASSUME NEW c \in Peers, extendLife(c)
      PROVE  Wheeled' /\ Alone'
  <2>1. CASE UNCHANGED wheels_
    BY <1>7, <2>1, <1>1, Zenon DEF extendLife
  <2>2. CASE wheels_' # wheels_
    <3>1. idleTimeout_[c] > 0 /\ insertEntryInloop(c, entry[c], idleTimeout_[c])
      BY <1>7, <2>2, Zenon DEF extendLife
    <3>2. UNCHANGED <<conn, idleTimeout_, idleTimeoutBackup_, entry, kept>>
      BY <1>7, Zenon DEF extendLife
    <3>3. ~kept[c]
      BY <3>1 DEF Alone
    <3>. QED
      BY <3>1, <3>2, <3>3, InsertStep
  <2>. QED
    BY <2>1, <2>2
<1>8. ASSUME NEW c \in Peers, keepAlive(c)
      PROVE  Wheeled' /\ Alone'
  <2>1. /\ conn[c] = "open"
        /\ kept' = [kept EXCEPT ![c] = idleTimeoutBackup_[c] = 0]
        /\ idleTimeout_' = [idleTimeout_ EXCEPT ![c] = 0]
        /\ entry' = [entry EXCEPT ![c] = @ + 1]
        /\ UNCHANGED <<wheels_, conn, idleTimeoutBackup_>>
    BY <1>8, Zenon DEF keepAlive, wheel
  <2>2. kept \in [Peers -> BOOLEAN]
    BY DEF WheelTypeOK
  <2>3. kept'[c] => idleTimeoutBackup_'[c] = 0
    BY <2>1, <2>2, Zenon
  <2>4. \A o \in Peers \ {c} : kept'[o] = kept[o]
    BY <2>1, <2>2
  <2>. QED
    BY <2>1, <2>3, <2>4, DetachStep
<1>9. ASSUME NEW c \in Peers, SuspendKickoff(c)
      PROVE  Wheeled' /\ Alone'
  <2>1. /\ conn[c] = "open"
        /\ idleTimeoutBackup_' = [idleTimeoutBackup_ EXCEPT ![c] = idleTimeout_[c]]
        /\ idleTimeout_' = [idleTimeout_ EXCEPT ![c] = 0]
        /\ entry' = [entry EXCEPT ![c] = @ + 1]
        /\ UNCHANGED <<wheels_, conn, kept>>
    BY <1>9, Zenon DEF SuspendKickoff, wheel
  <2>2. idleTimeoutBackup_ \in [Peers -> Nat]
    BY DEF WheelTypeOK
  <2>3. kept'[c] => idleTimeoutBackup_'[c] = 0
    BY <2>1, <2>2 DEF Alone
  <2>4. \A o \in Peers \ {c} : idleTimeoutBackup_'[o] = idleTimeoutBackup_[o]
    BY <2>1, <2>2
  <2>. QED
    BY <2>1, <2>3, <2>4, DetachStep
<1>10. ASSUME NEW c \in Peers, ResumeKickoff(c)
       PROVE  Wheeled' /\ Alone'
  <2>1. /\ idleTimeoutBackup_[c] > 0
        /\ idleTimeout_' = [idleTimeout_ EXCEPT ![c] = idleTimeoutBackup_[c]]
        /\ idleTimeoutBackup_' = [idleTimeoutBackup_ EXCEPT ![c] = 0]
        /\ insertEntryInloop(c, entry[c], idleTimeoutBackup_[c])
        /\ UNCHANGED <<conn, entry, kept>>
    BY <1>10, Zenon DEF ResumeKickoff
  <2>2. ~kept[c]
    BY <2>1 DEF Alone
  <2>3. \A o \in Peers \ {c} : idleTimeoutBackup_'[o] = idleTimeoutBackup_[o]
                               /\ idleTimeout_'[o] = idleTimeout_[o]
    BY <2>1 DEF WheelTypeOK
  <2>. QED
    BY <2>1, <2>2, <2>3, InsertStep
<1>11. ASSUME NEW c \in Peers, Close(c)
       PROVE  Wheeled' /\ Alone'
  <2>1. conn[c] = "open" /\ conn' = [conn EXCEPT ![c] = "closed"]
        /\ UNCHANGED <<wheels_, idleTimeout_, idleTimeoutBackup_, entry, kept>>
    BY <1>11, Zenon DEF Close, wheel
  <2>2. \A o \in Peers : conn'[o] = conn[o] \/ (conn'[o] = "closed" /\ conn[o] = "open")
    BY <2>1 DEF WheelTypeOK
  <2>. QED
    BY <2>1, <2>2, <1>s, ShiftStep
<1>12. CASE UNCHANGED wheelVars
  BY <1>12, <1>1, Zenon DEF wheelVars, wheel, kickoff
<1>. QED
  BY <1>2, <1>3, <1>4, <1>5, <1>6, <1>7, <1>8, <1>9, <1>10, <1>11, <1>12, Zenon DEF WheelNext, Call

\* A connection that is kept alive is never kicked off: whatever the number and
\* the size of the wheels, and however many connections use them (KeptAlive).
THEOREM WheelKeepsAlive == WheelSpec => []KeptAlive
<1>1. WheelInit => WheelTypeOK /\ Wheeled /\ Alone
  BY TypeInit, WheeledInit
<1>2. WheelTypeOK /\ Wheeled /\ Alone /\ [WheelNext]_wheelVars => (WheelTypeOK /\ Wheeled /\ Alone)'
  BY WheelTypeStep, AloneStep
<1>3. WheelTypeOK /\ Wheeled /\ Alone => KeptAlive
  BY DEF Alone, KeptAlive
<1>. QED
  BY <1>1, <1>2, <1>3, PTL DEF WheelSpec

-----------------------------------------------------------------------------
(* One wheel: bucketsNum is idleTimeout_ + 1 when that is below 500 *)

\* The time-out fits in one wheel.
Small == timeout <= b

\* The tick at which the bucket in front of the wheel is dropped, and how much
\* sooner than due an item comes when the time-out is all that the wheel holds.
base == IF turning = 0 THEN ticksCounter_ ELSE ticksCounter_ + 1
Late == IF timeout = b THEN 1 ELSE 0

\* The tick after which an item was made.
Made(x) == x.due - (timeout + 1)

\* Where the tick is; what fell was due.
Clocked ==
  /\ turning \in {0, 1, 2} /\ (turning = 0 => part = 0) /\ (kicking => turning = 1)
  /\ \A x \in fell : x.due = ticksCounter_ + Late

\* The bucket of an item says when it is due, and its connection has been used
\* since it was made.
Placed ==
  \A k \in 0 .. b - 1 : \A x \in wheels_[0][k] :
    /\ x.due \in Nat /\ x.due >= timeout + 1
    /\ x.due = base + k + Late
    /\ Made(x) * Parts <= lastUse[x.owner]

\* The time-out of a connection is on or off, and its dates are not ahead.
Dated ==
  \A c \in Peers :
    /\ idleTimeout_[c] \in {0, timeout} /\ idleTimeoutBackup_[c] \in {0, timeout}
    /\ lastUse[c] <= now /\ lastUpdate[c] <= now

\* Item x answers for the last use of c.
Answers(x, c) ==
  /\ Current(x, c)
  /\ lastUse[c] + 1 < (Made(x) + 2) * Parts
  /\ lastUpdate[c] < (Made(x) + 1) * Parts

\* An open connection has an item that answers for its last use, or its time-out
\* is off and it has none.
Guarded ==
  \A c \in Peers : conn[c] = "open" =>
    IF idleTimeout_[c] = 0
    THEN \A k \in 0 .. b - 1 : \A x \in wheels_[0][k] : ~Current(x, c)
    ELSE \E k \in 0 .. b - 1 : \E x \in wheels_[0][k] : Answers(x, c)

\* Then there is one wheel.
LEMMA Single ==
  ASSUME WheelTypeOK, Small
  PROVE  /\ wheelsNum_ = 1 /\ Wheels = {0} /\ timeout <= b
         /\ b ^ 0 = 1 /\ b ^ wheelsNum_ = b
<1>n. b \in Nat \ {0, 1} /\ timeout \in Nat \ {0, 1}
  BY Numbers
<1>1. timeout <= b /\ b ^ 0 = 1 /\ b ^ 1 = b
  BY PowersAssumption DEF WheelTypeOK, Small, b
<1>2. wheelsNum_ = 1
  <2>. DEFINE P(w) == b ^ w >= timeout /\ \A v \in 1 .. w - 1 : b ^ v < timeout
  <2>1. 1 \in 1 .. timeout /\ P(1)
    BY <1>1, <1>n
  <2>2. ASSUME NEW w \in 1 .. timeout, P(w)
        PROVE  w = 1
    <3>1. CASE w > 1
      <4>1. 1 \in 1 .. w - 1
        BY <3>1, <1>n
      <4>2. b ^ 1 < timeout
        BY <4>1, <2>2
      <4>. QED
        BY <4>2, <1>1, <1>n
    <3>. QED
      BY <3>1, <1>n
  <2>3. wheelsNum_ = CHOOSE w \in 1 .. timeout : P(w)
    BY DEF wheelsNum_, WheelsNum
  <2>. HIDE DEF P
  <2>. QED
    BY <2>1, <2>2, <2>3
<1>. QED
  BY <1>1, <1>2 DEF Wheels

\* The recursive function of insertEntryInloop is what its first case says.
LEMMA DelayOne ==
  ASSUME WheelTypeOK, Small, NEW d
  PROVE  Delay(d)[0] = d
<1>. DEFINE F(g) == [j \in {0} |-> IF j = 0 THEN d
                       ELSE (g[j-1] + ((ticksCounter_ \div b ^ (j-1)) % b) - 1) \div b]
<1>1. PICK g : g = [j \in {0} |-> d]
  OBVIOUS
<1>2. g = F(g)
  BY <1>1
<1>3. ASSUME NEW h, h = F(h)
      PROVE  h[0] = d
  BY <1>3
<1>4. (CHOOSE h : h = F(h)) = F(CHOOSE h : h = F(h))
  <2>. HIDE DEF F
  <2>. QED
    BY <1>2
<1>5. (CHOOSE h : h = F(h))[0] = d
  BY <1>3, <1>4
<1>6. Wheels = {0}
  BY Single
<1>. QED
  BY <1>5, <1>6 DEF Delay

\* With one wheel an item goes where it will be dropped when it is due, or one
\* bucket before, if the wheel has no more.
LEMMA InsertedOne ==
  ASSUME WheelTypeOK, Small, NEW c \in Peers, insertEntryInloop(c, entry[c], timeout)
  PROVE  \E k, it : /\ k \in 0 .. b - 1 /\ k + Late = timeout
                    /\ it.owner = c /\ it.num = entry[c] /\ it.due = ticksCounter_ + (timeout + 1)
                    /\ wheels_' = [wheels_ EXCEPT ![0][k] = @ \cup {it}]
<1>n. b \in Nat \ {0, 1} /\ timeout \in Nat \ {0, 1}
  BY Numbers
<1>. DEFINE d == timeout + 1
<1>1. Delay(d)[0] = d
  BY DelayOne
<1>2. Level(d) = 0
  BY Single DEF Level
<1>. DEFINE k == IF d <= b THEN d - 1 ELSE b - 1
            it == Item(c, entry[c], d)
<1>3. wheels_' = [wheels_ EXCEPT ![0][k] = @ \cup {it}]
  BY <1>1, <1>2, Zenon DEF insertEntryInloop
<1>4. k \in 0 .. b - 1 /\ k + Late = timeout
  BY <1>n, Single DEF Late
<1>5. it.owner = c /\ it.num = entry[c] /\ it.due = ticksCounter_ + (timeout + 1)
  BY DEF Item
<1>. HIDE DEF k, it
<1>. QED
  BY <1>3, <1>4, <1>5

-----------------------------------------------------------------------------
(* Products with Parts *)

\* A product grows with its first factor.
LEMMA Times ==
  ASSUME NEW m \in Int, NEW n \in Int, NEW p \in Nat, m <= n
  PROVE  m * p \in Int /\ n * p \in Int /\ m * p <= n * p
<1>1. PICK k \in Nat : n = m + k
  <2>1. n - m \in Nat /\ n = m + (n - m)
    OBVIOUS
  <2>. QED
    BY <2>1
<1>2. k * p \in Nat
  OBVIOUS
<1>3. (m + k) * p = m * p + k * p
  OBVIOUS
<1>. QED
  BY <1>1, <1>2, <1>3

LEMMA Product ==
  ASSUME NEW m \in Nat, NEW n \in Nat
  PROVE  m * n \in Nat
OBVIOUS

\* Now is in the second of the last tick.
LEMMA Second ==
  ASSUME WheelTypeOK
  PROVE  /\ now \in Nat /\ ticksCounter_ * Parts \in Nat /\ (ticksCounter_ + 1) * Parts \in Nat
         /\ ticksCounter_ * Parts <= now /\ now + 1 <= (ticksCounter_ + 1) * Parts
         /\ (ticksCounter_ + 1) * Parts < (ticksCounter_ + 2) * Parts
<1>1. Parts \in Nat \ {0} /\ now \in Nat /\ ticksCounter_ \in Nat /\ part \in 0 .. Parts - 1
  BY Numbers DEF WheelTypeOK
<1>2. ticksCounter_ * Parts \in Nat
  BY <1>1
<1>3. (ticksCounter_ + 1) * Parts = ticksCounter_ * Parts + Parts
  BY <1>1
<1>4. (ticksCounter_ + 2) * Parts = ticksCounter_ * Parts + Parts + Parts
  BY <1>1
<1>5. now = ticksCounter_ * Parts + part
  BY DEF now
<1>. QED
  BY <1>1, <1>2, <1>3, <1>4, <1>5

\* What holds of one wheel.
One == Clocked /\ Placed /\ Dated /\ Guarded

\* The server starts with an empty wheel, between two ticks.
LEMMA OneInit ==
  ASSUME WheelInit, WheelTypeOK, Small
  PROVE  One
<1>n. b \in Nat \ {0, 1} /\ timeout \in Nat \ {0, 1} /\ now \in Nat
  BY Numbers
<1>1. PICK s \in Shapes :
        /\ bucketsNumPerWheel_ = s[1] /\ timeout = s[2]
        /\ wheels_ = [i \in 0 .. WheelsNum(s[1], s[2]) - 1 |-> [k \in 0 .. s[1] - 1 |-> {}]]
        /\ turning = WheelsNum(s[1], s[2])
  BY Zenon DEF WheelInit
<1>2. wheels_ = [i \in Wheels |-> [k \in 0 .. b - 1 |-> {}]] /\ turning = wheelsNum_
  BY <1>1 DEF Wheels, wheelsNum_, b
<1>3. wheels_[0] = [k \in 0 .. b - 1 |-> {}] /\ turning = 1
  BY <1>2, Single
<1>4. /\ kicking = FALSE /\ fell = {}
      /\ idleTimeout_ = [c \in Peers |-> 0] /\ idleTimeoutBackup_ = [c \in Peers |-> 0]
      /\ lastUpdate = [c \in Peers |-> 0] /\ lastUse = [c \in Peers |-> 0]
      /\ conn = [c \in Peers |-> "none"]
  BY Zenon DEF WheelInit
<1>5. Clocked
  BY <1>3, <1>4 DEF Clocked
<1>6. Placed
  BY <1>3 DEF Placed
<1>7. Dated
  BY <1>4, <1>n DEF Dated
<1>8. Guarded
  BY <1>4 DEF Guarded
<1>. QED
  BY <1>5, <1>6, <1>7, <1>8 DEF One

\* Time passes, or a connection is closed.
LEMMA OneStay ==
  ASSUME WheelTypeOK, One, [WheelNext]_wheelVars, Clocked', base' = base, now' >= now,
         UNCHANGED <<wheels_, idleTimeout_, idleTimeoutBackup_, entry, lastUpdate, lastUse>>,
         \A c \in Peers : conn'[c] = "open" => conn[c] = "open"
  PROVE  One'
<1>n. /\ now \in Nat
      /\ \A c \in Peers : lastUse[c] \in Nat /\ lastUpdate[c] \in Nat
  BY Numbers DEF WheelTypeOK
<1>1. b' = b /\ timeout' = timeout
  BY Fixed
<1>m. Late' = Late /\ \A x : Made(x)' = Made(x)
  BY <1>1 DEF Late, Made
<1>. HIDE DEF b
<1>2. Placed'
  BY <1>1, <1>m DEF One, Placed
<1>3. Dated'
  <2>1. WheelTypeOK'
    BY WheelTypeStep
  <2>2. now' \in Nat
    <3>1. ticksCounter_' \in Nat /\ part' \in 0 .. Parts - 1 /\ Parts \in Nat
      BY <2>1, PartsAssumption DEF WheelTypeOK
    <3>2. part' \in Nat
      BY <3>1
    <3>3. ticksCounter_' * Parts \in Nat
      BY <3>1, Product
    <3>4. now' = ticksCounter_' * Parts + part'
      BY DEF now
    <3>. QED
      BY <3>2, <3>3, <3>4
  <2>3. Dated
    BY DEF One
  <2>. HIDE DEF now
  <2>. QED
    BY <1>1, <1>n, <2>2, <2>3 DEF Dated
<1>4. Guarded'
  <2>1. Guarded
    BY DEF One
  <2>2. \A x, c : Answers(x, c)' <=> Answers(x, c)
    BY <1>m DEF Answers, Current
  <2>3. \A x, c : Current(x, c)' <=> Current(x, c)
    BY DEF Current
  <2>. QED
    BY <1>1, <2>1, <2>2, <2>3 DEF Guarded
<1>. QED
  BY <1>2, <1>3, <1>4 DEF One

\* A connection is used, or its time-out starts: an item is inserted.
LEMMA OneInsert ==
  ASSUME WheelTypeOK, Small, Wheeled, One, [WheelNext]_wheelVars, turning = 1,
         NEW c \in Peers, insertEntryInloop(c, entry[c], timeout),
         lastUse' = [lastUse EXCEPT ![c] = now],
         \/ lastUpdate' = lastUpdate
         \/ lastUpdate' = [lastUpdate EXCEPT ![c] = now],
         UNCHANGED <<clock, fell, kicking, entry>>,
         idleTimeout_'[c] = timeout, \A o \in Peers : idleTimeoutBackup_'[o] \in {0, timeout},
         \A o \in Peers \ {c} : conn'[o] = conn[o] /\ idleTimeout_'[o] = idleTimeout_[o]
  PROVE  One'
<1>1. b' = b /\ timeout' = timeout
  BY Fixed
<1>2. now' = now /\ base' = base /\ base = ticksCounter_ + 1
  BY DEF clock, now, base
<1>m. Late' = Late /\ \A x : Made(x)' = Made(x)
  BY <1>1 DEF Late, Made
<1>n. /\ b \in Nat \ {0, 1} /\ timeout \in Nat \ {0, 1} /\ Parts \in Nat \ {0}
      /\ ticksCounter_ \in Nat /\ now \in Nat
      /\ lastUse \in [Peers -> Nat] /\ lastUpdate \in [Peers -> Nat]
  BY Numbers DEF WheelTypeOK
<1>3. PICK k, it : /\ k \in 0 .. b - 1 /\ k + Late = timeout
                   /\ it.owner = c /\ it.num = entry[c] /\ it.due = ticksCounter_ + (timeout + 1)
                   /\ wheels_' = [wheels_ EXCEPT ![0][k] = @ \cup {it}]
  BY InsertedOne
<1>4. 0 \in Wheels
  BY Single
<1>5. /\ wheels_'[0][k] = wheels_[0][k] \cup {it}
      /\ \A j \in 0 .. b - 1 : j # k => wheels_'[0][j] = wheels_[0][j]
  <2>1. wheels_ = [i \in Wheels |-> [j \in 0 .. b - 1 |-> wheels_[i][j]]]
    BY Zenon DEF Wheeled
  <2>. HIDE DEF b, Wheels
  <2>. QED
    BY <2>1, <1>3, <1>4
<1>6. Made(it) = ticksCounter_
  BY <1>3, <1>n DEF Made
<1>7. Clocked'
  BY <1>m, Zenon DEF One, Clocked, clock
<1>8. \A o \in Peers : lastUse[o] <= lastUse'[o] /\ lastUse'[o] <= now /\ lastUpdate'[o] <= now
                       /\ lastUse'[o] \in Nat /\ lastUpdate'[o] \in Nat
  <2>. HIDE DEF now
  <2>. QED
    BY <1>n DEF One, Dated
<1>9. Placed'
  <2>1. ASSUME NEW j \in 0 .. b - 1, NEW x \in wheels_'[0][j]
        PROVE  /\ x.due \in Nat /\ x.due >= timeout + 1
               /\ x.due = base + j + Late
               /\ Made(x) * Parts <= lastUse'[x.owner]
    <3>1. CASE x \in wheels_[0][j]
      <4>1. /\ x.due \in Nat /\ x.due >= timeout + 1
            /\ x.due = base + j + Late
            /\ Made(x) * Parts <= lastUse[x.owner]
        BY <3>1 DEF One, Placed
      <4>2. x.owner \in Peers
        BY <3>1, <1>4 DEF Wheeled, IsItem
      <4>3. Made(x) * Parts \in Int
        BY <4>1, <1>n DEF Made
      <4>4. lastUse[x.owner] <= lastUse'[x.owner] /\ lastUse[x.owner] \in Nat
            /\ lastUse'[x.owner] \in Nat
        BY <4>2, <1>8, <1>n
      <4>. QED
        BY <4>1, <4>3, <4>4
    <3>2. CASE x \notin wheels_[0][j]
      <4>1. x = it /\ j = k
        BY <3>2, <1>5
      <4>2. x.due \in Nat /\ x.due >= timeout + 1 /\ x.due = base + j + Late
        BY <4>1, <1>2, <1>3, <1>n DEF Late
      <4>3. lastUse'[c] = now
        BY <1>n
      <4>. QED
        BY <4>1, <4>2, <4>3, <1>3, <1>6, Second
    <3>. QED
      BY <3>1, <3>2
  <2>. QED
    BY <2>1, <1>1, <1>2, <1>m, Zenon DEF Placed
<1>10. Dated'
  <2>1. \A o \in Peers : idleTimeout_'[o] \in {0, timeout}
    BY DEF One, Dated
  <2>. QED
    BY <2>1, <1>1, <1>2, <1>8, Zenon DEF Dated
<1>11. Guarded'
  <2>1. ASSUME NEW o \in Peers, conn'[o] = "open", o # c
        PROVE  IF idleTimeout_'[o] = 0
               THEN \A j \in 0 .. b - 1 : \A x \in wheels_'[0][j] : ~Current(x, o)'
               ELSE \E j \in 0 .. b - 1 : \E x \in wheels_'[0][j] : Answers(x, o)'
    <3>1. IF idleTimeout_[o] = 0
          THEN \A j \in 0 .. b - 1 : \A x \in wheels_[0][j] : ~Current(x, o)
          ELSE \E j \in 0 .. b - 1 : \E x \in wheels_[0][j] : Answers(x, o)
      BY <2>1 DEF One, Guarded
    <3>2. \A x : /\ Current(x, o)' <=> Current(x, o)
                 /\ Answers(x, o)' <=> Answers(x, o)
      BY <1>m, <1>n, <2>1 DEF Answers, Current
    <3>3. ~Current(it, o)
      BY <1>3, <2>1 DEF Current
    <3>. QED
      BY <3>1, <3>2, <3>3, <1>5, <2>1
  <2>2. Answers(it, c)'
    <3>1. Current(it, c)'
      BY <1>3 DEF Current
    <3>2. lastUse'[c] + 1 < (Made(it) + 2) * Parts
      <4>1. lastUse'[c] = now
        BY <1>n
      <4>2. (ticksCounter_ + 2) * Parts \in Nat
        BY <1>n
      <4>. HIDE DEF now
      <4>. QED
        BY <4>1, <4>2, <1>6, Second
    <3>3. lastUpdate'[c] < (Made(it) + 1) * Parts
      <4>. HIDE DEF now
      <4>. QED
        BY <1>6, <1>8, Second
    <3>. QED
      BY <3>1, <3>2, <3>3, <1>m DEF Answers
  <2>3. it \in wheels_'[0][k] /\ k \in 0 .. b - 1 /\ idleTimeout_'[c] # 0
    BY <1>3, <1>5, <1>n
  <2>. QED
    BY <1>1, <2>1, <2>2, <2>3, Zenon DEF Guarded
<1>. QED
  BY <1>7, <1>9, <1>10, <1>11 DEF One

\* A connection is used within a second of the last item: no other is made.
LEMMA OneUse ==
  ASSUME WheelTypeOK, Small, One, [WheelNext]_wheelVars, NEW c \in Peers, conn[c] = "open",
         idleTimeout_[c] > 0 => now < lastUpdate[c] + Parts,
         lastUse' = [lastUse EXCEPT ![c] = now],
         UNCHANGED <<clock, fell, kicking, entry, wheels_, idleTimeout_, idleTimeoutBackup_,
                     lastUpdate, conn>>,
         \A k \in 0 .. b - 1 : \A x \in wheels_[0][k] : x.owner \in Peers
  PROVE  One'
<1>1. b' = b /\ timeout' = timeout
  BY Fixed
<1>2. now' = now /\ base' = base
  BY DEF clock, now, base
<1>m. Late' = Late /\ \A x : Made(x)' = Made(x)
  BY <1>1 DEF Late, Made
<1>n. /\ b \in Nat \ {0, 1} /\ timeout \in Nat \ {0, 1} /\ Parts \in Nat \ {0}
      /\ ticksCounter_ \in Nat /\ now \in Nat
      /\ lastUse \in [Peers -> Nat] /\ lastUpdate \in [Peers -> Nat]
      /\ idleTimeout_ \in [Peers -> Nat]
  BY Numbers DEF WheelTypeOK
<1>3. Clocked'
  BY <1>m, Zenon DEF One, Clocked, clock
<1>4. \A o \in Peers : lastUse[o] <= lastUse'[o] /\ lastUse'[o] <= now
                       /\ lastUse[o] \in Nat /\ lastUse'[o] \in Nat
  <2>. HIDE DEF now
  <2>. QED
    BY <1>n DEF One, Dated
<1>5. Placed'
  <2>1. ASSUME NEW j \in 0 .. b - 1, NEW x \in wheels_[0][j]
        PROVE  /\ x.due \in Nat /\ x.due >= timeout + 1
               /\ x.due = base + j + Late
               /\ Made(x) * Parts <= lastUse'[x.owner]
    <3>1. /\ x.due \in Nat /\ x.due >= timeout + 1
          /\ x.due = base + j + Late
          /\ Made(x) * Parts <= lastUse[x.owner]
      BY DEF One, Placed
    <3>2. Made(x) * Parts \in Int
      BY <3>1, <1>n DEF Made
    <3>3. x.owner \in Peers
      OBVIOUS
    <3>. QED
      BY <3>1, <3>2, <3>3, <1>4
  <2>. QED
    BY <2>1, <1>1, <1>2, <1>m, Zenon DEF Placed
<1>6. Dated'
  <2>1. Dated
    BY DEF One
  <2>. QED
    BY <2>1, <1>1, <1>2, <1>4, Zenon DEF Dated
<1>7. Guarded'
  <2>1. ASSUME NEW o \in Peers, conn[o] = "open"
        PROVE  IF idleTimeout_[o] = 0
               THEN \A j \in 0 .. b - 1 : \A x \in wheels_[0][j] : ~Current(x, o)'
               ELSE \E j \in 0 .. b - 1 : \E x \in wheels_[0][j] : Answers(x, o)'
    <3>1. IF idleTimeout_[o] = 0
          THEN \A j \in 0 .. b - 1 : \A x \in wheels_[0][j] : ~Current(x, o)
          ELSE \E j \in 0 .. b - 1 : \E x \in wheels_[0][j] : Answers(x, o)
      BY <2>1 DEF One, Guarded
    <3>2. \A x : Current(x, o)' <=> Current(x, o)
      BY DEF Current
    <3>3. ASSUME idleTimeout_[o] # 0, NEW j \in 0 .. b - 1, NEW x \in wheels_[0][j], Answers(x, o)
          PROVE  Answers(x, o)'
      <4>1. CASE o # c
        BY <4>1, <3>3, <1>m, <1>n DEF Answers, Current
      <4>2. CASE o = c
        <5>1. lastUpdate[c] < (Made(x) + 1) * Parts /\ Current(x, c)
          BY <4>2, <3>3 DEF Answers
        <5>2. now < lastUpdate[c] + Parts /\ lastUpdate[c] \in Nat
          BY <4>2, <3>3, <1>n
        <5>3. x.due \in Nat
          BY DEF One, Placed
        <5>4. Made(x) \in Int
          BY <5>3, <1>n DEF Made
        <5>5. (Made(x) + 2) * Parts = (Made(x) + 1) * Parts + Parts /\ (Made(x) + 1) * Parts \in Int
          <6>. HIDE DEF Made
          <6>. QED
            BY <5>4, <1>n
        <5>6. now + 1 < (Made(x) + 2) * Parts
          <6>. HIDE DEF now, Made
          <6>. QED
            BY <5>1, <5>2, <5>5, <1>n
        <5>7. lastUse'[c] = now /\ lastUpdate'[c] = lastUpdate[c]
          BY <1>n
        <5>. QED
          BY <4>2, <5>1, <5>6, <5>7, <3>2, <1>m DEF Answers
      <4>. QED
        BY <4>1, <4>2
    <3>. QED
      BY <3>1, <3>2, <3>3, Zenon
  <2>. QED
    BY <1>1, <2>1, Zenon DEF Guarded
<1>. QED
  BY <1>3, <1>5, <1>6, <1>7 DEF One

\* The mechanism is suspended, or the connection is kept alive: a new entry,
\* which no item has.
LEMMA OneDetach ==
  ASSUME WheelTypeOK, Small, Wheeled, One, [WheelNext]_wheelVars, NEW c \in Peers,
         entry' = [entry EXCEPT ![c] = @ + 1],
         idleTimeout_' = [idleTimeout_ EXCEPT ![c] = 0],
         \A o \in Peers : idleTimeoutBackup_'[o] \in {0, timeout},
         UNCHANGED <<clock, fell, kicking, wheels_, lastUpdate, lastUse, conn>>
  PROVE  One'
<1>1. b' = b /\ timeout' = timeout
  BY Fixed
<1>2. now' = now /\ base' = base
  BY DEF clock, now, base
<1>m. Late' = Late /\ \A x : Made(x)' = Made(x)
  BY <1>1 DEF Late, Made
<1>n. /\ b \in Nat \ {0, 1} /\ entry \in [Peers -> Nat] /\ idleTimeout_ \in [Peers -> Nat]
  BY Numbers DEF WheelTypeOK
<1>3. Clocked'
  BY <1>m, Zenon DEF One, Clocked, clock
<1>4. Placed'
  BY <1>1, <1>2, <1>m, Zenon DEF One, Placed
<1>5. Dated'
  <2>1. \A o \in Peers : idleTimeout_'[o] \in {0, timeout}
    BY <1>n DEF One, Dated
  <2>. QED
    BY <2>1, <1>1, <1>2, Zenon DEF One, Dated
<1>6. Guarded'
  <2>1. ASSUME NEW o \in Peers, conn[o] = "open"
        PROVE  IF idleTimeout_'[o] = 0
               THEN \A j \in 0 .. b - 1 : \A x \in wheels_[0][j] : ~Current(x, o)'
               ELSE \E j \in 0 .. b - 1 : \E x \in wheels_[0][j] : Answers(x, o)'
    <3>1. CASE o # c
      <4>1. IF idleTimeout_[o] = 0
            THEN \A j \in 0 .. b - 1 : \A x \in wheels_[0][j] : ~Current(x, o)
            ELSE \E j \in 0 .. b - 1 : \E x \in wheels_[0][j] : Answers(x, o)
        BY <2>1 DEF One, Guarded
      <4>2. entry'[o] = entry[o] /\ idleTimeout_'[o] = idleTimeout_[o]
        BY <3>1, <1>n
      <4>3. \A x : /\ Current(x, o)' <=> Current(x, o)
                   /\ Answers(x, o)' <=> Answers(x, o)
        BY <4>2, <1>m DEF Answers, Current
      <4>. QED
        BY <4>1, <4>2, <4>3, Zenon
    <3>2. CASE o = c
      <4>1. entry'[c] = entry[c] + 1 /\ entry[c] \in Nat /\ idleTimeout_'[c] = 0
        BY <1>n
      <4>2. ASSUME NEW j \in 0 .. b - 1, NEW x \in wheels_[0][j]
            PROVE  ~Current(x, c)'
        <5>1. x.num <= entry[x.owner] /\ x.num \in Nat
          BY Single DEF Wheeled, IsItem
        <5>. QED
          BY <5>1, <4>1 DEF Current
      <4>. QED
        BY <3>2, <4>1, <4>2
    <3>. QED
      BY <3>1, <3>2
  <2>. QED
    BY <1>1, <2>1, Zenon DEF Guarded
<1>. QED
  BY <1>3, <1>4, <1>5, <1>6 DEF One

-----------------------------------------------------------------------------
\* The wheel turns by one bucket.
LEMMA OneShift ==
  ASSUME WheelTypeOK, Small, Wheeled, wheels_' = Turned(0)
  PROVE  /\ \A k \in 0 .. b - 1 :
              wheels_'[0][k] = IF k = b - 1 THEN {} ELSE wheels_[0][k + 1]
         /\ wheels_' = [i \in {0} |-> [k \in 0 .. b - 1 |-> wheels_'[i][k]]]
<1>1. wheels_' = [wheels_ EXCEPT ![0] =
                    [k \in 0 .. b - 1 |-> IF k = b - 1 THEN {} ELSE wheels_[0][k + 1]]]
  BY Zenon DEF Turned
<1>2. wheels_ = [i \in {0} |-> [j \in 0 .. b - 1 |-> wheels_[i][j]]]
  BY Single, Zenon DEF Wheeled
<1>. QED
  BY <1>1, <1>2

\* The tick: what falls was due, and a connection that is left has an item that
\* was made no sooner than any that fell.
LEMMA OneTurn ==
  ASSUME WheelTypeOK, Small, Wheeled, One, Turn
  PROVE  /\ One' /\ turning = 0 /\ fell' = wheels_[0][0]
         /\ \A c \in Peers : conn'[c] = IF c \in Kicked(wheels_', fell') THEN "kicked" ELSE conn[c]
         /\ \A k \in 0 .. b - 1 :
              wheels_'[0][k] = IF k = b - 1 THEN {} ELSE wheels_[0][k + 1]
         /\ wheels_' = [i \in {0} |-> [k \in 0 .. b - 1 |-> wheels_'[i][k]]]
<1>1. turning = 0 /\ b ^ turning = 1
  BY Single DEF Turn
<1>n. /\ b \in Nat \ {0, 1} /\ timeout \in Nat \ {0, 1} /\ Parts \in Nat \ {0}
      /\ ticksCounter_ \in Nat /\ now \in Nat
      /\ lastUse \in [Peers -> Nat] /\ lastUpdate \in [Peers -> Nat]
  BY Numbers DEF WheelTypeOK
<1>2. ticksCounter_ % (b ^ turning) = 0
  BY <1>1, <1>n
<1>3. /\ turning' = 1 /\ wheels_' = Turned(0) /\ fell' = wheels_[0][0]
      /\ conn' = [c \in Peers |-> IF c \in Kicked(wheels_', fell') THEN "kicked" ELSE conn[c]]
      /\ UNCHANGED <<bucketsNumPerWheel_, timeout, ticksCounter_, part, kickoff>>
  <2>1. turning' = turning + 1
    BY Zenon DEF Turn
  <2>. QED
    BY <2>1, <1>1, <1>2 DEF Turn
<1>4. /\ \A k \in 0 .. b - 1 :
              wheels_'[0][k] = IF k = b - 1 THEN {} ELSE wheels_[0][k + 1]
      /\ wheels_' = [i \in {0} |-> [k \in 0 .. b - 1 |-> wheels_'[i][k]]]
  BY <1>3, OneShift
<1>5. b' = b /\ timeout' = timeout /\ now' = now
  BY <1>3 DEF b, now
<1>m. Late' = Late /\ \A x : Made(x)' = Made(x)
  BY <1>5 DEF Late, Made
<1>u. UNCHANGED <<idleTimeout_, idleTimeoutBackup_, entry, lastUpdate, lastUse>>
  BY <1>3, Zenon DEF kickoff
<1>6. base = ticksCounter_ /\ base' = ticksCounter_ + 1
  BY <1>1, <1>3 DEF base
<1>7. Late \in {0, 1}
  BY DEF Late
<1>8. Clocked'
  <2>1. 0 \in 0 .. b - 1
    BY <1>n
  <2>2. \A x \in wheels_[0][0] : x.due = ticksCounter_ + Late
    BY <2>1, <1>6, <1>7, <1>n DEF One, Placed
  <2>. QED
    BY <2>2, <1>3, <1>m DEF Clocked
<1>9. Placed'
  <2>1. ASSUME NEW k \in 0 .. b - 1, NEW x \in wheels_'[0][k]
        PROVE  /\ x.due \in Nat /\ x.due >= timeout + 1
               /\ x.due = base' + k + Late
               /\ Made(x) * Parts <= lastUse[x.owner]
    <3>1. k # b - 1 /\ x \in wheels_[0][k + 1] /\ k + 1 \in 0 .. b - 1
      BY <1>4, <1>n
    <3>2. /\ x.due \in Nat /\ x.due >= timeout + 1
          /\ x.due = base + (k + 1) + Late
          /\ Made(x) * Parts <= lastUse[x.owner]
      BY <3>1 DEF One, Placed
    <3>3. x.due = base' + k + Late
      BY <3>2, <1>6, <1>7, <1>n
    <3>. QED
      BY <3>2, <3>3
  <2>. QED
    BY <2>1, <1>5, <1>m, <1>u, Zenon DEF Placed
<1>10. Dated'
  BY <1>5, <1>u, Zenon DEF One, Dated
<1>11. Guarded'
  <2>1. ASSUME NEW c \in Peers, conn'[c] = "open"
        PROVE  IF idleTimeout_[c] = 0
               THEN \A j \in 0 .. b - 1 : \A x \in wheels_'[0][j] : ~Current(x, c)
               ELSE \E j \in 0 .. b - 1 : \E x \in wheels_'[0][j] : Answers(x, c)
    <3>1. conn[c] = "open" /\ c \notin Kicked(wheels_', fell')
      BY <2>1, <1>3
    <3>2. IF idleTimeout_[c] = 0
          THEN \A j \in 0 .. b - 1 : \A x \in wheels_[0][j] : ~Current(x, c)
          ELSE \E j \in 0 .. b - 1 : \E x \in wheels_[0][j] : Answers(x, c)
      BY <3>1 DEF One, Guarded
    <3>3. CASE idleTimeout_[c] = 0
      <4>1. ASSUME NEW j \in 0 .. b - 1, NEW x \in wheels_'[0][j]
            PROVE  ~Current(x, c)
        <5>1. x \in wheels_[0][j + 1] /\ j + 1 \in 0 .. b - 1
          BY <1>4, <1>n
        <5>. QED
          BY <5>1, <3>2, <3>3
      <4>. QED
        BY <4>1, <3>3
    <3>4. CASE idleTimeout_[c] # 0
      <4>1. PICK j \in 0 .. b - 1 : \E x \in wheels_[0][j] : Answers(x, c)
        BY <3>2, <3>4
      <4>2. PICK x \in wheels_[0][j] : Answers(x, c)
        BY <4>1
      <4>3. CASE j # 0
        <5>1. j - 1 \in 0 .. b - 1 /\ x \in wheels_'[0][j - 1]
          BY <4>3, <1>4, <1>n
        <5>. QED
          BY <5>1, <4>2, <3>4
      <4>4. CASE j = 0
        <5>1. x \in fell' /\ Current(x, c)
          BY <4>2, <4>4, <1>3 DEF Answers
        <5>2. PICK n \in 0 .. b - 1 : \E y \in wheels_'[0][n] : Current(y, c)
          <6>1. DOMAIN wheels_' = {0}
            BY <1>4
          <6>. QED
            BY <5>1, <6>1, <3>1 DEF Kicked, Current
        <5>3. PICK y \in wheels_'[0][n] : Current(y, c)
          BY <5>2
        <5>4. n # b - 1 /\ y \in wheels_[0][n + 1] /\ n + 1 \in 0 .. b - 1
          BY <5>3, <1>4, <1>n
        <5>5. x.due \in Nat /\ y.due \in Nat /\ x.due + 1 <= y.due
          <6>1. x.due \in Nat /\ x.due = base + 0 + Late
            BY <4>2, <4>4 DEF One, Placed
          <6>2. y.due \in Nat /\ y.due = base + (n + 1) + Late
            BY <5>4 DEF One, Placed
          <6>. QED
            BY <6>1, <6>2, <1>6, <1>7, <1>n
        <5>6. Made(x) \in Int /\ Made(y) \in Int /\ Made(x) + 1 <= Made(y)
          BY <5>5, <1>n DEF Made
        <5>7. /\ (Made(x) + 2) * Parts \in Int /\ (Made(y) + 2) * Parts \in Int
              /\ (Made(x) + 2) * Parts <= (Made(y) + 2) * Parts
              /\ (Made(x) + 1) * Parts \in Int /\ (Made(y) + 1) * Parts \in Int
              /\ (Made(x) + 1) * Parts <= (Made(y) + 1) * Parts
          <6>. HIDE DEF Made
          <6>1. Made(x) + 2 \in Int /\ Made(y) + 2 \in Int /\ Made(x) + 2 <= Made(y) + 2
            BY <5>6
          <6>2. Made(x) + 1 \in Int /\ Made(y) + 1 \in Int /\ Made(x) + 1 <= Made(y) + 1
            BY <5>6
          <6>3. Parts \in Nat
            BY <1>n
          <6>. QED
            BY <6>1, <6>2, <6>3, Times
        <5>8. Answers(y, c)
          <6>1. lastUse[c] + 1 < (Made(x) + 2) * Parts /\ lastUpdate[c] < (Made(x) + 1) * Parts
            BY <4>2 DEF Answers
          <6>2. lastUse[c] \in Nat /\ lastUpdate[c] \in Nat
            BY <1>n
          <6>. HIDE DEF Made
          <6>. QED
            BY <6>1, <6>2, <5>3, <5>7 DEF Answers
        <5>. QED
          BY <5>8, <3>4
      <4>. QED
        BY <4>3, <4>4
    <3>. QED
      BY <3>3, <3>4
  <2>2. \A x, c : /\ Current(x, c)' <=> Current(x, c)
                  /\ Answers(x, c)' <=> Answers(x, c)
    BY <1>m, <1>u DEF Answers, Current
  <2>. QED
    BY <2>1, <2>2, <1>5, <1>u, Zenon DEF Guarded
<1>12. \A c \in Peers : conn'[c] = IF c \in Kicked(wheels_', fell') THEN "kicked" ELSE conn[c]
  BY <1>3
<1>. QED
  BY <1>1, <1>3, <1>4, <1>8, <1>9, <1>10, <1>11, <1>12 DEF One

\* ~TimingWheel leaves open only connections whose time-out is off.
LEMMA OneDestroy ==
  ASSUME WheelTypeOK, Small, Wheeled, One, [WheelNext]_wheelVars, Destroy
  PROVE  One'
<1>1. b' = b /\ timeout' = timeout
  BY Fixed
<1>n. b \in Nat \ {0, 1}
  BY Numbers
<1>m. Late' = Late /\ \A x : Made(x)' = Made(x)
  BY <1>1 DEF Late, Made
<1>2. /\ turning = 1 /\ turning' = 2 /\ fell' = {} /\ kicking' = FALSE
      /\ wheels_' = [i \in Wheels |-> [k \in 0 .. b - 1 |-> {}]]
      /\ conn' = [c \in Peers |-> IF c \in Kicked(wheels_', Items) THEN "closed" ELSE conn[c]]
      /\ UNCHANGED <<ticksCounter_, part, idleTimeout_, idleTimeoutBackup_, entry, lastUpdate,
                     lastUse>>
  <2>1. turning = wheelsNum_ /\ turning' = wheelsNum_ + 1
    BY Zenon DEF Destroy
  <2>2. turning = 1 /\ turning' = 2
    BY <2>1, Single
  <2>. QED
    BY <2>2, Zenon DEF Destroy
<1>3. Wheels = {0}
  BY Single
<1>4. \A k \in 0 .. b - 1 : wheels_'[0][k] = {}
  BY <1>2, <1>3
<1>5. Clocked'
  BY <1>2 DEF Clocked
<1>6. Placed'
  BY <1>1, <1>4 DEF Placed
<1>7. Dated'
  <2>1. now' = now
    BY <1>2 DEF now
  <2>. QED
    BY <2>1, <1>1, <1>2, Zenon DEF One, Dated
<1>8. Guarded'
  <2>1. ASSUME NEW c \in Peers, conn'[c] = "open"
        PROVE  idleTimeout_[c] = 0
    <3>1. conn[c] = "open" /\ c \notin Kicked(wheels_', Items)
      BY <2>1, <1>2
    <3>2. SUFFICES ASSUME idleTimeout_[c] # 0 PROVE FALSE
      OBVIOUS
    <3>3. PICK j \in 0 .. b - 1 : \E x \in wheels_[0][j] : Answers(x, c)
      BY <3>1, <3>2 DEF One, Guarded
    <3>4. PICK x \in wheels_[0][j] : Current(x, c)
      BY <3>3 DEF Answers
    <3>5. x \in Items
      BY <3>4, <1>3 DEF Items
    <3>6. DOMAIN wheels_' = {0}
      BY <1>2, <1>3
    <3>. QED
      BY <3>1, <3>4, <3>5, <3>6, <1>4 DEF Kicked, Current
  <2>. QED
    BY <2>1, <1>1, <1>2, <1>4 DEF Guarded
<1>. QED
  BY <1>5, <1>6, <1>7, <1>8 DEF One

\* The wheel has turned when code of the connections runs.
LEMMA OneRuns ==
  ASSUME WheelTypeOK, Small, One, CanRun
  PROVE  turning = 1
BY Single DEF CanRun, One, Clocked

\* One step for each action.
LEMMA OneStep ==
  ASSUME WheelTypeOK, Small, Wheeled, One, [WheelNext]_wheelVars
  PROVE  One'
<1>n. /\ timeout \in Nat \ {0, 1} /\ idleTimeout_ \in [Peers -> Nat]
      /\ idleTimeoutBackup_ \in [Peers -> Nat]
      /\ conn \in [Peers -> {"none", "open", "kicked", "closed"}]
      /\ ticksCounter_ \in Nat /\ part \in 0 .. Parts - 1 /\ Parts \in Nat \ {0}
  BY Numbers DEF WheelTypeOK
<1>f. b' = b /\ timeout' = timeout /\ Late' = Late
  BY Fixed DEF Late
<1>d. \A c \in Peers : idleTimeout_[c] \in {0, timeout} /\ idleTimeoutBackup_[c] \in {0, timeout}
  BY DEF One, Dated
<1>o. \A k \in 0 .. b - 1 : \A x \in wheels_[0][k] : x.owner \in Peers
  BY Single DEF Wheeled, IsItem
<1>1. CASE PartPasses
  <2>1. /\ turning = wheelsNum_ /\ turning' = turning /\ part' = part + 1
        /\ fell' = {} /\ kicking' = FALSE /\ UNCHANGED <<ticksCounter_, wheels_, conn>>
        /\ UNCHANGED <<idleTimeout_, idleTimeoutBackup_, entry, lastUpdate, lastUse>>
    BY <1>1, Zenon DEF PartPasses, kickoff
  <2>2. Clocked'
    BY <2>1, Single DEF Clocked
  <2>3. base' = base
    BY <2>1 DEF base
  <2>4. now' >= now
    BY <2>1, <1>n, Product DEF now
  <2>. QED
    BY <2>1, <2>2, <2>3, <2>4, OneStay
<1>2. CASE Tick
  <2>1. /\ turning = wheelsNum_ /\ turning' = 0 /\ part' = 0 /\ ticksCounter_' = ticksCounter_ + 1
        /\ fell' = {} /\ kicking' = FALSE /\ UNCHANGED <<wheels_, conn>>
        /\ UNCHANGED <<idleTimeout_, idleTimeoutBackup_, entry, lastUpdate, lastUse>>
    BY <1>2, Zenon DEF Tick, kickoff
  <2>2. Clocked'
    BY <2>1 DEF Clocked
  <2>3. base' = base
    BY <2>1, Single DEF base
  <2>4. now' >= now
    <3>1. now' = (ticksCounter_ + 1) * Parts
      BY <2>1, <1>n DEF now
    <3>. HIDE DEF now
    <3>. QED
      BY <3>1, Second
  <2>. QED
    BY <2>1, <2>2, <2>3, <2>4, OneStay
<1>3. CASE Turn
  BY <1>3, OneTurn
<1>4. CASE Destroy
  BY <1>4, OneDestroy
<1>5. ASSUME NEW c \in Peers, enableKickingOff(c)
      PROVE  One'
  <2>1. turning = 1
    BY <1>5, OneRuns, Zenon DEF enableKickingOff
  <2>2. /\ conn' = [conn EXCEPT ![c] = "open"]
        /\ idleTimeout_' = [idleTimeout_ EXCEPT ![c] = timeout]
        /\ lastUse' = [lastUse EXCEPT ![c] = now]
        /\ insertEntryInloop(c, entry[c], timeout)
        /\ UNCHANGED <<clock, fell, kicking, idleTimeoutBackup_, entry, lastUpdate>>
    BY <1>5, Zenon DEF enableKickingOff
  <2>3. /\ idleTimeout_'[c] = timeout
        /\ \A o \in Peers \ {c} : conn'[o] = conn[o] /\ idleTimeout_'[o] = idleTimeout_[o]
    BY <2>2, <1>n
  <2>4. \A o \in Peers : idleTimeoutBackup_'[o] \in {0, timeout}
    BY <2>2, <1>d, Zenon
  <2>. QED
    BY <2>1, <2>2, <2>3, <2>4, OneInsert
<1>6. ASSUME NEW c \in Peers, extendLife(c)
      PROVE  One'
  <2>1. /\ turning = 1 /\ conn[c] = "open"
        /\ lastUse' = [lastUse EXCEPT ![c] = now]
        /\ UNCHANGED <<clock, fell, kicking, conn, idleTimeout_, idleTimeoutBackup_, entry>>
    BY <1>6, OneRuns, Zenon DEF extendLife
  <2>2. CASE idleTimeout_[c] > 0 /\ (lastUpdate[c] = 0 \/ now >= lastUpdate[c] + Parts)
    <3>1. lastUpdate' = [lastUpdate EXCEPT ![c] = now] /\ insertEntryInloop(c, entry[c], idleTimeout_[c])
      BY <1>6, <2>2, Zenon DEF extendLife
    <3>2. idleTimeout_[c] = timeout
      BY <2>2, <1>d, <1>n
    <3>3. /\ idleTimeout_'[c] = timeout
          /\ \A o \in Peers \ {c} : conn'[o] = conn[o] /\ idleTimeout_'[o] = idleTimeout_[o]
          /\ \A o \in Peers : idleTimeoutBackup_'[o] \in {0, timeout}
      BY <2>1, <3>2, <1>d
    <3>. QED
      BY <2>1, <3>1, <3>2, <3>3, OneInsert
  <2>3. CASE ~(idleTimeout_[c] > 0 /\ (lastUpdate[c] = 0 \/ now >= lastUpdate[c] + Parts))
    <3>1. UNCHANGED <<lastUpdate, wheels_>>
      BY <1>6, <2>3, Zenon DEF extendLife
    <3>2. idleTimeout_[c] > 0 => now < lastUpdate[c] + Parts
      <4>1. lastUpdate[c] \in Nat /\ now \in Nat
        BY Numbers DEF WheelTypeOK
      <4>. HIDE DEF now
      <4>. QED
        BY <4>1, <2>3, <1>n
    <3>. QED
      BY <2>1, <3>1, <3>2, <1>o, OneUse
  <2>. QED
    BY <2>2, <2>3
<1>7. ASSUME NEW c \in Peers, keepAlive(c)
      PROVE  One'
  <2>1. /\ entry' = [entry EXCEPT ![c] = @ + 1] /\ idleTimeout_' = [idleTimeout_ EXCEPT ![c] = 0]
        /\ UNCHANGED <<clock, fell, kicking, wheels_, lastUpdate, lastUse, conn>>
        /\ UNCHANGED idleTimeoutBackup_
    BY <1>7, Zenon DEF keepAlive, wheel
  <2>2. \A o \in Peers : idleTimeoutBackup_'[o] \in {0, timeout}
    BY <2>1, <1>d, Zenon
  <2>. QED
    BY <2>1, <2>2, OneDetach
<1>8. ASSUME NEW c \in Peers, SuspendKickoff(c)
      PROVE  One'
  <2>1. /\ entry' = [entry EXCEPT ![c] = @ + 1] /\ idleTimeout_' = [idleTimeout_ EXCEPT ![c] = 0]
        /\ UNCHANGED <<clock, fell, kicking, wheels_, lastUpdate, lastUse, conn>>
        /\ idleTimeoutBackup_' = [idleTimeoutBackup_ EXCEPT ![c] = idleTimeout_[c]]
    BY <1>8, Zenon DEF SuspendKickoff, wheel
  <2>2. \A o \in Peers : idleTimeoutBackup_'[o] \in {0, timeout}
    BY <2>1, <1>d, <1>n
  <2>. QED
    BY <2>1, <2>2, OneDetach
<1>9. ASSUME NEW c \in Peers, ResumeKickoff(c)
      PROVE  One'
  <2>1. /\ turning = 1 /\ idleTimeoutBackup_[c] > 0
        /\ idleTimeout_' = [idleTimeout_ EXCEPT ![c] = idleTimeoutBackup_[c]]
        /\ idleTimeoutBackup_' = [idleTimeoutBackup_ EXCEPT ![c] = 0]
        /\ lastUse' = [lastUse EXCEPT ![c] = now]
        /\ insertEntryInloop(c, entry[c], idleTimeoutBackup_[c])
        /\ UNCHANGED <<clock, fell, kicking, conn, entry, lastUpdate>>
    BY <1>9, OneRuns, Zenon DEF ResumeKickoff
  <2>2. idleTimeoutBackup_[c] = timeout
    BY <2>1, <1>d, <1>n
  <2>3. /\ idleTimeout_'[c] = timeout
        /\ \A o \in Peers \ {c} : conn'[o] = conn[o] /\ idleTimeout_'[o] = idleTimeout_[o]
        /\ \A o \in Peers : idleTimeoutBackup_'[o] \in {0, timeout}
    BY <2>1, <2>2, <1>d, <1>n
  <2>. QED
    BY <2>1, <2>2, <2>3, OneInsert
<1>10. ASSUME NEW c \in Peers, Close(c)
       PROVE  One'
  <2>1. /\ conn' = [conn EXCEPT ![c] = "closed"] /\ conn[c] = "open"
        /\ UNCHANGED <<wheels_, fell, kicking>> /\ UNCHANGED clock
        /\ UNCHANGED <<idleTimeout_, idleTimeoutBackup_, entry, lastUpdate, lastUse>>
    BY <1>10, Zenon DEF Close, wheel
  <2>2. Clocked' /\ base' = base /\ now' = now
    BY <2>1, <1>f, Zenon DEF One, Clocked, clock, base, now
  <2>3. now \in Nat
    BY Numbers
  <2>4. now' >= now
    <3>. HIDE DEF now
    <3>. QED
      BY <2>2, <2>3
  <2>5. \A o \in Peers : conn'[o] = "open" => conn[o] = "open"
    BY <2>1, <1>n
  <2>. QED
    BY <2>1, <2>2, <2>4, <2>5, OneStay
<1>11. CASE UNCHANGED wheelVars
  <2>1. /\ UNCHANGED <<wheels_, fell, kicking, conn>> /\ UNCHANGED clock
        /\ UNCHANGED <<idleTimeout_, idleTimeoutBackup_, entry, lastUpdate, lastUse>>
    BY <1>11, Zenon DEF wheelVars, wheel, kickoff
  <2>2. Clocked' /\ base' = base /\ now' = now
    BY <2>1, <1>f, Zenon DEF One, Clocked, clock, base, now
  <2>3. now \in Nat
    BY Numbers
  <2>4. now' >= now
    <3>. HIDE DEF now
    <3>. QED
      BY <2>2, <2>3
  <2>. QED
    BY <2>1, <2>2, <2>4, OneStay
<1>. QED
  BY <1>1, <1>2, <1>3, <1>4, <1>5, <1>6, <1>7, <1>8, <1>9, <1>10, <1>11, Zenon DEF WheelNext, Call

-----------------------------------------------------------------------------
(* Quotients and remainders *)

LEMMA DivMod ==
  ASSUME NEW t \in Nat, NEW m \in Nat \ {0}
  PROVE  t \div m \in Nat /\ t % m \in 0 .. m - 1 /\ t = (t \div m) * m + (t % m)
OBVIOUS

LEMMA DivModUnique ==
  ASSUME NEW q \in Nat, NEW u \in Nat, NEW m \in Nat \ {0}, NEW r \in 0 .. m - 1, NEW v \in 0 .. m - 1,
         q * m + r = u * m + v
  PROVE  q = u /\ r = v
<1>1. q * m \in Int /\ u * m \in Int /\ (q + 1) * m = q * m + m /\ (u + 1) * m = u * m + m
  OBVIOUS
<1>2. ~(q < u)
  <2>1. SUFFICES ASSUME q < u PROVE FALSE
    OBVIOUS
  <2>2. (q + 1) * m <= u * m
    BY <2>1, Times
  <2>. QED
    BY <1>1, <2>2
<1>3. ~(u < q)
  <2>1. SUFFICES ASSUME u < q PROVE FALSE
    OBVIOUS
  <2>2. (u + 1) * m <= q * m
    BY <2>1, Times
  <2>. QED
    BY <1>1, <2>2
<1>4. q = u
  BY <1>2, <1>3
<1>. QED
  BY <1>1, <1>4

\* The next multiple of m after t, seen from t and from t + 1.
LEMMA NextMultiple ==
  ASSUME NEW t \in Nat, NEW m \in Nat \ {0}
  PROVE  IF (t + 1) % m = 0 THEN t + 1 = (t \div m + 1) * m ELSE (t + 1) \div m = t \div m
<1>. DEFINE q == t \div m
            r == t % m
<1>1. q \in Nat /\ r \in 0 .. m - 1 /\ t = q * m + r
  BY DivMod
<1>2. (t + 1) \div m \in Nat /\ (t + 1) % m \in 0 .. m - 1 /\ t + 1 = ((t + 1) \div m) * m + ((t + 1) % m)
  <2>1. t + 1 \in Nat
    OBVIOUS
  <2>. QED
    BY <2>1, DivMod, Zenon
<1>3. q * m \in Int /\ (q + 1) * m = q * m + m
  <2>. HIDE DEF q
  <2>. QED
    BY <1>1
<1>4. CASE r = m - 1
  <2>1. t + 1 = (q + 1) * m + 0 /\ 0 \in 0 .. m - 1
    <3>. HIDE DEF q, r
    <3>. QED
      BY <1>1, <1>3, <1>4
  <2>2. q + 1 \in Nat
    BY <1>1
  <2>. HIDE DEF q, r
  <2>3. (t + 1) % m = 0 /\ (t + 1) \div m = q + 1
    BY <2>1, <2>2, <1>2, DivModUnique
  <2>. QED
    BY <2>1, <2>3, <1>3 DEF q
<1>5. CASE r # m - 1
  <2>1. t + 1 = q * m + (r + 1) /\ r + 1 \in 0 .. m - 1
    <3>. HIDE DEF q, r
    <3>. QED
      BY <1>1, <1>3, <1>5
  <2>. HIDE DEF q, r
  <2>2. (t + 1) % m = r + 1 /\ (t + 1) \div m = q
    BY <2>1, <1>1, <1>2, DivModUnique
  <2>. QED
    BY <2>1, <2>2, <1>1 DEF q
<1>. QED
  BY <1>4, <1>5

-----------------------------------------------------------------------------
(* Two wheels *)

\* The time-out fits in two wheels, and not in one.
Pair == timeout > b /\ timeout <= b * b

\* Then there are two wheels.
LEMMA Double ==
  ASSUME WheelTypeOK, Pair
  PROVE  /\ wheelsNum_ = 2 /\ Wheels = {0, 1}
         /\ b ^ 0 = 1 /\ b ^ 1 = b /\ b ^ (wheelsNum_ - 1) = b
<1>n. b \in Nat \ {0, 1} /\ timeout \in Nat \ {0, 1}
  BY Numbers
<1>1. b ^ 0 = 1 /\ b ^ 1 = b /\ b ^ 2 = b * b
  BY PowersAssumption DEF WheelTypeOK, b
<1>2. wheelsNum_ = 2
  <2>. DEFINE P(w) == b ^ w >= timeout /\ \A v \in 1 .. w - 1 : b ^ v < timeout
  <2>1. 2 \in 1 .. timeout /\ P(2)
    <3>1. b ^ 2 >= timeout
      BY <1>1, <1>n DEF Pair
    <3>2. ASSUME NEW v \in 1 .. 2 - 1
          PROVE  b ^ v < timeout
      <4>1. v = 1
        OBVIOUS
      <4>. QED
        BY <4>1, <1>1, <1>n DEF Pair
    <3>. QED
      BY <3>1, <3>2, <1>n
  <2>2. ASSUME NEW w \in 1 .. timeout, P(w)
        PROVE  w = 2
    <3>1. CASE w > 2
      <4>1. 2 \in 1 .. w - 1
        BY <3>1, <1>n
      <4>2. b ^ 2 < timeout
        BY <4>1, <2>2
      <4>3. b * b \in Nat
        BY <1>n, Product
      <4>. QED
        BY <4>2, <4>3, <1>1, <1>n DEF Pair
    <3>2. CASE w = 1
      BY <3>2, <2>2, <1>1, <1>n DEF Pair
    <3>. QED
      BY <3>1, <3>2, <1>n
  <2>3. wheelsNum_ = CHOOSE w \in 1 .. timeout : P(w)
    BY DEF wheelsNum_, WheelsNum
  <2>. HIDE DEF P
  <2>. QED
    BY <2>1, <2>2, <2>3
<1>3. 0 .. 2 - 1 = {0, 1}
  OBVIOUS
<1>. QED
  BY <1>1, <1>2, <1>3 DEF Wheels

\* The recursive function of insertEntryInloop, for both wheels.
LEMMA DelayTwo ==
  ASSUME WheelTypeOK, Pair, NEW d
  PROVE  Delay(d)[0] = d /\ Delay(d)[1] = (d + (ticksCounter_ % b) - 1) \div b
<1>. DEFINE F(g) == [j \in {0, 1} |-> IF j = 0 THEN d
                       ELSE (g[j-1] + ((ticksCounter_ \div b ^ (j-1)) % b) - 1) \div b]
            e == (d + ((ticksCounter_ \div b ^ 0) % b) - 1) \div b
<1>1. PICK g : g = [j \in {0, 1} |-> IF j = 0 THEN d ELSE e]
  OBVIOUS
<1>2. g = F(g)
  <2>. HIDE DEF e
  <2>1. g[0] = d /\ g[1] = e /\ 1 - 1 = 0
    BY <1>1
  <2>2. F(g)[0] = d
    OBVIOUS
  <2>3. F(g)[1] = e
    BY <2>1 DEF e
  <2>. QED
    BY <1>1, <2>2, <2>3
<1>3. ASSUME NEW h, h = F(h)
      PROVE  h[0] = d /\ h[1] = e
  <2>1. h[0] = d
    BY <1>3
  <2>2. h[1] = (h[1 - 1] + ((ticksCounter_ \div b ^ (1 - 1)) % b) - 1) \div b
    BY <1>3
  <2>3. 1 - 1 = 0
    OBVIOUS
  <2>. QED
    BY <2>1, <2>2, <2>3
<1>4. (CHOOSE h : h = F(h)) = F(CHOOSE h : h = F(h))
  <2>. HIDE DEF F
  <2>. QED
    BY <1>2
<1>5. (CHOOSE h : h = F(h))[0] = d /\ (CHOOSE h : h = F(h))[1] = e
  <2>. HIDE DEF F, e
  <2>. QED
    BY <1>3, <1>4
<1>6. Wheels = {0, 1}
  BY Double
<1>7. e = (d + (ticksCounter_ % b) - 1) \div b
  <2>1. ticksCounter_ \div b ^ 0 = ticksCounter_
    BY Double DEF WheelTypeOK
  <2>. QED
    BY <2>1
<1>8. Delay(d)[0] = (CHOOSE h : h = F(h))[0] /\ Delay(d)[1] = (CHOOSE h : h = F(h))[1]
  BY <1>6 DEF Delay
<1>. HIDE DEF F, e
<1>. QED
  BY <1>5, <1>7, <1>8

\* The next tick at which wheel 1 turns.
base1 == IF turning \in {0, 1} /\ ticksCounter_ % b = 0 THEN ticksCounter_
         ELSE (ticksCounter_ \div b + 1) * b

\* The tick at which an item is dropped: one that was made in the middle of a tick
\* at which wheel 1 had yet to turn goes one bucket too far.
Fall(x) == IF x.inTick /\ Made(x) % b = 0 THEN x.due - b ELSE x.due

\* How much sooner than due the last item of a connection may be dropped.
Slack(c) == IF midTick[c] THEN b ELSE 0

\* Where the tick is; what fell, fell when Fall says.
Clocked2 ==
  /\ turning \in {0, 1, 2, 3} /\ (turning = 0 => part = 0) /\ (kicking => turning = 1)
  /\ \A x \in fell : x.due \in Nat /\ Fall(x) = ticksCounter_

\* The connection of an item has been used since the item was made.
Timely(x) ==
  /\ x.due \in Nat /\ x.due >= timeout + 1
  /\ Made(x) * Parts <= lastUse[x.owner]

\* An item of wheel 1 has its bucket of wheel 0 in its path.
Placed2 ==
  \A k \in 0 .. b - 1 :
    /\ \A x \in wheels_[0][k] : Timely(x) /\ Fall(x) = base + k
    /\ \A x \in wheels_[1][k] :
         /\ Timely(x) /\ Head(x.path) \in 0 .. b - 1
         /\ Fall(x) = base1 + k * b + 1 + Head(x.path)

\* Item x answers for the last use of c.
Answers2(x, c) ==
  /\ Current(x, c)
  /\ lastUse[c] + 1 < (Fall(x) + Slack(c) - timeout + 1) * Parts
  /\ lastUpdate[c] < (Fall(x) + Slack(c) - timeout) * Parts

\* As Guarded, of both wheels.
Guarded2 ==
  \A c \in Peers : conn[c] = "open" =>
    IF idleTimeout_[c] = 0
    THEN \A i \in {0, 1}, k \in 0 .. b - 1 : \A x \in wheels_[i][k] : ~Current(x, c)
    ELSE \E i \in {0, 1}, k \in 0 .. b - 1 : \E x \in wheels_[i][k] : Answers2(x, c)

\* What holds of two wheels.
Two == Clocked2 /\ Placed2 /\ Dated /\ Guarded2

\* With two wheels an item goes to wheel 1, and its path says to which bucket of
\* wheel 0 it moves, so that it falls when Fall says.
LEMMA InsertedTwo ==
  ASSUME WheelTypeOK, Pair, turning \in {1, 2}, NEW c \in Peers,
         insertEntryInloop(c, entry[c], timeout)
  PROVE  \E k, it : /\ k \in 0 .. b - 1 /\ Head(it.path) \in 0 .. b - 1
                    /\ it.owner = c /\ it.num = entry[c] /\ it.due = ticksCounter_ + (timeout + 1)
                    /\ it.inTick \in BOOLEAN
                    /\ Fall(it) = base1 + k * b + 1 + Head(it.path)
                    /\ wheels_' = [wheels_ EXCEPT ![1][k] = @ \cup {it}]
                    /\ midTick' = [midTick EXCEPT ![c] = it.inTick]
<1>n. b \in Nat \ {0, 1} /\ timeout \in Nat \ {0, 1} /\ ticksCounter_ \in Nat
  BY Numbers DEF WheelTypeOK
<1>w. wheelsNum_ = 2 /\ Wheels = {0, 1} /\ b ^ 0 = 1
  BY Double
<1>. DEFINE d == timeout + 1
            q == ticksCounter_ \div b
            r == ticksCounter_ % b
            D == (timeout + r) \div b
            s == (timeout + r) % b
            it == Item(c, entry[c], d)
<1>1. q \in Nat /\ r \in 0 .. b - 1 /\ ticksCounter_ = q * b + r
  BY <1>n, DivMod
<1>2. D \in Nat /\ s \in 0 .. b - 1 /\ timeout + r = D * b + s
  <2>1. timeout + r \in Nat
    BY <1>n, <1>1
  <2>. HIDE DEF r
  <2>. QED
    BY <2>1, <1>n, DivMod
<1>3. Delay(d)[0] = d /\ Delay(d)[1] = D
  <2>1. d + r - 1 = timeout + r
    BY <1>n, <1>1
  <2>. QED
    BY <2>1, DelayTwo
<1>4. 1 <= D /\ D <= b
  <2>. HIDE DEF q, r, D, s
  <2>1. D # 0
    <3>1. SUFFICES ASSUME D = 0 PROVE FALSE
      OBVIOUS
    <3>2. D * b = 0
      BY <3>1, <1>n
    <3>. QED
      BY <3>2, <1>1, <1>2, <1>n DEF Pair
  <2>2. ~(D >= b + 1)
    <3>1. SUFFICES ASSUME D >= b + 1 PROVE FALSE
      OBVIOUS
    <3>2. (b + 1) * b <= D * b
      BY <3>1, <1>2, <1>n, Times
    <3>3. (b + 1) * b = b * b + b /\ b * b \in Nat /\ D * b \in Nat
      BY <1>2, <1>n
    <3>. QED
      BY <3>2, <3>3, <1>1, <1>2, <1>n DEF Pair
  <2>. QED
    BY <2>1, <2>2, <1>2, <1>n
<1>5. Level(d) = 1
  <2>. DEFINE fit == {i \in Wheels : Delay(d)[i] <= b \/ i = wheelsNum_ - 1}
  <2>1. fit = {1}
    <3>. HIDE DEF D
    <3>. QED
      BY <1>w, <1>3, <1>n DEF Pair
  <2>2. Level(d) = CHOOSE i \in fit : \A j \in fit : i <= j
    BY DEF Level
  <2>. HIDE DEF fit
  <2>. QED
    BY <2>1, <2>2
<1>6. wheels_' = [wheels_ EXCEPT ![1][D - 1] = @ \cup {it}]
  <2>. DEFINE k == IF Delay(d)[1] <= b THEN Delay(d)[1] - 1 ELSE b - 1
  <2>1. k = D - 1
    BY <1>3, <1>4, Zenon
  <2>. HIDE DEF d
  <2>2. wheels_' = [wheels_ EXCEPT ![1][k] = @ \cup {it}]
    BY <1>5, Zenon DEF insertEntryInloop, d
  <2>. QED
    BY <2>1, <2>2, Zenon
<1>7. midTick' = [midTick EXCEPT ![c] = turning < wheelsNum_]
  BY Zenon DEF insertEntryInloop
<1>8. Slot(d, 0) = s
  <2>1. ticksCounter_ \div b ^ 0 = ticksCounter_
    BY <1>w, <1>n
  <2>2. d + r - 1 = timeout + r
    BY <1>n, <1>1
  <2>. QED
    BY <1>3, <2>1, <2>2 DEF Slot
<1>9. /\ it.owner = c /\ it.num = entry[c] /\ it.due = ticksCounter_ + (timeout + 1)
      /\ it.inTick = (turning < wheelsNum_)
      /\ it.path = [k \in 1 .. Level(d) |-> Slot(d, Level(d) - k)]
  BY DEF Item
<1>10. Head(it.path) = s
  <2>1. it.path = [k \in 1 .. 1 |-> Slot(d, 1 - k)]
    BY <1>5, <1>9
  <2>2. it.path[1] = Slot(d, 1 - 1) /\ 1 - 1 = 0
    BY <2>1
  <2>. HIDE DEF it, d, s
  <2>. QED
    BY <2>2, <1>8
<1>11. it.inTick = (turning = 1)
  BY <1>9, <1>w
<1>12. Made(it) = ticksCounter_
  BY <1>9, <1>n DEF Made
<1>13. /\ it.due = (q + 1) * b + (D - 1) * b + 1 + s
       /\ (q + 1) * b = q * b + b /\ q * b \in Int /\ (D - 1) * b \in Int
  <2>. HIDE DEF q, r, D, s, it
  <2>1. /\ (q + 1) * b = q * b + b /\ (D - 1) * b = D * b - b
        /\ q * b \in Int /\ D * b \in Int
    BY <1>1, <1>2, <1>n
  <2>. QED
    BY <2>1, <1>1, <1>2, <1>9, <1>n
<1>14. Fall(it) = base1 + (D - 1) * b + 1 + s
  <2>1. CASE turning = 1 /\ r = 0
    <3>1. base1 = q * b
      <4>1. base1 = ticksCounter_
        BY <2>1 DEF base1
      <4>. HIDE DEF q
      <4>. QED
        BY <4>1, <1>1, <1>13, <2>1
    <3>2. Fall(it) = it.due - b
      BY <2>1, <1>11, <1>12 DEF Fall
    <3>. HIDE DEF q, r, D, s, it
    <3>. QED
      BY <3>1, <3>2, <1>2, <1>13, <1>n
  <2>2. CASE ~(turning = 1 /\ r = 0)
    <3>1. base1 = (q + 1) * b
      BY <2>2 DEF base1
    <3>2. Fall(it) = it.due
      BY <2>2, <1>11, <1>12 DEF Fall
    <3>. HIDE DEF q, r, D, s, it
    <3>. QED
      BY <3>1, <3>2, <1>13
  <2>. QED
    BY <2>1, <2>2
<1>. HIDE DEF it, D, s
<1>15. D - 1 \in 0 .. b - 1
  BY <1>2, <1>4, <1>n
<1>. QED
  BY <1>2, <1>6, <1>7, <1>9, <1>10, <1>11, <1>14, <1>15

\* An item falls when it is due, or a turn of wheel 0 before.
LEMMA Falls ==
  ASSUME WheelTypeOK, NEW x, x.due \in Nat
  PROVE  /\ Made(x) \in Int /\ Fall(x) \in Int /\ x.due - b <= Fall(x) /\ Fall(x) <= x.due
         /\ \A c : Slack(c) \in {0, b}
<1>1. b \in Nat \ {0, 1} /\ timeout \in Nat \ {0, 1}
  BY Numbers
<1>2. \A c : Slack(c) \in {0, b}
  BY DEF Slack
<1>3. Fall(x) \in {x.due, x.due - b}
  BY DEF Fall
<1>. QED
  BY <1>1, <1>2, <1>3 DEF Made

\* The server starts with empty wheels, between two ticks.
LEMMA TwoInit ==
  ASSUME WheelInit, WheelTypeOK, Pair
  PROVE  Two
<1>n. b \in Nat \ {0, 1} /\ timeout \in Nat \ {0, 1} /\ now \in Nat
  BY Numbers
<1>1. PICK s \in Shapes :
        /\ bucketsNumPerWheel_ = s[1] /\ timeout = s[2]
        /\ wheels_ = [i \in 0 .. WheelsNum(s[1], s[2]) - 1 |-> [k \in 0 .. s[1] - 1 |-> {}]]
        /\ turning = WheelsNum(s[1], s[2])
  BY Zenon DEF WheelInit
<1>2. wheels_ = [i \in Wheels |-> [k \in 0 .. b - 1 |-> {}]] /\ turning = wheelsNum_
  BY <1>1 DEF Wheels, wheelsNum_, b
<1>3. /\ wheels_[0] = [k \in 0 .. b - 1 |-> {}] /\ wheels_[1] = [k \in 0 .. b - 1 |-> {}]
      /\ turning = 2
  BY <1>2, Double
<1>4. /\ kicking = FALSE /\ fell = {}
      /\ idleTimeout_ = [c \in Peers |-> 0] /\ idleTimeoutBackup_ = [c \in Peers |-> 0]
      /\ lastUpdate = [c \in Peers |-> 0] /\ lastUse = [c \in Peers |-> 0]
      /\ conn = [c \in Peers |-> "none"]
  BY Zenon DEF WheelInit
<1>5. Clocked2
  BY <1>3, <1>4 DEF Clocked2
<1>6. Placed2
  BY <1>3 DEF Placed2
<1>7. Dated
  BY <1>4, <1>n DEF Dated
<1>8. Guarded2
  BY <1>4 DEF Guarded2
<1>. QED
  BY <1>5, <1>6, <1>7, <1>8 DEF Two

\* Time passes, or a connection is closed.
LEMMA TwoStay ==
  ASSUME WheelTypeOK, Two, [WheelNext]_wheelVars, Clocked2',
         base' = base, base1' = base1, now' >= now,
         UNCHANGED <<wheels_, idleTimeout_, idleTimeoutBackup_, entry, lastUpdate, lastUse,
                     midTick>>,
         \A c \in Peers : conn'[c] = "open" => conn[c] = "open"
  PROVE  Two'
<1>n. /\ now \in Nat
      /\ \A c \in Peers : lastUse[c] \in Nat /\ lastUpdate[c] \in Nat
  BY Numbers DEF WheelTypeOK
<1>1. b' = b /\ timeout' = timeout
  BY Fixed
<1>m. \A x : Made(x)' = Made(x) /\ Fall(x)' = Fall(x) /\ (Timely(x)' <=> Timely(x))
  BY <1>1 DEF Made, Fall, Timely
<1>s. \A c : Slack(c)' = Slack(c)
  BY <1>1 DEF Slack
<1>. HIDE DEF b
<1>2. Placed2'
  BY <1>1, <1>m, Zenon DEF Two, Placed2
<1>3. Dated'
  <2>1. WheelTypeOK'
    BY WheelTypeStep
  <2>2. now' \in Nat
    <3>1. ticksCounter_' \in Nat /\ part' \in 0 .. Parts - 1 /\ Parts \in Nat
      BY <2>1, PartsAssumption DEF WheelTypeOK
    <3>2. part' \in Nat
      BY <3>1
    <3>3. ticksCounter_' * Parts \in Nat
      BY <3>1, Product
    <3>4. now' = ticksCounter_' * Parts + part'
      BY DEF now
    <3>. QED
      BY <3>2, <3>3, <3>4
  <2>3. Dated
    BY DEF Two
  <2>. HIDE DEF now
  <2>. QED
    BY <1>1, <1>n, <2>2, <2>3 DEF Dated
<1>4. Guarded2'
  <2>1. Guarded2
    BY DEF Two
  <2>2. \A x, c : Answers2(x, c)' <=> Answers2(x, c)
    BY <1>1, <1>m, <1>s DEF Answers2, Current
  <2>3. \A x, c : Current(x, c)' <=> Current(x, c)
    BY DEF Current
  <2>. QED
    BY <1>1, <2>1, <2>2, <2>3, Zenon DEF Guarded2
<1>. QED
  BY <1>2, <1>3, <1>4 DEF Two

\* A connection is used, or its time-out starts: an item is inserted.
LEMMA TwoInsert ==
  ASSUME WheelTypeOK, Pair, Wheeled, Two, [WheelNext]_wheelVars, turning \in {1, 2},
         NEW c \in Peers, insertEntryInloop(c, entry[c], timeout),
         lastUse' = [lastUse EXCEPT ![c] = now],
         \/ lastUpdate' = lastUpdate
         \/ lastUpdate' = [lastUpdate EXCEPT ![c] = now],
         UNCHANGED <<clock, fell, kicking, entry>>,
         idleTimeout_'[c] = timeout, \A o \in Peers : idleTimeoutBackup_'[o] \in {0, timeout},
         \A o \in Peers \ {c} : conn'[o] = conn[o] /\ idleTimeout_'[o] = idleTimeout_[o]
  PROVE  Two'
<1>1. b' = b /\ timeout' = timeout
  BY Fixed
<1>2. now' = now /\ base' = base /\ base1' = base1
  BY DEF clock, now, base, base1, b
<1>m. \A x : Made(x)' = Made(x) /\ Fall(x)' = Fall(x)
  BY <1>1 DEF Made, Fall
<1>n. /\ b \in Nat \ {0, 1} /\ timeout \in Nat \ {0, 1} /\ Parts \in Nat \ {0}
      /\ ticksCounter_ \in Nat /\ now \in Nat
      /\ lastUse \in [Peers -> Nat] /\ lastUpdate \in [Peers -> Nat]
      /\ midTick \in [Peers -> BOOLEAN]
  BY Numbers DEF WheelTypeOK
<1>3. PICK k, it :
        /\ k \in 0 .. b - 1 /\ Head(it.path) \in 0 .. b - 1
        /\ it.owner = c /\ it.num = entry[c] /\ it.due = ticksCounter_ + (timeout + 1)
        /\ it.inTick \in BOOLEAN
        /\ Fall(it) = base1 + k * b + 1 + Head(it.path)
        /\ wheels_' = [wheels_ EXCEPT ![1][k] = @ \cup {it}]
        /\ midTick' = [midTick EXCEPT ![c] = it.inTick]
  BY InsertedTwo
<1>4. 0 \in Wheels /\ 1 \in Wheels
  BY Double
<1>5. /\ wheels_'[1][k] = wheels_[1][k] \cup {it} /\ wheels_'[0] = wheels_[0]
      /\ \A j \in 0 .. b - 1 : j # k => wheels_'[1][j] = wheels_[1][j]
  <2>1. wheels_ = [i \in {0, 1} |-> wheels_[i]] /\ wheels_[1] = [j \in 0 .. b - 1 |-> wheels_[1][j]]
    <3>1. wheels_ = [i \in {0, 1} |-> [j \in 0 .. b - 1 |-> wheels_[i][j]]]
      BY Double, Zenon DEF Wheeled
    <3>. QED
      BY <3>1
  <2>2. wheels_'[1] = [wheels_[1] EXCEPT ![k] = @ \cup {it}] /\ wheels_'[0] = wheels_[0]
    <3>1. wheels_' = [wheels_ EXCEPT ![1] = [wheels_[1] EXCEPT ![k] = @ \cup {it}]]
      BY <1>3, Zenon
    <3>2. 1 \in DOMAIN wheels_
      BY <2>1
    <3>. QED
      BY <3>1, <3>2
  <2>. HIDE DEF b
  <2>. QED
    BY <2>1, <2>2, <1>3
<1>6. Made(it) = ticksCounter_
  BY <1>3, <1>n DEF Made
<1>7. Clocked2'
  BY <1>m, Zenon DEF Two, Clocked2, clock
<1>8. \A o \in Peers : lastUse[o] <= lastUse'[o] /\ lastUse'[o] <= now /\ lastUpdate'[o] <= now
                       /\ lastUse'[o] \in Nat /\ lastUpdate'[o] \in Nat
  <2>. HIDE DEF now
  <2>. QED
    BY <1>n DEF Two, Dated
<1>9. ASSUME NEW i \in {0, 1}, NEW j \in 0 .. b - 1, NEW x \in wheels_[i][j]
      PROVE  Timely(x)'
  <2>1. x.due \in Nat /\ x.due >= timeout + 1 /\ Made(x) * Parts <= lastUse[x.owner]
    BY DEF Two, Placed2, Timely
  <2>2. x.owner \in Peers
    BY <1>4 DEF Wheeled, IsItem
  <2>3. Made(x) * Parts \in Int
    BY <2>1, <1>n DEF Made
  <2>4. lastUse[x.owner] <= lastUse'[x.owner] /\ lastUse[x.owner] \in Nat
        /\ lastUse'[x.owner] \in Nat
    BY <2>2, <1>8, <1>n
  <2>5. Made(x) * Parts <= lastUse'[x.owner]
    BY <2>1, <2>3, <2>4
  <2>. QED
    BY <2>1, <2>5, <1>1, <1>m, Zenon DEF Timely
<1>10. Timely(it)'
  <2>1. it.due \in Nat /\ it.due >= timeout + 1
    BY <1>3, <1>n
  <2>2. lastUse'[c] = now
    BY <1>n
  <2>3. Made(it) * Parts <= lastUse'[it.owner]
    BY <2>2, <1>3, <1>6, Second
  <2>. QED
    BY <2>1, <2>3, <1>1, <1>m, Zenon DEF Timely
<1>11. Placed2'
  <2>1. ASSUME NEW j \in 0 .. b - 1
        PROVE  /\ \A x \in wheels_'[0][j] : Timely(x)' /\ Fall(x) = base + j
               /\ \A x \in wheels_'[1][j] :
                    /\ Timely(x)' /\ Head(x.path) \in 0 .. b - 1
                    /\ Fall(x) = base1 + j * b + 1 + Head(x.path)
    <3>1. \A x \in wheels_'[0][j] : Timely(x)' /\ Fall(x) = base + j
      BY <1>5, <1>9, Zenon DEF Two, Placed2
    <3>2. ASSUME NEW x \in wheels_'[1][j]
          PROVE  /\ Timely(x)' /\ Head(x.path) \in 0 .. b - 1
                 /\ Fall(x) = base1 + j * b + 1 + Head(x.path)
      <4>1. CASE x \in wheels_[1][j]
        BY <4>1, <1>9, Zenon DEF Two, Placed2
      <4>2. CASE x \notin wheels_[1][j]
        <5>1. x = it /\ j = k
          BY <4>2, <1>5
        <5>. QED
          BY <5>1, <1>3, <1>10
      <4>. QED
        BY <4>1, <4>2
    <3>. QED
      BY <3>1, <3>2, Zenon
  <2>. QED
    BY <2>1, <1>1, <1>2, <1>m, Zenon DEF Placed2
<1>12. Dated'
  <2>1. \A o \in Peers : idleTimeout_'[o] \in {0, timeout}
    BY DEF Two, Dated
  <2>. QED
    BY <2>1, <1>1, <1>2, <1>8, Zenon DEF Dated
<1>13. Guarded2'
  <2>1. ASSUME NEW o \in Peers, conn'[o] = "open", o # c
        PROVE  IF idleTimeout_'[o] = 0
               THEN \A i \in {0, 1}, j \in 0 .. b - 1 : \A x \in wheels_'[i][j] : ~Current(x, o)'
               ELSE \E i \in {0, 1}, j \in 0 .. b - 1 : \E x \in wheels_'[i][j] : Answers2(x, o)'
    <3>1. IF idleTimeout_[o] = 0
          THEN \A i \in {0, 1}, j \in 0 .. b - 1 : \A x \in wheels_[i][j] : ~Current(x, o)
          ELSE \E i \in {0, 1}, j \in 0 .. b - 1 : \E x \in wheels_[i][j] : Answers2(x, o)
      BY <2>1 DEF Two, Guarded2
    <3>2. Slack(o)' = Slack(o)
      BY <1>1, <1>3, <1>n, <2>1 DEF Slack
    <3>3. \A x : /\ Current(x, o)' <=> Current(x, o)
                 /\ Answers2(x, o)' <=> Answers2(x, o)
      BY <1>1, <1>m, <1>n, <2>1, <3>2 DEF Answers2, Current
    <3>4. ~Current(it, o)
      BY <1>3, <2>1 DEF Current
    <3>5. \A i \in {0, 1}, j \in 0 .. b - 1 :
            /\ wheels_[i][j] \subseteq wheels_'[i][j]
            /\ \A x \in wheels_'[i][j] : x \in wheels_[i][j] \/ x = it
      BY <1>5
    <3>. QED
      BY <3>1, <3>3, <3>4, <3>5, <2>1
  <2>2. Answers2(it, c)'
    <3>1. Current(it, c)'
      BY <1>3 DEF Current
    <3>. DEFINE late == IF midTick'[c] THEN b ELSE 0
                g == Fall(it) + late - timeout
    <3>2. Slack(c)' = late
      BY <1>1 DEF Slack
    <3>3. g \in Int /\ ticksCounter_ + 1 <= g /\ g + 1 \in Int /\ ticksCounter_ + 2 <= g + 1
      <4>1. midTick'[c] = it.inTick
        BY <1>3, <1>n
      <4>2. Fall(it) \in Int /\ late \in Int /\ Fall(it) + late >= ticksCounter_ + (timeout + 1)
        BY <4>1, <1>3, <1>n DEF Fall
      <4>. HIDE DEF late
      <4>. QED
        BY <4>2, <1>n
    <3>4. /\ (ticksCounter_ + 1) * Parts <= g * Parts /\ g * Parts \in Int
          /\ (ticksCounter_ + 2) * Parts <= (g + 1) * Parts /\ (g + 1) * Parts \in Int
          /\ (ticksCounter_ + 2) * Parts \in Int
      <4>1. ticksCounter_ + 1 \in Int /\ ticksCounter_ + 2 \in Int /\ Parts \in Nat
        BY <1>n
      <4>. HIDE DEF g
      <4>. QED
        BY <3>3, <4>1, Times
    <3>5. lastUse'[c] + 1 < (g + 1) * Parts
      <4>1. lastUse'[c] = now
        BY <1>n
      <4>. HIDE DEF now, g
      <4>. QED
        BY <4>1, <3>4, Second
    <3>6. lastUpdate'[c] < g * Parts
      <4>. HIDE DEF now, g
      <4>. QED
        BY <1>8, <3>4, Second
    <3>. QED
      <4>. HIDE DEF late
      <4>. QED
        BY <3>1, <3>2, <3>5, <3>6, <1>1, <1>m DEF Answers2
  <2>3. it \in wheels_'[1][k] /\ k \in 0 .. b - 1 /\ idleTimeout_'[c] # 0 /\ 1 \in {0, 1}
    BY <1>3, <1>5, <1>n
  <2>. QED
    BY <1>1, <2>1, <2>2, <2>3, Zenon DEF Guarded2
<1>. QED
  BY <1>7, <1>11, <1>12, <1>13 DEF Two

\* A connection is used within a second of the last item: no other is made.
LEMMA TwoUse ==
  ASSUME WheelTypeOK, Pair, Wheeled, Two, [WheelNext]_wheelVars, NEW c \in Peers, conn[c] = "open",
         idleTimeout_[c] > 0 => now < lastUpdate[c] + Parts,
         lastUse' = [lastUse EXCEPT ![c] = now],
         UNCHANGED <<clock, fell, kicking, entry, wheels_, idleTimeout_, idleTimeoutBackup_,
                     lastUpdate, conn, midTick>>
  PROVE  Two'
<1>1. b' = b /\ timeout' = timeout
  BY Fixed
<1>2. now' = now /\ base' = base /\ base1' = base1
  BY DEF clock, now, base, base1, b
<1>m. \A x : Made(x)' = Made(x) /\ Fall(x)' = Fall(x)
  BY <1>1 DEF Made, Fall
<1>s. \A o : Slack(o)' = Slack(o)
  BY <1>1 DEF Slack
<1>n. /\ b \in Nat \ {0, 1} /\ timeout \in Nat \ {0, 1} /\ Parts \in Nat \ {0}
      /\ ticksCounter_ \in Nat /\ now \in Nat
      /\ lastUse \in [Peers -> Nat] /\ lastUpdate \in [Peers -> Nat]
      /\ idleTimeout_ \in [Peers -> Nat]
  BY Numbers DEF WheelTypeOK
<1>3. Clocked2'
  BY <1>m, Zenon DEF Two, Clocked2, clock
<1>4. \A o \in Peers : lastUse[o] <= lastUse'[o] /\ lastUse'[o] <= now
                       /\ lastUse[o] \in Nat /\ lastUse'[o] \in Nat
  <2>. HIDE DEF now
  <2>. QED
    BY <1>n DEF Two, Dated
<1>5. ASSUME NEW i \in {0, 1}, NEW j \in 0 .. b - 1, NEW x \in wheels_[i][j]
      PROVE  Timely(x)' /\ x.due \in Nat
  <2>1. x.due \in Nat /\ x.due >= timeout + 1 /\ Made(x) * Parts <= lastUse[x.owner]
    BY DEF Two, Placed2, Timely
  <2>2. x.owner \in Peers
    BY Double DEF Wheeled, IsItem
  <2>3. Made(x) * Parts \in Int
    BY <2>1, <1>n DEF Made
  <2>4. lastUse[x.owner] <= lastUse'[x.owner] /\ lastUse[x.owner] \in Nat
        /\ lastUse'[x.owner] \in Nat
    BY <2>2, <1>4
  <2>5. Made(x) * Parts <= lastUse'[x.owner]
    BY <2>1, <2>3, <2>4
  <2>. QED
    BY <2>1, <2>5, <1>1, <1>m, Zenon DEF Timely
<1>6. Placed2'
  <2>1. ASSUME NEW j \in 0 .. b - 1
        PROVE  /\ \A x \in wheels_[0][j] : Timely(x)' /\ Fall(x) = base + j
               /\ \A x \in wheels_[1][j] :
                    /\ Timely(x)' /\ Head(x.path) \in 0 .. b - 1
                    /\ Fall(x) = base1 + j * b + 1 + Head(x.path)
    BY <1>5, Zenon DEF Two, Placed2
  <2>. QED
    BY <2>1, <1>1, <1>2, <1>m, Zenon DEF Placed2
<1>7. Dated'
  <2>1. Dated
    BY DEF Two
  <2>. QED
    BY <2>1, <1>1, <1>2, <1>4, Zenon DEF Dated
<1>8. Guarded2'
  <2>1. ASSUME NEW o \in Peers, conn[o] = "open"
        PROVE  IF idleTimeout_[o] = 0
               THEN \A i \in {0, 1}, j \in 0 .. b - 1 : \A x \in wheels_[i][j] : ~Current(x, o)'
               ELSE \E i \in {0, 1}, j \in 0 .. b - 1 : \E x \in wheels_[i][j] : Answers2(x, o)'
    <3>1. IF idleTimeout_[o] = 0
          THEN \A i \in {0, 1}, j \in 0 .. b - 1 : \A x \in wheels_[i][j] : ~Current(x, o)
          ELSE \E i \in {0, 1}, j \in 0 .. b - 1 : \E x \in wheels_[i][j] : Answers2(x, o)
      BY <2>1 DEF Two, Guarded2
    <3>2. \A x : Current(x, o)' <=> Current(x, o)
      BY DEF Current
    <3>3. ASSUME idleTimeout_[o] # 0, NEW i \in {0, 1}, NEW j \in 0 .. b - 1,
                 NEW x \in wheels_[i][j], Answers2(x, o)
          PROVE  Answers2(x, o)'
      <4>1. CASE o # c
        BY <4>1, <3>3, <1>1, <1>m, <1>s, <1>n DEF Answers2, Current
      <4>2. CASE o = c
        <5>. DEFINE g == Fall(x) + Slack(c) - timeout
        <5>1. lastUpdate[c] < g * Parts /\ Current(x, c)
          BY <4>2, <3>3 DEF Answers2
        <5>2. now < lastUpdate[c] + Parts /\ lastUpdate[c] \in Nat
          BY <4>2, <3>3, <1>n
        <5>3. x.due \in Nat
          BY <1>5
        <5>4. g \in Int
          <6>1. Fall(x) \in Int /\ Slack(c) \in {0, b}
            BY <5>3, Falls
          <6>. QED
            BY <6>1, <1>n
        <5>5. (g + 1) * Parts = g * Parts + Parts /\ g * Parts \in Int
          <6>. HIDE DEF g
          <6>. QED
            BY <5>4, <1>n
        <5>6. now + 1 < (g + 1) * Parts
          <6>. HIDE DEF now, g
          <6>. QED
            BY <5>1, <5>2, <5>5, <1>n
        <5>7. lastUse'[c] = now /\ lastUpdate'[c] = lastUpdate[c]
          BY <1>n
        <5>. QED
          BY <4>2, <5>1, <5>6, <5>7, <3>2, <1>1, <1>m, <1>s DEF Answers2
      <4>. QED
        BY <4>1, <4>2
    <3>. QED
      BY <3>1, <3>2, <3>3, Zenon
  <2>. QED
    BY <1>1, <2>1, Zenon DEF Guarded2
<1>. QED
  BY <1>3, <1>6, <1>7, <1>8 DEF Two

\* The mechanism is suspended, or the connection is kept alive: a new entry,
\* which no item has.
LEMMA TwoDetach ==
  ASSUME WheelTypeOK, Pair, Wheeled, Two, [WheelNext]_wheelVars, NEW c \in Peers,
         entry' = [entry EXCEPT ![c] = @ + 1],
         idleTimeout_' = [idleTimeout_ EXCEPT ![c] = 0],
         \A o \in Peers : idleTimeoutBackup_'[o] \in {0, timeout},
         UNCHANGED <<clock, fell, kicking, wheels_, lastUpdate, lastUse, conn, midTick>>
  PROVE  Two'
<1>1. b' = b /\ timeout' = timeout
  BY Fixed
<1>2. now' = now /\ base' = base /\ base1' = base1
  BY DEF clock, now, base, base1, b
<1>m. \A x : Made(x)' = Made(x) /\ Fall(x)' = Fall(x) /\ (Timely(x)' <=> Timely(x))
  BY <1>1 DEF Made, Fall, Timely
<1>s. \A o : Slack(o)' = Slack(o)
  BY <1>1 DEF Slack
<1>n. /\ b \in Nat \ {0, 1} /\ entry \in [Peers -> Nat] /\ idleTimeout_ \in [Peers -> Nat]
  BY Numbers DEF WheelTypeOK
<1>3. Clocked2'
  BY <1>m, Zenon DEF Two, Clocked2, clock
<1>4. Placed2'
  BY <1>1, <1>2, <1>m, Zenon DEF Two, Placed2
<1>5. Dated'
  <2>1. \A o \in Peers : idleTimeout_'[o] \in {0, timeout}
    BY <1>n DEF Two, Dated
  <2>. QED
    BY <2>1, <1>1, <1>2, Zenon DEF Two, Dated
<1>6. Guarded2'
  <2>1. ASSUME NEW o \in Peers, conn[o] = "open"
        PROVE  IF idleTimeout_'[o] = 0
               THEN \A i \in {0, 1}, j \in 0 .. b - 1 : \A x \in wheels_[i][j] : ~Current(x, o)'
               ELSE \E i \in {0, 1}, j \in 0 .. b - 1 : \E x \in wheels_[i][j] : Answers2(x, o)'
    <3>1. CASE o # c
      <4>1. IF idleTimeout_[o] = 0
            THEN \A i \in {0, 1}, j \in 0 .. b - 1 : \A x \in wheels_[i][j] : ~Current(x, o)
            ELSE \E i \in {0, 1}, j \in 0 .. b - 1 : \E x \in wheels_[i][j] : Answers2(x, o)
        BY <2>1 DEF Two, Guarded2
      <4>2. entry'[o] = entry[o] /\ idleTimeout_'[o] = idleTimeout_[o]
        BY <3>1, <1>n
      <4>3. \A x : /\ Current(x, o)' <=> Current(x, o)
                   /\ Answers2(x, o)' <=> Answers2(x, o)
        BY <4>2, <1>1, <1>m, <1>s DEF Answers2, Current
      <4>. QED
        BY <4>1, <4>2, <4>3, Zenon
    <3>2. CASE o = c
      <4>1. entry'[c] = entry[c] + 1 /\ entry[c] \in Nat /\ idleTimeout_'[c] = 0
        BY <1>n
      <4>2. ASSUME NEW i \in {0, 1}, NEW j \in 0 .. b - 1, NEW x \in wheels_[i][j]
            PROVE  ~Current(x, c)'
        <5>1. x.num <= entry[x.owner] /\ x.num \in Nat
          BY Double DEF Wheeled, IsItem
        <5>. QED
          BY <5>1, <4>1 DEF Current
      <4>. QED
        BY <3>2, <4>1, <4>2
    <3>. QED
      BY <3>1, <3>2
  <2>. QED
    BY <1>1, <2>1, Zenon DEF Guarded2
<1>. QED
  BY <1>3, <1>4, <1>5, <1>6 DEF Two

\* ~TimingWheel leaves open only connections whose time-out is off.
LEMMA TwoDestroy ==
  ASSUME WheelTypeOK, Pair, Wheeled, Two, [WheelNext]_wheelVars, Destroy
  PROVE  Two'
<1>1. b' = b /\ timeout' = timeout
  BY Fixed
<1>n. b \in Nat \ {0, 1}
  BY Numbers
<1>2. /\ turning = 2 /\ turning' = 3 /\ fell' = {} /\ kicking' = FALSE
      /\ wheels_' = [i \in Wheels |-> [k \in 0 .. b - 1 |-> {}]]
      /\ conn' = [c \in Peers |-> IF c \in Kicked(wheels_', Items) THEN "closed" ELSE conn[c]]
      /\ UNCHANGED <<ticksCounter_, part, idleTimeout_, idleTimeoutBackup_, entry, lastUpdate,
                     lastUse>>
  <2>1. turning = wheelsNum_ /\ turning' = wheelsNum_ + 1
    BY Zenon DEF Destroy
  <2>2. turning = 2 /\ turning' = 3
    BY <2>1, Double
  <2>. QED
    BY <2>2, Zenon DEF Destroy
<1>3. Wheels = {0, 1}
  BY Double
<1>4. \A i \in {0, 1}, k \in 0 .. b - 1 : wheels_'[i][k] = {}
  BY <1>2, <1>3
<1>5. Clocked2'
  BY <1>2 DEF Clocked2
<1>6. Placed2'
  BY <1>1, <1>4 DEF Placed2
<1>7. Dated'
  <2>1. now' = now
    BY <1>2 DEF now
  <2>. QED
    BY <2>1, <1>1, <1>2, Zenon DEF Two, Dated
<1>8. Guarded2'
  <2>1. ASSUME NEW c \in Peers, conn'[c] = "open"
        PROVE  idleTimeout_[c] = 0
    <3>1. conn[c] = "open" /\ c \notin Kicked(wheels_', Items)
      BY <2>1, <1>2
    <3>2. SUFFICES ASSUME idleTimeout_[c] # 0 PROVE FALSE
      OBVIOUS
    <3>3. PICK i \in {0, 1}, j \in 0 .. b - 1 : \E x \in wheels_[i][j] : Answers2(x, c)
      BY <3>1, <3>2 DEF Two, Guarded2
    <3>4. PICK x \in wheels_[i][j] : Current(x, c)
      BY <3>3 DEF Answers2
    <3>5. x \in Items
      BY <3>4, <1>3 DEF Items
    <3>6. DOMAIN wheels_' = {0, 1}
      BY <1>2, <1>3
    <3>. QED
      BY <3>1, <3>4, <3>5, <3>6, <1>4 DEF Kicked, Current
  <2>. QED
    BY <2>1, <1>1, <1>2, <1>4 DEF Guarded2
<1>. QED
  BY <1>5, <1>6, <1>7, <1>8 DEF Two

\* Wheel 0 has turned when code of the connections runs.
LEMMA TwoRuns ==
  ASSUME WheelTypeOK, Pair, Two, CanRun
  PROVE  turning \in {1, 2}
BY Double DEF CanRun, Two, Clocked2

-----------------------------------------------------------------------------
\* An item that moves to the wheel below, and what it becomes.
Moved(y) == [y EXCEPT !.path = Tail(@)]

\* Wheel 0 turns by one bucket.
LEMMA TwoShift0 ==
  ASSUME WheelTypeOK, Pair, Wheeled, wheels_' = Turned(0)
  PROVE  /\ \A k \in 0 .. b - 1 :
              /\ wheels_'[0][k] = IF k = b - 1 THEN {} ELSE wheels_[0][k + 1]
              /\ wheels_'[1][k] = wheels_[1][k]
         /\ DOMAIN wheels_' = {0, 1}
<1>. DEFINE front == [k \in 0 .. b - 1 |-> IF k = b - 1 THEN {} ELSE wheels_[0][k + 1]]
<1>1. wheels_' = [wheels_ EXCEPT ![0] = front]
  BY Zenon DEF Turned
<1>2. wheels_ = [i \in {0, 1} |-> [j \in 0 .. b - 1 |-> wheels_[i][j]]]
  BY Double, Zenon DEF Wheeled
<1>3. DOMAIN wheels_ = {0, 1}
  BY <1>2
<1>4. wheels_'[0] = front /\ wheels_'[1] = wheels_[1] /\ DOMAIN wheels_' = {0, 1}
  <2>. HIDE DEF front
  <2>. QED
    BY <1>1, <1>3
<1>5. \A k \in 0 .. b - 1 : front[k] = IF k = b - 1 THEN {} ELSE wheels_[0][k + 1]
  OBVIOUS
<1>. HIDE DEF front
<1>. QED
  BY <1>4, <1>5, Zenon

\* Wheel 1 turns by one bucket, the first of which goes to wheel 0.
LEMMA TwoShift1 ==
  ASSUME WheelTypeOK, Pair, Wheeled, wheels_' = Turned(1)
  PROVE  /\ \A k \in 0 .. b - 1 :
              /\ wheels_'[1][k] = IF k = b - 1 THEN {} ELSE wheels_[1][k + 1]
              /\ wheels_'[0][k] = wheels_[0][k]
                   \cup {Moved(y) : y \in {z \in wheels_[1][0] : Head(z.path) = k}}
         /\ DOMAIN wheels_' = {0, 1}
<1>. DEFINE row == [k \in 0 .. b - 1 |-> IF k = b - 1 THEN {} ELSE wheels_[1][k + 1]]
            shifted == [wheels_ EXCEPT ![1] = row]
            into(k) == {[x EXCEPT !.path = Tail(@)] : x \in {y \in wheels_[1][0] : Head(y.path) = k}}
            below == [k \in 0 .. b - 1 |-> shifted[0][k] \cup into(k)]
<1>1. wheels_' = [shifted EXCEPT ![0] = below]
  <2>1. 1 # 0 /\ 1 - 1 = 0
    OBVIOUS
  <2>2. wheels_' = [shifted EXCEPT ![1 - 1] = [k \in 0 .. b - 1 |-> @[k] \cup into(k)]]
    BY <2>1, Zenon DEF Turned
  <2>. HIDE DEF shifted, into
  <2>. QED
    BY <2>1, <2>2, Zenon
<1>2. wheels_ = [i \in {0, 1} |-> [j \in 0 .. b - 1 |-> wheels_[i][j]]]
  BY Double, Zenon DEF Wheeled
<1>3. DOMAIN wheels_ = {0, 1}
  BY <1>2
<1>4. shifted[1] = row /\ shifted[0] = wheels_[0] /\ DOMAIN shifted = {0, 1}
  <2>. HIDE DEF row
  <2>. QED
    BY <1>3
<1>5. \A k : into(k) = {Moved(y) : y \in {z \in wheels_[1][0] : Head(z.path) = k}}
  BY Zenon DEF Moved
<1>6. \A k \in 0 .. b - 1 : row[k] = IF k = b - 1 THEN {} ELSE wheels_[1][k + 1]
  OBVIOUS
<1>7. \A k \in 0 .. b - 1 : below[k] = shifted[0][k] \cup into(k)
  <2>. HIDE DEF shifted, into
  <2>. QED
    OBVIOUS
<1>. HIDE DEF row, shifted, into, below
<1>8. wheels_'[0] = below /\ wheels_'[1] = shifted[1] /\ DOMAIN wheels_' = {0, 1}
  BY <1>1, <1>4
<1>. QED
  BY <1>4, <1>5, <1>6, <1>7, <1>8, Zenon

\* What falls from wheel 0 falls when it should, and a connection that is left has
\* an item that falls no sooner than any that did.
LEMMA TwoTurn0 ==
  ASSUME WheelTypeOK, Pair, Wheeled, Two, Turn, turning = 0
  PROVE  /\ Two' /\ fell' = wheels_[0][0]
         /\ \A c \in Peers : conn'[c] = IF c \in Kicked(wheels_', fell') THEN "kicked" ELSE conn[c]
         /\ \A k \in 0 .. b - 1 :
              /\ wheels_'[0][k] = IF k = b - 1 THEN {} ELSE wheels_[0][k + 1]
              /\ wheels_'[1][k] = wheels_[1][k]
         /\ DOMAIN wheels_' = {0, 1}
<1>1. b ^ turning = 1
  BY Double
<1>n. /\ b \in Nat \ {0, 1} /\ timeout \in Nat \ {0, 1} /\ Parts \in Nat \ {0}
      /\ ticksCounter_ \in Nat /\ now \in Nat
      /\ lastUse \in [Peers -> Nat] /\ lastUpdate \in [Peers -> Nat]
  BY Numbers DEF WheelTypeOK
<1>2. ticksCounter_ % (b ^ turning) = 0
  BY <1>1, <1>n
<1>3. /\ turning' = 1 /\ wheels_' = Turned(0) /\ fell' = wheels_[0][0]
      /\ conn' = [c \in Peers |-> IF c \in Kicked(wheels_', fell') THEN "kicked" ELSE conn[c]]
      /\ UNCHANGED <<bucketsNumPerWheel_, timeout, ticksCounter_, part, kickoff>>
  <2>1. turning' = turning + 1
    BY Zenon DEF Turn
  <2>. QED
    BY <2>1, <1>1, <1>2 DEF Turn
<1>4. /\ \A k \in 0 .. b - 1 :
           /\ wheels_'[0][k] = IF k = b - 1 THEN {} ELSE wheels_[0][k + 1]
           /\ wheels_'[1][k] = wheels_[1][k]
      /\ DOMAIN wheels_' = {0, 1}
  BY <1>3, TwoShift0
<1>5. b' = b /\ timeout' = timeout /\ now' = now
  BY <1>3 DEF b, now
<1>u. UNCHANGED <<idleTimeout_, idleTimeoutBackup_, entry, lastUpdate, lastUse, midTick>>
  BY <1>3, Zenon DEF kickoff
<1>m. \A x : Made(x)' = Made(x) /\ Fall(x)' = Fall(x) /\ (Timely(x)' <=> Timely(x))
  BY <1>5, <1>u DEF Made, Fall, Timely
<1>s. \A c : Slack(c)' = Slack(c)
  BY <1>5, <1>u DEF Slack
<1>6. base = ticksCounter_ /\ base' = ticksCounter_ + 1 /\ base1' = base1
  BY <1>3, <1>5 DEF base, base1
<1>7. base1 \in Int /\ ticksCounter_ <= base1
  <2>1. CASE ticksCounter_ % b = 0
    <3>1. base1 = ticksCounter_
      BY <2>1 DEF base1
    <3>. QED
      BY <3>1, <1>n
  <2>2. CASE ticksCounter_ % b # 0
    <3>. DEFINE q == ticksCounter_ \div b
                r == ticksCounter_ % b
    <3>1. base1 = (q + 1) * b
      BY <2>2 DEF base1
    <3>2. q \in Nat /\ r \in 0 .. b - 1 /\ ticksCounter_ = q * b + r
      BY <1>n, DivMod
    <3>. HIDE DEF q, r
    <3>3. (q + 1) * b = q * b + b /\ q * b \in Int
      BY <3>2, <1>n
    <3>. QED
      BY <3>1, <3>2, <3>3, <1>n
  <2>. QED
    BY <2>1, <2>2
<1>8. Clocked2'
  <2>1. 0 \in 0 .. b - 1
    BY <1>n
  <2>2. \A x \in wheels_[0][0] : Timely(x) /\ Fall(x) = base + 0
    BY <2>1, Zenon DEF Two, Placed2
  <2>3. \A x \in wheels_[0][0] : x.due \in Nat /\ Fall(x) = ticksCounter_
    BY <2>2, <1>6, <1>n DEF Timely
  <2>. QED
    BY <2>3, <1>3, <1>m DEF Clocked2
<1>9. ASSUME NEW k \in 0 .. b - 1, NEW x \in wheels_[0][k]
      PROVE  Timely(x) /\ Fall(x) = ticksCounter_ + k /\ x.due \in Nat
  BY <1>6 DEF Two, Placed2, Timely
<1>10. ASSUME NEW k \in 0 .. b - 1, NEW x \in wheels_[1][k]
       PROVE  /\ Timely(x) /\ x.due \in Nat /\ Fall(x) \in Int /\ ticksCounter_ + 1 <= Fall(x)
              /\ Head(x.path) \in 0 .. b - 1 /\ Fall(x) = base1 + k * b + 1 + Head(x.path)
  <2>1. Timely(x) /\ Head(x.path) \in 0 .. b - 1 /\ Fall(x) = base1 + k * b + 1 + Head(x.path)
    BY DEF Two, Placed2
  <2>2. x.due \in Nat
    BY <2>1 DEF Timely
  <2>3. k * b \in Nat
    BY <1>n
  <2>4. PICK h \in 0 .. b - 1 : h = Head(x.path)
    BY <2>1
  <2>5. Fall(x) \in Int /\ ticksCounter_ + 1 <= Fall(x)
    BY <2>1, <2>3, <2>4, <1>7, <1>n
  <2>. QED
    BY <2>1, <2>2, <2>5
<1>11. Placed2'
  <2>1. ASSUME NEW k \in 0 .. b - 1
        PROVE  /\ \A x \in wheels_'[0][k] : Timely(x) /\ Fall(x) = base' + k
               /\ \A x \in wheels_'[1][k] :
                    /\ Timely(x) /\ Head(x.path) \in 0 .. b - 1
                    /\ Fall(x) = base1 + k * b + 1 + Head(x.path)
    <3>1. ASSUME NEW x \in wheels_'[0][k]
          PROVE  Timely(x) /\ Fall(x) = base' + k
      <4>1. k # b - 1 /\ x \in wheels_[0][k + 1] /\ k + 1 \in 0 .. b - 1
        BY <1>4, <1>n
      <4>2. Timely(x) /\ Fall(x) = ticksCounter_ + (k + 1)
        BY <4>1, <1>9
      <4>. QED
        BY <4>2, <1>6, <1>n
    <3>. QED
      BY <3>1, <1>4, <1>10
  <2>. QED
    BY <2>1, <1>5, <1>6, <1>m, Zenon DEF Placed2
<1>12. Dated'
  BY <1>5, <1>u, Zenon DEF Two, Dated
<1>13. Guarded2'
  <2>1. ASSUME NEW c \in Peers, conn'[c] = "open"
        PROVE  IF idleTimeout_[c] = 0
               THEN \A i \in {0, 1}, j \in 0 .. b - 1 : \A x \in wheels_'[i][j] : ~Current(x, c)
               ELSE \E i \in {0, 1}, j \in 0 .. b - 1 : \E x \in wheels_'[i][j] : Answers2(x, c)
    <3>1. conn[c] = "open" /\ c \notin Kicked(wheels_', fell')
      BY <2>1, <1>3
    <3>2. IF idleTimeout_[c] = 0
          THEN \A i \in {0, 1}, j \in 0 .. b - 1 : \A x \in wheels_[i][j] : ~Current(x, c)
          ELSE \E i \in {0, 1}, j \in 0 .. b - 1 : \E x \in wheels_[i][j] : Answers2(x, c)
      BY <3>1 DEF Two, Guarded2
    <3>3. CASE idleTimeout_[c] = 0
      <4>1. ASSUME NEW j \in 0 .. b - 1, NEW x \in wheels_'[0][j]
            PROVE  ~Current(x, c)
        <5>1. x \in wheels_[0][j + 1] /\ j + 1 \in 0 .. b - 1
          BY <1>4, <1>n
        <5>. QED
          BY <5>1, <3>2, <3>3
      <4>. QED
        BY <4>1, <3>2, <3>3, <1>4
    <3>4. CASE idleTimeout_[c] # 0
      <4>1. PICK i \in {0, 1}, j \in 0 .. b - 1 : \E x \in wheels_[i][j] : Answers2(x, c)
        BY <3>2, <3>4
      <4>2. PICK x \in wheels_[i][j] : Answers2(x, c)
        BY <4>1
      <4>3. CASE i = 1
        BY <4>2, <4>3, <1>4, <3>4
      <4>4. CASE i = 0 /\ j # 0
        <5>1. j - 1 \in 0 .. b - 1 /\ x \in wheels_'[0][j - 1]
          BY <4>2, <4>4, <1>4, <1>n
        <5>. QED
          BY <5>1, <4>2, <3>4
      <4>5. CASE i = 0 /\ j = 0
        <5>1. x \in fell' /\ Current(x, c)
          BY <4>2, <4>5, <1>3 DEF Answers2
        <5>2. PICK l \in {0, 1}, n \in 0 .. b - 1 : \E y \in wheels_'[l][n] : Current(y, c)
          BY <5>1, <1>4, <3>1 DEF Kicked, Current
        <5>3. PICK y \in wheels_'[l][n] : Current(y, c)
          BY <5>2
        <5>4. Fall(y) \in Int /\ ticksCounter_ + 1 <= Fall(y)
          <6>1. CASE l = 1
            <7>1. y \in wheels_[1][n]
              BY <6>1, <5>3, <1>4
            <7>. QED
              BY <7>1, <1>10
          <6>2. CASE l = 0
            <7>1. y \in wheels_[0][n + 1] /\ n + 1 \in 0 .. b - 1
              BY <6>2, <5>3, <1>4, <1>n
            <7>2. Fall(y) = ticksCounter_ + (n + 1)
              BY <7>1, <1>9
            <7>. QED
              BY <7>2, <1>n
          <6>. QED
            BY <6>1, <6>2
        <5>5. Fall(x) = ticksCounter_ + 0
          BY <4>2, <4>5, <1>9
        <5>6. Slack(c) \in {0, b}
          BY DEF Slack
        <5>. DEFINE g == Fall(x) + Slack(c) - timeout
                    h == Fall(y) + Slack(c) - timeout
        <5>7. g \in Int /\ h \in Int /\ g <= h /\ g + 1 \in Int /\ h + 1 \in Int /\ g + 1 <= h + 1
          BY <5>4, <5>5, <5>6, <1>n
        <5>8. /\ (g + 1) * Parts \in Int /\ (h + 1) * Parts \in Int
              /\ (g + 1) * Parts <= (h + 1) * Parts
              /\ g * Parts \in Int /\ h * Parts \in Int /\ g * Parts <= h * Parts
          <6>1. Parts \in Nat
            BY <1>n
          <6>. HIDE DEF g, h
          <6>. QED
            BY <5>7, <6>1, Times
        <5>9. lastUse[c] + 1 < (g + 1) * Parts /\ lastUpdate[c] < g * Parts
          BY <4>2 DEF Answers2
        <5>10. lastUse[c] + 1 < (h + 1) * Parts /\ lastUpdate[c] < h * Parts
          <6>1. lastUse[c] \in Nat /\ lastUpdate[c] \in Nat
            BY <1>n
          <6>. HIDE DEF g, h
          <6>. QED
            BY <5>8, <5>9, <6>1
        <5>11. Answers2(y, c)
          BY <5>3, <5>10 DEF Answers2
        <5>. QED
          BY <5>11, <3>4
      <4>. QED
        BY <4>3, <4>4, <4>5
    <3>. QED
      BY <3>3, <3>4
  <2>2. \A x, c : /\ Current(x, c)' <=> Current(x, c)
                  /\ Answers2(x, c)' <=> Answers2(x, c)
    BY <1>5, <1>m, <1>s, <1>u DEF Answers2, Current
  <2>. QED
    BY <2>1, <2>2, <1>5, <1>u, Zenon DEF Guarded2
<1>14. \A c \in Peers : conn'[c] = IF c \in Kicked(wheels_', fell') THEN "kicked" ELSE conn[c]
  BY <1>3
<1>. QED
  BY <1>3, <1>4, <1>8, <1>11, <1>12, <1>13, <1>14 DEF Two

\* An item that moves changes its path only.
LEMMA MovedItem ==
  ASSUME WheelTypeOK, NEW y, IsItem(y)
  PROVE  /\ Moved(y).owner = y.owner /\ Moved(y).num = y.num /\ Moved(y).due = y.due
         /\ Fall(Moved(y)) = Fall(y) /\ (Timely(Moved(y)) <=> Timely(y))
         /\ \A c : /\ Current(Moved(y), c) <=> Current(y, c)
                   /\ Answers2(Moved(y), c) <=> Answers2(y, c)
<1>1. /\ Moved(y).owner = y.owner /\ Moved(y).num = y.num /\ Moved(y).due = y.due
      /\ Moved(y).inTick = y.inTick
  <2>1. y = [owner |-> y.owner, num |-> y.num, path |-> y.path, due |-> y.due, inTick |-> y.inTick]
    BY DEF IsItem
  <2>. QED
    BY <2>1 DEF Moved
<1>2. Made(Moved(y)) = Made(y)
  BY <1>1, Zenon DEF Made
<1>3. Fall(Moved(y)) = Fall(y)
  BY <1>1, <1>2, Zenon DEF Fall
<1>. QED
  BY <1>1, <1>2, <1>3, Zenon DEF Timely, Current, Answers2

\* Wheel 1 comes after wheel 0: it turns every b ticks, nothing falls out of it,
\* and what moves to wheel 0 has the bucket that Fall says.
LEMMA TwoTurn1 ==
  ASSUME WheelTypeOK, Pair, Wheeled, Two, Turn, turning = 1
  PROVE  Two' /\ UNCHANGED conn
<1>1. b ^ turning = b /\ turning \in Wheels
  BY Double
<1>n. /\ b \in Nat \ {0, 1} /\ timeout \in Nat \ {0, 1} /\ Parts \in Nat \ {0}
      /\ ticksCounter_ \in Nat /\ now \in Nat
      /\ conn \in [Peers -> {"none", "open", "kicked", "closed"}]
  BY Numbers DEF WheelTypeOK
<1>2. turning' = 2
  <2>1. turning' = turning + 1
    BY Zenon DEF Turn
  <2>. QED
    BY <2>1
<1>3. UNCHANGED <<bucketsNumPerWheel_, timeout, ticksCounter_, part, kickoff>>
  BY Zenon DEF Turn
<1>5. b' = b /\ timeout' = timeout /\ now' = now
  BY <1>3 DEF b, now
<1>u. UNCHANGED <<idleTimeout_, idleTimeoutBackup_, entry, lastUpdate, lastUse, midTick>>
  BY <1>3, Zenon DEF kickoff
<1>m. \A x : Made(x)' = Made(x) /\ Fall(x)' = Fall(x) /\ (Timely(x)' <=> Timely(x))
  BY <1>5, <1>u DEF Made, Fall, Timely
<1>s. \A c : Slack(c)' = Slack(c)
  BY <1>5, <1>u DEF Slack
<1>a. \A x, c : /\ Current(x, c)' <=> Current(x, c)
                /\ Answers2(x, c)' <=> Answers2(x, c)
  BY <1>5, <1>m, <1>s, <1>u DEF Answers2, Current
<1>6. base = ticksCounter_ + 1 /\ base' = base
  BY <1>2, <1>3 DEF base
<1>7. CASE ticksCounter_ % b # 0
  <2>1. fell' = {} /\ kicking' = FALSE /\ UNCHANGED <<wheels_, conn>>
    BY <1>7, <1>1 DEF Turn
  <2>2. Clocked2'
    BY <2>1, <1>2 DEF Clocked2
  <2>3. base1' = base1
    BY <1>2, <1>3, <1>5, <1>7 DEF base1
  <2>4. [WheelNext]_wheelVars
    BY Zenon DEF WheelNext
  <2>5. now' >= now
    <3>. HIDE DEF now
    <3>. QED
      BY <1>5, <1>n
  <2>. QED
    BY <2>1, <2>2, <2>3, <2>4, <2>5, <1>6, <1>u, TwoStay
<1>8. CASE ticksCounter_ % b = 0
  <2>1. /\ wheels_' = Turned(1) /\ fell' = {} /\ kicking' = (conn' # conn)
        /\ conn' = [c \in Peers |-> IF c \in Kicked(wheels_', fell') THEN "kicked" ELSE conn[c]]
    BY <1>8, <1>1 DEF Turn
  <2>2. UNCHANGED conn /\ kicking' = FALSE
    <3>1. Kicked(wheels_', fell') = {}
      BY <2>1 DEF Kicked
    <3>2. conn' = conn
      BY <2>1, <3>1, <1>n
    <3>. QED
      BY <2>1, <3>2
  <2>3. \A k \in 0 .. b - 1 :
          /\ wheels_'[1][k] = IF k = b - 1 THEN {} ELSE wheels_[1][k + 1]
          /\ wheels_'[0][k] = wheels_[0][k]
               \cup {Moved(y) : y \in {z \in wheels_[1][0] : Head(z.path) = k}}
    BY <2>1, TwoShift1
  <2>4. base1 = ticksCounter_ /\ base1' = ticksCounter_ + b
    <3>1. base1 = ticksCounter_
      BY <1>8 DEF base1
    <3>. DEFINE q == ticksCounter_ \div b
                r == ticksCounter_ % b
    <3>2. base1' = (q + 1) * b
      BY <1>2, <1>3, <1>5 DEF base1
    <3>3. q \in Nat /\ ticksCounter_ = q * b + r
      BY <1>n, DivMod
    <3>4. r = 0
      BY <1>8
    <3>. HIDE DEF q, r
    <3>5. (q + 1) * b = q * b + b /\ q * b \in Int
      BY <3>3, <1>n
    <3>. QED
      BY <3>1, <3>2, <3>3, <3>4, <3>5, <1>n
  <2>5. Clocked2'
    BY <2>1, <2>2, <1>2 DEF Clocked2
  <2>6. 0 \in 0 .. b - 1
    BY <1>n
  <2>7. ASSUME NEW y \in wheels_[1][0]
        PROVE  /\ IsItem(y) /\ Timely(y) /\ Head(y.path) \in 0 .. b - 1
               /\ Fall(y) = base + Head(y.path)
    <3>1. IsItem(y)
      BY <2>6, <1>1 DEF Wheeled
    <3>2. Timely(y) /\ Head(y.path) \in 0 .. b - 1 /\ Fall(y) = base1 + 0 * b + 1 + Head(y.path)
      BY <2>6 DEF Two, Placed2
    <3>3. PICK h \in 0 .. b - 1 : h = Head(y.path)
      BY <3>2
    <3>4. base1 + 0 * b + 1 + h = base + h
      BY <2>4, <1>6, <1>n
    <3>. QED
      BY <3>1, <3>2, <3>3, <3>4
  <2>8. Placed2'
    <3>1. ASSUME NEW k \in 0 .. b - 1
          PROVE  /\ \A x \in wheels_'[0][k] : Timely(x) /\ Fall(x) = base + k
                 /\ \A x \in wheels_'[1][k] :
                      /\ Timely(x) /\ Head(x.path) \in 0 .. b - 1
                      /\ Fall(x) = base1' + k * b + 1 + Head(x.path)
      <4>1. ASSUME NEW x \in wheels_'[0][k]
            PROVE  Timely(x) /\ Fall(x) = base + k
        <5>1. CASE x \in wheels_[0][k]
          BY <5>1 DEF Two, Placed2
        <5>2. CASE x \notin wheels_[0][k]
          <6>1. PICK y \in wheels_[1][0] : Head(y.path) = k /\ x = Moved(y)
            BY <5>2, <2>3
          <6>. QED
            BY <6>1, <2>7, MovedItem
        <5>. QED
          BY <5>1, <5>2
      <4>2. ASSUME NEW x \in wheels_'[1][k]
            PROVE  /\ Timely(x) /\ Head(x.path) \in 0 .. b - 1
                   /\ Fall(x) = base1' + k * b + 1 + Head(x.path)
        <5>1. k # b - 1 /\ x \in wheels_[1][k + 1] /\ k + 1 \in 0 .. b - 1
          BY <2>3, <1>n
        <5>2. /\ Timely(x) /\ Head(x.path) \in 0 .. b - 1
              /\ Fall(x) = base1 + (k + 1) * b + 1 + Head(x.path)
          BY <5>1 DEF Two, Placed2
        <5>3. (k + 1) * b = k * b + b /\ k * b \in Nat
          BY <1>n
        <5>4. PICK h \in 0 .. b - 1 : h = Head(x.path)
          BY <5>2
        <5>5. base1 + (k + 1) * b + 1 + h = base1' + k * b + 1 + h
          BY <5>3, <2>4, <1>n
        <5>. QED
          BY <5>2, <5>4, <5>5
      <4>. QED
        BY <4>1, <4>2
    <3>. QED
      BY <3>1, <1>5, <1>6, <1>m, Zenon DEF Placed2
  <2>9. Dated'
    BY <1>5, <1>u, Zenon DEF Two, Dated
  <2>10. Guarded2'
    <3>1. ASSUME NEW c \in Peers, conn[c] = "open"
          PROVE  IF idleTimeout_[c] = 0
                 THEN \A i \in {0, 1}, j \in 0 .. b - 1 : \A x \in wheels_'[i][j] : ~Current(x, c)
                 ELSE \E i \in {0, 1}, j \in 0 .. b - 1 : \E x \in wheels_'[i][j] : Answers2(x, c)
      <4>1. IF idleTimeout_[c] = 0
            THEN \A i \in {0, 1}, j \in 0 .. b - 1 : \A x \in wheels_[i][j] : ~Current(x, c)
            ELSE \E i \in {0, 1}, j \in 0 .. b - 1 : \E x \in wheels_[i][j] : Answers2(x, c)
        BY <3>1 DEF Two, Guarded2
      <4>2. CASE idleTimeout_[c] = 0
        <5>1. ASSUME NEW j \in 0 .. b - 1, NEW x \in wheels_'[0][j]
              PROVE  ~Current(x, c)
          <6>1. CASE x \in wheels_[0][j]
            BY <6>1, <4>1, <4>2
          <6>2. CASE x \notin wheels_[0][j]
            <7>1. PICK y \in wheels_[1][0] : x = Moved(y)
              BY <6>2, <2>3
            <7>2. ~Current(y, c)
              BY <2>6, <4>1, <4>2
            <7>. QED
              BY <7>1, <7>2, <2>7, MovedItem
          <6>. QED
            BY <6>1, <6>2
        <5>2. ASSUME NEW j \in 0 .. b - 1, NEW x \in wheels_'[1][j]
              PROVE  ~Current(x, c)
          <6>1. x \in wheels_[1][j + 1] /\ j + 1 \in 0 .. b - 1
            BY <2>3, <1>n
          <6>. QED
            BY <6>1, <4>1, <4>2
        <5>. QED
          BY <5>1, <5>2, <4>2
      <4>3. CASE idleTimeout_[c] # 0
        <5>1. PICK i \in {0, 1}, j \in 0 .. b - 1 : \E x \in wheels_[i][j] : Answers2(x, c)
          BY <4>1, <4>3
        <5>2. PICK x \in wheels_[i][j] : Answers2(x, c)
          BY <5>1
        <5>3. CASE i = 0
          <6>1. x \in wheels_'[0][j]
            BY <5>3, <2>3
          <6>. QED
            BY <6>1, <5>2, <4>3
        <5>4. CASE i = 1 /\ j # 0
          <6>1. j - 1 \in 0 .. b - 1 /\ x \in wheels_'[1][j - 1]
            BY <5>4, <2>3, <1>n
          <6>. QED
            BY <6>1, <5>2, <4>3
        <5>5. CASE i = 1 /\ j = 0
          <6>1. x \in wheels_[1][0] /\ IsItem(x) /\ Head(x.path) \in 0 .. b - 1
            BY <5>5, <2>7
          <6>2. Moved(x) \in wheels_'[0][Head(x.path)]
            BY <6>1, <2>3
          <6>3. Answers2(Moved(x), c)
            BY <6>1, <5>2, MovedItem
          <6>. QED
            BY <6>1, <6>2, <6>3, <4>3
        <5>. QED
          BY <5>3, <5>4, <5>5
      <4>. QED
        BY <4>2, <4>3
    <3>. QED
      BY <3>1, <2>2, <1>5, <1>u, <1>a, Zenon DEF Guarded2
  <2>. QED
    BY <2>2, <2>5, <2>8, <2>9, <2>10 DEF Two
<1>. QED
  BY <1>7, <1>8

\* Two step for each action.
LEMMA TwoStep ==
  ASSUME WheelTypeOK, Pair, Wheeled, Two, [WheelNext]_wheelVars
  PROVE  Two'
<1>n. /\ timeout \in Nat \ {0, 1} /\ idleTimeout_ \in [Peers -> Nat]
      /\ idleTimeoutBackup_ \in [Peers -> Nat]
      /\ conn \in [Peers -> {"none", "open", "kicked", "closed"}]
      /\ ticksCounter_ \in Nat /\ part \in 0 .. Parts - 1 /\ Parts \in Nat \ {0}
  BY Numbers DEF WheelTypeOK
<1>f. b' = b /\ timeout' = timeout /\ wheelsNum_' = wheelsNum_
  BY Fixed
<1>d. \A c \in Peers : idleTimeout_[c] \in {0, timeout} /\ idleTimeoutBackup_[c] \in {0, timeout}
  BY DEF Two, Dated
<1>1. CASE PartPasses
  <2>1. /\ turning = wheelsNum_ /\ turning' = turning /\ part' = part + 1
        /\ fell' = {} /\ kicking' = FALSE /\ UNCHANGED <<ticksCounter_, wheels_, conn>>
        /\ UNCHANGED <<idleTimeout_, idleTimeoutBackup_, entry, lastUpdate, lastUse, midTick>>
    BY <1>1, Zenon DEF PartPasses, kickoff
  <2>2. Clocked2'
    BY <2>1, Double DEF Clocked2
  <2>3. base' = base /\ base1' = base1
    BY <2>1, <1>f DEF base, base1
  <2>4. now' >= now
    BY <2>1, <1>n, Product DEF now
  <2>. QED
    BY <2>1, <2>2, <2>3, <2>4, TwoStay
<1>2. CASE Tick
  <2>1. /\ turning = wheelsNum_ /\ turning' = 0 /\ part' = 0 /\ ticksCounter_' = ticksCounter_ + 1
        /\ fell' = {} /\ kicking' = FALSE /\ UNCHANGED <<wheels_, conn>>
        /\ UNCHANGED <<idleTimeout_, idleTimeoutBackup_, entry, lastUpdate, lastUse, midTick>>
    BY <1>2, Zenon DEF Tick, kickoff
  <2>2. Clocked2'
    BY <2>1 DEF Clocked2
  <2>3. base' = base /\ base1' = base1
    <3>1. turning = 2
      BY <2>1, Double
    <3>2. /\ base1 = (ticksCounter_ \div b + 1) * b
          /\ base1' = IF (ticksCounter_ + 1) % b = 0 THEN ticksCounter_ + 1
                      ELSE ((ticksCounter_ + 1) \div b + 1) * b
      BY <2>1, <3>1, <1>f DEF base1
    <3>3. b \in Nat \ {0}
      BY <1>n, Numbers
    <3>4. base1' = base1
      BY <3>2, <3>3, <1>n, NextMultiple
    <3>. QED
      BY <2>1, <3>1, <3>4 DEF base
  <2>4. now' >= now
    <3>1. now' = (ticksCounter_ + 1) * Parts
      BY <2>1, <1>n DEF now
    <3>. HIDE DEF now
    <3>. QED
      BY <3>1, Second
  <2>. QED
    BY <2>1, <2>2, <2>3, <2>4, TwoStay
<1>3. CASE Turn
  <2>1. turning \in {0, 1}
    BY <1>3, Double DEF Turn
  <2>. QED
    BY <2>1, <1>3, TwoTurn0, TwoTurn1
<1>4. CASE Destroy
  BY <1>4, TwoDestroy
<1>5. ASSUME NEW c \in Peers, enableKickingOff(c)
      PROVE  Two'
  <2>1. turning \in {1, 2}
    BY <1>5, TwoRuns, Zenon DEF enableKickingOff
  <2>2. /\ conn' = [conn EXCEPT ![c] = "open"]
        /\ idleTimeout_' = [idleTimeout_ EXCEPT ![c] = timeout]
        /\ lastUse' = [lastUse EXCEPT ![c] = now]
        /\ insertEntryInloop(c, entry[c], timeout)
        /\ UNCHANGED <<clock, fell, kicking, idleTimeoutBackup_, entry, lastUpdate>>
    BY <1>5, Zenon DEF enableKickingOff
  <2>3. /\ idleTimeout_'[c] = timeout
        /\ \A o \in Peers \ {c} : conn'[o] = conn[o] /\ idleTimeout_'[o] = idleTimeout_[o]
    BY <2>2, <1>n
  <2>4. \A o \in Peers : idleTimeoutBackup_'[o] \in {0, timeout}
    BY <2>2, <1>d, Zenon
  <2>. QED
    BY <2>1, <2>2, <2>3, <2>4, TwoInsert
<1>6. ASSUME NEW c \in Peers, extendLife(c)
      PROVE  Two'
  <2>1. /\ turning \in {1, 2} /\ conn[c] = "open"
        /\ lastUse' = [lastUse EXCEPT ![c] = now]
        /\ UNCHANGED <<clock, fell, kicking, conn, idleTimeout_, idleTimeoutBackup_, entry>>
    BY <1>6, TwoRuns, Zenon DEF extendLife
  <2>2. CASE idleTimeout_[c] > 0 /\ (lastUpdate[c] = 0 \/ now >= lastUpdate[c] + Parts)
    <3>1. lastUpdate' = [lastUpdate EXCEPT ![c] = now] /\ insertEntryInloop(c, entry[c], idleTimeout_[c])
      BY <1>6, <2>2, Zenon DEF extendLife
    <3>2. idleTimeout_[c] = timeout
      BY <2>2, <1>d, <1>n
    <3>3. /\ idleTimeout_'[c] = timeout
          /\ \A o \in Peers \ {c} : conn'[o] = conn[o] /\ idleTimeout_'[o] = idleTimeout_[o]
          /\ \A o \in Peers : idleTimeoutBackup_'[o] \in {0, timeout}
      BY <2>1, <3>2, <1>d
    <3>. QED
      BY <2>1, <3>1, <3>2, <3>3, TwoInsert
  <2>3. CASE ~(idleTimeout_[c] > 0 /\ (lastUpdate[c] = 0 \/ now >= lastUpdate[c] + Parts))
    <3>1. UNCHANGED <<lastUpdate, wheels_, midTick>>
      BY <1>6, <2>3, Zenon DEF extendLife
    <3>2. idleTimeout_[c] > 0 => now < lastUpdate[c] + Parts
      <4>1. lastUpdate[c] \in Nat /\ now \in Nat
        BY Numbers DEF WheelTypeOK
      <4>. HIDE DEF now
      <4>. QED
        BY <4>1, <2>3, <1>n
    <3>. QED
      BY <2>1, <3>1, <3>2, TwoUse
  <2>. QED
    BY <2>2, <2>3
<1>7. ASSUME NEW c \in Peers, keepAlive(c)
      PROVE  Two'
  <2>1. /\ entry' = [entry EXCEPT ![c] = @ + 1] /\ idleTimeout_' = [idleTimeout_ EXCEPT ![c] = 0]
        /\ UNCHANGED <<clock, fell, kicking, wheels_, lastUpdate, lastUse, conn, midTick>>
        /\ UNCHANGED idleTimeoutBackup_
    BY <1>7, Zenon DEF keepAlive, wheel
  <2>2. \A o \in Peers : idleTimeoutBackup_'[o] \in {0, timeout}
    BY <2>1, <1>d, Zenon
  <2>. QED
    BY <2>1, <2>2, TwoDetach
<1>8. ASSUME NEW c \in Peers, SuspendKickoff(c)
      PROVE  Two'
  <2>1. /\ entry' = [entry EXCEPT ![c] = @ + 1] /\ idleTimeout_' = [idleTimeout_ EXCEPT ![c] = 0]
        /\ UNCHANGED <<clock, fell, kicking, wheels_, lastUpdate, lastUse, conn, midTick>>
        /\ idleTimeoutBackup_' = [idleTimeoutBackup_ EXCEPT ![c] = idleTimeout_[c]]
    BY <1>8, Zenon DEF SuspendKickoff, wheel
  <2>2. \A o \in Peers : idleTimeoutBackup_'[o] \in {0, timeout}
    BY <2>1, <1>d, <1>n
  <2>. QED
    BY <2>1, <2>2, TwoDetach
<1>9. ASSUME NEW c \in Peers, ResumeKickoff(c)
      PROVE  Two'
  <2>1. /\ turning \in {1, 2} /\ idleTimeoutBackup_[c] > 0
        /\ idleTimeout_' = [idleTimeout_ EXCEPT ![c] = idleTimeoutBackup_[c]]
        /\ idleTimeoutBackup_' = [idleTimeoutBackup_ EXCEPT ![c] = 0]
        /\ lastUse' = [lastUse EXCEPT ![c] = now]
        /\ insertEntryInloop(c, entry[c], idleTimeoutBackup_[c])
        /\ UNCHANGED <<clock, fell, kicking, conn, entry, lastUpdate>>
    BY <1>9, TwoRuns, Zenon DEF ResumeKickoff
  <2>2. idleTimeoutBackup_[c] = timeout
    BY <2>1, <1>d, <1>n
  <2>3. /\ idleTimeout_'[c] = timeout
        /\ \A o \in Peers \ {c} : conn'[o] = conn[o] /\ idleTimeout_'[o] = idleTimeout_[o]
        /\ \A o \in Peers : idleTimeoutBackup_'[o] \in {0, timeout}
    BY <2>1, <2>2, <1>d, <1>n
  <2>. QED
    BY <2>1, <2>2, <2>3, TwoInsert
<1>10. ASSUME NEW c \in Peers, Close(c)
       PROVE  Two'
  <2>1. /\ conn' = [conn EXCEPT ![c] = "closed"] /\ conn[c] = "open"
        /\ UNCHANGED <<wheels_, fell, kicking>> /\ UNCHANGED clock
        /\ UNCHANGED <<idleTimeout_, idleTimeoutBackup_, entry, lastUpdate, lastUse, midTick>>
    BY <1>10, Zenon DEF Close, wheel
  <2>2. Clocked2' /\ base' = base /\ base1' = base1 /\ now' = now
    <3>1. \A x : Fall(x)' = Fall(x)
      BY <1>f DEF Fall, Made
    <3>. QED
      BY <2>1, <1>f, <3>1, Zenon DEF Two, Clocked2, clock, base, base1, now, b
  <2>3. now \in Nat
    BY Numbers
  <2>4. now' >= now
    <3>. HIDE DEF now
    <3>. QED
      BY <2>2, <2>3
  <2>5. \A o \in Peers : conn'[o] = "open" => conn[o] = "open"
    BY <2>1, <1>n
  <2>. QED
    BY <2>1, <2>2, <2>4, <2>5, TwoStay
<1>11. CASE UNCHANGED wheelVars
  <2>1. /\ UNCHANGED <<wheels_, fell, kicking, conn>> /\ UNCHANGED clock
        /\ UNCHANGED <<idleTimeout_, idleTimeoutBackup_, entry, lastUpdate, lastUse, midTick>>
    BY <1>11, Zenon DEF wheelVars, wheel, kickoff
  <2>2. Clocked2' /\ base' = base /\ base1' = base1 /\ now' = now
    <3>1. \A x : Fall(x)' = Fall(x)
      BY <1>f DEF Fall, Made
    <3>. QED
      BY <2>1, <1>f, <3>1, Zenon DEF Two, Clocked2, clock, base, base1, now, b
  <2>3. now \in Nat
    BY Numbers
  <2>4. now' >= now
    <3>. HIDE DEF now
    <3>. QED
      BY <2>2, <2>3
  <2>. QED
    BY <2>1, <2>2, <2>4, TwoStay
<1>. QED
  BY <1>1, <1>2, <1>3, <1>4, <1>5, <1>6, <1>7, <1>8, <1>9, <1>10, <1>11, Zenon DEF WheelNext, Call

-----------------------------------------------------------------------------
(* One wheel or two *)

\* TcpServer::start() takes idleTimeout_ + 1 buckets below 500 seconds, and 100
\* above: two wheels are enough for every time-out of up to 10,000 seconds.
TwoWheels == \A s \in Shapes : s[2] <= s[1] * s[1]

\* What holds of the wheels, be they one or two.
Wheel == Wheeled /\ (Small => One) /\ (Pair => Two)

LEMMA SmallOrPair ==
  ASSUME WheelTypeOK, TwoWheels
  PROVE  Small \/ Pair
<1>1. timeout <= b * b
  BY DEF WheelTypeOK, TwoWheels, b
<1>2. b \in Nat \ {0, 1} /\ timeout \in Nat \ {0, 1}
  BY Numbers
<1>. QED
  BY <1>1, <1>2 DEF Small, Pair

\* All of it is inductive.
LEMMA WheelInvariant == WheelSpec => [](WheelTypeOK /\ Wheel)
<1>1. WheelInit => WheelTypeOK /\ Wheel
  BY TypeInit, WheeledInit, OneInit, TwoInit, Zenon DEF Wheel
<1>2. WheelTypeOK /\ Wheeled /\ Alone /\ Wheel /\ [WheelNext]_wheelVars => (WheelTypeOK /\ Wheel)'
  <2>. SUFFICES ASSUME WheelTypeOK, Wheeled, Alone, Wheel, [WheelNext]_wheelVars
                PROVE  (WheelTypeOK /\ Wheel)'
    OBVIOUS
  <2>1. WheelTypeOK' /\ Wheeled'
    BY WheelTypeStep, AloneStep
  <2>2. (Small' <=> Small) /\ (Pair' <=> Pair)
    BY Fixed DEF Small, Pair
  <2>3. Small => One'
    BY OneStep DEF Wheel
  <2>4. Pair => Two'
    BY TwoStep DEF Wheel
  <2>. QED
    BY <2>1, <2>2, <2>3, <2>4, Zenon DEF Wheel
<1>3. WheelInit => WheelTypeOK /\ Wheeled /\ Alone
  BY TypeInit, WheeledInit
<1>4. WheelTypeOK /\ Wheeled /\ Alone /\ [WheelNext]_wheelVars => (WheelTypeOK /\ Wheeled /\ Alone)'
  BY WheelTypeStep, AloneStep
<1>. QED
  BY <1>1, <1>2, <1>3, <1>4, PTL DEF WheelSpec

\* An entry is dropped at the tick it is due, whatever is inserted; sooner only if
\* the time-out is all that the only wheel holds, or, with two wheels, if a tick
\* was under way when it was inserted (OnTime).
THEOREM WheelOnTime ==
  ASSUME TwoWheels
  PROVE  WheelSpec => []OnTime
<1>1. WheelTypeOK /\ Wheel => OnTime
  <2>. SUFFICES ASSUME WheelTypeOK, Wheel, NEW x \in fell
                PROVE  \/ x.due = ticksCounter_
                       \/ x.due > ticksCounter_ /\ wheelsNum_ > 1 /\ x.inTick
                       \/ x.due = ticksCounter_ + 1 /\ wheelsNum_ = 1 /\ timeout = b
    BY DEF OnTime
  <2>n. ticksCounter_ \in Nat /\ b \in Nat \ {0, 1}
    BY Numbers DEF WheelTypeOK
  <2>1. CASE Small
    <3>1. x.due = ticksCounter_ + Late
      BY <2>1 DEF Wheel, One, Clocked
    <3>2. wheelsNum_ = 1
      BY <2>1, Single
    <3>. QED
      BY <3>1, <3>2, <2>n DEF Late
  <2>2. CASE Pair
    <3>1. x.due \in Nat /\ Fall(x) = ticksCounter_
      BY <2>2 DEF Wheel, Two, Clocked2
    <3>2. wheelsNum_ = 2
      BY <2>2, Double
    <3>. QED
      BY <3>1, <3>2, <2>n DEF Fall
  <2>. QED
    BY <2>1, <2>2, SmallOrPair
<1>2. WheelSpec => [](WheelTypeOK /\ Wheel)
  BY WheelInvariant
<1>. QED
  BY <1>1, <1>2, PTL

\* What KickedInTime needs: an item of c that was made no later than its last use,
\* and is still to be dropped.
LEMMA KickedAfter ==
  ASSUME WheelTypeOK, NEW c \in Peers, NEW x, x.due \in Nat, ticksCounter_ + 1 <= x.due,
         Made(x) * Parts <= lastUse[c]
  PROVE  now < lastUse[c] + (timeout + 1) * Parts
<1>n. /\ timeout \in Nat \ {0, 1} /\ Parts \in Nat \ {0}
      /\ ticksCounter_ \in Nat /\ lastUse[c] \in Nat /\ now \in Nat
  BY Numbers DEF WheelTypeOK
<1>1. Made(x) \in Int /\ ticksCounter_ + 1 <= Made(x) + (timeout + 1)
  BY <1>n DEF Made
<1>2. (ticksCounter_ + 1) * Parts <= (Made(x) + (timeout + 1)) * Parts
  <2>. HIDE DEF Made
  <2>1. Made(x) + (timeout + 1) \in Int /\ ticksCounter_ + 1 \in Int /\ Parts \in Nat
    BY <1>1, <1>n
  <2>. QED
    BY <2>1, <1>1, Times
<1>3. /\ (Made(x) + (timeout + 1)) * Parts = Made(x) * Parts + (timeout + 1) * Parts
      /\ Made(x) * Parts \in Int /\ (timeout + 1) * Parts \in Int
  <2>. HIDE DEF Made
  <2>. QED
    BY <1>1, <1>n
<1>. HIDE DEF now, Made
<1>. QED
  BY <1>2, <1>3, <1>n, Second

\* A connection that is idle is kicked off within timeout + 1 seconds of its last
\* use, unless its time-out is off (KickedInTime).
THEOREM WheelKicksInTime ==
  ASSUME TwoWheels
  PROVE  WheelSpec => []KickedInTime
<1>1. WheelTypeOK /\ Wheel => KickedInTime
  <2>. SUFFICES ASSUME WheelTypeOK, Wheel, NEW c \in Peers,
                       conn[c] = "open", idleTimeout_[c] > 0, turning = wheelsNum_
                PROVE  now < lastUse[c] + (timeout + 1) * Parts
    BY DEF KickedInTime
  <2>n. b \in Nat \ {0, 1} /\ ticksCounter_ \in Nat /\ idleTimeout_[c] \in Nat
    BY Numbers DEF WheelTypeOK
  <2>1. CASE Small
    <3>1. PICK k \in 0 .. b - 1 : \E x \in wheels_[0][k] : Answers(x, c)
      BY <2>1, <2>n DEF Wheel, One, Guarded
    <3>2. PICK x \in wheels_[0][k] : x.owner = c
      BY <3>1 DEF Answers, Current
    <3>3. x.due \in Nat /\ x.due = ticksCounter_ + 1 + k + Late /\ Made(x) * Parts <= lastUse[c]
      <4>1. base = ticksCounter_ + 1
        BY <2>1, Single DEF base
      <4>. QED
        BY <2>1, <3>2, <4>1 DEF Wheel, One, Placed
    <3>4. ticksCounter_ + 1 <= x.due
      BY <3>3, <2>n DEF Late
    <3>. QED
      BY <3>3, <3>4, KickedAfter
  <2>2. CASE Pair
    <3>1. PICK i \in {0, 1}, k \in 0 .. b - 1 : \E x \in wheels_[i][k] : Answers2(x, c)
      BY <2>2, <2>n DEF Wheel, Two, Guarded2
    <3>2. PICK x \in wheels_[i][k] : x.owner = c
      BY <3>1 DEF Answers2, Current
    <3>3. Timely(x)
      BY <2>2, Zenon DEF Wheel, Two, Placed2
    <3>4. x.due \in Nat /\ Made(x) * Parts <= lastUse[c]
      BY <3>2, <3>3 DEF Timely
    <3>t. turning = 2
      BY <2>2, Double
    <3>5. ticksCounter_ + 1 <= Fall(x) /\ Fall(x) <= x.due /\ Fall(x) \in Int
      <4>1. Fall(x) \in Int /\ Fall(x) <= x.due
        BY <3>4, Falls
      <4>2. CASE i = 0
        <5>1. Fall(x) = base + k
          BY <2>2, <4>2 DEF Wheel, Two, Placed2
        <5>2. base = ticksCounter_ + 1
          BY <3>t DEF base
        <5>. QED
          BY <4>1, <5>1, <5>2, <2>n
      <4>3. CASE i = 1
        <5>1. Head(x.path) \in 0 .. b - 1 /\ Fall(x) = base1 + k * b + 1 + Head(x.path)
          BY <2>2, <4>3 DEF Wheel, Two, Placed2
        <5>. DEFINE q == ticksCounter_ \div b
                    r == ticksCounter_ % b
        <5>2. base1 = (q + 1) * b
          BY <3>t DEF base1
        <5>3. q \in Nat /\ r \in 0 .. b - 1 /\ ticksCounter_ = q * b + r
          BY <2>n, DivMod
        <5>. HIDE DEF q, r
        <5>4. (q + 1) * b = q * b + b /\ q * b \in Int /\ k * b \in Nat
          BY <5>3, <2>n
        <5>5. base1 \in Int /\ ticksCounter_ + 1 <= base1
          BY <5>2, <5>3, <5>4, <2>n
        <5>6. PICK h \in 0 .. b - 1 : h = Head(x.path)
          BY <5>1
        <5>7. ticksCounter_ + 1 <= base1 + k * b + 1 + h
          BY <5>4, <5>5, <2>n
        <5>. QED
          BY <4>1, <5>1, <5>6, <5>7
      <4>. QED
        BY <4>2, <4>3
    <3>6. ticksCounter_ + 1 <= x.due
      BY <3>4, <3>5, <2>n
    <3>. QED
      BY <3>4, <3>6, KickedAfter
  <2>. QED
    BY <2>1, <2>2, SmallOrPair
<1>2. WheelSpec => [](WheelTypeOK /\ Wheel)
  BY WheelInvariant
<1>. QED
  BY <1>1, <1>2, PTL

\* Only the tick kicks connections off.
LEMMA TickKicks ==
  ASSUME WheelTypeOK, [WheelNext]_wheelVars, NEW c \in Peers, conn[c] = "open", conn'[c] = "kicked"
  PROVE  Turn
<1>t. conn \in [Peers -> {"none", "open", "kicked", "closed"}]
  BY DEF WheelTypeOK
<1>2. CASE UNCHANGED conn
  BY <1>2
<1>3. CASE Destroy
  <2>1. conn' = [o \in Peers |-> IF o \in Kicked(wheels_', Items) THEN "closed" ELSE conn[o]]
    BY <1>3, Zenon DEF Destroy
  <2>. QED
    BY <2>1
<1>4. ASSUME NEW o \in Peers, enableKickingOff(o)
      PROVE  FALSE
  <2>1. conn' = [conn EXCEPT ![o] = "open"]
    BY <1>4, Zenon DEF enableKickingOff
  <2>. QED
    BY <2>1, <1>t
<1>5. ASSUME NEW o \in Peers, Close(o)
      PROVE  FALSE
  <2>1. conn' = [conn EXCEPT ![o] = "closed"]
    BY <1>5, Zenon DEF Close
  <2>. QED
    BY <2>1, <1>t
<1>6. \/ Turn \/ Destroy \/ UNCHANGED conn
      \/ \E o \in Peers : enableKickingOff(o) \/ Close(o)
  BY Zenon DEF WheelNext, Call, PartPasses, Tick, extendLife, keepAlive, SuspendKickoff, ResumeKickoff,
       wheelVars
<1>. QED
  BY <1>2, <1>3, <1>4, <1>5, <1>6

\* One wheel: the item that answers for the last use is among those that fall with
\* the last.
LEMMA OneNotEarly ==
  ASSUME WheelTypeOK, Small, Wheeled, One, Turn,
         NEW c \in Peers, conn[c] = "open", conn'[c] = "kicked"
  PROVE  \/ now' > lastUse[c] + (timeout - 1) * Parts
         \/ timeout = b /\ now' > lastUse[c] + (timeout - 2) * Parts
<1>1. /\ turning = 0 /\ c \in Kicked(wheels_', fell') /\ fell' = wheels_[0][0]
      /\ \A k \in 0 .. b - 1 : wheels_'[0][k] = IF k = b - 1 THEN {} ELSE wheels_[0][k + 1]
      /\ DOMAIN wheels_' = {0}
  BY OneTurn
<1>n. /\ b \in Nat \ {0, 1} /\ timeout \in Nat \ {0, 1} /\ Parts \in Nat \ {0}
      /\ ticksCounter_ \in Nat /\ lastUse[c] \in Nat
  BY Numbers DEF WheelTypeOK
<1>2. PICK y \in wheels_[0][0] : Current(y, c)
  BY <1>1 DEF Kicked, Current
<1>3. 0 \in 0 .. b - 1
  BY <1>n
<1>4. PICK k \in 0 .. b - 1 : \E x \in wheels_[0][k] : Answers(x, c)
  BY <1>2, <1>3 DEF One, Guarded
<1>5. PICK x \in wheels_[0][k] : Answers(x, c)
  BY <1>4
<1>6. k = 0
  <2>1. SUFFICES ASSUME k # 0 PROVE FALSE
    OBVIOUS
  <2>2. k - 1 \in 0 .. b - 1 /\ x \in wheels_'[0][k - 1]
    BY <2>1, <1>1, <1>n
  <2>3. Current(x, c)
    BY <1>5 DEF Answers
  <2>. QED
    BY <2>2, <2>3, <1>1 DEF Kicked, Current
<1>7. x.due = ticksCounter_ + Late /\ lastUse[c] + 1 < (Made(x) + 2) * Parts
  <2>1. base = ticksCounter_
    BY <1>1 DEF base
  <2>2. x.due = base + 0 + Late /\ Late \in {0, 1}
    BY <1>6, <1>3 DEF One, Placed, Late
  <2>. QED
    BY <2>1, <2>2, <1>5, <1>n DEF Answers
<1>8. now' = ticksCounter_ * Parts
  <2>1. part = 0
    BY <1>1 DEF One, Clocked
  <2>2. part' = part /\ ticksCounter_' = ticksCounter_
    BY Zenon DEF Turn
  <2>3. ticksCounter_ * Parts \in Nat
    BY <1>n, Product
  <2>. QED
    BY <2>1, <2>2, <2>3 DEF now
<1>9. ticksCounter_ * Parts \in Int /\ timeout * Parts \in Int
  BY <1>n
<1>10. CASE timeout = b
  <2>1. Made(x) + 2 = ticksCounter_ - (timeout - 2)
    BY <1>7, <1>10, <1>n DEF Made, Late
  <2>2. (ticksCounter_ - (timeout - 2)) * Parts = ticksCounter_ * Parts - (timeout - 2) * Parts
    BY <1>n
  <2>3. (timeout - 2) * Parts \in Int
    BY <1>n
  <2>. HIDE DEF now, Made
  <2>. QED
    BY <1>7, <1>8, <1>9, <1>10, <1>n, <2>1, <2>2, <2>3, Single
<1>11. CASE timeout # b
  <2>1. Made(x) + 2 = ticksCounter_ - (timeout - 1)
    BY <1>7, <1>11, <1>n DEF Made, Late
  <2>2. (ticksCounter_ - (timeout - 1)) * Parts = ticksCounter_ * Parts - (timeout - 1) * Parts
    BY <1>n
  <2>3. (timeout - 1) * Parts \in Int
    BY <1>n
  <2>. HIDE DEF now, Made
  <2>. QED
    BY <1>7, <1>8, <1>9, <1>n, <2>1, <2>2, <2>3
<1>. QED
  BY <1>10, <1>11

\* Two wheels: so it is, and it falls early by Slack at most.
LEMMA TwoNotEarly ==
  ASSUME WheelTypeOK, Pair, Wheeled, Two, Turn,
         NEW c \in Peers, conn[c] = "open", conn'[c] = "kicked"
  PROVE  \/ now' > lastUse[c] + (timeout - 1) * Parts
         \/ midTick[c] /\ now' > lastUse[c] + (timeout - 1 - b) * Parts
<1>n. /\ b \in Nat \ {0, 1} /\ timeout \in Nat \ {0, 1} /\ Parts \in Nat \ {0}
      /\ ticksCounter_ \in Nat /\ lastUse[c] \in Nat
  BY Numbers DEF WheelTypeOK
<1>1. turning = 0
  <2>1. turning \in {0, 1}
    BY Double DEF Turn
  <2>. QED
    BY <2>1, TwoTurn1
<1>2. /\ c \in Kicked(wheels_', fell') /\ fell' = wheels_[0][0]
      /\ \A k \in 0 .. b - 1 :
           /\ wheels_'[0][k] = IF k = b - 1 THEN {} ELSE wheels_[0][k + 1]
           /\ wheels_'[1][k] = wheels_[1][k]
      /\ DOMAIN wheels_' = {0, 1}
  BY <1>1, TwoTurn0
<1>3. PICK y \in wheels_[0][0] : Current(y, c)
  BY <1>2 DEF Kicked, Current
<1>4. 0 \in 0 .. b - 1 /\ 0 \in {0, 1}
  BY <1>n
<1>5. PICK i \in {0, 1}, k \in 0 .. b - 1 : \E x \in wheels_[i][k] : Answers2(x, c)
  BY <1>3, <1>4 DEF Two, Guarded2
<1>6. PICK x \in wheels_[i][k] : Answers2(x, c)
  BY <1>5
<1>7. Current(x, c)
  BY <1>6 DEF Answers2
<1>8. i = 0 /\ k = 0
  <2>1. CASE i = 1
    BY <2>1, <1>2, <1>6, <1>7 DEF Kicked, Current
  <2>2. CASE i = 0 /\ k # 0
    <3>1. k - 1 \in 0 .. b - 1 /\ x \in wheels_'[0][k - 1]
      BY <2>2, <1>2, <1>6, <1>n
    <3>. QED
      BY <3>1, <1>2, <1>7 DEF Kicked, Current
  <2>. QED
    BY <2>1, <2>2
<1>9. Fall(x) = ticksCounter_
  <2>1. base = ticksCounter_
    BY <1>1 DEF base
  <2>2. Fall(x) = base + 0
    BY <1>4, <1>6, <1>8 DEF Two, Placed2
  <2>. QED
    BY <2>1, <2>2, <1>n
<1>10. lastUse[c] + 1 < (ticksCounter_ + Slack(c) - timeout + 1) * Parts
  BY <1>6, <1>9 DEF Answers2
<1>11. now' = ticksCounter_ * Parts
  <2>1. part = 0
    BY <1>1 DEF Two, Clocked2
  <2>2. part' = part /\ ticksCounter_' = ticksCounter_
    BY Zenon DEF Turn
  <2>3. ticksCounter_ * Parts \in Nat
    BY <1>n, Product
  <2>. QED
    BY <2>1, <2>2, <2>3 DEF now
<1>12. CASE midTick[c]
  <2>1. Slack(c) = b
    BY <1>12 DEF Slack
  <2>2. ticksCounter_ + Slack(c) - timeout + 1 = ticksCounter_ - (timeout - 1 - b)
    BY <2>1, <1>n
  <2>3. /\ (ticksCounter_ - (timeout - 1 - b)) * Parts
             = ticksCounter_ * Parts - (timeout - 1 - b) * Parts
        /\ ticksCounter_ * Parts \in Int /\ (timeout - 1 - b) * Parts \in Int
    <3>1. PICK e \in Int : e = timeout - 1 - b
      BY <1>n
    <3>2. (ticksCounter_ - e) * Parts = ticksCounter_ * Parts - e * Parts /\ e * Parts \in Int
          /\ ticksCounter_ * Parts \in Int
      BY <1>n
    <3>. QED
      BY <3>1, <3>2
  <2>. HIDE DEF now
  <2>. QED
    BY <1>10, <1>11, <1>12, <2>2, <2>3, <1>n
<1>13. CASE ~midTick[c]
  <2>1. Slack(c) = 0
    BY <1>13 DEF Slack
  <2>2. ticksCounter_ + Slack(c) - timeout + 1 = ticksCounter_ - (timeout - 1)
    BY <2>1, <1>n
  <2>3. /\ (ticksCounter_ - (timeout - 1)) * Parts = ticksCounter_ * Parts - (timeout - 1) * Parts
        /\ ticksCounter_ * Parts \in Int /\ (timeout - 1) * Parts \in Int
    BY <1>n
  <2>. HIDE DEF now
  <2>. QED
    BY <1>10, <1>11, <2>2, <2>3, <1>n
<1>. QED
  BY <1>12, <1>13

\* No connection is kicked off that was used less than timeout - 1 seconds ago:
\* timeout - 2 if the time-out is all that the only wheel holds, and a turn of
\* wheel 0 less if its last item was made while a tick was under way
\* (NotKickedEarly).  Insertions that a later one supersedes do no harm.
THEOREM WheelKicksNotEarly ==
  ASSUME TwoWheels
  PROVE  WheelSpec => NotKickedEarly
<1>1. WheelTypeOK /\ Wheel /\ [WheelNext]_wheelVars
      => [\A c \in Peers :
            conn[c] = "open" /\ conn'[c] = "kicked" =>
              \/ now' > lastUse[c] + (timeout - 1) * Parts
              \/ /\ wheelsNum_ > 1 /\ midTick[c]
                 /\ now' > lastUse[c] + (timeout - 1 - b ^ (wheelsNum_ - 1)) * Parts
              \/ /\ wheelsNum_ = 1 /\ timeout = b
                 /\ now' > lastUse[c] + (timeout - 2) * Parts]_wheelVars
  <2>. SUFFICES ASSUME WheelTypeOK, Wheel, [WheelNext]_wheelVars,
                       NEW c \in Peers, conn[c] = "open", conn'[c] = "kicked"
                PROVE  \/ now' > lastUse[c] + (timeout - 1) * Parts
                       \/ /\ wheelsNum_ > 1 /\ midTick[c]
                          /\ now' > lastUse[c] + (timeout - 1 - b ^ (wheelsNum_ - 1)) * Parts
                       \/ /\ wheelsNum_ = 1 /\ timeout = b
                          /\ now' > lastUse[c] + (timeout - 2) * Parts
    OBVIOUS
  <2>1. Turn
    BY TickKicks
  <2>2. CASE Small
    <3>1. \/ now' > lastUse[c] + (timeout - 1) * Parts
          \/ timeout = b /\ now' > lastUse[c] + (timeout - 2) * Parts
      BY <2>1, <2>2, OneNotEarly DEF Wheel
    <3>2. wheelsNum_ = 1
      BY <2>2, Single
    <3>. QED
      BY <3>1, <3>2, Zenon
  <2>3. CASE Pair
    <3>1. \/ now' > lastUse[c] + (timeout - 1) * Parts
          \/ midTick[c] /\ now' > lastUse[c] + (timeout - 1 - b) * Parts
      BY <2>1, <2>3, TwoNotEarly DEF Wheel
    <3>2. wheelsNum_ > 1 /\ b ^ (wheelsNum_ - 1) = b
      BY <2>3, Double
    <3>. QED
      BY <3>1, <3>2, Zenon
  <2>. QED
    BY <2>2, <2>3, SmallOrPair
<1>2. WheelSpec => [](WheelTypeOK /\ Wheel)
  BY WheelInvariant
<1>. QED
  BY <1>1, <1>2, PTL DEF WheelSpec, NotKickedEarly
=============================================================================
