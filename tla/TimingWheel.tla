----------------------------- MODULE TimingWheel -----------------------------
(***************************************************************************)
(* The hierarchical timing wheel of utils/TimingWheel.cpp, and its use to  *)
(* close idle connections: KickoffEntry, enableKickingOff, extendLife,     *)
(* keepAlive and the part of sendAsyncStream that suspends the mechanism   *)
(* (net/inner/TcpConnectionImpl.{h,cpp}).                                  *)
(*                                                                         *)
(* An entry is destroyed, and its connection closed, when the last bucket  *)
(* that refers to it is dropped.  Everything happens in the thread of the  *)
(* loop, but the destructor of an entry runs in the middle of a tick and   *)
(* calls the user, who may use other connections: so a tick is one step    *)
(* per wheel, and connections may be active between two of them when an    *)
(* entry was destroyed.                                                    *)
(*                                                                         *)
(* The tick interval is one second, as TcpServer::start() has it; a second *)
(* has Parts parts, since activity is measured more finely than ticks.     *)
(***************************************************************************)
EXTENDS Naturals, Sequences, FiniteSets

CONSTANTS Peers,    \* the connections
          Shapes,   \* pairs: buckets per wheel, idle time-out in seconds
          Parts,    \* parts of a second
          MaxTicks, \* bound on the time of a run, in seconds
          MaxGen,   \* bound on the entries made for a connection
          MaxUses   \* bound on the calls of the user, in all

ASSUME ShapesAssumption ==
  \A s \in Shapes : s[1] \in Nat \ {0, 1} /\ s[2] \in Nat \ {0, 1}
\* What the proofs use of powers, of which TLAPS knows nothing.
ASSUME PowersAssumption ==
  \A s \in Shapes : s[1] ^ 0 = 1 /\ s[1] ^ 1 = s[1] /\ s[1] ^ 2 = s[1] * s[1]
ASSUME PartsAssumption == Parts \in Nat \ {0} /\ {MaxTicks, MaxGen, MaxUses} \subseteq Nat

VARIABLES
  bucketsNumPerWheel_, \* TimingWheel::bucketsNumPerWheel_
  timeout,       \* the idle time-out given to TcpServer::kickoffIdleConnections
  wheels_,       \* TimingWheel::wheels_: for each wheel, for each bucket, a set of items
  ticksCounter_, \* TimingWheel::ticksCounter_
  part,          \* the part of the current second
  turning,       \* the wheel that the tick is at; wheelsNum_: no tick is under way
  fell,          \* the items that the last step dropped
  kicking,       \* did the last step destroy an entry?
  idleTimeout_, idleTimeoutBackup_, \* of each connection
  entry,         \* the number of the KickoffEntry of each connection
  lastUpdate,    \* lastTimingWheelUpdateTime_, in parts
  conn,          \* each connection: "none", "open", "kicked" or "closed"
  lastUse,       \* when a connection was last active, in parts
  kept,          \* has keepAlive() been called, the mechanism not being suspended?
  midTick,       \* was the last item of a connection made while a tick was under way?
  uses           \* the calls counted for MaxUses

wheel == <<wheels_, fell, kicking>>
clock == <<bucketsNumPerWheel_, timeout, ticksCounter_, part, turning>>
kickoff == <<idleTimeout_, idleTimeoutBackup_, entry, lastUpdate, lastUse, kept, midTick, uses>>
wheelVars == <<wheel, clock, kickoff, conn>>

b == bucketsNumPerWheel_

\* The constructor's loop: as many wheels as make b^wheelsNum_ ticks enough.
WheelsNum(num, ticks) ==
  CHOOSE w \in 1 .. ticks : num ^ w >= ticks /\ \A v \in 1 .. w - 1 : num ^ v < ticks

wheelsNum_ == WheelsNum(b, timeout)
Wheels == 0 .. wheelsNum_ - 1
now == ticksCounter_ * Parts + part
Items == UNION {wheels_[i][k] : i \in Wheels, k \in 0 .. b - 1}

\* The wheels are empty, no connection is made yet, and no tick is under way.
WheelInit ==
  \E s \in Shapes : LET wn == WheelsNum(s[1], s[2]) IN
    /\ bucketsNumPerWheel_ = s[1] /\ timeout = s[2]
    /\ wheels_ = [i \in 0 .. wn - 1 |-> [k \in 0 .. s[1] - 1 |-> {}]]
    /\ ticksCounter_ = 0 /\ part = 0 /\ turning = wn
    /\ fell = {} /\ kicking = FALSE
    /\ idleTimeout_ = [c \in Peers |-> 0] /\ idleTimeoutBackup_ = [c \in Peers |-> 0]
    /\ entry = [c \in Peers |-> 0] /\ lastUpdate = [c \in Peers |-> 0]
    /\ conn = [c \in Peers |-> "none"] /\ lastUse = [c \in Peers |-> 0]
    /\ kept = [c \in Peers |-> FALSE] /\ midTick = [c \in Peers |-> FALSE] /\ uses = 0

-----------------------------------------------------------------------------
(* insertEntryInloop() *)

Delay(d) == [i \in Wheels |->
  LET del[j \in Wheels] == IF j = 0 THEN d
                           ELSE (del[j-1] + ((ticksCounter_ \div b ^ (j-1)) % b) - 1) \div b
  IN del[i]]

\* The bucket of wheel i to which the callback entry of wheel i + 1 moves it.
Slot(d, i) == (Delay(d)[i] + ((ticksCounter_ \div b ^ i) % b) - 1) % b

\* The wheel that takes a delay of d ticks: the first with buckets enough, or
\* the last, whose last bucket then has to do.
Level(d) ==
  LET fit == {i \in Wheels : Delay(d)[i] <= b \/ i = wheelsNum_ - 1}
  IN CHOOSE i \in fit : \A j \in fit : i <= j

\* An item: the entry, the buckets of the lower wheels it has to go through, and,
\* for the properties, when it is due and whether a tick was under way.
Item(c, e, d) ==
  [owner |-> c, num |-> e,
   path |-> [k \in 1 .. Level(d) |-> Slot(d, Level(d) - k)],
   due |-> ticksCounter_ + d, inTick |-> turning < wheelsNum_]

\* Mutant of insertEntryInloop: the buckets of the lower wheels are one off.
insertEntryInloopOff(c, e, delay) ==
  LET d == delay + 1
      k == IF Delay(d)[Level(d)] <= b THEN Delay(d)[Level(d)] - 1 ELSE b - 1
      item == [Item(c, e, d) EXCEPT !.path = [i \in DOMAIN @ |-> (@[i] + 1) % b]]
  IN /\ wheels_' = [wheels_ EXCEPT ![Level(d)][k] = @ \cup {item}]
     /\ midTick' = [midTick EXCEPT ![c] = item.inTick]

insertEntryInloop(c, e, delay) ==
  LET d == delay + 1
      k == IF Delay(d)[Level(d)] <= b THEN Delay(d)[Level(d)] - 1 ELSE b - 1
  IN /\ wheels_' = [wheels_ EXCEPT ![Level(d)][k] = @ \cup {Item(c, e, d)}]
     /\ midTick' = [midTick EXCEPT ![c] = turning < wheelsNum_]

-----------------------------------------------------------------------------
(* The tick *)

PartPasses ==
  /\ turning = wheelsNum_ /\ part < Parts - 1
  /\ part' = part + 1
  /\ fell' = {} /\ kicking' = FALSE
  /\ UNCHANGED <<bucketsNumPerWheel_, timeout, ticksCounter_, turning, wheels_, kickoff, conn>>

Tick ==
  /\ turning = wheelsNum_ /\ part = Parts - 1 /\ ticksCounter_ < MaxTicks
  /\ part' = 0 /\ ticksCounter_' = ticksCounter_ + 1
  /\ turning' = 0
  /\ fell' = {} /\ kicking' = FALSE
  /\ UNCHANGED <<bucketsNumPerWheel_, timeout, wheels_, kickoff, conn>>

\* The connections whose entry goes when the wheels become w: ~KickoffEntry
\* closes a connection that is open and has not been taken from the entry.
Kicked(w, gone) ==
  {c \in Peers : /\ conn[c] = "open"
                 /\ \E x \in gone : x.owner = c /\ x.num = entry[c]
                 /\ \A i \in DOMAIN w, k \in 0 .. b - 1 :
                      \A x \in w[i][k] : ~(x.owner = c /\ x.num = entry[c])}

\* Wheel i turns by one bucket: what falls out of it goes to the wheel below, at
\* the place noted, or is dropped.
Turned(i) ==
  LET front == wheels_[i][0]
      shifted == [wheels_ EXCEPT ![i] =
                    [k \in 0 .. b - 1 |-> IF k = b - 1 THEN {} ELSE wheels_[i][k + 1]]]
      into(k) == {[x EXCEPT !.path = Tail(@)] : x \in {y \in front : Head(y.path) = k}}
  IN IF i = 0 THEN shifted
     ELSE [shifted EXCEPT ![i - 1] = [k \in 0 .. b - 1 |-> @[k] \cup into(k)]]

\* Mutant of Turn: every reference that is dropped closes the connection.
TurnEarly ==
  /\ turning \in Wheels
  /\ turning' = turning + 1
  /\ IF ticksCounter_ % (b ^ turning) = 0
     THEN /\ wheels_' = Turned(turning)
          /\ fell' = IF turning = 0 THEN wheels_[0][0] ELSE {}
          /\ conn' = [c \in Peers |-> IF c \in Kicked(<<>>, fell') THEN "kicked" ELSE conn[c]]
          /\ kicking' = (conn' # conn)
     ELSE fell' = {} /\ kicking' = FALSE /\ UNCHANGED <<wheels_, conn>>
  /\ UNCHANGED <<bucketsNumPerWheel_, timeout, ticksCounter_, part, kickoff>>

\* One iteration of the loop over the wheels.  The users whom the closes call come
\* after the whole bucket has been dropped, not between two of its destructors.
Turn ==
  /\ turning \in Wheels
  /\ turning' = turning + 1
  /\ IF ticksCounter_ % (b ^ turning) = 0
     THEN /\ wheels_' = Turned(turning)
          /\ fell' = IF turning = 0 THEN wheels_[0][0] ELSE {}
          /\ conn' = [c \in Peers |-> IF c \in Kicked(wheels_', fell') THEN "kicked" ELSE conn[c]]
          /\ kicking' = (conn' # conn)
     ELSE fell' = {} /\ kicking' = FALSE /\ UNCHANGED <<wheels_, conn>>
  /\ UNCHANGED <<bucketsNumPerWheel_, timeout, ticksCounter_, part, kickoff>>

\* ~TimingWheel: the wheels are cleared from the last to the first, so that what
\* falls out of one still finds the next; every entry is destroyed.
Destroy ==
  /\ turning = wheelsNum_
  /\ turning' = wheelsNum_ + 1
  /\ wheels_' = [i \in Wheels |-> [k \in 0 .. b - 1 |-> {}]]
  /\ conn' = [c \in Peers |-> IF c \in Kicked(wheels_', Items) THEN "closed" ELSE conn[c]]
  /\ fell' = {} /\ kicking' = FALSE
  /\ UNCHANGED <<bucketsNumPerWheel_, timeout, ticksCounter_, part, idleTimeout_,
                 idleTimeoutBackup_, entry, lastUpdate, lastUse, kept, midTick>>

-----------------------------------------------------------------------------
(* The connections *)

\* Code of the connections runs between ticks, or in the destructor of an entry.
CanRun == turning = wheelsNum_ \/ kicking

\* enableKickingOff, called by TcpServer::newConnection.
enableKickingOff(c) ==
  /\ CanRun /\ conn[c] = "none"
  /\ conn' = [conn EXCEPT ![c] = "open"]
  /\ idleTimeout_' = [idleTimeout_ EXCEPT ![c] = timeout]
  /\ lastUse' = [lastUse EXCEPT ![c] = now]
  /\ insertEntryInloop(c, entry[c], timeout)
  /\ UNCHANGED <<clock, fell, kicking, idleTimeoutBackup_, entry, lastUpdate, kept>>

\* extendLife, called when data was read or written: at most one insertion each
\* second.  (lastUpdate = 0: the date was never set.)
extendLife(c) ==
  /\ CanRun /\ conn[c] = "open"
  /\ lastUse' = [lastUse EXCEPT ![c] = now]
  /\ IF idleTimeout_[c] > 0 /\ (lastUpdate[c] = 0 \/ now >= lastUpdate[c] + Parts)
     THEN /\ lastUpdate' = [lastUpdate EXCEPT ![c] = now]
          /\ insertEntryInloop(c, entry[c], idleTimeout_[c])
     ELSE UNCHANGED <<lastUpdate, wheels_, midTick>>
  /\ UNCHANGED <<clock, fell, kicking, conn, idleTimeout_, idleTimeoutBackup_, entry, kept>>

\* Mutant of keepAlive: the entry keeps its connection.
keepAliveNoReset(c) ==
  /\ CanRun /\ conn[c] = "open"
  /\ kept' = [kept EXCEPT ![c] = idleTimeoutBackup_[c] = 0]
  /\ idleTimeout_' = [idleTimeout_ EXCEPT ![c] = 0]
  /\ UNCHANGED <<clock, wheel, conn, idleTimeoutBackup_, entry, lastUpdate, lastUse, midTick>>

\* keepAlive: the entry, wherever it is, loses its connection.
keepAlive(c) ==
  /\ CanRun /\ conn[c] = "open"
  /\ kept' = [kept EXCEPT ![c] = idleTimeoutBackup_[c] = 0]
  /\ idleTimeout_' = [idleTimeout_ EXCEPT ![c] = 0]
  /\ entry' = [entry EXCEPT ![c] = @ + 1]
  /\ UNCHANGED <<clock, wheel, conn, idleTimeoutBackup_, lastUpdate, lastUse, midTick>>

\* sendAsyncStream(true) suspends the mechanism.
SuspendKickoff(c) ==
  /\ CanRun /\ conn[c] = "open" /\ entry[c] < MaxGen
  /\ entry' = [entry EXCEPT ![c] = @ + 1]
  /\ idleTimeoutBackup_' = [idleTimeoutBackup_ EXCEPT ![c] = idleTimeout_[c]]
  /\ idleTimeout_' = [idleTimeout_ EXCEPT ![c] = 0]
  /\ UNCHANGED <<clock, wheel, conn, lastUpdate, lastUse, kept, midTick>>

\* Mutant of ResumeKickoff: the new entry is not inserted.
ResumeKickoffNoEntry(c) ==
  /\ CanRun /\ conn[c] = "open" /\ idleTimeoutBackup_[c] > 0
  /\ idleTimeout_' = [idleTimeout_ EXCEPT ![c] = idleTimeoutBackup_[c]]
  /\ idleTimeoutBackup_' = [idleTimeoutBackup_ EXCEPT ![c] = 0]
  /\ lastUse' = [lastUse EXCEPT ![c] = now]
  /\ UNCHANGED <<clock, wheel, conn, entry, lastUpdate, kept, midTick>>

\* The end of an asynchronous stream resumes it, with a new entry.
ResumeKickoff(c) ==
  /\ CanRun /\ conn[c] = "open" /\ idleTimeoutBackup_[c] > 0
  /\ idleTimeout_' = [idleTimeout_ EXCEPT ![c] = idleTimeoutBackup_[c]]
  /\ idleTimeoutBackup_' = [idleTimeoutBackup_ EXCEPT ![c] = 0]
  /\ lastUse' = [lastUse EXCEPT ![c] = now]
  /\ insertEntryInloop(c, entry[c], idleTimeoutBackup_[c])
  /\ UNCHANGED <<clock, fell, kicking, conn, entry, lastUpdate, kept>>

\* The connection is closed by its peer: its entry stays in the wheel.
Close(c) ==
  /\ CanRun /\ conn[c] = "open"
  /\ conn' = [conn EXCEPT ![c] = "closed"]
  /\ UNCHANGED <<clock, wheel, idleTimeout_, idleTimeoutBackup_, entry, lastUpdate, lastUse, kept,
                 midTick>>

-----------------------------------------------------------------------------
Call ==
  \/ Destroy
  \/ \E c \in Peers : \/ extendLife(c) \/ keepAlive(c) \/ SuspendKickoff(c)
                      \/ ResumeKickoff(c) \/ Close(c)

WheelNext ==
  \/ PartPasses \/ Tick \/ Turn
  \/ UNCHANGED uses /\ \E c \in Peers : enableKickingOff(c)
  \/ uses < MaxUses /\ uses' = uses + 1 /\ Call

WheelSpec == WheelInit /\ [][WheelNext]_wheelVars

-----------------------------------------------------------------------------
(* Properties *)

\* Through however many wheels an entry goes, it is dropped at the tick it is due
\* (insertEntryInloop and the tick), except one that is inserted while a tick is
\* under way and goes to a wheel that has yet to turn, and one whose delay is
\* more than the only wheel holds: both come early.
OnTime ==
  \A x \in fell :
    \/ x.due = ticksCounter_
    \/ x.due > ticksCounter_ /\ wheelsNum_ > 1 /\ x.inTick
    \/ x.due = ticksCounter_ + 1 /\ wheelsNum_ = 1 /\ timeout = b

\* A connection is kicked off only after timeout seconds without traffic, or up
\* to a second less, since extendLife is called at most once a second; never
\* because of an insertion that a later one has superseded; one more if the
\* time-out is all that the only wheel holds.  With several wheels an insertion in
\* the middle of a tick may come early by one bucket of the last wheel.
NotKickedEarly ==
  [][\A c \in Peers :
       conn[c] = "open" /\ conn'[c] = "kicked" =>
         \/ now' > lastUse[c] + (timeout - 1) * Parts
         \/ /\ wheelsNum_ > 1 /\ midTick[c]
            /\ now' > lastUse[c] + (timeout - 1 - b ^ (wheelsNum_ - 1)) * Parts
         \/ /\ wheelsNum_ = 1 /\ timeout = b
            /\ now' > lastUse[c] + (timeout - 2) * Parts]_wheelVars

\* A connection that is idle is kicked off within timeout + 1 seconds, however
\* its entries were inserted, unless the mechanism is suspended (TcpServer.h,
\* kickoffIdleConnections).
KickedInTime ==
  \A c \in Peers :
    conn[c] = "open" /\ idleTimeout_[c] > 0 /\ turning = wheelsNum_
      => now < lastUse[c] + (timeout + 1) * Parts

\* A connection that is kept alive is not kicked off, whatever entries it has in
\* the wheels (keepAlive), as long as no stream had suspended the mechanism: the
\* end of that stream would start it again.
KeptAlive == \A c \in Peers : kept[c] => conn[c] # "kicked"
=============================================================================
