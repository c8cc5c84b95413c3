# xiaoNet: a TLA+ verification project

xiaoNet is a C++ TCP library in the reactor style: one event loop per thread,
an epoll poller under it, non-blocking sockets, and a lock-free queue through
which other threads hand functions to a loop.  This project models it in TLA+,
checks the models with TLC on small instances, and proves with TLAPS, for
instances of any size, the invariants of ten components and three refinements.

## 1. Inventory

| component (sources under `src/xiaoNet/`) | state | operations | talks to |
|---|---|---|---|
| `MpscQueue` (`utils/LockFreeQueue.h`) | a linked list of heap nodes between two atomics `head_`, `tail_` | `enqueue` (any thread), `dequeue`, `empty` (one thread), destructor | owned by `EventLoop` (`funcs_`, `funcsOnQuit_`) |
| `EventLoop` (`net/EventLoop.*`) | flags `looping_`, `quit_`, `callingFuncs_`; `wakeupFd_`; two queues; active channels | `loop`, `quit`, `queueInLoop`, `runInLoop`, `runOnQuit`, `moveToCurrentThread`, timers | poller, channels, timer queue; every other class queues functions to it |
| `TimerQueue`, `Timer` (`net/inner/`) | heap `timers_`, `timerIdSet_`, one kernel timer `timerfd_` | add, invalidate, expire, re-arm | called through `EventLoop`; belongs to the loop thread |
| `Channel`, `EpollPoller` | interest set `events_`, registration `index_`; kernel interest list | enable, disable, update, remove, dispatch | between sockets and the loop |
| `TcpConnectionImpl`, buffer nodes | `status_`, `writeBufferList_`, channel, callbacks, idle entry | send, sendFile, sendStream, sendAsyncStream, shutdown, forceClose, keepAlive; read, write, close handlers | its loop; its `TcpServer` or `TcpClient`; a `TimingWheel` |
| `TcpServer`, `Acceptor` | `connSet_`, loop pool, timing wheels, spare descriptor `idleFd_` | start, accept, connection closed, stop | connections on several loops |
| `Connector`, `TcpClient` | `status_`, `connect_`, `fd_`, `socketHanded_`, the connection | connect, retry, stop, disconnect, destruction | loop timers, connection |
| `TimingWheel` (`utils/`) | wheels of buckets, tick counter | insert, tick, destruction | a repeating timer; idle connections |
| `ConcurrentTaskQueue`, `SerialTaskQueue` (`utils/`) | mutex, condition variable, queue, workers; a loop thread | run a task, run and wait, stop | threads, `EventLoopThread` |
| `EventLoopThread`, `EventLoopThreadPool` | promises, mutex, thread | start, run, wait, quit, join | `EventLoop` |
| `MsgBuffer` | `head_`, `tail_`, `initCap_`, the memory | append, addInFront, retrieve, read, readFd, ensureWritableBytes, unwrite | connections |
| `Socket`, `InetAddress`, `Utilities`, TLS interfaces | none of their own | wrappers, formatting | not modelled (pure I/O, stateless, no TLS backend in this build) |

What is hard here: the queue is lock-free and frees memory without any
synchronisation but the list itself; a loop sleeps in `epoll_wait` and has to be
woken by a separate descriptor; `quit`, the destructor and `runOnQuit` race the
loop thread; timers are changed while they are being expired; a connection is
closed by its peer, by its user and by its server, in two threads; data is
written in parts and by several ways into one socket; a pool is stopped through
a condition variable that is notified without its mutex; a connector's retry,
`stop` and destructor race for one socket; a wheel's entries pass through
several wheels, and their destructors call users in the middle of a tick;
descriptors run out.  `PROJECT.json` lists these hazards at their lines, with the
properties that cover them.

What makes the components correct, in short: the queue is a FIFO that loses
nothing and touches no freed node; a queued function runs, once, in order, and
without waiting for the poll time-out; `quit` ends the loop; the kernel timer
always covers the first timer, and an invalidated timer never fires; bytes reach
the socket in order and complete; a connection is closed once and completely;
every socket a connector opens is closed once; an idle connection is kicked off
neither early nor late; a task is executed once, in order, and not left behind
while a worker sleeps; stopping ends, and leaves nothing open.

## 2. Modules

| module | models | relation to other modules |
|---|---|---|
| `MpscFifo` | what the lock-free queue promises (abstract) | |
| `MpscQueue` | `utils/LockFreeQueue.h` | shown to implement `MpscFifo` |
| `EventLoop` | `net/EventLoop.cpp`, `poll` | composes two instances of `MpscFifo` |
| `TimerQueue` | `net/inner/TimerQueue.cpp`, `Timer.cpp`, the timer calls of `EventLoop` | closures in FIFO order, as `EventLoop` keeps it (`OrderKept`) |
| `TaskQueue` | what `utils/TaskQueue.h` promises (abstract) | |
| `ConcurrentTaskQueue` | `utils/ConcurrentTaskQueue.cpp` | shown to implement `TaskQueue` |
| `EventLoopThread` | `net/EventLoopThread.cpp`, `EventLoopThreadPool.cpp`, `utils/SerialTaskQueue.cpp` | each loop thread is shown to implement `TaskQueue` of width one; uses of `EventLoop` what that module checks |
| `TcpConnection` | `net/inner/TcpConnectionImpl.cpp`, buffer nodes, its channel and epoll registration, its side of `TcpServer` | closures in FIFO order |
| `TcpServer` | `net/TcpServer.cpp`, `net/inner/Acceptor.cpp` | connections reduced to what the server sees of `TcpConnection` |
| `TcpClient` | `net/TcpClient.cpp`, `net/inner/Connector.cpp` | the connection reduced likewise |
| `TimingWheel` | `utils/TimingWheel.cpp`, `KickoffEntry`, `enableKickingOff`, `extendLife`, `keepAlive` and the suspension by `sendAsyncStream` | |
| `MsgBuffer` | `utils/MsgBuffer.{h,cpp}` | checked against a sequence of bytes |
| `MpscQueueProofs`, `EventLoopProofs`, `ConcurrentTaskQueueProofs`, `EventLoopThreadProofs`, `MsgBufferProofs`, `TcpConnectionProofs`, `TcpClientProofs`, `TcpServerProofs` | theorems | each extends the module it is about; `EventLoopThreadProofs` also extends `TimerQueue` (the timers of the loops it starts) and `TcpServerProofs` also `TimingWheel` (the wheels the server makes), in a second part of their own |
| `MC...` | the modules TLC is started on | |

`TimerQueue` and `TimingWheel` have names of their own for what every module has
(`TimerSpec`, `WheelSpec`, ...), since the proofs about them share a module with
those of another component.  The two models in such a module share no variable,
and no theorem speaks of both.

Beside most actions stands a variant of it marked "Mutant": the action with a
plausible mistake.  The mutants are part of no specification.  They show that
each property depends on the code: with the mutant in place of the action, TLC
finds the property violated.

### MpscQueue

One action per atomic access.  `enqueue` is `Exchange` (allocation and
`head_.exchange`) and `Link` (store to `prevhead->next_`); `dequeue` is
`DequeueFalse`, or `DequeueLoad`, `DequeueTake`, `DequeueDelete`; the destructor
is `Destroy`, the same dequeue steps, `DestroyFront`.  Nodes are addresses that
are handed out again as soon as they are deleted, so an access to a freed node
would meet a new owner.  The history variable `chain` lists the nodes in the
order of the exchanges.  Acquire and release are modelled as sequential
consistency; the code publishes every value through one release operation that
is read by one acquire operation.

### EventLoop

The loop thread has a program counter through `loop()` and
`doRunInLoopFuncs()`; every access to a shared flag, queue or descriptor is a
step of its own.  Client threads run `queueInLoop` (`QueueInLoop`,
`PublishFunc`, `Wakeup`), `runOnQuit` and `quit` (store, then `Wakeup`).
User code in the loop thread (functions, handlers, code outside `loop()`) may
call the same operations any number of times, and throw when `Throwing`.
`poll()` may report the wake-up descriptor (`PollWakeup`) or return for any other
reason (`PollOther`: other channels, a full event array, the time-out, a signal).
The destructor runs in another thread (`DtorElsewhere`) or in the loop thread.

### TimerQueue

Time is a counter of 100-microsecond ticks, the least interval the code gives to
`timerfd_settime`.  `handleRead` is `HandleRead` (take the time, read the
descriptor, pop what is strictly before now), one `RunCallback` or
`SkipCallback` for each expired timer, and `Reset`.  A callback is user code: it
may add and invalidate timers, and throw, after which `loop()` may be called
again.  Other threads send closures, which run in order.  `fired`, `cancelled`
and `threw` are history variables.

### ConcurrentTaskQueue and TaskQueue

A worker in `queueFunc()` is at `test` (`while (!stop_)`), `lock` (taking
`taskMutex_`), `check` (the size and `stop_`, under the mutex), `wait` (decided,
not yet asleep), `waiting` (asleep on `taskCond_`, the mutex free), `run`,
`promise` (a synchronous task that has run, its promise still to be set) or
`ended`.  `runTaskInQueue` is one step, as all of it happens under the mutex,
`notify_one` included.  `stop()` is `StopSet`, `StopNotify` and `StopReturn`
(the joins), and takes no mutex.  Spurious wake-ups happen (`WakeSpurious`).
`TaskQueue` says what both kinds of queue promise: tasks begin once each, in the
order they were given, at most `Width` at a time, and a synchronous call returns
after its task.  It allows tasks to stay in the queue for ever, since both
classes forget them when they are stopped.

### EventLoopThread

The owner constructs up to `MaxThreads` threads, and walks over them when it
starts, waits for, stops, destroys and joins them.  `run()` sets the promise the
thread waits for, under `call_once`, and waits for the one that the first
function of the loop sets.  Loop threads enter the loop, poll, run functions and
leave; a task of `QuitTasks` quits its own loop; a task may give a task, which
runs at once in the same loop (`runInLoop`).  A `SerialTaskQueue` is a run of the
model with one thread (`serial`), with `stop()` and `waitAllTasksFinished()`.

### TcpConnection

Everything happens in the connection's loop thread, except that other threads
queue functions and that the server's set belongs to the server's loop, which
may be another one (`sameLoop`, chosen in `Init`).  The socket takes any part of
what is written and the peer may close or reset at any moment.  A message has
two bytes.  `writeBufferList_` is kept as the sequence of bytes its nodes have
left, since no handler distinguishes the nodes once they are in the list; only
the node of an asynchronous stream stays until the stream is ended, so the mark
`End` stands behind its bytes.  The channel's `events_` and `index_` are modelled
with `EpollPoller::updateChannel` and `removeChannel`; a failed assertion sets
`aborted` and stops the model.  A file, stream or chunk whose queued function
runs after the close uses the channel again: this sets `stale`, and the model
stops there too (section 5).

### TcpServer

`Init` chooses whether the I/O loops are the server's own loop, loops of the
user, or a pool of the server's own, and whether there is an idle time-out.
Every loop has a queue of functions and runs them in order.  `Accept` is the
acceptor's `readCallback` with `newConnection`; `AcceptFull` the branch for
`EMFILE`, in which another thread of the process may take the descriptor that
`idleFd_` gives up, before the `accept()` or between it and the reopening (one
operation of that thread for each call); `AcceptFails` the branch for other
errors, which does nothing.  `StopHere` and `StopAway` are `stop()` in and outside the
server's loop; after `CloseAll`, `StopJoin` ends the own pool and `StopWheel`
waits for one loop after the other to drop its wheel.  A loop that has ended is
no longer in `live`; a function given to it sets `aborted` to `"dangling"` and the
model stops there.  This happens with the server's own pool only (`PoolUsed`), in
two ways that section 5 describes.

### TcpClient

The state is the connector's (`status_`, `connect_`, `fd_`, `socketHanded_`, the
channel), the client's, and for each socket how often it has been closed.  The
user calls in the loop's thread or in another one (`away`), where calls set flags
at once and queue the rest.  The kernel answers a connection attempt at once or
later, with any of the outcomes `connect()` and the handlers tell apart; a retry
is a timer that fires at any later time.  Objects are reference-counted in the
code; here a destructor runs as soon as nothing refers to its object.

### TimingWheel

`wheels_` holds sets of items; an item stands for a shared pointer to an entry
and carries the path through lower wheels that the nested entries of the code
encode.  A tick is one `Turn` per wheel.  When a turn has destroyed an entry, the
users that the closing calls may use other connections before the next turn.
`due`, `inTick`, `midTick`, `lastUse` and `kept` are history, for the properties.
`Peers` are the connections; they share the wheel and nothing else.

### MsgBuffer

The memory is a function from addresses to bytes, and grows, shrinks and is
compacted as in the code.  `bytes` is what a user expects to find: each operation
is applied to it as an operation on sequences.  A buffer made with less than
`kBufferOffset` bytes can be shrunk below its own `head_` (`broken`), where the
model stops.

## 3. Runs

| run | instance | shows |
|---|---|---|
| `MpscQueue` | 2 producers, 2 items, 4 nodes | refinement of `MpscFifo`, no use after free, no leak, delivery. Four nodes are the dummy, one in each producer's hands and one more, so addresses are reused while every thread is in the middle of an operation |
| `EventLoop` | 2 clients, 2 functions, 2 calls of `loop()`, exceptions, a destructor in another thread | no lost wake-up, order, functions run, `quit` stops, functions on quit run. Two functions show order and overtaking; the second `loop()` shows what the first one left |
| `TimerQueue` | 2 timers, delays 0 and 2, intervals 0 and 1, 3 ticks, callbacks that throw | coverage by `timerfd_`, ids, cancellation, firing, repetition. In three ticks a repeating timer expires twice, while the other one is added, due or invalidated |
| `TcpConnection` | 3 messages, a file, 2 streams, in two threads, 3 calls, server on the same or another loop | per thread nothing is lost or overtaken, callbacks paired, no assertion fails, the close completes |
| `TcpConnectionStream` | a message, a file, 3 chunks of an asynchronous stream | nothing torn, what is watched for is flushed, also behind a stream |
| `ConcurrentTaskQueue` | 3 workers, 3 tasks, one of them synchronous, two that may never end | no lost notification, refinement of `TaskQueue`, `stop()` returns. Three workers allow one that runs, one that sleeps and one in between |
| `EventLoopThread` | 1 or 2 threads, 3 tasks: plain, quitting, synchronous | waiting covers earlier tasks, destructor and `stop()` return, refinement of `TaskQueue` |
| `TimingWheel` | 2 connections; 3 buckets and a time-out of 2 s (one wheel, as `TcpServer::start` makes it for time-outs below 500 s), 2 buckets and 2 s (one wheel that the time-out fills), 3 buckets and 4 s (two wheels), 2 buckets and 5 s (three wheels); half seconds; 9 ticks; 3 calls of the user | entries fall when they are due, connections are kicked off neither early nor late, those kept alive not at all. In 9 ticks the last wheel of two goes round once, and every carry of three wheels with two buckets happens; three buckets are needed to see an item inserted in the middle of a tick overtaken by an earlier one |
| `MsgBuffer` | offset 2, extra buffer 2, initial lengths 1 to 3, chunks of 1 to 4 bytes, at most 4 bytes held | indices in order, contents. All growth, compaction and shrinking branches are taken on both sides of their conditions |
| `TcpClient` | 3 sockets, 2 calls of `connect()` | each socket closed once, no assertion fails, a client that is dropped leaves nothing open |
| `TcpServer` | base loop and 2 I/O loops, of the user or of the server's own pool, 4 connections, 2 descriptors, with an idle time-out and without | no assertion fails, also while `stop()` runs and ends its pool, until it has ended all of it; `stop()` returns, except with an own pool and an idle time-out; it closes everything, except with an own pool; the backlog is served without descriptors |
| `TcpConnectionFlush` | one message | expected violation of `SentIsFlushed`: after a partial write `writeRaw` (`TcpConnectionImpl.cpp:730`) asks for input instead of output, so the rest is never sent |

The passing runs have between 20 000 and 5 million distinct states.

`CHECK_DEADLOCK FALSE` everywhere: a loop that was left, a destroyed queue, a
stopped pool, a clock at its bound and a closed connection may all stop.  Where
everyone could wait for everyone, liveness properties say that the wait ends
(`StopReturns`, `DtorReturns`).

Bounds: `MaxRuns` (calls of `loop()`), `MaxTime`, `MaxTicks` (clocks),
`MaxCalls`, `MaxUses`, `MaxConnects` (calls of the user), `MaxSockets`,
`MaxConns`, `MaxFds`, `MaxThreads`, `MaxGen` (entries of a connection),
`MaxBytes`; each function, task and message is given at most once.  Actions are
short and properties speak of at most two or three functions, timers, messages
or threads at a time, so the instances contain the interleavings that the
properties tell apart.

Fairness is stated with `FairSpec` in each module.

- Weak fairness of the steps of a thread inside a call that does not block
  (`Link`, `Finish`), of loop threads (functions and handlers are assumed to
  return) and of poll reporting a condition that lasts (epoll is used
  level-triggered).
- `EventLoop` assumes nothing of the poll time-out, so a function must not have
  to wait for it; after an exception it may have to, and `FuncsRun` leaves that
  case out.
- `TimerQueue` needs strong fairness of `Tick`: time passes whatever the threads
  do, but the last tick of the bounded clock waits for the loop thread to be idle.
- `ConcurrentTaskQueue` needs strong fairness of a worker's steps, since a worker
  that wants the mutex is blocked again and again and gets it at some time; tasks
  of `LongTasks` need not end.
- `TcpClient` asks nothing of the kernel, the peer or the user: only the loop
  turns and destructors run.  In `TcpConnection` a write handler makes progress
  while the peer keeps its end open; in `TcpServer` all loops turn and `stop()`
  goes on.  When the owner of an `EventLoopThread` stops or destroys it is its
  own choice.
- `TimingWheel` and `MsgBuffer` have safety properties only: that an idle
  connection is kicked off is stated with the clock (`KickedInTime`).

## 4. Proofs

All theorems hold for every value of the constants that satisfies the
`ASSUME`s of the modules: sentinels that are not ordinary values (among them
`Entered`, the function of `loopFuncs()`, which is not a task, and `"end"`, which
is not a message), switches that are Boolean, natural bounds, kinds of messages
that do not overlap, a finite set of workers, wheels of at least two buckets, and
the three facts about powers that `TimingWheel` needs and the provers do not know
(`PowersAssumption`: the 0th, first and second power of the number of buckets).
TLC evaluates these on the runs.

Every proof has the same shape.  An invariant `Inv` holds initially
(`InitInv`), is kept by every step (`NextInv`, from one lemma per action or kind
of step), so `Spec => []Inv` (`InvHolds`), and the properties follow from it.
TLC has checked the invariants before they were proved.

- `MpscQueueProofs`: `NoUseAfterFree` and `NoLeak` alone are not inductive: to
  know that a producer's `prevhead` is live one needs that it is a node of the
  list that is not linked yet, that the nodes of the list are distinct, and that
  the consumer stops at such a node.  `ListInv` says this (ends, distinctness,
  links, who links what, ownership, consumer); `TypeCorrect`, `MemorySafe`,
  `LeakFree` follow.  `QueueImplementsFifo`: the abstract queue is what `chain`
  holds behind the first node, without the node a `dequeue()` is committed to.
  Each step of the code is then a step of `MpscFifo` or a stutter; the empty
  answer of `DequeueFalse` is justified by the links: the first item is one that
  its producer has not linked yet.
- `EventLoopProofs`: the invariant strengthens `NoLostWakeup` with where the loop
  thread is between reading the descriptor and draining the queue, and with the
  flags: `TypeCorrect`, `WakeupSafe`, `FlagsSafe`.  `OrderSafe` (`OrderKept`)
  needs `OrderInv` on top: what has begun, followed by what is queued, is one
  line in which every submission of a thread has a place, and the places of
  earlier ones come first, whatever is thrown.
- `ConcurrentTaskQueueProofs`: the holder of `taskMutex_` is the only worker at
  `check` or `wait`, one at `wait` has seen the queue empty and it stays so until
  it sleeps (`MutexHeld`), and a task is in one place (`OnePlace`): `TypeCorrect`.
  `NoNotifyIsLost` adds a count: while tasks wait and workers sleep, there are
  other workers on the way to the queue.  `PoolImplementsTaskQueue` maps each step
  to a step of `TaskQueue`: `runTaskInQueue` gives, taking a task begins it, its
  end finishes it.
- `EventLoopThreadProofs`: for each loop the tasks given are those that have run,
  the one that runs, and those that wait, in that order (`InOrder`), one runs at a
  time, and a task belongs to one loop (`Apart`).  `SyncCovers` follows, since a
  synchronous task returns when it is done and everything before it is done
  then; so does `LoopsImplementTaskQueue`, in any number of loops at once.  The
  mapping leaves the function of `loopFuncs()` out, which is first in a queue or
  nowhere (`Unborn`).
  About `TimerQueue`: the invariant relates `timers_`, `expired`, the queued
  closures, `timerIdSet_` and `cancelled` (a timer is in at most one place, an
  invalidated one in no set of ids and in no queued addition), and bounds
  `timerfd_` also while callbacks run: `TimerTypes`; `TimersCovered` and
  `IdsSafe` as long as no callback has thrown; `CancelSafe` as an action
  property, whether they throw or not.
- `MsgBufferProofs`: `head_ <= tail_ <= size` and room for `kBufferOffset` bytes,
  the readable bytes are those expected, and a buffer breaks only when it was made
  too small.  That last part (`CapKept`, `OnlySmall`) is what makes `InBounds`
  inductive: shrinking looks at `initCap_`.  `BoundsKept`, `ContentsKept`; the
  lemmas about moving, copying and dropping bytes are stated for any sequences.
- `TcpConnectionProofs`: until the channel is used after the close, the status
  decides what else can be: before the start nothing is queued but the start; a
  connection that is up watches for input, is in the server's set and nobody has
  closed it; one that is down is still to be taken out of the set, or
  `connectDestroyed` may be queued, once (`Life`).  `CallbacksInPairs`,
  `AssertionsHold`.  `WireOrdered` (`WireInOrder`) and `NothingTorn` (`NoTornMessage`)
  rest on a second invariant, `WireInv`.  Its part `OrderOn` says that wire, list
  and queue, in one line, have the bytes of each class in the order of the calls;
  that a message which leaves the queue for its place in the line overtakes nothing
  of its class (`Overtakes`) needs the part `DataOn`: what is written or in the list
  is tidy (second bytes follow first ones, the chunks are together, the mark of the
  stream is single and right behind them), no message of the loop's own thread is
  ever queued, and for the stream (`Stream`) a chunk comes to the loop only between
  its opening and its end, whichever thread has it.  The lemmas before it state for
  any sequences of bytes what inserting, deleting, cutting and moving do to
  `SameOf` and to tidiness; sending, however much the socket takes, is one
  insertion (`SendPlaces`), `writeCallback` deletes at most the mark and moves the
  border between wire and list (`NodesLeft`, `WriteSplits`).
- `TcpClientProofs`: a socket belongs to the connector's channel, to `~Connector`
  or to one connection, and whoever it belongs to finds it open (`Owned`), unless
  the case the properties except has happened (`early`); and while `connect()` is
  called in an orderly way there is one attempt at a time, a retry, a channel or a
  connection (`Tidy`).  `SocketsClosedOnce`, `ClientAssertionsHold`,
  `TypeCorrect`.
- `TcpServerProofs`, first part: the server is `Sound`, whatever its loops are and
  also while `stop()` runs, until `stop()` in the server's loop has ended the whole
  of its own pool and then uses one of its loops (`PoolUsed`: at 177 for a wheel, at
  196 for a connection whose close comes after `stop()`; section 5).  After that
  nothing moves in the model.  A loop ends only in `stop()`, only in an own pool,
  and the loop of the server never does (`Alive`); this shows that what is queued
  while the pool is being joined reaches loops that live.  What
  makes `Sound` inductive is that each queued function says what state its connection
  is in (`Queued`), that the establishment and the erasure of a
  connection are queued once (`Once`), that an open connection is in `connSet_`
  (`Open`), and that a loop in use with an idle time-out has a wheel (`WheelsMade`).
  `ServerTypes`, `ServerSound`, `ServerSafe` (`NoAssertFails`, with `PoolUsed` as
  the only exception).  `stop()` walks over
  a `std::set` of pointers, so `CloseAll` lets the connections come in any order;
  the proofs use only that the order has each of them once.
- `TcpServerProofs`, second part, about `TimingWheel`.  `WheelKeepsAlive`
  (`KeptAlive`) holds for wheels of any number: a connection that is kept alive has
  no time-out left to start again and no item of its present entry in any bucket
  (`Alone`), since the entries of the past have smaller numbers (`Wheeled`).
  `WheelOnTime`, `WheelKicksInTime` and `WheelKicksNotEarly` (`OnTime`,
  `KickedInTime`, `NotKickedEarly`) are proved for one and two wheels, of any number
  of buckets.  This is their only hypothesis (`TwoWheels`: the time-out is at most
  the square of the buckets), and what `TcpServer::start` (123) makes for every
  time-out of at most 10,000 s: one wheel with a bucket to spare below 500 s, and
  two of 100 buckets above.  The case of one wheel that the time-out fills is
  covered too, though the server never makes it.  For one wheel the invariant `One`
  says at which tick each bucket is dropped (`Clocked`, `Placed`); for two, `Two`
  says it of the buckets of wheel 1 and of where the path of an item leads in wheel
  0 (`Fall`), which is due time except for items inserted while wheel 0 had turned
  and wheel 1 had not (`Slack`).  Both relate the items to the connections: an open
  connection whose time-out is on has an item in some bucket that answers for its
  last use, that is, does not fall sooner than `NotKickedEarly` allows, and no item
  was made after the last use of its connection, so that all have fallen when
  `KickedInTime` says (`Guarded`, `Timely`).

Attempts at these proofs corrected two statements.  `NotKickedEarly` excepted an
early close only by the item that falls; with two wheels of three buckets or more a
connection used in the middle of a tick is covered by that item alone, but the
close comes with an earlier one of the same entry, and the run did not have such
wheels.  `midTick` now says which connections this can happen to, and the run
has two wheels with three buckets.  `KickedInTime` holds with a bound one second
tighter than was stated.

`ListInv`, `FlagsClean`, `WireInv`, `Sound`, `One`, `Two` and the type invariants
have no run of their own.

Only model-checked:

- all liveness, which needs fairness and `ENABLED`, beyond this prover;
- `OnTime`, `KickedInTime` and `NotKickedEarly` with three wheels or more (idle
  time-outs above 10,000 s): how many wheels there are is defined by the least power
  that is large enough, and where an entry goes by a recursion over them, so that the
  general case needs an induction over data, which these provers cannot do.

## 5. Known disagreements

Beside the violation run, modelling met the following places where the code does
not do what a comment, a test, an assertion or its name suggests.  The models
have each of these behaviours; where a property has to except one of them, its
comment says so.

Event loop and timers (`net/EventLoop.cpp`, `net/inner/TimerQueue.cpp`):

- `loop()` sets `quit_` to false (175) and so overwrites a `quit()` of the
  destructor, which then spins although the comment at 101 expects the loop to
  end.  `EventLoopThread` is safe from it (`DtorReturns`).
- `invalidateTimer` does nothing when the loop is not running (294), while
  `tests/TimerTest.cpp:12` calls it before `loop()`.
- An id can be erased in the loop thread before the queued closure that adds it
  has run; the timer then fires.
- The destructor in another thread stops waiting while functions on quit are
  still running, and `loop()` leaves functions on quit behind one that is just
  being registered.

Connections (`net/inner/TcpConnectionImpl.cpp`, `net/Channel.cpp`):

- `shutdown()` with data to send executes `closeOnEmpty_ - true` (340), which has
  no effect: the shutdown is forgotten.
- A file or stream that runs after the close enables the channel again and fails
  the assertion of `Channel::remove` (`Channel.cpp:34`).
- A `send` in the loop thread can overtake an earlier one of another thread
  (417, 420); `WireInOrder` is therefore per thread.
- A file is dropped when the socket is full (576), and so is a stream given in
  the loop thread while the list is not empty.

Server (`net/TcpServer.cpp`, `net/inner/Acceptor.cpp`):

- `stop()` outside the server's loop waits for a promise that nothing sets (170).
- `stop()` in the server's loop ends the pool that `setIoLoopNum()` has made (172)
  and uses its loops afterwards.  With an idle time-out it hands
  the reset of the first wheel to such a loop (177), even when there is no connection,
  and waits at 181 for an answer that nobody gives: it does not return.  Without
  one, it returns, and a connection whose close reaches the server's loop only
  then is handed to a loop that has ended (196); functions that were still queued
  to the pool are lost with it.  `NoAssertFails`, `StopReturns` and `StopCloses`
  except these cases, each in its comment.
- The function that `connectionClosed` queues holds a plain `this`; a server
  that is destroyed before leaves it dangling.
- Between closing and reopening `idleFd_` (`Acceptor.cpp:92-95`) another thread
  can take the descriptor; the spare is then lost.

Client (`net/TcpClient.cpp`, `net/inner/Connector.cpp`):

- A second `connect()` without `stop()` fails the assertion in `startInLoop`
  (`Connector.cpp:63`); `stop()` and a new start leave the old socket open.
- `restart()` is empty, so `enableRetry()` does not reconnect a connection that
  ended; it only repeats failed attempts.
- A refusal at once, without retry, gives no error callback and keeps the socket
  until the connector is destroyed.
- `stop()` in another thread, followed by `handleWrite`, leaves the socket open.
- A retry scheduled by `connect()` itself closes the socket, which the destructor
  closes again.
- `start()` queues a function with a plain `this`.

Utilities (`utils/`):

- `ConcurrentTaskQueue::stop()` sets `stop_` and notifies without the mutex (83):
  a worker between its test and its wait misses it, and the join never returns.
- `TimingWheel`: an entry inserted while a tick is under way, and one whose delay
  is more than all wheels hold, come early: with two wheels by up to a turn of wheel
  0, 100 seconds in a server.
- `MsgBuffer::peekInt16()` (106) has no return statement: the value of
  `readInt16()` is undefined.  No value that is read is in the model.
- `MsgBuffer` made with less than `kBufferOffset` bytes: `retrieveAll()` (137) can
  shrink the memory to below `head_`.

## 6. Not modelled, and the plan

Not modelled: weak memory beyond sequential consistency; TLS (no backend);
Windows branches; logging; `Socket`, `InetAddress` and `Utilities` (wrappers of
system calls and stateless helpers); the high water mark and the data received by
a connection; files that cannot be opened or read; several channels in one poller
and its growing event list; `moveToCurrentThread` and `resetAfterFork`, which
only change the owner; the destructor of `TimerQueue`; a function that queues
itself without end; what follows in `TcpConnection` once a closed connection's
channel has been used again; memory orders and byte order of integers.

Smaller simplifications, also noted at the definitions:

- `EventLoop`: what is thrown is a `std::exception`, the only type `loop()` catches
  (202); anything else would leave `loop()` at once.
- `TcpClient`: `handleWrite` is one step, so a `stop()` of another thread does not
  come in its middle (`Connector.cpp:171-220`); the client's destructor does not
  run in the loop thread by a last `weak_ptr::lock()`; `connect()` after `stop()`
  comes only once the old connection has gone.
- `TcpConnection`: a stream opened by another thread has no chunk before its node
  is in the list, so the sending at once in the queued function
  (`TcpConnectionImpl.cpp:929-934`) is not reached.
- `TimingWheel`: users run after a whole bucket has been dropped, not between two
  destructors of one bucket (`TimingWheel.cpp:49-55`).
- `EventLoopThread`: `quit()` through the pointer of `getLoop()` is one step; the
  pointer is not used after the thread has ended.
- `TcpServer`: the other thread of the process does one operation while
  `readCallback` turns a peer away.

Every safety invariant and every safety action property of the passing runs is
stated by a theorem, the three of `TimingWheel` for up to two wheels.  What the
plan has left is what section 4 lists as only model-checked, and the parts named
above; of these, several channels in one poller and the destructor of `TimerQueue`
are the ones where an interleaving could matter.
