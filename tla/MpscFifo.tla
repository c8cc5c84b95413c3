------------------------------ MODULE MpscFifo ------------------------------
(***************************************************************************)
(* What the multi-producer single-consumer queue of                        *)
(* utils/LockFreeQueue.h promises to its users (EventLoop::funcs_ and      *)
(* EventLoop::funcsOnQuit_): one FIFO order of all items, fixed when an    *)
(* enqueue claims its place, in which an item whose enqueue() has not yet  *)
(* returned hides itself and everything behind it.  dequeue() may say      *)
(* "nothing there" only when the queue is empty or its first item is still *)
(* hidden; it never skips, repeats or reorders an item.                    *)
(***************************************************************************)
EXTENDS Naturals, Sequences

CONSTANTS Producers,    \* threads that call enqueue()
          Items,        \* what they enqueue
          NoItem,       \* the answer of a dequeue() that returned false
          NoOne         \* the publisher of an item that is visible

VARIABLES queue,        \* the items not yet taken, in FIFO order
          taken         \* the answer of the latest dequeue()

vars == <<queue, taken>>

Entry == [item : Items, publisher : Producers \cup {NoOne}]

TypeOK == /\ queue \in Seq(Entry)
          /\ taken \in Items \cup {NoItem}

Init == /\ queue = <<>>
        /\ taken = NoItem

(* enqueue() claims the last place; the item is still hidden. *)
Claim(p, v) ==
  /\ \A i \in DOMAIN queue : queue[i].publisher # p
  /\ queue' = Append(queue, [item |-> v, publisher |-> p])
  /\ UNCHANGED taken

(* The item of p becomes visible; enqueue() returns. *)
Publish(p) ==
  \E i \in DOMAIN queue :
     /\ queue[i].publisher = p
     /\ queue' = [queue EXCEPT ![i].publisher = NoOne]
     /\ UNCHANGED taken

FirstVisible == queue # <<>> /\ queue[1].publisher = NoOne

Take ==
  /\ FirstVisible
  /\ taken' = queue[1].item
  /\ queue' = Tail(queue)

TakeNothing ==
  /\ ~FirstVisible
  /\ taken' = NoItem
  /\ UNCHANGED queue

Next ==
  \/ \E p \in Producers : (\E v \in Items : Claim(p, v)) \/ Publish(p)
  \/ Take
  \/ TakeNothing

Spec == Init /\ [][Next]_vars
=============================================================================
