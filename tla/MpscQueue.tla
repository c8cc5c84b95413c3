----------------------------- MODULE MpscQueue ------------------------------
(***************************************************************************)
(* utils/LockFreeQueue.h: the lock-free multi-producer single-consumer     *)
(* queue behind EventLoop::queueInLoop() and EventLoop::runOnQuit().       *)
(*                                                                         *)
(* The queue is a linked list of heap nodes.  tail_ is the consumer's end: *)
(* it points at a dummy node, the first item is in the node after it.      *)
(* head_ is the producers' end: a producer exchanges head_ with its new    *)
(* node and only then links the former head to it, so the list is broken   *)
(* between the two steps.  Nodes are ids that are used again once they     *)
(* have been deleted, as the allocator does with addresses, so that an     *)
(* access to a deleted node shows.                                         *)
(*                                                                         *)
(* The code's acquire/release operations are modelled as sequentially      *)
(* consistent: every cross-thread value here travels through one release   *)
(* store (or exchange) that is read by one acquire load (or exchange).     *)
(***************************************************************************)
EXTENDS Naturals, Sequences

CONSTANTS Producers, Items, NoItem, NoOne,  \* as in MpscFifo
          Nodes,                            \* addresses of BufferNodes
          nullptr

ASSUME NullAssumption == nullptr \notin Nodes
ASSUME NoItemAssumption == NoItem \notin Items
ASSUME NodesAssumption == Nodes # {}
ASSUME NoOneAssumption == NoOne \notin Producers

VARIABLES
  head_, tail_,   \* the two atomics of MpscQueue
  next_,          \* BufferNode::next_ of every node
  dataPtr_,       \* BufferNode::dataPtr_: the item, NoItem when none is owned
  live,           \* nodes that are allocated
  node, prevhead, \* locals of enqueue(), one pair for each producer
  cpc, next,      \* where the consumer is in dequeue(), and its local next
  oldTail,        \* dequeue()'s local tail, between the store and the delete
  output,         \* the answer of the latest dequeue()
  phase,          \* "open", then the destructor: "draining", "destroyed"
  chain           \* history: the dummy, then the nodes in exchange order

vars == <<head_, tail_, next_, dataPtr_, live, node, prevhead, cpc, next,
          oldTail, output, phase, chain>>

Node == Nodes \cup {nullptr}

(* Types: pointers are node addresses or nullptr, a node's data and the    *)
(* answer of dequeue() are items.                                           *)
TypeOK ==
  /\ head_ \in Node
  /\ tail_ \in Node
  /\ next_ \in [Nodes -> Node]
  /\ dataPtr_ \in [Nodes -> Items \cup {NoItem}]
  /\ live \subseteq Nodes
  /\ node \in [Producers -> Node]
  /\ prevhead \in [Producers -> Node]
  /\ cpc \in {"idle", "take", "delete"}
  /\ next \in Node
  /\ oldTail \in Node
  /\ output \in Items \cup {NoItem}
  /\ phase \in {"open", "draining", "destroyed"}
  /\ chain \in Seq(Nodes)

-----------------------------------------------------------------------------
(* MpscQueue(): both ends at a fresh dummy node. *)
Init ==
  \E dummy \in Nodes :
    /\ head_ = dummy
    /\ tail_ = dummy
    /\ next_ = [n \in Nodes |-> nullptr]
    /\ dataPtr_ = [n \in Nodes |-> NoItem]
    /\ live = {dummy}
    /\ node = [p \in Producers |-> nullptr]
    /\ prevhead = [p \in Producers |-> nullptr]
    /\ cpc = "idle"
    /\ next = nullptr
    /\ oldTail = nullptr
    /\ output = NoItem
    /\ phase = "open"
    /\ chain = <<dummy>>

(* empty(), and the test dequeue() begins with. *)
empty == next_[tail_] = nullptr

(* enqueue(), up to the exchange: new BufferNode(input), whose next_ is    *)
(* nullptr, becomes head_.                                                 *)
Exchange(p, v) ==
  /\ phase = "open"
  /\ node[p] = nullptr
  /\ \E n \in Nodes \ live :
       /\ live' = live \cup {n}
       /\ next_' = [next_ EXCEPT ![n] = nullptr]
       /\ dataPtr_' = [dataPtr_ EXCEPT ![n] = v]
       /\ node' = [node EXCEPT ![p] = n]
       /\ prevhead' = [prevhead EXCEPT ![p] = head_]
       /\ head_' = n
       /\ chain' = Append(chain, n)
  /\ UNCHANGED <<tail_, cpc, next, oldTail, output, phase>>

(* enqueue(), the rest: prevhead->next_.store(node); the producer returns. *)
Link(p) ==
  /\ node[p] # nullptr
  /\ next_' = [next_ EXCEPT ![prevhead[p]] = node[p]]
  /\ node' = [node EXCEPT ![p] = nullptr]
  /\ prevhead' = [prevhead EXCEPT ![p] = nullptr]
  /\ UNCHANGED <<head_, tail_, dataPtr_, live, cpc, next, oldTail, output,
                 phase, chain>>

(* Mutant of DequeueFalse: gives up while any enqueue() is in progress. *)
DequeueFalseBusy ==
  /\ phase = "open" /\ cpc = "idle"
  /\ empty \/ \E p \in Producers : node[p] # nullptr
  /\ output' = NoItem
  /\ UNCHANGED <<head_, tail_, next_, dataPtr_, live, node, prevhead, cpc,
                 next, oldTail, phase, chain>>

(* dequeue() finds tail->next_ null and returns false. *)
DequeueFalse ==
  /\ phase = "open"
  /\ cpc = "idle"
  /\ empty
  /\ output' = NoItem
  /\ UNCHANGED <<head_, tail_, next_, dataPtr_, live, node, prevhead, cpc,
                 next, oldTail, phase, chain>>

(* Mutant of DequeueLoad: the list is taken for empty at its last node. *)
DequeueLoadNotLast ==
  /\ phase # "destroyed" /\ cpc = "idle"
  /\ ~empty /\ next_[tail_] # head_
  /\ next' = next_[tail_]
  /\ cpc' = "take"
  /\ UNCHANGED <<head_, tail_, next_, dataPtr_, live, node, prevhead,
                 oldTail, output, phase, chain>>

(* dequeue() loads a successor of the dummy. *)
DequeueLoad ==
  /\ phase # "destroyed"
  /\ cpc = "idle"
  /\ ~empty
  /\ next' = next_[tail_]
  /\ cpc' = "take"
  /\ UNCHANGED <<head_, tail_, next_, dataPtr_, live, node, prevhead,
                 oldTail, output, phase, chain>>

(* dequeue() moves the item out, deletes dataPtr_ and stores tail_.        *)
DequeueTake ==
  /\ cpc = "take"
  /\ output' = dataPtr_[next]
  /\ dataPtr_' = [dataPtr_ EXCEPT ![next] = NoItem]
  /\ oldTail' = tail_
  /\ tail_' = next
  /\ chain' = Tail(chain)
  /\ cpc' = "delete"
  /\ UNCHANGED <<head_, next_, live, node, prevhead, next, phase>>

(* Mutants of DequeueDelete: the new dummy is deleted; nothing is. *)
DequeueDeleteNew ==
  /\ cpc = "delete"
  /\ live' = live \ {tail_}
  /\ oldTail' = nullptr /\ next' = nullptr /\ cpc' = "idle"
  /\ UNCHANGED <<head_, tail_, next_, dataPtr_, node, prevhead, output,
                 phase, chain>>

DequeueDeleteNot ==
  /\ cpc = "delete"
  /\ oldTail' = nullptr /\ next' = nullptr /\ cpc' = "idle"
  /\ UNCHANGED <<head_, tail_, next_, dataPtr_, live, node, prevhead, output,
                 phase, chain>>

(* dequeue() deletes the former dummy and returns true. *)
DequeueDelete ==
  /\ cpc = "delete"
  /\ live' = live \ {oldTail}
  /\ oldTail' = nullptr
  /\ next' = nullptr
  /\ cpc' = "idle"
  /\ UNCHANGED <<head_, tail_, next_, dataPtr_, node, prevhead, output,
                 phase, chain>>

(* ~MpscQueue() begins.  Its owner lets no call overlap the destructor.    *)
Destroy ==
  /\ phase = "open"
  /\ cpc = "idle"
  /\ \A p \in Producers : node[p] = nullptr
  /\ phase' = "draining"
  /\ UNCHANGED <<head_, tail_, next_, dataPtr_, live, node, prevhead, cpc,
                 next, oldTail, output, chain>>

(* ~MpscQueue() has drained the list by dequeue(): delete head_.           *)
DestroyFront ==
  /\ phase = "draining"
  /\ cpc = "idle"
  /\ empty
  /\ live' = live \ {head_}
  /\ output' = NoItem
  /\ phase' = "destroyed"
  /\ chain' = <<>>
  /\ UNCHANGED <<head_, tail_, next_, dataPtr_, node, prevhead, cpc, next,
                 oldTail>>

Dequeue == DequeueFalse \/ DequeueLoad \/ DequeueTake \/ DequeueDelete

Next ==
  \/ \E p \in Producers : (\E v \in Items : Exchange(p, v)) \/ Link(p)
  \/ Dequeue
  \/ Destroy
  \/ DestroyFront

Spec == Init /\ [][Next]_vars

(* enqueue() has no loop, so a producer that exchanged head_ goes on to    *)
(* link; the consumer (the loop, or the destructor) calls dequeue() again  *)
(* and again.                                                              *)
Fairness ==
  /\ \A p \in Producers : WF_vars(Link(p))
  /\ WF_vars(DequeueLoad) /\ WF_vars(DequeueTake) /\ WF_vars(DequeueDelete)

FairSpec == Spec /\ Fairness

-----------------------------------------------------------------------------
(* The abstract queue: the nodes behind the dummy, without the one a       *)
(* dequeue() is committed to.  A node is hidden while its producer still   *)
(* has to link it.                                                         *)
Pending ==
  SubSeq(chain, IF cpc = "take" THEN 3 ELSE 2, Len(chain))

PublisherOf(n) ==
  IF \E p \in Producers : node[p] = n
  THEN CHOOSE p \in Producers : node[p] = n
  ELSE NoOne

Fifo == INSTANCE MpscFifo WITH
  queue <- [i \in DOMAIN Pending |-> [item |-> dataPtr_[Pending[i]],
                                      publisher |-> PublisherOf(Pending[i])]],
  taken <- IF cpc = "take" THEN dataPtr_[next] ELSE output

(* Refinement of the promised FIFO: enqueue() and dequeue() of             *)
(* LockFreeQueue.h, interleaved at every atomic access, never lose, repeat *)
(* or reorder an item, and dequeue() answers false only while the first    *)
(* item is between its exchange and its link.                              *)
ImplementsFifo == Fifo!Spec

(* No access to a deleted node: every pointer that some thread still       *)
(* dereferences is live.  The consumer deletes the old dummy without any   *)
(* synchronisation with the producer whose prevhead it was.                *)
NoUseAfterFree ==
  /\ phase # "destroyed" => {head_, tail_} \subseteq live
  /\ \A p \in Producers :
        node[p] # nullptr => {node[p], prevhead[p]} \subseteq live
  /\ cpc = "take" => next \in live /\ dataPtr_[next] # NoItem
  /\ cpc = "delete" => oldTail \in live

(* Every node and every item is given back exactly once: what is allocated *)
(* is in the list (or is the dummy about to be deleted), only nodes behind *)
(* the dummy own an item, and the destructor leaves nothing.               *)
NoLeak ==
  /\ live = {chain[i] : i \in DOMAIN chain}
              \cup (IF cpc = "delete" THEN {oldTail} ELSE {})
  /\ \A n \in Nodes :
        (n \in live /\ dataPtr_[n] # NoItem)
          <=> \E i \in 2..Len(chain) : chain[i] = n
  /\ phase = "destroyed" => live = {} /\ \A n \in Nodes : dataPtr_[n] = NoItem

(* The shape of the list that makes the three properties above hold, an    *)
(* inductive invariant: the nodes between tail_ and head_ are distinct,    *)
(* every node but the last is linked to its successor or is the prevhead   *)
(* of the one producer that still has to link them, and nobody else holds  *)
(* a node of the list.                                                     *)
Ends ==
  /\ phase # "destroyed" => /\ Len(chain) > 0
                            /\ tail_ = chain[1]
                            /\ head_ = chain[Len(chain)]
  /\ phase = "destroyed" => chain = <<>> /\ cpc = "idle"
  /\ phase # "open" => \A p \in Producers : node[p] = nullptr

Distinct ==
  \A i, j \in 1..Len(chain) : chain[i] = chain[j] => i = j

Linked ==
  \A i \in 1..Len(chain) :
    \/ next_[chain[i]] = nullptr
    \/ i < Len(chain) /\ next_[chain[i]] = chain[i + 1]

Linking ==
  /\ \A i \in 1..Len(chain) - 1 :
        next_[chain[i]] = nullptr =>
          \E p \in Producers : prevhead[p] = chain[i] /\ node[p] = chain[i + 1]
  /\ \A p \in Producers : node[p] # nullptr =>
        \E i \in 1..Len(chain) - 1 : /\ prevhead[p] = chain[i]
                                     /\ node[p] = chain[i + 1]
                                     /\ next_[chain[i]] = nullptr
  /\ \A p, q \in Producers : node[p] = node[q] /\ node[p] # nullptr => p = q

Owned ==
  /\ \A n \in Nodes : n \in live <=> \/ \E i \in 1..Len(chain) : chain[i] = n
                                     \/ cpc = "delete" /\ n = oldTail
  /\ \A n \in Nodes :
        dataPtr_[n] # NoItem <=> \E i \in 2..Len(chain) : chain[i] = n

Consumer ==
  /\ cpc = "take" => /\ Len(chain) > 1
                     /\ next = chain[2]
                     /\ next_[chain[1]] = chain[2]
  /\ cpc = "delete" => /\ oldTail \in Nodes
                       /\ \A i \in 1..Len(chain) : chain[i] # oldTail

ListInv == Ends /\ Distinct /\ Linked /\ Linking /\ Owned /\ Consumer

(* Delivery: a node that entered the list becomes the dummy, that is its   *)
(* item is handed out (or dropped by the destructor's drain).              *)
Delivered ==
  \A n \in Nodes :
    (\E i \in 2..Len(chain) : chain[i] = n) ~> (tail_ = n)
=============================================================================
