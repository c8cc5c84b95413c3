-------------------------- MODULE MpscQueueProofs ---------------------------
(***************************************************************************)
(* Proofs about MpscQueue, for any number of producers, nodes and items.   *)
(***************************************************************************)
EXTENDS MpscQueue, TLAPS

(* The elements of a sequence after an Append, as Exchange uses it. *)
LEMMA AppendFacts ==
  ASSUME NEW S, NEW s \in Seq(S), NEW x \in S
  PROVE  /\ Append(s, x) \in Seq(S)
         /\ Len(Append(s, x)) = Len(s) + 1
         /\ Len(s) \in Nat
         /\ \A i \in 1..Len(s) : Append(s, x)[i] = s[i] /\ s[i] \in S
         /\ Append(s, x)[Len(s) + 1] = x
OBVIOUS

(* The elements of a sequence after a Tail, as DequeueTake uses it. *)
LEMMA TailFacts ==
  ASSUME NEW S, NEW s \in Seq(S), Len(s) > 0
  PROVE  /\ Tail(s) \in Seq(S)
         /\ Len(Tail(s)) = Len(s) - 1
         /\ Len(s) \in Nat
         /\ \A i \in 1..Len(s) : s[i] \in S
         /\ \A i \in 1..Len(s) - 1 : Tail(s)[i] = s[i + 1]
OBVIOUS

(* What ListInv and TypeOK say together: they are inductive only jointly,  *)
(* because the type of next_[tail_] rests on tail_ being a node.           *)
Inv == TypeOK /\ ListInv

LEMMA InitInv == Init => Inv
  <1> SUFFICES ASSUME Init PROVE Inv
    OBVIOUS
  <1> USE NullAssumption, NoItemAssumption
  <1>1. PICK dummy \in Nodes : Init!(dummy)
    BY DEF Init
  <1>2. chain \in Seq(Nodes) /\ Len(chain) = 1 /\ chain[1] = dummy
    BY <1>1
  <1>3. TypeOK
    BY <1>1, <1>2 DEF TypeOK, Node
  <1>4. ListInv
    BY <1>1, <1>2 DEF ListInv, Ends, Distinct, Linked, Linking, Owned, Consumer
  <1> QED
    BY <1>3, <1>4 DEF Inv

LEMMA ExchangeInv ==
  ASSUME Inv, NEW p \in Producers, NEW v \in Items, Exchange(p, v)
  PROVE  Inv'
  <1> USE NullAssumption, NoItemAssumption
  <1> USE DEF Inv
  <1>1. PICK n \in Nodes \ live :
               /\ live' = live \cup {n}
               /\ next_' = [next_ EXCEPT ![n] = nullptr]
               /\ dataPtr_' = [dataPtr_ EXCEPT ![n] = v]
               /\ node' = [node EXCEPT ![p] = n]
               /\ prevhead' = [prevhead EXCEPT ![p] = head_]
               /\ head_' = n
               /\ chain' = Append(chain, n)
    BY DEF Exchange
  <1>2. /\ phase = "open" /\ node[p] = nullptr
        /\ UNCHANGED <<tail_, cpc, next, oldTail, output, phase>>
    BY DEF Exchange
  <1> DEFINE L == Len(chain)
  <1>3. /\ L \in Nat /\ L > 0
        /\ chain' \in Seq(Nodes)
        /\ Len(chain') = L + 1
        /\ \A i \in 1..L : chain'[i] = chain[i] /\ chain[i] \in Nodes
        /\ chain'[L + 1] = n
    BY <1>1, <1>2, AppendFacts DEF TypeOK, ListInv, Ends
  <1>4. \A i \in 1..L : chain[i] # n
    BY <1>1, <1>3 DEF ListInv, Owned
  <1>5. head_ = chain[L] /\ tail_ = chain[1]
    BY <1>2 DEF ListInv, Ends
  <1> HIDE DEF L
  <1>6. TypeOK'
    BY <1>1, <1>2, <1>3 DEF TypeOK, Node
  <1>7. Ends'
    BY <1>1, <1>2, <1>3, <1>5 DEF ListInv, Ends
  <1>8. Distinct'
    <2> SUFFICES ASSUME NEW i \in 1..(L + 1), NEW j \in 1..(L + 1),
                        chain'[i] = chain'[j]
                 PROVE  i = j
      BY <1>3 DEF Distinct
    <2>1. CASE i \in 1..L /\ j \in 1..L
      BY <2>1, <1>3 DEF ListInv, Distinct, L
    <2>2. CASE i = L + 1 \/ j = L + 1
      BY <2>2, <1>3, <1>4
    <2> QED
      BY <2>1, <2>2, <1>3
  <1>9. Linked'
    <2> SUFFICES ASSUME NEW i \in 1..(L + 1)
                 PROVE  \/ next_'[chain'[i]] = nullptr
                        \/ i < L + 1 /\ next_'[chain'[i]] = chain'[i + 1]
      BY <1>3 DEF Linked
    <2>1. CASE i \in 1..L
      <3>1. next_'[chain'[i]] = next_[chain[i]]
        BY <2>1, <1>1, <1>3, <1>4 DEF TypeOK
      <3>2. \/ next_[chain[i]] = nullptr
            \/ i < L /\ next_[chain[i]] = chain[i + 1]
        BY <2>1 DEF ListInv, Linked, L
      <3> QED
        BY <3>1, <3>2, <2>1, <1>3
    <2>2. CASE i = L + 1
      BY <2>2, <1>1, <1>3 DEF TypeOK
    <2> QED
      BY <2>1, <2>2, <1>3
  <1>10. Linking'
    <2>1. ASSUME NEW i \in 1..L, next_'[chain'[i]] = nullptr
          PROVE  \E q \in Producers : /\ prevhead'[q] = chain'[i]
                                      /\ node'[q] = chain'[i + 1]
      <3>1. CASE i = L
        BY <3>1, <1>1, <1>3, <1>5 DEF TypeOK
      <3>2. CASE i \in 1..L - 1
        <4>1. next_[chain[i]] = nullptr
          BY <2>1, <1>1, <1>3, <1>4 DEF TypeOK
        <4>2. PICK q \in Producers : prevhead[q] = chain[i] /\ node[q] = chain[i + 1]
          BY <3>2, <4>1 DEF ListInv, Linking, L
        <4>3. q # p
          BY <4>2, <1>2, <1>3, <3>2
        <4>4. prevhead'[q] = prevhead[q] /\ node'[q] = node[q]
          BY <4>3, <1>1 DEF TypeOK
        <4>5. i + 1 \in 1..L
          BY <3>2, <1>3
        <4> QED
          BY <4>2, <4>4, <4>5, <1>3
      <3> QED
        BY <3>1, <3>2, <1>3
    <2>2. ASSUME NEW q \in Producers, node'[q] # nullptr
          PROVE  \E i \in 1..L : /\ prevhead'[q] = chain'[i]
                                 /\ node'[q] = chain'[i + 1]
                                 /\ next_'[chain'[i]] = nullptr
      <3>1. CASE q = p
        <4>1. next_[chain[L]] = nullptr
          BY <1>3 DEF ListInv, Linked, L
        <4>2. /\ prevhead'[p] = chain'[L] /\ node'[p] = chain'[L + 1]
              /\ next_'[chain'[L]] = nullptr
          BY <4>1, <1>1, <1>3, <1>4, <1>5 DEF TypeOK
        <4> QED
          BY <4>2, <3>1, <1>3
      <3>2. CASE q # p
        <4>1. prevhead'[q] = prevhead[q] /\ node'[q] = node[q]
          BY <3>2, <1>1 DEF TypeOK
        <4>2. PICK i \in 1..L - 1 : /\ prevhead[q] = chain[i]
                                    /\ node[q] = chain[i + 1]
                                    /\ next_[chain[i]] = nullptr
          BY <2>2, <4>1 DEF ListInv, Linking, L
        <4>3. i \in 1..L /\ i + 1 \in 1..L
          BY <1>3
        <4>4. next_'[chain'[i]] = nullptr
          BY <4>2, <4>3, <1>1, <1>3, <1>4 DEF TypeOK
        <4> QED
          BY <4>1, <4>2, <4>3, <4>4, <1>3
      <3> QED
        BY <3>1, <3>2
    <2>3. ASSUME NEW q \in Producers, NEW r \in Producers,
                 node'[q] = node'[r], node'[q] # nullptr
          PROVE  q = r
      <3>1. \A s \in Producers : s # p => node'[s] = node[s]
        BY <1>1 DEF TypeOK
      <3>2. \A s \in Producers : node[s] # n
        BY <1>1, <1>3, <1>4 DEF ListInv, Linking, L
      <3>3. node'[p] = n
        BY <1>1 DEF TypeOK
      <3> QED
        BY <2>3, <3>1, <3>2, <3>3 DEF ListInv, Linking
    <2> QED
      BY <2>1, <2>2, <2>3, <1>3 DEF Linking
  <1>11. Owned'
    <2>1. ASSUME NEW m \in Nodes
          PROVE  m \in live' <=> \/ \E i \in 1..(L + 1) : chain'[i] = m
                                 \/ cpc' = "delete" /\ m = oldTail'
      BY <1>1, <1>2, <1>3 DEF ListInv, Owned, L
    <2>2. ASSUME NEW m \in Nodes
          PROVE  dataPtr_'[m] # NoItem <=> \E i \in 2..(L + 1) : chain'[i] = m
      <3>1. CASE m = n
        BY <3>1, <1>1, <1>3 DEF TypeOK
      <3>2. CASE m # n
        <4>1. dataPtr_'[m] = dataPtr_[m]
          BY <3>2, <1>1 DEF TypeOK
        <4>2. dataPtr_[m] # NoItem <=> \E i \in 2..L : chain[i] = m
          BY DEF ListInv, Owned, L
        <4> QED
          BY <3>2, <4>1, <4>2, <1>3
      <3> QED
        BY <3>1, <3>2
    <2> QED
      BY <2>1, <2>2, <1>3 DEF Owned
  <1>12. Consumer'
    <2>1. ASSUME cpc = "take"
          PROVE  L + 1 > 1 /\ next = chain'[2] /\ next_'[chain'[1]] = chain'[2]
      BY <2>1, <1>1, <1>3, <1>4 DEF ListInv, Consumer, TypeOK, L
    <2>2. ASSUME cpc = "delete"
          PROVE  oldTail \in Nodes /\ \A i \in 1..(L + 1) : chain'[i] # oldTail
      <3>1. oldTail \in live
        BY <2>2 DEF ListInv, Owned, Consumer
      <3> QED
        BY <2>2, <3>1, <1>1, <1>3 DEF ListInv, Consumer, L
    <2> QED
      BY <2>1, <2>2, <1>2, <1>3 DEF Consumer
  <1> QED
    BY <1>6, <1>7, <1>8, <1>9, <1>10, <1>11, <1>12 DEF ListInv

(* The link of p is the only one missing at its place, so storing it       *)
(* leaves every other place as it was.                                     *)
LEMMA LinkInv ==
  ASSUME Inv, NEW p \in Producers, Link(p)
  PROVE  Inv'
  <1> USE NullAssumption, NoItemAssumption
  <1> USE DEF Inv
  <1> DEFINE L == Len(chain)
  <1>1. /\ L \in Nat
        /\ \A i \in 1..L : chain[i] \in Nodes
    BY DEF TypeOK
  <1>2. PICK k \in 1..L - 1 : /\ prevhead[p] = chain[k]
                              /\ node[p] = chain[k + 1]
                              /\ next_[chain[k]] = nullptr
    BY DEF Link, ListInv, Linking
  <1>3. k \in 1..L /\ k + 1 \in 1..L
    BY <1>1
  <1>4. /\ next_' = [next_ EXCEPT ![chain[k]] = chain[k + 1]]
        /\ node' = [node EXCEPT ![p] = nullptr]
        /\ prevhead' = [prevhead EXCEPT ![p] = nullptr]
        /\ UNCHANGED <<head_, tail_, dataPtr_, live, cpc, next, oldTail,
                       output, phase, chain>>
    BY <1>2 DEF Link
  <1>5. \A i \in 1..L : i # k => chain[i] # chain[k]
    BY <1>3 DEF ListInv, Distinct
  <1>6. \A i \in 1..L : i # k => next_'[chain[i]] = next_[chain[i]]
    BY <1>1, <1>3, <1>4, <1>5 DEF TypeOK
  <1>7. next_'[chain[k]] = chain[k + 1] /\ next_'[chain[k]] # nullptr
    BY <1>1, <1>3, <1>4 DEF TypeOK
  <1>8. \A q \in Producers : q # p => node'[q] = node[q] /\ prevhead'[q] = prevhead[q]
    BY <1>4 DEF TypeOK
  <1>9. node'[p] = nullptr
    BY <1>4 DEF TypeOK
  <1> HIDE DEF L
  <1>10. TypeOK'
    BY <1>1, <1>3, <1>4 DEF TypeOK, Node
  <1>11. Ends'
    BY <1>4, <1>8, <1>9 DEF ListInv, Ends
  <1>12. Distinct' /\ Owned'
    BY <1>4 DEF ListInv, Distinct, Owned
  <1>13. Linked'
    BY <1>1, <1>3, <1>4, <1>6, <1>7 DEF ListInv, Linked, L
  <1>14. Linking'
    <2>1. ASSUME NEW i \in 1..L - 1, next_'[chain[i]] = nullptr
          PROVE  \E q \in Producers : /\ prevhead'[q] = chain[i]
                                      /\ node'[q] = chain[i + 1]
      <3>1. i # k /\ i \in 1..L /\ i + 1 \in 1..L
        BY <2>1, <1>1, <1>7
      <3>2. next_[chain[i]] = nullptr
        BY <2>1, <3>1, <1>6
      <3>3. PICK q \in Producers : prevhead[q] = chain[i] /\ node[q] = chain[i + 1]
        BY <3>2 DEF ListInv, Linking, L
      <3>4. q # p
        BY <3>1, <3>3, <1>2, <1>5
      <3> QED
        BY <3>3, <3>4, <1>8
    <2>2. ASSUME NEW q \in Producers, node'[q] # nullptr
          PROVE  \E i \in 1..L - 1 : /\ prevhead'[q] = chain[i]
                                     /\ node'[q] = chain[i + 1]
                                     /\ next_'[chain[i]] = nullptr
      <3>1. q # p
        BY <2>2, <1>9
      <3>2. PICK i \in 1..L - 1 : /\ prevhead[q] = chain[i]
                                  /\ node[q] = chain[i + 1]
                                  /\ next_[chain[i]] = nullptr
        BY <2>2, <3>1, <1>8 DEF ListInv, Linking, L
      <3>3. i # k
        BY <3>1, <3>2, <1>1, <1>2, <1>3 DEF ListInv, Linking
      <3> QED
        BY <3>1, <3>2, <3>3, <1>1, <1>6, <1>8
    <2>3. ASSUME NEW q \in Producers, NEW r \in Producers,
                 node'[q] = node'[r], node'[q] # nullptr
          PROVE  q = r
      BY <2>3, <1>8, <1>9 DEF ListInv, Linking
    <2> QED
      BY <2>1, <2>2, <2>3, <1>4 DEF Linking, L
  <1>15. Consumer'
    BY <1>1, <1>3, <1>4, <1>6, <1>7 DEF ListInv, Consumer, L
  <1> QED
    BY <1>10, <1>11, <1>12, <1>13, <1>14, <1>15 DEF ListInv

LEMMA DequeueFalseInv ==
  ASSUME Inv, DequeueFalse
  PROVE  Inv'
  BY NoItemAssumption DEF DequeueFalse, Inv, TypeOK, ListInv, Ends, Distinct,
        Linked, Linking, Owned, Consumer

LEMMA DequeueLoadInv ==
  ASSUME Inv, DequeueLoad
  PROVE  Inv'
  <1> USE NullAssumption
  <1> USE DEF Inv
  <1>1. Len(chain) \in Nat /\ Len(chain) > 0 /\ tail_ = chain[1]
    BY DEF DequeueLoad, ListInv, Ends, TypeOK
  <1>2. chain[1] \in Nodes
    BY <1>1 DEF TypeOK
  <1>3. /\ next_[chain[1]] # nullptr
        /\ next' = next_[chain[1]]
        /\ cpc = "idle" /\ cpc' = "take" /\ phase # "destroyed"
        /\ UNCHANGED <<head_, tail_, next_, dataPtr_, live, node, prevhead,
                       oldTail, output, phase, chain>>
    BY <1>1 DEF DequeueLoad, empty
  <1>4. 1 < Len(chain) /\ next_[chain[1]] = chain[2]
    BY <1>1, <1>3 DEF ListInv, Linked
  <1>5. TypeOK'
    BY <1>2, <1>3 DEF TypeOK
  <1>6. Ends' /\ Distinct' /\ Linked' /\ Linking' /\ Owned'
    BY <1>3 DEF ListInv, Ends, Distinct, Linked, Linking, Owned
  <1>7. Consumer'
    BY <1>3, <1>4 DEF Consumer
  <1> QED
    BY <1>5, <1>6, <1>7 DEF ListInv

(* The old dummy leaves the list here.  No producer can still hold it as   *)
(* its prevhead: its next_ is not null any more.                           *)
LEMMA DequeueTakeInv ==
  ASSUME Inv, DequeueTake
  PROVE  Inv'
  <1> USE NullAssumption, NoItemAssumption
  <1> USE DEF Inv
  <1> DEFINE L == Len(chain)
  <1>1. /\ cpc = "take" /\ L > 1
        /\ next = chain[2] /\ next_[chain[1]] = chain[2]
        /\ phase # "destroyed"
        /\ tail_ = chain[1] /\ head_ = chain[L]
    BY DEF DequeueTake, ListInv, Consumer, Ends
  <1>2. /\ L \in Nat
        /\ chain' = Tail(chain)
        /\ chain' \in Seq(Nodes)
        /\ Len(chain') = L - 1
        /\ \A i \in 1..L : chain[i] \in Nodes
        /\ \A i \in 1..L - 1 : chain'[i] = chain[i + 1]
    BY <1>1, TailFacts DEF DequeueTake, TypeOK
  <1>3. /\ output' = dataPtr_[chain[2]]
        /\ dataPtr_' = [dataPtr_ EXCEPT ![chain[2]] = NoItem]
        /\ oldTail' = chain[1] /\ tail_' = chain[2] /\ cpc' = "delete"
        /\ UNCHANGED <<head_, next_, live, node, prevhead, next, phase>>
    BY <1>1 DEF DequeueTake
  <1>4. \A i \in 1..L : \A j \in 1..L : chain[i] = chain[j] => i = j
    BY DEF ListInv, Distinct
  <1>5. \A i \in 1..L - 1 : i + 1 \in 1..L
    BY <1>2
  <1>6. chain[1] \in Nodes /\ chain[2] \in Nodes
    BY <1>1, <1>2
  <1>7. \A i \in 2..L : i - 1 \in 1..L - 1 /\ chain'[i - 1] = chain[i]
    BY <1>2
  <1>8. TypeOK'
    BY <1>2, <1>3, <1>6 DEF TypeOK, Node
  <1> HIDE DEF L
  <1>9. Ends'
    BY <1>1, <1>2, <1>3 DEF ListInv, Ends
  <1>10. Distinct'
    BY <1>2, <1>4, <1>5 DEF Distinct
  <1>11. Linked'
    <2> SUFFICES ASSUME NEW i \in 1..L - 1
                 PROVE  \/ next_[chain'[i]] = nullptr
                        \/ i < L - 1 /\ next_[chain'[i]] = chain'[i + 1]
      BY <1>2, <1>3 DEF Linked
    <2>1. i + 1 \in 1..L /\ chain'[i] = chain[i + 1]
      BY <1>2
    <2>2. \/ next_[chain[i + 1]] = nullptr
          \/ i + 1 < L /\ next_[chain[i + 1]] = chain[i + 1 + 1]
      BY <2>1 DEF ListInv, Linked, L
    <2>3. ASSUME i + 1 < L
          PROVE  i < L - 1 /\ chain'[i + 1] = chain[i + 1 + 1]
      BY <2>3, <1>2
    <2> QED
      BY <2>1, <2>2, <2>3
  <1>12. Linking'
    <2>1. ASSUME NEW i \in 1..L - 1 - 1, next_[chain'[i]] = nullptr
          PROVE  \E q \in Producers : /\ prevhead[q] = chain'[i]
                                      /\ node[q] = chain'[i + 1]
      <3>1. i + 1 \in 1..L - 1 /\ chain'[i] = chain[i + 1]
        BY <1>2
      <3>2. chain'[i + 1] = chain[i + 1 + 1]
        BY <3>1, <1>2
      <3>3. \E q \in Producers : /\ prevhead[q] = chain[i + 1]
                                 /\ node[q] = chain[i + 1 + 1]
        BY <2>1, <3>1 DEF ListInv, Linking, L
      <3> QED
        BY <3>1, <3>2, <3>3
    <2>2. ASSUME NEW q \in Producers, node[q] # nullptr
          PROVE  \E i \in 1..L - 1 - 1 : /\ prevhead[q] = chain'[i]
                                         /\ node[q] = chain'[i + 1]
                                         /\ next_[chain'[i]] = nullptr
      <3>1. PICK j \in 1..L - 1 : /\ prevhead[q] = chain[j]
                                  /\ node[q] = chain[j + 1]
                                  /\ next_[chain[j]] = nullptr
        BY <2>2 DEF ListInv, Linking, L
      <3>2. j # 1
        BY <3>1, <1>1, <1>6
      <3>3. j - 1 \in 1..L - 1 - 1 /\ (j - 1) + 1 = j
        BY <3>2, <1>2
      <3>4. chain'[j - 1] = chain[j] /\ chain'[j] = chain[j + 1]
        BY <3>2, <3>3, <1>2
      <3> QED
        BY <3>1, <3>3, <3>4
    <2>3. \A q, r \in Producers : node[q] = node[r] /\ node[q] # nullptr => q = r
      BY DEF ListInv, Linking
    <2> QED
      BY <2>1, <2>2, <2>3, <1>2, <1>3 DEF Linking
  <1>13. Owned'
    <2>1. ASSUME NEW n \in Nodes
          PROVE  n \in live <=> \/ \E i \in 1..L - 1 : chain'[i] = n
                                \/ n = chain[1]
      <3>1. n \in live <=> \E i \in 1..L : chain[i] = n
        BY <1>1 DEF ListInv, Owned, L
      <3> QED
        BY <3>1, <1>1, <1>2, <1>5, <1>7
    <2>2. ASSUME NEW n \in Nodes
          PROVE  dataPtr_'[n] # NoItem <=> \E i \in 2..L - 1 : chain'[i] = n
      <3>1. dataPtr_[n] # NoItem <=> \E i \in 2..L : chain[i] = n
        BY DEF ListInv, Owned, L
      <3>2. CASE n = chain[2]
        BY <3>2, <1>1, <1>2, <1>3, <1>4, <1>6 DEF TypeOK
      <3>3. CASE n # chain[2]
        <4>1. dataPtr_'[n] = dataPtr_[n]
          BY <3>3, <1>3 DEF TypeOK
        <4>2. ASSUME NEW i \in 2..L, chain[i] = n
              PROVE  i - 1 \in 2..L - 1 /\ chain'[i - 1] = n
          BY <3>3, <4>2, <1>2
        <4>3. ASSUME NEW i \in 2..L - 1, chain'[i] = n
              PROVE  i + 1 \in 2..L /\ chain[i + 1] = n
          BY <4>3, <1>2
        <4> QED
          BY <3>1, <4>1, <4>2, <4>3
      <3> QED
        BY <3>2, <3>3
    <2> QED
      BY <2>1, <2>2, <1>2, <1>3 DEF Owned
  <1>14. Consumer'
    BY <1>1, <1>2, <1>3, <1>4, <1>5, <1>6 DEF Consumer
  <1> QED
    BY <1>8, <1>9, <1>10, <1>11, <1>12, <1>13, <1>14 DEF ListInv

LEMMA DequeueDeleteInv ==
  ASSUME Inv, DequeueDelete
  PROVE  Inv'
  <1> USE NullAssumption, NoItemAssumption
  <1> USE DEF Inv
  <1>1. TypeOK'
    BY DEF DequeueDelete, TypeOK, Node
  <1>2. Ends' /\ Distinct' /\ Linked' /\ Linking'
    BY DEF DequeueDelete, ListInv, Ends, Distinct, Linked, Linking
  <1>3. Owned' /\ Consumer'
    BY DEF DequeueDelete, ListInv, Owned, Consumer
  <1> QED
    BY <1>1, <1>2, <1>3 DEF ListInv

LEMMA DestroyInv ==
  ASSUME Inv, Destroy
  PROVE  Inv'
  BY DEF Destroy, Inv, TypeOK, ListInv, Ends, Distinct, Linked, Linking,
         Owned, Consumer

(* When the drain ends no producer is left, so a null next_ of the dummy   *)
(* means that the dummy is the only node.                                  *)
LEMMA DestroyFrontInv ==
  ASSUME Inv, DestroyFront
  PROVE  Inv'
  <1> USE NullAssumption, NoItemAssumption
  <1> USE DEF Inv
  <1>1. /\ Len(chain) \in Nat /\ Len(chain) > 0
        /\ tail_ = chain[1] /\ head_ = chain[Len(chain)]
        /\ next_[chain[1]] = nullptr
        /\ \A p \in Producers : node[p] = nullptr
        /\ \A i \in 1..Len(chain) : chain[i] \in Nodes
    BY DEF DestroyFront, ListInv, Ends, TypeOK, empty
  <1>2. Len(chain) = 1
    <2>1. ASSUME Len(chain) > 1
          PROVE  FALSE
      <3>1. 1 \in 1..Len(chain) - 1 /\ 2 \in 1..Len(chain)
        BY <2>1, <1>1
      <3>2. \E p \in Producers : node[p] = chain[1 + 1]
        BY <3>1, <1>1 DEF ListInv, Linking
      <3> QED
        BY <3>1, <3>2, <1>1
    <2> DEFINE L == Len(chain)
    <2>2. L \in Nat /\ L > 0 /\ ~(L > 1)
      BY <2>1, <1>1
    <2> HIDE DEF L
    <2>3. L = 1
      BY <2>2
    <2> QED
      BY <2>3 DEF L
  <1>3. /\ live' = live \ {chain[1]} /\ chain' = <<>> /\ phase' = "destroyed"
        /\ cpc = "idle" /\ cpc' = "idle"
        /\ UNCHANGED <<head_, tail_, next_, dataPtr_, node, prevhead, next,
                       oldTail>>
    BY <1>1, <1>2 DEF DestroyFront
  <1>4. chain' \in Seq(Nodes) /\ Len(chain') = 0
    BY <1>3
  <1>5. TypeOK'
    BY <1>3, <1>4 DEF DestroyFront, TypeOK
  <1>6. Ends' /\ Distinct' /\ Linked' /\ Linking'
    BY <1>1, <1>3, <1>4 DEF Ends, Distinct, Linked, Linking
  <1>7. Owned' /\ Consumer'
    BY <1>1, <1>2, <1>3, <1>4 DEF ListInv, Owned, Consumer
  <1> QED
    BY <1>5, <1>6, <1>7 DEF ListInv

LEMMA NextInv ==
  ASSUME Inv, [Next]_vars
  PROVE  Inv'
  <1>1. CASE \E p \in Producers : \E v \in Items : Exchange(p, v)
    BY <1>1, ExchangeInv
  <1>2. CASE \E p \in Producers : Link(p)
    BY <1>2, LinkInv
  <1>3. CASE Dequeue
    BY <1>3, DequeueFalseInv, DequeueLoadInv, DequeueTakeInv, DequeueDeleteInv
       DEF Dequeue
  <1>4. CASE Destroy
    BY <1>4, DestroyInv
  <1>5. CASE DestroyFront
    BY <1>5, DestroyFrontInv
  <1>6. CASE UNCHANGED vars
    BY <1>6 DEF vars, Inv, TypeOK, ListInv, Ends, Distinct, Linked, Linking,
                Owned, Consumer
  <1> QED
    BY <1>1, <1>2, <1>3, <1>4, <1>5, <1>6 DEF Next

(* The list keeps its shape and every variable its type, whatever the      *)
(* number of threads in enqueue() and wherever each of them stands.        *)
THEOREM InvHolds == Spec => []Inv
  <1> QED
    BY InitInv, NextInv, PTL DEF Spec

(* Type correctness of MpscQueue. *)
THEOREM TypeCorrect == Spec => []TypeOK
  <1>1. Inv => TypeOK
    BY DEF Inv
  <1> QED
    BY InvHolds, <1>1, PTL

(* dequeue() deletes a node only when no producer will link through it,    *)
(* and no thread ever dereferences a deleted node.                         *)
THEOREM MemorySafe == Spec => []NoUseAfterFree
  <1>1. Inv => NoUseAfterFree
    <2> SUFFICES ASSUME Inv PROVE NoUseAfterFree
      OBVIOUS
    <2> USE NullAssumption DEF Inv
    <2>1. Len(chain) \in Nat /\ \A i \in 1..Len(chain) : chain[i] \in Nodes
      BY DEF TypeOK
    <2>2. \A i \in 1..Len(chain) : chain[i] \in live
      BY <2>1 DEF ListInv, Owned
    <2>3. phase # "destroyed" => {head_, tail_} \subseteq live
      BY <2>1, <2>2 DEF ListInv, Ends
    <2>4. ASSUME NEW p \in Producers, node[p] # nullptr
          PROVE  {node[p], prevhead[p]} \subseteq live
      <3>1. PICK i \in 1..Len(chain) - 1 :
                   prevhead[p] = chain[i] /\ node[p] = chain[i + 1]
        BY <2>4 DEF ListInv, Linking
      <3>2. i \in 1..Len(chain) /\ i + 1 \in 1..Len(chain)
        BY <2>1
      <3> QED
        BY <3>1, <3>2, <2>2
    <2>5. cpc = "take" => next \in live /\ dataPtr_[next] # NoItem
      BY <2>1, <2>2 DEF ListInv, Consumer, Owned
    <2>6. cpc = "delete" => oldTail \in live
      BY DEF ListInv, Consumer, Owned
    <2> QED
      BY <2>3, <2>4, <2>5, <2>6 DEF NoUseAfterFree
  <1> QED
    BY InvHolds, <1>1, PTL

(* Every node and item is given back, by dequeue() or by the destructor.   *)
THEOREM LeakFree == Spec => []NoLeak
  <1>1. Inv => NoLeak
    <2> SUFFICES ASSUME Inv PROVE NoLeak
      OBVIOUS
    <2> USE DEF Inv
    <2>1. Len(chain) \in Nat /\ DOMAIN chain = 1..Len(chain)
      BY DEF TypeOK
    <2>2. \A i \in 1..Len(chain) : chain[i] \in Nodes
      BY DEF TypeOK
    <2>3. live = {chain[i] : i \in DOMAIN chain}
                   \cup (IF cpc = "delete" THEN {oldTail} ELSE {})
      <3>1. \A n : n \in live <=>
               \/ \E i \in 1..Len(chain) : chain[i] = n
               \/ cpc = "delete" /\ n = oldTail
        BY <2>1, <2>2 DEF TypeOK, ListInv, Owned, Consumer
      <3> QED
        BY <3>1, <2>1
    <2>4. \A n \in Nodes : (n \in live /\ dataPtr_[n] # NoItem)
                             <=> \E i \in 2..Len(chain) : chain[i] = n
      BY <2>1 DEF ListInv, Owned
    <2>5. phase = "destroyed" =>
             live = {} /\ \A n \in Nodes : dataPtr_[n] = NoItem
      <3>1. phase = "destroyed" => Len(chain) = 0 /\ cpc = "idle"
        BY DEF ListInv, Ends
      <3> QED
        BY <3>1 DEF TypeOK, ListInv, Owned
    <2> QED
      BY <2>3, <2>4, <2>5 DEF NoLeak
  <1> QED
    BY InvHolds, <1>1, PTL

-----------------------------------------------------------------------------
(* The queue implements MpscFifo *)

(* Two sequences of one length are equal when their elements are. *)
LEMMA SeqEq ==
  ASSUME NEW S, NEW s \in Seq(S), NEW t \in Seq(S), Len(s) = Len(t),
         \A i \in 1..Len(s) : s[i] = t[i]
  PROVE  s = t
OBVIOUS

LEMMA SeqOfFunction ==
  ASSUME NEW S, NEW n \in Nat, NEW f \in [1..n -> S]
  PROVE  f \in Seq(S) /\ Len(f) = n
OBVIOUS

(* The abstract queue, by the places of chain: its first item is in node   *)
(* chain[First], and it has Waiting items.                                 *)
First == IF cpc = "take" THEN 3 ELSE 2
Waiting == IF chain = <<>> THEN 0 ELSE 1 + Len(chain) - First
AbsEntry(n) == [item |-> dataPtr_[n], publisher |-> PublisherOf(n)]
AbsQueue == [i \in 1..Waiting |-> AbsEntry(chain[i + First - 1])]
AbsTaken == IF cpc = "take" THEN dataPtr_[next] ELSE output
AnyEntry == [item : Items \cup {NoItem}, publisher : Producers \cup {NoOne}]

Mapped ==
  [i \in DOMAIN Pending |-> [item |-> dataPtr_[Pending[i]],
                             publisher |-> PublisherOf(Pending[i])]] = AbsQueue

LEMMA AbsQueueMapped == Inv => Mapped
  <1> SUFFICES ASSUME Inv PROVE Mapped
    OBVIOUS
  <1> DEFINE P == SubSeq(chain, First, Len(chain))
  <1>1. Len(chain) \in Nat /\ First \in {2, 3} /\ (chain = <<>> <=> Len(chain) = 0)
    BY DEF Inv, TypeOK, First
  <1>2. DOMAIN P = 1..(1 + Len(chain) - First) /\ \A i \in DOMAIN P : P[i] = chain[i + First - 1]
    BY <1>1
  <1>3. 1..(1 + Len(chain) - First) = 1..Waiting
    BY <1>1 DEF Waiting
  <1>4. Pending = P
    BY DEF Pending, First
  <1> QED
    BY <1>2, <1>3, <1>4 DEF Mapped, AbsQueue, AbsEntry

(* A node is published by the producer that holds it, if there is one. *)
PublisherOK ==
  \A n \in Nodes :
    /\ PublisherOf(n) \in Producers \cup {NoOne}
    /\ \A p \in Producers : PublisherOf(n) = p <=> node[p] = n
    /\ PublisherOf(n) = NoOne <=> \A p \in Producers : node[p] # n

LEMMA PublisherFacts == Inv => PublisherOK
  <1> SUFFICES ASSUME Inv, NEW n \in Nodes
               PROVE  /\ PublisherOf(n) \in Producers \cup {NoOne}
                      /\ \A p \in Producers : PublisherOf(n) = p <=> node[p] = n
                      /\ PublisherOf(n) = NoOne <=> \A p \in Producers : node[p] # n
    BY DEF PublisherOK
  <1> USE NullAssumption, NoOneAssumption
  <1>1. CASE \E p \in Producers : node[p] = n
    <2>1. PublisherOf(n) \in Producers /\ node[PublisherOf(n)] = n
      BY <1>1 DEF PublisherOf
    <2>2. \A p \in Producers : node[p] = n => p = PublisherOf(n)
      BY <2>1 DEF Inv, ListInv, Linking
    <2> QED
      BY <2>1, <2>2
  <1>2. CASE ~ \E p \in Producers : node[p] = n
    BY <1>2 DEF PublisherOf
  <1> QED
    BY <1>1, <1>2

(* The length and the places of the abstract queue. *)
AbsQueueOK ==
  /\ First \in {2, 3} /\ Len(chain) \in Nat /\ Waiting \in Nat
  /\ phase # "destroyed" => Waiting = 1 + Len(chain) - First
  /\ \A i \in 1..Len(chain) : chain[i] \in Nodes
  /\ \A i \in 1..Waiting : i + First - 1 \in 1..Len(chain)
  /\ AbsQueue \in Seq(AnyEntry)
  /\ Len(AbsQueue) = Waiting
  /\ DOMAIN AbsQueue = 1..Waiting
  /\ \A i \in 1..Waiting : AbsQueue[i] = AbsEntry(chain[i + First - 1])

LEMMA AbsQueueFacts == Inv => AbsQueueOK
  <1> SUFFICES ASSUME Inv PROVE AbsQueueOK
    OBVIOUS
  <1> USE DEF Inv
  <1>1. /\ First \in {2, 3} /\ Len(chain) \in Nat
        /\ \A i \in 1..Len(chain) : chain[i] \in Nodes
        /\ chain = <<>> <=> Len(chain) = 0
    BY DEF TypeOK, First
  <1>2. phase # "destroyed" => Len(chain) > 0
    BY DEF ListInv, Ends
  <1>3. First = 3 => Len(chain) > 1
    BY DEF ListInv, Consumer, First
  <1>4. Waiting \in Nat /\ (phase # "destroyed" => Waiting = 1 + Len(chain) - First)
    BY <1>1, <1>2, <1>3 DEF Waiting
  <1>5. \A i \in 1..Waiting : i + First - 1 \in 1..Len(chain)
    BY <1>1, <1>3 DEF Waiting
  <1>6. \A n \in Nodes : AbsEntry(n) \in AnyEntry
    BY PublisherFacts DEF PublisherOK, AbsEntry, AnyEntry, TypeOK
  <1>7. AbsQueue \in [1..Waiting -> AnyEntry]
    BY <1>1, <1>5, <1>6 DEF AbsQueue
  <1>8. AbsQueue \in Seq(AnyEntry) /\ Len(AbsQueue) = Waiting
    BY <1>4, <1>7, SeqOfFunction
  <1> QED
    BY <1>1, <1>4, <1>5, <1>8 DEF AbsQueueOK, AbsQueue

(* A node keeps its entry when its item and its producer stay. *)
LEMMA AbsEntryKept ==
  ASSUME Inv, Inv', NEW n \in Nodes, dataPtr_'[n] = dataPtr_[n],
         \A p \in Producers : node'[p] = n <=> node[p] = n
  PROVE  AbsEntry(n)' = AbsEntry(n)
  <1>1. PublisherOK /\ PublisherOK'
    BY PublisherFacts, PTL
  <1> QED
    BY <1>1 DEF PublisherOK, AbsEntry

LEMMA ExchangeRefines ==
  ASSUME Inv, Inv', NEW p \in Producers, NEW v \in Items, Exchange(p, v)
  PROVE  /\ AbsQueue' = Append(AbsQueue, [item |-> v, publisher |-> p])
         /\ AbsTaken' = AbsTaken
         /\ \A i \in 1..Waiting : AbsQueue[i].publisher # p
  <1> USE NullAssumption
  <1> DEFINE L == Len(chain)
  <1>1. PICK n \in Nodes \ live :
               /\ dataPtr_' = [dataPtr_ EXCEPT ![n] = v]
               /\ node' = [node EXCEPT ![p] = n]
               /\ chain' = Append(chain, n)
    BY DEF Exchange
  <1>2. /\ phase = "open" /\ node[p] = nullptr
        /\ UNCHANGED <<tail_, cpc, next, oldTail, output, phase>>
    BY DEF Exchange
  <1>3. AbsQueueOK /\ AbsQueueOK' /\ PublisherOK /\ PublisherOK'
    BY AbsQueueFacts, PublisherFacts, PTL
  <1>4. /\ L \in Nat /\ Len(chain') = L + 1
        /\ \A i \in 1..L : chain'[i] = chain[i] /\ chain[i] \in Nodes
        /\ chain'[L + 1] = n
    BY <1>1, AppendFacts DEF Inv, TypeOK
  <1>5. \A i \in 1..L : chain[i] # n
    BY <1>1, <1>4 DEF Inv, ListInv, Owned
  <1>6. dataPtr_'[n] = v /\ \A i \in 1..L : dataPtr_'[chain[i]] = dataPtr_[chain[i]]
    BY <1>1, <1>4, <1>5 DEF Inv, TypeOK
  <1>7. node'[p] = n /\ \A q \in Producers : q # p => node'[q] = node[q]
    BY <1>1 DEF Inv, TypeOK
  <1>8. \A i \in 1..L : AbsEntry(chain[i])' = AbsEntry(chain[i])
    <2> SUFFICES ASSUME NEW i \in 1..L
                 PROVE  AbsEntry(chain[i])' = AbsEntry(chain[i])
      OBVIOUS
    <2> PICK m \in Nodes : m = chain[i]
      BY <1>4
    <2>1. chain'[i] = m
      BY <1>4
    <2>2. \A q \in Producers : node'[q] = m <=> node[q] = m
      BY <1>2, <1>5, <1>7
    <2>3. AbsEntry(m)' = AbsEntry(m)
      BY <2>2, <1>6, AbsEntryKept
    <2> QED
      BY <2>1, <2>3 DEF AbsEntry
  <1> HIDE DEF L
  <1>9. First' = First /\ Waiting' = Waiting + 1 /\ Waiting + First = L + 1
    BY <1>2, <1>3, <1>4 DEF AbsQueueOK, First, L
  <1>10. \A i \in 1..Waiting : AbsQueue'[i] = AbsQueue[i]
    <2> SUFFICES ASSUME NEW i \in 1..Waiting
                 PROVE  AbsQueue'[i] = AbsQueue[i]
      OBVIOUS
    <2> PICK j \in 1..L : j = i + First - 1
      BY <1>3 DEF AbsQueueOK, L
    <2>1. AbsQueue[i] = AbsEntry(chain[j]) /\ Waiting \in Nat /\ i \in 1..(Waiting + 1)
      BY <1>3 DEF AbsQueueOK
    <2>2. AbsQueue'[i] = AbsEntry(chain[j])'
      BY <1>3, <1>9, <2>1 DEF AbsQueueOK
    <2> QED
      BY <2>1, <2>2, <1>8
  <1>11. AbsQueue'[Waiting + 1] = [item |-> v, publisher |-> p]
    <2>1. PICK k \in 1..L + 1 : k = L + 1 /\ k = (Waiting + 1) + First - 1
      BY <1>3, <1>4, <1>9 DEF AbsQueueOK
    <2>2. AbsQueue'[Waiting + 1] = AbsEntry(chain[k])'
      BY <1>3, <1>9, <2>1 DEF AbsQueueOK
    <2>3. PublisherOf(n)' = p
      BY <1>3, <1>7 DEF PublisherOK
    <2>4. chain'[k] = n
      BY <1>4, <2>1
    <2>5. PublisherOf(chain[k])' = p
      BY <2>3, <2>4
    <2> QED
      BY <2>2, <2>4, <2>5, <1>6 DEF AbsEntry
  <1>12. AbsQueue' = Append(AbsQueue, [item |-> v, publisher |-> p])
    <2>1. [item |-> v, publisher |-> p] \in AnyEntry
      BY DEF AnyEntry
    <2> QED
      BY <2>1, <1>3, <1>9, <1>10, <1>11, AppendFacts, SeqEq DEF AbsQueueOK
  <1>13. AbsTaken' = AbsTaken
    BY <1>2, <1>4, <1>5, <1>6 DEF AbsTaken, Inv, ListInv, Consumer, L
  <1>14. \A i \in 1..Waiting : AbsQueue[i].publisher # p
    <2> SUFFICES ASSUME NEW i \in 1..Waiting
                 PROVE  AbsQueue[i].publisher # p
      OBVIOUS
    <2> PICK m \in Nodes : m = chain[i + First - 1]
      BY <1>3 DEF AbsQueueOK
    <2>1. AbsQueue[i] = AbsEntry(m)
      BY <1>3 DEF AbsQueueOK
    <2>2. PublisherOf(m) # p
      BY <1>2, <1>3 DEF PublisherOK
    <2> QED
      BY <2>1, <2>2 DEF AbsEntry
  <1> QED
    BY <1>12, <1>13, <1>14

LEMMA LinkRefines ==
  ASSUME Inv, Inv', NEW p \in Producers, Link(p)
  PROVE  /\ \E i \in 1..Waiting : /\ AbsQueue[i].publisher = p
                                  /\ AbsQueue' = [AbsQueue EXCEPT ![i].publisher = NoOne]
         /\ AbsTaken' = AbsTaken
  <1> USE NullAssumption, NoOneAssumption
  <1> DEFINE L == Len(chain)
  <1>1. AbsQueueOK /\ AbsQueueOK' /\ PublisherOK /\ PublisherOK'
    BY AbsQueueFacts, PublisherFacts, PTL
  <1>2. PICK k \in 1..L - 1 : node[p] = chain[k + 1] /\ next_[chain[k]] = nullptr
    BY DEF Link, Inv, ListInv, Linking
  <1>3. /\ node' = [node EXCEPT ![p] = nullptr] /\ node[p] # nullptr
        /\ UNCHANGED <<dataPtr_, cpc, next, output, phase, chain>>
    BY DEF Link
  <1>4. L \in Nat /\ \A i \in 1..L : chain[i] \in Nodes
    BY <1>1 DEF AbsQueueOK
  <1>5. phase # "destroyed"
    BY <1>3 DEF Inv, ListInv, Ends
  <1>6. k + 1 >= First
    BY <1>2, <1>4 DEF First, Inv, ListInv, Consumer
  <1>7. First' = First /\ Waiting' = Waiting /\ First \in {2, 3} /\ Waiting = 1 + L - First
    BY <1>1, <1>3, <1>5 DEF First, Waiting, AbsQueueOK
  <1>8. PICK j \in 1..Waiting : j + First - 1 = k + 1
    <2>1. 1 + L - First \in Nat /\ (k + 2) - First \in 1..(1 + L - First)
      BY <1>4, <1>6, <1>7
    <2>2. ((k + 2) - First) + First - 1 = k + 1
      BY <1>4, <1>7
    <2> QED
      BY <2>1, <2>2, <1>7
  <1> PICK m \in Nodes : m = chain[k + 1]
    BY <1>4
  <1>9. AbsQueue[j] = AbsEntry(m) /\ AbsQueue'[j] = AbsEntry(m)'
    <2>1. AbsQueue[j] = AbsEntry(chain[k + 1])
      BY <1>1, <1>8 DEF AbsQueueOK
    <2>2. AbsQueue'[j] = AbsEntry(chain[k + 1])'
      BY <1>1, <1>7, <1>8 DEF AbsQueueOK
    <2>3. chain'[k + 1] = m
      BY <1>3
    <2> QED
      BY <2>1, <2>2, <2>3
  <1>10. PublisherOf(m) = p
    BY <1>1, <1>2 DEF PublisherOK
  <1>11. node'[p] = nullptr /\ \A q \in Producers : q # p => node'[q] = node[q]
    BY <1>3 DEF Inv, TypeOK
  <1>12. PublisherOf(m)' = NoOne
    <2>1. \A q \in Producers : node'[q] # m
      BY <1>2, <1>3, <1>11 DEF Inv, ListInv, Linking
    <2> QED
      BY <2>1, <1>1 DEF PublisherOK
  <1>13. \A i \in 1..Waiting : i # j => AbsQueue'[i] = AbsQueue[i]
    <2> SUFFICES ASSUME NEW i \in 1..Waiting, i # j
                 PROVE  AbsQueue'[i] = AbsQueue[i]
      OBVIOUS
    <2>1. PICK h \in 1..L : h = i + First - 1
      BY <1>1 DEF AbsQueueOK
    <2>2. h # k + 1 /\ k + 1 \in 1..L
      BY <2>1, <1>1, <1>4, <1>7, <1>8 DEF AbsQueueOK
    <2> PICK x \in Nodes : x = chain[h]
      BY <1>4
    <2>3. x # m
      BY <2>2 DEF Inv, ListInv, Distinct
    <2>4. AbsEntry(x)' = AbsEntry(x)
      <3>1. \A q \in Producers : node'[q] = x <=> node[q] = x
        BY <2>3, <1>2, <1>11
      <3> QED
        BY <3>1, <1>3, AbsEntryKept
    <2>5. AbsQueue[i] = AbsEntry(chain[h]) /\ AbsQueue'[i] = AbsEntry(chain[h])'
      BY <2>1, <1>1, <1>7 DEF AbsQueueOK
    <2>6. chain'[h] = x
      BY <1>3
    <2> QED
      BY <2>4, <2>5, <2>6
  <1>14. /\ AbsQueue[j].publisher = p
         /\ AbsQueue'[j] = [AbsQueue[j] EXCEPT !.publisher = NoOne]
    BY <1>3, <1>9, <1>10, <1>12 DEF AbsEntry
  <1>15. AbsQueue' = [AbsQueue EXCEPT ![j].publisher = NoOne]
    BY <1>1, <1>7, <1>13, <1>14 DEF AbsQueueOK, AbsQueue
  <1>16. AbsTaken' = AbsTaken
    BY <1>3 DEF AbsTaken
  <1> QED
    BY <1>14, <1>15, <1>16

(* The first item is visible exactly when tail_->next_ is set. *)
LEMMA VisibleWhenLinked ==
  ASSUME Inv, phase # "destroyed", cpc = "idle"
  PROVE  empty <=> ~(AbsQueue # <<>> /\ AbsQueue[1].publisher = NoOne)
  <1> USE NullAssumption, NoOneAssumption
  <1> DEFINE L == Len(chain)
  <1>1. AbsQueueOK /\ PublisherOK
    BY AbsQueueFacts, PublisherFacts
  <1>2. First = 2 /\ Waiting = L - 1 /\ L \in Nat \ {0} /\ tail_ = chain[1]
        /\ \A i \in 1..L : chain[i] \in Nodes
    BY <1>1 DEF First, AbsQueueOK, Inv, ListInv, Ends
  <1>3. AbsQueue # <<>> <=> L > 1
    BY <1>1, <1>2 DEF AbsQueueOK
  <1>4. CASE L > 1
    <2>1. 1 \in 1..L - 1 /\ 2 \in 1..L /\ 1 \in 1..L
      BY <1>2, <1>4
    <2>2. AbsQueue[1] = AbsEntry(chain[2])
      BY <1>1, <1>2, <2>1 DEF AbsQueueOK
    <2>3. AbsQueue[1].publisher = NoOne <=> \A p \in Producers : node[p] # chain[2]
      BY <1>1, <1>2, <2>1, <2>2 DEF AbsEntry, PublisherOK
    <2>4. next_[chain[1]] = nullptr => \E p \in Producers : node[p] = chain[1 + 1]
      BY <2>1 DEF Inv, ListInv, Linking
    <2>5. ASSUME NEW p \in Producers, node[p] = chain[2]
          PROVE  next_[chain[1]] = nullptr
      <3>1. PICK i \in 1..L - 1 : node[p] = chain[i + 1] /\ next_[chain[i]] = nullptr
        BY <2>1, <2>5, <1>2 DEF Inv, ListInv, Linking
      <3>2. i + 1 \in 1..L /\ chain[i + 1] = chain[2]
        BY <3>1, <2>5, <1>2
      <3>3. i = 1
        BY <3>2, <2>1 DEF Inv, ListInv, Distinct
      <3> QED
        BY <3>1, <3>3
    <2> QED
      BY <1>2, <1>3, <1>4, <2>3, <2>4, <2>5 DEF empty
  <1>5. CASE ~(L > 1)
    <2>1. L = 1
      BY <1>2, <1>5
    <2>2. next_[chain[1]] = nullptr
      BY <2>1 DEF Inv, ListInv, Linked
    <2> QED
      BY <1>2, <1>3, <1>5, <2>2 DEF empty
  <1> QED
    BY <1>4, <1>5

LEMMA LoadRefines ==
  ASSUME Inv, Inv', DequeueLoad
  PROVE  /\ AbsQueue # <<>> /\ AbsQueue[1].publisher = NoOne
         /\ AbsTaken' = AbsQueue[1].item
         /\ AbsQueue' = Tail(AbsQueue)
  <1> DEFINE L == Len(chain)
  <1>1. AbsQueueOK /\ AbsQueueOK'
    BY AbsQueueFacts, PTL
  <1>2. AbsQueue # <<>> /\ AbsQueue[1].publisher = NoOne
    BY VisibleWhenLinked DEF DequeueLoad
  <1>3. /\ cpc = "idle" /\ cpc' = "take" /\ phase # "destroyed"
        /\ UNCHANGED <<dataPtr_, node, phase, chain>>
    BY DEF DequeueLoad
  <1>4. next' = chain[2]
    BY <1>3 DEF Inv, ListInv, Consumer
  <1>5. First = 2 /\ First' = 3 /\ Waiting \in Nat \ {0} /\ Waiting' = Waiting - 1
    BY <1>1, <1>2, <1>3 DEF First, AbsQueueOK
  <1>6. \A i \in 1..Waiting' : AbsQueue'[i] = AbsQueue[i + 1]
    <2> SUFFICES ASSUME NEW i \in 1..Waiting'
                 PROVE  AbsQueue'[i] = AbsQueue[i + 1]
      OBVIOUS
    <2>1. AbsQueue[i + 1] = AbsEntry(chain[i + 2])
      BY <1>1, <1>5 DEF AbsQueueOK
    <2>2. AbsQueue'[i] = AbsEntry(chain[i + 2])'
      BY <1>1, <1>5 DEF AbsQueueOK
    <2>3. PublisherOf(chain[i + 2])' = PublisherOf(chain[i + 2])
      BY <1>3 DEF PublisherOf
    <2> QED
      BY <2>1, <2>2, <2>3, <1>3 DEF AbsEntry
  <1>7. AbsQueue' = Tail(AbsQueue)
    <2>1. /\ Tail(AbsQueue) \in Seq(AnyEntry) /\ Len(Tail(AbsQueue)) = Waiting'
          /\ \A i \in 1..Waiting' : Tail(AbsQueue)[i] = AbsQueue[i + 1]
      BY <1>1, <1>5, TailFacts DEF AbsQueueOK
    <2> QED
      BY <2>1, <1>1, <1>6, SeqEq DEF AbsQueueOK
  <1>8. AbsTaken' = AbsQueue[1].item
    BY <1>1, <1>3, <1>4, <1>5 DEF AbsTaken, AbsQueueOK, AbsEntry
  <1> QED
    BY <1>2, <1>7, <1>8

LEMMA TakeStutters ==
  ASSUME Inv, Inv', DequeueTake
  PROVE  AbsQueue' = AbsQueue /\ AbsTaken' = AbsTaken
  <1> DEFINE L == Len(chain)
  <1>1. AbsQueueOK /\ AbsQueueOK'
    BY AbsQueueFacts, PTL
  <1>2. /\ cpc = "take" /\ cpc' = "delete" /\ chain' = Tail(chain)
        /\ output' = dataPtr_[next]
        /\ dataPtr_' = [dataPtr_ EXCEPT ![next] = NoItem]
        /\ UNCHANGED <<node, phase>>
    BY DEF DequeueTake
  <1>3. next = chain[2] /\ L \in Nat /\ L > 1 /\ phase # "destroyed"
    BY <1>1, <1>2 DEF Inv, ListInv, Consumer, Ends, AbsQueueOK
  <1>4. Len(chain') = L - 1 /\ \A i \in 1..L - 1 : chain'[i] = chain[i + 1]
    BY <1>2, <1>3, TailFacts DEF Inv, TypeOK
  <1>5. First = 3 /\ First' = 2 /\ Waiting' = Waiting /\ Waiting = L - 2
    <2> HIDE DEF L
    <2> QED
      BY <1>1, <1>2, <1>3, <1>4 DEF First, AbsQueueOK, L
  <1>6. \A i \in 1..Waiting : AbsQueue'[i] = AbsQueue[i]
    <2> SUFFICES ASSUME NEW i \in 1..Waiting
                 PROVE  AbsQueue'[i] = AbsQueue[i]
      OBVIOUS
    <2>1. i + 2 \in 1..L /\ i + 2 # 2 /\ i + 1 \in 1..L - 1 /\ 2 \in 1..L
      BY <1>3, <1>5
    <2> PICK m \in Nodes : m = chain[i + 2]
      BY <1>1, <2>1 DEF AbsQueueOK
    <2>2. chain[i + 2] # chain[2]
      BY <2>1 DEF Inv, ListInv, Distinct
    <2>3. dataPtr_'[m] = dataPtr_[m]
      BY <1>2, <1>3, <2>2 DEF Inv, TypeOK
    <2>4. AbsEntry(m)' = AbsEntry(m)
      BY <1>2, <2>3, AbsEntryKept
    <2>5. AbsQueue[i] = AbsEntry(chain[i + 2]) /\ AbsQueue'[i] = AbsEntry(chain[i + 1])'
      <3>1. i + 3 - 1 = i + 2 /\ i + 2 - 1 = i + 1
        OBVIOUS
      <3>2. AbsQueue[i] = AbsEntry(chain[i + 3 - 1])
        BY <1>1, <1>5 DEF AbsQueueOK
      <3>3. AbsQueue'[i] = AbsEntry(chain[i + 2 - 1])'
        BY <1>1, <1>5 DEF AbsQueueOK
      <3> QED
        BY <3>1, <3>2, <3>3
    <2>6. chain'[i + 1] = chain[(i + 1) + 1] /\ (i + 1) + 1 = i + 2
      BY <1>4, <2>1
    <2>7. chain'[i + 1] = m
      BY <2>6
    <2> QED
      BY <2>4, <2>5, <2>7
  <1>7. AbsQueue' = AbsQueue
    BY <1>1, <1>5, <1>6, SeqEq DEF AbsQueueOK
  <1> QED
    BY <1>2, <1>7 DEF AbsTaken

LEMMA QuietStutters ==
  ASSUME DequeueDelete \/ Destroy \/ UNCHANGED vars
  PROVE  AbsQueue' = AbsQueue /\ AbsTaken' = AbsTaken
  <1>1. /\ UNCHANGED <<dataPtr_, node, chain, output>>
        /\ (cpc = "take" /\ cpc' = "take" /\ next' = next) \/ (cpc # "take" /\ cpc' # "take")
    BY DEF DequeueDelete, Destroy, vars
  <1>2. First' = First /\ Waiting' = Waiting
    BY <1>1 DEF First, Waiting
  <1>3. \A n : AbsEntry(n)' = AbsEntry(n)
    BY <1>1 DEF AbsEntry, PublisherOf
  <1>4. AbsQueue' = AbsQueue
    BY <1>1, <1>2, <1>3 DEF AbsQueue
  <1> QED
    BY <1>1, <1>4 DEF AbsTaken

LEMMA FalseKeeps ==
  ASSUME DequeueFalse
  PROVE  AbsQueue' = AbsQueue
  <1>1. UNCHANGED <<dataPtr_, node, chain, cpc>>
    BY DEF DequeueFalse
  <1>2. First' = First /\ Waiting' = Waiting
    BY <1>1 DEF First, Waiting
  <1>3. \A n : AbsEntry(n)' = AbsEntry(n)
    BY <1>1 DEF AbsEntry, PublisherOf
  <1> QED
    BY <1>1, <1>2, <1>3 DEF AbsQueue

(* The destructor finds nothing waiting: no enqueue() is under way. *)
LEMMA DestroyFrontKeeps ==
  ASSUME Inv, Inv', DestroyFront
  PROVE  AbsQueue' = AbsQueue
  <1> USE NullAssumption
  <1>1. AbsQueueOK /\ AbsQueueOK' /\ PublisherOK
    BY AbsQueueFacts, PublisherFacts, PTL
  <1>2. ~(AbsQueue # <<>> /\ AbsQueue[1].publisher = NoOne)
    BY VisibleWhenLinked DEF DestroyFront
  <1>3. \A p \in Producers : node[p] = nullptr
    BY DEF DestroyFront, Inv, ListInv, Ends
  <1>4. Waiting = 0
    <2>1. ASSUME Waiting # 0
          PROVE  AbsQueue # <<>> /\ AbsQueue[1].publisher = NoOne
      <3>1. 1 \in 1..Waiting
        BY <2>1, <1>1 DEF AbsQueueOK
      <3> PICK m \in Nodes : m = chain[1 + First - 1]
        BY <3>1, <1>1 DEF AbsQueueOK
      <3>2. AbsQueue[1] = AbsEntry(m) /\ Len(AbsQueue) # 0
        BY <3>1, <2>1, <1>1 DEF AbsQueueOK
      <3> QED
        BY <3>2, <1>1, <1>3 DEF PublisherOK, AbsEntry
    <2> QED
      BY <2>1, <1>2
  <1>5. Waiting' = 0
    BY DEF DestroyFront, Waiting
  <1> QED
    BY <1>1, <1>4, <1>5 DEF AbsQueueOK

LEMMA RefineInit == Init => Fifo!Init
  <1> SUFFICES ASSUME Init PROVE Fifo!Init
    OBVIOUS
  <1>1. PICK dummy \in Nodes : Init!(dummy)
    BY DEF Init
  <1>2. First = 2 /\ Waiting = 0 /\ Inv
    BY <1>1, InitInv DEF First, Waiting
  <1>3. AbsQueue = <<>>
    BY <1>2, AbsQueueFacts DEF AbsQueueOK
  <1> QED
    BY <1>1, <1>2, <1>3, AbsQueueMapped DEF Fifo!Init, Mapped

LEMMA RefineNext ==
  ASSUME Inv, Inv', [Next]_vars
  PROVE  [Fifo!Next]_Fifo!vars
  <1> DEFINE Q == [i \in DOMAIN Pending |-> [item |-> dataPtr_[Pending[i]],
                                             publisher |-> PublisherOf(Pending[i])]]
             T == IF cpc = "take" THEN dataPtr_[next] ELSE output
  <1>1. Q = AbsQueue /\ Q' = AbsQueue'
    <2>1. Mapped /\ Mapped'
      BY AbsQueueMapped, PTL
    <2> QED
      BY <2>1 DEF Mapped
  <1>2. T = AbsTaken /\ T' = AbsTaken'
    BY DEF AbsTaken
  <1>3. DOMAIN AbsQueue = 1..Waiting
    BY AbsQueueFacts DEF AbsQueueOK
  <1>4. CASE \E p \in Producers : \E v \in Items : Exchange(p, v)
    <2> PICK p \in Producers, v \in Items : Exchange(p, v)
      BY <1>4
    <2>1. /\ \A i \in DOMAIN Q : Q[i].publisher # p
          /\ Q' = Append(Q, [item |-> v, publisher |-> p])
          /\ T' = T
      BY <1>1, <1>2, <1>3, ExchangeRefines
    <2>2. Fifo!Claim(p, v)
      BY <2>1 DEF Fifo!Claim
    <2> QED
      BY <2>2 DEF Fifo!Next
  <1>5. CASE \E p \in Producers : Link(p)
    <2> PICK p \in Producers : Link(p)
      BY <1>5
    <2>1. /\ \E i \in DOMAIN Q : /\ Q[i].publisher = p
                                 /\ Q' = [Q EXCEPT ![i].publisher = NoOne]
          /\ T' = T
      BY <1>1, <1>2, <1>3, LinkRefines
    <2>2. Fifo!Publish(p)
      BY <2>1 DEF Fifo!Publish
    <2> QED
      BY <2>2 DEF Fifo!Next
  <1>6. CASE DequeueLoad
    <2>1. /\ Q # <<>> /\ Q[1].publisher = NoOne
          /\ T' = Q[1].item
          /\ Q' = Tail(Q)
      BY <1>1, <1>2, <1>6, LoadRefines
    <2>2. Fifo!Take
      BY <2>1 DEF Fifo!Take, Fifo!FirstVisible
    <2> QED
      BY <2>2 DEF Fifo!Next
  <1>7. CASE DequeueFalse \/ DestroyFront
    <2>1. ~(Q # <<>> /\ Q[1].publisher = NoOne)
      BY <1>1, <1>7, VisibleWhenLinked DEF DequeueFalse, DestroyFront
    <2>2. T' = NoItem
      BY <1>7 DEF DequeueFalse, DestroyFront
    <2>3. Q' = Q
      BY <1>1, <1>7, FalseKeeps, DestroyFrontKeeps
    <2>4. Fifo!TakeNothing
      BY <2>1, <2>2, <2>3 DEF Fifo!TakeNothing, Fifo!FirstVisible
    <2> QED
      BY <2>4 DEF Fifo!Next
  <1>8. CASE DequeueTake \/ DequeueDelete \/ Destroy \/ UNCHANGED vars
    <2>1. Q' = Q /\ T' = T
      BY <1>1, <1>2, <1>8, TakeStutters, QuietStutters
    <2> QED
      BY <2>1 DEF Fifo!vars
  <1> QED
    BY <1>4, <1>5, <1>6, <1>7, <1>8 DEF Next, Dequeue

(* enqueue() and dequeue() of LockFreeQueue.h, interleaved at every atomic *)
(* access by any number of producers, are the FIFO of MpscFifo: no item is *)
(* lost, repeated or overtaken, and dequeue() answers false only while the *)
(* first item is between its exchange and its link.                        *)
THEOREM QueueImplementsFifo == Spec => ImplementsFifo
  <1>1. Inv /\ Inv' /\ [Next]_vars => [Fifo!Next]_Fifo!vars
    BY RefineNext
  <1> QED
    BY <1>1, InvHolds, RefineInit, PTL DEF Spec, ImplementsFifo, Fifo!Spec
=============================================================================
