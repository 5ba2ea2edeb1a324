----------------------------- MODULE MpscProofs -----------------------------
(* Proofs about the queue of many producers and one consumer.  The         *)
(* invariant is about the chain of its nodes: place[0] is the stub and     *)
(* place[i] the node of the i-th value pushed; the consumer stands at      *)
(* place[k].  The places before k are deleted and may be places again.     *)
EXTENDS MpscQueue, SequenceTheorems, TLAPS

Last == Len(pushed)
Ending == consumer \in {"destroying", "destroyed"}
Live(place, k) == {place[i] : i \in k .. Last}
Fresh == {p \in Producers : producer[p] = "exchange"}
Linkers == {p \in Producers : producer[p] = "link"}

\* Where the chain begins and ends; no node is in it twice.
Ends(place, k) ==
    /\ head = place[Last] /\ next[head] = Null
    /\ tail = IF k <= Last THEN place[k] ELSE Null
    /\ \A i, j \in k .. Last : place[i] = place[j] => i = j

\* Two neighbours are linked, or a producer is about to link them.
Linked(place, k) ==
    \A i \in k .. Last - 1 :
      \/ next[place[i]] = place[i + 1]
      \/ \E p \in Linkers : prev[p] = place[i] /\ node[p] = place[i + 1]

\* A producer between exchange and store is about to link two neighbours
\* that no one else links and that the consumer has not passed.
Linking(place, k) ==
    /\ \A p \in Linkers : \E i \in k .. Last - 1 :
         prev[p] = place[i] /\ node[p] = place[i + 1] /\ next[place[i]] = Null
    /\ \A p, q \in Linkers : prev[p] = prev[q] => p = q

\* A new node is its producer's alone.
Own(place, k) ==
    /\ \A p \in Fresh : /\ node[p] \in Nodes \ Live(place, k) /\ node[p] # old
                        /\ next[node[p]] = Null /\ value[node[p]] \in 1 .. MaxPushes
    /\ \A p, q \in Fresh : node[p] = node[q] => p = q

\* Every node that is allocated has its use.
Uses(place, k) ==
    /\ allocated = Live(place, k) \cup {node[p] : p \in Fresh} \cup ({old} \ {Null})
    /\ consumer = "delete" <=> old # Null
    /\ old \notin Live(place, k)

\* The values in the chain are those pushed and not yet popped.
Values(place, k) ==
    /\ ~Ending => \A i \in k + 1 .. Last : value[place[i]] = pushed[i]
    /\ Len(popped) <= Last
    /\ \A i \in 1 .. Len(popped) : popped[i] = pushed[i]

\* Once the destructor runs, nobody else does.
Ended(k) ==
    /\ ~Ending => k = Len(popped)
    /\ Ending => \A p \in Producers : producer[p] = "idle"
    /\ consumer = "destroyed" => k = Last + 1

Chain(place, k) ==
    /\ Ends(place, k) /\ Linked(place, k) /\ Linking(place, k)
    /\ Own(place, k) /\ Uses(place, k) /\ Values(place, k) /\ Ended(k)

IInv ==
    /\ QueueTypeOK
    /\ \E place \in [0 .. Last -> Nodes] : \E k \in 0 .. Last + 1 : Chain(place, k)
-----------------------------------------------------------------------------
\* The constructor makes a chain of the stub alone.
LEMMA InitInv == QueueInit => IInv
<1> SUFFICES ASSUME QueueInit PROVE IInv
  OBVIOUS
<1> PICK stub \in Nodes :
      /\ allocated = {stub} /\ next = [n \in Nodes |-> Null] /\ value = [n \in Nodes |-> 0]
      /\ head = stub /\ tail = stub
  BY DEF QueueInit
<1>1. QueueTypeOK
  BY MaxPushesIsNat DEF QueueInit, QueueTypeOK
<1> DEFINE place == [i \in 0 .. 0 |-> stub]
<1>2. Last = 0 /\ Len(popped) = 0 /\ Fresh = {} /\ Linkers = {} /\ ~Ending
  BY DEF QueueInit, Last, Fresh, Linkers, Ending
<1>3. Live(place, 0) = {stub}
  BY <1>2 DEF Live
<1>4. Ends(place, 0) /\ Linked(place, 0) /\ Linking(place, 0)
  BY <1>2 DEF Ends, Linked, Linking
<1>5. Own(place, 0) /\ Values(place, 0) /\ Ended(0)
  BY <1>2 DEF Own, Values, Ended, Ending
<1>6. Uses(place, 0)
  BY <1>2, <1>3, NullIsNoNode DEF Uses, QueueInit
<1>7. place \in [0 .. Last -> Nodes] /\ 0 \in 0 .. Last + 1 /\ Chain(place, 0)
  BY <1>2, <1>4, <1>5, <1>6 DEF Chain
<1> QED  BY <1>1, <1>7 DEF IInv

\* The indices of a chain, and the nodes at them.
LEMMA PlaceFacts ==
    ASSUME QueueTypeOK, NEW place \in [0 .. Last -> Nodes], NEW k \in 0 .. Last + 1
    PROVE  /\ Last \in Nat /\ Len(popped) \in Nat
           /\ Live(place, k) \subseteq Nodes
           /\ \A i \in k .. Last : place[i] \in Live(place, k) /\ place[i] \in Nodes
           /\ Live(place, k) \subseteq {place[i] : i \in 0 .. Last}
<1>1. Last \in Nat /\ Len(popped) \in Nat
  BY DEF QueueTypeOK, Last
<1> QED  BY <1>1 DEF Live

\* A new node is not in the chain, nor is it anyone else's.
LEMMA PushNewKeeps ==
    ASSUME IInv, NEW p \in Producers, PushNew(p)
    PROVE  IInv'
<1>1. PICK n \in Nodes \ allocated :
        /\ allocated' = allocated \cup {n}
        /\ next' = [next EXCEPT ![n] = Null]
        /\ value' = [value EXCEPT ![n] = pushes + 1]
        /\ node' = [node EXCEPT ![p] = n]
  BY DEF PushNew
<1>2. /\ producer[p] = "idle" /\ pushes < MaxPushes /\ pushes' = pushes + 1 /\ ~Ending
      /\ producer' = [producer EXCEPT ![p] = "exchange"]
      /\ UNCHANGED <<head, tail, prev, consumer, old, pushed, popped>>
  BY DEF PushNew, Ending
<1>3. QueueTypeOK /\ QueueTypeOK'
  <2>1. QueueTypeOK
    BY DEF IInv
  <2>2. pushes + 1 \in 0 .. MaxPushes
    BY <1>2, <2>1, MaxPushesIsNat DEF QueueTypeOK
  <2> QED  BY <1>1, <1>2, <2>1, <2>2 DEF QueueTypeOK
<1> PICK place \in [0 .. Last -> Nodes], k \in 0 .. Last + 1 : Chain(place, k)
  BY DEF IInv
<1>4. /\ Last' = Last /\ Ending' = Ending /\ Live(place, k)' = Live(place, k)
      /\ Linkers' = Linkers /\ Fresh' = Fresh \cup {p} /\ p \notin Fresh /\ p \notin Linkers
  BY <1>2, <1>3 DEF Last, Ending, Live, Linkers, Fresh, QueueTypeOK
<1>5. /\ n \notin Live(place, k) /\ n # old /\ \A q \in Fresh : node[q] # n
      /\ \A i \in k .. Last : place[i] # n
  <2>1. Live(place, k) \subseteq allocated /\ (old # Null => old \in allocated)
        /\ \A q \in Fresh : node[q] \in allocated
    BY DEF Chain, Uses
  <2> QED  BY <1>3, <2>1, PlaceFacts, NullIsNoNode
<1>6. \A m \in Nodes : m # n => next'[m] = next[m] /\ value'[m] = value[m]
  BY <1>1, <1>3 DEF QueueTypeOK
<1>7. \A q \in Producers : q # p => node'[q] = node[q]
  BY <1>1, <1>3 DEF QueueTypeOK
<1>8. k <= Last /\ k \in k .. Last /\ Last \in k .. Last
  BY <1>2, <1>3, PlaceFacts DEF Chain, Ended, Values
<1>9. Ends(place, k)'
  BY <1>2, <1>3, <1>4, <1>5, <1>6, <1>8, PlaceFacts DEF Chain, Ends
<1>10. Linked(place, k)'
  <2> SUFFICES ASSUME NEW i \in k .. Last - 1
               PROVE  \/ next'[place[i]] = place[i + 1]
                      \/ \E q \in Linkers : prev'[q] = place[i] /\ node'[q] = place[i + 1]
    BY <1>4 DEF Linked
  <2>1. i \in k .. Last
    BY <1>3, PlaceFacts
  <2>2. next'[place[i]] = next[place[i]]
    BY <1>3, <1>5, <1>6, <2>1, PlaceFacts
  <2>3. \A q \in Linkers : node'[q] = node[q] /\ prev'[q] = prev[q]
    BY <1>2, <1>4, <1>7 DEF Linkers
  <2> QED  BY <2>2, <2>3 DEF Chain, Linked
<1>11. Linking(place, k)'
  <2>1. \A q \in Linkers : node'[q] = node[q] /\ prev'[q] = prev[q]
    BY <1>2, <1>4, <1>7 DEF Linkers
  <2>2. \A i \in k .. Last - 1 : next'[place[i]] = next[place[i]]
    BY <1>3, <1>5, <1>6, PlaceFacts
  <2> QED  BY <1>4, <2>1, <2>2 DEF Chain, Linking
<1>12. Own(place, k)'
  <2>1. /\ node'[p] = n /\ next'[n] = Null /\ value'[n] = pushes + 1
        /\ pushes + 1 \in 1 .. MaxPushes
    BY <1>1, <1>2, <1>3, MaxPushesIsNat DEF QueueTypeOK
  <2>2. ASSUME NEW q \in Fresh
        PROVE  /\ node'[q] = node[q] /\ node[q] # n /\ node[q] \in Nodes
               /\ next'[node[q]] = Null /\ value'[node[q]] \in 1 .. MaxPushes
    BY <1>4, <1>5, <1>6, <1>7 DEF Chain, Own, Fresh
  <2>3. \A q \in Fresh' : /\ node'[q] \in Nodes \ Live(place, k) /\ node'[q] # old
                          /\ next'[node'[q]] = Null /\ value'[node'[q]] \in 1 .. MaxPushes
    BY <1>4, <1>5, <2>1, <2>2 DEF Chain, Own
  <2>4. \A q, r \in Fresh' : node'[q] = node'[r] => q = r
    BY <1>4, <1>5, <2>1, <2>2 DEF Chain, Own
  <2> QED  BY <1>2, <1>4, <2>3, <2>4 DEF Own
<1>13. Uses(place, k)'
  <2>1. {node'[q] : q \in Fresh'} = {node[q] : q \in Fresh} \cup {n}
    BY <1>1, <1>3, <1>4, <1>7 DEF QueueTypeOK, Fresh
  <2> QED  BY <1>1, <1>2, <1>4, <2>1 DEF Chain, Uses
<1>14. Values(place, k)'
  <2>1. \A i \in k + 1 .. Last : value'[place[i]] = value[place[i]]
    BY <1>3, <1>5, <1>6, PlaceFacts
  <2> QED  BY <1>2, <1>4, <2>1 DEF Chain, Values
<1>15. Ended(k)'
  BY <1>2, <1>4 DEF Chain, Ended, Ending
<1> QED
  BY <1>3, <1>4, <1>9, <1>10, <1>11, <1>12, <1>13, <1>14, <1>15 DEF Chain, IInv

\* The exchange puts the new node behind the last of the chain.
LEMMA PushExchangeKeeps ==
    ASSUME IInv, NEW p \in Producers, PushExchange(p)
    PROVE  IInv'
<1> DEFINE new == node[p]
<1>1. /\ producer[p] = "exchange" /\ prev' = [prev EXCEPT ![p] = head] /\ head' = new
      /\ pushed' = Append(pushed, value[new]) /\ producer' = [producer EXCEPT ![p] = "link"]
      /\ UNCHANGED <<allocated, next, value, tail, node, consumer, old, popped, pushes>>
  BY DEF PushExchange
<1>2. QueueTypeOK
  BY DEF IInv
<1> PICK place \in [0 .. Last -> Nodes], k \in 0 .. Last + 1 : Chain(place, k)
  BY DEF IInv
<1>0. PICK place2 : place2 = [i \in 0 .. Last + 1 |-> IF i <= Last THEN place[i] ELSE new]
  OBVIOUS
<1>3. /\ p \in Fresh /\ new \in Nodes \ Live(place, k) /\ new # old
      /\ next[new] = Null /\ value[new] \in 1 .. MaxPushes
  BY <1>1 DEF Chain, Own, Fresh
<1>4. /\ Last \in Nat /\ Last' = Last + 1 /\ pushed' \in Seq(1 .. MaxPushes)
      /\ \A i \in 1 .. Last : pushed'[i] = pushed[i]
      /\ pushed'[Last + 1] = value[new]
  BY <1>1, <1>2, <1>3 DEF QueueTypeOK, Last
<1>5. QueueTypeOK'
  BY <1>1, <1>2, <1>3, <1>4 DEF QueueTypeOK
<1>6. ~Ending /\ Ending' = Ending /\ k <= Last
  BY <1>1, <1>2, PlaceFacts DEF Chain, Ended, Values, Ending
<1>7. /\ Linkers' = Linkers \cup {p} /\ Fresh' = Fresh \ {p} /\ p \notin Linkers
      /\ prev'[p] = head /\ \A q \in Linkers : prev'[q] = prev[q]
  BY <1>1, <1>2 DEF QueueTypeOK, Linkers, Fresh
<1>8. /\ place2 \in [0 .. Last + 1 -> Nodes] /\ place2[Last + 1] = new
      /\ \A i \in 0 .. Last : place2[i] = place[i]
  BY <1>0, <1>3, <1>4
<1>9. Live(place2, k)' = Live(place, k) \cup {new}
  <2>1. k .. Last' = (k .. Last) \cup {Last + 1} /\ k .. Last \subseteq 0 .. Last
    BY <1>4, <1>6
  <2>2. Live(place2, k)' = {place2[i] : i \in k .. Last'}
    BY DEF Live
  <2> QED  BY <1>8, <2>1, <2>2 DEF Live
<1>10. \A i \in k .. Last : place[i] # new /\ place2[i] = place[i]
  <2>1. \A i \in k .. Last : place[i] \in Live(place, k) /\ i \in 0 .. Last
    BY <1>4 DEF Live
  <2> QED  BY <1>3, <1>8, <2>1
<1>11. Ends(place2, k)'
  <2>1. head' = place2[Last'] /\ next'[head'] = Null
    BY <1>1, <1>3, <1>4, <1>8
  <2>2. tail' = IF k <= Last' THEN place2[k] ELSE Null
    BY <1>1, <1>4, <1>6, <1>10 DEF Chain, Ends
  <2>3. \A i \in k .. Last' : i = Last + 1 \/ i \in k .. Last
    BY <1>4
  <2>4. \A i, j \in k .. Last' : place2[i] = place2[j] => i = j
    BY <1>8, <1>10, <2>3 DEF Chain, Ends
  <2> QED  BY <2>1, <2>2, <2>4 DEF Ends
<1>12. Linked(place2, k)'
  <2> SUFFICES ASSUME NEW i \in k .. Last
               PROVE  \/ next'[place2[i]] = place2[i + 1]
                      \/ \E q \in Linkers' : prev'[q] = place2[i] /\ node'[q] = place2[i + 1]
    BY <1>4 DEF Linked
  <2>1. CASE i = Last
    BY <1>1, <1>4, <1>7, <1>8, <1>10, <2>1 DEF Chain, Ends
  <2>2. CASE i # Last
    <3>1. i \in k .. Last - 1 /\ place2[i] = place[i] /\ place2[i + 1] = place[i + 1]
      BY <1>4, <1>8, <1>10, <2>2
    <3> QED  BY <1>1, <1>7, <3>1 DEF Chain, Linked
  <2> QED  BY <2>1, <2>2
<1>13. Linking(place2, k)'
  <2>1. Last \in k .. Last /\ head = place2[Last] /\ next[head] = Null
    BY <1>4, <1>6, <1>10 DEF Chain, Ends
  <2>2. ASSUME NEW q \in Linkers
        PROVE  \E i \in k .. Last - 1 : /\ prev'[q] = place2[i] /\ node[q] = place2[i + 1]
                                       /\ next[place2[i]] = Null /\ prev[q] # head
    <3>1. PICK i \in k .. Last - 1 :
            prev[q] = place[i] /\ node[q] = place[i + 1] /\ next[place[i]] = Null
      BY DEF Chain, Linking
    <3>2. i \in k .. Last /\ i + 1 \in k .. Last /\ i # Last
      BY <1>4
    <3>3. place[i] # head
      BY <2>1, <3>2 DEF Chain, Ends
    <3> QED  BY <1>7, <1>10, <3>1, <3>2, <3>3
  <2>3. ASSUME NEW q \in Linkers'
        PROVE  \E i \in k .. Last : prev'[q] = place2[i] /\ node[q] = place2[i + 1] /\ next[place2[i]] = Null
    <3>1. CASE q = p
      BY <1>7, <1>8, <2>1, <3>1
    <3>2. CASE q \in Linkers
      <4>1. k .. Last - 1 \subseteq k .. Last
        BY <1>4
      <4> QED  BY <2>2, <3>2, <4>1
    <3> QED  BY <1>7, <3>1, <3>2
  <2>4. ASSUME NEW q \in Linkers', NEW r \in Linkers', prev'[q] = prev'[r]
        PROVE  q = r
    BY <1>7, <2>2, <2>4 DEF Chain, Linking
  <2> QED  BY <1>1, <1>4, <2>3, <2>4 DEF Linking
<1>14. Own(place2, k)'
  <2>1. \A q \in Fresh' : node[q] # new
    BY <1>3, <1>7 DEF Chain, Own
  <2> QED  BY <1>1, <1>7, <1>9, <2>1 DEF Chain, Own
<1>15. Uses(place2, k)'
  <2>1. {node'[q] : q \in Fresh'} \cup {new} = {node[q] : q \in Fresh}
    BY <1>1, <1>3, <1>7
  <2> QED  BY <1>1, <1>3, <1>9, <2>1 DEF Chain, Uses
<1>16. Values(place2, k)'
  <2>1. ASSUME NEW i \in k + 1 .. Last + 1 PROVE value[place2[i]] = pushed'[i]
    <3>1. CASE i = Last + 1
      BY <1>4, <1>8, <3>1
    <3>2. CASE i # Last + 1
      <4>1. i \in k + 1 .. Last /\ i \in 1 .. Last /\ i \in k .. Last
        BY <1>4, <3>2
      <4> QED  BY <1>4, <1>6, <1>10, <4>1 DEF Chain, Values
    <3> QED  BY <3>1, <3>2
  <2>2. Len(popped) <= Last' /\ \A i \in 1 .. Len(popped) : popped[i] = pushed'[i]
    <3>1. Len(popped) \in Nat /\ Len(popped) <= Last /\ \A i \in 1 .. Len(popped) : popped[i] = pushed[i]
      BY <1>2, PlaceFacts DEF Chain, Values
    <3> QED  BY <1>4, <3>1
  <2> QED  BY <1>1, <1>4, <2>1, <2>2 DEF Values
<1>17. Ended(k)'
  BY <1>1, <1>6 DEF Chain, Ended, Ending
<1>18. k \in 0 .. Last' + 1 /\ place2 \in [0 .. Last' -> Nodes]
  BY <1>4, <1>8
<1> QED
  BY <1>5, <1>11, <1>12, <1>13, <1>14, <1>15, <1>16, <1>17, <1>18 DEF Chain, IInv

\* The store links two neighbours, and nothing else.
LEMMA PushLinkKeeps ==
    ASSUME IInv, NEW p \in Producers, PushLink(p)
    PROVE  IInv'
<1>1. /\ producer[p] = "link" /\ next' = [next EXCEPT ![prev[p]] = node[p]]
      /\ producer' = [producer EXCEPT ![p] = "idle"]
      /\ node' = [node EXCEPT ![p] = Null] /\ prev' = [prev EXCEPT ![p] = Null]
      /\ UNCHANGED <<allocated, value, head, tail, consumer, old, pushed, popped, pushes>>
  BY DEF PushLink, Predecessor
<1>2. QueueTypeOK
  BY DEF IInv
<1> PICK place \in [0 .. Last -> Nodes], k \in 0 .. Last + 1 : Chain(place, k)
  BY DEF IInv
<1>3. PICK at \in k .. Last - 1 :
        prev[p] = place[at] /\ node[p] = place[at + 1] /\ next[place[at]] = Null
  BY <1>1 DEF Chain, Linking, Linkers
<1>4. /\ Last \in Nat /\ at \in k .. Last /\ at + 1 \in k .. Last /\ at # Last
      /\ k <= Last /\ Last \in k .. Last
      /\ place[at] \in Nodes /\ place[at + 1] \in Nodes
  BY <1>2, PlaceFacts
<1>5. /\ next'[place[at]] = place[at + 1]
      /\ \A m \in Nodes : m # place[at] => next'[m] = next[m]
  BY <1>1, <1>2, <1>3, <1>4 DEF QueueTypeOK
<1>6. QueueTypeOK'
  <2>1. next' \in [Nodes -> Nodes \cup {Null}]
    BY <1>1, <1>2, <1>3, <1>4 DEF QueueTypeOK
  <2> QED  BY <1>1, <1>2, <2>1 DEF QueueTypeOK
<1>7. /\ Last' = Last /\ Ending' = Ending /\ Live(place, k)' = Live(place, k)
      /\ Linkers' = Linkers \ {p} /\ Fresh' = Fresh /\ p \notin Fresh /\ p \in Linkers
      /\ \A q \in Producers : q # p => node'[q] = node[q] /\ prev'[q] = prev[q]
  BY <1>1, <1>2 DEF QueueTypeOK, Last, Ending, Live, Linkers, Fresh
<1>8. \A i \in k .. Last : place[i] \in Nodes /\ (i # at => place[i] # place[at])
  BY <1>2, <1>4, PlaceFacts DEF Chain, Ends
<1>9. Ends(place, k)'
  <2>1. next'[head] = Null /\ head = place[Last]
    BY <1>4, <1>5, <1>8 DEF Chain, Ends
  <2> QED  BY <1>1, <1>7, <2>1 DEF Chain, Ends
<1>10. Linked(place, k)'
  <2> SUFFICES ASSUME NEW i \in k .. Last - 1
               PROVE  \/ next'[place[i]] = place[i + 1]
                      \/ \E q \in Linkers' : prev'[q] = place[i] /\ node'[q] = place[i + 1]
    BY <1>7 DEF Linked
  <2>1. i \in k .. Last
    BY <1>4
  <2>2. CASE i = at
    BY <1>5, <2>2
  <2>3. CASE i # at
    <3>1. place[i] # place[at] /\ next'[place[i]] = next[place[i]]
      BY <1>5, <1>8, <2>1, <2>3
    <3>2. CASE next[place[i]] = place[i + 1]
      BY <3>1, <3>2
    <3>3. ASSUME NEW q \in Linkers, prev[q] = place[i], node[q] = place[i + 1]
          PROVE  q \in Linkers' /\ prev'[q] = place[i] /\ node'[q] = place[i + 1]
      BY <1>3, <1>7, <3>1, <3>3 DEF Linkers
    <3> QED  BY <3>2, <3>3 DEF Chain, Linked
  <2> QED  BY <2>2, <2>3
<1>11. Linking(place, k)'
  <2>1. ASSUME NEW q \in Linkers'
        PROVE  q \in Linkers /\ q # p /\ prev'[q] = prev[q] /\ node'[q] = node[q] /\ prev[q] # prev[p]
    BY <1>7 DEF Linkers, Chain, Linking
  <2>2. ASSUME NEW q \in Linkers'
        PROVE  \E i \in k .. Last - 1 :
                 prev'[q] = place[i] /\ node'[q] = place[i + 1] /\ next'[place[i]] = Null
    <3>1. PICK i \in k .. Last - 1 :
            prev[q] = place[i] /\ node[q] = place[i + 1] /\ next[place[i]] = Null
      BY <2>1 DEF Chain, Linking
    <3>2. i \in k .. Last /\ place[i] # place[at]
      BY <1>3, <1>4, <2>1, <3>1
    <3> QED  BY <1>5, <1>8, <2>1, <3>1, <3>2
  <2>3. \A q, r \in Linkers' : prev'[q] = prev'[r] => q = r
    BY <2>1 DEF Chain, Linking
  <2> QED  BY <1>7, <2>2, <2>3 DEF Linking
<1>12. Own(place, k)'
  <2>1. \A q \in Fresh : node'[q] = node[q] /\ node[q] # place[at] /\ node[q] \in Nodes
    BY <1>2, <1>4, <1>7, PlaceFacts DEF Chain, Own, Fresh
  <2>2. \A q \in Fresh : next'[node[q]] = next[node[q]]
    BY <1>5, <2>1
  <2> QED  BY <1>1, <1>7, <2>1, <2>2 DEF Chain, Own
<1>13. Uses(place, k)'
  <2>1. {node'[q] : q \in Fresh'} = {node[q] : q \in Fresh}
    BY <1>7 DEF Fresh
  <2> QED  BY <1>1, <1>7, <2>1 DEF Chain, Uses
<1>14. Values(place, k)'
  BY <1>1, <1>7 DEF Chain, Values
<1>15. Ended(k)'
  BY <1>1, <1>2, <1>7 DEF Chain, Ended, Ending, QueueTypeOK
<1> QED
  BY <1>6, <1>7, <1>9, <1>10, <1>11, <1>12, <1>13, <1>14, <1>15 DEF Chain, IInv

\* What the tail leaves when it goes one place on.
LEMMA TailMoves ==
    ASSUME QueueTypeOK, NEW place \in [0 .. Last -> Nodes], NEW k \in 0 .. Last, Ends(place, k)
    PROVE  /\ tail = place[k] /\ tail \in Nodes /\ tail # Null
           /\ Live(place, k) = Live(place, k + 1) \cup {tail}
           /\ tail \notin Live(place, k + 1)
           /\ k + 1 \in 0 .. Last + 1 /\ k + 1 .. Last \subseteq k .. Last
<1>1. /\ Last \in Nat /\ k .. Last = (k + 1 .. Last) \cup {k} /\ k \notin k + 1 .. Last
      /\ k + 1 \in 0 .. Last + 1 /\ k \in 0 .. Last
  BY PlaceFacts DEF QueueTypeOK, Last
<1>2. tail = place[k] /\ place[k] \in Nodes
  BY <1>1 DEF Ends
<1>3. Live(place, k) = Live(place, k + 1) \cup {place[k]}
  BY <1>1 DEF Live
<1>4. place[k] \notin Live(place, k + 1)
  BY <1>1 DEF Live, Ends
<1> QED  BY <1>1, <1>2, <1>3, <1>4, NullIsNoNode

\* A pointer behind a node of the chain leads to its neighbour.
LEMMA NextIsNeighbour ==
    ASSUME QueueTypeOK, NEW place \in [0 .. Last -> Nodes], NEW k \in 0 .. Last + 1,
           Ends(place, k), Linked(place, k), Linking(place, k),
           NEW i \in k .. Last, next[place[i]] # Null
    PROVE  i \in k .. Last - 1 /\ next[place[i]] = place[i + 1]
<1>1. i # Last
  BY DEF Ends
<1>2. Last \in Nat /\ i \in k .. Last - 1
  BY <1>1, PlaceFacts
<1>3. ASSUME NEW p \in Linkers, prev[p] = place[i] PROVE FALSE
  BY <1>3 DEF Linking
<1> QED  BY <1>2, <1>3 DEF Linked

\* The consumer takes the oldest value and goes one place on.
LEMMA PopValueKeeps ==
    ASSUME IInv, PopValue
    PROVE  IInv'
<1>1. /\ consumer = "idle" /\ next[tail] # Null
      /\ popped' = Append(popped, value[First]) /\ value' = [value EXCEPT ![First] = 0]
      /\ old' = tail /\ tail' = First /\ consumer' = "delete"
      /\ UNCHANGED <<allocated, next, head, producer, node, prev, pushed, pushes>>
  BY DEF PopValue, Garbage
<1>2. QueueTypeOK
  BY DEF IInv
<1> PICK place \in [0 .. Last -> Nodes], k \in 0 .. Last + 1 : Chain(place, k)
  BY DEF IInv
<1>3. /\ ~Ending /\ ~Ending' /\ Last' = Last /\ Fresh' = Fresh /\ Linkers' = Linkers
      /\ Live(place, k + 1)' = Live(place, k + 1) /\ old = Null
  BY <1>1 DEF Ending, Last, Fresh, Linkers, Live, Chain, Uses
<1>4. Last \in Nat /\ Len(popped) \in Nat /\ k = Len(popped) /\ k \in 0 .. Last
  BY <1>2, <1>3, PlaceFacts DEF Chain, Ended, Values
<1>5. /\ tail = place[k] /\ tail \in Nodes /\ tail # Null
      /\ Live(place, k) = Live(place, k + 1) \cup {tail}
      /\ tail \notin Live(place, k + 1)
      /\ k + 1 \in 0 .. Last + 1 /\ k + 1 .. Last \subseteq k .. Last
  BY <1>2, <1>4, TailMoves DEF Chain
<1>6. /\ k \in k .. Last - 1 /\ First = place[k + 1] /\ k + 1 \in 1 .. Last
      /\ k + 1 \in k + 1 .. Last /\ First \in Nodes
  <2>1. k \in k .. Last
    BY <1>4
  <2>2. k \in k .. Last - 1 /\ next[place[k]] = place[k + 1]
    BY <1>1, <1>2, <1>5, <2>1, NextIsNeighbour DEF Chain
  <2> QED  BY <1>4, <1>5, <2>2 DEF First
<1>7. value[First] = pushed[k + 1] /\ pushed[k + 1] \in 1 .. MaxPushes
  <2>1. pushed[k + 1] \in 1 .. MaxPushes
    BY <1>2, <1>6, ElementOfSeq DEF QueueTypeOK, Last
  <2> QED  BY <1>3, <1>6, <2>1 DEF Chain, Values
<1>8. /\ popped' \in Seq(1 .. MaxPushes) /\ Len(popped') = k + 1
      /\ \A i \in 1 .. k : popped'[i] = popped[i]
      /\ popped'[k + 1] = pushed[k + 1]
  BY <1>1, <1>2, <1>4, <1>7 DEF QueueTypeOK
<1>9. QueueTypeOK'
  <2>1. value' \in [Nodes -> 0 .. MaxPushes]
    BY <1>1, <1>2, <1>6, MaxPushesIsNat DEF QueueTypeOK
  <2> QED  BY <1>1, <1>2, <1>5, <1>6, <1>8, <2>1 DEF QueueTypeOK
<1>10. Ends(place, k + 1)'
  <2>1. tail' = place[k + 1] /\ k + 1 <= Last
    BY <1>1, <1>4, <1>6
  <2>2. \A i, j \in k + 1 .. Last : place[i] = place[j] => i = j
    BY <1>5 DEF Chain, Ends
  <2> QED  BY <1>1, <1>3, <2>1, <2>2 DEF Chain, Ends
<1>11. Linked(place, k + 1)'
  <2>1. k + 1 .. Last - 1 \subseteq k .. Last - 1
    BY <1>4
  <2> QED  BY <1>1, <1>3, <2>1 DEF Chain, Linked
<1>12. Linking(place, k + 1)'
  <2>1. ASSUME NEW q \in Linkers
        PROVE  \E i \in k + 1 .. Last - 1 :
                 prev[q] = place[i] /\ node[q] = place[i + 1] /\ next[place[i]] = Null
    <3>1. PICK i \in k .. Last - 1 :
            prev[q] = place[i] /\ node[q] = place[i + 1] /\ next[place[i]] = Null
      BY DEF Chain, Linking
    <3>2. i # k
      BY <1>1, <1>5, <3>1
    <3> QED  BY <1>4, <3>1, <3>2
  <2> QED  BY <1>1, <1>3, <2>1 DEF Chain, Linking
<1>13. Own(place, k + 1)'
  <2>1. First \in Live(place, k)
    BY <1>5, <1>6 DEF Live
  <2>2. ASSUME NEW q \in Fresh
        PROVE  /\ node[q] # tail /\ node[q] \in Nodes \ Live(place, k + 1)
               /\ value'[node[q]] = value[node[q]]
    BY <1>1, <1>2, <1>5, <2>1 DEF Chain, Own, QueueTypeOK
  <2> QED  BY <1>1, <1>3, <2>2 DEF Chain, Own
<1>14. Uses(place, k + 1)'
  BY <1>1, <1>3, <1>5 DEF Chain, Uses
<1>15. Values(place, k + 1)'
  <2>1. ASSUME NEW i \in (k + 1) + 1 .. Last PROVE value'[place[i]] = pushed[i]
    <3>1. i \in k .. Last /\ i \in k + 1 .. Last /\ k + 1 \in k .. Last /\ i # k + 1
      BY <1>4, <1>6
    <3>2. place[i] # First /\ place[i] \in Nodes
      BY <1>2, <1>6, <3>1, PlaceFacts DEF Chain, Ends
    <3> QED  BY <1>1, <1>2, <1>3, <3>1, <3>2 DEF Chain, Values, QueueTypeOK
  <2>2. \A i \in 1 .. Len(popped') : popped'[i] = pushed[i]
    BY <1>4, <1>8 DEF Chain, Values
  <2>3. Len(popped') <= Last
    BY <1>4, <1>6, <1>8
  <2> QED  BY <1>1, <1>3, <2>1, <2>2, <2>3 DEF Values
<1>16. Ended(k + 1)'
  BY <1>1, <1>3, <1>8 DEF Ended, Ending
<1> QED
  BY <1>3, <1>5, <1>9, <1>10, <1>11, <1>12, <1>13, <1>14, <1>15, <1>16 DEF Chain, IInv

\* What the consumer deletes is behind the chain.
LEMMA PopDeleteKeeps ==
    ASSUME IInv, PopDelete
    PROVE  IInv'
<1>1. /\ consumer = "delete" /\ allocated' = allocated \ {old} /\ old' = Null
      /\ consumer' = "idle"
      /\ UNCHANGED <<next, value, head, tail, producer, node, prev, pushed, popped, pushes>>
  BY DEF PopDelete, Deleted
<1>2. QueueTypeOK /\ QueueTypeOK'
  BY <1>1 DEF IInv, QueueTypeOK
<1> PICK place \in [0 .. Last -> Nodes], k \in 0 .. Last + 1 : Chain(place, k)
  BY DEF IInv
<1>3. /\ ~Ending /\ ~Ending' /\ Last' = Last /\ Fresh' = Fresh /\ Linkers' = Linkers
      /\ Live(place, k)' = Live(place, k) /\ Live(place, k) \subseteq Nodes
  BY <1>1, <1>2, PlaceFacts DEF Ending, Last, Fresh, Linkers, Live
<1>4. Ends(place, k)' /\ Linked(place, k)' /\ Linking(place, k)'
  BY <1>1, <1>3 DEF Chain, Ends, Linked, Linking
<1>5. Own(place, k)'
  BY <1>1, <1>3, NullIsNoNode DEF Chain, Own
<1>6. Uses(place, k)'
  <2>1. old # Null /\ old \notin Live(place, k) /\ \A q \in Fresh : node[q] # old
    BY <1>1 DEF Chain, Uses, Own
  <2>2. allocated' = Live(place, k) \cup {node[q] : q \in Fresh}
    BY <1>1, <2>1 DEF Chain, Uses
  <2> QED  BY <1>1, <1>3, <2>2, NullIsNoNode DEF Uses
<1>7. Values(place, k)' /\ Ended(k)'
  BY <1>1, <1>3 DEF Chain, Values, Ended, Ending
<1> QED  BY <1>2, <1>3, <1>4, <1>5, <1>6, <1>7 DEF Chain, IInv

\* The destructor goes along the chain, which nobody links any more.
LEMMA DestroyNodeKeeps ==
    ASSUME IInv, DestroyNode
    PROVE  IInv'
<1>1. /\ consumer = "destroying" /\ tail # Null /\ allocated' = allocated \ {tail}
      /\ tail' = next[tail]
      /\ UNCHANGED <<next, value, head, producer, node, prev, consumer, old, pushed, popped, pushes>>
  BY DEF DestroyNode, Deleted
<1>2. QueueTypeOK /\ QueueTypeOK'
  BY <1>1 DEF IInv, QueueTypeOK
<1> PICK place \in [0 .. Last -> Nodes], k \in 0 .. Last + 1 : Chain(place, k)
  BY DEF IInv
<1>3. /\ Ending /\ Ending' /\ Last' = Last /\ Fresh = {} /\ Fresh' = {} /\ Linkers = {}
      /\ Linkers' = {} /\ Live(place, k + 1)' = Live(place, k + 1) /\ old = Null
  BY <1>1 DEF Ending, Last, Fresh, Linkers, Live, Chain, Uses, Ended
<1>4. Last \in Nat /\ k \in 0 .. Last
  BY <1>1, <1>2, PlaceFacts DEF Chain, Ends
<1>5. /\ tail = place[k] /\ tail \in Nodes
      /\ Live(place, k) = Live(place, k + 1) \cup {tail}
      /\ tail \notin Live(place, k + 1)
      /\ k + 1 \in 0 .. Last + 1 /\ k + 1 .. Last \subseteq k .. Last
  BY <1>2, <1>4, TailMoves DEF Chain
<1>6. Ends(place, k + 1)'
  <2>1. CASE k = Last
    BY <1>1, <1>3, <1>4, <1>5, <2>1 DEF Chain, Ends
  <2>2. CASE k # Last
    <3>1. k \in k .. Last - 1 /\ k + 1 <= Last
      BY <1>4, <2>2
    <3>2. next[tail] = place[k + 1]
      BY <1>3, <1>5, <3>1 DEF Chain, Linked
    <3> QED  BY <1>1, <1>3, <1>5, <3>1, <3>2 DEF Chain, Ends
  <2> QED  BY <2>1, <2>2
<1>7. Linked(place, k + 1)' /\ Linking(place, k + 1)'
  <2>1. k + 1 .. Last - 1 \subseteq k .. Last - 1
    BY <1>4
  <2> QED  BY <1>1, <1>3, <2>1 DEF Chain, Linked, Linking
<1>8. Own(place, k + 1)'
  BY <1>3 DEF Own
<1>9. Uses(place, k + 1)'
  BY <1>1, <1>3, <1>5 DEF Chain, Uses
<1>10. Values(place, k + 1)' /\ Ended(k + 1)'
  BY <1>1, <1>3 DEF Chain, Values, Ended, Ending
<1> QED  BY <1>2, <1>3, <1>5, <1>6, <1>7, <1>8, <1>9, <1>10 DEF Chain, IInv

\* Steps that move the consumer alone.
LEMMA ConsumerKeeps ==
    ASSUME IInv, PopNothing \/ PopReturnsNothing \/ DestroyQueue \/ QueueDestroyed \/ UNCHANGED queueVars
    PROVE  IInv'
<1>1. /\ UNCHANGED <<allocated, next, value, head, tail, producer, node, prev, old, pushed, popped, pushes>>
      /\ (consumer' = "delete") <=> (consumer = "delete")
      /\ consumer' \in {"idle", "empty", "delete", "destroying", "destroyed"}
      /\ Ending => Ending'
      /\ ~Ending /\ Ending' => \A p \in Producers : producer[p] = "idle"
      /\ consumer' = "destroyed" => consumer = "destroyed" \/ tail = Null
  BY DEF IInv, QueueTypeOK, PopNothing, PopReturnsNothing, DestroyQueue, QueueDestroyed, queueVars, Ending
<1>2. QueueTypeOK /\ QueueTypeOK'
  BY <1>1 DEF IInv, QueueTypeOK
<1> PICK place \in [0 .. Last -> Nodes], k \in 0 .. Last + 1 : Chain(place, k)
  BY DEF IInv
<1>3. /\ Last' = Last /\ Fresh' = Fresh /\ Linkers' = Linkers /\ Last \in Nat
      /\ Live(place, k)' = Live(place, k)
  BY <1>1, <1>2, PlaceFacts DEF Last, Fresh, Linkers, Live
<1>4. Ends(place, k)' /\ Linked(place, k)' /\ Linking(place, k)'
  BY <1>1, <1>3 DEF Chain, Ends, Linked, Linking
<1>5. Own(place, k)' /\ Uses(place, k)' /\ Values(place, k)'
  BY <1>1, <1>3 DEF Chain, Own, Uses, Values
<1>6. tail = Null => k = Last + 1
  BY <1>2, <1>3, PlaceFacts, NullIsNoNode DEF Chain, Ends
<1>7. Ended(k)'
  BY <1>1, <1>3, <1>6 DEF Chain, Ended
<1> QED  BY <1>2, <1>3, <1>4, <1>5, <1>7 DEF Chain, IInv
-----------------------------------------------------------------------------
\* The chain is there in every state.
LEMMA ChainInvariant == QueueSpec => []IInv
<1>1. IInv /\ [QueueNext]_queueVars => IInv'
  <2> SUFFICES ASSUME IInv, [QueueNext]_queueVars PROVE IInv'
    OBVIOUS
  <2>1. ASSUME NEW p \in Producers, Push(p) PROVE IInv'
    BY <2>1, PushNewKeeps, PushExchangeKeeps, PushLinkKeeps DEF Push
  <2>2. CASE TryPop
    BY <2>2, ConsumerKeeps, PopValueKeeps, PopDeleteKeeps DEF TryPop
  <2>3. CASE DestroyQueue \/ QueueDestroyed \/ Gone \/ UNCHANGED queueVars
    BY <2>3, ConsumerKeeps DEF Gone
  <2>4. CASE DestroyNode
    BY <2>4, DestroyNodeKeeps
  <2> QED  BY <2>1, <2>2, <2>3, <2>4 DEF QueueNext
<1> QED  BY <1>1, InitInv, PTL DEF QueueSpec

\* For any producers, addresses and number of pushes, no pointer that is
\* followed points to deleted memory, and the destructor leaves nothing.
THEOREM QueueIsMemorySafe == QueueSpec => []MemoryIsSafe
<1>1. IInv => MemoryIsSafe
  <2> SUFFICES ASSUME IInv PROVE MemoryIsSafe
    OBVIOUS
  <2>1. QueueTypeOK
    BY DEF IInv
  <2> PICK place \in [0 .. Last -> Nodes], k \in 0 .. Last + 1 : Chain(place, k)
    BY DEF IInv
  <2>2. Last \in Nat /\ \A i \in k .. Last : place[i] \in allocated
    BY <2>1, PlaceFacts DEF Chain, Uses
  <2>3. ASSUME ~Ending PROVE {head, tail} \subseteq allocated
    <3>1. k \in k .. Last /\ Last \in k .. Last
      BY <2>1, <2>2, <2>3, PlaceFacts DEF Chain, Ended, Values
    <3> QED  BY <2>2, <3>1 DEF Chain, Ends
  <2>4. ASSUME NEW p \in Producers, producer[p] = "link" PROVE {prev[p], node[p]} \subseteq allocated
    <3>1. PICK i \in k .. Last - 1 : prev[p] = place[i] /\ node[p] = place[i + 1]
      BY <2>4 DEF Chain, Linking, Linkers
    <3>2. i \in k .. Last /\ i + 1 \in k .. Last
      BY <2>2
    <3> QED  BY <2>2, <3>1, <3>2
  <2>5. ASSUME consumer = "destroyed" PROVE allocated = {}
    <3>1. k = Last + 1 /\ Fresh = {} /\ old = Null
      BY <2>5 DEF Chain, Ended, Ending, Fresh, Uses
    <3>2. Live(place, k) = {}
      BY <2>2, <3>1 DEF Live
    <3> QED  BY <3>1, <3>2 DEF Chain, Uses
  <2> QED  BY <2>3, <2>4, <2>5 DEF MemoryIsSafe, Ending
<1> QED  BY <1>1, ChainInvariant, PTL

\* Values come out in the order of the exchanges, whoever pushed them.
THEOREM QueueIsFifo == QueueSpec => []FirstInFirstOut
<1>1. IInv => FirstInFirstOut
  <2> SUFFICES ASSUME IInv PROVE FirstInFirstOut
    OBVIOUS
  <2>1. pushed \in Seq(1 .. MaxPushes) /\ popped \in Seq(1 .. MaxPushes)
    BY DEF IInv, QueueTypeOK
  <2>2. Len(popped) <= Len(pushed) /\ \A i \in 1 .. Len(popped) : popped[i] = pushed[i]
    BY DEF IInv, Chain, Values, Last
  <2> DEFINE s == SubSeq(pushed, 1, Len(popped))
  <2>3. s \in Seq(1 .. MaxPushes) /\ Len(s) = Len(popped) /\ \A i \in 1 .. Len(s) : s[i] = pushed[i]
    <3>1. Len(popped) \in Nat /\ Len(pushed) \in Nat
      BY <2>1
    <3>2. \A i \in 1 .. Len(popped) : pushed[i] \in 1 .. MaxPushes
      BY <2>1, <2>2, <3>1, ElementOfSeq
    <3>3. /\ s \in Seq(1 .. MaxPushes)
          /\ Len(s) = IF 1 <= Len(popped) THEN Len(popped) - 1 + 1 ELSE 0
          /\ \A i \in 1 .. Len(popped) - 1 + 1 : s[i] = pushed[1 + i - 1]
      BY <3>1, <3>2, SubSeqProperties
    <3> HIDE DEF s
    <3> QED  BY <3>1, <3>3
  <2> HIDE DEF s
  <2>4. popped = s
    BY <2>1, <2>2, <2>3, SeqEqual
  <2> QED  BY <2>2, <2>4 DEF FirstInFirstOut, s
<1> QED  BY <1>1, ChainInvariant, PTL

\* Every value that tryPop returns is one that was pushed, and every
\* variable keeps its type.
THEOREM QueueIsTyped == QueueSpec => []QueueTypeOK
<1>1. IInv => QueueTypeOK
  BY DEF IInv
<1> QED  BY <1>1, ChainInvariant, PTL
=============================================================================
