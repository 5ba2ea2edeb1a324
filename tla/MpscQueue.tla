----------------------------- MODULE MpscQueue -----------------------------
(***************************************************************************)
(* The lock-free queue of many producers and one consumer                  *)
(* (core/util/mpsc_queue.hpp), one step per access to shared memory.  A    *)
(* node is an address; a deleted node's address may be allocated again.    *)
(* The acquire and release orders of the code make each pair of store and  *)
(* load that matters here sequentially consistent.                         *)
(***************************************************************************)
EXTENDS Naturals, Sequences, FiniteSets

CONSTANTS Producers, \* threads that push
          Nodes,     \* addresses for nodes
          Null,      \* nullptr
          MaxPushes  \* bound on the calls of push

ASSUME NullIsNoNode == Null \notin Nodes
ASSUME MaxPushesIsNat == MaxPushes \in Nat

VARIABLES allocated, \* the addresses that hold a node
          next,      \* the next pointer of each node
          value,     \* the value in each node; 0 is T{} or moved from
          head, tail,
          producer,  \* control state of each producer
          node, prev, \* the producers' local pointers
          consumer,  \* control state of the consumer
          old,       \* the node the consumer is about to delete
          pushed,    \* history: values in the order of the exchanges
          popped,    \* history: values in the order they were returned
          pushes     \* number of calls of push: the value pushed

queueVars ==
    <<allocated, next, value, head, tail, producer, node, prev, consumer, old, pushed, popped, pushes>>

\* The constructor: a stub node.
QueueInit == \E stub \in Nodes :
          /\ allocated = {stub}
          /\ next = [n \in Nodes |-> Null]
          /\ value = [n \in Nodes |-> 0]
          /\ head = stub
          /\ tail = stub
          /\ producer = [p \in Producers |-> "idle"]
          /\ node = [p \in Producers |-> Null]
          /\ prev = [p \in Producers |-> Null]
          /\ consumer = "idle"
          /\ old = Null
          /\ pushed = <<>>
          /\ popped = <<>>
          /\ pushes = 0
-----------------------------------------------------------------------------
(* push                                                                    *)

\* new Node { .value = ... }
PushNew(p) ==
    /\ consumer \notin {"destroying", "destroyed"}
    /\ producer[p] = "idle"
    /\ pushes < MaxPushes
    /\ \E n \in Nodes \ allocated :
          /\ allocated' = allocated \cup {n}
          /\ next' = [next EXCEPT ![n] = Null]
          /\ value' = [value EXCEPT ![n] = pushes + 1]
          /\ node' = [node EXCEPT ![p] = n]
    /\ pushes' = pushes + 1
    /\ producer' = [producer EXCEPT ![p] = "exchange"]
    /\ UNCHANGED <<head, tail, prev, consumer, old, pushed, popped>>

\* head.exchange(node): from here on the value has its place in the queue.
PushExchange(p) ==
    /\ producer[p] = "exchange"
    /\ prev' = [prev EXCEPT ![p] = head]
    /\ head' = node[p]
    /\ pushed' = Append(pushed, value[node[p]])
    /\ producer' = [producer EXCEPT ![p] = "link"]
    /\ UNCHANGED <<allocated, next, value, tail, node, consumer, old, popped, pushes>>

\* Mutant: the head of now, not the one the exchange returned.
CurrentHead(p) == head

Predecessor(p) == prev[p]

\* prev->next.store(node)
PushLink(p) ==
    /\ producer[p] = "link"
    /\ next' = [next EXCEPT ![Predecessor(p)] = node[p]]
    /\ producer' = [producer EXCEPT ![p] = "idle"]
    /\ node' = [node EXCEPT ![p] = Null]
    /\ prev' = [prev EXCEPT ![p] = Null]
    /\ UNCHANGED <<allocated, value, head, tail, consumer, old, pushed, popped, pushes>>
-----------------------------------------------------------------------------
(* tryPop                                                                  *)

\* tail->next is null: std::nullopt
PopNothing ==
    /\ consumer = "idle"
    /\ next[tail] = Null
    /\ consumer' = "empty"
    /\ UNCHANGED <<allocated, next, value, head, tail, producer, node, prev, old, pushed, popped, pushes>>

PopReturnsNothing ==
    /\ consumer = "empty"
    /\ consumer' = "idle"
    /\ UNCHANGED <<allocated, next, value, head, tail, producer, node, prev, old, pushed, popped, pushes>>

\* Mutant: the newest node.
Newest == head

First == next[tail]

\* Mutant: the node that has just lost its value.
Emptied == next[tail]

Garbage == tail

\* The value is moved out of the node after the tail, which is the new tail.
PopValue ==
    /\ consumer = "idle"
    /\ next[tail] # Null
    /\ popped' = Append(popped, value[First])
    /\ value' = [value EXCEPT ![First] = 0]
    /\ old' = Garbage
    /\ tail' = First
    /\ consumer' = "delete"
    /\ UNCHANGED <<allocated, next, head, producer, node, prev, pushed, pushes>>

Deleted(n) == allocated \ {n}

\* delete old
PopDelete ==
    /\ consumer = "delete"
    /\ allocated' = Deleted(old)
    /\ old' = Null
    /\ consumer' = "idle"
    /\ UNCHANGED <<next, value, head, tail, producer, node, prev, pushed, popped, pushes>>
-----------------------------------------------------------------------------
(* The destructor, when the producers have returned                        *)

DestroyQueue ==
    /\ consumer = "idle"
    /\ \A p \in Producers : producer[p] = "idle"
    /\ consumer' = "destroying"
    /\ UNCHANGED <<allocated, next, value, head, tail, producer, node, prev, old, pushed, popped, pushes>>

\* One turn of the loop: delete the node and go on to the next.
DestroyNode ==
    /\ consumer = "destroying"
    /\ tail # Null
    /\ allocated' = Deleted(tail)
    /\ tail' = next[tail]
    /\ UNCHANGED <<next, value, head, producer, node, prev, consumer, old, pushed, popped, pushes>>

QueueDestroyed ==
    /\ consumer = "destroying"
    /\ tail = Null
    /\ consumer' = "destroyed"
    /\ UNCHANGED <<allocated, next, value, head, tail, producer, node, prev, old, pushed, popped, pushes>>

Gone == consumer = "destroyed" /\ UNCHANGED queueVars
-----------------------------------------------------------------------------
Push(p) == PushNew(p) \/ PushExchange(p) \/ PushLink(p)
TryPop == PopNothing \/ PopReturnsNothing \/ PopValue \/ PopDelete

QueueNext ==
    \/ \E p \in Producers : Push(p)
    \/ TryPop \/ DestroyQueue \/ DestroyNode \/ QueueDestroyed \/ Gone

\* A push that has begun ends, and the consumer goes on polling.
QueueFairness ==
    /\ \A p \in Producers : WF_queueVars(PushExchange(p) \/ PushLink(p))
    /\ WF_queueVars(TryPop)

QueueSpec == QueueInit /\ [][QueueNext]_queueVars /\ QueueFairness
-----------------------------------------------------------------------------
(* Properties                                                              *)

\* The variables have their types; in particular a value that tryPop returns is
\* one that was pushed, never the stub's or one moved from.
QueueTypeOK ==
    /\ allocated \subseteq Nodes
    /\ next \in [Nodes -> Nodes \cup {Null}]
    /\ value \in [Nodes -> 0..MaxPushes]
    /\ head \in Nodes
    /\ tail \in Nodes \cup {Null}
    /\ producer \in [Producers -> {"idle", "exchange", "link"}]
    /\ node \in [Producers -> Nodes \cup {Null}]
    /\ prev \in [Producers -> Nodes \cup {Null}]
    /\ consumer \in {"idle", "empty", "delete", "destroying", "destroyed"}
    /\ old \in Nodes \cup {Null}
    /\ pushed \in Seq(1..MaxPushes)
    /\ popped \in Seq(1..MaxPushes)
    /\ pushes \in 0..MaxPushes

\* No pointer that is going to be followed points to deleted memory: a producer
\* may still have to store into prev when the consumer has gone far past it.
\* And the destructor frees every node, the stub and what was left included.
MemoryIsSafe ==
    /\ consumer \notin {"destroying", "destroyed"} =>
         /\ {head, tail} \subseteq allocated
         /\ \A p \in Producers : producer[p] = "link" => {prev[p], node[p]} \subseteq allocated
    /\ consumer = "destroyed" => allocated = {}

\* Values come out in the order of the exchanges, none lost and none doubled;
\* so the values of one producer come out in the order it pushed them.
FirstInFirstOut == Len(popped) <= Len(pushed) /\ popped = SubSeq(pushed, 1, Len(popped))

\* A value that is in the queue is popped in the end, although a producer that
\* is between exchange and store hides the ones pushed after it.
Delivered == \A n \in 1..MaxPushes :
    Len(pushed) >= n ~> Len(popped) >= n \/ consumer \in {"destroying", "destroyed"}
=============================================================================
