----------------------------- MODULE StoreForward -----------------------------
(***************************************************************************)
(* What the server promises an id, whatever connections carry it: a queue  *)
(* of news that outlives connections, subscriptions that outlive them too, *)
(* and delivery from the head of the queue to an id that is online.        *)
(***************************************************************************)
EXTENDS Naturals, Sequences

CONSTANTS Id, Topic, News

VARIABLES
    online,     \* ids that have a connection
    forward,    \* pairs of a topic and an id: news only while it is online
    store,      \* the same with store-and-forward
    queue,      \* news that wait for each id
    taken       \* number of news taken so far

vars == <<online, forward, store, queue, taken>>

Init ==
    /\ online = {} /\ forward = {} /\ store = {}
    /\ queue = [id \in Id |-> <<>>]
    /\ taken = 0

Connect(id) ==
    /\ id \notin online
    /\ online' = online \cup {id}
    /\ UNCHANGED <<forward, store, queue, taken>>

Disconnect(id) ==
    /\ id \in online
    /\ online' = online \ {id}
    /\ UNCHANGED <<forward, store, queue, taken>>

Subscribe(id, topic, sf) ==
    /\ id \in online
    /\ forward' = IF sf THEN forward \ {<<topic, id>>}
                        ELSE forward \cup {<<topic, id>>}
    /\ store' = IF sf THEN store \cup {<<topic, id>>}
                      ELSE store \ {<<topic, id>>}
    /\ UNCHANGED <<online, queue, taken>>

Unsubscribe(id, topic) ==
    /\ id \in online
    /\ forward' = forward \ {<<topic, id>>}
    /\ store' = store \ {<<topic, id>>}
    /\ UNCHANGED <<online, queue, taken>>

\* News are taken in the order of their numbers; each reaches every id that
\* is entitled to it, once.
Entitled(id, topic) ==
    \/ <<topic, id>> \in store
    \/ <<topic, id>> \in forward /\ id \in online

Publish(news) ==
    /\ news[1] = taken + 1
    /\ taken' = news[1]
    /\ queue' = [id \in Id |-> IF Entitled(id, news[2])
                               THEN Append(queue[id], news) ELSE queue[id]]
    /\ UNCHANGED <<online, forward, store>>

Deliver(id) ==
    /\ id \in online
    /\ queue[id] # <<>>
    /\ queue' = [queue EXCEPT ![id] = Tail(@)]
    /\ UNCHANGED <<online, forward, store, taken>>

Next ==
    \/ \E id \in Id : Connect(id) \/ Disconnect(id) \/ Deliver(id)
    \/ \E id \in Id, topic \in Topic :
         Unsubscribe(id, topic) \/ \E sf \in BOOLEAN : Subscribe(id, topic, sf)
    \/ \E news \in News : Publish(news)

Spec == Init /\ [][Next]_vars
=============================================================================
