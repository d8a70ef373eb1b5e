-------------------------------- MODULE Fifo --------------------------------
(***************************************************************************)
(* What include/queue.h promises: every queue gives its elements back in   *)
(* the order they were put in, whatever happens to the other queues.       *)
(***************************************************************************)
EXTENDS Sequences

CONSTANTS Queue, Element, NULL

VARIABLES items,        \* the elements of each queue
          result        \* what the last queue_deq returned

vars == <<items, result>>

Init ==
    /\ items = [q \in Queue |-> <<>>]
    /\ result = NULL

Enq(q, e) ==
    /\ items' = [items EXCEPT ![q] = Append(@, e)]
    /\ UNCHANGED result

Deq(q) ==
    /\ items[q] # <<>>
    /\ result' = Head(items[q])
    /\ items' = [items EXCEPT ![q] = Tail(@)]

Next == \E q \in Queue : Deq(q) \/ \E e \in Element : Enq(q, e)

Spec == Init /\ [][Next]_vars
=============================================================================
