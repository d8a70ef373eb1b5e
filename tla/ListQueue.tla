------------------------------ MODULE ListQueue ------------------------------
(***************************************************************************)
(* tema1: the queues of the router (queue.c) as they lie in memory, cells  *)
(* (list.c) that all queues share: a cell that one queue frees is the next *)
(* one's, while the first may still have it as its tail.                   *)
(*                                                                         *)
(* A queue's struct is there from the start, empty as queue_create leaves  *)
(* it; malloc gives any cell that is free, and the code does not look      *)
(* whether there is one.                                                   *)
(***************************************************************************)
EXTENDS Naturals, Sequences

CONSTANTS Queue,        \* messages_to_send, new_q, arp_entries
          Element,      \* what they hold, void *
          Cell,         \* bound: the memory for cells
          NULL

ASSUME HeapAssumption == NULL \notin Cell

VARIABLES head, tail,       \* struct queue
          element, next,    \* struct cell
          allocated,        \* the cells that were given by malloc and not freed
          result,           \* what the last queue_deq returned
          chain             \* auxiliary: the cells of each queue in order

vars == <<head, tail, element, next, allocated, result, chain>>

\* Memory holds anything before it is written.
Init ==
    /\ head = [q \in Queue |-> NULL] /\ tail = [q \in Queue |-> NULL]
    /\ element \in [Cell -> Element] /\ next \in [Cell -> Cell \cup {NULL}]
    /\ allocated = {}
    /\ result = NULL
    /\ chain = [q \in Queue |-> <<>>]

queue_empty(q) == head[q] = NULL

NextUnwritten(c) == next            \* mistake: the cell's next is not set
NextWritten(c) == [next EXCEPT ![c] = NULL]

\* cons(e, NULL) in the cell c.
cons(c, e) ==
    /\ allocated' = allocated \cup {c}
    /\ element' = [element EXCEPT ![c] = e]

TailOnce(q, c) == IF queue_empty(q) THEN c ELSE tail[q]     \* mistake: never moved
NewTail(q, c) == c

queue_enq(q, e) ==
    /\ \E c \in Cell \ allocated :
         /\ cons(c, e)
         /\ IF queue_empty(q)
            THEN /\ head' = [head EXCEPT ![q] = c]
                 /\ next' = NextWritten(c)
            ELSE /\ next' = [NextWritten(c) EXCEPT ![tail[q]] = c]
                 /\ UNCHANGED head
         /\ tail' = [tail EXCEPT ![q] = NewTail(q, c)]
         /\ chain' = [chain EXCEPT ![q] = Append(@, c)]
    /\ UNCHANGED result

FreedNext(l) == allocated \ {next[l]}   \* mistake: frees what it returns
Kept(l) == allocated                    \* mistake: frees nothing
Freed(l) == allocated \ {l}

\* tail keeps its value when the last cell goes.
queue_deq(q) ==
    /\ ~queue_empty(q)
    /\ result' = element[head[q]]
    /\ head' = [head EXCEPT ![q] = next[head[q]]]
    /\ allocated' = Freed(head[q])
    /\ chain' = [chain EXCEPT ![q] = Tail(@)]
    /\ UNCHANGED <<tail, element, next>>

Next == \E q \in Queue : queue_deq(q) \/ \E e \in Element : queue_enq(q, e)

Spec == Init /\ [][Next]_vars

(***************************************************************************)
(* Properties.                                                             *)
(***************************************************************************)
\* Type invariant; no head points to memory that was freed (queue.c 24-42).
TypeOK ==
    /\ head \in [Queue -> allocated \cup {NULL}]
    /\ tail \in [Queue -> Cell \cup {NULL}]
    /\ element \in [Cell -> Element] /\ next \in [Cell -> Cell \cup {NULL}]
    /\ allocated \subseteq Cell
    /\ result \in Element \cup {NULL}
    /\ chain \in [Queue -> Seq(allocated)]

\* Following next from head meets the queue's cells, all of them, and then
\* NULL, as the loop over arp_entries does; and tail is the last one whenever
\* queue_enq writes through it (queue.c 24-42, router.c 204).
Linked ==
    \A q \in Queue : LET cs == chain[q]
                     IN  /\ head[q] = IF cs = <<>> THEN NULL ELSE cs[1]
                         /\ cs # <<>> => tail[q] = cs[Len(cs)]
                         /\ \A k \in DOMAIN cs :
                              next[cs[k]] = IF k = Len(cs) THEN NULL ELSE cs[k + 1]

\* No cell is in two places, and none is allocated and lost: a freed cell that
\* another queue was given is not reached from its old one (list.c 4-17).
Apart ==
    /\ \A q, r \in Queue : \A j \in DOMAIN chain[q], k \in DOMAIN chain[r] :
         chain[q][j] = chain[r][k] => q = r /\ j = k
    /\ \A c \in allocated : \E q \in Queue : \E k \in DOMAIN chain[q] : chain[q][k] = c

\* The queues are first in, first out, each by itself (include/queue.h).
F == INSTANCE Fifo WITH
         items <- [q \in Queue |-> [k \in DOMAIN chain[q] |-> element[chain[q][k]]]]
ImplementsFifo == F!Spec
=============================================================================
