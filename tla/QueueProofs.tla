----------------------------- MODULE QueueProofs -----------------------------
(***************************************************************************)
(* Theorems about the queues in memory: that they are first in, first out. *)
(***************************************************************************)
EXTENDS ListQueue, SequenceTheorems, TLAPS

LEMMA Appended ==
    ASSUME NEW S, NEW s \in Seq(S), NEW e
    PROVE  /\ \A T : S \subseteq T /\ e \in T => Append(s, e) \in Seq(T)
           /\ DOMAIN s = 1 .. Len(s) /\ Len(s) \in Nat
           /\ DOMAIN Append(s, e) = 1 .. Len(s) + 1
           /\ Len(Append(s, e)) = Len(s) + 1 /\ Append(s, e) # <<>>
           /\ Append(s, e)[Len(s) + 1] = e
           /\ \A k \in DOMAIN s : Append(s, e)[k] = s[k]
  OBVIOUS

LEMMA Taken ==
    ASSUME NEW S, NEW s \in Seq(S), s # <<>>
    PROVE  /\ Head(s) = s[1] /\ Tail(s) \in Seq(S)
           /\ DOMAIN s = 1 .. Len(s) /\ Len(s) \in Nat \ {0} /\ 1 \in DOMAIN s
           /\ Len(Tail(s)) = Len(s) - 1 /\ DOMAIN Tail(s) = 1 .. Len(s) - 1
           /\ \A k \in DOMAIN Tail(s) : k + 1 \in DOMAIN s /\ Tail(s)[k] = s[k + 1]
           /\ Tail(s) = <<>> <=> Len(s) = 1
  <1>1. Len(s) \in Nat \ {0} /\ DOMAIN s = 1 .. Len(s)
    BY LenProperties, EmptySeq
  <1>2. /\ Head(s) = s[1] /\ Tail(s) \in Seq(S)
        /\ Len(Tail(s)) = Len(s) - 1
        /\ \A k \in 1 .. Len(Tail(s)) : Tail(s)[k] = s[k + 1]
    BY HeadTailProperties
  <1>3. DOMAIN Tail(s) = 1 .. Len(s) - 1
    BY <1>2, LenProperties
  <1>4. Tail(s) = <<>> <=> Len(Tail(s)) = 0
    BY <1>2, EmptySeq
  <1>. QED
    BY <1>1, <1>2, <1>3, <1>4

LEMMA Narrowed ==
    ASSUME NEW S, NEW T, NEW s \in Seq(S), \A k \in DOMAIN s : s[k] \in T
    PROVE  s \in Seq(T)
  <1>1. s \in [1 .. Len(s) -> T] /\ Len(s) \in Nat
    OBVIOUS
  <1>. QED
    BY <1>1

(***************************************************************************)
(* The invariant: the links in memory are those of the chains.             *)
(***************************************************************************)
IInv == TypeOK /\ Linked /\ Apart

\* What the invariant says of one queue.
LEMMA OneChain ==
    ASSUME IInv, NEW q \in Queue
    PROVE  /\ chain[q] \in Seq(allocated) /\ DOMAIN chain[q] = 1 .. Len(chain[q])
           /\ Len(chain[q]) \in Nat
           /\ \A k \in DOMAIN chain[q] :
                 /\ chain[q][k] \in allocated /\ chain[q][k] \in Cell
                 /\ chain[q][k] # NULL
                 /\ next[chain[q][k]] = IF k = Len(chain[q]) THEN NULL
                                        ELSE chain[q][k + 1]
           /\ queue_empty(q) <=> chain[q] = <<>>
           /\ chain[q] # <<>> => /\ 1 \in DOMAIN chain[q] /\ head[q] = chain[q][1]
                                 /\ Len(chain[q]) \in DOMAIN chain[q]
                                 /\ tail[q] = chain[q][Len(chain[q])]
  <1>1. chain[q] \in Seq(allocated) /\ allocated \subseteq Cell
    BY DEF IInv, TypeOK
  <1>2. DOMAIN chain[q] = 1 .. Len(chain[q]) /\ Len(chain[q]) \in Nat
    BY <1>1
  <1>3. \A k \in DOMAIN chain[q] : chain[q][k] \in allocated
    BY <1>1, <1>2
  <1>4. chain[q] # <<>> => Len(chain[q]) # 0
    BY <1>1
  <1>5. chain[q] # <<>> => 1 \in DOMAIN chain[q] /\ Len(chain[q]) \in DOMAIN chain[q]
    BY <1>2, <1>4
  <1>6. /\ head[q] = IF chain[q] = <<>> THEN NULL ELSE chain[q][1]
        /\ chain[q] # <<>> => tail[q] = chain[q][Len(chain[q])]
        /\ \A k \in DOMAIN chain[q] :
             next[chain[q][k]] = IF k = Len(chain[q]) THEN NULL ELSE chain[q][k + 1]
    BY DEF IInv, Linked
  <1>. QED
    BY <1>1, <1>2, <1>3, <1>5, <1>6, HeapAssumption DEF queue_empty

Items == [q \in Queue |-> [k \in DOMAIN chain[q] |-> element[chain[q][k]]]]

LEMMA ItemsOf ==
    ASSUME IInv, NEW q \in Queue
    PROVE  /\ Items[q] \in Seq(Element) /\ Len(Items[q]) = Len(chain[q])
           /\ DOMAIN Items[q] = DOMAIN chain[q]
           /\ \A k \in DOMAIN chain[q] : Items[q][k] = element[chain[q][k]]
           /\ Items[q] = <<>> <=> chain[q] = <<>>
  <1>1. DOMAIN chain[q] = 1 .. Len(chain[q]) /\ Len(chain[q]) \in Nat
    BY OneChain
  <1>2. \A k \in DOMAIN chain[q] : element[chain[q][k]] \in Element
    BY OneChain DEF IInv, TypeOK
  <1>3. Items[q] = [k \in 1 .. Len(chain[q]) |-> element[chain[q][k]]]
    BY <1>1 DEF Items
  <1>4. Items[q] \in Seq(Element) /\ Len(Items[q]) = Len(chain[q])
    BY <1>1, <1>2, <1>3
  <1>5. chain[q] \in Seq(allocated)
    BY OneChain
  <1>. QED
    BY <1>1, <1>3, <1>4, <1>5

LEMMA InitQueue ==
    ASSUME Init
    PROVE  IInv /\ F!Init
  <1>1. TypeOK
    BY DEF Init, TypeOK
  <1>2. Linked
    <2>1. \A q \in Queue : head[q] = NULL /\ chain[q] = <<>>
      BY DEF Init
    <2>2. DOMAIN <<>> = {}
      OBVIOUS
    <2>. QED
      BY <2>1, <2>2 DEF Linked
  <1>3. Apart
    BY DEF Init, Apart
  <1>4. Items = [q \in Queue |-> <<>>]
    BY DEF Init, Items
  <1>. QED
    BY <1>1, <1>2, <1>3, <1>4 DEF IInv, Init, F!Init, Items

(***************************************************************************)
(* queue_enq: the cell is new, so nothing leads to it yet.                 *)
(***************************************************************************)
LEMMA EnqKeeps ==
    ASSUME IInv, NEW q \in Queue, NEW e \in Element, queue_enq(q, e)
    PROVE  IInv' /\ F!Enq(q, e)
  <1>1. PICK c \in Cell \ allocated :
          /\ cons(c, e)
          /\ IF queue_empty(q)
             THEN head' = [head EXCEPT ![q] = c] /\ next' = NextWritten(c)
             ELSE next' = [NextWritten(c) EXCEPT ![tail[q]] = c] /\ UNCHANGED head
          /\ tail' = [tail EXCEPT ![q] = NewTail(q, c)]
          /\ chain' = [chain EXCEPT ![q] = Append(@, c)]
    BY DEF queue_enq
  <1>2. /\ allocated' = allocated \cup {c} /\ result' = result
        /\ element' = [element EXCEPT ![c] = e]
        /\ tail' = [tail EXCEPT ![q] = c]
    BY <1>1 DEF queue_enq, cons, NewTail
  <1>3. /\ chain'[q] = Append(chain[q], c) /\ tail'[q] = c
        /\ \A r \in Queue \ {q} : chain'[r] = chain[r] /\ tail'[r] = tail[r]
        /\ \A d \in Cell \ {c} : element'[d] = element[d]
        /\ element'[c] = e
    BY <1>1, <1>2 DEF IInv, TypeOK
  <1>4. \A r \in Queue : \A k \in DOMAIN chain[r] : chain[r][k] # c
    BY OneChain
  <1>5. /\ DOMAIN chain'[q] = 1 .. Len(chain[q]) + 1 /\ Len(chain[q]) \in Nat
        /\ DOMAIN chain[q] = 1 .. Len(chain[q])
        /\ Len(chain'[q]) = Len(chain[q]) + 1 /\ chain'[q] # <<>>
        /\ chain'[q][Len(chain[q]) + 1] = c
        /\ \A k \in DOMAIN chain[q] : chain'[q][k] = chain[q][k]
    BY <1>3, OneChain, Appended
  <1>6. next'[c] = NULL /\ next' \in [Cell -> Cell \cup {NULL}]
        /\ \A d \in Cell \ {c} :
             next'[d] = IF chain[q] # <<>> /\ d = tail[q] THEN c ELSE next[d]
    <2>1. next \in [Cell -> Cell \cup {NULL}]
      BY DEF IInv, TypeOK
    <2>2. CASE queue_empty(q)
      BY <1>1, <2>1, <2>2, OneChain DEF NextWritten
    <2>3. CASE ~queue_empty(q)
      <3>1. chain[q] # <<>> /\ tail[q] \in Cell /\ tail[q] # c
        BY <1>4, <2>3, OneChain
      <3>2. next' = [NextWritten(c) EXCEPT ![tail[q]] = c]
        BY <1>1, <2>3
      <3>. QED
        BY <2>1, <3>1, <3>2 DEF NextWritten
    <2>. QED
      BY <2>2, <2>3
  <1>7. /\ head'[q] = IF chain[q] = <<>> THEN c ELSE head[q]
        /\ \A r \in Queue \ {q} : head'[r] = head[r]
    BY <1>1, OneChain DEF IInv, TypeOK
  <1>8. TypeOK'
    <2>1. allocated' \subseteq Cell /\ allocated \subseteq allocated'
      BY <1>2 DEF IInv, TypeOK
    <2>2. head' \in [Queue -> allocated' \cup {NULL}]
      BY <1>1, <1>2 DEF IInv, TypeOK
    <2>3. tail' \in [Queue -> Cell \cup {NULL}] /\ element' \in [Cell -> Element]
      BY <1>2 DEF IInv, TypeOK
    <2>4. chain' \in [Queue -> Seq(allocated')]
      <3>1. chain \in [Queue -> Seq(allocated)]
        BY DEF IInv, TypeOK
      <3>2. Append(chain[q], c) \in Seq(allocated')
        BY <1>2, <2>1, <3>1, Appended
      <3>3. \A r \in Queue : chain[r] \in Seq(allocated')
        BY <2>1, <3>1
      <3>. QED
        BY <1>1, <3>1, <3>2, <3>3
    <2>. QED
      BY <1>2, <1>6, <2>1, <2>2, <2>3, <2>4 DEF IInv, TypeOK
  <1>9. Linked'
    <2>1. SUFFICES ASSUME NEW r \in Queue
                   PROVE  /\ head'[r] = IF chain'[r] = <<>> THEN NULL ELSE chain'[r][1]
                          /\ chain'[r] # <<>> => tail'[r] = chain'[r][Len(chain'[r])]
                          /\ \A k \in DOMAIN chain'[r] :
                               next'[chain'[r][k]] = IF k = Len(chain'[r]) THEN NULL
                                                     ELSE chain'[r][k + 1]
      BY DEF Linked
    <2>2. CASE r = q
      <3>1. head'[q] = chain'[q][1] /\ tail'[q] = chain'[q][Len(chain'[q])]
        BY <1>3, <1>5, <1>7, OneChain
      <3>2. ASSUME NEW k \in DOMAIN chain'[q]
            PROVE  next'[chain'[q][k]] = IF k = Len(chain'[q]) THEN NULL
                                         ELSE chain'[q][k + 1]
        <4>1. CASE k = Len(chain[q]) + 1
          BY <1>5, <1>6, <4>1
        <4>2. CASE k = Len(chain[q])
          <5>1. k \in DOMAIN chain[q] /\ chain[q] # <<>> /\ tail[q] = chain[q][k]
            BY <1>5, <3>2, <4>2, OneChain
          <5>. QED
            BY <1>4, <1>5, <1>6, <4>2, <5>1, OneChain
        <4>3. CASE k < Len(chain[q])
          <5>1. k \in DOMAIN chain[q] /\ k + 1 \in DOMAIN chain[q]
            BY <1>5, <3>2, <4>3
          <5>2. chain[q][k] # chain[q][Len(chain[q])]
            BY <1>5, <4>3, <5>1 DEF IInv, Apart
          <5>3. next'[chain[q][k]] = next[chain[q][k]]
            BY <1>4, <1>6, <5>1, <5>2, OneChain
          <5>4. next[chain[q][k]] = chain[q][k + 1]
            BY <1>5, <4>3, <5>1, OneChain
          <5>. QED
            BY <1>5, <4>3, <5>1, <5>3, <5>4
        <4>. QED
          BY <1>5, <3>2, <4>1, <4>2, <4>3
      <3>. QED
        BY <1>5, <2>2, <3>1, <3>2
    <2>3. CASE r # q
      <3>1. chain'[r] = chain[r] /\ tail'[r] = tail[r] /\ head'[r] = head[r]
        BY <1>3, <1>7, <2>3
      <3>2. ASSUME NEW k \in DOMAIN chain[r]
            PROVE  next'[chain[r][k]] = next[chain[r][k]]
        <4>1. chain[q] # <<>> => chain[r][k] # tail[q]
          BY <2>3, OneChain DEF IInv, Apart
        <4>. QED
          BY <1>4, <1>6, <4>1, OneChain
      <3>. QED
        BY <3>1, <3>2 DEF IInv, Linked
    <2>. QED
      BY <2>2, <2>3
  <1>10. Apart'
    <2>1. ASSUME NEW r \in Queue, NEW s \in Queue,
                 NEW j \in DOMAIN chain'[r], NEW k \in DOMAIN chain'[s],
                 chain'[r][j] = chain'[s][k]
          PROVE  r = s /\ j = k
      <3>1. \A t \in Queue : \A m \in DOMAIN chain'[t] :
              \/ t = q /\ m = Len(chain[q]) + 1 /\ chain'[t][m] = c
              \/ m \in DOMAIN chain[t] /\ chain'[t][m] = chain[t][m]
        BY <1>3, <1>5
      <3>. QED
        BY <1>4, <2>1, <3>1 DEF IInv, Apart
    <2>2. ASSUME NEW d \in allocated'
          PROVE  \E r \in Queue : \E k \in DOMAIN chain'[r] : chain'[r][k] = d
      <3>1. CASE d = c
        <4>1. Len(chain[q]) + 1 \in DOMAIN chain'[q]
          BY <1>5
        <4>. QED
          BY <1>5, <3>1, <4>1
      <3>2. CASE d # c
        <4>1. PICK r \in Queue : \E k \in DOMAIN chain[r] : chain[r][k] = d
          BY <1>2, <2>2, <3>2 DEF IInv, Apart
        <4>2. \A k \in DOMAIN chain[r] : k \in DOMAIN chain'[r] /\ chain'[r][k] = chain[r][k]
          BY <1>3, <1>5
        <4>. QED
          BY <4>1, <4>2
      <3>. QED
        BY <3>1, <3>2
    <2>. QED
      BY <2>1, <2>2 DEF Apart
  <1>11. Items' = [Items EXCEPT ![q] = Append(@, e)]
    <2>1. ASSUME NEW r \in Queue, r # q
          PROVE  Items'[r] = Items[r]
      <3>1. \A k \in DOMAIN chain[r] : element'[chain[r][k]] = element[chain[r][k]]
        BY <1>3, <1>4, OneChain
      <3>. QED
        BY <1>3, <2>1, <3>1 DEF Items
    <2>2. Items'[q] = Append(Items[q], e)
      <3>1. Items'[q] = [k \in 1 .. Len(chain[q]) + 1 |-> element'[chain'[q][k]]]
        BY <1>5 DEF Items
      <3>2. \A k \in 1 .. Len(chain[q]) : element'[chain'[q][k]] = Items[q][k]
        BY <1>3, <1>4, <1>5, OneChain, ItemsOf
      <3>3. element'[chain'[q][Len(chain[q]) + 1]] = e
        BY <1>3, <1>5
      <3>4. Items[q] \in Seq(Element) /\ Len(Items[q]) = Len(chain[q])
        BY ItemsOf
      <3>5. /\ Append(Items[q], e) = [k \in 1 .. Len(chain[q]) + 1 |->
                                       IF k = Len(chain[q]) + 1 THEN e ELSE Items[q][k]]
        BY <3>4
      <3>. QED
        BY <1>5, <3>1, <3>2, <3>3, <3>5
    <2>. QED
      BY <2>1, <2>2 DEF Items
  <1>. QED
    BY <1>2, <1>8, <1>9, <1>10, <1>11 DEF IInv, F!Enq, Items

(***************************************************************************)
(* queue_deq: the first cell goes; nothing else leads to it.               *)
(***************************************************************************)
LEMMA DeqKeeps ==
    ASSUME IInv, NEW q \in Queue, queue_deq(q)
    PROVE  IInv' /\ F!Deq(q)
  <1>1. /\ chain[q] # <<>> /\ 1 \in DOMAIN chain[q] /\ head[q] = chain[q][1]
        /\ chain[q] \in Seq(allocated) /\ Len(chain[q]) \in Nat \ {0}
    BY OneChain, Taken DEF queue_deq
  <1>2. /\ allocated' = allocated \ {chain[q][1]}
        /\ tail' = tail /\ element' = element /\ next' = next
        /\ result' = element[chain[q][1]]
        /\ head' = [head EXCEPT ![q] = next[chain[q][1]]]
        /\ chain' = [chain EXCEPT ![q] = Tail(@)]
    BY <1>1 DEF queue_deq, Freed
  <1>3. /\ chain'[q] = Tail(chain[q]) /\ head'[q] = next[chain[q][1]]
        /\ \A r \in Queue \ {q} : chain'[r] = chain[r] /\ head'[r] = head[r]
    BY <1>2 DEF IInv, TypeOK
  <1>4. /\ Len(chain'[q]) = Len(chain[q]) - 1
        /\ DOMAIN chain[q] = 1 .. Len(chain[q])
        /\ DOMAIN chain'[q] = 1 .. Len(chain[q]) - 1
        /\ chain'[q] \in Seq(allocated)
        /\ \A k \in DOMAIN chain'[q] :
             k + 1 \in DOMAIN chain[q] /\ chain'[q][k] = chain[q][k + 1]
        /\ chain'[q] = <<>> <=> Len(chain[q]) = 1
    BY <1>1, <1>3, Taken
  <1>5. /\ \A r \in Queue \ {q} : \A k \in DOMAIN chain[r] :
             chain[r][k] # chain[q][1]
        /\ \A k \in DOMAIN chain'[q] : chain'[q][k] # chain[q][1]
    <2>1. \A k \in DOMAIN chain[q] : k # 1 => chain[q][k] # chain[q][1]
      BY <1>1 DEF IInv, Apart
    <2>2. \A k \in DOMAIN chain'[q] : k + 1 # 1
      BY <1>1, <1>4
    <2>. QED
      BY <1>1, <1>4, <2>1, <2>2 DEF IInv, Apart
  <1>6. head'[q] = IF chain'[q] = <<>> THEN NULL ELSE chain'[q][1]
    <2>1. head'[q] = IF Len(chain[q]) = 1 THEN NULL ELSE chain[q][1 + 1]
      BY <1>1, <1>3, OneChain
    <2>2. CASE Len(chain[q]) = 1
      BY <1>4, <2>1, <2>2
    <2>3. CASE Len(chain[q]) # 1
      <3>1. 1 \in DOMAIN chain'[q]
        BY <1>1, <1>4, <2>3
      <3>. QED
        BY <1>4, <2>1, <2>3, <3>1
    <2>. QED
      BY <2>2, <2>3
  <1>7. \A r \in Queue : chain'[r] \in Seq(allocated')
    <2>1. SUFFICES ASSUME NEW r \in Queue PROVE chain'[r] \in Seq(allocated')
      OBVIOUS
    <2>2. chain'[r] \in Seq(allocated)
      BY <1>3, <1>4, OneChain
    <2>3. \A k \in DOMAIN chain'[r] : chain'[r][k] \in allocated
      BY <2>2
    <2>4. \A k \in DOMAIN chain'[r] : chain'[r][k] \in allocated'
      BY <1>2, <1>3, <1>5, <2>3
    <2>. QED
      BY <2>2, <2>4, Narrowed
  <1>8. TypeOK'
    <2>1. head' \in [Queue -> allocated' \cup {NULL}]
      <3>1. ASSUME NEW r \in Queue PROVE head'[r] \in allocated' \cup {NULL}
        <4>1. chain'[r] = <<>> \/ chain'[r][1] \in allocated'
          BY <1>7
        <4>2. head'[r] = IF chain'[r] = <<>> THEN NULL ELSE chain'[r][1]
          BY <1>3, <1>6, ZenonT(60) DEF IInv, Linked
        <4>. QED
          BY <4>1, <4>2
      <3>2. head' = [r \in Queue |-> head'[r]]
        BY <1>2 DEF IInv, TypeOK
      <3>. QED
        BY <3>1, <3>2
    <2>2. chain' \in [Queue -> Seq(allocated')]
      <3>1. chain' = [r \in Queue |-> chain'[r]]
        BY <1>2 DEF IInv, TypeOK
      <3>. QED
        BY <1>7, <3>1
    <2>3. result' \in Element \cup {NULL} /\ allocated' \subseteq Cell
      BY <1>1, <1>2, OneChain DEF IInv, TypeOK
    <2>. QED
      BY <1>2, <2>1, <2>2, <2>3 DEF IInv, TypeOK
  <1>9. Linked'
    <2>1. chain'[q] # <<>> => tail'[q] = chain'[q][Len(chain'[q])]
      <3>1. SUFFICES ASSUME chain'[q] # <<>> PROVE tail'[q] = chain'[q][Len(chain'[q])]
        OBVIOUS
      <3>2. Len(chain[q]) - 1 \in DOMAIN chain'[q]
        BY <1>1, <1>4, <3>1
      <3>3. (Len(chain[q]) - 1) + 1 = Len(chain[q])
        BY <1>1
      <3>. QED
        BY <1>1, <1>2, <1>4, <3>2, <3>3, OneChain
    <2>2. ASSUME NEW k \in DOMAIN chain'[q]
          PROVE  next'[chain'[q][k]] = IF k = Len(chain'[q]) THEN NULL
                                       ELSE chain'[q][k + 1]
      <3>1. k \in 1 .. Len(chain[q]) - 1 /\ k + 1 \in DOMAIN chain[q]
        BY <1>4, <2>2
      <3>2. next'[chain'[q][k]] = IF k + 1 = Len(chain[q]) THEN NULL
                                  ELSE chain[q][(k + 1) + 1]
        BY <1>2, <1>4, <3>1, OneChain
      <3>3. CASE k = Len(chain'[q])
        BY <1>1, <1>4, <3>1, <3>2, <3>3
      <3>4. CASE k # Len(chain'[q])
        <4>1. k + 1 \in DOMAIN chain'[q] /\ k + 1 # Len(chain[q])
          BY <1>1, <1>4, <3>1, <3>4
        <4>. QED
          BY <1>4, <3>2, <3>4, <4>1
      <3>. QED
        BY <3>3, <3>4
    <2>3. ASSUME NEW r \in Queue \ {q}
          PROVE  /\ head'[r] = IF chain'[r] = <<>> THEN NULL ELSE chain'[r][1]
                 /\ chain'[r] # <<>> => tail'[r] = chain'[r][Len(chain'[r])]
                 /\ \A k \in DOMAIN chain'[r] :
                      next'[chain'[r][k]] = IF k = Len(chain'[r]) THEN NULL
                                            ELSE chain'[r][k + 1]
      BY <1>2, <1>3 DEF IInv, Linked
    <2>. QED
      BY <1>6, <2>1, <2>2, <2>3 DEF Linked
  <1>10. Apart'
    <2>1. ASSUME NEW r \in Queue, NEW s \in Queue,
                 NEW j \in DOMAIN chain'[r], NEW k \in DOMAIN chain'[s],
                 chain'[r][j] = chain'[s][k]
          PROVE  r = s /\ j = k
      <3>1. CASE r = q /\ s = q
        <4>1. j + 1 = k + 1
          <5>1. j + 1 \in DOMAIN chain[q] /\ k + 1 \in DOMAIN chain[q]
            BY <1>4, <2>1, <3>1
          <5>2. chain[q][j + 1] = chain[q][k + 1]
            BY <1>4, <2>1, <3>1
          <5>. QED
            BY <5>1, <5>2 DEF IInv, Apart
        <4>2. j \in Nat /\ k \in Nat
          BY <1>1, <1>4, <3>1
        <4>. QED
          BY <3>1, <4>1, <4>2
      <3>2. CASE r # q \/ s # q
        <4>1. \A t \in Queue : \A m \in DOMAIN chain'[t] :
                LET n == IF t = q THEN m + 1 ELSE m
                IN  n \in DOMAIN chain[t] /\ chain'[t][m] = chain[t][n]
          BY <1>3, <1>4
        <4>2. \A t, u \in Queue : \A m \in DOMAIN chain[t], n \in DOMAIN chain[u] :
                chain[t][m] = chain[u][n] => t = u /\ m = n
          BY DEF IInv, Apart
        <4>. QED
          BY <2>1, <3>2, <4>1, <4>2
      <3>. QED
        BY <3>1, <3>2
    <2>2. ASSUME NEW d \in allocated'
          PROVE  \E r \in Queue : \E k \in DOMAIN chain'[r] : chain'[r][k] = d
      <3>1. d \in allocated /\ d # chain[q][1]
        BY <1>2, <2>2
      <3>2. PICK r \in Queue : \E k \in DOMAIN chain[r] : chain[r][k] = d
        BY <3>1 DEF IInv, Apart
      <3>3. PICK k \in DOMAIN chain[r] : chain[r][k] = d
        BY <3>2
      <3>4. CASE r # q
        BY <1>3, <3>3, <3>4
      <3>5. CASE r = q
        <4>1. k \in 1 .. Len(chain[q]) /\ k # 1
          BY <1>4, <3>1, <3>3, <3>5
        <4>2. k - 1 \in DOMAIN chain'[q] /\ (k - 1) + 1 = k
          BY <1>1, <1>4, <4>1
        <4>. QED
          BY <1>4, <3>3, <3>5, <4>2
      <3>. QED
        BY <3>4, <3>5
    <2>. QED
      BY <2>1, <2>2 DEF Apart
  <1>11. Items[q] # <<>> /\ result' = Head(Items[q])
         /\ Items' = [Items EXCEPT ![q] = Tail(@)]
    <2>1. /\ Items[q] \in Seq(Element) /\ Len(Items[q]) = Len(chain[q])
          /\ Items[q] # <<>>
          /\ \A k \in DOMAIN chain[q] : Items[q][k] = element[chain[q][k]]
      BY <1>1, ItemsOf
    <2>2. Head(Items[q]) = element[chain[q][1]]
      BY <1>1, <2>1, Taken
    <2>3. Items'[q] = Tail(Items[q])
      <3>1. Items'[q] = [k \in 1 .. Len(chain[q]) - 1 |-> element[chain[q][k + 1]]]
        BY <1>2, <1>4 DEF Items
      <3>2. /\ Tail(Items[q]) \in Seq(Element)
            /\ DOMAIN Tail(Items[q]) = 1 .. Len(chain[q]) - 1
            /\ \A k \in 1 .. Len(chain[q]) - 1 :
                 Tail(Items[q])[k] = element[chain[q][k + 1]]
        <4>1. /\ Tail(Items[q]) \in Seq(Element)
              /\ DOMAIN Tail(Items[q]) = 1 .. Len(chain[q]) - 1
              /\ \A k \in 1 .. Len(chain[q]) - 1 : Tail(Items[q])[k] = Items[q][k + 1]
          BY <2>1, Taken
        <4>2. \A k \in 1 .. Len(chain[q]) - 1 : k + 1 \in DOMAIN chain[q]
          BY <1>4
        <4>. QED
          BY <2>1, <4>1, <4>2
      <3>3. Tail(Items[q]) = [k \in 1 .. Len(chain[q]) - 1 |-> Tail(Items[q])[k]]
        BY <3>2, SMTT(30)
      <3>. QED
        BY <3>1, <3>2, <3>3
    <2>4. ASSUME NEW r \in Queue, r # q
          PROVE  Items'[r] = Items[r]
      BY <1>2, <1>3, <2>4 DEF Items
    <2>5. Items' = [Items EXCEPT ![q] = Tail(@)]
      BY <2>3, <2>4 DEF Items
    <2>. QED
      BY <1>2, <2>1, <2>2, <2>5
  <1>. QED
    BY <1>2, <1>8, <1>9, <1>10, <1>11 DEF IInv, F!Deq, Items

LEMMA StepQueue ==
    ASSUME IInv, [Next]_vars
    PROVE  IInv' /\ [F!Next]_(F!vars)
  <1>1. ASSUME NEW q \in Queue, queue_deq(q)
        PROVE  IInv' /\ F!Next
    BY <1>1, DeqKeeps DEF F!Next
  <1>2. ASSUME NEW q \in Queue, NEW e \in Element, queue_enq(q, e)
        PROVE  IInv' /\ F!Next
    BY <1>2, EnqKeeps DEF F!Next
  <1>3. CASE UNCHANGED vars
    BY <1>3 DEF vars, F!vars, IInv, TypeOK, Linked, Apart
  <1>. QED
    BY <1>1, <1>2, <1>3 DEF Next

LEMMA AlwaysQueue == Spec => []IInv
  BY InitQueue, StepQueue, PTL DEF Spec

(***************************************************************************)
(* The theorems.                                                           *)
(***************************************************************************)
\* No head points to memory that was freed (queue.c 24-42).
THEOREM HeadsAllocated == Spec => []TypeOK
  <1>1. IInv => TypeOK
    BY DEF IInv
  <1>. QED
    BY <1>1, AlwaysQueue, PTL

\* A loop along next visits the queue's cells, all of them, and tail is the
\* last of them when it is written through (queue.c 24-42).
THEOREM ListsWhole == Spec => []Linked
  <1>1. IInv => Linked
    BY DEF IInv
  <1>. QED
    BY <1>1, AlwaysQueue, PTL

\* No cell is in two places or lost (list.c 4-17).
THEOREM CellsApart == Spec => []Apart
  <1>1. IInv => Apart
    BY DEF IInv
  <1>. QED
    BY <1>1, AlwaysQueue, PTL

\* The queues are first in, first out, each by itself, however often the cells
\* are freed and given again (include/queue.h).
THEOREM QueuesAreFifo == Spec => ImplementsFifo
  <1>1. Init => F!Init
    BY InitQueue
  <1>2. IInv /\ [Next]_vars => [F!Next]_(F!vars)
    BY StepQueue
  <1>. QED
    BY <1>1, <1>2, AlwaysQueue, PTL DEF Spec, ImplementsFifo, F!Spec
=============================================================================
