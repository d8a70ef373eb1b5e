----------------------------- MODULE PromiseProofs -----------------------------
(***************************************************************************)
(* The server implements StoreForward: KeepsPromise as a theorem.          *)
(***************************************************************************)
EXTENDS PubSubProofs

\* A subscription is kept with one value of sf only.
NoDouble == topic_subscribers[0] \cap topic_subscribers[1] = {}

\* The datagrams in the UDP socket are the last ones sent, in order.
UdpNumbered ==
    \A k \in DOMAIN udp : udp[k][1] = published - Len(udp) + k

PromiseInv == IInv /\ OneConnectionPerId /\ NoDouble /\ UdpNumbered

\* What the mapping looks at.
Mapped == <<id_to_fd, topic_subscribers, w_buffer_for_id, udp, published>>

Quiet ==
    \/ Exit \/ Poll \/ PassOver \/ AddCon \/ AddConFails \/ PeekAlive
    \/ NothingToSend \/ SendKillsServer \/ RecvBytes \/ RecvNothing \/ ParseIncomplete

LEMMA QuietSteps ==
    ASSUME Quiet, UNCHANGED published
    PROVE  UNCHANGED Mapped
  BY DEF Quiet, Mapped, Exit, Poll, PassOver, AddCon, AddConFails, PeekAlive,
         NothingToSend, SendKillsServer, RecvBytes, RecvNothing, ParseIncomplete,
         Stop, tables, ids, buffers

LEMMA SubscriberSteps ==
    ASSUME NEW p \in Proc, SubscriberStep(p)
    PROVE  UNCHANGED Mapped
  BY DEF SubscriberStep, Start, Command, TypeExit, TypeSubscribe, TypeUnsubscribe,
         TypeCommand, SubscriberLoop, ServerGone, Pass, serverVars, ids, buffers, Mapped

LEMMA MappedStutter ==
    ASSUME UNCHANGED Mapped
    PROVE  UNCHANGED SF!vars
  BY DEF Mapped, SF!vars, Queue, Has

(***************************************************************************)
(* Closing a connection: the id goes offline, or nothing is seen of it.    *)
(***************************************************************************)
Closing == PeekEof \/ ParseConnectTaken \/ ParseTooEarly \/ ParseUnknownType

LEMMA ClosingSteps ==
    ASSUME PromiseInv, Closing, UNCHANGED published
    PROVE  /\ UNCHANGED <<topic_subscribers, w_buffer_for_id, udp>>
           /\ \/ UNCHANGED id_to_fd
              \/ \E f \in DOMAIN fd_to_id : id_to_fd' = Erase(id_to_fd, fd_to_id[f])
  <1>1. UNCHANGED <<topic_subscribers, w_buffer_for_id, udp>>
    BY DEF Closing, PeekEof, ParseConnectTaken, ParseTooEarly, ParseUnknownType
  <1>2. ASSUME NEW j, NEW delete_id, NEW read, Disconnect(j, delete_id, read)
        PROVE  \/ UNCHANGED id_to_fd
               \/ \E f \in DOMAIN fd_to_id : id_to_fd' = Erase(id_to_fd, fd_to_id[f])
    BY <1>2 DEF Disconnect, ForgetId, Has, ids
  <1>. QED
    BY <1>1, <1>2 DEF Closing, PeekEof, ParseConnectTaken, ParseTooEarly, ParseUnknownType

LEMMA ClosingPromised ==
    ASSUME PromiseInv, Closing, UNCHANGED published
    PROVE  [SF!Next]_(SF!vars)
  <1>1. CASE UNCHANGED id_to_fd
    BY <1>1, ClosingSteps, MappedStutter DEF Mapped
  <1>2. ASSUME NEW f \in DOMAIN fd_to_id, id_to_fd' = Erase(id_to_fd, fd_to_id[f])
        PROVE  SF!Next
    <2>1. fd_to_id[f] \in DOMAIN id_to_fd /\ fd_to_id[f] \in Id
      BY DEF PromiseInv, OneConnectionPerId, Has, IInv, ServerInv, ServerTypeOK
    <2>2. DOMAIN id_to_fd' = DOMAIN id_to_fd \ {fd_to_id[f]}
      BY <1>2 DEF Erase
    <2>3. SF!Disconnect(fd_to_id[f])
      BY <2>1, <2>2, ClosingSteps DEF SF!Disconnect, Queue, Has
    <2>. QED
      BY <2>1, <2>3 DEF SF!Next
  <1>. QED
    BY <1>1, <1>2, ClosingSteps

(***************************************************************************)
(* Messages that are obeyed.                                               *)
(***************************************************************************)
LEMMA ConnectPromised ==
    ASSUME PromiseInv, ParseConnect, UNCHANGED published
    PROVE  SF!Next
  <1>1. Buffer[2] \in Cell /\ Buffer[3] \in Cell
    BY ElementOfSeq DEF ParseConnect, IsWhole, MsgCells, Buffer, PromiseInv, IInv,
       ServerInv, ServerTypeOK, LoopKnows
  <1>2. MsgId \in Id /\ MsgId \notin DOMAIN id_to_fd
    BY <1>1 DEF MsgId, Id, ParseConnect, InUse, Has
  <1>3. DOMAIN id_to_fd' = DOMAIN id_to_fd \cup {MsgId}
    BY DEF ParseConnect, Put
  <1>4. SF!Connect(MsgId)
    BY <1>2, <1>3 DEF SF!Connect, ParseConnect, Queue, Has
  <1>. QED
    BY <1>2, <1>4 DEF SF!Next

LEMMA SubscriptionKnown ==
    ASSUME PromiseInv, ParseSub \/ ParseUnsub
    PROVE  /\ Buffer[2] \in Cell /\ Buffer[3] \in Cell
           /\ fd_to_id[fd] \in Id /\ fd_to_id[fd] \in DOMAIN id_to_fd
           /\ Subscription = <<Buffer[2], fd_to_id[fd]>>
  <1>1. Buffer[2] \in Cell /\ Buffer[3] \in Cell
    BY ElementOfSeq DEF ParseSub, ParseUnsub, IsWhole, MsgCells, Buffer, PromiseInv,
       IInv, ServerInv, ServerTypeOK, LoopKnows
  <1>2. fd_to_id[fd] \in Id /\ fd_to_id[fd] \in DOMAIN id_to_fd
    BY DEF ParseSub, ParseUnsub, Known, Has, PromiseInv, IInv, ServerInv,
       ServerTypeOK, OneConnectionPerId
  <1>. QED
    BY <1>1, <1>2 DEF Subscription

LEMMA SubPromised ==
    ASSUME PromiseInv, ParseSub, UNCHANGED published
    PROVE  SF!Next
  <1>. DEFINE id == fd_to_id[fd]
              topic == Buffer[2]
              sf == Buffer[3] # 0
  <1>1. /\ id \in Id /\ id \in DOMAIN id_to_fd /\ topic \in Cell /\ sf \in BOOLEAN
        /\ Subscription = <<topic, id>>
    BY SubscriptionKnown
  <1>2. topic_subscribers' = Moved(Subscription, IF sf THEN 1 ELSE 0)
    BY DEF ParseSub
  <1>3. UNCHANGED <<id_to_fd, w_buffer_for_id, udp>>
    BY DEF ParseSub, ids
  <1>. HIDE DEF id, topic, sf
  <1>4. /\ topic_subscribers'[0] = IF sf THEN topic_subscribers[0] \ {<<topic, id>>}
                                   ELSE topic_subscribers[0] \cup {<<topic, id>>}
        /\ topic_subscribers'[1] = IF sf THEN topic_subscribers[1] \cup {<<topic, id>>}
                                   ELSE topic_subscribers[1] \ {<<topic, id>>}
    BY <1>1, <1>2 DEF Moved
  <1>5. SF!Subscribe(id, topic, sf)
    BY <1>1, <1>3, <1>4 DEF SF!Subscribe, Queue, Has
  <1>. QED
    BY <1>1, <1>5 DEF SF!Next

LEMMA UnsubPromised ==
    ASSUME PromiseInv, ParseUnsub, UNCHANGED published
    PROVE  SF!Next
  <1>. DEFINE id == fd_to_id[fd]
              topic == Buffer[2]
  <1>1. /\ id \in Id /\ id \in DOMAIN id_to_fd /\ topic \in Cell
        /\ Subscription = <<topic, id>>
    BY SubscriptionKnown
  <1>2. /\ topic_subscribers' = [k \in 0..1 |-> topic_subscribers[k] \ {Subscription}]
        /\ UNCHANGED <<id_to_fd, w_buffer_for_id, udp>>
    BY DEF ParseUnsub, ids
  <1>. HIDE DEF id, topic
  <1>3. SF!Unsubscribe(id, topic)
    BY <1>1, <1>2 DEF SF!Unsubscribe, Queue, Has
  <1>. QED
    BY <1>1, <1>3 DEF SF!Next

(***************************************************************************)
(* News.                                                                   *)
(***************************************************************************)
LEMMA OneCopy ==
    ASSUME NEW q \in Seq(News), NEW n \in News
    PROVE  /\ q \o (<<>> \o <<>>) = q
           /\ q \o (<<n>> \o <<>>) = Append(q, n)
           /\ q \o (<<>> \o <<n>>) = Append(q, n)
  <1>1. <<n>> \in Seq(News)
    OBVIOUS
  <1>2. <<>> \o <<>> = <<>> /\ <<n>> \o <<>> = <<n>> /\ <<>> \o <<n>> = <<n>>
    BY <1>1, ConcatEmptySeq, EmptySeq
  <1>3. q \o <<>> = q
    BY ConcatEmptySeq
  <1>4. q \o <<n>> = Append(q, n)
    BY <1>1
  <1>. QED
    BY <1>2, <1>3, <1>4

\* The next datagram is appended to the queues of the ids entitled to it.
LEMMA NewsQueued ==
    ASSUME PromiseInv, ReceiveNews, UNCHANGED published
    PROVE  \E news \in News :
             /\ news[1] = (published - Len(udp)) + 1
             /\ published' - Len(udp') = news[1]
             /\ UNCHANGED <<id_to_fd, topic_subscribers>>
             /\ \A id \in Id : Queue(id)' = IF SF!Entitled(id, news[2])
                                          THEN Append(Queue(id), news) ELSE Queue(id)
  <1>. DEFINE news == Head(udp)
              to0 == Subscribed(0, news[2])
              to1 == Subscribed(1, news[2])
              copies(id) == (IF id \in to0 THEN <<news>> ELSE <<>>)
                            \o (IF id \in to1 THEN <<news>> ELSE <<>>)
  <1>1. udp # <<>> /\ udp \in Seq(News) /\ UNCHANGED <<id_to_fd, topic_subscribers>>
    BY DEF ReceiveNews, PromiseInv, IInv, ServerInv, LoopKnows, ServerTypeOK, ids, tables
  <1>2. /\ news \in News /\ udp' = Tail(udp)
        /\ Len(udp') = Len(udp) - 1 /\ Len(udp) \in Nat \ {0}
        /\ news = udp[1] /\ 1 \in DOMAIN udp
    BY <1>1, HeadTailProperties, EmptySeq, LenProperties DEF ReceiveNews
  <1>3. /\ news[1] = (published - Len(udp)) + 1
        /\ published' - Len(udp') = news[1]
    BY <1>2 DEF PromiseInv, UdpNumbered, IInv, TypeOK
  <1>4. w_buffer_for_id' = [id \in DOMAIN w_buffer_for_id \cup to0 \cup to1
                              |-> Queue(id) \o copies(id)]
    BY DEF ReceiveNews
  <1>5. \A id : Queue(id) \in Seq(News)
    BY DEF Queue, Has, PromiseInv, IInv, ServerInv, ServerTypeOK
  <1>6. /\ to0 = {id \in Id : <<news[2], id>> \in topic_subscribers[0] /\ id \in DOMAIN id_to_fd}
        /\ to1 = {id \in Id : <<news[2], id>> \in topic_subscribers[1]}
        /\ to0 \cap to1 = {}
    BY DEF Subscribed, Has, PromiseInv, NoDouble
  <1>. HIDE DEF news, to0, to1
  <1>7. ASSUME NEW id \in Id
        PROVE  Queue(id)' = IF SF!Entitled(id, news[2]) THEN Append(Queue(id), news)
                            ELSE Queue(id)
    <2>1. SF!Entitled(id, news[2]) <=> id \in to0 \cup to1
      BY <1>6 DEF SF!Entitled
    <2>2. CASE id \in to0 \cup to1
      <3>1. Queue(id)' = Queue(id) \o copies(id)
        BY <1>4, <2>2 DEF Queue, Has
      <3>2. Queue(id) \o copies(id) = Append(Queue(id), news)
        BY <1>2, <1>5, <1>6, <2>2, OneCopy
      <3>. QED
        BY <2>1, <2>2, <3>1, <3>2
    <2>3. CASE id \notin to0 \cup to1
      <3>1. copies(id) = <<>> \o <<>>
        BY <2>3
      <3>2. Queue(id) \o copies(id) = Queue(id)
        BY <1>2, <1>5, <3>1, OneCopy
      <3>. HIDE DEF copies
      <3>3. Queue(id)' = Queue(id)
        BY <1>4, <2>3, <3>2 DEF Queue, Has
      <3>. QED
        BY <2>1, <2>3, <3>3
    <2>. QED
      BY <2>2, <2>3
  <1>. QED
    BY <1>1, <1>2, <1>3, <1>7

LEMMA NewsPromised ==
    ASSUME PromiseInv, ReceiveNews, UNCHANGED published
    PROVE  SF!Next
  <1>1. PICK news \in News :
             /\ news[1] = (published - Len(udp)) + 1
             /\ published' - Len(udp') = news[1]
             /\ UNCHANGED <<id_to_fd, topic_subscribers>>
             /\ \A id \in Id : Queue(id)' = IF SF!Entitled(id, news[2])
                                          THEN Append(Queue(id), news) ELSE Queue(id)
    BY NewsQueued
  <1>2. SF!Publish(news)
    BY <1>1 DEF SF!Publish
  <1>. QED
    BY <1>1, <1>2 DEF SF!Next

LEMMA SendPromised ==
    ASSUME PromiseInv, SendNews, UNCHANGED published
    PROVE  SF!Next
  <1>. DEFINE id == fd_to_id[fds[i]]
  <1>1. /\ id \in Id /\ id \in DOMAIN id_to_fd /\ Queue(id) # <<>>
        /\ w_buffer_for_id' = [w_buffer_for_id EXCEPT ![id] = Tail(@)]
        /\ UNCHANGED <<id_to_fd, topic_subscribers, udp>>
    BY DEF SendNews, HasNewsToSend, Popped, Has, PromiseInv, OneConnectionPerId, IInv,
           ServerInv, ServerTypeOK, ids
  <1>2. id \in DOMAIN w_buffer_for_id
    BY <1>1 DEF Queue, Has
  <1>. HIDE DEF id
  <1>3. SF!Deliver(id)
    BY <1>1, <1>2 DEF SF!Deliver, Queue, Has
  <1>. QED
    BY <1>1, <1>3 DEF SF!Next

(***************************************************************************)
(* The two invariants of the mapping.                                      *)
(***************************************************************************)
LEMMA NoDoubleKept ==
    ASSUME PromiseInv, [Next]_vars
    PROVE  NoDouble'
  <1>1. CASE UNCHANGED topic_subscribers
    BY <1>1 DEF PromiseInv, NoDouble
  <1>2. CASE ParseSub \/ ParseUnsub
    BY <1>2 DEF ParseSub, ParseUnsub, Moved, PromiseInv, NoDouble
  <1>3. CASE Quiet /\ UNCHANGED published
    BY <1>1, <1>3, QuietSteps DEF Mapped
  <1>4. CASE Closing /\ UNCHANGED published
    BY <1>1, <1>4, ClosingSteps
  <1>5. CASE ReceiveNews \/ SendNews \/ ParseConnect \/ Publish
    BY <1>1, <1>5 DEF ReceiveNews, SendNews, ParseConnect, Publish
  <1>6. CASE \E p \in Proc : SubscriberStep(p)
    BY <1>1, <1>6, SubscriberSteps DEF Mapped
  <1>7. CASE UNCHANGED vars
    BY <1>1, <1>7 DEF vars, serverVars, buffers
  <1>. QED
    BY <1>2, <1>3, <1>4, <1>5, <1>6, <1>7
       DEF Next, ServerStep, ServerLoop, VisitEntry, Parse, Quiet, Closing

LEMMA UdpNumberedKept ==
    ASSUME PromiseInv, [Next]_vars
    PROVE  UdpNumbered'
  <1>0. udp \in Seq(News) /\ published \in Nat /\ Len(udp) \in Nat
        /\ DOMAIN udp = 1 .. Len(udp)
    BY LenProperties, BoundsAssumption
       DEF PromiseInv, IInv, TypeOK, ServerInv, ServerTypeOK
  <1>1. CASE UNCHANGED <<udp, published>>
    BY <1>1 DEF PromiseInv, UdpNumbered
  <1>2. CASE ReceiveNews /\ UNCHANGED published
    <2>1. udp # <<>> /\ udp' = Tail(udp)
      BY <1>2 DEF ReceiveNews, PromiseInv, IInv, ServerInv, LoopKnows
    <2>2. /\ udp' \in Seq(News) /\ Len(udp') = Len(udp) - 1
          /\ \A k \in 1 .. Len(udp') : udp'[k] = udp[k + 1]
      BY <1>0, <2>1, HeadTailProperties
    <2>3. DOMAIN udp' = 1 .. Len(udp')
      BY <2>2, LenProperties
    <2>. SUFFICES ASSUME NEW k \in DOMAIN udp'
                  PROVE  udp'[k][1] = published' - Len(udp') + k
      BY DEF UdpNumbered
    <2>4. k \in Nat /\ k + 1 \in DOMAIN udp /\ udp'[k] = udp[k + 1]
      BY <1>0, <2>2, <2>3
    <2>5. udp[k + 1][1] = published - Len(udp) + (k + 1)
      BY <2>4 DEF PromiseInv, UdpNumbered
    <2>. QED
      BY <1>0, <1>2, <2>2, <2>4, <2>5
  <1>3. CASE Publish
    <2>1. PICK topic \in Topic : udp' = Append(udp, <<published + 1, topic>>)
      BY <1>3 DEF Publish
    <2>2. <<published + 1, topic>> \in News
      BY <1>0, <1>3, BoundsAssumption DEF Publish, News
    <2>3. /\ udp' \in Seq(News) /\ Len(udp') = Len(udp) + 1
          /\ DOMAIN udp' = 1 .. (Len(udp) + 1)
          /\ udp'[Len(udp) + 1] = <<published + 1, topic>>
          /\ \A k \in 1 .. Len(udp) : udp'[k] = udp[k]
      BY <1>0, <2>1, <2>2, AppendProperties, LenProperties
    <2>. QED
      BY <1>0, <1>3, <2>3 DEF Publish, PromiseInv, UdpNumbered
  <1>4. CASE Quiet /\ UNCHANGED published
    BY <1>1, <1>4, QuietSteps DEF Mapped
  <1>5. CASE Closing /\ UNCHANGED published
    BY <1>1, <1>5, ClosingSteps
  <1>6. CASE (SendNews \/ ParseConnect \/ ParseSub \/ ParseUnsub) /\ UNCHANGED published
    BY <1>1, <1>6 DEF SendNews, ParseConnect, ParseSub, ParseUnsub
  <1>7. CASE \E p \in Proc : SubscriberStep(p)
    BY <1>1, <1>7, SubscriberSteps DEF Mapped
  <1>8. CASE UNCHANGED vars
    BY <1>1, <1>8 DEF vars, serverVars, buffers
  <1>. QED
    BY <1>2, <1>3, <1>4, <1>5, <1>6, <1>7, <1>8
       DEF Next, ServerStep, ServerLoop, VisitEntry, Parse, Quiet, Closing

LEMMA PromiseInductive == Spec => [](IInv /\ OneConnectionPerId /\ NoDouble /\ UdpNumbered)
  <1>1. Init => NoDouble /\ UdpNumbered
    BY DEF Init, ServerInit, NoDouble, UdpNumbered
  <1>2. IInv /\ OneConnectionPerId /\ NoDouble /\ UdpNumbered /\ [Next]_vars
          => NoDouble' /\ UdpNumbered'
    BY NoDoubleKept, UdpNumberedKept DEF PromiseInv
  <1>. QED
    BY <1>1, <1>2, Inductive, OneConnection, PTL DEF Spec

(***************************************************************************)
(* The refinement.                                                         *)
(***************************************************************************)
LEMMA PromiseInit == Init => SF!Init
  BY DEF Init, TcpInit, ServerInit, SF!Init, Queue, Has

LEMMA PromiseStep ==
    ASSUME PromiseInv, [Next]_vars
    PROVE  [SF!Next]_(SF!vars)
  <1>1. CASE Quiet /\ UNCHANGED published
    BY <1>1, QuietSteps, MappedStutter
  <1>2. CASE Closing /\ UNCHANGED published
    BY <1>2, ClosingPromised
  <1>3. CASE (ParseConnect \/ ParseSub \/ ParseUnsub) /\ UNCHANGED published
    BY <1>3, ConnectPromised, SubPromised, UnsubPromised
  <1>4. CASE (ReceiveNews \/ SendNews) /\ UNCHANGED published
    BY <1>4, NewsPromised, SendPromised
  <1>5. CASE \E p \in Proc : SubscriberStep(p)
    BY <1>5, SubscriberSteps, MappedStutter
  <1>6. CASE Publish
    <2>1. \E topic \in Topic : udp' = Append(udp, <<published + 1, topic>>)
      BY <1>6 DEF Publish
    <2>2. published' = published + 1 /\ published \in Nat /\ published < MaxNews
      BY <1>6, BoundsAssumption DEF Publish, PromiseInv, IInv, TypeOK
    <2>3. Len(udp') = Len(udp) + 1 /\ Len(udp) \in Nat
      <3>1. udp \in Seq(News)
        BY DEF PromiseInv, IInv, ServerInv, ServerTypeOK
      <3>2. \A topic \in Topic : <<published + 1, topic>> \in News
        BY <2>2, BoundsAssumption DEF News
      <3>. QED
        BY <2>1, <3>1, <3>2, AppendProperties, LenProperties
    <2>4. published' - Len(udp') = published - Len(udp)
      BY <2>2, <2>3
    <2>. QED
      BY <1>6, <2>4 DEF Publish, ids, SF!vars, Queue, Has
  <1>7. CASE UNCHANGED vars
    BY <1>7, MappedStutter DEF vars, serverVars, ids, buffers, Mapped
  <1>. QED
    BY <1>1, <1>2, <1>3, <1>4, <1>5, <1>6, <1>7
       DEF Next, ServerStep, ServerLoop, VisitEntry, Parse, Quiet, Closing

\* The server implements the store-and-forward service: through accepts,
\* closes, refusals, reused descriptors and messages cut anywhere, its maps
\* change only as StoreForward allows, whatever the number of subscribers,
\* descriptors, ids and news.
THEOREM Promise == Spec => KeepsPromise
  <1>1. IInv /\ OneConnectionPerId /\ NoDouble /\ UdpNumbered /\ [Next]_vars
          => [SF!Next]_(SF!vars)
    BY PromiseStep DEF PromiseInv
  <1>. QED
    BY <1>1, PromiseInit, PromiseInductive, PTL DEF Spec, KeepsPromise, SF!Spec
=============================================================================
