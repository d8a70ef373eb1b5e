------------------------------ MODULE NewsProofs ------------------------------
(***************************************************************************)
(* What reaches a subscriber: the server never waits in send, and the news *)
(* of an id come in order over all its connections.                        *)
(***************************************************************************)
EXTENDS PromiseProofs

(***************************************************************************)
(* A connection waits in the backlog or has one descriptor, and nothing is *)
(* sent on it before it is accepted.                                       *)
(***************************************************************************)
InBacklog(p) == \E k \in DOMAIN backlog : backlog[k] = p
Accepted(p) == \E f \in Open : sock[f] = p

Connections ==
    /\ \A k, m \in DOMAIN backlog : backlog[k] = backlog[m] => k = m
    /\ \A f, g \in Open : sock[f] = sock[g] => f = g
    /\ \A p \in Proc : InBacklog(p) => ~Accepted(p) /\ toClient[p] = <<>>
    /\ \A p \in Proc : cstatus[p] = "new" =>
          ~InBacklog(p) /\ ~Accepted(p) /\ toClient[p] = <<>>

\* What the entries of the pass that are still to be visited know from poll.
Ahead(k) == k > i \/ (k = i /\ pc \in {"pass", "send"})
RoomAt(k) == link[sock[fds[k]]] = "open" => Len(toClient[sock[fds[k]]]) < NewsRoom
RoomSeen ==
    Running => \A k \in pollout : Ahead(k) /\ k \in Slot /\ fds[k] # NoFd => RoomAt(k)

SendInv == IInv /\ Connections /\ RoomSeen

(***************************************************************************)
(* Steps by what they do to the connections.                               *)
(***************************************************************************)
\* No connection is made, accepted or closed and no news is sent.
Still == UNCHANGED <<backlog, sock, toClient, cstatus>>

StillStep ==
    \/ Poll \/ PassOver \/ ReceiveNews \/ PeekAlive \/ NothingToSend \/ RecvBytes
    \/ RecvNothing \/ ParseIncomplete \/ ParseConnect \/ ParseSub \/ ParseUnsub

LEMMA StillSteps ==
    ASSUME StillStep, UNCHANGED subscriberVars
    PROVE  Still
  BY DEF StillStep, Still, Poll, PassOver, ReceiveNews, PeekAlive, NothingToSend,
         RecvBytes, RecvNothing, ParseIncomplete, ParseConnect, ParseSub, ParseUnsub,
         TcpServerRecv, tcpVars, subscriberVars

Stopping == Exit \/ AddConFails \/ SendKillsServer

LEMMA StoppingSteps ==
    ASSUME Stopping
    PROVE  /\ sock' = <<>> /\ backlog' = <<>> /\ pollout' = {} /\ pc' = "end"
           /\ UNCHANGED <<toClient, r_buffer_for_fd, ids, w_buffer_for_id, udp>>
           /\ status' # "running"
           /\ link' = [p \in Proc |-> "none"]
  BY DEF Stopping, Exit, AddConFails, SendKillsServer, Stop, TcpServerEnds, ForgetPoll,
         buffers

LEMMA ClosingConnections ==
    ASSUME SendInv, Closing
    PROVE  /\ \E fs : sock' = [f \in Open \ fs |-> sock[f]]
           /\ fds' = [fds EXCEPT ![i] = NoFd]
           /\ UNCHANGED <<backlog, toClient>>
           /\ \A p \in Proc : link'[p] \in {"none", link[p]}
  <1>1. ASSUME NEW delete_id, NEW read, Disconnect(i, delete_id, read)
        PROVE  /\ \E fs : sock' = [f \in Open \ fs |-> sock[f]]
               /\ fds' = [fds EXCEPT ![i] = NoFd]
               /\ UNCHANGED <<backlog, toClient>>
               /\ \A p \in Proc : link'[p] \in {"none", link[p]}
    BY <1>1 DEF Disconnect, TcpServerClose, Closed, Freed
  <1>. QED
    BY <1>1 DEF Closing, PeekEof, ParseConnectTaken, ParseTooEarly, ParseUnknownType

\* accept takes the oldest connection of the backlog to a new descriptor.
LEMMA AcceptedConnection ==
    ASSUME SendInv, AddCon
    PROVE  \E f \in Fd \ Open :
             /\ sock' = Put(sock, f, Head(backlog))
             /\ backlog' = Tail(backlog) /\ backlog \in Seq(Proc) /\ backlog # <<>>
             /\ UNCHANGED <<toClient, link, down, toServer>>
             /\ \/ \E k \in Slot : fds' = [fds EXCEPT ![k] = f]
                \/ fds' = Put(fds, nfds, f)
  <1>1. backlog # <<>> /\ backlog \in Seq(Proc)
    BY DEF AddCon, SendInv, IInv, ServerInv, LoopKnows, TcpTypeOK
  <1>2. empties # <<>> => Head(empties) \in Slot
    <2>1. empties \in Seq(Nat)
      BY DEF SendInv, IInv, ServerInv, ServerTypeOK
    <2>2. empties # <<>> => Head(empties) = empties[1] /\ 1 \in DOMAIN empties
      BY <2>1, LenProperties, EmptySeq
    <2>. QED
      BY <2>2 DEF SendInv, IInv, ServerInv, EmptiesSound
  <1>3. PICK f \in Fd :
           /\ TcpAccept(f)
           /\ \/ empties # <<>> /\ fds' = [fds EXCEPT ![Head(empties)] = f]
              \/ fds' = Put(fds, nfds, f)
    BY DEF AddCon
  <1>. QED
    BY <1>1, <1>2, <1>3 DEF TcpAccept, IsLowestFree, FreeFd

LEMMA SendConnections ==
    ASSUME SendInv, SendNews
    PROVE  /\ Connection \in Proc /\ fds[i] \in Open /\ sock[fds[i]] = Connection
           /\ UNCHANGED <<fds, sock, backlog, status, i, pollout>>
           /\ pc' = "recv"
           /\ \A p \in Proc : /\ link'[p] \in {link[p], "dead"}
                              /\ p # Connection => toClient'[p] = toClient[p]
  <1>1. fds[i] \in Open /\ sock[fds[i]] \in Proc
    BY DEF SendNews, SendInv, IInv, ServerInv, LoopKnows, DescriptorsWatchedOnce,
           Running, TcpTypeOK
  <1>2. TcpServerSend(Connection, Head(w_buffer_for_id[fd_to_id[fds[i]]]))
        /\ UNCHANGED <<fds, status, i, pollout>> /\ pc' = "recv"
    BY DEF SendNews, GoTo, tables
  <1>. QED
    BY <1>1, <1>2 DEF TcpServerSend, Connection, SendInv, IInv, TypeOK, TcpTypeOK,
                      ServerTypeOK

\* A pass of a subscriber takes news from the front of its own channel only.
LEMMA PassReads ==
    ASSUME IInv, NEW p \in Proc, Read(p)
    PROVE  /\ toClient[p] = <<>> => toClient' = toClient
           /\ \A q \in Proc : q # p => toClient'[q] = toClient[q]
           /\ Len(toClient'[p]) <= Len(toClient[p])
  <1>0. toClient \in [Proc -> Seq(News)]
    BY DEF IInv, TypeOK, ServerTypeOK
  <1>1. CASE toClient[p] = <<>>
    <2>1. toClient' = toClient
      BY <1>1 DEF Read
    <2>. QED
      BY <1>0, <2>1, LenProperties
  <1>2. CASE toClient[p] # <<>>
    <2>1. PICK n \in 0 .. RecvNews :
            /\ n <= Len(toClient[p])
            /\ toClient' = [toClient EXCEPT ![p] = SubSeq(@, n + 1, Len(@))]
      BY <1>2 DEF Read
    <2>2. toClient[p] \in Seq(News) /\ Len(toClient[p]) \in Nat /\ n \in Nat
      BY <1>0, <2>1, LenProperties, SubscriberAssumption
    <2>3. Len(SubSeq(toClient[p], n + 1, Len(toClient[p]))) <= Len(toClient[p])
      BY <2>1, <2>2
    <2>. QED
      BY <1>0, <1>2, <2>1, <2>3
  <1>. QED
    BY <1>1, <1>2

\* The steps of a subscriber, by what they do to the connections.
LEMMA LeavingConnections ==
    ASSUME IInv, NEW p \in Proc, TypeExit(p) \/ ServerGone(p)
    PROVE  /\ cstatus[p] = "up" /\ cstatus' = [cstatus EXCEPT ![p] = "gone"]
           /\ UNCHANGED <<backlog, sock, down, toServer, serverVars>>
           /\ toClient' = [toClient EXCEPT ![p] = <<>>]
           /\ \A q \in Proc : link'[q] = "open" => link[q] = "open"
           /\ \A q \in Proc : q # p => link'[q] = link[q]
  BY DEF TypeExit, ServerGone, TcpClientClose, Leave, IInv, TypeOK, TcpTypeOK

LEMMA ConnectionsKept ==
    ASSUME SendInv, [Next]_vars
    PROVE  Connections'
  <1>0. /\ Connections /\ backlog \in Seq(Proc) /\ sock \in [Open -> Proc]
        /\ toClient \in [Proc -> Seq(News)]
        /\ cstatus \in [Proc -> {"new", "up", "gone"}]
    BY DEF SendInv, IInv, TypeOK, TcpTypeOK, ServerTypeOK, SubscriberTypeOK
  <1>1. CASE Still
    BY <1>0, <1>1 DEF Still, Connections, InBacklog, Accepted, Open
  <1>2. CASE SendNews /\ UNCHANGED subscriberVars
    BY <1>0, <1>2, SendConnections
       DEF Connections, InBacklog, Accepted, Open, subscriberVars
  <1>3. CASE AddCon /\ UNCHANGED subscriberVars
    <2>1. PICK f \in Fd \ Open :
             /\ sock' = Put(sock, f, Head(backlog))
             /\ backlog' = Tail(backlog) /\ backlog # <<>>
             /\ UNCHANGED <<toClient, cstatus>>
      BY <1>3, AcceptedConnection DEF subscriberVars
    <2>2. /\ Head(backlog) = backlog[1] /\ 1 \in DOMAIN backlog
          /\ DOMAIN backlog = 1 .. Len(backlog) /\ Len(backlog) \in Nat
          /\ DOMAIN backlog' = 1 .. (Len(backlog) - 1)
          /\ \A k \in DOMAIN backlog' : backlog'[k] = backlog[k + 1]
      BY <1>0, <2>1, HeadTailProperties, LenProperties, EmptySeq
    <2>3. \A k \in DOMAIN backlog' :
             k + 1 \in DOMAIN backlog /\ k + 1 # 1 /\ backlog'[k] = backlog[k + 1]
      BY <2>2
    <2>4. /\ Open' = Open \cup {f} /\ f \notin Open
          /\ sock'[f] = backlog[1] /\ \A g \in Open : sock'[g] = sock[g]
      BY <2>1, <2>2 DEF Put, Open
    <2>5. \A p \in Proc : /\ InBacklog(p)' => InBacklog(p) /\ p # backlog[1]
                          /\ Accepted(p)' => Accepted(p) \/ p = backlog[1]
      <3>1. \A k \in DOMAIN backlog' : backlog'[k] # backlog[1]
        BY <1>0, <2>2, <2>3, ZenonT(60) DEF Connections
      <3>2. \A p \in Proc : InBacklog(p)' => InBacklog(p) /\ p # backlog[1]
        BY <2>3, <3>1 DEF InBacklog
      <3>3. \A p \in Proc : Accepted(p)' => Accepted(p) \/ p = backlog[1]
        BY <2>4 DEF Accepted
      <3>. QED
        BY <3>2, <3>3
    <2>6. InBacklog(backlog[1]) /\ backlog[1] \in Proc
      BY <1>0, <2>2, ElementOfSeq DEF InBacklog
    <2>7. \A k, m \in DOMAIN backlog' : backlog'[k] = backlog'[m] => k = m
      <3>. SUFFICES ASSUME NEW k \in DOMAIN backlog', NEW m \in DOMAIN backlog',
                           backlog'[k] = backlog'[m]
                    PROVE  k = m
        OBVIOUS
      <3>1. k + 1 = m + 1
        BY <1>0, <2>3 DEF Connections
      <3>. QED
        BY <2>2, <3>1
    <2>8. \A g, h \in Open' : sock'[g] = sock'[h] => g = h
      BY <1>0, <2>4, <2>6 DEF Connections, Accepted
    <2>. QED
      BY <1>0, <2>1, <2>5, <2>6, <2>7, <2>8 DEF Connections
  <1>4. CASE Closing /\ UNCHANGED subscriberVars
    <2>1. PICK fs : sock' = [f \in Open \ fs |-> sock[f]]
      BY <1>4, ClosingConnections
    <2>2. UNCHANGED <<backlog, toClient, cstatus>>
      BY <1>4, ClosingConnections DEF subscriberVars
    <2>. QED
      BY <1>0, <2>1, <2>2 DEF Connections, InBacklog, Accepted, Open
  <1>5. CASE Stopping /\ UNCHANGED subscriberVars
    <2>1. sock' = <<>> /\ backlog' = <<>> /\ UNCHANGED <<toClient, cstatus>>
      BY <1>5, StoppingSteps DEF subscriberVars
    <2>. QED
      BY <1>0, <2>1 DEF Connections, InBacklog, Accepted, Open
  <1>6. ASSUME NEW p \in Proc, Start(p)
        PROVE  Connections'
    <2>1. CASE status = "running"
      <3>1. /\ cstatus[p] = "new" /\ cstatus' = [cstatus EXCEPT ![p] = "up"]
            /\ backlog' = Append(backlog, p) /\ UNCHANGED <<sock, toClient>>
        BY <1>6, <2>1 DEF Start, TcpConnect
      <3>2. /\ DOMAIN backlog' = DOMAIN backlog \cup {Len(backlog) + 1}
            /\ backlog'[Len(backlog) + 1] = p
            /\ \A k \in DOMAIN backlog : backlog'[k] = backlog[k]
        BY <1>0, <3>1, AppendProperties, LenProperties
      <3>3. ~InBacklog(p) /\ ~Accepted(p) /\ toClient[p] = <<>>
        BY <1>0, <3>1 DEF Connections
      <3>4. \A q \in Proc : /\ InBacklog(q)' => InBacklog(q) \/ q = p
                            /\ Accepted(q)' <=> Accepted(q)
        BY <3>1, <3>2 DEF InBacklog, Accepted, Open
      <3>5. \A k, m \in DOMAIN backlog' : backlog'[k] = backlog'[m] => k = m
        BY <1>0, <3>2, <3>3 DEF Connections, InBacklog
      <3>. QED
        BY <1>0, <3>1, <3>3, <3>4, <3>5 DEF Connections, Open
    <2>2. CASE status # "running"
      BY <1>0, <1>6, <2>2
         DEF Start, Leave, tcpVars, Connections, InBacklog, Accepted, Open
    <2>. QED
      BY <2>1, <2>2
  <1>7. ASSUME NEW p \in Proc, TypeExit(p) \/ ServerGone(p)
        PROVE  Connections'
    <2>1. /\ cstatus[p] = "up" /\ cstatus' = [cstatus EXCEPT ![p] = "gone"]
          /\ UNCHANGED <<backlog, sock>>
          /\ toClient' = [toClient EXCEPT ![p] = <<>>]
      BY <1>7, LeavingConnections DEF SendInv
    <2>. QED
      BY <1>0, <2>1 DEF Connections, InBacklog, Accepted, Open
  <1>8. ASSUME NEW p \in Proc, TypeSubscribe(p) \/ TypeUnsubscribe(p)
        PROVE  Still
    BY <1>8 DEF TypeSubscribe, TypeUnsubscribe, TypeCommand, tcpVars, Still
  <1>9. ASSUME NEW p \in Proc, Pass(p)
        PROVE  Connections'
    <2>1. UNCHANGED <<backlog, sock, cstatus>> /\ cstatus[p] = "up"
      BY <1>9 DEF Pass
    <2>2. \A q \in Proc : toClient[q] = <<>> => toClient'[q] = <<>>
      BY <1>9, PassReads DEF Pass, SendInv
    <2>. QED
      BY <1>0, <2>1, <2>2 DEF Connections, InBacklog, Accepted, Open
  <1>10. CASE Publish \/ UNCHANGED vars
    BY <1>1, <1>10 DEF Publish, vars, tcpVars, subscriberVars, Still
  <1>11. CASE StillStep /\ UNCHANGED subscriberVars
    BY <1>1, <1>11, StillSteps
  <1>. QED
    BY <1>1, <1>2, <1>3, <1>4, <1>5, <1>6, <1>7, <1>8, <1>9, <1>10, <1>11
       DEF Next, ServerStep, ServerLoop, VisitEntry, Parse, StillStep, Stopping,
           Closing, SubscriberStep, Command, SubscriberLoop

(***************************************************************************)
(* The room poll has seen is still there when the entry is visited.        *)
(***************************************************************************)
\* The pass goes on over the same entries, or is over.
PassGoesOn ==
    \/ pollout' = {}
    \/ pollout' = pollout /\ \A k \in pollout : Ahead(k)' => Ahead(k)

LEMMA LoopGoesOn ==
    ASSUME IInv, \/ NextEntry
                 \/ UNCHANGED loop
                 \/ pc = "pass" /\ GoTo("send")
                 \/ pc \in {"send", "recv"} /\ (GoTo("recv") \/ GoTo("parse"))
    PROVE  PassGoesOn
  <1>1. i \in Nat /\ \A k \in pollout : k \in Nat
    BY DEF IInv, TypeOK, ServerTypeOK
  <1>2. CASE NextEntry
    BY <1>1, <1>2 DEF NextEntry, ForgetPoll, PassGoesOn, Ahead
  <1>3. CASE UNCHANGED loop
    BY <1>1, <1>3 DEF loop, PassGoesOn, Ahead
  <1>4. CASE pc = "pass" /\ GoTo("send")
    BY <1>1, <1>4 DEF GoTo, PassGoesOn, Ahead
  <1>5. CASE pc \in {"send", "recv"} /\ (GoTo("recv") \/ GoTo("parse"))
    BY <1>1, <1>5 DEF GoTo, PassGoesOn, Ahead
  <1>. QED
    BY <1>2, <1>3, <1>4, <1>5

\* Accepted connections do not open again and their channels do not fill.
RoomStays ==
    \A f \in Open : link'[sock[f]] = "open" =>
        link[sock[f]] = "open" /\ Len(toClient'[sock[f]]) <= Len(toClient[sock[f]])

LEMMA RoomKept ==
    ASSUME SendInv, PassGoesOn, RoomStays, UNCHANGED status,
           \A k \in Slot' : fds'[k] # NoFd =>
               /\ k \in Slot /\ fds'[k] = fds[k] /\ sock'[fds[k]] = sock[fds[k]]
    PROVE  RoomSeen'
  <1>. SUFFICES ASSUME Running', NEW k \in pollout', Ahead(k)', k \in Slot', fds'[k] # NoFd,
                       link'[sock'[fds'[k]]] = "open"
                PROVE  Len(toClient'[sock'[fds'[k]]]) < NewsRoom
    BY DEF RoomSeen, RoomAt
  <1>1. k \in pollout /\ Ahead(k) /\ Running
    BY DEF PassGoesOn, Running
  <1>2. k \in Slot /\ fds'[k] = fds[k] /\ sock'[fds'[k]] = sock[fds[k]] /\ fds[k] # NoFd
    OBVIOUS
  <1>3. fds[k] \in Open /\ sock[fds[k]] \in Proc
    BY <1>1, <1>2 DEF SendInv, IInv, ServerInv, DescriptorsWatchedOnce, TcpTypeOK, Running
  <1>4. /\ link[sock[fds[k]]] = "open"
        /\ Len(toClient'[sock[fds[k]]]) <= Len(toClient[sock[fds[k]]])
    BY <1>2, <1>3 DEF RoomStays
  <1>5. Len(toClient[sock[fds[k]]]) < NewsRoom
    BY <1>1, <1>2, <1>4 DEF SendInv, RoomSeen, RoomAt
  <1>. QED
    BY <1>2, <1>4, <1>5, RoomAssumption

LEMMA PollSeesRoom ==
    ASSUME SendInv, Poll
    PROVE  RoomSeen'
  BY DEF Poll, tables, tcpVars, SendInv, RoomSeen, RoomAt, Running, Slot, Writable

LEMMA StillKeepsRoom ==
    ASSUME SendInv, StillStep, ~Poll
    PROVE  RoomSeen'
  <1>1. UNCHANGED <<fds, sock, toClient, status>>
    BY DEF StillStep, PassOver, ReceiveNews, PeekAlive, NothingToSend, RecvBytes,
           RecvNothing, ParseIncomplete, ParseConnect, ParseSub, ParseUnsub,
           TcpServerRecv, tcpVars, tables
  <1>2. PassGoesOn
    BY LoopGoesOn
       DEF StillStep, PassOver, ReceiveNews, PeekAlive, NothingToSend, RecvBytes,
           RecvNothing, ParseIncomplete, ParseConnect, ParseSub, ParseUnsub, ParseOn,
           SendInv
  <1>3. \A p \in Proc : link'[p] = "open" => link[p] = "open"
    BY DEF StillStep, PassOver, ReceiveNews, PeekAlive, NothingToSend, RecvBytes,
           RecvNothing, ParseIncomplete, ParseConnect, ParseSub, ParseUnsub,
           TcpServerRecv, tcpVars, LinkAfterPeek, SendInv, IInv, TypeOK, TcpTypeOK
  <1>4. RoomStays
    BY <1>1, <1>3, LenProperties DEF RoomStays, SendInv, IInv, TypeOK, TcpTypeOK, ServerTypeOK
  <1>. QED
    BY <1>1, <1>2, <1>4, RoomKept DEF Slot

LEMMA SendKeepsRoom ==
    ASSUME SendInv, SendNews
    PROVE  RoomSeen'
  <1>. SUFFICES ASSUME Running', NEW k \in pollout', Ahead(k)', k \in Slot', fds'[k] # NoFd,
                       link'[sock'[fds'[k]]] = "open"
                PROVE  Len(toClient'[sock'[fds'[k]]]) < NewsRoom
    BY DEF RoomSeen, RoomAt
  <1>1. /\ Connection \in Proc /\ fds[i] \in Open /\ sock[fds[i]] = Connection
        /\ UNCHANGED <<fds, sock, status, i, pollout>> /\ pc' = "recv"
        /\ \A p \in Proc : /\ link'[p] \in {link[p], "dead"}
                           /\ p # Connection => toClient'[p] = toClient[p]
    BY SendConnections
  <1>2. k \in pollout /\ k > i /\ k \in Slot /\ fds[k] # NoFd /\ Running
    BY <1>1 DEF Ahead, Slot, Running
  <1>3. i \in Slot /\ i \in Nat /\ k \in Nat /\ k # i /\ fds[i] # NoFd
    BY <1>2 DEF SendNews, SendInv, IInv, ServerInv, ServerTypeOK, LoopKnows
  <1>4. fds[k] # fds[i] /\ fds[k] \in Open /\ sock[fds[k]] \in Proc
    BY <1>2, <1>3
       DEF SendInv, IInv, ServerInv, DescriptorsWatchedOnce, TcpTypeOK, Running
  <1>5. sock[fds[k]] # Connection
    BY <1>1, <1>4 DEF SendInv, Connections
  <1>6. Ahead(k) /\ link[sock[fds[k]]] = "open"
    BY <1>1, <1>2, <1>4 DEF Ahead
  <1>7. Len(toClient[sock[fds[k]]]) < NewsRoom
    BY <1>2, <1>6 DEF SendInv, RoomSeen, RoomAt
  <1>. QED
    BY <1>1, <1>4, <1>5, <1>7

\* A connection accepted in the middle of a pass has its channel empty.
LEMMA AddConKeepsRoom ==
    ASSUME SendInv, AddCon
    PROVE  RoomSeen'
  <1>1. PICK f \in Fd \ Open :
             /\ sock' = Put(sock, f, Head(backlog))
             /\ backlog \in Seq(Proc) /\ backlog # <<>>
             /\ UNCHANGED <<toClient, link>>
             /\ \/ \E k \in Slot : fds' = [fds EXCEPT ![k] = f]
                \/ fds' = Put(fds, nfds, f)
    BY AcceptedConnection
  <1>2. Head(backlog) = backlog[1] /\ 1 \in DOMAIN backlog /\ backlog[1] \in Proc
    BY <1>1, LenProperties, EmptySeq, ElementOfSeq
  <1>3. toClient'[Head(backlog)] = <<>>
    BY <1>1, <1>2 DEF SendInv, Connections, InBacklog
  <1>4. PassGoesOn
    BY LoopGoesOn DEF AddCon, SendInv
  <1>5. UNCHANGED status
    BY DEF AddCon
  <1>. SUFFICES ASSUME Running', NEW k \in pollout', Ahead(k)', k \in Slot', fds'[k] # NoFd,
                       link'[sock'[fds'[k]]] = "open"
                PROVE  Len(toClient'[sock'[fds'[k]]]) < NewsRoom
    BY DEF RoomSeen, RoomAt
  <1>6. CASE fds'[k] = f
    <2>1. sock'[fds'[k]] = Head(backlog)
      BY <1>1, <1>6 DEF Put
    <2>2. Len(toClient'[Head(backlog)]) = 0
      BY <1>3
    <2>. QED
      BY <2>1, <2>2, RoomAssumption
  <1>7. CASE fds'[k] # f
    <2>1. k \in Slot /\ fds'[k] = fds[k]
      BY <1>1, <1>7 DEF Put, Slot
    <2>2. k \in pollout /\ Ahead(k) /\ Running
      BY <1>4, <1>5 DEF PassGoesOn, Running
    <2>3. fds[k] \in Open
      BY <2>1, <2>2 DEF SendInv, IInv, ServerInv, DescriptorsWatchedOnce, Running
    <2>4. sock'[fds'[k]] = sock[fds[k]]
      BY <1>1, <2>1, <2>3 DEF Put, Open
    <2>. QED
      BY <1>1, <2>1, <2>2, <2>4 DEF SendInv, RoomSeen, RoomAt
  <1>. QED
    BY <1>6, <1>7

LEMMA ClosingKeepsRoom ==
    ASSUME SendInv, Closing
    PROVE  RoomSeen'
  <1>1. PICK fs : sock' = [f \in Open \ fs |-> sock[f]]
    BY ClosingConnections
  <1>. SUFFICES ASSUME Running', NEW k \in pollout', Ahead(k)', k \in Slot', fds'[k] # NoFd,
                       link'[sock'[fds'[k]]] = "open"
                PROVE  Len(toClient'[sock'[fds'[k]]]) < NewsRoom
    BY DEF RoomSeen, RoomAt
  <1>2. /\ fds' = [fds EXCEPT ![i] = NoFd] /\ UNCHANGED <<toClient, status>>
        /\ \A p \in Proc : link'[p] \in {"none", link[p]}
    BY ClosingConnections
       DEF Closing, PeekEof, ParseConnectTaken, ParseTooEarly, ParseUnknownType
  <1>3. PassGoesOn
    BY LoopGoesOn
       DEF Closing, PeekEof, ParseConnectTaken, ParseTooEarly, ParseUnknownType,
           ParseOn, SendInv
  <1>4. k \in Slot /\ fds'[k] = fds[k] /\ fds[k] # NoFd
    BY <1>2 DEF Slot
  <1>5. k \in pollout /\ Ahead(k) /\ Running
    BY <1>2, <1>3 DEF PassGoesOn, Running
  <1>6. ServerInv'
    BY ServerLoopKeeps DEF Closing, SendInv, IInv, ServerLoop, VisitEntry, Parse
  <1>7. fds'[k] \in Open'
    BY <1>6 DEF ServerInv, DescriptorsWatchedOnce, Running
  <1>8. fds[k] \in Open /\ sock'[fds[k]] = sock[fds[k]] /\ sock[fds[k]] \in Proc
    BY <1>1, <1>4, <1>7 DEF Open, SendInv, IInv, TypeOK, TcpTypeOK
  <1>9. link[sock[fds[k]]] = "open"
    BY <1>2, <1>4, <1>8
  <1>. QED
    BY <1>2, <1>4, <1>5, <1>8, <1>9 DEF SendInv, RoomSeen, RoomAt

LEMMA SubscriberKeepsRoom ==
    ASSUME SendInv, NEW p \in Proc, SubscriberStep(p)
    PROVE  RoomSeen'
  <1>0. toClient \in [Proc -> Seq(News)] /\ sock \in [Open -> Proc]
        /\ link \in [Proc -> LinkState]
    BY DEF SendInv, IInv, TypeOK, TcpTypeOK, ServerTypeOK
  <1>1. UNCHANGED <<serverVars, sock>>
    BY DEF SubscriberStep, Start, Command, TypeExit, TypeSubscribe, TypeUnsubscribe,
           TypeCommand, SubscriberLoop, ServerGone, Pass, TcpConnect, TcpClientClose, tcpVars
  <1>2. PassGoesOn
    BY <1>1, LoopGoesOn DEF serverVars, SendInv
  <1>3. RoomStays
    <2>1. CASE UNCHANGED <<link, toClient>>
      BY <1>0, <2>1, LenProperties DEF RoomStays
    <2>2. CASE Start(p)
      <3>1. CASE status = "running"
        <4>1. link' = [link EXCEPT ![p] = "open"] /\ UNCHANGED toClient
          BY <2>2, <3>1 DEF Start, TcpConnect
        <4>2. \A f \in Open : sock[f] # p
          BY <2>2 DEF Start, SendInv, Connections, Accepted
        <4>. QED
          BY <1>0, <4>1, <4>2, LenProperties DEF RoomStays
      <3>. QED
        BY <2>1, <2>2, <3>1 DEF Start, tcpVars
    <2>3. CASE TypeExit(p) \/ ServerGone(p)
      <3>1. /\ toClient' = [toClient EXCEPT ![p] = <<>>]
            /\ \A q \in Proc : link'[q] = "open" => link[q] = "open"
        BY <2>3, LeavingConnections DEF SendInv
      <3>2. \A q \in Proc : Len(toClient'[q]) <= Len(toClient[q])
        BY <1>0, <3>1, LenProperties
      <3>. QED
        BY <1>0, <3>1, <3>2 DEF RoomStays
    <2>4. CASE TypeSubscribe(p) \/ TypeUnsubscribe(p)
      BY <2>1, <2>4 DEF TypeSubscribe, TypeUnsubscribe, TypeCommand, tcpVars
    <2>5. CASE Pass(p)
      <3>1. UNCHANGED link /\ Read(p)
        BY <2>5 DEF Pass
      <3>2. \A q \in Proc : Len(toClient'[q]) <= Len(toClient[q])
        <4>. TAKE q \in Proc
        <4>1. CASE q = p
          BY <3>1, <4>1, PassReads DEF SendInv
        <4>2. CASE q # p
          BY <1>0, <3>1, <4>2, PassReads, LenProperties DEF SendInv
        <4>. QED
          BY <4>1, <4>2
      <3>. QED
        BY <1>0, <3>1, <3>2 DEF RoomStays
    <2>. QED
      BY <2>2, <2>3, <2>4, <2>5 DEF SubscriberStep, Command, SubscriberLoop
  <1>. QED
    BY <1>1, <1>2, <1>3, RoomKept DEF serverVars, tables, Slot

LEMMA RoomSeenKept ==
    ASSUME SendInv, [Next]_vars
    PROVE  RoomSeen'
  <1>1. CASE Publish \/ UNCHANGED vars
    BY <1>1 DEF Publish, vars, serverVars, tables, loop, tcpVars, SendInv, RoomSeen,
                RoomAt, Ahead, Running, Slot
  <1>2. CASE Stopping
    BY <1>2, StoppingSteps DEF RoomSeen
  <1>. QED
    BY <1>1, <1>2, PollSeesRoom, StillKeepsRoom, SendKeepsRoom, AddConKeepsRoom,
       ClosingKeepsRoom, SubscriberKeepsRoom
       DEF Next, ServerStep, ServerLoop, VisitEntry, Parse, StillStep, Stopping, Closing

LEMMA SendInductive == Spec => []SendInv
  <1>1. Init => Connections /\ RoomSeen
    BY DEF Init, TcpInit, ServerInit, SubscriberInit, Connections, InBacklog, Accepted,
           Open, RoomSeen
  <1>2. IInv /\ Connections /\ RoomSeen /\ [Next]_vars => Connections' /\ RoomSeen'
    BY ConnectionsKept, RoomSeenKept DEF SendInv
  <1>3. IInv /\ Connections /\ RoomSeen => SendInv
    BY DEF SendInv
  <1>. QED
    BY <1>1, <1>2, <1>3, Inductive, PTL DEF Spec

\* The only thread of the server never waits in send, for any number of
\* connections and any size of their buffers: the room that poll saw for an
\* entry is still there at its visit, whatever was accepted, sent and closed in
\* between.
THEOREM NeverBlocks == Spec => []SendNeverBlocks
  <1>1. SendInv => SendNeverBlocks
    BY DEF SendInv, RoomSeen, RoomAt, Ahead, SendNeverBlocks, HasNewsToSend, Connection,
           IInv, ServerInv, LoopKnows
  <1>. QED
    BY <1>1, SendInductive, PTL

(***************************************************************************)
(* The bytes of a connection: whole messages, the id first.                *)
(***************************************************************************)
\* A subscriber that is refused its id had nothing more read of it than that
\* id.  Else what was read after it stays in the read buffer of its descriptor
\* and is taken for bytes of the next connection (server.cpp 129-140, 178-187).
Refusal == pc = "parse" /\ Type = TCP_CONNECT /\ IsWhole /\ InUse
RefusedAlone == Refusal => Len(Buffer) = MsgCells

\* What was sent on a connection and is not parsed yet.
Pending(f) == r_buffer_for_fd[f] \o toServer[sock[f]]

\* Whole messages, from the one numbered first on only commands.
Commands(s, first) ==
    \E c \in 0 .. Len(s) :
        /\ Len(s) = MsgCells * c
        /\ \A m \in first .. (c - 1) : s[MsgCells * m + 1] \in {TCP_SUB, TCP_UNSUB}

FirstMessages(p, s) ==
    IF sent_id[p]
    THEN /\ Len(s) >= MsgCells
         /\ s[1] = TCP_CONNECT /\ s[2] = nameOf[p] /\ s[3] = NUL
         /\ Commands(s, 1)
    ELSE s = <<>>
LaterMessages(p, s) == sent_id[p] /\ Commands(s, 0)

Session(f) ==
    IF Has(fd_to_id, f)
    THEN fd_to_id[f] = OwnId(sock[f]) /\ LaterMessages(sock[f], Pending(f))
    ELSE FirstMessages(sock[f], Pending(f))

IsCommand(msg) == Len(msg) = MsgCells /\ msg[1] \in {TCP_SUB, TCP_UNSUB}

Sessions ==
    /\ \A f \in Open : Session(f)
    /\ \A p \in Proc : InBacklog(p) => FirstMessages(p, toServer[p])
    /\ \A p \in Proc : \A k \in DOMAIN buffer_w[p] : IsCommand(buffer_w[p][k])

\* What the two ends know of each other.
Ends ==
    /\ \A p \in Proc : cstatus[p] = "new" =>
         ~sent_id[p] /\ toServer[p] = <<>> /\ down[p] = "up" /\ link[p] = "none"
    /\ \A p \in Proc : InBacklog(p) \/ Accepted(p) => down[p] = "up" /\ link[p] # "none"
    /\ \A p \in Proc : link[p] \in {"fin", "reset", "dead"} => cstatus[p] = "gone"

\* Nothing is left of a closed connection under its descriptor.
Descriptors ==
    /\ Running => \A f \in Fd \ Open : r_buffer_for_fd[f] = <<>> /\ ~Has(fd_to_id, f)
    /\ \A f \in Fd : Len(r_buffer_for_fd[f]) < MsgCells \/ (pc = "parse" /\ f = fd)
    /\ pc = "parse" => fd = fds[i]
    /\ \A id \in DOMAIN id_to_fd :
         Has(fd_to_id, id_to_fd[id]) /\ fd_to_id[id_to_fd[id]] = id

SessInv == SendInv /\ OneConnectionPerId /\ Sessions /\ Ends /\ Descriptors

(***************************************************************************)
(* Lemmas on sequences of messages.                                        *)
(***************************************************************************)
\* Cells moved by recv from one buffer to the other.
LEMMA SplitConcat ==
    ASSUME NEW S, NEW a \in Seq(S), NEW b \in Seq(S), NEW n \in 0 .. Len(b)
    PROVE  /\ SubSeq(b, 1, n) \in Seq(S) /\ SubSeq(b, n + 1, Len(b)) \in Seq(S)
           /\ (a \o SubSeq(b, 1, n)) \o SubSeq(b, n + 1, Len(b)) = a \o b
  <1>1. Len(b) \in Nat /\ n \in Int /\ \A k \in 1 .. Len(b) : b[k] \in S
    BY LenProperties, ElementOfSeq
  <1>2. SubSeq(b, 1, n) \in Seq(S) /\ SubSeq(b, n + 1, Len(b)) \in Seq(S)
    BY <1>1, SubSeqProperties
  <1>3. 1 \in 1 .. Len(b) + 1 /\ n \in 1 - 1 .. Len(b) /\ Len(b) \in n .. Len(b)
    BY <1>1
  <1>4. SubSeq(b, 1, n) \o SubSeq(b, n + 1, Len(b)) = SubSeq(b, 1, Len(b))
    BY ONLY <1>3, ConcatAdjacentSubSeq, b \in Seq(S)
  <1>5. SubSeq(b, 1, Len(b)) = b
    BY SubSeqFull
  <1>6. ASSUME NEW x \in Seq(S), NEW y \in Seq(S), x \o y = b
        PROVE  (a \o x) \o y = a \o b
    <2>1. (a \o x) \o y = a \o (x \o y)
      BY ConcatAssociative
    <2>. QED
      BY <1>6, <2>1, Zenon
  <1>. QED
    BY <1>2, <1>4, <1>5, <1>6

\* Cells taken from the front of the read buffer.
LEMMA FrontTaken ==
    ASSUME NEW S, NEW a \in Seq(S), NEW b \in Seq(S), NEW n \in 0 .. Len(a)
    PROVE  /\ SubSeq(a, n + 1, Len(a)) \in Seq(S)
           /\ SubSeq(a, n + 1, Len(a)) \o b = SubSeq(a \o b, n + 1, Len(a \o b))
  <1>. DEFINE t == SubSeq(a, n + 1, Len(a))
              u == SubSeq(a \o b, n + 1, Len(a \o b))
  <1>1. /\ Len(a) \in Nat /\ Len(b) \in Nat /\ n \in Int
        /\ \A k \in 1 .. Len(a) : a[k] \in S
        /\ a \o b \in Seq(S) /\ Len(a \o b) = Len(a) + Len(b)
        /\ \A k \in 1 .. Len(a \o b) : (a \o b)[k] \in S
    BY LenProperties, ElementOfSeq, ConcatProperties
  <1>2. t \in Seq(S) /\ Len(t) = Len(a) - n /\ \A k \in 1 .. Len(a) - n : t[k] = a[n + k]
    BY <1>1, SubSeqProperties
  <1>3. /\ u \in Seq(S) /\ Len(u) = Len(a) + Len(b) - n
        /\ \A k \in 1 .. Len(a) + Len(b) - n : u[k] = (a \o b)[n + k]
    BY <1>1, SubSeqProperties
  <1>. HIDE DEF t, u
  <1>4. t \o b \in Seq(S) /\ Len(t \o b) = Len(u)
    BY <1>1, <1>2, <1>3, ConcatProperties
  <1>5. ASSUME NEW k \in 1 .. Len(t \o b)
        PROVE  (t \o b)[k] = u[k]
    <2>1. /\ k \in 1 .. Len(t) + Len(b) /\ n + k \in 1 .. Len(a) + Len(b)
          /\ k \in 1 .. Len(a) + Len(b) - n
      BY <1>1, <1>2, <1>3, <1>4
    <2>2. (t \o b)[k] = IF k <= Len(t) THEN t[k] ELSE b[k - Len(t)]
      BY <1>2, <2>1, ConcatProperties
    <2>3. (a \o b)[n + k] = IF n + k <= Len(a) THEN a[n + k] ELSE b[n + k - Len(a)]
      BY <2>1, ConcatProperties
    <2>4. k <= Len(t) => t[k] = a[n + k]
      BY <1>2, <2>1
    <2>5. k - Len(t) = n + k - Len(a) /\ (k <= Len(t) <=> n + k <= Len(a))
      BY <1>1, <1>2, <2>1
    <2>. QED
      BY <1>3, <2>1, <2>2, <2>3, <2>4, <2>5, SMTT(30)
  <1>6. t \o b = u
    BY <1>3, <1>4, <1>5, SeqEqual
  <1>. QED
    BY <1>2, <1>6 DEF t, u

LEMMA CommandsAppend ==
    ASSUME NEW s \in Seq(Cell), NEW msg \in Seq(Cell), NEW first \in {0, 1},
           Commands(s, first), IsCommand(msg)
    PROVE  Commands(s \o msg, first)
  <1>1. PICK c \in 0 .. Len(s) :
           /\ Len(s) = 3 * c
           /\ \A m \in first .. (c - 1) : s[3 * m + 1] \in {TCP_SUB, TCP_UNSUB}
    BY DEF Commands, MsgCells
  <1>2. Len(s) \in Nat /\ c \in Nat /\ Len(msg) = 3 /\ Len(s \o msg) = Len(s) + 3
    <2>1. Len(s) \in Nat /\ Len(msg) = 3
      BY LenProperties DEF IsCommand, MsgCells
    <2>2. Len(s \o msg) = Len(s) + Len(msg)
      BY ConcatProperties
    <2>. QED
      BY <2>1, <2>2
  <1>3. ASSUME NEW m \in first .. c
        PROVE  (s \o msg)[3 * m + 1] \in {TCP_SUB, TCP_UNSUB}
    <2>1. CASE m = c
      <3>1. (s \o msg)[Len(s) + 1] = msg[1]
        BY ConcatProperties DEF IsCommand, MsgCells
      <3>. QED
        BY <1>1, <2>1, <3>1 DEF IsCommand
    <2>2. CASE m # c
      <3>1. m \in first .. (c - 1) /\ 3 * m + 1 \in 1 .. Len(s)
        BY <1>1, <1>2, <2>2
      <3>2. (s \o msg)[3 * m + 1] = s[3 * m + 1]
        BY <3>1, ConcatProperties
      <3>. QED
        BY <1>1, <3>1, <3>2
    <2>. QED
      BY <2>1, <2>2
  <1>4. c + 1 \in 0 .. Len(s \o msg) /\ Len(s \o msg) = 3 * (c + 1)
    BY <1>1, <1>2
  <1>5. first .. ((c + 1) - 1) = first .. c
    BY <1>2
  <1>. QED
    BY <1>3, <1>4, <1>5 DEF Commands, MsgCells

LEMMA CommandsTaken ==
    ASSUME NEW s \in Seq(Cell), NEW first \in {0, 1}, Commands(s, first), Len(s) >= MsgCells
    PROVE  Commands(SubSeq(s, MsgCells + 1, Len(s)), 0)
  <1>. DEFINE t == SubSeq(s, 4, Len(s))
  <1>1. PICK c \in 0 .. Len(s) :
           /\ Len(s) = 3 * c
           /\ \A m \in first .. (c - 1) : s[3 * m + 1] \in {TCP_SUB, TCP_UNSUB}
    BY DEF Commands, MsgCells
  <1>2. Len(s) \in Nat /\ c \in Nat /\ c >= 1
    BY <1>1, LenProperties DEF MsgCells
  <1>3. Len(t) = 3 * (c - 1) /\ \A k \in 1 .. Len(t) : t[k] = s[k + 3]
    BY <1>1, <1>2
  <1>. HIDE DEF t
  <1>4. ASSUME NEW m \in 0 .. ((c - 1) - 1)
        PROVE  t[3 * m + 1] \in {TCP_SUB, TCP_UNSUB}
    <2>1. m + 1 \in first .. (c - 1) /\ 3 * m + 1 \in 1 .. Len(t)
      BY <1>2, <1>3
    <2>2. t[3 * m + 1] = s[(3 * m + 1) + 3] /\ (3 * m + 1) + 3 = 3 * (m + 1) + 1
      BY <1>3, <2>1
    <2>. QED
      BY <1>1, <2>1, <2>2
  <1>5. c - 1 \in 0 .. Len(t)
    BY <1>2, <1>3
  <1>6. Commands(t, 0)
    BY <1>3, <1>4, <1>5 DEF Commands, MsgCells
  <1>. QED
    BY <1>6 DEF t, MsgCells

\* A message that is there begins with a type.
LEMMA CommandsBegin ==
    ASSUME NEW s \in Seq(Cell), Commands(s, 0), s # <<>>
    PROVE  s[1] \in {TCP_SUB, TCP_UNSUB} /\ Len(s) >= MsgCells
  <1>1. PICK c \in 0 .. Len(s) :
           /\ Len(s) = 3 * c
           /\ \A m \in 0 .. (c - 1) : s[3 * m + 1] \in {TCP_SUB, TCP_UNSUB}
    BY DEF Commands, MsgCells
  <1>2. Len(s) \in Nat /\ Len(s) # 0
    BY LenProperties, EmptySeq
  <1>3. c >= 1 /\ 0 \in 0 .. (c - 1)
    BY <1>1, <1>2
  <1>4. s[3 * 0 + 1] \in {TCP_SUB, TCP_UNSUB}
    BY <1>1, <1>3
  <1>. QED
    BY <1>1, <1>3, <1>4 DEF MsgCells

LEMMA SessTypes ==
    ASSUME IInv
    PROVE  /\ r_buffer_for_fd \in [Fd \cup {NoFd} -> Seq(Cell)] /\ NoFd \notin Fd
           /\ toServer \in [Proc -> Seq(Cell)] /\ Open \subseteq Fd /\ sock \in [Open -> Proc]
           /\ \A f \in Open : Pending(f) \in Seq(Cell)
           /\ backlog \in Seq(Proc) /\ link \in [Proc -> LinkState]
           /\ down \in [Proc -> DownState] /\ sent_id \in [Proc -> BOOLEAN]
           /\ buffer_w \in [Proc -> Seq(Seq(Cell))]
           /\ cstatus \in [Proc -> {"new", "up", "gone"}]
  <1>1. /\ r_buffer_for_fd \in [Fd \cup {NoFd} -> Seq(Cell)] /\ NoFd \notin Fd
        /\ toServer \in [Proc -> Seq(Cell)] /\ Open \subseteq Fd /\ sock \in [Open -> Proc]
        /\ backlog \in Seq(Proc) /\ link \in [Proc -> LinkState]
        /\ down \in [Proc -> DownState] /\ sent_id \in [Proc -> BOOLEAN]
        /\ buffer_w \in [Proc -> Seq(Seq(Cell))]
        /\ cstatus \in [Proc -> {"new", "up", "gone"}]
    BY FdAssumption DEF IInv, TypeOK, TcpTypeOK, ServerTypeOK, SubscriberTypeOK, NoFd
  <1>2. ASSUME NEW f \in Open PROVE Pending(f) \in Seq(Cell)
    <2>1. r_buffer_for_fd[f] \in Seq(Cell) /\ toServer[sock[f]] \in Seq(Cell)
      BY <1>1
    <2>. QED
      BY <2>1, ConcatProperties DEF Pending
  <1>. QED
    BY <1>1, <1>2

\* The visited entry, and the message the parser is at.
LEMMA Visited ==
    ASSUME SendInv, pc \in {"send", "recv"} \/ (pc = "pass" /\ Visiting)
    PROVE  /\ fds[i] \in Open /\ Connection \in Proc /\ sock[fds[i]] = Connection
           /\ Accepted(Connection) /\ Running
  BY DEF SendInv, IInv, ServerInv, LoopKnows, DescriptorsWatchedOnce, Running, TcpTypeOK,
         Visiting, Connection, Accepted

LEMMA AtMessage ==
    ASSUME SessInv, pc = "parse"
    PROVE  /\ fd \in Open /\ fd = fds[i] /\ sock[fd] \in Proc /\ Running
           /\ Buffer \in Seq(Cell) /\ Len(Buffer) >= 1
           /\ IF Known THEN LaterMessages(sock[fd], Pending(fd)) /\ Type \in {TCP_SUB, TCP_UNSUB}
              ELSE /\ FirstMessages(sock[fd], Pending(fd)) /\ sent_id[sock[fd]]
                   /\ Type = TCP_CONNECT
                   /\ IsWhole => MsgId = OwnId(sock[fd])
  <1>1. /\ fd \in Fd /\ fd = fds[i] /\ Running /\ Buffer # <<>> /\ fds[i] \in Fd
        /\ i \in Slot
    BY DEF SessInv, SendInv, IInv, ServerInv, LoopKnows, Descriptors, Buffer
  <1>2. fd \in Open /\ sock[fd] \in Proc
    BY <1>1, FdAssumption
       DEF SessInv, SendInv, IInv, ServerInv, DescriptorsWatchedOnce, TcpTypeOK, NoFd, Running
  <1>3. /\ Buffer \in Seq(Cell) /\ toServer[sock[fd]] \in Seq(Cell)
        /\ Pending(fd) = Buffer \o toServer[sock[fd]] /\ Pending(fd) \in Seq(Cell)
    BY <1>1, <1>2, SessTypes DEF SessInv, SendInv, Buffer, Pending
  <1>4. Len(Buffer) \in Nat /\ Len(Buffer) >= 1 /\ Type = Buffer[1]
    BY <1>1, <1>3, LenProperties, EmptySeq DEF Type
  <1>5. Len(Pending(fd)) \in Nat /\ \A k \in 1 .. Len(Buffer) : Pending(fd)[k] = Buffer[k]
    BY <1>3, LenProperties, ConcatProperties
  <1>6. Pending(fd)[1] = Type /\ Pending(fd) # <<>>
    <2>1. 1 \in 1 .. Len(Buffer)
      BY <1>4
    <2>2. Len(Pending(fd)) = Len(Buffer) + Len(toServer[sock[fd]])
          /\ Len(toServer[sock[fd]]) \in Nat
      BY <1>3, ConcatProperties, LenProperties
    <2>3. Len(Pending(fd)) # 0
      BY <1>4, <2>2
    <2>. QED
      BY <1>4, <1>5, <2>1, <2>3
  <1>7. Session(fd)
    BY <1>2 DEF SessInv, Sessions
  <1>8. CASE Known
    BY <1>1, <1>2, <1>3, <1>4, <1>6, <1>7, <1>8, CommandsBegin
       DEF Known, Session, LaterMessages
  <1>9. CASE ~Known
    <2>1. FirstMessages(sock[fd], Pending(fd)) /\ sent_id[sock[fd]]
      BY <1>6, <1>7, <1>9 DEF Known, Session, FirstMessages
    <2>2. IsWhole => MsgId = OwnId(sock[fd])
      <3>1. IsWhole => 2 \in 1 .. Len(Buffer) /\ 3 \in 1 .. Len(Buffer)
        BY <1>4 DEF IsWhole, MsgCells
      <3>. QED
        BY <1>5, <2>1, <3>1 DEF FirstMessages, MsgId, OwnId
    <2>. QED
      BY <1>1, <1>2, <1>3, <1>4, <1>6, <1>9, <2>1, <2>2 DEF FirstMessages
  <1>. QED
    BY <1>8, <1>9

(***************************************************************************)
(* Steps that neither move bytes nor make, accept or close a connection.   *)
(***************************************************************************)
ChannelsKept ==
    UNCHANGED <<sock, r_buffer_for_fd, toServer, ids, backlog, down, sent_id, buffer_w>>

\* A peer that is gone may be noticed.
OnlyNoticed ==
    \A p \in Proc : link'[p] = link[p]
                    \/ (link[p] \in {"fin", "reset", "dead"} /\ link'[p] = "dead")

Idle ==
    \/ Poll \/ PassOver \/ ReceiveNews \/ PeekAlive \/ NothingToSend \/ SendNews
    \/ RecvNothing \/ ParseIncomplete

LEMMA IdleSteps ==
    ASSUME SessInv, Idle, UNCHANGED subscriberVars
    PROVE  /\ ChannelsKept /\ OnlyNoticed /\ UNCHANGED <<cstatus, status>>
           /\ pc' # "parse"
           /\ pc = "parse" => Len(r_buffer_for_fd[fd]) < MsgCells
  <1>1. ChannelsKept /\ UNCHANGED <<cstatus, status>> /\ pc' # "parse"
    BY DEF Idle, ChannelsKept, Poll, PassOver, ReceiveNews, PeekAlive, NothingToSend,
           SendNews, TcpServerSend, RecvNothing, ParseIncomplete, NextEntry, ForgetPoll,
           GoTo, buffers, ids, tcpVars, subscriberVars
  <1>2. OnlyNoticed
    <2>1. CASE SendNews
      <3>1. link' = [link EXCEPT ![Connection] = IF @ = "open" THEN @ ELSE "dead"]
        BY <2>1 DEF SendNews, TcpServerSend
      <3>2. Connection \in Proc /\ link[Connection] \in LinkState \ {"none"}
        BY <2>1, Visited, SessTypes DEF SendNews, SessInv, SendInv, Ends
      <3>. QED
        BY <3>1, <3>2, SessTypes DEF OnlyNoticed, LinkState, SessInv, SendInv
    <2>2. CASE PeekAlive
      BY <2>2, SessTypes DEF PeekAlive, LinkAfterPeek, OnlyNoticed, SessInv, SendInv
    <2>3. CASE Idle /\ ~SendNews /\ ~PeekAlive
      BY <2>3 DEF Idle, Poll, PassOver, ReceiveNews, NothingToSend, RecvNothing,
                  ParseIncomplete, tcpVars, OnlyNoticed
    <2>. QED
      BY <2>1, <2>2, <2>3
  <1>3. pc = "parse" => Len(r_buffer_for_fd[fd]) < MsgCells
    <2>1. pc = "parse" => ParseIncomplete
      BY DEF Idle, Poll, PassOver, ReceiveNews, PeekAlive, NothingToSend, SendNews, RecvNothing
    <2>2. pc = "parse" => Len(Buffer) \in Nat
      BY AtMessage, LenProperties
    <2>. QED
      BY <2>1, <2>2 DEF ParseIncomplete, IsWhole, MsgCells, Buffer
  <1>. QED
    BY <1>1, <1>2, <1>3

LEMMA ChannelsKeptSessions ==
    ASSUME SessInv, ChannelsKept
    PROVE  Sessions'
  BY DEF SessInv, Sessions, ChannelsKept, Session, Pending, FirstMessages, LaterMessages,
         InBacklog, Open, ids, Has

LEMMA IdleKeeps ==
    ASSUME SessInv, Idle, UNCHANGED subscriberVars
    PROVE  Sessions' /\ Ends' /\ Descriptors'
  <1>1. Sessions'
    BY IdleSteps, ChannelsKeptSessions
  <1>2. Ends'
    BY IdleSteps DEF ChannelsKept, OnlyNoticed, SessInv, Ends, InBacklog, Accepted, Open
  <1>3. Descriptors'
    BY IdleSteps DEF ChannelsKept, OnlyNoticed, SessInv, Descriptors, Running, Open, ids, Has
  <1>. QED
    BY <1>1, <1>2, <1>3

(***************************************************************************)
(* Steps that move bytes.                                                  *)
(***************************************************************************)
LEMMA RecvKeeps ==
    ASSUME SessInv, RecvBytes, UNCHANGED subscriberVars
    PROVE  Sessions' /\ Ends' /\ Descriptors'
  <1>1. /\ fds[i] \in Open /\ fds[i] \in Fd /\ Connection \in Proc
        /\ sock[fds[i]] = Connection /\ Accepted(Connection)
    BY Visited, SessTypes DEF RecvBytes, SessInv, SendInv
  <1>2. PICK n \in 1 .. BUFFER_SERVER :
           /\ n <= Len(toServer[Connection])
           /\ toServer' = [toServer EXCEPT ![Connection] = SubSeq(@, n + 1, Len(@))]
           /\ r_buffer_for_fd' = [r_buffer_for_fd EXCEPT ![fds[i]] =
                                    @ \o SubSeq(toServer[Connection], 1, n)]
    BY DEF RecvBytes, TcpServerRecv
  <1>3. /\ UNCHANGED <<sock, ids, backlog, down, link, fds, i, status>>
        /\ UNCHANGED <<sent_id, buffer_w, cstatus>>
        /\ pc' = "parse" /\ fd' = fds[i] /\ pc = "recv"
    BY DEF RecvBytes, TcpServerRecv, GoTo, tables, subscriberVars
  <1>4. r_buffer_for_fd[fds[i]] \in Seq(Cell) /\ toServer[Connection] \in Seq(Cell)
    BY <1>1, SessTypes DEF SessInv, SendInv
  <1>5. n \in 0 .. Len(toServer[Connection])
    BY <1>2, <1>4, LenProperties, BoundsAssumption
  <1>6. ASSUME NEW g \in Open PROVE Pending(g)' = Pending(g)
    <2>1. CASE g = fds[i]
      <3>1. /\ r_buffer_for_fd'[g] = r_buffer_for_fd[g] \o SubSeq(toServer[Connection], 1, n)
            /\ toServer'[Connection]
                 = SubSeq(toServer[Connection], n + 1, Len(toServer[Connection]))
        BY <1>1, <1>2, <2>1, SessTypes DEF SessInv, SendInv
      <3>2. r_buffer_for_fd'[g] \o toServer'[Connection]
              = r_buffer_for_fd[g] \o toServer[Connection]
        <4>1. (r_buffer_for_fd[fds[i]] \o SubSeq(toServer[Connection], 1, n))
                \o SubSeq(toServer[Connection], n + 1, Len(toServer[Connection]))
                  = r_buffer_for_fd[fds[i]] \o toServer[Connection]
          BY <1>4, <1>5, SplitConcat, ZenonT(60)
        <4>. QED
          BY <2>1, <3>1, <4>1, Zenon
      <3>. QED
        BY <1>1, <1>3, <2>1, <3>2 DEF Pending
    <2>2. CASE g # fds[i]
      <3>1. sock[g] # Connection
        BY <1>1, <2>2 DEF SessInv, SendInv, Connections
      <3>. QED
        BY <1>2, <1>3, <2>2, <3>1, SessTypes DEF Pending, SessInv, SendInv
    <2>. QED
      BY <2>1, <2>2
  <1>7. \A q \in Proc : InBacklog(q) \/ cstatus[q] = "new" => toServer'[q] = toServer[q]
    BY <1>1, <1>2, SessTypes DEF SessInv, SendInv, Connections
  <1>8. Sessions'
    BY <1>3, <1>6, <1>7 DEF SessInv, Sessions, Session, FirstMessages, LaterMessages,
       InBacklog, Open, ids, Has
  <1>9. Ends'
    BY <1>3, <1>7 DEF SessInv, Ends, InBacklog, Accepted, Open
  <1>10. Descriptors'
    <2>1. \A g \in Fd : g # fds[i] => r_buffer_for_fd'[g] = r_buffer_for_fd[g]
      BY <1>2, SessTypes DEF SessInv, SendInv
    <2>2. \A g \in Fd \ Open : g # fds[i]
      BY <1>1
    <2>. QED
      BY <1>3, <2>1, <2>2 DEF SessInv, Descriptors, Running, Open, ids, Has
  <1>. QED
    BY <1>8, <1>9, <1>10

LEMMA AddConKeepsSessions ==
    ASSUME SessInv, AddCon, UNCHANGED subscriberVars
    PROVE  Sessions' /\ Ends' /\ Descriptors'
  <1>1. PICK f \in Fd \ Open :
             /\ sock' = Put(sock, f, Head(backlog))
             /\ backlog' = Tail(backlog) /\ backlog \in Seq(Proc) /\ backlog # <<>>
             /\ UNCHANGED <<link, down, toServer>>
    BY AcceptedConnection DEF SessInv
  <1>2. /\ Head(backlog) = backlog[1] /\ 1 \in DOMAIN backlog /\ backlog[1] \in Proc
        /\ \A k \in DOMAIN backlog' : k + 1 \in DOMAIN backlog /\ backlog'[k] = backlog[k + 1]
    <2>1. DOMAIN backlog = 1 .. Len(backlog) /\ Len(backlog) \in Nat /\ Len(backlog) # 0
      BY <1>1, LenProperties, EmptySeq
    <2>2. /\ Len(backlog') = Len(backlog) - 1 /\ DOMAIN backlog' = 1 .. Len(backlog')
          /\ \A k \in 1 .. Len(backlog') : backlog'[k] = backlog[k + 1]
      BY <1>1, HeadTailProperties, LenProperties
    <2>. QED
      BY <1>1, <2>1, <2>2, ElementOfSeq
  <1>3. /\ Open' = Open \cup {f} /\ sock'[f] = backlog[1]
        /\ \A g \in Open : sock'[g] = sock[g]
    BY <1>1, <1>2 DEF Put, Open
  <1>4. /\ UNCHANGED <<ids, r_buffer_for_fd, status>>
        /\ UNCHANGED <<sent_id, buffer_w, cstatus>>
        /\ pc = "pass" /\ pc' # "parse" /\ Running
    BY DEF AddCon, NextEntry, ForgetPoll, buffers, subscriberVars, SessInv, SendInv, IInv,
           ServerInv, LoopKnows
  <1>5. r_buffer_for_fd[f] = <<>> /\ ~Has(fd_to_id, f)
    BY <1>1, <1>4 DEF SessInv, Descriptors
  <1>6. InBacklog(backlog[1]) /\ \A p \in Proc : InBacklog(p)' => InBacklog(p)
    BY <1>2 DEF InBacklog
  <1>7. Pending(f)' = toServer[backlog[1]]
    <2>1. toServer[backlog[1]] \in Seq(Cell)
      BY <1>2, SessTypes DEF SessInv, SendInv
    <2>. QED
      BY <1>1, <1>3, <1>4, <1>5, <2>1, ConcatEmptySeq DEF Pending
  <1>8. \A g \in Open : Pending(g)' = Pending(g)
    BY <1>1, <1>3, <1>4 DEF Pending
  <1>9. Session(f)'
    <2>1. FirstMessages(backlog[1], toServer[backlog[1]])
      BY <1>2, <1>6 DEF SessInv, Sessions
    <2>. QED
      BY <1>1, <1>3, <1>4, <1>5, <1>7, <2>1 DEF Session, FirstMessages, ids, Has
  <1>10. \A g \in Open : Session(g)'
    BY <1>3, <1>4, <1>8 DEF SessInv, Sessions, Session, FirstMessages, LaterMessages, ids, Has
  <1>11. Sessions'
    BY <1>1, <1>3, <1>4, <1>6, <1>9, <1>10 DEF SessInv, Sessions, FirstMessages
  <1>12. Ends'
    <2>1. \A p \in Proc : Accepted(p)' => Accepted(p) \/ p = backlog[1]
      BY <1>3 DEF Accepted
    <2>. QED
      BY <1>1, <1>4, <1>6, <2>1 DEF SessInv, Ends
  <1>13. Descriptors'
    BY <1>3, <1>4, <1>1 DEF SessInv, Descriptors, Running, ids, Has
  <1>. QED
    BY <1>11, <1>12, <1>13

\* A message that is obeyed leaves the commands after it.
LEMMA ObeyedKeepsSessions ==
    ASSUME SessInv, ParseConnect \/ ParseSub \/ ParseUnsub, UNCHANGED subscriberVars
    PROVE  Sessions' /\ Ends' /\ Descriptors'
  <1>1. /\ fd \in Open /\ fd = fds[i] /\ sock[fd] \in Proc /\ Running
        /\ Buffer \in Seq(Cell) /\ fd \in Fd
    BY AtMessage, SessTypes DEF ParseConnect, ParseSub, ParseUnsub, SessInv, SendInv
  <1>0. PICK f \in Fd : f = fd
    BY <1>1
  <1>2. /\ UNCHANGED <<sock, backlog, down, link, toServer, fds, status>>
        /\ UNCHANGED <<sent_id, buffer_w, cstatus>>
        /\ r_buffer_for_fd' = [r_buffer_for_fd EXCEPT ![fd] = SubSeq(@, MsgCells + 1, Len(@))]
        /\ Len(Buffer) >= MsgCells
        /\ \/ UNCHANGED loop
           \/ r_buffer_for_fd'[f] = <<>> /\ pc' # "parse"
    <2>1. /\ UNCHANGED <<sock, backlog, down, link, toServer, fds, status>>
          /\ UNCHANGED <<sent_id, buffer_w, cstatus>>
          /\ r_buffer_for_fd' = Consumed(MsgCells) /\ ParseOn(Consumed(MsgCells))
          /\ Len(Buffer) >= MsgCells
      BY DEF ParseConnect, ParseSub, ParseUnsub, tcpVars, tables, subscriberVars,
             IsWhole
    <2>2. UNCHANGED loop \/ (r_buffer_for_fd'[f] = <<>> /\ pc' # "parse")
      BY <1>0, <2>1 DEF ParseOn, NextEntry, ForgetPoll
    <2>. QED
      BY <2>1, <2>2 DEF Consumed
  <1>3. /\ f \in DOMAIN fd_to_id' /\ fd_to_id'[f] = OwnId(sock[f])
        /\ \A g \in Open : g # f => (Has(fd_to_id, g)' <=> Has(fd_to_id, g))
        /\ \A g \in Open : g # f /\ Has(fd_to_id, g) => fd_to_id'[g] = fd_to_id[g]
        /\ \A g \in Fd \ Open : Has(fd_to_id, g)' => Has(fd_to_id, g)
    <2>1. CASE ParseConnect
      <3>1. ~Known /\ MsgId = OwnId(sock[fd])
        BY <2>1, AtMessage DEF ParseConnect, TCP_CONNECT, TCP_SUB, TCP_UNSUB
      <3>2. fd_to_id' = Put(fd_to_id, fd, MsgId)
        BY <2>1 DEF ParseConnect
      <3>3. /\ DOMAIN fd_to_id' = DOMAIN fd_to_id \cup {f}
            /\ fd_to_id'[f] = MsgId
            /\ \A g \in DOMAIN fd_to_id : g # f => fd_to_id'[g] = fd_to_id[g]
        BY <1>0, <3>2 DEF Put
      <3>. QED
        BY <1>0, <1>1, <3>1, <3>3 DEF Has
    <2>2. CASE ParseSub \/ ParseUnsub
      <3>1. Known /\ UNCHANGED fd_to_id
        BY <2>2 DEF ParseSub, ParseUnsub, ids
      <3>2. Session(fd)
        BY <1>1 DEF SessInv, Sessions
      <3>. QED
        BY <1>0, <1>1, <3>1, <3>2 DEF Session, Known, Has
    <2>. QED
      BY <2>1, <2>2
  <1>4. LaterMessages(sock[f], Pending(f))'
    <2>1. /\ sent_id[sock[fd]]
          /\ \E first \in {0, 1} : Commands(Pending(fd), first)
      BY AtMessage, <1>1 DEF FirstMessages, LaterMessages, ParseConnect, ParseSub, ParseUnsub
    <2>2. toServer[sock[fd]] \in Seq(Cell) /\ Pending(fd) \in Seq(Cell)
          /\ Pending(fd) = Buffer \o toServer[sock[fd]] /\ MsgCells \in 0 .. Len(Buffer)
          /\ Len(Pending(fd)) >= MsgCells
      <3>1. toServer[sock[fd]] \in Seq(Cell) /\ Pending(fd) = Buffer \o toServer[sock[fd]]
            /\ Pending(fd) \in Seq(Cell)
        BY <1>1, SessTypes DEF SessInv, SendInv, Pending, Buffer
      <3>2. Len(Pending(fd)) = Len(Buffer) + Len(toServer[sock[fd]])
            /\ Len(Buffer) \in Nat /\ Len(toServer[sock[fd]]) \in Nat
        BY <1>1, <3>1, ConcatProperties, LenProperties
      <3>. QED
        BY <1>2, <3>1, <3>2 DEF MsgCells
    <2>3. Pending(f)' = SubSeq(Buffer, MsgCells + 1, Len(Buffer)) \o toServer[sock[fd]]
      <3>1. r_buffer_for_fd'[f] = SubSeq(Buffer, MsgCells + 1, Len(Buffer))
        BY <1>0, <1>1, <1>2, SessTypes DEF SessInv, SendInv, Buffer
      <3>. QED
        BY <1>0, <1>2, <3>1 DEF Pending
    <2>4. SubSeq(Buffer, MsgCells + 1, Len(Buffer)) \o toServer[sock[fd]]
            = SubSeq(Pending(fd), MsgCells + 1, Len(Pending(fd)))
      <3>1. SubSeq(Buffer, MsgCells + 1, Len(Buffer)) \o toServer[sock[fd]]
              = SubSeq(Buffer \o toServer[sock[fd]], MsgCells + 1,
                       Len(Buffer \o toServer[sock[fd]]))
        BY <1>1, <2>2, FrontTaken, Zenon
      <3>. QED
        BY <2>2, <3>1, Zenon
    <2>5. Commands(SubSeq(Pending(fd), MsgCells + 1, Len(Pending(fd))), 0)
      <3>1. PICK first \in {0, 1} : Commands(Pending(fd), first)
        BY <2>1
      <3>. QED
        BY <2>2, <3>1, CommandsTaken, Zenon
    <2>. QED
      <3>1. Commands(Pending(f)', 0)
        BY <2>3, <2>4, <2>5, Zenon
      <3>. QED
        BY <1>0, <1>2, <2>1, <3>1 DEF LaterMessages
  <1>5. Session(f)'
    BY <1>2, <1>3, <1>4 DEF Session, Has, OwnId
  <1>6. ASSUME NEW g \in Open, g # f
        PROVE  Session(g)'
    <2>1. Pending(g)' = Pending(g)
      BY <1>0, <1>2, <1>6, SessTypes DEF Pending, SessInv, SendInv
    <2>2. Session(g)
      BY DEF SessInv, Sessions
    <2>3. CASE Has(fd_to_id, g)
      BY <1>2, <1>3, <1>6, <2>1, <2>2, <2>3 DEF Session, LaterMessages, OwnId, Has
    <2>4. CASE ~Has(fd_to_id, g)
      BY <1>2, <1>3, <1>6, <2>1, <2>2, <2>4 DEF Session, FirstMessages, Has
    <2>. QED
      BY <2>3, <2>4
  <1>7. Sessions'
    BY <1>2, <1>5, <1>6 DEF SessInv, Sessions, FirstMessages, InBacklog, Open
  <1>8. Ends'
    BY <1>2 DEF SessInv, Ends, InBacklog, Accepted, Open
  <1>9. \A id \in DOMAIN id_to_fd' :
           Has(fd_to_id', id_to_fd'[id]) /\ fd_to_id'[id_to_fd'[id]] = id
    <2>1. CASE ParseConnect
      <3>1. ~Known
        BY <2>1, AtMessage DEF ParseConnect, TCP_CONNECT, TCP_SUB, TCP_UNSUB
      <3>2. fd_to_id' = Put(fd_to_id, fd, MsgId) /\ id_to_fd' = Put(id_to_fd, MsgId, fd)
        BY <2>1 DEF ParseConnect
      <3>. QED
        BY <3>1, <3>2 DEF Put, Has, Known, SessInv, Descriptors
    <2>2. CASE ParseSub \/ ParseUnsub
      BY <2>2 DEF ParseSub, ParseUnsub, ids, Has, SessInv, Descriptors
    <2>. QED
      BY <2>1, <2>2
  <1>10. Descriptors'
    <2>1. \A g \in Fd : g # f => r_buffer_for_fd'[g] = r_buffer_for_fd[g]
      BY <1>0, <1>2, SessTypes DEF SessInv, SendInv
    <2>2. \A g \in Fd : Len(r_buffer_for_fd'[g]) < MsgCells \/ (pc' = "parse" /\ g = fd')
      <3>. TAKE g \in Fd
      <3>1. CASE g # f
        BY <1>0, <2>1, <3>1 DEF SessInv, Descriptors
      <3>2. CASE g = f /\ UNCHANGED loop
        BY <1>0, <3>2 DEF ParseConnect, ParseSub, ParseUnsub, loop
      <3>3. CASE g = f /\ r_buffer_for_fd'[f] = <<>>
        BY <3>3 DEF MsgCells
      <3>. QED
        BY <1>2, <3>1, <3>2, <3>3
    <2>3. pc' = "parse" => fd' = fds'[i']
      BY <1>1, <1>2 DEF loop
    <2>4. Open' = Open /\ f \in Open /\ Running
      BY <1>0, <1>1, <1>2 DEF Open
    <2>5. \A g \in Fd \ Open : r_buffer_for_fd'[g] = <<>> /\ ~Has(fd_to_id', g)
      BY <1>3, <2>1, <2>4 DEF SessInv, Descriptors
    <2>. QED
      BY <1>9, <2>2, <2>3, <2>4, <2>5 DEF Descriptors
  <1>. QED
    BY <1>7, <1>8, <1>10

(***************************************************************************)
(* Closing a connection: nothing of it stays under its descriptor.         *)
(***************************************************************************)
\* Everything that was sent has been parsed when the end of file is seen.
LEMMA EofAtEnd ==
    ASSUME SessInv, PeekEof
    PROVE  r_buffer_for_fd[fds[i]] = <<>>
  <1>1. fds[i] \in Open /\ fds[i] \in Fd /\ sock[fds[i]] = Connection
        /\ r_buffer_for_fd[fds[i]] \in Seq(Cell)
    BY Visited, SessTypes DEF PeekEof, SessInv, SendInv
  <1>2. Len(r_buffer_for_fd[fds[i]]) < MsgCells
    BY <1>1 DEF PeekEof, SessInv, Descriptors
  <1>3. toServer[sock[fds[i]]] = <<>>
    BY <1>1 DEF PeekEof, PeekIsEof
  <1>4. Pending(fds[i]) = r_buffer_for_fd[fds[i]]
    BY <1>1, <1>3, ConcatEmptySeq DEF Pending
  <1>5. Session(fds[i])
    BY <1>1 DEF SessInv, Sessions
  <1>6. ~FirstMessages(sock[fds[i]], Pending(fds[i])) =>
           LaterMessages(sock[fds[i]], Pending(fds[i]))
    BY <1>5 DEF Session
  <1>7. CASE LaterMessages(sock[fds[i]], Pending(fds[i]))
    BY <1>1, <1>2, <1>4, <1>7, CommandsBegin, LenProperties DEF LaterMessages, MsgCells
  <1>8. CASE FirstMessages(sock[fds[i]], Pending(fds[i]))
    BY <1>1, <1>2, <1>4, <1>8, LenProperties DEF FirstMessages, MsgCells
  <1>. QED
    BY <1>6, <1>7, <1>8

\* A hang-up other than at an end of file is the refusal of an id.
LEMMA ClosingCause ==
    ASSUME SessInv, Closing
    PROVE  \/ PeekEof /\ cstatus[Connection] = "gone"
           \/ ParseConnectTaken /\ ~Known /\ Has(id_to_fd, OwnId(sock[fd]))
  <1>1. CASE PeekEof
    <2>1. Connection \in Proc /\ link[Connection] \in {"fin", "dead"}
      BY <1>1, Visited DEF PeekEof, PeekIsEof, SessInv
    <2>. QED
      BY <1>1, <2>1 DEF SessInv, Ends
  <1>2. CASE ParseConnectTaken
    <2>1. ~Known /\ MsgId = OwnId(sock[fd])
      BY <1>2, AtMessage DEF ParseConnectTaken, TCP_CONNECT, TCP_SUB, TCP_UNSUB
    <2>. QED
      BY <1>2, <2>1 DEF ParseConnectTaken, InUse
  <1>3. ASSUME ParseTooEarly PROVE FALSE
    <2>1. pc = "parse" /\ ~Known /\ Type \in {TCP_SUB, TCP_UNSUB}
      BY <1>3 DEF ParseTooEarly
    <2>2. Type = TCP_CONNECT
      BY <2>1, AtMessage
    <2>. QED
      BY <2>1, <2>2 DEF TCP_CONNECT, TCP_SUB, TCP_UNSUB
  <1>4. ~ParseUnknownType
    BY AtMessage DEF ParseUnknownType
  <1>. QED
    BY <1>1, <1>2, <1>3, <1>4 DEF Closing

LEMMA ForgetKeepsReverse ==
    ASSUME SessInv, NEW f \in DOMAIN fd_to_id, ForgetId(f)
    PROVE  \A id \in DOMAIN id_to_fd' :
              Has(fd_to_id', id_to_fd'[id]) /\ fd_to_id'[id_to_fd'[id]] = id
  <1>. TAKE id \in DOMAIN id_to_fd'
  <1>1. id \in DOMAIN id_to_fd /\ id # fd_to_id[f] /\ id_to_fd'[id] = id_to_fd[id]
    BY DEF ForgetId, Erase
  <1>2. id_to_fd[id] \in DOMAIN fd_to_id /\ fd_to_id[id_to_fd[id]] = id
    BY <1>1 DEF SessInv, Descriptors, Has
  <1>3. id_to_fd[id] # f
    BY <1>1, <1>2
  <1>. QED
    BY <1>1, <1>2, <1>3 DEF ForgetId, Erase, Has

LEMMA ClosingSession ==
    ASSUME SessInv, RefusedAlone, Closing
    PROVE  \E f \in Open :
             /\ f = fds[i] /\ f \in Fd /\ sock[f] \in Proc
             /\ sock' = [g \in Open \ {f} |-> sock[g]]
             /\ r_buffer_for_fd'[f] = <<>>
             /\ \A g \in Fd : g # f => r_buffer_for_fd'[g] = r_buffer_for_fd[g]
             /\ \A g \in Fd : Len(r_buffer_for_fd'[g]) < MsgCells
             /\ ~Has(fd_to_id', f)
             /\ \A g \in Fd : g # f => (Has(fd_to_id, g)' <=> Has(fd_to_id, g))
             /\ \A g \in Fd : g # f /\ Has(fd_to_id, g) => fd_to_id'[g] = fd_to_id[g]
             /\ \A p \in Proc : p # sock[f] =>
                   toServer'[p] = toServer[p] /\ down'[p] = down[p] /\ link'[p] = link[p]
             /\ link'[sock[f]] = "none"
             /\ UNCHANGED <<backlog, status>> /\ pc' # "parse"
             /\ \A id \in DOMAIN id_to_fd' :
                   Has(fd_to_id', id_to_fd'[id]) /\ fd_to_id'[id_to_fd'[id]] = id
  <1>1. /\ fds[i] \in Open /\ fds[i] \in Fd /\ sock[fds[i]] \in Proc
        /\ pc = "parse" => fd = fds[i]
    BY Visited, AtMessage, SessTypes
       DEF Closing, PeekEof, ParseConnectTaken, ParseTooEarly, ParseUnknownType, SessInv,
           SendInv
  <1>2. PICK f \in Open : f = fds[i]
    BY <1>1
  <1>3. \E delete_id, read :
           /\ Disconnect(i, delete_id, read)
           /\ read \in [Fd \cup {NoFd} -> Seq(Cell)]
           /\ read[f] = <<>>
           /\ \A g \in Fd : g # f => read[g] = r_buffer_for_fd[g]
           /\ \A g \in Fd : g # f => Len(r_buffer_for_fd[g]) < MsgCells
           /\ Has(fd_to_id, f) => delete_id
           /\ UNCHANGED status /\ pc' # "parse"
    <2>1. CASE PeekEof
      <3>1. Disconnect(i, Has(fd_to_id, fds[i]), r_buffer_for_fd) /\ pc = "pass"
            /\ UNCHANGED status /\ pc' # "parse"
        BY <2>1 DEF PeekEof, NextEntry, ForgetPoll
      <3>. QED
        BY <1>2, <2>1, <3>1, EofAtEnd, SessTypes DEF SessInv, SendInv, Descriptors
    <2>2. CASE ParseConnectTaken /\ ~Known
      <3>1. /\ Disconnect(i, FALSE, Consumed(MsgCells)) /\ pc = "parse" /\ UNCHANGED status
            /\ ParseOn(Consumed(MsgCells)) /\ Len(Buffer) = MsgCells
        BY <2>2 DEF ParseConnectTaken, RefusedAlone, Refusal
      <3>2. Buffer \in Seq(Cell) /\ fd \in Fd /\ fd = f
        BY <1>1, <1>2, <3>1, AtMessage, SessTypes DEF SessInv, SendInv
      <3>3. SubSeq(Buffer, MsgCells + 1, Len(Buffer)) = <<>>
        BY <3>1, SubSeqEmpty DEF MsgCells
      <3>4. /\ Consumed(MsgCells) \in [Fd \cup {NoFd} -> Seq(Cell)]
            /\ \A g \in Fd : g # f => Consumed(MsgCells)[g] = r_buffer_for_fd[g]
            /\ Consumed(MsgCells)[f] = <<>>
        BY <3>2, <3>3, EmptySeq, SessTypes DEF Consumed, Buffer, SessInv, SendInv
      <3>5. pc' # "parse"
        BY <3>1, <3>2, <3>4 DEF ParseOn, NextEntry, ForgetPoll
      <3>6. \A g \in Fd : g # f => Len(r_buffer_for_fd[g]) < MsgCells
        BY <3>2 DEF SessInv, Descriptors
      <3>. QED
        BY <2>2, <3>1, <3>2, <3>4, <3>5, <3>6 DEF Known
    <2>. QED
      BY <2>1, <2>2, ClosingCause
  <1>4. PICK delete_id, read :
           /\ Disconnect(i, delete_id, read)
           /\ read \in [Fd \cup {NoFd} -> Seq(Cell)]
           /\ read[f] = <<>>
           /\ \A g \in Fd : g # f => read[g] = r_buffer_for_fd[g]
           /\ \A g \in Fd : g # f => Len(r_buffer_for_fd[g]) < MsgCells
           /\ Has(fd_to_id, f) => delete_id
           /\ UNCHANGED status /\ pc' # "parse"
    BY <1>3
  <1>5. /\ r_buffer_for_fd' = [read EXCEPT ![NoFd] = <<>>]
        /\ TcpServerClose({f})
        /\ IF Has(fd_to_id, f) THEN ForgetId(f) ELSE UNCHANGED ids
    BY <1>2, <1>4 DEF Disconnect
  <1>6. /\ r_buffer_for_fd'[f] = <<>>
        /\ \A g \in Fd : g # f => r_buffer_for_fd'[g] = r_buffer_for_fd[g]
        /\ \A g \in Fd : Len(r_buffer_for_fd'[g]) < MsgCells
    <2>1. \A g \in Fd : r_buffer_for_fd'[g] = read[g]
      BY <1>4, <1>5, FdAssumption DEF NoFd
    <2>. QED
      BY <1>1, <1>2, <1>4, <2>1 DEF MsgCells
  <1>7. /\ ~Has(fd_to_id', f)
        /\ \A g \in Fd : g # f => (Has(fd_to_id, g)' <=> Has(fd_to_id, g))
        /\ \A g \in Fd : g # f /\ Has(fd_to_id, g) => fd_to_id'[g] = fd_to_id[g]
    BY <1>5 DEF ForgetId, Erase, Has, ids
  <1>8. /\ sock' = [g \in Open \ {f} |-> sock[g]] /\ UNCHANGED backlog
        /\ \A p \in Proc : p # sock[f] =>
              toServer'[p] = toServer[p] /\ down'[p] = down[p] /\ link'[p] = link[p]
        /\ link'[sock[f]] = "none"
    <2>1. {sock[g] : g \in {f} \cap Open} = {sock[f]}
      OBVIOUS
    <2>2. sock[f] \in Proc
      BY <1>1, <1>2
    <2>. QED
      BY <1>5, <2>1, <2>2 DEF TcpServerClose, Closed
  <1>9. \A id \in DOMAIN id_to_fd' :
           Has(fd_to_id', id_to_fd'[id]) /\ fd_to_id'[id_to_fd'[id]] = id
    <2>1. CASE Has(fd_to_id, f)
      BY <1>5, <2>1, ForgetKeepsReverse DEF Has
    <2>2. CASE ~Has(fd_to_id, f)
      BY <1>5, <2>2 DEF SessInv, Descriptors, ids, Has
    <2>. QED
      BY <2>1, <2>2
  <1>. QED
    BY <1>1, <1>2, <1>4, <1>6, <1>7, <1>8, <1>9

LEMMA ClosingKeepsSessions ==
    ASSUME SessInv, RefusedAlone, Closing, UNCHANGED subscriberVars
    PROVE  Sessions' /\ Ends' /\ Descriptors'
  <1>1. PICK f \in Open :
             /\ f \in Fd /\ sock[f] \in Proc
             /\ sock' = [g \in Open \ {f} |-> sock[g]]
             /\ r_buffer_for_fd'[f] = <<>>
             /\ \A g \in Fd : g # f => r_buffer_for_fd'[g] = r_buffer_for_fd[g]
             /\ \A g \in Fd : Len(r_buffer_for_fd'[g]) < MsgCells
             /\ ~Has(fd_to_id', f)
             /\ \A g \in Fd : g # f => (Has(fd_to_id, g)' <=> Has(fd_to_id, g))
             /\ \A g \in Fd : g # f /\ Has(fd_to_id, g) => fd_to_id'[g] = fd_to_id[g]
             /\ \A p \in Proc : p # sock[f] =>
                   toServer'[p] = toServer[p] /\ down'[p] = down[p] /\ link'[p] = link[p]
             /\ link'[sock[f]] = "none"
             /\ UNCHANGED <<backlog, status>> /\ pc' # "parse"
             /\ \A id \in DOMAIN id_to_fd' :
                   Has(fd_to_id', id_to_fd'[id]) /\ fd_to_id'[id_to_fd'[id]] = id
    BY ClosingSession
  <1>2. UNCHANGED <<sent_id, buffer_w, cstatus>>
    BY DEF subscriberVars
  <1>3. /\ Open' = Open \ {f} /\ Open \subseteq Fd
        /\ \A g \in Open' : sock'[g] = sock[g] /\ sock[g] # sock[f] /\ sock[g] \in Proc
    BY <1>1, SessTypes DEF Open, SessInv, SendInv, Connections
  <1>4. Accepted(sock[f]) /\ \A p \in Proc : Accepted(p)' => Accepted(p) /\ p # sock[f]
    BY <1>3 DEF Accepted
  <1>5. \A p \in Proc : InBacklog(p)' => InBacklog(p) /\ p # sock[f]
    BY <1>1, <1>4 DEF InBacklog, SessInv, SendInv, Connections
  <1>6. ASSUME NEW g \in Open' PROVE Session(g)'
    <2>1. g \in Open /\ g \in Fd /\ g # f /\ Session(g)
      BY <1>3 DEF SessInv, Sessions
    <2>2. Pending(g)' = Pending(g)
      BY <1>1, <1>3, <2>1 DEF Pending
    <2>3. CASE Has(fd_to_id, g)
      BY <1>1, <1>2, <1>3, <2>1, <2>2, <2>3 DEF Session, LaterMessages, OwnId, Has
    <2>4. CASE ~Has(fd_to_id, g)
      BY <1>1, <1>2, <1>3, <2>1, <2>2, <2>4 DEF Session, FirstMessages, Has
    <2>. QED
      BY <2>3, <2>4
  <1>7. Sessions'
    BY <1>1, <1>2, <1>5, <1>6 DEF SessInv, Sessions, FirstMessages
  <1>8. Ends'
    <2>1. \A p \in Proc : cstatus[p] = "new" => p # sock[f]
      BY <1>4 DEF SessInv, SendInv, Connections
    <2>. QED
      BY <1>1, <1>2, <1>4, <1>5, <2>1 DEF SessInv, Ends
  <1>9. Descriptors'
    BY <1>1, <1>3 DEF SessInv, Descriptors, Running, Has
  <1>. QED
    BY <1>7, <1>8, <1>9

LEMMA StoppingKeepsSessions ==
    ASSUME SessInv, Stopping, UNCHANGED subscriberVars
    PROVE  Sessions' /\ Ends' /\ Descriptors'
  <1>1. /\ sock' = <<>> /\ backlog' = <<>> /\ pc' = "end" /\ status' # "running"
        /\ UNCHANGED <<r_buffer_for_fd, ids>> /\ link' = [p \in Proc |-> "none"]
    BY StoppingSteps DEF SessInv
  <1>2. /\ UNCHANGED <<sent_id, buffer_w, cstatus>>
        /\ toServer' = [p \in Proc |-> <<>>]
        /\ \A p \in Proc : link[p] = "none" => down'[p] = down[p]
    BY DEF Stopping, Exit, AddConFails, SendKillsServer, Stop, TcpServerEnds, subscriberVars
  <1>3. Sessions'
    BY <1>1, <1>2 DEF SessInv, Sessions, InBacklog, Open
  <1>4. Ends'
    BY <1>1, <1>2 DEF SessInv, Ends, InBacklog, Accepted, Open
  <1>5. Descriptors'
    <2>1. pc # "parse"
      BY DEF Stopping, Exit, AddConFails, SendKillsServer
    <2>. QED
      BY <1>1, <2>1 DEF SessInv, Descriptors, Running, ids, Has
  <1>. QED
    BY <1>3, <1>4, <1>5

(***************************************************************************)
(* The subscribers' steps.                                                 *)
(***************************************************************************)
LEMMA DescriptorsOfServer ==
    ASSUME SessInv, UNCHANGED <<serverVars, sock>>,
           \A p \in Proc : link'[p] \in {"fin", "reset", "dead"} => cstatus'[p] = "gone"
    PROVE  Descriptors'
  BY DEF SessInv, Descriptors, serverVars, tables, ids, buffers, loop, Running, Open, Has

LEMMA SessionsOfBytes ==
    ASSUME SessInv, UNCHANGED <<serverVars, sock, toServer, backlog, sent_id>>,
           \A p \in Proc : \A k \in DOMAIN buffer_w'[p] : IsCommand(buffer_w'[p][k])
    PROVE  Sessions'
  BY DEF SessInv, Sessions, Session, Pending, FirstMessages, LaterMessages, Open,
         serverVars, ids, buffers, Has, InBacklog

LEMMA StartKeepsSessions ==
    ASSUME SessInv, NEW p \in Proc, Start(p)
    PROVE  Sessions' /\ Ends' /\ Descriptors'
  <1>0. /\ cstatus[p] = "new" /\ ~InBacklog(p) /\ ~Accepted(p) /\ UNCHANGED serverVars
        /\ ~sent_id[p] /\ toServer[p] = <<>> /\ down[p] = "up" /\ link[p] = "none"
    BY DEF Start, SessInv, SendInv, Connections, Ends
  <1>1. CASE status = "running"
    <2>1. /\ cstatus' = [cstatus EXCEPT ![p] = "up"]
          /\ backlog' = Append(backlog, p) /\ link' = [link EXCEPT ![p] = "open"]
          /\ UNCHANGED <<sock, down, toServer, sent_id, buffer_w>>
      BY <1>1 DEF Start, TcpConnect
    <2>2. \A q \in Proc : InBacklog(q)' => InBacklog(q) \/ q = p
      <3>1. /\ DOMAIN backlog' = DOMAIN backlog \cup {Len(backlog) + 1}
            /\ backlog'[Len(backlog) + 1] = p
            /\ \A k \in DOMAIN backlog : backlog'[k] = backlog[k]
        BY <2>1, AppendProperties, LenProperties, SessTypes DEF SessInv, SendInv
      <3>. QED
        BY <3>1 DEF InBacklog
    <2>3. Sessions'
      BY <1>0, <2>1, <2>2 DEF SessInv, Sessions, Session, Pending, FirstMessages,
         LaterMessages, Open, serverVars, ids, buffers, Has
    <2>4. Ends'
      BY <1>0, <2>1, <2>2, SessTypes DEF SessInv, SendInv, Ends, Accepted, Open
    <2>5. Descriptors'
      BY <1>0, <2>1, <2>4, DescriptorsOfServer DEF Ends
    <2>. QED
      BY <2>3, <2>4, <2>5
  <1>2. CASE status # "running"
    <2>1. /\ cstatus' = [cstatus EXCEPT ![p] = "gone"] /\ UNCHANGED <<tcpVars, sent_id>>
          /\ buffer_w' = [buffer_w EXCEPT ![p] = <<>>]
      BY <1>2 DEF Start, Leave
    <2>2. Sessions'
      <3>1. \A q \in Proc : \A k \in DOMAIN buffer_w'[q] : IsCommand(buffer_w'[q][k])
        BY <2>1, SessTypes DEF SessInv, SendInv, Sessions
      <3>. QED
        BY <1>0, <2>1, <3>1, SessionsOfBytes DEF tcpVars
    <2>3. Ends'
      BY <1>0, <2>1, SessTypes DEF SessInv, SendInv, Ends, Accepted, InBacklog, Open, tcpVars
    <2>4. Descriptors'
      BY <1>0, <2>1, <2>3, DescriptorsOfServer DEF Ends, tcpVars
    <2>. QED
      BY <2>2, <2>3, <2>4
  <1>. QED
    BY <1>1, <1>2

LEMMA LeavingKeepsSessions ==
    ASSUME SessInv, NEW p \in Proc, TypeExit(p) \/ ServerGone(p)
    PROVE  Sessions' /\ Ends' /\ Descriptors'
  <1>1. /\ cstatus[p] = "up" /\ cstatus' = [cstatus EXCEPT ![p] = "gone"]
        /\ UNCHANGED <<backlog, sock, down, toServer, serverVars>>
        /\ \A q \in Proc : q # p => link'[q] = link[q]
    BY LeavingConnections DEF SessInv, SendInv
  <1>2. /\ UNCHANGED sent_id /\ buffer_w' = [buffer_w EXCEPT ![p] = <<>>]
        /\ link[p] # "none" => link'[p] # "none"
    BY SessTypes DEF TypeExit, ServerGone, Leave, TcpClientClose, SessInv, SendInv
  <1>3. Sessions'
    <2>1. \A q \in Proc : \A k \in DOMAIN buffer_w'[q] : IsCommand(buffer_w'[q][k])
      BY <1>2, SessTypes DEF SessInv, SendInv, Sessions
    <2>. QED
      BY <1>1, <1>2, <2>1, SessionsOfBytes
  <1>4. Ends'
    BY <1>1, <1>2, SessTypes DEF SessInv, SendInv, Ends, Accepted, InBacklog, Open
  <1>5. Descriptors'
    BY <1>1, <1>4, DescriptorsOfServer DEF Ends
  <1>. QED
    BY <1>3, <1>4, <1>5

LEMMA CommandKeepsSessions ==
    ASSUME SessInv, NEW p \in Proc, TypeSubscribe(p) \/ TypeUnsubscribe(p)
    PROVE  Sessions' /\ Ends' /\ Descriptors'
  <1>1. PICK msg \in Seq(Cell) : TypeCommand(p, msg) /\ IsCommand(msg)
    <2>1. ASSUME NEW topic \in Topic, NEW sf \in 0..3
          PROVE  /\ SubMsg(topic, sf) \in Seq(Cell) /\ IsCommand(SubMsg(topic, sf))
                 /\ UnsubMsg(topic, sf) \in Seq(Cell) /\ IsCommand(UnsubMsg(topic, sf))
      BY MessageTypes DEF IsCommand, SubMsg, UnsubMsg, MsgCells
    <2>2. CASE TypeSubscribe(p)
      BY <2>1, <2>2 DEF TypeSubscribe
    <2>3. CASE TypeUnsubscribe(p)
      BY <2>1, <2>3, SubscriberAssumption DEF TypeUnsubscribe
    <2>. QED
      BY <2>2, <2>3
  <1>2. /\ UNCHANGED <<tcpVars, serverVars, sent_id, cstatus>>
        /\ buffer_w' = [buffer_w EXCEPT ![p] = Append(@, msg)]
    BY <1>1 DEF TypeCommand
  <1>3. ASSUME NEW q \in Proc, NEW k \in DOMAIN buffer_w'[q]
        PROVE  IsCommand(buffer_w'[q][k])
    <2>1. CASE q = p
      <3>1. buffer_w[p] \in Seq(Seq(Cell)) /\ buffer_w'[p] = Append(buffer_w[p], msg)
        BY <1>2, SessTypes DEF SessInv, SendInv
      <3>2. /\ DOMAIN buffer_w'[p] = DOMAIN buffer_w[p] \cup {Len(buffer_w[p]) + 1}
            /\ buffer_w'[p][Len(buffer_w[p]) + 1] = msg
            /\ \A j \in DOMAIN buffer_w[p] : buffer_w'[p][j] = buffer_w[p][j]
        BY <3>1, AppendProperties, LenProperties
      <3>. QED
        BY <1>1, <2>1, <3>2 DEF SessInv, Sessions
    <2>2. CASE q # p
      BY <1>2, <2>2, SessTypes DEF SessInv, SendInv, Sessions
    <2>. QED
      BY <2>1, <2>2
  <1>4. Sessions'
    BY <1>2, <1>3, SessionsOfBytes DEF tcpVars
  <1>5. Ends'
    BY <1>2 DEF SessInv, Ends, Accepted, InBacklog, Open, tcpVars
  <1>6. Descriptors'
    BY <1>2, <1>5, DescriptorsOfServer DEF Ends, tcpVars
  <1>. QED
    BY <1>4, <1>5, <1>6

\* What a pass writes: nothing, the id, or a command after it.
Wrote(p, msg) ==
    /\ toServer' = [toServer EXCEPT ![p] = @ \o msg]
    /\ sent_id' = [sent_id EXCEPT ![p] = TRUE]
    /\ \/ ~sent_id[p] /\ msg = ConnectMsg(p)
       \/ sent_id[p] /\ IsCommand(msg)

LEMMA WriteEffect ==
    ASSUME SessInv, NEW p \in Proc, Write(p)
    PROVE  /\ \A q \in Proc : q # p => /\ toServer'[q] = toServer[q] /\ sent_id'[q] = sent_id[q]
                                       /\ down'[q] = down[q]
           /\ \A q \in Proc : \A k \in DOMAIN buffer_w'[q] : IsCommand(buffer_w'[q][k])
           /\ down[p] = "up" =>
                /\ down'[p] = "up"
                /\ \/ UNCHANGED <<toServer, sent_id>>
                   \/ \E msg \in Seq(Cell) : Wrote(p, msg)
  <1>. DEFINE msg == IF ~sent_id[p] THEN ConnectMsg(p)
                     ELSE IF buffer_w[p] # <<>> THEN Head(buffer_w[p]) ELSE <<>>
  <1>0. /\ buffer_w \in [Proc -> Seq(Seq(Cell))] /\ toServer \in [Proc -> Seq(Cell)]
        /\ sent_id \in [Proc -> BOOLEAN] /\ down \in [Proc -> DownState]
        /\ \A q \in Proc : \A k \in DOMAIN buffer_w[q] : IsCommand(buffer_w[q][k])
    BY SessTypes DEF SessInv, SendInv, Sessions
  <1>1. CASE ~ClientWritable(p, MsgCells)
    BY <1>0, <1>1 DEF Write
  <1>2. CASE ClientWritable(p, MsgCells)
    <2>1. /\ sent_id' = [sent_id EXCEPT ![p] = TRUE]
          /\ buffer_w' = [buffer_w EXCEPT ![p] =
                            IF sent_id[p] /\ @ # <<>> THEN Tail(@) ELSE @]
          /\ toServer' = SentToServer(p, msg)
          /\ down' = IF msg = <<>> THEN down ELSE DownAfterSend(p)
      BY <1>2 DEF Write
    <2>2. buffer_w[p] \in Seq(Seq(Cell))
      BY <1>0
    <2>3. buffer_w[p] # <<>> => /\ Head(buffer_w[p]) \in Seq(Cell)
                                /\ IsCommand(Head(buffer_w[p]))
      <3>1. buffer_w[p] # <<>> => /\ Head(buffer_w[p]) \in Seq(Cell)
                                  /\ Head(buffer_w[p]) = buffer_w[p][1]
                                  /\ 1 \in DOMAIN buffer_w[p]
        BY <2>2, LenProperties, EmptySeq, HeadTailProperties
      <3>. QED
        BY <1>0, <3>1
    <2>4. \A q \in Proc : \A k \in DOMAIN buffer_w'[q] : IsCommand(buffer_w'[q][k])
      <3>1. buffer_w[p] # <<>> => \A k \in DOMAIN Tail(buffer_w[p]) :
                                     /\ k + 1 \in DOMAIN buffer_w[p]
                                     /\ Tail(buffer_w[p])[k] = buffer_w[p][k + 1]
        BY <2>2, LenProperties, HeadTailProperties
      <3>2. buffer_w[p] # <<>> =>
               \A k \in DOMAIN Tail(buffer_w[p]) : IsCommand(Tail(buffer_w[p])[k])
        BY <1>0, <3>1
      <3>3. buffer_w'[p] = buffer_w[p]
            \/ (buffer_w[p] # <<>> /\ buffer_w'[p] = Tail(buffer_w[p]))
        BY <1>0, <2>1
      <3>. QED
        BY <1>0, <2>1, <3>2, <3>3
    <2>5. \A q \in Proc : q # p => /\ toServer'[q] = toServer[q] /\ sent_id'[q] = sent_id[q]
                                   /\ down'[q] = down[q]
      BY <1>0, <2>1 DEF SentToServer, DownAfterSend
    <2>6. ASSUME down[p] = "up"
          PROVE  /\ down' = down
                 /\ toServer' = [toServer EXCEPT ![p] = @ \o msg]
      BY <2>1, <2>6 DEF SentToServer, DownAfterSend
    <2>7. ASSUME down[p] = "up"
          PROVE  \/ UNCHANGED <<toServer, sent_id>>
                 \/ \E m \in Seq(Cell) : Wrote(p, m)
      <3>1. CASE ~sent_id[p]
        <4>1. msg = ConnectMsg(p) /\ ConnectMsg(p) \in Seq(Cell)
          BY <3>1, SubscriberAssumption DEF ConnectMsg, Cell, TCP_CONNECT, NUL
        <4>. QED
          BY <2>1, <2>6, <2>7, <3>1, <4>1 DEF Wrote
      <3>2. CASE sent_id[p] /\ buffer_w[p] # <<>>
        <4>1. msg = Head(buffer_w[p])
          BY <3>2
        <4>. QED
          BY <2>1, <2>3, <2>6, <2>7, <3>2, <4>1 DEF Wrote
      <3>3. CASE sent_id[p] /\ buffer_w[p] = <<>>
        <4>1. msg = <<>>
          BY <3>3
        <4>2. toServer[p] \o <<>> = toServer[p]
          BY <1>0, ConcatEmptySeq
        <4>. QED
          BY <1>0, <2>1, <2>6, <2>7, <3>3, <4>1, <4>2
      <3>. QED
        BY <3>1, <3>2, <3>3
    <2>. QED
      BY <2>4, <2>5, <2>6, <2>7
  <1>. QED
    BY <1>1, <1>2

\* The bytes s of p before, followed by the message now.
LEMMA FirstMessagesGrow ==
    ASSUME SessInv, NEW p \in Proc, NEW msg \in Seq(Cell), Wrote(p, msg),
           NEW s \in Seq(Cell), FirstMessages(p, s)
    PROVE  FirstMessages(p, s \o msg)'
  <1>0. sent_id'[p]
    BY SessTypes DEF Wrote, SessInv, SendInv
  <1>1. CASE ~sent_id[p]
    <2>1. s = <<>> /\ msg = ConnectMsg(p)
      BY <1>1 DEF FirstMessages, Wrote
    <2>2. s \o msg = ConnectMsg(p)
      BY <2>1, ConcatEmptySeq
    <2>3. Commands(ConnectMsg(p), 1)
      BY DEF Commands, ConnectMsg, MsgCells
    <2>. QED
      BY <1>0, <2>2, <2>3 DEF FirstMessages, ConnectMsg, MsgCells
  <1>2. CASE sent_id[p]
    <2>1. /\ Len(s) >= MsgCells /\ s[1] = TCP_CONNECT /\ s[2] = nameOf[p] /\ s[3] = NUL
          /\ Commands(s, 1) /\ IsCommand(msg)
      BY <1>2 DEF FirstMessages, Wrote
    <2>2. Commands(s \o msg, 1)
      BY <2>1, CommandsAppend
    <2>3. /\ Len(s \o msg) >= MsgCells /\ (s \o msg)[1] = s[1]
          /\ (s \o msg)[2] = s[2] /\ (s \o msg)[3] = s[3]
      <3>1. Len(s) \in Nat /\ Len(msg) \in Nat /\ Len(s) >= 3
        BY <2>1, LenProperties DEF MsgCells
      <3>2. /\ Len(s \o msg) = Len(s) + Len(msg)
            /\ \A k \in 1 .. Len(s) : (s \o msg)[k] = s[k]
        BY <3>1, ConcatProperties
      <3>. QED
        BY <3>1, <3>2 DEF MsgCells
    <2>4. /\ (s \o msg)[1] = TCP_CONNECT /\ (s \o msg)[2] = nameOf[p]
          /\ (s \o msg)[3] = NUL
      BY <2>1, <2>3, Zenon
    <2>5. ASSUME NEW t, t = s \o msg
          PROVE  FirstMessages(p, t)'
      BY <1>0, <2>2, <2>3, <2>4, <2>5 DEF FirstMessages
    <2>. QED
      BY <2>5
  <1>. QED
    BY <1>1, <1>2

LEMMA LaterMessagesGrow ==
    ASSUME SessInv, NEW p \in Proc, NEW msg \in Seq(Cell), Wrote(p, msg),
           NEW s \in Seq(Cell), LaterMessages(p, s)
    PROVE  LaterMessages(p, s \o msg)'
  <1>1. sent_id'[p] /\ IsCommand(msg) /\ Commands(s, 0)
    BY SessTypes DEF Wrote, LaterMessages, SessInv, SendInv
  <1>2. Commands(s \o msg, 0)
    BY <1>1, CommandsAppend
  <1>. QED
    BY <1>1, <1>2 DEF LaterMessages

LEMMA PassKeepsSessions ==
    ASSUME SessInv, NEW p \in Proc, Pass(p)
    PROVE  Sessions' /\ Ends' /\ Descriptors'
  <1>1. /\ cstatus[p] = "up" /\ Write(p)
        /\ UNCHANGED <<serverVars, backlog, sock, link, cstatus>>
    BY DEF Pass
  <1>2. /\ \A q \in Proc : q # p => /\ toServer'[q] = toServer[q] /\ sent_id'[q] = sent_id[q]
                                    /\ down'[q] = down[q]
        /\ \A q \in Proc : \A k \in DOMAIN buffer_w'[q] : IsCommand(buffer_w'[q][k])
        /\ down[p] = "up" => /\ down'[p] = "up"
                             /\ \/ UNCHANGED <<toServer, sent_id>>
                                \/ \E msg \in Seq(Cell) : Wrote(p, msg)
    BY <1>1, WriteEffect
  <1>3. \A q \in Proc : InBacklog(q) \/ Accepted(q) => down[q] = "up"
    BY DEF SessInv, Ends
  <1>4. ASSUME NEW g \in Open PROVE Session(g)'
    <2>1. /\ Session(g) /\ sock[g] \in Proc /\ Accepted(sock[g]) /\ sock'[g] = sock[g]
          /\ UNCHANGED <<fd_to_id, r_buffer_for_fd>>
      BY <1>1, SessTypes DEF SessInv, SendInv, Sessions, Accepted, serverVars, ids, buffers
    <2>2. CASE sock[g] # p \/ UNCHANGED <<toServer, sent_id>>
      <3>1. /\ toServer'[sock[g]] = toServer[sock[g]] /\ sent_id'[sock[g]] = sent_id[sock[g]]
        BY <1>2, <2>1, <2>2
      <3>2. Pending(g)' = Pending(g)
        BY <2>1, <3>1 DEF Pending
      <3>3. CASE Has(fd_to_id, g)
        BY <2>1, <3>1, <3>2, <3>3 DEF Session, LaterMessages, OwnId, Has
      <3>4. CASE ~Has(fd_to_id, g)
        BY <2>1, <3>1, <3>2, <3>4 DEF Session, FirstMessages, Has
      <3>. QED
        BY <3>3, <3>4
    <2>3. ASSUME sock[g] = p, NEW msg \in Seq(Cell), Wrote(p, msg)
          PROVE  Session(g)'
      <3>1. PICK s \in Seq(Cell) : s = Pending(g)
        BY SessTypes DEF SessInv, SendInv
      <3>2. Pending(g)' = s \o msg
        <4>1. r_buffer_for_fd[g] \in Seq(Cell) /\ toServer[p] \in Seq(Cell)
          BY SessTypes DEF SessInv, SendInv
        <4>2. toServer'[p] = toServer[p] \o msg
          BY <2>3, SessTypes DEF Wrote, SessInv, SendInv
        <4>3. (r_buffer_for_fd[g] \o toServer[p]) \o msg
                = r_buffer_for_fd[g] \o (toServer[p] \o msg)
          <5>1. ASSUME NEW x \in Seq(Cell), NEW y \in Seq(Cell), NEW z \in Seq(Cell)
                PROVE  (x \o y) \o z = x \o (y \o z)
            BY ConcatAssociative
          <5>. QED
            BY <4>1, <5>1, Zenon
        <4>. QED
          BY <2>1, <2>3, <3>1, <4>2, <4>3 DEF Pending
      <3>3. CASE Has(fd_to_id, g)
        <4>1. LaterMessages(p, s \o msg)'
          BY <2>1, <2>3, <3>1, <3>3, LaterMessagesGrow DEF Session
        <4>. QED
          BY <2>1, <2>3, <3>2, <3>3, <4>1 DEF Session, LaterMessages, Has, OwnId
      <3>4. CASE ~Has(fd_to_id, g)
        <4>1. FirstMessages(p, s \o msg)'
          BY <2>1, <2>3, <3>1, <3>4, FirstMessagesGrow DEF Session
        <4>. QED
          BY <2>1, <2>3, <3>2, <3>4, <4>1 DEF Session, FirstMessages, Has
      <3>. QED
        BY <3>3, <3>4
    <2>. QED
      BY <1>2, <1>3, <2>1, <2>2, <2>3
  <1>5. ASSUME NEW q \in Proc, InBacklog(q)
        PROVE  FirstMessages(q, toServer[q])'
    <2>1. FirstMessages(q, toServer[q]) /\ down[q] = "up" /\ toServer[q] \in Seq(Cell)
      BY <1>3, <1>5, SessTypes DEF SessInv, SendInv, Sessions
    <2>2. CASE q # p \/ UNCHANGED <<toServer, sent_id>>
      BY <1>2, <2>1, <2>2 DEF FirstMessages
    <2>3. ASSUME q = p, NEW msg \in Seq(Cell), Wrote(p, msg)
          PROVE  FirstMessages(q, toServer[q])'
      <3>1. PICK s \in Seq(Cell) : s = toServer[p]
        BY <2>1, <2>3
      <3>2. toServer'[p] = s \o msg
        BY <2>3, <3>1, SessTypes DEF Wrote, SessInv, SendInv
      <3>3. FirstMessages(p, s \o msg)'
        BY <2>1, <2>3, <3>1, FirstMessagesGrow
      <3>. QED
        BY <2>3, <3>2, <3>3 DEF FirstMessages
    <2>. QED
      BY <1>2, <2>1, <2>2, <2>3
  <1>6. Sessions'
    BY <1>1, <1>2, <1>4, <1>5 DEF Sessions, InBacklog, Open
  <1>7. Ends'
    BY <1>1, <1>2 DEF SessInv, Ends, Accepted, InBacklog, Open
  <1>8. Descriptors'
    BY <1>1, <1>7, DescriptorsOfServer DEF Ends
  <1>. QED
    BY <1>6, <1>7, <1>8

(***************************************************************************)
(* Sessions, Ends and Descriptors hold as long as refusals are clean.      *)
(***************************************************************************)
LEMMA SessionsKept ==
    ASSUME SessInv, RefusedAlone, [Next]_vars
    PROVE  Sessions' /\ Ends' /\ Descriptors'
  <1>1. CASE Publish \/ UNCHANGED vars
    <2>1. ChannelsKept /\ UNCHANGED <<link, cstatus, status, loop, fds>>
      BY <1>1 DEF Publish, vars, serverVars, buffers, tables, tcpVars, subscriberVars,
                  ChannelsKept
    <2>2. Sessions'
      BY <2>1, ChannelsKeptSessions
    <2>3. Ends' /\ Descriptors'
      BY <2>1 DEF SessInv, Ends, Descriptors, ChannelsKept, InBacklog, Accepted, Open,
                  Running, ids, Has, loop
    <2>. QED
      BY <2>2, <2>3
  <1>2. CASE ServerStep
    BY <1>2, IdleKeeps, RecvKeeps, AddConKeepsSessions, ObeyedKeepsSessions,
       ClosingKeepsSessions, StoppingKeepsSessions
       DEF ServerStep, ServerLoop, VisitEntry, Parse, Idle, Closing, Stopping
  <1>3. CASE \E p \in Proc : SubscriberStep(p)
    BY <1>3, StartKeepsSessions, LeavingKeepsSessions, CommandKeepsSessions,
       PassKeepsSessions DEF SubscriberStep, Command, SubscriberLoop
  <1>. QED
    BY <1>1, <1>2, <1>3 DEF Next

LEMMA SessionsStart == Init => Sessions /\ Ends /\ Descriptors
  BY EmptySeq DEF Init, TcpInit, ServerInit, SubscriberInit, Sessions, Ends, Descriptors, InBacklog,
         Accepted, Open, Has, MsgCells

LEMMA SessInductive == Spec /\ []RefusedAlone => []SessInv
  <1>1. SendInv /\ OneConnectionPerId /\ Sessions /\ Ends /\ Descriptors
          /\ RefusedAlone /\ [Next]_vars => Sessions' /\ Ends' /\ Descriptors'
    BY SessionsKept DEF SessInv
  <1>2. SendInv /\ OneConnectionPerId /\ Sessions /\ Ends /\ Descriptors => SessInv
    BY DEF SessInv
  <1>. QED
    BY <1>1, <1>2, SessionsStart, SendInductive, OneConnection, PTL DEF Spec

(***************************************************************************)
(* Who is hung up on.                                                      *)
(***************************************************************************)
LEMMA ServerHangsUp ==
    ASSUME SessInv, ServerStep, status' = "running",
           NEW p \in Proc, cstatus[p] = "up", down[p] = "up", down'[p] # "up"
    PROVE  Has(id_to_fd, OwnId(p))
  <1>1. CASE Idle
    BY <1>1, IdleSteps DEF ServerStep, ChannelsKept
  <1>2. CASE RecvBytes \/ AddCon \/ ParseConnect \/ ParseSub \/ ParseUnsub
    BY <1>2 DEF RecvBytes, TcpServerRecv, AddCon, TcpAccept, ParseConnect, ParseSub,
                ParseUnsub, tcpVars
  <1>3. CASE Closing
    <2>1. TcpServerClose({fds[i]})
      BY <1>3 DEF Closing, PeekEof, ParseConnectTaken, ParseTooEarly, ParseUnknownType,
                  Disconnect
    <2>2. \A q \in Proc : down'[q] # down[q] => q = sock[fds[i]]
      BY <2>1 DEF TcpServerClose, Closed
    <2>3. ParseConnectTaken => fd = fds[i]
      BY AtMessage DEF ParseConnectTaken
    <2>. QED
      BY <1>3, <2>2, <2>3, ClosingCause DEF Connection
  <1>4. CASE Stopping
    BY <1>4, StoppingSteps
  <1>. QED
    BY <1>1, <1>2, <1>3, <1>4
       DEF ServerStep, ServerLoop, VisitEntry, Parse, Idle, Closing, Stopping

LEMMA SubscriberHangsUp ==
    ASSUME SessInv, NEW q \in Proc, SubscriberStep(q),
           NEW p \in Proc, cstatus[p] = "up", down[p] = "up"
    PROVE  down'[p] = "up"
  <1>1. CASE Start(q)
    BY <1>1 DEF Start, TcpConnect, tcpVars
  <1>2. CASE TypeExit(q) \/ ServerGone(q)
    BY <1>2, LeavingConnections DEF SessInv, SendInv
  <1>3. CASE TypeSubscribe(q) \/ TypeUnsubscribe(q)
    BY <1>3 DEF TypeSubscribe, TypeUnsubscribe, TypeCommand, tcpVars
  <1>4. CASE Pass(q)
    BY <1>4, WriteEffect DEF Pass
  <1>. QED
    BY <1>1, <1>2, <1>3, <1>4 DEF SubscriberStep, Command, SubscriberLoop

\* As long as a subscriber that is refused has sent no more than its id, the
\* server hangs up on nobody whose id is free.  That is the condition the
\* run hangup shows to be missing: a refused subscriber that was quicker
\* leaves bytes behind, and the next one on its descriptor pays for them.
THEOREM HangUps == Spec /\ []RefusedAlone => HangUpHasCause
  <1>1. SessInv /\ RefusedAlone /\ [Next]_vars =>
          [\A p \in Proc :
             /\ cstatus[p] = "up" /\ down[p] = "up" /\ down'[p] # "up"
             /\ status' = "running"
             => Has(id_to_fd, OwnId(p))]_vars
    <2>1. CASE Publish \/ UNCHANGED vars
      BY <2>1 DEF Publish, vars, tcpVars
    <2>. QED
      BY <2>1, ServerHangsUp, SubscriberHangsUp DEF Next
  <1>. QED
    BY <1>1, SessInductive, PTL DEF Spec, HangUpHasCause

(***************************************************************************)
(* Processes of different ids.                                             *)
(***************************************************************************)
OwnNames == \A p, q \in Proc : nameOf[p] = nameOf[q] => p = q

LEMMA OwnNamesAccepted ==
    ASSUME SessInv, OwnNames
    PROVE  ~Refusal
  <1>. SUFFICES ASSUME Refusal PROVE FALSE
    OBVIOUS
  <1>1. /\ fd \in Open /\ sock[fd] \in Proc /\ Running /\ ~Known
        /\ MsgId = OwnId(sock[fd])
    BY AtMessage DEF Refusal, TCP_CONNECT, TCP_SUB, TCP_UNSUB
  <1>2. PICK g : g = id_to_fd[MsgId]
    OBVIOUS
  <1>3. /\ g \in Fd /\ Has(fd_to_id, g) /\ fd_to_id[g] = MsgId
    BY <1>2 DEF Refusal, InUse, Has, SessInv, Descriptors, SendInv, IInv, ServerInv, ServerTypeOK
  <1>4. g \in Open /\ sock[g] \in Proc
    BY <1>1, <1>3, SessTypes DEF SessInv, SendInv, Descriptors
  <1>5. fd_to_id[g] = OwnId(sock[g])
    BY <1>3, <1>4 DEF SessInv, Sessions, Session
  <1>6. nameOf[sock[g]] = nameOf[sock[fd]]
    BY <1>1, <1>3, <1>5 DEF OwnId
  <1>7. g = fd
    BY <1>1, <1>4, <1>6 DEF OwnNames, SessInv, SendInv, Connections
  <1>. QED
    BY <1>1, <1>3, <1>7 DEF Known

\* Without two processes of one id nobody is refused, and with that everything
\* holds that is proved of RefusedAlone.
THEOREM NobodyRefused ==
    ASSUME OwnNames
    PROVE  Spec => []~Refusal
  <1>1. SendInv /\ OneConnectionPerId /\ Sessions /\ Ends /\ Descriptors => ~Refusal
    BY OwnNamesAccepted DEF SessInv
  <1>2. SendInv /\ OneConnectionPerId /\ Sessions /\ Ends /\ Descriptors
          /\ [Next]_vars => Sessions' /\ Ends' /\ Descriptors'
    BY <1>1, SessionsKept DEF SessInv, RefusedAlone
  <1>. QED
    BY <1>1, <1>2, SessionsStart, SendInductive, OneConnection, PTL DEF Spec

(***************************************************************************)
(* News in order: what the processes of an id have and what is queued for  *)
(* it, as two functions on the processes.                                  *)
(***************************************************************************)
Follows(s, t) == \A a \in DOMAIN s, b \in DOMAIN t : s[a][1] < t[b][1]
Upto(s, n) == \A a \in DOMAIN s : s[a][1] <= n
Apart(s, t) == \A a \in DOMAIN s, b \in DOMAIN t : s[a][1] # t[b][1]

\* S is what each process has, Q what is queued for its id, n the number of
\* the last datagram taken from the UDP socket.
Ordered(S, Q, n) ==
    /\ \A p \in Proc : /\ Increasing(S[p]) /\ Increasing(Q[p]) /\ Follows(S[p], Q[p])
                       /\ Upto(S[p], n) /\ Upto(Q[p], n)
    /\ \A p, q \in Proc : p # q /\ nameOf[p] = nameOf[q] => Apart(S[p], S[q])

Streams == [p \in Proc |-> Stream(p)]
Queues == [p \in Proc |-> Queue(OwnId(p))]
Taken == published - Len(udp)

OrderInv == Ordered(Streams, Queues, Taken)

\* The numbers of news are comparable.
LEMMA NumbersOfNews ==
    ASSUME NEW s \in Seq(News)
    PROVE  /\ DOMAIN s = 1 .. Len(s) /\ Len(s) \in Nat
           /\ \A a \in DOMAIN s : s[a] \in News /\ s[a][1] \in Int
  BY LenProperties, ElementOfSeq, BoundsAssumption DEF News

LEMMA IncreasingConcat ==
    ASSUME NEW s \in Seq(News), NEW t \in Seq(News)
    PROVE  Increasing(s \o t) <=> Increasing(s) /\ Increasing(t) /\ Follows(s, t)
  <1>1. /\ DOMAIN s = 1 .. Len(s) /\ Len(s) \in Nat /\ DOMAIN t = 1 .. Len(t)
        /\ Len(t) \in Nat /\ DOMAIN (s \o t) = 1 .. Len(s) + Len(t)
    BY NumbersOfNews, ConcatProperties, LenProperties
  <1>2. /\ \A a \in 1 .. Len(s) : (s \o t)[a] = s[a]
        /\ \A b \in 1 .. Len(t) : (s \o t)[Len(s) + b] = t[b]
    BY <1>1, ConcatProperties
  <1>3. \A c \in 1 .. Len(s) + Len(t) :
           c \in 1 .. Len(s) \/ \E b \in 1 .. Len(t) : c = Len(s) + b
    <2>. TAKE c \in 1 .. Len(s) + Len(t)
    <2>1. c \in 1 .. Len(s) \/ (c - Len(s) \in 1 .. Len(t) /\ c = Len(s) + (c - Len(s)))
      BY <1>1
    <2>. QED
      BY <2>1
  <1>4. ASSUME Increasing(s \o t)
        PROVE  Increasing(s) /\ Increasing(t) /\ Follows(s, t)
    <2>1. \A a \in 1 .. Len(s) : a \in 1 .. Len(s) + Len(t)
      BY <1>1
    <2>2. \A b \in 1 .. Len(t) : Len(s) + b \in 1 .. Len(s) + Len(t)
      BY <1>1
    <2>3. Increasing(s)
      BY <1>1, <1>2, <1>4, <2>1 DEF Increasing
    <2>4. Increasing(t)
      <3>. SUFFICES ASSUME NEW a \in 1 .. Len(t), NEW b \in 1 .. Len(t), a < b
                    PROVE  t[a][1] < t[b][1]
        BY <1>1 DEF Increasing
      <3>1. Len(s) + a < Len(s) + b
        BY <1>1
      <3>2. Len(s) + a \in DOMAIN (s \o t) /\ Len(s) + b \in DOMAIN (s \o t)
        BY <1>1, <2>2
      <3>3. (s \o t)[Len(s) + a][1] < (s \o t)[Len(s) + b][1]
        BY <1>4, <3>1, <3>2 DEF Increasing
      <3>. QED
        BY <1>2, <3>3
    <2>5. Follows(s, t)
      <3>. SUFFICES ASSUME NEW a \in 1 .. Len(s), NEW b \in 1 .. Len(t)
                    PROVE  s[a][1] < t[b][1]
        BY <1>1 DEF Follows
      <3>1. a < Len(s) + b
        BY <1>1
      <3>. QED
        BY <1>1, <1>2, <1>4, <2>1, <2>2, <3>1 DEF Increasing
    <2>. QED
      BY <2>3, <2>4, <2>5
  <1>5. ASSUME Increasing(s), Increasing(t), Follows(s, t)
        PROVE  Increasing(s \o t)
    <2>. SUFFICES ASSUME NEW c \in 1 .. Len(s) + Len(t), NEW d \in 1 .. Len(s) + Len(t), c < d
                  PROVE  (s \o t)[c][1] < (s \o t)[d][1]
      BY <1>1 DEF Increasing
    <2>1. CASE c \in 1 .. Len(s) /\ d \in 1 .. Len(s)
      BY <1>1, <1>2, <1>5, <2>1 DEF Increasing
    <2>2. ASSUME c \in 1 .. Len(s), NEW b \in 1 .. Len(t), d = Len(s) + b
          PROVE  (s \o t)[c][1] < (s \o t)[d][1]
      BY <1>1, <1>2, <1>5, <2>2 DEF Follows
    <2>3. ASSUME NEW a \in 1 .. Len(t), c = Len(s) + a, NEW b \in 1 .. Len(t), d = Len(s) + b
          PROVE  (s \o t)[c][1] < (s \o t)[d][1]
      <3>1. a < b
        BY <1>1, <2>3
      <3>. QED
        BY <1>1, <1>2, <1>5, <2>3, <3>1 DEF Increasing
    <2>4. ~(d \in 1 .. Len(s) /\ \E a \in 1 .. Len(t) : c = Len(s) + a)
      BY <1>1
    <2>. QED
      BY <1>3, <2>1, <2>2, <2>3, <2>4
  <1>. QED
    BY <1>4, <1>5

\* Some of the first news are kept.
LEMMA OrderedShrinks ==
    ASSUME NEW S \in [Proc -> Seq(News)], NEW Q \in [Proc -> Seq(News)], NEW n \in Int,
           Ordered(S, Q, n), NEW T \in [Proc -> Seq(News)],
           \A p \in Proc : /\ Len(T[p]) <= Len(S[p])
                           /\ \A a \in DOMAIN T[p] : T[p][a] = S[p][a]
    PROVE  Ordered(T, Q, n)
  <1>1. \A p \in Proc : \A a \in DOMAIN T[p] :
           a \in DOMAIN S[p] /\ a \in Int /\ T[p][a] = S[p][a]
    <2>. SUFFICES ASSUME NEW p \in Proc, NEW a \in DOMAIN T[p]
                  PROVE  a \in DOMAIN S[p] /\ a \in Int /\ T[p][a] = S[p][a]
      OBVIOUS
    <2>1. S[p] \in Seq(News) /\ T[p] \in Seq(News)
      OBVIOUS
    <2>. QED
      BY <2>1, LenProperties
  <1>2. \A p \in Proc : /\ Increasing(T[p]) /\ Increasing(Q[p]) /\ Follows(T[p], Q[p])
                        /\ Upto(T[p], n) /\ Upto(Q[p], n)
    BY <1>1 DEF Ordered, Increasing, Follows, Upto
  <1>3. \A p, q \in Proc : p # q /\ nameOf[p] = nameOf[q] => Apart(T[p], T[q])
    BY <1>1 DEF Ordered, Apart
  <1>. QED
    BY <1>2, <1>3 DEF Ordered

\* The next datagram is appended to some of the queues.
LEMMA OrderedReceives ==
    ASSUME NEW S \in [Proc -> Seq(News)], NEW Q \in [Proc -> Seq(News)], NEW n \in Int,
           Ordered(S, Q, n), NEW R \in [Proc -> Seq(News)], NEW news \in News,
           news[1] = n + 1,
           \A p \in Proc : R[p] \in {Q[p], Append(Q[p], news)}
    PROVE  Ordered(S, R, n + 1)
  <1>. SUFFICES ASSUME NEW p \in Proc
                PROVE  /\ Increasing(R[p]) /\ Follows(S[p], R[p])
                       /\ Upto(S[p], n + 1) /\ Upto(R[p], n + 1)
    BY DEF Ordered
  <1>1. /\ S[p] \in Seq(News) /\ Q[p] \in Seq(News)
        /\ Increasing(Q[p]) /\ Follows(S[p], Q[p]) /\ Upto(S[p], n) /\ Upto(Q[p], n)
    BY DEF Ordered
  <1>2. /\ \A a \in DOMAIN S[p] : S[p][a][1] \in Int
        /\ \A a \in DOMAIN Q[p] : Q[p][a][1] \in Int
        /\ DOMAIN Q[p] = 1 .. Len(Q[p]) /\ Len(Q[p]) \in Nat
    BY <1>1, NumbersOfNews
  <1>3. Upto(S[p], n + 1) /\ Upto(Q[p], n + 1)
    BY <1>1, <1>2 DEF Upto
  <1>4. CASE R[p] = Append(Q[p], news)
    <2>1. /\ DOMAIN R[p] = 1 .. Len(Q[p]) + 1
          /\ \A a \in 1 .. Len(Q[p]) : R[p][a] = Q[p][a]
          /\ R[p][Len(Q[p]) + 1] = news
      BY <1>1, <1>4, AppendProperties, LenProperties
    <2>2. \A a \in DOMAIN R[p] :
             a = Len(Q[p]) + 1 \/ (a \in DOMAIN Q[p] /\ R[p][a] = Q[p][a])
      BY <1>2, <2>1
    <2>3. Increasing(R[p])
      <3>. SUFFICES ASSUME NEW a \in DOMAIN R[p], NEW b \in DOMAIN R[p], a < b
                    PROVE  R[p][a][1] < R[p][b][1]
        BY DEF Increasing
      <3>1. a \in DOMAIN Q[p]
        BY <1>2, <2>1
      <3>. QED
        BY <1>1, <1>2, <2>1, <2>2, <3>1 DEF Increasing, Upto
    <2>4. Follows(S[p], R[p])
      BY <1>1, <1>2, <2>1, <2>2 DEF Follows, Upto
    <2>5. Upto(R[p], n + 1)
      BY <1>1, <1>2, <2>1, <2>2 DEF Upto
    <2>. QED
      BY <1>3, <2>3, <2>4, <2>5
  <1>. QED
    BY <1>1, <1>3, <1>4

\* The first news of the queue of an id goes to the process c, or is lost.
LEMMA OrderedSends ==
    ASSUME NEW S \in [Proc -> Seq(News)], NEW Q \in [Proc -> Seq(News)], NEW n \in Int,
           Ordered(S, Q, n),
           NEW T \in [Proc -> Seq(News)], NEW R \in [Proc -> Seq(News)], NEW c \in Proc,
           \A p \in Proc : IF nameOf[p] = nameOf[c]
                           THEN Q[p] = Q[c] /\ R[p] = Tail(Q[p]) ELSE R[p] = Q[p],
           Q[c] # <<>>,
           \A p \in Proc : p # c => T[p] = S[p],
           T[c] \in {S[c], Append(S[c], Head(Q[c]))}
    PROVE  Ordered(T, R, n)
  <1>. DEFINE h == Head(Q[c])
  <1>0. Q[c] \in Seq(News) /\ S[c] \in Seq(News)
    OBVIOUS
  <1>1. /\ h = Q[c][1] /\ 1 \in DOMAIN Q[c] /\ h \in News
        /\ DOMAIN Q[c] = 1 .. Len(Q[c]) /\ Len(Q[c]) \in Nat
        /\ DOMAIN Tail(Q[c]) = 1 .. Len(Q[c]) - 1
        /\ \A a \in 1 .. Len(Q[c]) - 1 : Tail(Q[c])[a] = Q[c][a + 1]
    BY <1>0, HeadTailProperties, LenProperties, EmptySeq
  <1>2. \A a \in DOMAIN Tail(Q[c]) : /\ a + 1 \in DOMAIN Q[c] /\ 1 < a + 1
                                     /\ Tail(Q[c])[a] = Q[c][a + 1]
    BY <1>1
  <1>3. /\ Increasing(Q[c]) /\ Upto(Q[c], n)
        /\ Increasing(Tail(Q[c])) /\ Upto(Tail(Q[c]), n)
        /\ \A a \in DOMAIN Tail(Q[c]) : h[1] < Tail(Q[c])[a][1]
    <2>1. Increasing(Q[c]) /\ Upto(Q[c], n)
      BY DEF Ordered
    <2>2. \A a, b \in DOMAIN Tail(Q[c]) : a < b => a + 1 < b + 1
      BY <1>1
    <2>. QED
      BY <1>1, <1>2, <2>1, <2>2 DEF Increasing, Upto
  <1>4. \A p \in Proc : nameOf[p] = nameOf[c] =>
           /\ R[p] = Tail(Q[c])
           /\ Follows(S[p], R[p])
           /\ \A a \in DOMAIN S[p] : S[p][a][1] < h[1]
    <2>. SUFFICES ASSUME NEW p \in Proc, nameOf[p] = nameOf[c]
                  PROVE  /\ R[p] = Tail(Q[c])
                         /\ Follows(S[p], Tail(Q[c]))
                         /\ \A a \in DOMAIN S[p] : S[p][a][1] < h[1]
      OBVIOUS
    <2>1. R[p] = Tail(Q[c]) /\ Q[p] = Q[c]
      OBVIOUS
    <2>2. Follows(S[p], Q[c])
      BY <2>1 DEF Ordered
    <2>3. Follows(S[p], Tail(Q[c]))
      BY <1>2, <2>2 DEF Follows
    <2>4. \A a \in DOMAIN S[p] : S[p][a][1] < h[1]
      BY <1>1, <2>2 DEF Follows
    <2>. QED
      BY <2>1, <2>3, <2>4
  <1>5. /\ \A a \in DOMAIN S[c] : S[c][a][1] \in Int
        /\ h[1] \in Int /\ h[1] <= n
        /\ DOMAIN S[c] = 1 .. Len(S[c]) /\ Len(S[c]) \in Nat
        /\ Increasing(S[c]) /\ Upto(S[c], n) /\ Follows(S[c], R[c])
    BY <1>0, <1>1, <1>3, <1>4, NumbersOfNews DEF Ordered, Upto
  <1>. HIDE DEF h
  <1>6. \A a \in DOMAIN T[c] :
           \/ a \in DOMAIN S[c] /\ T[c][a] = S[c][a]
           \/ a = Len(S[c]) + 1 /\ T[c][a] = h
    <2>1. CASE T[c] = S[c]
      BY <2>1
    <2>2. CASE T[c] = Append(S[c], h)
      <3>1. /\ DOMAIN T[c] = 1 .. Len(S[c]) + 1
            /\ \A a \in 1 .. Len(S[c]) : T[c][a] = S[c][a]
            /\ T[c][Len(S[c]) + 1] = h
        BY <1>0, <1>1, <2>2, AppendProperties, LenProperties
      <3>. QED
        BY <1>5, <3>1
    <2>. QED
      BY <2>1, <2>2 DEF h
  <1>7. Increasing(T[c]) /\ Upto(T[c], n) /\ Follows(T[c], R[c])
    <2>1. Increasing(T[c])
      <3>. SUFFICES ASSUME NEW a \in DOMAIN T[c], NEW b \in DOMAIN T[c], a < b
                    PROVE  T[c][a][1] < T[c][b][1]
        BY DEF Increasing
      <3>1. ~(a = Len(S[c]) + 1 /\ b \in DOMAIN S[c]) /\ a # b
        BY <1>5, <1>6
      <3>. QED
        BY <1>4, <1>5, <1>6, <3>1, SMTT(30) DEF Increasing
    <2>2. Upto(T[c], n)
      BY <1>5, <1>6 DEF Upto
    <2>3. Follows(T[c], R[c])
      BY <1>3, <1>4, <1>5, <1>6 DEF Follows
    <2>. QED
      BY <2>1, <2>2, <2>3
  <1>8. \A p \in Proc : /\ Increasing(T[p]) /\ Increasing(R[p]) /\ Follows(T[p], R[p])
                        /\ Upto(T[p], n) /\ Upto(R[p], n)
    BY <1>3, <1>4, <1>7 DEF Ordered
  <1>9. ASSUME NEW p \in Proc, nameOf[p] = nameOf[c], p # c
        PROVE  Apart(T[p], T[c]) /\ Apart(T[c], T[p])
    <2>1. T[p] = S[p] /\ Apart(S[p], S[c]) /\ \A a \in DOMAIN S[p] : S[p][a][1] < h[1]
      BY <1>4, <1>9 DEF Ordered
    <2>2. S[p] \in Seq(News) /\ \A a \in DOMAIN S[p] : S[p][a][1] \in Int
      BY NumbersOfNews
    <2>4. \A a \in DOMAIN S[p] : S[p][a][1] # h[1]
      BY <1>5, <2>1, <2>2
    <2>5. \A a \in DOMAIN S[p], b \in DOMAIN T[c] : S[p][a][1] # T[c][b][1]
      <3>. TAKE a \in DOMAIN S[p], b \in DOMAIN T[c]
      <3>1. CASE b \in DOMAIN S[c] /\ T[c][b] = S[c][b]
        BY <2>1, <3>1 DEF Apart
      <3>2. CASE T[c][b] = h
        BY <2>4, <3>2
      <3>. QED
        BY <1>6, <3>1, <3>2
    <2>. QED
      BY <2>1, <2>5 DEF Apart
  <1>10. \A p, q \in Proc : p # q /\ nameOf[p] = nameOf[q] => Apart(T[p], T[q])
    BY <1>9 DEF Ordered
  <1>. QED
    BY <1>8, <1>10 DEF Ordered

(***************************************************************************)
(* The streams of the processes.                                           *)
(***************************************************************************)
LEMMA OrderTypes ==
    ASSUME IInv
    PROVE  /\ shown \in [Proc -> Seq(News)] /\ buffer_r \in [Proc -> Seq(News)]
           /\ toClient \in [Proc -> Seq(News)]
           /\ Streams \in [Proc -> Seq(News)] /\ Queues \in [Proc -> Seq(News)]
           /\ Taken \in Int /\ published \in Nat /\ udp \in Seq(News)
  <1>1. /\ shown \in [Proc -> Seq(News)] /\ buffer_r \in [Proc -> Seq(News)]
        /\ toClient \in [Proc -> Seq(News)] /\ published \in Nat /\ udp \in Seq(News)
    BY BoundsAssumption DEF IInv, TypeOK, ServerTypeOK, SubscriberTypeOK
  <1>2. ASSUME NEW p \in Proc PROVE Stream(p) \in Seq(News)
    <2>1. shown[p] \in Seq(News) /\ buffer_r[p] \in Seq(News) /\ toClient[p] \in Seq(News)
      BY <1>1
    <2>2. shown[p] \o buffer_r[p] \in Seq(News)
      BY <2>1, ConcatProperties
    <2>. QED
      BY <2>1, <2>2, ConcatProperties DEF Stream
  <1>3. ASSUME NEW p \in Proc PROVE Queue(OwnId(p)) \in Seq(News)
    BY EmptySeq DEF Queue, Has, IInv, ServerInv, ServerTypeOK
  <1>4. Taken \in Int
    BY <1>1, LenProperties DEF Taken
  <1>. QED
    BY <1>1, <1>2, <1>3, <1>4 DEF Streams, Queues

LEMMA OrderTypesNext ==
    ASSUME IInv'
    PROVE  Streams' \in [Proc -> Seq(News)] /\ Queues' \in [Proc -> Seq(News)]
  <1>1. /\ shown' \in [Proc -> Seq(News)] /\ buffer_r' \in [Proc -> Seq(News)]
        /\ toClient' \in [Proc -> Seq(News)]
    BY DEF IInv, TypeOK, ServerTypeOK, SubscriberTypeOK
  <1>2. ASSUME NEW p \in Proc PROVE Stream(p)' \in Seq(News)
    <2>1. /\ shown'[p] \in Seq(News) /\ buffer_r'[p] \in Seq(News)
          /\ toClient'[p] \in Seq(News)
      BY <1>1
    <2>2. shown'[p] \o buffer_r'[p] \in Seq(News)
      BY <2>1, ConcatProperties
    <2>3. (shown'[p] \o buffer_r'[p]) \o toClient'[p] \in Seq(News)
      BY <2>1, <2>2, ConcatProperties
    <2>. QED
      BY <2>3 DEF Stream
  <1>3. ASSUME NEW p \in Proc PROVE Queue(OwnId(p))' \in Seq(News)
    BY EmptySeq DEF Queue, OwnId, Has, IInv, ServerInv, ServerTypeOK
  <1>. QED
    BY <1>2, <1>3 DEF Streams, Queues

LEMMA NewsAssociative ==
    ASSUME NEW s \in Seq(News), NEW t \in Seq(News), NEW u \in Seq(News)
    PROVE  (s \o t) \o u = s \o (t \o u)
  BY ConcatAssociative

\* recv and receive_msg move news along, in order.
LEMMA NewsMoved ==
    ASSUME NEW sh \in Seq(News), NEW br \in Seq(News), NEW tc \in Seq(News),
           NEW n \in 0 .. Len(tc), br \o SubSeq(tc, 1, n) # <<>>
    PROVE  (Append(sh, Head(br \o SubSeq(tc, 1, n))) \o Tail(br \o SubSeq(tc, 1, n)))
             \o SubSeq(tc, n + 1, Len(tc)) = (sh \o br) \o tc
  <1>0. PICK w : w = br \o SubSeq(tc, 1, n) /\ w # <<>>
    OBVIOUS
  <1>1. PICK rest : rest = SubSeq(tc, n + 1, Len(tc))
    OBVIOUS
  <1>2. SubSeq(tc, 1, n) \in Seq(News) /\ rest \in Seq(News) /\ w \o rest = br \o tc
    BY <1>0, <1>1, SplitConcat
  <1>3. w \in Seq(News)
    BY <1>0, <1>2, ConcatProperties
  <1>4. Head(w) \in News /\ Tail(w) \in Seq(News) /\ <<Head(w)>> \in Seq(News)
    <2>1. Head(w) \in News /\ Tail(w) \in Seq(News)
      BY <1>0, <1>3, HeadTailProperties
    <2>2. \A x \in News : <<x>> \in Seq(News)
      OBVIOUS
    <2>. QED
      BY <2>1, <2>2
  <1>5. w = <<Head(w)>> \o Tail(w)
    <2>1. Len(w) \in Nat \ {0} /\ Head(w) = w[1]
      BY <1>0, <1>3, EmptySeq
    <2>2. 1 \in 1 .. Len(w) /\ Len(w) \in 1 .. Len(w)
      BY <2>1
    <2>3. SubSeq(w, 1, Len(w)) = <<w[1]>> \o SubSeq(w, 2, Len(w))
      <3>1. SubSeq(w, 1, Len(w)) = <<w[1]>> \o SubSeq(w, 1 + 1, Len(w))
        BY <1>3, <2>2, SubSeqRecursiveFirst, Zenon
      <3>2. 1 + 1 = 2
        OBVIOUS
      <3>. QED
        BY <3>1, <3>2, Zenon
    <2>4. SubSeq(w, 1, Len(w)) = w /\ Tail(w) = SubSeq(w, 2, Len(w))
      BY <1>0, <1>3, SubSeqFull, TailIsSubSeq
    <2>. QED
      BY <2>1, <2>3, <2>4, Zenon
  <1>6. Append(sh, Head(w)) \o Tail(w) = sh \o w
    <2>1. Append(sh, Head(w)) = sh \o <<Head(w)>>
      BY <1>4, AppendIsConcat
    <2>2. (sh \o <<Head(w)>>) \o Tail(w) = sh \o (<<Head(w)>> \o Tail(w))
      BY <1>4, NewsAssociative, Zenon
    <2>. QED
      BY <1>5, <2>1, <2>2, Zenon
  <1>7. (sh \o w) \o rest = sh \o (w \o rest)
    BY <1>2, <1>3, NewsAssociative, ZenonT(60)
  <1>8. sh \o (br \o tc) = (sh \o br) \o tc
    BY NewsAssociative, Zenon
  <1>. QED
    BY <1>0, <1>1, <1>2, <1>6, <1>7, <1>8, Zenon

LEMMA NothingMoved ==
    ASSUME NEW br \in Seq(News), NEW tc \in Seq(News), NEW n \in 0 .. Len(tc),
           br \o SubSeq(tc, 1, n) = <<>>
    PROVE  SubSeq(tc, n + 1, Len(tc)) = tc
  <1>1. SubSeq(tc, 1, n) \in Seq(News)
    BY SplitConcat
  <1>2. SubSeq(tc, 1, n) = <<>>
    BY <1>1, ConcatEqualIffEmpty
  <1>3. Len(SubSeq(tc, 1, n)) = n /\ n \in Int
    <2>1. n \in Int /\ \A k \in 1 .. n : tc[k] \in News
      BY LenProperties, ElementOfSeq
    <2>. QED
      BY <2>1, SubSeqProperties
  <1>4. n = 0
    BY <1>2, <1>3
  <1>. QED
    BY <1>4, SubSeqFull

LEMMA PassKeepsStreams ==
    ASSUME IInv, NEW p \in Proc, Read(p)
    PROVE  Streams' = Streams
  <1>0. /\ shown \in [Proc -> Seq(News)] /\ buffer_r \in [Proc -> Seq(News)]
        /\ toClient \in [Proc -> Seq(News)]
    BY OrderTypes
  <1>1. CASE UNCHANGED <<toClient, buffer_r, shown>>
    BY <1>1 DEF Streams, Stream
  <1>2. ASSUME NEW n \in 0 .. RecvNews, n <= Len(toClient[p]),
               NEW whole, whole = buffer_r[p] \o SubSeq(toClient[p], 1, n),
               IF whole = <<>>
               THEN UNCHANGED <<buffer_r, shown>>
               ELSE /\ shown' = [shown EXCEPT ![p] = Append(@, Head(whole))]
                    /\ buffer_r' = [buffer_r EXCEPT ![p] = Tail(whole)],
               toClient' = [toClient EXCEPT ![p] = SubSeq(@, n + 1, Len(@))]
        PROVE  Streams' = Streams
    <2>1. /\ shown[p] \in Seq(News) /\ buffer_r[p] \in Seq(News) /\ toClient[p] \in Seq(News)
          /\ n \in 0 .. Len(toClient[p])
      BY <1>0, <1>2, LenProperties, SubscriberAssumption
    <2>2. \A q \in Proc : q # p => Stream(q)' = Stream(q)
      BY <1>0, <1>2 DEF Stream
    <2>3. toClient'[p] = SubSeq(toClient[p], n + 1, Len(toClient[p]))
      BY <1>0, <1>2
    <2>4. CASE whole = <<>>
      <3>1. toClient'[p] = toClient[p]
        BY <1>2, <2>1, <2>3, <2>4, NothingMoved
      <3>2. Stream(p)' = Stream(p)
        BY <1>2, <2>4, <3>1 DEF Stream
      <3>. QED
        BY <2>2, <3>2 DEF Streams
    <2>5. CASE whole # <<>>
      <3>1. /\ shown'[p] = Append(shown[p], Head(whole))
            /\ buffer_r'[p] = Tail(whole)
        BY <1>0, <1>2, <2>5
      <3>2. (Append(shown[p], Head(whole)) \o Tail(whole))
              \o SubSeq(toClient[p], n + 1, Len(toClient[p]))
                = (shown[p] \o buffer_r[p]) \o toClient[p]
        <4>1. buffer_r[p] \o SubSeq(toClient[p], 1, n) # <<>>
          BY <1>2, <2>5
        <4>2. (Append(shown[p], Head(buffer_r[p] \o SubSeq(toClient[p], 1, n)))
                 \o Tail(buffer_r[p] \o SubSeq(toClient[p], 1, n)))
                \o SubSeq(toClient[p], n + 1, Len(toClient[p]))
                  = (shown[p] \o buffer_r[p]) \o toClient[p]
          BY <2>1, <4>1, NewsMoved, Zenon
        <4>. QED
          BY <1>2, <4>2, Zenon
      <3>3. Stream(p)' = Stream(p)
        BY <2>3, <3>1, <3>2 DEF Stream
      <3>. QED
        BY <2>2, <3>3 DEF Streams
    <2>. QED
      BY <2>4, <2>5
  <1>. QED
    BY <1>1, <1>2 DEF Read

\* A process that leaves keeps what it has shown.
LEMMA LeavingKeepsShown ==
    ASSUME IInv, NEW p \in Proc, Leave(p), toClient' = [toClient EXCEPT ![p] = <<>>]
    PROVE  /\ \A q \in Proc : q # p => Streams'[q] = Streams[q]
           /\ Len(Streams'[p]) <= Len(Streams[p])
           /\ \A a \in DOMAIN Streams'[p] : Streams'[p][a] = Streams[p][a]
  <1>0. /\ shown \in [Proc -> Seq(News)] /\ buffer_r \in [Proc -> Seq(News)]
        /\ toClient \in [Proc -> Seq(News)]
    BY OrderTypes
  <1>1. /\ UNCHANGED shown
        /\ \A q \in Proc : q # p => buffer_r'[q] = buffer_r[q] /\ toClient'[q] = toClient[q]
        /\ buffer_r'[p] = <<>> /\ toClient'[p] = <<>>
    BY <1>0 DEF Leave
  <1>2. PICK sh \in Seq(News), br \in Seq(News), tc \in Seq(News) :
           sh = shown[p] /\ br = buffer_r[p] /\ tc = toClient[p]
    BY <1>0
  <1>3. Streams[p] = (sh \o br) \o tc /\ Streams'[p] = (sh \o <<>>) \o <<>>
    BY <1>1, <1>2 DEF Streams, Stream
  <1>4. (sh \o <<>>) \o <<>> = sh
    BY ConcatEmptySeq
  <1>5. /\ Len(sh) <= Len((sh \o br) \o tc)
        /\ \A a \in DOMAIN sh : sh[a] = ((sh \o br) \o tc)[a]
    <2>1. /\ sh \o br \in Seq(News) /\ Len(sh \o br) = Len(sh) + Len(br)
          /\ \A a \in 1 .. Len(sh) + Len(br) :
                (sh \o br)[a] = IF a <= Len(sh) THEN sh[a] ELSE br[a - Len(sh)]
      BY ConcatProperties
    <2>2. /\ Len((sh \o br) \o tc) = Len(sh \o br) + Len(tc)
          /\ \A a \in 1 .. Len(sh \o br) + Len(tc) :
                ((sh \o br) \o tc)[a] = IF a <= Len(sh \o br) THEN (sh \o br)[a]
                                        ELSE tc[a - Len(sh \o br)]
      BY <2>1, ConcatProperties
    <2>3. /\ Len(sh) \in Nat /\ Len(br) \in Nat /\ Len(tc) \in Nat
          /\ DOMAIN sh = 1 .. Len(sh)
      BY LenProperties
    <2>4. ASSUME NEW a \in 1 .. Len(sh) PROVE sh[a] = ((sh \o br) \o tc)[a]
      <3>1. /\ a \in 1 .. Len(sh) + Len(br) /\ a <= Len(sh) /\ a <= Len(sh \o br)
            /\ a \in 1 .. Len(sh \o br) + Len(tc)
        BY <2>1, <2>3
      <3>. QED
        BY <2>1, <2>2, <3>1
    <2>. QED
      BY <2>1, <2>2, <2>3, <2>4
  <1>6. \A q \in Proc : q # p => Streams'[q] = Streams[q]
    <2>1. \A q \in Proc : q # p => Stream(q)' = Stream(q)
      BY <1>1 DEF Stream
    <2>. QED
      BY <2>1 DEF Streams
  <1>. QED
    BY <1>3, <1>4, <1>5, <1>6, Zenon

(***************************************************************************)
(* The steps.                                                              *)
(***************************************************************************)
LEMMA OwnIds == \A p \in Proc : OwnId(p) \in Id
  BY SubscriberAssumption DEF OwnId, Id, Cell, NUL

\* Nothing that is looked at changes, or only what a process has left.
LEMMA OrderShrinks ==
    ASSUME SessInv, PromiseInv, OrderInv, IInv', UNCHANGED <<w_buffer_for_id, udp, published>>,
           \A p \in Proc : \/ Streams'[p] = Streams[p]
                           \/ /\ Len(Streams'[p]) <= Len(Streams[p])
                              /\ \A a \in DOMAIN Streams'[p] : Streams'[p][a] = Streams[p][a]
    PROVE  OrderInv'
  <1>1. PICK S \in [Proc -> Seq(News)], T \in [Proc -> Seq(News)] :
           S = Streams /\ T = Streams'
    BY OrderTypes, OrderTypesNext DEF PromiseInv
  <1>2. PICK Q \in [Proc -> Seq(News)], n \in Int : Q = Queues /\ n = Taken
    BY OrderTypes DEF PromiseInv
  <1>3. Queues' = Queues /\ Taken' = Taken
    BY DEF Queues, Queue, OwnId, Taken, Has
  <1>4. \A p \in Proc : /\ Len(T[p]) <= Len(S[p])
                        /\ \A a \in DOMAIN T[p] : T[p][a] = S[p][a]
    <2>. SUFFICES ASSUME NEW p \in Proc
                  PROVE  /\ Len(T[p]) <= Len(S[p])
                         /\ \A a \in DOMAIN T[p] : T[p][a] = S[p][a]
      OBVIOUS
    <2>1. S[p] \in Seq(News) /\ Len(S[p]) \in Nat
      BY LenProperties
    <2>. QED
      BY <1>1, <2>1
  <1>5. Ordered(S, Q, n)
    BY <1>1, <1>2 DEF OrderInv
  <1>6. Ordered(T, Q, n)
    BY <1>4, <1>5, OrderedShrinks
  <1>. QED
    BY <1>1, <1>2, <1>3, <1>6 DEF OrderInv

LEMMA NewsKeepsOrder ==
    ASSUME PromiseInv, OrderInv, IInv', ReceiveNews, UNCHANGED <<subscriberVars, published>>
    PROVE  OrderInv'
  <1>1. PICK S \in [Proc -> Seq(News)], Q \in [Proc -> Seq(News)], n \in Int :
           S = Streams /\ Q = Queues /\ n = Taken
    BY OrderTypes DEF PromiseInv
  <1>2. PICK R \in [Proc -> Seq(News)] : R = Queues'
    BY OrderTypesNext
  <1>3. Streams' = Streams
    BY DEF ReceiveNews, tcpVars, subscriberVars, Streams, Stream
  <1>4. PICK news \in News :
             /\ news[1] = (published - Len(udp)) + 1
             /\ published' - Len(udp') = news[1]
             /\ UNCHANGED <<id_to_fd, topic_subscribers>>
             /\ \A id \in Id : Queue(id)' = IF SF!Entitled(id, news[2])
                                          THEN Append(Queue(id), news) ELSE Queue(id)
    BY NewsQueued
  <1>5. Taken' = n + 1 /\ news[1] = n + 1
    BY <1>1, <1>4 DEF Taken
  <1>6. \A p \in Proc : R[p] \in {Q[p], Append(Q[p], news)}
    <2>1. \A id \in Id : Queue(id)' \in {Queue(id), Append(Queue(id), news)}
      BY <1>4
    <2>2. \A p \in Proc : R[p] = Queue(OwnId(p))' /\ Q[p] = Queue(OwnId(p))
      BY <1>1, <1>2 DEF Queues
    <2>3. ASSUME NEW p \in Proc
          PROVE  Queue(OwnId(p))' \in {Queue(OwnId(p)), Append(Queue(OwnId(p)), news)}
      <3>1. PICK id \in Id : id = OwnId(p)
        BY OwnIds
      <3>2. Queue(OwnId(p))' = Queue(id)' /\ Queue(OwnId(p)) = Queue(id)
        BY <3>1 DEF OwnId, Queue
      <3>. QED
        BY <2>1, <3>2
    <2>. QED
      BY <2>2, <2>3
  <1>7. Ordered(S, Q, n)
    BY <1>1 DEF OrderInv
  <1>8. Ordered(S, R, n + 1)
    BY <1>5, <1>6, <1>7, OrderedReceives
  <1>. QED
    BY <1>1, <1>2, <1>3, <1>5, <1>8 DEF OrderInv

LEMMA SendKeepsOrder ==
    ASSUME SessInv, PromiseInv, OrderInv, IInv', SendNews,
           UNCHANGED <<subscriberVars, published>>
    PROVE  OrderInv'
  <1>1. PICK S \in [Proc -> Seq(News)], Q \in [Proc -> Seq(News)], n \in Int :
           S = Streams /\ Q = Queues /\ n = Taken
    BY OrderTypes DEF PromiseInv
  <1>2. PICK T \in [Proc -> Seq(News)], R \in [Proc -> Seq(News)] :
           T = Streams' /\ R = Queues'
    BY OrderTypesNext
  <1>3. PICK c \in Proc : c = Connection /\ sock[fds[i]] = c /\ fds[i] \in Open
    BY SendConnections DEF SessInv
  <1>4. fd_to_id[fds[i]] = OwnId(c)
    BY <1>3 DEF SendNews, HasNewsToSend, SessInv, Sessions, Session
  <1>5. /\ Queue(OwnId(c)) # <<>>
        /\ w_buffer_for_id' = [w_buffer_for_id EXCEPT ![OwnId(c)] = Tail(@)]
        /\ TcpServerSend(c, Head(w_buffer_for_id[OwnId(c)]))
        /\ UNCHANGED <<udp, published>>
    BY <1>3, <1>4 DEF SendNews, HasNewsToSend, Popped
  <1>6. OwnId(c) \in DOMAIN w_buffer_for_id /\ Queue(OwnId(c)) = w_buffer_for_id[OwnId(c)]
    BY <1>5 DEF Queue, Has
  <1>7. \A p \in Proc : IF nameOf[p] = nameOf[c]
                        THEN Q[p] = Q[c] /\ R[p] = Tail(Q[p]) ELSE R[p] = Q[p]
    <2>. SUFFICES ASSUME NEW p \in Proc
                  PROVE  IF nameOf[p] = nameOf[c]
                         THEN Q[p] = Q[c] /\ R[p] = Tail(Q[p]) ELSE R[p] = Q[p]
      OBVIOUS
    <2>1. /\ Q[p] = Queue(OwnId(p)) /\ R[p] = Queue(OwnId(p))' /\ Q[c] = Queue(OwnId(c))
      BY <1>1, <1>2 DEF Queues
    <2>2. CASE nameOf[p] = nameOf[c]
      <3>1. OwnId(p) = OwnId(c)
        BY <2>2 DEF OwnId
      <3>2. Queue(OwnId(p))' = Tail(w_buffer_for_id[OwnId(c)])
        BY <1>5, <1>6, <2>2 DEF Queue, OwnId, Has
      <3>. QED
        BY <1>6, <2>1, <2>2, <3>1, <3>2
    <2>3. CASE nameOf[p] # nameOf[c]
      <3>1. Queue(OwnId(p))' = Queue(OwnId(p))
        BY <1>5, <2>3 DEF Queue, OwnId, Has
      <3>. QED
        BY <2>1, <2>3, <3>1
    <2>. QED
      BY <2>2, <2>3
  <1>8. Q[c] # <<>> /\ Head(Q[c]) = Head(w_buffer_for_id[OwnId(c)])
    BY <1>1, <1>5, <1>6 DEF Queues
  <1>9. UNCHANGED <<shown, buffer_r>>
    BY DEF subscriberVars
  <1>10. \A p \in Proc : p # c => T[p] = S[p]
    <2>1. \A p \in Proc : p # c => Stream(p)' = Stream(p)
      BY <1>5, <1>9, OrderTypes DEF TcpServerSend, Stream, PromiseInv
    <2>. QED
      BY <1>1, <1>2, <2>1 DEF Streams
  <1>11. T[c] \in {S[c], Append(S[c], Head(Q[c]))}
    <2>1. PICK h \in News : h = Head(Q[c])
      BY <1>8, HeadTailProperties
    <2>2. PICK x \in Seq(News), y \in Seq(News) :
             x = shown[c] \o buffer_r[c] /\ y = toClient[c] /\ S[c] = x \o y
      <3>1. shown[c] \in Seq(News) /\ buffer_r[c] \in Seq(News) /\ toClient[c] \in Seq(News)
        BY OrderTypes DEF PromiseInv
      <3>2. shown[c] \o buffer_r[c] \in Seq(News)
        BY <3>1, ConcatProperties
      <3>. QED
        BY <1>1, <3>1, <3>2 DEF Streams, Stream
    <2>3. T[c] = x \o toClient'[c]
      BY <1>2, <1>9, <2>2 DEF Streams, Stream
    <2>4. CASE toClient'[c] = y
      BY <2>2, <2>3, <2>4
    <2>5. CASE toClient'[c] = Append(y, h)
      <3>1. Append(y, h) = y \o <<h>> /\ <<h>> \in Seq(News)
        BY AppendIsConcat
      <3>2. x \o (y \o <<h>>) = (x \o y) \o <<h>>
        BY <3>1, NewsAssociative, Zenon
      <3>3. (x \o y) \o <<h>> = Append(x \o y, h)
        <4>1. x \o y \in Seq(News)
          BY ConcatProperties
        <4>. QED
          BY <4>1, AppendIsConcat
      <3>. QED
        BY <2>1, <2>2, <2>3, <2>5, <3>1, <3>2, <3>3, Zenon
    <2>6. toClient'[c] \in {y, Append(y, h)}
      BY <1>5, <1>8, <2>1, <2>2, OrderTypes DEF TcpServerSend, PromiseInv
    <2>. QED
      BY <2>4, <2>5, <2>6
  <1>12. Ordered(S, Q, n)
    BY <1>1 DEF OrderInv
  <1>13. Ordered(T, R, n)
    BY <1>7, <1>8, <1>10, <1>11, <1>12, OrderedSends, ZenonT(60)
  <1>14. Taken' = Taken
    BY <1>5 DEF Taken
  <1>. QED
    BY <1>1, <1>2, <1>13, <1>14 DEF OrderInv

LEMMA ServerQuiet ==
    ASSUME ServerStep, ~SendNews, ~ReceiveNews
    PROVE  UNCHANGED <<shown, buffer_r, toClient, w_buffer_for_id, udp, published>>
  <1>1. CASE Closing
    BY <1>1 DEF ServerStep, subscriberVars, Closing, PeekEof, ParseConnectTaken,
                ParseTooEarly, ParseUnknownType, Disconnect, TcpServerClose, Closed
  <1>2. CASE Stopping
    BY <1>2, StoppingSteps DEF ServerStep, subscriberVars
  <1>3. CASE StillStep
    BY <1>3, StillSteps DEF ServerStep, Still, subscriberVars, StillStep, Poll, PassOver,
       PeekAlive, NothingToSend, RecvBytes, RecvNothing, ParseIncomplete, ParseConnect,
       ParseSub, ParseUnsub, buffers
  <1>4. CASE AddCon
    BY <1>4 DEF ServerStep, subscriberVars, AddCon, TcpAccept, buffers
  <1>. QED
    BY <1>1, <1>2, <1>3, <1>4
       DEF ServerStep, ServerLoop, VisitEntry, Parse, StillStep, Closing, Stopping

LEMMA OrderKept ==
    ASSUME SessInv, PromiseInv, OrderInv, [Next]_vars
    PROVE  OrderInv'
  <1>0. IInv'
    BY NextKeepsIInv DEF PromiseInv
  <1>1. ASSUME UNCHANGED <<shown, buffer_r, toClient>>
        PROVE  Streams' = Streams
    BY <1>1 DEF Streams, Stream
  <1>2. CASE UNCHANGED vars
    BY <1>0, <1>1, <1>2, OrderShrinks
       DEF vars, tcpVars, serverVars, buffers, subscriberVars
  <1>3. CASE Publish
    <2>1. UNCHANGED <<shown, buffer_r, toClient, w_buffer_for_id>>
      BY <1>3 DEF Publish, tcpVars, subscriberVars
    <2>2. Taken' = Taken
      <3>1. PICK news \in News : udp' = Append(udp, news)
        <4>1. published + 1 \in 1 .. MaxNews
          BY <1>3, OrderTypes, BoundsAssumption DEF Publish, PromiseInv
        <4>. QED
          BY <1>3, <4>1 DEF Publish, News
      <3>2. Len(udp') = Len(udp) + 1 /\ published' = published + 1 /\ Len(udp) \in Nat
        BY <1>3, <3>1, OrderTypes, AppendProperties, LenProperties DEF Publish, PromiseInv
      <3>. QED
        BY <3>2, OrderTypes DEF Taken, PromiseInv
    <2>3. Streams' = Streams /\ Queues' = Queues
      BY <1>1, <2>1 DEF Queues, Queue, OwnId, Has
    <2>. QED
      BY <2>2, <2>3 DEF OrderInv
  <1>4. CASE ServerStep
    BY <1>0, <1>1, <1>4, ServerQuiet, OrderShrinks, SendKeepsOrder, NewsKeepsOrder
       DEF ServerStep
  <1>5. ASSUME NEW p \in Proc, SubscriberStep(p)
        PROVE  OrderInv'
    <2>0. UNCHANGED <<w_buffer_for_id, udp, published>>
      BY <1>5, SubscriberSteps DEF Mapped
    <2>1. CASE Start(p)
      <3>1. CASE status = "running"
        BY <1>0, <1>1, <2>0, <2>1, <3>1, OrderShrinks DEF Start, TcpConnect
      <3>2. CASE status # "running"
        <4>1. Leave(p) /\ UNCHANGED toClient /\ toClient[p] = <<>>
          BY <2>1, <3>2 DEF Start, tcpVars, SessInv, SendInv, Connections
        <4>2. toClient' = [toClient EXCEPT ![p] = <<>>]
          BY <4>1, OrderTypes DEF PromiseInv
        <4>. QED
          BY <1>0, <2>0, <4>1, <4>2, LeavingKeepsShown, OrderShrinks DEF PromiseInv
      <3>. QED
        BY <3>1, <3>2
    <2>2. CASE TypeExit(p) \/ ServerGone(p)
      <3>1. Leave(p) /\ toClient' = [toClient EXCEPT ![p] = <<>>]
        BY <2>2 DEF TypeExit, ServerGone, TcpClientClose
      <3>. QED
        BY <1>0, <2>0, <3>1, LeavingKeepsShown, OrderShrinks DEF PromiseInv
    <2>3. CASE TypeSubscribe(p) \/ TypeUnsubscribe(p)
      BY <1>0, <1>1, <2>0, <2>3, OrderShrinks
         DEF TypeSubscribe, TypeUnsubscribe, TypeCommand, tcpVars
    <2>4. CASE Pass(p)
      BY <1>0, <2>0, <2>4, PassKeepsStreams, OrderShrinks DEF Pass, PromiseInv
    <2>. QED
      BY <1>5, <2>1, <2>2, <2>3, <2>4 DEF SubscriberStep, Command, SubscriberLoop
  <1>. QED
    BY <1>2, <1>3, <1>4, <1>5 DEF Next

LEMMA OrderStart == Init => OrderInv
  <1>. SUFFICES ASSUME Init PROVE OrderInv
    OBVIOUS
  <1>1. /\ shown = [p \in Proc |-> <<>>] /\ buffer_r = [p \in Proc |-> <<>>]
        /\ toClient = [p \in Proc |-> <<>>] /\ w_buffer_for_id = <<>>
    BY DEF Init, TcpInit, ServerInit, SubscriberInit
  <1>2. (<<>> \o <<>>) \o <<>> = <<>>
    BY ConcatEmptySeq, EmptySeq
  <1>3. \A p \in Proc : Streams[p] = <<>> /\ Queues[p] = <<>>
    <2>. TAKE p \in Proc
    <2>1. shown[p] = <<>> /\ buffer_r[p] = <<>> /\ toClient[p] = <<>>
      BY <1>1
    <2>2. Stream(p) = <<>>
      BY <1>2, <2>1, Zenon DEF Stream
    <2>3. Queue(OwnId(p)) = <<>>
      <3>1. DOMAIN w_buffer_for_id = {}
        BY <1>1
      <3>. QED
        BY <3>1 DEF Queue, Has
    <2>. QED
      BY <2>2, <2>3 DEF Streams, Queues
  <1>. QED
    BY <1>3 DEF OrderInv, Ordered, Increasing, Follows, Upto, Apart

LEMMA OrderInductive ==
    Spec /\ []RefusedAlone => [](SessInv /\ PromiseInv /\ OrderInv)
  <1>1. SessInv /\ IInv /\ OneConnectionPerId /\ NoDouble /\ UdpNumbered /\ OrderInv
          /\ [Next]_vars => OrderInv'
    BY OrderKept DEF PromiseInv
  <1>2. IInv /\ OneConnectionPerId /\ NoDouble /\ UdpNumbered => PromiseInv
    BY DEF PromiseInv
  <1>. QED
    BY <1>1, <1>2, OrderStart, SessInductive, PromiseInductive, PTL DEF Spec

LEMMA OrderGivesNewsInOrder ==
    ASSUME IInv, OrderInv
    PROVE  NewsInOrder
  <1>1. /\ \A p \in Proc : Stream(p) = Streams[p] /\ Queue(OwnId(p)) = Queues[p]
        /\ Streams \in [Proc -> Seq(News)] /\ Queues \in [Proc -> Seq(News)]
    BY OrderTypes DEF Streams, Queues
  <1>2. ASSUME NEW p \in Proc
        PROVE  Increasing(Stream(p) \o Queue(OwnId(p)))
    <2>1. Stream(p) \in Seq(News) /\ Queue(OwnId(p)) \in Seq(News)
      BY <1>1
    <2>2. /\ Increasing(Stream(p)) /\ Increasing(Queue(OwnId(p)))
          /\ Follows(Stream(p), Queue(OwnId(p)))
      BY <1>1 DEF OrderInv, Ordered
    <2>. QED
      BY <2>1, <2>2, IncreasingConcat
  <1>3. ASSUME NEW p \in Proc, NEW q \in Proc \ {p}, nameOf[q] = nameOf[p]
        PROVE  /\ Numbers(Stream(p)) \cap Numbers(Stream(q)) = {}
               /\ Increasing(Stream(q) \o Queue(OwnId(p)))
    <2>1. Apart(Stream(p), Stream(q))
      BY <1>1, <1>3 DEF OrderInv, Ordered
    <2>2. OwnId(p) = OwnId(q)
      BY <1>3 DEF OwnId
    <2>. QED
      BY <1>2, <2>1, <2>2 DEF Apart, Numbers
  <1>. QED
    BY <1>2, <1>3 DEF NewsInOrder

\* As long as a subscriber that is refused has sent no more than its id, each
\* id gets its news in order and none twice, over all the connections it has.
\* Else what a refused subscriber has left in the buffer of its descriptor shifts
\* what the next ones there send: one of their ids is connected when their
\* descriptor is closed already, and the news of that id go to the next connection.
THEOREM OrderedNews == Spec /\ []RefusedAlone => []NewsInOrder
  <1>1. SessInv /\ PromiseInv /\ OrderInv => NewsInOrder
    BY OrderGivesNewsInOrder DEF PromiseInv
  <1>. QED
    BY <1>1, OrderInductive, PTL

\* In a system without two processes of one id the news come in order whatever
\* is sent.
THEOREM OrderedNewsOfOwnNames ==
    ASSUME OwnNames
    PROVE  Spec => []NewsInOrder
  <1>1. ~Refusal => RefusedAlone
    BY DEF RefusedAlone
  <1>. QED
    BY <1>1, NobodyRefused, OrderedNews, PTL
=============================================================================
