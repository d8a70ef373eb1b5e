----------------------------- MODULE PubSubProofs -----------------------------
EXTENDS PubSub, SequenceTheorems, TLAPS

(***************************************************************************)
(* The maps of the server.                                                 *)
(***************************************************************************)
LEMMA ForgetIdKeepsOwners ==
    ASSUME NEW f \in DOMAIN fd_to_id, ForgetId(f), OneConnectionPerId
    PROVE  OneConnectionPerId'
  <1>. SUFFICES ASSUME NEW g \in DOMAIN fd_to_id'
                PROVE  Has(id_to_fd, fd_to_id[g])' /\ (id_to_fd[fd_to_id[g]])' = g
    BY DEF OneConnectionPerId
  <1>1. /\ g \in DOMAIN fd_to_id \ {f}
        /\ fd_to_id'[g] = fd_to_id[g]
    BY DEF ForgetId, Erase
  <1>2. /\ fd_to_id[g] \in DOMAIN id_to_fd
        /\ id_to_fd[fd_to_id[g]] = g
        /\ id_to_fd[fd_to_id[f]] = f
    BY <1>1 DEF OneConnectionPerId, Has
  <1>3. fd_to_id[g] \in DOMAIN id_to_fd \ {fd_to_id[f]}
    BY <1>1, <1>2
  <1>. QED
    BY <1>1, <1>2, <1>3 DEF ForgetId, Erase, Has

\* A connection takes an id that nobody has.
LEMMA RegisterKeepsOwners ==
    ASSUME NEW f, NEW id, ~Has(id_to_fd, id),
           id_to_fd' = Put(id_to_fd, id, f), fd_to_id' = Put(fd_to_id, f, id),
           OneConnectionPerId
    PROVE  OneConnectionPerId'
  <1>. SUFFICES ASSUME NEW g \in DOMAIN fd_to_id'
                PROVE  Has(id_to_fd, fd_to_id[g])' /\ (id_to_fd[fd_to_id[g]])' = g
    BY DEF OneConnectionPerId
  <1>1. CASE g = f
    BY <1>1 DEF Put, Has
  <1>2. CASE g # f
    <2>1. g \in DOMAIN fd_to_id /\ fd_to_id'[g] = fd_to_id[g]
      BY <1>2 DEF Put
    <2>2. /\ fd_to_id[g] \in DOMAIN id_to_fd
          /\ id_to_fd[fd_to_id[g]] = g
          /\ fd_to_id[g] # id
      BY <2>1 DEF OneConnectionPerId, Has
    <2>. QED
      BY <2>1, <2>2 DEF Put, Has
  <1>. QED
    BY <1>1, <1>2

LEMMA DisconnectKeepsOwners ==
    ASSUME NEW j, NEW delete_id, NEW read, Disconnect(j, delete_id, read),
           OneConnectionPerId
    PROVE  OneConnectionPerId'
  BY ForgetIdKeepsOwners DEF Disconnect, ids, OneConnectionPerId, Has

LEMMA ServerKeepsOwners ==
    ASSUME OneConnectionPerId, ServerLoop
    PROVE  OneConnectionPerId'
  <1>1. CASE UNCHANGED ids
    BY <1>1 DEF ids, OneConnectionPerId, Has
  <1>2. CASE ParseConnect
    BY <1>2, RegisterKeepsOwners DEF ParseConnect, InUse
  <1>3. CASE PeekEof \/ ParseConnectTaken \/ ParseTooEarly \/ ParseUnknownType
    BY <1>3, DisconnectKeepsOwners
       DEF PeekEof, ParseConnectTaken, ParseTooEarly, ParseUnknownType
  <1>4. CASE Poll \/ PassOver \/ AddCon \/ AddConFails \/ ReceiveNews \/ PeekAlive
             \/ SendNews \/ NothingToSend \/ SendKillsServer \/ RecvBytes
             \/ RecvNothing \/ ParseIncomplete \/ ParseSub \/ ParseUnsub
    BY <1>1, <1>4
       DEF Poll, PassOver, AddCon, AddConFails, ReceiveNews, PeekAlive,
           SendNews, NothingToSend, SendKillsServer, RecvBytes, RecvNothing,
           ParseIncomplete, ParseSub, ParseUnsub, Stop
  <1>. QED
    BY <1>2, <1>3, <1>4 DEF ServerLoop, VisitEntry, Parse

\* No two connections own the same id, and none loses it to another: for any
\* number of processes, descriptors and messages, whatever bytes are left in
\* the read buffers.
THEOREM OneConnection == Spec => []OneConnectionPerId
  <1>1. Init => OneConnectionPerId
    BY DEF Init, ServerInit, OneConnectionPerId
  <1>2. OneConnectionPerId /\ [Next]_vars => OneConnectionPerId'
    <2>. SUFFICES ASSUME OneConnectionPerId, [Next]_vars
                  PROVE  OneConnectionPerId'
      OBVIOUS
    <2>1. CASE UNCHANGED ids
      BY <2>1 DEF ids, OneConnectionPerId, Has
    <2>2. CASE ServerLoop
      BY <2>2, ServerKeepsOwners
    <2>3. CASE Exit
      BY <2>3, <2>1 DEF Exit, Stop
    <2>4. CASE \E p \in Proc : SubscriberStep(p)
      BY <2>4, <2>1
         DEF SubscriberStep, Start, Command, TypeExit, TypeSubscribe,
             TypeUnsubscribe, TypeCommand, SubscriberLoop, ServerGone, Pass,
             serverVars
    <2>5. CASE Publish
      BY <2>5, <2>1 DEF Publish
    <2>6. CASE UNCHANGED vars
      BY <2>6, <2>1 DEF vars, serverVars
    <2>. QED
      BY <2>2, <2>3, <2>4, <2>5, <2>6 DEF Next, ServerStep
  <1>. QED
    BY <1>1, <1>2, PTL DEF Spec
(***************************************************************************)
(* The inductive invariant: the types, LoopKnows and the tables.           *)
(***************************************************************************)
ServerInv ==
    /\ TcpTypeOK
    /\ ServerTypeOK
    /\ LoopKnows
    /\ EmptiesSound
    /\ DescriptorsWatchedOnce

IInv == TypeOK /\ ServerInv

LEMMA InitIInv == Init => IInv
  <1>. SUFFICES ASSUME Init PROVE IInv
    OBVIOUS
  <1>. USE DEF Init, TcpInit, ServerInit, SubscriberInit
  <1>1. TcpTypeOK
    BY DEF TcpTypeOK, LinkState, DownState, Open
  <1>2. ServerTypeOK
    BY BoundsAssumption DEF ServerTypeOK
  <1>3. SubscriberTypeOK
    BY DEF SubscriberTypeOK
  <1>4. published \in 0 .. MaxNews
    BY BoundsAssumption
  <1>5. LoopKnows
    BY DEF LoopKnows, Running
  <1>6. EmptiesSound /\ DescriptorsWatchedOnce
    BY DEF EmptiesSound, DescriptorsWatchedOnce, Slot, Open
  <1>. QED
    BY <1>1, <1>2, <1>3, <1>4, <1>5, <1>6 DEF IInv, ServerInv, TypeOK
(***************************************************************************)
(* Steps of the server that touch few variables.                           *)
(***************************************************************************)
\* The loop variables keep their types.
LEMMA NextEntryTypes ==
    ASSUME ServerTypeOK, NextEntry
    PROVE  /\ pc' \in {"poll", "pass"}
           /\ i' \in Nat /\ prevv' \in Nat
           /\ pollin' \subseteq Nat /\ pollout' \subseteq Nat
           /\ fd' = NoFd
           /\ pc' = "pass" => pollin' = pollin /\ i' = i + 1
  BY DEF NextEntry, ForgetPoll, ServerTypeOK

LEMMA PollKeeps == ASSUME ServerInv, Poll PROVE ServerInv'
  <1>. USE DEF Poll, tables, ids, buffers, tcpVars, ServerInv
  <1>1. TcpTypeOK'
    BY DEF TcpTypeOK, Open
  <1>2. ServerTypeOK'
    BY DEF ServerTypeOK, Slot
  <1>3. LoopKnows'
    BY DEF LoopKnows, Running, Slot, ServerTypeOK
  <1>4. EmptiesSound'
    BY DEF EmptiesSound, Slot
  <1>5. DescriptorsWatchedOnce'
    BY DEF DescriptorsWatchedOnce, Slot, Open
  <1>. QED
    BY <1>1, <1>2, <1>3, <1>4, <1>5

LEMMA DisconnectKeepsTypes ==
    ASSUME NEW j \in Slot, NEW delete_id,
           NEW read \in [Fd \cup {NoFd} -> Seq(Cell)],
           Disconnect(j, delete_id, read), TcpTypeOK, ServerTypeOK
    PROVE  /\ TcpTypeOK'
           /\ fds' \in [2 .. (nfds - 1) -> Fd \cup {NoFd}]
           /\ DOMAIN id_to_fd' \subseteq Id /\ id_to_fd' \in [DOMAIN id_to_fd' -> Fd]
           /\ DOMAIN fd_to_id' \subseteq Fd /\ fd_to_id' \in [DOMAIN fd_to_id' -> Id]
           /\ r_buffer_for_fd' \in [Fd \cup {NoFd} -> Seq(Cell)]
           /\ toServer' \in [Proc -> Seq(Cell)]
           /\ toClient' \in [Proc -> Seq(News)]
  <1>1. TcpTypeOK' /\ toServer' \in [Proc -> Seq(Cell)] /\ toClient' \in [Proc -> Seq(News)]
    BY DEF Disconnect, TcpServerClose, Closed, TcpTypeOK, ServerTypeOK, Open,
           LinkState, DownState
  <1>2. fds' \in [2 .. (nfds - 1) -> Fd \cup {NoFd}]
    BY DEF Disconnect, Freed, ServerTypeOK
  <1>3. r_buffer_for_fd' \in [Fd \cup {NoFd} -> Seq(Cell)]
    BY DEF Disconnect
  <1>4. /\ DOMAIN id_to_fd' \subseteq Id /\ id_to_fd' \in [DOMAIN id_to_fd' -> Fd]
        /\ DOMAIN fd_to_id' \subseteq Fd /\ fd_to_id' \in [DOMAIN fd_to_id' -> Id]
    BY DEF Disconnect, ForgetId, Erase, ids, ServerTypeOK
  <1>. QED
    BY <1>1, <1>2, <1>3, <1>4

LEMMA DisconnectKeepsTables ==
    ASSUME NEW j \in Slot, NEW delete_id, NEW read,
           Disconnect(j, delete_id, read), TcpTypeOK, ServerTypeOK,
           DescriptorsWatchedOnce, Running, UNCHANGED status
    PROVE  DescriptorsWatchedOnce'
  <1>1. /\ fds' = [fds EXCEPT ![j] = NoFd]
        /\ Slot' = Slot
        /\ Open' = Open \ {fds[j]}
    BY DEF Disconnect, Freed, TcpServerClose, Open, Slot, ServerTypeOK
  <1>2. /\ \A k \in Slot : fds[k] \in Fd \cup {NoFd}
        /\ NoFd \notin Open
    BY FdAssumption DEF ServerTypeOK, TcpTypeOK, Slot, NoFd
  <1>. QED
    BY <1>1, <1>2 DEF DescriptorsWatchedOnce, Running, Slot
LEMMA PassOverKeeps == ASSUME ServerInv, PassOver PROVE ServerInv'
  <1>. USE DEF PassOver, tables, ids, buffers, tcpVars, ServerInv
  <1>1. TcpTypeOK'
    BY DEF TcpTypeOK, Open
  <1>2. ServerTypeOK'
    BY NextEntryTypes DEF ServerTypeOK
  <1>3. LoopKnows'
    BY NextEntryTypes DEF LoopKnows, Running, Slot, ServerTypeOK
  <1>4. EmptiesSound'
    BY DEF EmptiesSound, Slot
  <1>5. DescriptorsWatchedOnce'
    BY DEF DescriptorsWatchedOnce, Slot, Open
  <1>. QED
    BY <1>1, <1>2, <1>3, <1>4, <1>5

LEMMA AddConFailsKeeps == ASSUME ServerInv, AddConFails PROVE ServerInv'
  <1>. USE DEF AddConFails, Stop, ForgetPoll, TcpServerEnds, tables, ids, buffers, tcpVars, ServerInv
  <1>1. TcpTypeOK'
    BY DEF TcpTypeOK, Open, LinkState, DownState
  <1>2. ServerTypeOK'
    BY DEF ServerTypeOK
  <1>3. LoopKnows'
    BY DEF LoopKnows
  <1>4. EmptiesSound'
    BY DEF EmptiesSound, Slot
  <1>5. DescriptorsWatchedOnce'
    BY DEF DescriptorsWatchedOnce, Slot, Open
  <1>. QED
    BY <1>1, <1>2, <1>3, <1>4, <1>5

LEMMA ExitKeeps == ASSUME ServerInv, Exit PROVE ServerInv'
  <1>. USE DEF Exit, Stop, ForgetPoll, TcpServerEnds, tables, ids, buffers, tcpVars, ServerInv
  <1>1. TcpTypeOK'
    BY DEF TcpTypeOK, Open, LinkState, DownState
  <1>2. ServerTypeOK'
    BY DEF ServerTypeOK
  <1>3. LoopKnows'
    BY DEF LoopKnows
  <1>4. EmptiesSound'
    BY DEF EmptiesSound, Slot
  <1>5. DescriptorsWatchedOnce'
    BY DEF DescriptorsWatchedOnce, Slot, Open
  <1>. QED
    BY <1>1, <1>2, <1>3, <1>4, <1>5

LEMMA SendKillsServerKeeps == ASSUME ServerInv, SendKillsServer PROVE ServerInv'
  <1>. USE DEF SendKillsServer, Stop, ForgetPoll, TcpServerEnds, tables, ids, buffers, tcpVars, ServerInv
  <1>1. TcpTypeOK'
    BY DEF TcpTypeOK, Open, LinkState, DownState
  <1>2. ServerTypeOK'
    BY DEF ServerTypeOK
  <1>3. LoopKnows'
    BY DEF LoopKnows
  <1>4. EmptiesSound'
    BY DEF EmptiesSound, Slot
  <1>5. DescriptorsWatchedOnce'
    BY DEF DescriptorsWatchedOnce, Slot, Open
  <1>. QED
    BY <1>1, <1>2, <1>3, <1>4, <1>5

LEMMA ReceiveNewsKeeps == ASSUME ServerInv, ReceiveNews PROVE ServerInv'
  <1>. USE DEF ReceiveNews, tables, ids, buffers, tcpVars, ServerInv
  <1>1. TcpTypeOK'
    BY DEF TcpTypeOK, Open
  <1>2. ServerTypeOK'
    <2>1. udp # <<>> /\ udp \in Seq(News)
      BY DEF LoopKnows, ServerTypeOK
    <2>2. Head(udp) \in News /\ Tail(udp) \in Seq(News)
      BY <2>1
    <2>3. \A id : Queue(id) \in Seq(News)
      BY DEF Queue, Has, ServerTypeOK
    <2>4. /\ DOMAIN w_buffer_for_id' \subseteq Id
          /\ w_buffer_for_id' \in [DOMAIN w_buffer_for_id' -> Seq(News)]
      BY <2>2, <2>3 DEF Subscribed, ServerTypeOK
    <2>. QED
      BY <2>2, <2>4, NextEntryTypes DEF ServerTypeOK
  <1>3. LoopKnows'
    BY NextEntryTypes DEF LoopKnows, Running, Slot, ServerTypeOK
  <1>4. EmptiesSound'
    BY DEF EmptiesSound, Slot
  <1>5. DescriptorsWatchedOnce'
    BY DEF DescriptorsWatchedOnce, Slot, Open
  <1>. QED
    BY <1>1, <1>2, <1>3, <1>4, <1>5

LEMMA PeekAliveKeeps == ASSUME ServerInv, PeekAlive PROVE ServerInv'
  <1>. USE DEF PeekAlive, LinkAfterPeek, GoTo, tables, ids, buffers, tcpVars, ServerInv
  <1>1. TcpTypeOK'
    BY DEF TcpTypeOK, Open, LinkState
  <1>2. ServerTypeOK'
    BY DEF ServerTypeOK
  <1>3. LoopKnows'
    BY DEF LoopKnows, Running, Slot, Visiting
  <1>4. EmptiesSound'
    BY DEF EmptiesSound, Slot
  <1>5. DescriptorsWatchedOnce'
    BY DEF DescriptorsWatchedOnce, Slot, Open
  <1>. QED
    BY <1>1, <1>2, <1>3, <1>4, <1>5

LEMMA NothingToSendKeeps == ASSUME ServerInv, NothingToSend PROVE ServerInv'
  <1>. USE DEF NothingToSend, GoTo, tables, ids, buffers, tcpVars, ServerInv
  <1>1. TcpTypeOK'
    BY DEF TcpTypeOK, Open
  <1>2. ServerTypeOK'
    BY DEF ServerTypeOK
  <1>3. LoopKnows'
    BY DEF LoopKnows, Running, Slot
  <1>4. EmptiesSound'
    BY DEF EmptiesSound, Slot
  <1>5. DescriptorsWatchedOnce'
    BY DEF DescriptorsWatchedOnce, Slot, Open
  <1>. QED
    BY <1>1, <1>2, <1>3, <1>4, <1>5

LEMMA SendNewsKeeps == ASSUME ServerInv, SendNews PROVE ServerInv'
  <1>. USE DEF SendNews, GoTo, TcpServerSend, tables, ids, buffers, tcpVars, ServerInv
  <1>1. TcpTypeOK'
    BY DEF TcpTypeOK, Open, LinkState
  <1>2. ServerTypeOK'
    <2>. DEFINE id == fd_to_id[fds[i]]
    <2>1. /\ id \in DOMAIN w_buffer_for_id
          /\ w_buffer_for_id[id] \in Seq(News)
          /\ w_buffer_for_id[id] # <<>>
      BY DEF HasNewsToSend, Queue, Has, ServerTypeOK
    <2>2. /\ Head(w_buffer_for_id[id]) \in News
          /\ Tail(w_buffer_for_id[id]) \in Seq(News)
      BY <2>1
    <2>3. toClient' \in [Proc -> Seq(News)]
      <3>1. toClient' = toClient \/
            toClient' = [toClient EXCEPT ![Connection] =
                           Append(@, Head(w_buffer_for_id[id]))]
        OBVIOUS
      <3>2. \A c \in Proc : Append(toClient[c], Head(w_buffer_for_id[id])) \in Seq(News)
        BY <2>2, AppendProperties DEF ServerTypeOK
      <3>. QED
        BY <3>1, <3>2 DEF ServerTypeOK
    <2>4. /\ DOMAIN w_buffer_for_id' \subseteq Id
          /\ w_buffer_for_id' \in [DOMAIN w_buffer_for_id' -> Seq(News)]
      BY <2>2 DEF Popped, ServerTypeOK
    <2>. QED
      BY <2>3, <2>4 DEF ServerTypeOK
  <1>3. LoopKnows'
    BY DEF LoopKnows, Running, Slot
  <1>4. EmptiesSound'
    BY DEF EmptiesSound, Slot
  <1>5. DescriptorsWatchedOnce'
    BY DEF DescriptorsWatchedOnce, Slot, Open
  <1>. QED
    BY <1>1, <1>2, <1>3, <1>4, <1>5

LEMMA RecvBytesKeeps == ASSUME ServerInv, RecvBytes PROVE ServerInv'
  <1>. USE DEF RecvBytes, GoTo, TcpServerRecv, tables, ids, buffers, tcpVars, ServerInv
  <1>1. TcpTypeOK'
    BY DEF TcpTypeOK, Open
  <1>2. ServerTypeOK'
    <2>1. fds[i] \in Fd /\ fds[i] \in Open /\ Connection \in Proc
      BY DEF LoopKnows, ServerTypeOK, TcpTypeOK, DescriptorsWatchedOnce, Slot,
             Running, Open, Connection
    <2>2. PICK n \in 1 .. BUFFER_SERVER :
            /\ n <= Len(toServer[Connection])
            /\ toServer' = [toServer EXCEPT ![Connection] = SubSeq(@, n + 1, Len(@))]
            /\ r_buffer_for_fd' = [r_buffer_for_fd EXCEPT ![fds[i]] =
                                     @ \o SubSeq(toServer[Connection], 1, n)]
      OBVIOUS
    <2>3. toServer[Connection] \in Seq(Cell)
      BY <2>1 DEF ServerTypeOK
    <2>4. /\ SubSeq(toServer[Connection], n + 1, Len(toServer[Connection])) \in Seq(Cell)
          /\ SubSeq(toServer[Connection], 1, n) \in Seq(Cell)
      BY <2>2, <2>3, SubSeqProperties, BoundsAssumption
    <2>5. toServer' \in [Proc -> Seq(Cell)]
      BY <2>2, <2>4 DEF ServerTypeOK
    <2>6. r_buffer_for_fd[fds[i]] \o SubSeq(toServer[Connection], 1, n) \in Seq(Cell)
      BY <2>1, <2>4, ConcatProperties DEF ServerTypeOK
    <2>7. r_buffer_for_fd' \in [Fd \cup {NoFd} -> Seq(Cell)]
      BY <2>2, <2>6 DEF ServerTypeOK
    <2>. QED
      BY <2>1, <2>5, <2>7, ZenonT(60) DEF ServerTypeOK
  <1>3. LoopKnows'
    BY SMTT(30) DEF LoopKnows, Running, Slot, ServerTypeOK
  <1>4. EmptiesSound'
    BY DEF EmptiesSound, Slot
  <1>5. DescriptorsWatchedOnce'
    BY DEF DescriptorsWatchedOnce, Slot, Open
  <1>. QED
    BY <1>1, <1>2, <1>3, <1>4, <1>5

LEMMA RecvNothingKeeps == ASSUME ServerInv, RecvNothing PROVE ServerInv'
  <1>. USE DEF RecvNothing, tables, ids, buffers, tcpVars, ServerInv
  <1>1. TcpTypeOK'
    BY DEF TcpTypeOK, Open
  <1>2. ServerTypeOK'
    BY NextEntryTypes DEF ServerTypeOK
  <1>3. LoopKnows'
    BY NextEntryTypes DEF LoopKnows, Running, Slot, ServerTypeOK
  <1>4. EmptiesSound'
    BY DEF EmptiesSound, Slot
  <1>5. DescriptorsWatchedOnce'
    BY DEF DescriptorsWatchedOnce, Slot, Open
  <1>. QED
    BY <1>1, <1>2, <1>3, <1>4, <1>5

LEMMA ParseIncompleteKeeps == ASSUME ServerInv, ParseIncomplete PROVE ServerInv'
  <1>. USE DEF ParseIncomplete, tables, ids, buffers, tcpVars, ServerInv
  <1>1. TcpTypeOK'
    BY DEF TcpTypeOK, Open
  <1>2. ServerTypeOK'
    BY NextEntryTypes DEF ServerTypeOK
  <1>3. LoopKnows'
    BY NextEntryTypes, SMTT(30) DEF LoopKnows, Running, Slot, ServerTypeOK
  <1>4. EmptiesSound'
    BY DEF EmptiesSound, Slot
  <1>5. DescriptorsWatchedOnce'
    BY DEF DescriptorsWatchedOnce, Slot, Open
  <1>. QED
    BY <1>1, <1>2, <1>3, <1>4, <1>5

LEMMA AddConKeeps == ASSUME ServerInv, AddCon PROVE ServerInv'
  <1>. USE DEF ServerInv
  <1>1. PICK f \in Fd :
          /\ TcpAccept(f)
          /\ IF empties # <<>>
             THEN /\ fds' = [fds EXCEPT ![Head(empties)] = f]
                  /\ empties' = Tail(empties)
                  /\ UNCHANGED nfds
             ELSE /\ fds' = Put(fds, nfds, f)
                  /\ nfds' = nfds + 1
                  /\ UNCHANGED empties
    BY DEF AddCon, EmptiesAfterFront
  <1>2. /\ f \notin Open /\ f # NoFd
        /\ backlog # <<>> /\ Running
        /\ UNCHANGED <<ids, buffers, status, link, down, toServer, toClient>>
    BY <1>1, FdAssumption
       DEF AddCon, TcpAccept, IsLowestFree, FreeFd, LoopKnows, NoFd, Open
  <1>3. /\ Open' = Open \cup {f} /\ sock' \in [Open' -> Proc]
        /\ backlog' \in Seq(Proc)
    BY <1>1, <1>2 DEF TcpAccept, Put, Open, TcpTypeOK
  <1>4. TcpTypeOK'
    BY <1>2, <1>3 DEF TcpTypeOK
  <1>5. current_size' \in Nat /\ NextEntry
    BY DEF AddCon, ServerTypeOK
  <1>6. LoopKnows'
    <2>1. /\ pc = "pass" /\ i = 0 /\ UNCHANGED <<udp, status>>
          /\ pc' \in {"poll", "pass"}
          /\ pc' = "pass" => pollin' = pollin /\ i' = 1
      BY <1>5, NextEntryTypes DEF AddCon, buffers
    <2>. QED
      BY <2>1, <1>2 DEF LoopKnows, Running
  <1>7. CASE empties # <<>>
    <2>. DEFINE k == Head(empties)
    <2>1. /\ empties \in Seq(Nat) /\ Len(empties) \in Nat /\ Len(empties) > 0
          /\ empties' = Tail(empties) /\ Tail(empties) \in Seq(Nat)
          /\ Len(Tail(empties)) = Len(empties) - 1
          /\ \A m \in 1 .. Len(Tail(empties)) : Tail(empties)[m] = empties[m + 1]
          /\ k = empties[1]
      BY <1>1, <1>7, HeadTailProperties, EmptySeq, LenProperties DEF ServerTypeOK
    <2>2. k \in Slot /\ fds[k] = NoFd
      BY <2>1 DEF EmptiesSound
    <2>3. /\ fds' = [fds EXCEPT ![k] = f] /\ Slot' = Slot /\ nfds' = nfds
          /\ fds' \in [2 .. (nfds - 1) -> Fd \cup {NoFd}]
      BY <1>1, <1>7, <2>2 DEF Slot, ServerTypeOK
    <2>4. EmptiesSound'
      <3>1. DOMAIN empties = 1 .. Len(empties)
            /\ DOMAIN empties' = 1 .. (Len(empties) - 1)
        BY <2>1
      <3>2. \A m \in DOMAIN empties' : /\ m + 1 \in DOMAIN empties
                                       /\ empties'[m] = empties[m + 1]
                                       /\ empties'[m] # k
        BY <2>1, <3>1 DEF EmptiesSound
      <3>3. \A m \in DOMAIN empties' : empties'[m] \in Slot' /\ fds'[empties'[m]] = NoFd
        BY <3>2, <2>3 DEF EmptiesSound, Slot
      <3>4. ASSUME NEW m \in DOMAIN empties', NEW n \in DOMAIN empties',
                   empties'[m] = empties'[n]
            PROVE  m = n
        <4>1. m + 1 = n + 1
          BY <3>2, <3>4 DEF EmptiesSound
        <4>. QED
          BY <4>1, <3>1, <2>1
      <3>. QED
        BY <3>3, <3>4 DEF EmptiesSound
    <2>5. DescriptorsWatchedOnce'
      BY <1>2, <1>3, <2>2, <2>3 DEF DescriptorsWatchedOnce, Slot, Running
    <2>6. ServerTypeOK'
      BY <1>2, <1>5, <2>1, <2>3, NextEntryTypes
         DEF ServerTypeOK, ids, buffers
    <2>. QED
      BY <1>4, <1>6, <2>4, <2>5, <2>6
  <1>8. CASE empties = <<>>
    <2>1. /\ Slot = 2 .. (nfds - 1) /\ nfds \in Nat \ {0, 1} /\ nfds \notin Slot
          /\ nfds' = nfds + 1 /\ Slot' = Slot \cup {nfds}
          /\ Slot' = 2 .. (nfds' - 1)
          /\ fds'[nfds] = f
          /\ \A k \in Slot : fds'[k] = fds[k]
      BY <1>1, <1>8 DEF Put, Slot, ServerTypeOK
    <2>2. fds' \in [2 .. (nfds' - 1) -> Fd \cup {NoFd}]
      BY <1>1, <1>8, <2>1 DEF Put, Slot, ServerTypeOK
    <2>3. EmptiesSound'
      BY <1>1, <1>8 DEF EmptiesSound
    <2>4. DescriptorsWatchedOnce'
      BY <1>2, <1>3, <2>1 DEF DescriptorsWatchedOnce, Slot, Running
    <2>5. ServerTypeOK'
      BY <1>1, <1>2, <1>5, <1>8, <2>1, <2>2, NextEntryTypes, SMTT(30)
         DEF ServerTypeOK, ids, buffers
    <2>. QED
      BY <1>4, <1>6, <2>3, <2>4, <2>5
  <1>. QED
    BY <1>7, <1>8

(***************************************************************************)
(* Steps of the server that close a connection, and the other messages.    *)
(***************************************************************************)
LEMMA PeekEofKeeps == ASSUME ServerInv, PeekEof PROVE ServerInv'
  <1>. USE DEF ServerInv
  <1>1. /\ pc = "pass" /\ i \in Slot /\ fds[i] # NoFd /\ Running
        /\ Disconnect(i, Has(fd_to_id, fds[i]), r_buffer_for_fd)
        /\ r_buffer_for_fd \in [Fd \cup {NoFd} -> Seq(Cell)]
        /\ NextEntry /\ empties' = Append(empties, i)
        /\ UNCHANGED <<nfds, current_size, w_buffer_for_id, topic_subscribers,
                       udp, status, backlog>>
    BY DEF PeekEof, Visiting, LoopKnows, ServerTypeOK, Disconnect, TcpServerClose
  <1>2. DescriptorsWatchedOnce'
    BY <1>1, DisconnectKeepsTables
  <1>3. TcpTypeOK'
    BY <1>1, DisconnectKeepsTypes
  <1>4. /\ fds' = [fds EXCEPT ![i] = NoFd] /\ Slot' = Slot /\ i \in Nat
        /\ \A k \in Slot : fds'[k] = IF k = i THEN NoFd ELSE fds[k]
    BY <1>1 DEF Disconnect, Freed, Slot, ServerTypeOK
  <1>5. /\ empties' \in Seq(Nat)
        /\ DOMAIN empties' = DOMAIN empties \cup {Len(empties) + 1}
        /\ empties'[Len(empties) + 1] = i
        /\ \A k \in DOMAIN empties : empties'[k] = empties[k]
    BY <1>1, <1>4, AppendProperties, LenProperties, SMTT(30) DEF ServerTypeOK
  <1>6. ServerTypeOK'
    BY <1>1, <1>5, DisconnectKeepsTypes, NextEntryTypes DEF ServerTypeOK
  <1>7. EmptiesSound'
    <2>1. \A k \in DOMAIN empties : empties[k] \in Slot /\ empties[k] # i
      BY <1>1 DEF EmptiesSound
    <2>2. \A k \in DOMAIN empties' : empties'[k] \in Slot' /\ fds'[empties'[k]] = NoFd
      BY <1>1, <1>4, <1>5, <2>1 DEF EmptiesSound
    <2>3. \A k, m \in DOMAIN empties' : empties'[k] = empties'[m] => k = m
      BY <1>5, <2>1 DEF EmptiesSound
    <2>. QED
      BY <2>2, <2>3 DEF EmptiesSound
  <1>8. LoopKnows'
    BY <1>1, NextEntryTypes, SMTT(30) DEF LoopKnows, Running, ServerTypeOK
  <1>. QED
    BY <1>2, <1>3, <1>6, <1>7, <1>8

\* What is left in the buffer of fd, and where the loop goes from there.
LEMMA ConsumedTypes ==
    ASSUME ServerInv, pc = "parse", NEW n \in Nat
    PROVE  Consumed(n) \in [Fd \cup {NoFd} -> Seq(Cell)]
  <1>1. r_buffer_for_fd[fd] \in Seq(Cell) /\ fd \in Fd
    BY DEF ServerInv, ServerTypeOK, LoopKnows
  <1>2. CASE n <= Len(r_buffer_for_fd[fd])
    BY <1>1, <1>2, SubSeqProperties, LenProperties DEF Consumed, ServerInv, ServerTypeOK
  <1>3. CASE ~(n <= Len(r_buffer_for_fd[fd]))
    BY <1>1, <1>3, SubSeqProperties, LenProperties DEF Consumed, ServerInv, ServerTypeOK
  <1>. QED
    BY <1>2, <1>3

\* A message that closes the connection.
LEMMA HangUpKeeps ==
    ASSUME ServerInv, pc = "parse", NEW n \in Nat, NEW delete_id,
           Disconnect(i, delete_id, Consumed(n)),
           NextEntry \/ (UNCHANGED loop /\ Consumed(n)[fd] # <<>>),
           UNCHANGED <<nfds, current_size, empties, w_buffer_for_id,
                       topic_subscribers, udp, status>>
    PROVE  ServerInv'
  <1>. USE DEF ServerInv
  <1>1. /\ i \in Slot /\ Running /\ fd \in Fd
        /\ Consumed(n) \in [Fd \cup {NoFd} -> Seq(Cell)]
        /\ backlog' = backlog
    BY ConsumedTypes DEF LoopKnows, Disconnect, TcpServerClose
  <1>2. DescriptorsWatchedOnce'
    BY <1>1, DisconnectKeepsTables
  <1>3. TcpTypeOK'
    BY <1>1, DisconnectKeepsTypes
  <1>4. /\ Slot' = Slot
        /\ \A k \in Slot : fds'[k] = IF k = i THEN NoFd ELSE fds[k]
    BY <1>1 DEF Disconnect, Freed, Slot, ServerTypeOK
  <1>5. ServerTypeOK'
    BY <1>1, DisconnectKeepsTypes, NextEntryTypes DEF ServerTypeOK, loop
  <1>6. EmptiesSound'
    BY <1>4 DEF EmptiesSound
  <1>7. CASE NextEntry
    <2>1. /\ pc' \in {"poll", "pass"}
          /\ pc' = "pass" => i' = i + 1
      BY <1>7, NextEntryTypes
    <2>2. i' \in {0, 1} => pc' # "pass"
      BY <1>1, <2>1 DEF Slot, ServerTypeOK
    <2>3. LoopKnows'
      BY <1>1, <2>1, <2>2 DEF LoopKnows, Running
    <2>. QED
      BY <1>2, <1>3, <1>5, <1>6, <2>3
  <1>8. CASE UNCHANGED loop /\ Consumed(n)[fd] # <<>>
    <2>1. r_buffer_for_fd'[fd] = Consumed(n)[fd]
      BY <1>1, FdAssumption DEF Disconnect, NoFd
    <2>. QED
      BY <1>1, <1>8, <2>1, <1>2, <1>3, <1>4, <1>5, <1>6
         DEF LoopKnows, Running, loop
  <1>. QED
    BY <1>7, <1>8

LEMMA HangUpsKeep ==
    ASSUME ServerInv, ParseConnectTaken \/ ParseTooEarly \/ ParseUnknownType
    PROVE  ServerInv'
  <1>1. CASE ParseConnectTaken
    BY <1>1, HangUpKeeps DEF ParseConnectTaken, ParseOn, MsgCells
  <1>2. CASE ParseTooEarly
    BY <1>2, HangUpKeeps DEF ParseTooEarly
  <1>3. CASE ParseUnknownType
    BY <1>3, HangUpKeeps DEF ParseUnknownType, ParseOn
  <1>. QED
    BY <1>1, <1>2, <1>3

\* A message that is obeyed: an id is taken or a subscription changes.
LEMMA ObeyedKeeps ==
    ASSUME ServerInv, ParseConnect \/ ParseSub \/ ParseUnsub
    PROVE  ServerInv'
  <1>. USE DEF ServerInv
  <1>1. /\ pc = "parse" /\ fd \in Fd /\ Running /\ i \in Slot
        /\ Consumed(MsgCells) \in [Fd \cup {NoFd} -> Seq(Cell)]
        /\ r_buffer_for_fd' = Consumed(MsgCells)
        /\ NextEntry \/ (UNCHANGED loop /\ r_buffer_for_fd'[fd] # <<>>)
        /\ UNCHANGED <<tables, w_buffer_for_id, udp, status, tcpVars>>
    BY ConsumedTypes
       DEF ParseConnect, ParseSub, ParseUnsub, LoopKnows, ParseOn, MsgCells
  <1>2. TcpTypeOK' /\ EmptiesSound' /\ DescriptorsWatchedOnce'
    BY <1>1 DEF tables, tcpVars, TcpTypeOK, EmptiesSound, DescriptorsWatchedOnce,
                Slot, Open
  <1>3. Buffer[2] \in Cell /\ Buffer[3] \in Cell
    BY <1>1, ElementOfSeq DEF ParseConnect, ParseSub, ParseUnsub, IsWhole,
       MsgCells, Buffer, ServerTypeOK
  <1>4. /\ DOMAIN id_to_fd' \subseteq Id /\ id_to_fd' \in [DOMAIN id_to_fd' -> Fd]
        /\ DOMAIN fd_to_id' \subseteq Fd /\ fd_to_id' \in [DOMAIN fd_to_id' -> Id]
    <2>1. CASE ParseConnect
      <3>. DEFINE id == MsgId
      <3>1. id \in Id
        BY <1>3 DEF MsgId, Id
      <3>2. id_to_fd' = Put(id_to_fd, id, fd) /\ fd_to_id' = Put(fd_to_id, fd, id)
        BY <2>1 DEF ParseConnect
      <3>. HIDE DEF id
      <3>. QED
        BY <1>1, <3>1, <3>2 DEF Put, ServerTypeOK
    <2>2. CASE ParseSub \/ ParseUnsub
      BY <2>2 DEF ParseSub, ParseUnsub, ids, ServerTypeOK
    <2>. QED
      BY <2>1, <2>2
  <1>5. topic_subscribers' \in [0..1 -> SUBSET (Cell \X Id)]
    BY <1>1, <1>3 DEF ParseConnect, ParseSub, ParseUnsub, Moved, Subscription,
       Known, Has, ServerTypeOK
  <1>6. ServerTypeOK'
    BY <1>1, <1>4, <1>5, NextEntryTypes DEF ServerTypeOK, tables, tcpVars, loop
  <1>7. LoopKnows'
    <2>1. CASE NextEntry
      <3>1. /\ pc' \in {"poll", "pass"}
            /\ pc' = "pass" => i' = i + 1
        BY <2>1, NextEntryTypes
      <3>2. i' \in {0, 1} => pc' # "pass"
        BY <1>1, <3>1 DEF Slot, ServerTypeOK
      <3>. QED
        BY <1>1, <3>1, <3>2 DEF LoopKnows, Running
    <2>2. CASE UNCHANGED loop /\ r_buffer_for_fd'[fd] # <<>>
      BY <1>1, <2>2 DEF LoopKnows, Running, loop, tables, tcpVars, Slot
    <2>. QED
      BY <1>1, <2>1, <2>2
  <1>. QED
    BY <1>2, <1>6, <1>7

LEMMA ServerLoopKeeps == ASSUME ServerInv, ServerLoop PROVE ServerInv'
  BY PollKeeps, PassOverKeeps, AddConKeeps, AddConFailsKeeps, ReceiveNewsKeeps,
     PeekEofKeeps, PeekAliveKeeps, SendNewsKeeps, NothingToSendKeeps,
     SendKillsServerKeeps, RecvBytesKeeps, RecvNothingKeeps,
     ParseIncompleteKeeps, HangUpsKeep, ObeyedKeeps
     DEF ServerLoop, VisitEntry, Parse

(***************************************************************************)
(* The subscribers and the senders: they reach the server's state only by  *)
(* the connection's channels and the UDP socket.                           *)
(***************************************************************************)
LEMMA ServerKeepsSubscribers ==
    ASSUME SubscriberTypeOK, UNCHANGED subscriberVars
    PROVE  SubscriberTypeOK'
  BY DEF SubscriberTypeOK, subscriberVars

\* What a step of a subscriber may change of the connections.
ChannelsOnly ==
    /\ UNCHANGED <<serverVars, sock>>
    /\ backlog' \in Seq(Proc) /\ (backlog # <<>> => backlog' # <<>>)
    /\ link' \in [Proc -> LinkState] /\ down' \in [Proc -> DownState]
    /\ toServer' \in [Proc -> Seq(Cell)] /\ toClient' \in [Proc -> Seq(News)]

LEMMA ChannelsOnlyKeeps == ASSUME ServerInv, ChannelsOnly PROVE ServerInv'
  <1>. USE DEF ChannelsOnly, ServerInv, serverVars, tables, ids, buffers, loop
  <1>1. TcpTypeOK'
    BY DEF TcpTypeOK, Open
  <1>2. ServerTypeOK'
    BY DEF ServerTypeOK
  <1>3. LoopKnows'
    BY DEF LoopKnows, Running, Slot
  <1>4. EmptiesSound' /\ DescriptorsWatchedOnce'
    BY DEF EmptiesSound, DescriptorsWatchedOnce, Slot, Open
  <1>. QED
    BY <1>1, <1>2, <1>3, <1>4

LEMMA ClientClosesChannels ==
    ASSUME ServerInv, NEW p \in Proc, TcpClientClose(p), UNCHANGED serverVars
    PROVE  ChannelsOnly
  BY DEF TcpClientClose, ChannelsOnly, ServerInv, TcpTypeOK, ServerTypeOK, LinkState

LEMMA LeaveKeepsTypes ==
    ASSUME SubscriberTypeOK, NEW p \in Proc, Leave(p)
    PROVE  SubscriberTypeOK'
  BY DEF Leave, SubscriberTypeOK

LEMMA StartKeeps ==
    ASSUME ServerInv, SubscriberTypeOK, NEW p \in Proc, Start(p)
    PROVE  ServerInv' /\ SubscriberTypeOK'
  <1>1. CASE status = "running"
    <2>1. TcpConnect(p) /\ UNCHANGED serverVars
      BY <1>1 DEF Start
    <2>2. Append(backlog, p) \in Seq(Proc) /\ Append(backlog, p) # <<>>
      BY AppendProperties, EmptySeq, LenProperties DEF ServerInv, TcpTypeOK
    <2>3. ChannelsOnly
      BY <2>1, <2>2 DEF TcpConnect, ChannelsOnly, ServerInv, TcpTypeOK, ServerTypeOK, LinkState
    <2>4. SubscriberTypeOK'
      BY <1>1 DEF Start, SubscriberTypeOK
    <2>. QED
      BY <2>3, <2>4, ChannelsOnlyKeeps
  <1>2. CASE status # "running"
    <2>1. Leave(p) /\ ChannelsOnly
      BY <1>2 DEF Start, tcpVars, ChannelsOnly, ServerInv, TcpTypeOK, ServerTypeOK
    <2>. QED
      BY <2>1, ChannelsOnlyKeeps, LeaveKeepsTypes
  <1>. QED
    BY <1>1, <1>2

LEMMA LeavingKeeps ==
    ASSUME ServerInv, SubscriberTypeOK, NEW p \in Proc, TypeExit(p) \/ ServerGone(p)
    PROVE  ServerInv' /\ SubscriberTypeOK'
  BY ClientClosesChannels, ChannelsOnlyKeeps, LeaveKeepsTypes DEF TypeExit, ServerGone

\* The messages of a subscriber are made of cells.
LEMMA MessageTypes ==
    ASSUME NEW p \in Proc, NEW topic \in Topic, NEW sf \in 0..3
    PROVE  /\ ConnectMsg(p) \in Seq(Cell)
           /\ SubMsg(topic, sf) \in Seq(Cell)
           /\ UnsubMsg(topic, sf) \in Seq(Cell)
  BY SubscriberAssumption
     DEF ConnectMsg, SubMsg, UnsubMsg, Cell, TCP_CONNECT, TCP_SUB, TCP_UNSUB, NUL

LEMMA CommandKeeps ==
    ASSUME ServerInv, SubscriberTypeOK, NEW p \in Proc,
           TypeSubscribe(p) \/ TypeUnsubscribe(p)
    PROVE  ServerInv' /\ SubscriberTypeOK'
  <1>1. PICK msg \in Seq(Cell) : TypeCommand(p, msg)
    BY MessageTypes, SubscriberAssumption, SMTT(30) DEF TypeSubscribe, TypeUnsubscribe
  <1>2. Append(buffer_w[p], msg) \in Seq(Seq(Cell))
    BY AppendProperties DEF SubscriberTypeOK
  <1>3. SubscriberTypeOK'
    BY <1>1, <1>2 DEF TypeCommand, SubscriberTypeOK
  <1>4. ChannelsOnly
    BY <1>1 DEF TypeCommand, ChannelsOnly, tcpVars, ServerInv, TcpTypeOK, ServerTypeOK
  <1>. QED
    BY <1>3, <1>4, ChannelsOnlyKeeps

LEMMA WriteTypes ==
    ASSUME ServerInv, SubscriberTypeOK, NEW p \in Proc, Write(p)
    PROVE  /\ toServer' \in [Proc -> Seq(Cell)]
           /\ down' \in [Proc -> DownState]
           /\ sent_id' \in [Proc -> BOOLEAN]
           /\ buffer_w' \in [Proc -> Seq(Seq(Cell))]
  <1>. DEFINE msg == IF ~sent_id[p] THEN ConnectMsg(p)
                     ELSE IF buffer_w[p] # <<>> THEN Head(buffer_w[p]) ELSE <<>>
  <1>1. buffer_w[p] # <<>> => /\ Head(buffer_w[p]) \in Seq(Cell)
                              /\ Tail(buffer_w[p]) \in Seq(Seq(Cell))
    BY DEF SubscriberTypeOK
  <1>2. ConnectMsg(p) \in Seq(Cell)
    BY SubscriberAssumption DEF ConnectMsg, Cell, TCP_CONNECT, NUL
  <1>3. msg \in Seq(Cell)
    BY <1>1, <1>2, EmptySeq
  <1>4. /\ toServer' \in {toServer, SentToServer(p, msg)}
        /\ down' \in {down, DownAfterSend(p)}
    BY DEF Write
  <1>5. sent_id' \in [Proc -> BOOLEAN] /\ buffer_w' \in [Proc -> Seq(Seq(Cell))]
    BY <1>1 DEF Write, SubscriberTypeOK
  <1>. HIDE DEF msg
  <1>6. toServer[p] \o msg \in Seq(Cell)
    BY <1>3, ConcatProperties DEF ServerInv, ServerTypeOK
  <1>7. SentToServer(p, msg) \in [Proc -> Seq(Cell)]
    BY <1>6 DEF SentToServer, ServerInv, ServerTypeOK
  <1>8. DownAfterSend(p) \in [Proc -> DownState]
    BY DEF DownAfterSend, ServerInv, TcpTypeOK, DownState
  <1>. QED
    BY <1>4, <1>5, <1>7, <1>8 DEF ServerInv, TcpTypeOK, ServerTypeOK

LEMMA ReadTypes ==
    ASSUME ServerInv, SubscriberTypeOK, NEW p \in Proc, Read(p)
    PROVE  /\ toClient' \in [Proc -> Seq(News)]
           /\ buffer_r' \in [Proc -> Seq(News)]
           /\ shown' \in [Proc -> Seq(News)]
  <1>. USE DEF ServerInv, ServerTypeOK, SubscriberTypeOK
  <1>1. CASE toClient[p] = <<>>
    BY <1>1 DEF Read
  <1>2. CASE toClient[p] # <<>>
    <2>1. PICK n \in 0 .. RecvNews :
            /\ n <= Len(toClient[p])
            /\ LET whole == buffer_r[p] \o SubSeq(toClient[p], 1, n)
               IN  IF whole = <<>>
                   THEN UNCHANGED <<buffer_r, shown>>
                   ELSE /\ shown' = [shown EXCEPT ![p] = Append(@, Head(whole))]
                        /\ buffer_r' = [buffer_r EXCEPT ![p] = Tail(whole)]
            /\ toClient' = [toClient EXCEPT ![p] = SubSeq(@, n + 1, Len(@))]
      BY <1>2 DEF Read
    <2>. DEFINE whole == buffer_r[p] \o SubSeq(toClient[p], 1, n)
    <2>2. n \in Nat /\ toClient[p] \in Seq(News) /\ Len(toClient[p]) \in Nat
      BY <2>1, LenProperties, SubscriberAssumption
    <2>3. /\ SubSeq(toClient[p], 1, n) \in Seq(News)
          /\ SubSeq(toClient[p], n + 1, Len(toClient[p])) \in Seq(News)
      <3>1. \A m \in 1 .. Len(toClient[p]) : toClient[p][m] \in News
        BY <2>2, ElementOfSeq
      <3>. HIDE DEF ServerInv, ServerTypeOK, SubscriberTypeOK
      <3>. QED
        BY <2>1, <2>2, <3>1, SubSeqProperties
    <2>4. whole \in Seq(News)
      BY <2>3, ConcatProperties
    <2>5. \/ UNCHANGED <<buffer_r, shown>>
          \/ /\ whole # <<>>
             /\ shown' = [shown EXCEPT ![p] = Append(@, Head(whole))]
             /\ buffer_r' = [buffer_r EXCEPT ![p] = Tail(whole)]
      BY <2>1
    <2>. HIDE DEF whole
    <2>6. whole # <<>> => Head(whole) \in News /\ Tail(whole) \in Seq(News)
      BY <2>4
    <2>7. whole # <<>> => Append(shown[p], Head(whole)) \in Seq(News)
      BY <2>6, AppendProperties
    <2>8. buffer_r' \in [Proc -> Seq(News)] /\ shown' \in [Proc -> Seq(News)]
      BY <2>5, <2>6, <2>7, ZenonT(60)
    <2>. QED
      BY <2>1, <2>3, <2>8
  <1>. QED
    BY <1>1, <1>2

LEMMA PassKeeps ==
    ASSUME ServerInv, SubscriberTypeOK, NEW p \in Proc, Pass(p)
    PROVE  ServerInv' /\ SubscriberTypeOK'
  <1>1. SubscriberTypeOK'
    BY WriteTypes, ReadTypes DEF Pass, SubscriberTypeOK
  <1>2. ChannelsOnly
    BY WriteTypes, ReadTypes DEF Pass, ChannelsOnly, ServerInv, TcpTypeOK
  <1>. QED
    BY <1>1, <1>2, ChannelsOnlyKeeps

LEMMA PublishKeeps ==
    ASSUME ServerInv, Publish, published \in 0 .. MaxNews
    PROVE  ServerInv' /\ published' \in 0 .. MaxNews
  <1>. USE DEF Publish, ServerInv, tables, ids, loop, tcpVars
  <1>1. published' \in 1 .. MaxNews
    BY BoundsAssumption
  <1>2. udp' \in Seq(News) /\ udp' # <<>>
    <2>1. PICK topic \in Topic : udp' = Append(udp, <<published + 1, topic>>)
      OBVIOUS
    <2>2. <<published + 1, topic>> \in News
      BY <1>1 DEF News
    <2>. QED
      <3>1. \A news \in News : Append(udp, news) \in Seq(News) /\ Append(udp, news) # <<>>
        BY AppendProperties, EmptySeq, LenProperties DEF ServerTypeOK
      <3>. QED
        BY <2>1, <2>2, <3>1
  <1>3. TcpTypeOK' /\ EmptiesSound' /\ DescriptorsWatchedOnce'
    BY DEF TcpTypeOK, EmptiesSound, DescriptorsWatchedOnce, Slot, Open
  <1>4. ServerTypeOK'
    BY <1>2 DEF ServerTypeOK
  <1>5. LoopKnows'
    BY <1>2 DEF LoopKnows, Running, Slot
  <1>. QED
    BY <1>1, <1>3, <1>4, <1>5

(***************************************************************************)
(* The invariants, for any number of subscribers, descriptors, ids, topics *)
(* and news, any size of the array and of a recv.                          *)
(***************************************************************************)
LEMMA NextKeepsIInv == IInv /\ [Next]_vars => IInv'
  <1>. SUFFICES ASSUME IInv, [Next]_vars PROVE IInv'
    OBVIOUS
  <1>0. ServerInv /\ SubscriberTypeOK /\ published \in 0 .. MaxNews
    BY DEF IInv, TypeOK
  <1>. USE <1>0
  <1>1. CASE ServerStep
    <2>1. ServerInv'
      BY <1>1, ServerLoopKeeps, ExitKeeps DEF ServerStep
    <2>. QED
      BY <1>1, <2>1, ServerKeepsSubscribers DEF ServerStep, IInv, TypeOK, ServerInv
  <1>2. ASSUME NEW p \in Proc, SubscriberStep(p) PROVE IInv'
    <2>1. ServerInv' /\ SubscriberTypeOK'
      BY <1>2, StartKeeps, LeavingKeeps, CommandKeeps, PassKeeps
         DEF SubscriberStep, Command, SubscriberLoop
    <2>. QED
      BY <1>2, <2>1 DEF SubscriberStep, IInv, TypeOK, ServerInv
  <1>3. CASE Publish
    BY <1>3, PublishKeeps, ServerKeepsSubscribers DEF Publish, IInv, TypeOK, ServerInv
  <1>4. CASE UNCHANGED vars
    <2>1. ChannelsOnly /\ UNCHANGED <<subscriberVars, published>>
      BY <1>4 DEF vars, tcpVars, ChannelsOnly, ServerInv, TcpTypeOK, ServerTypeOK
    <2>. QED
      BY <2>1, ChannelsOnlyKeeps, ServerKeepsSubscribers DEF IInv, TypeOK, ServerInv
  <1>. QED
    BY <1>1, <1>2, <1>3, <1>4 DEF Next

LEMMA Inductive == Spec => []IInv
  BY InitIInv, NextKeepsIInv, PTL DEF Spec

\* Every variable keeps its type in every behaviour: the maps never hold a
\* descriptor or an id from outside, the queues only news.
THEOREM Typed == Spec => []TypeOK
  <1>1. IInv => TypeOK
    BY DEF IInv
  <1>. QED
    BY <1>1, Inductive, PTL

\* A descriptor of the server is watched by exactly one entry of the array
\* that poll is given, and an entry never holds a closed descriptor.
THEOREM DescriptorsAreWatchedOnce == Spec => []DescriptorsWatchedOnce
  <1>1. IInv => DescriptorsWatchedOnce
    BY DEF IInv, ServerInv
  <1>. QED
    BY <1>1, Inductive, PTL

\* The queue of empty places never offers a place twice, nor one in use.
THEOREM EmptiesAreSound == Spec => []EmptiesSound
  <1>1. IInv => EmptiesSound
    BY DEF IInv, ServerInv
  <1>. QED
    BY <1>1, Inductive, PTL

\* What the loop relies on holds where it stands: the visited entry is alive,
\* the parsed buffer is not empty, what poll announced is still there.
THEOREM LoopRelies == Spec => []LoopKnows
  <1>1. IInv => LoopKnows
    BY DEF IInv, ServerInv
  <1>. QED
    BY <1>1, Inductive, PTL
=============================================================================
