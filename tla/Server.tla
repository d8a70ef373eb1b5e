-------------------------------- MODULE Server --------------------------------
(***************************************************************************)
(* tema2/server.cpp: the single-threaded server between the UDP news and   *)
(* the TCP subscribers.                                                    *)
(*                                                                         *)
(* Its loop is a program counter: at "poll" it looks at stdin and polls, at *)
(* "pass" it looks at entry i of fds, at "send" and "recv" it is in the     *)
(* middle of the visit of a subscriber's entry, at "parse" it runs         *)
(* parse_tcp_buffer(fd, i), one step per message (per recursive call).     *)
(*                                                                         *)
(* A message is a few cells instead of 12 or 53 bytes: its type, then an id *)
(* and its NUL, or a topic and sf.  Cells keep what the bytes can do: be    *)
(* split by recv, be left in a buffer, be read as something they are not.  *)
(***************************************************************************)
EXTENDS Tcp

CONSTANTS
    Name,               \* what a subscriber is given as its id
    Topic,
    MaxNews,            \* bound: datagrams sent to the UDP port
    INITIAL_CON_COUNT,  \* entries of fds allocated at the start
    BUFFER_SERVER,      \* most cells one recv reads
    Cropped,            \* whether recv may find part of what was sent
    ReallocMayFail      \* whether doubling fds can fail

TCP_CONNECT == 1
TCP_SUB == 2
TCP_UNSUB == 3
NUL == 0
MsgCells == 3           \* cells of every message, its type included

ASSUME NameAssumption == (Name \cup Topic) \cap (0..3) = {}
ASSUME BoundsAssumption ==
    /\ MaxNews \in Nat
    /\ INITIAL_CON_COUNT \in Nat \ {0, 1}
    /\ BUFFER_SERVER \in Nat \ {0}
    /\ {Cropped, ReallocMayFail} \subseteq BOOLEAN

Cell == (0..3) \cup Name \cup Topic
Id == Cell \X Cell      \* any two cells may come to be read as an id
News == (1..MaxNews) \X Topic

VARIABLES
    fds,                \* the entries of the subscribers, 2 .. nfds-1
    nfds, current_size,
    empties,
    id_to_fd, fd_to_id,
    r_buffer_for_fd,
    w_buffer_for_id,
    topic_subscribers,  \* [sf] -> pairs of a topic and an id
    udp,                \* datagrams waiting in the UDP socket
    status,             \* "running", "exited", "failed", "killed" by SIGPIPE
    pc, i, prevv,       \* the loop of main
    pollin, pollout,    \* the entries with POLLIN, POLLOUT in revents
    fd                  \* the argument of parse_tcp_buffer

tables == <<fds, nfds, current_size, empties>>
ids == <<id_to_fd, fd_to_id>>
buffers == <<r_buffer_for_fd, w_buffer_for_id, topic_subscribers, udp>>
loop == <<pc, i, prevv, pollin, pollout, fd>>
serverVars == <<tables, ids, buffers, status, loop>>

Slot == DOMAIN fds

ServerInit ==
    /\ fds = <<>>
    /\ nfds = 2
    /\ current_size = INITIAL_CON_COUNT
    /\ empties = <<>>
    /\ id_to_fd = <<>>
    /\ fd_to_id = <<>>
    /\ r_buffer_for_fd = [f \in Fd \cup {NoFd} |-> <<>>]
    /\ w_buffer_for_id = <<>>
    /\ topic_subscribers = [sf \in 0..1 |-> {}]
    /\ udp = <<>>
    /\ status = "running"
    /\ pc = "poll" /\ i = 0 /\ prevv = 0
    /\ pollin = {} /\ pollout = {} /\ fd = NoFd

(***************************************************************************)
(* The loop.                                                               *)
(***************************************************************************)
ForgetPoll(label) ==
    pc' = label /\ i' = 0 /\ prevv' = 0 /\ pollin' = {} /\ pollout' = {}

\* The for loop goes to its next entry, or back to the while.
LastEntryShort == i + 2 >= prevv    \* mistake: an entry is left out
LastEntry == i + 1 >= prevv

NextEntry ==
    /\ fd' = NoFd
    /\ IF LastEntry
       THEN ForgetPoll("poll")
       ELSE pc' = "pass" /\ i' = i + 1 /\ UNCHANGED <<prevv, pollin, pollout>>

GoTo(label) ==
    /\ pc' = label
    /\ UNCHANGED <<i, prevv, pollin, pollout>>

Stop(how) ==
    /\ status' = how
    /\ TcpServerEnds
    /\ ForgetPoll("end") /\ fd' = NoFd
    /\ UNCHANGED <<tables, ids, buffers>>

\* getline finds "exit": every socket is closed and main returns.
Exit ==
    /\ pc = "poll"
    /\ Stop("exited")

\* poll never waits: the UDP socket is always ready for POLLOUT.
Poll ==
    /\ pc = "poll"
    /\ pc' = "pass" /\ i' = 0 /\ prevv' = nfds
    /\ pollin' = {k \in {0} : backlog # <<>>} \cup {k \in {1} : udp # <<>>}
                 \cup {k \in Slot : fds[k] # NoFd /\ Readable(sock[fds[k]])}
    /\ pollout' = {k \in Slot : fds[k] # NoFd /\ Writable(sock[fds[k]])}
    /\ UNCHANGED <<tables, ids, buffers, status, fd, tcpVars>>

\* Listening and UDP entries without POLLIN, and entries whose descriptor is
\* -1 (recv fails, revents is 0), are passed over.
PassOver ==
    /\ pc = "pass"
    /\ \/ i \in {0, 1} /\ i \notin pollin
       \/ i \in Slot /\ fds[i] = NoFd
    /\ NextEntry
    /\ UNCHANGED <<tables, ids, buffers, status, tcpVars>>

(***************************************************************************)
(* Entry 0: add_con.  An entry of a closed connection is used again before *)
(* the array grows.                                                        *)
(***************************************************************************)
Full == nfds = current_size /\ empties = <<>>

EmptiesNotPopped == empties         \* mistake: front() without pop()
EmptiesAfterFront == Tail(empties)

AddCon ==
    /\ pc = "pass" /\ i = 0 /\ 0 \in pollin
    /\ \E f \in Fd :
         /\ TcpAccept(f)
         /\ IF empties # <<>>
            THEN /\ fds' = [fds EXCEPT ![Head(empties)] = f]
                 /\ empties' = EmptiesAfterFront
                 /\ UNCHANGED nfds
            ELSE /\ fds' = Put(fds, nfds, f)
                 /\ nfds' = nfds + 1
                 /\ UNCHANGED empties
    /\ current_size' = IF Full THEN 2 * current_size ELSE current_size
    /\ NextEntry
    /\ UNCHANGED <<ids, buffers, status>>

\* accept has no descriptor left, or realloc fails: main returns -1.
AddConFails ==
    /\ pc = "pass" /\ i = 0 /\ 0 \in pollin
    /\ FreeFd = {} \/ (Full /\ ReallocMayFail)
    /\ Stop("failed")

(***************************************************************************)
(* Entry 1: a datagram goes to the queue of every id subscribed with       *)
(* sf = 1, and of every connected id subscribed with sf = 0.               *)
(***************************************************************************)
Queue(id) == IF Has(w_buffer_for_id, id) THEN w_buffer_for_id[id] ELSE <<>>

\* mistake: for sf = 0 the two tests are alternatives
SubscribedOrOnline(sf, topic) ==
    {id \in Id : <<topic, id>> \in topic_subscribers[sf]
                 \/ (sf = 0 /\ Has(id_to_fd, id))}
Subscribed(sf, topic) ==
    {id \in Id : <<topic, id>> \in topic_subscribers[sf]
                 /\ (sf = 1 \/ Has(id_to_fd, id))}

ReceiveNews ==
    /\ pc = "pass" /\ i = 1 /\ 1 \in pollin
    /\ LET news == Head(udp)
           to0 == Subscribed(0, news[2])
           to1 == Subscribed(1, news[2])
           copies(id) == (IF id \in to0 THEN <<news>> ELSE <<>>)
                         \o (IF id \in to1 THEN <<news>> ELSE <<>>)
       IN  w_buffer_for_id' = [id \in DOMAIN w_buffer_for_id \cup to0 \cup to1
                                 |-> Queue(id) \o copies(id)]
    /\ udp' = Tail(udp)
    /\ NextEntry
    /\ UNCHANGED <<tables, ids, r_buffer_for_fd, topic_subscribers, status,
                   tcpVars>>

(***************************************************************************)
(* disconnect(s, j, delete_id).  The entry is set to -1 before its number  *)
(* is used for the read buffer: it is the buffer of -1 that is cleared.    *)
(* read is r_buffer_for_fd as the caller has left it.                      *)
(***************************************************************************)
\* mistake: the entry is already -1 when it is used to erase
ForgetIdHalf(f) ==
    id_to_fd' = Erase(id_to_fd, fd_to_id[f]) /\ fd_to_id' = Erase(fd_to_id, NoFd)
ForgetId(f) ==
    id_to_fd' = Erase(id_to_fd, fd_to_id[f]) /\ fd_to_id' = Erase(fd_to_id, f)

FreedNegated(j) == [fds EXCEPT ![j] = -@]   \* mistake: only the sign changes
FreedLater(j) == fds                        \* mistake: the number stays
Freed(j) == [fds EXCEPT ![j] = NoFd]

Disconnect(j, delete_id, read) ==
    /\ IF delete_id /\ Has(fd_to_id, fds[j]) THEN ForgetId(fds[j]) ELSE UNCHANGED ids
    /\ TcpServerClose({fds[j]})
    /\ fds' = Freed(j)
    /\ r_buffer_for_fd' = [read EXCEPT ![NoFd] = <<>>]

(***************************************************************************)
(* The visit of a subscriber's entry: peek, send one news, read, parse.    *)
(***************************************************************************)
Connection == sock[fds[i]]
Visiting == i \in Slot /\ fds[i] # NoFd

PeekEof ==
    /\ pc = "pass" /\ Visiting
    /\ PeekIsEof(Connection)
    /\ empties' = Append(empties, i)
    /\ Disconnect(i, Has(fd_to_id, fds[i]), r_buffer_for_fd)
    /\ NextEntry
    /\ UNCHANGED <<nfds, current_size, w_buffer_for_id, topic_subscribers,
                   udp, status>>

PeekAlive ==
    /\ pc = "pass" /\ Visiting
    /\ ~PeekIsEof(Connection)
    /\ link' = LinkAfterPeek(Connection)
    /\ GoTo("send")
    /\ UNCHANGED <<tables, ids, buffers, status, fd,
                   backlog, sock, down, toServer, toClient>>

\* mistake: POLLOUT is not looked at
HasNewsToSendAlways ==
    /\ Has(fd_to_id, fds[i])
    /\ Queue(fd_to_id[fds[i]]) # <<>>
\* mistake: news only for a subscriber that has just sent something
HasNewsToSendIfReadable ==
    /\ i \in pollin
    /\ Has(fd_to_id, fds[i])
    /\ Queue(fd_to_id[fds[i]]) # <<>>

HasNewsToSend ==
    /\ i \in pollout
    /\ Has(fd_to_id, fds[i])
    /\ Queue(fd_to_id[fds[i]]) # <<>>

PoppedCopyOnly(id) == w_buffer_for_id   \* mistake: the copy is not stored back
Popped(id) == [w_buffer_for_id EXCEPT ![id] = Tail(@)]

\* The news leaves the queue whatever send returns.
SendNews ==
    /\ pc = "send"
    /\ HasNewsToSend
    /\ ~SendRaisesSigpipe(Connection)
    /\ LET id == fd_to_id[fds[i]]
       IN  /\ w_buffer_for_id' = Popped(id)
           /\ TcpServerSend(Connection, Head(w_buffer_for_id[id]))
    /\ GoTo("recv")
    /\ UNCHANGED <<tables, ids, r_buffer_for_fd, topic_subscribers, udp,
                   status, fd>>

SendKillsServer ==
    /\ pc = "send"
    /\ HasNewsToSend
    /\ SendRaisesSigpipe(Connection)
    /\ Stop("killed")

NothingToSend ==
    /\ pc = "send"
    /\ ~HasNewsToSend
    /\ GoTo("recv")
    /\ UNCHANGED <<tables, ids, buffers, status, fd, tcpVars>>

RecvBytes ==
    /\ pc = "recv"
    /\ i \in pollin
    /\ \E n \in 1 .. BUFFER_SERVER :
         /\ n <= Len(toServer[Connection])
         /\ Cropped \/ n = BUFFER_SERVER \/ n = Len(toServer[Connection])
         /\ TcpServerRecv(Connection, n)
         /\ r_buffer_for_fd' = [r_buffer_for_fd EXCEPT ![fds[i]] =
                                  @ \o SubSeq(toServer[Connection], 1, n)]
    /\ fd' = fds[i]
    /\ GoTo("parse")
    /\ UNCHANGED <<tables, ids, w_buffer_for_id, topic_subscribers, udp, status>>

\* No POLLIN, or recv returns an end of file or an error.
RecvNothing ==
    /\ pc = "recv"
    /\ i \notin pollin \/ toServer[Connection] = <<>>
    /\ NextEntry
    /\ UNCHANGED <<tables, ids, buffers, status, tcpVars>>

(***************************************************************************)
(* parse_tcp_buffer(fd, i): the buffer it reads is the one of fd, also     *)
(* after the connection was closed by the previous message.                *)
(***************************************************************************)
Buffer == r_buffer_for_fd[fd]
Type == Head(Buffer)
IsWhole == Len(Buffer) >= MsgCells
Consumed(n) ==
    [r_buffer_for_fd EXCEPT ![fd] = SubSeq(@, n + 1, Len(@))]
Known == Has(fd_to_id, fd)

ParseOnAlways(read) == UNCHANGED loop   \* mistake: the buffer may be empty
\* The recursive call when the buffer is not empty.
ParseOn(read) ==
    IF read[fd] # <<>> THEN UNCHANGED loop ELSE NextEntry

\* The bytes read are placed back.
ParseIncomplete ==
    /\ pc = "parse"
    /\ Type \in {TCP_CONNECT, TCP_SUB, TCP_UNSUB}
    /\ ~IsWhole
    /\ NextEntry
    /\ UNCHANGED <<tables, ids, buffers, status, tcpVars>>

MsgId == <<Buffer[2], Buffer[3]>>
NeverInUse == FALSE         \* mistake: an id in use is taken over
InUse == Has(id_to_fd, MsgId)

ParseConnect ==
    /\ pc = "parse" /\ Type = TCP_CONNECT /\ IsWhole
    /\ ~InUse
    /\ id_to_fd' = Put(id_to_fd, MsgId, fd)
    /\ fd_to_id' = Put(fd_to_id, fd, MsgId)
    /\ r_buffer_for_fd' = Consumed(MsgCells)
    /\ ParseOn(Consumed(MsgCells))
    /\ UNCHANGED <<tables, w_buffer_for_id, topic_subscribers, udp, status,
                   tcpVars>>

\* "Client %s already connected."
ParseConnectTaken ==
    /\ pc = "parse" /\ Type = TCP_CONNECT /\ IsWhole
    /\ InUse
    /\ Disconnect(i, FALSE, Consumed(MsgCells))
    /\ ParseOn(Consumed(MsgCells))
    /\ UNCHANGED <<nfds, current_size, empties, w_buffer_for_id,
                   topic_subscribers, udp, status>>

\* Before TCP_CONNECT: disconnect and return, the type already consumed.
ParseTooEarly ==
    /\ pc = "parse" /\ Type \in {TCP_SUB, TCP_UNSUB} /\ IsWhole
    /\ ~Known
    /\ Disconnect(i, FALSE, Consumed(1))
    /\ NextEntry
    /\ UNCHANGED <<nfds, current_size, empties, w_buffer_for_id,
                   topic_subscribers, udp, status>>

Subscription == <<Buffer[2], fd_to_id[fd]>>

Moved(sub, sf) ==
    [k \in 0..1 |-> IF k = sf THEN topic_subscribers[k] \cup {sub}
                              ELSE topic_subscribers[k] \ {sub}]

\* sf is a bool in C.
ParseSub ==
    /\ pc = "parse" /\ Type = TCP_SUB /\ IsWhole
    /\ Known
    /\ topic_subscribers' = Moved(Subscription, IF Buffer[3] = 0 THEN 0 ELSE 1)
    /\ r_buffer_for_fd' = Consumed(MsgCells)
    /\ ParseOn(Consumed(MsgCells))
    /\ UNCHANGED <<tables, ids, w_buffer_for_id, udp, status, tcpVars>>

ParseUnsub ==
    /\ pc = "parse" /\ Type = TCP_UNSUB /\ IsWhole
    /\ Known
    /\ topic_subscribers' = [sf \in 0..1 |->
           topic_subscribers[sf] \ {Subscription}]
    /\ r_buffer_for_fd' = Consumed(MsgCells)
    /\ ParseOn(Consumed(MsgCells))
    /\ UNCHANGED <<tables, ids, w_buffer_for_id, udp, status, tcpVars>>

\* Any other type: the connection is closed, one byte is consumed.
ParseUnknownType ==
    /\ pc = "parse"
    /\ Type \notin {TCP_CONNECT, TCP_SUB, TCP_UNSUB}
    /\ Disconnect(i, Known, Consumed(1))
    /\ ParseOn(Consumed(1))
    /\ UNCHANGED <<nfds, current_size, empties, w_buffer_for_id,
                   topic_subscribers, udp, status>>

Parse ==
    \/ ParseIncomplete \/ ParseConnect \/ ParseConnectTaken \/ ParseTooEarly
    \/ ParseSub \/ ParseUnsub \/ ParseUnknownType

VisitEntry ==
    \/ PeekEof \/ PeekAlive
    \/ SendNews \/ NothingToSend \/ SendKillsServer
    \/ RecvBytes \/ RecvNothing

\* A step of the loop of main other than leaving it by "exit".
ServerLoop ==
    \/ Poll \/ PassOver \/ AddCon \/ AddConFails \/ ReceiveNews
    \/ VisitEntry \/ Parse

ServerTypeOK ==
    /\ nfds \in Nat \ {0, 1} /\ current_size \in Nat
    /\ fds \in [2 .. (nfds - 1) -> Fd \cup {NoFd}]
    /\ empties \in Seq(Nat)
    /\ DOMAIN id_to_fd \subseteq Id /\ id_to_fd \in [DOMAIN id_to_fd -> Fd]
    /\ DOMAIN fd_to_id \subseteq Fd /\ fd_to_id \in [DOMAIN fd_to_id -> Id]
    /\ r_buffer_for_fd \in [Fd \cup {NoFd} -> Seq(Cell)]
    /\ DOMAIN w_buffer_for_id \subseteq Id
    /\ w_buffer_for_id \in [DOMAIN w_buffer_for_id -> Seq(News)]
    /\ topic_subscribers \in [0..1 -> SUBSET (Cell \X Id)]
    /\ udp \in Seq(News)
    /\ status \in {"running", "exited", "failed", "killed"}
    /\ pc \in {"poll", "pass", "send", "recv", "parse", "end"}
    /\ i \in Nat /\ prevv \in Nat
    /\ pollin \subseteq Nat /\ pollout \subseteq Nat
    /\ fd \in Fd \cup {NoFd}
    /\ toServer \in [Proc -> Seq(Cell)]
    /\ toClient \in [Proc -> Seq(News)]
=============================================================================
