--------------------------------- MODULE Tcp ---------------------------------
(***************************************************************************)
(* The loopback TCP connections between the server and its subscribers, as *)
(* the code of tema2 uses them: listen/accept with a backlog, descriptors  *)
(* handed out lowest first, send, recv, recv with MSG_PEEK, close.  The    *)
(* kernel is not part of the repository; this module is external.          *)
(*                                                                         *)
(* A connection belongs to one subscriber process, so it is named by it.   *)
(* Data sent is received at once and in order.  The buffers of a direction *)
(* hold a bounded number of news or of cells of messages.                  *)
(***************************************************************************)
EXTENDS Integers, Sequences

CONSTANTS
    Proc,   \* subscriber processes; each runs once, a restart is another one
    Fd,     \* descriptors the kernel can hand to the server's accept
    NewsRoom,   \* news the buffers towards a subscriber hold
    CellRoom    \* cells the buffers towards the server hold

ASSUME FdAssumption == Fd \subseteq Nat
ASSUME RoomAssumption == NewsRoom \in Nat \ {0} /\ CellRoom \in Nat

VARIABLES
    backlog,    \* connections established and not accepted yet
    sock,       \* the server's open descriptors: descriptor -> connection
    link,       \* what the server's end of a connection knows of the other
    down,       \* what the subscriber's end knows of the server's
    toServer,   \* bytes received for the server and not read
    toClient    \* news received for the subscriber and not read

tcpVars == <<backlog, sock, link, down, toServer, toClient>>

NoFd == -1      \* the -1 of a pollfd that poll ignores

\* std::map: a function on the keys it has.
Has(map, key) == key \in DOMAIN map
Erase(map, key) == [k \in DOMAIN map \ {key} |-> map[k]]
Put(map, key, value) ==
    [k \in DOMAIN map \cup {key} |-> IF k = key THEN value ELSE map[k]]

\* "open"; "fin": the peer closed; "reset": the peer closed with news unread,
\* an error is pending; "dead": sending raises SIGPIPE; "none": no connection.
LinkState == {"none", "open", "fin", "reset", "dead"}

\* "up"; "fin": the server closed; "rst": it closed with bytes unread, or the
\* subscriber sent to it after it closed: POLLERR.
DownState == {"up", "fin", "rst"}

Open == DOMAIN sock
FreeFd == Fd \ Open
IsLowestFree(f) == f \in FreeFd /\ \A g \in FreeFd : f <= g

TcpInit ==
    /\ backlog = <<>>
    /\ sock = <<>>
    /\ link = [p \in Proc |-> "none"]
    /\ down = [p \in Proc |-> "up"]
    /\ toServer = [p \in Proc |-> <<>>]
    /\ toClient = [p \in Proc |-> <<>>]

(***************************************************************************)
(* The subscriber's calls.                                                 *)
(***************************************************************************)
TcpConnect(p) ==
    /\ backlog' = Append(backlog, p)
    /\ link' = [link EXCEPT ![p] = "open"]
    /\ UNCHANGED <<sock, down, toServer, toClient>>

\* Closing with news unread resets the connection.  The server can still
\* read what was sent before, the unread news are gone.
TcpClientClose(p) ==
    /\ link' = [link EXCEPT ![p] =
                    IF @ # "open" THEN @
                    ELSE IF toClient[p] = <<>> THEN "fin" ELSE "reset"]
    /\ toClient' = [toClient EXCEPT ![p] = <<>>]
    /\ UNCHANGED <<backlog, sock, down, toServer>>

\* poll sets POLLOUT: n cells fit, or the connection is broken.
ClientWritable(p, n) == Len(toServer[p]) + n <= CellRoom \/ down[p] # "up"

\* The two channels after the subscriber sent the cells msg.
SentToServer(p, msg) ==
    IF down[p] = "up" THEN [toServer EXCEPT ![p] = @ \o msg] ELSE toServer
DownAfterSend(p) ==
    IF down[p] = "fin" THEN [down EXCEPT ![p] = "rst"] ELSE down

(***************************************************************************)
(* The server's calls.                                                     *)
(***************************************************************************)
\* accept: the oldest connection of the backlog, the lowest free descriptor.
TcpAccept(f) ==
    /\ IsLowestFree(f)
    /\ backlog' = Tail(backlog)
    /\ sock' = Put(sock, f, Head(backlog))
    /\ UNCHANGED <<link, down, toServer, toClient>>

\* recv(fd, &ch, 1, MSG_DONTWAIT | MSG_PEEK) returns 0.
PeekIsEof(p) == toServer[p] = <<>> /\ link[p] \in {"fin", "dead"}
\* It returns -1 and takes the pending error with it.
LinkAfterPeek(p) ==
    IF toServer[p] = <<>> /\ link[p] = "reset"
    THEN [link EXCEPT ![p] = "dead"] ELSE link

\* send on a connection that has died with its error already taken.
SendRaisesSigpipe(p) == link[p] = "dead"
TcpServerSend(p, news) ==
    /\ toClient' = IF link[p] = "open"
                   THEN [toClient EXCEPT ![p] = Append(@, news)] ELSE toClient
    /\ link' = [link EXCEPT ![p] = IF @ = "open" THEN @ ELSE "dead"]
    /\ UNCHANGED <<backlog, sock, down, toServer>>

\* poll sets POLLIN: bytes, an end of file or an error to be read.
Readable(p) == toServer[p] # <<>> \/ link[p] # "open"

\* poll sets POLLOUT: a whole news fits, or the connection is broken.
Writable(p) == Len(toClient[p]) < NewsRoom \/ link[p] # "open"

TcpServerRecv(p, n) ==
    /\ toServer' = [toServer EXCEPT ![p] = SubSeq(@, n + 1, Len(@))]
    /\ UNCHANGED <<backlog, sock, link, down, toClient>>

\* close of the descriptors fs; the close of -1 fails and changes nothing.
Closed(ps) ==
    /\ link' = [p \in Proc |-> IF p \in ps THEN "none" ELSE link[p]]
    /\ down' = [p \in Proc |-> IF p \notin ps THEN down[p]
                               ELSE IF toServer[p] = <<>> THEN "fin" ELSE "rst"]
    /\ toServer' = [p \in Proc |-> IF p \in ps THEN <<>> ELSE toServer[p]]
    /\ UNCHANGED toClient
TcpServerClose(fs) ==
    /\ sock' = [f \in Open \ fs |-> sock[f]]
    /\ Closed({sock[f] : f \in fs \cap Open})
    /\ UNCHANGED backlog

\* The server's process ends: the kernel closes every descriptor it has and
\* resets what waits in the backlog.
TcpServerEnds ==
    /\ sock' = <<>>
    /\ backlog' = <<>>
    /\ link' = [p \in Proc |-> "none"]
    /\ down' = [p \in Proc |->
                  IF link[p] = "none" THEN down[p]
                  ELSE IF toServer[p] # <<>> \/ \E k \in DOMAIN backlog : backlog[k] = p
                  THEN "rst" ELSE "fin"]
    /\ toServer' = [p \in Proc |-> <<>>]
    /\ UNCHANGED toClient

TcpTypeOK ==
    /\ backlog \in Seq(Proc)
    /\ Open \subseteq Fd /\ sock \in [Open -> Proc]
    /\ link \in [Proc -> LinkState]
    /\ down \in [Proc -> DownState]
=============================================================================
