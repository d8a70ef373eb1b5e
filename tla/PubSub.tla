-------------------------------- MODULE PubSub --------------------------------
(***************************************************************************)
(* tema2: the server, its subscribers, the TCP connections between them    *)
(* and the senders of news.                                                *)
(***************************************************************************)
EXTENDS Subscriber

VARIABLE published      \* number of datagrams sent so far

vars == <<tcpVars, serverVars, subscriberVars, published>>

Init ==
    /\ TcpInit
    /\ ServerInit
    /\ SubscriberInit
    /\ published = 0

\* A sender's datagram reaches the UDP socket.  One the kernel drops is one
\* that was not sent.
Publish ==
    /\ status = "running"
    /\ published < MaxNews
    /\ published' = published + 1
    /\ \E topic \in Topic : udp' = Append(udp, <<published + 1, topic>>)
    /\ UNCHANGED <<tcpVars, subscriberVars, tables, ids, r_buffer_for_fd,
                   w_buffer_for_id, topic_subscribers, status, loop>>

ServerStep == (ServerLoop \/ Exit) /\ UNCHANGED <<subscriberVars, published>>

SubscriberStep(p) ==
    (Start(p) \/ Command(p) \/ SubscriberLoop(p)) /\ UNCHANGED published

Next ==
    \/ ServerStep
    \/ \E p \in Proc : SubscriberStep(p)
    \/ Publish

Spec == Init /\ [][Next]_vars

\* Both loops run whatever is typed or sent: getline is non-blocking and poll
\* returns at once or after POLL_TIMEOUT.
LoopsRun ==
    /\ WF_vars(ServerLoop /\ UNCHANGED <<subscriberVars, published>>)
    /\ \A p \in Proc : WF_vars(SubscriberLoop(p) /\ UNCHANGED published)

FairSpec == Spec /\ LoopsRun

(***************************************************************************)
(* Types.                                                                  *)
(***************************************************************************)
\* Type invariant of the whole system.
TypeOK ==
    /\ TcpTypeOK
    /\ ServerTypeOK
    /\ SubscriberTypeOK
    /\ published \in 0 .. MaxNews

(***************************************************************************)
(* Safety.                                                                 *)
(***************************************************************************)
\* An id is owned by one connection at most: the descriptor an id of fd_to_id
\* belongs to is the one id_to_fd gives for it (server.cpp 178-187, 131-136).
OneConnectionPerId ==
    \A f \in DOMAIN fd_to_id :
        /\ Has(id_to_fd, fd_to_id[f])
        /\ id_to_fd[fd_to_id[f]] = f

\* The queue of empty places never offers an entry twice nor one in use:
\* add_con would overwrite a live connection (server.cpp 112-116, 357).
EmptiesSound ==
    /\ \A a, b \in DOMAIN empties : empties[a] = empties[b] => a = b
    /\ \A a \in DOMAIN empties : empties[a] \in Slot /\ fds[empties[a]] = NoFd

\* Every open descriptor is watched by exactly one entry of fds, and an entry
\* holds no descriptor that was closed: a closed number would be taken over
\* by the next connection (server.cpp 90-140).
DescriptorsWatchedOnce ==
    status = "running" =>
        /\ \A j, k \in Slot : fds[j] # NoFd /\ fds[j] = fds[k] => j = k
        /\ {fds[j] : j \in Slot} \ {NoFd} = Open

\* Where the loop stands it may rely on what it saw before: the entry it is
\* visiting is alive, the buffer it parses is not empty, the connection and
\* the datagram that poll announced are still there (server.cpp 311-402).
Running == status = "running"

LoopKnows ==
    /\ pc \in {"send", "recv", "parse"} => i \in Slot
    /\ pc \in {"send", "recv"} => fds[i] # NoFd
    /\ pc = "parse" => fd \in Fd /\ r_buffer_for_fd[fd] # <<>>
    /\ pc = "pass" /\ i = 0 /\ 0 \in pollin => backlog # <<>>
    /\ pc = "pass" /\ i \in {0, 1} /\ 1 \in pollin => udp # <<>>
    /\ pc # "end" => Running

\* The only thread of the server never waits in send: what poll saw of a
\* subscriber's buffer still fits one news when its entry is visited, whatever
\* the loop and the subscribers have done in between (server.cpp 304, 367-381).
SendNeverBlocks ==
    pc = "send" /\ HasNewsToSend /\ link[Connection] = "open"
        => Len(toClient[Connection]) < NewsRoom

\* A connected id has its queue delivered in order and without repetition,
\* over all the connections the id has had: what its processes have shown or
\* hold, then what is in the socket, then what is queued (322-349, 367-383).
\* It is not so of a connection that was given another one's id, by the bytes
\* that a refused one left in the buffer of its descriptor (NewsProofs).
Stream(p) == shown[p] \o buffer_r[p] \o toClient[p]
Increasing(news) ==
    \A a, b \in DOMAIN news : a < b => news[a][1] < news[b][1]
Numbers(news) == {news[a][1] : a \in DOMAIN news}
OwnId(p) == <<nameOf[p], NUL>>

NewsInOrder ==
    \A p \in Proc :
        /\ Increasing(Stream(p) \o Queue(OwnId(p)))
        /\ \A q \in Proc \ {p} : nameOf[q] = nameOf[p] =>
             /\ Numbers(Stream(p)) \cap Numbers(Stream(q)) = {}
             /\ Increasing(Stream(q) \o Queue(OwnId(p)))

(***************************************************************************)
(* The server keeps the promise of StoreForward.                           *)
(***************************************************************************)
SF == INSTANCE StoreForward WITH
        Topic <- Cell,
        online <- DOMAIN id_to_fd,
        forward <- topic_subscribers[0],
        store <- topic_subscribers[1],
        queue <- [id \in Id |-> Queue(id)],
        taken <- published - Len(udp)

\* Refinement: through accepts, closes, refusals, reused descriptors and split
\* messages, the maps of the server change only as the abstract store and
\* forward service allows (server.cpp 129-272, 322-383).
KeepsPromise == SF!Spec

(***************************************************************************)
(* Liveness, under FairSpec.                                               *)
(***************************************************************************)
Owns(p) ==
    \E f \in Open : sock[f] = p /\ Has(fd_to_id, f) /\ fd_to_id[f] = OwnId(p)
Serving(p) == Running /\ cstatus[p] = "up" /\ down[p] = "up"

\* A connection is not left in the backlog or half parsed for ever: the
\* subscriber gets its id or is hung up on (server.cpp 315-321, 384-402).
ConnectAnswered ==
    \A p \in Proc : Serving(p) ~> (Owns(p) \/ ~Serving(p))

\* News queued for an id that is connected is sent on its connection; one
\* entry that is busy or dead does not keep the others from their turn.
QueueDrains ==
    \A p \in Proc, n \in 1 .. MaxNews :
        (Owns(p) /\ Serving(p) /\ n \in Numbers(Queue(OwnId(p))))
            ~> (n \in Numbers(Stream(p)) \/ ~Serving(p))

\* When the server is gone every subscriber leaves as well, whatever it still
\* has to read or to send (subscriber.cpp 238-246).
StopReachesSubscribers ==
    ~Running ~> \A p \in Proc : cstatus[p] # "up"

(***************************************************************************)
(* What the documentation and the tests say, and the code does not do.     *)
(***************************************************************************)
\* readme.txt 29: the server "runs until exit": no subscriber can end it.
RunsUntilExit == status # "killed"

\* readme.txt 160: the server closes a connection for an unknown message or
\* one before TCP_CONNECT; subscribers send neither, so while the server runs
\* it hangs up on nobody whose id is free.
HangUpHasCause ==
    [][\A p \in Proc :
         /\ cstatus[p] = "up" /\ down[p] = "up" /\ down'[p] # "up"
         /\ status' = "running"
         => Has(id_to_fd, OwnId(p))]_vars

\* test.py 570: a subscriber "receives many messages in quick succession":
\* what is sent to a subscriber that stays is shown.
SentNewsShown ==
    \A p \in Proc, n \in 1 .. MaxNews :
        (Serving(p) /\ n \in Numbers(toClient[p]))
            ~> (n \in Numbers(shown[p]) \/ ~Serving(p))
=============================================================================
