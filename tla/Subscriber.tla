------------------------------ MODULE Subscriber ------------------------------
(***************************************************************************)
(* tema2/subscriber.cpp: the subscribers.  A process connects, then loops: *)
(* a line of stdin, poll, one message to the server, one recv.             *)
(***************************************************************************)
EXTENDS Server

CONSTANTS
    nameOf,         \* the id each process is started with
    MaxCommands,    \* bound: subscribe and unsubscribe lines each is given
    UnsubSf,        \* bytes the sf of an unsubscribe may hold
    RecvNews        \* most news one recv of BUFFER_CLIENT bytes can complete

ASSUME SubscriberAssumption ==
    /\ nameOf \in [Proc -> Name]
    /\ MaxCommands \in [Proc -> Nat]
    /\ UnsubSf \subseteq 0..3
    /\ RecvNews \in Nat

VARIABLES
    cstatus,    \* "new", "up", "gone"
    sent_id,
    buffer_w,
    buffer_r,   \* the whole news in the read buffer
    shown,      \* the news printed, in order
    typed       \* subscribe and unsubscribe lines given so far

subscriberVars == <<cstatus, sent_id, buffer_w, buffer_r, shown, typed>>

ConnectMsg(p) == <<TCP_CONNECT, nameOf[p], NUL>>
SubMsg(topic, sf) == <<TCP_SUB, topic, sf>>
\* msg.sf is never assigned before an unsubscribe is sent: any byte.
UnsubMsg(topic, sf) == <<TCP_UNSUB, topic, sf>>

SubscriberInit ==
    /\ cstatus = [p \in Proc |-> "new"]
    /\ sent_id = [p \in Proc |-> FALSE]
    /\ buffer_w = [p \in Proc |-> <<>>]
    /\ buffer_r = [p \in Proc |-> <<>>]
    /\ shown = [p \in Proc |-> <<>>]
    /\ typed = [p \in Proc |-> 0]

\* The process leaves its loop; what it had not sent or shown goes with it.
Leave(p) ==
    /\ cstatus' = [cstatus EXCEPT ![p] = "gone"]
    /\ buffer_w' = [buffer_w EXCEPT ![p] = <<>>]
    /\ buffer_r' = [buffer_r EXCEPT ![p] = <<>>]
    /\ UNCHANGED <<sent_id, shown, typed>>

\* init: socket and connect.  Without a server the process ends.
Start(p) ==
    /\ cstatus[p] = "new"
    /\ IF status = "running"
       THEN /\ TcpConnect(p)
            /\ cstatus' = [cstatus EXCEPT ![p] = "up"]
            /\ UNCHANGED <<sent_id, buffer_w, buffer_r, shown, typed>>
       ELSE Leave(p) /\ UNCHANGED tcpVars
    /\ UNCHANGED serverVars

(***************************************************************************)
(* deal_with_user_commands                                                 *)
(***************************************************************************)
TypeExit(p) ==
    /\ cstatus[p] = "up"
    /\ TcpClientClose(p)
    /\ Leave(p)
    /\ UNCHANGED serverVars

TypeCommand(p, msg) ==
    /\ cstatus[p] = "up"
    /\ typed[p] < MaxCommands[p]
    /\ typed' = [typed EXCEPT ![p] = @ + 1]
    /\ buffer_w' = [buffer_w EXCEPT ![p] = Append(@, msg)]
    /\ UNCHANGED <<cstatus, sent_id, buffer_r, shown, serverVars, tcpVars>>

TypeSubscribe(p) ==
    \E topic \in Topic, sf \in 0..1 : TypeCommand(p, SubMsg(topic, sf))
TypeUnsubscribe(p) ==
    \E topic \in Topic, sf \in UnsubSf : TypeCommand(p, UnsubMsg(topic, sf))

(***************************************************************************)
(* The rest of the loop.  Only this process writes its end, so the visit   *)
(* from poll to recv is one step.                                          *)
(***************************************************************************)
\* mistake: the end of file is not looked at.
SeesReset(p) == down[p] = "rst"

SeesClose(p) ==
    \/ down[p] = "fin" /\ toClient[p] = <<>>    \* recv with MSG_PEEK returns 0
    \/ down[p] = "rst"                          \* POLLERR

ServerGone(p) ==
    /\ cstatus[p] = "up"
    /\ SeesClose(p)
    /\ TcpClientClose(p)
    /\ Leave(p)
    /\ UNCHANGED serverVars

\* POLLOUT: the id goes first, then one command a pass.
Write(p) ==
    LET msg == IF ~sent_id[p] THEN ConnectMsg(p)
               ELSE IF buffer_w[p] # <<>> THEN Head(buffer_w[p]) ELSE <<>>
    IN  IF ClientWritable(p, MsgCells)
        THEN /\ sent_id' = [sent_id EXCEPT ![p] = TRUE]
             /\ buffer_w' = [buffer_w EXCEPT ![p] =
                               IF sent_id[p] /\ @ # <<>> THEN Tail(@) ELSE @]
             /\ toServer' = SentToServer(p, msg)
             /\ down' = IF msg = <<>> THEN down ELSE DownAfterSend(p)
        ELSE UNCHANGED <<sent_id, buffer_w, toServer, down>>

\* POLLIN: one recv completes n more news in buffer_r, receive_msg shows one.
Read(p) ==
    \/ toClient[p] = <<>> /\ UNCHANGED <<toClient, buffer_r, shown>>
    \/ /\ toClient[p] # <<>>
       /\ \E n \in 0 .. RecvNews :
            /\ n <= Len(toClient[p])
            /\ LET whole == buffer_r[p] \o SubSeq(toClient[p], 1, n)
               IN  IF whole = <<>>
                   THEN UNCHANGED <<buffer_r, shown>>
                   ELSE /\ shown' = [shown EXCEPT ![p] = Append(@, Head(whole))]
                        /\ buffer_r' = [buffer_r EXCEPT ![p] = Tail(whole)]
            /\ toClient' = [toClient EXCEPT ![p] = SubSeq(@, n + 1, Len(@))]

Pass(p) ==
    /\ cstatus[p] = "up"
    /\ ~SeesClose(p)
    /\ Write(p)
    /\ Read(p)
    /\ UNCHANGED <<cstatus, typed, serverVars, backlog, sock, link>>

Command(p) == TypeExit(p) \/ TypeSubscribe(p) \/ TypeUnsubscribe(p)
SubscriberLoop(p) == ServerGone(p) \/ Pass(p)

SubscriberTypeOK ==
    /\ cstatus \in [Proc -> {"new", "up", "gone"}]
    /\ sent_id \in [Proc -> BOOLEAN]
    /\ buffer_w \in [Proc -> Seq(Seq(Cell))]
    /\ buffer_r \in [Proc -> Seq(News)]
    /\ shown \in [Proc -> Seq(News)]
    /\ typed \in [Proc -> Nat]
=============================================================================
