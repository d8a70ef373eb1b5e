-------------------------------- MODULE Router --------------------------------
(***************************************************************************)
(* tema1/router.c: the main loop of the router, one frame a turn, with its *)
(* ARP table and the packets that wait for the address of their next hop,  *)
(* and the networks around it: hosts that send, answer ARP requests late   *)
(* or never, announce themselves and change their hardware address.        *)
(*                                                                         *)
(* The longest prefix lookup is the constant routes; headers are reduced   *)
(* to what the control reads.                                              *)
(***************************************************************************)
EXTENDS Integers, Sequences

CONSTANTS
    Addr,           \* IPv4 addresses
    Mac,            \* hardware addresses of the hosts
    Iface,          \* interfaces, numbered as get_packet looks at them
    my_ip,          \* the router's address on each interface
    routes,         \* routable address -> [next_hop, interface]
    Traffic,        \* packets the hosts may send
    MaxPackets,     \* bound: packets sent
    MaxArp,         \* bound: ARP frames nobody asked for
    Lossy           \* whether an ARP request may be lost

Kind == {"data", "echo_request", "echo_reply", "expired", "unreachable"}
ICMP == {"echo_request", "echo_reply", "expired", "unreachable"}
Route == [next_hop : Addr, interface : Iface]
To == {"router", "broadcast", "other"}      \* hardware address of a frame received

ASSUME RouterAssumption ==
    /\ Iface \subseteq Nat
    /\ my_ip \in [Iface -> Addr]
    /\ DOMAIN routes \subseteq Addr /\ routes \in [DOMAIN routes -> Route]
    /\ Traffic \subseteq [from : Iface, to : To, src : Addr, dst : Addr,
                          ttl : 0 .. 255, kind : Kind, sum : BOOLEAN]
    /\ MaxPackets \in Nat /\ MaxArp \in Nat /\ Lossy \in BOOLEAN

VARIABLES
    arp_entries,        \* the ARP table, a list that only grows
    messages_to_send,   \* packets that wait, with their route
    new_q,              \* those of them that keep waiting
    flushing,           \* whether the loop is going through messages_to_send
    running,            \* FALSE when a search for a route never ends
    inbox,              \* frames received on each interface
    out,                \* packets sent, in order
    replies,            \* ARP replies sent, in order
    asked,              \* ARP requests on the wire, by the address asked for
    lost,               \* whether one of them was lost
    packets,            \* number of packets sent to the router
    announced           \* number of ARP frames nobody asked for

routerVars == <<arp_entries, messages_to_send, new_q, flushing, running>>
queues == <<messages_to_send, new_q, flushing>>
networkVars == <<lost, packets, announced>>
vars == <<routerVars, inbox, out, replies, asked, networkVars>>

MAX_TTL == 62

Init ==
    /\ arp_entries = <<>>
    /\ messages_to_send = <<>> /\ new_q = <<>> /\ flushing = FALSE
    /\ running = TRUE
    /\ inbox = [i \in Iface |-> <<>>]
    /\ out = <<>> /\ replies = <<>>
    /\ asked = [a \in Addr |-> 0]
    /\ lost = FALSE /\ packets = 0 /\ announced = 0

(***************************************************************************)
(* forward_ip.  A packet is its addresses, ttl and kind; its number and    *)
(* the interface it came by are history.                                   *)
(***************************************************************************)
\* create_error_icmp writes the error over the packet.
Error(p, ip, kind) ==
    [id |-> p.id, from |-> p.from, src |-> ip, dst |-> p.src, ttl |-> MAX_TTL,
     kind |-> kind]

AgedWide(p) == [p EXCEPT !.ttl = @ - 1]     \* mistake: ttl does not wrap
\* ttl is a uint8_t.
Aged(p) == [p EXCEPT !.ttl = (@ - 1) % 256]

\* The reply to an echo request keeps the addresses of the request.
EchoReply(p) ==
    IF p.kind = "echo_request" THEN [p EXCEPT !.kind = "echo_reply", !.ttl = MAX_TTL]
    ELSE p

Treated(p, ip) ==
    IF p.dst = ip /\ p.kind \in ICMP THEN EchoReply(Aged(p))
    ELSE IF Aged(p).ttl = 0 THEN Error(Aged(p), ip, "expired")
    ELSE Aged(p)

\* best_route_search calls itself for the error it has written; the second
\* error is from the router to itself and so is every later one.
Routable(p) == p.dst \in DOMAIN routes
Searched(p, ip) ==
    LET error == Error(p, ip, "unreachable")
    IN  IF Routable(p) THEN p
        ELSE IF Routable(error) THEN error ELSE Error(error, ip, "unreachable")
Forwarded(p, ip) == Searched(Treated(p, ip), ip)

(***************************************************************************)
(* do_arp.  The search goes through the whole list: the last entry wins.   *)
(***************************************************************************)
EntriesOf(ip) == {k \in DOMAIN arp_entries : arp_entries[k].ip = ip}
Found(ip) == EntriesOf(ip) # {}

FirstEntry(ip) ==       \* mistake: the search stops at the first entry
    arp_entries[CHOOSE k \in EntriesOf(ip) : \A l \in EntriesOf(ip) : k <= l].mac
Entry(ip) ==
    arp_entries[CHOOSE k \in EntriesOf(ip) : \A l \in EntriesOf(ip) : k >= l].mac

Outgoing(p, best, mac) == [interface |-> best.interface, to |-> mac, p |-> p]

(***************************************************************************)
(* The turns of the loop.  get_packet takes from the first interface that  *)
(* has a frame.                                                            *)
(***************************************************************************)
Take(i) ==
    /\ running /\ ~flushing
    /\ inbox[i] # <<>>
    /\ \A j \in Iface : j < i => inbox[j] = <<>>
    /\ inbox' = [inbox EXCEPT ![i] = Tail(@)]
    /\ UNCHANGED networkVars

ForUs(frame) == frame.type = "ip" /\ frame.to # "other" /\ frame.sum

\* An IP frame not addressed to the router, or with a wrong checksum.  Frames
\* that are too short or neither IP nor ARP are dropped too: nobody sends any.
Ignore(i) ==
    /\ Take(i)
    /\ LET frame == Head(inbox[i]) IN frame.type # "arp" /\ ~ForUs(frame)
    /\ UNCHANGED <<routerVars, out, replies, asked>>

Forward(i) ==
    /\ Take(i)
    /\ ForUs(Head(inbox[i]))
    /\ LET p == Forwarded(Head(inbox[i]).p, my_ip[i])
       IN  /\ Routable(p)
           /\ Found(routes[p.dst].next_hop)
           /\ out' = Append(out, Outgoing(p, routes[p.dst], Entry(routes[p.dst].next_hop)))
    /\ UNCHANGED <<routerVars, replies, asked>>

\* The packet waits and a request is sent, also when one is on its way.
Save(i) ==
    /\ Take(i)
    /\ ForUs(Head(inbox[i]))
    /\ LET p == Forwarded(Head(inbox[i]).p, my_ip[i])
       IN  /\ Routable(p)
           /\ ~Found(routes[p.dst].next_hop)
           /\ messages_to_send' = Append(messages_to_send, [p |-> p, best |-> routes[p.dst]])
           /\ asked' = [asked EXCEPT ![routes[p.dst].next_hop] = @ + 1]
    /\ UNCHANGED <<arp_entries, new_q, flushing, running, out, replies>>

\* No route for the packet, its source or the router itself.
SearchForEver(i) ==
    /\ Take(i)
    /\ ForUs(Head(inbox[i]))
    /\ ~Routable(Forwarded(Head(inbox[i]).p, my_ip[i]))
    /\ running' = FALSE
    /\ UNCHANGED <<arp_entries, queues, out, replies, asked>>

AsksForUs(i, frame) == frame.op = "request" /\ frame.tpa = my_ip[i]

\* Nothing is learnt from the request.
Reply(i) ==
    /\ Take(i)
    /\ Head(inbox[i]).type = "arp"
    /\ AsksForUs(i, Head(inbox[i]))
    /\ replies' = Append(replies, [interface |-> i, to |-> Head(inbox[i]).sha,
                                   tpa |-> Head(inbox[i]).spa])
    /\ UNCHANGED <<routerVars, out, asked>>

\* Any other ARP frame, also one that is not for the router.
Learn(i) ==
    /\ Take(i)
    /\ Head(inbox[i]).type = "arp"
    /\ ~AsksForUs(i, Head(inbox[i]))
    /\ LET arp == Head(inbox[i])
       IN  arp_entries' = Append(arp_entries, [ip |-> arp.spa, mac |-> arp.sha])
    /\ flushing' = TRUE
    /\ UNCHANGED <<messages_to_send, new_q, running, out, replies, asked>>

(***************************************************************************)
(* The loop over messages_to_send after an entry was learnt: one packet is *)
(* taken out, and sent or put into new_q.                                  *)
(***************************************************************************)
Heard == arp_entries[Len(arp_entries)]

IsDueWrongHop(x) == x.p.dst = Heard.ip  \* mistake: the destination is compared
IsDue(x) == x.best.next_hop = Heard.ip

\* mistake: new_q is filled from the front
KeepFirst(x) == new_q' = <<x>> \o new_q
Keep(x) == new_q' = Append(new_q, x)

FlushOne ==
    /\ flushing
    /\ messages_to_send # <<>>
    /\ LET x == Head(messages_to_send)
       IN  IF IsDue(x)
           THEN out' = Append(out, Outgoing(x.p, x.best, Heard.mac)) /\ UNCHANGED new_q
           ELSE Keep(x) /\ UNCHANGED out
    /\ messages_to_send' = Tail(messages_to_send)
    /\ UNCHANGED <<arp_entries, flushing, running, inbox, replies, asked, networkVars>>

\* messages_to_send becomes new_q.
FlushEndsEarly ==       \* mistake: the loop ends at the first packet kept
    /\ flushing
    /\ messages_to_send = <<>> \/ new_q # <<>>
    /\ messages_to_send' = new_q \o messages_to_send
    /\ new_q' = <<>> /\ flushing' = FALSE
    /\ UNCHANGED <<arp_entries, running, inbox, out, replies, asked, networkVars>>
FlushEnds ==
    /\ flushing
    /\ messages_to_send = <<>>
    /\ messages_to_send' = new_q
    /\ new_q' = <<>> /\ flushing' = FALSE
    /\ UNCHANGED <<arp_entries, running, inbox, out, replies, asked, networkVars>>

Turn ==
    \/ \E i \in Iface :
         Ignore(i) \/ Forward(i) \/ Save(i) \/ SearchForEver(i) \/ Reply(i) \/ Learn(i)
    \/ FlushOne \/ FlushEnds

(***************************************************************************)
(* The networks.                                                           *)
(***************************************************************************)
Hosts == {routes[dst].next_hop : dst \in DOMAIN routes}
IfaceOf(host) ==
    CHOOSE i \in Iface : \E dst \in DOMAIN routes :
        routes[dst] = [next_hop |-> host, interface |-> i]
Receive(i, frame) == inbox' = [inbox EXCEPT ![i] = Append(@, frame)]

SendPacket ==
    /\ packets < MaxPackets
    /\ packets' = packets + 1
    /\ \E t \in Traffic :
         Receive(t.from, [type |-> "ip", to |-> t.to, sum |-> t.sum,
                          p |-> [id |-> packets + 1, from |-> t.from, src |-> t.src,
                                 dst |-> t.dst, ttl |-> t.ttl, kind |-> t.kind]])
    /\ UNCHANGED <<routerVars, out, replies, asked, lost, announced>>

ArpFrame(op, host, mac, tpa) ==
    [type |-> "arp", op |-> op, spa |-> host, sha |-> mac, tpa |-> tpa]

\* A host announces itself, asks for the router or for another host, with
\* the hardware address it has now.
Announce(host) ==
    /\ announced < MaxArp
    /\ announced' = announced + 1
    /\ \E op \in {"request", "reply"}, mac \in Mac, tpa \in {host, my_ip[IfaceOf(host)]} :
         Receive(IfaceOf(host), ArpFrame(op, host, mac, tpa))
    /\ UNCHANGED <<routerVars, out, replies, asked, lost, packets>>

Answered(host) == asked[host] > 0 /\ asked' = [asked EXCEPT ![host] = @ - 1]
Answer(host) ==
    /\ Answered(host)
    /\ \E mac \in Mac :
         Receive(IfaceOf(host), ArpFrame("reply", host, mac, my_ip[IfaceOf(host)]))
    /\ UNCHANGED <<routerVars, out, replies, networkVars>>

\* The request or its answer is lost.
Lose(host) ==
    /\ Lossy
    /\ Answered(host)
    /\ lost' = TRUE
    /\ UNCHANGED <<routerVars, inbox, out, replies, packets, announced>>

Network ==
    SendPacket \/ \E host \in Hosts : Announce(host) \/ Answer(host) \/ Lose(host)

Next == Turn \/ Network

Spec == Init /\ [][Next]_vars

\* The loop runs while there are frames, and hosts answer.
FairSpec ==
    Spec /\ WF_vars(Turn) /\ \A host \in Hosts : WF_vars(Answer(host))

(***************************************************************************)
(* Properties.                                                             *)
(***************************************************************************)
\* Type invariant; the ttl of what leaves is a byte (router.c 149-151).
Packet ==
    [id : Nat, from : Iface, src : Addr, dst : Addr, ttl : 0 .. 255, kind : Kind]
Frame ==
    [type : {"ip"}, to : To, sum : BOOLEAN, p : Packet]
    \cup [type : {"arp"}, op : {"request", "reply"}, spa : Addr, sha : Mac, tpa : Addr]
Saved == {x \in [p : Packet, best : Route] : Routable(x.p) /\ x.best = routes[x.p.dst]}
TypeOK ==
    /\ arp_entries \in Seq([ip : Addr, mac : Mac])
    /\ messages_to_send \in Seq(Saved) /\ new_q \in Seq(Saved)
    /\ flushing \in BOOLEAN /\ running \in BOOLEAN
    /\ inbox \in [Iface -> Seq(Frame)]
    /\ out \in Seq([interface : Iface, to : Mac, p : Packet])
    /\ replies \in Seq([interface : Iface, to : Mac, tpa : Addr])
    /\ asked \in [Addr -> Nat]
    /\ lost \in BOOLEAN /\ packets \in Nat /\ announced \in Nat

\* No packet waits for an address the router already knows, or it might wait
\* for ever: nobody is asked again (router.c 200-227, 300-327).
NoneLeftBehind ==
    ~flushing => \A k \in DOMAIN messages_to_send :
                    ~Found(messages_to_send[k].best.next_hop)

\* A packet is sent or waits in one place, and packets that came by one
\* interface and leave for one next hop keep their order, through the queue
\* and past it (203-227, 310-327).
NextHop(p) == routes[p.dst].next_hop
Precedes(p, q) ==
    /\ p.id # q.id
    /\ p.from = q.from /\ NextHop(p) = NextHop(q) => p.id < q.id
Ordered(s) == \A k, l \in DOMAIN s : k < l => Precedes(s[k].p, s[l].p)
OrderedTo(s, t) == \A k \in DOMAIN s, l \in DOMAIN t : Precedes(s[k].p, t[l].p)

InOrder ==
    /\ Ordered(out) /\ Ordered(new_q) /\ Ordered(messages_to_send)
    /\ OrderedTo(out, new_q) /\ OrderedTo(out, messages_to_send)
    /\ OrderedTo(new_q, messages_to_send)

\* A packet goes to the hardware address of the newest entry that was learnt for
\* its next hop, after a change of the address too (205-213, 315-320).  The
\* sender of a request to the router is heard, but not learnt: what it says of its
\* address does not count (285-298; README 60-61 says it is saved).
LastLearnt(ip, mac) ==
    \E k \in DOMAIN arp_entries :
        /\ arp_entries[k] = [ip |-> ip, mac |-> mac]
        /\ \A l \in DOMAIN arp_entries : l > k => arp_entries[l].ip # ip
ToLastLearnt ==
    [][\A k \in DOMAIN out' \ DOMAIN out :
         LastLearnt(NextHop(out'[k].p), out'[k].to)]_vars

\* When hosts answer, a packet that waits is sent, unless a request was lost:
\* none is repeated (under FairSpec).
Waiting == {messages_to_send[k].p.id : k \in DOMAIN messages_to_send}
Sent == {out[k].p.id : k \in DOMAIN out}
WaitingIsSent ==
    \A id \in 1 .. MaxPackets :
        id \in Waiting ~> (id \in Sent \/ lost \/ ~running)
=============================================================================
