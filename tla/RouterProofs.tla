----------------------------- MODULE RouterProofs -----------------------------
(***************************************************************************)
(* Theorems about the router and its queue of packets that wait.           *)
(***************************************************************************)
EXTENDS Router, SequenceTheorems, TLAPS

(***************************************************************************)
(* Sequences.                                                              *)
(***************************************************************************)
LEMMA Appended ==
    ASSUME NEW S, NEW s \in Seq(S), NEW e \in S
    PROVE  /\ Append(s, e) \in Seq(S)
           /\ DOMAIN s = 1 .. Len(s) /\ Len(s) \in Nat
           /\ DOMAIN Append(s, e) = 1 .. Len(s) + 1
           /\ Len(Append(s, e)) = Len(s) + 1
           /\ Append(s, e)[Len(s) + 1] = e
           /\ \A k \in DOMAIN s : Append(s, e)[k] = s[k]
  OBVIOUS

LEMMA Taken ==
    ASSUME NEW S, NEW s \in Seq(S), s # <<>>
    PROVE  /\ Head(s) \in S /\ Head(s) = s[1]
           /\ DOMAIN s = 1 .. Len(s) /\ Len(s) \in Nat /\ 1 \in DOMAIN s
           /\ Tail(s) \in Seq(S)
           /\ DOMAIN Tail(s) = 1 .. Len(s) - 1
           /\ \A k \in DOMAIN Tail(s) :
                k + 1 \in DOMAIN s /\ k + 1 > 1 /\ Tail(s)[k] = s[k + 1]
  BY HeadTailProperties, LenProperties, EmptySeq

(***************************************************************************)
(* Types.                                                                  *)
(***************************************************************************)
LEMMA Forwards ==
    ASSUME NEW p \in Packet, NEW ip \in Addr
    PROVE  /\ Forwarded(p, ip) \in Packet
           /\ Forwarded(p, ip).id = p.id
           /\ Forwarded(p, ip).from = p.from
  <1>1. ASSUME NEW q \in Packet, NEW kind \in Kind
        PROVE  /\ Error(q, ip, kind) \in Packet
               /\ Error(q, ip, kind).id = q.id /\ Error(q, ip, kind).from = q.from
    <2>1. MAX_TTL \in 0 .. 255 /\ q.id \in Nat /\ q.from \in Iface /\ q.src \in Addr
      BY DEF Packet, MAX_TTL
    <2>. QED
      BY <2>1 DEF Packet, Error
  <1>2. Aged(p) \in Packet /\ Aged(p).id = p.id /\ Aged(p).from = p.from
    <2>1. (p.ttl - 1) % 256 \in 0 .. 255
      BY DEF Packet
    <2>2. Aged(p) \in Packet
      BY <2>1 DEF Packet, Aged
    <2>3. Aged(p).id = p.id /\ Aged(p).from = p.from
      BY DEF Packet, Aged
    <2>. QED
      BY <2>2, <2>3
  <1>3. ASSUME NEW q \in Packet
        PROVE  /\ EchoReply(q) \in Packet
               /\ EchoReply(q).id = q.id /\ EchoReply(q).from = q.from
    <2>1. CASE q.kind = "echo_request"
      <3>1. "echo_reply" \in Kind /\ MAX_TTL \in 0 .. 255
        BY DEF Kind, MAX_TTL
      <3>. QED
        BY <2>1, <3>1 DEF EchoReply, Packet
    <2>2. CASE q.kind # "echo_request"
      BY <2>2 DEF EchoReply
    <2>. QED
      BY <2>1, <2>2
  <1>4. "expired" \in Kind /\ "unreachable" \in Kind
    BY DEF Kind
  <1>5. Treated(p, ip) \in Packet /\ Treated(p, ip).id = p.id /\ Treated(p, ip).from = p.from
    BY <1>1, <1>2, <1>3, <1>4 DEF Treated
  <1>6. ASSUME NEW q \in Packet
        PROVE  /\ Searched(q, ip) \in Packet
               /\ Searched(q, ip).id = q.id /\ Searched(q, ip).from = q.from
    BY <1>1, <1>4 DEF Searched
  <1>. QED
    BY <1>5, <1>6 DEF Forwarded

LEMMA HostTypes ==
    ASSUME NEW host \in Hosts
    PROVE  host \in Addr /\ IfaceOf(host) \in Iface /\ my_ip[IfaceOf(host)] \in Addr
  <1>1. PICK dst \in DOMAIN routes : routes[dst].next_hop = host
    BY DEF Hosts
  <1>2. routes[dst] \in Route
    BY RouterAssumption
  <1>3. routes[dst] = [next_hop |-> host, interface |-> routes[dst].interface]
    BY <1>1, <1>2 DEF Route
  <1>4. \E i \in Iface : \E d \in DOMAIN routes :
            routes[d] = [next_hop |-> host, interface |-> i]
    BY <1>2, <1>3 DEF Route
  <1>5. IfaceOf(host) \in Iface
    BY <1>4 DEF IfaceOf
  <1>. QED
    BY <1>1, <1>2, <1>5, RouterAssumption DEF Route

\* An address that was learnt was learnt a last time.
HasLast ==
    \A ip \in Addr : Found(ip) =>
        \E k \in EntriesOf(ip) : \A l \in EntriesOf(ip) : k >= l

LEMMA EntryTypes ==
    ASSUME TypeOK, HasLast, NEW ip \in Addr, Found(ip)
    PROVE  Entry(ip) \in Mac /\ LastLearnt(ip, Entry(ip))
  <1>1. arp_entries \in Seq([ip : Addr, mac : Mac])
    BY DEF TypeOK
  <1>2. DOMAIN arp_entries = 1 .. Len(arp_entries) /\ Len(arp_entries) \in Nat
    BY <1>1
  <1>3. PICK k \in EntriesOf(ip) : /\ \A l \in EntriesOf(ip) : k >= l
                                   /\ Entry(ip) = arp_entries[k].mac
    <2>. DEFINE last == CHOOSE k \in EntriesOf(ip) : \A l \in EntriesOf(ip) : k >= l
    <2>1. \E k \in EntriesOf(ip) : \A l \in EntriesOf(ip) : k >= l
      BY DEF HasLast
    <2>2. last \in EntriesOf(ip) /\ \A l \in EntriesOf(ip) : last >= l
      BY <2>1
    <2>3. Entry(ip) = arp_entries[last].mac
      BY DEF Entry
    <2>. QED
      BY <2>2, <2>3
  <1>4. arp_entries[k] \in [ip : Addr, mac : Mac] /\ arp_entries[k].ip = ip
    <2>1. k \in 1 .. Len(arp_entries) /\ arp_entries[k].ip = ip
      BY <1>2 DEF EntriesOf
    <2>. QED
      BY <1>1, <2>1, ElementOfSeq
  <1>5. \A l \in DOMAIN arp_entries : l > k => arp_entries[l].ip # ip
    BY <1>2, <1>3 DEF EntriesOf
  <1>. QED
    BY <1>2, <1>3, <1>4, <1>5 DEF LastLearnt, EntriesOf

LEMMA LearnLast ==
    ASSUME TypeOK, HasLast, NEW e \in [ip : Addr, mac : Mac],
           arp_entries' = Append(arp_entries, e)
    PROVE  /\ HasLast'
           /\ Heard' = e
           /\ \A ip : Found(ip)' <=> Found(ip) \/ ip = e.ip
  <1>1. arp_entries \in Seq([ip : Addr, mac : Mac])
    BY DEF TypeOK
  <1>2. /\ Len(arp_entries) \in Nat /\ DOMAIN arp_entries = 1 .. Len(arp_entries)
        /\ DOMAIN arp_entries' = 1 .. Len(arp_entries) + 1
        /\ Len(arp_entries') = Len(arp_entries) + 1
        /\ arp_entries'[Len(arp_entries) + 1] = e
        /\ \A k \in DOMAIN arp_entries : arp_entries'[k] = arp_entries[k]
    BY <1>1, Appended
  <1>3. ASSUME NEW ip
        PROVE  EntriesOf(ip)' = IF ip = e.ip THEN EntriesOf(ip) \cup {Len(arp_entries) + 1}
                                ELSE EntriesOf(ip)
    BY <1>2 DEF EntriesOf
  <1>4. ASSUME NEW ip \in Addr, Found(ip)'
        PROVE  \E k \in EntriesOf(ip)' : \A l \in EntriesOf(ip)' : k >= l
    <2>1. CASE ip = e.ip
      BY <1>2, <1>3, <2>1 DEF EntriesOf
    <2>2. CASE ip # e.ip
      BY <1>3, <1>4, <2>2 DEF HasLast, Found
    <2>. QED
      BY <2>1, <2>2
  <1>. QED
    BY <1>2, <1>3, <1>4 DEF HasLast, Found, Heard

LEMMA SavedTypes ==
    ASSUME NEW p \in Packet, Routable(p)
    PROVE  /\ [p |-> p, best |-> routes[p.dst]] \in Saved
           /\ routes[p.dst] \in Route
           /\ routes[p.dst].next_hop \in Addr /\ routes[p.dst].interface \in Iface
           /\ routes[p.dst].next_hop = NextHop(p)
  BY RouterAssumption DEF Saved, Route, Routable, NextHop

LEMMA SavedParts ==
    ASSUME NEW x \in Saved
    PROVE  /\ x.p \in Packet /\ x.best.next_hop = NextHop(x.p)
           /\ x.best.next_hop \in Addr /\ x.best.interface \in Iface
  BY SavedTypes DEF Saved, NextHop

LEMMA HeadFrame ==
    ASSUME TypeOK, NEW i \in Iface, inbox[i] # <<>>
    PROVE  Head(inbox[i]) \in Frame /\ Tail(inbox[i]) \in Seq(Frame)
  BY Taken DEF TypeOK

\* What each kind of frame holds.
LEMMA FrameParts ==
    ASSUME NEW frame \in Frame
    PROVE  /\ frame.type = "ip" => frame.p \in Packet
           /\ frame.type = "arp" => /\ frame.spa \in Addr /\ frame.sha \in Mac
                                    /\ frame.tpa \in Addr
           /\ frame.type = "ip" \/ frame.type = "arp"
  BY DEF Frame

LEMMA TakeTypes ==
    ASSUME TypeOK, NEW i \in Iface, Take(i)
    PROVE  /\ inbox' \in [Iface -> Seq(Frame)]
           /\ Head(inbox[i]) \in Frame
           /\ lost' \in BOOLEAN /\ packets' \in Nat /\ announced' \in Nat
  <1>1. Head(inbox[i]) \in Frame /\ Tail(inbox[i]) \in Seq(Frame)
    BY HeadFrame DEF Take
  <1>. QED
    BY <1>1 DEF Take, TypeOK, networkVars

LEMMA ForUsTypes ==
    ASSUME TypeOK, NEW i \in Iface, Take(i), ForUs(Head(inbox[i]))
    PROVE  /\ Head(inbox[i]).p \in Packet
           /\ Forwarded(Head(inbox[i]).p, my_ip[i]) \in Packet
           /\ Forwarded(Head(inbox[i]).p, my_ip[i]).id = Head(inbox[i]).p.id
           /\ Forwarded(Head(inbox[i]).p, my_ip[i]).from = Head(inbox[i]).p.from
  <1>1. Head(inbox[i]).p \in Packet
    BY TakeTypes, FrameParts DEF ForUs
  <1>2. my_ip[i] \in Addr
    BY RouterAssumption
  <1>. QED
    BY <1>1, <1>2, Forwards

(***************************************************************************)
(* Every step keeps the types.                                             *)
(***************************************************************************)
LEMMA FlushTypes ==
    ASSUME TypeOK, FlushOne \/ FlushEnds, flushing => arp_entries # <<>>
    PROVE  TypeOK'
  <1>1. CASE FlushOne
    <2>. DEFINE x == Head(messages_to_send)
    <2>1. x \in Saved /\ Tail(messages_to_send) \in Seq(Saved)
      BY <1>1, Taken DEF FlushOne, TypeOK
    <2>2. Heard \in [ip : Addr, mac : Mac]
      <3>1. Len(arp_entries) \in 1 .. Len(arp_entries)
        BY <1>1, EmptySeq DEF FlushOne, TypeOK
      <3>. QED
        BY <3>1, ElementOfSeq DEF Heard, TypeOK
    <2>. DEFINE sent == Outgoing(x.p, x.best, Heard.mac)
    <2>5. /\ IsDue(x) => out' = Append(out, sent) /\ new_q' = new_q
          /\ ~IsDue(x) => new_q' = Append(new_q, x) /\ out' = out
          /\ messages_to_send' = Tail(messages_to_send)
          /\ UNCHANGED <<arp_entries, flushing, running, inbox, replies, asked, networkVars>>
      BY <1>1 DEF FlushOne, Keep
    <2>6. IsDue(x) => sent \in [interface : Iface, to : Mac, p : Packet]
      BY <2>1, <2>2, SavedParts DEF Outgoing
    <2>. HIDE DEF x, sent
    <2>7. /\ messages_to_send' \in Seq(Saved)
          /\ UNCHANGED <<arp_entries, flushing, running, inbox, replies, asked,
                         lost, packets, announced>>
      BY <2>1, <2>5 DEF networkVars
    <2>3. CASE IsDue(x)
      <3>1. out' = Append(out, sent) /\ new_q' = new_q
        BY <2>3, <2>5
      <3>2. out \in Seq([interface : Iface, to : Mac, p : Packet])
        BY DEF TypeOK
      <3>3. sent \in [interface : Iface, to : Mac, p : Packet]
        BY <2>3, <2>6
      <3>4. out' \in Seq([interface : Iface, to : Mac, p : Packet])
        BY <3>1, <3>2, <3>3, Appended
      <3>. QED
        BY <2>7, <3>1, <3>4 DEF TypeOK
    <2>4. CASE ~IsDue(x)
      <3>1. new_q' = Append(new_q, x) /\ out' = out
        BY <2>4, <2>5
      <3>2. new_q \in Seq(Saved)
        BY DEF TypeOK
      <3>3. new_q' \in Seq(Saved)
        BY <2>1, <3>1, <3>2, Appended
      <3>. QED
        BY <2>7, <3>1, <3>3 DEF TypeOK
    <2>. QED
      BY <2>3, <2>4
  <1>2. CASE FlushEnds
    <2>1. <<>> \in Seq(Saved)
      OBVIOUS
    <2>. QED
      BY <1>2, <2>1 DEF FlushEnds, TypeOK, networkVars
  <1>. QED
    BY <1>1, <1>2

LEMMA TurnTypes ==
    ASSUME TypeOK, HasLast, Turn, flushing => arp_entries # <<>>
    PROVE  TypeOK'
  <1>1. ASSUME NEW i \in Iface, Ignore(i)
        PROVE  TypeOK'
    BY <1>1, TakeTypes DEF Ignore, TypeOK, routerVars
  <1>2. ASSUME NEW i \in Iface, Forward(i)
        PROVE  TypeOK'
    <2>. DEFINE p == Forwarded(Head(inbox[i]).p, my_ip[i])
    <2>1. Take(i) /\ ForUs(Head(inbox[i])) /\ p \in Packet /\ Routable(p)
      BY <1>2, ForUsTypes DEF Forward
    <2>2. /\ Found(routes[p.dst].next_hop)
          /\ out' = Append(out, Outgoing(p, routes[p.dst], Entry(routes[p.dst].next_hop)))
          /\ UNCHANGED <<routerVars, replies, asked>>
      BY <1>2 DEF Forward
    <2>. HIDE DEF p
    <2>3. Outgoing(p, routes[p.dst], Entry(routes[p.dst].next_hop))
            \in [interface : Iface, to : Mac, p : Packet]
      BY <2>1, <2>2, SavedTypes, EntryTypes DEF Outgoing
    <2>4. out' \in Seq([interface : Iface, to : Mac, p : Packet])
      BY <2>2, <2>3, Appended DEF TypeOK
    <2>. QED
      BY <2>1, <2>2, <2>4, TakeTypes DEF TypeOK, routerVars
  <1>3. ASSUME NEW i \in Iface, Save(i)
        PROVE  TypeOK'
    <2>. DEFINE p == Forwarded(Head(inbox[i]).p, my_ip[i])
    <2>1. Take(i) /\ ForUs(Head(inbox[i])) /\ p \in Packet /\ Routable(p)
      BY <1>3, ForUsTypes DEF Save
    <2>2. /\ messages_to_send' = Append(messages_to_send, [p |-> p, best |-> routes[p.dst]])
          /\ asked' = [asked EXCEPT ![routes[p.dst].next_hop] = @ + 1]
          /\ UNCHANGED <<arp_entries, new_q, flushing, running, out, replies>>
      BY <1>3 DEF Save
    <2>. HIDE DEF p
    <2>3. messages_to_send' \in Seq(Saved)
      BY <2>1, <2>2, SavedTypes, Appended DEF TypeOK
    <2>4. asked' \in [Addr -> Nat]
      <3>1. routes[p.dst].next_hop \in Addr /\ asked \in [Addr -> Nat]
        BY <2>1, SavedTypes DEF TypeOK
      <3>2. asked[routes[p.dst].next_hop] + 1 \in Nat
        BY <3>1
      <3>. QED
        BY <2>2, <3>1, <3>2
    <2>. QED
      BY <2>1, <2>2, <2>3, <2>4, TakeTypes DEF TypeOK
  <1>4. ASSUME NEW i \in Iface, SearchForEver(i)
        PROVE  TypeOK'
    BY <1>4, TakeTypes DEF SearchForEver, TypeOK, queues
  <1>5. ASSUME NEW i \in Iface, Reply(i)
        PROVE  TypeOK'
    <2>1. Take(i) /\ Head(inbox[i]).type = "arp"
      BY <1>5 DEF Reply
    <2>2. [interface |-> i, to |-> Head(inbox[i]).sha, tpa |-> Head(inbox[i]).spa]
            \in [interface : Iface, to : Mac, tpa : Addr]
      BY <2>1, TakeTypes, FrameParts
    <2>3. replies' \in Seq([interface : Iface, to : Mac, tpa : Addr])
      BY <1>5, <2>2, Appended DEF Reply, TypeOK
    <2>. QED
      BY <1>5, <2>1, <2>3, TakeTypes DEF Reply, TypeOK, routerVars
  <1>6. ASSUME NEW i \in Iface, Learn(i)
        PROVE  TypeOK'
    <2>1. Take(i) /\ Head(inbox[i]).type = "arp"
      BY <1>6 DEF Learn
    <2>2. [ip |-> Head(inbox[i]).spa, mac |-> Head(inbox[i]).sha] \in [ip : Addr, mac : Mac]
      BY <2>1, TakeTypes, FrameParts
    <2>3. arp_entries' \in Seq([ip : Addr, mac : Mac])
      BY <1>6, <2>2, Appended DEF Learn, TypeOK
    <2>. QED
      BY <1>6, <2>1, <2>3, TakeTypes DEF Learn, TypeOK
  <1>. QED
    BY <1>1, <1>2, <1>3, <1>4, <1>5, <1>6, FlushTypes DEF Turn

LEMMA NetworkTypes ==
    ASSUME TypeOK, Network
    PROVE  TypeOK'
  <1>1. ASSUME NEW i \in Iface, NEW frame \in Frame, Receive(i, frame)
        PROVE  inbox' \in [Iface -> Seq(Frame)]
    <2>1. Append(inbox[i], frame) \in Seq(Frame)
      BY <1>1, Appended DEF TypeOK
    <2>. QED
      BY <1>1, <2>1 DEF Receive, TypeOK
  <1>2. CASE SendPacket
    <2>1. PICK t \in Traffic :
            Receive(t.from, [type |-> "ip", to |-> t.to, sum |-> t.sum,
                             p |-> [id |-> packets + 1, from |-> t.from, src |-> t.src,
                                    dst |-> t.dst, ttl |-> t.ttl, kind |-> t.kind]])
      BY <1>2 DEF SendPacket
    <2>2. t \in [from : Iface, to : To, src : Addr, dst : Addr, ttl : 0 .. 255,
                 kind : Kind, sum : BOOLEAN]
      BY RouterAssumption
    <2>3. packets + 1 \in Nat
      BY DEF TypeOK
    <2>4. [id |-> packets + 1, from |-> t.from, src |-> t.src,
           dst |-> t.dst, ttl |-> t.ttl, kind |-> t.kind] \in Packet
      BY <2>2, <2>3 DEF Packet
    <2>5. inbox' \in [Iface -> Seq(Frame)]
      BY <1>1, <2>1, <2>2, <2>4 DEF Frame
    <2>. QED
      BY <1>2, <2>3, <2>5 DEF SendPacket, TypeOK, routerVars
  <1>3. ASSUME NEW host \in Hosts, Announce(host)
        PROVE  TypeOK'
    <2>1. inbox' \in [Iface -> Seq(Frame)]
      BY <1>1, <1>3, HostTypes DEF Announce, ArpFrame, Frame
    <2>. QED
      BY <1>3, <2>1 DEF Announce, TypeOK, routerVars
  <1>4. ASSUME NEW host \in Hosts, Answered(host)
        PROVE  asked' \in [Addr -> Nat]
    BY <1>4, HostTypes DEF Answered, TypeOK
  <1>5. ASSUME NEW host \in Hosts, Answer(host)
        PROVE  TypeOK'
    <2>1. inbox' \in [Iface -> Seq(Frame)]
      BY <1>1, <1>5, HostTypes DEF Answer, ArpFrame, Frame
    <2>. QED
      BY <1>4, <1>5, <2>1 DEF Answer, TypeOK, routerVars, networkVars
  <1>6. ASSUME NEW host \in Hosts, Lose(host)
        PROVE  TypeOK'
    BY <1>4, <1>6 DEF Lose, TypeOK, routerVars
  <1>. QED
    BY <1>2, <1>3, <1>5, <1>6 DEF Network

(***************************************************************************)
(* What waits is not known, but for the address the flush is about.        *)
(***************************************************************************)
Knows ==
    /\ HasLast
    /\ flushing => arp_entries # <<>>
    /\ ~flushing => new_q = <<>>
    /\ \A k \in DOMAIN new_q : ~Found(new_q[k].best.next_hop)
    /\ \A k \in DOMAIN messages_to_send :
         LET hop == messages_to_send[k].best.next_hop
         IN  Found(hop) => flushing /\ hop = Heard.ip

LEMMA SameKnows ==
    ASSUME Knows, UNCHANGED <<arp_entries, queues>>
    PROVE  Knows'
  <1>1. \A ip : EntriesOf(ip)' = EntriesOf(ip)
    BY DEF EntriesOf
  <1>. QED
    BY <1>1 DEF Knows, HasLast, Found, queues, Heard

LEMMA SaveKnows ==
    ASSUME TypeOK, Knows, NEW i \in Iface, Save(i)
    PROVE  Knows'
  <1>. DEFINE p == Forwarded(Head(inbox[i]).p, my_ip[i])
              x == [p |-> p, best |-> routes[p.dst]]
  <1>1. /\ ~Found(x.best.next_hop)
        /\ messages_to_send' = Append(messages_to_send, x)
        /\ UNCHANGED <<arp_entries, new_q, flushing>>
    BY DEF Save
  <1>2. x \in Saved
    BY ForUsTypes, SavedTypes DEF Save
  <1>. HIDE DEF x
  <1>3. \A ip : EntriesOf(ip)' = EntriesOf(ip)
    BY <1>1 DEF EntriesOf
  <1>4. HasLast' /\ \A ip : Found(ip)' <=> Found(ip)
    BY <1>3 DEF Knows, HasLast, Found
  <1>5. messages_to_send \in Seq(Saved)
    BY DEF TypeOK
  <1>6. ASSUME NEW k \in DOMAIN messages_to_send', Found(messages_to_send'[k].best.next_hop)
        PROVE  flushing /\ messages_to_send'[k].best.next_hop = Heard.ip
    <2>1. CASE k \in DOMAIN messages_to_send
      <3>1. messages_to_send'[k] = messages_to_send[k]
        BY <1>1, <1>2, <1>5, <2>1, Appended
      <3>. QED
        BY <1>6, <2>1, <3>1 DEF Knows
    <2>2. CASE k \notin DOMAIN messages_to_send
      <3>1. k = Len(messages_to_send) + 1
        BY <1>1, <1>2, <1>5, <2>2, Appended
      <3>2. messages_to_send'[k] = x
        BY <1>1, <1>2, <1>5, <3>1, Appended
      <3>. QED
        BY <1>1, <1>6, <3>2
    <2>. QED
      BY <2>1, <2>2
  <1>. QED
    BY <1>1, <1>4, <1>6 DEF Knows, Heard

LEMMA LearnKnows ==
    ASSUME TypeOK, Knows, NEW i \in Iface, Learn(i)
    PROVE  Knows'
  <1>. DEFINE e == [ip |-> Head(inbox[i]).spa, mac |-> Head(inbox[i]).sha]
  <1>1. /\ ~flushing /\ arp_entries' = Append(arp_entries, e) /\ flushing'
        /\ UNCHANGED <<messages_to_send, new_q>>
    BY DEF Learn, Take
  <1>2. e \in [ip : Addr, mac : Mac]
    BY TakeTypes, FrameParts DEF Learn
  <1>. HIDE DEF e
  <1>3. HasLast' /\ Heard' = e /\ \A ip : Found(ip)' <=> Found(ip) \/ ip = e.ip
    BY <1>1, <1>2, LearnLast DEF Knows
  <1>4. arp_entries' # <<>>
    BY <1>1, <1>2, Appended, SMTT(30) DEF TypeOK
  <1>5. new_q' = <<>> /\ DOMAIN new_q' = {}
    BY <1>1 DEF Knows
  <1>6. ASSUME NEW k \in DOMAIN messages_to_send
        PROVE  ~Found(messages_to_send[k].best.next_hop)
    BY <1>1 DEF Knows
  <1>. QED
    BY <1>1, <1>3, <1>4, <1>5, <1>6 DEF Knows

LEMMA FlushOneKnows ==
    ASSUME TypeOK, Knows, FlushOne
    PROVE  Knows'
  <1>. DEFINE x == Head(messages_to_send)
  <1>1. /\ flushing /\ messages_to_send # <<>>
        /\ messages_to_send' = Tail(messages_to_send)
        /\ UNCHANGED <<arp_entries, flushing>>
    BY DEF FlushOne
  <1>2. /\ x \in Saved /\ x = messages_to_send[1] /\ 1 \in DOMAIN messages_to_send
        /\ \A k \in DOMAIN messages_to_send' :
             k + 1 \in DOMAIN messages_to_send
             /\ messages_to_send'[k] = messages_to_send[k + 1]
    BY <1>1, Taken DEF TypeOK
  <1>3. \/ new_q' = new_q
        \/ ~IsDue(x) /\ new_q' = Append(new_q, x)
    BY DEF FlushOne, Keep
  <1>4. \A ip : EntriesOf(ip)' = EntriesOf(ip)
    BY <1>1 DEF EntriesOf
  <1>5. HasLast' /\ \A ip : Found(ip)' <=> Found(ip)
    BY <1>4 DEF Knows, HasLast, Found
  <1>6. ~IsDue(x) => ~Found(x.best.next_hop)
    BY <1>2 DEF Knows, IsDue
  <1>. HIDE DEF x
  <1>7. ASSUME NEW k \in DOMAIN new_q'
        PROVE  ~Found(new_q'[k].best.next_hop)
    <2>1. CASE new_q' = new_q
      BY <1>7, <2>1 DEF Knows
    <2>2. CASE ~IsDue(x) /\ new_q' = Append(new_q, x)
      <3>1. new_q \in Seq(Saved)
        BY DEF TypeOK
      <3>2. CASE k \in DOMAIN new_q
        <4>1. new_q'[k] = new_q[k]
          BY <1>2, <2>2, <3>1, <3>2, Appended
        <4>. QED
          BY <3>2, <4>1 DEF Knows
      <3>3. CASE k \notin DOMAIN new_q
        <4>1. k = Len(new_q) + 1
          BY <1>2, <1>7, <2>2, <3>1, <3>3, Appended
        <4>2. new_q'[k] = x
          BY <1>2, <2>2, <3>1, <4>1, Appended
        <4>. QED
          BY <1>6, <2>2, <4>2
      <3>. QED
        BY <3>2, <3>3
    <2>. QED
      BY <1>3, <2>1, <2>2
  <1>8. ASSUME NEW k \in DOMAIN messages_to_send', Found(messages_to_send'[k].best.next_hop)
        PROVE  messages_to_send'[k].best.next_hop = Heard.ip
    BY <1>2, <1>8 DEF Knows
  <1>. QED
    BY <1>1, <1>5, <1>7, <1>8 DEF Knows, Heard

LEMMA FlushEndsKnows ==
    ASSUME TypeOK, Knows, FlushEnds
    PROVE  Knows'
  <1>1. /\ messages_to_send' = new_q /\ new_q' = <<>> /\ ~flushing'
        /\ UNCHANGED arp_entries
    BY DEF FlushEnds
  <1>2. \A ip : EntriesOf(ip)' = EntriesOf(ip)
    BY <1>1 DEF EntriesOf
  <1>3. HasLast' /\ \A ip : Found(ip)' <=> Found(ip)
    BY <1>2 DEF Knows, HasLast, Found
  <1>4. DOMAIN new_q' = {}
    BY <1>1
  <1>. QED
    BY <1>1, <1>3, <1>4 DEF Knows

LEMMA StepKnows ==
    ASSUME TypeOK, Knows, [Next]_vars
    PROVE  Knows'
  <1>1. ASSUME NEW i \in Iface, Ignore(i) \/ Forward(i) \/ SearchForEver(i) \/ Reply(i)
        PROVE  UNCHANGED <<arp_entries, queues>>
    BY <1>1 DEF Ignore, Forward, SearchForEver, Reply, routerVars, queues
  <1>2. CASE Network
    BY <1>2, SameKnows DEF Network, SendPacket, Announce, Answer, Lose, routerVars, queues
  <1>3. CASE UNCHANGED vars
    BY <1>3, SameKnows DEF vars, routerVars, queues
  <1>. QED
    BY <1>1, <1>2, <1>3, SameKnows, SaveKnows, LearnKnows, FlushOneKnows, FlushEndsKnows
       DEF Next, Turn

(***************************************************************************)
(* Orders of sequences.                                                    *)
(***************************************************************************)
LEMMA AppendOrdered ==
    ASSUME NEW S, NEW s \in Seq(S), NEW e \in S, Ordered(s),
           \A k \in DOMAIN s : Precedes(s[k].p, e.p)
    PROVE  Ordered(Append(s, e))
  <1>. SUFFICES ASSUME NEW k \in DOMAIN Append(s, e), NEW l \in DOMAIN Append(s, e), k < l
                PROVE  Precedes(Append(s, e)[k].p, Append(s, e)[l].p)
    BY DEF Ordered
  <1>1. k \in DOMAIN s /\ Append(s, e)[k] = s[k]
    BY Appended
  <1>2. CASE l \in DOMAIN s
    BY <1>1, <1>2, Appended DEF Ordered
  <1>3. CASE l \notin DOMAIN s
    <2>1. l = Len(s) + 1
      BY <1>3, Appended
    <2>2. Append(s, e)[l] = e
      BY <2>1, Appended
    <2>. QED
      BY <1>1, <2>2
  <1>. QED
    BY <1>2, <1>3

LEMMA TailOrdered ==
    ASSUME NEW S, NEW s \in Seq(S), s # <<>>, Ordered(s)
    PROVE  /\ Ordered(Tail(s))
           /\ \A k \in DOMAIN Tail(s) : Precedes(Head(s).p, Tail(s)[k].p)
  <1>1. ASSUME NEW k \in DOMAIN Tail(s), NEW l \in DOMAIN Tail(s), k < l
        PROVE  Precedes(Tail(s)[k].p, Tail(s)[l].p)
    <2>1. k + 1 \in DOMAIN s /\ l + 1 \in DOMAIN s /\ k + 1 < l + 1
      BY <1>1, Taken
    <2>. QED
      BY <2>1, Taken DEF Ordered
  <1>2. ASSUME NEW k \in DOMAIN Tail(s)
        PROVE  Precedes(Head(s).p, Tail(s)[k].p)
    <2>1. 1 \in DOMAIN s /\ k + 1 \in DOMAIN s /\ 1 < k + 1
      BY Taken
    <2>. QED
      BY <2>1, Taken DEF Ordered
  <1>. QED
    BY <1>1, <1>2 DEF Ordered

LEMMA AppendOrderedTo ==
    ASSUME NEW S, NEW s \in Seq(S), NEW e \in S, NEW t, OrderedTo(s, t),
           \A l \in DOMAIN t : Precedes(e.p, t[l].p)
    PROVE  OrderedTo(Append(s, e), t)
  <1>. SUFFICES ASSUME NEW k \in DOMAIN Append(s, e), NEW l \in DOMAIN t
                PROVE  Precedes(Append(s, e)[k].p, t[l].p)
    BY DEF OrderedTo
  <1>1. CASE k \in DOMAIN s
    BY <1>1, Appended DEF OrderedTo
  <1>2. CASE k \notin DOMAIN s
    <2>1. k = Len(s) + 1
      BY <1>2, Appended
    <2>2. Append(s, e)[k] = e
      BY <2>1, Appended
    <2>. QED
      BY <2>2
  <1>. QED
    BY <1>1, <1>2

LEMMA OrderedToAppend ==
    ASSUME NEW S, NEW t \in Seq(S), NEW e \in S, NEW s, OrderedTo(s, t),
           \A k \in DOMAIN s : Precedes(s[k].p, e.p)
    PROVE  OrderedTo(s, Append(t, e))
  <1>. SUFFICES ASSUME NEW l \in DOMAIN Append(t, e), NEW k \in DOMAIN s
                PROVE  Precedes(s[k].p, Append(t, e)[l].p)
    BY DEF OrderedTo
  <1>1. CASE l \in DOMAIN t
    BY <1>1, Appended DEF OrderedTo
  <1>2. CASE l \notin DOMAIN t
    <2>1. l = Len(t) + 1
      BY <1>2, Appended
    <2>2. Append(t, e)[l] = e
      BY <2>1, Appended
    <2>. QED
      BY <2>2
  <1>. QED
    BY <1>1, <1>2

LEMMA OrderedToTail ==
    ASSUME NEW S, NEW t \in Seq(S), t # <<>>, NEW s, OrderedTo(s, t)
    PROVE  /\ OrderedTo(s, Tail(t))
           /\ \A k \in DOMAIN s : Precedes(s[k].p, Head(t).p)
  BY Taken DEF OrderedTo

(***************************************************************************)
(* The packets that are still to be taken come after those that were.      *)
(***************************************************************************)
Took ==
    {out[k].p : k \in DOMAIN out} \cup {new_q[k].p : k \in DOMAIN new_q}
    \cup {messages_to_send[k].p : k \in DOMAIN messages_to_send}

Before(q, p) == q.id # p.id /\ (q.from = p.from => q.id < p.id)

\* The places of the packets received; a packet is before those behind it
\* and those of the other interfaces.
Places ==
    {c \in Iface \X Nat : c[2] \in DOMAIN inbox[c[1]] /\ inbox[c[1]][c[2]].type = "ip"}
At(c) == inbox[c[1]][c[2]].p
Ahead(c, d) == c[1] # d[1] \/ c[2] < d[2]

Coming ==
    /\ \A q \in Took : q.id <= packets
    /\ \A c \in Places :
         /\ At(c).from = c[1] /\ At(c).id <= packets
         /\ \A q \in Took : Before(q, At(c))
         /\ \A d \in Places : Ahead(d, c) => Before(At(d), At(c))

LEMMA TakeComing ==
    ASSUME TypeOK, NEW i \in Iface, Take(i)
    PROVE  /\ \A c \in Places' : \E d \in Places :
                /\ At(c)' = At(d) /\ d[1] = c[1]
                /\ d[2] = IF c[1] = i THEN c[2] + 1 ELSE c[2]
                /\ d[1] = i => d[2] > 1
           /\ Head(inbox[i]).type = "ip" => <<i, 1>> \in Places /\ At(<<i, 1>>) = Head(inbox[i]).p
           /\ packets' = packets
  <1>1. /\ inbox[i] \in Seq(Frame) /\ inbox[i] # <<>>
        /\ inbox' = [inbox EXCEPT ![i] = Tail(@)] /\ packets' = packets
        /\ inbox \in [Iface -> Seq(Frame)]
    BY DEF TypeOK, Take, networkVars
  <1>2. /\ inbox'[i] = Tail(inbox[i])
        /\ \A j \in Iface : j # i => inbox'[j] = inbox[j]
    BY <1>1
  <1>3. ASSUME NEW c \in Places'
        PROVE  \E d \in Places :
                /\ At(c)' = At(d) /\ d[1] = c[1]
                /\ d[2] = IF c[1] = i THEN c[2] + 1 ELSE c[2]
                /\ d[1] = i => d[2] > 1
    <2>1. /\ c = <<c[1], c[2]>> /\ c[1] \in Iface /\ c[2] \in Nat
          /\ c[2] \in DOMAIN inbox'[c[1]] /\ inbox'[c[1]][c[2]].type = "ip"
      BY DEF Places
    <2>2. CASE c[1] = i
      <3>1. c[2] \in DOMAIN Tail(inbox[i]) /\ Tail(inbox[i])[c[2]].type = "ip"
        BY <1>2, <2>1, <2>2
      <3>2. /\ c[2] + 1 \in DOMAIN inbox[i] /\ c[2] + 1 > 1
            /\ Tail(inbox[i])[c[2]] = inbox[i][c[2] + 1]
        BY <1>1, <3>1, Taken
      <3>3. <<i, c[2] + 1>> \in Places
        BY <2>1, <3>1, <3>2 DEF Places
      <3>4. At(c)' = At(<<i, c[2] + 1>>)
        BY <1>2, <2>2, <3>2 DEF At
      <3>. QED
        BY <2>2, <3>2, <3>3, <3>4
    <2>3. CASE c[1] # i
      <3>1. inbox'[c[1]] = inbox[c[1]]
        BY <1>2, <2>1, <2>3
      <3>. QED
        BY <2>1, <2>3, <3>1 DEF Places, At
    <2>. QED
      BY <2>2, <2>3
  <1>4. Head(inbox[i]).type = "ip" => <<i, 1>> \in Places /\ At(<<i, 1>>) = Head(inbox[i]).p
    BY <1>1, Taken DEF Places, At
  <1>. QED
    BY <1>1, <1>3, <1>4

\* Nothing but the head of an inbox is taken.
LEMMA StillComing ==
    ASSUME TypeOK, Coming, NEW i \in Iface, Take(i),
           \A q \in Took' : \/ q \in Took
                            \/ /\ Head(inbox[i]).type = "ip"
                               /\ q.id = Head(inbox[i]).p.id /\ q.from = Head(inbox[i]).p.from
    PROVE  Coming'
  <1>1. ASSUME NEW q \in Took'
        PROVE  q.id <= packets' /\ \A c \in Places' : Before(q, At(c)')
    <2>1. CASE q \in Took
      <3>1. ASSUME NEW c \in Places'
            PROVE  Before(q, At(c)')
        <4>1. PICK d \in Places : At(c)' = At(d)
          BY TakeComing
        <4>. QED
          BY <2>1, <4>1 DEF Coming
      <3>. QED
        BY <2>1, <3>1, TakeComing DEF Coming
    <2>2. CASE /\ Head(inbox[i]).type = "ip"
               /\ q.id = Head(inbox[i]).p.id /\ q.from = Head(inbox[i]).p.from
      <3>1. /\ <<i, 1>> \in Places /\ q.id = At(<<i, 1>>).id /\ q.from = At(<<i, 1>>).from
            /\ packets' = packets
        BY <2>2, TakeComing
      <3>2. ASSUME NEW c \in Places'
            PROVE  Before(q, At(c)')
        <4>1. PICK d \in Places : /\ At(c)' = At(d) /\ (d[1] = i => d[2] > 1)
          BY TakeComing
        <4>2. Ahead(<<i, 1>>, d)
          BY <4>1 DEF Ahead
        <4>3. Before(At(<<i, 1>>), At(d))
          BY <3>1, <4>2 DEF Coming
        <4>. QED
          BY <3>1, <4>1, <4>3 DEF Before
      <3>. QED
        BY <3>1, <3>2 DEF Coming
    <2>. QED
      BY <2>1, <2>2
  <1>2. ASSUME NEW c \in Places'
        PROVE  /\ At(c)'.from = c[1] /\ At(c)'.id <= packets'
               /\ \A d \in Places' : Ahead(d, c) => Before(At(d)', At(c)')
    <2>1. PICK cc \in Places : /\ At(c)' = At(cc) /\ cc[1] = c[1]
                               /\ cc[2] = IF c[1] = i THEN c[2] + 1 ELSE c[2]
      BY TakeComing
    <2>2. ASSUME NEW d \in Places', Ahead(d, c)
          PROVE  Before(At(d)', At(c)')
      <3>1. PICK dd \in Places : /\ At(d)' = At(dd) /\ dd[1] = d[1]
                                 /\ dd[2] = IF d[1] = i THEN d[2] + 1 ELSE d[2]
        BY TakeComing
      <3>2. c[2] \in Nat /\ d[2] \in Nat
        BY DEF Places
      <3>3. Ahead(dd, cc)
        BY <2>1, <2>2, <3>1, <3>2 DEF Ahead
      <3>. QED
        BY <2>1, <3>1, <3>3 DEF Coming
    <2>. QED
      BY <2>1, <2>2, TakeComing DEF Coming
  <1>. QED
    BY <1>1, <1>2 DEF Coming

LEMMA SameTook ==
    ASSUME UNCHANGED <<out, queues>>
    PROVE  Took' = Took
  BY DEF Took, queues

LEMMA FlushTook ==
    ASSUME TypeOK, FlushOne \/ FlushEnds
    PROVE  Took' \subseteq Took
  <1>1. CASE FlushOne
    <2>. DEFINE x == Head(messages_to_send)
                e == Outgoing(x.p, x.best, Heard.mac)
    <2>1. /\ messages_to_send # <<>> /\ messages_to_send' = Tail(messages_to_send)
          /\ \/ out' = Append(out, e) /\ new_q' = new_q
             \/ new_q' = Append(new_q, x) /\ out' = out
      BY <1>1 DEF FlushOne, Keep
    <2>2. /\ x = messages_to_send[1] /\ 1 \in DOMAIN messages_to_send
          /\ \A k \in DOMAIN messages_to_send' :
               k + 1 \in DOMAIN messages_to_send
               /\ messages_to_send'[k] = messages_to_send[k + 1]
      BY <2>1, Taken DEF TypeOK
    <2>3. e.p = x.p
      BY DEF Outgoing
    <2>4. x.p \in Took
      BY <2>2 DEF Took
    <2>. HIDE DEF x, e
    <2>5. ASSUME NEW k \in DOMAIN messages_to_send'
          PROVE  messages_to_send'[k].p \in Took
      BY <2>2 DEF Took
    <2>6. ASSUME NEW k \in DOMAIN out'
          PROVE  out'[k].p \in Took
      <3>1. CASE out' = out
        BY <2>6, <3>1 DEF Took
      <3>2. CASE out' = Append(out, e) /\ k \in DOMAIN out
        <4>1. out'[k] = out[k]
          BY <3>2 DEF TypeOK
        <4>. QED
          BY <3>2, <4>1 DEF Took
      <3>3. CASE out' = Append(out, e) /\ k \notin DOMAIN out
        <4>1. out'[k] = e
          BY <3>3, <2>6 DEF TypeOK
        <4>. QED
          BY <2>3, <2>4, <4>1
      <3>. QED
        BY <2>1, <3>1, <3>2, <3>3
    <2>7. ASSUME NEW k \in DOMAIN new_q'
          PROVE  new_q'[k].p \in Took
      <3>1. CASE new_q' = new_q
        BY <2>7, <3>1 DEF Took
      <3>2. CASE new_q' = Append(new_q, x) /\ k \in DOMAIN new_q
        <4>1. new_q'[k] = new_q[k]
          BY <3>2 DEF TypeOK
        <4>. QED
          BY <3>2, <4>1 DEF Took
      <3>3. CASE new_q' = Append(new_q, x) /\ k \notin DOMAIN new_q
        <4>2. new_q \in Seq(Saved)
          BY DEF TypeOK
        <4>1. new_q'[k] = x
          BY <3>3, <2>7, <4>2
        <4>. QED
          BY <2>4, <4>1
      <3>. QED
        BY <2>1, <3>1, <3>2, <3>3
    <2>. QED
      BY <2>5, <2>6, <2>7 DEF Took
  <1>2. CASE FlushEnds
    <2>1. messages_to_send' = new_q /\ new_q' = <<>> /\ out' = out
      BY <1>2 DEF FlushEnds
    <2>2. DOMAIN new_q' = {}
      BY <2>1
    <2>. QED
      BY <2>1, <2>2 DEF Took
  <1>. QED
    BY <1>1, <1>2

LEMMA TurnComing ==
    ASSUME TypeOK, Coming, Turn
    PROVE  Coming'
  <1>1. ASSUME NEW i \in Iface, Ignore(i) \/ SearchForEver(i) \/ Reply(i)
        PROVE  Coming'
    <2>1. Take(i) /\ UNCHANGED <<out, queues>>
      BY <1>1 DEF Ignore, SearchForEver, Reply, routerVars, queues
    <2>. QED
      BY <2>1, SameTook, StillComing
  <1>2. ASSUME NEW i \in Iface, Learn(i)
        PROVE  Coming'
    <2>1. Take(i) /\ Took' = Took
      BY <1>2 DEF Learn, Took
    <2>. QED
      BY <2>1, StillComing
  <1>3. ASSUME NEW i \in Iface, Forward(i)
        PROVE  Coming'
    <2>. DEFINE p == Forwarded(Head(inbox[i]).p, my_ip[i])
                e == Outgoing(p, routes[p.dst], Entry(routes[p.dst].next_hop))
    <2>1. Take(i) /\ out' = Append(out, e) /\ UNCHANGED <<new_q, messages_to_send>>
      BY <1>3 DEF Forward, routerVars, queues
    <2>2. e.p = p
      BY DEF Outgoing
    <2>3. /\ Head(inbox[i]).type = "ip"
          /\ p.id = Head(inbox[i]).p.id /\ p.from = Head(inbox[i]).p.from
      BY <1>3, <2>1, ForUsTypes DEF Forward, ForUs
    <2>4. ASSUME NEW q \in Took'
          PROVE  q \in Took \/ q = p
      <3>. HIDE DEF e, p
      <3>1. ASSUME NEW k \in DOMAIN out', q = out'[k].p
            PROVE  q \in Took \/ q = p
        <4>1. CASE k \in DOMAIN out
          <5>1. out'[k] = out[k]
            BY <2>1, <4>1 DEF TypeOK
          <5>. QED
            BY <3>1, <4>1, <5>1 DEF Took
        <4>2. CASE k \notin DOMAIN out
          BY <2>1, <2>2, <3>1, <4>2 DEF TypeOK
        <4>. QED
          BY <4>1, <4>2
      <3>. QED
        BY <2>1, <2>4, <3>1 DEF Took
    <2>. HIDE DEF p, e
    <2>. QED
      BY <2>1, <2>3, <2>4, StillComing
  <1>4. ASSUME NEW i \in Iface, Save(i)
        PROVE  Coming'
    <2>. DEFINE p == Forwarded(Head(inbox[i]).p, my_ip[i])
                e == [p |-> p, best |-> routes[p.dst]]
    <2>1. Take(i) /\ messages_to_send' = Append(messages_to_send, e) /\ UNCHANGED <<new_q, out>>
      BY <1>4 DEF Save
    <2>2. e.p = p
      OBVIOUS
    <2>3. /\ Head(inbox[i]).type = "ip"
          /\ p.id = Head(inbox[i]).p.id /\ p.from = Head(inbox[i]).p.from
      BY <1>4, <2>1, ForUsTypes DEF Save, ForUs
    <2>4. ASSUME NEW q \in Took'
          PROVE  q \in Took \/ q = p
      <3>. HIDE DEF e, p
      <3>1. ASSUME NEW k \in DOMAIN messages_to_send', q = messages_to_send'[k].p
            PROVE  q \in Took \/ q = p
        <4>1. CASE k \in DOMAIN messages_to_send
          <5>1. messages_to_send'[k] = messages_to_send[k]
            BY <2>1, <4>1 DEF TypeOK
          <5>. QED
            BY <3>1, <4>1, <5>1 DEF Took
        <4>2. CASE k \notin DOMAIN messages_to_send
          BY <2>1, <2>2, <3>1, <4>2 DEF TypeOK
        <4>. QED
          BY <4>1, <4>2
      <3>. QED
        BY <2>1, <2>4, <3>1 DEF Took
    <2>. HIDE DEF p, e
    <2>. QED
      BY <2>1, <2>3, <2>4, StillComing
  <1>5. CASE FlushOne \/ FlushEnds
    <2>1. Took' \subseteq Took
      BY <1>5, FlushTook
    <2>2. UNCHANGED <<inbox, packets>>
      BY <1>5 DEF FlushOne, FlushEnds, networkVars
    <2>3. Places' = Places /\ \A c : At(c)' = At(c)
      BY <2>2 DEF Places, At
    <2>. QED
      BY <2>1, <2>2, <2>3 DEF Coming
  <1>. QED
    BY <1>1, <1>2, <1>3, <1>4, <1>5 DEF Turn

LEMMA TookTypes ==
    ASSUME TypeOK
    PROVE  Took \subseteq Packet
  <1>1. ASSUME NEW k \in DOMAIN out
        PROVE  out[k].p \in Packet
    <2>1. out \in Seq([interface : Iface, to : Mac, p : Packet])
      BY DEF TypeOK
    <2>2. out[k] \in [interface : Iface, to : Mac, p : Packet]
      BY <2>1, LenProperties, ElementOfSeq
    <2>. QED
      BY <2>2
  <1>2. ASSUME NEW s \in Seq(Saved), NEW k \in DOMAIN s
        PROVE  s[k].p \in Packet
    BY LenProperties, ElementOfSeq, SavedParts
  <1>. QED
    BY <1>1, <1>2 DEF Took, TypeOK

LEMMA ReceiveComing ==
    ASSUME TypeOK, Coming, NEW i \in Iface, NEW frame \in Frame, Receive(i, frame),
           UNCHANGED <<out, queues>>,
           IF frame.type = "ip"
           THEN frame.p.from = i /\ frame.p.id = packets + 1 /\ packets' = packets + 1
           ELSE packets' = packets
    PROVE  Coming'
  <1>. DEFINE c0 == <<i, Len(inbox[i]) + 1>>
  <1>1. /\ inbox[i] \in Seq(Frame)
        /\ inbox'[i] = Append(inbox[i], frame)
        /\ \A j \in Iface : j # i => inbox'[j] = inbox[j]
        /\ packets \in Nat
    BY DEF TypeOK, Receive
  <1>2. ASSUME NEW c \in Places', c # c0
        PROVE  c \in Places /\ At(c)' = At(c)
    <2>1. /\ c = <<c[1], c[2]>> /\ c[1] \in Iface /\ c[2] \in Nat
          /\ c[2] \in DOMAIN inbox'[c[1]] /\ inbox'[c[1]][c[2]].type = "ip"
      BY DEF Places
    <2>2. CASE c[1] = i
      <3>1. c[2] \in 1 .. Len(inbox[i]) + 1 /\ c[2] # Len(inbox[i]) + 1
        BY <1>1, <1>2, <2>1, <2>2, Appended
      <3>2. c[2] \in DOMAIN inbox[i] /\ inbox'[i][c[2]] = inbox[i][c[2]]
        BY <1>1, <3>1, Appended
      <3>. QED
        BY <2>1, <2>2, <3>2 DEF Places, At
    <2>3. CASE c[1] # i
      BY <1>1, <2>1, <2>3 DEF Places, At
    <2>. QED
      BY <2>2, <2>3
  <1>3. ASSUME NEW c \in Places', c = c0
        PROVE  /\ frame.type = "ip" /\ At(c)' = frame.p
               /\ At(c)'.from = i /\ At(c)'.id = packets + 1 /\ packets' = packets + 1
    <2>1. c[1] = i /\ inbox'[c[1]][c[2]] = frame
      BY <1>1, <1>3, Appended
    <2>2. frame.type = "ip"
      BY <2>1 DEF Places
    <2>3. At(c)' = frame.p
      BY <2>1 DEF At
    <2>. QED
      BY <2>2, <2>3
  <1>4. Took' = Took
    BY SameTook
  <1>5. packets <= packets' /\ packets' \in Nat
    BY <1>1
  <1>6. ASSUME NEW c \in Places
        PROVE  At(c).id \in Nat
    <2>1. inbox[c[1]] \in Seq(Frame) /\ c[2] \in DOMAIN inbox[c[1]]
          /\ inbox[c[1]][c[2]].type = "ip"
      BY DEF Places, TypeOK
    <2>2. inbox[c[1]][c[2]] \in Frame
      BY <2>1, LenProperties, ElementOfSeq
    <2>. QED
      BY <2>1, <2>2, FrameParts DEF At, Packet
  <1>7. c0[1] = i /\ c0[2] \in Nat
        /\ \A c \in Places : c[1] = i => c[2] < c0[2]
    <2>1. c0[1] = i /\ c0[2] = Len(inbox[i]) + 1 /\ Len(inbox[i]) \in Nat
      BY <1>1, LenProperties
    <2>2. ASSUME NEW c \in Places, c[1] = i
          PROVE  c[2] < c0[2]
      BY <1>1, <2>1, <2>2, LenProperties DEF Places
    <2>. QED
      BY <2>1, <2>2
  <1>. HIDE DEF c0
  <1>8. ASSUME NEW q \in Took
        PROVE  q.id <= packets' /\ \A c \in Places' : Before(q, At(c)')
    <2>1. q.id <= packets /\ q \in Packet
      BY TookTypes DEF Coming
    <2>2. ASSUME NEW c \in Places'
          PROVE  Before(q, At(c)')
      <3>1. CASE c = c0
        <4>1. At(c)'.id = packets + 1
          BY <1>3, <2>2, <3>1
        <4>2. q.id \in Nat /\ packets \in Nat
          BY <1>1, <2>1 DEF Packet
        <4>. QED
          BY <2>1, <4>1, <4>2 DEF Before
      <3>2. CASE c # c0
        BY <1>2, <3>2 DEF Coming
      <3>. QED
        BY <3>1, <3>2
    <2>. QED
      BY <1>1, <1>5, <2>1, <2>2 DEF Packet
  <1>9. ASSUME NEW c \in Places'
        PROVE  /\ At(c)'.from = c[1] /\ At(c)'.id <= packets'
               /\ \A d \in Places' : Ahead(d, c) => Before(At(d)', At(c)')
    <2>1. CASE c = c0
      <3>1. At(c)'.from = c[1] /\ At(c)'.id = packets' /\ packets' = packets + 1
        BY <1>3, <1>7, <1>9, <2>1
      <3>2. ASSUME NEW d \in Places', Ahead(d, c)
            PROVE  Before(At(d)', At(c)')
        <4>1. d # c0
          BY <1>7, <2>1, <3>2 DEF Ahead
        <4>2. d \in Places /\ At(d)' = At(d)
          BY <1>2, <4>1
        <4>3. At(d).id <= packets /\ At(d).id \in Nat
          BY <1>6, <4>2 DEF Coming
        <4>. QED
          BY <1>1, <3>1, <4>2, <4>3 DEF Before
      <3>. QED
        BY <1>1, <3>1, <3>2
    <2>2. CASE c # c0
      <3>1. c \in Places /\ At(c)' = At(c) /\ At(c).id <= packets /\ At(c).id \in Nat
            /\ At(c).from = c[1]
        BY <1>2, <1>6, <2>2 DEF Coming
      <3>2. ASSUME NEW d \in Places', Ahead(d, c)
            PROVE  Before(At(d)', At(c)')
        <4>1. CASE d = c0
          <5>1. d[1] # c[1]
            BY <1>7, <3>1, <3>2, <4>1 DEF Ahead, Places
          <5>2. At(d)'.id = packets + 1 /\ At(d)'.from = d[1]
            BY <1>3, <1>7, <3>2, <4>1
          <5>. QED
            BY <1>1, <3>1, <5>1, <5>2 DEF Before
        <4>2. CASE d # c0
          BY <1>2, <3>1, <3>2, <4>2 DEF Coming
        <4>. QED
          BY <4>1, <4>2
      <3>. QED
        BY <1>1, <1>5, <3>1, <3>2
    <2>. QED
      BY <2>1, <2>2
  <1>. QED
    BY <1>4, <1>8, <1>9 DEF Coming

LEMMA NetworkComing ==
    ASSUME TypeOK, Coming, Network
    PROVE  Coming'
  <1>1. CASE SendPacket
    <2>1. /\ UNCHANGED <<out, queues>> /\ packets' = packets + 1
      BY <1>1 DEF SendPacket, routerVars, queues
    <2>2. PICK t \in Traffic :
            Receive(t.from, [type |-> "ip", to |-> t.to, sum |-> t.sum,
                             p |-> [id |-> packets + 1, from |-> t.from, src |-> t.src,
                                    dst |-> t.dst, ttl |-> t.ttl, kind |-> t.kind]])
      BY <1>1 DEF SendPacket
    <2>. DEFINE p == [id |-> packets + 1, from |-> t.from, src |-> t.src,
                      dst |-> t.dst, ttl |-> t.ttl, kind |-> t.kind]
                frame == [type |-> "ip", to |-> t.to, sum |-> t.sum, p |-> p]
    <2>3. t \in [from : Iface, to : To, src : Addr, dst : Addr, ttl : 0 .. 255,
                 kind : Kind, sum : BOOLEAN]
      BY RouterAssumption
    <2>4. packets + 1 \in Nat
      BY DEF TypeOK
    <2>5. p \in Packet
      BY <2>3, <2>4 DEF Packet
    <2>6. /\ t.from \in Iface /\ frame \in Frame /\ frame.type = "ip"
          /\ frame.p.from = t.from /\ frame.p.id = packets + 1
      BY <2>3, <2>5 DEF Frame
    <2>. HIDE DEF frame
    <2>7. Receive(t.from, frame)
      BY <2>2 DEF frame
    <2>. QED
      BY <2>1, <2>6, <2>7, ReceiveComing
  <1>2. ASSUME NEW host \in Hosts, Announce(host) \/ Answer(host)
        PROVE  Coming'
    <2>1. UNCHANGED <<out, queues>> /\ packets' = packets
      BY <1>2 DEF Announce, Answer, routerVars, queues, networkVars
    <2>2. PICK frame \in Frame : frame.type = "arp" /\ Receive(IfaceOf(host), frame)
      BY <1>2, HostTypes DEF Announce, Answer, ArpFrame, Frame
    <2>. QED
      BY <2>1, <2>2, HostTypes, ReceiveComing
  <1>3. ASSUME NEW host \in Hosts, Lose(host)
        PROVE  Coming'
    BY <1>3, SameTook DEF Lose, routerVars, queues, Coming, Places, At
  <1>. QED
    BY <1>1, <1>2, <1>3 DEF Network

(***************************************************************************)
(* Packets stay in order.                                                  *)
(***************************************************************************)
LEMMA TookAll ==
    /\ \A k \in DOMAIN out : out[k].p \in Took
    /\ \A k \in DOMAIN new_q : new_q[k].p \in Took
    /\ \A k \in DOMAIN messages_to_send : messages_to_send[k].p \in Took
  BY DEF Took

\* A packet that is taken comes after those taken before.
LEMMA TakenAfter ==
    ASSUME TypeOK, Coming, NEW i \in Iface, Take(i), ForUs(Head(inbox[i])),
           NEW q \in Took
    PROVE  /\ Precedes(q, Forwarded(Head(inbox[i]).p, my_ip[i]))
           /\ q.id # Forwarded(Head(inbox[i]).p, my_ip[i]).id
  <1>1. <<i, 1>> \in Places /\ At(<<i, 1>>) = Head(inbox[i]).p
    BY TakeComing DEF ForUs
  <1>2. Before(q, Head(inbox[i]).p)
    BY <1>1 DEF Coming
  <1>3. /\ Forwarded(Head(inbox[i]).p, my_ip[i]).id = Head(inbox[i]).p.id
        /\ Forwarded(Head(inbox[i]).p, my_ip[i]).from = Head(inbox[i]).p.from
    BY ForUsTypes
  <1>. HIDE DEF Forwarded
  <1>. QED
    BY <1>2, <1>3 DEF Before, Precedes

LEMMA SavedAt ==
    ASSUME NEW s \in Seq(Saved), NEW k \in DOMAIN s
    PROVE  s[k] \in Saved /\ NextHop(s[k].p) = s[k].best.next_hop
  BY LenProperties, ElementOfSeq, SavedParts

LEMMA EmptyOrdered ==
    ASSUME NEW s
    PROVE  Ordered(<<>>) /\ OrderedTo(s, <<>>) /\ OrderedTo(<<>>, s)
  <1>1. DOMAIN <<>> = {}
    OBVIOUS
  <1>. QED
    BY <1>1 DEF Ordered, OrderedTo

LEMMA ForwardInOrder ==
    ASSUME TypeOK, Knows, Coming, InOrder, NEW i \in Iface, Forward(i)
    PROVE  InOrder'
  <1>. DEFINE p == Forwarded(Head(inbox[i]).p, my_ip[i])
              e == Outgoing(p, routes[p.dst], Entry(routes[p.dst].next_hop))
              S == [interface : Iface, to : Mac, p : Packet]
  <1>1. /\ Take(i) /\ ForUs(Head(inbox[i])) /\ ~flushing /\ Routable(p) /\ p \in Packet
        /\ Found(NextHop(p)) /\ out' = Append(out, e)
        /\ UNCHANGED <<new_q, messages_to_send>>
    BY ForUsTypes DEF Forward, Take, routerVars, queues, NextHop
  <1>2. e.p = p /\ e \in S /\ out \in Seq(S)
    BY <1>1, SavedTypes, EntryTypes DEF Outgoing, TypeOK, Knows, NextHop
  <1>3. ASSUME NEW q \in Took
        PROVE  Precedes(q, p) /\ q.id # p.id
    BY <1>1, TakenAfter
  <1>4. new_q = <<>>
    BY <1>1 DEF Knows
  <1>. HIDE DEF p, e, S
  <1>5. Ordered(out')
    <2>1. \A k \in DOMAIN out : Precedes(out[k].p, e.p)
      BY <1>2, <1>3, TookAll
    <2>. QED
      BY <1>1, <1>2, <2>1, AppendOrdered DEF InOrder
  <1>6. OrderedTo(out', messages_to_send)
    <2>1. ASSUME NEW l \in DOMAIN messages_to_send
          PROVE  Precedes(e.p, messages_to_send[l].p)
      <3>1. ~Found(NextHop(messages_to_send[l].p))
        BY <1>1, SavedAt DEF TypeOK, Knows
      <3>2. p.id # messages_to_send[l].p.id
        BY <1>3, TookAll
      <3>. QED
        BY <1>1, <1>2, <3>1, <3>2 DEF Precedes
    <2>. QED
      BY <1>1, <1>2, <2>1, AppendOrderedTo DEF InOrder
  <1>. QED
    BY <1>1, <1>4, <1>5, <1>6, EmptyOrdered DEF InOrder

LEMMA SaveInOrder ==
    ASSUME TypeOK, Knows, Coming, InOrder, NEW i \in Iface, Save(i)
    PROVE  InOrder'
  <1>. DEFINE p == Forwarded(Head(inbox[i]).p, my_ip[i])
              e == [p |-> p, best |-> routes[p.dst]]
  <1>1. /\ Take(i) /\ ForUs(Head(inbox[i])) /\ Routable(p) /\ p \in Packet
        /\ messages_to_send' = Append(messages_to_send, e)
        /\ UNCHANGED <<new_q, out>>
    BY ForUsTypes DEF Save
  <1>2. e.p = p /\ e \in Saved /\ messages_to_send \in Seq(Saved)
    BY <1>1, SavedTypes DEF TypeOK
  <1>3. ASSUME NEW q \in Took
        PROVE  Precedes(q, p)
    BY <1>1, TakenAfter
  <1>. HIDE DEF p, e
  <1>4. Ordered(messages_to_send')
    <2>1. \A k \in DOMAIN messages_to_send : Precedes(messages_to_send[k].p, e.p)
      BY <1>2, <1>3, TookAll
    <2>. QED
      BY <1>1, <1>2, <2>1, AppendOrdered DEF InOrder
  <1>5. OrderedTo(out, messages_to_send')
    <2>1. \A k \in DOMAIN out : Precedes(out[k].p, e.p)
      BY <1>2, <1>3, TookAll
    <2>. QED
      BY <1>1, <1>2, <2>1, OrderedToAppend DEF InOrder
  <1>6. OrderedTo(new_q, messages_to_send')
    <2>1. \A k \in DOMAIN new_q : Precedes(new_q[k].p, e.p)
      BY <1>2, <1>3, TookAll
    <2>. QED
      BY <1>1, <1>2, <2>1, OrderedToAppend DEF InOrder
  <1>. QED
    BY <1>1, <1>4, <1>5, <1>6 DEF InOrder

LEMMA FlushOneInOrder ==
    ASSUME TypeOK, Knows, InOrder, FlushOne
    PROVE  InOrder'
  <1>. DEFINE x == Head(messages_to_send)
              e == Outgoing(x.p, x.best, Heard.mac)
              S == [interface : Iface, to : Mac, p : Packet]
  <1>1. /\ flushing /\ messages_to_send # <<>>
        /\ messages_to_send' = Tail(messages_to_send)
        /\ \/ IsDue(x) /\ out' = Append(out, e) /\ new_q' = new_q
           \/ new_q' = Append(new_q, x) /\ out' = out
    BY DEF FlushOne, Keep
  <1>2. messages_to_send \in Seq(Saved) /\ new_q \in Seq(Saved) /\ out \in Seq(S)
    BY DEF TypeOK
  <1>3. x \in Saved /\ x.best.next_hop = NextHop(x.p)
    BY <1>1, <1>2, Taken, SavedParts
  <1>4. /\ Ordered(messages_to_send')
        /\ \A k \in DOMAIN messages_to_send' : Precedes(x.p, messages_to_send'[k].p)
    BY <1>1, <1>2, TailOrdered DEF InOrder
  <1>5. /\ OrderedTo(out, messages_to_send')
        /\ \A k \in DOMAIN out : Precedes(out[k].p, x.p)
    BY <1>1, <1>2, OrderedToTail DEF InOrder
  <1>6. /\ OrderedTo(new_q, messages_to_send')
        /\ \A k \in DOMAIN new_q : Precedes(new_q[k].p, x.p)
    BY <1>1, <1>2, OrderedToTail DEF InOrder
  <1>7. e.p = x.p
    BY DEF Outgoing
  <1>8. IsDue(x) => e \in S
    <2>1. Len(arp_entries) \in 1 .. Len(arp_entries)
      BY <1>1, EmptySeq DEF Knows, TypeOK
    <2>2. Heard \in [ip : Addr, mac : Mac]
      BY <2>1, ElementOfSeq DEF Heard, TypeOK
    <2>. QED
      BY <1>3, <2>2, SavedParts DEF Outgoing
  <1>9. IsDue(x) => NextHop(x.p) = Heard.ip
    BY <1>3 DEF IsDue
  <1>. HIDE DEF x, e, S
  <1>10. CASE IsDue(x) /\ out' = Append(out, e) /\ new_q' = new_q
    <2>1. Ordered(out')
      BY <1>2, <1>5, <1>7, <1>8, <1>10, AppendOrdered DEF InOrder
    <2>2. OrderedTo(out', messages_to_send')
      BY <1>2, <1>4, <1>5, <1>7, <1>8, <1>10, AppendOrderedTo
    <2>3. ASSUME NEW k \in DOMAIN new_q
          PROVE  Precedes(e.p, new_q[k].p)
      <3>1. ~Found(NextHop(new_q[k].p))
        BY <1>2, SavedAt DEF Knows
      <3>2. Found(NextHop(x.p))
        <4>1. Len(arp_entries) \in DOMAIN arp_entries
          BY <1>1, EmptySeq, LenProperties DEF Knows, TypeOK
        <4>. QED
          BY <1>9, <1>10, <4>1 DEF Found, EntriesOf, Heard
      <3>3. x.p.id # new_q[k].p.id
        BY <1>6 DEF Precedes
      <3>. QED
        BY <1>7, <3>1, <3>2, <3>3 DEF Precedes
    <2>4. OrderedTo(out', new_q)
      BY <1>2, <1>8, <1>10, <2>3, AppendOrderedTo DEF InOrder
    <2>. QED
      BY <1>4, <1>6, <1>10, <2>1, <2>2, <2>4 DEF InOrder
  <1>11. CASE new_q' = Append(new_q, x) /\ out' = out
    <2>1. Ordered(new_q')
      BY <1>2, <1>3, <1>6, <1>11, AppendOrdered DEF InOrder
    <2>2. OrderedTo(out, new_q')
      BY <1>2, <1>3, <1>5, <1>11, OrderedToAppend DEF InOrder
    <2>3. OrderedTo(new_q', messages_to_send')
      BY <1>2, <1>3, <1>4, <1>6, <1>11, AppendOrderedTo
    <2>. QED
      BY <1>4, <1>5, <1>11, <2>1, <2>2, <2>3 DEF InOrder
  <1>. QED
    BY <1>1, <1>10, <1>11

LEMMA StepInOrder ==
    ASSUME TypeOK, Knows, Coming, InOrder, [Next]_vars
    PROVE  InOrder'
  <1>1. ASSUME UNCHANGED <<out, new_q, messages_to_send>>
        PROVE  InOrder'
    BY <1>1 DEF InOrder
  <1>2. ASSUME NEW i \in Iface, Ignore(i) \/ SearchForEver(i) \/ Reply(i) \/ Learn(i)
        PROVE  InOrder'
    BY <1>1, <1>2 DEF Ignore, SearchForEver, Reply, Learn, routerVars, queues
  <1>3. CASE FlushEnds
    <2>1. messages_to_send' = new_q /\ new_q' = <<>> /\ out' = out
      BY <1>3 DEF FlushEnds
    <2>. QED
      BY <2>1, EmptyOrdered DEF InOrder
  <1>4. CASE Network
    BY <1>1, <1>4 DEF Network, SendPacket, Announce, Answer, Lose, routerVars, queues
  <1>5. CASE UNCHANGED vars
    BY <1>1, <1>5 DEF vars, routerVars, queues
  <1>. QED
    BY <1>2, <1>3, <1>4, <1>5, ForwardInOrder, SaveInOrder, FlushOneInOrder DEF Next, Turn

(***************************************************************************)
(* The theorems.                                                           *)
(***************************************************************************)
RouterInv == TypeOK /\ Knows /\ Coming /\ InOrder

LEMMA InitInv ==
    ASSUME Init
    PROVE  RouterInv
  <1>1. DOMAIN <<>> = {}
    OBVIOUS
  <1>2. TypeOK
    <2>1. \A S : <<>> \in Seq(S)
      OBVIOUS
    <2>2. inbox \in [Iface -> Seq(Frame)] /\ asked \in [Addr -> Nat]
      BY <2>1 DEF Init
    <2>. QED
      BY <2>1, <2>2 DEF Init, TypeOK
  <1>3. Knows
    BY <1>1 DEF Init, Knows, HasLast, Found, EntriesOf
  <1>4. Took = {} /\ Places = {}
    BY <1>1 DEF Init, Took, Places
  <1>5. InOrder
    BY EmptyOrdered DEF Init, InOrder
  <1>. QED
    BY <1>2, <1>3, <1>4, <1>5 DEF RouterInv, Coming

LEMMA StepInv ==
    ASSUME RouterInv, [Next]_vars
    PROVE  RouterInv'
  <1>1. CASE UNCHANGED vars
    <2>1. TypeOK'
      BY <1>1 DEF RouterInv, TypeOK, vars, routerVars, networkVars
    <2>2. Took' = Took /\ Places' = Places /\ \A c : At(c)' = At(c)
      BY <1>1 DEF vars, routerVars, Took, Places, At
    <2>3. Coming'
      BY <1>1, <2>2 DEF RouterInv, Coming, vars, networkVars
    <2>. QED
      BY <2>1, <2>3, StepKnows, StepInOrder DEF RouterInv
  <1>2. CASE Next
    BY <1>2, TurnTypes, NetworkTypes, TurnComing, NetworkComing, StepKnows, StepInOrder
       DEF RouterInv, Next, Knows
  <1>. QED
    BY <1>1, <1>2

LEMMA AlwaysInv == Spec => []RouterInv
  BY InitInv, StepInv, PTL DEF Spec

\* The router and its network keep their types; no ttl that leaves or waits
\* is outside a byte.
THEOREM Typed == Spec => []TypeOK
  BY AlwaysInv, PTL DEF RouterInv

\* Between two frames no packet waits for an address the router knows.
THEOREM NothingLeftBehind == Spec => []NoneLeftBehind
  <1>1. RouterInv => NoneLeftBehind
    BY DEF RouterInv, Knows, NoneLeftBehind
  <1>. QED
    BY <1>1, AlwaysInv, PTL

\* Packets of one interface for one next hop are never reordered nor doubled,
\* however ARP frames and the flush interleave with them.
THEOREM OrderKept == Spec => []InOrder
  BY AlwaysInv, PTL DEF RouterInv

\* A packet leaves for the hardware address of the newest entry that was learnt
\* for its next hop.
THEOREM LastLearntUsed == Spec => ToLastLearnt
  <1>. DEFINE A == \A k \in DOMAIN out' \ DOMAIN out :
                     LastLearnt(NextHop(out'[k].p), out'[k].to)
  <1>1. ASSUME NEW S, out \in Seq(S), NEW e \in S, out' = Append(out, e),
               LastLearnt(NextHop(e.p), e.to)
        PROVE  A
    <2>1. ASSUME NEW k \in DOMAIN out' \ DOMAIN out
          PROVE  out'[k] = e
      <3>1. k = Len(out) + 1
        BY <1>1, Appended
      <3>. QED
        BY <1>1, <3>1, Appended
    <2>. QED
      BY <1>1, <2>1
  <1>2. ASSUME RouterInv, NEW i \in Iface, Forward(i)
        PROVE  A
    <2>. DEFINE p == Forwarded(Head(inbox[i]).p, my_ip[i])
                e == Outgoing(p, routes[p.dst], Entry(NextHop(p)))
                S == [interface : Iface, to : Mac, p : Packet]
    <2>1. /\ Take(i) /\ ForUs(Head(inbox[i])) /\ Routable(p)
          /\ Found(NextHop(p)) /\ out' = Append(out, e)
      BY <1>2 DEF Forward, NextHop
    <2>2. p \in Packet /\ out \in Seq(S)
      BY <1>2, <2>1, ForUsTypes DEF RouterInv, TypeOK
    <2>. HIDE DEF p
    <2>3. NextHop(p) \in Addr /\ routes[p.dst].interface \in Iface
      BY <2>1, <2>2, SavedTypes
    <2>4. Entry(NextHop(p)) \in Mac /\ LastLearnt(NextHop(p), Entry(NextHop(p)))
      BY <1>2, <2>1, <2>3, EntryTypes DEF RouterInv, Knows
    <2>5. e.p = p /\ e.to = Entry(NextHop(p)) /\ e \in S
      BY <2>2, <2>3, <2>4 DEF Outgoing
    <2>. HIDE DEF e, S
    <2>6. LastLearnt(NextHop(e.p), e.to)
      BY <2>4, <2>5
    <2>. QED
      BY <1>1, <2>1, <2>2, <2>5, <2>6
  <1>3. ASSUME RouterInv, FlushOne
        PROVE  A
    <2>. DEFINE x == Head(messages_to_send)
                e == Outgoing(x.p, x.best, Heard.mac)
                S == [interface : Iface, to : Mac, p : Packet]
    <2>1. /\ flushing /\ messages_to_send # <<>>
          /\ \/ IsDue(x) /\ out' = Append(out, e)
             \/ out' = out
      BY <1>3 DEF FlushOne
    <2>2. messages_to_send \in Seq(Saved) /\ out \in Seq(S)
      BY <1>3 DEF RouterInv, TypeOK
    <2>3. x \in Saved
      BY <2>1, <2>2, Taken
    <2>4. /\ Len(arp_entries) \in 1 .. Len(arp_entries)
          /\ DOMAIN arp_entries = 1 .. Len(arp_entries)
          /\ Heard \in [ip : Addr, mac : Mac]
      <3>1. arp_entries \in Seq([ip : Addr, mac : Mac]) /\ arp_entries # <<>>
        BY <1>3, <2>1 DEF RouterInv, Knows, TypeOK
      <3>2. Len(arp_entries) \in 1 .. Len(arp_entries)
        BY <3>1, EmptySeq
      <3>. QED
        BY <3>1, <3>2, LenProperties, ElementOfSeq DEF Heard
    <2>5. LastLearnt(Heard.ip, Heard.mac)
      <3>1. Heard = [ip |-> Heard.ip, mac |-> Heard.mac]
        BY <2>4
      <3>. QED
        BY <2>4, <3>1 DEF LastLearnt, Heard
    <2>6. e \in S /\ e.p = x.p /\ e.to = Heard.mac
      BY <2>3, <2>4, SavedParts DEF Outgoing
    <2>7. IsDue(x) => LastLearnt(NextHop(e.p), e.to)
      BY <2>3, <2>5, <2>6, SavedParts DEF IsDue
    <2>. HIDE DEF x, e, S
    <2>8. CASE out' = out
      BY <2>8
    <2>9. CASE IsDue(x) /\ out' = Append(out, e)
      BY <1>1, <2>2, <2>6, <2>7, <2>9
    <2>. QED
      BY <2>1, <2>8, <2>9
  <1>4. UNCHANGED out => A
    OBVIOUS
  <1>. HIDE DEF A
  <1>5. ASSUME NEW i \in Iface,
               Ignore(i) \/ Save(i) \/ SearchForEver(i) \/ Reply(i) \/ Learn(i)
        PROVE  UNCHANGED out
    BY <1>5 DEF Ignore, Save, SearchForEver, Reply, Learn
  <1>6. FlushEnds \/ Network => UNCHANGED out
    BY DEF FlushEnds, Network, SendPacket, Announce, Answer, Lose
  <1>7. RouterInv /\ [Next]_vars => [A]_vars
    BY <1>2, <1>3, <1>4, <1>5, <1>6 DEF Next, Turn
  <1>8. Spec => [][A]_vars
    BY <1>7, AlwaysInv, PTL DEF Spec
  <1>. QED
    BY <1>8 DEF A, ToLastLearnt
=============================================================================
