------------------------------ MODULE ForwardIp -------------------------------
(***************************************************************************)
(* tema1/router.c: forward_ip with the binary search of best_route_search, *)
(* one packet against one routing table.                                   *)
(*                                                                         *)
(* Prefixes, masks and addresses are the integers the code compares: the   *)
(* four bytes of an address as they lie in memory, little-endian, so that  *)
(* their order is not the order of the networks.  Masked is bitwise and.  *)
(***************************************************************************)
EXTENDS IpHeader, Sequences

CONSTANTS
    Address,        \* addresses, prefixes and masks
    Masked(_, _),   \* bitwise and of an address and a mask
    my_ip,          \* the router's address on the packet's interface
    Tables,         \* the sorted routing tables
    Packets(_),     \* the headers that arrive under a table
    ErrorOthers     \* bound: sums of the other words of an error's header

IP_ICMP_PROTOCOL == 1
MAX_TTL == 62
Icmp == {"echo_request", "echo_reply", "expired", "unreachable", "none"}

Entry == [prefix : Address, mask : Address]
Header ==
    [src : Address, dst : Address, ttl : Byte, protocol : Byte, icmp : Icmp,
     others : Word16, check : Word16]

\* rtable_comp; the table is sorted with it (qsort).
rtable_comp(a, b) ==
    IF a.prefix # b.prefix THEN a.prefix - b.prefix ELSE a.mask - b.mask
Sorted(t) == \A k, l \in DOMAIN t : k < l => rtable_comp(t[k], t[l]) <= 0

ASSUME ForwardAssumption ==
    /\ Address \subseteq Nat
    /\ \A a, m \in Address : Masked(a, m) \in Nat
    /\ my_ip \in Address
    /\ ErrorOthers \subseteq Word16
    /\ \A t \in Tables : /\ t \in Seq(Entry) /\ t # <<>> /\ Sorted(t)
                         /\ \A h \in Packets(t) : h \in Header

VARIABLES
    route_table,    \* sorted
    arrived,        \* the header as it arrived
    ip_hdr,         \* the header, rewritten in place
    low, high,      \* the search: entries low to low + high
    pc              \* "received", "route", "search", "found", "sent" or "dropped"

vars == <<route_table, arrived, ip_hdr, low, high, pc>>

Init ==
    /\ route_table \in Tables /\ ip_hdr \in Packets(route_table)
    /\ arrived = ip_hdr
    /\ low = 1 /\ high = 0
    /\ pc = "received"

(***************************************************************************)
(* forward_ip.                                                             *)
(***************************************************************************)
Drop ==
    /\ pc = "received"
    /\ ip_hdr.check # ip_checksum(ip_hdr)
    /\ pc' = "dropped"
    /\ UNCHANGED <<route_table, arrived, ip_hdr, low, high>>

\* create_error_icmp and the checksum computed after it.
Error(h, kind, others) ==
    LET e == [src |-> my_ip, dst |-> h.src, ttl |-> MAX_TTL, icmp |-> kind,
              protocol |-> IP_ICMP_PROTOCOL, others |-> others, check |-> 0]
    IN  [e EXCEPT !.check = ip_checksum(e)]

\* create_echo_reply: neither the addresses nor the header's checksum.
EchoReply(h) ==
    IF h.icmp = "echo_request" THEN [h EXCEPT !.icmp = "echo_reply", !.ttl = MAX_TTL]
    ELSE h

IsMineIcmp(h) == h.dst = my_ip /\ h.protocol = IP_ICMP_PROTOCOL

Treat ==
    /\ pc = "received"
    /\ ip_hdr.check = ip_checksum(ip_hdr)
    /\ \/ IsMineIcmp(ip_hdr) /\ ip_hdr' = EchoReply(Aged(ip_hdr))
       \/ ~IsMineIcmp(ip_hdr) /\ Aged(ip_hdr).ttl > 0 /\ ip_hdr' = Aged(ip_hdr)
       \/ /\ ~IsMineIcmp(ip_hdr) /\ Aged(ip_hdr).ttl = 0
          /\ \E o \in ErrorOthers : ip_hdr' = Error(Aged(ip_hdr), "expired", o)
    /\ pc' = "route"
    /\ UNCHANGED <<route_table, arrived, low, high>>

(***************************************************************************)
(* best_route_search and binary_search.                                    *)
(***************************************************************************)
Matches(k, ip) == Masked(ip, route_table[k].mask) = route_table[k].prefix
Greater(k, ip) == route_table[k].prefix > Masked(ip, route_table[k].mask)

CallPastEnd ==          \* mistake: the number of entries for the last one
    /\ pc = "route"
    /\ low' = 1 /\ high' = Len(route_table)
    /\ pc' = "search"
    /\ UNCHANGED <<route_table, arrived, ip_hdr>>
Call ==
    /\ pc = "route"
    /\ low' = 1 /\ high' = Len(route_table) - 1
    /\ pc' = "search"
    /\ UNCHANGED <<route_table, arrived, ip_hdr>>

Mid == low + high \div 2

HalveShort ==           \* mistake: the entry in the middle is left out
    /\ pc = "search" /\ high > 1
    /\ IF Greater(Mid, ip_hdr.dst) THEN low' = low /\ high' = Mid - low
       ELSE low' = Mid /\ high' = high - (Mid - low) - 1
    /\ UNCHANGED <<route_table, arrived, ip_hdr, pc>>
HalveUp ==              \* mistake: the half that was kept is not smaller
    /\ pc = "search" /\ high > 1
    /\ IF Greater(Mid, ip_hdr.dst) THEN low' = low /\ high' = Mid + 1 - low
       ELSE low' = Mid /\ high' = high - (Mid - low)
    /\ UNCHANGED <<route_table, arrived, ip_hdr, pc>>
Halve ==
    /\ pc = "search" /\ high > 1
    /\ IF Greater(Mid, ip_hdr.dst) THEN low' = low /\ high' = Mid - low
       ELSE low' = Mid /\ high' = high - (Mid - low)
    /\ UNCHANGED <<route_table, arrived, ip_hdr, pc>>

\* The search returns low.
EndLow ==               \* mistake: the upper of two entries is never taken
    /\ pc = "search" /\ high <= 1
    /\ pc' = "found" /\ high' = 0
    /\ UNCHANGED <<route_table, arrived, ip_hdr, low>>
End ==
    /\ pc = "search" /\ high <= 1
    /\ low' = IF high = 1 /\ Matches(low + 1, ip_hdr.dst) THEN low + 1 ELSE low
    /\ pc' = "found" /\ high' = 0
    /\ UNCHANGED <<route_table, arrived, ip_hdr>>

Send ==
    /\ pc = "found"
    /\ Matches(low, ip_hdr.dst)
    /\ pc' = "sent"
    /\ UNCHANGED <<route_table, arrived, ip_hdr, low, high>>

\* No route: best_route_search calls itself for the error.
ReturnToSelf ==         \* mistake: the error is sent to its sender
    /\ pc = "found"
    /\ ~Matches(low, ip_hdr.dst)
    /\ \E o \in ErrorOthers :
         ip_hdr' = [Error(ip_hdr, "unreachable", o) EXCEPT !.dst = my_ip]
    /\ pc' = "route"
    /\ UNCHANGED <<route_table, arrived, low, high>>
Return ==
    /\ pc = "found"
    /\ ~Matches(low, ip_hdr.dst)
    /\ \E o \in ErrorOthers : ip_hdr' = Error(ip_hdr, "unreachable", o)
    /\ pc' = "route"
    /\ UNCHANGED <<route_table, arrived, low, high>>

Next == Drop \/ Treat \/ Call \/ Halve \/ End \/ Send \/ Return

Spec == Init /\ [][Next]_vars

\* The function runs until it returns.
FairSpec == Spec /\ WF_vars(Next)

(***************************************************************************)
(* Properties.                                                             *)
(***************************************************************************)
\* Type invariant; the search never leaves the table (router.c 55-69).
TypeOK ==
    /\ route_table \in Seq(Entry) /\ route_table # <<>>
    /\ arrived \in Header /\ ip_hdr \in Header
    /\ low \in 1 .. Len(route_table) /\ high \in 0 .. Len(route_table) - low
    /\ pc \in {"received", "route", "search", "found", "sent", "dropped"}

\* When an address splits the table, the entries before a place not greater
\* than it and those behind it greater, the search returns the last one that
\* is not greater, if that one matches (router.c 55-69).
Splits(ip) == \A k, l \in DOMAIN route_table : k < l /\ Greater(k, ip) => Greater(l, ip)
IsLast(k, ip) ==
    ~Greater(k, ip) /\ \A l \in DOMAIN route_table : l > k => Greater(l, ip)
FindsLast ==
    pc = "found" /\ Splits(ip_hdr.dst) =>
        \A k \in DOMAIN route_table :
            IsLast(k, ip_hdr.dst) /\ Matches(k, ip_hdr.dst) => low = k

\* In a table of prefixes of one length, an address that has a route is
\* found, although addresses are compared as little-endian integers (55-69,
\* skel.c 215-242).
OneMask == \A k, l \in DOMAIN route_table : route_table[k].mask = route_table[l].mask
Routable(ip) == \E k \in DOMAIN route_table : Matches(k, ip)
FindsRoute ==
    pc = "found" /\ OneMask /\ Routable(ip_hdr.dst) => Matches(low, ip_hdr.dst)

\* In such a table what leaves is on its way to the first routable one of the
\* destination, the source and the router (router.c 98-113, 157-166).
IsExpired(h) == ~IsMineIcmp(h) /\ Aged(h).ttl = 0
Targets ==
    IF IsExpired(arrived) THEN <<arrived.src, my_ip>>
    ELSE <<arrived.dst, arrived.src, my_ip>>
SentToRoutable ==
    pc = "sent" /\ OneMask =>
        \E n \in DOMAIN Targets :
            /\ ip_hdr.dst = Targets[n] /\ Routable(Targets[n])
            /\ \A m \in 1 .. n - 1 : ~Routable(Targets[m])

\* What leaves has a valid checksum and a ttl that is not 0, neither kept nor
\* grown but for an error's; but an answer to an echo request keeps the old
\* checksum, ICMP for the router leaves with ttl 0, and a ttl of 0 wraps
\* (router.c 143-164, skel.c 163-213).
SoundHeader ==
    pc = "sent" /\ arrived.ttl > 0 /\ ~IsMineIcmp(arrived) =>
        /\ Valid(ip_hdr)
        /\ ip_hdr.ttl \in {arrived.ttl - 1, MAX_TTL} \ {0}

\* The search ends, and so does the turn when the router itself has a route
\* (router.c 55-69, 105-111; under FairSpec).
TurnEnds ==
    /\ pc = "search" ~> pc = "found"
    /\ OneMask /\ Routable(my_ip) ~> pc \in {"sent", "dropped"}

\* README, LPM: binary_search "returns the biggest entry for which the prefix
\* is equal to the mask of the searched element".
LongestPrefix ==
    pc = "found" /\ Routable(ip_hdr.dst) =>
        /\ Matches(low, ip_hdr.dst)
        /\ \A k \in DOMAIN route_table :
             Matches(k, ip_hdr.dst) =>
                 rtable_comp(route_table[k], route_table[low]) <= 0
=============================================================================
