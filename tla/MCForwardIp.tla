----------------------------- MODULE MCForwardIp ------------------------------
(***************************************************************************)
(* Values for TLC: addresses of a byte of two bits and a byte of one, in   *)
(* memory order; every table of up to MaxEntries routes and those of all   *)
(* routes of one length; for one table, headers around the edges of the    *)
(* checksum and the ttl.                                                   *)
(***************************************************************************)
EXTENDS ForwardIp, Bitwise, FiniteSetsExt

CONSTANTS
    MaxEntries,     \* bound: routes in a table
    Edge            \* bound: distance of the checksums from 0 and 65535

\* The network order of the bits is 2, 1 (first byte), 4 (second byte).
Masks == {0, 2, 3, 7}
Addresses == 0 .. 7
AndOf == [a \in Addresses, m \in Addresses |-> a & m]
BitAnd(a, m) == AndOf[a, m]

Routes == {r \in [prefix : Addresses, mask : Masks] : BitAnd(r.prefix, r.mask) = r.prefix}
Table(S) ==
    [k \in 1 .. Cardinality(S) |->
        CHOOSE r \in S : Cardinality({s \in S : rtable_comp(s, r) < 0}) = k - 1]
TwoRoutes == Table({[prefix |-> 1, mask |-> 7], [prefix |-> 7, mask |-> 7]})
AllTables ==
    {Table(S) : S \in UNION {kSubset(n, Routes) : n \in 1 .. MaxEntries}}
        \cup {Table({r \in Routes : r.mask = m}) : m \in Masks}

Checked(h) == [h EXCEPT !.check = ip_checksum(h)]
Damaged(h) == [h EXCEPT !.check = (@ + 1) % 65536]
Packet(src, dst, ttl, protocol, icmp, others) ==
    Checked([src |-> src, dst |-> dst, ttl |-> ttl, protocol |-> protocol,
             icmp |-> icmp, others |-> others, check |-> 0])

\* Any addresses, a header that is forwarded and one that expires.
RoutePackets ==
    {Packet(src, dst, ttl, 17, "none", 0) :
        src \in {0, 3, 6}, dst \in Addresses, ttl \in {1, 64}}

\* Any header, to the router at 1 and to a host at 7; its checksum is near 0
\* and 65535.
HeaderPackets ==
    LET Headers == {Packet(1, dst, ttl, protocol, icmp,
                           (65535 + near - ttl - 256 * protocol) % 65536) :
                        dst \in {1, 7}, ttl \in {0, 1, 2, 64, 255},
                        protocol \in {1, 17}, icmp \in {"echo_request", "none"},
                        near \in -Edge .. Edge}
    IN  Headers \cup {Damaged(h) : h \in Headers}

AllPackets(t) == IF t = TwoRoutes THEN HeaderPackets ELSE RoutePackets
=============================================================================
