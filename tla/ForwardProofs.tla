---------------------------- MODULE ForwardProofs -----------------------------
(***************************************************************************)
(* Proofs about ForwardIp, for every set of tables and packets.            *)
(*                                                                         *)
(* Typed first; the search is then followed by the window [low, low+high], *)
(* which never loses what it looks for; the errors by the chain of their   *)
(* destinations; the header by the sum of its words.                       *)
(***************************************************************************)
EXTENDS ForwardIp, TLAPS

(***************************************************************************)
(* The one's complement sum.                                               *)
(***************************************************************************)
\* The words (skel.c 163).
LEMMA WordBounds == \A n : n \in Word16 <=> n \in Nat /\ n <= 65535
  <1> DEFINE Top == 65535
  <1>1. Top \in Nat
    BY SMT
  <1>2. Word16 = 0 .. Top
    BY DEF Word16
  <1> HIDE DEF Top
  <1>3. \A n : n \in Word16 <=> n \in Nat /\ n <= Top
    BY <1>1, <1>2, SMT
  <1> QED BY <1>3 DEF Top

\* One carry (skel.c 201-205).
LEMMA CarryOnce ==
    ASSUME NEW n \in Nat, n <= 196607
    PROVE  /\ Carry(n) \in Nat /\ Carry(n) <= 65537
           /\ n > 0 => Carry(n) > 0
           /\ n <= 65535 => Carry(n) = n
           /\ n > 65535 /\ n <= 131070 => Carry(n) = n - 65535
           /\ n = 131071 => Carry(n) = 65536
           /\ n > 131071 => Carry(n) = n - 131070
  <1> DEFINE r == n % 65536
             q == n \div 65536
  <1>1. r \in Nat /\ r <= 65535 /\ q \in Nat /\ n = 65536 * q + r
    BY SMT
  <1>2. Carry(n) = r + q
    BY DEF Carry
  <1> HIDE DEF r, q
  <1> QED BY <1>1, <1>2, SMT

\* Two carries are enough for the words of a header (skel.c 201-205).
LEMMA FoldBound ==
    ASSUME NEW n \in Nat, n <= 196607
    PROVE  Fold(n) \in Word16 /\ (n > 0 => Fold(n) > 0)
  <1> DEFINE c == Carry(n)
  <1>1. c \in Nat /\ c <= 65537 /\ (n > 0 => c > 0)
    BY CarryOnce
  <1>2. Carry(c) \in Word16 /\ (c > 0 => Carry(c) > 0)
    <2> HIDE DEF c
    <2> QED BY WordBounds, <1>1, CarryOnce, SMT
  <1> QED BY <1>1, <1>2 DEF Fold

\* A sum of at most two words folds to one (skel.c 201-205).
LEMMA FoldOfTwo ==
    ASSUME NEW n \in Nat, n <= 131070
    PROVE  Fold(n) = IF n <= 65535 THEN n ELSE n - 65535
  <1> DEFINE c == Carry(n)
  <1>1. c = (IF n <= 65535 THEN n ELSE n - 65535) /\ c \in Nat /\ c <= 65535
    BY CarryOnce, SMT
  <1>2. Carry(c) = c
    <2> HIDE DEF c
    <2> QED BY <1>1, CarryOnce, SMT
  <1> QED BY <1>1, <1>2 DEF Fold

\* A sum and what its fold lacks to all ones fold to all ones (skel.c 201-213).
LEMMA FoldComplement ==
    ASSUME NEW n \in Nat, n > 0, n <= 131070
    PROVE  /\ Fold(65535 + n) \in Word16 /\ Fold(65535 + n) > 0
           /\ Fold(n + (65535 - Fold(65535 + n))) = 65535
  <1> DEFINE m == 65535 + n
             f == Fold(m)
             g == n + (65535 - f)
  <1>0. m \in Nat /\ m <= 196607 /\ m > 0
    BY SMT
  <1>1. f \in Word16 /\ f > 0
    <2> HIDE DEF m
    <2> QED BY <1>0, FoldBound
  <1>2. CASE n <= 65535
    <2>1. m <= 131070 /\ m > 65535 /\ m - 65535 = n
      BY <1>2, SMT
    <2>2. f = n
      <3> HIDE DEF m
      <3> QED BY <2>1, <1>0, FoldOfTwo, SMT
    <2>3. g = 65535
      <3> HIDE DEF f
      <3> QED BY <2>2, SMT
    <2>4. Fold(65535) = 65535
      BY FoldOfTwo, SMT
    <2> QED BY <1>1, <2>3, <2>4
  <1>3. CASE n > 65535
    <2>1. /\ m > 131070 /\ m - 131070 = n - 65535
          /\ m = 131071 => n - 65535 = 1
      BY <1>3, SMT
    <2>2. Carry(m) = (IF m = 131071 THEN 65536 ELSE m - 131070)
      <3> HIDE DEF m
      <3> QED BY <2>1, <1>0, CarryOnce, SMT
    <2>3. Carry(65536) = 1
      BY CarryOnce, SMT
    <2>4. n - 65535 \in Nat /\ n - 65535 <= 65535
      BY <1>3, SMT
    <2>5. f = n - 65535
      <3>1. CASE m = 131071
        <4> HIDE DEF m
        <4> QED BY <3>1, <2>1, <2>2, <2>3, SMT DEF Fold
      <3>2. CASE m # 131071
        <4>1. Carry(m) = n - 65535
          BY <3>2, <2>1, <2>2, SMT
        <4>2. Carry(n - 65535) = n - 65535
          BY <2>4, CarryOnce, SMT
        <4> HIDE DEF m
        <4> QED BY <4>1, <4>2 DEF Fold
      <3> QED BY <3>1, <3>2
    <2>6. g = 131070
      <3> HIDE DEF f
      <3> QED BY <2>5, SMT
    <2>7. Fold(131070) = 65535
      BY FoldOfTwo, SMT
    <2> QED BY <1>1, <2>6, <2>7
  <1> QED BY <1>2, <1>3, SMT

(***************************************************************************)
(* The rewriting of the header.                                            *)
(***************************************************************************)
\* The fields are numbers of their widths.
LEMMA FieldBounds ==
    ASSUME NEW h \in Header
    PROVE  /\ h.others \in Nat /\ h.others <= 65535
           /\ h.check \in Nat /\ h.check <= 65535
           /\ h.ttl \in Nat /\ h.ttl <= 255
           /\ h.protocol \in Nat /\ h.protocol <= 255
  <1>1. /\ h.others \in Word16 /\ h.check \in Word16
        /\ h.ttl \in Byte /\ h.protocol \in Byte
    BY DEF Header
  <1>2. \A n \in Byte : n \in Nat /\ n <= 255
    BY SMT DEF Byte
  <1> QED BY <1>1, <1>2, WordBounds

\* The checksum is a word and never all ones; with it the sum is (163-213).
LEMMA ChecksumType ==
    ASSUME NEW h \in Header
    PROVE  /\ Words(h) \in Nat /\ Words(h) <= 131070
           /\ ip_checksum(h) \in Word16
           /\ Words(h) > 0 => /\ ip_checksum(h) < 65535
                              /\ Fold(Words(h) + ip_checksum(h)) = 65535
  <1> DEFINE w == Words(h)
  <1>1. w \in Nat /\ w <= 131070
    <2>1. /\ h.others \in Nat /\ h.others <= 65535
          /\ h.ttl \in Nat /\ h.ttl <= 255
          /\ h.protocol \in Nat /\ h.protocol <= 255
      BY FieldBounds
    <2> QED BY <2>1, SMT DEF Words
  <1>2. Fold(65535 + w) \in Word16
    <2>1. 65535 + w \in Nat /\ 65535 + w <= 196607
      BY <1>1, SMT
    <2> HIDE DEF w
    <2> QED BY <2>1, FoldBound
  <1>3. w > 0 => /\ Fold(65535 + w) > 0
                 /\ Fold(w + (65535 - Fold(65535 + w))) = 65535
    <2> HIDE DEF w
    <2> QED BY <1>1, FoldComplement
  <1>4. ip_checksum(h) = 65535 - Fold(65535 + w)
    BY DEF ip_checksum
  <1> HIDE DEF w
  <1>5. ip_checksum(h) \in Word16 /\ (w > 0 => ip_checksum(h) < 65535)
    BY WordBounds, <1>2, <1>3, <1>4, SMT
  <1>6. w > 0 => Fold(w + ip_checksum(h)) = 65535
    BY <1>3, <1>4
  <1> QED BY <1>1, <1>5, <1>6 DEF w

\* Two fields of the header are written, one after the other.
Rewrite(h, t, c) == [h EXCEPT !.ttl = t, !.check = c]

\* The others stay.
LEMMA Rewritten ==
    ASSUME NEW h \in Header, NEW t \in Byte, NEW c \in Word16
    PROVE  /\ Rewrite(h, t, c) \in Header
           /\ Rewrite(h, t, c).ttl = t /\ Rewrite(h, t, c).check = c
           /\ Rewrite(h, t, c).protocol = h.protocol
           /\ Rewrite(h, t, c).others = h.others
           /\ Rewrite(h, t, c).src = h.src /\ Rewrite(h, t, c).dst = h.dst
  <1> DEFINE b == [h EXCEPT !.ttl = t]
             a == [b EXCEPT !.check = c]
  <1>1. /\ b \in Header /\ b.ttl = t
        /\ b.protocol = h.protocol /\ b.others = h.others
        /\ b.src = h.src /\ b.dst = h.dst
    BY DEF Header
  <1>2. /\ a \in Header /\ a.ttl = t /\ a.check = c
        /\ a.protocol = h.protocol /\ a.others = h.others
        /\ a.src = h.src /\ a.dst = h.dst
    <2> HIDE DEF b
    <2> QED BY <1>1 DEF Header
  <1>3. Rewrite(h, t, c) = a
    BY DEF Rewrite
  <1> HIDE DEF a
  <1> QED BY <1>2, <1>3

\* The ttl and the checksum keep their width (router.c 149-152).
LEMMA AgedType ==
    ASSUME NEW h \in Header
    PROVE  /\ Aged(h) \in Header
           /\ Aged(h).src = h.src /\ Aged(h).dst = h.dst
           /\ Aged(h).protocol = h.protocol
  <1> DEFINE t == (h.ttl - 1) % 256
             c == (h.check + h.ttl - t) % 65536
  <1>1. h.ttl - 1 \in Int /\ h.check \in Int /\ h.ttl \in Int
    BY WordBounds, SMT DEF Header, Byte
  <1>2. t \in Byte
    BY <1>1, SMT DEF Byte
  <1>3. h.check + h.ttl - t \in Int
    <2> HIDE DEF t
    <2> QED BY <1>1, <1>2, SMT DEF Byte
  <1>4. c \in Word16
    <2> HIDE DEF t
    <2> QED BY WordBounds, <1>3, SMT
  <1>5. Aged(h) = Rewrite(h, t, c)
    BY DEF Aged, Rewrite
  <1> HIDE DEF t, c
  <1> QED BY <1>2, <1>4, <1>5, Rewritten

\* One less in the ttl is one more in the checksum, which does not overflow
\* (router.c 149-152).
LEMMA AgedValid ==
    ASSUME NEW h \in Header, h.ttl > 0, h.check = ip_checksum(h)
    PROVE  Valid(Aged(h)) /\ Aged(h).ttl = h.ttl - 1
  <1> DEFINE a == Aged(h)
  <1>1. h.ttl - 1 \in Byte /\ (h.ttl - 1) % 256 = h.ttl - 1
    <2>1. h.ttl - 1 \in Nat /\ h.ttl - 1 < 256
      BY SMT DEF Header, Byte
    <2>2. (h.ttl - 1) % 256 = h.ttl - 1
      BY <2>1, SMT
    <2>3. h.ttl - 1 \in Byte
      BY FieldBounds, SMT DEF Byte
    <2> QED BY <2>2, <2>3
  <1>2. Words(h) > 0
    BY FieldBounds, SMT DEF Words
  <1>3. h.check + 1 \in Word16 /\ h.check + h.ttl - (h.ttl - 1) = h.check + 1
    <2>1. h.check \in Word16 /\ h.check < 65535
      BY <1>2, ChecksumType
    <2> QED BY <2>1, WordBounds, FieldBounds, SMT
  <1>4. (h.check + 1) % 65536 = h.check + 1
    <2>1. h.check + 1 \in Nat /\ h.check + 1 < 65536
      BY WordBounds, <1>3, SMT
    <2> QED BY <2>1, SMT
  <1> DEFINE t == (h.ttl - 1) % 256
             c == (h.check + h.ttl - t) % 65536
  <1>50. a = Rewrite(h, t, c)
    BY DEF Aged, Rewrite
  <1>51. t = h.ttl - 1 /\ c = h.check + 1
    BY <1>1, <1>3, <1>4
  <1>5. a = Rewrite(h, h.ttl - 1, h.check + 1)
    <2> HIDE DEF t, c, a
    <2> QED BY <1>50, <1>51
  <1>6. /\ a.ttl = h.ttl - 1 /\ a.check = h.check + 1
        /\ a.protocol = h.protocol /\ a.others = h.others
    <2> HIDE DEF a
    <2> QED BY <1>1, <1>3, <1>5, Rewritten
  <1>7. Words(a) + a.check = Words(h) + h.check
    <2>1. /\ h.others \in Nat /\ h.ttl \in Nat /\ h.protocol \in Nat
          /\ h.check \in Nat
      BY FieldBounds
    <2> HIDE DEF a
    <2> QED BY <2>1, <1>6, SMT DEF Words
  <1>8. Fold(Words(h) + h.check) = 65535
    BY <1>2, ChecksumType
  <1> QED BY <1>6, <1>7, <1>8 DEF Valid

\* An error's header (router.c 71-96).
LEMMA ErrorType ==
    ASSUME NEW h \in Header, NEW kind \in Icmp, NEW others \in ErrorOthers
    PROVE  /\ Error(h, kind, others) \in Header
           /\ Error(h, kind, others).src = my_ip
           /\ Error(h, kind, others).dst = h.src
           /\ Error(h, kind, others).ttl = MAX_TTL
           /\ Valid(Error(h, kind, others))
  <1> DEFINE e == [src |-> my_ip, dst |-> h.src, ttl |-> MAX_TTL, icmp |-> kind,
                   protocol |-> IP_ICMP_PROTOCOL, others |-> others, check |-> 0]
             c == [e EXCEPT !.check = ip_checksum(e)]
  <1>1. Error(h, kind, others) = c
    BY DEF Error
  <1>2. my_ip \in Address /\ others \in Word16
    BY ForwardAssumption
  <1>3. MAX_TTL \in Byte /\ IP_ICMP_PROTOCOL \in Byte /\ 0 \in Word16
    BY WordBounds, SMT DEF MAX_TTL, IP_ICMP_PROTOCOL, Byte
  <1>4. /\ e \in Header
        /\ e.src = my_ip /\ e.dst = h.src /\ e.ttl = MAX_TTL
    BY <1>2, <1>3 DEF Header
  <1>5. /\ Words(e) > 0 /\ ip_checksum(e) \in Word16
        /\ Fold(Words(e) + ip_checksum(e)) = 65535
    <2>1. Words(e) > 0
      <3>1. e.others \in Nat /\ e.protocol \in Nat /\ e.ttl > 0
        BY WordBounds, <1>2, <1>3, SMT DEF Byte, MAX_TTL
      <3> HIDE DEF e
      <3> QED BY <1>4, <3>1, SMT DEF Words, Header, Byte
    <2> HIDE DEF e
    <2> QED BY <2>1, <1>4, ChecksumType
  <1>6. /\ c \in Header /\ c.src = my_ip /\ c.dst = h.src /\ c.ttl = MAX_TTL
        /\ c.check = ip_checksum(e)
        /\ c.ttl = e.ttl /\ c.protocol = e.protocol /\ c.others = e.others
    <2> HIDE DEF e
    <2> QED BY <1>4, <1>5 DEF Header
  <1>7. Words(c) = Words(e)
    BY <1>6 DEF Words
  <1>8. Valid(c)
    BY <1>5, <1>6, <1>7 DEF Valid
  <1> QED BY <1>1, <1>6, <1>8

\* The kinds of the errors.
LEMMA ErrorKinds == {"expired", "unreachable"} \subseteq Icmp
  BY DEF Icmp

\* An echo reply (router.c 115-133).
LEMMA EchoType == ASSUME NEW h \in Header PROVE EchoReply(h) \in Header
  <1>1. MAX_TTL \in Byte
    BY SMT DEF MAX_TTL, Byte
  <1> QED BY <1>1 DEF EchoReply, Header, Icmp

(***************************************************************************)
(* Types.                                                                  *)
(***************************************************************************)
InTables ==
    /\ TypeOK
    /\ route_table \in Tables /\ arrived \in Packets(route_table)

\* The table and the packet are among the inputs at the start.
LEMMA InitTyped == Init => InTables
  <1> SUFFICES ASSUME Init PROVE InTables
    OBVIOUS
  <1>1. /\ route_table \in Seq(Entry) /\ route_table # <<>>
        /\ route_table \in Tables /\ arrived \in Packets(route_table)
        /\ arrived \in Header /\ ip_hdr \in Header /\ pc = "received"
    BY ForwardAssumption DEF Init
  <1>2. Len(route_table) \in Nat \ {0}
    BY <1>1
  <1>3. low \in 1 .. Len(route_table) /\ high \in 0 .. Len(route_table) - low
    BY <1>2, SMT DEF Init
  <1> QED BY <1>1, <1>3 DEF InTables, TypeOK

\* A step keeps the widths and the window inside the table (router.c 55-166).
LEMMA StepTyped == InTables /\ [Next]_vars => InTables'
  <1> SUFFICES ASSUME InTables, [Next]_vars PROVE InTables'
    OBVIOUS
  <1>0. /\ route_table \in Seq(Entry) /\ route_table # <<>>
        /\ arrived \in Header /\ ip_hdr \in Header
        /\ low \in 1 .. Len(route_table) /\ high \in 0 .. Len(route_table) - low
        /\ pc \in {"received", "route", "search", "found", "sent", "dropped"}
        /\ route_table \in Tables /\ arrived \in Packets(route_table)
    BY DEF InTables, TypeOK
  <1>00. Len(route_table) \in Nat \ {0} /\ low \in Nat /\ high \in Nat
    <2>1. Len(route_table) \in Nat \ {0}
      BY <1>0
    <2> QED BY <2>1, <1>0, SMT
  <1>1. CASE Drop
    BY <1>1, <1>0 DEF Drop, InTables, TypeOK
  <1>2. CASE Treat
    <2>1. Aged(ip_hdr) \in Header
      BY <1>0, AgedType
    <2>2. ip_hdr' \in Header
      BY <1>2, <2>1, EchoType, ErrorType DEF Treat, Icmp
    <2> QED BY <1>2, <2>2, <1>0 DEF Treat, InTables, TypeOK
  <1>3. CASE Call
    <2>1. low' \in 1 .. Len(route_table) /\ high' \in 0 .. Len(route_table) - low'
      BY <1>3, <1>00, SMT DEF Call
    <2> QED BY <1>3, <2>1, <1>0 DEF Call, InTables, TypeOK
  <1>4. CASE Halve
    <2>1. high > 1 /\ \/ low' = low /\ high' = high \div 2
                      \/ low' = low + high \div 2 /\ high' = high - high \div 2
      BY <1>4, <1>00, SMT DEF Halve, Mid
    <2>2. low' \in 1 .. Len(route_table) /\ high' \in 0 .. Len(route_table) - low'
      BY <2>1, <1>0, <1>00, SMT
    <2> QED BY <1>4, <2>2, <1>0 DEF Halve, InTables, TypeOK
  <1>5. CASE End
    <2>1. low' \in 1 .. Len(route_table) /\ high' \in 0 .. Len(route_table) - low'
      BY <1>5, <1>0, <1>00, SMT DEF End
    <2> QED BY <1>5, <2>1, <1>0 DEF End, InTables, TypeOK
  <1>6. CASE Send
    BY <1>6, <1>0 DEF Send, InTables, TypeOK
  <1>7. CASE Return
    <2>1. ip_hdr' \in Header
      BY <1>7, <1>0, ErrorType DEF Return, Icmp
    <2> QED BY <1>7, <2>1, <1>0 DEF Return, InTables, TypeOK
  <1>8. CASE UNCHANGED vars
    BY <1>8, <1>0 DEF vars, InTables, TypeOK
  <1> QED BY <1>1, <1>2, <1>3, <1>4, <1>5, <1>6, <1>7, <1>8 DEF Next

\* So it is for ever.
LEMMA AlwaysTyped == Spec => []InTables
  BY InitTyped, StepTyped, PTL DEF Spec

\* The search never leaves the table and the header keeps its widths
\* (router.c 55-69, 149-152).
THEOREM Typed == Spec => []TypeOK
  <1>1. InTables => TypeOK
    BY DEF InTables
  <1> QED BY <1>1, AlwaysTyped, PTL

(***************************************************************************)
(* The search.                                                             *)
(***************************************************************************)
\* What the search compares: numbers; the table is sorted by prefix.
LEMMA SortedTable ==
    ASSUME InTables
    PROVE  /\ Len(route_table) \in Nat
           /\ DOMAIN route_table = 1 .. Len(route_table)
           /\ \A k \in DOMAIN route_table :
                route_table[k].prefix \in Nat /\ route_table[k].mask \in Address
           /\ \A k, l \in DOMAIN route_table :
                k < l => route_table[k].prefix <= route_table[l].prefix
           /\ ip_hdr.dst \in Address
           /\ \A m \in Address : Masked(ip_hdr.dst, m) \in Nat
  <1>1. route_table \in Seq(Entry) /\ Sorted(route_table) /\ ip_hdr \in Header
    BY ForwardAssumption DEF InTables, TypeOK
  <1>2. /\ Len(route_table) \in Nat /\ DOMAIN route_table = 1 .. Len(route_table)
        /\ \A k \in DOMAIN route_table : route_table[k] \in Entry
    BY <1>1
  <1>3. \A k \in DOMAIN route_table :
           /\ route_table[k].prefix \in Nat
           /\ route_table[k].mask \in Address /\ route_table[k].mask \in Nat
    BY <1>2, ForwardAssumption DEF Entry
  <1>4. ASSUME NEW k \in DOMAIN route_table, NEW l \in DOMAIN route_table, k < l
        PROVE  route_table[k].prefix <= route_table[l].prefix
    <2>1. rtable_comp(route_table[k], route_table[l]) <= 0
      BY <1>1, <1>4 DEF Sorted
    <2> QED BY <2>1, <1>3, SMT DEF rtable_comp
  <1>5. ip_hdr.dst \in Address
    BY <1>1 DEF Header
  <1> QED BY <1>2, <1>3, <1>4, <1>5, ForwardAssumption

\* The last entry that is not greater stays in the window (router.c 55-69).
HoldsLast ==
    pc = "search" =>
        \A k \in DOMAIN route_table :
            IsLast(k, ip_hdr.dst) /\ Splits(ip_hdr.dst) => k \in low .. low + high

\* In a table of one length, an entry that matches stays in the window.
HoldsRoute ==
    pc = "search" /\ OneMask /\ Routable(ip_hdr.dst) =>
        \E k \in low .. low + high : Matches(k, ip_hdr.dst)

SearchInv == HoldsLast /\ FindsLast /\ HoldsRoute /\ FindsRoute

\* A step of the search keeps the half with the last entry that is not greater.
LEMMA HalveHoldsLast == InTables /\ HoldsLast /\ Halve => HoldsLast'
  <1> SUFFICES ASSUME InTables, HoldsLast, Halve,
                      NEW k \in DOMAIN route_table,
                      IsLast(k, ip_hdr.dst), Splits(ip_hdr.dst)
               PROVE  k \in low' .. low' + high'
    BY DEF Halve, HoldsLast, IsLast, Splits, Greater
  <1>1. /\ Len(route_table) \in Nat /\ DOMAIN route_table = 1 .. Len(route_table)
        /\ low \in 1 .. Len(route_table) /\ high \in 0 .. Len(route_table) - low
    BY SortedTable DEF InTables, TypeOK
  <1>2. k \in low .. low + high /\ high > 1
    BY DEF HoldsLast, Halve
  <1> DEFINE h == high \div 2
  <1>3. h \in Nat /\ h > 0 /\ h < high
    BY <1>1, <1>2, SMT
  <1>4. Mid = low + h
    BY DEF Mid
  <1> HIDE DEF h
  <1>5. Mid \in DOMAIN route_table
    BY <1>1, <1>3, <1>4, SMT
  <1>6. CASE Greater(Mid, ip_hdr.dst)
    <2>1. low' = low /\ high' = h
      BY <1>1, <1>3, <1>4, <1>6, SMT DEF Halve
    <2>2. ~(Mid < k) /\ Mid # k
      BY <1>5, <1>6 DEF IsLast, Splits
    <2> QED BY <1>1, <1>2, <1>3, <1>4, <2>1, <2>2, SMT
  <1>7. CASE ~Greater(Mid, ip_hdr.dst)
    <2>1. low' = low + h /\ high' = high - h
      BY <1>1, <1>3, <1>4, <1>7, SMT DEF Halve
    <2>2. ~(Mid > k)
      BY <1>5, <1>7 DEF IsLast
    <2> QED BY <1>1, <1>2, <1>3, <1>4, <2>1, <2>2, SMT
  <1> QED BY <1>6, <1>7

\* A step of the search keeps a half with an entry that matches.
LEMMA HalveHoldsRoute == InTables /\ HoldsRoute /\ Halve => HoldsRoute'
  <1> SUFFICES ASSUME InTables, HoldsRoute, Halve, OneMask, Routable(ip_hdr.dst)
               PROVE  \E k \in low' .. low' + high' : Matches(k, ip_hdr.dst)
    BY DEF Halve, HoldsRoute, OneMask, Routable, Matches
  <1>1. /\ Len(route_table) \in Nat /\ DOMAIN route_table = 1 .. Len(route_table)
        /\ low \in 1 .. Len(route_table) /\ high \in 0 .. Len(route_table) - low
    BY SortedTable DEF InTables, TypeOK
  <1>2. high > 1
    BY DEF Halve
  <1>3. PICK k \in low .. low + high : Matches(k, ip_hdr.dst)
    BY DEF HoldsRoute, Halve
  <1> DEFINE h == high \div 2
  <1>4. h \in Nat /\ h > 0 /\ h < high
    BY <1>1, <1>2, SMT
  <1>5. Mid = low + h
    BY DEF Mid
  <1> HIDE DEF h
  <1>6. Mid \in DOMAIN route_table /\ k \in DOMAIN route_table
    BY <1>1, <1>4, <1>5, SMT
  <1>7. /\ route_table[k].mask = route_table[Mid].mask
        /\ route_table[k].prefix \in Nat /\ route_table[Mid].prefix \in Nat
        /\ k < Mid => route_table[k].prefix <= route_table[Mid].prefix
        /\ Mid < k => route_table[Mid].prefix <= route_table[k].prefix
        /\ route_table[k].prefix = Masked(ip_hdr.dst, route_table[Mid].mask)
    BY <1>3, <1>6, SortedTable DEF OneMask, Matches
  <1>8. CASE Greater(Mid, ip_hdr.dst)
    <2>1. low' = low /\ high' = h
      BY <1>1, <1>4, <1>5, <1>8, SMT DEF Halve
    <2>2. route_table[Mid].prefix > route_table[k].prefix
      BY <1>7, <1>8 DEF Greater
    <2>3. ~(Mid < k)
      BY <1>7, <2>2, SMT
    <2>4. k \in low' .. low' + high'
      BY <1>1, <1>3, <1>4, <1>5, <2>1, <2>3, SMT
    <2> QED BY <1>3, <2>4
  <1>9. CASE ~Greater(Mid, ip_hdr.dst)
    <2>1. low' = low + h /\ high' = high - h
      BY <1>1, <1>4, <1>5, <1>9, SMT DEF Halve
    <2>2. ~(route_table[Mid].prefix > route_table[k].prefix)
      BY <1>7, <1>9 DEF Greater
    <2>3. CASE k < Mid
      <3>1. route_table[Mid].prefix = route_table[k].prefix
        BY <1>7, <2>2, <2>3, SMT
      <3>2. Matches(Mid, ip_hdr.dst)
        BY <1>7, <3>1 DEF Matches
      <3>3. Mid \in low' .. low' + high'
        BY <1>1, <1>4, <1>5, <2>1, SMT
      <3> QED BY <3>2, <3>3
    <2>4. CASE ~(k < Mid)
      <3>1. k \in low' .. low' + high'
        BY <1>1, <1>3, <1>4, <1>5, <2>1, <2>4, SMT
      <3> QED BY <1>3, <3>1
    <2> QED BY <2>3, <2>4
  <1> QED BY <1>8, <1>9

\* The end of the search takes the right one of the last two (router.c 57-64).
LEMMA EndFindsLast == InTables /\ HoldsLast /\ End => FindsLast'
  <1> SUFFICES ASSUME InTables, HoldsLast, End, Splits(ip_hdr.dst),
                      NEW k \in DOMAIN route_table,
                      IsLast(k, ip_hdr.dst), Matches(k, ip_hdr.dst)
               PROVE  low' = k
    BY DEF End, FindsLast, IsLast, Matches, Splits, Greater
  <1>1. /\ Len(route_table) \in Nat /\ DOMAIN route_table = 1 .. Len(route_table)
        /\ low \in 1 .. Len(route_table) /\ high \in 0 .. Len(route_table) - low
    BY SortedTable DEF InTables, TypeOK
  <1>2. k \in low .. low + high
    BY DEF HoldsLast, End
  <1>3. high \in {0, 1} /\ low' = IF high = 1 /\ Matches(low + 1, ip_hdr.dst)
                                   THEN low + 1 ELSE low
    BY <1>1, SMT DEF End
  <1>4. CASE k = low + 1
    <2>1. high = 1
      BY <1>1, <1>2, <1>3, <1>4, SMT
    <2> QED BY <1>3, <1>4, <2>1
  <1>5. CASE k = low /\ high = 1
    <2>1. low + 1 \in DOMAIN route_table /\ low + 1 > k
      BY <1>1, <1>5, SMT
    <2>2. Greater(low + 1, ip_hdr.dst)
      BY <2>1 DEF IsLast
    <2>3. ~Matches(low + 1, ip_hdr.dst)
      <3>1. /\ route_table[low + 1].prefix \in Nat
            /\ Masked(ip_hdr.dst, route_table[low + 1].mask) \in Nat
        BY <2>1, SortedTable
      <3> QED BY <3>1, <2>2, SMT DEF Greater, Matches
    <2> QED BY <1>3, <1>5, <2>3
  <1>6. CASE k = low /\ high = 0
    BY <1>3, <1>6
  <1>7. k = low \/ k = low + 1
    BY <1>1, <1>2, <1>3, SMT
  <1> QED BY <1>3, <1>4, <1>5, <1>6, <1>7

\* And an entry that matches (router.c 57-64).
LEMMA EndFindsRoute == InTables /\ HoldsRoute /\ End => FindsRoute'
  <1> SUFFICES ASSUME InTables, HoldsRoute, End, OneMask, Routable(ip_hdr.dst)
               PROVE  Matches(low', ip_hdr.dst)
    BY DEF End, FindsRoute, OneMask, Routable, Matches
  <1>1. low \in Nat /\ high \in Nat
    <2>1. /\ Len(route_table) \in Nat
          /\ low \in 1 .. Len(route_table) /\ high \in 0 .. Len(route_table) - low
      BY SortedTable DEF InTables, TypeOK
    <2> QED BY <2>1, SMT
  <1>2. PICK k \in low .. low + high : Matches(k, ip_hdr.dst)
    BY DEF HoldsRoute, End
  <1>3. high \in {0, 1} /\ low' = IF high = 1 /\ Matches(low + 1, ip_hdr.dst)
                                   THEN low + 1 ELSE low
    BY <1>1, SMT DEF End
  <1>4. k = low \/ (high = 1 /\ k = low + 1)
    BY <1>1, <1>2, <1>3, SMT
  <1> QED BY <1>2, <1>3, <1>4

\* At the start the window is the whole table (router.c 103).
LEMMA CallHolds == InTables /\ Call => HoldsLast' /\ HoldsRoute'
  <1> SUFFICES ASSUME InTables, Call PROVE HoldsLast' /\ HoldsRoute'
    OBVIOUS
  <1>1. /\ low' .. low' + high' = DOMAIN route_table
        /\ route_table' = route_table /\ ip_hdr' = ip_hdr
    <2>1. Len(route_table) \in Nat /\ DOMAIN route_table = 1 .. Len(route_table)
      BY SortedTable
    <2>2. low' = 1 /\ low' + high' = Len(route_table)
      BY <2>1, SMT DEF Call
    <2> QED BY <2>1, <2>2 DEF Call
  <1>2. HoldsLast'
    BY <1>1 DEF HoldsLast
  <1>3. HoldsRoute'
    BY <1>1 DEF HoldsRoute, Routable, Matches
  <1> QED BY <1>2, <1>3

\* The window along the whole search (router.c 55-113).
LEMMA AlwaysSearch == Spec => []SearchInv
  <1>1. Init => SearchInv
    BY DEF Init, SearchInv, HoldsLast, FindsLast, HoldsRoute, FindsRoute
  <1>2. InTables /\ SearchInv /\ [Next]_vars => SearchInv'
    <2> SUFFICES ASSUME InTables, SearchInv, [Next]_vars PROVE SearchInv'
      OBVIOUS
    <2> USE DEF SearchInv
    <2>1. CASE Drop \/ Treat \/ Return \/ Send
      <3>1. pc' \in {"dropped", "route", "sent"}
        BY <2>1 DEF Drop, Treat, Return, Send
      <3> QED BY <3>1 DEF HoldsLast, FindsLast, HoldsRoute, FindsRoute
    <2>2. CASE Call
      <3>1. pc' = "search"
        BY <2>2 DEF Call
      <3> QED BY <2>2, <3>1, CallHolds DEF FindsLast, FindsRoute
    <2>3. CASE Halve
      <3>1. pc' = "search"
        BY <2>3 DEF Halve
      <3> QED BY <2>3, <3>1, HalveHoldsLast, HalveHoldsRoute DEF FindsLast, FindsRoute
    <2>4. CASE End
      <3>1. pc' = "found"
        BY <2>4 DEF End
      <3> QED BY <2>4, <3>1, EndFindsLast, EndFindsRoute DEF HoldsLast, HoldsRoute
    <2>5. CASE UNCHANGED vars
      <3> USE DEF vars, HoldsLast, FindsLast, HoldsRoute, FindsRoute, OneMask,
                  Routable, Matches, IsLast, Splits, Greater
      <3>1. HoldsLast' /\ FindsLast'
        BY <2>5
      <3>2. HoldsRoute' /\ FindsRoute'
        BY <2>5
      <3> QED BY <3>1, <3>2
    <2> QED BY <2>1, <2>2, <2>3, <2>4, <2>5 DEF Next
  <1> QED BY <1>1, <1>2, AlwaysTyped, PTL DEF Spec

\* An address that splits the table is looked up right (router.c 55-69).
THEOREM LastFound == Spec => []FindsLast
  <1>1. SearchInv => FindsLast
    BY DEF SearchInv
  <1> QED BY <1>1, AlwaysSearch, PTL

\* With prefixes of one length a route that exists is found (router.c 55-69).
THEOREM RouteFound == Spec => []FindsRoute
  <1>1. SearchInv => FindsRoute
    BY DEF SearchInv
  <1> QED BY <1>1, AlwaysSearch, PTL

(***************************************************************************)
(* The destinations of the errors.                                         *)
(***************************************************************************)
\* The packet is addressed to Targets[n], those before it have no route and an
\* error about it would go to the next.
Reaches(n) ==
    /\ ip_hdr.dst = Targets[n]
    /\ \A m \in 1 .. n - 1 : ~Routable(Targets[m])
    /\ ip_hdr.src = IF n = Len(Targets) THEN my_ip ELSE Targets[n + 1]
Chain ==
    pc \in {"route", "search", "found", "sent"} /\ OneMask =>
        \E n \in DOMAIN Targets : Reaches(n)

\* Two destinations or three, the router last.
LEMMA TargetsType ==
    /\ Targets \in Seq({arrived.src, arrived.dst, my_ip})
    /\ DOMAIN Targets = 1 .. Len(Targets) /\ Len(Targets) \in {2, 3}
    /\ Targets[Len(Targets)] = my_ip
    /\ IF IsExpired(arrived)
       THEN Len(Targets) = 2 /\ Targets[1] = arrived.src
       ELSE Len(Targets) = 3 /\ Targets[1] = arrived.dst /\ Targets[2] = arrived.src
  <1>1. CASE IsExpired(arrived)
    BY <1>1 DEF Targets
  <1>2. CASE ~IsExpired(arrived)
    BY <1>2 DEF Targets
  <1> QED BY <1>1, <1>2

\* The packet as it is treated starts the chain (router.c 135-166).
Untreated == pc = "received" => ip_hdr = arrived

\* It reaches the first destination.
LEMMA TreatChain ==
    InTables /\ Untreated /\ Treat => \E n \in DOMAIN Targets : Reaches(n)'
  <1> SUFFICES ASSUME InTables, Untreated, Treat
               PROVE  \E n \in DOMAIN Targets : Reaches(n)'
    OBVIOUS
  <1>1. ip_hdr = arrived /\ arrived \in Header
    BY DEF Treat, Untreated, InTables, TypeOK
  <1>2. /\ Aged(arrived) \in Header /\ Aged(arrived).src = arrived.src
        /\ Aged(arrived).dst = arrived.dst /\ Aged(arrived).protocol = arrived.protocol
    BY <1>1, AgedType
  <1>3. Targets' = Targets
    BY DEF Treat, Targets, IsExpired, IsMineIcmp, Aged
  <1>4. /\ ip_hdr'.dst = Targets[1]
        /\ ip_hdr'.src = Targets[2]
    <2>1. CASE IsMineIcmp(arrived) /\ ip_hdr' = EchoReply(Aged(arrived))
      <3>1. ip_hdr'.dst = arrived.dst /\ ip_hdr'.src = arrived.src
        BY <1>2, <2>1 DEF EchoReply, Header
      <3> QED BY <3>1, <2>1, TargetsType DEF IsExpired
    <2>2. CASE ~IsMineIcmp(arrived) /\ Aged(arrived).ttl > 0 /\ ip_hdr' = Aged(arrived)
      <3>1. Aged(arrived).ttl # 0
        BY <1>2, <2>2, FieldBounds, SMT
      <3> QED BY <1>2, <2>2, <3>1, TargetsType DEF IsExpired
    <2>3. CASE /\ ~IsMineIcmp(arrived) /\ Aged(arrived).ttl = 0
               /\ \E o \in ErrorOthers : ip_hdr' = Error(Aged(arrived), "expired", o)
      <3>1. ip_hdr'.dst = arrived.src /\ ip_hdr'.src = my_ip
        BY <1>2, <2>3, ErrorKinds, ErrorType
      <3> QED BY <2>3, <3>1, TargetsType DEF IsExpired
    <2> QED BY <1>1, <2>1, <2>2, <2>3 DEF Treat
  <1>5. 1 \in DOMAIN Targets /\ 1 # Len(Targets) /\ 1 .. 1 - 1 = {}
    BY TargetsType, SMT
  <1>6. Reaches(1)'
    BY <1>3, <1>4, <1>5 DEF Reaches
  <1> QED BY <1>5, <1>6

\* An error goes on to the next destination (router.c 105-111).
LEMMA ReturnChain ==
    InTables /\ FindsRoute /\ Chain /\ Return /\ OneMask =>
        \E n \in DOMAIN Targets : Reaches(n)'
  <1> SUFFICES ASSUME InTables, FindsRoute, Chain, Return, OneMask
               PROVE  \E n \in DOMAIN Targets : Reaches(n)'
    OBVIOUS
  <1>1. PICK n \in DOMAIN Targets : Reaches(n)
    BY DEF Chain, Return
  <1>2. ~Routable(Targets[n])
    BY <1>1 DEF FindsRoute, Return, Reaches
  <1>3. Targets' = Targets /\ \A a : Routable(a)' <=> Routable(a)
    BY DEF Return, Targets, IsExpired, IsMineIcmp, Aged, Routable, Matches
  <1>4. ip_hdr \in Header
    BY DEF InTables, TypeOK
  <1>5. ip_hdr'.dst = ip_hdr.src /\ ip_hdr'.src = my_ip
    BY <1>4, ErrorKinds, ErrorType DEF Return
  <1>6. n \in Nat /\ n > 0 /\ n <= Len(Targets) /\ Len(Targets) \in Nat
    BY <1>1, TargetsType, SMT
  <1>7. CASE n = Len(Targets)
    <2>1. ip_hdr'.dst = Targets[n]
      BY <1>1, <1>5, <1>7, TargetsType DEF Reaches
    <2>2. Reaches(n)'
      BY <1>1, <1>3, <1>5, <1>7, <2>1 DEF Reaches
    <2> QED BY <1>1, <2>2
  <1>8. CASE n # Len(Targets)
    <2>1. /\ n + 1 \in DOMAIN Targets
          /\ \A m \in 1 .. (n + 1) - 1 : m \in 1 .. n - 1 \/ m = n
          /\ (n + 1) + 1 \in DOMAIN Targets \/ n + 1 = Len(Targets)
      BY <1>6, <1>8, TargetsType, SMT
    <2>2. ip_hdr'.dst = Targets[n + 1]
      BY <1>1, <1>5, <1>8 DEF Reaches
    <2>3. \A m \in 1 .. (n + 1) - 1 : ~Routable(Targets[m])
      BY <1>1, <1>2, <2>1 DEF Reaches
    <2>4. my_ip = IF n + 1 = Len(Targets) THEN my_ip ELSE Targets[(n + 1) + 1]
      <3>1. CASE n + 1 # Len(Targets)
        <4>1. (n + 1) + 1 = Len(Targets)
          BY <1>6, <1>8, <3>1, TargetsType, SMT
        <4> QED BY <4>1, TargetsType
      <3> QED BY <3>1
    <2>5. Reaches(n + 1)'
      BY <1>3, <1>5, <2>2, <2>3, <2>4 DEF Reaches
    <2> QED BY <2>1, <2>5
  <1> QED BY <1>7, <1>8

\* The chain along the whole turn (router.c 98-166).
LEMMA AlwaysChain == Spec => [](Untreated /\ Chain /\ SentToRoutable)
  <1> DEFINE I == Untreated /\ Chain /\ SentToRoutable
  <1>1. Init => I
    BY DEF Init, Untreated, Chain, SentToRoutable
  <1>2. InTables /\ SearchInv /\ I /\ [Next]_vars => I'
    <2> SUFFICES ASSUME InTables, SearchInv, I, [Next]_vars PROVE I'
      OBVIOUS
    <2>0. FindsRoute
      BY DEF SearchInv
    <2>1. CASE Drop
      BY <2>1 DEF Drop, Untreated, Chain, SentToRoutable
    <2>2. CASE Treat
      <3>1. Targets' = Targets
        BY <2>2 DEF Treat, Targets, IsExpired, IsMineIcmp, Aged
      <3>2. pc' = "route"
        BY <2>2 DEF Treat
      <3>3. Chain'
        BY <2>2, <3>1, TreatChain DEF Chain
      <3> QED BY <3>2, <3>3 DEF Untreated, SentToRoutable
    <2>3. CASE Call \/ Halve \/ End \/ Send \/ UNCHANGED vars
      <3>1. /\ ip_hdr' = ip_hdr /\ arrived' = arrived /\ route_table' = route_table
            /\ pc' = pc \/ (pc \in {"route", "search", "found"} /\ pc' # "received")
        BY <2>3 DEF Call, Halve, End, Send, vars
      <3>2. Targets' = Targets /\ \A a : Routable(a)' <=> Routable(a)
        BY <3>1 DEF Targets, IsExpired, IsMineIcmp, Aged, Routable, Matches
      <3>3. \A n : Reaches(n)' <=> Reaches(n)
        BY <3>1, <3>2 DEF Reaches
      <3>4. Untreated'
        BY <3>1 DEF Untreated
      <3>5. OneMask' <=> OneMask
        BY <3>1 DEF OneMask
      <3>6. Chain'
        BY <3>1, <3>2, <3>3, <3>5 DEF Chain
      <3>7. CASE pc' # "sent"
        BY <3>4, <3>6, <3>7 DEF SentToRoutable
      <3>8. CASE pc = "sent"
        <4>1. pc' = "sent"
          BY <3>1, <3>8
        <4> QED BY <3>1, <3>2, <3>4, <3>5, <3>6, <3>8, <4>1 DEF SentToRoutable
      <3>9. CASE pc' = "sent" /\ pc # "sent"
        <4>1. Send
          BY <2>3, <3>9 DEF Call, Halve, End, vars
        <4>2. Routable(ip_hdr.dst)
          <5>1. low \in DOMAIN route_table
            BY SortedTable DEF InTables, TypeOK
          <5> QED BY <4>1, <5>1 DEF Send, Routable
        <4>3. ASSUME OneMask
              PROVE  \E n \in DOMAIN Targets : /\ ip_hdr.dst = Targets[n]
                                               /\ Routable(Targets[n])
                                               /\ \A m \in 1 .. n - 1 : ~Routable(Targets[m])
          BY <4>1, <4>2, <4>3 DEF Send, Chain, Reaches
        <4> QED BY <3>1, <3>2, <3>4, <3>5, <3>6, <4>3 DEF SentToRoutable
      <3> QED BY <3>7, <3>8, <3>9
    <2>4. CASE Return
      <3>1. Targets' = Targets /\ pc' = "route" /\ (OneMask' <=> OneMask)
        BY <2>4 DEF Return, Targets, IsExpired, IsMineIcmp, Aged, OneMask
      <3>2. Chain'
        BY <2>0, <2>4, <3>1, ReturnChain DEF Chain
      <3> QED BY <3>1, <3>2 DEF Untreated, SentToRoutable
    <2> QED BY <2>1, <2>2, <2>3, <2>4 DEF Next
  <1> QED BY <1>1, <1>2, AlwaysTyped, AlwaysSearch, PTL DEF Spec

\* With prefixes of one length a packet leaves towards the first destination
\* that has a route (router.c 98-113, 157-166).
THEOREM RoutableOnly == Spec => []SentToRoutable
  BY AlwaysChain, PTL

(***************************************************************************)
(* The header that leaves.                                                 *)
(***************************************************************************)
SoundAlong ==
    pc \in {"route", "search", "found", "sent"} /\ arrived.ttl > 0 /\ ~IsMineIcmp(arrived) =>
        Valid(ip_hdr) /\ ip_hdr.ttl \in {arrived.ttl - 1, MAX_TTL} \ {0}

\* The sum along the whole turn (router.c 98-166).
LEMMA AlwaysSound == Spec => [](Untreated /\ SoundAlong)
  <1>1. Init => Untreated /\ SoundAlong
    BY DEF Init, Untreated, SoundAlong
  <1>2. InTables /\ Untreated /\ SoundAlong /\ [Next]_vars => Untreated' /\ SoundAlong'
    <2> SUFFICES ASSUME InTables, Untreated, SoundAlong, [Next]_vars
                 PROVE  Untreated' /\ SoundAlong'
      OBVIOUS
    <2>0. MAX_TTL # 0 /\ ip_hdr \in Header /\ arrived \in Header
      BY SMT DEF MAX_TTL, InTables, TypeOK
    <2>1. CASE Drop
      BY <2>1 DEF Drop, Untreated, SoundAlong
    <2>2. CASE Treat
      <3> SUFFICES ASSUME arrived.ttl > 0, ~IsMineIcmp(arrived)
                   PROVE  Valid(ip_hdr') /\ ip_hdr'.ttl \in {arrived.ttl - 1, MAX_TTL} \ {0}
        BY <2>2 DEF Treat, Untreated, SoundAlong, Valid, Words, IsMineIcmp
      <3>1. ip_hdr = arrived /\ ip_hdr.check = ip_checksum(ip_hdr)
        BY <2>2 DEF Treat, Untreated
      <3>2. Valid(Aged(arrived)) /\ Aged(arrived).ttl = arrived.ttl - 1
        BY <2>0, <3>1, AgedValid
      <3>3. CASE Aged(arrived).ttl > 0 /\ ip_hdr' = Aged(arrived)
        <4>1. Aged(arrived).ttl # 0
          BY <2>0, <3>3, AgedType, FieldBounds, SMT
        <4> QED BY <3>2, <3>3, <4>1
      <3>4. CASE \E o \in ErrorOthers : ip_hdr' = Error(Aged(arrived), "expired", o)
        <4>1. PICK o \in ErrorOthers : ip_hdr' = Error(Aged(arrived), "expired", o)
          BY <3>4
        <4>2. Valid(Error(Aged(arrived), "expired", o))
          BY <2>0, AgedType, ErrorKinds, ErrorType
        <4>3. Error(Aged(arrived), "expired", o).ttl = MAX_TTL
          BY <2>0, AgedType, ErrorKinds, ErrorType
        <4> QED BY <2>0, <4>1, <4>2, <4>3
      <3> QED BY <2>2, <3>1, <3>3, <3>4 DEF Treat
    <2>3. CASE Call \/ Halve \/ End \/ Send \/ UNCHANGED vars
      <3>1. /\ ip_hdr' = ip_hdr /\ arrived' = arrived
            /\ pc' = pc \/ (pc \in {"route", "search", "found"} /\ pc' # "received")
        BY <2>3 DEF Call, Halve, End, Send, vars
      <3>2. Untreated'
        BY <3>1 DEF Untreated
      <3>3. SoundAlong'
        BY <3>1 DEF SoundAlong, Valid, Words, IsMineIcmp
      <3> QED BY <3>2, <3>3
    <2>4. CASE Return
      <3>1. pc' = "route"
        BY <2>4 DEF Return
      <3>2. Valid(ip_hdr') /\ ip_hdr'.ttl = MAX_TTL
        <4>1. PICK o \in ErrorOthers : ip_hdr' = Error(ip_hdr, "unreachable", o)
          BY <2>4 DEF Return
        <4>2. Valid(Error(ip_hdr, "unreachable", o))
          BY <2>0, ErrorKinds, ErrorType
        <4>3. Error(ip_hdr, "unreachable", o).ttl = MAX_TTL
          BY <2>0, ErrorKinds, ErrorType
        <4> QED BY <4>1, <4>2, <4>3
      <3> QED BY <2>0, <3>1, <3>2 DEF Untreated, SoundAlong, Valid, Words
    <2> QED BY <2>1, <2>2, <2>3, <2>4 DEF Next
  <1> QED BY <1>1, <1>2, AlwaysTyped, PTL DEF Spec

\* What is forwarded has a valid checksum and a ttl that was counted down and
\* is not 0 (router.c 143-164).
THEOREM HeaderSound == Spec => []SoundHeader
  <1>1. SoundAlong => SoundHeader
    BY DEF SoundAlong, SoundHeader
  <1> QED BY <1>1, AlwaysSound, PTL
=============================================================================
