------------------------------- MODULE IpHeader -------------------------------
(***************************************************************************)
(* tema1/skel.c ip_checksum and the arithmetic of forward_ip on the ttl    *)
(* and the checksum: 16-bit words as they lie in memory (the one's         *)
(* complement sum does not depend on the order of the bytes).              *)
(*                                                                         *)
(* Of the header, ttl and protocol are one word; the other words but the   *)
(* checksum count by their one's complement sum, the field others.         *)
(***************************************************************************)
EXTENDS Integers

Byte == 0 .. 255
Word16 == 0 .. 65535

\* The deferred carries, of a sum of at most four words.
Carry(n) == (n % 65536) + (n \div 65536)
Fold(n) == Carry(Carry(n))

Words(h) == h.others + h.ttl + 256 * h.protocol

ip_checksum(h) == 65535 - Fold(65535 + Words(h))

\* ttl is a uint8_t and check a uint16_t; actual_checksum - ~prev - new - 1.
AgedUp(h) ==            \* mistake: the difference is added with the wrong sign
    LET new == (h.ttl - 1) % 256
    IN  [h EXCEPT !.ttl = new, !.check = (@ + new - h.ttl) % 65536]
Aged(h) ==
    LET new == (h.ttl - 1) % 256
    IN  [h EXCEPT !.ttl = new, !.check = (@ + h.ttl - new) % 65536]

\* RFC 1071: the sum of all words, the checksum too, is all ones.
Valid(h) == Fold(Words(h) + h.check) = 65535
=============================================================================
