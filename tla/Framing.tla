-------------------------------- MODULE Framing -------------------------------
(***************************************************************************)
(* tema2/subscriber.cpp receive_msg with read_data and place_back of       *)
(* common.cpp: the bytes of the news behind Subscriber!Read.               *)
(*                                                                         *)
(* A byte knows the news it is of and its place in it.  The first LenSize  *)
(* bytes of a news hold its length, their own number included.             *)
(***************************************************************************)
EXTENDS Integers, Sequences, SequencesExt

CONSTANTS
    Lengths,        \* lengths of news, those of the wrapper
    LenSize,        \* sizeof(len)
    BUFFER_CLIENT,  \* bytes of one recv
    RecvNews,       \* most news one recv can complete
    MaxNews         \* bound: news sent

ASSUME FramingAssumption ==
    /\ LenSize \in Nat \ {0} /\ BUFFER_CLIENT \in Nat \ {0}
    /\ RecvNews \in Nat \ {0} /\ MaxNews \in Nat
    /\ Lengths \subseteq Nat
    /\ \A l \in Lengths : l > LenSize /\ RecvNews * l >= BUFFER_CLIENT

VARIABLES
    sent,       \* the news, as their bytes
    wire,       \* bytes on the connection
    buffer_r,   \* bytes read, not used
    shown,      \* what was taken for a news and printed, as its bytes
    defined     \* no byte was taken from an empty deque yet

vars == <<sent, wire, buffer_r, shown, defined>>

News ==
    {[k \in 1 .. l |-> [news |-> n, len |-> l, at |-> k]] :
        n \in 1 .. MaxNews, l \in Lengths}
Byte == {b \in [news : 1 .. MaxNews, len : Lengths, at : Nat] : b.at \in 1 .. b.len}

Init ==
    /\ sent = <<>> /\ wire = <<>> /\ buffer_r = <<>> /\ shown = <<>>
    /\ defined = TRUE

SendWrapper ==          \* mistake: all of the structure is sent
    /\ Len(sent) < MaxNews
    /\ \E x \in News : /\ x[1].news = Len(sent) + 1
                       /\ sent' = Append(sent, x)
                       /\ wire' = wire \o Append(x, [x[1] EXCEPT !.at = @ + x[1].len])
    /\ UNCHANGED <<buffer_r, shown, defined>>
\* The server's send of news.len bytes.
SendNews ==
    /\ Len(sent) < MaxNews
    /\ \E x \in News : /\ x[1].news = Len(sent) + 1
                       /\ sent' = Append(sent, x)
                       /\ wire' = wire \o x
    /\ UNCHANGED <<buffer_r, shown, defined>>

\* The int in the first bytes of q; any other bytes are no length.
LenIn(q) ==
    IF \A k \in 1 .. LenSize : q[k] = [q[1] EXCEPT !.at = k] THEN q[1].len ELSE 0

\* read_data, what is read and what is left.
Taken(q, size) == SubSeq(q, 1, size)
Left(q, size) == SubSeq(q, size + 1, Len(q))

place_back_turned(q, extra) == Reverse(extra) \o q  \* mistake: last byte first
place_back(q, extra) == extra \o q

\* After the length was read, len bytes with its own are not all there.
CroppedAt(len, q) == len - LenSize >= Len(q)        \* mistake: nor when just there
Cropped(len, q) == len - LenSize > Len(q)

receive_msg(q) ==
    IF Len(q) < LenSize
    THEN defined' = FALSE /\ buffer_r' = q /\ UNCHANGED shown
    ELSE LET len == LenIn(q)
             rest == Left(q, LenSize)
         IN  /\ IF Cropped(len, rest)
                THEN buffer_r' = place_back(rest, Taken(q, LenSize)) /\ UNCHANGED shown
                ELSE /\ shown' = Append(shown, Taken(q, LenSize) \o Taken(rest, len - LenSize))
                     /\ buffer_r' = Left(rest, len - LenSize)
             /\ UNCHANGED defined

\* One recv, of any of the bytes that are there, and one receive_msg.
Recv ==
    /\ defined
    /\ wire # <<>>
    /\ \E n \in 1 .. BUFFER_CLIENT :
         /\ n <= Len(wire)
         /\ wire' = Left(wire, n)
         /\ receive_msg(buffer_r \o Taken(wire, n))
    /\ UNCHANGED sent

Next == SendNews \/ Recv

Spec == Init /\ [][Next]_vars

(***************************************************************************)
(* Properties.                                                             *)
(***************************************************************************)
TypeOK ==
    /\ sent \in Seq(News) /\ Len(sent) <= MaxNews
    /\ wire \in Seq(Byte) /\ buffer_r \in Seq(Byte)
    /\ shown \in Seq(Seq(Byte))
    /\ defined \in BOOLEAN

\* The bytes that were read and not shown, and those on the way.
Stream == buffer_r \o wire

Follows(c, b) ==
    IF b.at < b.len THEN c.news = b.news /\ c.at = b.at + 1
    ELSE c.news = b.news + 1 /\ c.at = 1

\* No byte is lost, repeated or moved, wherever the news were cut: the stream
\* is all of the news not shown, one after the other (common.cpp 10-28,
\* subscriber.cpp 147-159).
StreamKept ==
    /\ \A k \in DOMAIN Stream :
         LET b == Stream[k]
         IN  b.news \in DOMAIN sent /\ b.at \in DOMAIN sent[b.news] /\ b = sent[b.news][b.at]
    /\ Stream = <<>> => Len(shown) = Len(sent)
    /\ Stream # <<>> =>
         LET first == Stream[1]
             last == Stream[Len(Stream)]
         IN  /\ first.news = Len(shown) + 1 /\ first.at = 1
             /\ \A k \in 2 .. Len(Stream) : Follows(Stream[k], Stream[k - 1])
             /\ last.news = Len(sent) /\ last.at = last.len

\* The news up to the last one of which the last byte was read are the ones
\* Subscriber calls whole; each recv shows exactly the first of them
\* (subscriber.cpp 147-205).
LastWhole ==
    IF buffer_r = <<>> THEN Len(shown)
    ELSE LET b == buffer_r[Len(buffer_r)]
         IN  IF b.at = b.len THEN b.news ELSE b.news - 1
Reader == INSTANCE NewsReader WITH
    toClient <- SubSeq(sent, LastWhole + 1, Len(sent)),
    buffer_r <- SubSeq(sent, Len(shown) + 1, LastWhole)
ImplementsReader == Reader!Spec
=============================================================================
