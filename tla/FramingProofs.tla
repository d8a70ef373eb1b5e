---------------------------- MODULE FramingProofs ----------------------------
(***************************************************************************)
(* Theorems about the bytes of the news: that none is lost or moved, and   *)
(* that a subscriber that reads them in any pieces is a reader of whole    *)
(* news.                                                                   *)
(*                                                                         *)
(* The argument gives each news that was sent its offset in the stream of  *)
(* all bytes that were ever sent.                                          *)
(***************************************************************************)
EXTENDS Framing, SequenceTheorems, TLAPS

(***************************************************************************)
(* Numbers.                                                                *)
(***************************************************************************)
\* The least length of which RecvNews news fill a recv.
Least == (BUFFER_CLIENT + RecvNews - 1) \div RecvNews

LEMMA Products ==
    ASSUME NEW a \in Nat, NEW b \in Int, NEW c \in Int
    PROVE  /\ a * (b + 1) = a * b + a /\ a * b \in Int
           /\ a * 0 = 0 /\ a * 1 = a
           /\ b <= c => a * b <= a * c
  <1>1. a * (b + 1) = a * b + a /\ a * b \in Int /\ a * 0 = 0 /\ a * 1 = a
    OBVIOUS
  <1>2. ASSUME b <= c PROVE a * b <= a * c
    <2>1. a * c = a * b + a * (c - b)
      OBVIOUS
    <2>2. a * (c - b) >= 0
      BY <1>2
    <2>. QED
      BY <2>1, <2>2
  <1>. QED
    BY <1>1, <1>2

LEMMA Quotient ==
    ASSUME NEW a \in Nat, NEW b \in Nat \ {0}
    PROVE  /\ a \div b \in Nat
           /\ b * (a \div b) <= a /\ a < b * (a \div b) + b
  BY SMT

LEMMA LeastLength ==
    /\ Least \in Nat \ {0}
    /\ BUFFER_CLIENT <= RecvNews * Least
    /\ \A l \in Lengths : l \in Nat /\ Least <= l
  <1>1. RecvNews \in Nat \ {0} /\ BUFFER_CLIENT \in Nat \ {0}
    BY FramingAssumption
  <1>2. /\ Least \in Nat
        /\ RecvNews * Least <= BUFFER_CLIENT + RecvNews - 1
        /\ BUFFER_CLIENT + RecvNews - 1 < RecvNews * Least + RecvNews
    BY <1>1, Quotient DEF Least
  <1>3. BUFFER_CLIENT <= RecvNews * Least
    <2>1. RecvNews * Least \in Int
      BY <1>1, <1>2, Products
    <2>. QED
      BY <1>1, <1>2, <2>1
  <1>4. Least # 0
    BY <1>1, <1>3, Products
  <1>5. ASSUME NEW l \in Lengths PROVE l \in Nat /\ Least <= l
    <2>1. l \in Nat /\ RecvNews * l >= BUFFER_CLIENT
      BY FramingAssumption
    <2>2. CASE Least > l
      <3>1. l + 1 <= Least
        BY <1>2, <2>1, <2>2
      <3>2. RecvNews * (l + 1) <= RecvNews * Least
        BY <1>1, <1>2, <2>1, <3>1, Products
      <3>3. RecvNews * (l + 1) = RecvNews * l + RecvNews
        BY <1>1, <2>1, Products
      <3>4. RecvNews * l \in Int /\ RecvNews * Least \in Int
        BY <1>1, <1>2, <2>1, Products
      <3>. QED
        BY <1>1, <1>2, <2>1, <3>2, <3>3, <3>4
    <2>. QED
      BY <1>2, <2>1, <2>2
  <1>. QED
    BY <1>2, <1>3, <1>4, <1>5

(***************************************************************************)
(* News and their bytes.                                                   *)
(***************************************************************************)
LEMMA NewsBytes ==
    ASSUME NEW x \in News
    PROVE  /\ x \in Seq(Byte) /\ Len(x) \in Lengths /\ Len(x) \in Nat
           /\ LenSize < Len(x) /\ Least <= Len(x) /\ 1 < Len(x)
           /\ x[1].news \in 1 .. MaxNews
           /\ \A j \in 1 .. Len(x) :
                 x[j] = [news |-> x[1].news, len |-> Len(x), at |-> j]
  <1>1. PICK n \in 1 .. MaxNews, l \in Lengths :
          x = [k \in 1 .. l |-> [news |-> n, len |-> l, at |-> k]]
    BY DEF News
  <1>2. l \in Nat /\ LenSize < l /\ Least <= l /\ LenSize \in Nat \ {0}
    BY LeastLength, FramingAssumption
  <1>3. \A k \in 1 .. l : [news |-> n, len |-> l, at |-> k] \in Byte
    <2>. SUFFICES ASSUME NEW k \in 1 .. l
                  PROVE  [news |-> n, len |-> l, at |-> k] \in Byte
      OBVIOUS
    <2>1. k \in Nat
      BY <1>2
    <2>. QED
      BY <2>1 DEF Byte
  <1>4. x \in [1 .. l -> Byte]
    BY <1>1, <1>3
  <1>5. x \in Seq(Byte) /\ Len(x) = l
    BY <1>2, <1>4
  <1>6. x[1] = [news |-> n, len |-> l, at |-> 1]
    BY <1>1, <1>2
  <1>. QED
    BY <1>1, <1>2, <1>5, <1>6

LEMMA Pieces ==
    ASSUME NEW S, NEW q \in Seq(S), NEW m \in 0 .. Len(q)
    PROVE  /\ Taken(q, m) \in Seq(S) /\ Len(Taken(q, m)) = m
           /\ Left(q, m) \in Seq(S) /\ Len(Left(q, m)) = Len(q) - m
           /\ \A k \in 1 .. m : Taken(q, m)[k] = q[k]
           /\ \A k \in 1 .. Len(q) - m : Left(q, m)[k] = q[m + k]
  <1>1. /\ SubSeq(q, 1, m) \in Seq(S) /\ Len(SubSeq(q, 1, m)) = m
        /\ \A k \in 1 .. m : SubSeq(q, 1, m)[k] = q[k]
    OBVIOUS
  <1>2. /\ SubSeq(q, m + 1, Len(q)) \in Seq(S)
        /\ Len(SubSeq(q, m + 1, Len(q))) = Len(q) - m
        /\ \A k \in 1 .. Len(q) - m : SubSeq(q, m + 1, Len(q))[k] = q[m + k]
    OBVIOUS
  <1>. QED
    BY <1>1, <1>2 DEF Taken, Left

LEMMA PiecesJoined ==
    ASSUME NEW S, NEW q \in Seq(S), NEW m \in 0 .. Len(q)
    PROVE  Taken(q, m) \o Left(q, m) = q
  <1>1. /\ Taken(q, m) \in Seq(S) /\ Len(Taken(q, m)) = m
        /\ Left(q, m) \in Seq(S) /\ Len(Left(q, m)) = Len(q) - m
        /\ \A k \in 1 .. m : Taken(q, m)[k] = q[k]
        /\ \A k \in 1 .. Len(q) - m : Left(q, m)[k] = q[m + k]
    BY Pieces
  <1>. DEFINE a == Taken(q, m)
              b == Left(q, m)
              r == a \o b
  <1>2. a \in Seq(S) /\ b \in Seq(S)
    BY <1>1
  <1>. HIDE DEF a, b
  <1>3. /\ r \in Seq(S) /\ Len(r) = Len(a) + Len(b)
        /\ \A k \in 1 .. Len(a) + Len(b) :
              r[k] = IF k <= Len(a) THEN a[k] ELSE b[k - Len(a)]
    BY <1>2, ConcatProperties
  <1>. HIDE DEF r
  <1>4. /\ Len(a) = m /\ Len(b) = Len(q) - m
        /\ \A k \in 1 .. m : a[k] = q[k]
        /\ \A k \in 1 .. Len(q) - m : b[k] = q[m + k]
    BY <1>1 DEF a, b
  <1>5. Len(r) = Len(q)
    BY <1>3, <1>4
  <1>6. \A k \in 1 .. Len(r) : r[k] = q[k]
    <2>. SUFFICES ASSUME NEW k \in 1 .. Len(r) PROVE r[k] = q[k]
      OBVIOUS
    <2>1. CASE k <= m
      BY <1>3, <1>4, <1>5, <2>1
    <2>2. CASE k > m
      <3>1. k - m \in 1 .. Len(q) - m /\ m + (k - m) = k
        BY <1>5, <2>2
      <3>2. b[k - m] = q[k]
        BY <1>4, <3>1
      <3>. QED
        BY <1>3, <1>4, <1>5, <2>2, <3>2
    <2>. QED
      BY <2>1, <2>2
  <1>7. r = q
    BY <1>3, <1>5, <1>6, SeqEqual, Zenon
  <1>. QED
    BY <1>7 DEF r, a, b

(***************************************************************************)
(* Where each news lies.                                                   *)
(***************************************************************************)
\* The n-th news sent is the one with the number n.
Numbered(t) == t \in Seq(News) /\ \A n \in 1 .. Len(t) : t[n][1].news = n

\* start[n] bytes were sent before the n-th news.
Offsets(start, t) ==
    /\ start \in [1 .. Len(t) + 1 -> Nat]
    /\ start[1] = 0
    /\ \A n \in 1 .. Len(t) : start[n + 1] = start[n] + Len(t[n])
    /\ \A m, n \in 1 .. Len(t) + 1 : m <= n => start[m] + Least * (n - m) <= start[n]
    /\ \A k \in 1 .. start[Len(t) + 1] :
          \E n \in 1 .. Len(t) : start[n] < k /\ k <= start[n + 1]

\* s is all of the news from the f-th on.
Held(start, t, f, s) ==
    /\ s \in Seq(Byte) /\ f \in 1 .. Len(t) + 1
    /\ Len(s) = start[Len(t) + 1] - start[f]
    /\ \A n \in f .. Len(t) : \A j \in 1 .. Len(t[n]) :
          s[start[n] - start[f] + j] = t[n][j]

LEMMA NumberedBytes ==
    ASSUME NEW t, Numbered(t), NEW n \in 1 .. Len(t)
    PROVE  /\ t[n] \in News /\ t[n] \in Seq(Byte)
           /\ Len(t[n]) \in Nat /\ Len(t[n]) \in Lengths
           /\ LenSize < Len(t[n]) /\ Least <= Len(t[n]) /\ 1 < Len(t[n])
           /\ \A j \in 1 .. Len(t[n]) :
                 t[n][j] = [news |-> n, len |-> Len(t[n]), at |-> j]
  <1>1. t[n] \in News /\ t[n][1].news = n
    BY DEF Numbered
  <1>. QED
    BY <1>1, NewsBytes

\* Offsets grow.
LEMMA Grows ==
    ASSUME NEW t, Numbered(t), NEW start, Offsets(start, t),
           NEW m \in 1 .. Len(t) + 1, NEW n \in 1 .. Len(t) + 1
    PROVE  /\ start[m] \in Nat /\ start[n] \in Nat /\ Len(t) \in Nat
           /\ m <= n => start[m] <= start[n]
           /\ m < n => start[m] < start[n]
           /\ m <= n => start[m] + Least * (n - m) <= start[n] /\ Least * (n - m) \in Nat
  <1>1. Len(t) \in Nat
    BY DEF Numbered
  <1>2. start[m] \in Nat /\ start[n] \in Nat
    BY DEF Offsets
  <1>3. Least \in Nat \ {0} /\ n - m \in Int
    BY <1>1, LeastLength
  <1>4. m <= n => start[m] + Least * (n - m) <= start[n]
    BY DEF Offsets
  <1>5. Least * (n - m) \in Int
    BY <1>3, Products
  <1>6. m <= n => 0 <= Least * (n - m)
    <2>1. m <= n => Least * 0 <= Least * (n - m)
      BY <1>1, <1>3, Products
    <2>. QED
      BY <2>1, <1>3, Products
  <1>7. m < n => Least <= Least * (n - m)
    <2>1. m < n => Least * 1 <= Least * (n - m)
      BY <1>1, <1>3, Products
    <2>. QED
      BY <2>1, <1>3, Products
  <1>. QED
    BY <1>1, <1>2, <1>3, <1>4, <1>5, <1>6, <1>7

LEMMA NothingSent == Offsets([n \in {1} |-> 0], <<>>) /\ Numbered(<<>>)
  <1>. DEFINE start == [n \in {1} |-> 0]
  <1>1. Len(<<>>) = 0 /\ 1 .. Len(<<>>) + 1 = {1} /\ 1 .. Len(<<>>) = {}
    OBVIOUS
  <1>2. start \in [{1} -> Nat] /\ start[1] = 0 /\ 1 .. start[1] = {}
    OBVIOUS
  <1>3. \A m, n \in {1} : start[m] + Least * (n - m) <= start[n]
    <2>1. 1 - 1 = 0
      OBVIOUS
    <2>2. Least * 0 = 0
      BY LeastLength, Products
    <2>. QED
      BY <1>2, <2>1, <2>2
  <1>. HIDE DEF start
  <1>4. Offsets(start, <<>>)
    BY <1>1, <1>2, <1>3 DEF Offsets
  <1>5. Numbered(<<>>)
    BY <1>1 DEF Numbered
  <1>. QED
    BY <1>4, <1>5 DEF start

LEMMA AppendedNews ==
    ASSUME NEW t, Numbered(t), NEW x \in News, x[1].news = Len(t) + 1
    PROVE  /\ Numbered(Append(t, x)) /\ Len(Append(t, x)) = Len(t) + 1
           /\ \A n \in 1 .. Len(t) : Append(t, x)[n] = t[n]
           /\ Append(t, x)[Len(t) + 1] = x
  BY DEF Numbered

\* One more news is at the end of all.
LEMMA OffsetsAppended ==
    ASSUME NEW t, Numbered(t), NEW start, Offsets(start, t),
           NEW x \in News, x[1].news = Len(t) + 1
    PROVE  \E next : /\ Offsets(next, Append(t, x))
                     /\ \A n \in 1 .. Len(t) + 1 : next[n] = start[n]
                     /\ next[Len(t) + 2] = start[Len(t) + 1] + Len(x)
  <1>. DEFINE N == Len(t)
              u == Append(t, x)
              next == [n \in 1 .. N + 2 |->
                         IF n = N + 2 THEN start[N + 1] + Len(x) ELSE start[n]]
  <1>1. /\ Len(u) = N + 1 /\ N \in Nat
        /\ \A n \in 1 .. N : u[n] = t[n]
        /\ u[N + 1] = x
    BY AppendedNews DEF Numbered
  <1>2. Len(x) \in Nat /\ Least <= Len(x) /\ Least \in Nat
    BY NewsBytes, LeastLength
  <1>3. /\ start \in [1 .. N + 1 -> Nat] /\ start[1] = 0
        /\ \A n \in 1 .. N : start[n + 1] = start[n] + Len(t[n])
        /\ \A m, n \in 1 .. N + 1 : m <= n => start[m] + Least * (n - m) <= start[n]
        /\ \A k \in 1 .. start[N + 1] :
              \E n \in 1 .. N : start[n] < k /\ k <= start[n + 1]
    BY DEF Offsets
  <1>. HIDE DEF N, u
  <1>4. /\ next \in [1 .. N + 2 -> Nat] /\ next[N + 2] = start[N + 1] + Len(x)
        /\ \A n \in 1 .. N + 1 : next[n] = start[n]
    <2>0. N + 1 \in 1 .. N + 1
      BY <1>1
    <2>1. start[N + 1] \in Nat /\ start[N + 1] + Len(x) \in Nat
      <3>1. start[N + 1] \in Nat
        BY <1>3, <2>0
      <3>. QED
        BY <1>2, <3>1
    <2>2. ASSUME NEW n \in 1 .. N + 1
          PROVE  n \in 1 .. N + 2 /\ n # N + 2 /\ start[n] \in Nat
      BY <1>1, <1>3
    <2>3. ASSUME NEW n \in 1 .. N + 2, n # N + 2
          PROVE  n \in 1 .. N + 1
      BY <1>1, <2>3
    <2>4. N + 2 \in 1 .. N + 2
      BY <1>1
    <2>5. \A n \in 1 .. N + 2 :
             (IF n = N + 2 THEN start[N + 1] + Len(x) ELSE start[n]) \in Nat
      BY <2>1, <2>2, <2>3
    <2>6. next \in [1 .. N + 2 -> Nat]
      BY <2>5
    <2>. QED
      BY <2>2, <2>4, <2>6
  <1>. HIDE DEF next
  <1>5. \A n \in 1 .. N + 1 : next[n + 1] = next[n] + Len(u[n])
    <2>. SUFFICES ASSUME NEW n \in 1 .. N + 1
                  PROVE  next[n + 1] = next[n] + Len(u[n])
      OBVIOUS
    <2>1. CASE n \in 1 .. N
      <3>1. n + 1 \in 1 .. N + 1 /\ n \in 1 .. N + 1
        BY <1>1, <2>1
      <3>2. next[n + 1] = start[n + 1] /\ next[n] = start[n] /\ u[n] = t[n]
        BY <1>1, <1>4, <2>1, <3>1
      <3>3. start[n + 1] = start[n] + Len(t[n])
        BY <1>3, <2>1
      <3>. QED
        BY <3>2, <3>3
    <2>2. CASE n = N + 1
      BY <1>1, <1>4, <2>2
    <2>. QED
      BY <1>1, <2>1, <2>2
  <1>6. ASSUME NEW m \in 1 .. N + 2, NEW n \in 1 .. N + 2, m <= n
        PROVE  next[m] + Least * (n - m) <= next[n]
    <2>1. CASE n # N + 2
      <3>1. m \in 1 .. N + 1 /\ n \in 1 .. N + 1
        BY <1>1, <1>6, <2>1
      <3>. QED
        BY <1>3, <1>4, <1>6, <3>1
    <2>2. CASE n = N + 2 /\ m = N + 2
      <3>1. n - m = 0 /\ Least * 0 = 0 /\ next[m] \in Nat
        BY <1>1, <1>2, <1>4, <2>2, Products
      <3>. QED
        BY <3>1, <2>2
    <2>3. CASE n = N + 2 /\ m # N + 2
      <3>1. m \in 1 .. N + 1 /\ N + 1 \in 1 .. N + 1 /\ m <= N + 1
        BY <1>1, <1>6, <2>3
      <3>2. start[m] + Least * ((N + 1) - m) <= start[N + 1]
        <4>1. \A j, n2 \in 1 .. N + 1 :
                 j <= n2 => start[j] + Least * (n2 - j) <= start[n2]
          BY <1>3
        <4>. QED
          BY <3>1, <4>1, Zenon
      <3>3. (N + 1) - m \in Int /\ n - m = ((N + 1) - m) + 1
        BY <1>1, <2>3, <3>1
      <3>4. /\ Least * (n - m) = Least * ((N + 1) - m) + Least
            /\ Least * ((N + 1) - m) \in Int
        BY <1>2, <3>3, Products
      <3>5. start[m] \in Nat /\ start[N + 1] \in Nat
        BY <1>3, <3>1
      <3>6. next[m] = start[m] /\ next[n] = start[N + 1] + Len(x)
        BY <1>4, <2>3, <3>1
      <3>. QED
        BY <1>2, <3>2, <3>4, <3>5, <3>6
    <2>. QED
      BY <2>1, <2>2, <2>3
  <1>7. ASSUME NEW k \in 1 .. next[N + 2]
        PROVE  \E n \in 1 .. N + 1 : next[n] < k /\ k <= next[n + 1]
    <2>1. start[N + 1] \in Nat
      BY <1>1, <1>3
    <2>2. CASE k <= start[N + 1]
      <3>1. PICK n \in 1 .. N : start[n] < k /\ k <= start[n + 1]
        BY <1>3, <2>1, <2>2
      <3>2. n \in 1 .. N + 1 /\ n + 1 \in 1 .. N + 1
        BY <1>1
      <3>. QED
        BY <1>4, <3>1, <3>2
    <2>3. CASE k > start[N + 1]
      <3>1. N + 1 \in 1 .. N + 1 /\ (N + 1) + 1 = N + 2
        BY <1>1
      <3>2. next[N + 1] < k /\ k <= next[(N + 1) + 1]
        BY <1>2, <1>4, <2>1, <2>3, <3>1
      <3>. QED
        BY <3>1, <3>2
    <2>. QED
      BY <2>1, <2>2, <2>3
  <1>8. next[1] = 0 /\ (N + 1) + 1 = N + 2
    BY <1>1, <1>3, <1>4
  <1>9. Offsets(next, u)
    BY <1>1, <1>4, <1>5, <1>6, <1>7, <1>8 DEF Offsets
  <1>. QED
    BY <1>4, <1>9 DEF N, u

LEMMA Within ==
    ASSUME NEW base \in Nat, NEW lo \in Nat, NEW hi, NEW top \in Nat, NEW l \in Nat,
           NEW j \in 1 .. l, base <= lo, hi = lo + l, hi <= top
    PROVE  lo - base + j \in 1 .. top - base
  OBVIOUS

\* Each byte that is held is one of a news.
\* The k-th byte of s, which is all of the news from the f-th on, is the j-th
\* of the n-th.
Placed(start, t, f, s, k) ==
    \E n \in f .. Len(t) : \E j \in 1 .. Len(t[n]) :
        /\ k = start[n] - start[f] + j /\ start[n + 1] = start[n] + Len(t[n])
        /\ s[k] = [news |-> n, len |-> Len(t[n]), at |-> j]

LEMMA Position ==
    ASSUME NEW t, Numbered(t), NEW start, Offsets(start, t), NEW f, NEW s,
           Held(start, t, f, s), NEW k \in 1 .. Len(s)
    PROVE  Placed(start, t, f, s, k)
  <1>1. /\ Len(t) \in Nat /\ f \in 1 .. Len(t) + 1
        /\ Len(s) = start[Len(t) + 1] - start[f]
    BY DEF Numbered, Held
  <1>2. start[f] \in Nat /\ start[Len(t) + 1] \in Nat
    BY <1>1 DEF Offsets
  <1>3. k + start[f] \in 1 .. start[Len(t) + 1]
    BY <1>1, <1>2
  <1>4. PICK n \in 1 .. Len(t) : start[n] < k + start[f] /\ k + start[f] <= start[n + 1]
    BY <1>3 DEF Offsets
  <1>5. n \in 1 .. Len(t) + 1 /\ n + 1 \in 1 .. Len(t) + 1
    BY <1>1
  <1>6. start[n] \in Nat /\ start[n + 1] = start[n] + Len(t[n])
    BY <1>5 DEF Offsets
  <1>7. f <= n
    <2>1. n + 1 <= f => start[n + 1] <= start[f]
      BY <1>1, <1>5, Grows
    <2>2. start[n + 1] \in Nat
      BY <1>5 DEF Offsets
    <2>. QED
      BY <1>1, <1>2, <1>4, <1>5, <2>1, <2>2
  <1>8. n \in f .. Len(t)
    BY <1>1, <1>7
  <1>. DEFINE j == k + start[f] - start[n]
  <1>9. Len(t[n]) \in Nat
    BY NumberedBytes
  <1>10. j \in 1 .. Len(t[n]) /\ k = start[n] - start[f] + j
    <2>1. ASSUME NEW b \in Nat, NEW e \in Nat, NEW g \in Nat, NEW m \in Nat,
                 b < k + g, k + g <= e, e = b + m
          PROVE  k + g - b \in 1 .. m /\ k = b - g + (k + g - b)
      BY <2>1
    <2>2. start[n + 1] \in Nat
      BY <1>6, <1>9
    <2>. QED
      BY <1>2, <1>4, <1>6, <1>9, <2>1, <2>2
  <1>. HIDE DEF j
  <1>11. s[start[n] - start[f] + j] = t[n][j]
    BY <1>8, <1>10 DEF Held
  <1>12. t[n][j] = [news |-> n, len |-> Len(t[n]), at |-> j]
    BY <1>10, NumberedBytes
  <1>. QED
    BY <1>6, <1>8, <1>10, <1>11, <1>12 DEF Placed

LEMMA HeldAppended ==
    ASSUME NEW t, Numbered(t), NEW start, Offsets(start, t), NEW f, NEW s,
           Held(start, t, f, s), NEW x \in News, x[1].news = Len(t) + 1,
           NEW next, Offsets(next, Append(t, x)),
           \A n \in 1 .. Len(t) + 1 : next[n] = start[n],
           next[Len(t) + 2] = start[Len(t) + 1] + Len(x)
    PROVE  Held(next, Append(t, x), f, s \o x)
  <1>. DEFINE N == Len(t)
              u == Append(t, x)
              r == s \o x
  <1>1. /\ Len(u) = N + 1 /\ N \in Nat
        /\ \A n \in 1 .. N : u[n] = t[n]
        /\ u[N + 1] = x
    BY AppendedNews DEF Numbered
  <1>2. /\ s \in Seq(Byte) /\ f \in 1 .. N + 1
        /\ Len(s) = start[N + 1] - start[f]
        /\ \A n \in f .. N : \A j \in 1 .. Len(t[n]) :
              s[start[n] - start[f] + j] = t[n][j]
    BY DEF Held
  <1>3. x \in Seq(Byte) /\ Len(x) \in Nat
    BY NewsBytes
  <1>4. /\ r \in Seq(Byte) /\ Len(r) = Len(s) + Len(x)
        /\ \A k \in 1 .. Len(s) + Len(x) :
              r[k] = IF k <= Len(s) THEN s[k] ELSE x[k - Len(s)]
    BY <1>2, <1>3, ConcatProperties
  <1>. HIDE DEF r
  <1>5. next[f] = start[f] /\ start[f] \in Nat /\ start[N + 1] \in Nat
        /\ next[N + 1] = start[N + 1] /\ next[N + 2] = start[N + 1] + Len(x)
    <2>1. f \in 1 .. N + 1 /\ N + 1 \in 1 .. N + 1
      BY <1>1, <1>2
    <2>. QED
      BY <2>1 DEF Offsets
  <1>6. Len(r) = next[Len(u) + 1] - next[f]
    BY <1>1, <1>2, <1>3, <1>4, <1>5
  <1>7. ASSUME NEW n \in f .. N + 1, NEW j \in 1 .. Len(u[n])
        PROVE  r[next[n] - next[f] + j] = u[n][j]
    <2>1. CASE n = N + 1
      <3>1. j \in 1 .. Len(x)
        BY <1>1, <2>1
      <3>2. next[n] - next[f] + j = Len(s) + j
        BY <1>2, <1>5, <2>1
      <3>3. Len(s) \in Nat
        BY <1>2
      <3>4. r[Len(s) + j] = x[j]
        <4>1. /\ Len(s) + j \in 1 .. Len(s) + Len(x) /\ ~(Len(s) + j <= Len(s))
              /\ Len(s) + j - Len(s) = j
          BY <1>3, <3>1, <3>3
        <4>. QED
          BY <1>4, <4>1
      <3>. QED
        BY <1>1, <2>1, <3>2, <3>4
    <2>2. CASE n # N + 1
      <3>1. n \in f .. N /\ n \in 1 .. N /\ n \in 1 .. N + 1 /\ n + 1 \in 1 .. N + 1
        BY <1>1, <1>2, <2>2
      <3>2. u[n] = t[n] /\ j \in 1 .. Len(t[n]) /\ Len(t[n]) \in Nat
        BY <1>1, <3>1, NumberedBytes
      <3>3. next[n] = start[n] /\ start[n] \in Nat /\ start[n + 1] = start[n] + Len(t[n])
        BY <3>1 DEF Offsets
      <3>4. start[f] <= start[n] /\ start[n + 1] <= start[N + 1]
        <4>1. f \in 1 .. N + 1 /\ N + 1 \in 1 .. N + 1 /\ f <= n /\ n + 1 <= N + 1
          BY <1>1, <1>2, <3>1
        <4>2. start[f] <= start[n]
          BY <3>1, <4>1, Grows
        <4>3. start[n + 1] <= start[N + 1]
          BY <3>1, <4>1, Grows
        <4>. QED
          BY <4>2, <4>3
      <3>5. start[n] - start[f] + j \in 1 .. Len(s)
        <4>1. start[n] - start[f] + j \in 1 .. start[N + 1] - start[f]
          BY <1>5, <3>2, <3>3, <3>4, Within
        <4>. QED
          BY <1>2, <4>1
      <3>6. r[start[n] - start[f] + j] = s[start[n] - start[f] + j]
        <4>. DEFINE k == start[n] - start[f] + j
        <4>1. k \in 1 .. Len(s)
          BY <3>5
        <4>. HIDE DEF k
        <4>2. r[k] = s[k]
          BY <1>2, <1>3, <1>4, <4>1
        <4>. QED
          BY <4>2 DEF k
      <3>7. s[start[n] - start[f] + j] = t[n][j]
        BY <1>2, <3>1, <3>2
      <3>. QED
        BY <1>5, <3>2, <3>3, <3>6, <3>7
    <2>. QED
      BY <2>1, <2>2
  <1>8. f \in 1 .. Len(u) + 1
    BY <1>1, <1>2
  <1>9. \A n \in f .. Len(u) : \A j \in 1 .. Len(u[n]) :
           r[next[n] - next[f] + j] = u[n][j]
    BY <1>1, <1>7
  <1>10. Held(next, u, f, r)
    BY <1>4, <1>6, <1>8, <1>9 DEF Held
  <1>. QED
    BY <1>10 DEF u, r

\* The first news held, and what is left without it.
LEMMA HeldFirst ==
    ASSUME NEW t, Numbered(t), NEW start, Offsets(start, t), NEW f, NEW s,
           Held(start, t, f, s), s # <<>>
    PROVE  /\ f \in 1 .. Len(t) /\ Len(t[f]) \in 0 .. Len(s)
           /\ \A j \in 1 .. Len(t[f]) : s[j] = t[f][j]
           /\ Taken(s, Len(t[f])) = t[f]
           /\ Held(start, t, f + 1, Left(s, Len(t[f])))
  <1>1. /\ Len(t) \in Nat /\ f \in 1 .. Len(t) + 1 /\ s \in Seq(Byte)
        /\ Len(s) = start[Len(t) + 1] - start[f]
    BY DEF Numbered, Held
  <1>2. Len(s) \in Nat \ {0}
    BY <1>1, EmptySeq
  <1>3. start[f] \in Nat
    BY <1>1 DEF Offsets
  <1>4. f \in 1 .. Len(t)
    <2>1. f # Len(t) + 1
      BY <1>1, <1>2, <1>3
    <2>. QED
      BY <1>1, <2>1
  <1>. DEFINE l == Len(t[f])
  <1>5. l \in Nat /\ t[f] \in Seq(Byte)
    BY <1>4, NumberedBytes
  <1>6. start[f + 1] = start[f] + l /\ f + 1 \in 1 .. Len(t) + 1
    BY <1>1, <1>4 DEF Offsets
  <1>7. start[f + 1] <= start[Len(t) + 1] /\ start[Len(t) + 1] \in Nat
    <2>1. Len(t) + 1 \in 1 .. Len(t) + 1 /\ f + 1 <= Len(t) + 1
      BY <1>1, <1>6
    <2>. QED
      BY <1>6, <2>1, Grows
  <1>8. l \in 0 .. Len(s)
    BY <1>1, <1>3, <1>5, <1>6, <1>7
  <1>9. \A j \in 1 .. l : s[j] = t[f][j]
    <2>. SUFFICES ASSUME NEW j \in 1 .. l PROVE s[j] = t[f][j]
      OBVIOUS
    <2>1. f \in f .. Len(t) /\ start[f] - start[f] + j = j
      BY <1>3, <1>4
    <2>2. s[start[f] - start[f] + j] = t[f][j]
      BY <2>1 DEF Held
    <2>. QED
      BY <2>1, <2>2
  <1>10. Taken(s, l) = t[f]
    <2>1. /\ Taken(s, l) \in Seq(Byte) /\ Len(Taken(s, l)) = l
          /\ \A j \in 1 .. l : Taken(s, l)[j] = s[j]
      <3>1. s \in Seq(Byte)
        BY <1>1
      <3>. HIDE DEF l
      <3>. QED
        BY <1>8, <3>1, Pieces, Zenon
    <2>2. \A j \in 1 .. Len(Taken(s, l)) : Taken(s, l)[j] = t[f][j]
      BY <1>9, <2>1
    <2>. QED
      BY <1>5, <2>1, <2>2, SeqEqual, Zenon
  <1>11. Held(start, t, f + 1, Left(s, l))
    <2>. DEFINE r == Left(s, l)
    <2>1. /\ r \in Seq(Byte) /\ Len(r) = Len(s) - l
          /\ \A k \in 1 .. Len(s) - l : r[k] = s[l + k]
      BY <1>1, <1>8, Pieces
    <2>. HIDE DEF r
    <2>2. Len(r) = start[Len(t) + 1] - start[f + 1]
      BY <1>1, <1>3, <1>5, <1>6, <1>7, <2>1
    <2>3. ASSUME NEW n \in f + 1 .. Len(t), NEW j \in 1 .. Len(t[n])
          PROVE  r[start[n] - start[f + 1] + j] = t[n][j]
      <3>1. /\ n \in f .. Len(t) /\ n \in 1 .. Len(t) /\ n \in 1 .. Len(t) + 1
            /\ n + 1 \in 1 .. Len(t) + 1 /\ f + 1 <= n /\ n + 1 <= Len(t) + 1
            /\ Len(t) + 1 \in 1 .. Len(t) + 1
        BY <1>1, <1>4
      <3>2. start[n] \in Nat /\ start[n + 1] = start[n] + Len(t[n])
        BY <3>1 DEF Offsets
      <3>3. start[f + 1] <= start[n]
        BY <1>6, <3>1, Grows
      <3>4. start[n + 1] <= start[Len(t) + 1]
        BY <3>1, Grows
      <3>5. Len(t[n]) \in Nat
        BY <3>1, NumberedBytes
      <3>. DEFINE k == start[n] - start[f + 1] + j
      <3>6. k \in 1 .. Len(s) - l /\ l + k = start[n] - start[f] + j
        <4>1. start[f + 1] \in Nat
          BY <1>6 DEF Offsets
        <4>2. k \in 1 .. start[Len(t) + 1] - start[f + 1]
          BY <1>7, <3>2, <3>3, <3>4, <3>5, <4>1, Within
        <4>3. Len(s) - l = start[Len(t) + 1] - start[f + 1]
          BY <1>1, <1>3, <1>5, <1>6, <1>7
        <4>4. l + k = start[n] - start[f] + j
          <5>1. j \in Int
            BY <3>5
          <5>. QED
            BY <1>3, <1>5, <1>6, <3>2, <5>1
        <4>. QED
          BY <4>2, <4>3, <4>4
      <3>. HIDE DEF k
      <3>7. r[k] = s[l + k]
        BY <2>1, <3>6
      <3>8. s[start[n] - start[f] + j] = t[n][j]
        BY <3>1 DEF Held
      <3>. QED
        BY <3>6, <3>7, <3>8 DEF k
    <2>. QED
      BY <1>6, <2>1, <2>2, <2>3 DEF Held, r
  <1>. QED
    BY <1>4, <1>8, <1>9, <1>10, <1>11

(***************************************************************************)
(* Which news are whole.                                                   *)
(***************************************************************************)
\* c is the last news that is whole in the first r bytes of the news from f on.
Complete(start, t, f, r, c) ==
    /\ c \in f - 1 .. Len(t)
    /\ start[c + 1] - start[f] <= r
    /\ c < Len(t) => r < start[c + 2] - start[f]

\* The last whole news of the bytes q, if those begin with the f-th news.
LastOf(f, q) ==
    IF q = <<>> THEN f - 1
    ELSE LET b == q[Len(q)]
         IN  IF b.at = b.len THEN b.news ELSE b.news - 1

LEMMA LastComplete ==
    ASSUME NEW t, Numbered(t), NEW start, Offsets(start, t), NEW f, NEW s,
           Held(start, t, f, s), NEW q \in Seq(Byte), Len(q) <= Len(s),
           \A k \in 1 .. Len(q) : q[k] = s[k]
    PROVE  Complete(start, t, f, Len(q), LastOf(f, q))
  <1>1. /\ Len(t) \in Nat /\ f \in 1 .. Len(t) + 1 /\ s \in Seq(Byte)
        /\ Len(s) = start[Len(t) + 1] - start[f]
    BY DEF Numbered, Held
  <1>2. start[f] \in Nat
    BY <1>1 DEF Offsets
  <1>3. CASE q = <<>>
    <2>1. LastOf(f, q) = f - 1 /\ Len(q) = 0
      BY <1>3 DEF LastOf
    <2>2. f - 1 \in f - 1 .. Len(t) /\ (f - 1) + 1 = f /\ (f - 1) + 2 = f + 1
      BY <1>1
    <2>3. f - 1 < Len(t) => 0 < start[f + 1] - start[f]
      <3>1. f - 1 < Len(t) => f + 1 \in 1 .. Len(t) + 1
        BY <1>1
      <3>2. f - 1 < Len(t) => start[f] < start[f + 1] /\ start[f + 1] \in Nat
        BY <1>1, <3>1, Grows
      <3>. QED
        BY <1>2, <3>2
    <2>. QED
      BY <1>2, <2>1, <2>2, <2>3 DEF Complete
  <1>4. CASE q # <<>>
    <2>1. Len(q) \in 1 .. Len(s) /\ Len(q) \in 1 .. Len(q)
      BY <1>1, <1>4
    <2>. DEFINE k == Len(q)
    <2>0. Placed(start, t, f, s, k)
      BY <2>1, Position
    <2>2. PICK n \in f .. Len(t) : \E j \in 1 .. Len(t[n]) :
              /\ k = start[n] - start[f] + j /\ start[n + 1] = start[n] + Len(t[n])
              /\ s[k] = [news |-> n, len |-> Len(t[n]), at |-> j]
      BY <2>0 DEF Placed
    <2>3. PICK j \in 1 .. Len(t[n]) :
              /\ k = start[n] - start[f] + j /\ start[n + 1] = start[n] + Len(t[n])
              /\ s[k] = [news |-> n, len |-> Len(t[n]), at |-> j]
      BY <2>2
    <2>4. q[Len(q)] = [news |-> n, len |-> Len(t[n]), at |-> j]
      BY <2>1, <2>3
    <2>5. LastOf(f, q) = IF j = Len(t[n]) THEN n ELSE n - 1
      BY <1>4, <2>4 DEF LastOf
    <2>6. n \in 1 .. Len(t) /\ n \in 1 .. Len(t) + 1 /\ n + 1 \in 1 .. Len(t) + 1
      BY <1>1
    <2>7. start[n] \in Nat /\ Len(t[n]) \in Nat
      BY <2>6, NumberedBytes DEF Offsets
    <2>8. CASE j = Len(t[n])
      <3>1. k = start[n + 1] - start[f]
        BY <1>2, <2>3, <2>7, <2>8
      <3>2. n < Len(t) => start[n + 1] < start[n + 2] /\ start[n + 2] \in Nat
        <4>1. n < Len(t) => n + 2 \in 1 .. Len(t) + 1 /\ n + 1 < n + 2
          BY <1>1
        <4>. QED
          BY <2>6, <4>1, Grows
      <3>3. n < Len(t) => k < start[n + 2] - start[f]
        <4>1. start[n + 1] \in Nat
          BY <2>3, <2>7
        <4>. QED
          BY <1>2, <3>1, <3>2, <4>1
      <3>4. LastOf(f, q) = n /\ n \in f - 1 .. Len(t)
        BY <1>1, <2>5, <2>8
      <3>5. start[n + 1] - start[f] <= k
        BY <1>1, <2>1, <3>1
      <3>. QED
        BY <3>3, <3>4, <3>5 DEF Complete
    <2>9. CASE j # Len(t[n])
      <3>1. LastOf(f, q) = n - 1 /\ n - 1 \in f - 1 .. Len(t)
        BY <1>1, <2>5, <2>9
      <3>2. (n - 1) + 1 = n /\ (n - 1) + 2 = n + 1
        BY <1>1
      <3>3. start[n] - start[f] <= k /\ k < start[n + 1] - start[f]
        <4>1. k = start[n] - start[f] + j /\ start[n + 1] = start[n] + Len(t[n])
          BY <2>3
        <4>2. j \in Nat /\ j < Len(t[n])
          BY <2>7, <2>9
        <4>. QED
          BY <1>2, <2>7, <4>1, <4>2
      <3>. QED
        BY <3>1, <3>2, <3>3 DEF Complete
    <2>. QED
      BY <2>8, <2>9
  <1>. QED
    BY <1>3, <1>4

\* There is one such news.
LEMMA CompleteGrows ==
    ASSUME NEW t, Numbered(t), NEW start, Offsets(start, t), NEW f \in 1 .. Len(t) + 1,
           NEW r \in Nat, NEW p \in Nat, r <= p,
           NEW c, Complete(start, t, f, r, c), NEW d, Complete(start, t, f, p, d)
    PROVE  c <= d
  <1>1. Len(t) \in Nat /\ c \in f - 1 .. Len(t) /\ d \in f - 1 .. Len(t)
    BY DEF Numbered, Complete
  <1>2. CASE d < c
    <2>1. /\ d < Len(t) /\ d + 2 \in 1 .. Len(t) + 1 /\ c + 1 \in 1 .. Len(t) + 1
          /\ d + 2 <= c + 1
      BY <1>1, <1>2
    <2>2. start[d + 2] <= start[c + 1] /\ start[d + 2] \in Nat /\ start[c + 1] \in Nat
      BY <2>1, Grows
    <2>3. p < start[d + 2] - start[f] /\ start[c + 1] - start[f] <= r
      BY <2>1 DEF Complete
    <2>4. start[f] \in Nat
      BY DEF Offsets
    <2>. QED
      BY <2>2, <2>3, <2>4
  <1>. QED
    BY <1>1, <1>2

\* Between two of them no more than RecvNews if one recv brought the rest.
LEMMA CompletedByOne ==
    ASSUME NEW t, Numbered(t), NEW start, Offsets(start, t), NEW f \in 1 .. Len(t) + 1,
           NEW r \in Nat, NEW n \in 1 .. BUFFER_CLIENT,
           NEW c, Complete(start, t, f, r, c), NEW d, Complete(start, t, f, r + n, d)
    PROVE  d - c \in 0 .. RecvNews
  <1>1. Len(t) \in Nat /\ c \in f - 1 .. Len(t) /\ d \in f - 1 .. Len(t)
    BY DEF Numbered, Complete
  <1>2. BUFFER_CLIENT \in Nat /\ RecvNews \in Nat \ {0} /\ r + n \in Nat /\ r <= r + n
    BY FramingAssumption
  <1>3. c <= d
    BY <1>2, CompleteGrows
  <1>4. CASE d > c
    <2>1. /\ c < Len(t) /\ c + 2 \in 1 .. Len(t) + 1 /\ d + 1 \in 1 .. Len(t) + 1
          /\ c + 2 <= d + 1
      BY <1>1, <1>4
    <2>. DEFINE e == (d + 1) - (c + 2)
    <2>2. /\ start[c + 2] + Least * e <= start[d + 1] /\ Least * e \in Nat
          /\ start[c + 2] \in Nat /\ start[d + 1] \in Nat
      BY <2>1, Grows
    <2>3. r < start[c + 2] - start[f] /\ start[d + 1] - start[f] <= r + n
      BY <2>1 DEF Complete
    <2>4. start[f] \in Nat
      BY DEF Offsets
    <2>5. Least * e < BUFFER_CLIENT
      BY <1>2, <2>2, <2>3, <2>4
    <2>6. Least * e < Least * RecvNews
      <3>1. BUFFER_CLIENT <= RecvNews * Least /\ Least \in Nat
        BY LeastLength
      <3>2. RecvNews * Least = Least * RecvNews
        BY <1>2, <3>1
      <3>3. Least * RecvNews \in Int
        BY <1>2, <3>1, Products
      <3>. QED
        BY <1>2, <2>2, <2>5, <3>1, <3>2, <3>3
    <2>7. e \in Nat /\ Least \in Nat
      BY <1>1, <2>1, LeastLength
    <2>8. e < RecvNews
      <3>1. RecvNews <= e => Least * RecvNews <= Least * e
        BY <1>2, <2>7, Products
      <3>2. Least * RecvNews \in Int
        BY <1>2, <2>7, Products
      <3>. QED
        BY <1>2, <2>2, <2>6, <2>7, <3>1, <3>2
    <2>. QED
      BY <1>1, <1>2, <1>4, <2>8
  <1>. QED
    BY <1>1, <1>2, <1>3, <1>4

(***************************************************************************)
(* Some of the news.                                                       *)
(***************************************************************************)
LEMMA SomeOf ==
    ASSUME NEW S, NEW t \in Seq(S), NEW m \in 1 .. Len(t) + 1, NEW n \in m - 1 .. Len(t)
    PROVE  /\ SubSeq(t, m, n) \in Seq(S) /\ Len(SubSeq(t, m, n)) = n - m + 1
           /\ \A i \in 1 .. n - m + 1 : SubSeq(t, m, n)[i] = t[m + i - 1]
           /\ SubSeq(t, m, n) = <<>> <=> n = m - 1
  <1>1. m \in Int /\ n \in Int /\ \A i \in m .. n : t[i] \in S
    <2>1. Len(t) \in Nat
      OBVIOUS
    <2>2. ASSUME NEW i \in m .. n PROVE i \in 1 .. Len(t)
      BY <2>1
    <2>. QED
      BY <2>1, <2>2
  <1>2. /\ SubSeq(t, m, n) \in Seq(S)
        /\ Len(SubSeq(t, m, n)) = IF m <= n THEN n - m + 1 ELSE 0
        /\ \A i \in 1 .. n - m + 1 : SubSeq(t, m, n)[i] = t[m + i - 1]
    BY <1>1, SubSeqProperties
  <1>3. Len(SubSeq(t, m, n)) = n - m + 1
    BY <1>1, <1>2
  <1>4. SubSeq(t, m, n) = <<>> <=> Len(SubSeq(t, m, n)) = 0
    BY <1>2, EmptySeq
  <1>. QED
    BY <1>1, <1>2, <1>3, <1>4

LEMMA MoreComplete ==
    ASSUME NEW S, NEW t \in Seq(S), NEW f \in 1 .. Len(t) + 1, NEW c \in f - 1 .. Len(t),
           NEW d \in c .. Len(t)
    PROVE  /\ d - c <= Len(SubSeq(t, c + 1, Len(t)))
           /\ SubSeq(SubSeq(t, c + 1, Len(t)), d - c + 1, Len(SubSeq(t, c + 1, Len(t))))
                = SubSeq(t, d + 1, Len(t))
           /\ SubSeq(t, f, c) \o SubSeq(SubSeq(t, c + 1, Len(t)), 1, d - c)
                = SubSeq(t, f, d)
  <1>. SUFFICES ASSUME NEW rest, rest = SubSeq(t, c + 1, Len(t))
                PROVE  /\ d - c <= Len(rest)
                       /\ SubSeq(rest, d - c + 1, Len(rest)) = SubSeq(t, d + 1, Len(t))
                       /\ SubSeq(t, f, c) \o SubSeq(rest, 1, d - c) = SubSeq(t, f, d)
    BY Zenon
  <1>1. Len(t) \in Nat
    OBVIOUS
  <1>2. /\ c + 1 \in 1 .. Len(t) + 1 /\ Len(t) \in (c + 1) - 1 .. Len(t)
        /\ d + 1 \in 1 .. Len(t) + 1 /\ Len(t) \in (d + 1) - 1 .. Len(t)
        /\ c \in Int /\ d \in Int /\ f \in Int
    BY <1>1
  <1>3. /\ rest \in Seq(S) /\ Len(rest) = Len(t) - c
        /\ \A i \in 1 .. Len(t) - c : rest[i] = t[c + i]
    <2>1. /\ rest \in Seq(S) /\ Len(rest) = Len(t) - (c + 1) + 1
          /\ \A i \in 1 .. Len(t) - (c + 1) + 1 : rest[i] = t[(c + 1) + i - 1]
      BY <1>2, SomeOf
    <2>. QED
      BY <1>1, <1>2, <2>1
  <1>4. SubSeq(rest, d - c + 1, Len(rest)) = SubSeq(t, d + 1, Len(t))
    <2>. DEFINE a == SubSeq(rest, d - c + 1, Len(rest))
                b == SubSeq(t, d + 1, Len(t))
    <2>1. /\ d - c + 1 \in 1 .. Len(rest) + 1
          /\ Len(rest) \in (d - c + 1) - 1 .. Len(rest)
      BY <1>1, <1>2, <1>3
    <2>2. /\ a \in Seq(S) /\ Len(a) = Len(rest) - (d - c + 1) + 1
          /\ \A i \in 1 .. Len(rest) - (d - c + 1) + 1 : a[i] = rest[(d - c + 1) + i - 1]
      BY <1>3, <2>1, SomeOf
    <2>3. /\ b \in Seq(S) /\ Len(b) = Len(t) - (d + 1) + 1
          /\ \A i \in 1 .. Len(t) - (d + 1) + 1 : b[i] = t[(d + 1) + i - 1]
      BY <1>2, SomeOf
    <2>. HIDE DEF a, b
    <2>4. Len(a) = Len(b) /\ Len(a) = Len(t) - d
      BY <1>1, <1>2, <1>3, <2>2, <2>3
    <2>5. \A i \in 1 .. Len(a) : a[i] = b[i]
      <3>. SUFFICES ASSUME NEW i \in 1 .. Len(a) PROVE a[i] = b[i]
        OBVIOUS
      <3>1. i \in 1 .. Len(t) - d
        BY <2>4
      <3>2. a[i] = rest[d - c + i] /\ b[i] = t[d + i]
        <4>1. /\ i \in 1 .. Len(rest) - (d - c + 1) + 1 /\ (d - c + 1) + i - 1 = d - c + i
              /\ i \in 1 .. Len(t) - (d + 1) + 1 /\ (d + 1) + i - 1 = d + i
          BY <1>1, <1>2, <1>3, <3>1
        <4>2. a[i] = rest[(d - c + 1) + i - 1] /\ b[i] = t[(d + 1) + i - 1]
          BY <2>2, <2>3, <4>1
        <4>. QED
          BY <4>1, <4>2
      <3>3. d - c + i \in 1 .. Len(t) - c /\ c + (d - c + i) = d + i
        BY <1>1, <1>2, <3>1
      <3>. QED
        BY <1>3, <3>2, <3>3
    <2>6. a = b
      BY <2>2, <2>3, <2>4, <2>5, SeqEqual
    <2>. QED
      BY <2>6 DEF a, b
  <1>5. SubSeq(rest, 1, d - c) = SubSeq(t, c + 1, d)
    <2>. DEFINE a == SubSeq(rest, 1, d - c)
                b == SubSeq(t, c + 1, d)
    <2>1. d - c \in 1 - 1 .. Len(rest) /\ 1 \in 1 .. Len(rest) + 1
          /\ d \in (c + 1) - 1 .. Len(t)
      BY <1>1, <1>2, <1>3
    <2>2. /\ a \in Seq(S) /\ Len(a) = d - c - 1 + 1
          /\ \A i \in 1 .. d - c - 1 + 1 : a[i] = rest[1 + i - 1]
      BY <1>3, <2>1, SomeOf, SMTT(30)
    <2>3. /\ b \in Seq(S) /\ Len(b) = d - (c + 1) + 1
          /\ \A i \in 1 .. d - (c + 1) + 1 : b[i] = t[(c + 1) + i - 1]
      BY <1>2, <2>1, SomeOf
    <2>. HIDE DEF a, b
    <2>4. Len(a) = Len(b) /\ Len(a) = d - c
      BY <1>1, <1>2, <2>2, <2>3
    <2>5. \A i \in 1 .. Len(a) : a[i] = b[i]
      <3>. SUFFICES ASSUME NEW i \in 1 .. Len(a) PROVE a[i] = b[i]
        OBVIOUS
      <3>1. i \in 1 .. d - c /\ i \in 1 .. Len(t) - c
        BY <1>1, <1>2, <2>4
      <3>2. a[i] = rest[i] /\ b[i] = t[c + i]
        BY <1>1, <1>2, <2>2, <2>3, <3>1
      <3>. QED
        BY <1>3, <3>1, <3>2
    <2>6. a = b
      BY <2>2, <2>3, <2>4, <2>5, SeqEqual
    <2>. QED
      BY <2>6 DEF a, b
  <1>6. SubSeq(t, f, c) \o SubSeq(t, c + 1, d) = SubSeq(t, f, d)
    <2>1. c \in f - 1 .. Len(t) /\ d \in c .. Len(t) /\ f \in 1 .. Len(t) + 1
      OBVIOUS
    <2>. QED
      BY <2>1, ConcatAdjacentSubSeq
  <1>7. d - c <= Len(rest)
    BY <1>1, <1>2, <1>3
  <1>. QED
    BY <1>4, <1>5, <1>6, <1>7

LEMMA FirstOf ==
    ASSUME NEW S, NEW t \in Seq(S), NEW f \in 1 .. Len(t), NEW d \in f .. Len(t)
    PROVE  /\ SubSeq(t, f, d) # <<>>
           /\ Head(SubSeq(t, f, d)) = t[f]
           /\ Tail(SubSeq(t, f, d)) = SubSeq(t, f + 1, d)
  <1>1. Len(t) \in Nat
    OBVIOUS
  <1>2. f \in 1 .. Len(t) + 1 /\ d \in f - 1 .. Len(t) /\ d # f - 1
    BY <1>1
  <1>3. SubSeq(t, f, d) # <<>>
    BY <1>2, SomeOf
  <1>. QED
    BY <1>3, HeadTailOfSubSeq

LEMMA SomeOfMore ==
    ASSUME NEW S, NEW t \in Seq(S), NEW x \in S, NEW f \in 1 .. Len(t) + 1,
           NEW c \in f - 1 .. Len(t)
    PROVE  /\ SubSeq(Append(t, x), f, c) = SubSeq(t, f, c)
           /\ SubSeq(Append(t, x), c + 1, Len(Append(t, x)))
                = Append(SubSeq(t, c + 1, Len(t)), x)
  <1>. DEFINE u == Append(t, x)
              N == Len(t)
  <1>1. /\ u \in Seq(S) /\ Len(u) = N + 1 /\ N \in Nat
        /\ \A i \in 1 .. N : u[i] = t[i]
        /\ u[N + 1] = x
    OBVIOUS
  <1>. HIDE DEF u
  <1>2. /\ f \in 1 .. Len(u) + 1 /\ c \in f - 1 .. Len(u)
        /\ c + 1 \in 1 .. N + 1 /\ N \in (c + 1) - 1 .. N
        /\ c + 1 \in 1 .. Len(u) + 1 /\ Len(u) \in (c + 1) - 1 .. Len(u)
        /\ c \in Int /\ f \in Int
    BY <1>1
  <1>3. SubSeq(u, f, c) = SubSeq(t, f, c)
    <2>. DEFINE a == SubSeq(u, f, c)
                b == SubSeq(t, f, c)
    <2>1. /\ a \in Seq(S) /\ Len(a) = c - f + 1
          /\ \A i \in 1 .. c - f + 1 : a[i] = u[f + i - 1]
      BY <1>1, <1>2, SomeOf
    <2>2. /\ b \in Seq(S) /\ Len(b) = c - f + 1
          /\ \A i \in 1 .. c - f + 1 : b[i] = t[f + i - 1]
      BY SomeOf
    <2>. HIDE DEF a, b
    <2>3. \A i \in 1 .. Len(a) : a[i] = b[i]
      <3>. SUFFICES ASSUME NEW i \in 1 .. Len(a) PROVE a[i] = b[i]
        OBVIOUS
      <3>1. i \in 1 .. c - f + 1
        BY <2>1
      <3>2. f + i - 1 \in 1 .. N
        BY <1>1, <1>2, <3>1
      <3>. QED
        BY <1>1, <2>1, <2>2, <3>1, <3>2
    <2>4. a = b
      BY <2>1, <2>2, <2>3, SeqEqual
    <2>. QED
      BY <2>4 DEF a, b
  <1>4. SubSeq(u, c + 1, Len(u)) = Append(SubSeq(t, c + 1, N), x)
    <2>. DEFINE a == SubSeq(u, c + 1, Len(u))
                b == SubSeq(t, c + 1, N)
                d == Append(b, x)
    <2>1. /\ a \in Seq(S) /\ Len(a) = Len(u) - (c + 1) + 1
          /\ \A i \in 1 .. Len(u) - (c + 1) + 1 : a[i] = u[(c + 1) + i - 1]
      BY <1>1, <1>2, SomeOf
    <2>2. /\ b \in Seq(S) /\ Len(b) = N - (c + 1) + 1
          /\ \A i \in 1 .. N - (c + 1) + 1 : b[i] = t[(c + 1) + i - 1]
      BY <1>1, <1>2, SomeOf
    <2>. HIDE DEF a, b, N
    <2>3. /\ d \in Seq(S) /\ Len(d) = Len(b) + 1
          /\ \A i \in 1 .. Len(b) : d[i] = b[i]
          /\ d[Len(b) + 1] = x
      BY <2>2, AppendProperties
    <2>. HIDE DEF d
    <2>4. Len(a) = N + 1 - c /\ Len(b) = N - c /\ Len(d) = N + 1 - c
      BY <1>1, <1>2, <2>1, <2>2, <2>3
    <2>5. \A i \in 1 .. Len(a) : a[i] = d[i]
      <3>. SUFFICES ASSUME NEW i \in 1 .. Len(a) PROVE a[i] = d[i]
        OBVIOUS
      <3>1. a[i] = u[c + i]
        <4>0. N \in Nat /\ c \in Int /\ Len(u) = N + 1 /\ Len(a) = N + 1 - c
          BY <1>1, <1>2, <2>4
        <4>1. i \in 1 .. Len(u) - (c + 1) + 1 /\ (c + 1) + i - 1 = c + i
          BY ONLY <4>0, i \in 1 .. Len(a)
        <4>2. a[i] = u[(c + 1) + i - 1]
          BY <2>1, <4>1
        <4>. QED
          BY <4>1, <4>2
      <3>2. CASE i = N + 1 - c
        <4>1. c + i = N + 1 /\ Len(b) + 1 = i
          <5>1. N \in Nat /\ c \in Int /\ Len(b) = N - c
            BY <1>1, <1>2, <2>4
          <5>. QED
            BY ONLY <5>1, <3>2
        <4>. QED
          BY <1>1, <2>3, <3>1, <4>1
      <3>3. CASE i # N + 1 - c
        <4>1. i \in 1 .. N - c /\ c + i \in 1 .. N
          BY <1>1, <1>2, <2>4, <3>3
        <4>2. d[i] = t[c + i]
          <5>1. /\ i \in 1 .. Len(b) /\ i \in 1 .. N - (c + 1) + 1
                /\ (c + 1) + i - 1 = c + i
            BY <1>1, <1>2, <2>4, <4>1
          <5>2. d[i] = b[i] /\ b[i] = t[(c + 1) + i - 1]
            BY <2>2, <2>3, <5>1
          <5>. QED
            BY <5>1, <5>2
        <4>. QED
          BY <1>1, <3>1, <4>1, <4>2
      <3>. QED
        BY <3>2, <3>3
    <2>6. a = d
      BY <2>1, <2>3, <2>4, <2>5, SeqEqual
    <2>. QED
      BY <2>6 DEF a, b, d
  <1>. QED
    BY <1>3, <1>4 DEF u, N

(***************************************************************************)
(* One receive_msg.                                                        *)
(***************************************************************************)
\* The length in the first bytes is that of the first news held.
LEMMA LengthRead ==
    ASSUME NEW t, Numbered(t), NEW f \in 1 .. Len(t), NEW q \in Seq(Byte),
           LenSize <= Len(q), \A j \in 1 .. LenSize : q[j] = t[f][j]
    PROVE  LenIn(q) = Len(t[f])
  <1>1. /\ LenSize \in Nat \ {0} /\ Len(t[f]) \in Nat /\ LenSize < Len(t[f])
        /\ \A j \in 1 .. Len(t[f]) :
              t[f][j] = [news |-> f, len |-> Len(t[f]), at |-> j]
    BY FramingAssumption, NumberedBytes
  <1>2. \A j \in 1 .. LenSize : q[j] = [news |-> f, len |-> Len(t[f]), at |-> j]
    <2>. SUFFICES ASSUME NEW j \in 1 .. LenSize
                  PROVE  q[j] = [news |-> f, len |-> Len(t[f]), at |-> j]
      OBVIOUS
    <2>1. j \in 1 .. Len(t[f])
      BY <1>1
    <2>. QED
      BY <1>1, <2>1
  <1>3. q[1] = [news |-> f, len |-> Len(t[f]), at |-> 1]
    BY <1>1, <1>2
  <1>4. \A j \in 1 .. LenSize : q[j] = [q[1] EXCEPT !.at = j]
    BY <1>2, <1>3
  <1>. QED
    BY <1>3, <1>4 DEF LenIn

\* What two calls of read_data do together.
LEMMA ReadTwice ==
    ASSUME NEW q \in Seq(Byte), NEW l \in 0 .. Len(q), NEW m \in 0 .. l
    PROVE  /\ Taken(q, m) \o Taken(Left(q, m), l - m) = Taken(q, l)
           /\ Left(Left(q, m), l - m) = Left(q, l)
  <1>. DEFINE r == Left(q, m)
              a == Taken(q, m)
              b == Taken(r, l - m)
              d == Left(r, l - m)
  <1>1. Len(q) \in Nat /\ l \in Nat /\ m \in Nat /\ m \in 0 .. Len(q)
    OBVIOUS
  <1>2. /\ a \in Seq(Byte) /\ Len(a) = m /\ \A k \in 1 .. m : a[k] = q[k]
        /\ r \in Seq(Byte) /\ Len(r) = Len(q) - m
        /\ \A k \in 1 .. Len(q) - m : r[k] = q[m + k]
    BY <1>1, Pieces
  <1>. HIDE DEF a, r
  <1>3. l - m \in 0 .. Len(r)
    BY <1>1, <1>2
  <1>4. /\ b \in Seq(Byte) /\ Len(b) = l - m /\ \A k \in 1 .. l - m : b[k] = r[k]
        /\ d \in Seq(Byte) /\ Len(d) = Len(r) - (l - m)
        /\ \A k \in 1 .. Len(r) - (l - m) : d[k] = r[(l - m) + k]
    BY <1>2, <1>3, Pieces
  <1>. HIDE DEF b, d
  <1>. DEFINE ab == a \o b
              al == Taken(q, l)
              dl == Left(q, l)
  <1>5. /\ al \in Seq(Byte) /\ Len(al) = l /\ \A k \in 1 .. l : al[k] = q[k]
        /\ dl \in Seq(Byte) /\ Len(dl) = Len(q) - l
        /\ \A k \in 1 .. Len(q) - l : dl[k] = q[l + k]
    BY Pieces
  <1>. HIDE DEF al, dl
  <1>6. /\ ab \in Seq(Byte) /\ Len(ab) = Len(a) + Len(b)
        /\ \A k \in 1 .. Len(a) + Len(b) :
              ab[k] = IF k <= Len(a) THEN a[k] ELSE b[k - Len(a)]
    BY <1>2, <1>4, ConcatProperties
  <1>. HIDE DEF ab
  <1>7. ab = al
    <2>1. Len(ab) = Len(al) /\ Len(ab) = l
      BY <1>1, <1>2, <1>4, <1>5, <1>6
    <2>2. \A k \in 1 .. Len(ab) : ab[k] = al[k]
      <3>. SUFFICES ASSUME NEW k \in 1 .. l PROVE ab[k] = al[k]
        BY <2>1
      <3>0. k \in 1 .. Len(a) + Len(b) /\ al[k] = q[k]
        BY <1>1, <1>2, <1>4, <1>5
      <3>1. CASE k <= m
        <4>1. ab[k] = a[k]
          BY <1>2, <1>6, <3>0, <3>1
        <4>2. a[k] = q[k]
          BY <1>1, <1>2, <3>1
        <4>. QED
          BY <3>0, <4>1, <4>2
      <3>2. CASE k > m
        <4>1. k - m \in 1 .. l - m /\ k - m \in 1 .. Len(q) - m /\ m + (k - m) = k
          BY <1>1, <3>2
        <4>2. ab[k] = b[k - m]
          BY <1>1, <1>2, <1>6, <3>0, <3>2
        <4>3. b[k - m] = r[k - m] /\ r[k - m] = q[m + (k - m)]
          BY <1>2, <1>4, <4>1
        <4>. QED
          BY <3>0, <4>1, <4>2, <4>3
      <3>. QED
        BY <1>1, <3>1, <3>2
    <2>. QED
      BY <1>5, <1>6, <2>1, <2>2, SeqEqual
  <1>8. d = dl
    <2>1. Len(d) = Len(dl) /\ Len(d) = Len(q) - l
      BY <1>1, <1>2, <1>4, <1>5
    <2>2. \A k \in 1 .. Len(d) : d[k] = dl[k]
      <3>. SUFFICES ASSUME NEW k \in 1 .. Len(q) - l PROVE d[k] = dl[k]
        BY <2>1
      <3>1. /\ k \in 1 .. Len(r) - (l - m) /\ (l - m) + k \in 1 .. Len(q) - m
            /\ m + ((l - m) + k) = l + k
        BY <1>1, <1>2
      <3>2. d[k] = r[(l - m) + k]
        BY <1>4, <3>1
      <3>3. r[(l - m) + k] = q[m + ((l - m) + k)]
        BY <1>2, <3>1
      <3>. QED
        BY <1>5, <3>1, <3>2, <3>3
    <2>. QED
      BY <1>4, <1>5, <2>1, <2>2, SeqEqual
  <1>. QED
    BY <1>7, <1>8 DEF ab, al, a, b, d, dl, r

\* What is left of both when the first bytes of a sequence go.
LEMMA LeftOfBoth ==
    ASSUME NEW q \in Seq(Byte), NEW w \in Seq(Byte), NEW l \in 0 .. Len(q)
    PROVE  Left(q, l) \o w = Left(q \o w, l)
  <1>. DEFINE r == Left(q, l)
              s == q \o w
              rw == r \o w
              z == Left(s, l)
  <1>1. Len(q) \in Nat /\ Len(w) \in Nat /\ l \in Nat
    OBVIOUS
  <1>2. /\ r \in Seq(Byte) /\ Len(r) = Len(q) - l
        /\ \A k \in 1 .. Len(q) - l : r[k] = q[l + k]
    BY Pieces
  <1>. HIDE DEF r
  <1>3. /\ s \in Seq(Byte) /\ Len(s) = Len(q) + Len(w)
        /\ \A k \in 1 .. Len(q) + Len(w) : s[k] = IF k <= Len(q) THEN q[k] ELSE w[k - Len(q)]
    BY ConcatProperties
  <1>. HIDE DEF s
  <1>4. /\ rw \in Seq(Byte) /\ Len(rw) = Len(r) + Len(w)
        /\ \A k \in 1 .. Len(r) + Len(w) :
              rw[k] = IF k <= Len(r) THEN r[k] ELSE w[k - Len(r)]
    BY <1>2, ConcatProperties
  <1>. HIDE DEF rw
  <1>5. l \in 0 .. Len(s)
    BY <1>1, <1>3
  <1>6. /\ z \in Seq(Byte) /\ Len(z) = Len(s) - l
        /\ \A k \in 1 .. Len(s) - l : z[k] = s[l + k]
    BY <1>3, <1>5, Pieces
  <1>. HIDE DEF z
  <1>7. Len(rw) = Len(z) /\ Len(z) = Len(q) + Len(w) - l
    BY <1>1, <1>2, <1>3, <1>4, <1>6
  <1>8. \A k \in 1 .. Len(rw) : rw[k] = z[k]
    <2>. SUFFICES ASSUME NEW k \in 1 .. Len(q) + Len(w) - l PROVE rw[k] = z[k]
      BY <1>7
    <2>1. /\ k \in 1 .. Len(s) - l /\ l + k \in 1 .. Len(q) + Len(w)
          /\ k \in 1 .. Len(r) + Len(w)
      BY <1>1, <1>2, <1>3
    <2>2. z[k] = s[l + k]
      BY <1>6, <2>1
    <2>3. CASE k <= Len(r)
      <3>1. k \in 1 .. Len(q) - l /\ l + k <= Len(q)
        BY <1>1, <1>2, <2>3
      <3>2. rw[k] = r[k] /\ r[k] = q[l + k]
        BY <1>2, <1>4, <2>1, <2>3, <3>1
      <3>3. s[l + k] = q[l + k]
        BY <1>3, <2>1, <3>1
      <3>. QED
        BY <2>2, <3>2, <3>3
    <2>4. CASE ~(k <= Len(r))
      <3>1. ~(l + k <= Len(q)) /\ k - Len(r) = (l + k) - Len(q)
        BY <1>1, <1>2, <2>4
      <3>2. rw[k] = w[k - Len(r)]
        BY <1>4, <2>1, <2>4
      <3>3. s[l + k] = w[(l + k) - Len(q)]
        BY <1>3, <2>1, <3>1
      <3>. QED
        BY <2>2, <3>1, <3>2, <3>3
    <2>. QED
      BY <2>3, <2>4
  <1>9. rw = z
    BY <1>4, <1>6, <1>7, <1>8, SeqEqual
  <1>. QED
    BY <1>9 DEF rw, r, z, s

(***************************************************************************)
(* The invariant.                                                          *)
(***************************************************************************)
IInv ==
    /\ TypeOK
    /\ Numbered(sent)
    /\ \E start : Offsets(start, sent) /\ Held(start, sent, Len(shown) + 1, Stream)

\* The state of the reader that is implemented.
ToClient == SubSeq(sent, LastWhole + 1, Len(sent))
WholeNews == SubSeq(sent, Len(shown) + 1, LastWhole)

LEMMA LastWholeIs ==
    ASSUME TypeOK
    PROVE  LastWhole = LastOf(Len(shown) + 1, buffer_r)
  BY DEF TypeOK, LastWhole, LastOf

\* In a state of the invariant the last whole news is one.
LEMMA WholeInState ==
    ASSUME TypeOK, Numbered(sent), NEW start, Offsets(start, sent),
           Held(start, sent, Len(shown) + 1, Stream)
    PROVE  Complete(start, sent, Len(shown) + 1, Len(buffer_r), LastWhole)
  <1>1. /\ buffer_r \in Seq(Byte) /\ wire \in Seq(Byte)
        /\ Len(Stream) = Len(buffer_r) + Len(wire)
        /\ \A k \in 1 .. Len(buffer_r) + Len(wire) :
              Stream[k] = IF k <= Len(buffer_r) THEN buffer_r[k]
                          ELSE wire[k - Len(buffer_r)]
    BY ConcatProperties DEF TypeOK, Stream
  <1>2. Len(buffer_r) \in Nat /\ Len(wire) \in Nat
    BY <1>1
  <1>3. Len(buffer_r) <= Len(Stream)
    BY <1>1, <1>2
  <1>4. \A k \in 1 .. Len(buffer_r) : buffer_r[k] = Stream[k]
    BY <1>1, <1>2
  <1>. DEFINE s == Stream
              q == buffer_r
              t == sent
              f == Len(shown) + 1
  <1>5. Complete(start, t, f, Len(q), LastOf(f, q))
    BY <1>1, <1>3, <1>4, LastComplete
  <1>. QED
    BY <1>5, LastWholeIs

LEMMA InitFraming == Init => IInv /\ Reader!Init
  <1>. SUFFICES ASSUME Init PROVE IInv /\ Reader!Init
    OBVIOUS
  <1>1. /\ sent = <<>> /\ wire = <<>> /\ buffer_r = <<>> /\ shown = <<>>
        /\ defined = TRUE
    BY DEF Init
  <1>2. TypeOK
    BY <1>1, FramingAssumption DEF TypeOK
  <1>3. Stream = <<>> /\ Len(shown) + 1 = 1 /\ Len(sent) = 0 /\ Len(Stream) = 0
    BY <1>1 DEF Stream
  <1>. DEFINE start == [n \in {1} |-> 0]
  <1>4. Offsets(start, sent) /\ Numbered(sent)
    BY <1>1, NothingSent
  <1>5. start[1] = 0
    OBVIOUS
  <1>. HIDE DEF start
  <1>6. Held(start, sent, 1, Stream)
    <2>1. 1 \in 1 .. Len(sent) + 1 /\ Len(Stream) = start[Len(sent) + 1] - start[1]
          /\ 1 .. Len(sent) = {} /\ Stream \in Seq(Byte)
      BY <1>3, <1>5
    <2>. QED
      BY <2>1 DEF Held
  <1>7. LastWhole = 0
    BY <1>1 DEF LastWhole
  <1>8. Reader!Init
    BY <1>1, <1>7 DEF Reader!Init
  <1>. QED
    BY <1>2, <1>3, <1>4, <1>6, <1>8 DEF IInv

LEMMA SendKeeps ==
    ASSUME IInv, SendNews
    PROVE  IInv' /\ Reader!Send
  <1>1. PICK x \in News : /\ x[1].news = Len(sent) + 1
                          /\ sent' = Append(sent, x)
                          /\ wire' = wire \o x
    BY DEF SendNews
  <1>2. /\ TypeOK /\ Numbered(sent) /\ Len(sent) < MaxNews
        /\ buffer_r' = buffer_r /\ shown' = shown /\ defined' = defined
    BY DEF IInv, SendNews
  <1>3. PICK start : Offsets(start, sent) /\ Held(start, sent, Len(shown) + 1, Stream)
    BY DEF IInv
  <1>4. /\ sent \in Seq(News) /\ wire \in Seq(Byte) /\ buffer_r \in Seq(Byte)
        /\ x \in Seq(Byte) /\ Len(sent) \in Nat /\ shown \in Seq(Seq(Byte))
    BY <1>2, NewsBytes DEF TypeOK
  <1>5. TypeOK'
    <2>1. wire \o x \in Seq(Byte)
      BY <1>4, ConcatProperties
    <2>2. Append(sent, x) \in Seq(News) /\ Len(Append(sent, x)) = Len(sent) + 1
      BY <1>4, AppendProperties
    <2>. QED
      BY <1>1, <1>2, <1>4, <2>1, <2>2, FramingAssumption DEF TypeOK
  <1>6. Numbered(Append(sent, x))
    BY <1>1, <1>2, AppendedNews
  <1>7. PICK next : /\ Offsets(next, Append(sent, x))
                    /\ \A n \in 1 .. Len(sent) + 1 : next[n] = start[n]
                    /\ next[Len(sent) + 2] = start[Len(sent) + 1] + Len(x)
    <2>. DEFINE t == sent
    <2>1. x[1].news = Len(t) + 1 /\ Numbered(t) /\ Offsets(start, t)
      BY <1>1, <1>2, <1>3
    <2>. QED
      BY <2>1, OffsetsAppended
  <1>8. Held(next, Append(sent, x), Len(shown) + 1, Stream \o x)
    BY <1>1, <1>2, <1>3, <1>7, HeldAppended
  <1>9. Stream' = Stream \o x
    <2>1. Stream' = buffer_r \o (wire \o x)
      BY <1>1, <1>2 DEF Stream
    <2>2. (buffer_r \o wire) \o x = buffer_r \o (wire \o x)
      BY <1>4, ConcatAssociative
    <2>. QED
      BY <2>1, <2>2 DEF Stream
  <1>10. IInv'
    BY <1>1, <1>2, <1>5, <1>6, <1>7, <1>8, <1>9 DEF IInv
  <1>11. LastWhole' = LastWhole
    BY <1>2 DEF LastWhole
  <1>12. LastWhole \in Len(shown) .. Len(sent) /\ Len(shown) + 1 \in 1 .. Len(sent) + 1
    <2>1. Complete(start, sent, Len(shown) + 1, Len(buffer_r), LastWhole)
      BY <1>2, <1>3, WholeInState
    <2>2. Len(shown) \in Nat
      BY <1>4
    <2>. QED
      BY <1>3, <2>1, <2>2 DEF Complete, Held
  <1>13. /\ ToClient' = Append(ToClient, x)
         /\ WholeNews' = WholeNews
    <2>. DEFINE c == LastWhole
                f == Len(shown) + 1
                t == sent
    <2>1. Len(shown) \in Nat
      BY <1>4
    <2>2. f \in 1 .. Len(t) + 1 /\ c \in f - 1 .. Len(t) /\ t \in Seq(News)
      BY <1>4, <1>12, <2>1
    <2>3. /\ ToClient' = SubSeq(Append(t, x), c + 1, Len(Append(t, x)))
          /\ WholeNews' = SubSeq(Append(t, x), f, c)
          /\ ToClient = SubSeq(t, c + 1, Len(t)) /\ WholeNews = SubSeq(t, f, c)
      BY <1>1, <1>2, <1>11 DEF ToClient, WholeNews
    <2>. HIDE DEF c, f, t
    <2>4. /\ SubSeq(Append(t, x), f, c) = SubSeq(t, f, c)
          /\ SubSeq(Append(t, x), c + 1, Len(Append(t, x)))
               = Append(SubSeq(t, c + 1, Len(t)), x)
      BY <2>2, SomeOfMore
    <2>. QED
      BY <2>3, <2>4
  <1>14. Reader!Send
    BY <1>2, <1>13 DEF Reader!Send, ToClient, WholeNews
  <1>. QED
    BY <1>10, <1>14

\* What one recv and one receive_msg do to the news held.
LEMMA ReceiveDoes ==
    ASSUME NEW t, Numbered(t), NEW start, Offsets(start, t), NEW f, NEW s,
           Held(start, t, f, s), NEW q \in Seq(Byte), NEW w \in Seq(Byte),
           s = q \o w, q # <<>>
    PROVE  /\ f \in 1 .. Len(t)
           /\ Len(q) < LenSize => Len(q) < Len(t[f])
           /\ LenSize <= Len(q) =>
                 /\ LenIn(q) = Len(t[f])
                 /\ place_back(Left(q, LenSize), Taken(q, LenSize)) = q
                 /\ Cropped(LenIn(q), Left(q, LenSize)) <=> Len(q) < Len(t[f])
           /\ LenSize <= Len(q) /\ Len(t[f]) <= Len(q) =>
                 /\ Taken(q, LenSize) \o Taken(Left(q, LenSize), Len(t[f]) - LenSize) = t[f]
                 /\ Left(Left(q, LenSize), Len(t[f]) - LenSize) = Left(q, Len(t[f]))
                 /\ Left(q, Len(t[f])) \in Seq(Byte)
                 /\ Held(start, t, f + 1, Left(q, Len(t[f])) \o w)
  <1>1. /\ s \in Seq(Byte) /\ Len(s) = Len(q) + Len(w)
        /\ \A k \in 1 .. Len(q) + Len(w) : s[k] = IF k <= Len(q) THEN q[k] ELSE w[k - Len(q)]
    BY ConcatProperties
  <1>2. Len(q) \in Nat \ {0} /\ Len(w) \in Nat
    BY EmptySeq, LenProperties
  <1>3. \A k \in 1 .. Len(q) : s[k] = q[k] /\ k \in 1 .. Len(s)
    BY <1>1, <1>2
  <1>4. s # <<>>
    BY <1>1, <1>2
  <1>. DEFINE l == Len(t[f])
  <1>5. /\ f \in 1 .. Len(t) /\ l \in 0 .. Len(s)
        /\ \A j \in 1 .. l : s[j] = t[f][j]
        /\ Held(start, t, f + 1, Left(s, l))
    <2>1. f \in 1 .. Len(t) /\ Len(t[f]) \in 0 .. Len(s)
      BY <1>4, HeldFirst
    <2>2. ASSUME NEW j \in 1 .. Len(t[f]) PROVE s[j] = t[f][j]
      <3>1. f \in f .. Len(t) /\ start[f] \in Nat
        BY <2>1 DEF Offsets, Numbered
      <3>2. s[start[f] - start[f] + j] = t[f][j]
        BY <3>1 DEF Held
      <3>3. Len(t[f]) \in Nat
        BY <2>1, NumberedBytes
      <3>4. start[f] - start[f] + j = j
        BY <3>1, <3>3
      <3>. QED
        BY <3>2, <3>4
    <2>3. Held(start, t, f + 1, Left(s, Len(t[f])))
      BY <1>4, HeldFirst
    <2>. QED
      BY <2>1, <2>2, <2>3
  <1>6. /\ l \in Nat /\ LenSize < l /\ LenSize \in Nat \ {0} /\ t[f] \in Seq(Byte)
    BY <1>5, NumberedBytes, FramingAssumption
  <1>7. Len(q) < LenSize => Len(q) < l
    BY <1>2, <1>6
  <1>8. ASSUME LenSize <= Len(q)
        PROVE  /\ LenIn(q) = l
               /\ place_back(Left(q, LenSize), Taken(q, LenSize)) = q
               /\ Cropped(LenIn(q), Left(q, LenSize)) <=> Len(q) < l
    <2>1. LenSize \in 0 .. Len(q)
      BY <1>2, <1>6, <1>8
    <2>2. \A j \in 1 .. LenSize : q[j] = t[f][j]
      <3>. SUFFICES ASSUME NEW j \in 1 .. LenSize PROVE q[j] = t[f][j]
        OBVIOUS
      <3>1. j \in 1 .. Len(q) /\ j \in 1 .. l
        BY <1>2, <1>6, <1>8
      <3>. QED
        BY <1>3, <1>5, <3>1
    <2>3. LenIn(q) = l
      BY <1>5, <1>8, <2>2, LengthRead
    <2>4. place_back(Left(q, LenSize), Taken(q, LenSize)) = q
      BY <2>1, PiecesJoined DEF place_back
    <2>5. Len(Left(q, LenSize)) = Len(q) - LenSize
      BY <2>1, Pieces
    <2>6. Cropped(LenIn(q), Left(q, LenSize)) <=> Len(q) < l
      BY <1>2, <1>6, <2>3, <2>5 DEF Cropped
    <2>. QED
      BY <2>3, <2>4, <2>6
  <1>9. ASSUME LenSize <= Len(q), l <= Len(q)
        PROVE  /\ Taken(q, LenSize) \o Taken(Left(q, LenSize), l - LenSize) = t[f]
               /\ Left(Left(q, LenSize), l - LenSize) = Left(q, l)
               /\ Left(q, l) \in Seq(Byte)
               /\ Held(start, t, f + 1, Left(q, l) \o w)
    <2>1. l \in 0 .. Len(q) /\ LenSize \in 0 .. l
      BY <1>2, <1>6, <1>9
    <2>2. /\ Taken(q, LenSize) \o Taken(Left(q, LenSize), l - LenSize) = Taken(q, l)
          /\ Left(Left(q, LenSize), l - LenSize) = Left(q, l)
      BY <2>1, ReadTwice
    <2>3. /\ Taken(q, l) \in Seq(Byte) /\ Len(Taken(q, l)) = l
          /\ \A k \in 1 .. l : Taken(q, l)[k] = q[k]
          /\ Left(q, l) \in Seq(Byte)
      BY <2>1, Pieces
    <2>4. Taken(q, l) = t[f]
      <3>1. \A k \in 1 .. l : Taken(q, l)[k] = t[f][k]
        <4>. SUFFICES ASSUME NEW k \in 1 .. l PROVE Taken(q, l)[k] = t[f][k]
          OBVIOUS
        <4>1. k \in 1 .. Len(q)
          BY <1>2, <1>6, <1>9
        <4>. QED
          BY <1>3, <1>5, <2>3, <4>1
      <3>. QED
        BY <1>6, <2>3, <3>1, SeqEqual
    <2>5. Left(q, l) \o w = Left(s, l)
      BY <2>1, LeftOfBoth
    <2>. QED
      BY <1>5, <2>2, <2>3, <2>4, <2>5
  <1>. QED
    BY <1>5, <1>7, <1>8, <1>9

LEMMA Regrouped ==
    ASSUME NEW b \in Seq(Byte), NEW x \in Seq(Byte), NEW y \in Seq(Byte)
    PROVE  b \o (x \o y) = (b \o x) \o y
  BY ConcatAssociative

LEMMA RecvKeeps ==
    ASSUME IInv, Recv
    PROVE  IInv' /\ Reader!Read
  <1>1. PICK n \in 1 .. BUFFER_CLIENT :
               /\ n <= Len(wire)
               /\ wire' = Left(wire, n)
               /\ receive_msg(buffer_r \o Taken(wire, n))
    BY DEF Recv
  <1>2. /\ TypeOK /\ Numbered(sent) /\ sent' = sent
    BY DEF IInv, Recv
  <1>3. PICK start : Offsets(start, sent) /\ Held(start, sent, Len(shown) + 1, Stream)
    BY DEF IInv
  <1>4. /\ sent \in Seq(News) /\ wire \in Seq(Byte) /\ buffer_r \in Seq(Byte)
        /\ shown \in Seq(Seq(Byte)) /\ Len(shown) \in Nat /\ Len(sent) \in Nat
        /\ BUFFER_CLIENT \in Nat
    BY <1>2, FramingAssumption DEF TypeOK
  <1>. DEFINE a == Taken(wire, n)
              w == Left(wire, n)
              q == buffer_r \o a
              f == Len(shown) + 1
              c == LastWhole
              d == LastOf(f, q)
              l == Len(sent[f])
  <1>5. /\ n \in 0 .. Len(wire) /\ a \in Seq(Byte) /\ Len(a) = n /\ w \in Seq(Byte)
        /\ a \o w = wire
    <2>1. n \in 0 .. Len(wire)
      BY <1>1, <1>4
    <2>. QED
      BY <1>4, <2>1, Pieces, PiecesJoined
  <1>6. /\ q \in Seq(Byte) /\ Len(q) = Len(buffer_r) + n /\ q # <<>>
        /\ Len(buffer_r) \in Nat
    <2>1. q \in Seq(Byte) /\ Len(q) = Len(buffer_r) + Len(a) /\ Len(buffer_r) \in Nat
      <3>. DEFINE b == buffer_r
                  x == Taken(wire, n)
      <3>1. b \in Seq(Byte) /\ x \in Seq(Byte)
        BY <1>4, <1>5
      <3>. HIDE DEF b, x
      <3>2. b \o x \in Seq(Byte) /\ Len(b \o x) = Len(b) + Len(x) /\ Len(b) \in Nat
        BY <3>1, ConcatProperties, LenProperties
      <3>. QED
        BY <3>2 DEF b, x
    <2>2. Len(q) # 0
      BY <1>4, <1>5, <2>1
    <2>. QED
      BY <1>5, <2>1, <2>2
  <1>7. Stream = q \o w
    <2>. DEFINE b == buffer_r
                x == Taken(wire, n)
                y == Left(wire, n)
    <2>1. b \in Seq(Byte) /\ x \in Seq(Byte) /\ y \in Seq(Byte) /\ x \o y = wire
      BY <1>4, <1>5
    <2>. HIDE DEF b, x, y
    <2>2. b \o (x \o y) = (b \o x) \o y
      BY <2>1, Regrouped
    <2>. QED
      BY <2>1, <2>2 DEF b, x, y, Stream
  <1>8. f \in 1 .. Len(sent) + 1
    BY <1>3 DEF Held
  <1>9. /\ f \in 1 .. Len(sent)
        /\ Len(q) < LenSize => Len(q) < l
        /\ LenSize <= Len(q) =>
              /\ LenIn(q) = l
              /\ place_back(Left(q, LenSize), Taken(q, LenSize)) = q
              /\ Cropped(LenIn(q), Left(q, LenSize)) <=> Len(q) < l
        /\ LenSize <= Len(q) /\ l <= Len(q) =>
              /\ Taken(q, LenSize) \o Taken(Left(q, LenSize), l - LenSize) = sent[f]
              /\ Left(Left(q, LenSize), l - LenSize) = Left(q, l)
              /\ Left(q, l) \in Seq(Byte)
              /\ Held(start, sent, f + 1, Left(q, l) \o w)
    <2>. DEFINE t == sent
                s == Stream
    <2>1. Numbered(t) /\ Offsets(start, t) /\ Held(start, t, f, s) /\ s = q \o w
      BY <1>2, <1>3, <1>7
    <2>. HIDE DEF t, s, q, w, f
    <2>2. q \in Seq(Byte) /\ w \in Seq(Byte) /\ q # <<>>
      BY <1>5, <1>6
    <2>. QED
      BY <2>1, <2>2, ReceiveDoes DEF t
  <1>10. Complete(start, sent, f, Len(buffer_r), c)
    BY <1>2, <1>3, WholeInState
  <1>11. Complete(start, sent, f, Len(buffer_r) + n, d)
    <2>1. /\ Len(Stream) = Len(q) + Len(w) /\ Len(w) \in Nat
          /\ \A k \in 1 .. Len(q) + Len(w) :
                (q \o w)[k] = IF k <= Len(q) THEN q[k] ELSE w[k - Len(q)]
      BY <1>5, <1>6, <1>7, ConcatProperties
    <2>2. Len(q) \in Nat
      BY <1>6
    <2>. HIDE DEF q, w
    <2>3. /\ Len(q) <= Len(Stream)
          /\ \A k \in 1 .. Len(q) : q[k] = Stream[k]
      BY <1>7, <2>1, <2>2
    <2>. DEFINE t == sent
                s == Stream
    <2>4. /\ Numbered(t) /\ Offsets(start, t) /\ Held(start, t, f, s)
          /\ Len(q) <= Len(s) /\ \A k \in 1 .. Len(q) : q[k] = s[k]
      BY <1>2, <1>3, <2>3
    <2>. HIDE DEF t, s, f
    <2>5. Complete(start, t, f, Len(q), LastOf(f, q))
      BY <1>6, <2>4, LastComplete
    <2>. QED
      BY <1>6, <2>5 DEF t
  <1>12. d - c \in 0 .. RecvNews
    BY <1>2, <1>3, <1>6, <1>8, <1>10, <1>11, CompletedByOne
  <1>13. /\ c \in f - 1 .. Len(sent) /\ d \in f - 1 .. Len(sent) /\ d \in c .. Len(sent)
         /\ RecvNews \in Nat
    <2>1. c \in f - 1 .. Len(sent) /\ d \in f - 1 .. Len(sent) /\ RecvNews \in Nat
      BY <1>10, <1>11, FramingAssumption DEF Complete
    <2>. QED
      BY <1>4, <1>12, <2>1
  <1>14. Len(q) < l <=> d = f - 1
    <2>1. f \in 1 .. Len(sent) + 1 /\ f + 1 \in 1 .. Len(sent) + 1 /\ f \in Nat
      BY <1>4, <1>9
    <2>2. start[f + 1] = start[f] + l /\ start[f] \in Nat /\ start[f + 1] \in Nat
      BY <1>3, <1>9, <2>1 DEF Offsets
    <2>3. l \in Nat
      BY <1>2, <1>9, NumberedBytes
    <2>4. start[d + 1] - start[f] <= Len(q)
          /\ (d < Len(sent) => Len(q) < start[d + 2] - start[f])
      BY <1>6, <1>11 DEF Complete
    <2>5. CASE d = f - 1
      <3>1. d < Len(sent) /\ d + 2 = f + 1
        BY <1>4, <1>9, <2>1, <2>5
      <3>2. Len(q) < start[f + 1] - start[f]
        BY <2>4, <3>1
      <3>3. start[f + 1] - start[f] = l
        BY <2>2, <2>3
      <3>. QED
        BY <2>5, <3>2, <3>3
    <2>6. CASE d # f - 1
      <3>1. f + 1 <= d + 1 /\ d + 1 \in 1 .. Len(sent) + 1
        BY <1>4, <1>13, <2>1, <2>6
      <3>2. start[f + 1] <= start[d + 1] /\ start[d + 1] \in Nat
        BY <1>2, <1>3, <2>1, <3>1, Grows
      <3>3. Len(q) \in Nat
        BY <1>6
      <3>4. l <= Len(q)
        BY <2>2, <2>3, <2>4, <3>2, <3>3
      <3>. QED
        BY <2>3, <2>6, <3>3, <3>4
    <2>. QED
      BY <2>5, <2>6
  <1>15. /\ d - c <= Len(ToClient)
         /\ SubSeq(ToClient, d - c + 1, Len(ToClient)) = SubSeq(sent, d + 1, Len(sent))
         /\ WholeNews \o SubSeq(ToClient, 1, d - c) = SubSeq(sent, f, d)
    <2>. DEFINE t == sent
                rest == ToClient
    <2>1. rest = SubSeq(t, c + 1, Len(t)) /\ WholeNews = SubSeq(t, f, c)
      BY DEF ToClient, WholeNews
    <2>2. /\ t \in Seq(News) /\ f \in 1 .. Len(t) + 1 /\ c \in f - 1 .. Len(t)
          /\ d \in c .. Len(t)
      BY <1>4, <1>8, <1>13
    <2>. HIDE DEF t, rest, f, c, d
    <2>3. /\ d - c <= Len(SubSeq(t, c + 1, Len(t)))
          /\ SubSeq(SubSeq(t, c + 1, Len(t)), d - c + 1, Len(SubSeq(t, c + 1, Len(t))))
                = SubSeq(t, d + 1, Len(t))
          /\ SubSeq(t, f, c) \o SubSeq(SubSeq(t, c + 1, Len(t)), 1, d - c)
                = SubSeq(t, f, d)
      BY <2>2, MoreComplete, Zenon
    <2>. QED
      BY <2>1, <2>3, Zenon DEF t, rest
  <1>. HIDE DEF a, w, q, c, d, l
  \* Too few bytes for a news: they stay.
  <1>16. CASE Len(q) < l
    <2>1. buffer_r' = q /\ shown' = shown /\ defined' \in BOOLEAN
      <3>1. CASE Len(q) < LenSize
        BY <1>1, <3>1 DEF receive_msg, q, a
      <3>2. CASE ~(Len(q) < LenSize)
        <4>1. LenSize <= Len(q)
          BY <1>6, <3>2, FramingAssumption
        <4>2. Cropped(LenIn(q), Left(q, LenSize))
          BY <1>9, <1>16, <4>1
        <4>3. buffer_r' = place_back(Left(q, LenSize), Taken(q, LenSize))
              /\ shown' = shown /\ defined' = defined
          BY <1>1, <3>2, <4>2 DEF receive_msg, q, a
        <4>. QED
          BY <1>2, <1>9, <4>1, <4>3 DEF TypeOK
      <3>. QED
        BY <3>1, <3>2
    <2>2. wire' = w
      BY <1>1 DEF w
    <2>3. TypeOK'
      BY <1>2, <1>5, <1>6, <2>1, <2>2 DEF TypeOK
    <2>4. Stream' = Stream
      BY <1>7, <2>1, <2>2 DEF Stream
    <2>5. IInv'
      BY <1>2, <1>3, <2>1, <2>3, <2>4 DEF IInv
    <2>6. d = f - 1 /\ LastWhole' = d
      <3>1. LastWhole' = LastOf(Len(shown') + 1, buffer_r')
        <4>1. (TypeOK => LastWhole = LastOf(Len(shown) + 1, buffer_r))'
          BY LastWholeIs, PTL
        <4>. QED
          BY <2>3, <4>1
      <3>. QED
        BY <1>14, <1>16, <2>1, <3>1 DEF d
    <2>7. SubSeq(sent, f, d) = <<>>
      BY <1>4, <1>8, <1>13, <2>6, SomeOf
    <2>8. ToClient' = SubSeq(sent, d + 1, Len(sent)) /\ WholeNews' = SubSeq(sent, f, d)
      BY <1>2, <2>1, <2>6 DEF ToClient, WholeNews
    <2>9. WholeNews = <<>>
      <3>1. c = f - 1
        BY <1>4, <1>13, <2>6
      <3>2. WholeNews = SubSeq(sent, f, c)
        BY DEF WholeNews, c
      <3>. QED
        BY <1>4, <1>8, <1>13, <3>1, <3>2, SomeOf
    <2>10. Reader!Read
      BY <1>12, <1>15, <2>1, <2>7, <2>8, <2>9 DEF Reader!Read, ToClient, WholeNews
    <2>. QED
      BY <2>5, <2>10
  \* The first news is shown.
  <1>17. CASE ~(Len(q) < l)
    <2>0. l \in Nat /\ LenSize < l /\ Len(q) \in Nat /\ LenSize \in Nat
      BY <1>2, <1>6, <1>9, NumberedBytes, FramingAssumption DEF l
    <2>1. LenSize <= Len(q) /\ l <= Len(q) /\ ~(Len(q) < LenSize)
      BY <1>17, <2>0
    <2>2. ~Cropped(LenIn(q), Left(q, LenSize)) /\ LenIn(q) = l
      BY <1>9, <1>17, <2>1
    <2>3. /\ shown' = Append(shown, Taken(q, LenSize)
                                      \o Taken(Left(q, LenSize), LenIn(q) - LenSize))
          /\ buffer_r' = Left(Left(q, LenSize), LenIn(q) - LenSize)
          /\ defined' = defined
      BY <1>1, <2>1, <2>2 DEF receive_msg, q, a
    <2>4. shown' = Append(shown, sent[f]) /\ buffer_r' = Left(q, l)
      BY <1>9, <2>1, <2>2, <2>3
    <2>5. sent[f] \in Seq(Byte) /\ Left(q, l) \in Seq(Byte)
      BY <1>2, <1>9, <2>1, NumberedBytes
    <2>6. Append(shown, sent[f]) \in Seq(Seq(Byte)) /\ Len(Append(shown, sent[f])) = f
      BY <1>4, <2>5, AppendProperties
    <2>7. wire' = w
      BY <1>1 DEF w
    <2>8. TypeOK'
      BY <1>2, <1>5, <2>3, <2>4, <2>5, <2>6, <2>7 DEF TypeOK
    <2>9. Stream' = Left(q, l) \o w /\ Len(shown') + 1 = f + 1
      BY <2>4, <2>6, <2>7 DEF Stream
    <2>10. Held(start, sent, f + 1, Left(q, l) \o w)
      BY <1>9, <2>1
    <2>11. IInv'
      BY <1>2, <1>3, <2>8, <2>9, <2>10 DEF IInv
    <2>12. LastWhole' = d
      <3>. DEFINE e == LastWhole'
                  p == Len(Left(q, l))
      <3>1. Complete(start, sent, f + 1, p, e)
        <4>1. (TypeOK /\ Numbered(sent) /\ Offsets(start, sent)
                 /\ Held(start, sent, Len(shown) + 1, Stream))'
          BY <1>2, <1>3, <2>8, <2>9, <2>10
        <4>2. (TypeOK /\ Numbered(sent) /\ Offsets(start, sent)
                 /\ Held(start, sent, Len(shown) + 1, Stream)
               => Complete(start, sent, Len(shown) + 1, Len(buffer_r), LastWhole))'
          BY WholeInState, PTL
        <4>. QED
          BY <1>2, <2>4, <2>9, <4>1, <4>2
      <3>2. p = Len(q) - l
        <4>1. l \in 0 .. Len(q)
          BY <2>0, <2>1
        <4>. QED
          BY <1>6, <4>1, Pieces
      <3>3. f \in 1 .. Len(sent) /\ f + 1 \in 1 .. Len(sent) + 1
        BY <1>4, <1>9
      <3>4. start[f + 1] = start[f] + l /\ start[f] \in Nat /\ start[f + 1] \in Nat
        <4>1. /\ start[f + 1] = start[f] + Len(sent[f])
              /\ start[f] \in Nat /\ start[f + 1] \in Nat
          <5>1. f \in 1 .. Len(sent) + 1
            <6>1. Len(sent) \in Nat
              BY <1>2 DEF Numbered
            <6>. QED
              BY <3>3, <6>1
          <5>. QED
            BY <1>3, <3>3, <5>1 DEF Offsets
        <4>. QED
          BY <4>1 DEF l
      <3>5. Complete(start, sent, f + 1, p, d)
        <4>1. d # f - 1 /\ d \in f .. Len(sent) /\ f \in Nat
          BY <1>4, <1>13, <1>14, <1>17
        <4>2. /\ start[d + 1] - start[f] <= Len(q)
              /\ d < Len(sent) => Len(q) < start[d + 2] - start[f]
          BY <1>6, <1>11 DEF Complete
        <4>3. /\ start[d + 1] \in Nat
              /\ d < Len(sent) => start[d + 2] \in Nat
          <5>1. d + 1 \in 1 .. Len(sent) + 1
                /\ (d < Len(sent) => d + 2 \in 1 .. Len(sent) + 1)
            BY <1>4, <4>1
          <5>. QED
            BY <1>3, <5>1 DEF Offsets
        <4>4. /\ start[d + 1] - start[f + 1] <= p
              /\ d < Len(sent) => p < start[d + 2] - start[f + 1]
          <5>1. ASSUME NEW b \in Nat, NEW g \in Nat, NEW m \in Nat,
                       g = b + l
                PROVE  /\ m - b <= Len(q) => m - g <= Len(q) - l
                       /\ Len(q) < m - b => Len(q) - l < m - g
            BY <2>0, <5>1
          <5>2. /\ start[d + 1] - start[f + 1] <= Len(q) - l
                /\ d < Len(sent) => Len(q) - l < start[d + 2] - start[f + 1]
            BY <3>4, <4>2, <4>3, <5>1, Zenon
          <5>. QED
            BY <3>2, <5>2
        <4>5. d \in (f + 1) - 1 .. Len(sent)
          BY <4>1
        <4>. QED
          BY <4>4, <4>5 DEF Complete
      <3>6. p \in Nat /\ p <= p
        BY <2>0, <2>1, <3>2
      <3>. HIDE DEF e, p
      <3>7. d <= e /\ e <= d
        BY <1>2, <1>3, <3>1, <3>3, <3>5, <3>6, CompleteGrows
      <3>8. d \in Int /\ e \in Int
        BY <1>4, <3>1, <3>3, <3>5 DEF Complete
      <3>. QED
        BY <3>7, <3>8 DEF e
    <2>13. d \in f .. Len(sent)
      BY <1>4, <1>13, <1>14, <1>17
    <2>14. /\ SubSeq(sent, f, d) # <<>> /\ Head(SubSeq(sent, f, d)) = sent[f]
           /\ Tail(SubSeq(sent, f, d)) = SubSeq(sent, f + 1, d)
      BY <1>4, <1>9, <2>13, FirstOf
    <2>15. ToClient' = SubSeq(sent, d + 1, Len(sent))
           /\ WholeNews' = SubSeq(sent, f + 1, d)
      BY <1>2, <2>9, <2>12 DEF ToClient, WholeNews
    <2>16. Reader!Read
      <3>1. /\ d - c \in 0 .. RecvNews /\ d - c <= Len(ToClient)
            /\ WholeNews \o SubSeq(ToClient, 1, d - c) # <<>>
            /\ shown' = Append(shown, Head(WholeNews \o SubSeq(ToClient, 1, d - c)))
            /\ WholeNews' = Tail(WholeNews \o SubSeq(ToClient, 1, d - c))
            /\ ToClient' = SubSeq(ToClient, d - c + 1, Len(ToClient))
        BY <1>12, <1>15, <2>4, <2>14, <2>15
      <3>. QED
        BY <3>1 DEF Reader!Read, ToClient, WholeNews
    <2>. QED
      BY <2>11, <2>16
  <1>. QED
    BY <1>16, <1>17

LEMMA StepFraming ==
    ASSUME IInv, [Next]_vars
    PROVE  IInv' /\ [Reader!Next]_(Reader!vars)
  <1>1. CASE SendNews
    BY <1>1, SendKeeps DEF Reader!Next
  <1>2. CASE Recv
    BY <1>2, RecvKeeps DEF Reader!Next
  <1>3. CASE UNCHANGED vars
    <2>1. /\ sent' = sent /\ wire' = wire /\ buffer_r' = buffer_r /\ shown' = shown
          /\ defined' = defined
      BY <1>3 DEF vars
    <2>2. Stream' = Stream /\ LastWhole' = LastWhole /\ (TypeOK' <=> TypeOK)
      BY <2>1 DEF Stream, LastWhole, TypeOK
    <2>. QED
      BY <2>1, <2>2 DEF IInv, Reader!vars
  <1>. QED
    BY <1>1, <1>2, <1>3 DEF Next

LEMMA AlwaysFraming == Spec => []IInv
  BY InitFraming, StepFraming, PTL DEF Spec

(***************************************************************************)
(* The theorems.                                                           *)
(***************************************************************************)
\* The bytes read and on the way are of news that were sent (server.cpp 376-380).
THEOREM BytesTyped == Spec => []TypeOK
  <1>1. IInv => TypeOK
    BY DEF IInv
  <1>. QED
    BY <1>1, AlwaysFraming, PTL

LEMMA HeldInOrder ==
    ASSUME NEW t, Numbered(t), NEW start, Offsets(start, t), NEW f, NEW s,
           Held(start, t, f, s)
    PROVE  /\ \A k \in 1 .. Len(s) :
                 /\ s[k].news \in 1 .. Len(t) /\ s[k].at \in 1 .. Len(t[s[k].news])
                 /\ s[k] = t[s[k].news][s[k].at]
           /\ s = <<>> => f = Len(t) + 1
           /\ s # <<>> =>
                 /\ s[1].news = f /\ s[1].at = 1
                 /\ \A k \in 2 .. Len(s) : Follows(s[k], s[k - 1])
                 /\ s[Len(s)].news = Len(t) /\ s[Len(s)].at = s[Len(s)].len
  <1>1. /\ Len(t) \in Nat /\ f \in 1 .. Len(t) + 1 /\ s \in Seq(Byte)
        /\ Len(s) = start[Len(t) + 1] - start[f]
    BY DEF Numbered, Held
  <1>2. start[f] \in Nat /\ Len(t) + 1 \in 1 .. Len(t) + 1 /\ start[Len(t) + 1] \in Nat
    <2>1. Len(t) + 1 \in 1 .. Len(t) + 1
      BY <1>1
    <2>2. start \in [1 .. Len(t) + 1 -> Nat]
      BY DEF Offsets
    <2>. QED
      BY <1>1, <2>1, <2>2
  <1>0. \A i \in 1 .. Len(s) : Placed(start, t, f, s, i)
    BY Position
  <1>3. ASSUME NEW k \in 1 .. Len(s)
        PROVE  /\ s[k].news \in 1 .. Len(t) /\ s[k].at \in 1 .. Len(t[s[k].news])
               /\ s[k] = t[s[k].news][s[k].at]
    <2>1. PICK n \in f .. Len(t) : \E j \in 1 .. Len(t[n]) :
              /\ k = start[n] - start[f] + j /\ start[n + 1] = start[n] + Len(t[n])
              /\ s[k] = [news |-> n, len |-> Len(t[n]), at |-> j]
      BY <1>0 DEF Placed
    <2>2. PICK j \in 1 .. Len(t[n]) :
              s[k] = [news |-> n, len |-> Len(t[n]), at |-> j]
      BY <2>1
    <2>3. n \in 1 .. Len(t)
      BY <1>1
    <2>4. t[n][j] = [news |-> n, len |-> Len(t[n]), at |-> j]
      BY <2>3, NumberedBytes
    <2>. QED
      BY <2>2, <2>3, <2>4
  <1>4. s = <<>> => f = Len(t) + 1
    <2>1. f < Len(t) + 1 => start[f] < start[Len(t) + 1]
      BY <1>1, <1>2, Grows
    <2>2. s = <<>> => Len(s) = 0
      OBVIOUS
    <2>. QED
      BY <1>1, <1>2, <2>1, <2>2
  <1>5. ASSUME s # <<>>
        PROVE  /\ s[1].news = f /\ s[1].at = 1
               /\ s[Len(s)].news = Len(t) /\ s[Len(s)].at = s[Len(s)].len
    <2>1. f \in 1 .. Len(t) /\ Len(s) \in Nat \ {0}
      BY <1>1, <1>5, HeldFirst, EmptySeq
    <2>2. s[1] = t[f][1] /\ Len(t[f]) > 1
      <3>1. 1 \in 1 .. Len(t[f])
        BY <2>1, NumberedBytes
      <3>2. f \in f .. Len(t) /\ start[f] - start[f] + 1 = 1
        BY <1>2, <2>1
      <3>3. s[start[f] - start[f] + 1] = t[f][1]
        BY <3>1, <3>2 DEF Held
      <3>. QED
        BY <2>1, <3>2, <3>3, NumberedBytes
    <2>3. s[1].news = f /\ s[1].at = 1
      <3>1. 1 \in 1 .. Len(t[f])
        BY <2>1, NumberedBytes
      <3>2. t[f][1] = [news |-> f, len |-> Len(t[f]), at |-> 1]
        BY <2>1, <3>1, NumberedBytes
      <3>. QED
        BY <2>2, <3>2
    <2>4. s[Len(s)] = t[Len(t)][Len(t[Len(t)])]
      <3>. DEFINE N == Len(t)
      <3>1. N \in f .. Len(t) /\ N \in 1 .. Len(t)
        BY <1>1, <2>1
      <3>2. Len(t[N]) \in 1 .. Len(t[N])
        BY <3>1, NumberedBytes
      <3>3. s[start[N] - start[f] + Len(t[N])] = t[N][Len(t[N])]
        BY <3>1, <3>2 DEF Held
      <3>4. start[N + 1] = start[N] + Len(t[N]) /\ start[N] \in Nat
        <4>1. N \in 1 .. Len(t) + 1
          BY <1>1, <3>1
        <4>. QED
          BY <3>1, <4>1 DEF Offsets
      <3>5. start[N] - start[f] + Len(t[N]) = Len(s)
        BY <1>1, <1>2, <3>2, <3>4
      <3>. QED
        BY <3>3, <3>5
    <2>5. s[Len(s)].news = Len(t) /\ s[Len(s)].at = s[Len(s)].len
      <3>. DEFINE N == Len(t)
                  j == Len(t[N])
      <3>1. N \in 1 .. Len(t) /\ j \in 1 .. Len(t[N])
        <4>1. N \in 1 .. Len(t)
          BY <1>1, <2>1
        <4>. QED
          BY <4>1, NumberedBytes
      <3>2. t[N][j] = [news |-> N, len |-> Len(t[N]), at |-> j]
        BY <3>1, NumberedBytes
      <3>. QED
        BY <2>4, <3>2
    <2>. QED
      BY <2>3, <2>5
  <1>6. ASSUME NEW k \in 2 .. Len(s)
        PROVE  Follows(s[k], s[k - 1])
    <2>0. k \in 1 .. Len(s) /\ k - 1 \in 1 .. Len(s) /\ k \in Nat
      BY <1>1
    <2>1. PICK n \in f .. Len(t) : \E j \in 1 .. Len(t[n]) :
              /\ k - 1 = start[n] - start[f] + j /\ start[n + 1] = start[n] + Len(t[n])
              /\ s[k - 1] = [news |-> n, len |-> Len(t[n]), at |-> j]
      BY <2>0, <1>0 DEF Placed
    <2>2. PICK j \in 1 .. Len(t[n]) :
              /\ k - 1 = start[n] - start[f] + j /\ start[n + 1] = start[n] + Len(t[n])
              /\ s[k - 1] = [news |-> n, len |-> Len(t[n]), at |-> j]
      BY <2>1
    <2>3. /\ n \in 1 .. Len(t) /\ n \in 1 .. Len(t) + 1 /\ n + 1 \in 1 .. Len(t) + 1
          /\ Len(t[n]) \in Nat /\ start[n] \in Nat
      <3>1. n \in 1 .. Len(t) /\ n \in 1 .. Len(t) + 1 /\ n + 1 \in 1 .. Len(t) + 1
        BY <1>1
      <3>. QED
        BY <3>1, NumberedBytes DEF Offsets
    <2>4. CASE j < Len(t[n])
      <3>1. j + 1 \in 1 .. Len(t[n]) /\ start[n] - start[f] + (j + 1) = k
        <4>1. k - 1 = start[n] - start[f] + j
          BY <2>2
        <4>2. j \in Nat /\ j + 1 \in 1 .. Len(t[n])
          BY <2>3, <2>4
        <4>3. k \in Nat /\ start[n] \in Nat /\ start[f] \in Nat
          BY <1>2, <2>0, <2>3
        <4>. QED
          BY <4>1, <4>2, <4>3
      <3>2. s[start[n] - start[f] + (j + 1)] = t[n][j + 1]
        BY <3>1 DEF Held
      <3>3. t[n][j + 1] = [news |-> n, len |-> Len(t[n]), at |-> j + 1]
        BY <2>3, <3>1, NumberedBytes
      <3>4. s[k] = [news |-> n, len |-> Len(t[n]), at |-> j + 1]
        BY <3>1, <3>2, <3>3
      <3>. QED
        BY <2>2, <2>4, <3>4 DEF Follows
    <2>5. CASE ~(j < Len(t[n]))
      <3>1. j = Len(t[n])
        BY <2>3, <2>5
      <3>2. start[n + 1] - start[f] + 1 = k
        <4>1. ASSUME NEW b \in Nat, NEW e \in Nat, NEW g \in Nat, NEW m \in Nat,
                     k - 1 = b - g + m, e = b + m
              PROVE  e - g + 1 = k
          BY <4>1
        <4>2. k - 1 = start[n] - start[f] + Len(t[n])
              /\ start[n + 1] = start[n] + Len(t[n])
          BY <2>2, <3>1
        <4>3. start[n] \in Nat /\ start[n + 1] \in Nat /\ Len(t[n]) \in Nat
          BY <2>3, <4>2
        <4>. QED
          BY <1>2, <4>1, <4>2, <4>3
      <3>3. n + 1 \in f .. Len(t)
        <4>1. n # Len(t)
          <5>1. n = Len(t) => start[n + 1] - start[f] = Len(s)
            BY <1>1
          <5>2. start[n + 1] \in Nat /\ Len(s) \in Nat /\ k <= Len(s)
            BY <1>1, <2>2, <2>3
          <5>. QED
            BY <1>2, <3>2, <5>1, <5>2
        <4>. QED
          BY <1>1, <2>3, <4>1
      <3>4. n + 1 \in 1 .. Len(t)
        BY <1>1, <3>3
      <3>5. 1 \in 1 .. Len(t[n + 1])
        BY <3>4, NumberedBytes
      <3>6. s[start[n + 1] - start[f] + 1] = t[n + 1][1]
        BY <3>3, <3>5 DEF Held
      <3>7. t[n + 1][1] = [news |-> n + 1, len |-> Len(t[n + 1]), at |-> 1]
        BY <3>4, <3>5, NumberedBytes
      <3>8. s[k] = [news |-> n + 1, len |-> Len(t[n + 1]), at |-> 1]
        BY <3>2, <3>6, <3>7
      <3>. QED
        BY <2>2, <2>5, <3>8 DEF Follows
    <2>. QED
      BY <2>4, <2>5
  <1>. QED
    BY <1>3, <1>4, <1>5, <1>6

\* No byte is lost, repeated or moved, wherever recv cuts the stream
\* (common.cpp 10-28, subscriber.cpp 147-159).
THEOREM NoByteMoved == Spec => []StreamKept
  <1>1. IInv => StreamKept
    <2>. SUFFICES ASSUME IInv PROVE StreamKept
      OBVIOUS
    <2>1. PICK start : Offsets(start, sent) /\ Held(start, sent, Len(shown) + 1, Stream)
      BY DEF IInv
    <2>2. TypeOK /\ Numbered(sent)
      BY DEF IInv
    <2>3. /\ Stream \in Seq(Byte) /\ DOMAIN Stream = 1 .. Len(Stream)
          /\ DOMAIN sent = 1 .. Len(sent) /\ Len(shown) \in Nat /\ Len(sent) \in Nat
      BY <2>1, <2>2 DEF Held, TypeOK
    <2>4. \A n \in 1 .. Len(sent) : DOMAIN sent[n] = 1 .. Len(sent[n])
      <3>. SUFFICES ASSUME NEW n \in 1 .. Len(sent)
                    PROVE  DOMAIN sent[n] = 1 .. Len(sent[n])
        OBVIOUS
      <3>1. sent[n] \in Seq(Byte)
        BY <2>2, NumberedBytes
      <3>. QED
        BY <3>1
    <2>. DEFINE t == sent
                s == Stream
                f == Len(shown) + 1
    <2>5. Numbered(t) /\ Offsets(start, t) /\ Held(start, t, f, s)
      BY <2>1, <2>2
    <2>. HIDE DEF t, s, f
    <2>6. /\ \A k \in 1 .. Len(s) :
                /\ s[k].news \in 1 .. Len(t) /\ s[k].at \in 1 .. Len(t[s[k].news])
                /\ s[k] = t[s[k].news][s[k].at]
          /\ s = <<>> => f = Len(t) + 1
          /\ s # <<>> =>
                /\ s[1].news = f /\ s[1].at = 1
                /\ \A k \in 2 .. Len(s) : Follows(s[k], s[k - 1])
                /\ s[Len(s)].news = Len(t) /\ s[Len(s)].at = s[Len(s)].len
      BY <2>5, HeldInOrder
    <2>7. \A k \in DOMAIN Stream :
            /\ Stream[k].news \in DOMAIN sent
            /\ Stream[k].at \in DOMAIN sent[Stream[k].news]
            /\ Stream[k] = sent[Stream[k].news][Stream[k].at]
      BY <2>3, <2>4, <2>6 DEF s, t
    <2>8. Stream = <<>> => Len(shown) = Len(sent)
      BY <2>3, <2>6 DEF s, t, f
    <2>. QED
      BY <2>6, <2>7, <2>8 DEF s, t, f, StreamKept
  <1>. QED
    BY <1>1, AlwaysFraming, PTL

\* A subscriber that reads its news in any pieces completes, shows and keeps
\* them as one that is handed whole news: the Read of Subscriber, with at most
\* RecvNews news completed by one recv (subscriber.cpp 147-205 and 273-282).
THEOREM PiecesAreNews == Spec => ImplementsReader
  <1>1. Init => Reader!Init
    BY InitFraming
  <1>2. IInv /\ [Next]_vars => [Reader!Next]_(Reader!vars)
    BY StepFraming
  <1>. QED
    BY <1>1, <1>2, AlwaysFraming, PTL DEF Spec, ImplementsReader, Reader!Spec
=============================================================================
