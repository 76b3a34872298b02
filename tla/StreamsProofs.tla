---------------------------- MODULE StreamsProofs ---------------------------
(* The inductive invariant of Streams, StreamInv, for any number of        *)
(* senders, sizes of messages and buffers, and what follows from it: an    *)
(* end takes nothing but whole messages for messages.                      *)
EXTENDS Streams, TLAPS

(* The two ends, and the threads of each.                                  *)
LEMMA EndsOfThreads ==
    ASSUME SendersApart
    PROVE  /\ \A t \in Threads : EndOf(t) \in Ends
           /\ \A e \in Ends : Peer(e) \in Ends /\ Peer(e) # e /\ Peer(Peer(e)) = e
           /\ \A e, c \in Ends : c = e \/ c = Peer(e)
           /\ "reader" \notin Threads /\ "none" \notin Threads
<1>1. \A t \in Threads : \E e \in Ends : t \in Senders[e]
  BY DEF Threads
<1>2. \A t \in Threads : EndOf(t) \in Ends
  BY <1>1, Zenon DEF EndOf
<1>3. Threads = SendersA \cup SendersB
  BY DEF Threads, Senders, Ends
<1> QED
  BY <1>2, <1>3 DEF SendersApart, Ends, Peer

(* The messages that are sent have at least a header.                      *)
LEMMA MessageTypes ==
    ASSUME SendersApart
    PROVE  Messages \subseteq [size : Nat \ {0}, fds : Nat] /\ SomeMessage \in Messages
<1>1. ASSUME NEW n \in Sizes PROVE n \in Nat \ {0} /\ n - HdrSize \in Nat
  BY DEF SendersApart
<1>2. Messages \subseteq [size : Nat \ {0}, fds : Nat]
  BY <1>1 DEF Messages
<1>3. \E m : m \in Messages
  BY DEF Messages, SendersApart
<1> QED
  BY <1>2, <1>3, Zenon DEF SomeMessage

(* What one sequence after another holds.                                  *)
LEMMA Concatenated ==
    ASSUME NEW S, NEW a \in Seq(S), NEW b \in Seq(S)
    PROVE  /\ a \o b \in Seq(S) /\ Len(a \o b) = Len(a) + Len(b) /\ Len(a) \in Nat /\ Len(b) \in Nat
           /\ \A i \in 1..Len(a) : (a \o b)[i] = a[i]
           /\ \A i \in 1..Len(b) : (a \o b)[Len(a) + i] = b[i]
  OBVIOUS

(* Cutting a sequence in two.                                              *)
LEMMA Cut ==
    ASSUME NEW S, NEW a \in Seq(S), NEW n \in 0..Len(a)
    PROVE  /\ SubSeq(a, 1, n) \in Seq(S) /\ Len(SubSeq(a, 1, n)) = n
           /\ \A i \in 1..n : SubSeq(a, 1, n)[i] = a[i]
           /\ SubSeq(a, n + 1, Len(a)) \in Seq(S) /\ Len(SubSeq(a, n + 1, Len(a))) = Len(a) - n
           /\ \A i \in 1..Len(a) - n : SubSeq(a, n + 1, Len(a))[i] = a[n + i]
  OBVIOUS

(* The piece a send puts on its way.                                       *)
LEMMA PieceUnits ==
    ASSUME SendersApart, Types, NEW t \in Threads, NEW f \in Nat \ {0}, NEW n \in Nat
    PROVE  \E p \in Seq(Units) : p = Piece(t, f, f + n - 1) /\ Len(p) = n /\ Numbered(p, t, f, n)
<1> DEFINE q == [i \in 1..n |-> [by |-> t, idx |-> f + i - 1, size |-> msg[t].size,
                                 fds |-> IF f + i = 2 THEN msg[t].fds ELSE 0]]
<1>1. q = Piece(t, f, f + n - 1)
  <2>1. f + n - 1 + 1 - f = n
    OBVIOUS
  <2> QED
    BY <2>1, Zenon DEF Piece
<1>2. ASSUME NEW i \in 1..n PROVE q[i] \in Units
  <2>1. msg[t].size \in Nat /\ msg[t].fds \in Nat /\ f + i - 1 \in Nat
    BY DEF Types
  <2> QED
    BY <2>1 DEF Units
<1>3. q \in Seq(Units) /\ Len(q) = n
  <2>1. q \in [1..n -> Units]
    BY <1>2
  <2> HIDE DEF q
  <2> QED
    BY <2>1
<1>4. Numbered(q, t, f, n)
  BY DEF Numbered
<1> HIDE DEF q
<1> QED
  BY <1>1, <1>3, <1>4, Zenon

(* The types of what makes up a stream.                                    *)
LEMMA StreamTypes ==
    ASSUME Types, NEW e \in Ends
    PROVE  /\ StreamLen(e) \in Nat /\ Len(got[e].units) \in Nat /\ Len(chan[e]) \in Nat
           /\ got[e].units \in Seq(Units) /\ chan[e] \in Seq(Units)
           /\ \A i \in 1..StreamLen(e) : UnitAt(e, i) \in Units
<1>1. got[e].units \in Seq(Units) /\ chan[e] \in Seq(Units)
  BY DEF Types
<1>2. Len(got[e].units) \in Nat /\ Len(chan[e]) \in Nat
  BY <1>1
<1>3. ASSUME NEW i \in 1..StreamLen(e) PROVE UnitAt(e, i) \in Units
  <2>1. CASE i <= Len(got[e].units)
    BY <1>1, <1>2, <2>1 DEF UnitAt
  <2>2. CASE ~(i <= Len(got[e].units))
    <3>1. i - Len(got[e].units) \in 1..Len(chan[e])
      <4> DEFINE k == Len(got[e].units)
                 l == Len(chan[e])
      <4>1. k \in Nat /\ l \in Nat /\ ~(i <= k) /\ i \in 1..k + l
        BY <1>2, <2>2, Zenon DEF StreamLen
      <4> HIDE DEF k, l
      <4>2. i - k \in 1..l
        BY <4>1
      <4> QED
        BY <4>2, Zenon DEF k, l
    <3>2. chan[e][i - Len(got[e].units)] \in Units
      BY <1>1, <3>1
    <3> QED
      BY <2>2, <3>2, Zenon DEF UnitAt
  <2> QED
    BY <2>1, <2>2, Zenon
<1>4. StreamLen(e) \in Nat
  <2> DEFINE k == Len(got[e].units)
             l == Len(chan[e])
  <2>1. k \in Nat /\ l \in Nat /\ StreamLen(e) = k + l
    BY <1>2, Zenon DEF StreamLen
  <2> HIDE DEF k, l
  <2> QED
    BY <2>1
<1> QED
  BY <1>1, <1>2, <1>3, <1>4, Zenon

(* Where a unit of a stream is, now and after a step.                      *)
LEMMA UnitIs ==
    ASSUME NEW e, NEW j
    PROVE  /\ j <= Len(got[e].units) => UnitAt(e, j) = got[e].units[j]
           /\ ~(j <= Len(got[e].units)) => UnitAt(e, j) = chan[e][j - Len(got[e].units)]
           /\ j <= Len(got'[e].units) => UnitAt(e, j)' = got'[e].units[j]
           /\ ~(j <= Len(got'[e].units)) => UnitAt(e, j)' = chan'[e][j - Len(got'[e].units)]
BY Zenon DEF UnitAt

(* A send makes a stream longer.                                           *)
LEMMA Appended ==
    ASSUME Types, NEW to \in Ends, NEW p \in Seq(Units), chan' = [chan EXCEPT ![to] = @ \o p], got' = got
    PROVE  /\ chan' \in [Ends -> Seq(Units)]
           /\ StreamLen(to)' = StreamLen(to) + Len(p)
           /\ \A i \in 1..StreamLen(to) : UnitAt(to, i)' = UnitAt(to, i)
           /\ \A i \in StreamLen(to)+1..StreamLen(to)+Len(p) : UnitAt(to, i)' = p[i - StreamLen(to)]
<1>0. PICK n : n = StreamLen(to)
  BY Zenon
<1> DEFINE g == Len(got[to].units)
           l == Len(chan[to])
<1>1. chan[to] \in Seq(Units) /\ g \in Nat /\ Len(chan[to]) \in Nat /\ n = g + Len(chan[to])
  BY <1>0, StreamTypes, Zenon DEF StreamLen
<1>2. /\ chan[to] \o p \in Seq(Units) /\ Len(chan[to] \o p) = Len(chan[to]) + Len(p) /\ Len(p) \in Nat
      /\ \A i \in 1..Len(chan[to]) : (chan[to] \o p)[i] = chan[to][i]
      /\ \A i \in 1..Len(p) : (chan[to] \o p)[Len(chan[to]) + i] = p[i]
  BY <1>1, Concatenated
<1>3. /\ chan'[to] = chan[to] \o p /\ chan' \in [Ends -> Seq(Units)]
      /\ \A c \in Ends \ {to} : chan'[c] = chan[c]
  <2>1. chan \in [Ends -> Seq(Units)]
    BY Zenon DEF Types
  <2> QED
    BY <1>2, <2>1, Zenon
<1>4. StreamLen(to)' = n + Len(p)
  <2>1. StreamLen(to)' = g + Len(chan'[to])
    BY Zenon DEF StreamLen
  <2>2. Len(chan'[to]) = Len(chan[to]) + Len(p)
    BY <1>2, <1>3, Zenon
  <2>3. StreamLen(to)' = g + (l + Len(p)) /\ g \in Nat /\ l \in Nat /\ Len(p) \in Nat /\ n = g + l
    BY <1>1, <1>2, <2>1, <2>2, Zenon
  <2> HIDE DEF g, l
  <2> QED
    BY <2>3
<1>5. ASSUME NEW i \in 1..n PROVE UnitAt(to, i)' = UnitAt(to, i)
  <2>1. CASE i <= g
    BY <2>1, Zenon DEF UnitAt
  <2>2. CASE ~(i <= g)
    <3>1. i - g \in 1..Len(chan[to])
      <4>1. g \in Nat /\ l \in Nat /\ n = g + l
        BY <1>1, Zenon
      <4> HIDE DEF g, l
      <4>2. i - g \in 1..l
        BY <2>2, <4>1
      <4> QED
        BY <4>2, Zenon DEF l
    <3>2. chan'[to][i - g] = chan[to][i - g]
      BY <1>2, <1>3, <3>1, Zenon
    <3> QED
      BY <3>2, <2>2, Zenon DEF UnitAt
  <2> QED
    BY <2>1, <2>2, Zenon
<1>6. ASSUME NEW i \in 1..Len(p) PROVE UnitAt(to, n + i)' = p[i]
  <2>1. ~(n + i <= g) /\ (n + i) - g = Len(chan[to]) + i
    <3>1. g \in Nat /\ l \in Nat /\ n = g + l /\ Len(p) \in Nat
      BY <1>1, <1>2, Zenon
    <3> HIDE DEF g, l
    <3>2. ~(n + i <= g) /\ (n + i) - g = l + i
      BY <3>1
    <3> QED
      BY <3>2, Zenon DEF l
  <2>2. chan'[to][Len(chan[to]) + i] = p[i]
    BY <1>2, <1>3, Zenon
  <2>0. PICK j : j = n + i
    BY Zenon
  <2>3. ~(j <= g) /\ j - g = Len(chan[to]) + i
    BY <2>0, <2>1, Zenon
  <2> HIDE DEF g
  <2>4. g = Len(got'[to].units)
    BY Zenon DEF g
  <2>5. UnitAt(to, j)' = chan'[to][j - g]
    <3>1. ~(j <= Len(got'[to].units)) => UnitAt(to, j)' = chan'[to][j - Len(got'[to].units)]
      BY Zenon DEF UnitAt
    <3> QED
      BY <2>3, <2>4, <3>1
  <2>6. UnitAt(to, j)' = p[i]
    BY <2>2, <2>3, <2>5, Zenon
  <2> QED
    BY <2>0, <2>6, Zenon
<1>8. ASSUME NEW i \in n+1..n+Len(p) PROVE UnitAt(to, i)' = p[i - n]
  <2>0. StreamLen(to) \in Nat
    BY StreamTypes, Zenon
  <2>1. n \in Int /\ Len(p) \in Nat
    BY <1>0, <1>2, <2>0
  <2>2. PICK r : r = i - n
    BY Zenon
  <2>3. r \in 1..Len(p) /\ n + r = i
    BY <2>1, <2>2
  <2> QED
    BY <1>6, <2>2, <2>3, Zenon
<1> QED
  BY <1>0, <1>3, <1>4, <1>5, <1>8, Zenon

(* The reader takes units: the stream is the same.                         *)
LEMMA Taken ==
    ASSUME Types, NEW e \in Ends, NEW n \in 0..Len(chan[e]), NEW g \in [units : Seq(Units), fds : [count : Nat, valid : Nat]],
           g.units = got[e].units \o SubSeq(chan[e], 1, n), got' = [got EXCEPT ![e] = g],
           chan' = [chan EXCEPT ![e] = SubSeq(@, n + 1, Len(@))]
    PROVE  /\ chan' \in [Ends -> Seq(Units)]
           /\ got' \in [Ends -> [units : Seq(Units), fds : [count : Nat, valid : Nat]]]
           /\ \A c \in Ends : StreamLen(c)' = StreamLen(c) /\ \A i \in 1..StreamLen(c) : UnitAt(c, i)' = UnitAt(c, i)
<1> DEFINE a == SubSeq(chan[e], 1, n)
           b == SubSeq(chan[e], n + 1, Len(chan[e]))
           k == Len(got[e].units)
           l == Len(chan[e])
<1>1. /\ got[e].units \in Seq(Units) /\ chan[e] \in Seq(Units) /\ k \in Nat /\ Len(chan[e]) \in Nat /\ n \in Nat /\ n <= Len(chan[e])
  <2>1. got[e].units \in Seq(Units) /\ chan[e] \in Seq(Units) /\ k \in Nat /\ Len(chan[e]) \in Nat
    BY StreamTypes, Zenon
  <2> QED
    BY <2>1
<1>2. /\ a \in Seq(Units) /\ Len(a) = n /\ \A i \in 1..n : a[i] = chan[e][i]
      /\ b \in Seq(Units) /\ Len(b) = Len(chan[e]) - n /\ \A i \in 1..Len(chan[e]) - n : b[i] = chan[e][n + i]
  <2> DEFINE q == chan[e]
  <2>1. q \in Seq(Units) /\ n \in 0..Len(q)
    BY <1>1, Zenon
  <2> HIDE DEF q
  <2>2. /\ SubSeq(q, 1, n) \in Seq(Units) /\ Len(SubSeq(q, 1, n)) = n /\ \A i \in 1..n : SubSeq(q, 1, n)[i] = q[i]
        /\ SubSeq(q, n + 1, Len(q)) \in Seq(Units) /\ Len(SubSeq(q, n + 1, Len(q))) = Len(q) - n
        /\ \A i \in 1..Len(q) - n : SubSeq(q, n + 1, Len(q))[i] = q[n + i]
    BY <2>1, Cut
  <2> QED
    BY <2>2, Zenon DEF q
<1>3. /\ Len(g.units) = k + n /\ \A i \in 1..k : g.units[i] = got[e].units[i]
      /\ \A i \in 1..n : g.units[k + i] = a[i]
  <2> HIDE DEF a
  <2>1. /\ Len(got[e].units \o a) = k + Len(a) /\ \A i \in 1..k : (got[e].units \o a)[i] = got[e].units[i]
        /\ \A i \in 1..Len(a) : (got[e].units \o a)[k + i] = a[i]
    <3> DEFINE u == got[e].units
    <3>1. u \in Seq(Units) /\ a \in Seq(Units)
      BY <1>1, <1>2, Zenon
    <3> HIDE DEF u, k
    <3>2. /\ Len(u \o a) = Len(u) + Len(a) /\ \A i \in 1..Len(u) : (u \o a)[i] = u[i]
          /\ \A i \in 1..Len(a) : (u \o a)[Len(u) + i] = a[i]
      BY <3>1, Concatenated
    <3> QED
      BY <3>2, Zenon DEF u, k
  <2> QED
    BY <1>2, <2>1, Zenon DEF a
<1>4. /\ chan' \in [Ends -> Seq(Units)] /\ chan'[e] = b /\ \A c \in Ends \ {e} : chan'[c] = chan[c]
  <2>1. chan \in [Ends -> Seq(Units)]
    BY Zenon DEF Types
  <2> QED
    BY <1>2, <2>1, Zenon
<1>5. /\ got' \in [Ends -> [units : Seq(Units), fds : [count : Nat, valid : Nat]]]
      /\ got'[e] = g /\ \A c \in Ends \ {e} : got'[c] = got[c]
  <2>1. got \in [Ends -> [units : Seq(Units), fds : [count : Nat, valid : Nat]]]
    BY Zenon DEF Types
  <2> QED
    BY <2>1, Zenon
<1>6. \A c \in Ends \ {e} : StreamLen(c)' = StreamLen(c) /\ \A i : UnitAt(c, i)' = UnitAt(c, i)
  BY <1>4, <1>5, Zenon DEF StreamLen, UnitAt
<1>7. StreamLen(e) = k + Len(chan[e]) /\ StreamLen(e)' = k + n + (Len(chan[e]) - n) /\ StreamLen(e)' = StreamLen(e)
  <2>1. StreamLen(e) = k + Len(chan[e]) /\ StreamLen(e)' = Len(g.units) + Len(b)
    BY <1>4, <1>5, Zenon DEF StreamLen
  <2>2. Len(g.units) = k + n /\ Len(b) = Len(chan[e]) - n
    BY <1>2, <1>3, Zenon
  <2>3. k \in Nat /\ l \in Nat /\ n \in Nat /\ n <= l /\ StreamLen(e) = k + l /\ StreamLen(e)' = k + n + (l - n)
    BY <1>1, <2>1, <2>2, Zenon
  <2> HIDE DEF k, l, b
  <2>4. k + n + (l - n) = k + l
    BY <2>3
  <2> QED
    BY <2>3, <2>4, Zenon DEF l
<1>8. ASSUME NEW i \in 1..StreamLen(e) PROVE UnitAt(e, i)' = UnitAt(e, i)
  <2>0. UnitAt(e, i)' = IF i <= k + n THEN g.units[i] ELSE b[i - (k + n)]
    BY <1>3, <1>4, <1>5, Zenon DEF UnitAt
  <2>1. CASE i <= k
    <3>1. i \in 1..k /\ i <= k + n
      BY <2>1, <1>1
    <3> QED
      BY <2>0, <2>1, <3>1, <1>3, Zenon DEF UnitAt
  <2>2. CASE ~(i <= k) /\ i <= k + n
    <3>1. i - k \in 1..n /\ k + (i - k) = i
      BY <2>2, <1>1
    <3>2. g.units[i] = chan[e][i - k]
      BY <1>2, <1>3, <3>1, Zenon
    <3> QED
      BY <2>0, <2>2, <3>2, Zenon DEF UnitAt
  <2>3. CASE ~(i <= k + n)
    <3>1. i - (k + n) \in 1..Len(chan[e]) - n /\ n + (i - (k + n)) = i - k /\ ~(i <= k)
      <4>1. k \in Nat /\ l \in Nat /\ n \in Nat /\ n <= l /\ i \in 1..k + l
        BY <1>1, <1>7, Zenon
      <4> HIDE DEF k, l
      <4>2. i - (k + n) \in 1..l - n /\ n + (i - (k + n)) = i - k /\ ~(i <= k)
        BY <2>3, <4>1
      <4> QED
        BY <4>2, Zenon DEF l
    <3>2. b[i - (k + n)] = chan[e][i - k]
      BY <1>2, <3>1, Zenon
    <3> QED
      BY <2>0, <2>3, <3>1, <3>2, Zenon DEF UnitAt
  <2> QED
    BY <2>1, <2>2, <2>3, Zenon
<1> QED
  BY <1>4, <1>5, <1>6, <1>7, <1>8, Zenon

(* A message is delivered: the stream goes on after it.                    *)
LEMMA Delivered ==
    ASSUME Types, NEW e \in Ends, NEW n \in 0..Len(chan[e]), NEW m, m = Len(got[e].units) + n,
           got' = [got EXCEPT ![e] = Nothing],
           chan' = [chan EXCEPT ![e] = SubSeq(@, n + 1, Len(@))]
    PROVE  /\ chan' \in [Ends -> Seq(Units)]
           /\ got' \in [Ends -> [units : Seq(Units), fds : [count : Nat, valid : Nat]]]
           /\ m \in Nat /\ StreamLen(e)' = StreamLen(e) - m /\ m <= StreamLen(e)
           /\ \A i \in 1..StreamLen(e) - m : UnitAt(e, i)' = UnitAt(e, m + i)
           /\ \A c \in Ends \ {e} : chan'[c] = chan[c] /\ got'[c] = got[c]
<1> DEFINE b == SubSeq(chan[e], n + 1, Len(chan[e]))
           k == Len(got[e].units)
           l == Len(chan[e])
<1>1. /\ got[e].units \in Seq(Units) /\ chan[e] \in Seq(Units) /\ k \in Nat /\ Len(chan[e]) \in Nat /\ n \in Nat /\ n <= Len(chan[e])
  <2>1. got[e].units \in Seq(Units) /\ chan[e] \in Seq(Units) /\ k \in Nat /\ Len(chan[e]) \in Nat
    BY StreamTypes, Zenon
  <2> QED
    BY <2>1
<1>2. b \in Seq(Units) /\ Len(b) = Len(chan[e]) - n /\ \A i \in 1..Len(chan[e]) - n : b[i] = chan[e][n + i]
  BY <1>1, Cut, Zenon
<1>3. Nothing \in [units : Seq(Units), fds : [count : Nat, valid : Nat]] /\ Nothing.units = <<>> /\ Len(Nothing.units) = 0
  BY DEF Nothing, NoFds
<1>4. /\ chan' \in [Ends -> Seq(Units)] /\ chan'[e] = b /\ \A c \in Ends \ {e} : chan'[c] = chan[c]
  <2>1. chan \in [Ends -> Seq(Units)]
    BY Zenon DEF Types
  <2> QED
    BY <1>2, <2>1, Zenon
<1>5. /\ got' \in [Ends -> [units : Seq(Units), fds : [count : Nat, valid : Nat]]]
      /\ got'[e] = Nothing /\ \A c \in Ends \ {e} : got'[c] = got[c]
  <2>1. got \in [Ends -> [units : Seq(Units), fds : [count : Nat, valid : Nat]]]
    BY Zenon DEF Types
  <2> QED
    BY <1>3, <2>1, Zenon
<1>7. StreamLen(e) = k + Len(chan[e]) /\ StreamLen(e)' = StreamLen(e) - m /\ m \in Nat /\ m <= StreamLen(e)
  <2>1. StreamLen(e) = k + Len(chan[e]) /\ StreamLen(e)' = 0 + Len(b) /\ Len(b) = Len(chan[e]) - n /\ m = k + n
    BY <1>2, <1>3, <1>4, <1>5, Zenon DEF StreamLen
  <2>2. k \in Nat /\ l \in Nat /\ n \in Nat /\ n <= l /\ StreamLen(e) = k + l /\ StreamLen(e)' = 0 + (l - n) /\ m = k + n
    BY <1>1, <2>1, Zenon
  <2> HIDE DEF k, l, b
  <2>3. StreamLen(e)' = StreamLen(e) - m /\ m \in Nat /\ m <= StreamLen(e)
    BY <2>2
  <2> QED
    BY <2>2, <2>3, Zenon DEF l
<1>8. ASSUME NEW i \in 1..StreamLen(e) - m PROVE UnitAt(e, i)' = UnitAt(e, m + i)
  <2>1. /\ i \in 1..Len(chan[e]) - n /\ ~(i <= 0) /\ i - 0 = i
        /\ ~(m + i <= k) /\ (m + i) - k = n + i
    <3>0. k \in Nat /\ l \in Nat /\ n \in Nat /\ n <= l /\ StreamLen(e) = k + l /\ m = k + n
      BY <1>1, <1>7, Zenon
    <3> HIDE DEF k, l
    <3>1. i \in 1..(k + l) - (k + n) /\ k \in Nat /\ l \in Nat /\ n \in Nat /\ n <= l /\ m = k + n
      BY <3>0, Zenon
    <3>2. i \in 1..l - n /\ ~(i <= 0) /\ i - 0 = i /\ ~(m + i <= k) /\ (m + i) - k = n + i
      BY <3>1
    <3> QED
      BY <3>2, Zenon DEF l
  <2>2. UnitAt(e, i)' = b[i]
    BY <1>3, <1>4, <1>5, <2>1, Zenon DEF UnitAt
  <2>3. UnitAt(e, m + i) = chan[e][n + i]
    <3> DEFINE j == m + i
    <3>1. ~(j <= k) /\ j - k = n + i
      BY <2>1
    <3> HIDE DEF j, k
    <3>2. UnitAt(e, j) = chan[e][j - k]
      BY <3>1, UnitIs, Zenon DEF k
    <3>3. UnitAt(e, j) = chan[e][n + i]
      BY <3>1, <3>2, Zenon
    <3> QED
      BY <3>3, Zenon DEF j
  <2> QED
    BY <1>2, <2>1, <2>2, <2>3, Zenon
<1> QED
  BY <1>4, <1>5, <1>7, <1>8, Zenon

(* ... and the units that are left are the ones that followed.             *)
LEMMA DeliveredUnits ==
    ASSUME Types, NEW e \in Ends, NEW n \in 0..Len(chan[e]), NEW m, m = Len(got[e].units) + n,
           got' = [got EXCEPT ![e] = Nothing],
           chan' = [chan EXCEPT ![e] = SubSeq(@, n + 1, Len(@))]
    PROVE  \A i \in 1..StreamLen(e) - m : UnitAt(e, i)' = UnitAt(e, m + i)
BY Delivered, Zenon

(* Steps that leave the streams, and the threads in a send, alone.         *)
LEMMA SameOrder ==
    ASSUME NEW e \in Ends, Ordered(e),
           StreamLen(e)' = StreamLen(e) /\ \A i \in 1..StreamLen(e) : UnitAt(e, i)' = UnitAt(e, i)
    PROVE  Ordered(e)'
<1> SUFFICES ASSUME NEW i \in (1..StreamLen(e))', NEW j \in (1..StreamLen(e))'
             PROVE  /\ UnitAt(e, i)'.idx >= 1 /\ UnitAt(e, i)'.idx <= UnitAt(e, i)'.size
                    /\ i = 1 => UnitAt(e, i)'.idx = 1
                    /\ i < j /\ j - i <= Rest(e, i)' =>
                          /\ UnitAt(e, j)'.by = UnitAt(e, i)'.by /\ UnitAt(e, j)'.size = UnitAt(e, i)'.size
                          /\ UnitAt(e, j)'.idx = UnitAt(e, i)'.idx + (j - i)
                    /\ j - i = Rest(e, i)' + 1 => UnitAt(e, j)'.idx = 1
  BY Zenon DEF Ordered
<1>1. i \in 1..StreamLen(e) /\ j \in 1..StreamLen(e)
  BY Zenon
<1>2. UnitAt(e, i)' = UnitAt(e, i) /\ UnitAt(e, j)' = UnitAt(e, j)
  BY <1>1, Zenon
<1>3. Rest(e, i)' = Rest(e, i)
  BY <1>2, Zenon DEF Rest
<1>4. /\ UnitAt(e, i).idx >= 1 /\ UnitAt(e, i).idx <= UnitAt(e, i).size
      /\ i = 1 => UnitAt(e, i).idx = 1
      /\ i < j /\ j - i <= Rest(e, i) =>
            /\ UnitAt(e, j).by = UnitAt(e, i).by /\ UnitAt(e, j).size = UnitAt(e, i).size
            /\ UnitAt(e, j).idx = UnitAt(e, i).idx + (j - i)
      /\ j - i = Rest(e, i) + 1 => UnitAt(e, j).idx = 1
  BY <1>1, Zenon DEF Ordered
<1> QED
  BY <1>2, <1>3, <1>4, Zenon

(* ... nor the message that is not finished yet.                           *)
LEMMA Quiet ==
    ASSUME SendersApart, Types, LastUnfinished, GoesOn, sockType' = sockType,
           \A c \in Ends : StreamLen(c)' = StreamLen(c) /\ \A i \in 1..StreamLen(c) : UnitAt(c, i)' = UnitAt(c, i),
           \A c \in Ends : ~open[c] => ~open'[c],
           \A t \in Threads : pc[t] = "send" => pc'[t] = "send" /\ msg'[t] = msg[t] /\ left'[t] = left[t],
           \A t \in Threads : pc'[t] = "send" /\ left'[t] < msg'[t].size => pc[t] = "send"
    PROVE  LastUnfinished' /\ GoesOn'
<1>1. LastUnfinished'
  <2> SUFFICES ASSUME NEW e \in Ends, NEW i \in (1..StreamLen(e))', (i + Rest(e, i) > StreamLen(e))'
               PROVE  /\ sockType' = "UNIX"
                      /\ \/ \E c \in Ends : ~open'[c]
                         \/ LET t == UnitAt(e, i)'.by
                            IN /\ pc'[t] = "send" /\ EndOf(t) = Peer(e) /\ msg'[t].size = UnitAt(e, i)'.size
                               /\ left'[t] = Rest(e, i)' - (StreamLen(e)' - i)
    BY Zenon DEF LastUnfinished
  <2>1. i \in 1..StreamLen(e) /\ StreamLen(e)' = StreamLen(e)
    BY Zenon
  <2>2. UnitAt(e, i)' = UnitAt(e, i) /\ UnitAt(e, i) \in Units
    BY <2>1, StreamTypes, Zenon
  <2>3. Rest(e, i)' = Rest(e, i)
    BY <2>2, Zenon DEF Rest
  <2>4. UnitAt(e, i).by \in Threads
    BY <2>2 DEF Units
  <2>5. i + Rest(e, i) > StreamLen(e)
    BY <2>1, <2>3, Zenon
  <2>6. /\ sockType = "UNIX"
        /\ \/ \E c \in Ends : ~open[c]
           \/ LET t == UnitAt(e, i).by
              IN /\ pc[t] = "send" /\ EndOf(t) = Peer(e) /\ msg[t].size = UnitAt(e, i).size
                 /\ left[t] = Rest(e, i) - (StreamLen(e) - i)
    BY <2>1, <2>5, Zenon DEF LastUnfinished
  <2> QED
    BY <2>1, <2>2, <2>3, <2>4, <2>6, Zenon
<1>2. GoesOn'
  <2> SUFFICES ASSUME NEW t \in Threads, pc'[t] = "send", left'[t] < msg'[t].size,
                      ~(\E c \in Ends : ~open'[c])
               PROVE  LET e == Peer(EndOf(t))
                      IN /\ StreamLen(e)' >= 1 /\ UnitAt(e, StreamLen(e))'.by = t
                         /\ UnitAt(e, StreamLen(e))'.size = msg'[t].size
                         /\ UnitAt(e, StreamLen(e))'.idx = msg'[t].size - left'[t]
    BY Zenon DEF GoesOn
  <2> DEFINE e == Peer(EndOf(t))
  <2>1. pc[t] = "send" /\ msg'[t] = msg[t] /\ left'[t] = left[t] /\ ~(\E c \in Ends : ~open[c])
    BY Zenon
  <2>2. /\ StreamLen(e) >= 1 /\ UnitAt(e, StreamLen(e)).by = t /\ UnitAt(e, StreamLen(e)).size = msg[t].size
        /\ UnitAt(e, StreamLen(e)).idx = msg[t].size - left[t]
    BY <2>1, Zenon DEF GoesOn
  <2>3. e \in Ends
    BY EndsOfThreads, Zenon
  <2> HIDE DEF e
  <2>4. StreamLen(e) \in Nat
    BY <2>3, StreamTypes, Zenon
  <2>5. StreamLen(e) \in 1..StreamLen(e)
    BY <2>2, <2>4
  <2>6. StreamLen(e)' = StreamLen(e) /\ UnitAt(e, StreamLen(e))' = UnitAt(e, StreamLen(e))
    BY <2>3, <2>5, Zenon DEF UnitAt
  <2> QED
    BY <2>1, <2>2, <2>6, Zenon DEF e
<1> QED
  BY <1>1, <1>2, Zenon

(* Nothing is asked of the streams of ends that have closed.               *)
LEMMA ClosedQuiet ==
    ASSUME LastUnfinished, sockType' = sockType, NEW c \in Ends, ~open'[c],
           \A e \in Ends : \/ StreamLen(e)' = 0
                           \/ StreamLen(e)' = StreamLen(e) /\ \A i \in 1..StreamLen(e) : UnitAt(e, i)' = UnitAt(e, i)
    PROVE  LastUnfinished' /\ GoesOn'
<1>1. ASSUME NEW e \in Ends, NEW i \in (1..StreamLen(e))', (i + Rest(e, i) > StreamLen(e))' PROVE sockType' = "UNIX"
  <2>1. CASE StreamLen(e)' = 0
    <3>1. i \in 1..0
      BY <2>1, Zenon
    <3> QED
      BY <3>1
  <2>2. CASE StreamLen(e)' = StreamLen(e) /\ \A k \in 1..StreamLen(e) : UnitAt(e, k)' = UnitAt(e, k)
    <3>1. i \in 1..StreamLen(e) /\ UnitAt(e, i)' = UnitAt(e, i)
      BY <2>2, Zenon
    <3>0. Rest(e, i)' = Rest(e, i)
      BY <3>1, Zenon DEF Rest
    <3>2. i + Rest(e, i) > StreamLen(e)
      BY <1>1, <2>2, <3>0, Zenon
    <3> QED
      BY <3>1, <3>2, Zenon DEF LastUnfinished
  <2> QED
    BY <2>1, <2>2, Zenon
<1> QED
  BY <1>1, Zenon DEF LastUnfinished, GoesOn

(* A step that touches no channel and no reader touches no stream.         *)
LEMMA Untouched ==
    ASSUME chan' = chan, got' = got
    PROVE  \A c \in Ends : StreamLen(c)' = StreamLen(c) /\ \A i \in 1..StreamLen(c) : UnitAt(c, i)' = UnitAt(c, i)
BY Zenon DEF StreamLen, UnitAt

(* A thread begins a send.                                                 *)
LEMMA SendKeeps ==
    ASSUME SendersApart, StreamInv, NEW t \in Threads, Send(t)
    PROVE  StreamInv'
<1>0. Types /\ SendsLocked /\ ReaderAt /\ InOrder /\ LastUnfinished /\ GoesOn /\ intact
  BY Zenon DEF StreamInv
<1>1. PICK m \in Messages : msg' = [msg EXCEPT ![t] = m] /\ left' = [left EXCEPT ![t] = m.size]
  BY Zenon DEF Send
<1>2. m \in [size : Nat \ {0}, fds : Nat]
  BY MessageTypes, Zenon
<1>3. /\ pc[t] = "idle" /\ pc' = [pc EXCEPT ![t] = "lock"] /\ sockType' = sockType /\ open' = open
      /\ mutex' = mutex /\ chan' = chan /\ rpc' = rpc /\ got' = got /\ intact' = intact
  BY Zenon DEF Send
<1>4. /\ pc'[t] = "lock" /\ msg'[t] = m /\ left'[t] = m.size
      /\ \A s \in Threads \ {t} : pc'[s] = pc[s] /\ msg'[s] = msg[s] /\ left'[s] = left[s]
  BY <1>0, <1>1, <1>3, Zenon DEF Types
<1>5. Types'
  BY <1>0, <1>1, <1>2, <1>3 DEF Types
<1>6. SendsLocked'
  BY <1>0, <1>3, <1>4, Zenon DEF SendsLocked
<1>7. ReaderAt'
  BY <1>0, <1>3, Zenon DEF ReaderAt, ReaderOf
<1>8. InOrder'
  BY <1>0, <1>3, Untouched, SameOrder, Zenon DEF InOrder
<1>9. LastUnfinished' /\ GoesOn'
  <2>1. \A s \in Threads : pc[s] = "send" => pc'[s] = "send" /\ msg'[s] = msg[s] /\ left'[s] = left[s]
    BY <1>3, <1>4, Zenon
  <2>2. \A s \in Threads : pc'[s] = "send" /\ left'[s] < msg'[s].size => pc[s] = "send"
    BY <1>3, <1>4, Zenon
  <2> QED
    BY <1>0, <1>3, <2>1, <2>2, Untouched, Quiet, Zenon
<1> QED
  BY <1>0, <1>3, <1>5, <1>6, <1>7, <1>8, <1>9, Zenon DEF StreamInv

(* A thread takes the mutex of its end.                                    *)
LEMMA LockToSendKeeps ==
    ASSUME SendersApart, StreamInv, NEW t \in Threads, LockToSend(t)
    PROVE  StreamInv'
<1>0. Types /\ SendsLocked /\ ReaderAt /\ InOrder /\ LastUnfinished /\ GoesOn /\ intact
  BY Zenon DEF StreamInv
<1>1. /\ pc[t] = "lock" /\ mutex[EndOf(t)] = "none" /\ pc' = [pc EXCEPT ![t] = "send"]
      /\ mutex' = [mutex EXCEPT ![EndOf(t)] = t] /\ sockType' = sockType /\ open' = open /\ msg' = msg
      /\ left' = left /\ chan' = chan /\ rpc' = rpc /\ got' = got /\ intact' = intact
  BY Zenon DEF LockToSend
<1>2. EndOf(t) \in Ends /\ \A s \in Threads : EndOf(s) \in Ends /\ s # "none"
  BY EndsOfThreads, Zenon
<1>3. /\ pc'[t] = "send" /\ mutex'[EndOf(t)] = t /\ \A s \in Threads \ {t} : pc'[s] = pc[s]
      /\ \A c \in Ends \ {EndOf(t)} : mutex'[c] = mutex[c]
  BY <1>0, <1>1, <1>2, Zenon DEF Types
<1>4. left[t] = msg[t].size /\ msg[t].size \in Nat \ {0}
  BY <1>0, <1>1 DEF SendsLocked, Types
<1>5. left[t] \in 1..msg[t].size /\ ~(left[t] < msg[t].size)
  BY <1>4
<1>6. Types'
  BY <1>0, <1>1, <1>2 DEF Types
<1>7. SendsLocked'
  <2> SUFFICES ASSUME NEW s \in Threads
               PROVE  /\ pc'[s] = "send" => mutex'[EndOf(s)] = s /\ left'[s] \in 1..msg'[s].size
                      /\ pc'[s] = "lock" \/ (pc'[s] = "send" /\ sockType' = "QMSGQ") => left'[s] = msg'[s].size
    BY Zenon DEF SendsLocked
  <2>1. CASE s = t
    BY <1>1, <1>3, <1>4, <1>5, <2>1, Zenon
  <2>2. CASE s # t
    BY <1>0, <1>1, <1>2, <1>3, <2>2, Zenon DEF SendsLocked
  <2> QED
    BY <2>1, <2>2, Zenon
<1>8. ReaderAt'
  BY <1>0, <1>1, Zenon DEF ReaderAt, ReaderOf
<1>9. InOrder'
  BY <1>0, <1>1, Untouched, SameOrder, Zenon DEF InOrder
<1>10. LastUnfinished' /\ GoesOn'
  <2>1. \A s \in Threads : pc[s] = "send" => pc'[s] = "send" /\ msg'[s] = msg[s] /\ left'[s] = left[s]
    BY <1>1, <1>3, Zenon
  <2>2. \A s \in Threads : pc'[s] = "send" /\ left'[s] < msg'[s].size => pc[s] = "send"
    BY <1>1, <1>3, <1>5, Zenon
  <2> QED
    BY <1>0, <1>1, <2>1, <2>2, Untouched, Quiet, Zenon
<1> QED
  BY <1>0, <1>1, <1>6, <1>7, <1>8, <1>9, <1>10, Zenon DEF StreamInv

(* A send returns: its thread lets the mutex go.                           *)
LEMMA Returns ==
    ASSUME SendersApart, Types, SendsLocked, NEW t \in Threads, pc[t] = "send", NEW result, result \in {"done", "failed"},
           SendReturns(t, result), sockType' = sockType, msg' = msg, NEW x, left' = [left EXCEPT ![t] = x]
    PROVE  /\ SendsLocked' /\ pc'[t] = result
           /\ pc' \in [Threads -> {"idle", "lock", "send", "done", "failed"}]
           /\ mutex' \in [Ends -> Threads \cup {"reader", "none"}]
           /\ \A s \in Threads \ {t} : pc'[s] = pc[s] /\ left'[s] = left[s]
<1>1. /\ pc' = [pc EXCEPT ![t] = result] /\ mutex' = [mutex EXCEPT ![EndOf(t)] = "none"]
  BY Zenon DEF SendReturns
<1>2. EndOf(t) \in Ends /\ \A s \in Threads : EndOf(s) \in Ends /\ s # "none"
  BY EndsOfThreads, Zenon
<1>3. /\ pc'[t] = result /\ \A s \in Threads \ {t} : pc'[s] = pc[s] /\ left'[s] = left[s]
      /\ \A c \in Ends \ {EndOf(t)} : mutex'[c] = mutex[c]
  BY <1>1, <1>2, Zenon DEF Types
<1>4. mutex[EndOf(t)] = t
  BY Zenon DEF SendsLocked
<1>5. /\ pc' \in [Threads -> {"idle", "lock", "send", "done", "failed"}]
      /\ mutex' \in [Ends -> Threads \cup {"reader", "none"}]
  BY <1>1, <1>2 DEF Types
<1>6. SendsLocked'
  <2> SUFFICES ASSUME NEW s \in Threads
               PROVE  /\ pc'[s] = "send" => mutex'[EndOf(s)] = s /\ left'[s] \in 1..msg'[s].size
                      /\ pc'[s] = "lock" \/ (pc'[s] = "send" /\ sockType' = "QMSGQ") => left'[s] = msg'[s].size
    BY Zenon DEF SendsLocked
  <2>1. CASE s = t
    BY <1>3, <2>1
  <2>2. CASE s # t
    BY <1>2, <1>3, <1>4, <2>2, Zenon DEF SendsLocked
  <2> QED
    BY <2>1, <2>2, Zenon
<1> QED
  BY <1>3, <1>5, <1>6, Zenon

(* A send fails: an end has closed.                                        *)
LEMMA SendFailsKeeps ==
    ASSUME SendersApart, StreamInv, NEW t \in Threads, SendFails(t)
    PROVE  StreamInv'
<1>0. Types /\ SendsLocked /\ ReaderAt /\ InOrder /\ LastUnfinished /\ GoesOn /\ intact
  BY Zenon DEF StreamInv
<1>1. /\ pc[t] = "send" /\ ~(open[EndOf(t)] /\ open[Peer(EndOf(t))]) /\ SendReturns(t, "failed")
      /\ left' = [left EXCEPT ![t] = 0] /\ sockType' = sockType /\ open' = open /\ msg' = msg
      /\ chan' = chan /\ rpc' = rpc /\ got' = got /\ intact' = intact
  BY Zenon DEF SendFails
<1>2. EndOf(t) \in Ends /\ Peer(EndOf(t)) \in Ends
  BY EndsOfThreads, Zenon
<1>3. /\ SendsLocked' /\ pc' \in [Threads -> {"idle", "lock", "send", "done", "failed"}]
      /\ mutex' \in [Ends -> Threads \cup {"reader", "none"}]
  BY <1>0, <1>1, Returns, Zenon
<1>4. Types'
  BY <1>0, <1>1, <1>3 DEF Types
<1>5. ReaderAt'
  BY <1>0, <1>1, Zenon DEF ReaderAt, ReaderOf
<1>6. InOrder'
  BY <1>0, <1>1, Untouched, SameOrder, Zenon DEF InOrder
<1>7. LastUnfinished' /\ GoesOn'
  <2>1. \E c \in Ends : ~open'[c]
    BY <1>1, <1>2, Zenon
  <2> QED
    BY <1>0, <1>1, <2>1, Untouched, ClosedQuiet, Zenon
<1> QED
  BY <1>0, <1>1, <1>3, <1>4, <1>5, <1>6, <1>7, Zenon DEF StreamInv

(* A step of a reader before it reads, or the close of an end.             *)
LEMMA BeforeReading ==
    ASSUME SendersApart, StreamInv, NEW e \in Ends,
           \/ SockAgnostic_poll(e) \/ LockToReceive(e) \/ MinkSocket_close(e)
    PROVE  StreamInv'
<1>0. Types /\ SendsLocked /\ ReaderAt /\ InOrder /\ LastUnfinished /\ GoesOn /\ intact
  BY Zenon DEF StreamInv
<1>1. /\ sockType' = sockType /\ chan' = chan /\ pc' = pc /\ msg' = msg /\ left' = left /\ got' = got
      /\ intact' = intact
  BY Zenon DEF SockAgnostic_poll, LockToReceive, MinkSocket_close
<1>2. open' \in [Ends -> BOOLEAN] /\ \A c \in Ends : ~open[c] => ~open'[c]
  <2>1. open' = open \/ open' = [open EXCEPT ![e] = FALSE]
    BY Zenon DEF SockAgnostic_poll, LockToReceive, MinkSocket_close
  <2> QED
    BY <1>0, <2>1 DEF Types
<1>3. mutex' = mutex \/ (mutex[e] = "none" /\ mutex' = [mutex EXCEPT ![e] = "reader"])
  BY Zenon DEF SockAgnostic_poll, LockToReceive, MinkSocket_close
<1>4. \/ rpc' = rpc
      \/ rpc[e] # "body" /\ \E w \in {"lock", "header", "end"} : rpc' = [rpc EXCEPT ![e] = w]
  BY DEF SockAgnostic_poll, LockToReceive, MinkSocket_close
<1>5. Types'
  BY <1>0, <1>1, <1>2, <1>3, <1>4 DEF Types
<1>6. SendsLocked'
  <2>1. \A s \in Threads : EndOf(s) \in Ends /\ s # "none"
    BY EndsOfThreads, Zenon
  <2>2. \A c \in Ends : mutex[c] = "none" \/ mutex'[c] = mutex[c]
    BY <1>0, <1>3, Zenon DEF Types
  <2> QED
    BY <1>0, <1>1, <2>1, <2>2, Zenon DEF SendsLocked
<1>7. ReaderAt'
  <2>1. \A c \in Ends : rpc'[c] = rpc[c] \/ (rpc[c] # "body" /\ rpc'[c] # "body")
    BY <1>0, <1>4 DEF Types
  <2> QED
    BY <1>0, <1>1, <2>1, Zenon DEF ReaderAt, ReaderOf
<1>8. InOrder'
  BY <1>0, <1>1, Untouched, SameOrder, Zenon DEF InOrder
<1>9. LastUnfinished' /\ GoesOn'
  <2>1. \A s \in Threads : pc[s] = "send" => pc'[s] = "send" /\ msg'[s] = msg[s] /\ left'[s] = left[s]
    BY <1>1, Zenon
  <2>2. \A s \in Threads : pc'[s] = "send" /\ left'[s] < msg'[s].size => pc[s] = "send"
    BY <1>1, Zenon
  <2> QED
    BY <1>0, <1>1, <1>2, <2>1, <2>2, Untouched, Quiet, Zenon
<1> QED
  BY <1>0, <1>1, <1>5, <1>6, <1>7, <1>8, <1>9, Zenon DEF StreamInv

(* A reader lets its mutex go, and no sender's.                            *)
LEMMA Unlocks ==
    ASSUME SendersApart, Types, SendsLocked, NEW e \in Ends, UnlockReader(e),
           pc' = pc, msg' = msg, left' = left, sockType' = sockType
    PROVE  SendsLocked' /\ mutex' \in [Ends -> Threads \cup {"reader", "none"}]
<1>1. mutex' = [mutex EXCEPT ![e] = IF mutex[e] = "reader" THEN "none" ELSE mutex[e]]
  BY Zenon DEF UnlockReader
<1>2. mutex' \in [Ends -> Threads \cup {"reader", "none"}]
  BY <1>1 DEF Types
<1>3. \A c \in Ends : mutex[c] = "reader" \/ mutex'[c] = mutex[c]
  BY <1>1, Zenon DEF Types
<1>4. \A s \in Threads : EndOf(s) \in Ends /\ s # "reader"
  BY EndsOfThreads, Zenon
<1> QED
  BY <1>2, <1>3, <1>4, Zenon DEF SendsLocked

(* A receive fails, and closes its end.                                    *)
LEMMA ReceiveFailsKeeps ==
    ASSUME SendersApart, StreamInv, NEW e \in Ends, ReceiveFails(e)
    PROVE  StreamInv'
<1>0. Types /\ SendsLocked /\ ReaderAt /\ InOrder /\ LastUnfinished /\ GoesOn /\ intact
  BY Zenon DEF StreamInv
<1>1. /\ chan[e] = <<>> /\ rpc' = [rpc EXCEPT ![e] = "end"] /\ open' = [open EXCEPT ![e] = FALSE]
      /\ UnlockReader(e) /\ got' = [got EXCEPT ![e] = Nothing] /\ sockType' = sockType /\ chan' = chan
      /\ pc' = pc /\ msg' = msg /\ left' = left /\ intact' = intact
  BY Zenon DEF ReceiveFails
<1>2. /\ rpc'[e] = "end" /\ got'[e] = Nothing /\ ~open'[e]
      /\ \A c \in Ends \ {e} : rpc'[c] = rpc[c] /\ got'[c] = got[c]
  BY <1>0, <1>1, Zenon DEF Types
<1>3. Nothing \in [units : Seq(Units), fds : [count : Nat, valid : Nat]] /\ Len(Nothing.units) = 0
  BY DEF Nothing, NoFds
<1>4. SendsLocked' /\ mutex' \in [Ends -> Threads \cup {"reader", "none"}]
  BY <1>0, <1>1, Unlocks, Zenon
<1>5. Types'
  BY <1>0, <1>1, <1>3, <1>4 DEF Types
<1>6. ReaderAt'
  <2>1. "end" # "body"
    OBVIOUS
  <2>2. \A c \in Ends \ {e} : ReaderOf(c)'
    BY <1>0, <1>1, <1>2, Zenon DEF ReaderAt, ReaderOf
  <2> QED
    BY <1>1, <1>2, <2>1, <2>2, Zenon DEF ReaderAt, ReaderOf
<1>7. StreamLen(e)' = 0
  <2>1. Len(chan'[e]) = 0
    BY <1>1
  <2>2. StreamLen(e)' = 0 + 0
    BY <1>2, <1>3, <2>1, Zenon DEF StreamLen
  <2> QED
    BY <2>2
<1>8. \A c \in Ends \ {e} : StreamLen(c)' = StreamLen(c) /\ \A i : UnitAt(c, i)' = UnitAt(c, i)
  <2>1. \A c \in Ends \ {e} : chan'[c] = chan[c] /\ got'[c] = got[c]
    BY <1>1, <1>2, Zenon
  <2> QED
    BY <2>1, Zenon DEF StreamLen, UnitAt
<1>9. InOrder'
  <2> SUFFICES ASSUME NEW c \in Ends PROVE Ordered(c)'
    BY Zenon DEF InOrder
  <2>1. CASE c = e
    <3>1. (1..StreamLen(c))' = {}
      BY <1>7, <2>1
    <3> QED
      BY <3>1, Zenon DEF Ordered
  <2>2. CASE c # e
    BY <1>0, <1>8, <2>2, SameOrder, Zenon DEF InOrder
  <2> QED
    BY <2>1, <2>2, Zenon
<1>10. LastUnfinished' /\ GoesOn'
  BY <1>0, <1>1, <1>2, <1>7, <1>8, ClosedQuiet, Zenon
<1> QED
  BY <1>0, <1>1, <1>4, <1>5, <1>6, <1>9, <1>10, Zenon DEF StreamInv

(* What is known of two units of a stream.                                 *)
LEMMA OrderOf ==
    ASSUME NEW e \in Ends, Ordered(e), NEW i \in 1..StreamLen(e), NEW j \in 1..StreamLen(e)
    PROVE  /\ UnitAt(e, i).idx >= 1 /\ UnitAt(e, i).idx <= UnitAt(e, i).size
           /\ i = 1 => UnitAt(e, i).idx = 1
           /\ i < j /\ j - i <= Rest(e, i) =>
                 /\ UnitAt(e, j).by = UnitAt(e, i).by /\ UnitAt(e, j).size = UnitAt(e, i).size
                 /\ UnitAt(e, j).idx = UnitAt(e, i).idx + (j - i)
           /\ j - i = Rest(e, i) + 1 => UnitAt(e, j).idx = 1
BY Zenon DEF Ordered

(* The types of a unit.                                                    *)
LEMMA UnitTypes ==
    ASSUME Types, NEW e \in Ends, NEW i \in 1..StreamLen(e)
    PROVE  /\ UnitAt(e, i).by \in Threads /\ UnitAt(e, i).idx \in Nat /\ UnitAt(e, i).size \in Nat
           /\ UnitAt(e, i).fds \in Nat /\ Rest(e, i) \in Int /\ Rest(e, i) = UnitAt(e, i).size - UnitAt(e, i).idx
<1>1. UnitAt(e, i) \in Units
  BY StreamTypes, Zenon
<1>2. PICK u : u = UnitAt(e, i)
  BY Zenon
<1>3. u \in Units /\ Rest(e, i) = u.size - u.idx
  BY <1>1, <1>2, Zenon DEF Rest
<1>4. u.by \in Threads /\ u.idx \in Nat /\ u.size \in Nat /\ u.fds \in Nat /\ u.size - u.idx \in Int
  BY <1>3 DEF Units
<1> QED
  BY <1>2, <1>3, <1>4, Zenon

(* A stream begins with a message.                                         *)
LEMMA FirstWhole ==
    ASSUME Types, NEW e \in Ends, Ordered(e), NEW j \in 1..StreamLen(e), j <= UnitAt(e, 1).size
    PROVE  /\ UnitAt(e, j).by = UnitAt(e, 1).by /\ UnitAt(e, j).idx = j
           /\ UnitAt(e, j).size = UnitAt(e, 1).size
<1>1. StreamLen(e) \in Nat
  BY StreamTypes, Zenon
<1>2. 1 \in 1..StreamLen(e)
  BY <1>1
<1>3. UnitAt(e, 1).idx = 1
  BY <1>2, OrderOf, Zenon
<1>4. CASE j = 1
  BY <1>3, <1>4, Zenon
<1>5. CASE j # 1
  <2>1. 1 < j /\ j - 1 <= Rest(e, 1) /\ 1 + (j - 1) = j
    <3>1. PICK x : x = UnitAt(e, 1).size
      BY Zenon
    <3>2. x \in Nat /\ Rest(e, 1) = x - 1 /\ j <= x
      BY <1>2, <1>3, <3>1, UnitTypes, Zenon
    <3>3. 1 < j /\ j - 1 <= x - 1 /\ 1 + (j - 1) = j
      BY <1>1, <1>5, <3>2
    <3> QED
      BY <3>2, <3>3, Zenon
  <2>2. /\ UnitAt(e, j).by = UnitAt(e, 1).by /\ UnitAt(e, j).size = UnitAt(e, 1).size
        /\ UnitAt(e, j).idx = UnitAt(e, 1).idx + (j - 1)
    BY <1>2, <2>1, OrderOf, Zenon
  <2> QED
    BY <1>3, <2>1, <2>2, Zenon
<1> QED
  BY <1>4, <1>5, Zenon

(* The first message of a stream is taken off.                             *)
LEMMA OffOrder ==
    ASSUME Types, NEW e \in Ends, Ordered(e), NEW m, m = UnitAt(e, 1).size, m \in 1..StreamLen(e),
           StreamLen(e)' = StreamLen(e) - m, \A i \in 1..StreamLen(e) - m : UnitAt(e, i)' = UnitAt(e, m + i)
    PROVE  Ordered(e)'
<1> SUFFICES ASSUME NEW i \in (1..StreamLen(e))', NEW j \in (1..StreamLen(e))'
             PROVE  /\ UnitAt(e, i)'.idx >= 1 /\ UnitAt(e, i)'.idx <= UnitAt(e, i)'.size
                    /\ i = 1 => UnitAt(e, i)'.idx = 1
                    /\ i < j /\ j - i <= Rest(e, i)' =>
                          /\ UnitAt(e, j)'.by = UnitAt(e, i)'.by /\ UnitAt(e, j)'.size = UnitAt(e, i)'.size
                          /\ UnitAt(e, j)'.idx = UnitAt(e, i)'.idx + (j - i)
                    /\ j - i = Rest(e, i)' + 1 => UnitAt(e, j)'.idx = 1
  BY Zenon DEF Ordered
<1>0. i \in 1..StreamLen(e) - m /\ j \in 1..StreamLen(e) - m
  BY Zenon
<1>1. StreamLen(e) \in Nat
  BY StreamTypes, Zenon
<1>2. PICK p, q : p = m + i /\ q = m + j
  BY Zenon
<1>3. /\ p \in 1..StreamLen(e) /\ q \in 1..StreamLen(e) /\ (p < q <=> i < j) /\ q - p = j - i /\ (i = 1 => p - 1 = m)
      /\ 1 \in 1..StreamLen(e)
  BY <1>0, <1>1, <1>2
<1>4. UnitAt(e, i)' = UnitAt(e, p) /\ UnitAt(e, j)' = UnitAt(e, q)
  BY <1>0, <1>2, Zenon
<1>5. Rest(e, i)' = Rest(e, p)
  BY <1>4, Zenon DEF Rest
<1>6. i = 1 => UnitAt(e, p).idx = 1
  <2>1. UnitAt(e, 1).idx = 1
    BY <1>3, OrderOf, Zenon
  <2>2. Rest(e, 1) + 1 = m
    <3>1. m \in Nat /\ Rest(e, 1) = m - 1
      BY <1>3, <2>1, UnitTypes, Zenon
    <3> QED
      BY <3>1
  <2> QED
    BY <1>3, <2>2, OrderOf, Zenon
<1>7. /\ UnitAt(e, p).idx >= 1 /\ UnitAt(e, p).idx <= UnitAt(e, p).size
      /\ p < q /\ q - p <= Rest(e, p) =>
            /\ UnitAt(e, q).by = UnitAt(e, p).by /\ UnitAt(e, q).size = UnitAt(e, p).size
            /\ UnitAt(e, q).idx = UnitAt(e, p).idx + (q - p)
      /\ q - p = Rest(e, p) + 1 => UnitAt(e, q).idx = 1
  BY <1>3, OrderOf, Zenon
<1> QED
  BY <1>3, <1>4, <1>5, <1>6, <1>7, Zenon

(* ... and what follows it is as unfinished as it was.                     *)
LEMMA OffRest ==
    ASSUME SendersApart, Types, SendsLocked, LastUnfinished, GoesOn,
           NEW e \in Ends, Ordered(e), NEW m, m = UnitAt(e, 1).size, m \in 1..StreamLen(e),
           StreamLen(e)' = StreamLen(e) - m, \A i \in 1..StreamLen(e) - m : UnitAt(e, i)' = UnitAt(e, m + i),
           \A c \in Ends \ {e} : StreamLen(c)' = StreamLen(c) /\ \A i : UnitAt(c, i)' = UnitAt(c, i),
           sockType' = sockType, open' = open, pc' = pc, msg' = msg, left' = left
    PROVE  LastUnfinished' /\ GoesOn'
<1>0. StreamLen(e) \in Nat /\ m \in Nat
  BY StreamTypes
<1>1. LastUnfinished'
  <2> SUFFICES ASSUME NEW c \in Ends, NEW i \in (1..StreamLen(c))', (i + Rest(c, i) > StreamLen(c))'
               PROVE  /\ sockType' = "UNIX"
                      /\ \/ \E d \in Ends : ~open'[d]
                         \/ LET t == UnitAt(c, i)'.by
                            IN /\ pc'[t] = "send" /\ EndOf(t) = Peer(c) /\ msg'[t].size = UnitAt(c, i)'.size
                               /\ left'[t] = Rest(c, i)' - (StreamLen(c)' - i)
    BY Zenon DEF LastUnfinished
  <2>1. \E p \in 1..StreamLen(c) :
            /\ UnitAt(c, i)' = UnitAt(c, p) /\ p + Rest(c, p) > StreamLen(c)
            /\ StreamLen(c) - p = StreamLen(c)' - i
    <3>1. CASE c = e
      <4>1. i \in 1..StreamLen(e) - m
        BY <3>1, Zenon
      <4>2. PICK p : p = m + i
        BY Zenon
      <4>3. p \in 1..StreamLen(e) /\ StreamLen(e) - p = StreamLen(e) - m - i
        BY <1>0, <4>1, <4>2
      <4>4. UnitAt(e, i)' = UnitAt(e, p)
        BY <4>1, <4>2, Zenon
      <4>5. Rest(e, i)' = Rest(e, p)
        BY <4>4, Zenon DEF Rest
      <4>6. i + Rest(e, p) > StreamLen(e) - m /\ Rest(e, p) \in Int
        BY <3>1, <4>3, <4>5, UnitTypes, Zenon
      <4>7. p + Rest(e, p) > StreamLen(e)
        BY <1>0, <4>1, <4>2, <4>6
      <4> QED
        BY <3>1, <4>3, <4>4, <4>7, Zenon
    <3>2. CASE c # e
      <4>1. StreamLen(c)' = StreamLen(c) /\ UnitAt(c, i)' = UnitAt(c, i)
        BY <3>2, Zenon
      <4>2. Rest(c, i)' = Rest(c, i)
        BY <4>1, Zenon DEF Rest
      <4> QED
        BY <4>1, <4>2, Zenon
    <3> QED
      BY <3>1, <3>2, Zenon
  <2>2. PICK p \in 1..StreamLen(c) :
            /\ UnitAt(c, i)' = UnitAt(c, p) /\ p + Rest(c, p) > StreamLen(c)
            /\ StreamLen(c) - p = StreamLen(c)' - i
    BY <2>1, Zenon
  <2>3. Rest(c, i)' = Rest(c, p)
    BY <2>2, Zenon DEF Rest
  <2>4. /\ sockType = "UNIX"
        /\ \/ \E d \in Ends : ~open[d]
           \/ LET t == UnitAt(c, p).by
              IN /\ pc[t] = "send" /\ EndOf(t) = Peer(c) /\ msg[t].size = UnitAt(c, p).size
                 /\ left[t] = Rest(c, p) - (StreamLen(c) - p)
    BY <2>2, Zenon DEF LastUnfinished
  <2> QED
    BY <2>2, <2>3, <2>4, Zenon
<1>2. GoesOn'
  <2> SUFFICES ASSUME NEW t \in Threads, pc'[t] = "send", left'[t] < msg'[t].size,
                      ~(\E d \in Ends : ~open'[d])
               PROVE  LET c == Peer(EndOf(t))
                      IN /\ StreamLen(c)' >= 1 /\ UnitAt(c, StreamLen(c))'.by = t
                         /\ UnitAt(c, StreamLen(c))'.size = msg'[t].size
                         /\ UnitAt(c, StreamLen(c))'.idx = msg'[t].size - left'[t]
    BY Zenon DEF GoesOn
  <2>1. PICK c : c = Peer(EndOf(t))
    BY Zenon
  <2>2. c \in Ends /\ pc[t] = "send" /\ left[t] < msg[t].size /\ ~(\E d \in Ends : ~open[d])
    BY <2>1, EndsOfThreads, Zenon
  <2>3. PICK N : N = StreamLen(c)
    BY Zenon
  <2>4. /\ N >= 1 /\ UnitAt(c, N).by = t /\ UnitAt(c, N).size = msg[t].size
        /\ UnitAt(c, N).idx = msg[t].size - left[t]
    BY <2>1, <2>2, <2>3, Zenon DEF GoesOn
  <2>5. N \in Nat /\ N \in 1..N
    <3>1. N \in Nat
      BY <2>2, <2>3, StreamTypes, Zenon
    <3> QED
      BY <2>4, <3>1
  <2>6. StreamLen(c)' >= 1 /\ UnitAt(c, StreamLen(c))' = UnitAt(c, N)
    <3>1. CASE c = e
      <4>1. m # N
        <5> SUFFICES ASSUME m = N PROVE FALSE
          OBVIOUS
        <5>1. UnitAt(e, N).idx = N /\ UnitAt(e, N).size = N
          BY <2>3, <2>5, <3>1, FirstWhole
        <5>2. left[t] \in 1..msg[t].size /\ msg[t].size \in Nat
          BY <2>2 DEF SendsLocked, Types
        <5>3. PICK x, y : x = left[t] /\ y = msg[t].size
          BY Zenon
        <5>4. x \in 1..y /\ y \in Nat /\ N = y - x /\ N = y
          BY <2>4, <3>1, <5>1, <5>2, <5>3, Zenon
        <5> QED
          BY <5>4
      <4>2. N - m \in 1..N - m /\ m + (N - m) = N
        <5>1. m \in 1..N
          BY <2>3, <3>1, Zenon
        <5> QED
          BY <2>5, <4>1, <5>1
      <4>3. PICK k : k = N - m
        BY Zenon
      <4>4. k = StreamLen(c)' /\ k \in 1..N - m /\ UnitAt(c, k)' = UnitAt(c, N)
        BY <2>3, <3>1, <4>2, <4>3, Zenon
      <4>5. UnitAt(c, StreamLen(c))' = UnitAt(c, k)'
        BY <4>4, Zenon DEF UnitAt
      <4>6. k >= 1
        BY <2>5, <1>0, <4>4
      <4> QED
        BY <4>4, <4>5, <4>6, Zenon
    <3>2. CASE c # e
      <4>1. StreamLen(c)' = N
        BY <2>2, <2>3, <3>2, Zenon
      <4>2. UnitAt(c, StreamLen(c))' = UnitAt(c, N)'
        BY <4>1, Zenon DEF UnitAt
      <4> QED
        BY <2>2, <2>4, <3>2, <4>1, <4>2, Zenon
    <3> QED
      BY <3>1, <3>2, Zenon
  <2> QED
    BY <2>1, <2>4, <2>6, Zenon
<1> QED
  BY <1>1, <1>2, Zenon

(* What a reader has after one more read is the beginning of its stream.   *)
LEMMA Reading ==
    ASSUME Types, NEW e \in Ends, NEW n \in 0..Len(chan[e]), NEW v, v = got[e].units \o SubSeq(chan[e], 1, n)
    PROVE  /\ v \in Seq(Units) /\ Len(v) = Len(got[e].units) + n /\ Len(v) \in Nat /\ Len(v) <= StreamLen(e)
           /\ \A i \in 1..Len(v) : v[i] = UnitAt(e, i)
<1>1. PICK u, c : u = got[e].units /\ c = chan[e]
  BY Zenon
<1>2. u \in Seq(Units) /\ c \in Seq(Units) /\ n \in 0..Len(c) /\ v = u \o SubSeq(c, 1, n)
  BY <1>1, StreamTypes, Zenon
<1>3. PICK a : a = SubSeq(c, 1, n)
  BY Zenon
<1>4. a \in Seq(Units) /\ Len(a) = n /\ \A i \in 1..n : a[i] = c[i]
  BY <1>2, <1>3, Cut
<1>5. /\ v \in Seq(Units) /\ Len(v) = Len(u) + n /\ Len(u) \in Nat
      /\ \A i \in 1..Len(u) : v[i] = u[i]
      /\ \A i \in 1..n : v[Len(u) + i] = a[i]
  <2>1. u \o a \in Seq(Units) /\ Len(u \o a) = Len(u) + Len(a) /\ Len(u) \in Nat
    BY <1>2, <1>4, Concatenated
  <2>2. /\ \A i \in 1..Len(u) : (u \o a)[i] = u[i]
        /\ \A i \in 1..Len(a) : (u \o a)[Len(u) + i] = a[i]
    BY <1>2, <1>4, Concatenated
  <2>3. v = u \o a
    BY <1>2, <1>3, Zenon
  <2> QED
    BY <1>4, <2>1, <2>2, <2>3, Zenon
<1>6. PICK k, l : k = Len(u) /\ l = Len(c)
  BY Zenon
<1>7. k \in Nat /\ l \in Nat /\ n \in 0..l /\ StreamLen(e) = k + l /\ Len(v) = k + n
  <2>1. l \in Nat
    BY <1>2, <1>6
  <2> QED
    BY <1>1, <1>2, <1>5, <1>6, <2>1, Zenon DEF StreamLen
<1>8. k + n \in Nat /\ k + n <= k + l
  BY <1>7
<1>9. ASSUME NEW i \in 1..k + n PROVE v[i] = UnitAt(e, i)
  <2>1. CASE i <= k
    <3>1. i \in 1..k
      BY <1>7, <2>1
    <3> QED
      <4>1. v[i] = u[i]
        BY <1>5, <1>6, <3>1, Zenon
      <4>2. i <= Len(got[e].units)
        BY <1>1, <1>6, <2>1, Zenon
      <4> QED
        BY <1>1, <4>1, <4>2, UnitIs, Zenon
  <2>2. CASE ~(i <= k)
    <3>1. i - k \in 1..n /\ k + (i - k) = i
      BY <1>7, <2>2
    <3>2. v[i] = c[i - k]
      BY <1>4, <1>5, <1>6, <3>1, Zenon
    <3> QED
      BY <1>1, <1>6, <2>2, <3>2, UnitIs, Zenon
  <2> QED
    BY <2>1, <2>2, Zenon
<1> QED
  BY <1>1, <1>5, <1>6, <1>7, <1>8, <1>9, Zenon

(* As many units as the first one's message has are that message.          *)
LEMMA WholeIs ==
    ASSUME Types, NEW e \in Ends, Ordered(e), NEW g, g.units \in Seq(Units), Len(g.units) = UnitAt(e, 1).size,
           Len(g.units) >= 1, Len(g.units) <= StreamLen(e), \A i \in 1..Len(g.units) : g.units[i] = UnitAt(e, i),
           g.fds.count = UnitAt(e, 1).fds, g.fds.valid = UnitAt(e, 1).fds
    PROVE  Whole(g)
<1>1. PICK v : v = g.units
  BY Zenon
<1>2. DOMAIN v = 1..Len(v) /\ Len(v) \in Nat
  BY <1>1
<1>3. StreamLen(e) \in Nat
  BY StreamTypes, Zenon
<1>4. PICK m : m = Len(v)
  BY Zenon
<1>5. m \in Nat /\ m >= 1 /\ m <= StreamLen(e) /\ m = UnitAt(e, 1).size
  BY <1>1, <1>2, <1>4, Zenon
<1>6. 1 \in 1..m /\ \A i \in 1..m : i \in 1..StreamLen(e) /\ i <= m
  BY <1>3, <1>5
<1>7. \A i \in 1..m : v[i] = UnitAt(e, i)
  BY <1>1, <1>4, Zenon
<1>8. ASSUME NEW i \in 1..m PROVE v[i].by = v[1].by /\ v[i].idx = i
  <2>1. i \in 1..StreamLen(e) /\ i <= UnitAt(e, 1).size
    BY <1>5, <1>6, Zenon
  <2>2. UnitAt(e, i).by = UnitAt(e, 1).by /\ UnitAt(e, i).idx = i
    BY <2>1, FirstWhole, Zenon
  <2> QED
    BY <1>6, <1>7, <2>2, Zenon
<1> QED
  BY <1>1, <1>2, <1>4, <1>6, <1>7, <1>8, Zenon DEF Whole

(* A reader hands its message over and begins anew.                        *)
LEMMA DeliverKeeps ==
    ASSUME SendersApart, StreamInv, NEW e \in Ends, NEW g, Whole(g), Deliver(e, g),
           NEW m, m = UnitAt(e, 1).size, m \in 1..StreamLen(e),
           chan' \in [Ends -> Seq(Units)], \A c \in Ends \ {e} : chan'[c] = chan[c],
           StreamLen(e)' = StreamLen(e) - m, \A i \in 1..StreamLen(e) - m : UnitAt(e, i)' = UnitAt(e, m + i),
           sockType' = sockType, open' = open, pc' = pc, msg' = msg, left' = left
    PROVE  StreamInv'
<1>0. Types /\ SendsLocked /\ ReaderAt /\ InOrder /\ LastUnfinished /\ GoesOn /\ intact
  BY Zenon DEF StreamInv
<1>1. /\ got' = [got EXCEPT ![e] = Nothing] /\ intact' = (intact /\ Whole(g)) /\ rpc' = [rpc EXCEPT ![e] = "poll"]
      /\ UnlockReader(e)
  BY Zenon DEF Deliver
<1>2. /\ got' \in [Ends -> [units : Seq(Units), fds : [count : Nat, valid : Nat]]]
      /\ \A c \in Ends \ {e} : got'[c] = got[c]
  <2>1. got \in [Ends -> [units : Seq(Units), fds : [count : Nat, valid : Nat]]]
    BY <1>0, Zenon DEF Types
  <2>2. Nothing \in [units : Seq(Units), fds : [count : Nat, valid : Nat]]
    BY DEF Nothing, NoFds
  <2> QED
    BY <1>1, <2>1, <2>2, Zenon
<1>3. \A c \in Ends \ {e} : StreamLen(c)' = StreamLen(c) /\ \A i : UnitAt(c, i)' = UnitAt(c, i)
  <2>1. ASSUME NEW c \in Ends \ {e} PROVE chan'[c] = chan[c] /\ got'[c] = got[c]
    BY <1>2, Zenon
  <2>2. ASSUME NEW c \in Ends \ {e} PROVE StreamLen(c)' = StreamLen(c)
    BY <2>1, Zenon DEF StreamLen
  <2>3. ASSUME NEW c \in Ends \ {e}, NEW i PROVE UnitAt(c, i)' = UnitAt(c, i)
    BY <2>1, Zenon DEF UnitAt
  <2> QED
    BY <2>2, <2>3, Zenon
<1>6. SendsLocked' /\ mutex' \in [Ends -> Threads \cup {"reader", "none"}]
  BY <1>0, <1>1, Unlocks, Zenon
<1>7. Types'
  BY <1>0, <1>1, <1>2, <1>6 DEF Types
<1>8. ReaderAt'
  <2>1. /\ rpc'[e] = "poll" /\ got'[e] = Nothing
        /\ \A c \in Ends \ {e} : rpc'[c] = rpc[c] /\ got'[c] = got[c]
    BY <1>0, <1>1, Zenon DEF Types
  <2>2. rpc'[e] # "body"
    BY <2>1
  <2>3. \A c \in Ends \ {e} : ReaderOf(c)'
    BY <1>0, <2>1, Zenon DEF ReaderAt, ReaderOf
  <2> QED
    BY <2>1, <2>2, <2>3, Zenon DEF ReaderAt, ReaderOf
<1>9. InOrder'
  <2> SUFFICES ASSUME NEW c \in Ends PROVE Ordered(c)'
    BY Zenon DEF InOrder
  <2>1. CASE c = e
    BY <1>0, <2>1, OffOrder, Zenon DEF InOrder
  <2>2. CASE c # e
    BY <1>0, <1>3, <2>2, SameOrder, Zenon DEF InOrder
  <2> QED
    BY <2>1, <2>2, Zenon
<1>10. LastUnfinished' /\ GoesOn'
  BY <1>0, <1>3, OffRest, Zenon DEF InOrder
<1> QED
  BY <1>0, <1>1, <1>6, <1>7, <1>8, <1>9, <1>10, Zenon DEF StreamInv

(* The descriptors that come with the first unit are the message's.        *)
LEMMA Collected ==
    ASSUME Types, NEW e \in Ends, got[e] = Nothing, NEW n \in 1..Len(chan[e])
    PROVE  /\ CollectFds(got[e].fds, SubSeq(chan[e], 1, n)) = [count |-> UnitAt(e, 1).fds, valid |-> UnitAt(e, 1).fds]
           /\ UnitAt(e, 1) = chan[e][1] /\ UnitAt(e, 1).fds \in Nat
<1>1. Len(got[e].units) = 0 /\ got[e].fds.count = 0
  BY DEF Nothing, NoFds
<1>2. PICK c : c = chan[e]
  BY Zenon
<1>3. c \in Seq(Units) /\ n \in 1..Len(c)
  BY <1>2, StreamTypes, Zenon
<1>4. SubSeq(c, 1, n)[1] = c[1] /\ c[1] \in Units
  BY <1>3
<1>5. UnitAt(e, 1) = c[1]
  <2>1. ~(1 <= Len(got[e].units)) /\ 1 - Len(got[e].units) = 1
    BY <1>1
  <2>2. ~(1 <= Len(got[e].units)) => UnitAt(e, 1) = chan[e][1 - Len(got[e].units)]
    BY Zenon DEF UnitAt
  <2> QED
    BY <1>2, <2>1, <2>2
<1>6. PICK x : x = c[1].fds
  BY Zenon
<1>7. x \in Nat
  BY <1>4, <1>6 DEF Units
<1>8. CollectFds(got[e].fds, SubSeq(chan[e], 1, n)) = [count |-> 0 + x, valid |-> IF 0 + x = 0 THEN 0 ELSE x]
  BY <1>1, <1>2, <1>4, <1>6, Zenon DEF CollectFds
<1>9. 0 + x = x /\ (IF 0 + x = 0 THEN 0 ELSE x) = x
  BY <1>7
<1> QED
  BY <1>2, <1>5, <1>6, <1>7, <1>8, <1>9, Zenon

(* SockUNIX_recvMsg reads a header or more of a body.                      *)
LEMMA RecvMsgKeeps ==
    ASSUME SendersApart, StreamInv, NEW e \in Ends, SockUNIX_recvMsg(e)
    PROVE  StreamInv'
<1> DEFINE want == (IF rpc[e] = "header" THEN HdrSize ELSE got[e].units[1].size) - Len(got[e].units)
           V(k) == got[e].units \o SubSeq(chan[e], 1, k)
           F(k) == IF rpc[e] = "header" THEN CollectFds(got[e].fds, SubSeq(chan[e], 1, k)) ELSE got[e].fds
           G(k) == [units |-> V(k), fds |-> F(k)]
<1>0. Types /\ SendsLocked /\ ReaderAt /\ InOrder /\ LastUnfinished /\ GoesOn /\ intact
  BY Zenon DEF StreamInv
<1>1. /\ sockType = "UNIX" /\ rpc[e] \in {"header", "body"} /\ sockType' = sockType /\ open' = open /\ pc' = pc
      /\ msg' = msg /\ left' = left
  BY Zenon DEF SockUNIX_recvMsg
<1>2. PICK n \in 1..want :
          /\ n <= Len(chan[e]) /\ chan' = [chan EXCEPT ![e] = SubSeq(@, n + 1, Len(@))]
          /\ IF \/ rpc[e] = "header" /\ Len(G(n).units) = HdrSize /\ G(n).units[1].size = HdrSize
                \/ rpc[e] = "body" /\ n = want
             THEN Deliver(e, G(n))
             ELSE /\ got' = [got EXCEPT ![e] = G(n)]
                  /\ rpc' = [rpc EXCEPT ![e] = IF Len(G(n).units) >= HdrSize THEN "body" ELSE "header"]
                  /\ intact' = intact /\ mutex' = mutex
  BY Zenon DEF SockUNIX_recvMsg
<1>3. PICK v, f, g, k, w : v = V(n) /\ f = F(n) /\ g = [units |-> v, fds |-> f] /\ k = Len(got[e].units) /\ w = want
  BY Zenon
<1>4. g = G(n) /\ g.units = v /\ g.fds = f
  BY <1>3, Zenon
<1>5. /\ n \in 1..w /\ n <= Len(chan[e])
      /\ IF \/ rpc[e] = "header" /\ Len(v) = HdrSize /\ v[1].size = HdrSize
            \/ rpc[e] = "body" /\ n = w
         THEN Deliver(e, g)
         ELSE /\ got' = [got EXCEPT ![e] = g]
              /\ rpc' = [rpc EXCEPT ![e] = IF Len(v) >= HdrSize THEN "body" ELSE "header"]
              /\ intact' = intact /\ mutex' = mutex
  BY <1>2, <1>3, <1>4, Zenon
<1>6. HdrSize = 1
  BY Zenon DEF SendersApart
<1>7. w = (IF rpc[e] = "header" THEN HdrSize ELSE got[e].units[1].size) - k
  BY <1>3, Zenon
<1>8. v = got[e].units \o SubSeq(chan[e], 1, n)
  BY <1>3, Zenon
<1>9. f = IF rpc[e] = "header" THEN CollectFds(got[e].fds, SubSeq(chan[e], 1, n)) ELSE got[e].fds
  BY <1>3, Zenon
<1> HIDE DEF want, V, F, G
<1>10. PICK l, x : l = Len(chan[e]) /\ x = UnitAt(e, 1).size
  BY Zenon
<1>11. k \in Nat /\ l \in Nat /\ StreamLen(e) = k + l /\ Ordered(e)
  BY <1>0, <1>3, <1>10, StreamTypes, Zenon DEF StreamLen, InOrder
<1>12. n \in Nat /\ n >= 1 /\ w \in Int
  <2>1. got[e].units[1].size \in Int \/ rpc[e] = "header"
    <3> SUFFICES ASSUME rpc[e] # "header" PROVE got[e].units[1].size \in Int
      OBVIOUS
    <3>1. PICK u : u = got[e].units
      BY Zenon
    <3>2. u \in Seq(Units) /\ Len(u) >= 1
      BY <1>0, <1>1, <3>1, StreamTypes, Zenon DEF ReaderAt, ReaderOf
    <3> QED
      <4>1. u[1] \in Units
        BY <3>2
      <4> QED
        BY <3>1, <4>1 DEF Units
  <2>2. PICK y : y = (IF rpc[e] = "header" THEN HdrSize ELSE got[e].units[1].size)
    BY Zenon
  <2>3. y \in Int /\ w = y - k
    BY <1>6, <1>7, <2>1, <2>2
  <2> QED
    BY <1>5, <1>11, <2>3
<1>13. 1 \in 1..StreamLen(e) /\ n \in 1..l /\ n \in 0..l
  BY <1>5, <1>10, <1>11, <1>12
<1>14. x \in Nat /\ x >= 1 /\ UnitAt(e, 1).idx = 1
  BY <1>0, <1>10, <1>11, <1>13, OrderOf, UnitTypes
<1>15. /\ v \in Seq(Units) /\ Len(v) = k + n /\ Len(v) <= StreamLen(e) /\ \A i \in 1..Len(v) : v[i] = UnitAt(e, i)
  BY <1>0, <1>3, <1>8, <1>10, <1>13, Reading, Zenon
<1>16. v[1] = UnitAt(e, 1)
  BY <1>11, <1>12, <1>15
<1>17. /\ rpc[e] = "header" => k = 0 /\ n = 1 /\ w = 1
       /\ rpc[e] = "body" => k >= 1 /\ k < x /\ w = x - k
       /\ f = [count |-> UnitAt(e, 1).fds, valid |-> UnitAt(e, 1).fds]
  <2>1. CASE rpc[e] = "header"
    <3>1. got[e] = Nothing /\ rpc[e] # "body"
      BY <1>0, <2>1 DEF ReaderAt, ReaderOf
    <3>2. Len(Nothing.units) = 0
      BY DEF Nothing
    <3>3. k = 0
      BY <1>3, <3>1, <3>2, Zenon
    <3>4. w = 1
      BY <1>6, <1>7, <2>1, <3>3
    <3>5. n = 1
      BY <1>5, <3>4
    <3>6. f = [count |-> UnitAt(e, 1).fds, valid |-> UnitAt(e, 1).fds]
      BY <1>0, <1>9, <1>10, <1>13, <2>1, <3>1, Collected, Zenon
    <3> QED
      BY <3>1, <3>3, <3>4, <3>5, <3>6, Zenon
  <2>2. CASE rpc[e] = "body"
    <3>1. /\ k >= 1 /\ k < got[e].units[1].size
          /\ got[e].fds.count = got[e].units[1].fds /\ got[e].fds.valid = got[e].units[1].fds
      BY <1>0, <1>3, <2>2, Zenon DEF ReaderAt, ReaderOf
    <3>2. got[e].units[1] = UnitAt(e, 1)
      BY <1>3, <3>1, UnitIs, Zenon
    <3>3. got[e].fds \in [count : Nat, valid : Nat]
      BY <1>0 DEF Types
    <3>4. got[e].fds = [count |-> got[e].fds.count, valid |-> got[e].fds.valid]
      BY <3>3
    <3>5. rpc[e] # "header"
      BY <2>2
    <3> QED
      BY <1>7, <1>9, <1>10, <3>1, <3>2, <3>4, <3>5, Zenon
  <2> QED
    BY <1>1, <2>1, <2>2
<1>18. /\ f.count = UnitAt(e, 1).fds /\ f.valid = UnitAt(e, 1).fds
       /\ g \in [units : Seq(Units), fds : [count : Nat, valid : Nat]]
  <2>1. UnitAt(e, 1).fds \in Nat
    BY <1>0, <1>13, UnitTypes, Zenon
  <2>2. f.count = UnitAt(e, 1).fds /\ f.valid = UnitAt(e, 1).fds /\ f \in [count : Nat, valid : Nat]
    BY <1>17, <2>1, Zenon
  <2> QED
    BY <1>3, <1>15, <2>2, Zenon
<1>19. CASE k + n = x
  <2>0. chan' = [chan EXCEPT ![e] = SubSeq(@, n + 1, Len(@))]
    BY <1>2, Zenon
  <2>1. Deliver(e, g)
    <3>1. CASE rpc[e] = "header"
      BY <1>5, <1>6, <1>10, <1>15, <1>16, <1>17, <1>19, <3>1
    <3>2. CASE rpc[e] = "body"
      <4>1. n = w
        BY <1>11, <1>12, <1>14, <1>17, <1>19, <3>2
      <4> QED
        BY <1>5, <3>2, <4>1, Zenon
    <3> QED
      BY <1>1, <3>1, <3>2
  <2>2. Whole(g)
    <3>1. k + n >= 1
      BY <1>11, <1>12
    <3>2. Len(g.units) = UnitAt(e, 1).size /\ Len(g.units) >= 1
      BY <1>4, <1>10, <1>15, <1>19, <3>1, Zenon
    <3> QED
      BY <1>0, <1>4, <1>11, <1>15, <1>18, <3>2, WholeIs, Zenon
  <2>3. got' = [got EXCEPT ![e] = Nothing]
    BY <2>1, Zenon DEF Deliver
  <2>4. x = Len(got[e].units) + n
    BY <1>3, <1>19, Zenon
  <2>5. n \in 0..Len(chan[e])
    BY <1>10, <1>13, Zenon
  <2>6. /\ chan' \in [Ends -> Seq(Units)]
        /\ StreamLen(e)' = StreamLen(e) - x /\ x <= StreamLen(e)
        /\ \A c \in Ends \ {e} : chan'[c] = chan[c]
    BY <1>0, <2>0, <2>3, <2>4, <2>5, Delivered, Zenon
  <2>7. \A i \in 1..StreamLen(e) - x : UnitAt(e, i)' = UnitAt(e, x + i)
    BY <1>0, <2>0, <2>3, <2>4, <2>5, DeliveredUnits, Zenon
  <2>8. x \in 1..StreamLen(e)
    BY <1>11, <1>14, <2>6
  <2> QED
    BY <1>1, <1>10, <2>1, <2>2, <2>6, <2>7, <2>8, DeliverKeeps, Zenon
<1>20. CASE k + n # x
  <2>1. k + n < x
    BY <1>5, <1>11, <1>12, <1>14, <1>17, <1>20, <1>1
  <2>2. ~(\/ rpc[e] = "header" /\ Len(v) = HdrSize /\ v[1].size = HdrSize
          \/ rpc[e] = "body" /\ n = w)
    BY <1>1, <1>6, <1>10, <1>11, <1>12, <1>14, <1>16, <1>17, <1>20
  <2>3. Len(v) >= HdrSize
    BY <1>6, <1>11, <1>12, <1>15
  <2>4. /\ got' = [got EXCEPT ![e] = g] /\ rpc' = [rpc EXCEPT ![e] = "body"] /\ intact' = intact /\ mutex' = mutex
        /\ chan' = [chan EXCEPT ![e] = SubSeq(@, n + 1, Len(@))]
    BY <1>2, <1>5, <2>2, <2>3, Zenon
  <2>5. g.units = got[e].units \o SubSeq(chan[e], 1, n) /\ n \in 0..Len(chan[e])
    BY <1>4, <1>8, <1>10, <1>13, Zenon
  <2>6. /\ chan' \in [Ends -> Seq(Units)]
        /\ got' \in [Ends -> [units : Seq(Units), fds : [count : Nat, valid : Nat]]]
        /\ \A c \in Ends : StreamLen(c)' = StreamLen(c) /\ \A i \in 1..StreamLen(c) : UnitAt(c, i)' = UnitAt(c, i)
    BY <1>0, <1>18, <2>4, <2>5, Taken, Zenon
  <2>7. Types'
    BY <1>0, <1>1, <2>4, <2>6 DEF Types
  <2>8. SendsLocked'
    BY <1>0, <1>1, <2>4, Zenon DEF SendsLocked
  <2>9. ReaderAt'
    <3>1. /\ rpc'[e] = "body" /\ got'[e] = g
          /\ \A c \in Ends \ {e} : rpc'[c] = rpc[c] /\ got'[c] = got[c]
      BY <1>0, <2>4, Zenon DEF Types
    <3>2. /\ Len(g.units) >= 1 /\ Len(g.units) < g.units[1].size
          /\ g.fds.count = g.units[1].fds /\ g.fds.valid = g.units[1].fds /\ sockType' = "UNIX"
      BY <1>1, <1>4, <1>6, <1>10, <1>15, <1>16, <1>18, <2>1, <2>3, Zenon
    <3>3. \A c \in Ends \ {e} : ReaderOf(c)'
      BY <1>0, <1>1, <3>1, Zenon DEF ReaderAt, ReaderOf
    <3> QED
      BY <3>1, <3>2, <3>3, Zenon DEF ReaderAt, ReaderOf
  <2>10. InOrder'
    BY <1>0, <2>6, SameOrder, Zenon DEF InOrder
  <2>11. LastUnfinished' /\ GoesOn'
    <3>1. \A s \in Threads : pc[s] = "send" => pc'[s] = "send" /\ msg'[s] = msg[s] /\ left'[s] = left[s]
      BY <1>1, Zenon
    <3>2. \A s \in Threads : pc'[s] = "send" /\ left'[s] < msg'[s].size => pc[s] = "send"
      BY <1>1, Zenon
    <3>3. \A c \in Ends : ~open[c] => ~open'[c]
      BY <1>1, Zenon
    <3> QED
      BY <1>0, <1>1, <2>6, <3>1, <3>2, <3>3, Quiet, Zenon
  <2> QED
    BY <1>0, <2>4, <2>7, <2>8, <2>9, <2>10, <2>11, Zenon DEF StreamInv
<1> QED
  BY <1>19, <1>20, Zenon

(* SockQMSGQ_recv takes a message as it was sent.                          *)
LEMMA QMSGQRecvKeeps ==
    ASSUME SendersApart, StreamInv, NEW e \in Ends, SockQMSGQ_recv(e)
    PROVE  StreamInv'
<1>0. Types /\ SendsLocked /\ ReaderAt /\ InOrder /\ LastUnfinished /\ GoesOn /\ intact
  BY Zenon DEF StreamInv
<1>1. /\ sockType = "QMSGQ" /\ rpc[e] = "header" /\ chan[e] # <<>> /\ sockType' = sockType /\ open' = open
      /\ pc' = pc /\ msg' = msg /\ left' = left
  BY Zenon DEF SockQMSGQ_recv
<1>2. PICK n, f, g : /\ n = chan[e][1].size /\ f = [count |-> chan[e][1].fds, valid |-> chan[e][1].fds]
                     /\ g = [units |-> SubSeq(chan[e], 1, n), fds |-> f]
  BY Zenon
<1>3. Deliver(e, g) /\ chan' = [chan EXCEPT ![e] = SubSeq(@, n + 1, Len(@))]
  BY <1>2, Zenon DEF SockQMSGQ_recv
<1>4. got[e] = Nothing
  BY <1>0, <1>1 DEF ReaderAt, ReaderOf
<1>5. Nothing.units = <<>> /\ Len(Nothing.units) = 0
  BY DEF Nothing
<1>6. PICK c : c = chan[e]
  BY Zenon
<1>7. c \in Seq(Units) /\ Len(c) \in Nat /\ Len(c) >= 1 /\ StreamLen(e) = 0 + Len(c) /\ Ordered(e)
  <2>1. c \in Seq(Units) /\ StreamLen(e) = 0 + Len(c) /\ Ordered(e) /\ c # <<>>
    BY <1>0, <1>1, <1>4, <1>5, <1>6, StreamTypes, Zenon DEF StreamLen, InOrder
  <2> QED
    BY <2>1
<1>8. 1 \in 1..StreamLen(e) /\ 1 \in 1..Len(chan[e])
  BY <1>6, <1>7
<1>9. UnitAt(e, 1) = chan[e][1] /\ UnitAt(e, 1).fds \in Nat
  BY <1>0, <1>4, <1>8, Collected, Zenon
<1>10. UnitAt(e, 1).idx = 1 /\ n \in Nat /\ n >= 1 /\ n = UnitAt(e, 1).size /\ Rest(e, 1) = n - 1
  <2>1. UnitAt(e, 1).idx = 1 /\ n = UnitAt(e, 1).size /\ n \in Nat /\ 1 <= n /\ Rest(e, 1) = n - 1
    BY <1>0, <1>2, <1>7, <1>8, <1>9, OrderOf, UnitTypes, Zenon
  <2> QED
    BY <2>1
<1>11. n <= StreamLen(e)
  <2>1. ~(1 + Rest(e, 1) > StreamLen(e))
    BY <1>0, <1>1, <1>8 DEF LastUnfinished
  <2> QED
    BY <1>7, <1>10, <2>1
<1>12. n \in 0..Len(chan[e]) /\ n \in 1..StreamLen(e) /\ n = Len(got[e].units) + n
  <2>1. n \in 0..Len(c) /\ n \in 1..StreamLen(e) /\ n = 0 + n
    BY <1>7, <1>10, <1>11
  <2> QED
    BY <1>4, <1>5, <1>6, <2>1, Zenon
<1>13. Whole(g)
  <2>1. PICK v : v = SubSeq(c, 1, n)
    BY Zenon
  <2>2. v \in Seq(Units) /\ Len(v) = n /\ \A i \in 1..n : v[i] = c[i]
    BY <1>6, <1>7, <1>12, <2>1, Cut
  <2>3. ASSUME NEW i \in 1..n PROVE v[i] = UnitAt(e, i)
    <3>1. ~(i <= Len(got[e].units)) /\ i - Len(got[e].units) = i
      BY <1>4, <1>5, <1>10
    <3> QED
      BY <1>6, <2>2, <3>1, UnitIs, Zenon
  <2>4. g.units = v /\ g.fds = f /\ f.count = chan[e][1].fds /\ f.valid = chan[e][1].fds
    BY <1>2, <1>6, <2>1, Zenon
  <2> QED
    BY <1>0, <1>7, <1>9, <1>10, <1>11, <2>2, <2>3, <2>4, WholeIs, Zenon
<1>14. got' = [got EXCEPT ![e] = Nothing]
  BY <1>3, Zenon DEF Deliver
<1>15. /\ chan' \in [Ends -> Seq(Units)] /\ StreamLen(e)' = StreamLen(e) - n
       /\ \A d \in Ends \ {e} : chan'[d] = chan[d]
  BY <1>0, <1>3, <1>12, <1>14, Delivered, Zenon
<1>16. \A i \in 1..StreamLen(e) - n : UnitAt(e, i)' = UnitAt(e, n + i)
  BY <1>0, <1>3, <1>12, <1>14, DeliveredUnits, Zenon
<1> QED
  BY <1>1, <1>3, <1>10, <1>12, <1>13, <1>15, <1>16, DeliverKeeps, Zenon

(* A send puts units at the end of its peer's stream.  Its thread alone    *)
(* may have left a message of that stream unfinished.                      *)
LEMMA UnfinishedIsMine ==
    ASSUME SendersApart, StreamInv, NEW t \in Threads, pc[t] = "send", NEW to \in Ends, Peer(to) = EndOf(t),
           \A c \in Ends : open[c], NEW i \in 1..StreamLen(to), i + Rest(to, i) > StreamLen(to)
    PROVE  /\ UnitAt(to, i).by = t /\ UnitAt(to, i).size = msg[t].size
           /\ left[t] = Rest(to, i) - (StreamLen(to) - i)
<1>0. Types /\ SendsLocked /\ LastUnfinished
  BY Zenon DEF StreamInv
<1>1. to \in Ends /\ EndOf(t) \in Ends /\ Peer(EndOf(t)) = to
  BY EndsOfThreads, Zenon
<1>2. PICK s : s = UnitAt(to, i).by
  BY Zenon
<1>3. s \in Threads
  BY <1>0, <1>1, <1>2, UnitTypes, Zenon
<1>4. /\ pc[s] = "send" /\ EndOf(s) = Peer(to) /\ msg[s].size = UnitAt(to, i).size
      /\ left[s] = Rest(to, i) - (StreamLen(to) - i)
  BY <1>0, <1>1, <1>2, Zenon DEF LastUnfinished
<1>5. s = t
  BY <1>0, <1>1, <1>3, <1>4, Zenon DEF SendsLocked
<1> QED
  BY <1>2, <1>4, <1>5, Zenon

(* ... and every other message of it is whole: it ends before the last     *)
(* unit, when the thread is in the middle of its message.                  *)
LEMMA FinishedBefore ==
    ASSUME SendersApart, StreamInv, NEW t \in Threads, pc[t] = "send", left[t] < msg[t].size,
           NEW to \in Ends, Peer(to) = EndOf(t), \A c \in Ends : open[c], NEW i \in 1..StreamLen(to)
    PROVE  i + Rest(to, i) # StreamLen(to)
<1>0. Types /\ SendsLocked /\ GoesOn /\ InOrder
  BY Zenon DEF StreamInv
<1>1. to \in Ends /\ Peer(EndOf(t)) = to
  BY EndsOfThreads, Zenon
<1>2. StreamLen(to) \in Nat /\ Ordered(to)
  BY <1>0, <1>1, StreamTypes, Zenon DEF InOrder
<1>3. PICK N, x, y : N = StreamLen(to) /\ x = left[t] /\ y = msg[t].size
  BY Zenon
<1>4. x \in 1..y /\ x \in Nat /\ y \in Nat
  BY <1>0, <1>3 DEF SendsLocked, Types
<1>5. N >= 1 /\ UnitAt(to, N).size = y /\ UnitAt(to, N).idx = y - x
  BY <1>0, <1>1, <1>3, Zenon DEF GoesOn
<1>6. N \in 1..N /\ i \in 1..N /\ N \in Nat
  BY <1>2, <1>3, <1>5
<1> SUFFICES ASSUME i + Rest(to, i) = N PROVE FALSE
  BY <1>3, Zenon
<1>7. PICK a, b : a = UnitAt(to, i).idx /\ b = UnitAt(to, i).size
  BY Zenon
<1>8. a \in Nat /\ b \in Nat /\ Rest(to, i) = b - a
  BY <1>0, <1>1, <1>3, <1>6, <1>7, UnitTypes, Zenon
<1>9. CASE i = N
  <2>1. a = y - x /\ b = y
    BY <1>5, <1>7, <1>9, Zenon
  <2> QED
    BY <1>4, <1>6, <1>8, <1>9, <2>1
<1>10. CASE i # N
  <2>1. i < N /\ N - i <= Rest(to, i)
    BY <1>6, <1>8, <1>10
  <2>2. UnitAt(to, N).size = b /\ UnitAt(to, N).idx = a + (N - i)
    <3>1. N \in 1..StreamLen(to) /\ i \in 1..StreamLen(to)
      BY <1>3, <1>6, Zenon
    <3>2. UnitAt(to, N).size = UnitAt(to, i).size /\ UnitAt(to, N).idx = UnitAt(to, i).idx + (N - i)
      BY <1>1, <1>2, <2>1, <3>1, OrderOf, Zenon
    <3> QED
      BY <1>7, <3>2, Zenon
  <2>3. b = y /\ a + (N - i) = y - x
    BY <1>5, <2>2, Zenon
  <2> QED
    BY <1>4, <1>6, <1>8, <2>3
<1> QED
  BY <1>9, <1>10, Zenon

(* A stream with the next piece of its last message after it is in order.  *)
LEMMA Longer ==
    ASSUME Types, NEW e \in Ends, Ordered(e), NEW n \in Nat, StreamLen(e)' = StreamLen(e) + n,
           NEW t, NEW S \in Nat, NEW L \in 1..S, n <= L, StreamLen(e) = 0 => L = S,
           \A i \in 1..StreamLen(e) : UnitAt(e, i)' = UnitAt(e, i),
           \A i \in StreamLen(e)+1..StreamLen(e)+n :
               UnitAt(e, i)'.by = t /\ UnitAt(e, i)'.size = S /\ UnitAt(e, i)'.idx = (S - L) + (i - StreamLen(e)),
           \A i \in 1..StreamLen(e) :
               \/ i + Rest(e, i) < StreamLen(e)
               \/ i + Rest(e, i) = StreamLen(e) /\ L = S
               \/ UnitAt(e, i).by = t /\ UnitAt(e, i).size = S /\ L = Rest(e, i) - (StreamLen(e) - i)
    PROVE  Ordered(e)'
<1>0. PICK N : N = StreamLen(e)
  BY Zenon
<1>7. /\ N \in Nat /\ (N = 0 => L = S) /\ StreamLen(e)' = N + n
      /\ \A i \in 1..N : UnitAt(e, i)' = UnitAt(e, i)
      /\ \A i \in N+1..N+n : UnitAt(e, i)'.by = t /\ UnitAt(e, i)'.size = S /\ UnitAt(e, i)'.idx = (S - L) + (i - N)
  BY <1>0, StreamTypes, Zenon
<1>8. \A i \in 1..N : \/ i + Rest(e, i) < N
                      \/ i + Rest(e, i) = N /\ L = S
                      \/ UnitAt(e, i).by = t /\ UnitAt(e, i).size = S /\ L = Rest(e, i) - (N - i)
  BY <1>0, Zenon
<1> SUFFICES ASSUME NEW i \in (1..StreamLen(e))', NEW j \in (1..StreamLen(e))'
             PROVE  /\ UnitAt(e, i)'.idx >= 1 /\ UnitAt(e, i)'.idx <= UnitAt(e, i)'.size
                    /\ i = 1 => UnitAt(e, i)'.idx = 1
                    /\ i < j /\ j - i <= Rest(e, i)' =>
                          /\ UnitAt(e, j)'.by = UnitAt(e, i)'.by /\ UnitAt(e, j)'.size = UnitAt(e, i)'.size
                          /\ UnitAt(e, j)'.idx = UnitAt(e, i)'.idx + (j - i)
                    /\ j - i = Rest(e, i)' + 1 => UnitAt(e, j)'.idx = 1
  BY Zenon DEF Ordered
<1>9. N \in Nat /\ (N = 0 => L = S)
  BY <1>7, Zenon
<1>1. i \in 1..N + n /\ j \in 1..N + n
  BY <1>7, Zenon
<1>2. PICK a, b, w, ja, jb, jw : /\ a = UnitAt(e, i)'.idx /\ b = UnitAt(e, i)'.size /\ w = UnitAt(e, i)'.by
                                 /\ ja = UnitAt(e, j)'.idx /\ jb = UnitAt(e, j)'.size /\ jw = UnitAt(e, j)'.by
  BY Zenon
<1>3. Rest(e, i)' = b - a
  BY <1>2, Zenon DEF Rest
<1>4. ASSUME NEW k \in 1..N PROVE k \in 1..StreamLen(e) /\ UnitAt(e, k)' = UnitAt(e, k) /\ UnitAt(e, k).idx \in Nat /\ UnitAt(e, k).size \in Nat
  <2>1. k \in 1..StreamLen(e)
    BY <1>0, Zenon
  <2> QED
    BY <2>1, UnitTypes, Zenon
<1>5. CASE i <= N
  <2>1. i \in 1..N
    BY <1>1, <1>5, <1>9
  <2>2. /\ a = UnitAt(e, i).idx /\ b = UnitAt(e, i).size /\ w = UnitAt(e, i).by /\ a \in Nat /\ b \in Nat
        /\ i \in 1..StreamLen(e)
    BY <1>2, <1>4, <2>1, Zenon
  <2>3. Rest(e, i) = b - a
    BY <2>2, Zenon DEF Rest
  <2>4. a >= 1 /\ a <= b /\ (i = 1 => a = 1)
    BY <2>2, OrderOf, Zenon
  <2>5. CASE j <= N
    <3>1. j \in 1..N
      BY <1>1, <1>9, <2>5
    <3>2. /\ ja = UnitAt(e, j).idx /\ jb = UnitAt(e, j).size /\ jw = UnitAt(e, j).by /\ j \in 1..StreamLen(e)
      BY <1>2, <1>4, <3>1, Zenon
    <3>3. /\ i < j /\ j - i <= Rest(e, i) =>
                /\ UnitAt(e, j).by = UnitAt(e, i).by /\ UnitAt(e, j).size = UnitAt(e, i).size
                /\ UnitAt(e, j).idx = UnitAt(e, i).idx + (j - i)
          /\ j - i = Rest(e, i) + 1 => UnitAt(e, j).idx = 1
      BY <2>2, <3>2, OrderOf, Zenon
    <3>4. /\ i < j /\ j - i <= b - a => jw = w /\ jb = b /\ ja = a + (j - i)
          /\ j - i = (b - a) + 1 => ja = 1
      BY <2>2, <2>3, <3>2, <3>3, Zenon
    <3> QED
      BY <1>2, <1>3, <2>4, <3>4, Zenon
  <2>6. CASE ~(j <= N)
    <3>1. j \in N+1..N+n
      BY <1>1, <1>9, <2>6
    <3>2. jw = t /\ jb = S /\ ja = (S - L) + (j - N)
      BY <1>2, <1>7, <3>1, Zenon
    <3>3. \/ i + (b - a) < N
          \/ i + (b - a) = N /\ L = S
          \/ w = t /\ b = S /\ L = (b - a) - (N - i)
      BY <1>8, <2>1, <2>2, <2>3, Zenon
    <3>4. /\ i < j /\ j - i <= b - a => jw = w /\ jb = b /\ ja = a + (j - i)
          /\ j - i = (b - a) + 1 => ja = 1
      <4>1. CASE i + (b - a) < N
        BY <1>9, <2>1, <2>2, <3>1, <4>1
      <4>2. CASE i + (b - a) = N /\ L = S
        <5>1. ~(j - i <= b - a)
          BY <1>9, <2>1, <2>2, <3>1, <4>2
        <5>2. ASSUME j - i = (b - a) + 1 PROVE j - N = 1
          BY <1>9, <2>1, <2>2, <3>1, <4>2, <5>2
        <5>3. (S - L) + 1 = 1
          BY <1>9, <4>2
        <5> QED
          BY <3>2, <5>1, <5>2, <5>3, Zenon
      <4>3. CASE w = t /\ b = S /\ L = (b - a) - (N - i)
        <5>1. a = S - L - N + i
          BY <1>9, <2>1, <2>2, <4>3
        <5>2. ja = a + (j - i)
          BY <1>9, <2>1, <2>2, <3>1, <3>2, <5>1
        <5>3. j - i # (b - a) + 1
          BY <1>9, <2>1, <2>2, <3>1, <4>3
        <5> QED
          BY <3>2, <4>3, <5>2, <5>3, Zenon
      <4> QED
        BY <3>3, <4>1, <4>2, <4>3, Zenon
    <3> QED
      BY <1>2, <1>3, <2>4, <3>4, Zenon
  <2> QED
    BY <2>5, <2>6, Zenon
<1>6. CASE ~(i <= N)
  <2>1. i \in N+1..N+n
    BY <1>1, <1>6, <1>9
  <2>2. w = t /\ b = S /\ a = (S - L) + (i - N)
    BY <1>2, <1>7, <2>1, Zenon
  <2>3. a >= 1 /\ a <= b /\ (i = 1 => a = 1)
    BY <1>9, <2>1, <2>2
  <2>4. CASE j <= N
    <3>1. ~(i < j) /\ j - i # (b - a) + 1
      BY <1>9, <1>1, <1>6, <2>2, <2>3, <2>4
    <3> QED
      BY <1>2, <1>3, <2>3, <3>1, Zenon
  <2>5. CASE ~(j <= N)
    <3>1. j \in N+1..N+n
      BY <1>1, <1>9, <2>5
    <3>2. jw = t /\ jb = S /\ ja = (S - L) + (j - N)
      BY <1>2, <1>7, <3>1, Zenon
    <3>3. /\ i < j /\ j - i <= b - a => jw = w /\ jb = b /\ ja = a + (j - i)
          /\ j - i # (b - a) + 1
      BY <1>9, <2>1, <2>2, <3>1, <3>2
    <3> QED
      BY <1>2, <1>3, <2>3, <3>3, Zenon
  <2> QED
    BY <2>4, <2>5, Zenon
<1> QED
  BY <1>5, <1>6, Zenon

(* A step that sends a piece of a message.                                 *)
LEMMA PieceSent ==
    ASSUME SendersApart, StreamInv, NEW t \in Threads, NEW to \in Ends, NEW n, NEW f, PieceStep(t, to, n, f)
    PROVE  StreamInv'
<1>0. Types /\ SendsLocked /\ ReaderAt /\ InOrder /\ LastUnfinished /\ GoesOn /\ intact
  BY Zenon DEF StreamInv
<1>a. pc[t] = "send" /\ Peer(to) = EndOf(t) /\ \A c \in Ends : open[c]
  BY Zenon DEF PieceStep
<1>b. n \in 1..left[t] /\ (sockType = "UNIX" \/ n = left[t]) /\ f = msg[t].size - left[t] + 1
  BY Zenon DEF PieceStep
<1>c. left' = [left EXCEPT ![t] = @ - n] /\ msg' = msg
  BY Zenon DEF PieceStep
<1>d. IF n = left[t] THEN SendReturns(t, "done") ELSE pc' = pc /\ mutex' = mutex
  BY Zenon DEF PieceStep
<1>e. sockType' = sockType /\ open' = open /\ rpc' = rpc /\ intact' = intact
  BY Zenon DEF PieceStep
<1>f. got' = got
  BY Zenon DEF PieceStep
<1>1. EndOf(t) \in Ends /\ Peer(EndOf(t)) = to /\ EndOf(t) # to
  BY <1>a, EndsOfThreads, Zenon
<1>2. PICK N, S, L : N = StreamLen(to) /\ S = msg[t].size /\ L = left[t]
  BY Zenon
<1>3. S \in Nat /\ L \in 1..S /\ n \in 1..L /\ n \in Nat /\ f = S - L + 1 /\ f \in Nat \ {0}
  <2>1. S \in Nat /\ L \in 1..S /\ n \in 1..L /\ f = S - L + 1
    BY <1>0, <1>2, <1>a, <1>b DEF SendsLocked, Types
  <2> QED
    BY <2>1
<1>4. N \in Nat /\ Ordered(to)
  BY <1>0, <1>2, StreamTypes, Zenon DEF InOrder
<1>k. f \in Nat \ {0} /\ n \in Nat
  BY <1>3, Zenon
<1>g. PICK p \in Seq(Units) : p = Piece(t, f, f + n - 1) /\ Len(p) = n /\ Numbered(p, t, f, n)
  BY <1>0, <1>k, PieceUnits, Zenon
<1>h. chan' = [chan EXCEPT ![to] = @ \o p]
  BY <1>g, Zenon DEF PieceStep
<1>i. p \in Seq(Units) /\ Len(p) = n
  BY <1>g, Zenon
<1>j. \A i \in 1..n : p[i].by = t /\ p[i].idx = f + i - 1 /\ p[i].size = msg[t].size
  BY <1>g, Zenon DEF Numbered
<1>5. chan' \in [Ends -> Seq(Units)] /\ StreamLen(to)' = N + n
  <2>1. chan' \in [Ends -> Seq(Units)] /\ StreamLen(to)' = StreamLen(to) + Len(p)
    BY <1>0, <1>f, <1>h, <1>i, Appended, Zenon
  <2> QED
    BY <1>2, <1>i, <2>1, Zenon
<1>6. \A i \in 1..N : UnitAt(to, i)' = UnitAt(to, i)
  <2>1. \A i \in 1..StreamLen(to) : UnitAt(to, i)' = UnitAt(to, i)
    BY <1>0, <1>f, <1>h, <1>i, Appended, Zenon
  <2> QED
    BY <1>2, <2>1, Zenon
<1>7. \A c \in Ends \ {to} : StreamLen(c)' = StreamLen(c) /\ \A i : UnitAt(c, i)' = UnitAt(c, i)
  <2>1. ASSUME NEW c \in Ends \ {to} PROVE chan'[c] = chan[c] /\ got'[c] = got[c]
    BY <1>0, <1>f, <1>h, Zenon DEF Types
  <2>2. ASSUME NEW c \in Ends \ {to} PROVE StreamLen(c)' = StreamLen(c)
    BY <2>1, Zenon DEF StreamLen
  <2>3. ASSUME NEW c \in Ends \ {to}, NEW i PROVE UnitAt(c, i)' = UnitAt(c, i)
    BY <2>1, Zenon DEF UnitAt
  <2> QED
    BY <2>2, <2>3, Zenon
<1>8. ASSUME NEW i \in N+1..N+n
      PROVE  /\ UnitAt(to, i)'.by = t /\ UnitAt(to, i)'.size = S /\ UnitAt(to, i)'.idx = (S - L) + (i - N)
             /\ Rest(to, i)' = L - (i - N)
  <2>0. \A k \in StreamLen(to)+1..StreamLen(to)+Len(p) : UnitAt(to, k)' = p[k - StreamLen(to)]
    BY <1>0, <1>f, <1>h, <1>i, Appended, Zenon
  <2>1. PICK r : r = i - N
    BY Zenon
  <2>2. r \in 1..n /\ N + r = i
    BY <1>3, <1>4, <2>1
  <2>3. f + r - 1 = (S - L) + r /\ S - ((S - L) + r) = L - r
    BY <1>3, <2>2
  <2>4. UnitAt(to, i)' = p[i - N]
    BY <1>2, <1>i, <2>0, Zenon
  <2>5. p[r].by = t /\ p[r].size = S /\ p[r].idx = f + r - 1
    BY <1>2, <1>j, <2>2, Zenon
  <2>6. UnitAt(to, i)'.by = t /\ UnitAt(to, i)'.size = S /\ UnitAt(to, i)'.idx = f + r - 1
    BY <2>1, <2>4, <2>5, Zenon
  <2>7. Rest(to, i)' = S - (f + r - 1)
    BY <2>6, Zenon DEF Rest
  <2> QED
    BY <2>1, <2>3, <2>6, <2>7, Zenon
<1>9. ASSUME NEW i \in 1..N
      PROVE  \/ i + Rest(to, i) < N
             \/ i + Rest(to, i) = N /\ L = S
             \/ UnitAt(to, i).by = t /\ UnitAt(to, i).size = S /\ L = Rest(to, i) - (N - i)
  <2>1. i \in 1..StreamLen(to) /\ Rest(to, i) \in Int
    BY <1>0, <1>1, <1>2, UnitTypes, Zenon
  <2>2. CASE i + Rest(to, i) > N
    <3>1. i + Rest(to, i) > StreamLen(to)
      BY <1>2, <2>2, Zenon
    <3>2. /\ UnitAt(to, i).by = t /\ UnitAt(to, i).size = msg[t].size
          /\ left[t] = Rest(to, i) - (StreamLen(to) - i)
      <4>1. UnitAt(to, i).by = t
        BY <1>a, <2>1, <3>1, UnfinishedIsMine, Zenon
      <4>2. UnitAt(to, i).size = msg[t].size
        BY <1>a, <2>1, <3>1, UnfinishedIsMine
      <4>3. left[t] = Rest(to, i) - (StreamLen(to) - i)
        BY <1>a, <2>1, <3>1, UnfinishedIsMine
      <4> QED
        BY <4>1, <4>2, <4>3, Zenon
    <3> QED
      BY <1>2, <3>2, Zenon
  <2>3. CASE L < S
    <3>1. i + Rest(to, i) # N
      BY <1>2, <1>a, <2>1, <2>3, FinishedBefore, Zenon
    <3> QED
      BY <1>4, <2>1, <2>2, <3>1
  <2>4. CASE L = S
    BY <1>4, <2>1, <2>2, <2>4
  <2>5. L < S \/ L = S
    BY <1>3
  <2> QED
    BY <2>3, <2>4, <2>5, Zenon
<1>10. L < S => N >= 1 /\ UnitAt(to, N).by = t /\ UnitAt(to, N).size = S /\ UnitAt(to, N).idx = S - L
  <2>1. L < S => left[t] < msg[t].size
    BY <1>2, Zenon
  <2>2. L < S => /\ StreamLen(to) >= 1 /\ UnitAt(to, StreamLen(to)).by = t
                 /\ UnitAt(to, StreamLen(to)).size = msg[t].size
                 /\ UnitAt(to, StreamLen(to)).idx = msg[t].size - left[t]
    BY <1>0, <1>1, <1>a, <2>1, Zenon DEF GoesOn
  <2> QED
    BY <1>2, <2>2, Zenon
<1>11. InOrder'
  <2> SUFFICES ASSUME NEW c \in Ends PROVE Ordered(c)'
    BY Zenon DEF InOrder
  <2>1. CASE c = to
    <3>1. (N = 0 => L = S) /\ n <= L
      BY <1>3, <1>4, <1>10
    <3> QED
      <4>1. Types /\ Ordered(to) /\ n \in Nat /\ S \in Nat /\ L \in 1..S /\ n <= L /\ (StreamLen(to) = 0 => L = S)
        BY <1>0, <1>2, <1>3, <1>4, <3>1, Zenon
      <4>2. StreamLen(to)' = StreamLen(to) + n /\ \A i \in 1..StreamLen(to) : UnitAt(to, i)' = UnitAt(to, i)
        BY <1>2, <1>5, <1>6, Zenon
      <4>3. \A i \in StreamLen(to)+1..StreamLen(to)+n :
               /\ UnitAt(to, i)'.by = t /\ UnitAt(to, i)'.size = S
               /\ UnitAt(to, i)'.idx = (S - L) + (i - StreamLen(to))
        BY <1>2, <1>8, Zenon
      <4>5. \A i \in 1..StreamLen(to) :
               \/ i + Rest(to, i) < StreamLen(to)
               \/ i + Rest(to, i) = StreamLen(to) /\ L = S
               \/ UnitAt(to, i).by = t /\ UnitAt(to, i).size = S /\ L = Rest(to, i) - (StreamLen(to) - i)
        BY <1>2, <1>9, Zenon
      <4>4. Ordered(to)'
        BY <4>1, <4>2, <4>3, <4>5, Longer, Zenon
      <4> QED
        BY <2>1, <4>4, Zenon
  <2>2. CASE c # to
    BY <1>0, <1>7, <2>2, SameOrder, Zenon DEF InOrder
  <2> QED
    BY <2>1, <2>2, Zenon
<1>12. /\ left' \in [Threads -> Nat] /\ left'[t] = L - n /\ \A s \in Threads \ {t} : left'[s] = left[s]
  <2>1. left \in [Threads -> Nat]
    BY <1>0, Zenon DEF Types
  <2>2. L - n \in Nat
    BY <1>3
  <2> QED
    BY <1>2, <1>c, <2>1, <2>2, Zenon
<1>13. /\ SendsLocked' /\ (n # L => pc'[t] = "send") /\ (n = L => pc'[t] = "done")
       /\ pc' \in [Threads -> {"idle", "lock", "send", "done", "failed"}]
       /\ mutex' \in [Ends -> Threads \cup {"reader", "none"}]
       /\ \A s \in Threads \ {t} : pc'[s] = pc[s]
  <2>1. CASE n = L
    <3>1. SendReturns(t, "done") /\ left' = [left EXCEPT ![t] = L - n] /\ "done" \in {"done", "failed"}
      BY <1>2, <1>c, <1>d, <2>1, Zenon
    <3> QED
      BY <1>0, <1>a, <1>c, <1>e, <2>1, <3>1, Returns, Zenon
  <2>2. CASE n # L
    <3>1. pc' = pc /\ mutex' = mutex /\ sockType = "UNIX"
      BY <1>2, <1>b, <1>d, <2>2, Zenon
    <3>2. L - n \in 1..S
      BY <1>3, <2>2
    <3>3. SendsLocked'
      <4> SUFFICES ASSUME NEW s \in Threads
                   PROVE  /\ pc'[s] = "send" => mutex'[EndOf(s)] = s /\ left'[s] \in 1..msg'[s].size
                          /\ pc'[s] = "lock" \/ (pc'[s] = "send" /\ sockType' = "QMSGQ") => left'[s] = msg'[s].size
        BY Zenon DEF SendsLocked
      <4>1. CASE s = t
        <5>1. sockType # "QMSGQ" /\ pc[t] # "lock"
          BY <1>a, <3>1
        <5> QED
          BY <1>0, <1>2, <1>12, <1>a, <1>c, <1>e, <3>1, <3>2, <4>1, <5>1, Zenon DEF SendsLocked
      <4>2. CASE s # t
        BY <1>0, <1>12, <1>c, <1>e, <3>1, <4>2, Zenon DEF SendsLocked
      <4> QED
        BY <4>1, <4>2, Zenon
    <3> QED
      BY <1>0, <1>a, <2>2, <3>1, <3>3, Zenon DEF Types
  <2> QED
    BY <2>1, <2>2, Zenon
<1>14. Types'
  BY <1>0, <1>5, <1>12, <1>13, <1>c, <1>e, <1>f DEF Types
<1>15. ReaderAt'
  BY <1>0, <1>e, <1>f, Zenon DEF ReaderAt, ReaderOf
<1>16. LastUnfinished'
  <2> SUFFICES ASSUME NEW c \in Ends, NEW i \in (1..StreamLen(c))', (i + Rest(c, i) > StreamLen(c))'
               PROVE  /\ sockType' = "UNIX"
                      /\ \/ \E d \in Ends : ~open'[d]
                         \/ LET s == UnitAt(c, i)'.by
                            IN /\ pc'[s] = "send" /\ EndOf(s) = Peer(c) /\ msg'[s].size = UnitAt(c, i)'.size
                               /\ left'[s] = Rest(c, i)' - (StreamLen(c)' - i)
    BY Zenon DEF LastUnfinished
  <2>1. CASE c = to
    <3>1. i \in 1..N + n /\ i + Rest(to, i)' > N + n
      BY <1>5, <2>1, Zenon
    <3>2. /\ UnitAt(to, i)'.by = t /\ UnitAt(to, i)'.size = S /\ L > n
          /\ L - n = Rest(to, i)' - ((N + n) - i)
      <4>1. CASE i <= N
        <5>1. i \in 1..N
          BY <1>3, <1>4, <3>1, <4>1
        <5>2. UnitAt(to, i)' = UnitAt(to, i) /\ i \in 1..StreamLen(to)
          BY <1>2, <1>6, <5>1, Zenon
        <5>3. PICK R : R = Rest(to, i)
          BY Zenon
        <5>4. Rest(to, i)' = R /\ R \in Int
          BY <1>0, <1>1, <5>2, <5>3, UnitTypes, Zenon DEF Rest
        <5>5. i + R > N + n
          BY <3>1, <5>4, Zenon
        <5>6. \/ i + R < N
              \/ i + R = N /\ L = S
              \/ UnitAt(to, i).by = t /\ UnitAt(to, i).size = S /\ L = R - (N - i)
          BY <1>9, <5>1, <5>3, Zenon
        <5>7. ~(i + R < N) /\ i + R # N
          BY <1>3, <1>4, <5>1, <5>4, <5>5
        <5>8. UnitAt(to, i).by = t /\ UnitAt(to, i).size = S /\ L = R - (N - i)
          BY <5>6, <5>7, Zenon
        <5>9. L > n /\ L - n = R - ((N + n) - i)
          BY <1>3, <1>4, <5>1, <5>4, <5>5, <5>8
        <5> QED
          BY <5>2, <5>4, <5>8, <5>9, Zenon
      <4>2. CASE ~(i <= N)
        <5>1. i \in N+1..N+n
          BY <1>3, <1>4, <3>1, <4>2
        <5>2. PICK R : R = Rest(to, i)'
          BY Zenon
        <5>3. R = L - (i - N) /\ i + R > N + n
          BY <1>8, <3>1, <5>1, <5>2, Zenon
        <5>4. L > n /\ L - n = R - ((N + n) - i)
          BY <1>3, <1>4, <5>1, <5>3
        <5> QED
          BY <1>8, <5>1, <5>2, <5>4, Zenon
      <4> QED
        BY <4>1, <4>2, Zenon
    <3>3. n # L
      BY <1>3, <3>2
    <3>4. sockType' = "UNIX"
      BY <1>2, <1>b, <1>e, <3>3, Zenon
    <3> QED
      <4>1. pc'[t] = "send" /\ EndOf(t) = Peer(to) /\ msg'[t].size = S /\ left'[t] = L - n /\ StreamLen(to)' = N + n
        BY <1>1, <1>2, <1>5, <1>12, <1>13, <1>a, <1>c, <3>3, Zenon
      <4>2. PICK s : s = UnitAt(c, i)'.by
        BY Zenon
      <4>3. s = t /\ msg'[s].size = UnitAt(c, i)'.size
        BY <2>1, <3>2, <4>1, <4>2, Zenon
      <4>4. left'[s] = Rest(c, i)' - (StreamLen(c)' - i)
        BY <2>1, <3>2, <4>1, <4>3, Zenon
      <4> QED
        BY <2>1, <3>4, <4>1, <4>2, <4>3, <4>4, Zenon
  <2>2. CASE c # to
    <3>1. StreamLen(c)' = StreamLen(c) /\ UnitAt(c, i)' = UnitAt(c, i) /\ i \in 1..StreamLen(c)
      BY <1>7, <2>2, Zenon
    <3>2. Rest(c, i)' = Rest(c, i)
      BY <3>1, Zenon DEF Rest
    <3>3. i + Rest(c, i) > StreamLen(c)
      BY <3>1, <3>2, Zenon
    <3>4. PICK s : s = UnitAt(c, i).by
      BY Zenon
    <3>5. /\ sockType = "UNIX"
          /\ pc[s] = "send" /\ EndOf(s) = Peer(c) /\ msg[s].size = UnitAt(c, i).size
          /\ left[s] = Rest(c, i) - (StreamLen(c) - i)
      BY <1>0, <1>a, <3>1, <3>3, <3>4, Zenon DEF LastUnfinished
    <3>6. s \in Threads /\ s # t
      <4>1. s \in Threads
        BY <1>0, <3>1, <3>4, UnitTypes, Zenon
      <4>2. c = EndOf(t) /\ Peer(c) = to
        BY <1>1, <1>a, <2>2, EndsOfThreads, Zenon
      <4> QED
        BY <1>1, <3>5, <4>1, <4>2, Zenon
    <3> QED
      <4>1. UnitAt(c, i)'.by = s /\ pc'[s] = "send" /\ EndOf(s) = Peer(c) /\ sockType' = "UNIX"
        BY <1>13, <1>e, <3>1, <3>4, <3>5, <3>6, Zenon
      <4>2. msg'[s].size = UnitAt(c, i)'.size /\ left'[s] = Rest(c, i)' - (StreamLen(c)' - i)
        BY <1>12, <1>c, <3>1, <3>2, <3>5, <3>6, Zenon
      <4> QED
        BY <4>1, <4>2, Zenon
  <2> QED
    BY <2>1, <2>2, Zenon
<1>17. GoesOn'
  <2> SUFFICES ASSUME NEW s \in Threads, pc'[s] = "send", left'[s] < msg'[s].size
               PROVE  LET c == Peer(EndOf(s))
                      IN /\ StreamLen(c)' >= 1 /\ UnitAt(c, StreamLen(c))'.by = s
                         /\ UnitAt(c, StreamLen(c))'.size = msg'[s].size
                         /\ UnitAt(c, StreamLen(c))'.idx = msg'[s].size - left'[s]
    BY Zenon DEF GoesOn
  <2>1. CASE s = t
    <3>1. PICK k : k = N + n
      BY Zenon
    <3>2. k \in N+1..N+n /\ k >= 1 /\ (S - L) + (k - N) = S - (L - n)
      BY <1>3, <1>4, <3>1
    <3>3. StreamLen(to)' = k /\ UnitAt(to, k)'.by = t /\ UnitAt(to, k)'.size = S /\ UnitAt(to, k)'.idx = S - (L - n)
      BY <1>5, <1>8, <3>1, <3>2, Zenon
    <3>4. UnitAt(to, StreamLen(to))' = UnitAt(to, k)'
      <4>1. k = StreamLen(to)'
        BY <3>3, Zenon
      <4> QED
        BY <4>1 DEF UnitAt
    <3> QED
      <4>1. to = Peer(EndOf(s)) /\ msg'[s].size = S /\ left'[s] = L - n /\ s = t
        BY <1>1, <1>2, <1>12, <1>c, <2>1, Zenon
      <4>2. StreamLen(to)' >= 1 /\ UnitAt(to, StreamLen(to))'.by = t /\ UnitAt(to, StreamLen(to))'.size = S
        BY <3>2, <3>3, <3>4, Zenon
      <4>3. UnitAt(to, StreamLen(to))'.idx = S - (L - n)
        BY <3>3, <3>4, Zenon
      <4> QED
        BY <4>1, <4>2, <4>3, Zenon
  <2>2. CASE s # t
    <3>1. pc[s] = "send" /\ left'[s] = left[s] /\ left[s] < msg[s].size
      BY <1>12, <1>13, <1>c, <2>2, Zenon
    <3>2. EndOf(s) # EndOf(t)
      BY <1>0, <1>a, <2>2, <3>1, Zenon DEF SendsLocked
    <3>3. PICK c : c = Peer(EndOf(s))
      BY Zenon
    <3>4. c \in Ends /\ c # to
      BY <1>1, <3>2, <3>3, EndsOfThreads, Zenon
    <3>5. /\ StreamLen(c) >= 1 /\ UnitAt(c, StreamLen(c)).by = s
          /\ UnitAt(c, StreamLen(c)).size = msg[s].size /\ UnitAt(c, StreamLen(c)).idx = msg[s].size - left[s]
      BY <1>0, <1>a, <3>1, <3>3, <3>4, Zenon DEF GoesOn
    <3>6. StreamLen(c)' = StreamLen(c) /\ UnitAt(c, StreamLen(c))' = UnitAt(c, StreamLen(c))
      <4>1. StreamLen(c)' = StreamLen(c) /\ \A i : UnitAt(c, i)' = UnitAt(c, i)
        BY <1>7, <3>4, Zenon
      <4>2. PICK k : k = StreamLen(c)
        BY Zenon
      <4>3. UnitAt(c, StreamLen(c))' = UnitAt(c, k)'
        BY <4>1, <4>2, Zenon DEF UnitAt
      <4> QED
        BY <4>1, <4>2, <4>3, Zenon
    <3> QED
      BY <1>c, <3>1, <3>3, <3>5, <3>6, Zenon
  <2> QED
    BY <2>1, <2>2, Zenon
<1> QED
  BY <1>0, <1>11, <1>13, <1>14, <1>15, <1>16, <1>17, <1>e, Zenon DEF StreamInv

(* SockUNIX_sendVec sends what the buffer has room for.                    *)
LEMMA UNIXSendKeeps ==
    ASSUME SendersApart, StreamInv, NEW t \in Threads, SockUNIX_sendVec(t)
    PROVE  StreamInv'
<1>1. PICK to, f : to = Peer(EndOf(t)) /\ f = msg[t].size - left[t] + 1
  BY Zenon
<1>2. to \in Ends /\ Peer(to) = EndOf(t) /\ EndOf(t) \in Ends /\ \A c \in Ends : c = to \/ c = EndOf(t)
  BY <1>1, EndsOfThreads, Zenon
<1>3. /\ sockType = "UNIX" /\ pc[t] = "send" /\ open[EndOf(t)] /\ open[to] /\ sockType' = sockType /\ open' = open
      /\ msg' = msg /\ rpc' = rpc /\ got' = got /\ intact' = intact
  BY <1>1, Zenon DEF SockUNIX_sendVec
<1>4. PICK n \in 1..left[t] :
          /\ chan' = [chan EXCEPT ![to] = @ \o Piece(t, msg[t].size - left[t] + 1, msg[t].size - left[t] + n)]
          /\ left' = [left EXCEPT ![t] = @ - n]
          /\ IF n = left[t] THEN SendReturns(t, "done") ELSE pc' = pc /\ mutex' = mutex
  BY <1>1, Zenon DEF SockUNIX_sendVec
<1>5. msg[t].size - left[t] + n = f + n - 1
  <2>1. PICK S, L : S = msg[t].size /\ L = left[t]
    BY Zenon
  <2>2. S \in Nat /\ L \in Nat /\ n \in 1..L /\ f = S - L + 1
    BY <1>1, <2>1 DEF StreamInv, Types
  <2>3. S - L + n = f + n - 1
    BY <2>2
  <2> QED
    BY <2>1, <2>3, Zenon
<1>6. chan' = [chan EXCEPT ![to] = @ \o Piece(t, f, f + n - 1)]
  BY <1>1, <1>4, <1>5, Zenon
<1>7. PieceStep(t, to, n, f)
  BY <1>1, <1>2, <1>3, <1>4, <1>6, Zenon DEF PieceStep
<1> QED
  BY <1>2, <1>7, PieceSent, Zenon

(* SockQMSGQ_sendVec sends a message at once.                              *)
LEMMA QMSGQSendKeeps ==
    ASSUME SendersApart, StreamInv, NEW t \in Threads, SockQMSGQ_sendVec(t)
    PROVE  StreamInv'
<1>0. Types /\ SendsLocked /\ ReaderAt /\ InOrder /\ LastUnfinished /\ GoesOn /\ intact
  BY Zenon DEF StreamInv
<1>1. PICK to : to = Peer(EndOf(t))
  BY Zenon
<1>2. to \in Ends /\ Peer(to) = EndOf(t) /\ EndOf(t) \in Ends /\ \A c \in Ends : c = to \/ c = EndOf(t)
  BY <1>1, EndsOfThreads, Zenon
<1>3. /\ sockType = "QMSGQ" /\ pc[t] = "send" /\ open[EndOf(t)] /\ open[to] /\ left' = [left EXCEPT ![t] = 0]
      /\ sockType' = sockType /\ open' = open /\ msg' = msg /\ rpc' = rpc /\ got' = got /\ intact' = intact
  BY <1>1, Zenon DEF SockQMSGQ_sendVec
<1>4. left[t] = msg[t].size /\ left[t] \in Nat \ {0}
  BY <1>0, <1>3 DEF SendsLocked, Types
<1>5. CASE SendReturns(t, "failed") /\ chan' = chan
  <2>1. /\ SendsLocked' /\ pc'[t] = "failed" /\ pc' \in [Threads -> {"idle", "lock", "send", "done", "failed"}]
        /\ mutex' \in [Ends -> Threads \cup {"reader", "none"}]
        /\ \A s \in Threads \ {t} : pc'[s] = pc[s] /\ left'[s] = left[s]
    BY <1>0, <1>3, <1>5, Returns, Zenon
  <2>2. Types'
    BY <1>0, <1>3, <1>5, <2>1 DEF Types
  <2>3. ReaderAt'
    BY <1>0, <1>3, Zenon DEF ReaderAt, ReaderOf
  <2>4. InOrder'
    BY <1>0, <1>3, <1>5, Untouched, SameOrder, Zenon DEF InOrder
  <2>5. LastUnfinished'
    <3> SUFFICES ASSUME NEW e \in Ends, NEW i \in (1..StreamLen(e))', (i + Rest(e, i) > StreamLen(e))' PROVE FALSE
      BY Zenon DEF LastUnfinished
    <3>1. StreamLen(e)' = StreamLen(e) /\ UnitAt(e, i)' = UnitAt(e, i)
      BY <1>3, <1>5, Zenon DEF StreamLen, UnitAt
    <3>2. Rest(e, i)' = Rest(e, i)
      BY <3>1, Zenon DEF Rest
    <3>3. i \in 1..StreamLen(e) /\ i + Rest(e, i) > StreamLen(e)
      BY <3>1, <3>2, Zenon
    <3>4. sockType = "UNIX"
      BY <1>0, <3>3, Zenon DEF LastUnfinished
    <3> QED
      BY <1>3, <3>4
  <2>6. GoesOn'
    <3>1. ASSUME NEW s \in Threads, pc'[s] = "send" PROVE ~(left'[s] < msg'[s].size)
      <4>1. s # t /\ pc[s] = "send" /\ left'[s] = left[s]
        BY <2>1, <3>1
      <4>2. left'[s] = msg'[s].size /\ left'[s] \in Nat
        BY <1>0, <1>3, <4>1 DEF SendsLocked, Types
      <4> QED
        BY <4>2
    <3> QED
      BY <3>1, Zenon DEF GoesOn
  <2> QED
    BY <1>0, <1>3, <2>1, <2>2, <2>3, <2>4, <2>5, <2>6, Zenon DEF StreamInv
<1>6. CASE chan' = [chan EXCEPT ![to] = @ \o Piece(t, 1, msg[t].size)] /\ SendReturns(t, "done")
  <2>1. PICK n, f : n = left[t] /\ f = msg[t].size - left[t] + 1
    BY Zenon
  <2>2. f = 1 /\ n \in 1..left[t] /\ f + n - 1 = msg[t].size /\ left[t] - n = 0
    BY <1>4, <2>1
  <2>3. chan' = [chan EXCEPT ![to] = @ \o Piece(t, f, f + n - 1)] /\ left' = [left EXCEPT ![t] = @ - n]
    BY <1>3, <1>6, <2>2, Zenon
  <2>4. PieceStep(t, to, n, f)
    BY <1>2, <1>3, <1>6, <2>1, <2>2, <2>3, Zenon DEF PieceStep
  <2> QED
    BY <1>2, <2>4, PieceSent, Zenon
<1> QED
  BY <1>1, <1>5, <1>6, Zenon DEF SockQMSGQ_sendVec

(* The invariant of a connection holds for any senders, sizes and buffers. *)
LEMMA StreamsKept ==
    ASSUME SendersApart
    PROVE  Spec => []StreamInv
<1>1. Init => StreamInv
  <2> SUFFICES ASSUME Init PROVE StreamInv
    OBVIOUS
  <2>0. SomeMessage \in [size : Nat \ {0}, fds : Nat]
    BY MessageTypes, Zenon
  <2>1. Types
    BY <2>0 DEF Init, Types, SendersApart, Nothing, NoFds
  <2>2. \A e \in Ends : chan[e] = <<>> /\ got[e] = Nothing /\ rpc[e] = "poll"
    BY DEF Init
  <2>3. \A e \in Ends : StreamLen(e) = 0
    <3>1. Len(Nothing.units) = 0 /\ Len(<<>>) = 0 /\ 0 + 0 = 0
      BY DEF Nothing
    <3> QED
      BY <2>2, <3>1, Zenon DEF StreamLen
  <2>4. \A e \in Ends : 1..StreamLen(e) = {}
    BY <2>3
  <2>5. InOrder /\ LastUnfinished
    BY <2>4, Zenon DEF InOrder, Ordered, LastUnfinished
  <2>6. \A t \in Threads : pc[t] = "idle"
    BY DEF Init
  <2>7. SendsLocked /\ GoesOn
    BY <2>6 DEF SendsLocked, GoesOn
  <2>8. ReaderAt
    BY <2>2 DEF ReaderAt, ReaderOf
  <2> QED
    BY <2>1, <2>5, <2>7, <2>8, Zenon DEF StreamInv, Init
<1>2. StreamInv /\ [Next]_vars => StreamInv'
  <2> SUFFICES ASSUME StreamInv, [Next]_vars PROVE StreamInv'
    OBVIOUS
  <2>1. ASSUME NEW t \in Threads, Send(t) \/ SenderStep(t) PROVE StreamInv'
    BY <2>1, SendKeeps, LockToSendKeeps, SendFailsKeeps, UNIXSendKeeps, QMSGQSendKeeps, Zenon DEF SenderStep
  <2>2. ASSUME NEW e \in Ends, ReaderStep(e) \/ MinkSocket_close(e) PROVE StreamInv'
    BY <2>2, BeforeReading, ReceiveFailsKeeps, RecvMsgKeeps, QMSGQRecvKeeps, Zenon DEF ReaderStep
  <2>3. CASE UNCHANGED vars
    <3>0. Types /\ SendsLocked /\ ReaderAt /\ InOrder /\ LastUnfinished /\ GoesOn /\ intact
      BY Zenon DEF StreamInv
    <3>1. /\ sockType' = sockType /\ open' = open /\ mutex' = mutex /\ chan' = chan /\ pc' = pc /\ msg' = msg
          /\ left' = left /\ rpc' = rpc /\ got' = got /\ intact' = intact
      BY <2>3, Zenon DEF vars
    <3>2. Types' /\ SendsLocked' /\ ReaderAt'
      BY <3>0, <3>1, Zenon DEF Types, SendsLocked, ReaderAt, ReaderOf
    <3>3. InOrder'
      BY <3>0, <3>1, Untouched, SameOrder, Zenon DEF InOrder
    <3>4. LastUnfinished' /\ GoesOn'
      <4>1. \A s \in Threads : pc[s] = "send" => pc'[s] = "send" /\ msg'[s] = msg[s] /\ left'[s] = left[s]
        BY <3>1, Zenon
      <4>2. \A s \in Threads : pc'[s] = "send" /\ left'[s] < msg'[s].size => pc[s] = "send"
        BY <3>1, Zenon
      <4>3. \A c \in Ends : ~open[c] => ~open'[c]
        BY <3>1, Zenon
      <4> QED
        BY <3>0, <3>1, <4>1, <4>2, <4>3, Untouched, Quiet, Zenon
    <3> QED
      BY <3>0, <3>1, <3>2, <3>3, <3>4, Zenon DEF StreamInv
  <2> QED
    BY <2>1, <2>2, <2>3, Zenon DEF Next
<1> QED
  BY <1>1, <1>2, PTL DEF Spec

(* ... and with it what an end takes for a message is one.                 *)
LEMMA StreamsWhole ==
    ASSUME SendersApart
    PROVE  Spec => []MessagesWhole
<1>1. StreamInv => MessagesWhole
  BY Zenon DEF StreamInv, MessagesWhole
<1> QED
  BY <1>1, StreamsKept, PTL
=============================================================================
