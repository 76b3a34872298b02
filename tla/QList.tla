------------------------------- MODULE QList -------------------------------
(***************************************************************************)
(* The doubly linked lists that sessions, forwarders, works, invocations,  *)
(* mappings, waiters and services are kept in: a list is a ring of nodes   *)
(* through its head, and a node that is in no list has null pointers.  The *)
(* pointers are modelled store by store where their order matters; `list`  *)
(* is what the rings mean.  A loop over a list may take the node it is at  *)
(* out of it (QLIST_NEXTSAFE_FOR_ALL).                                     *)
(* Source: libmink/Transport/MinkSocket/kernel/qlist.h, of which           *)
(* libminkteec and the listeners have copies.                              *)
(***************************************************************************)
EXTENDS Integers, Sequences, TLAPS

CONSTANTS Nodes, Heads,
          Null      \* the null pointer

VARIABLES pNext, pPrev, \* the pointers of each node and of each head
          list,         \* head -> the nodes of its list, in order (ghost)
          loop          \* the loop in progress, if any: [over, pn, pnn, seen, all]

vars == <<pNext, pPrev, list, loop>>

Cells == Nodes \cup Heads
NoLoop == [over |-> Null, pn |-> Null, pnn |-> Null, seen |-> <<>>, all |-> <<>>]

Without(s, i) == [j \in 1..(Len(s) - 1) |-> s[IF j < i THEN j ELSE j + 1]]
WhereIs(s, n) == CHOOSE i \in 1..Len(s) : s[i] = n
Removed(s, n) == IF \E i \in 1..Len(s) : s[i] = n THEN Without(s, WhereIs(s, n)) ELSE s

(* Constructed lists and nodes.                                            *)
Init ==
    /\ pNext = [c \in Cells |-> IF c \in Heads THEN c ELSE Null]
    /\ pPrev = [c \in Cells |-> IF c \in Heads THEN c ELSE Null]
    /\ list = [h \in Heads |-> <<>>]
    /\ loop = NoLoop

QNode_isQueued(pn) == pNext[pn] # Null
QList_isEmpty(h) == pNext[h] = h

QNode_insPrev(me, pn) ==
    /\ pNext' = [pNext EXCEPT ![pn] = me, ![pPrev[me]] = pn]
    /\ pPrev' = [pPrev EXCEPT ![pn] = pPrev[me], ![me] = pn]
QNode_insNext(me, pn) ==
    /\ pNext' = [pNext EXCEPT ![pn] = pNext[me], ![me] = pn]
    /\ pPrev' = [pPrev EXCEPT ![pn] = me, ![pNext[me]] = pn]

\* As if the pointers of the node were left.
QNode_dequeue_queued(me) ==
    /\ pNext' = [pNext EXCEPT ![pPrev[me]] = pNext[me]]
    /\ pPrev' = [pPrev EXCEPT ![pNext[me]] = pPrev[me]]
    /\ list' = [h \in Heads |-> Removed(list[h], me)]
QNode_dequeue(me) ==
    /\ pNext' = [pNext EXCEPT ![pPrev[me]] = pNext[me], ![me] = Null]
    /\ pPrev' = [pPrev EXCEPT ![pNext[me]] = pPrev[me], ![me] = Null]
    /\ list' = [h \in Heads |-> Removed(list[h], me)]

---------------------------------------------------------------------------
(* The operations.  None is done on a list that is being looped over.      *)
QList_appendNode(h, pn) ==
    /\ ~QNode_isQueued(pn) /\ loop.over # h
    /\ QNode_insPrev(h, pn)
    /\ list' = [list EXCEPT ![h] = Append(@, pn)]
    /\ UNCHANGED loop
QList_prependNode(h, pn) ==
    /\ ~QNode_isQueued(pn) /\ loop.over # h
    /\ QNode_insNext(h, pn)
    /\ list' = [list EXCEPT ![h] = <<pn>> \o @]
    /\ UNCHANGED loop

QNode_dequeueIf(pn) ==
    /\ QNode_isQueued(pn)
    /\ \A h \in Heads : loop.over = h => \A i \in 1..Len(list[h]) : list[h][i] # pn
    /\ QNode_dequeue(pn)
    /\ UNCHANGED loop

(* The list that is popped is not empty; otherwise null is returned.       *)
QList_pop(h) ==
    /\ ~QList_isEmpty(h) /\ loop.over # h
    /\ LET pn == pNext[h] pnn == pNext[pn]
       IN /\ pNext' = [pNext EXCEPT ![h] = pnn, ![pn] = Null]
          /\ pPrev' = [pPrev EXCEPT ![pnn] = h, ![pn] = Null]
    /\ list' = [list EXCEPT ![h] = Tail(@)]
    /\ UNCHANGED loop
QList_popLast(h) ==
    /\ ~QList_isEmpty(h) /\ loop.over # h
    /\ LET pp == pPrev[h] ppp == pPrev[pp]
       IN /\ pPrev' = [pPrev EXCEPT ![h] = ppp, ![pp] = Null]
          /\ pNext' = [pNext EXCEPT ![ppp] = h, ![pp] = Null]
    /\ list' = [list EXCEPT ![h] = SubSeq(@, 1, Len(@) - 1)]
    /\ UNCHANGED loop

(* All nodes of s go to the end of d.  With s empty, sn is s itself, and   *)
(* its pPrev is read after it was changed.                                 *)
QList_appendList(d, s) ==
    /\ d # s /\ loop.over \notin {d, s}
    /\ LET dp == pPrev[d]
           sn == pNext[s]
           prev1 == [pPrev EXCEPT ![sn] = dp]
           sp == prev1[s]
       IN /\ pPrev' = [prev1 EXCEPT ![d] = sp, ![s] = s]
          /\ pNext' = [pNext EXCEPT ![dp] = sn, ![sp] = d, ![s] = s]
    /\ list' = [list EXCEPT ![d] = list[d] \o list[s], ![s] = <<>>]
    /\ UNCHANGED loop

(* d, which is empty, takes all nodes of s; likewise.                      *)
QList_constructFrom(d, s) ==
    /\ d # s /\ loop.over \notin {d, s} /\ QList_isEmpty(d)
    /\ LET prev1 == [pPrev EXCEPT ![pNext[s]] = d]
           prev2 == [prev1 EXCEPT ![d] = prev1[s]]
           next1 == [pNext EXCEPT ![d] = pNext[s]]
       IN /\ pPrev' = [prev2 EXCEPT ![s] = s]
          /\ pNext' = [next1 EXCEPT ![prev2[s]] = d, ![s] = s]
    /\ list' = [list EXCEPT ![d] = list[s], ![s] = <<>>]
    /\ UNCHANGED loop

(* The loop reads the next node before the body, which may take the node   *)
(* it is at out of the list.                                               *)
LoopBegins(h) ==
    /\ loop.over = Null
    /\ loop' = [over |-> h, pn |-> pNext[h], pnn |-> pNext[pNext[h]], seen |-> <<>>,
                all |-> list[h]]
    /\ UNCHANGED <<pNext, pPrev, list>>
LoopBody(takeOut) ==
    /\ loop.over # Null /\ loop.pn # loop.over
    /\ IF takeOut THEN QNode_isQueued(loop.pn) /\ QNode_dequeue(loop.pn)
       ELSE UNCHANGED <<pNext, pPrev, list>>
    /\ loop' = [loop EXCEPT !.seen = Append(@, loop.pn), !.pn = loop.pnn,
                            !.pnn = pNext'[loop.pnn]]
LoopEnds ==
    /\ loop.over # Null /\ loop.pn = loop.over
    /\ loop' = NoLoop
    /\ UNCHANGED <<pNext, pPrev, list>>

Next ==
    \/ \E h \in Heads, pn \in Nodes : QList_appendNode(h, pn) \/ QList_prependNode(h, pn)
    \/ \E pn \in Nodes : QNode_dequeueIf(pn)
    \/ \E h \in Heads : QList_pop(h) \/ QList_popLast(h) \/ LoopBegins(h)
    \/ \E d, s \in Heads : QList_appendList(d, s) \/ QList_constructFrom(d, s)
    \/ \E takeOut \in BOOLEAN : LoopBody(takeOut)
    \/ LoopEnds

Spec == Init /\ [][Next]_vars

---------------------------------------------------------------------------
TypeOK ==
    /\ pNext \in [Cells -> Cells \cup {Null}] /\ pPrev \in [Cells -> Cells \cup {Null}]
    /\ list \in [Heads -> Seq(Nodes)]
    /\ loop \in [over : Heads \cup {Null}, pn : Cells \cup {Null}, pnn : Cells \cup {Null},
                seen : Seq(Nodes), all : Seq(Nodes)]

At(h, i) == IF i = 0 THEN h ELSE list[h][i]
After(h, i) == IF i = Len(list[h]) THEN 0 ELSE i + 1

(* From each head, pNext leads through the nodes of its list in their      *)
(* order and back to the head, and pPrev the other way.                    *)
Rings ==
    \A h \in Heads : \A i \in 0..Len(list[h]) :
        /\ pNext[At(h, i)] = At(h, After(h, i))
        /\ pPrev[At(h, After(h, i))] = At(h, i)

(* A node is in one list at most, once, and QNode_isQueued tells whether.  *)
QueuedOnce ==
    /\ \A g, h \in Heads : \A i \in 1..Len(list[g]), j \in 1..Len(list[h]) :
          list[g][i] = list[h][j] => g = h /\ i = j
    /\ \A n \in Nodes : (\A h \in Heads : \A i \in 1..Len(list[h]) : list[h][i] # n)
                        => pNext[n] = Null /\ pPrev[n] = Null

(* The pointers are the lists: whatever nodes are appended, prepended,     *)
(* popped at either end or taken out, and whole lists moved, empty ones    *)
(* included, no node is lost, shared by two lists or taken for unqueued.   *)
ListsAreRings == TypeOK /\ Rings /\ QueuedOnce

(* A loop that takes nodes out visits every node of the list, in order, and*)
(* none after it left the list.                                            *)
LoopSeesAll ==
    loop.over # Null =>
        /\ \A j \in 1..Len(loop.seen) : j <= Len(loop.all) /\ loop.seen[j] = loop.all[j]
        /\ loop.pn = loop.over => Len(loop.seen) = Len(loop.all)
        /\ loop.pn # loop.over => \E i \in 1..Len(list[loop.over]) : list[loop.over][i] = loop.pn

---------------------------------------------------------------------------
(* What is left of the list, of those the loop has not seen.               *)
Left == Len(loop.all) - Len(loop.seen)

(* The nodes not yet seen are the end of the list, and the loop is at the  *)
(* first of them and knows the second.                                     *)
LoopInv ==
    loop.over # Null =>
        LET h == loop.over
            k == Len(loop.seen)
            r == Len(list[h]) - Left
        IN /\ Left >= 0 /\ r >= 0
           /\ \A j \in 1..k : loop.seen[j] = loop.all[j]
           /\ \A j \in 1..Left : list[h][r + j] = loop.all[k + j]
           /\ loop.pn = IF Left = 0 THEN h ELSE loop.all[k + 1]
           /\ Left > 0 => loop.pnn = IF Left = 1 THEN h ELSE loop.all[k + 2]

Distinct == Nodes \cap Heads = {} /\ Null \notin Cells
Inv == ListsAreRings /\ LoopInv

(* Every place of a ring is a cell of its own, and a node is unqueued when *)
(* it is in no list.                                                       *)
LEMMA Places ==
    ASSUME Distinct, ListsAreRings
    PROVE  /\ \A h \in Heads : Len(list[h]) \in Nat
           /\ \A h \in Heads : \A i \in 0..Len(list[h]) :
                 At(h, i) \in Cells /\ (i # 0 => At(h, i) \in Nodes) /\ After(h, i) \in 0..Len(list[h])
           /\ \A g, h \in Heads : \A i \in 0..Len(list[g]), j \in 0..Len(list[h]) :
                 At(g, i) = At(h, j) => g = h /\ i = j
           /\ \A n \in Nodes : ~QNode_isQueued(n) =>
                 \A h \in Heads : \A i \in 1..Len(list[h]) : list[h][i] # n
           /\ \A n \in Nodes : QNode_isQueued(n) =>
                 \E h \in Heads : \E i \in 1..Len(list[h]) : list[h][i] = n
<1> USE DEF ListsAreRings, TypeOK, Cells, Distinct
<1>1. \A h \in Heads : Len(list[h]) \in Nat /\ \A i \in 1..Len(list[h]) : list[h][i] \in Nodes
  OBVIOUS
<1>2. \A h \in Heads : \A i \in 0..Len(list[h]) :
         At(h, i) \in Cells /\ (i # 0 => At(h, i) \in Nodes) /\ After(h, i) \in 0..Len(list[h])
  BY <1>1 DEF At, After
<1>3. \A g, h \in Heads : \A i \in 0..Len(list[g]), j \in 0..Len(list[h]) :
         At(g, i) = At(h, j) => g = h /\ i = j
  BY <1>1 DEF At, QueuedOnce
<1>4. \A n \in Nodes : ~QNode_isQueued(n) =>
         \A h \in Heads : \A i \in 1..Len(list[h]) : list[h][i] # n
  <2> SUFFICES ASSUME NEW n \in Nodes, NEW h \in Heads, NEW i \in 1..Len(list[h]), list[h][i] = n
               PROVE  pNext[n] # Null
    BY Zenon DEF QNode_isQueued
  <2>1. pNext[At(h, i)] = At(h, After(h, i)) /\ At(h, i) = n
    BY <1>1 DEF Rings, At
  <2> QED
    BY <2>1, <1>1, <1>2
<1>5. \A n \in Nodes : QNode_isQueued(n) =>
         \E h \in Heads : \E i \in 1..Len(list[h]) : list[h][i] = n
  BY DEF QNode_isQueued, QueuedOnce
<1> QED
  BY <1>1, <1>2, <1>3, <1>4, <1>5, Zenon

(* pn is put between the k-th place of h's ring and the next.              *)
Inserted(h, k, pn) ==
    /\ pNext' = [pNext EXCEPT ![pn] = At(h, After(h, k)), ![At(h, k)] = pn]
    /\ pPrev' = [pPrev EXCEPT ![pn] = At(h, k), ![At(h, After(h, k))] = pn]
    /\ list' \in [Heads -> Seq(Nodes)]
    /\ Len(list'[h]) = Len(list[h]) + 1
    /\ \A i \in 1..Len(list'[h]) :
          list'[h][i] = IF i <= k THEN list[h][i] ELSE IF i = k + 1 THEN pn ELSE list[h][i - 1]
    /\ \A g \in Heads : g # h => list'[g] = list[g]

(* An insertion of an unqueued node keeps the rings.                       *)
LEMMA InsertKeeps ==
    ASSUME Distinct, ListsAreRings, NEW h \in Heads, NEW k \in 0..Len(list[h]), NEW pn \in Nodes,
           ~QNode_isQueued(pn), Inserted(h, k, pn)
    PROVE  /\ pNext' \in [Cells -> Cells \cup {Null}] /\ pPrev' \in [Cells -> Cells \cup {Null}]
           /\ Rings' /\ QueuedOnce'
<1> DEFINE n == Len(list[h])
<1> USE DEF Cells, Distinct
<1>0. TypeOK /\ Rings /\ QueuedOnce
  BY Zenon DEF ListsAreRings
<1>1. /\ n \in Nat /\ \A g \in Heads : Len(list[g]) \in Nat
      /\ \A g \in Heads : \A i \in 1..Len(list[g]) : list[g][i] \in Nodes /\ list[g][i] # pn
  BY <1>0, Places DEF TypeOK
<1>2. \A g \in Heads : \A i \in 0..Len(list[g]) :
         At(g, i) \in Cells /\ At(g, i) # pn /\ After(g, i) \in 0..Len(list[g])
  BY <1>1 DEF At, After
<1>3. \A f, g \in Heads : \A i \in 0..Len(list[f]), j \in 0..Len(list[g]) :
         At(f, i) = At(g, j) => f = g /\ i = j
  BY Places, Zenon
<1>4. /\ pNext' \in [Cells -> Cells \cup {Null}] /\ pPrev' \in [Cells -> Cells \cup {Null}]
      /\ pNext'[pn] = At(h, After(h, k)) /\ pNext'[At(h, k)] = pn
      /\ pPrev'[pn] = At(h, k) /\ pPrev'[At(h, After(h, k))] = pn
      /\ \A c \in Cells : c # pn /\ c # At(h, k) => pNext'[c] = pNext[c]
      /\ \A c \in Cells : c # pn /\ c # At(h, After(h, k)) => pPrev'[c] = pPrev[c]
  BY <1>0, <1>1, <1>2, Zenon DEF Inserted, TypeOK
<1>5. ASSUME NEW g \in Heads, NEW i \in 0..Len(list[g]), g # h \/ i # k
      PROVE  pNext'[At(g, i)] = At(g, After(g, i)) /\ pPrev'[At(g, After(g, i))] = At(g, i)
  <2>1. pNext[At(g, i)] = At(g, After(g, i)) /\ pPrev[At(g, After(g, i))] = At(g, i)
    BY <1>0, Zenon DEF Rings
  <2>2. At(g, i) # At(h, k)
    BY <1>3, <1>5, Zenon
  <2>3. At(g, After(g, i)) # At(h, After(h, k))
    <3>1. g = h => After(g, i) # After(h, k)
      BY <1>1, <1>5 DEF After
    <3> QED
      BY <3>1, <1>2, <1>3
  <2> QED
    BY <2>1, <2>2, <2>3, <1>2, <1>4, Zenon
<1>6. /\ \A g \in Heads : g # h => list'[g] = list[g]
      /\ Len(list'[h]) = n + 1 /\ list'[h][k + 1] = pn
      /\ \A i \in 1..k : list'[h][i] = list[h][i]
      /\ \A i \in (k + 1)..n : list'[h][i + 1] = list[h][i]
  <2>1. \A i \in 1..(n + 1) :
           list'[h][i] = IF i <= k THEN list[h][i] ELSE IF i = k + 1 THEN pn ELSE list[h][i - 1]
    BY Zenon DEF Inserted
  <2>2. \A i \in (k + 1)..n : list'[h][i + 1] = list[h][i]
    <3> SUFFICES ASSUME NEW i \in (k + 1)..n PROVE list'[h][i + 1] = list[h][i]
      BY Zenon
    <3>1. i + 1 \in 1..(n + 1) /\ ~(i + 1 <= k) /\ i + 1 # k + 1 /\ (i + 1) - 1 = i
      BY <1>1
    <3> QED
      BY <3>1, <2>1
  <2>3. list'[h][k + 1] = pn /\ \A i \in 1..k : list'[h][i] = list[h][i]
    BY <2>1, <1>1
  <2> QED
    BY <2>2, <2>3, Zenon DEF Inserted
<1> DEFINE A(g, i) == IF i = 0 THEN g ELSE list'[g][i]
           N(g, i) == IF i = Len(list'[g]) THEN 0 ELSE i + 1
<1>7. Rings'
  <2> SUFFICES ASSUME NEW g \in Heads, NEW i \in 0..Len(list'[g])
               PROVE  pNext'[A(g, i)] = A(g, N(g, i)) /\ pPrev'[A(g, N(g, i))] = A(g, i)
    BY Zenon DEF Rings, At, After
  <2>1. CASE g # h
    <3>1. A(g, i) = At(g, i) /\ A(g, N(g, i)) = At(g, After(g, i)) /\ i \in 0..Len(list[g])
      BY <2>1, <1>6, Zenon DEF At, After
    <3> QED
      BY <2>1, <3>1, <1>5
  <2>2. CASE g = h /\ i < k
    <3>1. A(h, i) = At(h, i) /\ A(h, N(h, i)) = At(h, After(h, i)) /\ i \in 0..n
      BY <2>2, <1>1, <1>6 DEF At, After
    <3> QED
      BY <2>2, <3>1, <1>5
  <2>3. CASE g = h /\ i = k
    <3>1. A(h, i) = At(h, k) /\ A(h, N(h, i)) = pn
      BY <2>3, <1>1, <1>6 DEF At
    <3> QED
      BY <2>3, <3>1, <1>4, Zenon
  <2>4. CASE g = h /\ i = k + 1
    <3>1. A(h, i) = pn /\ A(h, N(h, i)) = At(h, After(h, k))
      <4>1. CASE k = n
        BY <4>1, <2>4, <1>1, <1>6 DEF At, After
      <4>2. CASE k < n
        <5>1. N(h, i) = k + 2 /\ list'[h][(k + 1) + 1] = list[h][k + 1]
          BY <4>2, <2>4, <1>1, <1>6
        <5> QED
          BY <4>2, <5>1, <2>4, <1>1, <1>6 DEF At, After
      <4> QED
        BY <4>1, <4>2, <1>1
    <3> QED
      BY <2>4, <3>1, <1>4, Zenon
  <2>5. CASE g = h /\ i > k + 1
    <3> DEFINE j == i - 1
    <3>1. j \in (k + 1)..n /\ i = j + 1 /\ j \in 0..n /\ j # k /\ j # 0
      BY <2>5, <1>1, <1>6
    <3>2. A(h, i) = At(h, j)
      BY <3>1, <1>1, <1>6 DEF At
    <3>3. A(h, N(h, i)) = At(h, After(h, j))
      <4>1. CASE j = n
        BY <4>1, <3>1, <1>1, <1>6, Zenon DEF At, After
      <4>2. CASE j < n
        <5>1. N(h, i) = (j + 1) + 1 /\ list'[h][(j + 1) + 1] = list[h][j + 1]
          BY <4>2, <3>1, <1>1, <1>6
        <5> QED
          BY <4>2, <5>1, <3>1, <1>1 DEF At, After
      <4> QED
        BY <4>1, <4>2, <3>1, <1>1
    <3> HIDE DEF A, N
    <3> QED
      BY <2>5, <3>1, <3>2, <3>3, <1>5
  <2> QED
    BY <2>1, <2>2, <2>3, <2>4, <2>5, <1>1, <1>6
<1>8. QueuedOnce'
  <2> DEFINE Old(i) == IF i <= k THEN i ELSE i - 1
  <2>0. \A i \in 1..(n + 1) : i # k + 1 => Old(i) \in 1..n /\ list'[h][i] = list[h][Old(i)]
    <3> SUFFICES ASSUME NEW i \in 1..(n + 1), i # k + 1
                 PROVE  Old(i) \in 1..n /\ list'[h][i] = list[h][Old(i)]
      BY Zenon
    <3>1. CASE i <= k
      BY <3>1, <1>1, <1>6
    <3>2. CASE i > k
      <4>1. i - 1 \in (k + 1)..n /\ (i - 1) + 1 = i
        BY <3>2, <1>1
      <4> QED
        BY <4>1, <3>2, <1>1, <1>6
    <3> QED
      BY <3>1, <3>2, <1>1
  <2>1. ASSUME NEW f \in Heads, NEW g \in Heads, NEW i \in 1..Len(list'[f]), NEW j \in 1..Len(list'[g]),
               list'[f][i] = list'[g][j]
        PROVE  f = g /\ i = j
    <3> HIDE DEF Old
    <3>0. \A e, d \in Heads : \A x \in 1..Len(list[e]), y \in 1..Len(list[d]) :
             list[e][x] = list[d][y] => e = d /\ x = y
      BY <1>0, Zenon DEF QueuedOnce
    <3>1. CASE f # h /\ g # h
      BY <2>1, <3>0, <3>1, <1>6
    <3>2. CASE f = h /\ g # h
      <4>1. i \in 1..(n + 1) /\ j \in 1..Len(list[g]) /\ list'[h][i] = list[g][j] /\ list[g][j] # pn
        BY <2>1, <3>2, <1>1, <1>6, Zenon
      <4>2. i # k + 1
        BY <4>1, <1>6, Zenon
      <4> QED
        BY <4>1, <4>2, <2>0, <3>0, <3>2
    <3>3. CASE f # h /\ g = h
      <4>1. j \in 1..(n + 1) /\ i \in 1..Len(list[f]) /\ list'[h][j] = list[f][i] /\ list[f][i] # pn
        BY <2>1, <3>3, <1>1, <1>6, Zenon
      <4>2. j # k + 1
        BY <4>1, <1>6, Zenon
      <4> QED
        BY <4>1, <4>2, <2>0, <3>0, <3>3
    <3>4. CASE f = h /\ g = h
      <4>0. i \in 1..(n + 1) /\ j \in 1..(n + 1) /\ list'[h][i] = list'[h][j]
        BY <2>1, <3>4, <1>6, Zenon
      <4>1. i # k + 1 /\ j # k + 1 => Old(i) = Old(j)
        BY <4>0, <2>0, <3>0
      <4>2. i = k + 1 <=> j = k + 1
        <5>1. \A x \in 1..(n + 1) : x # k + 1 => list'[h][x] # pn
          BY <2>0, <1>1, Zenon
        <5> QED
          BY <5>1, <4>0, <1>6, Zenon
      <4> QED
        BY <4>0, <4>1, <4>2, <3>4, <1>1 DEF Old
    <3> QED
      BY <3>1, <3>2, <3>3, <3>4, Zenon
  <2>2. ASSUME NEW m \in Nodes, \A g \in Heads : \A i \in 1..Len(list'[g]) : list'[g][i] # m
        PROVE  pNext'[m] = Null /\ pPrev'[m] = Null
    <3>1. m # pn
      BY <2>2, <1>1, <1>6
    <3>2. ASSUME NEW g \in Heads, NEW i \in 1..Len(list[g]) PROVE list[g][i] # m
      <4>1. CASE g # h
        BY <4>1, <2>2, <1>6, Zenon
      <4>2. CASE g = h /\ i <= k
        BY <4>2, <2>2, <1>1, <1>6
      <4>3. CASE g = h /\ i > k
        <5>1. i + 1 \in 1..Len(list'[h]) /\ list'[h][i + 1] = list[h][i]
          BY <4>3, <1>1, <1>6
        <5> QED
          BY <5>1, <4>3, <2>2, Zenon
      <4> QED
        BY <4>1, <4>2, <4>3, <1>1
    <3>3. pNext[m] = Null /\ pPrev[m] = Null
      BY <3>2, <1>0, Zenon DEF QueuedOnce
    <3>4. m # At(h, k) /\ m # At(h, After(h, k))
      BY <3>2, <1>1, <1>2 DEF At
    <3> QED
      BY <3>1, <3>3, <3>4, <1>4, Zenon
  <2> QED
    BY <2>1, <2>2, Zenon DEF QueuedOnce
<1> QED
  BY <1>4, <1>7, <1>8, Zenon

(* The node at the k-th place of h's ring is taken out.                    *)
TakenOut(h, k) ==
    /\ pNext' = [pNext EXCEPT ![At(h, k - 1)] = At(h, After(h, k)), ![At(h, k)] = Null]
    /\ pPrev' = [pPrev EXCEPT ![At(h, After(h, k))] = At(h, k - 1), ![At(h, k)] = Null]
    /\ list' \in [Heads -> Seq(Nodes)]
    /\ Len(list'[h]) = Len(list[h]) - 1
    /\ \A i \in 1..(k - 1) : list'[h][i] = list[h][i]
    /\ \A i \in k..(Len(list[h]) - 1) : list'[h][i] = list[h][i + 1]
    /\ \A g \in Heads : g # h => list'[g] = list[g]

(* A removal keeps the rings.                                              *)
LEMMA RemoveKeeps ==
    ASSUME Distinct, ListsAreRings, NEW h \in Heads, NEW k \in 1..Len(list[h]), TakenOut(h, k)
    PROVE  /\ pNext' \in [Cells -> Cells \cup {Null}] /\ pPrev' \in [Cells -> Cells \cup {Null}]
           /\ Rings' /\ QueuedOnce'
<1> DEFINE n == Len(list[h])
           pn == At(h, k)
<1> USE DEF Cells, Distinct
<1>0. TypeOK /\ Rings /\ QueuedOnce
  BY Zenon DEF ListsAreRings
<1>1. /\ n \in Nat /\ \A g \in Heads : Len(list[g]) \in Nat
      /\ \A g \in Heads : \A i \in 1..Len(list[g]) : list[g][i] \in Nodes
      /\ k - 1 \in 0..n /\ k \in 0..n /\ k # 0
  BY <1>0 DEF TypeOK
<1>2. \A g \in Heads : \A i \in 0..Len(list[g]) :
         At(g, i) \in Cells /\ After(g, i) \in 0..Len(list[g])
  BY <1>1 DEF At, After
<1>3. \A f, g \in Heads : \A i \in 0..Len(list[f]), j \in 0..Len(list[g]) :
         At(f, i) = At(g, j) => f = g /\ i = j
  BY Places, Zenon
<1>4. pn # At(h, k - 1) /\ pn # At(h, After(h, k)) /\ pn \in Nodes /\ pn = list[h][k]
  <2>1. After(h, k) # k
    BY <1>1 DEF After
  <2>2. pn = list[h][k]
    BY <1>1, Zenon DEF At
  <2> QED
    BY <2>1, <2>2, <1>1, <1>2, <1>3
<1>5. /\ pNext' \in [Cells -> Cells \cup {Null}] /\ pPrev' \in [Cells -> Cells \cup {Null}]
      /\ pNext'[pn] = Null /\ pNext'[At(h, k - 1)] = At(h, After(h, k))
      /\ pPrev'[pn] = Null /\ pPrev'[At(h, After(h, k))] = At(h, k - 1)
      /\ \A c \in Cells : c # pn /\ c # At(h, k - 1) => pNext'[c] = pNext[c]
      /\ \A c \in Cells : c # pn /\ c # At(h, After(h, k)) => pPrev'[c] = pPrev[c]
  BY <1>0, <1>1, <1>2, <1>4, Zenon DEF TakenOut, TypeOK
<1> HIDE DEF pn
<1>6. ASSUME NEW g \in Heads, NEW i \in 0..Len(list[g]), g # h \/ (i # k /\ i # k - 1)
      PROVE  pNext'[At(g, i)] = At(g, After(g, i)) /\ pPrev'[At(g, After(g, i))] = At(g, i)
  <2>1. pNext[At(g, i)] = At(g, After(g, i)) /\ pPrev[At(g, After(g, i))] = At(g, i)
    BY <1>0, Zenon DEF Rings
  <2>2. At(g, i) # At(h, k) /\ At(g, i) # At(h, k - 1)
    BY <1>1, <1>3, <1>6
  <2>3. At(g, After(g, i)) # At(h, k) /\ At(g, After(g, i)) # At(h, After(h, k))
    <3>1. g = h => After(g, i) # k /\ After(g, i) # After(h, k)
      BY <1>1, <1>6 DEF After
    <3> QED
      BY <3>1, <1>1, <1>2, <1>3, Zenon
  <2> QED
    BY <2>1, <2>2, <2>3, <1>2, <1>5, Zenon DEF pn
<1>7. /\ \A g \in Heads : g # h => list'[g] = list[g]
      /\ Len(list'[h]) = n - 1
      /\ \A i \in 1..(k - 1) : list'[h][i] = list[h][i]
      /\ \A i \in k..(n - 1) : list'[h][i] = list[h][i + 1]
  BY Zenon DEF TakenOut
<1> DEFINE A(g, i) == IF i = 0 THEN g ELSE list'[g][i]
           N(g, i) == IF i = Len(list'[g]) THEN 0 ELSE i + 1
<1>8. Rings'
  <2> SUFFICES ASSUME NEW g \in Heads, NEW i \in 0..Len(list'[g])
               PROVE  pNext'[A(g, i)] = A(g, N(g, i)) /\ pPrev'[A(g, N(g, i))] = A(g, i)
    BY Zenon DEF Rings, At, After
  <2>1. CASE g # h
    <3>1. A(g, i) = At(g, i) /\ A(g, N(g, i)) = At(g, After(g, i)) /\ i \in 0..Len(list[g])
      BY <2>1, <1>7, Zenon DEF At, After
    <3> QED
      BY <2>1, <3>1, <1>6, Zenon
  <2>2. CASE g = h /\ i < k - 1
    <3>1. A(h, i) = At(h, i) /\ A(h, N(h, i)) = At(h, After(h, i)) /\ i \in 0..n
      BY <2>2, <1>1, <1>7 DEF At, After
    <3> QED
      BY <2>2, <3>1, <1>1, <1>6
  <2>3. CASE g = h /\ i = k - 1
    <3>1. A(h, i) = At(h, k - 1)
      BY <2>3, <1>1, <1>7 DEF At
    <3>2. A(h, N(h, i)) = At(h, After(h, k))
      <4>1. CASE k = n
        BY <4>1, <2>3, <1>1, <1>7, Zenon DEF At, After
      <4>2. CASE k < n
        <5>1. N(h, i) = k /\ k \in k..(n - 1)
          BY <4>2, <2>3, <1>1, <1>7
        <5> QED
          BY <4>2, <5>1, <1>1, <1>7 DEF At, After
      <4> QED
        BY <4>1, <4>2, <1>1
    <3> HIDE DEF A, N
    <3> QED
      BY <2>3, <3>1, <3>2, <1>5, Zenon
  <2>4. CASE g = h /\ i >= k
    <3>1. i \in k..(n - 1) /\ i + 1 \in 0..n /\ i + 1 # k /\ i + 1 # k - 1 /\ i # 0 /\ i + 1 # 0
      BY <2>4, <1>1, <1>7
    <3>2. A(h, i) = At(h, i + 1)
      BY <3>1, <1>7, Zenon DEF At
    <3>3. A(h, N(h, i)) = At(h, After(h, i + 1))
      <4>1. CASE i = n - 1
        BY <4>1, <3>1, <1>1, <1>7 DEF At, After
      <4>2. CASE i < n - 1
        <5>1. N(h, i) = i + 1 /\ i + 1 \in k..(n - 1) /\ After(h, i + 1) = (i + 1) + 1
          BY <4>2, <3>1, <1>1, <1>7 DEF After
        <5> QED
          BY <4>2, <5>1, <3>1, <1>1, <1>7 DEF At
      <4> QED
        BY <4>1, <4>2, <3>1, <1>1
    <3> HIDE DEF A, N
    <3> QED
      BY <2>4, <3>1, <3>2, <3>3, <1>6, Zenon
  <2> QED
    BY <2>1, <2>2, <2>3, <2>4, <1>1, <1>7
<1>9. QueuedOnce'
  <2> DEFINE Old(i) == IF i < k THEN i ELSE i + 1
  <2>0. \A i \in 1..(n - 1) : Old(i) \in 1..n /\ list'[h][i] = list[h][Old(i)]
    BY <1>1, <1>7
  <2>1. ASSUME NEW f \in Heads, NEW g \in Heads, NEW i \in 1..Len(list'[f]), NEW j \in 1..Len(list'[g]),
               list'[f][i] = list'[g][j]
        PROVE  f = g /\ i = j
    <3> HIDE DEF Old
    <3>0. \A e, d \in Heads : \A x \in 1..Len(list[e]), y \in 1..Len(list[d]) :
             list[e][x] = list[d][y] => e = d /\ x = y
      BY <1>0, Zenon DEF QueuedOnce
    <3>1. CASE f # h /\ g # h
      BY <2>1, <3>0, <3>1, <1>7
    <3>2. CASE f = h /\ g # h
      <4>1. i \in 1..(n - 1) /\ j \in 1..Len(list[g]) /\ list'[h][i] = list[g][j]
        BY <2>1, <3>2, <1>7, Zenon
      <4> QED
        BY <4>1, <2>0, <3>0, <3>2
    <3>3. CASE f # h /\ g = h
      <4>1. j \in 1..(n - 1) /\ i \in 1..Len(list[f]) /\ list'[h][j] = list[f][i]
        BY <2>1, <3>3, <1>7, Zenon
      <4> QED
        BY <4>1, <2>0, <3>0, <3>3
    <3>4. CASE f = h /\ g = h
      <4>1. i \in 1..(n - 1) /\ j \in 1..(n - 1) /\ list'[h][i] = list'[h][j]
        BY <2>1, <3>4, <1>7, Zenon
      <4>2. Old(i) = Old(j)
        BY <4>1, <2>0, <3>0
      <4> QED
        BY <4>1, <4>2, <3>4, <1>1 DEF Old
    <3> QED
      BY <3>1, <3>2, <3>3, <3>4, Zenon
  <2>2. ASSUME NEW m \in Nodes, \A g \in Heads : \A i \in 1..Len(list'[g]) : list'[g][i] # m
        PROVE  pNext'[m] = Null /\ pPrev'[m] = Null
    <3>1. CASE m = pn
      BY <3>1, <1>5, Zenon
    <3>2. CASE m # pn
      <4>1. ASSUME NEW g \in Heads, NEW i \in 1..Len(list[g]) PROVE list[g][i] # m
        <5>1. CASE g # h
          BY <5>1, <2>2, <1>7, Zenon
        <5>2. CASE g = h /\ i < k
          BY <5>2, <2>2, <1>1, <1>7
        <5>3. CASE g = h /\ i = k
          BY <5>3, <3>2, <1>4, Zenon
        <5>4. CASE g = h /\ i > k
          <6>1. i - 1 \in k..(n - 1) /\ i - 1 \in 1..Len(list'[h]) /\ (i - 1) + 1 = i
            BY <5>4, <1>1, <1>7
          <6> QED
            BY <6>1, <5>4, <2>2, <1>7
        <5> QED
          BY <5>1, <5>2, <5>3, <5>4, <1>1
      <4>2. pNext[m] = Null /\ pPrev[m] = Null
        BY <4>1, <1>0, Zenon DEF QueuedOnce
      <4>3. m # At(h, k - 1) /\ m # At(h, After(h, k))
        <5>1. \A i \in 0..n : At(h, i) # m
          BY <4>1, <1>1 DEF At
        <5> QED
          BY <5>1, <1>1, <1>2, Zenon
      <4> QED
        BY <3>2, <4>2, <4>3, <1>5, Zenon
    <3> QED
      BY <3>1, <3>2, Zenon
  <2> QED
    BY <2>1, <2>2, Zenon DEF QueuedOnce
<1> QED
  BY <1>5, <1>8, <1>9, Zenon

(* The nodes of s, of which there are some, follow those of d.             *)
MovedTo(d, s) ==
    /\ pNext' = [pNext EXCEPT ![At(d, Len(list[d]))] = At(s, 1), ![At(s, Len(list[s]))] = d, ![s] = s]
    /\ pPrev' = [pPrev EXCEPT ![At(s, 1)] = At(d, Len(list[d])), ![d] = At(s, Len(list[s])), ![s] = s]
    /\ list' \in [Heads -> Seq(Nodes)]
    /\ Len(list'[s]) = 0 /\ Len(list'[d]) = Len(list[d]) + Len(list[s])
    /\ \A i \in 1..Len(list[d]) : list'[d][i] = list[d][i]
    /\ \A i \in 1..Len(list[s]) : list'[d][Len(list[d]) + i] = list[s][i]
    /\ \A g \in Heads : g # d /\ g # s => list'[g] = list[g]

(* The move of a list keeps the rings.                                     *)
LEMMA MoveKeeps ==
    ASSUME Distinct, ListsAreRings, NEW d \in Heads, NEW s \in Heads, d # s, Len(list[s]) > 0,
           MovedTo(d, s)
    PROVE  /\ pNext' \in [Cells -> Cells \cup {Null}] /\ pPrev' \in [Cells -> Cells \cup {Null}]
           /\ Rings' /\ QueuedOnce'
<1> DEFINE n == Len(list[d])
           m == Len(list[s])
           dl == At(d, n)
           sf == At(s, 1)
           sl == At(s, m)
<1> USE DEF Cells, Distinct
<1>0. TypeOK /\ Rings /\ QueuedOnce
  BY Zenon DEF ListsAreRings
<1>1. /\ n \in Nat /\ m \in Nat /\ m > 0 /\ Len(list[d]) = n /\ Len(list[s]) = m
  BY <1>0 DEF TypeOK
<1>t. /\ \A g \in Heads : Len(list[g]) \in Nat
      /\ \A g \in Heads : \A i \in 1..Len(list[g]) : list[g][i] \in Nodes
  BY <1>0 DEF TypeOK
<1>2. \A g \in Heads : \A i \in 0..Len(list[g]) :
         At(g, i) \in Cells /\ After(g, i) \in 0..Len(list[g]) /\ At(g, 0) = g
  BY <1>t DEF At, After
<1>3. \A f, g \in Heads : \A i \in 0..Len(list[f]), j \in 0..Len(list[g]) :
         At(f, i) = At(g, j) => f = g /\ i = j
  BY Places, Zenon
<1>6. /\ \A g \in Heads : g # d /\ g # s => list'[g] = list[g]
      /\ Len(list'[s]) = 0 /\ Len(list'[d]) = n + m
      /\ \A i \in 1..n : list'[d][i] = list[d][i]
      /\ \A i \in 1..m : list'[d][n + i] = list[s][i]
  BY Zenon DEF MovedTo
<1>m. /\ pNext' = [pNext EXCEPT ![dl] = sf, ![sl] = d, ![s] = s]
      /\ pPrev' = [pPrev EXCEPT ![sf] = dl, ![d] = sl, ![s] = s]
  BY Zenon DEF MovedTo
<1> HIDE DEF n, m
<1>p. n \in 0..Len(list[d]) /\ m \in 0..Len(list[s]) /\ 1 \in 0..Len(list[s])
      /\ 0 \in 0..Len(list[d]) /\ 0 \in 0..Len(list[s]) /\ m # 0
  BY <1>1
<1>4. /\ dl \in Cells /\ sf \in Cells /\ sl \in Cells /\ s \in Cells /\ d \in Cells
      /\ dl # sl /\ dl # s /\ sl # s /\ sf # d /\ sf # s /\ d # s
  BY <1>p, <1>2, <1>3
<1>5. /\ pNext' \in [Cells -> Cells \cup {Null}] /\ pPrev' \in [Cells -> Cells \cup {Null}]
      /\ pNext'[dl] = sf /\ pNext'[sl] = d /\ pNext'[s] = s
      /\ pPrev'[sf] = dl /\ pPrev'[d] = sl /\ pPrev'[s] = s
      /\ \A c \in Cells : c # dl /\ c # sl /\ c # s => pNext'[c] = pNext[c]
      /\ \A c \in Cells : c # sf /\ c # d /\ c # s => pPrev'[c] = pPrev[c]
  <2> HIDE DEF dl, sf, sl
  <2> QED
    BY <1>m, <1>0, <1>4, Zenon DEF TypeOK
<1> DEFINE A(g, i) == IF i = 0 THEN g ELSE list'[g][i]
           N(g, i) == IF i = Len(list'[g]) THEN 0 ELSE i + 1
<1>7. ASSUME NEW g \in Heads, NEW i \in 0..Len(list[g]), g = d => i # n, g = s => i # 0 /\ i # m
      PROVE  pNext'[At(g, i)] = At(g, After(g, i)) /\ pPrev'[At(g, After(g, i))] = At(g, i)
  <2>1. pNext[At(g, i)] = At(g, After(g, i)) /\ pPrev[At(g, After(g, i))] = At(g, i)
    BY <1>0, Zenon DEF Rings
  <2>2. At(g, i) # dl /\ At(g, i) # sl /\ At(g, i) # s
    <3>1. At(g, i) # At(d, n)
      BY <1>p, <1>3, <1>7, Zenon
    <3>2. At(g, i) # At(s, m)
      BY <1>p, <1>3, <1>7
    <3>3. At(g, i) # At(s, 0)
      BY <1>p, <1>3, <1>7, Zenon
    <3> QED
      BY <3>1, <3>2, <3>3, <1>2, <1>p, Zenon
  <2>3. At(g, After(g, i)) # sf /\ At(g, After(g, i)) # d /\ At(g, After(g, i)) # s
    <3>1. (g = d => After(g, i) # 0) /\ (g = s => After(g, i) # 1 /\ After(g, i) # 0)
      BY <1>1, <1>7 DEF After
    <3> QED
      <4>0. After(g, i) \in 0..Len(list[g]) /\ At(s, 0) = s /\ At(d, 0) = d
        BY <1>p, <1>2, Zenon
      <4>1. At(g, After(g, i)) # At(s, 1)
        BY <3>1, <4>0, <1>p, <1>3
      <4>2. At(g, After(g, i)) # At(d, 0)
        BY <3>1, <4>0, <1>p, <1>3
      <4>3. At(g, After(g, i)) # At(s, 0)
        BY <3>1, <4>0, <1>p, <1>3
      <4> QED
        BY <4>0, <4>1, <4>2, <4>3, Zenon
  <2> HIDE DEF dl, sf, sl
  <2> QED
    BY <2>1, <2>2, <2>3, <1>2, <1>5, Zenon
<1>8. Rings'
  <2> SUFFICES ASSUME NEW g \in Heads, NEW i \in 0..Len(list'[g])
               PROVE  pNext'[A(g, i)] = A(g, N(g, i)) /\ pPrev'[A(g, N(g, i))] = A(g, i)
    BY Zenon DEF Rings, At, After
  <2>1. CASE g # d /\ g # s
    <3>1. A(g, i) = At(g, i) /\ A(g, N(g, i)) = At(g, After(g, i)) /\ i \in 0..Len(list[g])
      BY <2>1, <1>6, Zenon DEF At, After
    <3> QED
      BY <2>1, <3>1, <1>7
  <2>2. CASE g = s
    <3>1. A(s, i) = s /\ A(s, N(s, i)) = s
      BY <2>2, <1>6
    <3> QED
      BY <2>2, <3>1, <1>5, Zenon
  <2>3. CASE g = d /\ i < n
    <3>1. A(d, i) = At(d, i) /\ A(d, N(d, i)) = At(d, After(d, i)) /\ i \in 0..n
      <4>1. N(d, i) = i + 1 /\ After(d, i) = i + 1 /\ i + 1 \in 1..n /\ i + 1 # 0 /\ i \in 0..n
        BY <2>3, <1>1, <1>6 DEF After
      <4>2. i # 0 => i \in 1..n
        BY <4>1, <1>1
      <4> QED
        BY <4>1, <4>2, <1>6, Zenon DEF At
    <3> QED
      BY <2>3, <3>1, <1>1, <1>7
  <2>4. CASE g = d /\ i = n
    <3>1. A(d, i) = dl
      <4>1. n # 0 => n \in 1..n
        BY <1>1
      <4> QED
        BY <2>4, <4>1, <1>6, Zenon DEF At
    <3>2. A(d, N(d, i)) = sf
      <4>1. N(d, i) = n + 1 /\ n + 1 # 0 /\ 1 \in 1..m
        BY <2>4, <1>1, <1>6
      <4> QED
        BY <4>1, <1>6 DEF At
    <3> HIDE DEF A, N, dl, sf
    <3> QED
      BY <2>4, <3>1, <3>2, <1>5, Zenon
  <2>5. CASE g = d /\ i > n /\ i < n + m
    <3> DEFINE j == i - n
    <3>1. j \in 1..m /\ j + 1 \in 1..m /\ j \in 0..m /\ j # 0 /\ j # m /\ i = n + j /\ i # 0
      BY <2>5, <1>1, <1>6
    <3>2. A(d, i) = At(s, j)
      BY <3>1, <1>6, Zenon DEF At
    <3>3. N(d, i) = n + (j + 1) /\ n + (j + 1) # 0 /\ After(s, j) = j + 1 /\ j + 1 # 0
      BY <2>5, <3>1, <1>1, <1>6 DEF After
    <3>4. A(d, N(d, i)) = At(s, After(s, j))
      BY <3>1, <3>3, <1>6, Zenon DEF At
    <3> HIDE DEF A, N, j
    <3> QED
      BY <2>5, <3>1, <3>2, <3>4, <1>1, <1>4, <1>7
  <2>6. CASE g = d /\ i = n + m
    <3>1. A(d, i) = sl /\ A(d, N(d, i)) = d
      <4>1. i # 0 /\ m \in 1..m /\ m # 0
        BY <2>6, <1>1
      <4> QED
        BY <4>1, <2>6, <1>6, Zenon DEF At
    <3> HIDE DEF A, N, sl
    <3> QED
      BY <2>6, <3>1, <1>5, Zenon
  <2> QED
    BY <2>1, <2>2, <2>3, <2>4, <2>5, <2>6, <1>1, <1>6
<1>9. QueuedOnce'
  <2>0. \A e, f \in Heads : \A x \in 1..Len(list[e]), y \in 1..Len(list[f]) :
           list[e][x] = list[f][y] => e = f /\ x = y
    BY <1>0, Zenon DEF QueuedOnce
  <2> DEFINE G(g, i) == IF g = d /\ i > n THEN s ELSE g
             I(g, i) == IF g = d /\ i > n THEN i - n ELSE i
  <2>1. ASSUME NEW g \in Heads, NEW i \in 1..Len(list'[g])
        PROVE  G(g, i) \in Heads /\ I(g, i) \in 1..Len(list[G(g, i)])
               /\ list'[g][i] = list[G(g, i)][I(g, i)] /\ g # s
    <3>1. CASE g = d /\ i > n
      <4>1. i - n \in 1..m /\ n + (i - n) = i
        BY <3>1, <1>1, <1>6
      <4> QED
        BY <3>1, <4>1, <1>1, <1>6, Zenon
    <3>2. CASE g = d /\ ~(i > n)
      BY <3>2, <1>1, <1>6
    <3>3. CASE g # d
      BY <3>3, <1>6
    <3> QED
      BY <3>1, <3>2, <3>3, Zenon
  <2>2. ASSUME NEW f \in Heads, NEW g \in Heads, NEW i \in 1..Len(list'[f]), NEW j \in 1..Len(list'[g]),
               list'[f][i] = list'[g][j]
        PROVE  f = g /\ i = j
    <3>1. G(f, i) = G(g, j) /\ I(f, i) = I(g, j) /\ f # s /\ g # s
      <4>1. /\ G(f, i) \in Heads /\ I(f, i) \in 1..Len(list[G(f, i)])
            /\ list'[f][i] = list[G(f, i)][I(f, i)] /\ f # s
        BY <2>1, Zenon
      <4>2. /\ G(g, j) \in Heads /\ I(g, j) \in 1..Len(list[G(g, j)])
            /\ list'[g][j] = list[G(g, j)][I(g, j)] /\ g # s
        BY <2>1, Zenon
      <4> HIDE DEF G, I
      <4>3. list[G(f, i)][I(f, i)] = list[G(g, j)][I(g, j)]
        BY <2>2, <4>1, <4>2, Zenon
      <4>4. \A e, c \in Heads : \A x \in 1..Len(list[e]), y \in 1..Len(list[c]) :
               list[e][x] = list[c][y] => e = c /\ x = y
        BY <2>0, Zenon
      <4>5. G(f, i) = G(g, j)
        BY <4>1, <4>2, <4>3, <4>4
      <4>6. I(f, i) = I(g, j)
        BY <4>1, <4>2, <4>3, <4>4
      <4> QED
        BY <4>1, <4>2, <4>5, <4>6, Zenon
    <3>2. i \in Int /\ j \in Int
      OBVIOUS
    <3> QED
      BY <3>1, <3>2, <1>1
  <2>3. ASSUME NEW x \in Nodes, \A g \in Heads : \A i \in 1..Len(list'[g]) : list'[g][i] # x
        PROVE  pNext'[x] = Null /\ pPrev'[x] = Null
    <3>1. ASSUME NEW g \in Heads, NEW i \in 1..Len(list[g]) PROVE list[g][i] # x
      <4>1. CASE g # d /\ g # s
        BY <4>1, <2>3, <1>6
      <4>2. CASE g = d
        <5>1. i \in 1..Len(list'[d]) /\ list'[d][i] = list[d][i]
          BY <4>2, <1>1, <1>6
        <5> QED
          BY <5>1, <4>2, <2>3, Zenon
      <4>3. CASE g = s
        <5>1. n + i \in 1..Len(list'[d]) /\ list'[d][n + i] = list[s][i]
          BY <4>3, <1>1, <1>6
        <5> QED
          BY <5>1, <4>3, <2>3, Zenon
      <4> QED
        BY <4>1, <4>2, <4>3, Zenon
    <3>2. pNext[x] = Null /\ pPrev[x] = Null
      BY <3>1, <1>0, Zenon DEF QueuedOnce
    <3>3. \A g \in Heads : \A i \in 0..Len(list[g]) : At(g, i) # x
      BY <3>1, <1>t DEF At
    <3>4. x # dl /\ x # sf /\ x # sl /\ x # s /\ x # d
      BY <3>3, <1>p, <1>2, Zenon
    <3> HIDE DEF dl, sf, sl
    <3> QED
      BY <3>2, <3>4, <1>5, Zenon
  <2> QED
    BY <2>2, <2>3, Zenon DEF QueuedOnce
<1> QED
  BY <1>5, <1>8, <1>9, Zenon

(* Where the ends of a ring are.                                           *)
LEMMA Ends ==
    ASSUME Distinct, ListsAreRings, NEW h \in Heads
    PROVE  /\ At(h, 0) = h /\ At(h, After(h, Len(list[h]))) = h
           /\ pPrev[h] = At(h, Len(list[h])) /\ pNext[h] = At(h, After(h, 0))
           /\ QList_isEmpty(h) <=> Len(list[h]) = 0
<1>1. Len(list[h]) \in Nat /\ 0 \in 0..Len(list[h]) /\ Len(list[h]) \in 0..Len(list[h])
  BY Places
<1>2. At(h, 0) = h /\ After(h, Len(list[h])) = 0
  BY Zenon DEF At, After
<1>3. pPrev[h] = At(h, Len(list[h])) /\ pNext[h] = At(h, After(h, 0))
  BY <1>1, <1>2, Zenon DEF ListsAreRings, Rings
<1>4. After(h, 0) = 0 <=> Len(list[h]) = 0
  BY <1>1 DEF After
<1>5. After(h, 0) \in 0..Len(list[h])
  BY <1>1, Places, Zenon
<1>6. At(h, After(h, 0)) = At(h, 0) <=> After(h, 0) = 0
  BY <1>1, <1>5, Places, Zenon
<1> QED
  BY <1>2, <1>3, <1>4, <1>6, Zenon DEF QList_isEmpty

(* The loop goes on as before when its list is left alone.                 *)
LEMMA LoopKept ==
    ASSUME LoopInv, loop' = loop, loop.over # Null => list'[loop.over] = list[loop.over]
    PROVE  LoopInv'
BY Zenon DEF LoopInv, Left

(* QList_appendNode.                                                       *)
LEMMA AppendKeeps ==
    ASSUME Distinct, Inv, NEW h \in Heads, NEW pn \in Nodes, QList_appendNode(h, pn)
    PROVE  Inv'
<1>1. TypeOK /\ ListsAreRings /\ LoopInv /\ Len(list[h]) \in Nat
  BY Places, Zenon DEF Inv, ListsAreRings
<1> DEFINE n == Len(list[h])
<1>2. /\ list' \in [Heads -> Seq(Nodes)] /\ Len(list'[h]) = n + 1
      /\ \A i \in 1..n : list'[h][i] = list[h][i]
      /\ list'[h][n + 1] = pn
      /\ \A g \in Heads : g # h => list'[g] = list[g]
  <2>1. list[h] \in Seq(Nodes) /\ list \in [Heads -> Seq(Nodes)] /\ list' = [list EXCEPT ![h] = Append(list[h], pn)]
    BY <1>1, Zenon DEF QList_appendNode, TypeOK
  <2> QED
    BY <2>1
<1>3. Inserted(h, n, pn)
  <2>1. \A i \in 1..Len(list'[h]) :
           list'[h][i] = IF i <= n THEN list[h][i] ELSE IF i = n + 1 THEN pn ELSE list[h][i - 1]
    BY <1>1, <1>2
  <2>2. /\ pNext' = [pNext EXCEPT ![pn] = At(h, After(h, n)), ![At(h, n)] = pn]
        /\ pPrev' = [pPrev EXCEPT ![pn] = At(h, n), ![At(h, After(h, n))] = pn]
    BY <1>1, Ends, Zenon DEF QList_appendNode, QNode_insPrev
  <2> QED
    BY <1>2, <2>1, <2>2, Zenon DEF Inserted
<1>4. n \in 0..n /\ ~QNode_isQueued(pn) /\ loop' = loop /\ loop.over # h
  BY <1>1 DEF QList_appendNode
<1>5. /\ pNext' \in [Cells -> Cells \cup {Null}] /\ pPrev' \in [Cells -> Cells \cup {Null}]
      /\ Rings' /\ QueuedOnce'
  BY <1>1, <1>3, <1>4, InsertKeeps, Zenon
<1>6. TypeOK'
  BY <1>1, <1>2, <1>4, <1>5, Zenon DEF TypeOK
<1>7. LoopInv'
  <2>1. loop.over \in Heads \cup {Null}
    BY <1>1, Zenon DEF TypeOK
  <2> QED
    BY <1>1, <1>2, <1>4, <2>1, LoopKept, Zenon
<1> QED
  BY <1>5, <1>6, <1>7, Zenon DEF Inv, ListsAreRings

(* QList_prependNode.                                                      *)
LEMMA PrependKeeps ==
    ASSUME Distinct, Inv, NEW h \in Heads, NEW pn \in Nodes, QList_prependNode(h, pn)
    PROVE  Inv'
<1>1. TypeOK /\ ListsAreRings /\ LoopInv /\ Len(list[h]) \in Nat
  BY Places DEF Inv, ListsAreRings
<1> DEFINE n == Len(list[h])
<1>2. /\ list' \in [Heads -> Seq(Nodes)] /\ Len(list'[h]) = n + 1
      /\ \A i \in 1..n : list'[h][i + 1] = list[h][i]
      /\ list'[h][1] = pn
      /\ \A g \in Heads : g # h => list'[g] = list[g]
  <2>1. list[h] \in Seq(Nodes) /\ list \in [Heads -> Seq(Nodes)] /\ list' = [list EXCEPT ![h] = <<pn>> \o list[h]]
    BY <1>1, Zenon DEF QList_prependNode, TypeOK
  <2> QED
    BY <2>1
<1>3. Inserted(h, 0, pn)
  <2>1. \A i \in 1..Len(list'[h]) :
           list'[h][i] = IF i <= 0 THEN list[h][i] ELSE IF i = 0 + 1 THEN pn ELSE list[h][i - 1]
    <3> SUFFICES ASSUME NEW i \in 1..(n + 1)
                 PROVE  list'[h][i] = IF i = 1 THEN pn ELSE list[h][i - 1]
      BY <1>1, <1>2
    <3>1. i # 1 => i - 1 \in 1..n /\ (i - 1) + 1 = i
      BY <1>1
    <3> QED
      BY <1>2, <3>1, Zenon
  <2>2. /\ pNext' = [pNext EXCEPT ![pn] = At(h, After(h, 0)), ![At(h, 0)] = pn]
        /\ pPrev' = [pPrev EXCEPT ![pn] = At(h, 0), ![At(h, After(h, 0))] = pn]
    BY <1>1, Ends, Zenon DEF QList_prependNode, QNode_insNext
  <2> QED
    BY <1>2, <2>1, <2>2, Zenon DEF Inserted
<1>4. 0 \in 0..n /\ ~QNode_isQueued(pn) /\ loop' = loop /\ loop.over # h
  BY <1>1 DEF QList_prependNode
<1>5. /\ pNext' \in [Cells -> Cells \cup {Null}] /\ pPrev' \in [Cells -> Cells \cup {Null}]
      /\ Rings' /\ QueuedOnce'
  BY <1>1, <1>3, <1>4, InsertKeeps, Zenon
<1>6. TypeOK'
  BY <1>1, <1>2, <1>4, <1>5, Zenon DEF TypeOK
<1>7. LoopInv'
  <2>1. loop.over \in Heads \cup {Null}
    BY <1>1 DEF TypeOK
  <2> QED
    BY <1>1, <1>2, <1>4, <2>1, LoopKept, Zenon
<1> QED
  BY <1>5, <1>6, <1>7, Zenon DEF Inv, ListsAreRings

(* A removal from a list that is not looped over.                          *)
LEMMA TakenOutKeeps ==
    ASSUME Distinct, Inv, NEW h \in Heads, NEW k \in 1..Len(list[h]), TakenOut(h, k),
           loop' = loop, loop.over # h
    PROVE  Inv'
<1>1. TypeOK /\ ListsAreRings /\ LoopInv /\ loop.over \in Heads \cup {Null}
  BY Zenon DEF Inv, ListsAreRings, TypeOK
<1>2. /\ pNext' \in [Cells -> Cells \cup {Null}] /\ pPrev' \in [Cells -> Cells \cup {Null}]
      /\ Rings' /\ QueuedOnce'
  BY <1>1, RemoveKeeps, Zenon
<1>3. list' \in [Heads -> Seq(Nodes)] /\ \A g \in Heads : g # h => list'[g] = list[g]
  BY Zenon DEF TakenOut
<1>4. TypeOK'
  BY <1>1, <1>2, <1>3, Zenon DEF TypeOK
<1>5. LoopInv'
  BY <1>1, <1>3, LoopKept, Zenon
<1> QED
  BY <1>2, <1>4, <1>5, Zenon DEF Inv, ListsAreRings

(* QList_pop.                                                              *)
LEMMA PopKeeps ==
    ASSUME Distinct, Inv, NEW h \in Heads, QList_pop(h)
    PROVE  Inv'
<1> DEFINE n == Len(list[h])
<1>1. TypeOK /\ ListsAreRings /\ n \in Nat /\ Len(list[h]) = n
  BY Places, Zenon DEF Inv, ListsAreRings
<1>2. ~QList_isEmpty(h) /\ loop.over # h /\ loop' = loop
  BY Zenon DEF QList_pop
<1> HIDE DEF n
<1>3. n > 0 /\ 1 \in 1..n /\ 1 \in 0..n /\ 1 - 1 = 0 /\ After(h, 0) = 1
  BY <1>1, <1>2, Ends DEF After
<1>4. pNext[h] = At(h, 1) /\ pNext[At(h, 1)] = At(h, After(h, 1)) /\ At(h, 0) = h
  BY <1>1, <1>3, Ends, Zenon DEF ListsAreRings, Rings
<1>5. /\ pNext' = [pNext EXCEPT ![At(h, 1 - 1)] = At(h, After(h, 1)), ![At(h, 1)] = Null]
      /\ pPrev' = [pPrev EXCEPT ![At(h, After(h, 1))] = At(h, 1 - 1), ![At(h, 1)] = Null]
  BY <1>3, <1>4, Zenon DEF QList_pop
<1>6. /\ list' \in [Heads -> Seq(Nodes)] /\ Len(list'[h]) = n - 1
      /\ \A i \in 1..(n - 1) : list'[h][i] = list[h][i + 1]
      /\ \A g \in Heads : g # h => list'[g] = list[g]
  <2>1. list[h] \in Seq(Nodes) /\ list \in [Heads -> Seq(Nodes)] /\ list' = [list EXCEPT ![h] = Tail(list[h])]
    BY <1>1, Zenon DEF QList_pop, TypeOK
  <2>2. list[h] # <<>>
    BY <1>1, <1>3
  <2> QED
    BY <2>1, <2>2, <1>1, <1>3
<1>7. TakenOut(h, 1)
  <2>1. \A i \in 1..(1 - 1) : list'[h][i] = list[h][i]
    OBVIOUS
  <2> QED
    BY <1>1, <1>5, <1>6, <2>1, Zenon DEF TakenOut
<1> QED
  BY <1>1, <1>2, <1>3, <1>7, TakenOutKeeps, Zenon

(* QList_popLast.                                                          *)
LEMMA PopLastKeeps ==
    ASSUME Distinct, Inv, NEW h \in Heads, QList_popLast(h)
    PROVE  Inv'
<1> DEFINE n == Len(list[h])
<1>1. TypeOK /\ ListsAreRings /\ n \in Nat /\ Len(list[h]) = n
  BY Places DEF Inv, ListsAreRings
<1>2. ~QList_isEmpty(h) /\ loop.over # h /\ loop' = loop
  BY Zenon DEF QList_popLast
<1> HIDE DEF n
<1>3. n > 0 /\ n \in 1..n /\ n \in 0..n /\ n - 1 \in 0..n /\ After(h, n - 1) = n /\ After(h, n) = 0
  BY <1>1, <1>2, Ends DEF After
<1>4. pPrev[h] = At(h, n) /\ pPrev[At(h, n)] = At(h, n - 1) /\ At(h, After(h, n)) = h
  BY <1>1, <1>3, Ends DEF ListsAreRings, Rings
<1>5. /\ pNext' = [pNext EXCEPT ![At(h, n - 1)] = At(h, After(h, n)), ![At(h, n)] = Null]
      /\ pPrev' = [pPrev EXCEPT ![At(h, After(h, n))] = At(h, n - 1), ![At(h, n)] = Null]
  BY <1>4, Zenon DEF QList_popLast
<1>6. /\ list' \in [Heads -> Seq(Nodes)] /\ Len(list'[h]) = n - 1
      /\ \A i \in 1..(n - 1) : list'[h][i] = list[h][i]
      /\ \A g \in Heads : g # h => list'[g] = list[g]
  <2>1. list[h] \in Seq(Nodes) /\ list \in [Heads -> Seq(Nodes)]
        /\ list' = [list EXCEPT ![h] = SubSeq(list[h], 1, n - 1)]
    BY <1>1, Zenon DEF QList_popLast, TypeOK
  <2> QED
    BY <2>1, <1>1, <1>3
<1>7. TakenOut(h, n)
  <2>1. \A i \in n..(n - 1) : list'[h][i] = list[h][i + 1]
    BY <1>1
  <2> QED
    BY <1>1, <1>5, <1>6, <2>1, Zenon DEF TakenOut
<1> QED
  BY <1>1, <1>2, <1>3, <1>7, TakenOutKeeps, Zenon

(* What QNode_dequeue does to the list the node is in, and to the others.  *)
LEMMA DequeueTakesOut ==
    ASSUME Distinct, ListsAreRings, NEW h \in Heads, NEW k \in 1..Len(list[h]), NEW pn,
           list[h][k] = pn, QNode_dequeue(pn)
    PROVE  TakenOut(h, k)
<1> DEFINE n == Len(list[h])
<1>1. TypeOK /\ Rings /\ QueuedOnce /\ n \in Nat /\ Len(list[h]) = n /\ list[h] \in Seq(Nodes)
      /\ list \in [Heads -> Seq(Nodes)]
  BY DEF ListsAreRings, TypeOK
<1>2. \A g \in Heads : \A i \in 1..Len(list[g]) : list[g][i] = pn => g = h /\ i = k
  BY <1>1 DEF QueuedOnce
<1>3. WhereIs(list[h], pn) = k
  BY <1>2, Zenon DEF WhereIs
<1>4. Removed(list[h], pn) = Without(list[h], k)
  BY <1>3, Zenon DEF Removed
<1>5. \A g \in Heads : g # h => Removed(list[g], pn) = list[g]
  BY <1>2, Zenon DEF Removed
<1> HIDE DEF n
<1>6. /\ Without(list[h], k) \in Seq(Nodes) /\ Len(Without(list[h], k)) = n - 1
      /\ \A i \in 1..(n - 1) : Without(list[h], k)[i] = list[h][IF i < k THEN i ELSE i + 1]
  <2>1. n - 1 \in Nat /\ k \in 1..n
    BY <1>1
  <2>2. \A i \in 1..(n - 1) : list[h][IF i < k THEN i ELSE i + 1] \in Nodes
    BY <1>1, <2>1
  <2>3. Without(list[h], k) = [i \in 1..(n - 1) |-> list[h][IF i < k THEN i ELSE i + 1]]
    BY <1>1, Zenon DEF Without
  <2>4. Without(list[h], k) \in Seq(Nodes)
    <3> HIDE DEF Without
    <3>1. [i \in 1..(n - 1) |-> list[h][IF i < k THEN i ELSE i + 1]] \in Seq(Nodes)
      BY <2>1, <2>2
    <3> QED
      BY <2>3, <3>1, Zenon
  <2> QED
    BY <2>1, <2>3, <2>4
<1>7. /\ list' = [g \in Heads |-> Removed(list[g], pn)]
      /\ pNext' = [pNext EXCEPT ![pPrev[pn]] = pNext[pn], ![pn] = Null]
      /\ pPrev' = [pPrev EXCEPT ![pNext[pn]] = pPrev[pn], ![pn] = Null]
  BY Zenon DEF QNode_dequeue
<1>8. /\ list'[h] = Without(list[h], k) /\ \A g \in Heads : g # h => list'[g] = list[g]
      /\ list' \in [Heads -> Seq(Nodes)]
  BY <1>1, <1>4, <1>5, <1>6, <1>7, Zenon
<1>9. pNext[pn] = At(h, After(h, k)) /\ pPrev[pn] = At(h, k - 1) /\ At(h, k) = pn
  <2>1. k \in 0..n /\ k - 1 \in 0..n /\ k # 0 /\ After(h, k - 1) = k
    BY <1>1 DEF After
  <2>2. At(h, k) = pn
    BY <2>1, Zenon DEF At
  <2> QED
    BY <2>1, <2>2, <1>1, Zenon DEF Rings
<1>10. /\ \A i \in 1..(k - 1) : list'[h][i] = list[h][i]
       /\ \A i \in k..(n - 1) : list'[h][i] = list[h][i + 1]
  BY <1>1, <1>6, <1>8
<1> QED
  BY <1>1, <1>6, <1>7, <1>8, <1>9, <1>10, Zenon DEF TakenOut

(* QNode_dequeueIf of a node, queued or not.                               *)
LEMMA DequeueIfKeeps ==
    ASSUME Distinct, Inv, NEW pn \in Nodes, QNode_dequeueIf(pn)
    PROVE  Inv'
<1>1. ListsAreRings
  BY Zenon DEF Inv
<1>2. QNode_isQueued(pn) /\ QNode_dequeue(pn) /\ loop' = loop
      /\ \A h \in Heads : loop.over = h => \A i \in 1..Len(list[h]) : list[h][i] # pn
  BY Zenon DEF QNode_dequeueIf
<1>3. PICK h \in Heads : \E i \in 1..Len(list[h]) : list[h][i] = pn
  BY <1>1, <1>2, Places, Zenon
<1>4. PICK k \in 1..Len(list[h]) : list[h][k] = pn
  BY <1>3, Zenon
<1>5. TakenOut(h, k) /\ loop.over # h
  BY <1>1, <1>2, <1>4, DequeueTakesOut, Zenon
<1> QED
  BY <1>2, <1>5, TakenOutKeeps, Zenon

(* A move between lists that are not looped over, of some nodes or of none.*)
LEMMA MovedKeeps ==
    ASSUME Distinct, Inv, NEW d \in Heads, NEW s \in Heads, d # s, loop.over \notin {d, s},
           loop' = loop,
           \/ Len(list[s]) > 0 /\ MovedTo(d, s)
           \/ UNCHANGED <<pNext, pPrev, list>>
    PROVE  Inv'
<1>1. TypeOK /\ ListsAreRings /\ LoopInv /\ loop.over \in Heads \cup {Null}
  BY Zenon DEF Inv, ListsAreRings, TypeOK
<1>2. CASE Len(list[s]) > 0 /\ MovedTo(d, s)
  <2>1. /\ pNext' \in [Cells -> Cells \cup {Null}] /\ pPrev' \in [Cells -> Cells \cup {Null}]
        /\ Rings' /\ QueuedOnce'
    BY <1>1, <1>2, MoveKeeps, Zenon
  <2>2. list' \in [Heads -> Seq(Nodes)] /\ \A g \in Heads : g # d /\ g # s => list'[g] = list[g]
    BY <1>2, Zenon DEF MovedTo
  <2>3. TypeOK'
    BY <1>1, <2>1, <2>2, Zenon DEF TypeOK
  <2>4. LoopInv'
    BY <1>1, <2>2, LoopKept, Zenon
  <2> QED
    BY <2>1, <2>3, <2>4, Zenon DEF Inv, ListsAreRings
<1>3. CASE UNCHANGED <<pNext, pPrev, list>>
  BY <1>1, <1>3 DEF Inv, ListsAreRings, TypeOK, Rings, QueuedOnce, At, After, LoopInv, Left
<1> QED
  BY <1>2, <1>3, Zenon

(* The lists after a move.                                                 *)
LEMMA MovedLists ==
    ASSUME TypeOK, NEW d \in Heads, NEW s \in Heads, d # s,
           list' = [list EXCEPT ![d] = list[d] \o list[s], ![s] = <<>>]
    PROVE  /\ list' \in [Heads -> Seq(Nodes)]
           /\ Len(list'[s]) = 0 /\ Len(list'[d]) = Len(list[d]) + Len(list[s])
           /\ \A i \in 1..Len(list[d]) : list'[d][i] = list[d][i]
           /\ \A i \in 1..Len(list[s]) : list'[d][Len(list[d]) + i] = list[s][i]
           /\ \A g \in Heads : g # d /\ g # s => list'[g] = list[g]
           /\ Len(list[s]) = 0 => list' = list
<1> DEFINE ld == list[d]
           ls == list[s]
           lc == ld \o ls
<1>1. ld \in Seq(Nodes) /\ ls \in Seq(Nodes) /\ list \in [Heads -> Seq(Nodes)]
  BY Zenon DEF TypeOK
<1>e. list' = [list EXCEPT ![d] = lc, ![s] = <<>>]
  BY Zenon
<1>c. lc \in Seq(Nodes) /\ <<>> \in Seq(Nodes)
  <2> HIDE DEF ld, ls
  <2> QED
    BY <1>1
<1> HIDE DEF lc
<1>2. list' \in [Heads -> Seq(Nodes)] /\ list'[d] = lc /\ list'[s] = <<>>
      /\ \A g \in Heads : g # d /\ g # s => list'[g] = list[g]
  BY <1>1, <1>e, <1>c, Zenon
<1> HIDE DEF ld, ls
<1>3. /\ Len(lc) = Len(ld) + Len(ls)
      /\ \A i \in 1..Len(ld) : lc[i] = ld[i]
      /\ \A i \in 1..Len(ls) : lc[Len(ld) + i] = ls[i]
  BY <1>1 DEF lc
<1>4. Len(ls) = 0 => lc = ld /\ ls = <<>>
  BY <1>1 DEF lc
<1>5. Len(ls) = 0 => list' = list
  <2> SUFFICES ASSUME Len(ls) = 0 PROVE \A g \in Heads : list'[g] = list[g]
    BY <1>1, <1>2, Zenon
  <2> QED
    BY <1>2, <1>4, Zenon DEF ld, ls
<1> QED
  BY <1>2, <1>3, <1>5, Zenon DEF ld, ls

(* Where the ends of the two lists of a move are.                          *)
LEMMA MoveEnds ==
    ASSUME Distinct, ListsAreRings, NEW d \in Heads, NEW s \in Heads, d # s
    PROVE  LET dl == At(d, Len(list[d])) sl == At(s, Len(list[s])) IN
           /\ d \in Cells /\ s \in Cells /\ dl \in Cells /\ sl \in Cells /\ dl # s
           /\ pPrev[d] = dl /\ pNext[dl] = d /\ pPrev[s] = sl /\ pNext[sl] = s
           /\ Len(list[s]) = 0 => sl = s
           /\ Len(list[s]) > 0 => /\ pNext[s] = At(s, 1) /\ At(s, 1) \in Cells
                                  /\ At(s, 1) # s /\ At(s, 1) # d /\ sl # s /\ sl # d
<1> DEFINE n == Len(list[d])
           m == Len(list[s])
<1>1. n \in Nat /\ m \in Nat /\ n \in 0..Len(list[d]) /\ m \in 0..Len(list[s])
      /\ 0 \in 0..Len(list[s]) /\ 0 \in 0..Len(list[d])
  BY Places
<1>2. At(d, 0) = d /\ At(s, 0) = s /\ After(d, n) = 0 /\ After(s, m) = 0
  BY Zenon DEF At, After
<1>3. m > 0 => After(s, 0) = 1 /\ 1 \in 0..Len(list[s])
  BY <1>1 DEF After
<1>4. Rings
  BY Zenon DEF ListsAreRings
<1> HIDE DEF n, m
<1>5. pPrev[d] = At(d, n) /\ pNext[At(d, n)] = d /\ pPrev[s] = At(s, m) /\ pNext[At(s, m)] = s
  BY <1>1, <1>2, <1>4 DEF Rings
<1>6. m > 0 => pNext[s] = At(s, 1)
  BY <1>1, <1>2, <1>3, <1>4, Zenon DEF Rings
<1>7. d \in Cells /\ s \in Cells /\ At(d, n) \in Cells /\ At(s, m) \in Cells /\ (m > 0 => At(s, 1) \in Cells)
  BY <1>1, <1>3, Places, Zenon DEF Cells
<1>8. At(d, n) # At(s, 0)
  BY <1>1, Places, Zenon
<1>9. m > 0 => At(s, 1) # At(s, 0) /\ At(s, 1) # At(d, 0)
  BY <1>1, <1>3, Places
<1>10. m > 0 => At(s, m) # At(s, 0) /\ At(s, m) # At(d, 0)
  BY <1>1, Places
<1> QED
  BY <1>2, <1>5, <1>6, <1>7, <1>8, <1>9, <1>10, Zenon DEF n, m

(* QList_appendList: the nodes of one ring join another.                   *)
LEMMA AppendListKeeps ==
    ASSUME Distinct, Inv, NEW d \in Heads, NEW s \in Heads, QList_appendList(d, s)
    PROVE  Inv'
<1> DEFINE dl == At(d, Len(list[d]))
           sl == At(s, Len(list[s]))
           sf == At(s, 1)
<1>1. TypeOK /\ ListsAreRings /\ Len(list[s]) \in Nat
  BY Places, Zenon DEF Inv, ListsAreRings
<1>2. d # s /\ loop.over \notin {d, s} /\ loop' = loop
      /\ list' = [list EXCEPT ![d] = list[d] \o list[s], ![s] = <<>>]
  BY Zenon DEF QList_appendList
<1>3. /\ d \in Cells /\ s \in Cells /\ dl \in Cells /\ sl \in Cells /\ dl # s
      /\ pPrev[d] = dl /\ pNext[dl] = d /\ pPrev[s] = sl /\ pNext[sl] = s
      /\ Len(list[s]) = 0 => sl = s
      /\ Len(list[s]) > 0 => /\ pNext[s] = sf /\ sf \in Cells
                             /\ sf # s /\ sf # d /\ sl # s /\ sl # d
  BY <1>1, <1>2, MoveEnds, Zenon
<1>4. LET prev1 == [pPrev EXCEPT ![pNext[s]] = pPrev[d]]
      IN /\ pPrev' = [prev1 EXCEPT ![d] = prev1[s], ![s] = s]
         /\ pNext' = [pNext EXCEPT ![pPrev[d]] = pNext[s], ![prev1[s]] = d, ![s] = s]
  BY Zenon DEF QList_appendList
<1>5. pNext \in [Cells -> Cells \cup {Null}] /\ pPrev \in [Cells -> Cells \cup {Null}]
  BY <1>1, Zenon DEF TypeOK
<1> HIDE DEF dl, sl, sf
<1>6. CASE Len(list[s]) = 0
  <2>1. pNext[s] = s /\ pPrev[s] = s
    BY <1>3, <1>6, Zenon
  <2>2. pPrev' = [[pPrev EXCEPT ![s] = dl] EXCEPT ![d] = dl, ![s] = s]
    BY <2>1, <1>3, <1>4, <1>5, Zenon
  <2>3. pNext' = [pNext EXCEPT ![dl] = s, ![dl] = d, ![s] = s]
    BY <2>1, <1>3, <1>4, <1>5, Zenon
  <2>4. pPrev' = pPrev /\ pNext' = pNext
    BY <2>1, <2>2, <2>3, <1>2, <1>3, <1>5, Zenon
  <2>5. list' = list
    BY <1>1, <1>2, <1>6, MovedLists, Zenon
  <2> QED
    BY <2>4, <2>5, <1>2, MovedKeeps, Zenon
<1>7. CASE Len(list[s]) > 0
  <2>1. pPrev' = [pPrev EXCEPT ![sf] = dl, ![d] = sl, ![s] = s]
    BY <1>3, <1>4, <1>5, <1>7, Zenon
  <2>2. pNext' = [pNext EXCEPT ![dl] = sf, ![sl] = d, ![s] = s]
    BY <1>3, <1>4, <1>5, <1>7, Zenon
  <2>3. MovedTo(d, s)
    BY <2>1, <2>2, <1>1, <1>2, MovedLists, Zenon DEF MovedTo, dl, sl, sf
  <2> QED
    BY <2>3, <1>2, <1>7, MovedKeeps, Zenon
<1> QED
  BY <1>1, <1>6, <1>7

(* QList_constructFrom: a ring moves to another head.                      *)
LEMMA ConstructFromKeeps ==
    ASSUME Distinct, Inv, NEW d \in Heads, NEW s \in Heads, QList_constructFrom(d, s)
    PROVE  Inv'
<1> DEFINE sl == At(s, Len(list[s]))
           sf == At(s, 1)
<1>1. TypeOK /\ ListsAreRings /\ Len(list[s]) \in Nat /\ list \in [Heads -> Seq(Nodes)]
  BY Places, Zenon DEF Inv, ListsAreRings, TypeOK
<1>2. d # s /\ loop.over \notin {d, s} /\ loop' = loop /\ QList_isEmpty(d)
  BY Zenon DEF QList_constructFrom
<1>3. Len(list[d]) = 0 /\ At(d, Len(list[d])) = d
  BY <1>1, <1>2, Ends, Zenon DEF At
<1>4. list' = [list EXCEPT ![d] = list[d] \o list[s], ![s] = <<>>]
  <2>1. list[d] \in Seq(Nodes) /\ list[s] \in Seq(Nodes)
    BY <1>1, Zenon
  <2>2. list[d] = <<>>
    BY <2>1, <1>3
  <2>3. <<>> \o list[s] = list[s]
    BY <2>1
  <2>4. list' = [list EXCEPT ![d] = list[s], ![s] = <<>>]
    BY Zenon DEF QList_constructFrom
  <2> QED
    BY <2>2, <2>3, <2>4, Zenon
<1>5. /\ d \in Cells /\ s \in Cells /\ sl \in Cells
      /\ pPrev[d] = d /\ pNext[d] = d /\ pPrev[s] = sl /\ pNext[sl] = s
      /\ Len(list[s]) = 0 => sl = s
      /\ Len(list[s]) > 0 => /\ pNext[s] = sf /\ sf \in Cells
                             /\ sf # s /\ sf # d /\ sl # s /\ sl # d
  BY <1>1, <1>2, <1>3, MoveEnds, Zenon
<1>6. LET prev1 == [pPrev EXCEPT ![pNext[s]] = d]
          prev2 == [prev1 EXCEPT ![d] = prev1[s]]
          next1 == [pNext EXCEPT ![d] = pNext[s]]
      IN /\ pPrev' = [prev2 EXCEPT ![s] = s]
         /\ pNext' = [next1 EXCEPT ![prev2[s]] = d, ![s] = s]
  BY Zenon DEF QList_constructFrom
<1>7. pNext \in [Cells -> Cells \cup {Null}] /\ pPrev \in [Cells -> Cells \cup {Null}]
  BY <1>1, Zenon DEF TypeOK
<1> HIDE DEF sl, sf
<1>8. CASE Len(list[s]) = 0
  <2>1. pNext[s] = s /\ pPrev[s] = s
    BY <1>5, <1>8, Zenon
  <2>2. pPrev' = pPrev /\ pNext' = pNext
    BY <2>1, <1>2, <1>5, <1>6, <1>7, Zenon
  <2>3. list' = list
    BY <1>1, <1>2, <1>4, <1>8, MovedLists, Zenon
  <2> QED
    BY <2>2, <2>3, <1>2, MovedKeeps, Zenon
<1>9. CASE Len(list[s]) > 0
  <2>1. pPrev' = [pPrev EXCEPT ![sf] = d, ![d] = sl, ![s] = s]
    BY <1>2, <1>5, <1>6, <1>7, <1>9, Zenon
  <2>2. pNext' = [pNext EXCEPT ![d] = sf, ![sl] = d, ![s] = s]
    BY <1>2, <1>5, <1>6, <1>7, <1>9, Zenon
  <2>3. MovedTo(d, s)
    BY <2>1, <2>2, <1>1, <1>2, <1>3, <1>4, MovedLists, Zenon DEF MovedTo, sl, sf
  <2> QED
    BY <2>3, <1>2, <1>9, MovedKeeps, Zenon
<1> QED
  BY <1>1, <1>8, <1>9

(* A QLIST_NEXTSAFE_FOR loop reads its first node and the one after.       *)
LEMMA LoopBeginsKeeps ==
    ASSUME Distinct, Inv, NEW h \in Heads, LoopBegins(h)
    PROVE  Inv'
<1> DEFINE n == Len(list[h])
<1>1. TypeOK /\ ListsAreRings /\ Rings /\ QueuedOnce /\ n \in Nat /\ Len(list[h]) = n
  BY Places, Zenon DEF Inv, ListsAreRings
<1>2. UNCHANGED <<pNext, pPrev, list>>
      /\ loop' = [over |-> h, pn |-> pNext[h], pnn |-> pNext[pNext[h]], seen |-> <<>>, all |-> list[h]]
  BY Zenon DEF LoopBegins
<1> HIDE DEF n
<1>3. /\ pNext[h] = At(h, After(h, 0)) /\ At(h, 0) = h /\ 0 \in 0..n /\ After(h, 0) \in 0..n
      /\ After(h, 0) = (IF n = 0 THEN 0 ELSE 1)
  BY <1>1, Ends DEF After
<1>4. pNext[h] \in Cells /\ pNext[h] = IF n = 0 THEN h ELSE list[h][1]
  BY <1>1, <1>3, Places DEF At
<1>5. n > 0 => pNext[pNext[h]] = IF n = 1 THEN h ELSE list[h][2]
  <2> SUFFICES ASSUME n > 0 PROVE pNext[At(h, 1)] = IF n = 1 THEN h ELSE list[h][2]
    BY <1>3
  <2>1. 1 \in 0..n /\ After(h, 1) = IF n = 1 THEN 0 ELSE 2
    BY <1>1 DEF After
  <2>2. pNext[At(h, 1)] = At(h, After(h, 1))
    BY <1>1, <2>1, Zenon DEF Rings
  <2> QED
    BY <2>1, <2>2, <1>3 DEF At
<1>6. list[h] \in Seq(Nodes) /\ pNext[pNext[h]] \in Cells \cup {Null} /\ <<>> \in Seq(Nodes)
  BY <1>1, <1>4 DEF TypeOK
<1>7. loop' \in [over : Heads \cup {Null}, pn : Cells \cup {Null}, pnn : Cells \cup {Null},
                 seen : Seq(Nodes), all : Seq(Nodes)]
  BY <1>2, <1>4, <1>6, Zenon
<1>8. TypeOK' /\ Rings' /\ QueuedOnce'
  BY <1>1, <1>2, <1>7 DEF TypeOK, Rings, QueuedOnce, At, After
<1>9. LoopInv'
  <2>1. loop'.over = h /\ loop'.pn = pNext[h] /\ loop'.pnn = pNext[pNext[h]]
        /\ Len(loop'.seen) = 0 /\ loop'.all = list[h] /\ list' = list
    BY <1>2, Zenon
  <2>2. Left' = n /\ Len(list'[h]) - Left' = 0
    BY <2>1, <1>1 DEF Left
  <2>3. /\ n >= 0 /\ 0 >= 0
        /\ \A j \in 1..0 : loop'.seen[j] = loop'.all[j]
        /\ \A j \in 1..n : list'[h][0 + j] = loop'.all[0 + j]
        /\ loop'.pn = IF n = 0 THEN h ELSE loop'.all[0 + 1]
        /\ n > 0 => loop'.pnn = IF n = 1 THEN h ELSE loop'.all[0 + 2]
    BY <2>1, <1>1, <1>4, <1>5
  <2> HIDE DEF Left
  <2> QED
    BY <2>1, <2>2, <2>3, Zenon DEF LoopInv
<1> QED
  BY <1>8, <1>9, Zenon DEF Inv, ListsAreRings

(* One round of the loop, whatever its body did: the nodes after the one   *)
(* it was at are the last of the list.                                     *)
LEMMA RoundKeeps ==
    ASSUME Distinct, Inv, ListsAreRings', NEW h \in Heads, loop.over = h, loop.pn # h,
           loop' = [loop EXCEPT !.seen = Append(@, loop.pn), !.pn = loop.pnn, !.pnn = pNext'[loop.pnn]],
           NEW r \in Nat, Len(list'[h]) = r + (Left - 1),
           \A j \in 1..(Left - 1) : list'[h][r + j] = loop.all[Len(loop.seen) + 1 + j]
    PROVE  LoopInv'
<1> DEFINE k == Len(loop.seen)
           m == Left
<1>1. TypeOK /\ h # Null /\ k \in Nat /\ Len(loop.all) \in Nat /\ loop.seen \in Seq(Nodes)
      /\ loop.all \in Seq(Nodes) /\ m = Len(loop.all) - k
  BY DEF Inv, ListsAreRings, TypeOK, Distinct, Cells, Left
<1>2. /\ m >= 0
      /\ \A j \in 1..k : loop.seen[j] = loop.all[j]
      /\ loop.pn = IF m = 0 THEN h ELSE loop.all[k + 1]
      /\ m > 0 => loop.pnn = IF m = 1 THEN h ELSE loop.all[k + 2]
  BY <1>1, Zenon DEF Inv, LoopInv
<1> HIDE DEF k, m
<1>3. m > 0 /\ m \in Int /\ loop.pn = loop.all[k + 1]
  BY <1>1, <1>2
<1>4. /\ loop'.over = h /\ loop'.pn = loop.pnn /\ loop'.pnn = pNext'[loop.pnn]
      /\ loop'.seen = Append(loop.seen, loop.pn) /\ loop'.all = loop.all
  BY <1>1, Zenon DEF TypeOK
<1>5. loop.pn \in Nodes
  <2>1. k + 1 \in 1..Len(loop.all)
    BY <1>1, <1>3
  <2> QED
    BY <2>1, <1>1, <1>3
<1>6. /\ Len(loop'.seen) = k + 1 /\ \A j \in 1..k : loop'.seen[j] = loop.seen[j]
      /\ loop'.seen[k + 1] = loop.pn
  BY <1>1, <1>4, <1>5 DEF k
<1>7. Left' = m - 1
  <2>1. Left' = Len(loop'.all) - Len(loop'.seen)
    BY Zenon DEF Left
  <2>2. Len(loop'.all) = Len(loop.all) /\ Len(loop'.seen) = k + 1
    BY <1>4, <1>6, Zenon
  <2>3. Left' = Len(loop.all) - (k + 1)
    BY <2>1, <2>2, Zenon
  <2>4. \A a \in Nat, b \in Nat : a - (b + 1) = (a - b) - 1
    OBVIOUS
  <2>5. Len(loop.all) - (k + 1) = (Len(loop.all) - k) - 1
    BY <1>1, <2>4, Zenon
  <2> QED
    BY <2>3, <2>5, <1>1, Zenon
<1>8. \A j \in 1..(k + 1) : loop'.seen[j] = loop'.all[j]
  BY <1>1, <1>2, <1>3, <1>4, <1>6
<1>9. Len(list'[h]) = r + (m - 1) /\ \A j \in 1..(m - 1) : list'[h][r + j] = loop.all[k + 1 + j]
  BY Zenon DEF k, m
<1>10. loop'.pn = IF m - 1 = 0 THEN h ELSE loop'.all[(k + 1) + 1]
  <2>1. (k + 1) + 1 = k + 2
    BY <1>1
  <2> QED
    BY <2>1, <1>1, <1>2, <1>3, <1>4
<1>11. m - 1 > 0 => loop'.pnn = IF m - 1 = 1 THEN h ELSE loop'.all[(k + 1) + 2]
  <2> SUFFICES ASSUME m > 1 PROVE loop'.pnn = IF m = 2 THEN h ELSE loop.all[k + 1 + 2]
    BY <1>1, <1>3, <1>4
  <2>1. 1 \in 1..(m - 1) /\ (m # 2 => 2 \in 1..(m - 1)) /\ k + 1 + 1 = k + 2 /\ r + 1 # 0 /\ r + 2 # 0
        /\ r + 1 \in 0..Len(list'[h])
    <3>1. m - 1 >= 1 /\ Len(list'[h]) = r + (m - 1) /\ m \in Int /\ k \in Nat
      BY <1>1, <1>3, <1>9
    <3> QED
      BY <3>1
  <2>2. loop.pnn = list'[h][r + 1]
    <3>1. loop.pnn = loop.all[k + 2]
      BY <1>2, <1>3
    <3>2. list'[h][r + 1] = loop.all[k + 1 + 1]
      BY <2>1, <1>9, Zenon
    <3> QED
      BY <3>1, <3>2, <2>1, Zenon
  <2> DEFINE A(i) == IF i = 0 THEN h ELSE list'[h][i]
             N(i) == IF i = Len(list'[h]) THEN 0 ELSE i + 1
  <2>3. pNext'[A(r + 1)] = A(N(r + 1))
    BY <2>1, Zenon DEF ListsAreRings, Rings, At, After
  <2>4. A(r + 1) = loop.pnn
    BY <2>1, <2>2, Zenon
  <2>5. N(r + 1) = IF m = 2 THEN 0 ELSE r + 2
    BY <1>1, <1>3, <1>9
  <2>6. A(N(r + 1)) = IF m = 2 THEN h ELSE loop.all[k + 1 + 2]
    <3> HIDE DEF N
    <3> QED
      BY <2>1, <2>5, <1>9, Zenon
  <2> HIDE DEF A, N
  <2> QED
    BY <2>3, <2>4, <2>6, <1>4, Zenon
<1>12. /\ m - 1 >= 0 /\ Len(list'[h]) - (m - 1) = r /\ r >= 0
  BY <1>1, <1>3, <1>9
<1>13. \A j \in 1..(m - 1) : list'[h][r + j] = loop'.all[(k + 1) + j]
  BY <1>4, <1>9, Zenon
<1> HIDE DEF Left
<1> QED
  BY <1>4, <1>6, <1>7, <1>8, <1>10, <1>11, <1>12, <1>13 DEF LoopInv

(* The body of the loop takes its node out or keeps it.                    *)
LEMMA LoopBodyKeeps ==
    ASSUME Distinct, Inv, NEW takeOut \in BOOLEAN, LoopBody(takeOut)
    PROVE  Inv'
<1> DEFINE h == loop.over
           k == Len(loop.seen)
           n == Len(list[h])
           r == n - Left
<1>1. TypeOK /\ ListsAreRings /\ h \in Heads /\ loop.pn # h
  BY Zenon DEF Inv, ListsAreRings, TypeOK, LoopBody
<1>2. loop' = [loop EXCEPT !.seen = Append(@, loop.pn), !.pn = loop.pnn, !.pnn = pNext'[loop.pnn]]
  BY Zenon DEF LoopBody
<1>3. h # Null /\ n \in Nat /\ k \in Nat /\ Len(loop.all) \in Nat /\ loop.all \in Seq(Nodes)
      /\ loop.seen \in Seq(Nodes) /\ Left = Len(loop.all) - k
  BY <1>1, Places DEF Distinct, Cells, TypeOK, Left
<1>4. /\ Left >= 0 /\ r >= 0
      /\ \A j \in 1..Left : list[h][r + j] = loop.all[k + j]
      /\ loop.pn = IF Left = 0 THEN h ELSE loop.all[k + 1]
      /\ Left > 0 => loop.pnn = IF Left = 1 THEN h ELSE loop.all[k + 2]
  BY <1>3, Zenon DEF Inv, LoopInv
<1>r. r = n - Left
  BY Zenon
<1> HIDE DEF Left, h, k, n, r
<1>5. Left > 0 /\ Left \in Nat /\ r \in Nat /\ n = r + Left
  BY <1>1, <1>3, <1>4, <1>r
<1>6. loop.pn = list[h][r + 1] /\ r + 1 \in 1..n /\ loop.pn \in Nodes /\ loop.pnn \in Cells
  <2>1. 1 \in 1..Left /\ k + 1 \in 1..Len(loop.all) /\ (Left # 1 => k + 2 \in 1..Len(loop.all))
    BY <1>3, <1>5
  <2>2. \A j \in 1..Len(loop.all) : loop.all[j] \in Nodes
    BY <1>3
  <2>3. loop.pn = loop.all[k + 1] /\ loop.pnn = IF Left = 1 THEN h ELSE loop.all[k + 2]
    BY <1>4, <1>5
  <2>4. r + 1 \in 1..n
    BY <1>3, <1>5
  <2> QED
    BY <2>1, <2>2, <2>3, <2>4, <1>1, <1>4, Zenon DEF Cells
<1>7. ASSUME pNext' \in [Cells -> Cells \cup {Null}], pPrev' \in [Cells -> Cells \cup {Null}],
             list' \in [Heads -> Seq(Nodes)]
      PROVE  TypeOK'
  <2>1. pNext'[loop.pnn] \in Cells \cup {Null} /\ Append(loop.seen, loop.pn) \in Seq(Nodes)
    BY <1>3, <1>6, <1>7
  <2>2. loop' \in [over : Heads \cup {Null}, pn : Cells \cup {Null}, pnn : Cells \cup {Null},
                   seen : Seq(Nodes), all : Seq(Nodes)]
    BY <2>1, <1>1, <1>2, <1>6, Zenon DEF TypeOK
  <2> QED
    BY <2>2, <1>7, Zenon DEF TypeOK
<1>8. CASE ~takeOut
  <2>1. UNCHANGED <<pNext, pPrev, list>>
    BY <1>8, Zenon DEF LoopBody
  <2>2. TypeOK'
    BY <2>1, <1>1, <1>7, Zenon DEF TypeOK
  <2>3. ListsAreRings'
    BY <2>1, <2>2, <1>1 DEF ListsAreRings, Rings, QueuedOnce, At, After
  <2>4. r + 1 \in Nat /\ Len(list'[h]) = (r + 1) + (Left - 1)
    BY <2>1, <1>5 DEF n
  <2>5. \A j \in 1..(Left - 1) : list'[h][(r + 1) + j] = loop.all[Len(loop.seen) + 1 + j]
    <3> SUFFICES ASSUME NEW j \in 1..(Left - 1)
                 PROVE  list[h][(r + 1) + j] = loop.all[k + 1 + j]
      BY <2>1, Zenon DEF k
    <3>1. 1 + j \in 1..Left /\ r + (1 + j) = (r + 1) + j /\ k + (1 + j) = k + 1 + j
      BY <1>3, <1>5
    <3> QED
      BY <3>1, <1>4, Zenon
  <2>6. LoopInv'
    BY <2>3, <2>4, <2>5, <1>1, <1>2, RoundKeeps, Zenon DEF h
  <2> QED
    BY <2>3, <2>6, Zenon DEF Inv
<1>9. CASE takeOut
  <2>1. QNode_dequeue(loop.pn)
    BY <1>9, Zenon DEF LoopBody
  <2>2. TakenOut(h, r + 1)
    BY <2>1, <1>1, <1>6, DequeueTakesOut, Zenon DEF n
  <2>3. /\ pNext' \in [Cells -> Cells \cup {Null}] /\ pPrev' \in [Cells -> Cells \cup {Null}]
        /\ Rings' /\ QueuedOnce'
    BY <2>2, <1>1, <1>6, RemoveKeeps, Zenon DEF n
  <2>4. list' \in [Heads -> Seq(Nodes)] /\ Len(list'[h]) = n - 1
        /\ \A i \in (r + 1)..(n - 1) : list'[h][i] = list[h][i + 1]
    BY <2>2, Zenon DEF TakenOut, n
  <2>5. ListsAreRings'
    BY <2>3, <2>4, <1>7, Zenon DEF ListsAreRings
  <2>6. Len(list'[h]) = r + (Left - 1)
    BY <2>4, <1>5
  <2>7. \A j \in 1..(Left - 1) : list'[h][r + j] = loop.all[Len(loop.seen) + 1 + j]
    <3> SUFFICES ASSUME NEW j \in 1..(Left - 1)
                 PROVE  list'[h][r + j] = loop.all[k + 1 + j]
      BY Zenon DEF k
    <3>1. /\ r + j \in (r + 1)..(n - 1) /\ (r + j) + 1 = r + (1 + j)
          /\ 1 + j \in 1..Left /\ k + (1 + j) = k + 1 + j
      BY <1>3, <1>5
    <3> QED
      BY <3>1, <2>4, <1>4, Zenon
  <2>8. LoopInv'
    BY <2>5, <2>6, <2>7, <1>1, <1>2, <1>5, RoundKeeps, Zenon DEF h
  <2> QED
    BY <2>5, <2>8 DEF Inv
<1> QED
  BY <1>8, <1>9, Zenon

(* Every operation keeps the invariant.                                    *)
LEMMA InvStep ==
    ASSUME Distinct, Inv, [Next]_vars
    PROVE  Inv'
<1>1. CASE LoopEnds
  <2>1. UNCHANGED <<pNext, pPrev, list>> /\ loop' = NoLoop /\ TypeOK /\ Rings /\ QueuedOnce
    BY <1>1, Zenon DEF LoopEnds, Inv, ListsAreRings
  <2>2. TypeOK'
    <3>1. <<>> \in Seq(Nodes)
      OBVIOUS
    <3> QED
      BY <2>1, <3>1, Zenon DEF TypeOK, NoLoop
  <2>3. Rings' /\ QueuedOnce' /\ LoopInv'
    BY <2>1 DEF Rings, QueuedOnce, At, After, LoopInv, NoLoop
  <2> QED
    BY <2>2, <2>3, Zenon DEF Inv, ListsAreRings
<1>2. CASE UNCHANGED vars
  <2>1. pNext' = pNext /\ pPrev' = pPrev /\ list' = list /\ loop' = loop
    BY <1>2, Zenon DEF vars
  <2>2. TypeOK' /\ Rings' /\ QueuedOnce'
    <3>1. TypeOK'
      BY <2>1, Zenon DEF Inv, ListsAreRings, TypeOK
    <3>2. Rings'
      BY <2>1 DEF Inv, ListsAreRings, Rings, At, After
    <3>3. QueuedOnce'
      BY <2>1 DEF Inv, ListsAreRings, QueuedOnce
    <3> QED
      BY <3>1, <3>2, <3>3
  <2>3. LoopInv'
    BY <2>1, LoopKept, Zenon DEF Inv
  <2> QED
    BY <2>2, <2>3, Zenon DEF Inv, ListsAreRings
<1> QED
  BY <1>1, <1>2, AppendKeeps, PrependKeeps, DequeueIfKeeps, PopKeeps, PopLastKeeps, AppendListKeeps,
     ConstructFromKeeps, LoopBeginsKeeps, LoopBodyKeeps, Zenon DEF Next

(* The pointers of the lists of qlist.h are, after any operations on any   *)
(* number of lists and nodes, the rings of the lists they stand for, and a *)
(* loop that takes nodes out of its list (QLIST_NEXTSAFE_FOR_ALL) visits   *)
(* each of them once and in order.                                         *)
THEOREM RingsAlways ==
    ASSUME Distinct
    PROVE  Spec => [](ListsAreRings /\ LoopSeesAll)
<1>1. Init => Inv
  <2> SUFFICES ASSUME Init PROVE Inv
    BY Zenon
  <2>1. <<>> \in Seq(Nodes) /\ Len(<<>>) = 0 /\ \A h \in Heads : list[h] = <<>>
    BY DEF Init
  <2>2. TypeOK
    BY <2>1, Zenon DEF Init, TypeOK, Cells, NoLoop
  <2>3. Rings
    BY <2>1 DEF Init, Rings, At, After, Cells
  <2>4. QueuedOnce
    BY <2>1 DEF Init, QueuedOnce, Cells, Distinct
  <2>5. LoopInv
    BY Zenon DEF Init, LoopInv, NoLoop
  <2> QED
    BY <2>2, <2>3, <2>4, <2>5, Zenon DEF Inv, ListsAreRings
<1>2. Inv /\ [Next]_vars => Inv'
  BY InvStep, Zenon
<1>3. Inv => ListsAreRings /\ LoopSeesAll
  <2> SUFFICES ASSUME Inv, loop.over # Null
               PROVE  LoopSeesAll
    BY Zenon DEF Inv, LoopSeesAll
  <2> DEFINE h == loop.over
             k == Len(loop.seen)
             r == Len(list[h]) - Left
  <2>1. /\ h \in Heads /\ k \in Nat /\ Len(loop.all) \in Nat /\ loop.all \in Seq(Nodes)
        /\ Len(list[h]) \in Nat /\ Left = Len(loop.all) - k
    BY DEF Inv, ListsAreRings, TypeOK, Left
  <2>2. /\ Left >= 0 /\ r >= 0
        /\ \A j \in 1..k : loop.seen[j] = loop.all[j]
        /\ \A j \in 1..Left : list[h][r + j] = loop.all[k + j]
        /\ loop.pn = IF Left = 0 THEN h ELSE loop.all[k + 1]
    BY Zenon DEF Inv, LoopInv
  <2>r. r = Len(list[h]) - Left
    BY Zenon
  <2> HIDE DEF Left, h, k, r
  <2>3. Left > 0 => /\ k + 1 \in 1..Len(loop.all) /\ 1 \in 1..Left
                    /\ r + 1 \in 1..Len(list[h])
    <3>1. \A a, b, c \in Nat : c = a - b /\ c > 0 => b + 1 \in 1..a /\ 1 \in 1..c
      OBVIOUS
    <3>2. \A a, c \in Nat, b \in Int : b = a - c /\ b >= 0 /\ c > 0 => b + 1 \in 1..a
      OBVIOUS
    <3>3. Left \in Nat /\ r \in Int /\ r >= 0
      BY <2>1, <2>2, <2>r
    <3> QED
      BY <3>1, <3>2, <3>3, <2>1, <2>r, Zenon
  <2>4. Left > 0 => loop.pn \in Nodes /\ loop.pn = list[h][r + 1]
    BY <2>1, <2>2, <2>3
  <2>5. loop.pn = h => Left = 0
    BY <2>1, <2>2, <2>4 DEF Distinct
  <2>6. \A j \in 1..k : j <= Len(loop.all) /\ loop.seen[j] = loop.all[j]
    BY <2>1, <2>2
  <2> QED
    <3>1. h = loop.over /\ k = Len(loop.seen)
      BY Zenon DEF h, k
    <3>2. loop.pn = loop.over => Len(loop.seen) = Len(loop.all)
      BY <3>1, <2>1, <2>5
    <3>3. loop.pn # loop.over => \E i \in 1..Len(list[loop.over]) : list[loop.over][i] = loop.pn
      <4> SUFFICES ASSUME loop.pn # h
                   PROVE  \E i \in 1..Len(list[h]) : list[h][i] = loop.pn
        BY <3>1, Zenon
      <4>1. Left > 0
        BY <2>1, <2>2
      <4> QED
        BY <4>1, <2>3, <2>4, Zenon
    <3> QED
      BY <3>1, <3>2, <3>3, <2>6, Zenon DEF LoopSeesAll
<1> QED
  BY <1>1, <1>2, <1>3, PTL DEF Spec
===========================================================================
