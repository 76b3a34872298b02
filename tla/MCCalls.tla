------------------------------- MODULE MCCalls ------------------------------
(* Calls that wait for another thread, process or world: the bytes of a    *)
(* connection, its invocations, the life of its socket, the service that   *)
(* listens, the tunnel to the secure world and the adaptor of the kernel's *)
(* TEE driver. They share no state: a behaviour follows one of them, the   *)
(* subject, and the others stay as they begin.                             *)
EXTENDS Integers, Sequences, FiniteSets, FiniteSetTheorems, TLAPS

CONSTANTS
    Invs,             \* Invocations: the invocations
    SendersA,         \* Streams: threads that send at one end
    SendersB,         \* and at the other,
    Sizes,            \* sizes of messages,
    Cap, MaxPayload,  \* what a buffer and a packet hold
    MaxCloses,        \* and a bound on ends that close of themselves
    Works,            \* SocketLife: works of the pool,
    Fwds,             \* forwarders
    Owner,            \* and the session
    Workers,          \* MinkAdaptor: threads of the supplicant,
    Cbos,             \* callback objects,
    Ptrs,             \* heap blocks
    MaxRequests,      \* and bounds on the requests of the secure world
    MaxCopies         \* and on its copies of one object

VARIABLES subject, so_kind, so_refs, so_bDone, so_firstShot, so_freed, so_deaf, so_fwd,
    so_pc, ad_pc, ad_sigpending, ad_killed, ad_req, ad_requests, ad_alloc, ad_heap, ad_sup,
    ad_failed, ad_copies, ad_refs, ad_held, ad_badfree, st_sockType, st_open, st_mutex,
    st_chan, st_pc, st_msg, st_left, st_rpc, st_got, st_intact, st_closes, in_bDone,
    in_qlInvokes, in_inv, in_thread, in_bComplete, in_result, in_handler, in_tls,
    in_reader, in_spurious, ip_ipc, ip_me, ip_sessions, ip_received, ip_lpc, ip_lmsg,
    ip_target, ip_app, ti_mtx, ti_ctr, ti_ot, ti_tif, ti_stack, ti_calls, ti_faults

-----------------------------------------------------------------------------
(* Invocations over a connection, one of which may be nested in another.   *)
InVars == <<in_bDone, in_qlInvokes, in_inv, in_thread, in_bComplete, in_result, in_handler,
        in_tls, in_reader, in_spurious>>
In == INSTANCE Invocations WITH
    bDone <- in_bDone, qlInvokes <- in_qlInvokes, inv <- in_inv, thread <- in_thread,
    bComplete <- in_bComplete, result <- in_result, handler <- in_handler, tls <- in_tls,
    reader <- in_reader, spurious <- in_spurious, A <- "A", B <- "B", Invs <- Invs,
    NONE <- "none", CLOSED <- "closed", MaxDepth <- 2, MaxSpurious <- 0

(* The names of ends and results name no invocation.                       *)
ASSUME InvocationsAssumption == In!NamesApart

(* Two invocations of one end never share an id.                           *)
LEMMA SameIdSame ==
    ASSUME In!NamesApart, In!Types, In!IdsGiven, In!OneHeir, NEW i \in Invs, NEW j \in Invs,
           in_thread[i] # "unused", in_thread[j] # "unused",
           in_inv[i].end = in_inv[j].end, in_inv[i].id = in_inv[j].id
    PROVE  i = j
<1>1. \A e \in In!Ends : In!Other(e) # e
  BY DEF In!NamesApart, In!Ends, In!Other
<1>2. in_inv[i].end \in In!Ends /\ in_inv[i].parent \in Invs \cup {"none"} /\ in_inv[j].parent \in Invs \cup {"none"}
  BY Zenon DEF In!Types
<1>3. CASE in_inv[i].parent = "none" /\ in_inv[j].parent = "none"
  BY <1>3 DEF In!IdsGiven
<1>4. CASE in_inv[i].parent = "none" /\ in_inv[j].parent # "none"
  BY <1>1, <1>2, <1>4 DEF In!IdsGiven
<1>5. CASE in_inv[i].parent # "none" /\ in_inv[j].parent = "none"
  BY <1>1, <1>2, <1>5 DEF In!IdsGiven
<1>6. CASE in_inv[i].parent # "none" /\ in_inv[j].parent # "none"
  BY <1>2, <1>6 DEF In!IdsGiven, In!OneHeir
<1> QED
  BY <1>3, <1>4, <1>5, <1>6, Zenon

(* A reply finds its own invocation, or none.                              *)
LEMMA FoundIsOwn ==
    ASSUME In!NamesApart, In!Types, In!IdsGiven, In!OneHeir, In!QueueHolds, NEW i \in Invs, in_thread[i] # "unused"
    PROVE  /\ In!Queued(i) => In!GetInvokeInfo(in_inv[i].end, in_inv[i].id) = i
           /\ ~In!Queued(i) => In!GetInvokeInfo(in_inv[i].end, in_inv[i].id) = "none"
<1> DEFINE q == in_qlInvokes[in_inv[i].end]
           I == {k \in 1..Len(q) : in_inv[q[k]].id = in_inv[i].id}
<1>1. in_inv[i].end \in In!Ends /\ q \in Seq(Invs)
  BY Zenon DEF In!Types
<1>2. \A k \in 1..Len(q) : q[k] \in Invs
  BY <1>1
<1>3. ASSUME NEW k \in 1..Len(q), in_inv[q[k]].id = in_inv[i].id
      PROVE  q[k] = i
  <2>1. q[k] \in Invs /\ in_inv[q[k]].end = in_inv[i].end /\ in_thread[q[k]] # "unused"
    BY <1>1, <1>2 DEF In!QueueHolds, In!Waits
  <2> QED
    BY <2>1, <1>3, SameIdSame, Zenon
<1>4. In!GetInvokeInfo(in_inv[i].end, in_inv[i].id) = IF I = {} THEN "none" ELSE q[CHOOSE k \in I : \A l \in I : k <= l]
  BY Zenon DEF In!GetInvokeInfo, In!FirstWith
<1>5. CASE In!Queued(i)
  <2>1. PICK k \in 1..Len(q) : q[k] = i
    BY <1>5, Zenon DEF In!Queued
  <2>2. I = {k}
    <3>1. \A l \in 1..Len(q) : q[l] = i => l = k
      BY <1>1, <2>1 DEF In!QueueHolds
    <3> QED
      BY <3>1, <2>1, <1>3, Zenon
  <2>3. (CHOOSE m \in I : \A l \in I : m <= l) = k
    <3>1. k <= k
      BY <1>1, <2>1
    <3> QED
      BY <2>2, <3>1, Zenon
  <2>4. In!GetInvokeInfo(in_inv[i].end, in_inv[i].id) = q[k]
    BY <1>4, <2>2, <2>3, Zenon
  <2> QED
    BY <1>5, <2>1, <2>4, Zenon
<1>6. CASE ~In!Queued(i)
  <2>1. I = {}
    BY <1>3, <1>6, Zenon DEF In!Queued
  <2> QED
    BY <1>4, <1>6, <2>1, Zenon
<1> QED
  BY <1>5, <1>6, Zenon

(* What is left of a queue without one of its entries.                     *)
LEMMA Dequeued ==
    ASSUME NEW q \in Seq(Invs), NEW j,
           \A k, l \in 1..Len(q) : q[k] = q[l] => k = l
    PROVE  /\ In!Dequeue(q, j) \in Seq(Invs)
           /\ \A k \in 1..Len(In!Dequeue(q, j)) :
                 In!Dequeue(q, j)[k] # j /\ \E l \in 1..Len(q) : q[l] = In!Dequeue(q, j)[k]
           /\ \A k, l \in 1..Len(In!Dequeue(q, j)) : In!Dequeue(q, j)[k] = In!Dequeue(q, j)[l] => k = l
           /\ \A l \in 1..Len(q) : q[l] # j => \E k \in 1..Len(In!Dequeue(q, j)) : In!Dequeue(q, j)[k] = q[l]
<1>0. \A x : x \in In!Range(q) <=> \E l \in 1..Len(q) : q[l] = x
  <2>1. DOMAIN q = 1..Len(q)
    OBVIOUS
  <2> QED
    BY <2>1, Zenon DEF In!Range
<1>1. CASE \A l \in 1..Len(q) : q[l] # j
  <2>1. In!Dequeue(q, j) = q
    BY <1>0, <1>1, Zenon DEF In!Dequeue
  <2> QED
    BY <1>1, <2>1
<1>2. ASSUME NEW m \in 1..Len(q), q[m] = j
      PROVE  In!Dequeue(q, j) = SubSeq(q, 1, m - 1) \o SubSeq(q, m + 1, Len(q))
  <2>1. (CHOOSE k \in 1..Len(q) : q[k] = j) = m
    BY <1>2, Zenon
  <2> QED
    BY <1>0, <1>2, <2>1, Zenon DEF In!Dequeue
<1>3. ASSUME NEW m \in 1..Len(q), q[m] = j,
             NEW r, r = SubSeq(q, 1, m - 1) \o SubSeq(q, m + 1, Len(q))
      PROVE  /\ r \in Seq(Invs) /\ Len(r) = Len(q) - 1
             /\ \A k \in 1..Len(r) : r[k] = IF k < m THEN q[k] ELSE q[k + 1]
  <2>1. SubSeq(q, 1, m - 1) \in Seq(Invs) /\ Len(SubSeq(q, 1, m - 1)) = m - 1
    BY <1>3
  <2>2. SubSeq(q, m + 1, Len(q)) \in Seq(Invs) /\ Len(SubSeq(q, m + 1, Len(q))) = Len(q) - m
    BY <1>3
  <2>3. ASSUME NEW a \in Seq(Invs), NEW b \in Seq(Invs)
        PROVE  /\ a \o b \in Seq(Invs) /\ Len(a \o b) = Len(a) + Len(b)
               /\ \A k \in 1..Len(a \o b) : (a \o b)[k] = IF k <= Len(a) THEN a[k] ELSE b[k - Len(a)]
    OBVIOUS
  <2>4. /\ r \in Seq(Invs) /\ Len(r) = m - 1 + Len(q) - m
        /\ \A k \in 1..Len(r) : r[k] = IF k <= m - 1 THEN SubSeq(q, 1, m - 1)[k] ELSE SubSeq(q, m + 1, Len(q))[k - (m - 1)]
    <3> DEFINE c == SubSeq(q, 1, m - 1)
               d == SubSeq(q, m + 1, Len(q))
    <3>1. c \in Seq(Invs) /\ Len(c) = m - 1 /\ d \in Seq(Invs) /\ Len(d) = Len(q) - m /\ r = c \o d
      BY <1>3, <2>1, <2>2, Zenon
    <3>2. m \in Int /\ Len(q) \in Int
      BY <1>3
    <3> HIDE DEF c, d
    <3>3. /\ r \in Seq(Invs) /\ Len(r) = Len(c) + Len(d)
          /\ \A k \in 1..Len(r) : r[k] = IF k <= Len(c) THEN c[k] ELSE d[k - Len(c)]
      BY <3>1, <2>3, Zenon
    <3>4. Len(r) = m - 1 + Len(q) - m
      BY <3>1, <3>2, <3>3, Zenon
    <3> QED
      BY <3>1, <3>3, <3>4, Zenon DEF c, d
  <2>5. \A k \in 1..m - 1 : SubSeq(q, 1, m - 1)[k] = q[k]
    BY <1>3
  <2>6. \A k \in 1..Len(q) - m : SubSeq(q, m + 1, Len(q))[k] = q[m + k]
    BY <1>3
  <2>7. Len(r) = Len(q) - 1
    BY <2>4
  <2>8. ASSUME NEW k \in 1..Len(r), k < m
        PROVE  r[k] = q[k]
    BY <2>4, <2>5, <2>7, <2>8
  <2>9. ASSUME NEW k \in 1..Len(r), ~(k < m)
        PROVE  r[k] = q[k + 1]
    <3>1. k - (m - 1) \in 1..Len(q) - m /\ ~(k <= m - 1) /\ m + (k - (m - 1)) = k + 1
      BY <2>7, <2>9
    <3> QED
      BY <3>1, <2>4, <2>6, Zenon
  <2> QED
    BY <2>4, <2>7, <2>8, <2>9, Zenon
<1>4. ASSUME NEW m \in 1..Len(q), q[m] = j,
             NEW r, r = In!Dequeue(q, j)
      PROVE  /\ r \in Seq(Invs)
             /\ \A k \in 1..Len(r) : r[k] # j /\ \E l \in 1..Len(q) : q[l] = r[k]
             /\ \A k, l \in 1..Len(r) : r[k] = r[l] => k = l
             /\ \A l \in 1..Len(q) : q[l] # j => \E k \in 1..Len(r) : r[k] = q[l]
  <2>1. /\ r \in Seq(Invs) /\ Len(r) = Len(q) - 1
        /\ \A k \in 1..Len(r) : r[k] = IF k < m THEN q[k] ELSE q[k + 1]
    <3>1. r = SubSeq(q, 1, m - 1) \o SubSeq(q, m + 1, Len(q))
      BY <1>2, <1>4, Zenon
    <3> QED
      BY <1>3, <1>4, <3>1, Zenon
  <2>2. \A k \in 1..Len(r) : r[k] # j /\ \E l \in 1..Len(q) : q[l] = r[k]
    BY <2>1, <1>4
  <2>3. \A k, l \in 1..Len(r) : r[k] = r[l] => k = l
    BY <2>1, <1>4
  <2>4. \A l \in 1..Len(q) : q[l] # j => \E k \in 1..Len(r) : r[k] = q[l]
    <3>1. ASSUME NEW l \in 1..Len(q), q[l] # j, l < m
          PROVE  \E k \in 1..Len(r) : r[k] = q[l]
      <4>1. l \in 1..Len(r) /\ r[l] = q[l]
        BY <2>1, <3>1
      <4> QED
        BY <4>1, Zenon
    <3>2. ASSUME NEW l \in 1..Len(q), q[l] # j, ~(l < m)
          PROVE  \E k \in 1..Len(r) : r[k] = q[l]
      <4>1. l - 1 \in 1..Len(r) /\ r[l - 1] = q[l]
        BY <2>1, <3>2, <1>4
      <4> QED
        BY <4>1, Zenon
    <3> QED
      BY <3>1, <3>2, Zenon
  <2> QED
    BY <2>1, <2>2, <2>3, <2>4, Zenon
<1> QED
  BY <1>1, <1>4, Zenon

(* An invocation begins, of itself or in the handler of another.           *)
LEMMA BeginKeeps ==
    ASSUME In!NamesApart, In!InvocationsInv, NEW i \in Invs, NEW e \in In!Ends, NEW p \in Invs \cup {"none"}, NEW d \in 1..2, In!Begin(i, e, p, d),
           p = "none" => d = 1,
           p # "none" => /\ in_handler[p] = "running" /\ In!Nested(p) = {} /\ in_inv[p].depth = 1 /\ d = 2
                         /\ e = In!Other(in_inv[p].end)
    PROVE  In!InvocationsInv'
<1> USE DEF In!InvocationsInv
<1>1. In!Types'
  BY DEF In!Begin, In!NewId, In!Types, In!NamesApart, In!Ends
<1>2. In!IdsGiven'
  BY DEF In!Begin, In!NewId, In!Types, In!IdsGiven, In!NoInv
<1>3. In!OneHeir'
  <2>1. in_inv' = [in_inv EXCEPT ![i] = [end |-> e, parent |-> p, depth |-> d, id |-> In!NewId(i, p)]] /\ in_thread[i] = "unused"
    BY Zenon DEF In!Begin
  <2>2. \A j \in Invs : j # i => in_inv'[j] = in_inv[j]
    BY <2>1, Zenon DEF In!Types
  <2>3. in_inv'[i].parent = p /\ in_inv'[i].id = In!NewId(i, p)
    BY <2>1, Zenon DEF In!Types
  <2>4. ASSUME NEW j \in Invs, j # i, p # "none", in_inv[j].parent = p, in_inv[j].id = p, In!NewId(i, p) = p
        PROVE  FALSE
    <3>1. in_tls[p]
      <4>1. i # p
        BY <2>1, <2>4, Zenon DEF In!RepliesOwn
      <4> QED
        BY <4>1, <2>4, Zenon DEF In!NewId
    <3>2. in_thread[j] = "alive"
      BY <3>1, <2>4 DEF In!IdsGiven
    <3>3. j \in In!Nested(p)
      BY <3>2, <2>4, Zenon DEF In!Nested
    <3> QED
      BY <3>3, <2>4, Zenon
  <2> QED
    BY <2>2, <2>3, <2>4 DEF In!OneHeir
<1>4. In!QueueHolds'
  BY DEF In!Begin, In!NewId, In!Types, In!QueueHolds, In!Waits
<1>5. In!RepliesOwn'
  BY DEF In!Begin, In!NewId, In!Types, In!RepliesOwn, In!Waits, In!Queued
<1>6. In!WokenWithResult'
  BY DEF In!Begin, In!NewId, In!Types, In!RepliesOwn, In!WokenWithResult, In!Waits
<1> QED
  BY <1>1, <1>2, <1>3, <1>4, <1>5, <1>6, Zenon

(* The request is sent and its InvokeInfo queued.                          *)
LEMMA SendRequestKeeps ==
    ASSUME In!NamesApart, In!InvocationsInv, NEW i \in Invs, In!SendRequest(i)
    PROVE  In!InvocationsInv'
<1> USE DEF In!InvocationsInv
<1>1. In!Types'
  <2>1. in_inv[i].end \in In!Ends /\ in_tls' \in [Invs -> BOOLEAN]
    BY Zenon DEF In!SendRequest, In!Types
  <2>2. CASE In!SendWaits(i)
    <3>1. in_qlInvokes' \in [In!Ends -> Seq(Invs)]
      BY <2>1, <2>2 DEF In!SendWaits, In!Types
    <3> QED
      BY <2>1, <2>2, <3>1, Zenon DEF In!SendRequest, In!SendWaits, In!Types
  <2>3. CASE In!SendFails(i)
    BY <2>1, <2>3, Zenon DEF In!SendRequest, In!SendFails, In!Types
  <2> QED
    BY <2>2, <2>3, Zenon DEF In!SendRequest, In!SendVec
<1>2. In!IdsGiven'
  <2>1. /\ in_thread[i] = "alive" /\ UNCHANGED in_inv /\ in_tls' = [p \in Invs |-> in_tls[p] /\ p # in_inv[i].parent]
        /\ in_thread' = [in_thread EXCEPT ![i] = "asleep"] \/ in_thread' = [in_thread EXCEPT ![i] = "returned"]
        /\ in_handler' = [in_handler EXCEPT ![i] = "request"] \/ in_handler' = in_handler
    BY Zenon DEF In!SendRequest, In!SendVec, In!SendWaits, In!SendFails
  <2>2. in_handler[i] = "none"
    BY <2>1, Zenon DEF In!RepliesOwn
  <2>3. \A j \in Invs : (in_thread'[j] = "unused" <=> in_thread[j] = "unused") /\ (j # i => in_thread'[j] = in_thread[j])
    BY <2>1, Zenon DEF In!Types
  <2>4. \A j \in Invs : j # i => in_handler'[j] = in_handler[j]
    BY <2>1, Zenon DEF In!Types
  <2>5. \A j \in Invs : in_inv[j].parent # "none" => in_inv[j].parent \in Invs /\ in_inv[j].parent # i
    <3>1. \A j \in Invs : in_inv[j].parent \in Invs \cup {"none"}
      BY Zenon DEF In!Types
    <3>2. \A j \in Invs : in_inv[j].parent # "none" => in_handler[in_inv[j].parent] # "none"
      BY Zenon DEF In!IdsGiven
    <3> QED
      BY <2>2, <3>1, <3>2, Zenon
  <2>6. \A p \in Invs : in_tls'[p] => in_tls[p] /\ p # in_inv[i].parent
    BY <2>1, Zenon
  <2> QED
    BY <2>1, <2>3, <2>4, <2>5, <2>6 DEF In!IdsGiven
<1>3. In!OneHeir'
  BY Zenon DEF In!SendRequest, In!SendVec, In!SendWaits, In!SendFails, In!Types, In!OneHeir
<1>4. In!QueueHolds'
  <2>0. in_inv[i].end \in In!Ends /\ UNCHANGED <<in_inv, in_bDone>> /\ in_thread[i] = "alive" /\ in_qlInvokes \in [In!Ends -> Seq(Invs)]
    BY Zenon DEF In!Types, In!SendRequest
  <2>1. \A c \in In!Ends : \A k \in 1..Len(in_qlInvokes[c]) :
           in_qlInvokes[c][k] \in Invs /\ in_thread[in_qlInvokes[c][k]] \in {"asleep", "checking", "woken"}
    BY <2>0 DEF In!QueueHolds, In!Waits
  <2>2. \A j \in Invs \ {i} : in_thread'[j] = in_thread[j]
    BY Zenon DEF In!Types, In!SendRequest, In!SendVec, In!SendWaits, In!SendFails
  <2>a. \A c \in In!Ends : \A k \in 1..Len(in_qlInvokes[c]) :
           in_qlInvokes[c][k] # i /\ in_thread'[in_qlInvokes[c][k]] \in {"asleep", "checking", "woken"}
    BY <2>0, <2>1, <2>2, Zenon
  <2>3. CASE UNCHANGED in_qlInvokes
    BY <2>0, <2>a, <2>3 DEF In!QueueHolds, In!Waits
  <2>4. ASSUME NEW e, e = in_inv[i].end, ~in_bDone[e], In!SendWaits(i)
        PROVE  In!QueueHolds'
    <3>1. in_qlInvokes' = [in_qlInvokes EXCEPT ![e] = Append(@, i)] /\ in_thread'[i] = "asleep"
      BY <2>4, Zenon DEF In!SendWaits, In!Types
    <3>2. \A c \in In!Ends \ {e} : in_qlInvokes'[c] = in_qlInvokes[c]
      BY <3>1, <2>0, Zenon
    <3>3. /\ Len(in_qlInvokes'[e]) = Len(in_qlInvokes[e]) + 1 /\ in_qlInvokes'[e][Len(in_qlInvokes[e]) + 1] = i
          /\ \A k \in 1..Len(in_qlInvokes[e]) : in_qlInvokes'[e][k] = in_qlInvokes[e][k]
          /\ Len(in_qlInvokes[e]) \in Nat
      BY <2>0, <2>4, <3>1
    <3>4. \A k \in 1..Len(in_qlInvokes'[e]) : k \in 1..Len(in_qlInvokes[e]) \/ k = Len(in_qlInvokes[e]) + 1
      BY <3>3
    <3>5. \A k \in 1..Len(in_qlInvokes'[e]) :
             in_inv[in_qlInvokes'[e][k]].end = e /\ in_thread'[in_qlInvokes'[e][k]] \in {"asleep", "checking", "woken"}
      BY <2>0, <2>a, <2>4, <3>1, <3>3, <3>4 DEF In!QueueHolds
    <3>6. \A k, l \in 1..Len(in_qlInvokes'[e]) : in_qlInvokes'[e][k] = in_qlInvokes'[e][l] => k = l
      <4>1. \A k, l \in 1..Len(in_qlInvokes[e]) : in_qlInvokes[e][k] = in_qlInvokes[e][l] => k = l
        BY <2>0, <2>4, Zenon DEF In!QueueHolds
      <4>2. \A k \in 1..Len(in_qlInvokes[e]) : in_qlInvokes[e][k] # i
        BY <2>0, <2>4, <2>a, Zenon
      <4> QED
        BY <4>1, <4>2, <3>3, <3>4, Zenon
    <3>7. ASSUME NEW c \in In!Ends, c # e
          PROVE  /\ in_bDone'[c] => in_qlInvokes'[c] = <<>>
                 /\ \A k \in 1..Len(in_qlInvokes'[c]) :
                       /\ in_inv'[in_qlInvokes'[c][k]].end = c /\ in_thread'[in_qlInvokes'[c][k]] \in {"asleep", "checking", "woken"}
                       /\ \A l \in 1..Len(in_qlInvokes'[c]) : in_qlInvokes'[c][k] = in_qlInvokes'[c][l] => k = l
      BY <2>0, <2>a, <3>2, <3>7 DEF In!QueueHolds
    <3> QED
      BY <2>0, <2>4, <3>5, <3>6, <3>7 DEF In!QueueHolds, In!Waits
  <2> QED
    BY <2>3, <2>4, Zenon DEF In!SendRequest, In!SendVec, In!SendFails
<1>5. In!RepliesOwn'
  <2>0. in_inv[i].end \in In!Ends /\ UNCHANGED <<in_inv, in_bDone, in_bComplete, in_reader>> /\ in_thread[i] = "alive"
    BY Zenon DEF In!Types, In!SendRequest
  <2>1. \A j \in Invs \ {i} : in_thread'[j] = in_thread[j] /\ in_handler'[j] = in_handler[j]
    BY Zenon DEF In!Types, In!SendRequest, In!SendVec, In!SendWaits, In!SendFails
  <2>2. in_reader[i].at = "none" /\ ~in_bComplete[i] /\ in_handler[i] = "none"
    BY <2>0, Zenon DEF In!RepliesOwn
  <2>3. CASE In!SendFails(i)
    <3>1. in_thread'[i] = "returned" /\ in_handler'[i] = "none" /\ UNCHANGED in_qlInvokes
      BY <2>2, <2>3, Zenon DEF In!SendFails, In!Types
    <3>2. \A j \in Invs : In!Queued(j)' <=> In!Queued(j)
      BY <2>0, <3>1, Zenon DEF In!Queued
    <3> QED
      BY <2>0, <2>1, <2>2, <3>1, <3>2, Zenon DEF In!RepliesOwn, In!Waits
  <2>4. CASE ~in_bDone[in_inv[i].end] /\ In!SendWaits(i)
    <3>1. in_thread'[i] = "asleep" /\ in_handler'[i] = "request"
      BY <2>4, Zenon DEF In!SendWaits, In!Types
    <3>2. In!Queued(i)'
      <4>1. /\ Len(in_qlInvokes'[in_inv[i].end]) = Len(in_qlInvokes[in_inv[i].end]) + 1
            /\ in_qlInvokes'[in_inv[i].end][Len(in_qlInvokes[in_inv[i].end]) + 1] = i
            /\ Len(in_qlInvokes[in_inv[i].end]) \in Nat
        BY <2>0, <2>4 DEF In!SendWaits, In!Types
      <4> QED
        BY <2>0, <4>1 DEF In!Queued
    <3>3. \A j \in Invs : In!Queued(j) => In!Queued(j)'
      <4>1. \A c \in In!Ends : /\ Len(in_qlInvokes'[c]) >= Len(in_qlInvokes[c]) /\ Len(in_qlInvokes[c]) \in Nat
                                /\ Len(in_qlInvokes'[c]) \in Nat
                                /\ \A k \in 1..Len(in_qlInvokes[c]) : in_qlInvokes'[c][k] = in_qlInvokes[c][k]
        BY <2>0, <2>4 DEF In!SendWaits, In!Types
      <4>2. \A j \in Invs : in_inv[j].end \in In!Ends
        BY Zenon DEF In!Types
      <4> QED
        BY <2>0, <4>1, <4>2 DEF In!Queued
    <3> QED
      BY <2>0, <2>1, <2>2, <2>4, <3>1, <3>2, <3>3, Zenon DEF In!RepliesOwn, In!Waits
  <2> QED
    BY <2>3, <2>4, Zenon DEF In!SendRequest, In!SendVec
<1>6. In!WokenWithResult'
  BY DEF In!SendRequest, In!SendVec, In!SendWaits, In!SendFails, In!Types, In!RepliesOwn, In!WokenWithResult, In!Waits
<1> QED
  BY <1>1, <1>2, <1>3, <1>4, <1>5, <1>6, Zenon

(* The other end handles the request.                                      *)
LEMMA RecvRequestKeeps ==
    ASSUME In!NamesApart, In!InvocationsInv, NEW i \in Invs, In!RecvRequest(i)
    PROVE  In!InvocationsInv'
<1> USE DEF In!InvocationsInv
<1>1. In!Types'
  BY Zenon DEF In!RecvRequest, In!Types, In!NamesApart, In!Ends
<1>2. In!IdsGiven'
  BY DEF In!RecvRequest, In!Types, In!IdsGiven, In!NoInv
<1>3. In!OneHeir'
  BY Zenon DEF In!RecvRequest, In!Types, In!OneHeir
<1>4. In!QueueHolds'
  BY Zenon DEF In!RecvRequest, In!Types, In!QueueHolds, In!Waits
<1>5. In!RepliesOwn'
  BY DEF In!RecvRequest, In!Types, In!RepliesOwn, In!Waits, In!Queued
<1>6. In!WokenWithResult'
  BY Zenon DEF In!RecvRequest, In!Types, In!RepliesOwn, In!WokenWithResult, In!Waits
<1> QED
  BY <1>1, <1>2, <1>3, <1>4, <1>5, <1>6

(* The handler sends its reply.                                            *)
LEMMA SendReplyKeeps ==
    ASSUME In!NamesApart, In!InvocationsInv, NEW i \in Invs, In!SendReply(i)
    PROVE  In!InvocationsInv'
<1> USE DEF In!InvocationsInv
<1>1. In!Types'
  BY Zenon DEF In!SendReply, In!Types, In!NamesApart, In!Ends
<1>2. In!IdsGiven'
  BY DEF In!SendReply, In!Types, In!IdsGiven, In!NoInv
<1>3. In!OneHeir'
  BY Zenon DEF In!SendReply, In!Types, In!OneHeir
<1>4. In!QueueHolds'
  BY DEF In!SendReply, In!Types, In!QueueHolds, In!Waits
<1>5. In!RepliesOwn'
  BY DEF In!SendReply, In!Types, In!RepliesOwn, In!Waits, In!Queued
<1>6. In!WokenWithResult'
  BY Zenon DEF In!SendReply, In!Types, In!RepliesOwn, In!WokenWithResult, In!Waits
<1> QED
  BY <1>1, <1>2, <1>3, <1>4, <1>5, <1>6

(* A reader looks for the InvokeInfo of a reply.                           *)
LEMMA RecvReplyKeeps ==
    ASSUME In!NamesApart, In!InvocationsInv, NEW i \in Invs, In!RecvReply(i)
    PROVE  In!InvocationsInv'
<1> USE DEF In!InvocationsInv
<1>0. /\ in_reader' = [in_reader EXCEPT ![i] = In!NoReader] \/ in_reader' = [in_reader EXCEPT ![i] = [at |-> "found", info |-> i]]
      /\ in_reader' # [in_reader EXCEPT ![i] = In!NoReader] => In!Queued(i) /\ ~in_bDone[in_inv[i].end]
  <2>1. in_thread[i] # "unused" /\ in_inv[i].end \in In!Ends
    BY Zenon DEF In!RecvReply, In!RepliesOwn, In!Types
  <2>2. in_bDone[in_inv[i].end] => ~In!Queued(i)
    BY <2>1 DEF In!QueueHolds, In!Queued
  <2>3. i # "none"
    BY Zenon DEF In!NamesApart
  <2>4. CASE In!Queued(i)
    BY <2>1, <2>2, <2>3, <2>4, FoundIsOwn, Zenon DEF In!RecvReply, In!Found
  <2>5. CASE ~In!Queued(i)
    BY <2>1, <2>5, FoundIsOwn, Zenon DEF In!RecvReply, In!Found
  <2> QED
    BY <2>4, <2>5, Zenon
<1>1. In!Types'
  <2>1. in_reader' \in [Invs -> [at : {"none", "found", "flagged"}, info : Invs \cup {"none"}]]
    BY <1>0 DEF In!RecvReply, In!Types, In!NoReader
  <2> QED
    BY <2>1, Zenon DEF In!RecvReply, In!Types
<1>2. In!IdsGiven'
  BY DEF In!RecvReply, In!Found, In!NoReader, In!Types, In!IdsGiven, In!NoInv
<1>3. In!OneHeir'
  BY Zenon DEF In!RecvReply, In!Found, In!NoReader, In!Types, In!OneHeir
<1>4. In!QueueHolds'
  BY DEF In!RecvReply, In!Found, In!NoReader, In!Types, In!QueueHolds, In!Waits
<1>5. In!RepliesOwn'
  <2>1. \A j \in Invs : /\ j # i => in_reader'[j] = in_reader[j] /\ in_handler'[j] = in_handler[j]
                        /\ In!Queued(j)' <=> In!Queued(j)
    BY Zenon DEF In!RecvReply, In!Types, In!Queued
  <2>2. in_reader'[i].at \in {"none", "found"} /\ (in_reader'[i].at # "none" => in_reader'[i].info = i) /\ in_handler'[i] = "over"
    BY <1>0 DEF In!RecvReply, In!Types, In!NoReader
  <2>3. in_handler[i] = "reply" /\ UNCHANGED <<in_thread, in_inv, in_bDone, in_bComplete>>
    BY Zenon DEF In!RecvReply
  <2>4. \A j \in Invs : (in_reader'[j].at # "none" => in_reader'[j].info = j /\ in_handler'[j] = "over")
                      /\ (in_reader'[j].at = "flagged" => in_bComplete[j])
    <3>1. in_reader'[i].at # "flagged"
      BY <2>2, Zenon
    <3>2. \A j \in Invs : (in_reader[j].at # "none" => in_reader[j].info = j /\ in_handler[j] = "over")
                      /\ (in_reader[j].at = "flagged" => in_bComplete[j])
      BY Zenon DEF In!RepliesOwn
    <3> SUFFICES ASSUME NEW j \in Invs 
                 PROVE  (in_reader'[j].at # "none" => in_reader'[j].info = j /\ in_handler'[j] = "over")
                        /\ (in_reader'[j].at = "flagged" => in_bComplete[j])
      BY Zenon
    <3>3. CASE j = i
      BY <2>2, <3>1, <3>3, Zenon
    <3>4. CASE j # i
      BY <2>1, <3>2, <3>4, Zenon
    <3> QED
      BY <3>3, <3>4, Zenon
  <2>5. \A j \in Invs : (in_bComplete[j] => in_handler'[j] = "over" \/ in_bDone[in_inv[j].end])
                      /\ (in_thread[j] = "returned" => in_bComplete[j] \/ in_handler'[j] = "none")
                      /\ (in_thread[j] \in {"unused", "alive"} => in_handler'[j] = "none" /\ ~in_bComplete[j])
    <3>1. in_thread[i] \notin {"unused", "alive"} /\ (in_thread[i] = "returned" => in_bComplete[i])
      BY <2>3, Zenon DEF In!RepliesOwn
    <3>2. \A j \in Invs : (in_bComplete[j] => in_handler[j] = "over" \/ in_bDone[in_inv[j].end])
                      /\ (in_thread[j] = "returned" => in_bComplete[j] \/ in_handler[j] = "none")
                      /\ (in_thread[j] \in {"unused", "alive"} => in_handler[j] = "none" /\ ~in_bComplete[j])
      BY Zenon DEF In!RepliesOwn
    <3> SUFFICES ASSUME NEW j \in Invs 
                 PROVE  (in_bComplete[j] => in_handler'[j] = "over" \/ in_bDone[in_inv[j].end])
                        /\ (in_thread[j] = "returned" => in_bComplete[j] \/ in_handler'[j] = "none")
                        /\ (in_thread[j] \in {"unused", "alive"} => in_handler'[j] = "none" /\ ~in_bComplete[j])
      BY Zenon
    <3>3. CASE j = i
      BY <2>2, <3>1, <3>3, Zenon
    <3>4. CASE j # i
      BY <2>1, <3>2, <3>4, Zenon
    <3> QED
      BY <3>3, <3>4, Zenon
  <2> QED
    BY <2>1, <2>3, <2>4, <2>5, Zenon DEF In!RepliesOwn, In!Waits
<1>6. In!WokenWithResult'
  BY DEF In!RecvReply, In!Found, In!NoReader, In!Types, In!RepliesOwn, In!WokenWithResult, In!Waits
<1> QED
  BY <1>1, <1>2, <1>3, <1>4, <1>5, <1>6, Zenon

(* The reader marks the invocation complete.                               *)
LEMMA SetCompleteKeeps ==
    ASSUME In!NamesApart, In!InvocationsInv, NEW i \in Invs, In!SetComplete(i)
    PROVE  In!InvocationsInv'
<1> USE DEF In!InvocationsInv
<1>1. In!Types'
  BY Zenon DEF In!SetComplete, In!Types, In!NamesApart, In!Ends
<1>2. In!IdsGiven'
  BY Zenon DEF In!SetComplete, In!Types, In!IdsGiven, In!NoInv
<1>3. In!OneHeir'
  BY Zenon DEF In!SetComplete, In!Types, In!OneHeir
<1>4. In!QueueHolds'
  BY DEF In!SetComplete, In!Types, In!QueueHolds, In!Waits
<1>5. In!RepliesOwn'
  BY DEF In!SetComplete, In!Types, In!RepliesOwn, In!Waits, In!Queued
<1>6. In!WokenWithResult'
  BY DEF In!SetComplete, In!Types, In!RepliesOwn, In!WokenWithResult, In!Waits
<1> QED
  BY <1>1, <1>2, <1>3, <1>4, <1>5, <1>6

(* The reader stores the result and signals.                               *)
LEMMA SetResultKeeps ==
    ASSUME In!NamesApart, In!InvocationsInv, NEW i \in Invs, In!SetResult(i)
    PROVE  In!InvocationsInv'
<1> USE DEF In!InvocationsInv
<1>1. In!Types'
  BY Zenon DEF In!SetResult, In!Signalled, In!NoReader, In!Types, In!NamesApart, In!Ends
<1>2. In!IdsGiven'
  BY DEF In!SetResult, In!Signalled, In!NoReader, In!Types, In!IdsGiven, In!NoInv
<1>3. In!OneHeir'
  BY Zenon DEF In!SetResult, In!Signalled, In!NoReader, In!Types, In!OneHeir
<1>4. In!QueueHolds'
  BY DEF In!SetResult, In!Signalled, In!NoReader, In!Types, In!QueueHolds, In!Waits
<1>5. In!RepliesOwn'
  BY DEF In!SetResult, In!Signalled, In!NoReader, In!Types, In!RepliesOwn, In!Waits, In!Queued
<1>6. In!WokenWithResult'
  BY DEF In!SetResult, In!Signalled, In!NoReader, In!Types, In!RepliesOwn, In!WokenWithResult, In!Waits
<1> QED
  BY <1>1, <1>2, <1>3, <1>4, <1>5, <1>6

(* The invoking thread wakes and takes its InvokeInfo off the queue.       *)
LEMMA WakeKeeps ==
    ASSUME In!NamesApart, In!InvocationsInv, NEW i \in Invs, In!Wake(i)
    PROVE  In!InvocationsInv'
<1> USE DEF In!InvocationsInv
<1>a. /\ in_inv[i].end \in In!Ends /\ in_qlInvokes \in [In!Ends -> Seq(Invs)] /\ in_thread[i] = "woken"
      /\ \A j \in Invs : in_inv[j].end \in In!Ends
      /\ UNCHANGED <<in_bDone, in_inv, in_bComplete, in_result, in_handler, in_tls, in_reader, in_spurious>>
  BY Zenon DEF In!Types, In!Wake
<1>b. \A j \in Invs \ {i} : in_thread'[j] = in_thread[j]
  BY Zenon DEF In!Types, In!Wake
<1>c. \A c \in In!Ends : \A k \in 1..Len(in_qlInvokes[c]) :
         in_qlInvokes[c][k] \in Invs /\ in_thread[in_qlInvokes[c][k]] \in {"asleep", "checking", "woken"}
  BY <1>a DEF In!QueueHolds, In!Waits
<1>d. CASE ~in_bComplete[i]
  <2>1. in_thread' = [in_thread EXCEPT ![i] = "checking"] /\ UNCHANGED in_qlInvokes
    BY <1>d, Zenon DEF In!Wake
  <2>2. In!Types' /\ In!IdsGiven' /\ In!OneHeir'
    BY <1>a, <2>1 DEF In!Types, In!IdsGiven, In!NoInv, In!OneHeir
  <2>3. \A j \in Invs : (In!Waits(j)' <=> In!Waits(j)) /\ (In!Queued(j)' <=> In!Queued(j))
    BY <1>a, <2>1, Zenon DEF In!Types, In!Waits, In!Queued
  <2>4. In!QueueHolds'
    BY <1>a, <1>c, <2>1, <2>3 DEF In!QueueHolds, In!Waits
  <2>5. in_thread'[i] = "checking"
    BY <2>1, Zenon DEF In!Types
  <2>6. In!RepliesOwn'
    BY <1>a, <1>b, <1>d, <2>3, <2>5, Zenon DEF In!RepliesOwn, In!Waits
  <2>7. In!WokenWithResult'
    BY <1>a, <1>b, <1>d, <2>5, Zenon DEF In!WokenWithResult
  <2> QED
    BY <2>2, <2>4, <2>6, <2>7, Zenon
<1>e. ASSUME in_bComplete[i], NEW e, e = in_inv[i].end
      PROVE  In!InvocationsInv'
  <2>1. in_thread' = [in_thread EXCEPT ![i] = "returned"] /\ in_qlInvokes' = [in_qlInvokes EXCEPT ![e] = In!Dequeue(@, i)]
    BY <1>e, Zenon DEF In!Wake
  <2>2. e \in In!Ends /\ in_qlInvokes[e] \in Seq(Invs) /\ \A k, l \in 1..Len(in_qlInvokes[e]) : in_qlInvokes[e][k] = in_qlInvokes[e][l] => k = l
    BY <1>a, <1>e, Zenon DEF In!QueueHolds
  <2>3. in_qlInvokes'[e] = In!Dequeue(in_qlInvokes[e], i) /\ \A c \in In!Ends \ {e} : in_qlInvokes'[c] = in_qlInvokes[c]
    BY <1>a, <2>1, <2>2, Zenon
  <2>4. /\ in_qlInvokes'[e] \in Seq(Invs)
        /\ \A k \in 1..Len(in_qlInvokes'[e]) : in_qlInvokes'[e][k] # i /\ \E l \in 1..Len(in_qlInvokes[e]) : in_qlInvokes[e][l] = in_qlInvokes'[e][k]
        /\ \A k, l \in 1..Len(in_qlInvokes'[e]) : in_qlInvokes'[e][k] = in_qlInvokes'[e][l] => k = l
        /\ \A l \in 1..Len(in_qlInvokes[e]) : in_qlInvokes[e][l] # i => \E k \in 1..Len(in_qlInvokes'[e]) : in_qlInvokes'[e][k] = in_qlInvokes[e][l]
    <3> DEFINE q == in_qlInvokes[e]
               r == In!Dequeue(q, i)
    <3>1. q \in Seq(Invs) /\ \A k, l \in 1..Len(q) : q[k] = q[l] => k = l
      BY <2>2, Zenon
    <3> HIDE DEF q
    <3>2. /\ r \in Seq(Invs)
          /\ \A k \in 1..Len(r) : r[k] # i /\ \E l \in 1..Len(q) : q[l] = r[k]
          /\ \A k, l \in 1..Len(r) : r[k] = r[l] => k = l
          /\ \A l \in 1..Len(q) : q[l] # i => \E k \in 1..Len(r) : r[k] = q[l]
      BY <3>1, Dequeued, Zenon
    <3>3. in_qlInvokes'[e] = r
      BY <2>3, Zenon DEF q
    <3> QED
      BY <3>2, <3>3, Zenon DEF q
  <2>5. in_thread'[i] = "returned"
    BY <2>1, Zenon DEF In!Types
  <2>6. In!Types'
    <3>1. in_thread' \in [Invs -> {"unused", "alive", "asleep", "checking", "woken", "returned"}]
      BY <2>1, Zenon DEF In!Types
    <3>2. in_qlInvokes' \in [In!Ends -> Seq(Invs)]
      <4>1. In!Dequeue(in_qlInvokes[e], i) \in Seq(Invs)
        BY <2>3, <2>4, Zenon
      <4> QED
        BY <4>1, <2>1, <1>a, Zenon
    <3> QED
      BY <1>a, <3>1, <3>2, Zenon DEF In!Types
  <2>7. In!IdsGiven' /\ In!OneHeir'
    BY <1>a, <2>1, <2>5, <1>b DEF In!Types, In!IdsGiven, In!NoInv, In!OneHeir
  <2>8. In!QueueHolds'
    <3>1. \A k \in 1..Len(in_qlInvokes'[e]) :
             in_inv[in_qlInvokes'[e][k]].end = e /\ in_thread'[in_qlInvokes'[e][k]] \in {"asleep", "checking", "woken"}
      <4> SUFFICES ASSUME NEW k \in 1..Len(in_qlInvokes'[e])
                   PROVE  in_inv[in_qlInvokes'[e][k]].end = e /\ in_thread'[in_qlInvokes'[e][k]] \in {"asleep", "checking", "woken"}
        BY Zenon
      <4>1. PICK l \in 1..Len(in_qlInvokes[e]) : in_qlInvokes[e][l] = in_qlInvokes'[e][k]
        BY <2>4, Zenon
      <4>2. in_qlInvokes'[e][k] # i /\ in_qlInvokes[e][l] \in Invs /\ in_thread[in_qlInvokes[e][l]] \in {"asleep", "checking", "woken"}
        BY <1>c, <2>2, <2>4, Zenon
      <4>3. in_inv[in_qlInvokes[e][l]].end = e
        BY <2>2, Zenon DEF In!QueueHolds
      <4> QED
        BY <1>b, <4>1, <4>2, <4>3, Zenon
    <3>2. \A c \in In!Ends \ {e} : \A k \in 1..Len(in_qlInvokes[c]) :
             in_inv[in_qlInvokes[c][k]].end = c /\ in_thread'[in_qlInvokes[c][k]] \in {"asleep", "checking", "woken"}
      <4>1. \A c \in In!Ends : \A k \in 1..Len(in_qlInvokes[c]) : in_inv[in_qlInvokes[c][k]].end = c
        BY Zenon DEF In!QueueHolds
      <4> QED
        BY <1>b, <1>c, <1>e, <4>1
    <3>3. in_bDone[e] => in_qlInvokes'[e] = <<>>
      <4>1. in_bDone[e] => Len(in_qlInvokes[e]) = 0
        BY <2>2 DEF In!QueueHolds
      <4>2. in_bDone[e] => Len(in_qlInvokes'[e]) = 0
        BY <4>1, <2>4
      <4> QED
        BY <4>2, <2>4
    <3>4. \A c \in In!Ends : /\ in_bDone[c] => in_qlInvokes[c] = <<>>
                             /\ \A k, l \in 1..Len(in_qlInvokes[c]) : in_qlInvokes[c][k] = in_qlInvokes[c][l] => k = l
      BY Zenon DEF In!QueueHolds
    <3> QED
      BY <1>a, <2>3, <2>4, <3>1, <3>2, <3>3, <3>4 DEF In!QueueHolds, In!Waits
  <2>9. In!RepliesOwn'
    <3>1. \A j \in Invs \ {i} : In!Queued(j) => In!Queued(j)'
      <4> SUFFICES ASSUME NEW j \in Invs \ {i}, NEW k \in 1..Len(in_qlInvokes[in_inv[j].end]), in_qlInvokes[in_inv[j].end][k] = j
                   PROVE  In!Queued(j)'
        BY Zenon DEF In!Queued
      <4>1. CASE in_inv[j].end = e
        <5>1. k \in 1..Len(in_qlInvokes[e]) /\ in_qlInvokes[e][k] = j /\ j # i
          BY <4>1, Zenon
        <5>2. \E l \in 1..Len(in_qlInvokes'[e]) : in_qlInvokes'[e][l] = j
          BY <5>1, <2>4, Zenon
        <5> QED
          BY <1>a, <4>1, <5>2, Zenon DEF In!Queued
      <4>2. CASE in_inv[j].end # e
        <5>1. in_qlInvokes'[in_inv[j].end] = in_qlInvokes[in_inv[j].end]
          BY <1>a, <2>3, <4>2, Zenon
        <5> QED
          BY <5>1, <1>a, Zenon DEF In!Queued
      <4> QED
        BY <4>1, <4>2, Zenon
    <3> QED
      BY <1>a, <1>b, <1>e, <2>5, <3>1, Zenon DEF In!RepliesOwn, In!Waits
  <2>10. In!WokenWithResult'
    BY <1>a, <1>b, <1>e, <2>5 DEF In!WokenWithResult, In!RepliesOwn
  <2> QED
    BY <2>6, <2>7, <2>8, <2>9, <2>10, Zenon
<1> QED
  BY <1>d, <1>e, Zenon

(* A thread wakes without a signal ...                                     *)
LEMMA SpuriousWakeKeeps ==
    ASSUME In!NamesApart, In!InvocationsInv, NEW i \in Invs, In!SpuriousWake(i)
    PROVE  In!InvocationsInv'
<1> USE DEF In!InvocationsInv
<1>1. In!Types'
  BY DEF In!SpuriousWake, In!Types, In!NamesApart, In!Ends
<1>2. In!IdsGiven'
  BY DEF In!SpuriousWake, In!Types, In!IdsGiven, In!NoInv
<1>3. In!OneHeir'
  BY Zenon DEF In!SpuriousWake, In!Types, In!OneHeir
<1>4. In!QueueHolds'
  BY DEF In!SpuriousWake, In!Types, In!QueueHolds, In!Waits
<1>5. In!RepliesOwn'
  BY DEF In!SpuriousWake, In!Types, In!RepliesOwn, In!Waits, In!Queued
<1>6. In!WokenWithResult'
  BY DEF In!SpuriousWake, In!Types, In!RepliesOwn, In!WokenWithResult, In!Waits
<1> QED
  BY <1>1, <1>2, <1>3, <1>4, <1>5, <1>6, Zenon

(* ... and waits again.                                                    *)
LEMMA WaitAgainKeeps ==
    ASSUME In!NamesApart, In!InvocationsInv, NEW i \in Invs, In!WaitAgain(i)
    PROVE  In!InvocationsInv'
<1> USE DEF In!InvocationsInv
<1>1. In!Types'
  BY Zenon DEF In!WaitAgain, In!Types, In!NamesApart, In!Ends
<1>2. In!IdsGiven'
  BY DEF In!WaitAgain, In!Types, In!IdsGiven, In!NoInv
<1>3. In!OneHeir'
  BY Zenon DEF In!WaitAgain, In!Types, In!OneHeir
<1>4. In!QueueHolds'
  BY DEF In!WaitAgain, In!Types, In!QueueHolds, In!Waits
<1>5. In!RepliesOwn'
  BY DEF In!WaitAgain, In!Types, In!RepliesOwn, In!Waits, In!Queued
<1>6. In!WokenWithResult'
  BY Zenon DEF In!WaitAgain, In!Types, In!RepliesOwn, In!WokenWithResult, In!Waits
<1> QED
  BY <1>1, <1>2, <1>3, <1>4, <1>5, <1>6

(* An end closes and completes every invocation that waits there.          *)
LEMMA CloseKeeps ==
    ASSUME In!NamesApart, In!InvocationsInv, NEW e \in In!Ends, In!Close(e)
    PROVE  In!InvocationsInv'
<1> USE DEF In!InvocationsInv
<1>1. In!Types'
  BY DEF In!Close, In!Signalled, In!Types, In!NamesApart, In!Ends
<1>2. In!IdsGiven'
  BY DEF In!Close, In!Signalled, In!Types, In!IdsGiven, In!NoInv
<1>3. In!OneHeir'
  BY Zenon DEF In!Close, In!Signalled, In!Types, In!OneHeir
<1>4. In!QueueHolds'
  BY DEF In!Close, In!Signalled, In!Types, In!QueueHolds, In!Waits
<1>a. /\ \A j \in Invs : in_inv[j].end \in In!Ends
      /\ UNCHANGED <<in_inv, in_handler, in_tls, in_reader, in_spurious>>
      /\ \A c \in In!Ends : in_bDone'[c] <=> in_bDone[c] \/ c = e
      /\ \A c \in In!Ends \ {e} : in_qlInvokes'[c] = in_qlInvokes[c]
  BY Zenon DEF In!Close, In!Types
<1>b. \A j \in Invs : j \in In!Range(in_qlInvokes[e]) <=> \E k \in 1..Len(in_qlInvokes[e]) : in_qlInvokes[e][k] = j
  <2>1. DOMAIN in_qlInvokes[e] = 1..Len(in_qlInvokes[e])
    BY DEF In!Types
  <2> QED
    BY <2>1, Zenon DEF In!Range
<1>c. \A j \in Invs : In!Unlocked(e) => (in_thread[j] = "checking" => in_inv[j].end # e)
  BY Zenon DEF In!Unlocked
<1>d. ASSUME NEW j \in Invs, j \in In!Range(in_qlInvokes[e])
      PROVE  in_inv[j].end = e /\ in_bComplete'[j] /\ in_result'[j] = "closed" /\ in_thread[j] \in {"asleep", "woken"} /\ in_thread'[j] = "woken"
  <2>1. in_inv[j].end = e /\ in_thread[j] \in {"asleep", "checking", "woken"}
    <3>1. PICK k \in 1..Len(in_qlInvokes[e]) : in_qlInvokes[e][k] = j
      BY <1>b, <1>d, Zenon
    <3> QED
      BY <3>1, Zenon DEF In!QueueHolds, In!Waits
  <2>2. in_thread[j] # "checking"
    BY <1>c, <2>1, Zenon DEF In!Close
  <2> QED
    BY <1>d, <2>1, <2>2, Zenon DEF In!Close, In!Signalled
<1>f. ASSUME NEW j \in Invs, j \notin In!Range(in_qlInvokes[e])
      PROVE  in_bComplete'[j] = in_bComplete[j] /\ in_result'[j] = in_result[j] /\ in_thread'[j] = in_thread[j]
  BY <1>f, Zenon DEF In!Close, In!Types
<1>g. \A j \in Invs : In!Waits(j) /\ in_inv[j].end = e => j \in In!Range(in_qlInvokes[e])
  BY <1>b, Zenon DEF In!Close, In!RepliesOwn, In!Queued
<1>5. In!RepliesOwn'
  <2> SUFFICES ASSUME NEW j \in Invs
               PROVE  /\ in_thread'[j] \in {"unused", "alive"} => in_handler'[j] = "none" /\ ~in_bComplete'[j]
                      /\ In!Waits(j)' /\ ~in_bDone'[in_inv'[j].end] => In!Queued(j)'
                      /\ In!Waits(j)' /\ in_bDone'[in_inv'[j].end] => in_thread'[j] = "woken" /\ in_bComplete'[j]
                      /\ in_bComplete'[j] => in_handler'[j] = "over" \/ in_bDone'[in_inv'[j].end]
                      /\ in_thread'[j] = "returned" => in_bComplete'[j] \/ in_handler'[j] = "none"
                      /\ in_reader'[j].at # "none" => in_reader'[j].info = j /\ in_handler'[j] = "over"
                      /\ in_reader'[j].at = "flagged" => in_bComplete'[j]
    BY Zenon DEF In!RepliesOwn
  <2>1. CASE j \in In!Range(in_qlInvokes[e])
    BY <1>a, <1>d, <2>1 DEF In!RepliesOwn
  <2>2. CASE j \notin In!Range(in_qlInvokes[e])
    <3>1. In!Waits(j)' <=> In!Waits(j)
      BY <1>f, <2>2, Zenon DEF In!Waits
    <3>2. In!Waits(j) => in_inv[j].end # e
      BY <1>g, <2>2, Zenon
    <3>3. in_inv[j].end # e => (In!Queued(j)' <=> In!Queued(j))
      BY <1>a, Zenon DEF In!Queued
    <3> QED
      BY <1>a, <1>f, <2>2, <3>1, <3>2, <3>3, Zenon DEF In!RepliesOwn
  <2> QED
    BY <2>1, <2>2, Zenon
<1>6. In!WokenWithResult'
  <2> SUFFICES ASSUME NEW j \in Invs, in_spurious = 0
               PROVE  /\ in_thread'[j] # "checking"
                      /\ in_thread'[j] = "woken" => in_bComplete'[j]
                      /\ in_thread'[j] \in {"woken", "returned"} => in_result'[j] \in {j, "closed"}
                      /\ in_thread'[j] = "asleep" /\ in_bComplete'[j] => in_reader'[j].at = "flagged"
                      /\ in_reader'[j].at # "none" /\ ~in_bDone'[in_inv'[j].end] => in_thread'[j] = "asleep"
    BY <1>a, Zenon DEF In!WokenWithResult
  <2>1. CASE j \in In!Range(in_qlInvokes[e])
    BY <1>a, <1>d, <2>1 DEF In!WokenWithResult
  <2>2. CASE j \notin In!Range(in_qlInvokes[e])
    BY <1>a, <1>f, <2>2, Zenon DEF In!WokenWithResult
  <2> QED
    BY <2>1, <2>2, Zenon
<1> QED
  BY <1>1, <1>2, <1>3, <1>4, <1>5, <1>6, Zenon

(* The invariant of invocations holds for any number of them.              *)
LEMMA InvocationsKept ==
    ASSUME In!NamesApart
    PROVE  In!Spec => []In!InvocationsInv
<1>1. In!Init => In!InvocationsInv
  <2> SUFFICES ASSUME In!Init PROVE In!InvocationsInv
    BY Zenon
  <2>1. In!Types
    BY DEF In!Init, In!Types, In!NoInv, In!NoReader, In!NamesApart, In!Ends
  <2>2. In!IdsGiven /\ In!OneHeir /\ In!QueueHolds
    BY DEF In!Init, In!IdsGiven, In!OneHeir, In!QueueHolds, In!NoInv
  <2>3. In!RepliesOwn /\ In!WokenWithResult
    BY Zenon DEF In!Init, In!RepliesOwn, In!WokenWithResult, In!Waits, In!NoReader
  <2> QED
    BY <2>1, <2>2, <2>3, Zenon DEF In!InvocationsInv
<1>2. In!InvocationsInv /\ [In!Next]_(In!vars) => In!InvocationsInv'
  <2> SUFFICES ASSUME In!InvocationsInv, [In!Next]_(In!vars) PROVE In!InvocationsInv'
    BY Zenon
  <2>1. ASSUME NEW i \in Invs, NEW e \in In!Ends, In!InvokeOuter(i, e)
        PROVE  In!InvocationsInv'
    <3>1. In!Begin(i, e, "none", 1) /\ "none" \in Invs \cup {"none"} /\ 1 \in 1..2
      BY <2>1 DEF In!InvokeOuter
    <3> QED
      BY <3>1, BeginKeeps, Zenon
  <2>2. ASSUME NEW i \in Invs, NEW p \in Invs, In!InvokeNested(i, p)
        PROVE  In!InvocationsInv'
    <3>1. in_inv[p].depth = 1 /\ in_inv[p].end \in In!Ends
      <4>1. in_thread[p] # "unused"
        BY <2>2, Zenon DEF In!InvokeNested, In!InvocationsInv, In!RepliesOwn
      <4> QED
        BY <2>2, <4>1 DEF In!InvokeNested, In!InvocationsInv, In!IdsGiven, In!Types, In!NamesApart
    <3>2. In!Begin(i, In!Other(in_inv[p].end), p, 2) /\ 2 \in 1..2 /\ In!Other(in_inv[p].end) \in In!Ends
      BY <2>2, <3>1 DEF In!InvokeNested, In!Other, In!Ends
    <3>3. in_handler[p] = "running" /\ In!Nested(p) = {} /\ p \in Invs \cup {"none"} /\ p # "none"
      BY <2>2, Zenon DEF In!InvokeNested, In!NamesApart
    <3> QED
      BY <3>1, <3>2, <3>3, BeginKeeps, Zenon
  <2>3. ASSUME NEW i \in Invs, In!Steps(i)
        PROVE  In!InvocationsInv'
    BY <2>3, SendRequestKeeps, RecvRequestKeeps, SendReplyKeeps, RecvReplyKeeps, SetCompleteKeeps,
       SetResultKeeps, WakeKeeps, WaitAgainKeeps, Zenon DEF In!Steps
  <2>4. CASE UNCHANGED In!vars
    <3>1. /\ in_bDone' = in_bDone /\ in_qlInvokes' = in_qlInvokes /\ in_inv' = in_inv /\ in_thread' = in_thread
          /\ in_bComplete' = in_bComplete /\ in_result' = in_result /\ in_handler' = in_handler /\ in_tls' = in_tls
          /\ in_reader' = in_reader /\ in_spurious' = in_spurious
      BY <2>4, Zenon DEF In!vars
    <3>2. \A i \in Invs : (In!Waits(i)' <=> In!Waits(i)) /\ (In!Queued(i)' <=> In!Queued(i))
      BY <3>1, Zenon DEF In!Waits, In!Queued
    <3>3. In!Types' /\ In!OneHeir'
      BY <3>1, Zenon DEF In!InvocationsInv, In!Types, In!OneHeir
    <3>4. In!IdsGiven'
      BY <3>1, Zenon DEF In!InvocationsInv, In!IdsGiven
    <3>5. In!QueueHolds'
      BY <3>1, Zenon DEF In!InvocationsInv, In!QueueHolds, In!Waits
    <3>6. In!RepliesOwn'
      BY <3>1, <3>2, Zenon DEF In!InvocationsInv, In!RepliesOwn
    <3>7. In!WokenWithResult'
      BY <3>1, Zenon DEF In!InvocationsInv, In!WokenWithResult
    <3> QED
      BY <3>3, <3>4, <3>5, <3>6, <3>7, Zenon DEF In!InvocationsInv
  <2> QED
    BY <2>1, <2>2, <2>3, <2>4, SpuriousWakeKeeps, CloseKeeps, Zenon DEF In!Next
<1> QED
  BY <1>1, <1>2, PTL DEF In!Spec

(* Nested calls and threads that wake without a signal included, a reply   *)
(* finds its invocation and a closed end leaves nobody asleep.             *)
LEMMA RepliesReach ==
    ASSUME In!NamesApart
    PROVE  In!Spec => [](In!RepliesFindAnInvocation /\ In!ClosedEndWakesAll)
<1>1. In!InvocationsInv => In!RepliesFindAnInvocation /\ In!ClosedEndWakesAll
  <2> SUFFICES ASSUME In!InvocationsInv PROVE In!RepliesFindAnInvocation /\ In!ClosedEndWakesAll
    BY Zenon
  <2>1. ASSUME NEW i \in Invs, in_handler[i] = "reply", ~in_bDone[in_inv[i].end]
        PROVE  In!GetInvokeInfo(in_inv[i].end, in_inv[i].id) # "none"
    <3>1. in_thread[i] # "unused" /\ In!Waits(i)
      BY <2>1, Zenon DEF In!InvocationsInv, In!RepliesOwn, In!Types, In!Waits
    <3>2. In!Queued(i)
      BY <2>1, <3>1, Zenon DEF In!InvocationsInv, In!RepliesOwn
    <3>3. In!GetInvokeInfo(in_inv[i].end, in_inv[i].id) = i
      BY <3>1, <3>2, FoundIsOwn, Zenon DEF In!InvocationsInv
    <3> QED
      BY <3>3, Zenon DEF In!NamesApart
  <2>2. In!ClosedEndWakesAll
    BY Zenon DEF In!InvocationsInv, In!RepliesOwn, In!Waits, In!ClosedEndWakesAll
  <2> QED
    BY <2>1, <2>2, Zenon DEF In!RepliesFindAnInvocation
<1> QED
  BY <1>1, InvocationsKept, PTL

(* Without such wake-ups, an invocation returns with its own reply.        *)
LEMMA OwnReplies ==
    ASSUME In!NamesApart
    PROVE  In!Spec => [](In!AnsweredByOwnReply /\ In!InfoOutlivesReader)
<1> DEFINE Still == in_spurious = 0
<1>1. In!Init => Still
  BY Zenon DEF In!Init
<1>2. Still /\ [In!Next]_(In!vars) => Still'
  BY DEF In!Next, In!vars, In!InvokeOuter, In!InvokeNested, In!Begin, In!Steps, In!SendRequest, In!RecvRequest, In!SendReply, In!RecvReply,
     In!SetComplete, In!SetResult, In!Wake, In!WaitAgain, In!SpuriousWake, In!Close
<1>3. In!InvocationsInv /\ Still => In!AnsweredByOwnReply /\ In!InfoOutlivesReader
  <2> SUFFICES ASSUME In!InvocationsInv, Still PROVE In!AnsweredByOwnReply /\ In!InfoOutlivesReader
    BY Zenon
  <2>1. In!AnsweredByOwnReply
    BY Zenon DEF In!InvocationsInv, In!WokenWithResult, In!AnsweredByOwnReply
  <2>2. In!InfoOutlivesReader
    BY Zenon DEF In!InvocationsInv, In!WokenWithResult, In!RepliesOwn, In!InfoOutlivesReader
  <2> QED
    BY <2>1, <2>2, Zenon
<1> HIDE DEF Still
<1> QED
  BY <1>1, <1>2, <1>3, InvocationsKept, PTL DEF In!Spec

-----------------------------------------------------------------------------
(* The life of a socket: works of the pool, forwarders and the session.    *)
SoVars == <<so_kind, so_refs, so_bDone, so_firstShot, so_freed, so_deaf, so_fwd, so_pc>>
So == INSTANCE SocketLife WITH
    kind <- so_kind, refs <- so_refs, bDone <- so_bDone, firstShot <- so_firstShot,
    freed <- so_freed, deaf <- so_deaf, fwd <- so_fwd, pc <- so_pc, Works <- Works,
    Fwds <- Fwds, Owner <- Owner

(* Works, forwarders and the session are different actors, and finite.     *)
ASSUME CallsAssumption == So!ActorsApart

(* The proof is for any number of works and forwarders.                    *)
(* Cardinalities as the instance counts them.                              *)
LEMMA CardinalityIs ==
    /\ \A S : So!Cardinality(S) = Cardinality(S)
    /\ \A S : So!IsFiniteSet(S) <=> IsFiniteSet(S)
BY Zenon DEF So!Cardinality, Cardinality, So!IsFiniteSet, IsFiniteSet

(* The count as a sum, and what it says when it is nothing.                *)
LEMMA Counts ==
    ASSUME So!ActorsApart, So!TypeOK, So!RefsExact
    PROVE  /\ IsFiniteSet(So!Attached) /\ IsFiniteSet(So!HoldingWorks)
           /\ Cardinality(So!Attached) \in Nat /\ Cardinality(So!HoldingWorks) \in Nat
           /\ so_refs = Cardinality(So!Attached) + Cardinality(So!HoldingWorks) + So!OwnerRef
           /\ So!Attached # {} => Cardinality(So!Attached) >= 1
           /\ So!HoldingWorks # {} => Cardinality(So!HoldingWorks) >= 1
           /\ so_refs = 0 => So!Attached = {} /\ So!HoldingWorks = {} /\ So!Left
<1>1. IsFiniteSet(So!Attached) /\ IsFiniteSet(So!HoldingWorks)
  <2>1. So!Attached \subseteq Fwds /\ So!HoldingWorks \subseteq Works
    BY Zenon DEF So!Attached, So!HoldingWorks, So!Busy
  <2> QED
    BY <2>1, FS_Subset, CardinalityIs, Zenon DEF So!ActorsApart
<1>2. Cardinality(So!Attached) \in Nat /\ Cardinality(So!HoldingWorks) \in Nat
  BY <1>1, FS_CardinalityType, Zenon
<1>3. /\ So!Attached # {} => Cardinality(So!Attached) # 0
      /\ So!HoldingWorks # {} => Cardinality(So!HoldingWorks) # 0
  BY <1>1, FS_EmptySet, Zenon
<1>4. so_refs = Cardinality(So!Attached) + Cardinality(So!HoldingWorks) + So!OwnerRef
  BY <1>2, CardinalityIs, Zenon DEF So!RefsExact, So!Holders, So!OwnerRef, So!Left
<1>5. So!OwnerRef \in {0, 1} /\ (So!OwnerRef = 0 => So!Left)
  BY DEF So!OwnerRef
<1>6. ASSUME so_refs = 0
      PROVE  So!Attached = {} /\ So!HoldingWorks = {} /\ So!Left
  <2>1. Cardinality(So!Attached) = 0 /\ Cardinality(So!HoldingWorks) = 0 /\ So!OwnerRef = 0
    BY <1>2, <1>4, <1>5, <1>6
  <2> QED
    BY <2>1, <1>3, <1>5, Zenon
<1>7. /\ So!Attached # {} => Cardinality(So!Attached) >= 1
      /\ So!HoldingWorks # {} => Cardinality(So!HoldingWorks) >= 1
  BY <1>2, <1>3
<1> QED
  BY <1>1, <1>2, <1>4, <1>6, <1>7, Zenon

(* The count is exact again when each of its terms is what it was.         *)
LEMMA SameCounts ==
    ASSUME So!RefsExact, so_refs' = so_refs, So!Attached' = So!Attached, So!HoldingWorks' = So!HoldingWorks, So!Left' = So!Left
    PROVE  So!RefsExact'
BY Zenon DEF So!RefsExact, So!Holders, So!Left

(* A work that stays between its start and its end keeps the invariant.    *)
LEMMA WorkMoves ==
    ASSUME So!ActorsApart, So!SocketInv,
           NEW w \in Works, NEW l \in So!InWork, so_pc[w] \in So!InWork, so_pc' = [so_pc EXCEPT ![w] = l],
           so_bDone' \in BOOLEAN, so_bDone => so_bDone', l = "detaching" => so_bDone',
           so_firstShot' \in {0, 1}, so_deaf' \in BOOLEAN, UNCHANGED <<so_kind, so_refs, so_freed, so_fwd>>
    PROVE  So!SocketInv'
<1> USE DEF So!ActorsApart, So!SocketInv
<1>0. /\ so_pc'[w] = l /\ \A a \in So!Actors \ {w} : so_pc'[a] = so_pc[a]
      /\ \A a \in So!Actors : so_pc'[a] \in {"idle", "lastclose", "deleting"} \/ so_pc[a] \in {"idle", "lastclose", "deleting"}
            => so_pc'[a] = so_pc[a]
      /\ w \in So!Actors /\ Owner \in So!Actors /\ w # Owner /\ \A f \in Fwds : f # w /\ f \in So!Actors
      /\ Works \subseteq So!Actors
  BY Zenon DEF So!TypeOK, So!InWork, So!Actors
<1>1. So!TypeOK'
  BY <1>0, Zenon DEF So!TypeOK, So!InWork, So!WorkPC
<1>2. So!Attached' = So!Attached /\ So!HoldingWorks' = So!HoldingWorks /\ So!Left' = So!Left /\ So!Deleters' = So!Deleters /\ So!Busy' = So!Busy
  BY <1>0, Zenon DEF So!Attached, So!HoldingWorks, So!Left, So!Deleters, So!Busy
<1>3. So!RefsExact'
  BY <1>2, SameCounts, Zenon
<1>4. ~so_freed /\ ~So!Quiet
  BY <1>0, Zenon DEF So!FreedAfterAllWorks, So!Busy, So!Quiet, So!InWork
<1>5. So!Reached'
  BY <1>0, <1>2, <1>4, Zenon DEF So!Reached, So!Left
<1>6. So!OneDeleter' /\ So!FreedAfterAllWorks'
  BY <1>2, <1>4, Zenon DEF So!OneDeleter, So!FreedAfterAllWorks
<1>7. So!DeletedOnlyClosed'
  BY <1>0, Zenon DEF So!DeletedOnlyClosed
<1> QED
  BY <1>1, <1>3, <1>5, <1>6, <1>7, Zenon

(* A thread begins or ends its use of a forwarder.                         *)
LEMMA UserMoves ==
    ASSUME So!ActorsApart, So!SocketInv,
           NEW f \in Fwds, NEW l \in {"idle", "using", "releasing"},
           so_pc[f] \in {"idle", "using", "releasing"}, so_pc' = [so_pc EXCEPT ![f] = l],
           l # "idle" => so_fwd[f] = "attached", so_fwd[f] # "none" \/ so_pc[f] # "idle",
           UNCHANGED <<so_kind, so_refs, so_bDone, so_firstShot, so_freed, so_deaf, so_fwd>>
    PROVE  So!SocketInv'
<1> USE DEF So!ActorsApart, So!SocketInv
<1>0. /\ so_pc'[f] = l /\ \A a \in So!Actors \ {f} : so_pc'[a] = so_pc[a]
      /\ f \in So!Actors /\ Owner \in So!Actors /\ f # Owner /\ Fwds \subseteq So!Actors
      /\ \A w \in Works : w # f /\ w \in So!Actors
  BY Zenon DEF So!TypeOK, So!Actors
<1>1. So!TypeOK'
  BY <1>0, Zenon DEF So!TypeOK, So!UserPC
<1>2. So!Attached' = So!Attached /\ So!HoldingWorks' = So!HoldingWorks /\ So!Left' = So!Left /\ So!Deleters' = So!Deleters /\ So!Busy' = So!Busy
  BY <1>0, Zenon DEF So!Attached, So!HoldingWorks, So!Left, So!Deleters, So!Busy
<1>3. So!RefsExact'
  BY <1>2, SameCounts, Zenon
<1>4. ~So!Quiet
  BY Zenon DEF So!Quiet
<1>5. So!Reached'
  BY <1>0, <1>2, <1>4, Zenon DEF So!Reached, So!Left
<1>6. So!OneDeleter' /\ So!FreedAfterAllWorks'
  BY <1>0, <1>2, Zenon DEF So!OneDeleter, So!FreedAfterAllWorks
<1>7. So!DeletedOnlyClosed'
  BY <1>0, Zenon DEF So!DeletedOnlyClosed
<1> QED
  BY <1>1, <1>3, <1>5, <1>6, <1>7, Zenon

(* MinkSocket_enqueue: a work that was idle is queued, and on a server it  *)
(* holds a reference.  Who queues is the session or a reader.              *)
LEMMA QueuedKeeps ==
    ASSUME So!ActorsApart, So!SocketInv, NEW a \in Works \cup {Owner}, NEW v \in Works, NEW l,
           So!Queued(a, v, l), a # v,
           \/ a = Owner /\ so_pc[a] \in {"new", "open"} /\ l = "open"
           \/ a \in Works /\ so_pc[a] = "received" /\ l = "handling"
    PROVE  So!SocketInv'
<1> USE DEF So!ActorsApart, So!SocketInv
<1>0. /\ so_pc'[a] = l /\ so_pc'[v] = "queued" /\ so_pc[v] = "idle"
      /\ \A b \in So!Actors \ {a, v} : so_pc'[b] = so_pc[b]
      /\ a \in So!Actors /\ v \in So!Actors /\ Owner \in So!Actors /\ v # Owner
      /\ Works \subseteq So!Actors /\ \A f \in Fwds : f # a /\ f # v /\ f \in So!Actors
  BY Zenon DEF So!TypeOK, So!Actors, So!Queued
<1>a. /\ UNCHANGED <<so_kind, so_bDone, so_firstShot, so_freed, so_deaf, so_fwd>> /\ ~so_bDone
      /\ so_refs' = so_refs + So!Retained
  BY Zenon DEF So!Queued
<1>b. ~so_freed /\ ~So!Left
  <2>1. ~so_freed
    BY <1>a, Zenon DEF So!OneDeleter
  <2>2. CASE a = Owner
    BY <2>1, <2>2, <1>0, Zenon DEF So!Left
  <2>3. CASE a # Owner
    BY <2>1, <2>3, <1>0, <1>a, Zenon DEF So!Reached, So!Quiet
  <2> QED
    BY <2>1, <2>2, <2>3, Zenon
<1>c. so_pc'[Owner] = so_pc[Owner] \/ (so_pc[Owner] = "new" /\ so_pc'[Owner] = "open")
  BY <1>0, Zenon
<1>d. so_pc[Owner] = "new" => so_pc'[Owner] = "open"
  BY <1>0, Zenon DEF So!Reached, So!Quiet
<1>1. So!TypeOK'
  <2>1. so_refs' \in Nat
    BY <1>a DEF So!TypeOK, So!Retained
  <2>2. so_pc' \in [So!Actors -> So!WorkPC \cup So!UserPC \cup So!OwnerPC]
    BY <1>0, Zenon DEF So!TypeOK, So!Queued, So!WorkPC, So!OwnerPC
  <2>3. /\ \A w \in Works : so_pc'[w] \in So!WorkPC
        /\ \A f \in Fwds : so_pc'[f] \in So!UserPC
        /\ so_pc'[Owner] \in So!OwnerPC
    BY <1>0, Zenon DEF So!TypeOK, So!WorkPC, So!OwnerPC
  <2> QED
    BY <1>a, <2>1, <2>2, <2>3, Zenon DEF So!TypeOK
<1>2. So!Attached' = So!Attached /\ ~So!Left'
  BY <1>a, <1>b, <1>c, Zenon DEF So!Attached, So!Left
<1>3. So!Deleters' = So!Deleters
  BY <1>0, Zenon DEF So!Deleters
<1>4. So!HoldingWorks' = IF so_kind.bServer THEN So!HoldingWorks \cup {v} ELSE {}
  BY <1>0, <1>a, Zenon DEF So!HoldingWorks, So!Busy
<1>5. So!RefsExact'
  <2>1. v \notin So!HoldingWorks /\ IsFiniteSet(So!HoldingWorks)
    BY <1>0, Counts, Zenon DEF So!HoldingWorks, So!Busy
  <2>2. CASE so_kind.bServer
    <3>1. Cardinality(So!HoldingWorks') = Cardinality(So!HoldingWorks) + 1
      BY <2>1, <2>2, <1>4, FS_AddElement, Zenon
    <3> QED
      BY <3>1, <2>2, <1>2, <1>a, <1>b, Counts, CardinalityIs DEF So!RefsExact, So!Holders, So!Left, So!OwnerRef, So!Retained
  <2>3. CASE ~so_kind.bServer
    <3>1. So!HoldingWorks = {}
      BY <2>3, Zenon DEF So!HoldingWorks
    <3>2. So!HoldingWorks' = So!HoldingWorks
      BY <2>3, <1>4, <3>1, Zenon
    <3> QED
      BY <3>2, <2>3, <1>2, <1>a, <1>b, Counts, CardinalityIs DEF So!RefsExact, So!Holders, So!Left, So!OwnerRef, So!Retained
  <2> QED
    BY <2>2, <2>3, Zenon
<1>6. So!Reached'
  BY <1>0, <1>a, <1>b, <1>2, <1>c, <1>d, Zenon DEF So!Reached, So!Left
<1>7. So!OneDeleter'
  <2>1. So!Deleters = {}
    <3>1. so_refs # 0
      BY <1>b, Counts, Zenon
    <3> QED
      BY <3>1, Zenon DEF So!OneDeleter
  <2> QED
    BY <2>1, <1>3, <1>a, <1>b, Zenon DEF So!OneDeleter
<1>8. So!DeletedOnlyClosed' /\ So!FreedAfterAllWorks'
  BY <1>0, <1>a, <1>b, Zenon DEF So!DeletedOnlyClosed, So!FreedAfterAllWorks
<1> QED
  BY <1>1, <1>5, <1>6, <1>7, <1>8, Zenon

(* MinkSocket_dequeue, at the end of a work.                               *)
LEMMA EndWorkKeeps ==
    ASSUME So!ActorsApart, So!SocketInv, NEW w \in Works, So!EndWork(w)
    PROVE  So!SocketInv'
<1> USE DEF So!ActorsApart, So!SocketInv
<1> DEFINE l == IF so_kind.bServer /\ so_refs = 1 THEN "lastclose" ELSE "idle"
<1>a. /\ so_pc[w] = "end" /\ so_pc' = [so_pc EXCEPT ![w] = l]
      /\ so_refs' = IF so_kind.bServer THEN so_refs - 1 ELSE so_refs
      /\ UNCHANGED <<so_kind, so_bDone, so_firstShot, so_freed, so_deaf, so_fwd>>
  BY Zenon DEF So!EndWork, So!MinkSocket_release, So!Goto
<1>0. /\ so_pc'[w] = l /\ \A b \in So!Actors \ {w} : so_pc'[b] = so_pc[b]
      /\ w \in So!Actors /\ Owner \in So!Actors /\ w # Owner
      /\ Works \subseteq So!Actors /\ \A f \in Fwds : f # w /\ f \in So!Actors
  BY <1>a, Zenon DEF So!TypeOK, So!Actors
<1>b. ~so_freed /\ ~So!Quiet
  BY <1>a, Zenon DEF So!FreedAfterAllWorks, So!Busy, So!Quiet
<1>2. So!Attached' = So!Attached /\ So!Left' = So!Left
  BY <1>0, <1>a, Zenon DEF So!Attached, So!Left
<1>3. So!HoldingWorks' = So!HoldingWorks \ {w}
  BY <1>0, <1>a, Zenon DEF So!HoldingWorks, So!Busy
<1>4. so_kind.bServer => w \in So!HoldingWorks /\ so_refs >= 1
  <2>1. so_kind.bServer => w \in So!HoldingWorks
    BY <1>a, Zenon DEF So!HoldingWorks, So!Busy
  <2> QED
    BY <2>1, Counts DEF So!OwnerRef
<1>1. So!TypeOK'
  <2>1. so_refs' \in Nat
    BY <1>a, <1>4 DEF So!TypeOK
  <2>2. so_pc' \in [So!Actors -> So!WorkPC \cup So!UserPC \cup So!OwnerPC]
    BY <1>a, Zenon DEF So!TypeOK, So!WorkPC
  <2>3. /\ \A v \in Works : so_pc'[v] \in So!WorkPC
        /\ \A f \in Fwds : so_pc'[f] \in So!UserPC
        /\ so_pc'[Owner] \in So!OwnerPC
    BY <1>0, Zenon DEF So!TypeOK, So!WorkPC
  <2> QED
    BY <1>a, <2>1, <2>2, <2>3, Zenon DEF So!TypeOK
<1>5. So!RefsExact'
  <2>2. CASE so_kind.bServer
    <3>1. Cardinality(So!HoldingWorks') = Cardinality(So!HoldingWorks) - 1
      BY <1>3, <1>4, <2>2, Counts, FS_RemoveElement, Zenon
    <3> QED
      BY <3>1, <2>2, <1>2, <1>a, Counts, CardinalityIs DEF So!RefsExact, So!Holders, So!Left, So!OwnerRef
  <2>3. CASE ~so_kind.bServer
    <3>1. So!HoldingWorks' = So!HoldingWorks
      BY <2>3, <1>3, Zenon DEF So!HoldingWorks
    <3> QED
      BY <3>1, <2>3, <1>2, <1>a, SameCounts, Zenon
  <2> QED
    BY <2>2, <2>3, Zenon
<1>6. So!Reached'
  BY <1>0, <1>a, <1>b, <1>2 DEF So!Reached, So!Left
<1>7. So!OneDeleter'
  <2>1. CASE so_kind.bServer
    <3>1. So!Deleters = {}
      BY <2>1, <1>4 DEF So!OneDeleter
    <3>2. So!Deleters' \subseteq {w} /\ (So!Deleters' # {} => so_refs = 1)
      BY <3>1, <1>0, Zenon DEF So!Deleters
    <3>3. So!Deleters' # {} => so_refs' = 0
      BY <3>2, <2>1, <1>a
    <3> QED
      BY <3>2, <3>3, <1>a, <1>b, Zenon DEF So!OneDeleter
  <2>2. CASE ~so_kind.bServer
    <3>1. So!Deleters' = So!Deleters
      BY <2>2, <1>0, <1>a DEF So!Deleters
    <3> QED
      BY <3>1, <2>2, <1>a, <1>b, Zenon DEF So!OneDeleter
  <2> QED
    BY <2>1, <2>2, Zenon
<1>8. So!DeletedOnlyClosed' /\ So!FreedAfterAllWorks'
  BY <1>0, <1>a, <1>b DEF So!DeletedOnlyClosed, So!FreedAfterAllWorks
<1> QED
  BY <1>1, <1>5, <1>6, <1>7, <1>8, Zenon

(* MinkSocket_close by whoever dropped the last reference.                 *)
LEMMA LastCloseKeeps ==
    ASSUME So!ActorsApart, So!SocketInv, NEW a \in Works \cup {Owner}, So!LastClose(a)
    PROVE  So!SocketInv'
<1> USE DEF So!ActorsApart, So!SocketInv
<1>a. /\ so_pc[a] = "lastclose" /\ so_pc' = [so_pc EXCEPT ![a] = "deleting"] /\ so_bDone' = TRUE
      /\ UNCHANGED <<so_kind, so_refs, so_firstShot, so_freed, so_deaf, so_fwd>>
  BY Zenon DEF So!LastClose, So!MinkSocket_close, So!Goto
<1>0. /\ so_pc'[a] = "deleting" /\ \A b \in So!Actors \ {a} : so_pc'[b] = so_pc[b]
      /\ a \in So!Actors /\ Owner \in So!Actors
      /\ Works \subseteq So!Actors /\ \A f \in Fwds : f # a /\ f \in So!Actors
  BY <1>a, Zenon DEF So!TypeOK, So!Actors
<1>b. So!Deleters # {} /\ ~so_freed
  BY <1>0, <1>a, Zenon DEF So!Deleters, So!OneDeleter
<1>1. So!TypeOK'
  <2>2. so_pc' \in [So!Actors -> So!WorkPC \cup So!UserPC \cup So!OwnerPC]
    BY <1>a, Zenon DEF So!TypeOK, So!WorkPC
  <2>3. /\ \A v \in Works : so_pc'[v] \in So!WorkPC
        /\ \A f \in Fwds : so_pc'[f] \in So!UserPC
        /\ so_pc'[Owner] \in So!OwnerPC
    BY <1>0, Zenon DEF So!TypeOK, So!WorkPC, So!OwnerPC
  <2> QED
    BY <1>a, <2>2, <2>3, Zenon DEF So!TypeOK
<1>2. So!Attached' = So!Attached /\ So!HoldingWorks' = So!HoldingWorks /\ So!Left' = So!Left /\ So!Deleters' = So!Deleters
  BY <1>0, <1>a DEF So!Attached, So!HoldingWorks, So!Left, So!Deleters, So!Busy
<1>3. So!RefsExact'
  BY <1>a, <1>2, SameCounts, Zenon
<1>4. So!Reached'
  <2>1. so_pc'[Owner] # "new"
    <3>1. so_pc[Owner] # "new"
      BY <1>a, Zenon DEF So!Reached, So!Quiet
    <3> QED
      BY <3>1, <1>0, Zenon
  <2> QED
    BY <2>1, <1>a, Zenon DEF So!Reached
<1>5. So!OneDeleter' /\ So!DeletedOnlyClosed' /\ So!FreedAfterAllWorks'
  BY <1>a, <1>b, <1>2, Zenon DEF So!OneDeleter, So!DeletedOnlyClosed, So!FreedAfterAllWorks
<1> QED
  BY <1>1, <1>3, <1>4, <1>5, Zenon

(* MinkSocket_delete, by a work, a user of a forwarder or the session.     *)
LEMMA DeleteKeeps ==
    ASSUME So!ActorsApart, So!SocketInv, NEW a \in So!Actors, So!MinkSocket_delete(a)
    PROVE  So!SocketInv'
<1> USE DEF So!ActorsApart, So!SocketInv
<1>a. /\ so_pc[a] = "deleting" /\ So!Joined(a) /\ so_freed' = TRUE
      /\ UNCHANGED <<so_kind, so_refs, so_bDone, so_firstShot, so_deaf, so_fwd>>
  BY Zenon DEF So!MinkSocket_delete
<1>0. /\ \A b \in Works : so_pc'[b] = IF b = a \/ so_pc[b] = "queued" THEN "idle" ELSE so_pc[b]
      /\ \A f \in Fwds : so_pc'[f] = IF f = a THEN "idle" ELSE so_pc[f]
      /\ so_pc'[Owner] = IF a = Owner THEN "gone" ELSE so_pc[Owner]
      /\ so_pc' = [b \in So!Actors |-> so_pc'[b]]
  BY Zenon DEF So!MinkSocket_delete, So!Actors
<1>b. /\ so_refs = 0 /\ so_bDone /\ ~so_freed
      /\ \A b \in So!Actors \ {a} : so_pc[b] \notin {"lastclose", "deleting"}
  BY <1>a, Zenon DEF So!OneDeleter, So!DeletedOnlyClosed, So!Deleters
<1>c. So!Attached = {} /\ So!HoldingWorks = {} /\ So!Left
  BY <1>b, Counts, Zenon
<1>d. so_pc'[Owner] = "gone"
  BY <1>0, <1>b, <1>c, Zenon DEF So!Left, So!Actors
<1>e. \A w \in Works : so_pc'[w] = "idle"
  <2> TAKE w \in Works
  <2>1. CASE w = a
    BY <2>1, <1>0, Zenon
  <2>2. CASE w # a /\ so_kind.bServer
    BY <2>2, <1>0, <1>b, <1>c, Zenon DEF So!HoldingWorks, So!Busy, So!Actors
  <2>3. CASE w # a /\ ~so_kind.bServer
    BY <2>3, <1>0, <1>a, Zenon DEF So!Joined, So!Busy
  <2> QED
    BY <2>1, <2>2, <2>3, Zenon
<1>1. So!TypeOK'
  <2>3. /\ \A v \in Works : so_pc'[v] \in So!WorkPC
        /\ \A f \in Fwds : so_pc'[f] \in So!UserPC
        /\ so_pc'[Owner] \in So!OwnerPC
    BY <1>0, <1>d, <1>e, Zenon DEF So!TypeOK, So!WorkPC, So!OwnerPC, So!UserPC
  <2>2. so_pc' \in [So!Actors -> So!WorkPC \cup So!UserPC \cup So!OwnerPC]
    BY <1>0, <2>3, Zenon DEF So!Actors
  <2> QED
    BY <1>a, <2>2, <2>3, Zenon DEF So!TypeOK
<1>2. So!Attached' = So!Attached /\ So!HoldingWorks' = {} /\ So!Left' /\ So!Busy' = {}
  BY <1>a, <1>d, <1>e, Zenon DEF So!Attached, So!HoldingWorks, So!Left, So!Busy
<1>3. So!Deleters' = {}
  BY <1>0, <1>b, <1>d, <1>e, Zenon DEF So!Deleters, So!Actors
<1>4. So!RefsExact'
  BY <1>a, <1>c, <1>2, SameCounts, Zenon
<1>5. So!Reached'
  BY <1>0, <1>a, <1>b, <1>d, <1>e, Zenon DEF So!Reached
<1>6. So!OneDeleter' /\ So!DeletedOnlyClosed' /\ So!FreedAfterAllWorks'
  BY <1>a, <1>b, <1>d, <1>2, <1>3, Zenon DEF So!OneDeleter, So!DeletedOnlyClosed, So!FreedAfterAllWorks
<1> QED
  BY <1>1, <1>4, <1>5, <1>6, Zenon

(* MinkSocket_detachForwarderAll, after a close by a work or the session.  *)
LEMMA DetachKeeps ==
    ASSUME So!ActorsApart, So!SocketInv, NEW a \in Works \cup {Owner}, so_pc[a] = "detaching",
           NEW k, k = (IF a = Owner THEN "closed" ELSE "end"), So!DetachForwarderAll(a, k)
    PROVE  So!SocketInv'
<1> USE DEF So!ActorsApart, So!SocketInv
<1> DEFINE l == IF So!Attached # {} /\ so_refs' = 0 THEN "deleting" ELSE k
<1>a. /\ so_pc' = [so_pc EXCEPT ![a] = l] /\ so_refs' = so_refs - Cardinality(So!Attached)
      /\ so_fwd' = [f \in Fwds |-> IF f \in So!Attached THEN "detached" ELSE so_fwd[f]]
      /\ UNCHANGED <<so_kind, so_bDone, so_firstShot, so_freed, so_deaf>>
  BY CardinalityIs, Zenon DEF So!DetachForwarderAll, So!Goto
<1>0. /\ so_pc'[a] = l /\ \A b \in So!Actors \ {a} : so_pc'[b] = so_pc[b]
      /\ a \in So!Actors /\ Owner \in So!Actors
      /\ Works \subseteq So!Actors /\ \A f \in Fwds : f # a /\ f \in So!Actors
  BY <1>a, Zenon DEF So!TypeOK, So!Actors
<1>b. so_bDone /\ ~so_freed
  BY Zenon DEF So!Reached, So!FreedAfterAllWorks, So!Busy
<1>c. so_refs' = Cardinality(So!HoldingWorks) + So!OwnerRef /\ so_refs' \in Nat
  BY <1>a, Counts DEF So!OwnerRef
<1>d. l = "deleting" => a # Owner /\ ~so_kind.bServer /\ So!Left /\ so_refs' = 0
  <2> SUFFICES ASSUME So!Attached # {}, so_refs' = 0 PROVE a # Owner /\ ~so_kind.bServer /\ So!Left
    BY <1>0, Zenon
  <2>1. So!HoldingWorks = {} /\ So!OwnerRef = 0
    BY <1>c, Counts DEF So!OwnerRef
  <2>2. So!Left
    BY <2>1 DEF So!OwnerRef
  <2>3. a # Owner
    BY <2>2, Zenon DEF So!Left
  <2>4. ~so_kind.bServer
    BY <2>1, <2>3, Zenon DEF So!HoldingWorks, So!Busy
  <2> QED
    BY <2>2, <2>3, <2>4, Zenon
<1>1. So!TypeOK'
  <2>1. so_fwd' \in [Fwds -> {"none", "attached", "detached"}]
    BY <1>a, Zenon DEF So!TypeOK
  <2>2. so_pc' \in [So!Actors -> So!WorkPC \cup So!UserPC \cup So!OwnerPC]
    BY <1>a, Zenon DEF So!TypeOK, So!WorkPC, So!OwnerPC
  <2>3. /\ \A v \in Works : so_pc'[v] \in So!WorkPC
        /\ \A f \in Fwds : so_pc'[f] \in So!UserPC
        /\ so_pc'[Owner] \in So!OwnerPC
    BY <1>0, Zenon DEF So!TypeOK, So!WorkPC, So!OwnerPC
  <2> QED
    BY <1>a, <1>c, <2>1, <2>2, <2>3, Zenon DEF So!TypeOK
<1>2. So!Attached' = {}
  BY <1>a, Zenon DEF So!Attached
<1>3. So!HoldingWorks' = So!HoldingWorks
  BY <1>0, <1>a, <1>d DEF So!HoldingWorks, So!Busy
<1>4. So!Left' = So!Left
  BY <1>0, <1>d DEF So!Left
<1>5. So!RefsExact'
  <2>1. Cardinality(So!Attached') = 0
    BY <1>2, FS_EmptySet, Zenon
  <2> QED
    BY <2>1, <1>3, <1>4, <1>c, Counts, CardinalityIs DEF So!RefsExact, So!Holders, So!Left, So!OwnerRef
<1>6. So!Reached'
  <2>1. so_pc'[Owner] # "new"
    BY <1>0, <1>b, Zenon DEF So!Reached
  <2> QED
    BY <2>1, <1>a, <1>b, Zenon DEF So!Reached
<1>7. So!OneDeleter'
  <2>1. CASE l = "deleting"
    <3>1. so_refs # 0
      BY <2>1, <1>0, Counts, Zenon
    <3>2. So!Deleters' \subseteq {a}
      BY <3>1, <1>0, Zenon DEF So!OneDeleter, So!Deleters
    <3> QED
      BY <3>2, <2>1, <1>a, <1>b, <1>d, Zenon DEF So!OneDeleter
  <2>2. CASE l # "deleting"
    <3>1. So!Deleters' = So!Deleters
      BY <2>2, <1>0, Zenon DEF So!Deleters
    <3>2. so_refs = 0 => so_refs' = 0
      BY <1>a, <1>c, Counts, FS_EmptySet
    <3> QED
      BY <3>1, <3>2, <1>a, <1>b, Zenon DEF So!OneDeleter
  <2> QED
    BY <2>1, <2>2, Zenon
<1>8. So!DeletedOnlyClosed' /\ So!FreedAfterAllWorks'
  BY <1>a, <1>b, Zenon DEF So!DeletedOnlyClosed, So!FreedAfterAllWorks
<1> QED
  BY <1>1, <1>5, <1>6, <1>7, <1>8, Zenon

(* MinkSocket_attachForwarder, on a socket that is open.                   *)
LEMMA AttachKeeps ==
    ASSUME So!ActorsApart, So!SocketInv, NEW f \in Fwds, So!AttachForwarder(f)
    PROVE  So!SocketInv'
<1> USE DEF So!ActorsApart, So!SocketInv
<1>a. /\ so_fwd[f] = "none" /\ ~so_bDone /\ so_refs' = so_refs + 1
      /\ so_fwd' = [so_fwd EXCEPT ![f] = "attached"]
      /\ UNCHANGED <<so_kind, so_bDone, so_firstShot, so_freed, so_deaf, so_pc>>
  BY Zenon DEF So!AttachForwarder, So!CanAttach
<1>b. ~So!Quiet \/ so_pc[Owner] = "open"
  BY Zenon DEF So!AttachForwarder, So!Quiet
<1>c. ~So!Left /\ so_pc[Owner] # "new"
  BY <1>a, <1>b, Zenon DEF So!Reached, So!Left
<1>1. So!TypeOK'
  BY <1>a DEF So!TypeOK
<1>2. /\ So!Attached' = So!Attached \cup {f} /\ f \notin So!Attached
      /\ So!HoldingWorks' = So!HoldingWorks /\ So!Left' = So!Left /\ So!Deleters' = So!Deleters /\ So!Busy' = So!Busy
  BY <1>a, Zenon DEF So!TypeOK, So!Attached, So!HoldingWorks, So!Left, So!Deleters, So!Busy
<1>3. So!RefsExact'
  <2>1. Cardinality(So!Attached') = Cardinality(So!Attached) + 1
    BY <1>2, Counts, FS_AddElement, Zenon
  <2> QED
    BY <2>1, <1>2, <1>a, Counts, CardinalityIs DEF So!RefsExact, So!Holders, So!Left, So!OwnerRef
<1>4. So!Reached'
  BY <1>a, <1>c, <1>2, Zenon DEF So!Reached, So!TypeOK, So!Left
<1>5. so_refs # 0
  BY <1>c, Counts, Zenon
<1>6. So!OneDeleter' /\ So!DeletedOnlyClosed' /\ So!FreedAfterAllWorks'
  BY <1>a, <1>2, <1>5, Zenon DEF So!OneDeleter, So!DeletedOnlyClosed, So!FreedAfterAllWorks
<1> QED
  BY <1>1, <1>3, <1>4, <1>6, Zenon

(* MSForwarder_delete of a forwarder that has been detached: it goes, and  *)
(* the count does not change.                                              *)
LEMMA DetachedGoes ==
    ASSUME So!ActorsApart, So!SocketInv, NEW f \in Fwds, so_fwd[f] = "detached",
           so_fwd' = [so_fwd EXCEPT ![f] = "none"], so_pc' = [so_pc EXCEPT ![f] = "idle"],
           so_pc[f] \in {"idle", "releasing"},
           UNCHANGED <<so_kind, so_refs, so_bDone, so_firstShot, so_freed, so_deaf>>
    PROVE  So!SocketInv'
<1> USE DEF So!ActorsApart, So!SocketInv
<1>0. /\ so_pc'[f] = "idle" /\ \A a \in So!Actors \ {f} : so_pc'[a] = so_pc[a]
      /\ f \in So!Actors /\ Owner \in So!Actors /\ f # Owner /\ Fwds \subseteq So!Actors
      /\ \A w \in Works : w # f /\ w \in So!Actors
      /\ so_fwd'[f] = "none" /\ \A g \in Fwds \ {f} : so_fwd'[g] = so_fwd[g]
  BY Zenon DEF So!TypeOK, So!Actors
<1>1. So!TypeOK'
  BY <1>0, Zenon DEF So!TypeOK, So!UserPC
<1>2. So!Attached' = So!Attached /\ So!HoldingWorks' = So!HoldingWorks /\ So!Left' = So!Left /\ So!Deleters' = So!Deleters /\ So!Busy' = So!Busy
  BY <1>0, Zenon DEF So!Attached, So!HoldingWorks, So!Left, So!Deleters, So!Busy
<1>3. So!RefsExact'
  BY <1>2, SameCounts, Zenon
<1>4. ~So!Quiet
  BY Zenon DEF So!Quiet
<1>5. So!Reached'
  BY <1>0, <1>2, <1>4, Zenon DEF So!Reached, So!Left
<1>6. So!OneDeleter' /\ So!FreedAfterAllWorks'
  BY <1>0, <1>2, Zenon DEF So!OneDeleter, So!FreedAfterAllWorks
<1>7. So!DeletedOnlyClosed'
  BY <1>0, Zenon DEF So!DeletedOnlyClosed
<1> QED
  BY <1>1, <1>3, <1>5, <1>6, <1>7, Zenon

(* MinkSocket_preDeleteForwarder: who takes the last reference deletes.    *)
LEMMA PreDeleteKeeps ==
    ASSUME So!ActorsApart, So!SocketInv, NEW f \in Fwds, So!PreDeleteForwarder(f), so_fwd[f] = "attached"
    PROVE  So!SocketInv'
<1> USE DEF So!ActorsApart, So!SocketInv
<1> DEFINE l == IF so_refs = 1 THEN "deleting" ELSE "idle"
<1>a. /\ so_pc[f] = "releasing" /\ so_pc' = [so_pc EXCEPT ![f] = l]
      /\ so_fwd' = [so_fwd EXCEPT ![f] = "none"] /\ so_refs' = so_refs - 1
      /\ UNCHANGED <<so_kind, so_bDone, so_firstShot, so_freed, so_deaf>>
  BY Zenon DEF So!PreDeleteForwarder, So!Goto
<1>0. /\ so_pc'[f] = l /\ \A a \in So!Actors \ {f} : so_pc'[a] = so_pc[a]
      /\ f \in So!Actors /\ Owner \in So!Actors /\ f # Owner /\ Fwds \subseteq So!Actors
      /\ \A w \in Works : w # f /\ w \in So!Actors
      /\ so_fwd'[f] = "none" /\ \A g \in Fwds \ {f} : so_fwd'[g] = so_fwd[g]
  BY <1>a, Zenon DEF So!TypeOK, So!Actors
<1>b. f \in So!Attached /\ ~So!Quiet
  BY Zenon DEF So!Attached, So!Quiet
<1>c. so_refs >= 1 /\ so_refs \in Nat /\ (so_refs = 1 => So!Left)
  <2>1. Cardinality(So!Attached) >= 1
    BY <1>b, Counts, Zenon
  <2>2. So!OwnerRef \in {0, 1} /\ (So!OwnerRef = 0 => So!Left)
    BY DEF So!OwnerRef
  <2> QED
    BY <2>1, <2>2, Counts DEF So!TypeOK
<1>d. so_refs = 1 => so_bDone
  BY <1>b, <1>c, Zenon DEF So!Reached
<1>e. ~so_freed /\ So!Deleters = {}
  BY <1>c DEF So!OneDeleter
<1>1. So!TypeOK'
  <2>1. so_refs' \in Nat
    BY <1>a, <1>c
  <2>2. so_fwd' \in [Fwds -> {"none", "attached", "detached"}]
    BY <1>a, Zenon DEF So!TypeOK
  <2>3. so_pc' \in [So!Actors -> So!WorkPC \cup So!UserPC \cup So!OwnerPC]
    BY <1>a, Zenon DEF So!TypeOK, So!UserPC
  <2>4. /\ \A v \in Works : so_pc'[v] \in So!WorkPC
        /\ \A g \in Fwds : so_pc'[g] \in So!UserPC
        /\ so_pc'[Owner] \in So!OwnerPC
    BY <1>0, Zenon DEF So!TypeOK, So!UserPC
  <2> QED
    BY <1>a, <2>1, <2>2, <2>3, <2>4, Zenon DEF So!TypeOK
<1>2. /\ So!Attached' = So!Attached \ {f} /\ So!HoldingWorks' = So!HoldingWorks /\ So!Left' = So!Left
      /\ So!Deleters' = IF so_refs = 1 THEN {f} ELSE {}
  BY <1>0, <1>a, <1>e DEF So!Attached, So!HoldingWorks, So!Left, So!Deleters, So!Busy
<1>3. So!RefsExact'
  <2>1. Cardinality(So!Attached') = Cardinality(So!Attached) - 1
    BY <1>2, <1>b, Counts, FS_RemoveElement, Zenon
  <2> QED
    BY <2>1, <1>2, <1>a, Counts, CardinalityIs DEF So!RefsExact, So!Holders, So!Left, So!OwnerRef
<1>4. So!Reached'
  BY <1>0, <1>a, <1>b, <1>2 DEF So!Reached, So!Left
<1>5. So!OneDeleter' /\ So!FreedAfterAllWorks'
  BY <1>a, <1>e, <1>2 DEF So!OneDeleter, So!FreedAfterAllWorks
<1>6. So!DeletedOnlyClosed'
  BY <1>0, <1>a, <1>d DEF So!DeletedOnlyClosed
<1> QED
  BY <1>1, <1>3, <1>4, <1>5, <1>6, Zenon

(* The session opens without a work, or closes the socket.                 *)
LEMMA OwnerMoves ==
    ASSUME So!ActorsApart, So!SocketInv, NEW l \in {"open", "detaching"}, so_pc[Owner] \in {"new", "open"},
           so_pc' = [so_pc EXCEPT ![Owner] = l], so_bDone' = (l = "detaching" \/ so_bDone),
           UNCHANGED <<so_kind, so_refs, so_firstShot, so_freed, so_deaf, so_fwd>>
    PROVE  So!SocketInv'
<1> USE DEF So!ActorsApart, So!SocketInv
<1>0. /\ so_pc'[Owner] = l /\ \A a \in So!Actors \ {Owner} : so_pc'[a] = so_pc[a]
      /\ Owner \in So!Actors /\ \A a \in Works \cup Fwds : a # Owner /\ a \in So!Actors
  BY Zenon DEF So!TypeOK, So!Actors
<1>a. so_bDone' \in BOOLEAN /\ (so_bDone => so_bDone') /\ (l = "detaching" => so_bDone')
  BY Zenon
<1>1. So!TypeOK'
  BY <1>0, <1>a, Zenon DEF So!TypeOK, So!OwnerPC
<1>2. /\ So!Attached' = So!Attached /\ So!HoldingWorks' = So!HoldingWorks /\ So!Left' = So!Left /\ So!Deleters' = So!Deleters
      /\ ~So!Left'
  BY <1>0 DEF So!Attached, So!HoldingWorks, So!Left, So!Deleters, So!Busy
<1>3. So!RefsExact'
  BY <1>2, SameCounts, Zenon
<1>4. So!Reached'
  BY <1>0, <1>a, <1>2, Zenon DEF So!Reached
<1>5. ~so_freed
  BY Zenon DEF So!FreedAfterAllWorks
<1>6. So!OneDeleter' /\ So!FreedAfterAllWorks'
  BY <1>2, <1>5, Zenon DEF So!OneDeleter, So!FreedAfterAllWorks
<1>7. So!DeletedOnlyClosed'
  BY <1>0, <1>a, Zenon DEF So!DeletedOnlyClosed
<1> QED
  BY <1>1, <1>3, <1>4, <1>6, <1>7, Zenon

(* MinkSocket_release by the session, which could not be set up or whose   *)
(* socket is closed.                                                       *)
LEMMA OwnerReleases ==
    ASSUME So!ActorsApart, So!SocketInv, so_pc[Owner] \in {"new", "open", "closed"},
           so_pc[Owner] = "new" \/ so_bDone, So!MinkSocket_release(Owner, "gone")
    PROVE  So!SocketInv'
<1> USE DEF So!ActorsApart, So!SocketInv
<1> DEFINE l == IF so_refs = 1 THEN "lastclose" ELSE "gone"
<1>a. /\ so_pc' = [so_pc EXCEPT ![Owner] = l] /\ so_refs' = so_refs - 1
      /\ UNCHANGED <<so_kind, so_bDone, so_firstShot, so_freed, so_deaf, so_fwd>>
  BY Zenon DEF So!MinkSocket_release, So!Goto
<1>0. /\ so_pc'[Owner] = l /\ \A a \in So!Actors \ {Owner} : so_pc'[a] = so_pc[a]
      /\ Owner \in So!Actors /\ \A a \in Works \cup Fwds : a # Owner /\ a \in So!Actors
  BY <1>a, Zenon DEF So!TypeOK, So!Actors
<1>b. ~So!Left /\ ~so_freed /\ So!OwnerRef = 1
  BY Zenon DEF So!Left, So!FreedAfterAllWorks, So!OwnerRef
<1>c. so_refs >= 1 /\ so_refs \in Nat
  BY <1>b, Counts DEF So!TypeOK
<1>d. so_pc[Owner] = "new" => so_refs = 1 /\ So!Quiet
  <2> SUFFICES ASSUME so_pc[Owner] = "new" PROVE so_refs = 1 /\ So!Quiet
    BY Zenon
  <2>1. So!Quiet
    BY Zenon DEF So!Reached
  <2>2. So!Attached = {} /\ So!HoldingWorks = {}
    BY <2>1, Zenon DEF So!Quiet, So!Attached, So!HoldingWorks, So!Busy
  <2>3. Cardinality(So!Attached) = 0 /\ Cardinality(So!HoldingWorks) = 0
    BY <2>2, FS_EmptySet, Zenon
  <2> QED
    BY <2>1, <2>3, <1>b, Counts
<1>1. So!TypeOK'
  <2>1. so_refs' \in Nat
    BY <1>a, <1>c
  <2>3. so_pc' \in [So!Actors -> So!WorkPC \cup So!UserPC \cup So!OwnerPC]
    BY <1>a, Zenon DEF So!TypeOK, So!OwnerPC
  <2>4. /\ \A v \in Works : so_pc'[v] \in So!WorkPC
        /\ \A g \in Fwds : so_pc'[g] \in So!UserPC
        /\ so_pc'[Owner] \in So!OwnerPC
    BY <1>0, Zenon DEF So!TypeOK, So!OwnerPC
  <2> QED
    BY <1>a, <2>1, <2>3, <2>4, Zenon DEF So!TypeOK
<1>e. So!Deleters = {}
  BY <1>c DEF So!OneDeleter
<1>2. /\ So!Attached' = So!Attached /\ So!HoldingWorks' = So!HoldingWorks /\ So!Left'
      /\ So!Deleters' = IF so_refs = 1 THEN {Owner} ELSE {}
  BY <1>0, <1>a, <1>e DEF So!Attached, So!HoldingWorks, So!Left, So!Deleters, So!Busy
<1>3. So!RefsExact'
  BY <1>2, <1>a, <1>b, Counts, CardinalityIs DEF So!RefsExact, So!Holders, So!Left, So!OwnerRef
<1>4. So!Reached'
  <2>1. so_pc[Owner] = "new" => So!Quiet' /\ so_pc'[Owner] = "lastclose" /\ ~so_freed'
    BY <1>0, <1>a, <1>b, <1>d, Zenon DEF So!Quiet
  <2> QED
    BY <2>1, <1>0, <1>a, <1>2 DEF So!Reached
<1>5. So!OneDeleter' /\ So!FreedAfterAllWorks'
  BY <1>a, <1>b, <1>2 DEF So!OneDeleter, So!FreedAfterAllWorks
<1>6. So!DeletedOnlyClosed'
  BY <1>0, <1>a DEF So!DeletedOnlyClosed
<1> QED
  BY <1>1, <1>3, <1>4, <1>5, <1>6, Zenon

(* The invariant holds of a new socket.                                    *)
LEMMA InitHolds ==
    ASSUME So!ActorsApart, So!Init
    PROVE  So!SocketInv
<1> USE DEF So!ActorsApart
<1>0. /\ Owner \in So!Actors /\ so_pc[Owner] = "new"
      /\ \A a \in Works \cup Fwds : a \in So!Actors /\ so_pc[a] = "idle"
      /\ \A f \in Fwds : so_fwd[f] = "none"
  BY Zenon DEF So!Init, So!Actors
<1>1. So!TypeOK
  BY <1>0, Zenon DEF So!Init, So!TypeOK, So!WorkPC, So!UserPC, So!OwnerPC
<1>2. So!Attached = {} /\ So!HoldingWorks = {} /\ So!Deleters = {}
  BY <1>0, Zenon DEF So!Attached, So!HoldingWorks, So!Busy, So!Deleters, So!Actors
<1>3. So!RefsExact
  BY <1>0, <1>2, FS_EmptySet, CardinalityIs DEF So!RefsExact, So!Holders, So!Init
<1>4. So!Reached
  BY <1>0, Zenon DEF So!Reached, So!Quiet, So!Left, So!Init
<1>5. So!OneDeleter /\ So!DeletedOnlyClosed /\ So!FreedAfterAllWorks
  BY <1>2, Zenon DEF So!OneDeleter, So!DeletedOnlyClosed, So!FreedAfterAllWorks, So!Deleters, So!Init
<1> QED
  BY <1>1, <1>3, <1>4, <1>5, Zenon DEF So!SocketInv

(* The steps of a work, one action after the other.                        *)
LEMMA WorkKeeps ==
    ASSUME So!ActorsApart, So!SocketInv, NEW w \in Works, So!Work(w)
    PROVE  So!SocketInv'
<1>0. So!TypeOK /\ w \in So!Actors
  BY Zenon DEF So!SocketInv, So!Actors
<1>1. CASE So!StartWork(w)
  <2>1. PICK l \in So!InWork : so_pc' = [so_pc EXCEPT ![w] = l] /\ l # "detaching"
    BY <1>1, Zenon DEF So!StartWork, So!Goto, So!InWork, So!WorkPC
  <2> QED
    BY <1>0, <1>1, <2>1, WorkMoves, Zenon DEF So!StartWork, So!InWork, So!WorkPC, So!TypeOK
<1>2. CASE So!Recv(w)
  <2>1. PICK l \in So!InWork : so_pc' = [so_pc EXCEPT ![w] = l] /\ l # "detaching"
    BY <1>2, Zenon DEF So!Recv, So!Goto, So!InWork, So!WorkPC
  <2>2. so_deaf' \in BOOLEAN
    BY <1>0, <1>2, Zenon DEF So!Recv, So!TypeOK
  <2> QED
    BY <1>0, <1>2, <2>1, <2>2, WorkMoves, Zenon DEF So!Recv, So!InWork, So!WorkPC, So!TypeOK
<1>3. CASE So!EnqueueNext(w)
  <2>1. CASE \E v \in Works : So!Queued(w, v, "handling")
    <3>1. PICK v \in Works : So!Queued(w, v, "handling")
      BY <2>1, Zenon
    <3>2. so_pc[w] = "received" /\ so_pc[v] = "idle"
      BY <1>3, <3>1, Zenon DEF So!EnqueueNext, So!Queued
    <3> QED
      BY <3>1, <3>2, QueuedKeeps, Zenon
  <2>2. CASE so_bDone /\ So!Goto(w, "handling") /\ UNCHANGED <<so_kind, so_refs, so_bDone, so_firstShot, so_freed, so_deaf, so_fwd>>
    BY <1>0, <1>3, <2>2, WorkMoves, Zenon DEF So!EnqueueNext, So!Goto, So!InWork, So!WorkPC, So!TypeOK
  <2> QED
    BY <1>3, <2>1, <2>2, Zenon DEF So!EnqueueNext
<1>4. CASE So!Handle(w)
  BY <1>0, <1>4, WorkMoves DEF So!Handle, So!Goto, So!InWork, So!WorkPC, So!TypeOK
<1>5. CASE So!ProcessException(w)
  <2>1. PICK l \in So!InWork : so_pc' = [so_pc EXCEPT ![w] = l] /\ l # "detaching"
    BY <1>5, Zenon DEF So!ProcessException, So!Goto, So!InWork, So!WorkPC
  <2> QED
    BY <1>0, <1>5, <2>1, WorkMoves, Zenon DEF So!ProcessException, So!InWork, So!WorkPC, So!TypeOK
<1>6. CASE So!WorkClose(w)
  BY <1>0, <1>6, WorkMoves, Zenon DEF So!WorkClose, So!MinkSocket_close, So!Goto, So!InWork, So!WorkPC, So!TypeOK
<1>7. CASE So!WorkDetach(w)
  <2>1. w # Owner
    BY Zenon DEF So!ActorsApart
  <2> QED
    BY <1>7, <2>1, DetachKeeps, Zenon DEF So!WorkDetach
<1> QED
  BY <1>0, <1>1, <1>2, <1>3, <1>4, <1>5, <1>6, <1>7, EndWorkKeeps, LastCloseKeeps, DeleteKeeps, Zenon DEF So!Work

(* The steps of a forwarder and of its users.                              *)
LEMMA ForwarderKeeps ==
    ASSUME So!ActorsApart, So!SocketInv, NEW f \in Fwds,
           So!AttachForwarder(f) \/ So!BeginInvoke(f) \/ So!BeginDelete(f) \/ So!User(f)
    PROVE  So!SocketInv'
<1>0. So!TypeOK /\ f \in So!Actors /\ so_fwd[f] \in {"none", "attached", "detached"}
  BY Zenon DEF So!SocketInv, So!Actors, So!TypeOK
<1>1. CASE So!BeginInvoke(f)
  BY <1>1, UserMoves, Zenon DEF So!BeginInvoke, So!Goto
<1>2. CASE So!EndInvoke(f)
  BY <1>2, UserMoves, Zenon DEF So!EndInvoke, So!Goto
<1>3. CASE So!BeginDelete(f)
  <2>1. CASE so_fwd[f] = "attached"
    BY <1>3, <2>1, UserMoves, Zenon DEF So!BeginDelete, So!Goto
  <2>2. CASE so_fwd[f] # "attached"
    <3>1. so_pc' = [so_pc EXCEPT ![f] = "idle"]
      BY <1>0, <1>3, <2>2, Zenon DEF So!BeginDelete, So!TypeOK
    <3> QED
      BY <1>0, <1>3, <2>2, <3>1, DetachedGoes, Zenon DEF So!BeginDelete
  <2> QED
    BY <2>1, <2>2, Zenon
<1>4. CASE So!PreDeleteForwarder(f)
  <2>1. CASE so_fwd[f] = "attached"
    BY <1>4, <2>1, PreDeleteKeeps, Zenon
  <2>2. CASE so_fwd[f] = "detached"
    BY <1>4, <2>2, DetachedGoes, Zenon DEF So!PreDeleteForwarder, So!Goto
  <2>3. CASE so_fwd[f] = "none"
    <3>1. so_fwd' = so_fwd
      BY <1>0, <1>4, <2>3, Zenon DEF So!PreDeleteForwarder, So!TypeOK
    <3> QED
      BY <1>4, <2>3, <3>1, UserMoves, Zenon DEF So!PreDeleteForwarder, So!Goto
  <2> QED
    BY <1>0, <2>1, <2>2, <2>3, Zenon
<1> QED
  BY <1>0, <1>1, <1>2, <1>3, <1>4, AttachKeeps, DeleteKeeps, Zenon DEF So!User

(* The steps of the session.                                               *)
LEMMA SessionKeeps ==
    ASSUME So!ActorsApart, So!SocketInv, So!OpenSession \/ So!HandleConnless \/ So!CloseSession \/ So!OwnerEnds
    PROVE  So!SocketInv'
<1>0. So!TypeOK /\ Owner \in So!Actors
  BY Zenon DEF So!SocketInv, So!Actors
<1>1. CASE So!OpenSession
  <2>1. CASE So!Goto(Owner, "open") /\ UNCHANGED <<so_kind, so_refs, so_bDone, so_firstShot, so_freed, so_deaf, so_fwd>>
    BY <1>0, <1>1, <2>1, OwnerMoves, Zenon DEF So!OpenSession, So!Goto, So!TypeOK
  <2>2. CASE \E w \in Works : So!Queued(Owner, w, "open")
    <3>1. PICK w \in Works : So!Queued(Owner, w, "open")
      BY <2>2, Zenon
    <3> QED
      BY <1>1, <3>1, QueuedKeeps, Zenon DEF So!OpenSession, So!ActorsApart
  <2>3. CASE So!MinkSocket_release(Owner, "gone")
    BY <1>1, <2>3, OwnerReleases, Zenon DEF So!OpenSession
  <2> QED
    BY <1>1, <2>1, <2>2, <2>3, Zenon DEF So!OpenSession
<1>2. CASE So!HandleConnless
  <2>1. PICK w \in Works : So!Queued(Owner, w, "open")
    BY <1>2, Zenon DEF So!HandleConnless
  <2> QED
    BY <1>2, <2>1, QueuedKeeps, Zenon DEF So!HandleConnless, So!ActorsApart
<1>3. CASE So!CloseSession
  BY <1>0, <1>3, OwnerMoves, Zenon DEF So!CloseSession, So!MinkSocket_close, So!Goto
<1>4. CASE So!DetachSession
  BY <1>4, DetachKeeps, Zenon DEF So!DetachSession
<1>5. CASE So!RemoveSession
  BY <1>5, OwnerReleases, Zenon DEF So!RemoveSession
<1> QED
  BY <1>0, <1>1, <1>2, <1>3, <1>4, <1>5, LastCloseKeeps, DeleteKeeps, Zenon DEF So!OwnerEnds

(* The strengthened invariant holds in every reachable state.              *)
LEMMA SocketInvAlways ==
    ASSUME So!ActorsApart
    PROVE  So!Spec => []So!SocketInv
<1>1. So!Init => So!SocketInv
  BY InitHolds, Zenon
<1>2. So!SocketInv /\ [So!Next]_(So!vars) => So!SocketInv'
  <2> SUFFICES ASSUME So!SocketInv, [So!Next]_(So!vars) PROVE So!SocketInv'
    BY Zenon
  <2>1. CASE So!Next
    BY <2>1, WorkKeeps, ForwarderKeeps, SessionKeeps, Zenon DEF So!Next
  <2>2. CASE UNCHANGED So!vars
    <3>1. /\ So!Attached' = So!Attached /\ So!HoldingWorks' = So!HoldingWorks /\ So!Left' = So!Left
          /\ So!Deleters' = So!Deleters /\ So!Busy' = So!Busy /\ So!Quiet' = So!Quiet
      BY <2>2, Zenon DEF So!vars, So!Attached, So!HoldingWorks, So!Left, So!Deleters, So!Busy, So!Quiet
    <3>2. So!RefsExact'
      BY <2>2, <3>1, SameCounts, Zenon DEF So!SocketInv, So!vars
    <3> QED
      BY <2>2, <3>1, <3>2, Zenon DEF So!SocketInv, So!vars, So!TypeOK, So!Reached, So!OneDeleter, So!DeletedOnlyClosed, So!FreedAfterAllWorks
  <2> QED
    BY <2>1, <2>2, Zenon
<1> QED
  BY <1>1, <1>2, PTL DEF So!Spec

(* Whoever closes is on its way to detach, and nobody gives that up: what  *)
(* keeps the forwarders of a closed socket from growing.                   *)
LEMMA DetachingStays ==
    ASSUME So!ClosedHasNoForwarders, so_bDone' => so_bDone, So!Attached' \subseteq So!Attached,
           \A a \in So!Actors : so_pc[a] = "detaching" => so_pc'[a] = "detaching"
    PROVE  So!ClosedHasNoForwarders'
BY Zenon DEF So!ClosedHasNoForwarders

(* An actor that is elsewhere moves, and the forwarders stay as they are.  *)
LEMMA MovesAway ==
    ASSUME So!TypeOK, So!ClosedHasNoForwarders, NEW a \in So!Actors, NEW l,
           so_pc[a] # "detaching", So!Goto(a, l), UNCHANGED <<so_bDone, so_fwd>>
    PROVE  So!ClosedHasNoForwarders'
<1>1. \A b \in So!Actors : so_pc[b] = "detaching" => so_pc'[b] = "detaching"
  BY Zenon DEF So!TypeOK, So!Goto
<1>2. So!Attached' = So!Attached
  BY Zenon DEF So!Attached
<1> QED
  BY <1>1, <1>2, DetachingStays, Zenon

(* The last holder closes a socket that has no forwarder left.             *)
LEMMA LastCloseDetached ==
    ASSUME So!ActorsApart, So!SocketInv, NEW a \in So!Actors, So!LastClose(a)
    PROVE  So!ClosedHasNoForwarders'
<1>1. a \in So!Deleters
  BY Zenon DEF So!LastClose, So!Deleters
<1>2. So!Attached = {}
  BY <1>1, Counts, Zenon DEF So!SocketInv, So!OneDeleter
<1>3. So!Attached' = So!Attached
  BY Zenon DEF So!LastClose, So!MinkSocket_close, So!Attached
<1> QED
  BY <1>2, <1>3, Zenon DEF So!ClosedHasNoForwarders

(* After MinkSocket_detachForwarderAll none is attached.                   *)
LEMMA DetachEmpties ==
    ASSUME NEW a \in So!Actors, NEW l, So!DetachForwarderAll(a, l)
    PROVE  So!ClosedHasNoForwarders'
<1>1. So!Attached' = {}
  BY Zenon DEF So!DetachForwarderAll, So!Attached
<1> QED
  BY <1>1, Zenon DEF So!ClosedHasNoForwarders

(* MinkSocket_delete ends the deleter and what is queued, nothing else.    *)
LEMMA DeleteKeepsDetaching ==
    ASSUME So!ClosedHasNoForwarders, NEW a \in So!Actors, So!MinkSocket_delete(a)
    PROVE  So!ClosedHasNoForwarders'
<1>1. \A b \in So!Actors : so_pc[b] = "detaching" => so_pc'[b] = "detaching"
  BY Zenon DEF So!MinkSocket_delete
<1>2. So!Attached' = So!Attached /\ so_bDone' = so_bDone
  BY Zenon DEF So!MinkSocket_delete, So!Attached
<1> QED
  BY <1>1, <1>2, DetachingStays, Zenon

(* No work is queued on a closed socket.                                   *)
LEMMA QueuedIsOpen ==
    ASSUME NEW a, NEW v, NEW l, So!Queued(a, v, l)
    PROVE  So!ClosedHasNoForwarders'
BY Zenon DEF So!Queued, So!ClosedHasNoForwarders

(* The steps of a work.                                                    *)
LEMMA WorkDetaches ==
    ASSUME So!ActorsApart, So!SocketInv, So!ClosedHasNoForwarders, NEW w \in Works, So!Work(w)
    PROVE  So!ClosedHasNoForwarders'
<1>0. So!TypeOK /\ w \in So!Actors
  BY Zenon DEF So!SocketInv, So!Actors
<1>1. CASE So!StartWork(w) \/ So!Recv(w) \/ So!Handle(w) \/ So!ProcessException(w) \/ So!EndWork(w)
  <2>1. so_pc[w] # "detaching" /\ UNCHANGED <<so_bDone, so_fwd>>
    BY <1>1, Zenon DEF So!StartWork, So!Recv, So!Handle, So!ProcessException, So!EndWork, So!MinkSocket_release
  <2>2. \E l : So!Goto(w, l)
    BY <1>1, Zenon DEF So!StartWork, So!Recv, So!Handle, So!ProcessException, So!EndWork, So!MinkSocket_release
  <2> QED
    BY <1>0, <2>1, <2>2, MovesAway, Zenon
<1>2. CASE So!EnqueueNext(w)
  <2>1. CASE \E v \in Works : So!Queued(w, v, "handling")
    BY <2>1, QueuedIsOpen, Zenon
  <2>2. CASE ~ \E v \in Works : So!Queued(w, v, "handling")
    BY <1>0, <1>2, <2>2, MovesAway, Zenon DEF So!EnqueueNext
  <2> QED
    BY <2>1, <2>2, Zenon
<1>3. CASE So!WorkClose(w)
  BY <1>0, <1>3, Zenon DEF So!WorkClose, So!MinkSocket_close, So!Goto, So!TypeOK, So!ClosedHasNoForwarders
<1>4. CASE So!WorkDetach(w)
  BY <1>0, <1>4, DetachEmpties, Zenon DEF So!WorkDetach
<1>5. CASE So!LastClose(w)
  BY <1>0, <1>5, LastCloseDetached, Zenon
<1>6. CASE So!MinkSocket_delete(w)
  BY <1>0, <1>6, DeleteKeepsDetaching, Zenon
<1> QED
  BY <1>1, <1>2, <1>3, <1>4, <1>5, <1>6, Zenon DEF So!Work

(* The steps of a forwarder and its user: attached only while open.        *)
LEMMA ForwarderDetaches ==
    ASSUME So!ActorsApart, So!SocketInv, So!ClosedHasNoForwarders, NEW f \in Fwds,
           So!AttachForwarder(f) \/ So!BeginInvoke(f) \/ So!BeginDelete(f) \/ So!User(f)
    PROVE  So!ClosedHasNoForwarders'
<1>0. So!TypeOK /\ f \in So!Actors
  BY Zenon DEF So!SocketInv, So!Actors
<1>1. CASE So!AttachForwarder(f)
  BY <1>1, Zenon DEF So!AttachForwarder, So!CanAttach, So!ClosedHasNoForwarders
<1>2. CASE So!BeginInvoke(f) \/ So!EndInvoke(f)
  BY <1>0, <1>2, MovesAway, Zenon DEF So!BeginInvoke, So!EndInvoke
<1>3. CASE So!BeginDelete(f) \/ So!PreDeleteForwarder(f)
  <2>1. \A a \in So!Actors : so_pc[a] = "detaching" => so_pc'[a] = "detaching"
    BY <1>0, <1>3, Zenon DEF So!BeginDelete, So!PreDeleteForwarder, So!Goto, So!TypeOK
  <2>2. So!Attached' \subseteq So!Attached /\ so_bDone' = so_bDone
    BY <1>0, <1>3, Zenon DEF So!BeginDelete, So!PreDeleteForwarder, So!Attached, So!TypeOK
  <2> QED
    BY <2>1, <2>2, DetachingStays, Zenon
<1>4. CASE So!MinkSocket_delete(f)
  BY <1>0, <1>4, DeleteKeepsDetaching, Zenon
<1> QED
  BY <1>1, <1>2, <1>3, <1>4, Zenon DEF So!User

(* The steps of the session.                                               *)
LEMMA SessionDetaches ==
    ASSUME So!ActorsApart, So!SocketInv, So!ClosedHasNoForwarders,
           So!OpenSession \/ So!HandleConnless \/ So!CloseSession \/ So!OwnerEnds
    PROVE  So!ClosedHasNoForwarders'
<1>0. So!TypeOK /\ Owner \in So!Actors
  BY Zenon DEF So!SocketInv, So!Actors
<1>1. CASE \E w \in Works : So!Queued(Owner, w, "open")
  BY <1>1, QueuedIsOpen, Zenon
<1>2. CASE (So!OpenSession \/ So!RemoveSession) /\ ~ \E w \in Works : So!Queued(Owner, w, "open")
  <2>1. so_pc[Owner] # "detaching" /\ UNCHANGED <<so_bDone, so_fwd>> /\ \E l : So!Goto(Owner, l)
    BY <1>2, Zenon DEF So!OpenSession, So!RemoveSession, So!MinkSocket_release
  <2> QED
    BY <1>0, <2>1, MovesAway, Zenon
<1>3. CASE So!CloseSession
  BY <1>0, <1>3, Zenon DEF So!CloseSession, So!MinkSocket_close, So!Goto, So!TypeOK, So!ClosedHasNoForwarders
<1>4. CASE So!DetachSession
  BY <1>0, <1>4, DetachEmpties, Zenon DEF So!DetachSession
<1>5. CASE So!LastClose(Owner)
  BY <1>0, <1>5, LastCloseDetached, Zenon
<1>6. CASE So!MinkSocket_delete(Owner)
  BY <1>0, <1>6, DeleteKeepsDetaching, Zenon
<1> QED
  BY <1>1, <1>2, <1>3, <1>4, <1>5, <1>6, Zenon DEF So!HandleConnless, So!OwnerEnds

(* No forwarder keeps a closed connection alive: none is attached after a  *)
(* close, and whoever closed detaches those that were.                     *)
LEMMA SocketDetached ==
    ASSUME So!ActorsApart
    PROVE  So!Spec => []So!ClosedHasNoForwarders
<1>1. So!Init => So!ClosedHasNoForwarders
  BY Zenon DEF So!Init, So!ClosedHasNoForwarders
<1>2. So!SocketInv /\ So!ClosedHasNoForwarders /\ [So!Next]_(So!vars) => So!ClosedHasNoForwarders'
  <2> SUFFICES ASSUME So!SocketInv, So!ClosedHasNoForwarders, [So!Next]_(So!vars)
               PROVE  So!ClosedHasNoForwarders'
    BY Zenon
  <2>1. CASE So!Next
    BY <2>1, WorkDetaches, ForwarderDetaches, SessionDetaches, Zenon DEF So!Next
  <2>2. CASE UNCHANGED So!vars
    BY <2>2, Zenon DEF So!vars, So!ClosedHasNoForwarders, So!Attached
  <2> QED
    BY <2>1, <2>2, Zenon
<1> QED
  BY <1>1, <1>2, SocketInvAlways, PTL DEF So!Spec

(* A step that closes nothing and takes nobody from reading.               *)
LEMMA ReadersStay ==
    ASSUME So!ReadInv, so_bDone' = so_bDone, so_kind' = so_kind, so_deaf' = so_deaf, so_firstShot' = so_firstShot,
           so_pc'[Owner] = "open" => so_pc[Owner] = "open" \/ so_kind.connless,
           \A w \in Works : so_pc[w] \in So!Reading => so_pc'[w] \in So!Reading,
           \A w \in Works : so_pc[w] = "closing" => so_pc'[w] = "closing"
    PROVE  So!ReadInv'
<1>1. So!OpenConnectionIsRead'
  BY Zenon DEF So!ReadInv, So!OpenConnectionIsRead, So!Reading
<1>2. So!FirstCloses'
  BY Zenon DEF So!ReadInv, So!FirstCloses
<1> QED
  BY <1>1, <1>2, Zenon DEF So!ReadInv

(* One actor moves, from no reading place or to one.                       *)
LEMMA ReaderMoves ==
    ASSUME So!TypeOK, So!ActorsApart, So!ReadInv, NEW a \in So!Actors, NEW l, So!Goto(a, l),
           a \in Works => so_pc[a] # "closing" /\ (so_pc[a] \in So!Reading => l \in So!Reading),
           a = Owner => l # "open" \/ so_kind.connless,
           UNCHANGED <<so_bDone, so_kind, so_deaf, so_firstShot>>
    PROVE  So!ReadInv'
<1>1. so_pc'[a] = l /\ \A b \in So!Actors \ {a} : so_pc'[b] = so_pc[b]
  BY Zenon DEF So!Goto, So!TypeOK
<1>2. Owner \in So!Actors /\ Works \subseteq So!Actors /\ Owner \notin Works
  BY Zenon DEF So!Actors, So!ActorsApart
<1>3. so_pc'[Owner] = "open" => so_pc[Owner] = "open" \/ so_kind.connless
  BY <1>1, <1>2, Zenon
<1>4. \A w \in Works : so_pc[w] \in So!Reading => so_pc'[w] \in So!Reading
  BY <1>1, <1>2, Zenon
<1>5. \A w \in Works : so_pc[w] = "closing" => so_pc'[w] = "closing"
  BY <1>1, <1>2, Zenon
<1> QED
  BY <1>3, <1>4, <1>5, ReadersStay, Zenon

(* A closed socket is read by nobody.                                      *)
LEMMA ClosedIsUnread ==
    ASSUME so_bDone'
    PROVE  So!ReadInv'
BY Zenon DEF So!ReadInv, So!OpenConnectionIsRead, So!FirstCloses

(* A queued work will read, and nobody who closes is disturbed.            *)
LEMMA QueuedReads ==
    ASSUME So!TypeOK, So!ActorsApart, So!ReadInv, NEW a \in So!Actors, NEW v \in Works, NEW l,
           a \in Works => so_pc[a] # "closing", So!Queued(a, v, l), a # v
    PROVE  So!ReadInv'
<1>1. /\ so_pc'[v] = "queued" /\ so_pc[v] = "idle"
      /\ \A b \in So!Actors \ {a, v} : so_pc'[b] = so_pc[b]
      /\ UNCHANGED <<so_bDone, so_firstShot>> /\ Works \subseteq So!Actors
  BY Zenon DEF So!Queued, So!TypeOK, So!Actors
<1>2. So!FirstCloses'
  BY <1>1, Zenon DEF So!ReadInv, So!FirstCloses
<1> QED
  BY <1>1, <1>2, Zenon DEF So!ReadInv, So!OpenConnectionIsRead

(* Only a closed socket is deleted.                                        *)
LEMMA DeletedIsUnread ==
    ASSUME So!SocketInv, NEW a \in So!Actors, So!MinkSocket_delete(a)
    PROVE  So!ReadInv'
BY ClosedIsUnread, Zenon DEF So!SocketInv, So!DeletedOnlyClosed, So!MinkSocket_delete

(* The steps of a work: the reader queues the next one before it handles   *)
(* its message, and a failure is the first, which closes, or not.          *)
LEMMA WorkReads ==
    ASSUME So!ActorsApart, So!SocketInv, So!ReadInv, NEW w \in Works, So!Work(w)
    PROVE  So!ReadInv'
<1>0. So!TypeOK /\ w \in So!Actors /\ w # Owner
  BY Zenon DEF So!SocketInv, So!Actors, So!ActorsApart
<1>1. CASE So!StartWork(w)
  <2>1. CASE so_kind.connless
    <3>1. so_kind' = so_kind /\ UNCHANGED <<so_bDone, so_firstShot>>
      BY <1>1, Zenon DEF So!StartWork
    <3>2. \A v \in Works : so_pc[v] = "closing" => so_pc'[v] = "closing"
      BY <1>0, <1>1, Zenon DEF So!StartWork, So!Goto, So!TypeOK, So!Actors
    <3> QED
      BY <2>1, <3>1, <3>2, Zenon DEF So!ReadInv, So!OpenConnectionIsRead, So!FirstCloses
  <2>2. CASE ~so_kind.connless
    <3>1. PICK l \in So!Reading : So!Goto(w, l)
      BY <1>1, <2>2, Zenon DEF So!StartWork, So!Reading
    <3> QED
      BY <1>0, <1>1, <3>1, ReaderMoves, Zenon DEF So!StartWork
  <2> QED
    BY <2>1, <2>2, Zenon
<1>2. CASE So!Recv(w)
  <2>1. CASE so_deaf' = so_deaf
    <3>1. CASE \E l \in So!Reading : So!Goto(w, l)
      BY <1>0, <1>2, <2>1, <3>1, ReaderMoves, Zenon DEF So!Recv
    <3>2. CASE ~ \E l \in So!Reading : So!Goto(w, l)
      <4>1. so_deaf' /\ So!Goto(w, "end") /\ UNCHANGED <<so_bDone, so_firstShot>> /\ so_pc[w] = "polling"
        BY <1>2, <3>2, Zenon DEF So!Recv, So!Reading
      <4>2. \A v \in Works : so_pc[v] = "closing" => so_pc'[v] = "closing"
        BY <1>0, <4>1, Zenon DEF So!Goto, So!TypeOK, So!Actors
      <4> QED
        BY <4>1, <4>2, Zenon DEF So!ReadInv, So!OpenConnectionIsRead, So!FirstCloses
    <3> QED
      BY <3>1, <3>2, Zenon
  <2>2. CASE so_deaf' # so_deaf
    <3>1. so_deaf' /\ So!Goto(w, "end") /\ UNCHANGED <<so_bDone, so_firstShot>> /\ so_pc[w] = "polling"
      BY <1>2, <2>2, Zenon DEF So!Recv
    <3>2. \A v \in Works : so_pc[v] = "closing" => so_pc'[v] = "closing"
      BY <1>0, <3>1 DEF So!Goto, So!TypeOK, So!Actors
    <3> QED
      BY <3>1, <3>2 DEF So!ReadInv, So!OpenConnectionIsRead, So!FirstCloses
  <2> QED
    BY <2>1, <2>2, Zenon
<1>3. CASE So!EnqueueNext(w)
  <2>1. CASE \E v \in Works : So!Queued(w, v, "handling")
    <3>1. PICK v \in Works : So!Queued(w, v, "handling")
      BY <2>1, Zenon
    <3>2. v # w /\ so_pc[w] # "closing"
      BY <1>3, <3>1, Zenon DEF So!EnqueueNext, So!Queued
    <3> QED
      BY <1>0, <3>1, <3>2, QueuedReads, Zenon
  <2>2. CASE ~ \E v \in Works : So!Queued(w, v, "handling")
    BY <1>3, <2>2, ClosedIsUnread DEF So!EnqueueNext
  <2> QED
    BY <2>1, <2>2, Zenon
<1>4. CASE So!Handle(w)
  <2>1. \E l : So!Goto(w, l)
    BY <1>4, Zenon DEF So!Handle
  <2>2. so_pc[w] = "handling" /\ UNCHANGED <<so_bDone, so_kind, so_deaf, so_firstShot>>
    BY <1>4, Zenon DEF So!Handle
  <2> QED
    BY <1>0, <2>1, <2>2, ReaderMoves, Zenon DEF So!Reading
<1>5. CASE So!ProcessException(w)
  <2>1. /\ so_pc[w] = "defunct" /\ so_firstShot' = 0 /\ UNCHANGED <<so_kind, so_bDone, so_deaf>>
        /\ so_pc'[w] = (IF so_firstShot = 1 THEN "closing" ELSE "end")
        /\ \A b \in So!Actors \ {w} : so_pc'[b] = so_pc[b]
    BY <1>0, <1>5, Zenon DEF So!ProcessException, So!Goto, So!TypeOK
  <2>2. so_firstShot \in {0, 1}
    BY <1>0, Zenon DEF So!TypeOK
  <2>3. So!FirstCloses'
    BY <1>0, <2>1, <2>2, Zenon DEF So!ReadInv, So!FirstCloses, So!Actors
  <2>4. So!OpenConnectionIsRead'
    BY <2>1, <2>3, Zenon DEF So!FirstCloses, So!OpenConnectionIsRead
  <2> QED
    BY <2>3, <2>4, Zenon DEF So!ReadInv
<1>6. CASE So!WorkClose(w) \/ So!LastClose(w)
  BY <1>6, ClosedIsUnread, Zenon DEF So!WorkClose, So!LastClose, So!MinkSocket_close
<1>7. CASE So!WorkDetach(w)
  BY <1>7, ClosedIsUnread, Zenon DEF So!WorkDetach, So!DetachForwarderAll, So!SocketInv, So!Reached
<1>8. CASE So!EndWork(w)
  <2>1. \E l : So!Goto(w, l)
    BY <1>8, Zenon DEF So!EndWork, So!MinkSocket_release
  <2>2. so_pc[w] = "end" /\ UNCHANGED <<so_bDone, so_kind, so_deaf, so_firstShot>>
    BY <1>8, Zenon DEF So!EndWork, So!MinkSocket_release
  <2> QED
    BY <1>0, <2>1, <2>2, ReaderMoves, Zenon DEF So!Reading
<1>9. CASE So!MinkSocket_delete(w)
  BY <1>0, <1>9, DeletedIsUnread, Zenon
<1> QED
  BY <1>1, <1>2, <1>3, <1>4, <1>5, <1>6, <1>7, <1>8, <1>9, Zenon DEF So!Work

(* The steps of the forwarders read nothing.                               *)
LEMMA ForwarderReads ==
    ASSUME So!ActorsApart, So!SocketInv, So!ReadInv, NEW f \in Fwds,
           So!AttachForwarder(f) \/ So!BeginInvoke(f) \/ So!BeginDelete(f) \/ So!User(f)
    PROVE  So!ReadInv'
<1>0. So!TypeOK /\ f \in So!Actors /\ f \notin Works /\ f # Owner
  BY Zenon DEF So!SocketInv, So!Actors, So!ActorsApart
<1>1. CASE So!MinkSocket_delete(f)
  BY <1>0, <1>1, DeletedIsUnread, Zenon
<1>2. CASE ~So!MinkSocket_delete(f)
  <2>1. UNCHANGED <<so_bDone, so_kind, so_deaf, so_firstShot>>
    BY <1>2, Zenon DEF So!AttachForwarder, So!BeginInvoke, So!BeginDelete, So!User, So!EndInvoke, So!PreDeleteForwarder
  <2>2. UNCHANGED so_pc \/ \E l : So!Goto(f, l)
    BY <1>2, Zenon DEF So!AttachForwarder, So!BeginInvoke, So!BeginDelete, So!User, So!EndInvoke, So!PreDeleteForwarder
  <2>3. CASE UNCHANGED so_pc
    BY <2>1, <2>3, ReadersStay, Zenon
  <2>4. CASE \E l : So!Goto(f, l)
    BY <1>0, <2>1, <2>4, ReaderMoves, Zenon
  <2> QED
    BY <2>2, <2>3, <2>4, Zenon
<1> QED
  BY <1>1, <1>2, Zenon

(* The steps of the session: it opens with a work that reads.              *)
LEMMA SessionReads ==
    ASSUME So!ActorsApart, So!SocketInv, So!ReadInv,
           So!OpenSession \/ So!HandleConnless \/ So!CloseSession \/ So!OwnerEnds
    PROVE  So!ReadInv'
<1>0. So!TypeOK /\ Owner \in So!Actors /\ Owner \notin Works
  BY Zenon DEF So!SocketInv, So!Actors, So!ActorsApart
<1>1. CASE \E w \in Works : So!Queued(Owner, w, "open")
  BY <1>0, <1>1, QueuedReads, Zenon
<1>2. CASE So!OpenSession /\ ~ \E w \in Works : So!Queued(Owner, w, "open")
  <2>1. CASE so_kind.connless /\ So!Goto(Owner, "open")
    BY <1>0, <1>2, <2>1, ReaderMoves, Zenon DEF So!OpenSession, So!MinkSocket_release
  <2>2. CASE So!MinkSocket_release(Owner, "gone")
    <3>1. PICK l : So!Goto(Owner, l) /\ l # "open"
      BY <2>2 DEF So!MinkSocket_release
    <3> QED
      BY <1>0, <2>2, <3>1, ReaderMoves, Zenon DEF So!MinkSocket_release
  <2> QED
    BY <1>2, <2>1, <2>2, Zenon DEF So!OpenSession
<1>3. CASE So!CloseSession \/ So!LastClose(Owner)
  BY <1>3, ClosedIsUnread, Zenon DEF So!CloseSession, So!LastClose, So!MinkSocket_close
<1>4. CASE So!DetachSession
  BY <1>4, ClosedIsUnread, Zenon DEF So!DetachSession, So!DetachForwarderAll, So!SocketInv, So!Reached
<1>5. CASE So!RemoveSession
  BY <1>5, ClosedIsUnread, Zenon DEF So!RemoveSession, So!MinkSocket_release
<1>6. CASE So!MinkSocket_delete(Owner)
  BY <1>0, <1>6, DeletedIsUnread, Zenon
<1> QED
  BY <1>1, <1>2, <1>3, <1>4, <1>5, <1>6, Zenon DEF So!HandleConnless, So!OwnerEnds

(* A connection that is open is read until a read fails: each reader       *)
(* leaves a successor before it handles what it received, and of several   *)
(* failures the first one closes.                                          *)
LEMMA SocketIsRead ==
    ASSUME So!ActorsApart
    PROVE  So!Spec => []So!OpenConnectionIsRead
<1>1. So!Init => So!ReadInv
  BY DEF So!Init, So!ReadInv, So!OpenConnectionIsRead, So!FirstCloses, So!Actors
<1>2. So!SocketInv /\ So!ReadInv /\ [So!Next]_(So!vars) => So!ReadInv'
  <2> SUFFICES ASSUME So!SocketInv, So!ReadInv, [So!Next]_(So!vars)
               PROVE  So!ReadInv'
    BY Zenon
  <2>1. CASE So!Next
    BY <2>1, WorkReads, ForwarderReads, SessionReads, Zenon DEF So!Next
  <2>2. CASE UNCHANGED So!vars
    BY <2>2, Zenon DEF So!vars, So!ReadInv, So!OpenConnectionIsRead, So!FirstCloses
  <2> QED
    BY <2>1, <2>2, Zenon
<1>3. So!ReadInv => So!OpenConnectionIsRead
  BY Zenon DEF So!ReadInv
<1> QED
  BY <1>1, <1>2, <1>3, SocketInvAlways, PTL DEF So!Spec

(* A MinkSocket, with any number of works and forwarders: its count is the *)
(* number of its holders, one actor deletes it, with no reference left,    *)
(* after a close and after every work (minksocket.c:598 "Thus MinkSocket   *)
(* never be freed before all TheadWorks done"), no forwarder keeps it once *)
(* it is closed, and while it is open it is read.                          *)
LEMMA SocketSafe ==
    ASSUME So!ActorsApart
    PROVE  So!Spec => []So!SocketFreedLast
<1>1. So!SocketInv => So!RefsExact /\ So!DeletedOnce /\ So!FreedAfterAllWorks /\ So!DeletedOnlyClosed
  <2> SUFFICES ASSUME So!SocketInv PROVE So!DeletedOnce
    BY Zenon DEF So!SocketInv
  <2>1. Cardinality(So!Deleters) <= 1
    <3>1. CASE So!Deleters = {}
      BY <3>1, FS_EmptySet
    <3>2. CASE So!Deleters # {}
      <4>0. PICK a : a \in So!Deleters
        BY <3>2, Zenon
      <4>1. So!Deleters = {a}
        BY <4>0, Zenon DEF So!SocketInv, So!OneDeleter
      <4> QED
        BY <4>1, FS_Singleton
    <3> QED
      BY <3>1, <3>2, Zenon
  <2> QED
    BY <2>1, CardinalityIs, Zenon DEF So!SocketInv, So!OneDeleter, So!DeletedOnce
<1> QED
  BY <1>1, SocketInvAlways, SocketDetached, SocketIsRead, PTL DEF So!SocketFreedLast

-----------------------------------------------------------------------------
(* The adaptor of the TEE driver: threads of the supplicant and callback   *)
(* objects.                                                                *)
AdVars == <<ad_pc, ad_sigpending, ad_killed, ad_req, ad_requests, ad_alloc, ad_heap,
        ad_sup, ad_failed, ad_copies, ad_refs, ad_held, ad_badfree>>
Ad == INSTANCE MinkAdaptor WITH
    pc <- ad_pc, sigpending <- ad_sigpending, killed <- ad_killed, req <- ad_req,
    requests <- ad_requests, alloc <- ad_alloc, heap <- ad_heap, sup <- ad_sup,
    failed <- ad_failed, copies <- ad_copies, refs <- ad_refs, held <- ad_held,
    badfree <- ad_badfree, Workers <- Workers, Cbos <- Cbos, Ptrs <- Ptrs,
    MaxRequests <- MaxRequests, MaxCopies <- MaxCopies

(* References and copies change together in every conversion, also in one  *)
(* that fails half way, and a thread that ends has no request: for any     *)
(* number of threads and callback objects.                                 *)
LEMMA AdaptorSafe == Ad!Spec => [](Ad!RequestsKept /\ Ad!CopiesHoldReferences)
<1>1. Ad!Init => Ad!AdaptorInv
  BY DEF Ad!Init, Ad!AdaptorInv, Ad!CopiesHoldReferences
<1>2. Ad!AdaptorInv /\ [Ad!Next]_(Ad!vars) => Ad!AdaptorInv'
  <2> SUFFICES ASSUME Ad!AdaptorInv, [Ad!Next]_(Ad!vars) PROVE Ad!AdaptorInv'
    BY Zenon
  <2> USE DEF Ad!AdaptorInv, Ad!CopiesHoldReferences, Ad!Unoccupied
  <2>1. CASE Ad!supplicant_start \/ Ad!supplicant_release \/ Ad!supplicant_join
    BY <2>1, Zenon DEF Ad!supplicant_start, Ad!supplicant_release, Ad!supplicant_join
  <2>2. ASSUME NEW w \in Workers, Ad!Worker(w)
        PROVE  Ad!AdaptorInv'
    <3>1. CASE Ad!Unblock(w) \/ Ad!CallRecvIoctl(w) \/ Ad!TestPending(w) \/ Ad!EnterKernel(w) \/ Ad!KillHandler(w) \/ Ad!Block(w)
      BY <3>1, Zenon DEF Ad!Unblock, Ad!CallRecvIoctl, Ad!TestPending, Ad!EnterKernel, Ad!KillHandler, Ad!Block, Ad!Unblocked, Ad!Moves
    <3>2. CASE Ad!Dispatch(w) \/ Ad!Invoke(w)
      BY <3>2, Zenon DEF Ad!Dispatch, Ad!Invoke, Ad!Moves
    <3>3. CASE Ad!RespondError(w) \/ Ad!Cleanup(w)
      BY <3>3, Zenon DEF Ad!RespondError, Ad!Cleanup, Ad!Moves
    <3> QED
      BY <2>2, <3>1, <3>2, <3>3, Zenon DEF Ad!Worker
  <2>3. ASSUME NEW w \in Workers, Ad!Receive(w)
        PROVE  Ad!AdaptorInv'
    BY <2>3, Zenon DEF Ad!Receive, Ad!Moves
  <2>4. ASSUME NEW C \in SUBSET Cbos, Ad!invoke_over_tee(C)
        PROVE  Ad!AdaptorInv'
    BY <2>4 DEF Ad!invoke_over_tee, Ad!object_args_to_tee_params, Ad!release_qcomtee_objs, Ad!qcomtee_obj_from_mink_obj
  <2>5. ASSUME NEW c \in Cbos, Ad!MinkCom_getClientEnvObjectWithCreds(c)
        PROVE  Ad!AdaptorInv'
    BY <2>5 DEF Ad!MinkCom_getClientEnvObjectWithCreds, Ad!release_qcomtee_objs, Ad!qcomtee_obj_from_mink_obj
  <2>6. ASSUME NEW c \in Cbos, Ad!qcomtee_callback_obj_release(c)
        PROVE  Ad!AdaptorInv'
    BY <2>6 DEF Ad!qcomtee_callback_obj_release
  <2>7. CASE Ad!MinkCom_getClientEnvObject \/ Ad!MinkCom_getMemoryObject \/ \E o \in ad_held : Ad!ReleaseHeld(o)
    BY <2>7, Zenon DEF Ad!MinkCom_getClientEnvObject, Ad!MinkCom_getMemoryObject, Ad!ReleaseHeld
  <2>8. CASE UNCHANGED Ad!vars
    BY <2>8, Zenon DEF Ad!vars
  <2> QED
    BY <2>1, <2>2, <2>3, <2>4, <2>5, <2>6, <2>7, <2>8, Zenon DEF Ad!Next
<1>3. Ad!AdaptorInv => Ad!RequestsKept /\ Ad!CopiesHoldReferences
  BY Zenon DEF Ad!AdaptorInv, Ad!RequestsKept, Ad!Unoccupied
<1> QED
  BY <1>1, <1>2, <1>3, PTL DEF Ad!Spec

-----------------------------------------------------------------------------
(* A connection: threads that send at either end, and a reader at each.    *)
StVars == <<st_sockType, st_open, st_mutex, st_chan, st_pc, st_msg, st_left, st_rpc,
        st_got, st_intact, st_closes>>
St == INSTANCE StreamsProofs WITH
    sockType <- st_sockType, open <- st_open, mutex <- st_mutex, chan <- st_chan,
    pc <- st_pc, msg <- st_msg, left <- st_left, rpc <- st_rpc, got <- st_got,
    intact <- st_intact, closes <- st_closes, SendersA <- SendersA,
    SendersB <- SendersB, Sizes <- Sizes, Cap <- Cap, MaxPayload <- MaxPayload,
    MaxCloses <- MaxCloses, Protocols <- {"UNIX", "QMSGQ"}, HdrSize <- 1

(* The senders are different threads, and a message has a header.          *)
ASSUME StreamsAssumption == St!SendersApart

-----------------------------------------------------------------------------
(* Peers on two nodes.                                                     *)
IpVars == <<ip_ipc, ip_me, ip_sessions, ip_received, ip_lpc, ip_lmsg, ip_target, ip_app>>
Ip == INSTANCE MinkIPCService WITH
    ipc <- ip_ipc, me <- ip_me, sessions <- ip_sessions, received <- ip_received,
    lpc <- ip_lpc, lmsg <- ip_lmsg, target <- ip_target, app <- ip_app,
    Threads <- {"main", "other"}, Main <- "main",
    Peers <- {[node |-> 0, port |-> 1], [node |-> 0, port |-> 2], [node |-> 1, port |-> 1]},
    MaxSessions <- 2, MaxMsgs <- 1

-----------------------------------------------------------------------------
(* Two threads, calls nested three deep, one packet that does not arrive.  *)
TiVars == <<ti_mtx, ti_ctr, ti_ot, ti_tif, ti_stack, ti_calls, ti_faults>>
Ti == INSTANCE TunnelInvoke WITH
    mtx <- ti_mtx, ctr <- ti_ctr, ot <- ti_ot, tif <- ti_tif, stack <- ti_stack,
    calls <- ti_calls, faults <- ti_faults, Threads <- {"t", "u"}, Callers <- {"client"},
    Objs <- {"a"}, ObjsLen <- 2, Faults <- {"unreachable"}, MaxCalls <- 2, MaxDepth <- 6,
    MaxFaults <- 1

-----------------------------------------------------------------------------
vars == <<subject, SoVars, AdVars, StVars, InVars, IpVars, TiVars>>

Init ==
    /\ subject \in {"SocketLife", "MinkAdaptor", "Streams", "Invocations",
        "MinkIPCService", "TunnelInvoke"}
    /\ So!Init /\ (subject = "SocketLife" \/ so_kind = [bServer |-> FALSE, connless |-> FALSE])
    /\ Ad!Init
    /\ St!Init /\ (subject = "Streams" \/ st_sockType = "UNIX")
    /\ In!Init
    /\ Ip!Init /\ (subject = "MinkIPCService" \/ ip_ipc = [type |-> "UNIX", bServer |-> FALSE, server |-> [node |-> 0, port |-> 1]])
    /\ Ti!Init

Next ==
    \/ subject = "SocketLife" /\ So!Next /\ UNCHANGED <<subject, AdVars, StVars, InVars,
            IpVars, TiVars>>
    \/ subject = "MinkAdaptor" /\ Ad!Next /\ UNCHANGED <<subject, SoVars, StVars, InVars,
            IpVars, TiVars>>
    \/ subject = "Streams" /\ St!Next /\ UNCHANGED <<subject, SoVars, AdVars, InVars,
            IpVars, TiVars>>
    \/ subject = "Invocations" /\ In!Next /\ UNCHANGED <<subject, SoVars, AdVars, StVars,
            IpVars, TiVars>>
    \/ subject = "MinkIPCService" /\ Ip!Next /\ UNCHANGED <<subject, SoVars, AdVars,
            StVars, InVars, TiVars>>
    \/ subject = "TunnelInvoke" /\ Ti!Next /\ UNCHANGED <<subject, SoVars, AdVars, StVars,
            InVars, IpVars>>

Spec == Init /\ [][Next]_vars

-----------------------------------------------------------------------------
(* The variables of every component have their types.                      *)
TypeOK == St!TypeOK /\ In!TypeOK /\ So!TypeOK /\ Ip!TypeOK /\ Ti!TypeOK /\ Ad!TypeOK

(* Whoever waits for another goes on: a send returns, an invocation that   *)
(* has begun returns, the socket of a removed session is freed, the        *)
(* release of a service's last reference returns, a call through the       *)
(* tunnel returns, and so does the release of the adaptor, which waits for *)
(* its supplicant's threads.  Each under the scheduling of its component.  *)
CallsReturn ==
    /\ St!Fairness => St!SendsReturn
    /\ In!Fairness => In!InvokesReturn
    /\ So!Fairness => So!RemovedIsFreed
    /\ Ip!Fairness => Ip!StopReturns
    /\ Ti!Fairness => Ti!CallsReturn
    /\ Ad!Fairness => Ad!ReleaseReturns

(* An invocation returns with the answer to its own request, and a message *)
(* is put together from the pieces of one send, with its descriptors       *)
(* (minksocket.c, SockUNIX.c).                                             *)
AnsweredByOwnReply == In!AnsweredByOwnReply /\ In!InfoOutlivesReader /\ St!MessagesWhole

(* One packet at a time is written into the tunnel, no packet is taken for *)
(* a repetition of an earlier one, and a handle means the object it was    *)
(* given for (TunnelInvoke.c).                                             *)
TunnelKeepsCallsApart == Ti!OneAuthor /\ Ti!NeverTakenForReplay /\ Ti!HandlesStayValid

(* A request of the secure world is answered or still held, and every copy *)
(* of an object that the adaptor gives away has a reference of its own     *)
(* (MinkTeeAdaptor).                                                       *)
CopiesHoldReferences == Ad!RequestsKept /\ Ad!CopiesHoldReferences

(* The count of a socket is the number of its holders; it is deleted by    *)
(* one of them, closed and after every work of the pool is done with it;   *)
(* no forwarder keeps a closed one, and an open one is read (minksocket.c  *)
(* release, dequeue, detachForwarder).                                     *)
SocketFreedLast == So!SocketFreedLast

-----------------------------------------------------------------------------
(* A connection and its invocations, for any number of threads, sizes of   *)
(* messages and buffers, and any number of invocations: what an end takes  *)
(* for a message is one send's, whole and with its descriptors, and an     *)
(* invocation returns with its own reply or the error of a close, while    *)
(* the reader that found it has not done with it.                          *)
THEOREM AlwaysAnsweredByOwnReply == Spec => []AnsweredByOwnReply
<1>1. Init => St!Init /\ In!Init
  BY Zenon DEF Init
<1>2. [Next]_vars => [St!Next]_(St!vars)
  BY Zenon DEF Next, vars, StVars, St!vars
<1>3. [Next]_vars => [In!Next]_(In!vars)
  BY Zenon DEF Next, vars, InVars, In!vars
<1>4. St!Spec => []St!MessagesWhole
  BY St!StreamsWhole, StreamsAssumption, Zenon
<1>5. In!Spec => [](In!AnsweredByOwnReply /\ In!InfoOutlivesReader)
  BY OwnReplies, InvocationsAssumption, Zenon
<1> QED
  BY <1>1, <1>2, <1>3, <1>4, <1>5, PTL DEF Spec, St!Spec, In!Spec, AnsweredByOwnReply

(* The life of a socket, for any number of works and forwarders: what is   *)
(* proved of SocketLife holds of the socket here, since a step is one of   *)
(* the socket's or leaves it alone.                                        *)
THEOREM SocketAlwaysFreedLast == Spec => []SocketFreedLast
<1>1. Init => So!Init
  BY Zenon DEF Init
<1>2. [Next]_vars => [So!Next]_(So!vars)
  BY Zenon DEF Next, vars, SoVars, So!vars
<1>3. So!Spec => []So!SocketFreedLast
  BY SocketSafe, CallsAssumption, Zenon
<1> QED
  BY <1>1, <1>2, <1>3, PTL DEF Spec, So!Spec, SocketFreedLast

(* The adaptor, for any number of threads and callback objects: references *)
(* and copies change together in every conversion, also in one that fails  *)
(* half way, and a thread that ends has no request.                        *)
THEOREM CopiesAlwaysHoldReferences == Spec => []CopiesHoldReferences
<1>1. Init => Ad!Init
  BY Zenon DEF Init
<1>2. [Next]_vars => [Ad!Next]_(Ad!vars)
  BY Zenon DEF Next, vars, AdVars, Ad!vars
<1> QED
  BY <1>1, <1>2, AdaptorSafe, PTL DEF Spec, Ad!Spec, CopiesHoldReferences
=============================================================================
