---------------------------- MODULE TunnelInvoke ----------------------------
(***************************************************************************)
(* The encrypted tunnel between the VM and the trusted environment: two    *)
(* endpoints running the same code, whose packets carry one increasing     *)
(* counter.  An endpoint's counterMutex stands for the right to author the *)
(* next packet: the host starts with it locked, the holder of the right    *)
(* gives it up with the packet it sends, and the receiver's unlock takes   *)
(* it over.  A call is a stack of frames that alternate between the two    *)
(* sides, since a handler may call back before it answers.  Sources:       *)
(* QTVM/libs/libtunnelinvoke/src/TunnelInvoke.c, TIMessage.c, TICrypto.c   *)
(* and inc/ObjectTable.h.                                                  *)
(***************************************************************************)
EXTENDS Integers, Sequences, FiniteSets, SequencesExt

CONSTANTS
    Threads,   \* callers, on either side
    Callers,   \* sides whose threads call outside handlers
    Objs,      \* local objects either side can pass
    ObjsLen,   \* entries of an object table
    Faults,    \* what the portal may do: "unreachable", "replyLost"
    MaxCalls,  \* bound: calls started by users in a behaviour
    MaxDepth,  \* bound: frames of a call's stack
    MaxFaults  \* bound: portal errors

VARIABLES
    mtx,    \* side -> counterMutex is locked
    ctr,    \* side -> TI.counter
    ot,     \* side -> object table: index -> [obj, refs]
    tif,    \* side -> forwarders held there: <<index, object meant>> -> count
    stack,  \* thread -> frames, the innermost last
    calls, faults

vars == <<mtx, ctr, ot, tif, stack, calls, faults>>

Sides == {"client", "host"}
Peer(s) == IF s = "client" THEN "host" ELSE "client"
Indexes == 0 .. ObjsLen - 1
Null == "null"
AllObjs == Objs \cup {"env"}
Refs == Indexes \X AllObjs
NoArg == [kind |-> "none", i |-> 0, obj |-> Null]
Local(o) == [kind |-> "local", i |-> 0, obj |-> o]
Remote(r) == [kind |-> "remote", i |-> r[1], obj |-> r[2]]

\* Both sides after TunnelInvokeService_init: the host's environment object is
\* entry 0 of its table (TI_CENV_OBJ_INDEX), and the client has its forwarder.
Init ==
    /\ mtx = [s \in Sides |-> s = "host"]
    /\ ctr = [s \in Sides |-> 0]
    /\ ot = [s \in Sides |-> [i \in Indexes |->
              IF s = "host" /\ i = 0 THEN [obj |-> "env", refs |-> 1] ELSE [obj |-> Null, refs |-> 0]]]
    /\ tif = [s \in Sides |-> [r \in Refs |-> IF s = "client" /\ r = <<0, "env">> THEN 1 ELSE 0]]
    /\ stack = [t \in Threads |-> <<>>]
    /\ calls = 0 /\ faults = 0

Top(t) == Last(stack[t])
Pc(t) == IF stack[t] = <<>> THEN "idle" ELSE Top(t).pc
Side(t) == Top(t).side
SetTop(t, f) == stack' = [stack EXCEPT ![t] = Append(Front(@), f)]
PopTo(t, g(_)) == stack' = [stack EXCEPT ![t] = Append(Front(Front(@)), g(Last(Front(@))))]
FramesOf(P(_)) ==
    {f \in Threads \X (1 .. MaxDepth) : f[2] \in DOMAIN stack[f[1]] /\ P(stack[f[1]][f[2]])}
Held(s) == {r \in Refs : tif[s][r] > 0}
----------------------------------------------------------------------------
\* ObjectTable.h

Used(tab) == {i \in Indexes : tab[i].obj # Null}
Entry(tab, o) == CHOOSE i \in Indexes : tab[i].obj = o
FirstFree(tab) == CHOOSE i \in Indexes \ Used(tab) : \A j \in Indexes \ Used(tab) : i <= j

ObjectTable_hasRoom(tab, o) == (\E i \in Indexes : tab[i].obj = o) \/ Used(tab) # Indexes

ObjectTable_index(tab, o) == IF \E i \in Indexes : tab[i].obj = o THEN Entry(tab, o) ELSE FirstFree(tab)


\* One more reference of an object already in the table, or a new entry.
ObjectTable_addObject(tab, o) ==
    [tab EXCEPT ![ObjectTable_index(tab, o)] = [obj |-> o, refs |-> IF @.obj = o THEN @.refs + 1 ELSE 1]]

\* The entry is closed when its count reaches exactly zero.
ObjectTable_releaseHandle(tab, i) ==
    [tab EXCEPT ![i] = IF @.refs = 1 THEN [obj |-> Null, refs |-> 0] ELSE [@ EXCEPT !.refs = @ - 1]]
----------------------------------------------------------------------------
\* TIMessage.c: objects crossing in a message.

\* An argument as the receiver reads it: the sender's local objects are remote
\* there, the sender's forwarders name entries of the receiver's own table.
InMessage(s, tab, a) ==
    CASE a.kind = "local" -> [kind |-> "remote", i |-> ObjectTable_index(tab, a.obj), obj |-> a.obj]
      [] a.kind = "remote" -> [kind |-> "local", i |-> a.i, obj |-> a.obj]
      [] OTHER -> a

\* copyObjectToRemote: a local object is added to the table.
copyObjectToRemote(tab, a) == IF a.kind = "local" THEN ObjectTable_addObject(tab, a.obj) ELSE tab

\* copyObjectFromRemote: a remote object becomes a new forwarder of its own.
copyObjectFromRemote(held, m) ==
    IF m.kind = "remote" THEN [held EXCEPT ![<<m.i, m.obj>>] = @ + 1] ELSE held

\* ... and a local one must be in the table.
Recoverable(tab, m) == m.kind = "local" => tab[m.i].obj # Null
----------------------------------------------------------------------------
\* The caller's half: TI_invokeRemoteObject.

Frame(s, op, r, a) == [side |-> s, pc |-> "pack", op |-> op, i |-> r[1], obj |-> r[2],
                       oi |-> a, oo |-> NoArg, cnt |-> 0, rv |-> "ok"]

\* A user of a forwarder calls through it, on a free thread or from inside a
\* handler.  An input object is null, its own or another forwarder.
TIF_invoke(t) ==
    \E s \in Sides, r \in Refs, a \in {NoArg} \cup {Local(o) : o \in Objs} \cup {Remote(r2) : r2 \in Refs} :
        /\ (Pc(t) = "idle" /\ s \in Callers) \/ (Pc(t) = "handling" /\ Side(t) = s)
        /\ calls < MaxCalls /\ Len(stack[t]) < MaxDepth - 2
        /\ r \in Held(s)
        /\ a.kind = "remote" => <<a.i, a.obj>> \in Held(s)
        /\ calls' = calls + 1
        /\ stack' = [stack EXCEPT ![t] = Append(@, Frame(s, "call", r, a))]
        /\ UNCHANGED <<mtx, ctr, ot, tif, faults>>

\* References users do not own: a handler's input object until it returns, and
\* the target and input object of a call under way (TIF_invoke retains them).
Borrows(f, s, r) == f.side = s /\ f.pc = "handling" /\ f.oi.kind = "remote" /\ <<f.oi.i, f.oi.obj>> = r
Uses(f, s, r) ==
    /\ f.side = s /\ f.op = "call" /\ f.pc \in {"pack", "lock", "transact", "waits", "reply", "unpack"}
    /\ \/ <<f.i, f.obj>> = r
       \/ f.oi.kind = (IF f.pc = "pack" THEN "remote" ELSE "local") /\ <<f.oi.i, f.oi.obj>> = r

\* A user drops its last reference of a forwarder: TIF_delete sends a release.
TIF_delete(t) ==
    \E s \in Sides : \E r \in Held(s) \ {<<0, "env">>} :
        /\ (Pc(t) = "idle" /\ s \in Callers) \/ (Pc(t) = "handling" /\ Side(t) = s)
        /\ Len(stack[t]) < MaxDepth - 2
        /\ tif[s][r] > Cardinality(FramesOf(LAMBDA f : Borrows(f, s, r)))
                         + (IF FramesOf(LAMBDA f : Uses(f, s, r)) = {} THEN 0 ELSE 1)
        /\ tif' = [tif EXCEPT ![s][r] = @ - 1]
        /\ stack' = [stack EXCEPT ![t] = Append(@, Frame(s, "release", r, NoArg))]
        /\ UNCHANGED <<mtx, ctr, ot, calls, faults>>

\* The invocation ends and its caller continues.
Returns(t) == stack' = [stack EXCEPT ![t] = Front(@)]

\* TIMessage_newOutbound: the input object is marshalled before the right to
\* author is asked for.
TIMessage_newOutbound(t) ==
    /\ Pc(t) = "pack"
    /\ LET s == Side(t)  a == Top(t).oi
       IN  /\ a.kind = "local" => ObjectTable_hasRoom(ot[s], a.obj)
           /\ ot' = [ot EXCEPT ![s] = copyObjectToRemote(@, a)]
           /\ SetTop(t, [Top(t) EXCEPT !.pc = "lock", !.oi = InMessage(s, ot'[s], a)])
    /\ UNCHANGED <<mtx, ctr, tif, calls, faults>>

\* ... which fails when the table is full.
newOutboundFails(t) ==
    /\ Pc(t) = "pack"
    /\ Top(t).oi.kind = "local" /\ ~ ObjectTable_hasRoom(ot[Side(t)], Top(t).oi.obj)
    /\ Returns(t)
    /\ UNCHANGED <<mtx, ctr, ot, tif, calls, faults>>

Author_unlocked(t) ==
    /\ Pc(t) = "lock"
    /\ mtx' = [mtx EXCEPT ![Side(t)] = TRUE]
    /\ ctr' = [ctr EXCEPT ![Side(t)] = @ + 1]
    /\ SetTop(t, [Top(t) EXCEPT !.pc = "transact", !.cnt = ctr'[Side(t)]])
    /\ UNCHANGED <<ot, tif, calls, faults>>

\* The mutex is taken and TICrypto_newPackets numbers the packet.
Author(t) ==
    /\ Pc(t) = "lock"
    /\ ~ mtx[Side(t)]
    /\ mtx' = [mtx EXCEPT ![Side(t)] = TRUE]
    /\ ctr' = [ctr EXCEPT ![Side(t)] = @ + 1]
    /\ SetTop(t, [Top(t) EXCEPT !.pc = "transact", !.cnt = ctr'[Side(t)]])
    /\ UNCHANGED <<ot, tif, calls, faults>>

\* IMinkPortal_transact reaches the peer endpoint.
Transact(t) ==
    /\ Pc(t) = "transact"
    /\ stack' = [stack EXCEPT ![t] = Append(Append(Front(@), [Top(t) EXCEPT !.pc = "waits"]),
                     [Top(t) EXCEPT !.pc = "decrypt", !.side = Peer(@)])]
    /\ UNCHANGED <<mtx, ctr, ot, tif, calls, faults>>

\* ... or not: nothing was delivered.
Unreachable(t) ==
    /\ Pc(t) = "transact"
    /\ "unreachable" \in Faults /\ faults < MaxFaults /\ faults' = faults + 1
    /\ SetTop(t, [Top(t) EXCEPT !.pc = "reply", !.rv = "portal"])
    /\ UNCHANGED <<mtx, ctr, ot, tif, calls>>

\* The portal failed: the mutex is released, and the input objects are taken
\* out of the table again (TIMessage_releaseLocalOI).
PortalFailed(t) ==
    /\ Pc(t) = "reply" /\ Top(t).rv = "portal"
    /\ mtx' = [mtx EXCEPT ![Side(t)] = FALSE]
    /\ ot' = [ot EXCEPT ![Side(t)] = IF Top(t).oi.kind = "remote"
                  THEN ObjectTable_releaseHandle(@, Top(t).oi.i) ELSE @]
    /\ Returns(t)
    /\ UNCHANGED <<ctr, tif, calls, faults>>

Answered_locked(t) ==
    /\ Pc(t) = "reply" /\ Top(t).rv # "portal"
    /\ LET s == Side(t)  fresh == Top(t).cnt > ctr[s]
       IN  /\ ctr' = [ctr EXCEPT ![s] = IF fresh THEN Top(t).cnt ELSE @]
           /\ mtx' = [mtx EXCEPT ![s] = Top(t).rv # "ok"]
           /\ IF fresh /\ Top(t).rv = "ok"
              THEN SetTop(t, [Top(t) EXCEPT !.pc = "unpack"])
              ELSE Returns(t)
    /\ UNCHANGED <<ot, tif, calls, faults>>

\* TICrypto_newMessage of the answer: a packet that is not newer is refused.
Answered(t) ==
    /\ Pc(t) = "reply" /\ Top(t).rv # "portal"
    /\ LET s == Side(t)  fresh == Top(t).cnt > ctr[s]
       IN  /\ ctr' = [ctr EXCEPT ![s] = IF fresh THEN Top(t).cnt ELSE @]
           /\ mtx' = [mtx EXCEPT ![s] = FALSE]
           /\ IF fresh /\ Top(t).rv = "ok"
              THEN SetTop(t, [Top(t) EXCEPT !.pc = "unpack"])
              ELSE Returns(t)
    /\ UNCHANGED <<ot, tif, calls, faults>>

\* TIMessage_processResponse, outside the mutex.  A local output object that is
\* no longer in the table fails the call.
TIMessage_processResponse(t) ==
    /\ Pc(t) = "unpack"
    /\ tif' = [tif EXCEPT ![Side(t)] = copyObjectFromRemote(@, Top(t).oo)]
    /\ Returns(t)
    /\ UNCHANGED <<mtx, ctr, ot, calls, faults>>
----------------------------------------------------------------------------
\* The callee's half: TI_handleInboundInvoke and TIMessage_handleInbound.

\* A packet that is not newer is refused: the portal returns an error and the
\* mutex stays as it is.
TICrypto_newMessageFails(t) ==
    /\ Pc(t) = "decrypt" /\ Top(t).cnt <= ctr[Side(t)]
    /\ PopTo(t, LAMBDA f : [f EXCEPT !.pc = "reply", !.rv = "portal"])
    /\ UNCHANGED <<mtx, ctr, ot, tif, calls, faults>>

\* The packet passes the right to author to this side: the mutex this side
\* locked with its own last packet is unlocked, by whichever thread it is.
TICrypto_newMessage(t) ==
    /\ Pc(t) = "decrypt" /\ Top(t).cnt > ctr[Side(t)]
    /\ ctr' = [ctr EXCEPT ![Side(t)] = Top(t).cnt]
    /\ mtx' = [mtx EXCEPT ![Side(t)] = FALSE]
    /\ SetTop(t, [Top(t) EXCEPT !.pc = "inbound"])
    /\ UNCHANGED <<ot, tif, calls, faults>>

\* A release is handled by the table alone.
InboundRelease(t) ==
    /\ Pc(t) = "inbound" /\ Top(t).op = "release"
    /\ ot' = [ot EXCEPT ![Side(t)] = ObjectTable_releaseHandle(@, Top(t).i)]
    /\ SetTop(t, [Top(t) EXCEPT !.pc = "relock"])
    /\ UNCHANGED <<mtx, ctr, tif, calls, faults>>

\* The target and the input object are recovered (inbound_marshalIn) and the
\* target is invoked.
InboundCall(t) ==
    /\ Pc(t) = "inbound" /\ Top(t).op = "call"
    /\ ot[Side(t)][Top(t).i].obj # Null /\ Recoverable(ot[Side(t)], Top(t).oi)
    /\ tif' = [tif EXCEPT ![Side(t)] = copyObjectFromRemote(@, Top(t).oi)]
    /\ SetTop(t, [Top(t) EXCEPT !.pc = "handling"])
    /\ UNCHANGED <<mtx, ctr, ot, calls, faults>>

\* No such target, or no such input object.
InboundBadObj(t) ==
    /\ Pc(t) = "inbound" /\ Top(t).op = "call"
    /\ ot[Side(t)][Top(t).i].obj = Null \/ ~ Recoverable(ot[Side(t)], Top(t).oi)
    /\ SetTop(t, [Top(t) EXCEPT !.pc = "relock", !.rv = "portal", !.oi = NoArg])
    /\ UNCHANGED <<mtx, ctr, ot, tif, calls, faults>>

\* What follows the handler: the input object is released on exit, unless the
\* target kept it, and a forwarder so released tells the peer first.
Exit(t, f, keeps) ==
    LET r == <<f.oi.i, f.oi.obj>>
    IN  IF f.oi.kind = "remote" /\ ~ keeps
        THEN /\ tif' = [tif EXCEPT ![f.side][r] = @ - 1]
             /\ stack' = [stack EXCEPT ![t] = Append(Append(Front(@), f),
                              Frame(f.side, "release", r, NoArg))]
        ELSE /\ SetTop(t, f)
             /\ UNCHANGED tif

\* The target fails: the transport carries its error.
TargetFails(t) ==
    /\ Pc(t) = "handling"
    /\ Exit(t, [Top(t) EXCEPT !.pc = "relock", !.rv = "error"], FALSE)
    /\ UNCHANGED <<mtx, ctr, ot, calls, faults>>

\* The target succeeds, and inbound_marshalOut copies its output object: null,
\* one of this side, or a forwarder this side goes on holding.
inbound_marshalOut(t) ==
    /\ Pc(t) = "handling"
    /\ LET s == Side(t)
       IN  \E a \in {NoArg} \cup {Local(o) : o \in Objs}, keeps \in BOOLEAN :
               /\ a.kind = "local" => ObjectTable_hasRoom(ot[s], a.obj)
               /\ ot' = [ot EXCEPT ![s] = copyObjectToRemote(@, a)]
               /\ Exit(t, [Top(t) EXCEPT !.pc = "relock", !.oo = InMessage(s, ot'[s], a)], keeps)
    /\ UNCHANGED <<mtx, ctr, calls, faults>>

\* ... or finds the table full: handleInbound fails though the target ran.
inbound_marshalOutFails(t) ==
    /\ Pc(t) = "handling"
    /\ \E o \in Objs, keeps \in BOOLEAN :
           /\ ~ ObjectTable_hasRoom(ot[Side(t)], o)
           /\ Exit(t, [Top(t) EXCEPT !.pc = "relock", !.rv = "portal"], keeps)
    /\ UNCHANGED <<mtx, ctr, ot, calls, faults>>

TI_handleInboundInvoke_early(t) ==
    /\ Pc(t) = "relock"
    /\ ctr' = [ctr EXCEPT ![Side(t)] = @ + 1]
    /\ PopTo(t, LAMBDA f : [f EXCEPT !.pc = "reply", !.rv = Top(t).rv, !.oo = Top(t).oo, !.cnt = ctr'[Side(t)]])
    /\ UNCHANGED <<mtx, ot, tif, calls, faults>>

\* The mutex is locked again, for the answer, which is numbered; a failed
\* handleInbound sends no packet.
TI_handleInboundInvoke(t) ==
    /\ Pc(t) = "relock"
    /\ ~ mtx[Side(t)]
    /\ mtx' = [mtx EXCEPT ![Side(t)] = TRUE]
    /\ ctr' = [ctr EXCEPT ![Side(t)] = IF Top(t).rv = "portal" THEN @ ELSE @ + 1]
    /\ PopTo(t, LAMBDA f : [f EXCEPT !.pc = "reply", !.rv = Top(t).rv, !.oo = Top(t).oo, !.cnt = ctr'[Side(t)]])
    /\ UNCHANGED <<ot, tif, calls, faults>>

\* The portal loses an answer the peer has authored.
ReplyLost(t) ==
    /\ Pc(t) = "reply" /\ Top(t).rv # "portal"
    /\ "replyLost" \in Faults /\ faults < MaxFaults /\ faults' = faults + 1
    /\ SetTop(t, [Top(t) EXCEPT !.rv = "portal"])
    /\ UNCHANGED <<mtx, ctr, ot, tif, calls>>
----------------------------------------------------------------------------
Step(t) ==
    \/ TIMessage_newOutbound(t) \/ newOutboundFails(t) \/ Author(t) \/ Transact(t)
    \/ PortalFailed(t) \/ Answered(t) \/ TIMessage_processResponse(t)
    \/ TICrypto_newMessageFails(t) \/ TICrypto_newMessage(t)
    \/ InboundRelease(t) \/ InboundCall(t) \/ InboundBadObj(t)
    \/ TargetFails(t) \/ inbound_marshalOut(t) \/ inbound_marshalOutFails(t)
    \/ TI_handleInboundInvoke(t)

Next == \E t \in Threads :
    Step(t) \/ TIF_invoke(t) \/ TIF_delete(t) \/ Unreachable(t) \/ ReplyLost(t)

Spec == Init /\ [][Next]_vars
Fairness == \A t \in Threads : SF_vars(Step(t))
----------------------------------------------------------------------------
Pcs == {"pack", "lock", "transact", "waits", "reply", "unpack", "decrypt", "inbound", "handling", "relock"}

\* The shape of every endpoint and of every frame of a call.
TypeOK ==
    /\ mtx \in [Sides -> BOOLEAN] /\ ctr \in [Sides -> Nat]
    /\ \A s \in Sides, i \in Indexes : ot[s][i].obj \in AllObjs \cup {Null} /\ ot[s][i].refs \in Int
    /\ tif \in [Sides -> [Refs -> Nat]]
    /\ \A t \in Threads : \A k \in DOMAIN stack[t] : stack[t][k].pc \in Pcs /\ stack[t][k].side \in Sides

\* Two packets are never authored at once: counting the free mutexes and the
\* packets on their way, in either direction, there is always exactly one right
\* to author, whatever threads of both sides call, call back and answer
\* (TunnelInvoke.c:80-89).
OneAuthor ==
    Cardinality({s \in Sides : ~ mtx[s]})
      + Cardinality(FramesOf(LAMBDA f : f.pc \in {"transact", "decrypt", "reply"})) = 1

\* Every packet in flight is newer than the counter of the side it is for, so
\* none is refused as a replay although several threads of both sides author.
NeverTakenForReplay ==
    \A t \in Threads : \A k \in DOMAIN stack[t] :
        /\ stack[t][k].pc = "decrypt" => stack[t][k].cnt > ctr[stack[t][k].side]
        /\ (stack[t][k].pc = "reply" /\ stack[t][k].rv # "portal") => stack[t][k].cnt > ctr[stack[t][k].side]

\* References of entry i of side s that are on their way: in a message to the
\* other side, in an answer to it, or given up by a release not yet handled.
Carries(f, s, i) ==
    \/ f.oi.kind = "remote" /\ f.oi.i = i /\ f.side = s
           /\ (f.pc \in {"lock", "transact"} \/ (f.pc = "reply" /\ f.rv = "portal"))
    \/ f.oi.kind = "remote" /\ f.oi.i = i /\ f.side # s /\ f.pc \in {"decrypt", "inbound"}
    \/ f.op = "release" /\ f.i = i /\ f.side # s /\ f.pc \in {"pack", "lock", "transact"}
    \/ f.op = "release" /\ f.i = i /\ f.side = s /\ f.pc \in {"decrypt", "inbound"}

Answers(f, s, i) ==
    /\ f.oo.kind = "remote" /\ f.oo.i = i
    /\ (f.side = s /\ f.pc = "relock") \/ (f.side # s /\ f.pc \in {"reply", "unpack"})

\* A forwarder always means the object it was made for: the peer's entry holds
\* that object and counts at least the forwarders of it and the references on
\* their way.  (A release the portal cannot deliver is dropped by TIF_delete, so
\* the count may stay too high.)
HandlesStayValid ==
    \A s \in Sides, i \in Indexes :
        /\ \A o \in AllObjs \ {ot[s][i].obj} : tif[Peer(s)][<<i, o>>] = 0
        /\ ot[s][i].obj # Null => ot[s][i].refs >= tif[Peer(s)][<<i, ot[s][i].obj>>]
               + Cardinality(FramesOf(LAMBDA f : Carries(f, s, i)))
               + Cardinality(FramesOf(LAMBDA f : Answers(f, s, i)))

\* Every thread's call comes to an end: handlers that call back and answers
\* that wait for the mutex never wait for each other.
CallsReturn == \A t \in Threads : (stack[t] # <<>>) ~> (stack[t] = <<>>)
==============================================================================
