--------------------------- MODULE HandleExchange ---------------------------
(***************************************************************************)
(* Object references between the two ends of one connection                *)
(* (minksocket.c, msforwarder.c, Marshalling.c, ObjectTable.c under        *)
(* libmink/Transport/MinkSocket/sock).                                     *)
(*                                                                         *)
(* A side that passes an object of its own puts it in a slot of its table  *)
(* and sends the handle; the peer makes a forwarder for it.  A side that   *)
(* passes a forwarder of this connection sends the handle back, and the    *)
(* peer finds its own object in the slot.  The last release of a forwarder *)
(* sends LXCOM_CLOSE, which frees the slot.                                *)
(*                                                                         *)
(* Every message is handled by a thread of its own (MinkSocket_processReq  *)
(* queues the next reader before it handles what it read), so messages are *)
(* handled in any order whatever order they were sent in.  A message that  *)
(* has been sent and not been handled is therefore part of the state of    *)
(* what it is about: the call of a REQUEST, SUCCESS or ERROR, the          *)
(* forwarder of a CLOSE.                                                   *)
(*                                                                         *)
(* A call has one object going in and one coming out.  The connection      *)
(* stays up: its loss is in Invocations and SocketLife.                    *)
(***************************************************************************)
EXTENDS Naturals, FiniteSets, TLC

CONSTANTS
    Server, Client,    \* the two sides
    ServerObjs,        \* local objects of each side
    ClientObjs,
    Opener,            \* the object a server puts in its first slot
    Fwds,              \* memory blocks for forwarders
    Calls,             \* invocations that can be under way at once
    Handles,           \* generic handles
    FirstHandle,       \* GENERIC_HANDLE
    NULL,
    MaxRefs            \* bound on the references the users of a forwarder hold

Sides == {Server, Client}
Objs == ServerObjs \cup ClientObjs
Peer(s) == IF s = Server THEN Client ELSE Server
Local(s) == IF s = Server THEN ServerObjs ELSE ClientObjs

ASSUME ExchangeAssumption ==
    /\ Server # Client
    /\ ServerObjs \cap ClientObjs = {} /\ Opener \in ServerObjs
    /\ Objs \cap Fwds = {} /\ NULL \notin Objs \cup Fwds
    /\ IsFiniteSet(Calls)
    /\ FirstHandle \in Handles /\ Handles \subseteq Nat
    /\ MaxRefs \in Nat \ {0}

VARIABLES
    table,     \* table[s][h]: the object in slot h of side s, or NULL
    fwd,       \* fwd[f]: a forwarder, or the CLOSE it sent when it was deleted
    refs,      \* the reference count of a forwarder
    app,       \* how many of these references its users hold
    call,      \* the side that calls, and the references its call needs
    req,       \* the REQUEST, until its object is invoked
    waiting,   \* the caller is inside MinkSocket_invoke
    pc,        \* where the call is on the callee's side
    got,       \* the callee's input object, until it is released
    out,       \* the callee's output object, until it is released
    reply      \* the SUCCESS or ERROR message that has been sent

vars == <<table, fwd, refs, app, call, req, waiting, pc, got, out, reply>>

(* An argument on the wire: LXCOM_NULL_OBJECT, an object of the sender     *)
(* (LXCOM_CALLER_OBJECT in a request, LXCOM_CALLEE_OBJECT in a reply), or  *)
(* one of the receiver (the opposite flags).  obj is the object it stands  *)
(* for; no code reads it.                                                  *)
Kinds == {"null", "sender", "receiver"}
Wire == [kind : Kinds, handle : Handles, obj : Objs \cup {NULL}]
NullArg == [kind |-> "null", handle |-> FirstHandle, obj |-> NULL]

Args == Objs \cup Fwds \cup {NULL}
Fails == [kind |-> "error", handle |-> FirstHandle, obj |-> NULL]
NoReply == [kind |-> "none", handle |-> FirstHandle, obj |-> NULL]

Forwarder(st, s, h, o) == [st |-> st, side |-> s, handle |-> h, obj |-> o]
NoForwarder == Forwarder("none", Server, FirstHandle, NULL)

NoCall == [from |-> Server, target |-> NULL, arg |-> NULL]
NoRequest == [handle |-> FirstHandle, obj |-> NULL, arg |-> NullArg]

TypeOK ==
    /\ table \in [Sides -> [Handles -> Objs \cup {NULL}]]
    /\ fwd \in [Fwds -> [st : {"none", "live", "closing"}, side : Sides,
                         handle : Handles, obj : Objs \cup {NULL}]]
    /\ refs \in [Fwds -> Nat]
    /\ app \in [Fwds -> Nat]
    /\ call \in [Calls -> [from : Sides, target : Fwds \cup {NULL}, arg : Args]]
    /\ req \in [Calls -> [handle : Handles, obj : Objs \cup {NULL}, arg : Wire]]
    /\ waiting \in [Calls -> BOOLEAN]
    /\ pc \in [Calls -> {"none", "request", "in", "ran", "send", "sent", "failed", "error"}]
    /\ got \in [Calls -> Args]
    /\ out \in [Calls -> Args]
    /\ reply \in [Calls -> Wire \cup {Fails, NoReply}]

Live(f, s) == fwd[f].st = "live" /\ fwd[f].side = s

(* The object an argument stands for, on whichever side it is used.        *)
Meant(a) == IF a \in Fwds THEN fwd[a].obj ELSE a

(* An established connection: the opener is in the server's first slot and *)
(* the client has a forwarder for it (MinkIPC_connectService).             *)
Init ==
    /\ table = [s \in Sides |-> [h \in Handles |->
                  IF s = Server /\ h = FirstHandle THEN Opener ELSE NULL]]
    /\ \E f \in Fwds :
        /\ fwd = [g \in Fwds |-> IF g = f THEN Forwarder("live", Client, FirstHandle, Opener)
                                          ELSE NoForwarder]
        /\ refs = [g \in Fwds |-> IF g = f THEN 1 ELSE 0]
        /\ app = refs
    /\ call = [c \in Calls |-> NoCall]
    /\ req = [c \in Calls |-> NoRequest]
    /\ waiting = [c \in Calls |-> FALSE]
    /\ pc = [c \in Calls |-> "none"]
    /\ got = [c \in Calls |-> NULL]
    /\ out = [c \in Calls |-> NULL]
    /\ reply = [c \in Calls |-> NoReply]

-----------------------------------------------------------------------------

FirstFree_taken(s, h) == \A g \in Handles : g < h => table[s][g] # NULL

(* ObjectTable_addObject: the first free slot.                             *)
FirstFree(s, h) ==
    table[s][h] = NULL /\ \A g \in Handles : g < h => table[s][g] # NULL

TableFull(s) == \A h \in Handles : table[s][h] # NULL

MarshalOut_swapped(s, a, w) ==
    \/ a = NULL /\ w = NullArg /\ UNCHANGED table
    \/ /\ a \in Fwds
       /\ w = [kind |-> "sender", handle |-> fwd[a].handle, obj |-> fwd[a].obj]
       /\ UNCHANGED table
    \/ /\ a \in Local(s)
       /\ w.kind = "sender" /\ w.obj = a /\ FirstFree(s, w.handle)
       /\ table' = [table EXCEPT ![s][w.handle] = a]

(* MarshalOut_caller, MarshalOut_callee: side s puts its argument a on the *)
(* wire as w.                                                              *)
MarshalOut(s, a, w) ==
    \/ a = NULL /\ w = NullArg /\ UNCHANGED table
    \/ /\ a \in Fwds
       /\ w = [kind |-> "receiver", handle |-> fwd[a].handle, obj |-> fwd[a].obj]
       /\ UNCHANGED table
    \/ /\ a \in Local(s)
       /\ w.kind = "sender" /\ w.obj = a /\ FirstFree(s, w.handle)
       /\ table' = [table EXCEPT ![s][w.handle] = a]

(* MarshalIn_callee, MarshalIn_caller: side s makes the argument a of what *)
(* is on the wire: a new forwarder with one reference, or the object in    *)
(* its slot.                                                               *)
MarshalIn(s, w, a) ==
    \/ w.kind = "null" /\ a = NULL /\ UNCHANGED <<fwd, refs>>
    \/ /\ w.kind = "sender"
       /\ a \in Fwds /\ fwd[a].st = "none"
       /\ fwd' = [fwd EXCEPT ![a] = Forwarder("live", s, w.handle, w.obj)]
       /\ refs' = [refs EXCEPT ![a] = 1]
    \/ /\ w.kind = "receiver"
       /\ table[s][w.handle] # NULL /\ a = table[s][w.handle]
       /\ UNCHANGED <<fwd, refs>>

(* The handle on the wire has no object: the marshalling fails.            *)
MarshalInFails(s, w) == w.kind = "receiver" /\ table[s][w.handle] = NULL

Release_early(a) ==
    IF a \in Fwds
    THEN /\ refs' = [refs EXCEPT ![a] = @ - 1]
         /\ fwd' = IF refs[a] \in {1, 2} THEN [fwd EXCEPT ![a].st = "closing"] ELSE fwd
    ELSE UNCHANGED <<fwd, refs>>

(* Object_release of an argument.  MSForwarder_delete sends LXCOM_CLOSE    *)
(* before it frees the forwarder.                                          *)
Release(a) ==
    IF a \in Fwds
    THEN /\ refs' = [refs EXCEPT ![a] = @ - 1]
         /\ fwd' = IF refs[a] = 1 THEN [fwd EXCEPT ![a].st = "closing"] ELSE fwd
    ELSE UNCHANGED <<fwd, refs>>

Callee(c) == Peer(call[c].from)

(* What a user on side s can pass: its own objects and the forwarders it   *)
(* holds.                                                                  *)
Passable(s) == {NULL} \cup Local(s) \cup {f \in Fwds : Live(f, s) /\ app[f] > 0}

(* MinkSocket_invoke up to the wait for the reply.  With a full table it   *)
(* fails and sends nothing.                                                *)
Invoke(c, f, a) ==
    /\ ~waiting[c] /\ pc[c] = "none"
    /\ fwd[f].st = "live" /\ app[f] > 0 /\ a \in Passable(fwd[f].side)
    /\ \E w \in Wire :
        /\ MarshalOut(fwd[f].side, a, w)
        /\ req' = [req EXCEPT ![c] =
             [handle |-> fwd[f].handle, obj |-> fwd[f].obj, arg |-> w]]
    /\ call' = [call EXCEPT ![c] = [from |-> fwd[f].side, target |-> f, arg |-> a]]
    /\ waiting' = [waiting EXCEPT ![c] = TRUE]
    /\ pc' = [pc EXCEPT ![c] = "request"]
    /\ UNCHANGED <<fwd, refs, app, got, out, reply>>

(* MinkSocket_recvInvocationRequest: the input object.  When it cannot be  *)
(* recovered the callee answers with an error.                             *)
RecvRequest(c) ==
    /\ pc[c] = "request"
    /\ IF MarshalInFails(Callee(c), req[c].arg)
       THEN /\ pc' = [pc EXCEPT ![c] = "error"]
            /\ req' = [req EXCEPT ![c] = NoRequest]
            /\ UNCHANGED <<fwd, refs, got>>
       ELSE \E a \in Args :
            /\ MarshalIn(Callee(c), req[c].arg, a)
            /\ got' = [got EXCEPT ![c] = a]
            /\ pc' = [pc EXCEPT ![c] = "in"]
            /\ UNCHANGED req
    /\ UNCHANGED <<table, app, call, waiting, out, reply>>

Dispatch_unretained(c, o, keep) ==
    LET t == Callee(c)
        More(f) == (IF f = got[c] /\ keep THEN 1 ELSE 0)
    IN /\ pc[c] = "in" /\ table[t][req[c].handle] # NULL
       /\ keep => got[c] \in Fwds /\ app[got[c]] < MaxRefs
       /\ o \in Passable(t) \cup {got[c]}
       /\ req' = [req EXCEPT ![c] = NoRequest]
       /\ app' = [f \in Fwds |-> app[f] + More(f)]
       /\ refs' = [f \in Fwds |-> refs[f] + More(f)]
       /\ out' = [out EXCEPT ![c] = o]
       /\ pc' = [pc EXCEPT ![c] = "ran"]
       /\ UNCHANGED <<table, fwd, call, waiting, got, reply>>

(* The target is recovered and invoked.  Its method keeps the input or     *)
(* not, and returns an object of the callee or a forwarder the callee      *)
(* holds, with a new reference.                                            *)
Dispatch(c, o, keep) ==
    LET t == Callee(c)
        More(f) == (IF f = got[c] /\ keep THEN 1 ELSE 0)
    IN /\ pc[c] = "in" /\ table[t][req[c].handle] # NULL
       /\ keep => got[c] \in Fwds /\ app[got[c]] < MaxRefs
       /\ o \in Passable(t) \cup {got[c]}
       /\ req' = [req EXCEPT ![c] = NoRequest]
       /\ app' = [f \in Fwds |-> app[f] + More(f)]
       /\ refs' = [f \in Fwds |-> refs[f] + More(f) + (IF f = o THEN 1 ELSE 0)]
       /\ out' = [out EXCEPT ![c] = o]
       /\ pc' = [pc EXCEPT ![c] = "ran"]
       /\ UNCHANGED <<table, fwd, call, waiting, got, reply>>

(* The target is not in its slot, or its method reports an error.          *)
DispatchFails(c) ==
    /\ pc[c] = "in"
    /\ req' = [req EXCEPT ![c] = NoRequest]
    /\ pc' = [pc EXCEPT ![c] = "failed"]
    /\ UNCHANGED <<table, fwd, refs, app, call, waiting, got, out, reply>>

ReleaseInput_silent(c) ==
    /\ pc[c] \in {"ran", "failed"}
    /\ Release(got[c])
    /\ got' = [got EXCEPT ![c] = NULL]
    /\ pc' = [pc EXCEPT ![c] = IF @ = "ran" THEN "send" ELSE "none"]
    /\ UNCHANGED <<table, app, call, req, waiting, out, reply>>

(* MarshalIn_calleeRelease.                                                *)
ReleaseInput(c) ==
    /\ pc[c] \in {"ran", "failed"}
    /\ Release(got[c])
    /\ got' = [got EXCEPT ![c] = NULL]
    /\ pc' = [pc EXCEPT ![c] = IF @ = "ran" THEN "send" ELSE "error"]
    /\ UNCHANGED <<table, app, call, req, waiting, out, reply>>

(* MinkSocket_sendInvokeSuccess; an error goes out when the output does    *)
(* not fit in the table.                                                   *)
SendSuccess(c) ==
    /\ pc[c] = "send"
    /\ IF out[c] \in Local(Callee(c)) /\ TableFull(Callee(c))
       THEN UNCHANGED table /\ reply' = [reply EXCEPT ![c] = Fails]
       ELSE \E w \in Wire :
            MarshalOut(Callee(c), out[c], w) /\ reply' = [reply EXCEPT ![c] = w]
    /\ pc' = [pc EXCEPT ![c] = "sent"]
    /\ UNCHANGED <<fwd, refs, app, call, req, waiting, got, out>>

(* MarshalOut_calleeRelease, after the reply has been sent.                *)
ReleaseOutput(c) ==
    /\ pc[c] = "sent"
    /\ Release(out[c])
    /\ out' = [out EXCEPT ![c] = NULL]
    /\ pc' = [pc EXCEPT ![c] = "none"]
    /\ UNCHANGED <<table, app, call, req, waiting, got, reply>>

(* MinkSocket_sendInvokeError.                                             *)
SendError(c) ==
    /\ pc[c] = "error"
    /\ reply' = [reply EXCEPT ![c] = Fails]
    /\ pc' = [pc EXCEPT ![c] = "none"]
    /\ UNCHANGED <<table, fwd, refs, app, call, req, waiting, got, out>>

(* MinkSocket_recvInvocationSuccess and recvInvocationError, and the       *)
(* return of the waiting MinkSocket_invoke.                                *)
RecvReply(c) ==
    LET s == call[c].from
        w == reply[c]
    IN /\ waiting[c] /\ w # NoReply
       /\ IF w = Fails \/ MarshalInFails(s, w)
          THEN UNCHANGED <<fwd, refs, app>>
          ELSE \E a \in Args :
               /\ MarshalIn(s, w, a)
               /\ app' = IF a \in Fwds THEN [app EXCEPT ![a] = 1] ELSE app
       /\ reply' = [reply EXCEPT ![c] = NoReply]
       /\ waiting' = [waiting EXCEPT ![c] = FALSE]
       /\ call' = [call EXCEPT ![c] = NoCall]
       /\ UNCHANGED <<table, req, pc, got, out>>

(* MinkSocket_recvClose of the CLOSE that forwarder f sent.                *)
RecvClose(f) ==
    /\ fwd[f].st = "closing"
    /\ table' = [table EXCEPT ![Peer(fwd[f].side)][fwd[f].handle] = NULL]
    /\ fwd' = [fwd EXCEPT ![f] = NoForwarder]
    /\ UNCHANGED <<refs, app, call, req, waiting, pc, got, out, reply>>

(* A forwarder that a call under way needs.                                *)
Borrowed(f) == \E c \in Calls : waiting[c] /\ f \in {call[c].target, call[c].arg}

(* The users of a forwarder retain and release it.  They keep a reference  *)
(* while they invoke it or pass it.  MaxRefs bounds the references to one  *)
(* forwarder; the users of the others keep one then.                       *)
AppRetain(f) ==
    /\ app[f] \in 1..(MaxRefs - 1) /\ \A g \in Fwds \ {f} : app[g] <= 1
    /\ app' = [app EXCEPT ![f] = @ + 1]
    /\ refs' = [refs EXCEPT ![f] = @ + 1]
    /\ UNCHANGED <<table, fwd, call, req, waiting, pc, got, out, reply>>

AppRelease(f) ==
    /\ app[f] > 1 \/ (app[f] = 1 /\ ~Borrowed(f))
    /\ app' = [app EXCEPT ![f] = @ - 1]
    /\ Release(f)
    /\ UNCHANGED <<table, call, req, waiting, pc, got, out, reply>>

(* What the readers and the waiting callers do by themselves.              *)
Serve(c) ==
    \/ RecvRequest(c)
    \/ \E o \in Args, keep \in BOOLEAN : Dispatch(c, o, keep)
    \/ DispatchFails(c)
    \/ ReleaseInput(c)
    \/ SendSuccess(c)
    \/ ReleaseOutput(c)
    \/ SendError(c)
    \/ RecvReply(c)

Next ==
    \/ \E c \in Calls, f \in Fwds, a \in Args : Invoke(c, f, a)
    \/ \E c \in Calls : Serve(c)
    \/ \E f \in Fwds : RecvClose(f) \/ AppRetain(f) \/ AppRelease(f)

Spec == Init /\ [][Next]_vars

-----------------------------------------------------------------------------

(* What stands for a slot of side s: a message that carries its handle to  *)
(* the peer, or the peer's forwarder up to the CLOSE it sends.             *)
FwdHolds(f, s, h) == fwd[f].st # "none" /\ fwd[f].side = Peer(s) /\ fwd[f].handle = h
RequestHolds(c, s, h) ==
    pc[c] = "request" /\ call[c].from = s
    /\ req[c].arg.kind = "sender" /\ req[c].arg.handle = h
ReplyHolds(c, s, h) ==
    reply[c].kind = "sender" /\ Callee(c) = s /\ reply[c].handle = h

Holders(s, h) ==
    {<<"fwd", f>> : f \in {f \in Fwds : FwdHolds(f, s, h)}}
    \cup {<<"request", c>> : c \in {c \in Calls : RequestHolds(c, s, h)}}
    \cup {<<"reply", c>> : c \in {c \in Calls : ReplyHolds(c, s, h)}}

(* Every occupied slot is known to exactly one forwarder or message of the *)
(* peer, and a free slot to none: no slot is leaked while the connection   *)
(* lives, no CLOSE frees a slot that has been given to another object, and *)
(* no handle is granted twice.                                             *)
SlotsHeldOnce ==
    \A s \in Sides, h \in Handles :
        Cardinality(Holders(s, h)) = IF table[s][h] = NULL THEN 0 ELSE 1

(* A forwarder stands for the object it was made for, from the message     *)
(* that brings its handle to the CLOSE.                                    *)
HandlesMeanTheirObject ==
    \A s \in Sides, h \in Handles :
        /\ \A f \in Fwds : FwdHolds(f, s, h) => table[s][h] = fwd[f].obj
        /\ \A c \in Calls :
            /\ RequestHolds(c, s, h) => table[s][h] = req[c].arg.obj
            /\ ReplyHolds(c, s, h) => table[s][h] = reply[c].obj

(* Whatever is released, closed and reused meanwhile, a call reaches the   *)
(* object its caller holds, with the input its caller passed.              *)
CallsReachTheirTarget ==
    \A c \in Calls :
        /\ pc[c] \in {"request", "in"} =>
            table[Callee(c)][req[c].handle] = req[c].obj
        /\ pc[c] = "request" /\ req[c].arg.kind = "receiver" =>
            table[Callee(c)][req[c].arg.handle] = req[c].arg.obj
        /\ pc[c] = "in" => Meant(got[c]) = req[c].arg.obj

(* The reference count of a forwarder is what its users and the callee's   *)
(* arguments hold, and it is deleted exactly when nobody holds it.         *)
ForwarderRefsExact ==
    \A f \in Fwds :
        /\ refs[f] = app[f] + Cardinality({c \in Calls : got[c] = f})
                            + Cardinality({c \in Calls : out[c] = f})
        /\ fwd[f].st = "live" <=> refs[f] > 0

(* What a handle stands for: a slot is held for one reference of the other *)
(* end, names the object it was given for, a call reaches the object that  *)
(* was meant, and forwarders count their users (Marshalling.c,             *)
(* msforwarder.c).                                                         *)
HandlesMeant ==
    TypeOK /\ SlotsHeldOnce /\ HandlesMeanTheirObject /\ CallsReachTheirTarget /\ ForwarderRefsExact

(* The refinement of ObjectCalls: a domain holds the objects it has a live *)
(* forwarder for, and the objects of a call are read from the slots that   *)
(* its messages name, so that a slot reused too early shows.               *)
WireObj(s, w) ==
    CASE w.kind = "sender"   -> table[s][w.handle]
      [] w.kind = "receiver" -> table[Peer(s)][w.handle]
      [] OTHER               -> NULL

Invocation(c) ==
    LET Is(st, o, a) == [st |-> st, from |-> call[c].from, obj |-> o, arg |-> a]
        target == table[Callee(c)][req[c].handle]
    IN CASE ~waiting[c]       -> [st |-> "idle", from |-> Server, obj |-> NULL, arg |-> NULL]
         [] pc[c] = "request" -> Is("sent", target, WireObj(call[c].from, req[c].arg))
         [] pc[c] = "in"      -> Is("running", target, Meant(got[c]))
         [] reply[c] # NoReply -> Is("replied", NULL,
               IF reply[c].kind = "sender" THEN WireObj(Callee(c), reply[c]) ELSE NULL)
         [] OTHER             -> Is("done", NULL, NULL)

Caps == [s \in Sides |-> {fwd[f].obj : f \in {g \in Fwds : Live(g, s)}}]
Invs == [c \in Calls |-> Invocation(c)]

OC == INSTANCE ObjectCalls WITH caps <- Caps, inv <- Invs

(* The exchange of handles implements object calls: no step of it gives a  *)
(* domain an object it was not granted, or lets a call run another object  *)
(* or with another input than the caller meant.                            *)
ImplementsObjectCalls == OC!Spec

(* A caller waits exactly as long as its request is under way, its handler *)
(* has not answered, or the answer is under way: every path through        *)
(* MinkSocket_recvInvocationRequest, the failing ones too, sends one       *)
(* answer, and no answer comes to a caller that has left.                  *)
WaitingIsServed ==
    \A c \in Calls :
        waiting[c] <=> pc[c] \notin {"none", "sent"} \/ reply[c] # NoReply

(* docs/mink-object.md:130 "In the case of a successfully delivered        *)
(* invocation, this will hold the value returned by the invoked            *)
(* capability": an object of the caller that a SUCCESS hands back is still *)
(* in its slot when the SUCCESS is handled.                                *)
ReturnedObjectsFound ==
    \A c \in Calls :
        reply[c].kind = "receiver" =>
            table[call[c].from][reply[c].handle] = reply[c].obj

(* Memory blocks and calls are interchangeable.                            *)
Symmetric == Permutations(Fwds) \cup Permutations(Calls)
=============================================================================
