----------------------------- MODULE Marshalling -----------------------------
(***************************************************************************)
(* How one message of an invocation is put on the wire and read back       *)
(* (libmink/Transport/MinkSocket/sock/Marshalling.c): the agreement on the *)
(* version, the loop over the buffers with its padding and its one         *)
(* extension, the loop over the objects with the extra cells that memory   *)
(* objects take, and the two loops of the receiver that must retrace them. *)
(*                                                                         *)
(* Offsets and sizes are numbers; contents of buffers are left out.  A     *)
(* cell is one lxcom_arg of the object section.  A handle is <<"ours", n>> *)
(* (a slot of the sender's table) or <<"theirs", n>> (a slot of the        *)
(* receiver's), n being the object's place in the argument list.           *)
(***************************************************************************)
EXTENDS Naturals, Sequences, FiniteSets, SequencesExt

CONSTANTS
    Align,       \* LXCOM_MSG_ALIGNMENT
    Prealloc,    \* MSG_BUFFER_PREALLOC
    MaxMsg,      \* MSG_BUFFER_MAX
    MaxArgs,     \* LXCOM_MAX_ARGS
    MaxFds,      \* ObjectCounts_maxOI, the length of fds[]
    ChunkBase,   \* 2^16: what one cell carries of a 64-bit number
    Messages     \* arguments: the sizes of the buffers sent, of the output buffers
                 \* a request asks for, and the objects

VARIABLES
    conn,      \* is it remote, is this a request, does the client send, the two builds
    version,   \* MinkSocket.version at the two ends
    bufs, outs, objs,
    pc, i,
    wire,      \* the FlatData: size, limit, the offsets of buffers, cells, fds
    in         \* the receiver: size, offsets, cell reached, objects, fds

vars == <<conn, version, bufs, outs, objs, pc, i, wire, in>>

(* MINKSOCK_VER_*, in order.                                               *)
UNINITIALIZED == 0
LEGACY == 1
INDIRECT_MEM == 2

(* The bits of ITAccessPermissions_rules.specialRules.                     *)
smmuProxyControlled == 2
mixedControlled == 4
Bit(v, b) == (v \div b) % 2 = 1

Memory == {"fdw", "fdwDep", "msmem", "msmemDep"}

-----------------------------------------------------------------------------
(* Sizes.                                                                  *)

PADDED_down(x) == x - (x % Align)
PADDED(x) == IF x = 0 THEN 0 ELSE x + ((Align - (x % Align)) % Align)
SumPadded(s) == FoldSeq(LAMBDA x, y : PADDED(x) + y, 0, s)

(* Sizeof_invReq and Sizeof_invSucc: a request lists its input buffers, its*)
(* output buffers and its objects, an answer its output buffers and objects*)
NumCells(extra) == Len(bufs) + (IF conn.request THEN Len(outs) ELSE 0) + Len(objs) + extra
SizeofHead(extra) == (IF conn.request THEN 24 ELSE 12) + 4 * NumCells(extra)

(* configLocalMemExtraArgs with COUNT_NUM_EXTRA_ARGS_OUTBOUND.             *)
ExtraOut(o) ==
    IF o.kind \notin Memory THEN 0
    ELSE IF conn.remote THEN 8
    ELSE IF version.sender >= INDIRECT_MEM THEN 4 ELSE 0
NumExtraOut == FoldSeq(LAMBDA o, n : ExtraOut(o) + n, 0, objs)

ExtraIn(f) ==
    IF "MEMPARCEL" \in f THEN 8
    ELSE IF "DESCRIPTOR" \in f /\ version.receiver >= INDIRECT_MEM THEN 4 ELSE 0
Cell(f, h) == [flags |-> f, handle |-> h]
NoCell == Cell({}, <<"num", 0>>)
CellAt(p) == IF p \in DOMAIN wire.cells THEN wire.cells[p] ELSE NoCell
NumExtraIn ==
    LET at[n \in 1..(Len(objs) + 1)] ==
            IF n = 1 THEN 1 ELSE at[n - 1] + ExtraIn(CellAt(at[n - 1]).flags) + 1
    IN at[Len(objs) + 1] - 1 - Len(objs)

-----------------------------------------------------------------------------
(* The cells of one object.                                                *)

(* The flag of an object of the sender, and of one of the receiver: the    *)
(* caller sends requests, the callee answers.                              *)
OwnFlag == IF conn.request THEN "CALLER" ELSE "CALLEE"
PeerFlag == IF conn.request THEN "CALLEE" ELSE "CALLER"

(* A 64-bit number takes four cells, the least significant part first.     *)
Chunked(v, flag) ==
    [j \in 1..4 |-> Cell({flag}, <<"num", (v \div ChunkBase ^ (j - 1)) % ChunkBase>>)]
Skipped(n) == [j \in 1..n |-> NoCell]

(* MarshalOut_localGenericMem and _localMSMem.                             *)
LocalRules(o) ==
    IF version.sender >= INDIRECT_MEM THEN Chunked(o.rules, "SPECIALRULES") ELSE <<>>

(* MarshalOut_forwardMemDep, local: the memory came over this connection.  *)
LocalForwarded(n) ==
    IF version.sender >= INDIRECT_MEM
    THEN <<Cell({PeerFlag, "DESCRIPTOR"}, <<"theirs", n>>)>> \o Skipped(4)
    ELSE <<Cell({PeerFlag}, <<"theirs", n>>)>>
RemoteForwarded(n) == <<Cell({PeerFlag, "MEMPARCEL"}, <<"theirs", n>>)>> \o Skipped(8)

(* MarshalOut_caller_localGenericMem forwards the dependency, its callee   *)
(* twin keeps it in the table with MarshalOut_retainLocalGenericMemDep.    *)
LocalGenericMem(o, n) ==
    IF o.kind = "fdwDep" /\ conn.request THEN LocalForwarded(n)
    ELSE <<Cell({"DESCRIPTOR"}, IF o.kind = "fdwDep" THEN <<"ours", n>> ELSE <<"invalid", 0>>)>>
         \o LocalRules(o)
LocalMSMem(o, n) == <<Cell({"DESCRIPTOR"}, <<"ours", n>>)>> \o LocalRules(o)

(* MarshalOut_populateWrappedMemparcel; the memparcel handle of the n-th   *)
(* object is n.                                                            *)
Memparcel(rules, n) ==
    <<Cell({OwnFlag, "MEMPARCEL"}, <<"ours", n>>)>>
    \o Chunked(n, "INFO") \o Chunked(rules, "SPECIALRULES")
RemoteGenericMem(o, n) ==
    IF o.kind = "fdwDep" /\ ~conn.request THEN RemoteForwarded(n) ELSE Memparcel(o.rules, n)

(* MarshalOut_checkMSMemConfinement: a local MSMem is shared, the SMMU     *)
(* rules are flipped for the other VM.                                     *)
SwapProxy(v) ==
    v + (IF Bit(v, smmuProxyControlled) THEN 0 ELSE smmuProxyControlled)
      + (IF Bit(v, mixedControlled) THEN 0 ELSE mixedControlled)
      - (IF Bit(v, smmuProxyControlled) THEN smmuProxyControlled ELSE 0)
      - (IF Bit(v, mixedControlled) THEN mixedControlled ELSE 0)
MSMemRules(o) ==
    LET v == IF o.isLocal THEN 0 ELSE o.rules
    IN IF Bit(v, mixedControlled) \/ Bit(v, smmuProxyControlled) THEN SwapProxy(v) ELSE v
RemoteMSMem(o, n) ==
    IF o.kind = "msmemDep" THEN RemoteForwarded(n) ELSE Memparcel(MSMemRules(o), n)

(* The scenarios of the object loops of MarshalOut_caller and _callee.     *)
CellsOf(o, n) ==
    CASE o.kind = "null" -> <<Cell({}, <<"null", 0>>)>>
      [] o.kind = "msforwarder" -> <<Cell({PeerFlag}, <<"theirs", n>>)>>
      [] o.kind \in {"fdw", "fdwDep"} ->
            IF conn.remote THEN RemoteGenericMem(o, n) ELSE LocalGenericMem(o, n)
      [] o.kind \in {"msmem", "msmemDep"} ->
            IF conn.remote THEN RemoteMSMem(o, n) ELSE LocalMSMem(o, n)
      [] o.kind = "generic" -> <<Cell({OwnFlag}, <<"ours", n>>)>>

(* Whether the object adds a descriptor to fds[].                          *)
SendsFd(o) ==
    /\ ~conn.remote /\ o.kind \in Memory
    /\ ~(o.kind = "fdwDep" /\ conn.request)

-----------------------------------------------------------------------------
NoWire == [size |-> 0, limit |-> Prealloc, off |-> <<>>, cells |-> <<>>, fds |-> <<>>]
NoIn == [size |-> 0, off |-> <<>>, pos |-> 1, objs |-> <<>>, reserved |-> <<>>, room |-> 0,
         fds |-> <<>>, closes |-> <<>>]

Init ==
    /\ conn \in [remote : BOOLEAN, request : BOOLEAN, clientSends : BOOLEAN,
                 client : {LEGACY, INDIRECT_MEM}, server : {LEGACY, INDIRECT_MEM}]
    /\ version = [sender |-> UNINITIALIZED, receiver |-> UNINITIALIZED]
    /\ \E m \in Messages : /\ bufs = m.bufs /\ objs = m.objs
                          /\ outs = IF conn.request THEN m.outs ELSE <<>>
    /\ pc = "sync" /\ i = 1 /\ wire = NoWire /\ in = NoIn

TypeOK ==
    /\ conn \in [remote : BOOLEAN, request : BOOLEAN, clientSends : BOOLEAN,
                 client : {LEGACY, INDIRECT_MEM}, server : {LEGACY, INDIRECT_MEM}]
    /\ \A e \in {"sender", "receiver"} : version[e] \in {UNINITIALIZED, LEGACY, INDIRECT_MEM}
    /\ pc \in {"sync", "acked", "count", "outbuf", "outobj", "inhead", "inbuf", "inobj", "done",
               "refused", "rejected", "misread"}
    /\ i \in 1 .. Len(bufs) + Len(outs) + Len(objs) + 1
    /\ wire.size \in Nat /\ wire.limit \in 0..MaxMsg

ClientEnd == IF conn.clientSends THEN "sender" ELSE "receiver"
ServerEnd == IF conn.clientSends THEN "receiver" ELSE "sender"

AckCtlInfo ==
    /\ pc = "sync" /\ conn.client = INDIRECT_MEM /\ conn.server = INDIRECT_MEM
    /\ version' = [version EXCEPT ![ServerEnd] =
                      IF conn.server < conn.client THEN conn.server ELSE conn.client]
    /\ pc' = "acked" /\ UNCHANGED <<conn, bufs, outs, objs, i, wire, in>>

(* MinkSocket_syncCtlInfo at the client, with the fallback of              *)
(* MinkIPC_connectService; a legacy client does not ask.                   *)
SyncCtlInfo ==
    /\ \/ pc = "acked" /\ version' = [version EXCEPT ![ClientEnd] = version[ServerEnd]]
       \/ pc = "sync" /\ conn.client = INDIRECT_MEM /\ conn.server = LEGACY
          /\ version' = [version EXCEPT ![ClientEnd] = LEGACY]
       \/ pc = "sync" /\ conn.client = LEGACY /\ UNCHANGED version
    /\ pc' = "count" /\ UNCHANGED <<conn, bufs, outs, objs, i, wire, in>>

(* The head of MarshalOut_caller and _callee: CHECK_MAX_ARGS, then the     *)
(* size of the fixed part.                                                 *)
OutHead ==
    /\ pc = "count"
    /\ IF NumCells(NumExtraOut) > MaxArgs
       THEN pc' = "refused" /\ UNCHANGED wire
       ELSE pc' = "outbuf" /\ wire' = [wire EXCEPT !.size = SizeofHead(NumExtraOut)]
    /\ UNCHANGED <<conn, version, bufs, outs, objs, i, in>>

(* One turn of the buffer loop: MarshalOut_caller_buffer, and when the     *)
(* buffer does not fit, Flatdata_extendAndCopy for all that remain.        *)
Extended(n) == PADDED(wire.size) + SumPadded(SubSeq(bufs, n, Len(bufs)))
OutBuffer ==
    /\ pc = "outbuf" /\ i <= Len(bufs)
    /\ LET at == PADDED(wire.size)
       IN \/ /\ at + bufs[i] <= wire.limit
             /\ wire' = [wire EXCEPT !.size = at + bufs[i], !.off = Append(@, at)]
             /\ i' = i + 1 /\ pc' = pc
          \/ /\ at + bufs[i] > wire.limit
             /\ IF Extended(i) > MaxMsg THEN pc' = "refused" /\ UNCHANGED wire
                ELSE pc' = pc /\ wire' = [wire EXCEPT !.limit = Extended(i)]
             /\ i' = i
    /\ UNCHANGED <<conn, version, bufs, outs, objs, in>>
OutBuffersDone ==
    /\ pc = "outbuf" /\ i > Len(bufs)
    /\ pc' = "outobj" /\ i' = 1 /\ UNCHANGED <<conn, version, bufs, outs, objs, wire, in>>

(* One turn of the object loop.  The table may be full for an object that  *)
(* takes a slot; a primordial is refused; fds[] is of fixed length.        *)
TakesSlot(o, n) == CellsOf(o, n)[1].handle = <<"ours", n>>
OutObject ==
    /\ pc = "outobj" /\ i <= Len(objs)
    /\ LET o == objs[i]
       IN \/ /\ o.kind # "primordial"
             /\ ~conn.remote /\ o.kind \in Memory => Len(wire.fds) < MaxFds
             /\ wire' = [wire EXCEPT !.cells = @ \o CellsOf(o, i),
                                     !.fds = IF SendsFd(o) THEN Append(@, i) ELSE @]
             /\ i' = i + 1 /\ pc' = pc
          \/ /\ \/ o.kind = "primordial"
                \/ ~conn.remote /\ o.kind \in Memory /\ Len(wire.fds) >= MaxFds
                \/ o.kind # "primordial" /\ TakesSlot(o, i)
             /\ pc' = "refused" /\ UNCHANGED <<wire, i>>
    /\ UNCHANGED <<conn, version, bufs, outs, objs, in>>

(* The message, and its descriptors, reach the other end.                  *)
Send ==
    /\ pc = "outobj" /\ i > Len(objs)
    /\ pc' = "inhead" /\ i' = 1
    /\ in' = [in EXCEPT !.fds = wire.fds, !.closes = [n \in DOMAIN wire.fds |-> 0]]
    /\ UNCHANGED <<conn, version, bufs, outs, objs, wire>>

-----------------------------------------------------------------------------
(* The receiver: MarshalIn_callee for a request, MarshalIn_caller for an   *)
(* answer.                                                                 *)

(* hdr.size is the size of head and buffers.                               *)
InHead ==
    /\ pc = "inhead"
    /\ LET size == SizeofHead(NumExtraIn)
       IN IF size > wire.size \/ (conn.request /\ NumCells(NumExtraIn) > MaxArgs)
          THEN pc' = "misread" /\ UNCHANGED in
          ELSE pc' = "inbuf" /\ in' = [in EXCEPT !.size = size]
    /\ UNCHANGED <<conn, version, bufs, outs, objs, i, wire>>

(* MarshalIn_callee_buffer, MarshalIn_caller_buffer.                       *)
InBuffer ==
    /\ pc = "inbuf" /\ i <= Len(bufs)
    /\ LET at == PADDED(in.size)
       IN IF at + (IF conn.request THEN 0 ELSE bufs[i]) > wire.size
          THEN pc' = "misread" /\ UNCHANGED <<in, i>>
          ELSE /\ in' = [in EXCEPT !.size = at + bufs[i], !.off = Append(@, at)]
               /\ i' = i + 1 /\ pc' = pc
    /\ UNCHANGED <<conn, version, bufs, outs, objs, wire>>

(* MarshalIn_reserveBuffer: room for the output buffers of a request.  pad *)
(* is set when the pointer is not aligned and keeps its value when it is.  *)
SizeActual == FoldSeq(LAMBDA x, y : (IF x = 0 THEN Align ELSE PADDED(x)) + y, 0, outs)
ReserveAt ==
    [n \in 0..Len(outs) |->
        LET place[m \in 0..n] ==
                IF m = 0 THEN [end |-> 0, pad |-> 0, off |-> 0]
                ELSE LET prev == place[m - 1]
                         pad == IF prev.end % Align = 0 THEN prev.pad
                                ELSE Align - (prev.end % Align)
                     IN [end |-> prev.end + pad + outs[m], pad |-> pad, off |-> prev.end + pad]
        IN place[n]]

(* The test of what remains is made only when the pointer is not aligned.  *)
WeirdError(n) ==
    /\ ReserveAt[n - 1].end % Align # 0
    /\ ReserveAt[n - 1].end <= SizeActual + 4
    /\ ReserveAt[n].end > SizeActual + 4
ReserveBuffer ==
    /\ pc = "inbuf" /\ i > Len(bufs)
    /\ IF \/ SizeActual > Prealloc /\ SizeActual > MaxMsg - 4
          \/ \E n \in DOMAIN outs : WeirdError(n)
       THEN pc' = "rejected" /\ UNCHANGED <<in, i>>
       ELSE /\ in' = [in EXCEPT !.reserved = [n \in DOMAIN outs |-> ReserveAt[n].off],
                                !.room = IF SizeActual > Prealloc THEN SizeActual + 4
                                         ELSE Prealloc]
            /\ pc' = "inobj" /\ i' = 1
    /\ UNCHANGED <<conn, version, bufs, outs, objs, wire>>

(* A 64-bit number is read back from four cells of one flag.               *)
Chunk(p, flag) == flag \in CellAt(p).flags
Unchunked(p) ==
    LET at(j) == CellAt(p + j).handle[2] * ChunkBase ^ j
    IN at(0) + at(1) + at(2) + at(3)

Got(what, handle, fd, mp, rules) ==
    [what |-> what, handle |-> handle, fd |-> fd, mp |-> mp, rules |-> rules]
None == <<"none", 0>>
FdIndex == Cardinality({n \in DOMAIN in.objs : in.objs[n].what = "fdw"}) + 1

(* MarshalIn_msforwarder: one of the receiver's own objects comes back.    *)
InMsforwarder(c, p) ==
    [next |-> p + 1 + (IF "MEMPARCEL" \in c.flags THEN 8 ELSE 0)
                    + (IF version.receiver >= INDIRECT_MEM /\ "DESCRIPTOR" \in c.flags
                       THEN 4 ELSE 0),
     obj |-> Got("recovered", c.handle, 0, 0, 0)]

(* MarshalIn_localGenericMem: a FdWrapper, with a forwarder on which the   *)
(* memory depends when the cell carries a handle.                          *)
InLocalMem(c, p) ==
    LET indirect == version.receiver >= INDIRECT_MEM
    IN [next |-> p + 1 + (IF indirect THEN 4 ELSE 0),
        obj |-> Got("fdw", IF c.handle = <<"invalid", 0>> THEN None ELSE c.handle,
                    wire.fds[FdIndex], 0, IF indirect THEN Unchunked(p + 1) ELSE 0)]

(* MarshalIn_remoteGenericMem: a remote MSMem that depends on the sender's *)
(* WrappedMemparcel.                                                       *)
InRemoteMem(c, p) ==
    [next |-> p + 9, obj |-> Got("msmem", c.handle, 0, Unchunked(p + 1), Unchunked(p + 5))]

(* Whether the cells that follow carry the flags the scenario expects.     *)
WellFlagged(c, p) ==
    IF "DESCRIPTOR" \in c.flags
    THEN version.receiver >= INDIRECT_MEM => \A j \in 1..4 : Chunk(p + j, "SPECIALRULES")
    ELSE /\ \A j \in 1..4 : Chunk(p + j, "INFO")
         /\ \A j \in 5..8 : Chunk(p + j, "SPECIALRULES")

(* The scenarios of the object loops, in their order.                      *)
Matched(c, p) ==
    IF c.flags = {} THEN [next |-> p + 1, obj |-> Got("null", None, 0, 0, 0)]
    ELSE IF PeerFlag \in c.flags THEN InMsforwarder(c, p)
    ELSE IF "DESCRIPTOR" \in c.flags THEN InLocalMem(c, p)
    ELSE IF "MEMPARCEL" \in c.flags THEN InRemoteMem(c, p)
    ELSE [next |-> p + 1, obj |-> Got("msforwarder", c.handle, 0, 0, 0)]
Refused(c, p) ==
    \/ p > MaxArgs
    \/ c.flags \cap {OwnFlag, PeerFlag, "DESCRIPTOR"} = {} /\ c.flags # {}
    \/ /\ PeerFlag \notin c.flags /\ c.flags \cap {"DESCRIPTOR", "MEMPARCEL"} # {}
       /\ ~WellFlagged(c, p) \/ ("DESCRIPTOR" \in c.flags /\ FdIndex > Len(wire.fds))

InObject ==
    /\ pc = "inobj" /\ i <= Len(objs) /\ ~Refused(CellAt(in.pos), in.pos)
    /\ LET m == Matched(CellAt(in.pos), in.pos)
       IN in' = [in EXCEPT !.pos = m.next, !.objs = Append(@, m.obj),
                           !.fds = IF m.obj.what = "fdw" THEN [@ EXCEPT ![FdIndex] = 0] ELSE @]
    /\ i' = i + 1 /\ UNCHANGED <<conn, version, bufs, outs, objs, pc, wire>>

(* What releasing the objects and closing fds[] does to each descriptor.   *)
Closed(got, fds) ==
    [n \in DOMAIN wire.fds |->
        in.closes[n] + Cardinality({m \in DOMAIN got : got[m].fd = wire.fds[n]})
                     + (IF fds[n] # 0 THEN 1 ELSE 0)]

(* A turn that fails: nothing to recover, no memory, or a forwarder that   *)
(* cannot be attached because the socket is closing.  late is a FdWrapper  *)
(* that was created first; it is in args[] and its descriptor still in     *)
(* fds[].  MarshalIn_caller releases args[] and closes fds[]; the request  *)
(* path of MinkSocket_recvInvocationRequest releases neither.              *)
InObjectFails(late) ==
    /\ pc = "inobj" /\ i <= Len(objs)
    /\ LET c == CellAt(in.pos)
           got == IF late THEN Append(in.objs, Matched(c, in.pos).obj) ELSE in.objs
       IN /\ late => /\ ~Refused(c, in.pos) /\ Matched(c, in.pos).obj.what = "fdw"
                     /\ c.handle # <<"invalid", 0>> \/ version.receiver >= INDIRECT_MEM
          /\ c.flags # {} \/ Refused(c, in.pos)
          /\ in' = [in EXCEPT !.objs = IF conn.request THEN got ELSE <<>>,
                              !.closes = IF conn.request THEN @ ELSE Closed(got, in.fds)]
    /\ pc' = "rejected" /\ UNCHANGED <<conn, version, bufs, outs, objs, i, wire>>

(* The invocation is over: MarshalIn_calleeRelease.  The caller keeps what *)
(* an answer brought.                                                      *)
InDone ==
    /\ pc = "inobj" /\ i > Len(objs)
    /\ pc' = "done"
    /\ in' = IF conn.request THEN [in EXCEPT !.closes = Closed(in.objs, in.fds)] ELSE in
    /\ UNCHANGED <<conn, version, bufs, outs, objs, i, wire>>

Next ==
    \/ AckCtlInfo \/ SyncCtlInfo \/ OutHead \/ OutBuffer \/ OutBuffersDone \/ OutObject \/ Send
    \/ InHead \/ InBuffer \/ ReserveBuffer \/ InObject \/ InDone
    \/ \E late \in BOOLEAN : InObjectFails(late)

Spec == Init /\ [][Next]_vars

-----------------------------------------------------------------------------
(* What the receiver must hold for the n-th object sent.                   *)
Meant(o, n) ==
    LET indirect == version.sender >= INDIRECT_MEM
        rules == IF indirect THEN o.rules ELSE 0
    IN CASE o.kind = "null" -> Got("null", None, 0, 0, 0)
         [] o.kind = "msforwarder" -> Got("recovered", <<"theirs", n>>, 0, 0, 0)
         [] o.kind = "generic" -> Got("msforwarder", <<"ours", n>>, 0, 0, 0)
         [] o.kind = "fdw" /\ ~conn.remote -> Got("fdw", None, n, 0, rules)
         [] o.kind = "fdwDep" /\ ~conn.remote ->
               IF conn.request THEN Got("recovered", <<"theirs", n>>, 0, 0, 0)
               ELSE Got("fdw", <<"ours", n>>, n, 0, rules)
         [] o.kind \in {"msmem", "msmemDep"} /\ ~conn.remote ->
               Got("fdw", <<"ours", n>>, n, 0, rules)
         [] conn.remote /\ (o.kind = "msmemDep" \/ (o.kind = "fdwDep" /\ ~conn.request)) ->
               Got("recovered", <<"theirs", n>>, 0, 0, 0)
         [] conn.remote /\ o.kind \in {"fdw", "fdwDep"} ->
               Got("msmem", <<"ours", n>>, 0, n, o.rules)
         [] conn.remote /\ o.kind = "msmem" ->
               Got("msmem", <<"ours", n>>, 0, n, MSMemRules(o))

(* Whatever mix of objects a message carries, over a local or a remote     *)
(* connection and with an old or a new peer, the receiver reads each one   *)
(* from the cell where the sender put it and gets the capability that was  *)
(* meant: its own object back, a descriptor with its dependency, memory    *)
(* with its memparcel and rules, or a forwarder.                           *)
ObjectsRoundTrip ==
    /\ pc \in {"inobj", "done"} => \A n \in DOMAIN in.objs : in.objs[n] = Meant(objs[n], n)
    /\ pc = "inobj" /\ i <= Len(objs) => ~Refused(CellAt(in.pos), in.pos)

(* The receiver finds every buffer at the offset where the sender wrote it,*)
(* inside the message: the padding, the size of the object section (one end*)
(* counts it from the objects, the other from the flags) and the extension *)
(* of the message agree, and no message that was sent is misread.          *)
BuffersRoundTrip ==
    /\ wire.size <= wire.limit /\ pc # "misread"
    /\ \A n \in DOMAIN in.off : in.off[n] = wire.off[n] /\ in.off[n] + bufs[n] <= wire.size

(* Every output buffer handed to the service lies in the memory reserved   *)
(* for output: MarshalIn_reserveBuffer tests for it and reports "Weird     *)
(* error in reserved buffer" when it would not.                            *)
OutputsFit ==
    \A n \in DOMAIN in.reserved : in.reserved[n] + outs[n] <= in.room
=============================================================================
