------------------------------ MODULE TeeClient ------------------------------
(***************************************************************************)
(* The GlobalPlatform client library: contexts, sessions, shared memory    *)
(* and operations whose parameters are turned into Mink arguments and      *)
(* back, with a second thread that asks for cancellation.                  *)
(* Sources: libminkteec/src/mink_teec.c, tee_client_api.c.                 *)
(*                                                                         *)
(* One context, one session, one operation at a time.  A memory block is   *)
(* a shared memory of the application or the temporary reference of a      *)
(* parameter; its contents are "in" (the application's input) or "out"     *)
(* (what the trusted application wrote).  Above TEEC_SHM_MAX_HEAP_SZ       *)
(* ("large") a block is backed by a memory object.                         *)
(***************************************************************************)
EXTENDS Naturals, Sequences

CONSTANTS
    Shms,       \* shared memories of the application
    ShmSize,    \* their sizes, "small" or "large"
    ShmFlags,   \* TEEC_MEM_INPUT and TEEC_MEM_OUTPUT of each
    Ops         \* operations the application performs: sequences of
                \* [t |-> parameter type, ref |-> shared memory or "temp",
                \*  size |-> "small" or "large"]

VARIABLES
    ctx,        \* the context is initialised
    sess,       \* [obj |-> a session object is held, ctx |-> imp.ctx is set]
    mem,        \* memory blocks: [type, conv, mo, size, flags, buf, mobuf]
    call,       \* [pc, kind, op, params, ex, sent, result]
    lost,       \* a memory object was dropped without a release
    crashed     \* an unset pointer was followed

vars == <<ctx, sess, mem, call, lost, crashed>>

Temps == {"temp1", "temp2", "temp3"}
Blocks == Shms \cup Temps
TempOf(i) == CASE i = 1 -> "temp1" [] i = 2 -> "temp2" [] i = 3 -> "temp3"
FreeBlock == [type |-> "free", conv |-> "no", mo |-> FALSE, size |-> "small", flags |-> {},
              buf |-> "in", mobuf |-> "none"]
NoCall == [pc |-> "idle", kind |-> "none", op |-> <<>>, params |-> <<>>, ex |-> <<>>,
           sent |-> <<>>, result |-> "none"]

TypeOK ==
    /\ ctx \in BOOLEAN /\ lost \in BOOLEAN /\ crashed \in BOOLEAN
    /\ sess \in [obj : BOOLEAN, ctx : BOOLEAN]
    /\ \A b \in Blocks : /\ mem[b].type \in {"free", "allocated", "registered"}
                         /\ mem[b].conv \in {"no", "yes", "unset"}
                         /\ mem[b].buf \in {"in", "out"}
    /\ call.pc \in {"idle", "tee", "back", "done"}

Init ==
    /\ ctx = FALSE /\ sess = [obj |-> FALSE, ctx |-> FALSE]
    /\ mem = [b \in Blocks |-> FreeBlock] /\ call = NoCall
    /\ lost = FALSE /\ crashed = FALSE

Idle == call.pc = "idle"

-----------------------------------------------------------------------------
(* Contexts and shared memory.                                             *)

(* A failure leaves nothing behind: the objects got so far are released.   *)
initialize_context ==
    /\ Idle /\ ~ctx
    /\ ctx' \in BOOLEAN
    /\ UNCHANGED <<sess, mem, call, lost, crashed>>

finalize_context ==
    /\ Idle /\ ctx /\ ~sess.obj /\ \A s \in Shms : mem[s].type = "free"
    /\ ctx' = FALSE
    /\ UNCHANGED <<sess, mem, call, lost, crashed>>

(* Large blocks take a memory object, which can fail.                      *)
Registered(type, size, flags, conv) ==
    [type |-> type, conv |-> conv, mo |-> size = "large", size |-> size, flags |-> flags,
     buf |-> "in", mobuf |-> "none"]

register_shared_memory(s) ==
    /\ Idle /\ ctx /\ mem[s].type = "free"
    /\ ShmFlags[s] # {}
    /\ mem' = [mem EXCEPT ![s] = Registered("registered", ShmSize[s], ShmFlags[s], "no")]
    /\ UNCHANGED <<ctx, sess, call, lost, crashed>>

allocate_shared_memory(s) ==
    /\ Idle /\ ctx /\ mem[s].type = "free"
    /\ mem' = [mem EXCEPT ![s] = Registered("allocated", ShmSize[s], ShmFlags[s], "no")]
    /\ UNCHANGED <<ctx, sess, call, lost, crashed>>

release_shared_memory(s) ==
    /\ Idle /\ mem[s].type # "free"
    /\ mem' = [mem EXCEPT ![s] = FreeBlock]
    /\ UNCHANGED <<ctx, sess, call, lost, crashed>>

-----------------------------------------------------------------------------
(* Parameter types.                                                        *)

TempTypes == {"tempin", "tempout", "tempinout"}
PartialTypes == {"partin", "partout", "partinout"}
ToPartial(t) == CASE t = "tempin" -> "partin" [] t = "tempout" -> "partout"
                  [] t = "tempinout" -> "partinout"
ToTemp(t) == CASE t = "partin" -> "tempin" [] t = "partout" -> "tempout"
               [] t = "partinout" -> "tempinout"
Needs(t) == CASE t \in {"tempin", "partin", "valin"} -> {"in"}
              [] t \in {"tempout", "partout", "valout"} -> {"out"}
              [] t \in {"tempinout", "partinout", "valinout"} -> {"in", "out"}
              [] OTHER -> {}

(* verify_shm and verify_params: a registered reference names a block of   *)
(* this context, with the flags its type needs.                            *)
verify_shm(p) ==
    /\ mem[p.ref].type # "free"
    /\ p.t \in PartialTypes => Needs(p.t) \subseteq mem[p.ref].flags
verify_params(op) ==
    \A i \in DOMAIN op : op[i].t \in PartialTypes \cup {"whole"} => verify_shm(op[i])

(* get_tee_type: what the trusted application may do with the parameter.   *)
get_tee_type(p, m) == IF p.t = "whole" THEN m[p.ref].flags ELSE Needs(p.t)

(* memref_temp_to_partial_params: each large temporary reference becomes a *)
(* partial reference to a new block.  When the memory object cannot be had *)
(* for parameter k, its type and reference are already rewritten while     *)
(* imp.converted of the new block is unset; the references converted       *)
(* before it are converted back.                                           *)
ToConvert(op) == {i \in DOMAIN op : op[i].t \in TempTypes /\ op[i].size = "large"}
Converted(op, S) ==
    [i \in DOMAIN op |-> IF i \in S THEN [op[i] EXCEPT !.t = ToPartial(@)] ELSE op[i]]
InParam(op, b) == {i \in DOMAIN op : op[i].ref = b}
TempBlocks(op, S, unset) ==
    [b \in Blocks |->
       IF b \in Shms \/ InParam(op, b) = {} THEN mem[b]
       ELSE LET i == CHOOSE i \in InParam(op, b) : TRUE
                plain == [FreeBlock EXCEPT !.size = op[i].size, !.flags = Needs(op[i].t)]
            IN IF i \in unset THEN [plain EXCEPT !.conv = "unset"]
               ELSE IF i \in S THEN Registered("registered", "large", plain.flags, "yes")
               ELSE plain]

(* memref_temp_from_partial_params: what is marked converted gets its      *)
(* temporary type back and its block is freed, the memory object with no   *)
(* release; an unset mark reads as either.                                 *)
Back(params, m, junk) ==
    [i \in DOMAIN params |->
       IF params[i].t \in PartialTypes
          /\ (m[params[i].ref].conv = "yes" \/ (m[params[i].ref].conv = "unset" /\ junk))
       THEN [params[i] EXCEPT !.t = ToTemp(@)] ELSE params[i]]
Drops(params, m) ==
    \E i \in DOMAIN params : m[params[i].ref].conv = "yes" /\ m[params[i].ref].mo

(* get_shared_mem_obj_index: the first parameter with the same memory      *)
(* object, "na" if there is none before i.                                 *)
SameMO(params, m, i) ==
    {j \in 1..(i - 1) : /\ params[j].t \in PartialTypes \cup {"whole"}
                        /\ m[params[j].ref].mo /\ params[j].ref = params[i].ref}
get_shared_mem_obj_index(params, m, i) ==
    IF params[i].t \notin PartialTypes \cup {"whole"} \/ ~m[params[i].ref].mo
       \/ SameMO(params, m, i) = {} THEN 0
    ELSE CHOOSE j \in SameMO(params, m, i) : \A k \in SameMO(params, m, i) : j <= k

assign_extended_params(params, m) ==
    [i \in DOMAIN params |->
       IF get_shared_mem_obj_index(params, m, i) # 0 THEN "dup"
       ELSE IF \E j \in DOMAIN params :
                  /\ get_shared_mem_obj_index(params, m, j) = i
                  /\ params[j].t \in {"partout", "partinout"}
            THEN "force_rw" ELSE "none"]

(* copy_to_mem_object for every registered block that has one.             *)
CopiedTo_none(params, m) == m
CopiedTo(params, m) ==
    [b \in Blocks |->
       IF m[b].mo /\ m[b].type = "registered"
          /\ \E i \in DOMAIN params : params[i].ref = b /\ params[i].t \in PartialTypes \cup {"whole"}
       THEN [m[b] EXCEPT !.mobuf = m[b].buf] ELSE m[b]]

(* update_shm_memref_from_mem_obj.                                         *)
copy_from_mem_object(block) == [block EXCEPT !.buf = block.mobuf]
UpdatedFrom_partial(params, m) ==
    [b \in Blocks |->
       IF m[b].mo /\ m[b].type = "registered"
          /\ \E i \in DOMAIN params : params[i].ref = b /\ params[i].t \in {"partout", "partinout"}
       THEN copy_from_mem_object(m[b]) ELSE m[b]]
UpdatedFrom(params, m) ==
    [b \in Blocks |->
       IF m[b].mo /\ m[b].type = "registered"
          /\ \E i \in DOMAIN params : params[i].ref = b /\ params[i].t \in {"partout", "partinout", "whole"}
       THEN copy_from_mem_object(m[b]) ELSE m[b]]

-----------------------------------------------------------------------------
(* Operations.                                                             *)

(* What the trusted application is given for parameter i: the contents     *)
(* behind it.  An allocated block's buffer is the memory object itself.    *)
Behind(p, m) == IF m[p.ref].mo /\ m[p.ref].type = "registered" THEN m[p.ref].mobuf ELSE m[p.ref].buf
WithRefs(op) ==
    [i \in DOMAIN op |-> IF op[i].ref \in Shms THEN op[i] ELSE [op[i] EXCEPT !.ref = TempOf(i)]]
Fresh(op, m) == [b \in Blocks |-> IF \E i \in DOMAIN op : op[i].ref = b
                                  THEN [m[b] EXCEPT !.buf = "in"] ELSE m[b]]

(* The calls up to the Mink invocation.  open_session returns when a       *)
(* temporary reference cannot be converted; invoke_command goes on with    *)
(* what there is, and follows imp.mem_obj of the unset block if that still *)
(* is a partial reference.                                                 *)
Prepared(kind, op, params, m) ==
    /\ mem' = CopiedTo(params, m)
    /\ call' = [pc |-> "tee", kind |-> kind, op |-> op, params |-> params,
                ex |-> assign_extended_params(params, m),
                sent |-> [i \in DOMAIN params |-> Behind(params[i], CopiedTo(params, m))],
                result |-> "none"]
    /\ UNCHANGED crashed

Begin(kind) ==
    /\ Idle /\ ctx
    /\ kind = "invoke" => sess.obj
    /\ kind = "open" => ~sess.obj
    /\ \E o \in Ops :
         LET op == WithRefs(o)
             all == ToConvert(op)
         IN /\ verify_params(o)
            /\ \/ /\ Prepared(kind, op, Converted(op, all), Fresh(op, TempBlocks(op, all, {})))
                  /\ UNCHANGED lost
               \/ \E k \in all, junk \in BOOLEAN :
                    LET params == Converted(op, {i \in all : i <= k})
                        m == TempBlocks(op, {i \in all : i < k}, {k})
                    IN /\ lost' = (lost \/ Drops(params, m))
                       /\ IF kind = "open"
                          THEN /\ call' = [NoCall EXCEPT !.pc = "done", !.kind = kind, !.op = op,
                                              !.params = Back(params, m, junk), !.result = <<"unregistered", "API">>]
                               /\ UNCHANGED <<mem, crashed>>
                          ELSE IF junk THEN Prepared(kind, op, op, Fresh(op, TempBlocks(op, {}, {})))
                          ELSE crashed' = TRUE /\ UNCHANGED <<mem, call>>
    /\ UNCHANGED <<ctx, sess>>

(* What the application is told of a call that failed on the way: the      *)
(* result and where it came from.  mink_invoke_command sets the origin a   *)
(* second time.                                                            *)
MinkErrors == {"DEFUNCT", "BUSY", "KMEM", "other"}
mink_open_session(rv) ==
    CASE rv = "DEFUNCT" -> <<"TARGET_DEAD", "TEE">>
      [] rv = "BUSY" -> <<"BUSY", "TEE">>
      [] rv = "KMEM" -> <<"OUT_OF_MEMORY", "TEE">>
      [] rv = "other" -> <<"GENERIC", "COMMS">>
      [] OTHER -> <<rv, "TA">>
mink_invoke_command(rv) ==
    IF rv \in MinkErrors THEN <<mink_open_session(rv)[1], "TEE">> ELSE <<rv, "TA">>

(* External: the TEE runs the operation and writes every parameter it may  *)
(* write, or the call fails in the application, in the TEE or on the way.  *)
Tee ==
    /\ call.pc = "tee"
    /\ \E r \in {"ok", "ta_error"} \cup MinkErrors :
         /\ call' = [call EXCEPT !.pc = "back", !.result = r]
         /\ mem' = IF r # "ok" THEN mem
                   ELSE [b \in Blocks |->
                           IF \E i \in DOMAIN call.params :
                                /\ call.params[i].ref = b
                                /\ "out" \in get_tee_type(call.params[i], mem)
                           THEN IF mem[b].mo /\ mem[b].type = "registered"
                                THEN [mem[b] EXCEPT !.mobuf = "out"]
                                ELSE [mem[b] EXCEPT !.buf = "out"]
                           ELSE mem[b]]
         /\ sess' = IF call.kind = "open" /\ r \notin MinkErrors THEN [sess EXCEPT !.obj = TRUE] ELSE sess
    /\ UNCHANGED <<ctx, lost, crashed>>

(* open_session and invoke_command from the invocation to their return:    *)
(* a session the trusted application refused is released.                  *)
Return ==
    /\ call.pc = "back"
    /\ LET m == UpdatedFrom(call.params, mem)
       IN /\ mem' = m
          /\ lost' = (lost \/ Drops(call.params, m))
          /\ call' = [call EXCEPT !.pc = "done", !.params = Back(call.params, m, TRUE),
                        !.result = IF call.kind = "open" THEN mink_open_session(@)
                                   ELSE mink_invoke_command(@)]
    /\ sess' = CASE call.kind = "open" /\ call.result = "ok" -> [sess EXCEPT !.ctx = TRUE]
                 [] call.kind = "open" /\ call.result = "ta_error" -> [sess EXCEPT !.obj = FALSE]
                 [] OTHER -> sess
    /\ UNCHANGED <<ctx, crashed>>

(* The application takes the result.                                       *)
Done ==
    /\ call.pc = "done" /\ call' = NoCall
    /\ mem' = [b \in Blocks |-> IF b \in Temps THEN FreeBlock ELSE mem[b]]
    /\ UNCHANGED <<ctx, sess, lost, crashed>>

close_session ==
    /\ Idle /\ sess.obj
    /\ sess' = [obj |-> FALSE, ctx |-> FALSE]
    /\ UNCHANGED <<ctx, mem, call, lost, crashed>>

(* Another thread cancels the running operation: session->imp.ctx names    *)
(* the waiter to signal, and is set only when the session is open.         *)
request_cancellation ==
    /\ call.pc \in {"tee", "back"}
    /\ ~sess.ctx /\ crashed' = TRUE
    /\ UNCHANGED <<ctx, sess, mem, call, lost>>

Next ==
    /\ ~crashed
    /\ \/ initialize_context \/ finalize_context
       \/ \E s \in Shms : register_shared_memory(s) \/ allocate_shared_memory(s)
                          \/ release_shared_memory(s)
       \/ \E kind \in {"open", "invoke"} : Begin(kind)
       \/ Tee \/ Return \/ Done \/ close_session \/ request_cancellation

Spec == Init /\ [][Next]_vars

-----------------------------------------------------------------------------
(* Buffers cross both ways: whatever mix of temporary, whole and partial   *)
(* references an operation has, the trusted application is given the       *)
(* application's input for every parameter tagged as input, and after a    *)
(* successful call every parameter it may write holds its output in the    *)
(* application's own buffer, through the memory object where there is one. *)
BuffersCross ==
    /\ call.pc \in {"tee", "back"} =>
          \A i \in DOMAIN call.params :
             "in" \in get_tee_type(call.params[i], mem)
                => call.sent[i] = "in"
    /\ call.pc = "done" /\ call.result[1] = "ok" =>
          \A i \in DOMAIN call.op :
             "out" \in get_tee_type(call.op[i], mem)
                => mem[call.op[i].ref].buf = "out"

(* The caller gets its operation back as it was: each reference that was   *)
(* converted for the call has its temporary type again, also after errors, *)
(* except when registering the converted block itself failed.              *)
ParamsRestored ==
    call.pc = "done" /\ call.result[1] # "unregistered" =>
        \A i \in DOMAIN call.op : call.params[i].t = call.op[i].t

(* A memory object several parameters share is writable where one of them  *)
(* is an output: the parameter that hosts it is an output itself or is     *)
(* marked with TEE_EX_PARAM_TYPE_MEMREF_FORCE_RW.                          *)
SharedOutputsWritable ==
    call.pc = "tee" =>
        \A i \in DOMAIN call.params :
            LET j == get_shared_mem_obj_index(call.params, mem, i)
            IN j # 0 /\ Needs(call.params[i].t) \cap {"out"} # {} =>
                 call.ex[j] = "force_rw" \/ "out" \in get_tee_type(call.params[j], mem)
=============================================================================
