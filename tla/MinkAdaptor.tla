----------------------------- MODULE MinkAdaptor -----------------------------
(***************************************************************************)
(* The adaptor between Mink objects and the QTEE driver: supplicant        *)
(* threads that take callback requests from QTEE and dispatch them to Mink *)
(* objects, the buffers a dispatch allocates, and the way the threads are  *)
(* stopped with a signal.                                                  *)
(* Sources: libminkadaptor/src/supplicant.c, syscall.S, mink_adaptor.c.    *)
(*                                                                         *)
(* External: QTEE, its driver and libqcomtee (qcomtee_object_process_one   *)
(* receives, dispatches, responds and then calls the object's cleanup).    *)
(***************************************************************************)
EXTENDS Naturals, FiniteSets

CONSTANTS
    Workers,    \* supplicant threads
    Cbos,       \* callback objects QTEE has a copy of
    Ptrs,       \* heap blocks for output buffers
    MaxRequests,\* bound on requests QTEE makes
    MaxCopies   \* bound on copies QTEE holds of one object

VARIABLES
    pc,         \* where each worker is
    sigpending, \* TLS sig_pending of each worker
    killed,     \* SIGUSR1 sent to the worker and not delivered
    req,        \* the request a worker has: [cbo, bo, args] or NoReq
    requests,   \* requests QTEE has made
    alloc,      \* allocated_bo of each callback object: a block or "null"
    heap,       \* blocks in use
    sup,        \* "off", "running", "joining", "freed"
    failed,     \* threads pthread_create could not start
    copies,     \* copies of each callback object QTEE holds
    refs,       \* references of the Mink object behind it, the client's included
    held,       \* what the client holds of QTEE: "root", some other "obj"
    badfree     \* a block not in use, of another dispatch or never set was freed

vars == <<pc, sigpending, killed, req, requests, alloc, heap, sup, failed, copies, refs, held, badfree>>

NoReq == [cbo |-> "none", bo |-> FALSE, ptr |-> "null"]

TypeOK ==
    /\ pc \in [Workers -> {"none", "top", "unblocked", "ioctl", "checked", "kernel", "intr",
                           "got", "dispatch", "invoked", "respond", "cleanup", "dead"}]
    /\ sigpending \in [Workers -> BOOLEAN] /\ killed \in [Workers -> BOOLEAN]
    /\ alloc \in [Cbos -> Ptrs \cup {"null"}] /\ heap \subseteq Ptrs
    /\ sup \in {"off", "running", "joining", "freed"} /\ held \subseteq {"root", "obj"}

Init ==
    /\ pc = [w \in Workers |-> "none"] /\ sigpending = [w \in Workers |-> FALSE]
    /\ killed = [w \in Workers |-> FALSE] /\ req = [w \in Workers |-> NoReq]
    /\ requests = 0 /\ alloc = [c \in Cbos |-> "null"] /\ heap = {}
    /\ sup = "off" /\ failed = {} /\ badfree = FALSE
    /\ held = {} /\ copies = [c \in Cbos |-> 0] /\ refs = [c \in Cbos |-> 1]

Moves(w, p) == pc' = [pc EXCEPT ![w] = p]

-----------------------------------------------------------------------------
(* supplicant_start: some threads may not start; with none it fails.       *)
supplicant_start ==
    /\ sup = "off"
    /\ \E F \in SUBSET Workers :
          /\ failed' = F
          /\ pc' = [w \in Workers |-> IF w \in F THEN "none" ELSE "top"]
          /\ sup' = IF F = Workers THEN "freed" ELSE "running"
          /\ held' = IF F = Workers THEN {} ELSE {"root"}
    /\ UNCHANGED <<sigpending, killed, req, requests, alloc, heap, copies, refs, badfree>>

(* tee_call for TEE_IOC_SUPPL_RECV: the signal is unblocked, and           *)
(* mink_recv_ioctl tests sig_pending before its system call.               *)
Unblock(w) ==
    /\ pc[w] = "top" /\ Moves(w, "unblocked")
    /\ UNCHANGED <<sigpending, killed, req, requests, alloc, heap, sup, failed, copies, refs, held, badfree>>
CallRecvIoctl(w) ==
    /\ pc[w] = "unblocked" /\ Moves(w, "ioctl")
    /\ UNCHANGED <<sigpending, killed, req, requests, alloc, heap, sup, failed, copies, refs, held, badfree>>
TestPending(w) ==
    /\ pc[w] = "ioctl" /\ Moves(w, IF sigpending[w] THEN "intr" ELSE "checked")
    /\ UNCHANGED <<sigpending, killed, req, requests, alloc, heap, sup, failed, copies, refs, held, badfree>>
EnterKernel(w) ==
    /\ pc[w] = "checked" /\ Moves(w, "kernel")
    /\ UNCHANGED <<sigpending, killed, req, requests, alloc, heap, sup, failed, copies, refs, held, badfree>>
Receive(w) ==
    /\ pc[w] = "kernel" /\ sup = "running" /\ requests < MaxRequests
    /\ \E c \in {c \in Cbos : copies[c] > 0}, bo \in BOOLEAN : req' = [req EXCEPT ![w] = [NoReq EXCEPT !.cbo = c, !.bo = bo]]
    /\ requests' = requests + 1 /\ Moves(w, "got")
    /\ UNCHANGED <<sigpending, killed, alloc, heap, sup, failed, copies, refs, held, badfree>>

(* supplicant_kill_handler runs when the signal is not blocked.  Inside    *)
(* mink_recv_ioctl before the system call it moves the program counter     *)
(* past it; a blocked system call returns -EINTR; elsewhere sig_pending is *)
(* left for the next test.                                                 *)
Unblocked(w) == pc[w] \in {"unblocked", "ioctl", "checked", "kernel", "intr", "got"}
KillHandler_flagOnly(w) ==
    /\ killed[w] /\ Unblocked(w)
    /\ killed' = [killed EXCEPT ![w] = FALSE]
    /\ sigpending' = [sigpending EXCEPT ![w] = TRUE]
    /\ Moves(w, IF pc[w] = "kernel" THEN "intr" ELSE pc[w])
    /\ UNCHANGED <<req, requests, alloc, heap, sup, failed, copies, refs, held, badfree>>
KillHandler(w) ==
    /\ killed[w] /\ Unblocked(w)
    /\ killed' = [killed EXCEPT ![w] = FALSE]
    /\ sigpending' = [sigpending EXCEPT ![w] = @ \/ pc[w] \notin {"ioctl", "checked"}]
    /\ Moves(w, IF pc[w] \in {"ioctl", "checked", "kernel"} THEN "intr" ELSE pc[w])
    /\ UNCHANGED <<req, requests, alloc, heap, sup, failed, copies, refs, held, badfree>>

(* The signal is blocked again; qcomtee_object_process_one returns an      *)
(* error to supplicant_worker, which ends, or dispatches the request.      *)
Block(w) ==
    /\ pc[w] \in {"intr", "got"}
    /\ Moves(w, IF pc[w] = "intr" THEN "dead" ELSE "dispatch")
    /\ UNCHANGED <<sigpending, killed, req, requests, alloc, heap, sup, failed, copies, refs, held, badfree>>

-----------------------------------------------------------------------------
(* qcomtee_callback_obj_dispatch: object_args_from_tee_params_cb allocates *)
(* the output buffer and notes it in the object, or fails; a failed        *)
(* dispatch has no cleanup.                                                *)
Dispatch(w) ==
    /\ pc[w] = "dispatch"
    /\ \/ /\ req[w].bo
          /\ \E p \in Ptrs \ heap :
                /\ heap' = heap \cup {p}
                /\ alloc' = [alloc EXCEPT ![req[w].cbo] = p]
                /\ req' = [req EXCEPT ![w].ptr = p]
                /\ Moves(w, "invoked")
       \/ ~req[w].bo /\ Moves(w, "invoked") /\ UNCHANGED <<heap, alloc, req>>
       \/ req[w].bo /\ Moves(w, "respond") /\ UNCHANGED <<heap, alloc, req>>
    /\ UNCHANGED <<sigpending, killed, requests, sup, failed, copies, refs, held, badfree>>

(* The Mink object is invoked; if it fails the dispatch fails, if its      *)
(* results cannot be converted the cleanup is called here.                 *)
Freed(w) ==
    LET p == alloc[req[w].cbo]
    IN /\ heap' = heap \ {p}
       /\ badfree' = (badfree \/ (p # "null" /\ (p \notin heap \/ p # req[w].ptr)))
Invoke(w) ==
    /\ pc[w] = "invoked"
    /\ \/ Moves(w, "cleanup") /\ UNCHANGED <<heap, badfree>>
       \/ Moves(w, "respond") /\ UNCHANGED <<heap, badfree>>
       \/ Moves(w, "respond") /\ Freed(w)
    /\ UNCHANGED <<sigpending, killed, req, requests, alloc, sup, failed, copies, refs, held>>

(* The error goes to QTEE; or the response, and then                       *)
(* qcomtee_callback_obj_cleanup frees what the object has noted, without   *)
(* forgetting it.                                                          *)
RespondError(w) ==
    /\ pc[w] = "respond" /\ Moves(w, "top") /\ req' = [req EXCEPT ![w] = NoReq]
    /\ UNCHANGED <<sigpending, killed, requests, alloc, heap, sup, failed, copies, refs, held, badfree>>
Cleanup(w) ==
    /\ pc[w] = "cleanup" /\ Moves(w, "top") /\ req' = [req EXCEPT ![w] = NoReq] /\ Freed(w)
    /\ UNCHANGED <<sigpending, killed, requests, alloc, sup, failed, copies, refs, held>>

-----------------------------------------------------------------------------
(* A callback object is passed to QTEE as a wrapper of its own, which      *)
(* retains the Mink object; an object of QTEE is passed as it is.          *)
qcomtee_obj_from_mink_obj(C) ==
    /\ copies' = [c \in Cbos |-> copies[c] + (IF c \in C THEN 1 ELSE 0)]
    /\ refs' = [c \in Cbos |-> refs[c] + (IF c \in C THEN 1 ELSE 0)]
(* The wrappers converted for a call that never reached QTEE are released. *)
release_qcomtee_objs_none(C) ==
    refs' = [c \in Cbos |-> refs[c] + (IF c \in C THEN 1 ELSE 0)] /\ UNCHANGED copies
release_qcomtee_objs(C) == UNCHANGED <<copies, refs>>
(* An argument that cannot be converted ends the conversion; it is         *)
(* released with the others, although it was never set.                    *)
object_args_to_tee_params(C) == C # {} /\ badfree' = TRUE /\ release_qcomtee_objs(C)
(* An object QTEE returns becomes a Mink object of this adaptor.           *)
mink_obj_from_qcomtee_obj(o) == held' = held \cup {o}
object_args_from_tee_params ==
    \/ mink_obj_from_qcomtee_obj("obj")
    \/ UNCHANGED held

(* The client invokes an object of QTEE and passes the callback objects C. *)
(* When the invocation cannot be made the wrappers are released; when QTEE *)
(* was reached they are QTEE's, whatever it answers.                       *)
invoke_over_tee(C) ==
    /\ sup = "running" /\ held # {} /\ \A c \in C : copies[c] < MaxCopies
    /\ \/ object_args_to_tee_params(C) /\ UNCHANGED held
       \/ release_qcomtee_objs(C) /\ UNCHANGED <<held, badfree>>
       \/ qcomtee_obj_from_mink_obj(C) /\ object_args_from_tee_params /\ UNCHANGED badfree
    /\ UNCHANGED <<pc, sigpending, killed, req, requests, alloc, heap, sup, failed>>

(* The client environment: with credentials of the library's own, or with  *)
(* a credentials object of the client.                                     *)
MinkCom_getClientEnvObject ==
    /\ sup = "running" /\ "root" \in held /\ mink_obj_from_qcomtee_obj("obj")
    /\ UNCHANGED <<pc, sigpending, killed, req, requests, alloc, heap, sup, failed, copies, refs, badfree>>
MinkCom_getClientEnvObjectWithCreds(c) ==
    /\ sup = "running" /\ "root" \in held /\ copies[c] < MaxCopies
    /\ \/ release_qcomtee_objs({c}) /\ UNCHANGED held
       \/ qcomtee_obj_from_mink_obj({c}) /\ (mink_obj_from_qcomtee_obj("obj") \/ UNCHANGED held)
    /\ UNCHANGED <<pc, sigpending, killed, req, requests, alloc, heap, sup, failed, badfree>>
MinkCom_getMemoryObject ==
    /\ sup = "running" /\ "root" \in held /\ mink_obj_from_qcomtee_obj("obj")
    /\ UNCHANGED <<pc, sigpending, killed, req, requests, alloc, heap, sup, failed, copies, refs, badfree>>
(* The release operation of an object of QTEE's. *)
ReleaseHeld(o) ==
    /\ o \in held /\ held' = held \ {o}
    /\ UNCHANGED <<pc, sigpending, killed, req, requests, alloc, heap, sup, failed, copies, refs, badfree>>

(* QTEE releases a copy it does not call: qcomtee_callback_obj_release.    *)
qcomtee_callback_obj_release(c) ==
    /\ copies[c] > 0 /\ \A w \in Workers : req[w].cbo # c
    /\ copies' = [copies EXCEPT ![c] = @ - 1] /\ refs' = [refs EXCEPT ![c] = @ - 1]
    /\ UNCHANGED <<pc, sigpending, killed, req, requests, alloc, heap, sup, failed, held, badfree>>

-----------------------------------------------------------------------------
(* supplicant_release, once no object and no request is left: every        *)
(* started thread is sent SIGUSR1, and joined.                             *)
Started == Workers \ failed
supplicant_release ==
    /\ sup = "running" /\ \A w \in Workers : req[w] = NoReq
    /\ held = {} /\ \A c \in Cbos : copies[c] = 0
    /\ killed' = [w \in Workers |-> w \in Started]
    /\ sup' = "joining"
    /\ UNCHANGED <<pc, sigpending, req, requests, alloc, heap, failed, copies, refs, held, badfree>>
supplicant_join ==
    /\ sup = "joining" /\ \A w \in Started : pc[w] = "dead"
    /\ sup' = "freed"
    /\ UNCHANGED <<pc, sigpending, killed, req, requests, alloc, heap, failed, copies, refs, held, badfree>>

Worker(w) ==
    \/ Unblock(w) \/ CallRecvIoctl(w) \/ TestPending(w) \/ EnterKernel(w) \/ KillHandler(w)
    \/ Block(w) \/ Dispatch(w) \/ Invoke(w) \/ RespondError(w) \/ Cleanup(w)
Next ==
    \/ supplicant_start \/ supplicant_release \/ supplicant_join
    \/ \E w \in Workers : Worker(w) \/ Receive(w)
    \/ \E C \in SUBSET Cbos : invoke_over_tee(C)
    \/ \E c \in Cbos : MinkCom_getClientEnvObjectWithCreds(c) \/ qcomtee_callback_obj_release(c)
    \/ MinkCom_getClientEnvObject \/ MinkCom_getMemoryObject
    \/ \E o \in held : ReleaseHeld(o)

Spec == Init /\ [][Next]_vars
(* Threads run; QTEE need not send anything.                               *)
Fairness ==
    /\ WF_vars(supplicant_join)
    /\ \A w \in Workers : WF_vars(Worker(w))

-----------------------------------------------------------------------------
(* Whenever the signal reaches a thread - before the test of sig_pending,  *)
(* between the test and the system call, inside it or after it - the       *)
(* thread ends and supplicant_release returns.                             *)
ReleaseReturns == (sup = "joining") ~> (sup = "freed")

(* No thread ends with a request of QTEE in its hands.                     *)
RequestsKept == \A w \in Workers : pc[w] = "dead" => req[w] = NoReq

(* A Mink object has one reference for the client and one for every copy   *)
(* QTEE holds, so that none it can call is freed and none is left over     *)
(* when QTEE has released them all.                                        *)
CopiesHoldReferences == \A c \in Cbos : refs[c] = 1 + copies[c]

(* Before the supplicant starts no thread runs, and a thread that is not   *)
(* between a receive and its response has no request.                      *)
Unoccupied == {"none", "top", "unblocked", "ioctl", "checked", "kernel", "intr", "dead"}
AdaptorInv ==
    /\ \A w \in Workers : w \in DOMAIN pc /\ w \in DOMAIN req
    /\ \A w \in Workers : pc[w] \in Unoccupied => req[w] = NoReq
    /\ sup = "off" => \A w \in Workers : pc[w] = "none"
    /\ copies \in [Cbos -> Nat] /\ refs \in [Cbos -> Nat]
    /\ CopiesHoldReferences
=============================================================================
