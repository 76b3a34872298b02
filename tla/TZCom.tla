------------------------------- MODULE TZCom -------------------------------
(***************************************************************************)
(* libTZCom over the smcinvoke driver: MinkDescriptor.cpp turns invocations*)
(* of QTEE objects into ioctls and keeps the table of local objects QTEE   *)
(* may call back; a pool of accept threads serves those callbacks until    *)
(* the callback context is shut down.  TZCom.cpp registers the client,     *)
(* handing QTEE a local credentials object (CIO.cpp), and                  *)
(* TimedRetryForwarder.cpp repeats calls QTEE answers with BUSY.           *)
(*                                                                         *)
(* QTEE and the driver are the environment: they may call or release any   *)
(* handle they were given, at any time.  A local handle is its slot in     *)
(* mLocObjTab.                                                             *)
(***************************************************************************)
EXTENDS Integers, Sequences, FiniteSets, SequencesExt, FiniteSetTheorems, WellFoundedInduction,
        TLAPS

CONSTANTS Workers,    \* accept threads (cbthread_cnt)
          MaxSlots,   \* bound: entries the local object table grows to
          MaxCalls,   \* bound: invocations of the client
          MaxRefs,    \* bound: references to a local object
          MaxTries,   \* bound: times a BUSY call is repeated
          MaxMems,    \* bound: memory objects that callbacks return
          MaxFaults   \* bound: failures of the driver, the memory, the service

VARIABLES mLocObjTab, \* slot -> local object or None
          refs,       \* references to each local object
          known,      \* slot -> object QTEE was given it for (ghost), or None
          memRegions, \* memory objects listed for QTEE, by their descriptor
          memKnown,   \* those QTEE was given (ghost)
          mems,       \* memory objects ever returned
          worker,     \* accept thread -> [pc, slot, mem, obj, oi]
          readers,    \* accept threads holding mShutdownMutex for reading
          writer,     \* a shutdown holds mShutdownMutex
          serverFd,   \* the driver's callback server is open
          ready,      \* maccept_thread_cnt
          descs,      \* MinkDescriptor references the client holds
          client,     \* [pc, op, tries]
          calls, faults

mem == <<memRegions, memKnown, mems>>
vars == <<mLocObjTab, refs, known, mem, worker, readers, writer, serverFd, ready,
          descs, client, calls, faults>>

None == "none"
Objs == {"cio", "cb"}  \* the credentials object; a callback object
Slots == 1..MaxSlots
Idle(pc) == [pc |-> pc, slot |-> 0, mem |-> 0, obj |-> None, oi |-> FALSE]
InCall(w, pc, o, oi) ==  \* thread w serves a call of its callback o
    [pc |-> pc, slot |-> worker[w].slot, mem |-> worker[w].mem, obj |-> o, oi |-> oi]
At(w) == worker[w].pc
Fault == faults < MaxFaults /\ faults' = faults + 1

\* As if a slot were free once its release is accepted, and not when it is done.
EmptySlots_early == {s \in Slots : known[s] = None}
EmptySlots == {s \in Slots : mLocObjTab[s] = None}

(* getLocObjHandle: the first empty slot, or a new one at the end.         *)
getLocObjHandle(o, s) ==
    /\ EmptySlots # {} /\ s = Min(EmptySlots)
    /\ mLocObjTab' = [mLocObjTab EXCEPT ![s] = o]
    /\ known' = [known EXCEPT ![s] = o]

---------------------------------------------------------------------------
(* MinkDescriptor_getRootEnv: opens the driver and the server, starts the  *)
(* accept threads (MinkCBContext::MinkCBContext) and waits for all of them.*)
MinkCBContext_new ==
    /\ client.pc = "start"
    /\ serverFd' = TRUE
    /\ worker' = [w \in Workers |-> Idle("starting")]
    /\ client' = [client EXCEPT !.pc = "spawned"]
    /\ UNCHANGED <<mem, mLocObjTab, refs, known, readers, writer, ready, descs,
                   calls, faults>>

ServerRequestFails ==
    /\ client.pc = "start" /\ Fault
    /\ client' = [client EXCEPT !.pc = "failed"]
    /\ UNCHANGED <<mem, mLocObjTab, refs, known, worker, readers, writer, serverFd,
                   ready, descs, calls>>

(* No memory for the root object: the context goes, and shuts down.        *)
RootEnvFails ==
    /\ client.pc = "spawned" /\ ready = Cardinality(Workers) /\ Fault
    /\ client' = [client EXCEPT !.pc = "released"]
    /\ UNCHANGED <<mem, mLocObjTab, refs, known, worker, readers, writer, serverFd,
                   ready, descs, calls>>

WaitTillAcceptThreadsAreCreated ==
    /\ client.pc = "spawned" /\ ready = Cardinality(Workers)
    /\ descs' = 1
    /\ client' = [client EXCEPT !.pc = "root"]
    /\ UNCHANGED <<mem, mLocObjTab, refs, known, worker, readers, writer, serverFd,
                   ready, calls, faults>>

(* worker2, up to its loop: the exit point is set, SIGUSR1 unblocked, the  *)
(* thread counted.                                                         *)
WorkerStarts(w) ==
    /\ At(w) = "starting"
    /\ ready' = ready + 1
    /\ worker' = [worker EXCEPT ![w] = Idle(IF writer THEN "waitKill"
                                            ELSE "accept")]
    /\ UNCHANGED <<mem, mLocObjTab, refs, known, readers, writer, serverFd, descs,
                   client, calls, faults>>

---------------------------------------------------------------------------
(* The accept loop.  A request is taken only with mShutdownMutex read-     *)
(* locked; a thread that finds it write-locked waits to be killed.         *)
Taken(w, s, m, pc) ==
    IF writer
    THEN /\ worker' = [worker EXCEPT ![w] = Idle("waitKill")]
         /\ UNCHANGED readers
    ELSE /\ worker' = [worker EXCEPT ![w] = [Idle(pc) EXCEPT !.slot = s, !.mem = m]]
         /\ readers' = readers \cup {w}

(* QTEE calls a handle it holds; the arguments may hold a remote object.   *)
AcceptInvoke(w, s) ==
    /\ At(w) = "accept" /\ serverFd /\ known[s] # None
    /\ Taken(w, s, 0, "request")
    /\ UNCHANGED <<mem, mLocObjTab, refs, known, writer, serverFd, ready, descs,
                   client, calls, faults>>

(* QTEE drops a handle once its calls to it are answered; the request is   *)
(* lost when the service shuts down.                                       *)
AcceptRelease(w, s) ==
    /\ At(w) = "accept" /\ serverFd /\ known[s] # None
    /\ \A v \in Workers : worker[v].slot # s
    /\ Taken(w, s, 0, "release")
    /\ known' = [known EXCEPT ![s] = None]
    /\ UNCHANGED <<mem, mLocObjTab, refs, writer, serverFd, ready, descs, client,
                   calls, faults>>

(* The same for a memory object, which the request names by its descriptor.*)
AcceptReleaseMem(w, m) ==
    /\ At(w) = "accept" /\ serverFd /\ m \in memKnown
    /\ Taken(w, 0, m, "releaseMem")
    /\ memKnown' = memKnown \ {m}
    /\ UNCHANGED <<memRegions, mems, mLocObjTab, refs, known, writer, serverFd,
                   ready, descs, client, calls, faults>>

(* The ioctl fails: EINTR and EAGAIN are retried, ESHUTDOWN closes the     *)
(* server, and any error but those two parks the thread.                   *)
AcceptFails(w, errno) ==
    /\ At(w) = "accept" /\ ~writer
    /\ IF errno = "EAGAIN" THEN UNCHANGED <<worker, faults>>
       ELSE /\ Fault
            /\ worker' = [worker EXCEPT ![w] = Idle("waitKill")]
    /\ serverFd' = (serverFd /\ errno # "ESHUTDOWN")
    /\ UNCHANGED <<mem, mLocObjTab, refs, known, readers, writer, ready, descs,
                   client, calls>>

Responds(w) ==
    /\ worker' = [worker EXCEPT ![w] = Idle("accept")]
    /\ readers' = readers \ {w}

clearLocalObj(w) ==
    /\ At(w) = "release"
    /\ LET o == mLocObjTab[worker[w].slot]
       IN refs' = IF o = None THEN refs ELSE [refs EXCEPT ![o] = @ - 1]
    /\ mLocObjTab' = [mLocObjTab EXCEPT ![worker[w].slot] = None]
    /\ Responds(w)
    /\ UNCHANGED <<mem, known, writer, serverFd, ready, descs, client, calls, faults>>

(* The memory object with that descriptor is released by the list, its last*)
(* user, and with that leaves the list and closes the descriptor.          *)
clearLocalMemObj(w) ==
    /\ At(w) = "releaseMem"
    /\ memRegions' = memRegions \ {worker[w].mem}
    /\ Responds(w)
    /\ UNCHANGED <<memKnown, mems, mLocObjTab, refs, known, writer, serverFd,
                   ready, descs, client, calls, faults>>

(* getLocalObj and marshalRequestIn.  A remote argument makes a new        *)
(* MinkDescriptor, which keeps the callback context alive.                 *)
getLocalObj(w, oi) ==
    /\ At(w) = "request"
    /\ oi => descs < 2
    /\ LET o == mLocObjTab[worker[w].slot]
       IN IF o = None
          THEN Responds(w) /\ UNCHANGED refs
          ELSE /\ refs' = [refs EXCEPT ![o] = @ + 1]
               /\ worker' = [worker EXCEPT ![w] = InCall(w, "invoking", o, oi)]
               /\ UNCHANGED readers
    /\ UNCHANGED <<mem, mLocObjTab, known, writer, serverFd, ready, descs, client,
                   calls, faults>>

(* An argument cannot be made: the loop goes on with the target retained.  *)
MarshalRequestInFails(w) ==
    /\ At(w) = "request" /\ mLocObjTab[worker[w].slot] # None
    /\ Fault
    /\ refs' = [refs EXCEPT ![mLocObjTab[worker[w].slot]] = @ + 1]
    /\ Responds(w)
    /\ UNCHANGED <<mem, mLocObjTab, known, writer, serverFd, ready, descs, client,
                   calls>>

(* The callback returned: the arguments are released.  Were this the last  *)
(* reference to the last descriptor, the context's destructor would run    *)
(* here, and wait for the read lock this thread holds.                     *)
ReleaseOI(w) ==
    /\ At(w) = "invoking"
    /\ worker' = [worker EXCEPT ![w] = InCall(w,
          IF worker[w].oi /\ descs = 0 /\ \A v \in Workers \ {w} : ~worker[v].oi
          THEN "stuck" ELSE "returning", worker[w].obj, FALSE)]
    /\ UNCHANGED <<mem, mLocObjTab, refs, known, readers, writer, serverFd, ready,
                   descs, client, calls, faults>>

(* What a callback returns: local objects, new memory objects, and objects *)
(* around a descriptor that is no dma-buf.                                 *)
Returned == {<<>>, <<"cb">>, <<"mem">>, <<"cb", "bad">>, <<"bad", "mem">>, <<"mem", "bad">>}

(* getHandleFromObject refuses the last kind; the success of listing a     *)
(* memory object (addMemObjToList) replaces what was known of the others.  *)
ResponseRet(oo) ==
    FoldLeft(LAMBDA ret, o : CASE o = "cb" -> ret [] o = "bad" -> "BADOBJ" [] o = "mem" -> "OK",
             "OK", oo)

\* As if a response that failed in one object, and goes out all the same, had
\* its memory object taken off the list.
addMemObjToList_notBesideBad(oo) ==
    IF ~Contains(oo, "mem") THEN UNCHANGED mem
    ELSE /\ mems < MaxMems /\ mems' = mems + 1
         /\ memRegions' = IF Contains(oo, "bad") THEN memRegions ELSE memRegions \cup {mems + 1}
         /\ memKnown' = IF ResponseRet(oo) = "OK" THEN memKnown \cup {mems + 1} ELSE memKnown
addMemObjToList(oo) ==
    IF ~Contains(oo, "mem") THEN UNCHANGED mem
    ELSE /\ mems < MaxMems /\ mems' = mems + 1
         /\ memRegions' = memRegions \cup {mems + 1}
         /\ memKnown' = IF ResponseRet(oo) = "OK" THEN memKnown \cup {mems + 1} ELSE memKnown

\* As if the table did not retain the object it gives a handle, and the reference
\* the callback returned were dropped.
marshalResponseOut_unretained(w, oo) ==
    /\ At(w) = "returning"
    /\ LET left == [refs EXCEPT ![worker[w].obj] = @ - 1]
       IN IF ~Contains(oo, "cb") \/ ResponseRet(oo) # "OK"
          THEN refs' = left /\ UNCHANGED <<mLocObjTab, known>>
          ELSE /\ left["cb"] > 0 /\ \E s \in Slots : getLocObjHandle("cb", s)
               /\ refs' = left
    /\ addMemObjToList(oo)
    /\ Responds(w)
    /\ UNCHANGED <<writer, serverFd, ready, descs, client, calls, faults>>

(* The handles are made; when the response fails those of local objects are*)
(* cleared again.  Then the target is released, and the response goes with *)
(* the next ACCEPT.  The reference the callback returned is kept, beside   *)
(* the table's own.                                                        *)
marshalResponseOut(w, oo) ==
    /\ At(w) = "returning"
    /\ LET left == [refs EXCEPT ![worker[w].obj] = @ - 1]
       IN IF ~Contains(oo, "cb")
          THEN refs' = left /\ UNCHANGED <<mLocObjTab, known>>
          ELSE /\ left["cb"] > 0 /\ left["cb"] + 2 <= MaxRefs
               /\ IF ResponseRet(oo) = "OK"
                  THEN /\ \E s \in Slots : getLocObjHandle("cb", s)
                       /\ refs' = [left EXCEPT !["cb"] = @ + 2]
                  ELSE /\ refs' = [left EXCEPT !["cb"] = @ + 1]
                       /\ UNCHANGED <<mLocObjTab, known>>
    /\ addMemObjToList(oo)
    /\ Responds(w)
    /\ UNCHANGED <<writer, serverFd, ready, descs, client, calls, faults>>

---------------------------------------------------------------------------
(* The client.  TZCom_getClientEnvObject registers with the root object,   *)
(* passing a CIO object; a refusal is retried with the buffer itself.      *)
(* Then the client invokes what it holds, passing a callback object.       *)
Passed(op) == CASE op = "registerAsClient" -> {"cio"}
                [] op = "registerWithCredentials" -> {"cio"}
                [] op = "registerLegacy" -> {}
                [] op = "invoke" -> {"cb"}

(* marshalIn: every attempt gives its local objects new handles.           *)
marshalIn(op) ==
    IF Passed(op) = {} THEN UNCHANGED <<mLocObjTab, known, refs>>
    ELSE \E o \in Passed(op), s \in Slots :
            /\ getLocObjHandle(o, s)
            /\ refs' = [refs EXCEPT ![o] = @ + 1 + (IF client.pc = "root" THEN 1 ELSE 0)]

(* CIO_open, then the first registration.                                  *)
TZCom_getClientEnvObject ==
    /\ client.pc = "root"
    /\ marshalIn("registerAsClient")
    /\ client' = [pc |-> "inCall", op |-> "registerAsClient", tries |-> 0]
    /\ UNCHANGED <<mem, worker, readers, writer, serverFd, ready, descs, calls, faults>>

(* Or the client brings credentials of its own, and keeps them.            *)
TZCom_getClientEnvObjectWithCreds ==
    /\ client.pc = "root"
    /\ marshalIn("registerWithCredentials")
    /\ client' = [pc |-> "inCall", op |-> "registerWithCredentials", tries |-> 0]
    /\ UNCHANGED <<mem, worker, readers, writer, serverFd, ready, descs, calls, faults>>

(* getSelfCreds has no memory: the root is released.                       *)
SelfCredsFail ==
    /\ client.pc = "root" /\ Fault
    /\ descs' = 0 /\ client' = [client EXCEPT !.pc = "released"]
    /\ UNCHANGED <<mem, mLocObjTab, refs, known, worker, readers, writer, serverFd,
                   ready, calls>>

(* An object after the callback object has no handle (getHandleFromObject):*)
(* the call ends, and the callback object keeps its slot.                  *)
HandleFails ==
    /\ client.pc = "env" /\ calls < MaxCalls /\ descs > 0
    /\ refs["cb"] < MaxRefs
    /\ EmptySlots # {}
    /\ mLocObjTab' = [mLocObjTab EXCEPT ![Min(EmptySlots)] = "cb"]
    /\ refs' = [refs EXCEPT !["cb"] = @ + 1]
    /\ calls' = calls + 1
    /\ UNCHANGED <<mem, known, worker, readers, writer, serverFd, ready, descs, client,
                   faults>>

invoke_over_ioctl ==
    /\ client.pc = "env" /\ calls < MaxCalls /\ descs > 0
    /\ refs["cb"] < MaxRefs
    /\ marshalIn("invoke")
    /\ calls' = calls + 1
    /\ client' = [pc |-> "inCall", op |-> "invoke", tries |-> 0]
    /\ UNCHANGED <<mem, worker, readers, writer, serverFd, ready, descs, faults>>

(* QTEE is BUSY: both retry loops repeat the call until their time is out. *)
Retry ==
    /\ client.pc = "inCall" /\ client.tries < MaxTries
    /\ \A o \in Passed(client.op) : refs[o] < MaxRefs
    /\ marshalIn(client.op)
    /\ client' = [client EXCEPT !.tries = @ + 1]
    /\ UNCHANGED <<mem, worker, readers, writer, serverFd, ready, descs, calls, faults>>

(* The call ends.  After a registration the root and the CIO are released; *)
(* a descriptor that comes back is the client's (its forwarder's).         *)
marshalOut(result) ==
    /\ client.pc = "inCall"
    /\ result = "object" => descs < 2
    /\ CASE client.op = "invoke" ->
              /\ descs' = descs + (IF result = "object" THEN 1 ELSE 0)
              /\ client' = [client EXCEPT !.pc = "env"]
              /\ UNCHANGED <<mLocObjTab, known, refs>>
         [] client.op = "registerAsClient" /\ result = "INVALID" ->
              /\ client' = [pc |-> "inCall", op |-> "registerLegacy", tries |-> 0]
              /\ UNCHANGED <<descs, mLocObjTab, known, refs>>
         [] OTHER ->
              /\ refs' = IF client.op = "registerWithCredentials" THEN refs
                         ELSE [refs EXCEPT !["cio"] = @ - 1]
              /\ descs' = IF result = "object" THEN 1 ELSE 0
              /\ client' = [client EXCEPT !.pc =
                               IF result = "object" THEN "env" ELSE "released"]
              /\ UNCHANGED <<mLocObjTab, known>>
    /\ UNCHANGED <<mem, worker, readers, writer, serverFd, ready, calls, faults>>

(* Object_release of a descriptor.  The last one anywhere deletes the      *)
(* callback context, whose destructor shuts it down.                       *)
MinkDescriptor_delete ==
    /\ client.pc = "env" /\ descs > 0
    /\ descs' = descs - 1
    /\ client' = [client EXCEPT !.pc = IF descs = 1 THEN "released" ELSE "env"]
    /\ UNCHANGED <<mem, mLocObjTab, refs, known, worker, readers, writer, serverFd,
                   ready, calls, faults>>

Cleared ==
    /\ mLocObjTab' = [s \in Slots |-> None]
    /\ refs' = [o \in Objs |->
                  refs[o] - Cardinality({s \in Slots : mLocObjTab[s] = o})]

(* shutdown, from the destructor when the last descriptor is gone, or from *)
(* MinkDescriptor_shutdownCBService at any time: the table is emptied, the *)
(* lock taken once no request is being handled, the threads killed and     *)
(* joined, the server closed.                                              *)
ShutdownClears(pc) ==
    /\ client.pc = pc
    /\ pc = "released" => \A w \in Workers : ~worker[w].oi /\ At(w) # "stuck"
    /\ Cleared
    /\ client' = [client EXCEPT !.pc = "clearing"]
    /\ UNCHANGED <<mem, known, worker, readers, writer, serverFd, ready, descs, calls,
                   faults>>
MinkDescriptor_shutdownCBService == ShutdownClears("env")

ShutdownLocks ==
    /\ client.pc = "clearing" /\ readers = {}
    /\ writer' = TRUE
    /\ client' = [client EXCEPT !.pc = "killing"]
    /\ UNCHANGED <<mem, mLocObjTab, refs, known, worker, readers, serverFd, ready,
                   descs, calls, faults>>


(* SIGUSR1: the handler jumps to the thread's exit point.                  *)
minkcbserver_signal_handler(w) ==
    /\ client.pc = "killing" /\ At(w) \in {"accept", "waitKill", "dead"}
    /\ worker' = [worker EXCEPT ![w] = Idle("exited")]
    /\ UNCHANGED <<mem, mLocObjTab, refs, known, readers, writer, serverFd, ready,
                   descs, client, calls, faults>>

ShutdownEnds ==
    /\ client.pc = "killing" /\ \A w \in Workers : At(w) \in {"exited", "none"}
    /\ serverFd' = FALSE /\ writer' = FALSE
    /\ known' = [s \in Slots |-> None]
    /\ client' = [client EXCEPT !.pc = "gone"]
    /\ descs' = 0
    /\ UNCHANGED <<mem, mLocObjTab, refs, worker, readers, ready, calls, faults>>

(* Not every thread could be created: the constructor shuts down.          *)
ThreadCreateFails(created) ==
    /\ client.pc = "start" /\ Fault
    /\ serverFd' = TRUE
    /\ worker' = [w \in Workers |-> Idle(IF w \in created THEN "starting"
                                         ELSE "none")]
    /\ client' = [client EXCEPT !.pc = "clearing"]
    /\ UNCHANGED <<mem, mLocObjTab, refs, known, readers, writer, ready, descs, calls>>

(* A thread without memory for its request buffer returns at once.         *)
WorkerHasNoBuffer(w) ==
    /\ At(w) = "starting" /\ Fault
    /\ worker' = [worker EXCEPT ![w] = Idle("dead")]
    /\ UNCHANGED <<mem, mLocObjTab, refs, known, readers, writer, serverFd, ready,
                   descs, client, calls>>
---------------------------------------------------------------------------
Init ==
    /\ mLocObjTab = [s \in Slots |-> None]
    /\ refs = [cio |-> 0, cb |-> 1]
    /\ known = [s \in Slots |-> None]
    /\ memRegions = {} /\ memKnown = {} /\ mems = 0
    /\ worker = [w \in Workers |-> Idle("none")]
    /\ readers = {} /\ writer = FALSE /\ serverFd = FALSE
    /\ ready = 0 /\ descs = 0 /\ calls = 0 /\ faults = 0
    /\ client = [pc |-> "start", op |-> None, tries |-> 0]

WorkerStep(w) ==
    \/ WorkerStarts(w) \/ clearLocalObj(w) \/ clearLocalMemObj(w) \/ ReleaseOI(w)
    \/ getLocalObj(w, FALSE) \/ marshalResponseOut(w, <<>>)
    \/ minkcbserver_signal_handler(w)
ClientStep ==
    \/ WaitTillAcceptThreadsAreCreated \/ ShutdownClears("released")
    \/ ShutdownEnds \/ \E r \in {"OK", "object", "INVALID"} : marshalOut(r)

Next ==
    \/ MinkCBContext_new \/ ServerRequestFails
    \/ \E created \in SUBSET Workers : created # Workers /\ ThreadCreateFails(created)
    \/ RootEnvFails \/ TZCom_getClientEnvObject \/ TZCom_getClientEnvObjectWithCreds
    \/ SelfCredsFail \/ HandleFails \/ invoke_over_ioctl \/ Retry
    \/ MinkDescriptor_delete \/ MinkDescriptor_shutdownCBService
    \/ ClientStep \/ ShutdownLocks
    \/ \E w \in Workers :
          \/ WorkerStep(w) \/ WorkerHasNoBuffer(w) \/ MarshalRequestInFails(w)
          \/ getLocalObj(w, TRUE) \/ \E oo \in Returned : marshalResponseOut(w, oo)
          \/ \E m \in 1..MaxMems : AcceptReleaseMem(w, m)
          \/ \E s \in Slots : AcceptInvoke(w, s) \/ AcceptRelease(w, s)
          \/ \E e \in {"EAGAIN", "ESHUTDOWN", "EIO"} : AcceptFails(w, e)

Spec == Init /\ [][Next]_vars

(* Threads run, callbacks return and QTEE answers.  A shutdown that waits  *)
(* for the lock gets it when it is free again and again.                   *)
Fairness ==
    /\ \A w \in Workers : WF_vars(WorkerStep(w))
    /\ WF_vars(ClientStep) /\ SF_vars(ShutdownLocks)
FairSpec == Spec /\ Fairness

---------------------------------------------------------------------------
TypeOK ==
    /\ mLocObjTab \in [Slots -> Objs \cup {None}]
    /\ refs \in [Objs -> Nat]
    /\ readers \subseteq Workers /\ descs \in 0..2
    /\ memKnown \cup memRegions \subseteq 1..mems
    /\ writer => readers = {}

(* A handle QTEE holds names the object it was given for, until the        *)
(* context shuts down: retries, late releases and callbacks that run       *)
(* meanwhile never reuse a slot that is still in use.  A memory object QTEE*)
(* holds is listed, so that its descriptor stays open.                     *)
HandlesNameTheirObject ==
    /\ client.pc \notin {"clearing", "killing", "gone"} =>
          \A s \in Slots : known[s] # None => mLocObjTab[s] = known[s]
    /\ memKnown \subseteq memRegions

(* A local object lives as long as the client, the table or a callback in  *)
(* progress refers to it.                                                  *)
LocalObjectsAlive ==
    \A o \in Objs :
        refs[o] >= Cardinality({s \in Slots : mLocObjTab[s] = o})
                 + Cardinality({w \in Workers : worker[w].obj = o})

(* Unless callbacks overlap without end (the lock prefers readers), a      *)
(* shutdown comes to its end: no accept thread keeps the lock, is missed   *)
(* by its signal or is waited for twice.                                   *)
ShutdownReturns ==
    []<>(readers = {}) => (client.pc = "clearing" ~> client.pc = "gone")

---------------------------------------------------------------------------
(* Why this holds with any number of accept threads, slots, calls, retries *)
(* and failures: the invariant of the two properties, and its proof.       *)
WorkerPcs == {"none", "starting", "accept", "request", "release", "releaseMem", "invoking",
              "returning", "stuck", "waitKill", "dead", "exited"}
ClientPcs == {"start", "failed", "spawned", "root", "inCall", "env", "released", "clearing",
              "killing", "gone"}
Ops == {"registerAsClient", "registerWithCredentials", "registerLegacy", "invoke"}
WorkerStates == [pc : WorkerPcs, slot : 0..MaxSlots, mem : Nat, obj : Objs \cup {None}, oi : BOOLEAN]
ClientStates == [pc : ClientPcs, op : Ops \cup {None}, tries : Nat]

(* The types, and what each step finds in the record of its thread.        *)
Typed ==
    /\ mLocObjTab \in [Slots -> Objs \cup {None}] /\ known \in [Slots -> Objs \cup {None}]
    /\ refs \in [Objs -> Int]
    /\ worker \in [Workers -> WorkerStates]
    /\ client \in ClientStates
    /\ mems \in Nat
    /\ \A w \in Workers :
          /\ At(w) \in {"request", "release"} => worker[w].slot \in Slots
          /\ At(w) \in {"invoking", "returning"} => worker[w].obj \in Objs
    /\ client.pc = "inCall" => client.op \in Ops

Open == client.pc \notin {"clearing", "killing", "gone"}

(* A slot whose release is being handled is still taken, QTEE has no       *)
(* handle to it, and no other thread handles a release of it.              *)
Handles ==
    Open =>
      /\ \A s \in Slots : known[s] # None => mLocObjTab[s] = known[s]
      /\ \A w \in Workers : At(w) = "release" =>
            known[worker[w].slot] = None /\ mLocObjTab[worker[w].slot] # None
      /\ \A v, w \in Workers :
            At(v) = "release" /\ At(w) = "release" /\ worker[v].slot = worker[w].slot => v = w

(* A memory object is listed as long as QTEE holds it; one that is being   *)
(* released is no longer held.                                             *)
Memory ==
    /\ memKnown \subseteq memRegions /\ memKnown \subseteq 1..mems
    /\ \A w \in Workers : At(w) = "releaseMem" => worker[w].mem \in (1..mems) \ memKnown

(* References: one for each slot, one for each callback in progress, and   *)
(* that of a registration to the credentials object it made.               *)
Registers(o) ==
    o = "cio" /\ client.pc = "inCall" /\ client.op \in {"registerAsClient", "registerLegacy"}
SlotsOf(o) == {s \in Slots : mLocObjTab[s] = o}
CallsOf(o) == {w \in Workers : worker[w].obj = o}
Counted ==
    \A o \in Objs :
        refs[o] >= Cardinality(SlotsOf(o)) + Cardinality(CallsOf(o)) + (IF Registers(o) THEN 1 ELSE 0)

TZInv == Typed /\ Handles /\ Memory /\ Counted

Bounded == IsFiniteSet(Workers) /\ MaxSlots \in Nat

(* The step of a thread that leaves the others as they are.                *)
Moves(w, p, s, m, o) ==
    /\ worker' \in [Workers -> WorkerStates]
    /\ At(w)' = p /\ worker'[w].slot = s /\ worker'[w].mem = m /\ worker'[w].obj = o
    /\ \A v \in Workers \ {w} : worker'[v] = worker[v]

(* The least of some natural numbers is one of them.                       *)
LEMMA MinIsMember ==
    ASSUME NEW S \in SUBSET Nat, S # {}
    PROVE  Min(S) \in S
<1> DEFINE R == {p \in Nat \X Nat : p[1] < p[2]}
<1>1. IsWellFoundedOn(R, Nat)
  BY NatLessThanWellFounded, Zenon DEF OpToRel
<1>2. PICK x \in S : \A y \in S : ~(<<y, x>> \in R)
  <2> HIDE DEF R
  <2> QED BY <1>1, WFMin
<1>3. ASSUME NEW y \in S PROVE x <= y
  <2>1. ~(<<y, x>> \in R)
    BY <1>2, Zenon
  <2>2. <<y, x>> \in Nat \X Nat /\ <<y, x>>[1] = y /\ <<y, x>>[2] = x
    BY Zenon
  <2>3. ~(y < x)
    BY <2>1, <2>2, Zenon
  <2> QED
    BY <2>3
<1> QED
  BY <1>3, Zenon DEF Min

(* A thread in the call of a callback stays with its slot.                 *)
LEMMA InCallMoves ==
    ASSUME Typed, NEW w \in Workers, NEW p \in WorkerPcs, NEW x \in Objs \cup {None}, NEW q \in BOOLEAN,
           worker' = [worker EXCEPT ![w] = InCall(w, p, x, q)]
    PROVE  Moves(w, p, worker[w].slot, worker[w].mem, x)
<1>1. InCall(w, p, x, q) \in WorkerStates
  BY Zenon DEF Typed, InCall, WorkerStates
<1> QED
  BY <1>1, Zenon DEF Moves, Typed, At, InCall

(* A thread that waits refers to nothing.                                  *)
LEMMA IdleMoves ==
    ASSUME Typed, NEW w \in Workers, NEW p \in WorkerPcs, MaxSlots \in Nat,
           worker' = [worker EXCEPT ![w] = Idle(p)]
    PROVE  Moves(w, p, 0, 0, None)
<1>1. Idle(p) \in WorkerStates
  BY DEF Idle, WorkerStates
<1> QED
  BY <1>1, Zenon DEF Moves, Typed, At, Idle

(* A request is taken, unless the shutdown has the lock.                   *)
LEMMA TakenMoves ==
    ASSUME Typed, NEW w \in Workers, NEW p \in WorkerPcs, MaxSlots \in Nat,
           NEW s \in 0..MaxSlots, NEW m \in Nat, Taken(w, s, m, p)
    PROVE  Moves(w, "waitKill", 0, 0, None) \/ Moves(w, p, s, m, None)
<1>1. CASE writer
  BY <1>1, IdleMoves, Zenon DEF Taken, WorkerPcs
<1>2. CASE ~writer
  <2>1. worker' = [worker EXCEPT ![w] = [pc |-> p, slot |-> s, mem |-> m, obj |-> None, oi |-> FALSE]]
    BY <1>2, Zenon DEF Taken, Idle
  <2>2. [pc |-> p, slot |-> s, mem |-> m, obj |-> None, oi |-> FALSE] \in WorkerStates
    BY Zenon DEF WorkerStates
  <2> QED
    BY <2>1, <2>2, Zenon DEF Moves, Typed, At
<1> QED
  BY <1>1, <1>2, Zenon

(* After its response a thread accepts again.                              *)
LEMMA RespondsMoves ==
    ASSUME Typed, NEW w \in Workers, MaxSlots \in Nat, Responds(w)
    PROVE  Moves(w, "accept", 0, 0, None)
<1>1. "accept" \in WorkerPcs /\ worker' = [worker EXCEPT ![w] = Idle("accept")]
  BY Zenon DEF Responds, WorkerPcs
<1> QED
  BY <1>1, IdleMoves, Zenon

(* What is counted is finite.                                              *)
LEMMA Counts ==
    ASSUME Bounded, Typed, NEW o \in Objs
    PROVE  /\ IsFiniteSet(SlotsOf(o)) /\ Cardinality(SlotsOf(o)) \in Nat
           /\ IsFiniteSet(CallsOf(o)) /\ Cardinality(CallsOf(o)) \in Nat
<1>1. IsFiniteSet(Slots)
  BY FS_Interval DEF Slots, Bounded
<1>2. SlotsOf(o) \subseteq Slots /\ CallsOf(o) \subseteq Workers
  BY Zenon DEF SlotsOf, CallsOf
<1> QED
  BY <1>1, <1>2, FS_Subset, FS_CardinalityType, Zenon DEF Bounded

(* What one thread's step does to the calls in progress.                   *)
LEMMA CallsMove ==
    ASSUME Bounded, Typed, NEW w \in Workers, NEW p, NEW s, NEW m, NEW x, Moves(w, p, s, m, x),
           NEW o \in Objs
    PROVE  /\ Cardinality(CallsOf(o)') \in Nat
           /\ x # o => Cardinality(CallsOf(o)') <= Cardinality(CallsOf(o))
           /\ x # o /\ worker[w].obj = o => Cardinality(CallsOf(o)') = Cardinality(CallsOf(o)) - 1
           /\ x = o => Cardinality(CallsOf(o)') <= Cardinality(CallsOf(o)) + 1
           /\ x = o /\ worker[w].obj = o => Cardinality(CallsOf(o)') = Cardinality(CallsOf(o))
<1> DEFINE C == CallsOf(o)  D == CallsOf(o)'
<1>1. IsFiniteSet(C) /\ Cardinality(C) \in Nat
  BY Counts, Zenon
<1>2. \A v \in Workers : v # w => (v \in D <=> v \in C)
  BY Zenon DEF Moves, CallsOf
<1>3. (w \in D <=> x = o) /\ (w \in C <=> worker[w].obj = o) /\ C \subseteq Workers /\ D \subseteq Workers
  BY Zenon DEF Moves, CallsOf
<1> HIDE DEF C, D
<1>4. CASE x # o
  <2>1. D = C \ {w}
    BY <1>2, <1>3, <1>4, Zenon
  <2>2. /\ w \in C => Cardinality(D) = Cardinality(C) - 1
        /\ w \notin C => D = C
    <3>1. w \in C => Cardinality(C \ {w}) = Cardinality(C) - 1
      BY <1>1, FS_RemoveElement, Zenon
    <3>2. w \notin C => C \ {w} = C
      BY Zenon
    <3> QED
      BY <2>1, <3>1, <3>2, Zenon
  <2>3. IsFiniteSet(D)
    BY <1>1, <2>1, FS_RemoveElement, Zenon
  <2>4. Cardinality(D) \in Nat
    BY <2>3, FS_CardinalityType, Zenon
  <2>5. Cardinality(D) <= Cardinality(C)
    BY <1>1, <2>2, <2>4
  <2> QED
    BY <1>3, <1>4, <2>2, <2>4, <2>5, Zenon DEF C, D
<1>5. CASE x = o
  <2>1. D = C \cup {w}
    BY <1>2, <1>3, <1>5, Zenon
  <2>2. w \in C => D = C
    BY <2>1, Zenon
  <2>3. w \notin C => Cardinality(D) = Cardinality(C) + 1
    BY <1>1, <2>1, FS_AddElement, Zenon
  <2>4. Cardinality(D) \in Nat /\ Cardinality(D) <= Cardinality(C) + 1
    BY <1>1, <2>2, <2>3
  <2> QED
    BY <1>3, <1>5, <2>2, <2>4, Zenon DEF C, D
<1> QED
  BY <1>4, <1>5, Zenon

(* What taking or clearing a slot does to the references of the table.     *)
LEMMA SlotTaken ==
    ASSUME Bounded, Typed, NEW s \in Slots, NEW x \in Objs, mLocObjTab[s] = None,
           mLocObjTab' = [mLocObjTab EXCEPT ![s] = x], NEW o \in Objs
    PROVE  /\ o = x => Cardinality(SlotsOf(o)') = Cardinality(SlotsOf(o)) + 1
           /\ o # x => Cardinality(SlotsOf(o)') = Cardinality(SlotsOf(o))
<1> DEFINE C == SlotsOf(o)  D == SlotsOf(o)'
<1>1. IsFiniteSet(C) /\ Cardinality(C) \in Nat
  BY Counts, Zenon
<1>2. s \notin C
  BY Zenon DEF SlotsOf, Objs, None
<1>3. o = x => D = C \cup {s}
  BY Zenon DEF Typed, SlotsOf
<1>4. o # x => D = C
  BY <1>2, Zenon DEF Typed, SlotsOf
<1> HIDE DEF C, D
<1> QED
  BY <1>1, <1>2, <1>3, <1>4, FS_AddElement, Zenon DEF C, D

(* ... and clearing one.                                                   *)
LEMMA SlotCleared ==
    ASSUME Bounded, Typed, NEW s \in Slots,
           mLocObjTab' = [mLocObjTab EXCEPT ![s] = None], NEW o \in Objs
    PROVE  /\ mLocObjTab[s] = o => Cardinality(SlotsOf(o)') = Cardinality(SlotsOf(o)) - 1
           /\ mLocObjTab[s] # o => Cardinality(SlotsOf(o)') = Cardinality(SlotsOf(o))
<1> DEFINE C == SlotsOf(o)  D == SlotsOf(o)'
<1>1. IsFiniteSet(C) /\ Cardinality(C) \in Nat
  BY Counts, Zenon
<1>2. D = C \ {s} /\ (s \in C <=> mLocObjTab[s] = o)
  BY Zenon DEF Typed, SlotsOf, Objs, None
<1>3. s \notin C => D = C
  BY <1>2, Zenon
<1> HIDE DEF C, D
<1> QED
  BY <1>1, <1>2, <1>3, FS_RemoveElement, Zenon DEF C, D

(* The slot that getLocObjHandle finds is empty.                           *)
LEMMA FirstEmpty ==
    ASSUME MaxSlots \in Nat, EmptySlots # {}
    PROVE  Min(EmptySlots) \in Slots /\ mLocObjTab[Min(EmptySlots)] = None
<1>1. EmptySlots \in SUBSET Nat
  BY DEF EmptySlots, Slots
<1> QED
  BY <1>1, MinIsMember, Zenon DEF EmptySlots

(* The handle it makes was not in use.                                     *)
LEMMA HandleIsNew ==
    ASSUME MaxSlots \in Nat, NEW o, NEW s, getLocObjHandle(o, s)
    PROVE  /\ s \in Slots /\ mLocObjTab[s] = None
           /\ mLocObjTab' = [mLocObjTab EXCEPT ![s] = o] /\ known' = [known EXCEPT ![s] = o]
BY FirstEmpty, Zenon DEF getLocObjHandle

(* A thread's step keeps the types.                                        *)
LEMMA TypedMove ==
    ASSUME Typed, NEW w \in Workers, NEW p, NEW s, NEW m, NEW o, Moves(w, p, s, m, o),
           p \in {"request", "release"} => s \in Slots, p \in {"invoking", "returning"} => o \in Objs,
           mLocObjTab' \in [Slots -> Objs \cup {None}], known' \in [Slots -> Objs \cup {None}],
           refs' \in [Objs -> Int], mems' \in Nat, UNCHANGED client
    PROVE  Typed'
BY Zenon DEF Typed, Moves, At

(* Nothing new is being released and no slot changes hands.                *)
LEMMA HandlesKept ==
    ASSUME Typed, Handles, NEW w \in Workers, NEW p, NEW s, NEW m, NEW o, Moves(w, p, s, m, o),
           p # "release", UNCHANGED <<mLocObjTab, client>>,
           \A i \in Slots : known'[i] \in {known[i], None}
    PROVE  Handles'
BY DEF Typed, Handles, Moves, At, Open

(* No memory object leaves the list.                                       *)
LEMMA MemoryKept ==
    ASSUME Typed, Memory, NEW w \in Workers, NEW p, NEW s, NEW m, NEW o, Moves(w, p, s, m, o),
           p # "releaseMem", UNCHANGED <<memRegions, mems>>, memKnown' \subseteq memKnown
    PROVE  Memory'
BY Zenon DEF Typed, Memory, Moves, At

(* A callback may end, no reference goes.                                  *)
LEMMA CountedKept ==
    ASSUME Bounded, Typed, Counted, NEW w \in Workers, NEW p, NEW s, NEW m, Moves(w, p, s, m, None),
           UNCHANGED <<mLocObjTab, client>>, refs' \in [Objs -> Int], \A o \in Objs : refs'[o] >= refs[o]
    PROVE  Counted'
<1> SUFFICES ASSUME NEW o \in Objs
             PROVE  refs'[o] >= Cardinality(SlotsOf(o)') + Cardinality(CallsOf(o)')
                                + (IF Registers(o) THEN 1 ELSE 0)'
  BY Zenon DEF Counted
<1>1. SlotsOf(o)' = SlotsOf(o) /\ Registers(o)' = Registers(o)
  BY Zenon DEF SlotsOf, Registers
<1>2. None # o
  BY Zenon DEF None, Objs
<1>3. Cardinality(CallsOf(o)') <= Cardinality(CallsOf(o)) /\ Cardinality(CallsOf(o)') \in Nat
  BY <1>2, CallsMove
<1>4. refs[o] \in Int /\ refs'[o] \in Int /\ refs'[o] >= refs[o]
  BY Zenon DEF Typed
<1>5. refs[o] >= Cardinality(SlotsOf(o)) + Cardinality(CallsOf(o)) + (IF Registers(o) THEN 1 ELSE 0)
  BY Zenon DEF Counted
<1> QED
  BY <1>1, <1>3, <1>4, <1>5, Counts

(* A thread that goes back to wait, parks or exits.                        *)
LEMMA RestKeeps ==
    ASSUME Bounded, TZInv, NEW w \in Workers, NEW p \in {"accept", "waitKill", "exited", "dead"},
           Moves(w, p, 0, 0, None), UNCHANGED <<mLocObjTab, client, memRegions, mems>>,
           refs' \in [Objs -> Int], \A o \in Objs : refs'[o] >= refs[o],
           memKnown' \subseteq memKnown, known' \in [Slots -> Objs \cup {None}],
           \A i \in Slots : known'[i] \in {known[i], None}
    PROVE  TZInv'
<1>1. Typed'
  BY TypedMove, Zenon DEF TZInv, Typed
<1>2. Handles'
  BY HandlesKept, Zenon DEF TZInv
<1>3. Memory'
  BY MemoryKept, Zenon DEF TZInv
<1>4. Counted'
  BY CountedKept, Zenon DEF TZInv
<1> QED
  BY <1>1, <1>2, <1>3, <1>4, Zenon DEF TZInv

(* Threads that start, fail, are killed or find nothing to accept.         *)
LEMMA QuietKeeps ==
    ASSUME Bounded, TZInv, NEW w \in Workers,
           \/ WorkerStarts(w) \/ WorkerHasNoBuffer(w) \/ minkcbserver_signal_handler(w)
           \/ \E e \in {"EAGAIN", "ESHUTDOWN", "EIO"} : AcceptFails(w, e)
    PROVE  TZInv'
<1>1. CASE UNCHANGED worker
  <2>1. UNCHANGED <<mLocObjTab, client, memRegions, mems, memKnown, known, refs>>
    BY Zenon DEF WorkerStarts, WorkerHasNoBuffer, minkcbserver_signal_handler, AcceptFails, mem
  <2>2. Typed' /\ Memory'
    BY <1>1, <2>1, Zenon DEF TZInv, Typed, Memory, At
  <2>3. Handles'
    BY <1>1, <2>1, Zenon DEF TZInv, Handles, Open, At
  <2>4. Counted'
    BY <1>1, <2>1, Zenon DEF TZInv, Counted, SlotsOf, CallsOf, Registers
  <2> QED
    BY <2>2, <2>3, <2>4, Zenon DEF TZInv
<1>2. CASE \E p \in {"accept", "waitKill", "exited", "dead"} : worker' = [worker EXCEPT ![w] = Idle(p)]
  <2>1. PICK p \in {"accept", "waitKill", "exited", "dead"} : worker' = [worker EXCEPT ![w] = Idle(p)]
    BY <1>2, Zenon
  <2>2. Moves(w, p, 0, 0, None)
    <3>1. Typed /\ p \in WorkerPcs /\ MaxSlots \in Nat
      BY Zenon DEF TZInv, Bounded, WorkerPcs
    <3> QED
      BY <2>1, <3>1, IdleMoves, Zenon
  <2>3. UNCHANGED <<mLocObjTab, client, memRegions, mems, memKnown, known, refs>>
    BY Zenon DEF WorkerStarts, WorkerHasNoBuffer, minkcbserver_signal_handler, AcceptFails, mem
  <2>4. /\ refs' \in [Objs -> Int] /\ \A o \in Objs : refs'[o] >= refs[o]
        /\ known' \in [Slots -> Objs \cup {None}] /\ \A i \in Slots : known'[i] \in {known[i], None}
    BY <2>3 DEF TZInv, Typed
  <2> QED
    BY <2>2, <2>3, <2>4, RestKeeps, Zenon
<1> QED
  BY <1>1, <1>2, Zenon DEF WorkerStarts, WorkerHasNoBuffer, minkcbserver_signal_handler, AcceptFails

(* QTEE calls a handle or drops it.                                        *)
LEMMA AcceptKeeps ==
    ASSUME Bounded, TZInv, NEW w \in Workers, NEW s \in Slots, AcceptInvoke(w, s) \/ AcceptRelease(w, s)
    PROVE  TZInv'
<1> USE DEF TZInv
<1>1. /\ UNCHANGED <<mLocObjTab, client, memRegions, mems, memKnown, refs>>
      /\ known' \in [Slots -> Objs \cup {None}] /\ \A i \in Slots : known'[i] \in {known[i], None}
      /\ refs' \in [Objs -> Int] /\ \A o \in Objs : refs'[o] >= refs[o]
  BY DEF AcceptInvoke, AcceptRelease, Typed, mem
<1>2. s \in 0..MaxSlots /\ MaxSlots \in Nat /\ {"request", "release"} \subseteq WorkerPcs
  BY DEF Slots, Bounded, WorkerPcs
<1>3. CASE Moves(w, "waitKill", 0, 0, None)
  BY <1>1, <1>3, RestKeeps, Zenon
<1>4. CASE Moves(w, "request", s, 0, None)
  <2>1. Typed'
    BY <1>1, <1>4, TypedMove, Zenon DEF Typed
  <2>2. Handles'
    BY <1>1, <1>4, HandlesKept, Zenon
  <2>3. Memory' /\ Counted'
    BY <1>1, <1>4, MemoryKept, CountedKept, Zenon
  <2> QED
    BY <2>1, <2>2, <2>3, Zenon
<1>5. CASE AcceptRelease(w, s) /\ Moves(w, "release", s, 0, None)
  <2>1. Typed'
    BY <1>1, <1>5, TypedMove, Zenon DEF Typed
  <2>2. Handles'
    <3>1. /\ known[s] # None /\ \A v \in Workers : worker[v].slot # s
          /\ known' = [known EXCEPT ![s] = None]
      BY <1>5, Zenon DEF AcceptRelease
    <3>2. At(w)' = "release" /\ worker'[w].slot = s /\ \A v \in Workers \ {w} : worker'[v] = worker[v]
      BY <1>5, Zenon DEF Moves
    <3>3. Open' = Open
      BY <1>1, Zenon DEF Open
    <3> QED
      BY <1>1, <3>1, <3>2, <3>3 DEF Handles, Typed, At
  <2>3. Memory' /\ Counted'
    BY <1>1, <1>5, MemoryKept, CountedKept, Zenon
  <2> QED
    BY <2>1, <2>2, <2>3, Zenon
<1>6. CASE AcceptInvoke(w, s)
  BY <1>2, <1>3, <1>4, <1>6, TakenMoves, Zenon DEF AcceptInvoke
<1>7. CASE AcceptRelease(w, s)
  BY <1>2, <1>3, <1>5, <1>7, TakenMoves, Zenon DEF AcceptRelease
<1> QED
  BY <1>6, <1>7, Zenon

(* QTEE drops a memory object.                                             *)
LEMMA AcceptReleaseMemKeeps ==
    ASSUME Bounded, TZInv, NEW w \in Workers, NEW m \in 1..MaxMems, AcceptReleaseMem(w, m)
    PROVE  TZInv'
<1> USE DEF TZInv
<1>1. /\ UNCHANGED <<mLocObjTab, client, memRegions, mems, known, refs>>
      /\ known' \in [Slots -> Objs \cup {None}] /\ \A i \in Slots : known'[i] \in {known[i], None}
      /\ refs' \in [Objs -> Int] /\ \A o \in Objs : refs'[o] >= refs[o]
      /\ m \in memKnown /\ memKnown' = memKnown \ {m}
  BY DEF AcceptReleaseMem, Typed
<1>2. m \in Nat /\ 0 \in 0..MaxSlots /\ MaxSlots \in Nat /\ "releaseMem" \in WorkerPcs
  BY <1>1 DEF Bounded, WorkerPcs, Memory, Typed
<1>3. CASE Moves(w, "waitKill", 0, 0, None)
  BY <1>1, <1>3, RestKeeps, Zenon
<1>4. CASE Moves(w, "releaseMem", 0, m, None)
  <2>1. Typed'
    BY <1>1, <1>4, TypedMove, Zenon DEF Typed
  <2>2. Handles' /\ Counted'
    BY <1>1, <1>4, HandlesKept, CountedKept, Zenon
  <2>3. Memory'
    BY <1>1, <1>4, Zenon DEF Memory, Moves, At
  <2> QED
    BY <2>1, <2>2, <2>3, Zenon
<1> QED
  BY <1>2, <1>3, <1>4, TakenMoves, Zenon DEF AcceptReleaseMem

(* The release is done: slot and reference go together.                    *)
LEMMA clearLocalObjKeeps ==
    ASSUME Bounded, TZInv, NEW w \in Workers, clearLocalObj(w)
    PROVE  TZInv'
<1> USE DEF TZInv
<1> DEFINE s == worker[w].slot
           x == mLocObjTab[s]
<1>1. /\ s \in Slots /\ At(w) = "release" /\ x \in Objs \cup {None}
      /\ mLocObjTab' = [mLocObjTab EXCEPT ![s] = None]
      /\ refs' = IF x = None THEN refs ELSE [refs EXCEPT ![x] = @ - 1]
      /\ UNCHANGED <<client, memRegions, mems, memKnown, known>>
  BY Zenon DEF clearLocalObj, Typed, mem
<1>2. Moves(w, "accept", 0, 0, None)
  BY RespondsMoves, Zenon DEF clearLocalObj, Bounded
<1>3. Typed'
  <2>1. mLocObjTab' \in [Slots -> Objs \cup {None}] /\ refs' \in [Objs -> Int] /\ mems' \in Nat
        /\ known' \in [Slots -> Objs \cup {None}]
    BY <1>1 DEF Typed
  <2> QED
    BY <1>1, <1>2, <2>1, TypedMove, Zenon
<1>4. Handles'
  <2> SUFFICES ASSUME Open PROVE Handles'
    BY <1>1, Zenon DEF Handles, Open
  <2>1. known[s] = None
    BY <1>1, Zenon DEF Handles
  <2>2. \A v \in Workers : At(v)' = "release" => v # w /\ worker'[v] = worker[v] /\ worker[v].slot # s
    BY <1>1, <1>2, Zenon DEF Handles, Moves, At
  <2>3. \A i \in Slots \ {s} : mLocObjTab'[i] = mLocObjTab[i]
    BY <1>1, Zenon DEF Typed
  <2>4. \A v \in Workers : At(v)' = "release" => worker[v].slot \in Slots /\ At(v) = "release"
    BY <2>2, Zenon DEF Typed, At
  <2> QED
    BY <1>1, <2>1, <2>2, <2>3, <2>4 DEF Handles, At
<1>5. Memory'
  BY <1>1, <1>2, MemoryKept, Zenon
<1>6. Counted'
  <2> SUFFICES ASSUME NEW o \in Objs
               PROVE  refs'[o] >= Cardinality(SlotsOf(o)') + Cardinality(CallsOf(o)')
                                  + (IF Registers(o) THEN 1 ELSE 0)'
    BY Zenon DEF Counted
  <2>1. Registers(o)' = Registers(o) /\ None # o
    BY <1>1, Zenon DEF Registers, None, Objs
  <2>2. Cardinality(CallsOf(o)') <= Cardinality(CallsOf(o)) /\ Cardinality(CallsOf(o)') \in Nat
    BY <1>2, <2>1, CallsMove
  <2>3. /\ x = o => Cardinality(SlotsOf(o)') = Cardinality(SlotsOf(o)) - 1
        /\ x # o => Cardinality(SlotsOf(o)') = Cardinality(SlotsOf(o))
    BY <1>1, SlotCleared, Zenon
  <2>4. refs[o] \in Int /\ refs'[o] = IF x = o THEN refs[o] - 1 ELSE refs[o]
    BY <1>1, <2>1, Zenon DEF Typed
  <2>5. refs[o] >= Cardinality(SlotsOf(o)) + Cardinality(CallsOf(o)) + (IF Registers(o) THEN 1 ELSE 0)
    BY Zenon DEF Counted
  <2> QED
    BY <2>1, <2>2, <2>3, <2>4, <2>5, Counts
<1> QED
  BY <1>3, <1>4, <1>5, <1>6, Zenon

(* The memory object leaves the list, which QTEE no longer holds.          *)
LEMMA clearLocalMemObjKeeps ==
    ASSUME Bounded, TZInv, NEW w \in Workers, clearLocalMemObj(w)
    PROVE  TZInv'
<1> USE DEF TZInv
<1>1. /\ UNCHANGED <<mLocObjTab, client, mems, known, refs, memKnown>>
      /\ known' \in [Slots -> Objs \cup {None}] /\ \A i \in Slots : known'[i] \in {known[i], None}
      /\ refs' \in [Objs -> Int] /\ \A o \in Objs : refs'[o] >= refs[o]
      /\ At(w) = "releaseMem" /\ memRegions' = memRegions \ {worker[w].mem}
  BY DEF clearLocalMemObj, Typed
<1>2. Moves(w, "accept", 0, 0, None)
  BY RespondsMoves, Zenon DEF clearLocalMemObj, Bounded
<1>3. Typed'
  BY <1>1, <1>2, TypedMove, Zenon DEF Typed
<1>4. Handles' /\ Counted'
  BY <1>1, <1>2, HandlesKept, CountedKept, Zenon
<1>5. Memory'
  BY <1>1, <1>2, Zenon DEF Memory, Moves, At
<1> QED
  BY <1>3, <1>4, <1>5, Zenon

(* A failed request leaves its target retained.                            *)
LEMMA MarshalRequestInFailsKeeps ==
    ASSUME Bounded, TZInv, NEW w \in Workers, MarshalRequestInFails(w)
    PROVE  TZInv'
<1> DEFINE x == mLocObjTab[worker[w].slot]
<1>1. /\ x \in Objs /\ refs' = [refs EXCEPT ![x] = @ + 1]
      /\ UNCHANGED <<mLocObjTab, client, memRegions, mems, memKnown, known>>
  BY Zenon DEF MarshalRequestInFails, TZInv, Typed, mem
<1>2. Moves(w, "accept", 0, 0, None)
  BY RespondsMoves, Zenon DEF MarshalRequestInFails, Bounded, TZInv
<1> HIDE DEF x
<1>3. /\ refs' \in [Objs -> Int] /\ \A o \in Objs : refs'[o] >= refs[o]
      /\ known' \in [Slots -> Objs \cup {None}] /\ \A i \in Slots : known'[i] \in {known[i], None}
  BY <1>1 DEF TZInv, Typed
<1> QED
  BY <1>1, <1>2, <1>3, RestKeeps, Zenon

(* The target of a callback is retained before it is called.               *)
LEMMA getLocalObjKeeps ==
    ASSUME Bounded, TZInv, NEW w \in Workers, NEW oi \in BOOLEAN, getLocalObj(w, oi)
    PROVE  TZInv'
<1> USE DEF TZInv
<1> DEFINE x == mLocObjTab[worker[w].slot]
<1>1. /\ x \in Objs \cup {None} /\ UNCHANGED <<mLocObjTab, client, memRegions, mems, memKnown, known>>
      /\ known' \in [Slots -> Objs \cup {None}] /\ \A i \in Slots : known'[i] \in {known[i], None}
  BY Zenon DEF getLocalObj, Typed, mem
<1>2. CASE x = None
  <2>1. Moves(w, "accept", 0, 0, None) /\ UNCHANGED refs
    BY <1>2, RespondsMoves, Zenon DEF getLocalObj, Bounded
  <2> QED
    BY <1>1, <2>1, RestKeeps DEF Typed
<1>3. CASE x # None
  <2>1. /\ x \in Objs /\ refs' = [refs EXCEPT ![x] = @ + 1]
        /\ worker' = [worker EXCEPT ![w] = InCall(w, "invoking", x, oi)]
    BY <1>1, <1>3, Zenon DEF getLocalObj
  <2>2. PICK i \in 0..MaxSlots, m \in Nat : worker[w].slot = i /\ worker[w].mem = m
    BY Zenon DEF Typed, WorkerStates
  <2> HIDE DEF x
  <2>3. Moves(w, "invoking", i, m, x)
    <3>1. "invoking" \in WorkerPcs /\ x \in Objs \cup {None} /\ Typed
      BY <2>1, Zenon DEF WorkerPcs
    <3> QED
      BY <2>1, <2>2, <3>1, InCallMoves, Zenon
  <2>4. Typed'
    BY <1>1, <2>1, <2>3, TypedMove DEF Typed
  <2>5. Handles' /\ Memory'
    BY <1>1, <2>3, HandlesKept, MemoryKept, Zenon
  <2>6. Counted'
    <3> SUFFICES ASSUME NEW o \in Objs
                 PROVE  refs'[o] >= Cardinality(SlotsOf(o)') + Cardinality(CallsOf(o)')
                                    + (IF Registers(o) THEN 1 ELSE 0)'
      BY Zenon DEF Counted
    <3>1. Registers(o)' = Registers(o) /\ SlotsOf(o)' = SlotsOf(o)
      BY <1>1, Zenon DEF Registers, SlotsOf
    <3>2. /\ Cardinality(CallsOf(o)') \in Nat
          /\ x # o => Cardinality(CallsOf(o)') <= Cardinality(CallsOf(o))
          /\ x = o => Cardinality(CallsOf(o)') <= Cardinality(CallsOf(o)) + 1
      BY <2>3, CallsMove
    <3>3. refs[o] \in Int /\ refs'[o] = IF x = o THEN refs[o] + 1 ELSE refs[o]
      BY <2>1, Zenon DEF Typed
    <3>4. refs[o] >= Cardinality(SlotsOf(o)) + Cardinality(CallsOf(o)) + (IF Registers(o) THEN 1 ELSE 0)
      BY Zenon DEF Counted
    <3> QED
      BY <3>1, <3>2, <3>3, <3>4, Counts
  <2> QED
    BY <2>4, <2>5, <2>6, Zenon
<1> QED
  BY <1>2, <1>3, Zenon

(* The arguments go, the target stays.                                     *)
LEMMA ReleaseOIKeeps ==
    ASSUME Bounded, TZInv, NEW w \in Workers, ReleaseOI(w)
    PROVE  TZInv'
<1> USE DEF TZInv
<1>1. /\ At(w) = "invoking" /\ UNCHANGED <<mLocObjTab, client, memRegions, mems, memKnown, known, refs>>
      /\ known' \in [Slots -> Objs \cup {None}] /\ \A i \in Slots : known'[i] \in {known[i], None}
  BY Zenon DEF ReleaseOI, Typed, mem
<1>2. PICK p \in {"stuck", "returning"} : worker' = [worker EXCEPT ![w] = InCall(w, p, worker[w].obj, FALSE)]
  BY Zenon DEF ReleaseOI
<1>3. PICK i \in 0..MaxSlots, m \in Nat, x \in Objs :
         worker[w].slot = i /\ worker[w].mem = m /\ worker[w].obj = x
  BY <1>1, Zenon DEF Typed, WorkerStates, At
<1>4. Moves(w, p, i, m, x)
  <2>1. p \in WorkerPcs /\ x \in Objs \cup {None} /\ Typed
    BY Zenon DEF WorkerPcs
  <2> QED
    BY <1>2, <1>3, <2>1, InCallMoves, Zenon
<1>5. Typed'
  BY <1>1, <1>4, TypedMove, Zenon DEF Typed
<1>6. Handles' /\ Memory'
  BY <1>1, <1>4, HandlesKept, MemoryKept, Zenon
<1>7. Counted'
  <2>1. \A o \in Objs : CallsOf(o)' = CallsOf(o) /\ SlotsOf(o)' = SlotsOf(o) /\ Registers(o)' = Registers(o)
    BY <1>1, <1>3, <1>4, Zenon DEF CallsOf, Moves, SlotsOf, Registers
  <2> QED
    BY <1>1, <2>1, Zenon DEF Counted
<1> QED
  BY <1>5, <1>6, <1>7, Zenon

(* A handle is made of a slot that was empty: nothing QTEE holds, and no   *)
(* release under way, is about that slot.                                  *)
LEMMA HandlesTaken ==
    ASSUME Typed, Handles, NEW s \in Slots, NEW x \in Objs, mLocObjTab[s] = None,
           mLocObjTab' = [mLocObjTab EXCEPT ![s] = x],
           known' = [known EXCEPT ![s] = x] \/ known' = known, Open' => Open,
           \A v \in Workers : At(v)' = "release" => worker'[v] = worker[v]
    PROVE  Handles'
<1> SUFFICES ASSUME Open', Open PROVE Handles'
  BY Zenon DEF Handles
<1>1. /\ \A i \in Slots \ {s} : mLocObjTab'[i] = mLocObjTab[i] /\ known'[i] = known[i]
      /\ mLocObjTab'[s] = x /\ known'[s] \in {x, known[s]} /\ x # None /\ known[s] = None
  BY Zenon DEF Typed, Objs, None, Handles
<1>2. \A v \in Workers : At(v)' = "release" =>
         /\ worker'[v] = worker[v] /\ At(v) = "release" /\ worker[v].slot \in Slots \ {s}
  BY Zenon DEF Typed, Handles, At
<1> QED
  BY <1>1, <1>2 DEF Handles

(* A response gives handles for what it returns and releases the target.   *)
LEMMA marshalResponseOutKeeps ==
    ASSUME Bounded, TZInv, NEW w \in Workers, NEW oo, marshalResponseOut(w, oo)
    PROVE  TZInv'
<1> USE DEF TZInv
<1> DEFINE x == worker[w].obj
           left == [refs EXCEPT ![x] = @ - 1]
<1>1. At(w) = "returning" /\ x \in Objs /\ UNCHANGED client
  BY Zenon DEF marshalResponseOut, Typed
<1>2. Moves(w, "accept", 0, 0, None)
  BY RespondsMoves, Zenon DEF marshalResponseOut, Bounded
<1>3. \/ /\ refs' \in {left, [left EXCEPT !["cb"] = @ + 1]}
         /\ UNCHANGED <<mLocObjTab, known>>
      \/ /\ refs' = [left EXCEPT !["cb"] = @ + 2]
         /\ \E s \in Slots : getLocObjHandle("cb", s)
  BY Zenon DEF marshalResponseOut
<1> HIDE DEF x
<1>4. left \in [Objs -> Int] /\ \A o \in Objs : left[o] = IF o = x THEN refs[o] - 1 ELSE refs[o]
  BY <1>1 DEF Typed
<1> HIDE DEF left
<1>5. refs' \in [Objs -> Int] /\ "cb" \in Objs
  BY <1>3, <1>4 DEF Objs
<1>6. Memory'
  <2>1. CASE UNCHANGED mem
    BY <1>2, <2>1, MemoryKept, Zenon DEF mem
  <2>2. CASE /\ mems' = mems + 1 /\ memRegions' = memRegions \cup {mems + 1}
             /\ memKnown' \in {memKnown, memKnown \cup {mems + 1}}
    <3>1. mems \in Nat
      BY Zenon DEF Typed
    <3>2. \A v \in Workers : At(v)' = "releaseMem" => worker'[v] = worker[v] /\ At(v) = "releaseMem"
      BY <1>2, Zenon DEF Moves, At
    <3> QED
      BY <2>2, <3>1, <3>2 DEF Memory
  <2> QED
    BY <2>1, <2>2, Zenon DEF marshalResponseOut, addMemObjToList
<1>7. mems' \in Nat
  BY DEF marshalResponseOut, addMemObjToList, mem, Typed
<1>8. \A o \in Objs : /\ Registers(o)' = Registers(o) /\ refs[o] \in Int
                      /\ Cardinality(CallsOf(o)') \in Nat
                      /\ Cardinality(CallsOf(o)') <= Cardinality(CallsOf(o))
                      /\ x = o => Cardinality(CallsOf(o)') = Cardinality(CallsOf(o)) - 1
  BY <1>1, <1>2, CallsMove DEF Registers, None, Objs, Typed, x
<1>9. \A o \in Objs :
         refs[o] >= Cardinality(SlotsOf(o)) + Cardinality(CallsOf(o)) + (IF Registers(o) THEN 1 ELSE 0)
  BY Zenon DEF Counted
<1>10. CASE refs' \in {left, [left EXCEPT !["cb"] = @ + 1]} /\ UNCHANGED <<mLocObjTab, known>>
  <2>1. Typed'
    BY <1>1, <1>2, <1>5, <1>7, <1>10, TypedMove, Zenon DEF Typed
  <2>2. Handles'
    BY <1>1, <1>2, <1>10, HandlesKept, Zenon
  <2>3. \A o \in Objs : refs'[o] >= left[o] /\ refs'[o] \in Int /\ left[o] \in Int
    BY <1>4, <1>5, <1>10
  <2>4. \A o \in Objs : SlotsOf(o)' = SlotsOf(o)
    BY <1>10, Zenon DEF SlotsOf
  <2>5. Counted'
    BY <1>4, <1>8, <1>9, <2>3, <2>4, Counts DEF Counted
  <2> QED
    BY <1>6, <2>1, <2>2, <2>5, Zenon
<1>11. CASE refs' = [left EXCEPT !["cb"] = @ + 2] /\ \E s \in Slots : getLocObjHandle("cb", s)
  <2>1. PICK s \in Slots : /\ mLocObjTab[s] = None
                           /\ mLocObjTab' = [mLocObjTab EXCEPT ![s] = "cb"]
                           /\ known' = [known EXCEPT ![s] = "cb"]
    BY <1>11, HandleIsNew, Zenon DEF Bounded
  <2>2. Typed'
    BY <1>1, <1>2, <1>5, <1>7, <2>1, TypedMove, Zenon DEF Typed
  <2>3. Handles'
    BY <1>1, <1>2, <1>5, <2>1, HandlesTaken, Zenon DEF Moves, Open
  <2>4. \A o \in Objs : refs'[o] = IF o = "cb" THEN left[o] + 2 ELSE left[o]
    BY <1>4, <1>11, Zenon
  <2>5. \A o \in Objs : /\ o = "cb" => Cardinality(SlotsOf(o)') = Cardinality(SlotsOf(o)) + 1
                        /\ o # "cb" => Cardinality(SlotsOf(o)') = Cardinality(SlotsOf(o))
    BY <1>5, <2>1, SlotTaken, Zenon
  <2>6. Counted'
    BY <1>4, <1>8, <1>9, <2>4, <2>5, Counts DEF Counted
  <2> QED
    BY <1>6, <2>2, <2>3, <2>6, Zenon
<1> QED
  BY <1>3, <1>10, <1>11, Zenon

(* Steps of the client alone.                                              *)
LEMMA ClientPcChanges ==
    ASSUME Typed, NEW p \in ClientPcs, client' = [client EXCEPT !.pc = p]
    PROVE  client' \in ClientStates /\ client'.pc = p /\ client'.op = client.op
BY Zenon DEF Typed, ClientStates

(* The types, when only the client and the table change.                   *)
LEMMA TypedClient ==
    ASSUME Typed, client' \in ClientStates, client'.pc = "inCall" => client'.op \in Ops, UNCHANGED worker,
           mLocObjTab' \in [Slots -> Objs \cup {None}], known' \in [Slots -> Objs \cup {None}],
           refs' \in [Objs -> Int], UNCHANGED mems
    PROVE  Typed'
BY Zenon DEF Typed, ClientStates, At

(* Steps that only change where the client is.                             *)
LEMMA WaitsKeep ==
    ASSUME Bounded, TZInv,
           \/ ServerRequestFails \/ RootEnvFails \/ WaitTillAcceptThreadsAreCreated \/ SelfCredsFail
           \/ MinkDescriptor_delete \/ ShutdownLocks
    PROVE  TZInv'
<1> USE DEF TZInv
<1>1. UNCHANGED <<mem, mLocObjTab, refs, known, worker>>
  BY Zenon DEF ServerRequestFails, RootEnvFails, WaitTillAcceptThreadsAreCreated, SelfCredsFail,
     MinkDescriptor_delete, ShutdownLocks
<1>2. PICK p \in {"failed", "released", "root", "env", "killing"} : client' = [client EXCEPT !.pc = p]
  BY Zenon DEF ServerRequestFails, RootEnvFails, WaitTillAcceptThreadsAreCreated, SelfCredsFail,
     MinkDescriptor_delete, ShutdownLocks
<1>3. client' \in ClientStates /\ client'.pc = p
  BY <1>2, ClientPcChanges, Zenon DEF ClientPcs
<1>4. Open' => Open
  <2>1. CASE ShutdownLocks
    BY <2>1, ClientPcChanges, Zenon DEF ShutdownLocks, Open, ClientPcs
  <2>2. CASE ~ShutdownLocks
    BY <2>2, Zenon DEF Open, ServerRequestFails, RootEnvFails, WaitTillAcceptThreadsAreCreated, SelfCredsFail,
       MinkDescriptor_delete
  <2> QED
    BY <2>1, <2>2, Zenon
<1>5. Typed'
  BY <1>1, <1>3, TypedClient, Zenon DEF Typed, mem
<1>6. Handles'
  BY <1>1, <1>4, Zenon DEF Handles, At
<1>7. Memory'
  BY <1>1, Zenon DEF Memory, mem, At
<1>8. \A o \in Objs : ~Registers(o)' /\ SlotsOf(o)' = SlotsOf(o) /\ CallsOf(o)' = CallsOf(o)
  BY <1>1, <1>3, Zenon DEF Registers, SlotsOf, CallsOf
<1>9. Counted'
  BY <1>1, <1>8, Counts DEF Counted, Typed
<1> QED
  BY <1>5, <1>6, <1>7, <1>9, Zenon

(* The accept threads are made; those that are not never run.              *)
LEMMA ThreadsStart ==
    ASSUME Bounded, TZInv,
           MinkCBContext_new \/ \E created \in SUBSET Workers : ThreadCreateFails(created)
    PROVE  TZInv'
<1> USE DEF TZInv
<1>1. UNCHANGED <<mem, mLocObjTab, refs, known>> /\ client.pc = "start"
  BY Zenon DEF MinkCBContext_new, ThreadCreateFails
<1>2. PICK p \in {"spawned", "clearing"} : client' = [client EXCEPT !.pc = p]
  BY Zenon DEF MinkCBContext_new, ThreadCreateFails
<1>3. client' \in ClientStates /\ client'.pc = p
  BY <1>2, ClientPcChanges, Zenon DEF ClientPcs
<1>4. /\ worker' \in [Workers -> WorkerStates]
      /\ \A w \in Workers : At(w)' \in {"starting", "none"} /\ worker'[w].obj = None
  <2>1. Idle("starting") \in WorkerStates /\ Idle("none") \in WorkerStates
    BY DEF Idle, WorkerStates, WorkerPcs, Bounded
  <2>2. \E created \in SUBSET Workers :
           worker' = [w \in Workers |-> IF w \in created THEN Idle("starting") ELSE Idle("none")]
    <3>1. CASE MinkCBContext_new
      <4>1. worker' = [w \in Workers |-> IF w \in Workers THEN Idle("starting") ELSE Idle("none")]
        BY <3>1, Zenon DEF MinkCBContext_new
      <4> QED
        BY <4>1, Zenon
    <3>2. ASSUME NEW created \in SUBSET Workers, ThreadCreateFails(created)
          PROVE  worker' = [w \in Workers |-> IF w \in created THEN Idle("starting") ELSE Idle("none")]
      BY <3>2, Zenon DEF ThreadCreateFails
    <3> QED
      BY <3>1, <3>2, Zenon
  <2>3. \A p1 \in {"starting", "none"} : Idle(p1).pc = p1 /\ Idle(p1).obj = None
    BY Zenon DEF Idle
  <2> QED
    BY <2>1, <2>2, <2>3, Zenon DEF At
<1>5. Typed'
  BY <1>1, <1>3, <1>4, Zenon DEF Typed, mem, ClientStates
<1>6. Handles'
  BY <1>1, <1>4, Zenon DEF Handles, Open
<1>7. Memory'
  BY <1>1, <1>4, Zenon DEF Memory, mem
<1>8. \A o \in Objs : ~Registers(o)' /\ SlotsOf(o)' = SlotsOf(o) /\ CallsOf(o)' = {}
  BY <1>1, <1>3, <1>4, Zenon DEF Registers, SlotsOf, CallsOf, Objs, None
<1>9. Counted'
  <2> SUFFICES ASSUME NEW o \in Objs
               PROVE  refs'[o] >= Cardinality(SlotsOf(o)') + Cardinality(CallsOf(o)')
                                  + (IF Registers(o) THEN 1 ELSE 0)'
    BY Zenon DEF Counted
  <2>1. Cardinality(CallsOf(o)') = 0 /\ SlotsOf(o)' = SlotsOf(o) /\ ~Registers(o)'
    BY <1>8, FS_EmptySet, Zenon
  <2>2. refs[o] >= Cardinality(SlotsOf(o)) + Cardinality(CallsOf(o)) + (IF Registers(o) THEN 1 ELSE 0)
    BY Zenon DEF Counted
  <2>3. refs'[o] = refs[o] /\ refs[o] \in Int
    BY <1>1, Zenon DEF Typed
  <2> QED
    BY <2>1, <2>2, <2>3, Counts
<1> QED
  BY <1>5, <1>6, <1>7, <1>9, Zenon

(* marshalIn: at most one object gets a handle, and is retained for it.    *)
LEMMA marshalInTakes ==
    ASSUME Bounded, Typed, NEW op \in Ops, marshalIn(op)
    PROVE  \/ op = "registerLegacy" /\ UNCHANGED <<mLocObjTab, known, refs>>
           \/ \E o \in Objs, s \in Slots, n \in {1, 2} :
                 /\ o = (IF op = "invoke" THEN "cb" ELSE "cio")
                 /\ n = (IF client.pc = "root" THEN 2 ELSE 1)
                 /\ mLocObjTab[s] = None /\ mLocObjTab' = [mLocObjTab EXCEPT ![s] = o]
                 /\ known' = [known EXCEPT ![s] = o] /\ refs' = [refs EXCEPT ![o] = @ + n]
<1>1. CASE op = "registerLegacy"
  BY <1>1, Zenon DEF marshalIn, Passed
<1>2. CASE op # "registerLegacy"
  <2>1. PICK o \in Objs : o = (IF op = "invoke" THEN "cb" ELSE "cio") /\ Passed(op) = {o}
    BY <1>2, Zenon DEF Passed, Ops, Objs
  <2>2. PICK s \in Slots :
           /\ getLocObjHandle(o, s)
           /\ refs' = [refs EXCEPT ![o] = @ + 1 + (IF client.pc = "root" THEN 1 ELSE 0)]
    BY <2>1, Zenon DEF marshalIn
  <2>3. PICK n \in {1, 2} : n = (IF client.pc = "root" THEN 2 ELSE 1)
    BY Zenon
  <2>4. refs[o] \in Int
    BY Zenon DEF Typed
  <2>5. refs[o] + 1 + (IF client.pc = "root" THEN 1 ELSE 0) = refs[o] + n
    BY <2>3, <2>4
  <2>6. refs' = [refs EXCEPT ![o] = @ + n]
    BY <2>2, <2>5, Zenon
  <2>7. /\ mLocObjTab[s] = None /\ mLocObjTab' = [mLocObjTab EXCEPT ![s] = o]
        /\ known' = [known EXCEPT ![s] = o]
    BY <2>2, HandleIsNew, Zenon DEF Bounded
  <2> QED
    BY <2>1, <2>3, <2>6, <2>7, Zenon
<1> QED
  BY <1>1, <1>2, Zenon

(* A client that hands out an object keeps every count: the table's        *)
(* reference, and the one a registration has to its credentials object.    *)
LEMMA TakeKeeps ==
    ASSUME Bounded, TZInv, NEW x \in Objs, NEW s \in Slots, NEW n \in {1, 2}, mLocObjTab[s] = None,
           mLocObjTab' = [mLocObjTab EXCEPT ![s] = x], refs' = [refs EXCEPT ![x] = @ + n],
           known' = [known EXCEPT ![s] = x] \/ known' = known, UNCHANGED <<mem, worker>>,
           Open, client' \in ClientStates, client'.pc = "inCall" => client'.op \in Ops,
           \A o \in Objs : Registers(o)' => Registers(o) \/ (o = x /\ n = 2)
    PROVE  TZInv'
<1> USE DEF TZInv
<1>1. refs' \in [Objs -> Int] /\ \A o \in Objs : refs'[o] = IF o = x THEN refs[o] + n ELSE refs[o]
  BY DEF Typed
<1>2. Typed'
  <2>1. mLocObjTab' \in [Slots -> Objs \cup {None}] /\ known' \in [Slots -> Objs \cup {None}]
    BY Zenon DEF Typed
  <2> QED
    BY <1>1, <2>1, TypedClient, Zenon DEF mem
<1>3. Handles'
  BY HandlesTaken, Zenon
<1>4. Memory'
  BY Zenon DEF Memory, mem, At
<1>5. Counted'
  <2> SUFFICES ASSUME NEW o \in Objs
               PROVE  refs'[o] >= Cardinality(SlotsOf(o)') + Cardinality(CallsOf(o)')
                                  + (IF Registers(o) THEN 1 ELSE 0)'
    BY Zenon DEF Counted
  <2>1. CallsOf(o)' = CallsOf(o) /\ refs[o] \in Int
    BY Zenon DEF CallsOf, Typed
  <2>2. refs[o] >= Cardinality(SlotsOf(o)) + Cardinality(CallsOf(o)) + (IF Registers(o) THEN 1 ELSE 0)
    BY Zenon DEF Counted
  <2>3. /\ o = x => Cardinality(SlotsOf(o)') = Cardinality(SlotsOf(o)) + 1
        /\ o # x => Cardinality(SlotsOf(o)') = Cardinality(SlotsOf(o))
    BY SlotTaken, Zenon
  <2> QED
    BY <1>1, <2>1, <2>2, <2>3, Counts
<1> QED
  BY <1>2, <1>3, <1>4, <1>5, Zenon

(* A call that fails after its first object leaves that in its slot.       *)
LEMMA HandleFailsKeeps ==
    ASSUME Bounded, TZInv, HandleFails
    PROVE  TZInv'
<1>1. PICK s \in Slots : mLocObjTab[s] = None /\ mLocObjTab' = [mLocObjTab EXCEPT ![s] = "cb"]
  BY FirstEmpty, Zenon DEF HandleFails, Bounded
<1>2. /\ refs' = [refs EXCEPT !["cb"] = @ + 1] /\ UNCHANGED <<known, mem, worker, client>>
      /\ Open /\ "cb" \in Objs
  BY Zenon DEF HandleFails, Open, Objs
<1>3. client' \in ClientStates /\ (client'.pc = "inCall" => client'.op \in Ops)
      /\ \A o \in Objs : Registers(o)' => Registers(o)
  BY <1>2, Zenon DEF TZInv, Typed, ClientStates, Registers
<1> QED
  BY <1>1, <1>2, <1>3, TakeKeeps, Zenon

(* A registration makes the credentials object and hands it out.           *)
LEMMA RegistersKeep ==
    ASSUME Bounded, TZInv, TZCom_getClientEnvObject \/ TZCom_getClientEnvObjectWithCreds
    PROVE  TZInv'
<1>1. PICK op \in {"registerAsClient", "registerWithCredentials"} :
         marshalIn(op) /\ client' = [pc |-> "inCall", op |-> op, tries |-> 0]
  BY Zenon DEF TZCom_getClientEnvObject, TZCom_getClientEnvObjectWithCreds
<1>2. client.pc = "root" /\ UNCHANGED <<mem, worker>>
  BY Zenon DEF TZCom_getClientEnvObject, TZCom_getClientEnvObjectWithCreds
<1>3. op \in Ops /\ op # "registerLegacy" /\ op # "invoke"
  BY Zenon DEF Ops
<1>4. PICK x \in Objs, s \in Slots, n \in {1, 2} :
         /\ x = "cio" /\ n = 2
         /\ mLocObjTab[s] = None /\ mLocObjTab' = [mLocObjTab EXCEPT ![s] = x]
         /\ known' = [known EXCEPT ![s] = x] /\ refs' = [refs EXCEPT ![x] = @ + n]
  BY <1>1, <1>2, <1>3, marshalInTakes DEF TZInv
<1>5. client' \in ClientStates /\ client'.op \in Ops /\ Open
  BY <1>1, <1>2, <1>3, Zenon DEF ClientStates, ClientPcs, Open
<1>6. \A o \in Objs : Registers(o)' => o = x /\ n = 2
  BY <1>4, Zenon DEF Registers
<1> QED
  BY <1>2, <1>4, <1>5, <1>6, TakeKeeps, Zenon

(* A call hands out the callback object.                                   *)
LEMMA InvokeKeeps ==
    ASSUME Bounded, TZInv, invoke_over_ioctl
    PROVE  TZInv'
<1>1. /\ client.pc = "env" /\ marshalIn("invoke") /\ UNCHANGED <<mem, worker>>
      /\ client' = [pc |-> "inCall", op |-> "invoke", tries |-> 0] /\ "invoke" \in Ops
  BY Zenon DEF invoke_over_ioctl, Ops
<1>2. PICK x \in Objs, s \in Slots, n \in {1, 2} :
         /\ mLocObjTab[s] = None /\ mLocObjTab' = [mLocObjTab EXCEPT ![s] = x]
         /\ known' = [known EXCEPT ![s] = x] /\ refs' = [refs EXCEPT ![x] = @ + n]
  BY <1>1, marshalInTakes, Zenon DEF TZInv
<1>3. client' \in ClientStates /\ client'.op \in Ops /\ Open /\ \A o \in Objs : ~Registers(o)'
  BY <1>1, Zenon DEF ClientStates, ClientPcs, Open, Registers
<1> QED
  BY <1>1, <1>2, <1>3, TakeKeeps, Zenon

(* Every attempt of a BUSY call hands its object out again.                *)
LEMMA RetryKeeps ==
    ASSUME Bounded, TZInv, Retry
    PROVE  TZInv'
<1> USE DEF TZInv
<1>1. /\ client.pc = "inCall" /\ client.op \in Ops /\ marshalIn(client.op) /\ UNCHANGED <<mem, worker>>
      /\ client' = [client EXCEPT !.tries = @ + 1]
  BY Zenon DEF Retry, Typed
<1>2. client' \in ClientStates /\ client'.pc = client.pc /\ client'.op = client.op
  BY <1>1 DEF ClientStates, Typed
<1>3. Open /\ Open' /\ \A o \in Objs : Registers(o)' = Registers(o)
  BY <1>1, <1>2, Zenon DEF Open, Registers
<1>4. CASE UNCHANGED <<mLocObjTab, known, refs>>
  <2>1. Typed'
    BY <1>1, <1>2, <1>4, TypedClient, Zenon DEF Typed, mem
  <2>2. Handles' /\ Memory'
    BY <1>1, <1>3, <1>4, Zenon DEF Handles, Memory, mem, At
  <2>3. Counted'
    BY <1>1, <1>3, <1>4, Zenon DEF Counted, SlotsOf, CallsOf
  <2> QED
    BY <2>1, <2>2, <2>3, Zenon
<1>5. ASSUME NEW x \in Objs, NEW s \in Slots, NEW n \in {1, 2}, mLocObjTab[s] = None,
             mLocObjTab' = [mLocObjTab EXCEPT ![s] = x], known' = [known EXCEPT ![s] = x],
             refs' = [refs EXCEPT ![x] = @ + n]
      PROVE  TZInv'
  BY <1>1, <1>2, <1>3, <1>5, TakeKeeps, Zenon
<1> QED
  BY <1>1, <1>4, <1>5, marshalInTakes

(* A registration that ends releases the credentials object it made.       *)
LEMMA marshalOutKeeps ==
    ASSUME Bounded, TZInv, NEW result \in {"OK", "object", "INVALID"}, marshalOut(result)
    PROVE  TZInv'
<1> USE DEF TZInv
<1>1. /\ client.pc = "inCall" /\ client.op \in Ops /\ client \in ClientStates
      /\ UNCHANGED <<mem, worker, mLocObjTab, known>>
  BY Zenon DEF marshalOut, Typed, ClientStates
<1>2. \/ client.op = "invoke" /\ client' = [client EXCEPT !.pc = "env"] /\ UNCHANGED refs
      \/ /\ client.op = "registerAsClient" /\ UNCHANGED refs
         /\ client' = [pc |-> "inCall", op |-> "registerLegacy", tries |-> 0]
      \/ /\ client.op = "registerWithCredentials" /\ UNCHANGED refs
         /\ \E p \in {"env", "released"} : client' = [client EXCEPT !.pc = p]
      \/ /\ client.op \in {"registerAsClient", "registerLegacy"} /\ refs' = [refs EXCEPT !["cio"] = @ - 1]
         /\ \E p \in {"env", "released"} : client' = [client EXCEPT !.pc = p]
  BY <1>1, Zenon DEF marshalOut, Ops
<1>3. refs' \in [Objs -> Int]
  BY <1>2 DEF Typed, Objs
<1>4. client' \in ClientStates /\ (client'.pc = "inCall" => client'.op \in Ops)
  <2>1. CASE \E p \in {"env", "released"} : client' = [client EXCEPT !.pc = p]
    BY <2>1, ClientPcChanges, Zenon DEF ClientPcs
  <2>2. CASE client' = [pc |-> "inCall", op |-> "registerLegacy", tries |-> 0]
    BY <2>2, Zenon DEF ClientStates, ClientPcs, Ops
  <2> QED
    BY <1>2, <2>1, <2>2, Zenon
<1>5. \A o \in Objs :
         /\ refs'[o] \in Int
         /\ refs'[o] - (IF Registers(o)' THEN 1 ELSE 0) >= refs[o] - (IF Registers(o) THEN 1 ELSE 0)
  <2>0. \A o \in Objs : refs[o] \in Int /\ refs'[o] \in Int
    BY <1>3, Zenon DEF Typed
  <2>1. CASE UNCHANGED refs /\ \A o \in Objs : Registers(o)' => Registers(o)
    BY <2>0, <2>1
  <2>2. CASE client.op \in {"registerAsClient", "registerLegacy"} /\ refs' = [refs EXCEPT !["cio"] = @ - 1]
             /\ \E p \in {"env", "released"} : client' = [client EXCEPT !.pc = p]
    <3>1. Registers("cio") /\ \A o \in Objs : ~Registers(o)'
      BY <1>1, <2>2, ClientPcChanges, Zenon DEF Registers, ClientPcs
    <3>2. \A o \in Objs : refs'[o] = IF o = "cio" THEN refs[o] - 1 ELSE refs[o]
      BY <2>2, Zenon DEF Typed
    <3>3. \A o \in Objs : o # "cio" => ~Registers(o)
      BY Zenon DEF Registers
    <3> QED
      BY <2>0, <3>1, <3>2, <3>3
  <2>3. CASE client' = [pc |-> "inCall", op |-> "registerLegacy", tries |-> 0]
             /\ client.op = "registerAsClient" /\ UNCHANGED refs
    <3>1. \A o \in Objs : Registers(o)' => Registers(o)
      BY <1>1, <2>3, Zenon DEF Registers
    <3> QED
      BY <2>1, <2>3, <3>1, Zenon
  <2>4. CASE UNCHANGED refs /\ \E p \in {"env", "released"} : client' = [client EXCEPT !.pc = p]
    <3>1. \A o \in Objs : ~Registers(o)'
      BY <2>4, ClientPcChanges, Zenon DEF Registers, ClientPcs
    <3> QED
      BY <2>1, <2>4, <3>1, Zenon
  <2> QED
    BY <1>2, <2>2, <2>3, <2>4, Zenon
<1>6. Typed'
  BY <1>1, <1>3, <1>4, TypedClient, Zenon DEF Typed, mem
<1>7. Handles' /\ Memory'
  BY <1>1, Zenon DEF Handles, Memory, mem, At, Open
<1>8. Counted'
  <2> SUFFICES ASSUME NEW o \in Objs
               PROVE  refs'[o] >= Cardinality(SlotsOf(o)') + Cardinality(CallsOf(o)')
                                  + (IF Registers(o) THEN 1 ELSE 0)'
    BY Zenon DEF Counted
  <2>1. SlotsOf(o)' = SlotsOf(o) /\ CallsOf(o)' = CallsOf(o) /\ refs[o] \in Int
    BY <1>1, Zenon DEF SlotsOf, CallsOf, Typed
  <2>2. refs[o] >= Cardinality(SlotsOf(o)) + Cardinality(CallsOf(o)) + (IF Registers(o) THEN 1 ELSE 0)
    BY Zenon DEF Counted
  <2> QED
    BY <1>5, <2>1, <2>2, Counts
<1> QED
  BY <1>6, <1>7, <1>8, Zenon

(* Shutdown releases what the table refers to, once.                       *)
LEMMA ShutdownKeeps ==
    ASSUME Bounded, TZInv, ShutdownClears("env") \/ ShutdownClears("released") \/ ShutdownEnds
    PROVE  TZInv'
<1> USE DEF TZInv
<1>1. UNCHANGED <<mem, worker>> /\ client.pc \in {"env", "released", "killing"}
  BY Zenon DEF ShutdownClears, ShutdownEnds
<1>2. client' \in ClientStates /\ client'.pc \in {"clearing", "gone"}
  BY ClientPcChanges, Zenon DEF ShutdownClears, ShutdownEnds, ClientPcs
<1>3. Handles' /\ Memory' /\ \A o \in Objs : ~Registers(o) /\ ~Registers(o)' /\ CallsOf(o)' = CallsOf(o)
  BY <1>1, <1>2, Zenon DEF Handles, Open, Memory, mem, At, Registers, CallsOf
<1>4. \A o \in Objs : refs[o] \in Int /\ refs[o] >= Cardinality(SlotsOf(o)) + Cardinality(CallsOf(o))
  BY <1>3, Counts DEF Counted, Typed
<1>5. CASE Cleared /\ UNCHANGED known
  <2>1. mLocObjTab' \in [Slots -> Objs \cup {None}] /\ \A o \in Objs : SlotsOf(o)' = {}
    BY <1>5, Zenon DEF Cleared, SlotsOf, Objs, None
  <2>2. \A o \in Objs : Cardinality(SlotsOf(o)') = 0
    BY <2>1, FS_EmptySet, Zenon
  <2>3. \A o \in Objs : refs'[o] = refs[o] - Cardinality(SlotsOf(o))
    BY <1>5, Zenon DEF Cleared, SlotsOf
  <2>4. \A o \in Objs : refs'[o] \in Int
    BY <1>4, <2>3, Counts
  <2>5. refs' \in [Objs -> Int]
    BY <1>5, <2>4, Zenon DEF Cleared
  <2>6. Typed'
    BY <1>1, <1>2, <1>5, <2>1, <2>5, TypedClient, Zenon DEF Typed, mem
  <2>7. Counted'
    <3> SUFFICES ASSUME NEW o \in Objs
                 PROVE  refs'[o] >= Cardinality(SlotsOf(o)') + Cardinality(CallsOf(o)')
                                    + (IF Registers(o) THEN 1 ELSE 0)'
      BY Zenon DEF Counted
    <3>1. Cardinality(SlotsOf(o)) \in Nat /\ Cardinality(CallsOf(o)) \in Nat
      BY Counts, Zenon
    <3>2. refs'[o] >= Cardinality(CallsOf(o))
      BY <1>4, <2>3, <3>1
    <3>3. ~Registers(o)' /\ CallsOf(o)' = CallsOf(o) /\ Cardinality(SlotsOf(o)') = 0
      BY <1>3, <2>2, Zenon
    <3> QED
      BY <3>1, <3>2, <3>3
  <2> QED
    BY <1>3, <2>6, <2>7, Zenon
<1>6. CASE ShutdownEnds
  <2>1. known' \in [Slots -> Objs \cup {None}] /\ UNCHANGED <<mLocObjTab, refs>>
    BY <1>6, Zenon DEF ShutdownEnds
  <2>2. Typed'
    BY <1>1, <1>2, <2>1, TypedClient, Zenon DEF Typed, mem
  <2>3. \A o \in Objs : SlotsOf(o)' = SlotsOf(o) /\ refs'[o] = refs[o]
    BY <2>1, Zenon DEF SlotsOf
  <2>4. Counted'
    BY <1>3, <1>4, <2>3, Counts, Zenon DEF Counted
  <2> QED
    BY <1>3, <2>2, <2>4
<1> QED
  BY <1>5, <1>6, Zenon DEF ShutdownClears

(* For any number of accept threads, slots, calls, retries, memory objects *)
(* and failures: until the shutdown a handle that QTEE holds names the     *)
(* object it was given for, the memory objects it holds are listed, and a  *)
(* local object has at least a reference for every slot and callback in    *)
(* progress that refers to it (getLocObjHandle takes only empty slots, and *)
(* a slot is emptied by the one thread that handles its release).          *)
THEOREM LocalObjectsSafe ==
    ASSUME Bounded
    PROVE  Spec => [](HandlesNameTheirObject /\ LocalObjectsAlive)
<1>1. Init => TZInv
  <2> SUFFICES ASSUME Init PROVE TZInv
    BY Zenon
  <2>1. Typed
    BY DEF Init, Typed, Bounded, Objs, None, Idle, WorkerStates, WorkerPcs, ClientStates, ClientPcs,
       At
  <2>2. Handles /\ Memory
    BY Zenon DEF Init, Handles, Memory, None, Idle, At
  <2>3. \A o \in Objs : SlotsOf(o) = {} /\ CallsOf(o) = {} /\ ~Registers(o) /\ refs[o] \in {0, 1}
    BY DEF Init, SlotsOf, CallsOf, Registers, Objs, None, Idle
  <2>4. Counted
    BY <2>3, FS_EmptySet DEF Counted
  <2> QED
    BY <2>1, <2>2, <2>4, Zenon DEF TZInv
<1>2. TZInv /\ [Next]_vars => TZInv'
  <2> SUFFICES ASSUME TZInv, [Next]_vars
               PROVE  TZInv'
    BY Zenon
  <2>1. CASE MinkCBContext_new \/ \E created \in SUBSET Workers : ThreadCreateFails(created)
    BY <2>1, ThreadsStart, Zenon
  <2>2. CASE \/ ServerRequestFails \/ RootEnvFails \/ WaitTillAcceptThreadsAreCreated \/ SelfCredsFail
             \/ MinkDescriptor_delete \/ ShutdownLocks
    BY <2>2, WaitsKeep, Zenon
  <2>3. CASE TZCom_getClientEnvObject \/ TZCom_getClientEnvObjectWithCreds
    BY <2>3, RegistersKeep, Zenon
  <2>4. CASE HandleFails \/ invoke_over_ioctl \/ Retry
    BY <2>4, HandleFailsKeeps, InvokeKeeps, RetryKeeps, Zenon
  <2>5. CASE \E r \in {"OK", "object", "INVALID"} : marshalOut(r)
    BY <2>5, marshalOutKeeps, Zenon
  <2>6. CASE MinkDescriptor_shutdownCBService \/ ShutdownClears("released") \/ ShutdownEnds
    BY <2>6, ShutdownKeeps, Zenon DEF MinkDescriptor_shutdownCBService
  <2>7. ASSUME NEW w \in Workers,
               \/ WorkerStarts(w) \/ WorkerHasNoBuffer(w) \/ minkcbserver_signal_handler(w)
               \/ \E e \in {"EAGAIN", "ESHUTDOWN", "EIO"} : AcceptFails(w, e)
        PROVE  TZInv'
    BY <2>7, QuietKeeps, Zenon
  <2>8. ASSUME NEW w \in Workers,
               \/ \E s \in Slots : AcceptInvoke(w, s) \/ AcceptRelease(w, s)
               \/ \E m \in 1..MaxMems : AcceptReleaseMem(w, m)
        PROVE  TZInv'
    BY <2>8, AcceptKeeps, AcceptReleaseMemKeeps, Zenon
  <2>9. ASSUME NEW w \in Workers,
               clearLocalObj(w) \/ clearLocalMemObj(w) \/ ReleaseOI(w) \/ MarshalRequestInFails(w)
        PROVE  TZInv'
    BY <2>9, clearLocalObjKeeps, clearLocalMemObjKeeps, ReleaseOIKeeps, MarshalRequestInFailsKeeps, Zenon
  <2>10. ASSUME NEW w \in Workers, getLocalObj(w, FALSE) \/ getLocalObj(w, TRUE) PROVE TZInv'
    BY <2>10, getLocalObjKeeps, Zenon
  <2>11. ASSUME NEW w \in Workers, NEW oo, marshalResponseOut(w, oo) PROVE TZInv'
    BY <2>11, marshalResponseOutKeeps, Zenon
  <2>12. CASE UNCHANGED vars
    BY <2>12, Zenon DEF vars, mem, TZInv, Typed, Handles, Memory, Counted, Open, At, SlotsOf, CallsOf, Registers
  <2> QED
    BY <2>1, <2>2, <2>3, <2>4, <2>5, <2>6, <2>7, <2>8, <2>9, <2>10, <2>11, <2>12, Zenon
    DEF Next, ClientStep, WorkerStep
<1>3. TZInv => HandlesNameTheirObject /\ LocalObjectsAlive
  <2> SUFFICES ASSUME TZInv PROVE HandlesNameTheirObject /\ LocalObjectsAlive
    BY Zenon
  <2>1. HandlesNameTheirObject
    BY Zenon DEF TZInv, Handles, Memory, HandlesNameTheirObject, Open
  <2>2. \A o \in Objs : refs[o] \in Int /\ refs[o] >= Cardinality(SlotsOf(o)) + Cardinality(CallsOf(o))
    BY Counts DEF TZInv, Typed, Counted
  <2> QED
    BY <2>1, <2>2, Zenon DEF LocalObjectsAlive, SlotsOf, CallsOf
<1> QED
  BY <1>1, <1>2, <1>3, PTL DEF Spec
=============================================================================
