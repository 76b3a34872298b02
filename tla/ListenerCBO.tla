----------------------------- MODULE ListenerCBO -----------------------------
(***************************************************************************)
(* The callback object through which QTEE uses a listener: one request at  *)
(* a time, and a queue of callers that wait until the listener is free or  *)
(* four seconds have passed; and the supplicant process that loads the     *)
(* listeners' libraries, whose init registers them with QTEE.              *)
(* Sources: listeners/listenercbo/src/CListenerCBO.c,                      *)
(* listeners/libtimeservice/atime.c (the other libraries start alike),     *)
(* qtee_supplicant/src/listener_mngr.c, qtee_supplicant.c.                 *)
(***************************************************************************)
EXTENDS Naturals, Sequences, FiniteSets, SequencesExt

CONSTANTS
    Callers,    \* threads that carry QTEE's calls
    Services,   \* the listener libraries
    Listener,   \* the one whose callback object is followed
    MaxCalls    \* bound on calls of each thread

VARIABLES
    pc,         \* where each caller is
    calls,      \* calls each thread has made
    busy,       \* listener_busy: the caller that set it, or "free"
    mutex,      \* holder of wait_mutex, or "free"
    queue,      \* list_wait_cond: wait_items, by their owner
    signalled,  \* waiters whose condition variable was signalled
    shared,     \* the shared buffer: [of |-> request, data]
    dangling,   \* a wait_item was freed that is still in the list
    stuck,      \* wait returned with wait_mutex held
    registered, \* is_registered of each service
    held,       \* objects the library of each service holds
    qtee,       \* services QTEE was given the callback object and buffer of
    mngr        \* "starting", "running", "failed", "stopped"

cvars == <<pc, calls, busy, mutex, queue, signalled, shared, dangling, stuck>>
mvars == <<registered, held, qtee, mngr>>
vars == <<cvars, mvars>>

(* What init acquires, in this order, before it registers, and what it     *)
(* keeps after that.                                                       *)
Acquired == <<"root", "client_env", "register_obj", "mo", "cbo">>
Kept == {"register_obj", "mo", "cbo"}

TypeOK ==
    /\ pc \in [Callers -> {"idle", "copied", "dispatched", "signal", "wait", "queued"}]
    /\ busy \in Callers \cup {"free"} /\ mutex \in Callers \cup {"free"}
    /\ queue \in Seq(Callers) /\ signalled \subseteq Callers
    /\ held \in [Services -> SUBSET Range(Acquired)] /\ qtee \subseteq Services
    /\ mngr \in {"starting", "running", "failed", "stopped"}

Init ==
    /\ pc = [c \in Callers |-> "idle"] /\ calls = [c \in Callers |-> 0]
    /\ busy = "free" /\ mutex = "free" /\ queue = <<>> /\ signalled = {}
    /\ shared = "none" /\ dangling = FALSE /\ stuck = FALSE
    /\ registered = [s \in Services |-> "no"] /\ mngr = "starting"
    /\ held = [s \in Services |-> {}] /\ qtee = {}

Moves(c, p) == pc' = [pc EXCEPT ![c] = p]
Calls(c) == /\ pc[c] = "idle" /\ calls[c] < MaxCalls
            /\ Listener \in qtee /\ mngr # "stopped"
            /\ calls' = [calls EXCEPT ![c] = @ + 1]

-----------------------------------------------------------------------------
(* CListenerCBO_request: the compare-and-exchange takes the listener or    *)
(* the call is refused; the request is copied out of the shared buffer,    *)
(* dispatched and copied back (no copies when calloc fails).               *)
Request_unchecked(c) ==
    /\ Calls(c) /\ busy' = c /\ shared' = c /\ Moves(c, "copied")
    /\ UNCHANGED <<mutex, queue, signalled, dangling, stuck, mvars>>
Request(c) ==
    /\ Calls(c)
    /\ IF busy # "free" THEN UNCHANGED <<pc, busy, shared>>
       ELSE /\ busy' = c
            /\ \/ shared' = c /\ Moves(c, "copied")
               \/ Moves(c, "dispatched") /\ UNCHANGED shared
    /\ UNCHANGED <<mutex, queue, signalled, dangling, stuck, mvars>>
Dispatch(c) ==
    /\ pc[c] = "copied" /\ Moves(c, "dispatched")
    /\ UNCHANGED <<calls, busy, mutex, queue, signalled, shared, dangling, stuck, mvars>>
SetFree(c) ==
    /\ pc[c] = "dispatched" /\ busy' = "free" /\ shared' = "none" /\ Moves(c, "signal")
    /\ UNCHANGED <<calls, mutex, queue, signalled, dangling, stuck, mvars>>

(* signal_waiting_listener takes the last item of the list.                *)
signal_waiting_listener(c) ==
    /\ pc[c] = "signal" /\ mutex = "free" /\ Moves(c, "idle")
    /\ IF queue = <<>> THEN UNCHANGED <<queue, signalled>>
       ELSE /\ queue' = Front(queue)
            /\ signalled' = signalled \cup {Last(queue)}
    /\ UNCHANGED <<calls, busy, mutex, shared, dangling, stuck, mvars>>

(* CListenerCBO_wait: no wait when the listener is free; then, under the   *)
(* mutex, an item is queued and its condition variable waited for.  When   *)
(* malloc fails the call returns with the mutex held.                      *)
Wait(c) ==
    /\ Calls(c)
    /\ IF busy = "free" THEN UNCHANGED pc ELSE Moves(c, "wait")
    /\ UNCHANGED <<busy, mutex, queue, signalled, shared, dangling, stuck, mvars>>
Enqueue(c) ==
    /\ pc[c] = "wait" /\ mutex = "free"
    /\ \/ /\ queue' = Append(queue, c) /\ Moves(c, "queued") /\ UNCHANGED <<mutex, stuck>>
       \/ /\ mutex' = c /\ stuck' = TRUE /\ Moves(c, "idle") /\ UNCHANGED queue
    /\ UNCHANGED <<calls, busy, signalled, shared, dangling, mvars>>

(* The wait ends: by the signal, by the timeout, which takes the last item *)
(* of the list, or spuriously.  Then the caller's own item is freed.       *)
Leaves(c, q) ==
    /\ queue' = q /\ signalled' = signalled \ {c} /\ Moves(c, "idle")
    /\ dangling' = (dangling \/ \E i \in DOMAIN q : q[i] = c)
    /\ UNCHANGED <<calls, busy, mutex, shared, stuck, mvars>>
WakesUp(c) == pc[c] = "queued" /\ mutex = "free" /\ c \in signalled /\ Leaves(c, queue)
TimesOut_untimed(c) == FALSE
TimesOut(c) ==
    /\ pc[c] = "queued" /\ mutex = "free"
    /\ Leaves(c, IF queue = <<>> THEN queue ELSE Front(queue))
WakesSpuriously(c) == pc[c] = "queued" /\ mutex = "free" /\ c \notin signalled /\ Leaves(c, queue)

-----------------------------------------------------------------------------
(* start_listener_services: one library after the other is loaded and      *)
(* initialised, or skipped; qtee_supplicant ends if none could be.         *)
init_listener_svc(s) ==
    /\ mngr = "starting" /\ registered[s] = "no"
    /\ \A r \in Services : registered[r] # "init"
    /\ \E r \in {"init", "failed"} : registered' = [registered EXCEPT ![s] = r]
    /\ UNCHANGED <<cvars, held, qtee, mngr>>

(* init of a library: each call may fail, and then all is released.  Once  *)
(* registered, the listener can be called while others still start.        *)
init_keeps(s, ok) ==
    /\ registered[s] = "init"
    /\ LET n == Cardinality(held[s])
       IN IF ~ok THEN /\ registered' = [registered EXCEPT ![s] = "failed"]
                      /\ UNCHANGED <<held, qtee>>
          ELSE IF n < Len(Acquired)
          THEN held' = [held EXCEPT ![s] = @ \cup {Acquired[n + 1]}] /\ UNCHANGED <<registered, qtee>>
          ELSE /\ registered' = [registered EXCEPT ![s] = "yes"]
               /\ held' = [held EXCEPT ![s] = Kept] /\ qtee' = qtee \cup {s}
    /\ UNCHANGED <<cvars, mngr>>
init(s, ok) ==
    /\ registered[s] = "init"
    /\ LET n == Cardinality(held[s])
       IN IF ~ok
          THEN /\ registered' = [registered EXCEPT ![s] = "failed"]
               /\ held' = [held EXCEPT ![s] = {}] /\ UNCHANGED qtee
          ELSE IF n < Len(Acquired)
          THEN held' = [held EXCEPT ![s] = @ \cup {Acquired[n + 1]}] /\ UNCHANGED <<registered, qtee>>
          ELSE /\ registered' = [registered EXCEPT ![s] = "yes"]
               /\ held' = [held EXCEPT ![s] = Kept] /\ qtee' = qtee \cup {s}
    /\ UNCHANGED <<cvars, mngr>>

started ==
    /\ mngr = "starting" /\ \A s \in Services : registered[s] \in {"yes", "failed"}
    /\ mngr' = IF \E s \in Services : registered[s] = "yes" THEN "running" ELSE "failed"
    /\ UNCHANGED <<cvars, registered, held, qtee>>

(* deinit, of the registered listeners only, after pause() returned.       *)
deinit(s) == IF registered[s] = "yes" THEN held[s] \ Kept ELSE held[s]
stop_listeners_services ==
    /\ mngr = "running"
    /\ held' = [s \in Services |-> deinit(s)]
    /\ registered' = [s \in Services |-> IF registered[s] = "yes" THEN "no" ELSE registered[s]]
    /\ mngr' = "stopped"
    /\ UNCHANGED <<cvars, qtee>>

Step(c) ==
    \/ Dispatch(c) \/ SetFree(c) \/ signal_waiting_listener(c) \/ Enqueue(c)
    \/ WakesUp(c) \/ TimesOut(c)
Next ==
    /\ ~dangling
    /\ \/ \E c \in Callers : Request(c) \/ Wait(c) \/ Step(c) \/ WakesSpuriously(c)
       \/ \E s \in Services : init_listener_svc(s) \/ \E ok \in BOOLEAN : init(s, ok)
       \/ started \/ stop_listeners_services

Spec == Init /\ [][Next]_vars
(* Threads run, and a timed wait ends at the latest with its timeout.      *)
Fairness == \A c \in Callers : WF_vars(~dangling /\ Step(c))

-----------------------------------------------------------------------------
(* The listener serves one request at a time: while one is dispatched no   *)
(* other call copies into or out of the buffer shared with QTEE.           *)
OneRequest ==
    Cardinality({c \in Callers : pc[c] \in {"copied", "dispatched"}}) <= 1

(* While QTEE can call a listener, or is calling it, the library holds the *)
(* callback object and the buffer they share; one whose start failed, at   *)
(* whatever call, holds nothing, and nothing is held after the stop.       *)
HeldWhileCalled ==
    /\ mngr # "stopped" =>
          /\ \A s \in qtee : {"cbo", "mo"} \subseteq held[s]
          /\ (\E c \in Callers : pc[c] # "idle") => Listener \in qtee
    /\ \A s \in Services : (registered[s] = "failed" \/ mngr = "stopped") => held[s] = {}

(* A call that has the buffer is the one that set listener_busy.           *)
BusyIsOwned ==
    /\ pc \in [Callers -> {"idle", "copied", "dispatched", "signal", "wait", "queued"}]
    /\ \A c \in Callers : pc[c] \in {"copied", "dispatched"} => busy = c

(* A caller that found the listener busy gets away again, although the     *)
(* listener may have become free, and signalled, before it was queued, and *)
(* although a timeout takes another's item: each wait is timed.  (Not when *)
(* malloc failed, which leaves the mutex locked.)                          *)
WaitsEnd ==
    \A c \in Callers : (pc[c] \in {"wait", "queued"}) ~> (pc[c] = "idle" \/ stuck \/ dangling)
=============================================================================
