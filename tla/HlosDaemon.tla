----------------------------- MODULE HlosDaemon -----------------------------
(* The minkdaemon of the HLOS (MinkDaemon.cpp): what main makes, in order, *)
(* any step of which may fail, what it gives back when the service it      *)
(* waits for ends, the calls that its services take meanwhile on threads   *)
(* of their own, the modem's registration (MinkModemOpener.cpp, with its   *)
(* table of one, ObjectTableMT.h) and the vendor's clients and trusted     *)
(* applications (MinkdVendorClients.cpp, TaLoader.cpp).  All the features  *)
(* of the build are on.  A MinkHub_destroy does not wait for calls: what a *)
(* call that is in the hub then does is undefined, and is left out.        *)
EXTENDS Integers, FiniteSets, Sequences, Functions

CONSTANTS
    Threads,        \* workers of the services' connections
    Modems,         \* objects that the modem registers
    Apps,           \* number of trusted applications in the configuration
    Embedded,       \* how many of them, the first, are embedded in the loader
    Clients,        \* number of the vendor's clients, 4 in the code
    Retries,        \* attempts to load an application, 100 in the code
    MaxCalls,       \* calls to the services (a bound of the model)
    MaxFails,       \* failures (a bound of the model)
    NULL

Services == {"qrtr", "modem", "tzd", "opener"}
Endpoint == [qrtr |-> "envQ", modem |-> "modemOpener", tzd |-> "cReg", opener |-> "env"]
Objects == {"cred", "env", "envQ", "modemOpener", "cReg"}

VARIABLES
    pc,             \* what main does next
    hub,            \* "none", "made" or "destroyed"
    refs,           \* refs[o]: the references of an object of the daemon
    held,           \* the objects main has a reference to
    service,        \* service[s]: "none", "serving" or "released"
    retry,          \* attempts made to load the next application
    next,           \* the next application, or the next client
    loadedApps,     \* applications that are loaded and held
    init_success,   \* init_success[i]: what main thinks of a client
    up,             \* up[i]: the client is initialised
    call,           \* call[t]: what a worker does
    objects,        \* the one slot of the modem opener's table
    modemRefs,      \* modemRefs[m]: references the table took and did not give back
    past,           \* past[m]: times it was stored behind the table's end
    calls, fails

mainVars == <<hub, refs, held, service>>
vendorVars == <<retry, next, loadedApps, init_success, up>>
tableVars == <<objects, modemRefs, past>>
vars == <<pc, mainVars, vendorVars, call, tableVars, calls, fails>>

Idle == [at |-> "idle", service |-> "none", obj |-> NULL, old |-> NULL]

Init ==
    /\ pc = "cred" /\ hub = "none" /\ held = {}
    /\ refs = [o \in Objects |-> 0] /\ service = [s \in Services |-> "none"]
    /\ retry = 0 /\ next = 1 /\ loadedApps = {}
    /\ init_success = [i \in 1..Clients |-> TRUE] /\ up = [i \in 1..Clients |-> FALSE]
    /\ call = [t \in Threads |-> Idle]
    /\ objects = NULL /\ modemRefs = [m \in Modems |-> 0] /\ past = modemRefs
    /\ calls = 0 /\ fails = 0

Fails == fails < MaxFails /\ fails' = fails + 1

-----------------------------------------------------------------------------
(* References.                                                             *)

Retained(r, o) == [r EXCEPT ![o] = @ + 1]

(* MinkModemOpener_release: the last one empties the table                 *)
(* (ObjectTableMT_destruct) and drops the environment.                     *)
Released(r, o) ==
    LET d == [r EXCEPT ![o] = @ - 1]
    IN IF o = "modemOpener" /\ d[o] = 0 THEN [d EXCEPT !["env"] = @ - 1] ELSE d

ObjectTableMT_destruct ==
    IF refs["modemOpener"] > 0 /\ refs'["modemOpener"] = 0 /\ objects # NULL
    THEN objects' = NULL /\ modemRefs' = [modemRefs EXCEPT ![objects] = @ - 1] /\ UNCHANGED past
    ELSE UNCHANGED tableVars

-----------------------------------------------------------------------------
(* main: what it makes.                                                    *)

(* A constructor that fails sends main to its exit.                        *)
New(at, o, to) ==
    /\ pc = at
    /\ \/ pc' = to /\ held' = held \cup {o} /\ refs' = Retained(refs, o) /\ UNCHANGED fails
       \/ Fails /\ pc' = "exit" /\ UNCHANGED <<held, refs>>
    /\ UNCHANGED <<hub, service, vendorVars, call, tableVars, calls>>

OSIndCredentials_newEnvCred == New("cred", "cred", "hub")
TEnv_new == New("env", "env", "envQ") \/ New("envQ", "envQ", "qrtr")
CRegister_open == New("cReg", "cReg", "tzd")

MinkHub_new ==
    /\ pc = "hub"
    /\ \/ pc' = "env" /\ hub' = "made" /\ UNCHANGED fails
       \/ Fails /\ pc' = "exit" /\ UNCHANGED hub
    /\ UNCHANGED <<refs, held, service, vendorVars, call, tableVars, calls>>

(* A service is started on a socket of its own and retains its endpoint.   *)
Serves_unretained(s) ==
    service' = [service EXCEPT ![s] = "serving"] /\ UNCHANGED refs
Serves(s) ==
    service' = [service EXCEPT ![s] = "serving"] /\ refs' = Retained(refs, Endpoint[s])

start_la_qrtr_service ==
    /\ pc = "qrtr"
    /\ \/ Serves("qrtr") /\ pc' = "autoload" /\ UNCHANGED fails
       \/ Fails /\ pc' = "exit" /\ UNCHANGED <<service, refs>>
    /\ UNCHANGED <<hub, held, vendorVars, call, tableVars, calls>>

(* Only the library's handle depends on whether the registration works.    *)
registerAutoTALoadService ==
    /\ pc = "autoload" /\ pc' = "apps"
    /\ UNCHANGED <<mainVars, vendorVars, call, tableVars, calls, fails>>

MinkModemOpener_new(r) == Retained(Retained(r, "modemOpener"), "env")

(* The modem's opener, which retains the environment; the service's        *)
(* reference is the only one that is left of it, or none is.               *)
start_modem_opener_service ==
    /\ pc = "modem"
    /\ \/ /\ service' = [service EXCEPT !["modem"] = "serving"]
          /\ refs' = MinkModemOpener_new(refs)
          /\ pc' = "cReg" /\ UNCHANGED fails
       \/ Fails /\ pc' = "exit" /\ UNCHANGED <<service, refs>>
    /\ UNCHANGED <<hub, held, vendorVars, call, tableVars, calls>>

(* The services on the control sockets, without which main goes on; it     *)
(* waits for the second one, if there is one.                              *)
StartOnControlSocket(s, to, else) ==
    /\ pc = s
    /\ \/ Serves(s) /\ pc' = to /\ UNCHANGED fails
       \/ Fails /\ pc' = else /\ UNCHANGED <<service, refs>>
    /\ UNCHANGED <<hub, held, vendorVars, call, tableVars, calls>>
StartTzd == StartOnControlSocket("tzd", "opener", "opener")
StartOpener == StartOnControlSocket("opener", "join", "exit")

(* MinkIPC_join returns when the listener has ended.                       *)
Joined ==
    /\ pc = "join" /\ pc' = "exit"
    /\ UNCHANGED <<mainVars, vendorVars, call, tableVars, calls, fails>>

-----------------------------------------------------------------------------
(* The vendor's applications and clients.                                  *)

LoadDone(loaded) ==
    /\ loadedApps' = loaded /\ retry' = 0
    /\ next' = (IF next = Apps THEN 1 ELSE next + 1)
    /\ pc' = (IF next = Apps THEN "clients" ELSE pc)

(* loadApps: an application that is loaded is kept, one that cannot be is  *)
(* skipped; loadApp tries again while the loader is busy.  Without a        *)
(* configuration or a loader there are none.                               *)
loadApps ==
    /\ pc = "apps"
    /\ \/ LoadDone(loadedApps \cup {next}) /\ UNCHANGED fails
       \/ Fails /\ LoadDone(loadedApps)
       \/ Fails /\ next = 1 /\ retry = 0 /\ pc' = "clients" /\ UNCHANGED <<retry, next, loadedApps>>
       \/ /\ Fails /\ next > Embedded
          /\ IF retry + 1 < Retries
             THEN retry' = retry + 1 /\ UNCHANGED <<pc, next, loadedApps>>
             ELSE LoadDone(loadedApps)
    /\ UNCHANGED <<mainVars, init_success, up, call, tableVars, calls>>

loadHLOSMinkdVendorClients ==
    /\ pc = "clients"
    /\ next' = (IF next = Clients THEN 1 ELSE next + 1)
    /\ pc' = (IF next = Clients THEN "modem" ELSE pc)
    /\ \/ up' = [up EXCEPT ![next] = TRUE] /\ UNCHANGED <<init_success, fails>>
       \/ Fails /\ init_success' = [init_success EXCEPT ![next] = FALSE] /\ UNCHANGED up
    /\ UNCHANGED <<mainVars, retry, loadedApps, call, tableVars, calls>>

(* Everything loaded is released; the clients, last first, are taken down  *)
(* unless their init is known to have failed.                              *)
unloadHLOSMinkdVendorClients ==
    /\ pc = "unload" /\ pc' = "drop" /\ loadedApps' = {}
    /\ up' = [i \in 1..Clients |-> up[i] /\ ~init_success[i]]
    /\ UNCHANGED <<mainVars, retry, next, init_success, call, tableVars, calls, fails>>

-----------------------------------------------------------------------------
(* main: what it gives back.                                               *)

MinkHub_destroy ==
    /\ pc = "exit" /\ pc' = "release"
    /\ hub' = (IF hub = "made" THEN "destroyed" ELSE hub)
    /\ UNCHANGED <<refs, held, service, vendorVars, call, tableVars, calls, fails>>

(* As if main did not know of the modem's service.                         *)
ReleaseOrder_partial == <<"opener", "qrtr", "tzd">>
ReleaseOrder == <<"opener", "qrtr", "tzd", "modem">>
DropOrder == <<"env", "cred", "envQ", "cReg">>

FirstOf(seq, set) == seq[CHOOSE i \in 1..Len(seq) : seq[i] \in set /\ \A j \in 1..(i - 1) : seq[j] \notin set]

(* MinkIPC_release stops the listener and drops the endpoint.  A worker    *)
(* that is in a call goes on with its own reference.                       *)
MinkIPC_release ==
    /\ pc = "release"
    /\ LET left == {s \in Range(ReleaseOrder) : service[s] = "serving"}
           s == FirstOf(ReleaseOrder, left)
       IN IF left = {} THEN pc' = "unload" /\ UNCHANGED <<service, refs, tableVars>>
          ELSE /\ service' = [service EXCEPT ![s] = "released"] /\ UNCHANGED pc
               /\ refs' = Released(refs, Endpoint[s])
               /\ ObjectTableMT_destruct
    /\ UNCHANGED <<hub, held, vendorVars, call, calls, fails>>

Drop ==
    /\ pc = "drop"
    /\ LET o == FirstOf(DropOrder, held)
       IN IF held = {} THEN pc' = "done" /\ UNCHANGED <<held, refs>>
          ELSE held' = held \ {o} /\ refs' = Released(refs, o) /\ UNCHANGED pc
    /\ UNCHANGED <<hub, service, vendorVars, call, tableVars, calls, fails>>

-----------------------------------------------------------------------------
(* Calls to the services.                                                  *)

(* External: a request on a connection of the service; the worker retains  *)
(* the endpoint while it is in the call.                                   *)
Call(t, s) ==
    /\ call[t].at = "idle" /\ service[s] = "serving" /\ calls < MaxCalls
    /\ calls' = calls + 1 /\ refs' = Retained(refs, Endpoint[s])
    /\ call' = [call EXCEPT ![t] = [Idle EXCEPT !.at = "called", !.service = s]]
    /\ UNCHANGED <<pc, hub, held, service, vendorVars, tableVars, fails>>

Goes(t, at) == call' = [call EXCEPT ![t].at = at]

(* TEnv_open, CRegister's calls and MinkModemOpener_open: through the hub  *)
(* to a module that is nothing of the daemon's.                            *)
MinkModemOpener_open(t) ==
    /\ call[t].at = "called" /\ Goes(t, "return")
    /\ UNCHANGED <<pc, mainVars, vendorVars, tableVars, calls, fails>>

(* ObjectTableMT_close(0); the object is released after the mutex is.      *)
ObjectTableMT_close(t, m) ==
    /\ call[t].at = "called" /\ call[t].service = "modem"
    /\ call' = [call EXCEPT ![t].at = "close", ![t].obj = m, ![t].old = objects]
    /\ objects' = NULL
    /\ UNCHANGED <<pc, mainVars, vendorVars, modemRefs, past, calls, fails>>

(* What an earlier modem registered is closed first.                       *)
MinkModemOpener_register(t, m) == ObjectTableMT_close(t, m)

(* ObjectTableMT_releaseHandle(0).                                         *)
MinkModemOpener_unregister(t) == ObjectTableMT_close(t, NULL)

ReleaseOld(t) ==
    /\ call[t].at = "close"
    /\ call' = [call EXCEPT ![t].at = IF call[t].obj = NULL THEN "return" ELSE "add", ![t].old = NULL]
    /\ modemRefs' = (IF call[t].old = NULL THEN modemRefs ELSE [modemRefs EXCEPT ![call[t].old] = @ - 1])
    /\ UNCHANGED <<pc, mainVars, vendorVars, objects, past, calls, fails>>

(* As if the slot were written whatever is in it.                          *)
ObjectTableMT_addObject_over(t) ==
    /\ call[t].at = "add" /\ Goes(t, "return")
    /\ objects' = call[t].obj /\ modemRefs' = [modemRefs EXCEPT ![call[t].obj] = @ + 1]
    /\ UNCHANGED <<past, pc, mainVars, vendorVars, calls, fails>>

(* The slot is free, unless another registration was faster: the scan then *)
(* goes on behind the table's end, where it stores the object or does not. *)
ObjectTableMT_addObject(t) ==
    LET m == call[t].obj
    IN /\ call[t].at = "add" /\ Goes(t, "return")
       /\ \/ objects = NULL /\ objects' = m /\ UNCHANGED past
          \/ objects # NULL /\ past' = [past EXCEPT ![m] = @ + 1] /\ UNCHANGED objects
          \/ objects # NULL /\ UNCHANGED <<objects, past>>
       /\ modemRefs' = (IF objects' # objects \/ past' # past THEN [modemRefs EXCEPT ![m] = @ + 1] ELSE modemRefs)
       /\ UNCHANGED <<pc, mainVars, vendorVars, calls, fails>>

Return(t) ==
    /\ call[t].at = "return" /\ call' = [call EXCEPT ![t] = Idle]
    /\ refs' = Released(refs, Endpoint[call[t].service])
    /\ ObjectTableMT_destruct
    /\ UNCHANGED <<pc, hub, held, service, vendorVars, calls, fails>>

Next ==
    \/ OSIndCredentials_newEnvCred \/ MinkHub_new \/ TEnv_new \/ start_la_qrtr_service
    \/ registerAutoTALoadService \/ loadApps \/ loadHLOSMinkdVendorClients
    \/ start_modem_opener_service \/ CRegister_open \/ StartTzd \/ StartOpener \/ Joined
    \/ MinkHub_destroy \/ MinkIPC_release \/ unloadHLOSMinkdVendorClients \/ Drop
    \/ \E t \in Threads :
         \/ \E s \in Services : Call(t, s)
         \/ \E m \in Modems : MinkModemOpener_register(t, m)
         \/ MinkModemOpener_open(t) \/ MinkModemOpener_unregister(t)
         \/ ReleaseOld(t) \/ ObjectTableMT_addObject(t) \/ Return(t)

Spec == Init /\ [][Next]_vars

-----------------------------------------------------------------------------
InCall == {t \in Threads : call[t].at # "idle"}

TypeOK ==
    /\ pc \in {"cred", "hub", "env", "envQ", "qrtr", "autoload", "apps", "clients", "modem", "cReg",
               "tzd", "opener", "join", "exit", "release", "unload", "drop", "done"}
    /\ hub \in {"none", "made", "destroyed"} /\ held \subseteq Objects
    /\ refs \in [Objects -> Nat] /\ service \in [Services -> {"none", "serving", "released"}]
    /\ retry \in 0..(Retries - 1) /\ next \in Nat /\ loadedApps \subseteq 1..Apps
    /\ init_success \in [1..Clients -> BOOLEAN] /\ up \in [1..Clients -> BOOLEAN]
    /\ call \in [Threads -> [at : {"idle", "called", "close", "add", "return"},
                             service : Services \cup {"none"},
                             obj : Modems \cup {NULL}, old : Modems \cup {NULL}]]
    /\ objects \in Modems \cup {NULL} /\ modemRefs \in [Modems -> Nat] /\ past \in [Modems -> Nat]
    /\ calls \in 0..MaxCalls /\ fails \in 0..MaxFails

(* A call on a service, which may still run when main has released the     *)
(* service and its own references, finds the object it was made on alive,  *)
(* and the modem's opener finds the environment it opens through           *)
(* (MinkDaemon.cpp main, MinkModemOpener_release).                         *)
CallsOnLiveObjects ==
    \A t \in InCall :
        /\ refs[Endpoint[call[t].service]] > 0
        /\ call[t].service = "modem" => refs["env"] > 0

(* What modems have registered has one reference for each place the table  *)
(* keeps it in and for each thread that has taken it out and is about to   *)
(* release it, whatever registrations overlap (ObjectTableMT.h).           *)
ModemRefsExact ==
    \A m \in Modems :
        modemRefs[m] = past[m] + (IF objects = m THEN 1 ELSE 0)
                       + Cardinality({t \in Threads : call[t].old = m})

(* Wherever start-up failed and whatever calls were under way at the exit, *)
(* the daemon ends with every service released and, once the last call has *)
(* returned, with nothing left of its objects, the modem's registration,   *)
(* the applications it loaded and the clients it initialised.              *)
ExitLeavesNothing ==
    pc = "done" =>
        /\ \A s \in Services : service[s] # "serving"
        /\ loadedApps = {} /\ \A i \in 1..Clients : ~up[i]
        /\ InCall = {} => \A o \in Objects : refs[o] = 0
        /\ InCall = {} => objects = NULL
=============================================================================
