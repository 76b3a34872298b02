--------------------------- MODULE ProcessLoading ---------------------------
(***************************************************************************)
(* How the trusted VM loads, watches and unloads processes.  The Mink      *)
(* daemon asks the root daemon (through the prelauncher) to launch a       *)
(* process, waits for the process to register its IModule, wraps it in a   *)
(* TModule with a hub session and attaches that to the TProcess the root   *)
(* daemon keeps.  A TProcess dies with its last reference: its TModule is  *)
(* released and the process killed.  The root daemon's signal thread       *)
(* reaps dead processes and closes what they leave behind.                 *)
(* Sources: daemons/root/src (TPrivilegedProcessManager.c, TProcess.c,     *)
(* TProcessController.c, Root.c) and daemons/mink/src (CTProcessLoader.c,  *)
(* CTRegisterModule.c, TModule.c, CAutoStartManager.c,                     *)
(* EmbeddedProcessLoader.c, TEnv.c).                                       *)
(***************************************************************************)
EXTENDS Naturals, Sequences, FiniteSets

CONSTANTS
    Clients,      \* threads that load the downloadable process from a buffer
    Openers,      \* threads that open the embedded process's service
    AutoStart,    \* whether the embedded process is in gAutoStartList
    MaxLaunches,  \* bound: processes launched in a behaviour
    NumPids,      \* bound: process ids before the kernel reuses them
    MaxFaults,    \* bound: deaths, failed launches and late registrations
    MAX_RELOAD_ATTEMPTS,
    MAX_RETRY_ATTEMPTS

VARIABLES
    proc,      \* launch -> the process and its TProcess
    tm,        \* launch -> the TModule registered for it
    pending,   \* qlistPendingIModules: the launches whose IModule waits
    act,       \* thread -> where it is
    gLock,     \* the root daemon's launch lock
    procLock,  \* TProcess.c's gLock
    loadLock,  \* CTProcessLoader.c's gLock
    embLock,   \* EmbeddedProcessLoader.c's gLock
    restarts,  \* notifications whose restart thread has not begun
    faults,    \* faults so far
    off        \* the VM was shut down

vars == <<proc, tm, pending, act, gLock, procLock, loadLock, embLock, restarts,
          faults, off>>

Launches == 1 .. MaxLaunches
None == 0
Free == "free"
Threads == Clients \cup Openers \cup {"auto", "sig"}
Embedded(i) == proc[i].app = "embedded"
Pid(i) == i % NumPids

Unused == [os |-> "none", app |-> "none", refs |-> 0, zombie |-> FALSE,
           listed |-> FALSE, tMod |-> None, ctrl |-> FALSE, registered |-> FALSE]
NoTModule == [refs |-> 0, session |-> FALSE, mod |-> None]
Idle == [pc |-> "idle", i |-> None, mod |-> None, tMod |-> None, ret |-> "idle",
         tries |-> 0, ok |-> FALSE]

Init ==
    /\ proc = [i \in Launches |-> Unused]
    /\ tm = [i \in Launches |-> NoTModule]
    /\ pending = <<>>
    /\ act = [a \in Threads |-> IF a = "auto" /\ AutoStart
                                THEN [Idle EXCEPT !.pc = "emb", !.tries = MAX_RETRY_ATTEMPTS]
                                ELSE Idle]
    /\ gLock = Free /\ procLock = Free /\ loadLock = Free /\ embLock = Free
    /\ restarts = 0
    /\ faults = 0
    /\ off = FALSE

Goto(a, pc) == act' = [act EXCEPT ![a].pc = pc]
Fault == faults < MaxFaults /\ faults' = faults + 1
----------------------------------------------------------------------------
\* The TProcess and the TModule.

\* The state of the TModules once a reference to t is dropped: TModule_release
\* destroys the session with the last one and takes the TModule off the list.
Dropped(t) ==
    [tm EXCEPT ![t] = IF @.refs = 1 THEN NoTModule ELSE [@ EXCEPT !.refs = @ - 1]]

\* TProcess_release: the last reference releases the TModule and kills whatever
\* process has the pid by then.
Put(i) ==
    IF proc[i].refs > 1
    THEN proc' = [proc EXCEPT ![i].refs = @ - 1] /\ UNCHANGED tm
    ELSE /\ proc' = [j \in Launches |->
                       [proc[j] EXCEPT !.refs = IF j = i THEN 0 ELSE @,
                                       !.tMod = IF j = i THEN None ELSE @,
                                       !.os = IF Pid(j) = Pid(i) /\ @ = "alive"
                                              THEN "dead" ELSE @]]
         /\ tm' = IF proc[i].tMod = None THEN tm ELSE Dropped(proc[i].tMod)

\* TProcess_forceClose up to the shutdown of the TModule; a zombie is left alone.
TProcess_forceClose(a, i, next) ==
    /\ procLock = Free
    /\ IF proc[i].zombie
       THEN Goto(a, next) /\ UNCHANGED <<tm, procLock>>
       ELSE /\ tm' = IF proc[i].tMod = None THEN tm
                     ELSE [tm EXCEPT ![proc[i].tMod].session = FALSE]
            /\ procLock' = a
            /\ act' = [act EXCEPT ![a].pc = "remove", ![a].ret = next]

\* The rest of it: the zombie leaves the process manager's list (PPM_remove).
PPM_remove(a) ==
    LET i == act[a].i IN
    /\ act[a].pc = "remove"
    /\ proc' = [proc EXCEPT ![i].zombie = TRUE, ![i].listed = FALSE,
                            ![i].refs = IF proc[i].listed THEN @ - 1 ELSE @]
    /\ procLock' = Free
    /\ Goto(a, act[a].ret)
    /\ UNCHANGED <<tm, pending, gLock, loadLock, embLock, restarts, faults, off>>
----------------------------------------------------------------------------
\* The life of a process (applib.c and the kernel).

\* registerWithMinkd: the process appends its IModule to the pending list.
RegisterIModule(i) ==
    /\ proc[i].os = "alive" /\ ~proc[i].registered
    /\ proc' = [proc EXCEPT ![i].registered = TRUE]
    /\ pending' = Append(pending, i)
    /\ UNCHANGED <<tm, act, gLock, procLock, loadLock, embLock, restarts, faults, off>>

ModuleHeld(i) ==
    \/ \E n \in 1 .. Len(pending) : pending[n] = i
    \/ \E t \in Launches : tm[t].session /\ tm[t].mod = i
    \/ \E a \in Threads : act[a].mod = i

\* ContainerModule_release: a process nobody holds the IModule of ends itself.
Exits(i) ==
    /\ proc[i].os = "alive" /\ proc[i].registered /\ ~ModuleHeld(i)
    /\ proc' = [proc EXCEPT ![i].os = "dead"]
    /\ UNCHANGED <<tm, pending, act, gLock, procLock, loadLock, embLock, restarts, faults, off>>

Dies(i) ==
    /\ proc[i].os = "alive"
    /\ Fault
    /\ proc' = [proc EXCEPT ![i].os = "dead"]
    /\ UNCHANGED <<tm, pending, act, gLock, procLock, loadLock, embLock, restarts, off>>
----------------------------------------------------------------------------
\* _load in the Mink daemon.

AppOf(a) == IF a \in Clients THEN "downloadable" ELSE "embedded"

LoadBuffer(c) ==
    /\ act[c].pc = "idle" /\ c \in Clients
    /\ \E i \in Launches : proc[i].os = "none"
    /\ Goto(c, "load")
    /\ UNCHANGED <<proc, tm, pending, gLock, procLock, loadLock, embLock, restarts, faults, off>>

\* EmbeddedProcessLoader_load: embedded loads queue on a lock of their own.
EmbeddedProcessLoader_load(a) ==
    /\ act[a].pc = "emb" /\ embLock = Free
    /\ embLock' = a
    /\ Goto(a, "load")
    /\ UNCHANGED <<proc, tm, pending, gLock, procLock, loadLock, restarts, faults, off>>

\* CTPPM_launch, whole: it runs under the root daemon's gLock.
CTPPM_launch(a) ==
    /\ act[a].pc = "load" /\ loadLock = Free /\ gLock = Free
    /\ IF \E i \in Launches : proc[i].listed /\ proc[i].app = AppOf(a)
       THEN /\ act' = [act EXCEPT ![a].pc = "loaded", ![a].ok = TRUE]
            /\ UNCHANGED <<proc, loadLock>>
       ELSE \E i \in Launches :
              /\ proc[i].os = "none" /\ \A j \in 1 .. i - 1 : proc[j].os # "none"
              /\ \A j \in Launches : Pid(j) = Pid(i) => proc[j].os \notin {"alive", "dead"}
              /\ proc' = [proc EXCEPT ![i] = [Unused EXCEPT !.os = "alive", !.app = AppOf(a),
                                                            !.refs = 3, !.listed = TRUE]]
              /\ loadLock' = a
              /\ act' = [act EXCEPT ![a].pc = "imodule", ![a].i = i]
    /\ UNCHANGED <<tm, pending, gLock, procLock, embLock, restarts, faults, off>>

LaunchFails(a) ==
    /\ act[a].pc = "load" /\ loadLock = Free /\ gLock = Free
    /\ Fault
    /\ act' = [act EXCEPT ![a].pc = "loaded", ![a].ok = FALSE]
    /\ UNCHANGED <<proc, tm, pending, gLock, procLock, loadLock, embLock, restarts, off>>

\* The scan with the stale nodes' test dropped: the first node is taken.
getIModuleFromPendingList_first(a) ==
    /\ act[a].pc = "imodule" /\ pending # <<>>
    /\ pending' = Tail(pending)
    /\ act' = [act EXCEPT ![a].pc = "register", ![a].mod = Head(pending)]
    /\ UNCHANGED <<proc, tm, gLock, procLock, loadLock, embLock, restarts, faults, off>>

\* One scan of CTRegisterModule_getIModuleFromPendingList: the nodes before the
\* one with this pid are stale and deleted.
getIModuleFromPendingList(a) ==
    LET here == {n \in 1 .. Len(pending) : Pid(pending[n]) = Pid(act[a].i)} IN
    /\ act[a].pc = "imodule" /\ pending # <<>>
    /\ IF here = {}
       THEN pending' = <<>> /\ UNCHANGED act
       ELSE LET n == CHOOSE n \in here : \A m \in here : n <= m IN
            /\ pending' = SubSeq(pending, n + 1, Len(pending))
            /\ act' = [act EXCEPT ![a].pc = "register", ![a].mod = pending[n]]
    /\ UNCHANGED <<proc, tm, gLock, procLock, loadLock, embLock, restarts, faults, off>>

\* pthread_cond_timedwait runs out; the process is late or will never register.
WaitTimesOut(a) ==
    /\ act[a].pc = "imodule" /\ pending = <<>>
    /\ IF proc[act[a].i].os = "alive" THEN Fault ELSE UNCHANGED faults
    /\ act' = [act EXCEPT ![a].pc = "fail"]
    /\ UNCHANGED <<proc, tm, pending, gLock, procLock, loadLock, embLock, restarts, off>>

\* TModule_registerTModule: a TModule already listed under the pid is taken as
\* it is; a new one gets a session that offers the module's services.
TModule_registerTModule(a) ==
    LET i == act[a].i
        same == {t \in Launches : tm[t].refs > 0 /\ Pid(t) = Pid(i)} IN
    /\ act[a].pc = "register"
    /\ IF same # {}
       THEN \E t \in same : /\ tm' = [tm EXCEPT ![t].refs = @ + 1]
                            /\ act' = [act EXCEPT ![a].pc = "attach", ![a].tMod = t]
       ELSE /\ tm' = [tm EXCEPT ![i] = [refs |-> 1, session |-> TRUE, mod |-> act[a].mod]]
            /\ act' = [act EXCEPT ![a].pc = "attach", ![a].tMod = i]
    /\ UNCHANGED <<proc, pending, gLock, procLock, loadLock, embLock, restarts, faults, off>>

\* TProcess_setTModule, with the reference the loader passes on.
TProcess_setTModule(a) ==
    /\ act[a].pc = "attach" /\ procLock = Free
    /\ proc' = [proc EXCEPT ![act[a].i].tMod = act[a].tMod]
    /\ tm' = [tm EXCEPT ![act[a].tMod].refs = @ + 1]
    /\ Goto(a, "enable")
    /\ UNCHANGED <<pending, gLock, procLock, loadLock, embLock, restarts, faults, off>>

\* As if the process's answer were ignored.
IContainerModule_enable_unchecked(a) ==
    /\ act[a].pc = "enable"
    /\ act' = [act EXCEPT ![a].pc = "done", ![a].tMod = None]
    /\ tm' = Dropped(act[a].tMod)
    /\ UNCHANGED <<proc, pending, gLock, procLock, loadLock, embLock, restarts, faults, off>>

\* IContainerModule_enable is a call into the process, then registerClient drops
\* its own reference to the TModule.
IContainerModule_enable(a) ==
    /\ act[a].pc = "enable"
    /\ act' = [act EXCEPT ![a].pc = IF proc[act[a].mod].os = "alive" THEN "done" ELSE "fail",
                          ![a].tMod = None]
    /\ tm' = Dropped(act[a].tMod)
    /\ UNCHANGED <<proc, pending, gLock, procLock, loadLock, embLock, restarts, faults, off>>

\* _load's exit after a success: the loader lets go of the TProcess and of the
\* IModule; the client keeps the controller.
LoadSucceeds(a) ==
    LET i == act[a].i IN
    /\ act[a].pc = "done"
    /\ loadLock' = Free
    /\ Put(i)
    /\ act' = [act EXCEPT ![a] = [Idle EXCEPT !.pc = "loaded", !.i = i, !.ok = TRUE,
                                              !.tries = act[a].tries]]
    /\ UNCHANGED <<pending, gLock, procLock, embLock, restarts, faults, off>>

\* _load's exit after a failure: it drops the controller of a process that may
\* be unloaded, which closes it by force, ...
LoadFails(a) ==
    LET i == act[a].i IN
    /\ act[a].pc = "fail"
    /\ loadLock' = IF loadLock = a THEN Free ELSE loadLock
    /\ IF Embedded(i) THEN Goto(a, "drop") /\ UNCHANGED <<tm, procLock>>
       ELSE TProcess_forceClose(a, i, "drop")
    /\ UNCHANGED <<proc, pending, gLock, embLock, restarts, faults, off>>

DropController(a) ==
    /\ act[a].pc = "drop"
    /\ Put(act[a].i)
    /\ Goto(a, "close")
    /\ UNCHANGED <<pending, gLock, procLock, loadLock, embLock, restarts, faults, off>>

\* As if the launched process were not closed.
CloseLaunched_skipped(a) ==
    /\ act[a].pc = "close"
    /\ Goto(a, "putproc")
    /\ UNCHANGED <<proc, tm, pending, gLock, procLock, loadLock, embLock, restarts, faults, off>>

\* ... then closes the process itself ...
CloseLaunched(a) ==
    /\ act[a].pc = "close"
    /\ TProcess_forceClose(a, act[a].i, "putproc")
    /\ UNCHANGED <<proc, pending, gLock, loadLock, embLock, restarts, faults, off>>

\* ... and lets go of the TProcess and the IModule.
LoadEnds(a) ==
    /\ act[a].pc = "putproc" /\ a # "sig"
    /\ Put(act[a].i)
    /\ act' = [act EXCEPT ![a] = [Idle EXCEPT !.pc = "loaded", !.tries = act[a].tries]]
    /\ UNCHANGED <<pending, gLock, procLock, loadLock, embLock, restarts, faults, off>>

----------------------------------------------------------------------------
\* What the callers of _load do with its outcome.

\* A client that loaded from a buffer holds the controller.
Loaded(c) ==
    /\ c \in Clients /\ act[c].pc = "loaded"
    /\ act' = [act EXCEPT ![c] = Idle]
    /\ proc' = IF act[c].ok /\ act[c].i # None
               THEN [proc EXCEPT ![act[c].i].ctrl = TRUE] ELSE proc
    /\ UNCHANGED <<tm, pending, gLock, procLock, loadLock, embLock, restarts, faults, off>>

\* EmbeddedProcessLoader_load drops the controller of the process it loaded,
\* which is never unloaded, and its caller goes on.
EmbeddedLoaded(a) ==
    LET again == [Idle EXCEPT !.pc = "emb", !.tries = act[a].tries - 1] IN
    /\ a \notin Clients /\ act[a].pc = "loaded" /\ embLock = a
    /\ embLock' = Free
    /\ IF act[a].i # None THEN Put(act[a].i) ELSE UNCHANGED <<proc, tm>>
    /\ act' = [act EXCEPT ![a] =
                 CASE a = "auto" -> IF act[a].ok \/ act[a].tries = 1 THEN Idle ELSE again
                   [] OTHER -> IF act[a].ok THEN [Idle EXCEPT !.pc = "open", !.tries = act[a].tries]
                               ELSE Idle]
    /\ UNCHANGED <<pending, gLock, procLock, loadLock, restarts, faults, off>>

\* TEnv_open of an embedded service.
TEnv_open(a) ==
    /\ a \in Openers /\ act[a].pc = "idle"
    /\ act' = [act EXCEPT ![a].pc = "open", ![a].tries = MAX_RELOAD_ATTEMPTS]
    /\ UNCHANGED <<proc, tm, pending, gLock, procLock, loadLock, embLock, restarts, faults, off>>

\* Its loop: open the service from a session, else load its process and retry.
LocalOpen(a) ==
    LET found == \E t \in Launches : tm[t].session /\ proc[tm[t].mod].app = "embedded"
                                        /\ proc[tm[t].mod].os = "alive" IN
    /\ act[a].pc = "open"
    /\ act' = [act EXCEPT ![a] = IF found \/ act[a].tries = 0 THEN Idle
                                 ELSE [Idle EXCEPT !.pc = "emb", !.tries = act[a].tries - 1]]
    /\ found \/ act[a].tries = 0 \/ \E i \in Launches : proc[i].os = "none"
    /\ UNCHANGED <<proc, tm, pending, gLock, procLock, loadLock, embLock, restarts, faults, off>>

\* The client closes the process by force, or lets go of the controller.
ForceClose(c, i) ==
    /\ act[c].pc = "idle" /\ c \in Clients /\ proc[i].ctrl
    /\ procLock = Free
    /\ IF proc[i].zombie
       THEN UNCHANGED <<act, tm, procLock>>
       ELSE /\ tm' = IF proc[i].tMod = None THEN tm
                     ELSE [tm EXCEPT ![proc[i].tMod].session = FALSE]
            /\ procLock' = c
            /\ act' = [act EXCEPT ![c].pc = "remove", ![c].i = i, ![c].ret = "idle"]
    /\ UNCHANGED <<proc, pending, gLock, loadLock, embLock, restarts, faults, off>>

TProcController_release(c, i) ==
    /\ act[c].pc = "idle" /\ c \in Clients /\ proc[i].ctrl
    /\ procLock = Free
    /\ proc' = [proc EXCEPT ![i].ctrl = FALSE]
    /\ IF proc[i].zombie
       THEN act' = [act EXCEPT ![c].pc = "put", ![c].i = i] /\ UNCHANGED <<tm, procLock>>
       ELSE /\ tm' = IF proc[i].tMod = None THEN tm
                     ELSE [tm EXCEPT ![proc[i].tMod].session = FALSE]
            /\ procLock' = c
            /\ act' = [act EXCEPT ![c].pc = "remove", ![c].i = i, ![c].ret = "put"]
    /\ UNCHANGED <<pending, gLock, loadLock, embLock, restarts, faults, off>>

ControllerReleased(c) ==
    /\ act[c].pc = "put"
    /\ Put(act[c].i)
    /\ act' = [act EXCEPT ![c] = Idle]
    /\ UNCHANGED <<pending, gLock, procLock, loadLock, embLock, restarts, faults, off>>
----------------------------------------------------------------------------
\* The root daemon's signal thread.

\* waitpid in _signalHandler: the pid may be used again from here on.
Reap(i) ==
    /\ act["sig"].pc = "idle" /\ proc[i].os = "dead"
    /\ proc' = [proc EXCEPT ![i].os = "reaped"]
    /\ act' = [act EXCEPT !["sig"].pc = "died", !["sig"].i = i]
    /\ UNCHANGED <<tm, pending, gLock, procLock, loadLock, embLock, restarts, faults, off>>

\* TPPM_processDied looks the process up in the list and retains its TProcess.
TPPM_processDied ==
    LET i == act["sig"].i IN
    /\ act["sig"].pc = "died" /\ gLock = Free
    /\ IF proc[i].listed
       THEN /\ gLock' = "sig"
            /\ proc' = [proc EXCEPT ![i].refs = @ + 1]
            /\ Goto("sig", "diedclose")
       ELSE act' = [act EXCEPT !["sig"] = Idle] /\ UNCHANGED <<gLock, proc>>
    /\ UNCHANGED <<tm, pending, procLock, loadLock, embLock, restarts, faults, off>>

DiedClose ==
    /\ act["sig"].pc = "diedclose"
    /\ TProcess_forceClose("sig", act["sig"].i, "notify")
    /\ UNCHANGED <<proc, pending, gLock, loadLock, embLock, restarts, faults, off>>

\* As if the notification were lost on the way.
CTAutoStartManager_notify_lost ==
    /\ act["sig"].pc = "notify"
    /\ Put(act["sig"].i)
    /\ gLock' = Free
    /\ act' = [act EXCEPT !["sig"] = Idle]
    /\ UNCHANGED <<pending, procLock, loadLock, embLock, restarts, faults, off>>

\* It lets go of the TProcess and tells the Mink daemon, whose
\* CTAutoStartManager_notify starts a thread for a service of its list.
CTAutoStartManager_notify ==
    LET i == act["sig"].i IN
    /\ act["sig"].pc = "notify"
    /\ Put(i)
    /\ restarts' = IF AutoStart /\ Embedded(i) THEN restarts + 1 ELSE restarts
    /\ gLock' = Free
    /\ act' = [act EXCEPT !["sig"] = Idle]
    /\ UNCHANGED <<pending, procLock, loadLock, embLock, faults, off>>

\* _reStartCoreService; the threads queue on embLock, so one at a time is shown.
reStartCoreService ==
    /\ act["auto"].pc = "idle" /\ restarts > 0
    /\ restarts' = restarts - 1
    /\ act' = [act EXCEPT !["auto"].pc = "emb", !["auto"].tries = MAX_RETRY_ATTEMPTS]
    /\ UNCHANGED <<proc, tm, pending, gLock, procLock, loadLock, embLock, faults, off>>

\* CTPPM_shutdown, not forced: refused while a downloadable process is listed,
\* else every listed TProcess is let go and the VM goes down.
CTPPM_shutdown ==
    /\ gLock = Free /\ ~off
    /\ \A i \in Launches : proc[i].listed => Embedded(i)
    /\ \A a \in Threads : act[a].pc # "remove"
    /\ proc' = [i \in Launches |->
                  IF ~proc[i].listed THEN proc[i]
                  ELSE [proc[i] EXCEPT !.listed = FALSE, !.refs = @ - 1,
                                       !.os = IF proc[i].refs = 1 THEN "dead" ELSE @]]
    /\ off' = TRUE
    /\ UNCHANGED <<tm, pending, act, gLock, procLock, loadLock, embLock, restarts, faults>>
----------------------------------------------------------------------------
Loader(a) ==
    \/ EmbeddedProcessLoader_load(a) \/ CTPPM_launch(a) \/ getIModuleFromPendingList(a)
    \/ WaitTimesOut(a) \/ TModule_registerTModule(a) \/ TProcess_setTModule(a)
    \/ IContainerModule_enable(a) \/ LoadSucceeds(a) \/ LoadFails(a)
    \/ DropController(a) \/ CloseLaunched(a) \/ LoadEnds(a)
    \/ Loaded(a) \/ EmbeddedLoaded(a) \/ LocalOpen(a)

Client(c) ==
    \/ LoadBuffer(c) \/ ControllerReleased(c)
    \/ \E i \in Launches : ForceClose(c, i) \/ TProcController_release(c, i)

Root ==
    \/ TPPM_processDied \/ DiedClose \/ CTAutoStartManager_notify
    \/ \E i \in Launches : Reap(i)

Next ==
    /\ ~off
    /\ \/ \E a \in Threads : Loader(a) \/ PPM_remove(a) \/ LaunchFails(a)
       \/ \E c \in Clients : Client(c)
       \/ \E a \in Openers : TEnv_open(a)
       \/ Root \/ reStartCoreService \/ CTPPM_shutdown
       \/ \E i \in Launches : RegisterIModule(i) \/ Exits(i) \/ Dies(i)

Spec == Init /\ [][Next]_vars

\* Threads that can go on do, a running process registers its module and ends
\* when told to; nothing obliges a client, a fault or a shutdown.
Fairness ==
    /\ \A a \in Threads : WF_vars(~off /\ (Loader(a) \/ PPM_remove(a)))
    /\ \A i \in Launches : WF_vars(~off /\ (RegisterIModule(i) \/ Exits(i)))
    /\ WF_vars(~off /\ Root)
    /\ WF_vars(~off /\ reStartCoreService)
----------------------------------------------------------------------------
\* The loader threads that still work on process i.
Loading(i) == \E a \in Threads \ {"sig"} : act[a].i = i

TypeOK ==
    /\ \A i \in Launches :
         /\ proc[i].os \in {"none", "alive", "dead", "reaped"}
         /\ proc[i].refs \in 0 .. 5
         /\ tm[i].refs \in 0 .. 2
         /\ proc[i].tMod \in 0 .. MaxLaunches
    /\ gLock \in {Free, "sig"}
    /\ procLock \in Threads \cup {Free}

\* The module that the TModule of a process serves is that process's own, however
\* late an earlier process registered (getIModuleFromPendingList, registerClient).
ModuleOfItsProcess ==
    \A i \in Launches : proc[i].tMod # None =>
        (tm[proc[i].tMod].mod = i /\ proc[i].tMod = i)

\* Once the signal thread is done with a dead process and no loader works on it,
\* no hub session offers its services any more, even when it died between its
\* launch and setTModule.
DeadServeNoMore ==
    \A i \in Launches :
        (proc[i].os = "reaped" /\ act["sig"].i # i /\ ~Loading(i) /\ ~off) =>
            (~proc[i].listed /\ \A t \in Launches : tm[t].session => tm[t].mod # i)

\* A process in the root daemon's list keeps others of its kind from being
\* launched (ITPPM_ERROR_PROC_ALREADY_LOADED), so once nobody works on it a live
\* session serves it or it is dead and about to be reaped.
ListedIsServed ==
    \A i \in Launches :
        (proc[i].listed /\ proc[i].os = "alive" /\ ~Loading(i) /\ act["sig"].i # i) =>
            \E t \in Launches : tm[t].session /\ tm[t].mod = i

\* An auto-start service that died is served again, through the death handler's
\* notification and the restart thread, unless the VM goes down.
DiedIsRestarted ==
    \A i \in Launches :
        (proc[i].os = "reaped" /\ Embedded(i) /\ AutoStart) ~>
            (off \/ \E t \in Launches : tm[t].session /\ proc[tm[t].mod].os = "alive")
=============================================================================
