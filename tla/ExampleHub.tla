----------------------------- MODULE ExampleHub -----------------------------
(***************************************************************************)
(* The hub of libmink/Hub/ExampleHub: applications register modules with   *)
(* it under a UID, clients open services by UID, and what is not found     *)
(* here is asked of the hubs of the other VMs, over connections that are   *)
(* made when they are first needed and again when they are found down.     *)
(* Sources: ServiceManager.cpp, CRegisterModule.cpp,                       *)
(* ServiceModuleOpener.cpp, ServiceOpener.cpp and ExampleHub.cpp.          *)
(***************************************************************************)
EXTENDS Integers, FiniteSets, FiniteSetsExt

CONSTANTS
    Clients,      \* threads that serve the opens of clients of this VM
    Visitors,     \* threads that serve the opens of other VMs and of old clients
    Slots,        \* the size of the service table, MAX_SERVICE
    Uids,         \* UIDs
    RemoteUids,   \* those that some other VM's hub serves
    Vms,          \* VMs that the hub may run in
    MaxDowns,     \* bound on how often a remote hub goes down
    MaxRegs       \* bound on registrations

VARIABLES
    vm,             \* PVM, QTVM or OEMVM
    phase,          \* what of the hub is started
    services,       \* slot -> the UID and the module's own UID, 0 when free
    lock,           \* the service manager's mutex: its holder, or "none"
    remoteConn,     \* remote hub -> its connection, 0 when there is none
    remoteConnNum,  \* how many there are said to be
    mutex,          \* the opener's mutex
    alive,          \* remote hub -> the connection that it serves now, 0 when it is down
    pc, id, slot, hub, conn, ret,  \* an open: where it is, UID, slot, hub asked, its
                                   \* connection, the module answered
    made, downs, regs

vars == <<vm, phase, services, lock, remoteConn, remoteConnNum, mutex, alive, pc, id, slot, hub, conn, ret,
          made, downs, regs>>

Threads == Clients \cup Visitors

(* The addresses of main: there are two remote hubs, and but in the QTVM   *)
(* the second one's address is empty.                                      *)
remoteHubNum == 2
Hubs == 1..remoteHubNum
Absent == IF vm = "QTVM" THEN {} ELSE {2}
Free == [uid |-> 0, mod |-> 0]

TypeOK ==
    /\ vm \in Vms /\ phase \in {"extern", "aside", "intern", "serving", "ended"}
    /\ services \in [1..Slots -> [uid : Uids \cup {0}, mod : Uids \cup {0}]]
    /\ lock \in Threads \cup {"none"} /\ mutex \in Threads \cup {"none"}
    /\ remoteConn \in [Hubs -> Nat] /\ remoteConnNum \in Int /\ alive \in [Hubs -> Nat]
    /\ pc \in [Threads -> {"idle", "local", "module", "refresh", "connect", "counted", "ask", "asked",
                           "ok", "failed"}]
    /\ id \in [Threads -> Uids] /\ slot \in [Threads -> 0..Slots]
    /\ hub \in [Threads -> 1..(remoteHubNum + 1)] /\ ret \in [Threads -> Uids \cup {0}]

Init ==
    /\ vm \in Vms /\ phase = "extern"
    /\ services = [i \in 1..Slots |-> Free] /\ lock = "none" /\ mutex = "none"
    /\ remoteConn = [h \in Hubs |-> 0] /\ remoteConnNum = 0
    /\ alive = [h \in Hubs |-> 0]
    /\ pc = [t \in Threads |-> "idle"] /\ id = [t \in Threads |-> Min(Uids)]
    /\ slot = [t \in Threads |-> 0] /\ hub = [t \in Threads |-> 1] /\ conn = [t \in Threads |-> 0]
    /\ ret = [t \in Threads |-> 0] /\ made = 0 /\ downs = 0 /\ regs = 0

-----------------------------------------------------------------------------
(* The service manager.                                                    *)

ServiceManager_isRegistered(uid) == \E i \in 1..Slots : services[i].uid = uid

(* CRegisterModule_registerApp, ServiceManager_registerModule: refused if  *)
(* the UID is registered or no slot is free.                               *)
ServiceManager_registerModule(uid) ==
    /\ phase = "serving" /\ regs < MaxRegs /\ regs' = regs + 1 /\ lock = "none"
    /\ LET empty == {i \in 1..Slots : services[i].uid = 0}
       IN IF ServiceManager_isRegistered(uid) \/ empty = {} THEN UNCHANGED services
          ELSE services' = [services EXCEPT ![Min(empty)] = [uid |-> uid, mod |-> uid]]
    /\ UNCHANGED <<vm, phase, lock, remoteConn, remoteConnNum, mutex, alive, pc, id, slot, hub, conn, ret, made, downs>>

(* CRegisterModule_deregisterApp, ServiceManager_deregister.               *)
ServiceManager_deregister(uid) ==
    /\ ServiceManager_isRegistered(uid) /\ lock = "none"
    /\ services' = [i \in 1..Slots |-> IF services[i].uid = uid THEN Free ELSE services[i]]
    /\ UNCHANGED <<vm, phase, lock, remoteConn, remoteConnNum, mutex, alive, pc, id, slot, hub, conn, ret, made,
                   downs, regs>>

(* ServiceManager_getService finds the slot; the mutex is held while the   *)
(* module is asked.                                                        *)
FindService_unlocked(t) ==
    /\ pc[t] = "local" /\ lock = "none" /\ UNCHANGED lock
    /\ LET found == {i \in 1..Slots : services[i].uid = id[t]}
       IN IF found = {} THEN pc' = [pc EXCEPT ![t] = "refresh"] /\ UNCHANGED slot
          ELSE slot' = [slot EXCEPT ![t] = Min(found)] /\ pc' = [pc EXCEPT ![t] = "module"]
    /\ UNCHANGED <<vm, phase, services, remoteConn, remoteConnNum, mutex, alive, id, hub, conn, ret, made, downs, regs>>
FindService(t) ==
    /\ pc[t] = "local" /\ lock = "none"
    /\ LET found == {i \in 1..Slots : services[i].uid = id[t]}
       IN IF found = {} THEN pc' = [pc EXCEPT ![t] = "refresh"] /\ UNCHANGED <<slot, lock>>
          ELSE /\ slot' = [slot EXCEPT ![t] = Min(found)] /\ lock' = t
               /\ pc' = [pc EXCEPT ![t] = "module"]
    /\ UNCHANGED <<vm, phase, services, remoteConn, remoteConnNum, mutex, alive, id, hub, conn, ret, made, downs, regs>>

(* IModule_open of the module: a call to the application's process, which  *)
(* may refuse.                                                             *)
IModule_open(t) ==
    /\ pc[t] = "module" /\ lock' = (IF lock = t THEN "none" ELSE lock)
    /\ \/ /\ ret' = [ret EXCEPT ![t] = services[slot[t]].mod] /\ pc' = [pc EXCEPT ![t] = "ok"]
       \/ pc' = [pc EXCEPT ![t] = "refresh"] /\ UNCHANGED ret
    /\ slot' = [slot EXCEPT ![t] = 0]
    /\ UNCHANGED <<vm, phase, services, remoteConn, remoteConnNum, mutex, alive, id, hub, conn, made, downs, regs>>

-----------------------------------------------------------------------------
(* The openers.                                                            *)

(* ServiceModuleOpener_open and ServiceOpener_open: the caller's           *)
(* credentials are wrapped, which fails only for want of memory; then the  *)
(* service manager is asked.                                               *)
Open(t, uid) ==
    /\ phase \in (IF t \in Clients THEN {"serving"} ELSE {"aside", "intern", "serving"})
    /\ pc[t] = "idle" /\ pc' = [pc EXCEPT ![t] = "local"] /\ id' = [id EXCEPT ![t] = uid]
    /\ ret' = [ret EXCEPT ![t] = 0]
    /\ UNCHANGED <<vm, phase, services, lock, remoteConn, remoteConnNum, mutex, alive, slot, hub, conn, made, downs, regs>>

(* An opener that serves other VMs, and ServiceOpener, go no further.      *)
NotFound(t) ==
    /\ pc[t] = "refresh" /\ t \in Visitors /\ pc' = [pc EXCEPT ![t] = "failed"]
    /\ UNCHANGED <<vm, phase, services, lock, remoteConn, remoteConnNum, mutex, alive, id, slot, hub, conn, ret,
                   made, downs, regs>>

(* ServiceModuleOpener_refreshRemoteConn, under the opener's mutex: one    *)
(* hub after the other that has no connection.                             *)
RefreshLock(t) ==
    /\ pc[t] = "refresh" /\ t \in Clients /\ mutex = "none"
    /\ IF remoteHubNum # 0 /\ remoteConnNum # remoteHubNum
       THEN mutex' = t /\ pc' = [pc EXCEPT ![t] = "connect"]
       ELSE pc' = [pc EXCEPT ![t] = "counted"] /\ UNCHANGED mutex
    /\ hub' = [hub EXCEPT ![t] = 1]
    /\ UNCHANGED <<vm, phase, services, lock, remoteConn, remoteConnNum, alive, id, slot, conn, ret, made, downs, regs>>

MinkIPC_connect_common(t) ==
    LET h == hub[t]
    IN /\ pc[t] = "connect"
       /\ \/ /\ h \in Hubs /\ hub' = [hub EXCEPT ![t] = @ + 1] /\ UNCHANGED <<pc, mutex>>
             /\ IF remoteConn[h] = 0 /\ alive[h] # 0
                THEN /\ remoteConn' = [remoteConn EXCEPT ![h] = alive[h]]
                     /\ remoteConnNum' = remoteConnNum + 1
                ELSE UNCHANGED <<remoteConn, remoteConnNum>>
          \/ /\ h \notin Hubs /\ pc' = [pc EXCEPT ![t] = "counted"] /\ mutex' = "none"
             /\ UNCHANGED <<remoteConn, remoteConnNum, hub>>
       /\ UNCHANGED <<vm, phase, services, lock, alive, id, slot, conn, ret, made, downs, regs>>

(* Whether there is any connection is looked up after the mutex is given   *)
(* back.                                                                   *)
RefreshReturns(t) ==
    /\ pc[t] = "counted" /\ pc' = [pc EXCEPT ![t] = IF remoteConnNum = 0 THEN "failed" ELSE "ask"]
    /\ hub' = [hub EXCEPT ![t] = 1]
    /\ UNCHANGED <<vm, phase, services, lock, remoteConn, remoteConnNum, mutex, alive, id, slot, conn, ret, made,
                   downs, regs>>

(* The rest of ServiceModuleOpener_open: the hubs in turn, without the     *)
(* mutex.                                                                  *)
AskRemote(t) ==
    LET h == hub[t]
    IN /\ pc[t] = "ask"
       /\ \/ h \notin Hubs /\ pc' = [pc EXCEPT ![t] = "failed"] /\ UNCHANGED <<hub, conn>>
          \/ /\ h \in Hubs /\ remoteConn[h] = 0 /\ hub' = [hub EXCEPT ![t] = @ + 1] /\ UNCHANGED <<pc, conn>>
          \/ /\ h \in Hubs /\ remoteConn[h] # 0 /\ conn' = [conn EXCEPT ![t] = remoteConn[h]]
             /\ pc' = [pc EXCEPT ![t] = "asked"] /\ UNCHANGED hub
       /\ UNCHANGED <<vm, phase, services, lock, remoteConn, remoteConnNum, mutex, alive, id, slot, ret, made, downs, regs>>

(* The answer: the service, NOT_FOUND, or that the connection is down.     *)
Dropped(h) == remoteConn' = [remoteConn EXCEPT ![h] = 0]
RemoteAnswers(t) ==
    LET h == hub[t]
        up == conn[t] = alive[h]
    IN /\ pc[t] = "asked" /\ conn' = [conn EXCEPT ![t] = 0]
       /\ \/ /\ up /\ id[t] \in RemoteUids /\ ret' = [ret EXCEPT ![t] = id[t]]
             /\ pc' = [pc EXCEPT ![t] = "ok"] /\ UNCHANGED <<remoteConn, remoteConnNum, hub>>
          \/ /\ up /\ id[t] \notin RemoteUids /\ pc' = [pc EXCEPT ![t] = "ask"]
             /\ hub' = [hub EXCEPT ![t] = @ + 1] /\ UNCHANGED <<remoteConn, remoteConnNum, ret>>
          \/ /\ ~up /\ remoteConnNum' = remoteConnNum - 1 /\ Dropped(h)
             /\ pc' = [pc EXCEPT ![t] = "ask"] /\ hub' = [hub EXCEPT ![t] = @ + 1] /\ UNCHANGED ret
       /\ UNCHANGED <<vm, phase, services, lock, mutex, alive, id, slot, made, downs, regs>>

Return(t) ==
    /\ pc[t] \in {"ok", "failed"} /\ pc' = [pc EXCEPT ![t] = "idle"]
    /\ UNCHANGED <<vm, phase, services, lock, remoteConn, remoteConnNum, mutex, alive, id, slot, hub, conn, ret,
                   made, downs, regs>>

-----------------------------------------------------------------------------
(* The hubs of the other VMs come up and go down; every time they come up  *)
(* their connections are new ones.                                         *)
HubUp(h) ==
    /\ h \notin Absent /\ alive[h] = 0 /\ made' = made + 1 /\ alive' = [alive EXCEPT ![h] = made']
    /\ UNCHANGED <<vm, phase, services, lock, remoteConn, remoteConnNum, mutex, pc, id, slot, hub, conn, ret, downs, regs>>
HubDown(h) ==
    /\ alive[h] # 0 /\ downs < MaxDowns /\ downs' = downs + 1 /\ alive' = [alive EXCEPT ![h] = 0]
    /\ UNCHANGED <<vm, phase, services, lock, remoteConn, remoteConnNum, mutex, pc, id, slot, hub, conn, ret, made, regs>>

-----------------------------------------------------------------------------
(* main starts the service for the VM across, for the one aside in the     *)
(* QTVM, and for its own VM; if one does not start it cleans up and ends.  *)
StartService ==
    /\ phase \in {"extern", "aside", "intern"}
    /\ \/ /\ phase' = (CASE phase = "extern" -> (IF vm = "QTVM" THEN "aside" ELSE "intern")
                        [] phase = "aside" -> "intern" [] phase = "intern" -> "serving")
          /\ UNCHANGED pc
       \/ phase' = "ended" /\ pc' = [t \in Threads |-> "idle"]
    /\ UNCHANGED <<vm, services, lock, remoteConn, remoteConnNum, mutex, alive, id, slot, hub, conn, ret,
                   made, downs, regs>>

-----------------------------------------------------------------------------
OpenStep(t) ==
    \/ FindService(t) \/ IModule_open(t) \/ NotFound(t) \/ RefreshLock(t)
    \/ MinkIPC_connect_common(t) \/ RefreshReturns(t) \/ AskRemote(t) \/ RemoteAnswers(t) \/ Return(t)
ClientOpens(t) == \E uid \in Uids : Open(t, uid)
Next ==
    \/ \E t \in Threads : ClientOpens(t) \/ OpenStep(t)
    \/ \E uid \in Uids : ServiceManager_registerModule(uid) \/ ServiceManager_deregister(uid)
    \/ \E h \in Hubs : HubUp(h) \/ HubDown(h)
    \/ StartService

Spec == Init /\ [][Next]_vars

(* Threads run, clients go on opening every service, and a hub that is     *)
(* down is started again.                                                  *)
Fairness ==
    /\ \A t \in Threads : WF_vars(OpenStep(t)) /\ SF_vars(FindService(t)) /\ SF_vars(RefreshLock(t))
    /\ \A t \in Clients, uid \in Uids : SF_vars(Open(t, uid))
    /\ \A h \in Hubs : WF_vars(HubUp(h))

-----------------------------------------------------------------------------
(* An open that succeeds hands out a service of the module that is         *)
(* registered under the UID asked for: the table cannot change between     *)
(* finding a module and asking it.                                         *)
AnswersItsUid == \A t \in Threads : pc[t] = "ok" => ret[t] = id[t]

(* What keeps it: an open that is at the module holds the manager's mutex  *)
(* and has the slot of its UID.                                            *)
SlotHeld ==
    /\ services \in [1..Slots -> [uid : Uids \cup {0}, mod : Uids \cup {0}]]
    /\ \A i \in 1..Slots : services[i].mod = services[i].uid
    /\ pc \in [Threads -> {"idle", "local", "module", "refresh", "connect", "counted", "ask",
                           "asked", "ok", "failed"}]
    /\ id \in [Threads -> Uids] /\ slot \in [Threads -> 0..Slots]
    /\ ret \in [Threads -> Uids \cup {0}]
    /\ \A t \in Threads : pc[t] = "module" =>
           lock = t /\ slot[t] \in 1..Slots /\ services[slot[t]].uid = id[t]

(* A service of another VM goes on being found: after its hub was down and *)
(* is up again, connections are made anew and its opens succeed again.     *)
RemoteFoundAgain ==
    \A t \in Clients, uid \in RemoteUids :
        [](phase = "serving" => <>(pc[t] = "ok" /\ id[t] = uid))
=============================================================================
