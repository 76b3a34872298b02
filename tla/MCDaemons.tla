------------------------------ MODULE MCDaemons -----------------------------
(* What has to come to an end or come back: the callback threads of the    *)
(* SMC library, the listeners' callback objects, the loaders of processes, *)
(* the daemons of the VM, the pre-launcher and the example hub. They share *)
(* no state: a behaviour follows one of them, the subject, and the others  *)
(* stay as they begin.                                                     *)
EXTENDS Integers, Sequences, FiniteSets, FiniteSetTheorems, WellFoundedInduction, TLAPS

CONSTANTS
    Callers,          \* ListenerCBO: threads of the secure world,
    Services,         \* listener libraries,
    Listener,         \* the one that is followed
    MaxCalls,         \* and a bound on calls
    Launchers,        \* PreLauncher: threads,
    Images,           \* what they are given to launch
    MaxLaunches,      \* and bounds on launches
    MaxCrashes,       \* and crashes
    Clients,          \* ExampleHub: threads for clients
    Visitors,         \* and for other VMs,
    HubSlots,         \* the size of the service table,
    Uids,             \* UIDs,
    RemoteUids,       \* those of other hubs,
    Vms,              \* where the hub runs
    MaxDowns,         \* and bounds on what goes down
    MaxRegs,          \* and on registrations
    Workers,          \* TZCom: accept threads,
    MaxSlots,         \* slots of the local object table,
    MaxInvokes,       \* and bounds on calls,
    MaxRefs,          \* references,
    MaxTries,         \* retries,
    MaxMems,          \* memory objects
    MaxFaults         \* and failures

(* Threads are not named as the free locks are; a version is a number; a   *)
(* UID is not that of a free slot.                                         *)
ASSUME DaemonsAssumption ==
    /\ "free" \notin Callers
    /\ "none" \notin Launchers /\ Images # {} /\ \A i \in Images : i.ver \in Nat
    /\ HubSlots \in Nat /\ Uids # {} /\ Uids \subseteq Nat \ {0} /\ "none" \notin Clients \cup Visitors

VARIABLES subject, li_pc, li_calls, li_busy, li_mutex, li_queue, li_signalled, li_shared,
    li_dangling, li_stuck, li_registered, li_held, li_qtee, li_mngr, pl_up, pl_gLock,
    pl_pc, pl_image, pl_found, pl_stored, pl_launched, pl_launches, pl_crashes, eh_vm,
    eh_phase, eh_services, eh_lock, eh_remoteConn, eh_remoteConnNum, eh_mutex, eh_alive,
    eh_pc, eh_id, eh_slot, eh_hub, eh_conn, eh_ret, eh_made, eh_downs, eh_regs,
    tz_mLocObjTab, tz_refs, tz_known, tz_memRegions, tz_memKnown, tz_mems, tz_worker,
    tz_readers, tz_writer, tz_serverFd, tz_ready, tz_descs, tz_client, tz_calls, tz_faults,
    pr_proc, pr_tm, pr_pending, pr_act, pr_gLock, pr_procLock, pr_loadLock, pr_embLock,
    pr_restarts, pr_faults, pr_off, vm_starting, vm_started, vm_pid, vm_pPid, vm_zombies,
    vm_sock, vm_event, vm_pc, vm_retry, vm_isReconnect, vm_conn, vm_notifier, vm_closed,
    vm_loader, vm_served, vm_faults

(* The images offered to the pre-launcher: metadata in the hash segment of *)
(* an old image, in a section of a new one, missing or out of bounds.      *)
Seg(f, t, ok) == [flag |-> f, type |-> t, fits |-> ok]
Old == <<Seg("CODE", "LOAD", TRUE), Seg("MANIFEST", "NULL", TRUE), Seg("TPROCESS", "LOAD", TRUE)>>
New == <<Seg("CODE", "INTERP", TRUE), Seg("CODE", "RELRO", TRUE)>>
NewSecs == <<[name |-> ".text", fits |-> TRUE], [name |-> ".mink_metadata", fits |-> TRUE]>>
Img(segs, secs, ver) ==
    [magic |-> TRUE, headers |-> TRUE, segs |-> segs, secs |-> secs, name |-> "a", ver |-> ver,
     rot |-> "OEM_SIGNED", cid |-> "DL_OEM_SIGNED", neverUnload |-> FALSE]
Offered ==
    {Img(Old, <<>>, 1), Img(New, NewSecs, 2), Img(New, NewSecs, 3),
     [Img(New, NewSecs, 3) EXCEPT !.rot = "QTI_SIGNED"],
     [Img(New, NewSecs, 0) EXCEPT !.cid = "EMBEDDED"],
     [Img(New, NewSecs, 1) EXCEPT !.headers = FALSE], Img(New, <<>>, 1), Img(Tail(New), NewSecs, 1),
     Img(<<Seg("MANIFEST", "NULL", FALSE)>>, <<>>, 1)}

-----------------------------------------------------------------------------
(* Callers of one listener.                                                *)
LiVars == <<li_pc, li_calls, li_busy, li_mutex, li_queue, li_signalled, li_shared,
        li_dangling, li_stuck, li_registered, li_held, li_qtee, li_mngr>>
Li == INSTANCE ListenerCBO WITH
    pc <- li_pc, calls <- li_calls, busy <- li_busy, mutex <- li_mutex, queue <- li_queue,
    signalled <- li_signalled, shared <- li_shared, dangling <- li_dangling,
    stuck <- li_stuck, registered <- li_registered, held <- li_held, qtee <- li_qtee,
    mngr <- li_mngr, Callers <- Callers, Services <- Services, Listener <- Listener,
    MaxCalls <- MaxCalls

(* One request at a time, for any number of callers: the compare-and-      *)
(* exchange of CListenerCBO_request lets in only who finds the flag free,  *)
(* and only who set it clears it.                                          *)
LEMMA ListenerServesOne == Li!Spec => []Li!OneRequest
<1>1. Li!Init => Li!BusyIsOwned
  BY Zenon DEF Li!Init, Li!BusyIsOwned
<1>2. Li!BusyIsOwned /\ [Li!Next]_(Li!vars) => Li!BusyIsOwned'
  <2> SUFFICES ASSUME Li!BusyIsOwned, [Li!Next]_(Li!vars)
               PROVE  Li!BusyIsOwned'
    BY Zenon
  <2> USE DaemonsAssumption DEF Li!BusyIsOwned, Li!Moves, Li!Calls
  <2>1. ASSUME NEW c \in Callers, Li!Request(c) PROVE Li!BusyIsOwned'
    BY <2>1 DEF Li!Request
  <2>2. ASSUME NEW c \in Callers, Li!Wait(c) PROVE Li!BusyIsOwned'
    BY <2>2, Zenon DEF Li!Wait
  <2>3. ASSUME NEW c \in Callers, Li!Dispatch(c) PROVE Li!BusyIsOwned'
    BY <2>3, Zenon DEF Li!Dispatch
  <2>4. ASSUME NEW c \in Callers, Li!SetFree(c) PROVE Li!BusyIsOwned'
    BY <2>4, Zenon DEF Li!SetFree
  <2>5. ASSUME NEW c \in Callers, Li!signal_waiting_listener(c) PROVE Li!BusyIsOwned'
    BY <2>5, Zenon DEF Li!signal_waiting_listener
  <2>6. ASSUME NEW c \in Callers, Li!Enqueue(c) PROVE Li!BusyIsOwned'
    BY <2>6, Zenon DEF Li!Enqueue
  <2>7. ASSUME NEW c \in Callers, Li!WakesUp(c) \/ Li!TimesOut(c) \/ Li!WakesSpuriously(c)
        PROVE  Li!BusyIsOwned'
    BY <2>7, Zenon DEF Li!WakesUp, Li!TimesOut, Li!WakesSpuriously, Li!Leaves
  <2>8. CASE \/ \E s \in Services : Li!init_listener_svc(s) \/ \E ok \in BOOLEAN : Li!init(s, ok)
             \/ Li!started \/ Li!stop_listeners_services
    BY <2>8, Zenon DEF Li!init_listener_svc, Li!init, Li!started, Li!stop_listeners_services, Li!cvars
  <2>9. CASE UNCHANGED Li!vars
    BY <2>9, Zenon DEF Li!vars, Li!cvars
  <2> QED
    BY <2>1, <2>2, <2>3, <2>4, <2>5, <2>6, <2>7, <2>8, <2>9, Zenon DEF Li!Next, Li!Step
<1>3. Li!BusyIsOwned => Li!OneRequest
  <2> SUFFICES ASSUME Li!BusyIsOwned
               PROVE  Li!OneRequest
    BY Zenon
  <2> DEFINE S == {c \in Callers : li_pc[c] \in {"copied", "dispatched"}}
  <2>1. S \subseteq {li_busy}
    BY Zenon DEF Li!BusyIsOwned
  <2>2. IsFiniteSet({li_busy}) /\ Cardinality({li_busy}) = 1
    BY FS_Singleton, Zenon
  <2>3. Cardinality(S) <= 1
    BY <2>1, <2>2, FS_Subset, Zenon
  <2> QED
    BY <2>3, Zenon DEF Li!OneRequest, Li!Cardinality, Cardinality
<1> QED
  BY <1>1, <1>2, <1>3, PTL DEF Li!Spec

-----------------------------------------------------------------------------
(* Launches at a time, the daemon dying, memory for a DistId.              *)
PlVars == <<pl_up, pl_gLock, pl_pc, pl_image, pl_found, pl_stored, pl_launched,
        pl_launches, pl_crashes>>
Pl == INSTANCE PreLauncher WITH
    up <- pl_up, gLock <- pl_gLock, pc <- pl_pc, image <- pl_image, found <- pl_found,
    stored <- pl_stored, launched <- pl_launched, launches <- pl_launches,
    crashes <- pl_crashes, Threads <- Launchers, Images <- Images,
    MaxLaunches <- MaxLaunches, MaxCrashes <- MaxCrashes, HeapMayFail <- FALSE

(* VersionsOrdered is kept by every step while there is memory for a       *)
(* DistId: the exit without it unlocks a mutex another launch may hold.    *)
LEMMA VersionsStayOrdered ==
    ASSUME Pl!VersionsOrdered, [Pl!Next]_(Pl!vars)
    PROVE  Pl!VersionsOrdered'
<1> USE DaemonsAssumption DEF Pl!VersionsOrdered, Pl!Past, Pl!At, Pl!Goto, Pl!Return, Pl!Downloaded
<1>0. \A i \in Images : i.name \in Pl!Names
  BY Zenon DEF Pl!Names
<1>1. ASSUME NEW t \in Launchers, Pl!Launch(t) PROVE Pl!VersionsOrdered'
  BY <1>1 DEF Pl!Launch
<1>2. ASSUME NEW t \in Launchers, Pl!Lock(t) PROVE Pl!VersionsOrdered'
  BY <1>2 DEF Pl!Lock
<1>3. ASSUME NEW t \in Launchers, Pl!_authTP(t) PROVE Pl!VersionsOrdered'
  BY <1>3 DEF Pl!_authTP
<1>4. ASSUME NEW t \in Launchers, Pl!_parseElf(t) PROVE Pl!VersionsOrdered'
  BY <1>4 DEF Pl!_parseElf
<1>5. ASSUME NEW t \in Launchers, Pl!QueryVersion(t) PROVE Pl!VersionsOrdered'
  BY <1>0, <1>5 DEF Pl!QueryVersion
<1>6. ASSUME NEW t \in Launchers, Pl!StoreVersion(t) PROVE Pl!VersionsOrdered'
  BY <1>0, <1>6 DEF Pl!StoreVersion
<1>7. ASSUME NEW t \in Launchers, Pl!FindProgram(t) PROVE Pl!VersionsOrdered'
  BY <1>7 DEF Pl!FindProgram
<1>8. ASSUME NEW t \in Launchers, Pl!ITPPM_launch(t) PROVE Pl!VersionsOrdered'
  BY <1>0, <1>8 DEF Pl!ITPPM_launch
<1>9. CASE Pl!Start \/ Pl!Crash
  BY <1>9 DEF Pl!Start, Pl!Crash
<1>10. CASE UNCHANGED Pl!vars
  BY <1>10, Zenon DEF Pl!vars
<1>11. ASSUME NEW t \in Launchers PROVE ~Pl!NoDistId(t)
  BY Zenon DEF Pl!NoDistId
<1> QED
  BY <1>1, <1>2, <1>3, <1>4, <1>5, <1>6, <1>7, <1>8, <1>9, <1>10, <1>11, Zenon DEF Pl!Next, Pl!Step

(* No rollback, for any threads, images, launches and crashes, as long as  *)
(* there is memory for a DistId.                                           *)
LEMMA LaunchesInOrder == Pl!Spec => Pl!NoRollback
<1> USE DaemonsAssumption
<1>1. Pl!Init => Pl!VersionsOrdered
  BY DEF Pl!Init, Pl!VersionsOrdered, Pl!Past, Pl!SomeImage, Pl!Names
<1>2. Pl!VersionsOrdered /\ [Pl!Next]_(Pl!vars) => Pl!VersionsOrdered'
  BY VersionsStayOrdered, Zenon
<1>3. Pl!VersionsOrdered /\ [Pl!Next]_(Pl!vars) =>
          [\A n \in Pl!Names : pl_launched'[n] >= pl_launched[n]]_(Pl!vars)
  <2> SUFFICES ASSUME Pl!VersionsOrdered, Pl!Next
               PROVE  \A n \in Pl!Names : pl_launched'[n] >= pl_launched[n]
    BY Zenon
  <2>1. \A i \in Images : i.name \in Pl!Names
    BY Zenon DEF Pl!Names
  <2>2. CASE UNCHANGED pl_launched
    BY <2>2 DEF Pl!VersionsOrdered
  <2>3. ASSUME NEW t \in Launchers, Pl!ITPPM_launch(t)
        PROVE  \A n \in Pl!Names : pl_launched'[n] >= pl_launched[n]
    BY <2>1, <2>3 DEF Pl!VersionsOrdered, Pl!ITPPM_launch, Pl!At, Pl!Downloaded
  <2> QED
    BY <2>2, <2>3, Zenon DEF Pl!Next, Pl!Step, Pl!Start, Pl!Crash, Pl!Launch, Pl!NoDistId, Pl!Lock,
                      Pl!_authTP, Pl!_parseElf, Pl!QueryVersion, Pl!StoreVersion, Pl!FindProgram
<1> QED
  BY <1>1, <1>2, <1>3, PTL DEF Pl!Spec, Pl!NoRollback

-----------------------------------------------------------------------------
(* Clients and visitors of a hub, and hubs of other VMs that go down.      *)
EhVars == <<eh_vm, eh_phase, eh_services, eh_lock, eh_remoteConn, eh_remoteConnNum,
        eh_mutex, eh_alive, eh_pc, eh_id, eh_slot, eh_hub, eh_conn, eh_ret, eh_made,
        eh_downs, eh_regs>>
Eh == INSTANCE ExampleHub WITH
    vm <- eh_vm, phase <- eh_phase, services <- eh_services, lock <- eh_lock,
    remoteConn <- eh_remoteConn, remoteConnNum <- eh_remoteConnNum, mutex <- eh_mutex,
    alive <- eh_alive, pc <- eh_pc, id <- eh_id, slot <- eh_slot, hub <- eh_hub,
    conn <- eh_conn, ret <- eh_ret, made <- eh_made, downs <- eh_downs, regs <- eh_regs,
    Clients <- Clients, Visitors <- Visitors, Slots <- HubSlots, Uids <- Uids,
    RemoteUids <- RemoteUids, Vms <- Vms, MaxDowns <- MaxDowns, MaxRegs <- MaxRegs

(* The least of some natural numbers is one of them.                       *)
LEMMA MinIsMember ==
    ASSUME NEW S \in SUBSET Nat, S # {}
    PROVE  Eh!Min(S) \in S
<1> DEFINE R == {p \in Nat \X Nat : p[1] < p[2]}
<1>1. IsWellFoundedOn(R, Nat)
  BY NatLessThanWellFounded, Zenon DEF OpToRel
<1>2. PICK x \in S : \A y \in S : ~(<<y, x>> \in R)
  <2> HIDE DEF R
  <2> QED BY <1>1, WFMin
<1>3. ASSUME NEW y \in S PROVE x <= y
  <2>1. ~(<<y, x>> \in R)
    BY <1>2, Zenon
  <2>2. <<y, x>> \in Nat \X Nat /\ <<y, x>>[1] = y /\ <<y, x>>[2] = x
    BY Zenon
  <2>3. ~(y < x)
    BY <2>1, <2>2, Zenon
  <2> QED
    BY <2>3
<1> QED
  BY <1>3, Zenon DEF Eh!Min

(* An open that succeeds hands out a service of the UID asked for, for any *)
(* threads, slots and UIDs (ServiceManager_getService keeps its mutex      *)
(* while it asks the module).                                              *)
LEMMA HubAnswersItsUid == Eh!Spec => []Eh!AnswersItsUid
<1>0. HubSlots \in Nat /\ Uids \subseteq Nat \ {0} /\ Uids # {} /\ "none" \notin Eh!Threads
  BY DaemonsAssumption, Zenon DEF Eh!Threads
<1> USE <1>0
<1> DEFINE Inv == Eh!SlotHeld /\ Eh!AnswersItsUid
<1> USE DEF Eh!SlotHeld, Eh!AnswersItsUid
<1>1. Eh!Init => Inv
  BY MinIsMember DEF Eh!Init, Eh!Free
<1>2. Inv /\ [Eh!Next]_(Eh!vars) => Inv'
  <2> SUFFICES ASSUME Inv, [Eh!Next]_(Eh!vars)
               PROVE  Inv'
    BY Zenon
  <2>1. ASSUME NEW t \in Eh!Threads, NEW uid \in Uids, Eh!Open(t, uid) PROVE Inv'
    BY <2>1, Zenon DEF Eh!Open
  <2>2. ASSUME NEW t \in Eh!Threads, Eh!FindService(t) PROVE Inv'
    <3> DEFINE found == {i \in 1..HubSlots : eh_services[i].uid = eh_id[t]}
    <3>1. CASE found = {}
      BY <2>2, <3>1 DEF Eh!FindService
    <3>2. CASE found # {}
      <4>1. PICK m \in found : m = Eh!Min(found)
        <5>1. found \in SUBSET Nat
          OBVIOUS
        <5> QED
          BY <3>2, <5>1, MinIsMember, Zenon
      <4>2. eh_lock = "none" /\ eh_lock' = t /\ eh_slot' = [eh_slot EXCEPT ![t] = m]
            /\ eh_pc' = [eh_pc EXCEPT ![t] = "module"] /\ UNCHANGED <<eh_services, eh_id, eh_ret>>
        BY <2>2, <3>2, <4>1, Zenon DEF Eh!FindService
      <4>3. /\ eh_pc'[t] = "module" /\ eh_slot'[t] = m /\ \A u \in Eh!Threads : eh_pc[u] # "module"
            /\ \A u \in Eh!Threads \ {t} : eh_pc'[u] = eh_pc[u] /\ eh_slot'[u] = eh_slot[u]
        BY <4>2, Zenon
      <4>4. eh_slot' \in [Eh!Threads -> 0..HubSlots]
        BY <4>1, <4>2
      <4> QED
        BY <4>1, <4>2, <4>3, <4>4
    <3> QED
      BY <3>1, <3>2, Zenon
  <2>3. ASSUME NEW t \in Eh!Threads, Eh!IModule_open(t) PROVE Inv'
    <3>1. eh_lock = t /\ eh_slot[t] \in 1..HubSlots /\ eh_services[eh_slot[t]].mod = eh_id[t]
      BY <2>3, Zenon DEF Eh!IModule_open
    <3>2. \A u \in Eh!Threads : eh_pc[u] = "module" => u = t
      BY <3>1, Zenon
    <3>3. /\ \/ eh_ret' = [eh_ret EXCEPT ![t] = eh_id[t]] /\ eh_pc' = [eh_pc EXCEPT ![t] = "ok"]
             \/ eh_pc' = [eh_pc EXCEPT ![t] = "refresh"] /\ UNCHANGED eh_ret
          /\ eh_slot' = [eh_slot EXCEPT ![t] = 0] /\ UNCHANGED <<eh_services, eh_id>>
      BY <2>3, <3>1, Zenon DEF Eh!IModule_open
    <3>4. CASE eh_ret' = [eh_ret EXCEPT ![t] = eh_id[t]] /\ eh_pc' = [eh_pc EXCEPT ![t] = "ok"]
      BY <3>2, <3>3, <3>4
    <3>5. CASE eh_pc' = [eh_pc EXCEPT ![t] = "refresh"] /\ UNCHANGED eh_ret
      BY <3>2, <3>3, <3>5
    <3> QED
      BY <3>3, <3>4, <3>5, Zenon
  <2>4. ASSUME NEW t \in Eh!Threads, Eh!NotFound(t) \/ Eh!RefreshLock(t) \/ Eh!RefreshReturns(t) PROVE Inv'
    BY <2>4 DEF Eh!NotFound, Eh!RefreshLock, Eh!RefreshReturns
  <2>5. ASSUME NEW t \in Eh!Threads, Eh!MinkIPC_connect_common(t) \/ Eh!AskRemote(t) PROVE Inv'
    BY <2>5 DEF Eh!MinkIPC_connect_common, Eh!AskRemote
  <2>6. ASSUME NEW t \in Eh!Threads, Eh!RemoteAnswers(t) \/ Eh!Return(t) PROVE Inv'
    <3>1. /\ \/ eh_ret' = [eh_ret EXCEPT ![t] = eh_id[t]] /\ eh_pc' = [eh_pc EXCEPT ![t] = "ok"]
             \/ \E l \in {"ask", "idle"} : eh_pc' = [eh_pc EXCEPT ![t] = l] /\ UNCHANGED eh_ret
          /\ eh_pc[t] # "module" /\ UNCHANGED <<eh_services, eh_id, eh_slot, eh_lock>>
      BY <2>6, Zenon DEF Eh!RemoteAnswers, Eh!Return
    <3>2. CASE eh_ret' = [eh_ret EXCEPT ![t] = eh_id[t]] /\ eh_pc' = [eh_pc EXCEPT ![t] = "ok"]
      BY <3>1, <3>2, Zenon
    <3>3. ASSUME NEW l \in {"ask", "idle"}, eh_pc' = [eh_pc EXCEPT ![t] = l], UNCHANGED eh_ret PROVE Inv'
      BY <3>1, <3>3, Zenon
    <3> QED
      BY <3>1, <3>2, <3>3, Zenon
  <2>7. ASSUME NEW uid \in Uids, Eh!ServiceManager_registerModule(uid) PROVE Inv'
    <3> DEFINE empty == {i \in 1..HubSlots : eh_services[i].uid = 0}
    <3>1. CASE empty = {} \/ Eh!ServiceManager_isRegistered(uid)
      BY <2>7, <3>1, Zenon DEF Eh!ServiceManager_registerModule
    <3>2. CASE empty # {} /\ ~Eh!ServiceManager_isRegistered(uid)
      <4>1. PICK m \in empty : m = Eh!Min(empty)
        <5>1. empty \in SUBSET Nat
          OBVIOUS
        <5> QED
          BY <3>2, <5>1, MinIsMember, Zenon
      <4>2. eh_lock = "none" /\ eh_services' = [eh_services EXCEPT ![m] = [uid |-> uid, mod |-> uid]]
            /\ UNCHANGED <<eh_pc, eh_id, eh_slot, eh_ret>>
        BY <2>7, <3>2, <4>1, Zenon DEF Eh!ServiceManager_registerModule
      <4>3. \A u \in Eh!Threads : eh_pc[u] # "module"
        BY <4>2, Zenon
      <4> QED
        BY <4>1, <4>2, <4>3, Zenon
    <3> QED
      BY <3>1, <3>2, Zenon
  <2>8. ASSUME NEW uid \in Uids, Eh!ServiceManager_deregister(uid) PROVE Inv'
    <3>1. \A u \in Eh!Threads : eh_pc[u] # "module"
      BY <2>8, Zenon DEF Eh!ServiceManager_deregister
    <3> QED
      BY <2>8, <3>1, Zenon DEF Eh!ServiceManager_deregister, Eh!Free
  <2>9. ASSUME NEW h \in Eh!Hubs, Eh!HubUp(h) \/ Eh!HubDown(h) PROVE Inv'
    BY <2>9, Zenon DEF Eh!HubUp, Eh!HubDown
  <2>10. CASE Eh!StartService
    BY <2>10, Zenon DEF Eh!StartService
  <2>11. CASE UNCHANGED Eh!vars
    BY <2>11, Zenon DEF Eh!vars
  <2> QED
    BY <2>1, <2>2, <2>3, <2>4, <2>5, <2>6, <2>7, <2>8, <2>9, <2>10, <2>11, Zenon
    DEF Eh!Next, Eh!ClientOpens, Eh!OpenStep
<1> QED
  BY <1>1, <1>2, PTL DEF Eh!Spec

-----------------------------------------------------------------------------
(* Two accept threads, one call in the secure world.                       *)
TzVars == <<tz_mLocObjTab, tz_refs, tz_known, tz_memRegions, tz_memKnown, tz_mems,
        tz_worker, tz_readers, tz_writer, tz_serverFd, tz_ready, tz_descs, tz_client,
        tz_calls, tz_faults>>
Tz == INSTANCE TZCom WITH
    mLocObjTab <- tz_mLocObjTab, refs <- tz_refs, known <- tz_known,
    memRegions <- tz_memRegions, memKnown <- tz_memKnown, mems <- tz_mems,
    worker <- tz_worker, readers <- tz_readers, writer <- tz_writer,
    serverFd <- tz_serverFd, ready <- tz_ready, descs <- tz_descs, client <- tz_client,
    calls <- tz_calls, faults <- tz_faults, Workers <- Workers, MaxSlots <- MaxSlots,
    MaxCalls <- MaxInvokes, MaxRefs <- MaxRefs, MaxTries <- MaxTries, MaxMems <- MaxMems,
    MaxFaults <- MaxFaults

(* The accept threads are finitely many, and the table's size is a number. *)
ASSUME TZComAssumption == Tz!Bounded

-----------------------------------------------------------------------------
(* The embedded process, opened by one thread and started at boot, dying   *)
(* twice.                                                                  *)
PrVars == <<pr_proc, pr_tm, pr_pending, pr_act, pr_gLock, pr_procLock, pr_loadLock,
        pr_embLock, pr_restarts, pr_faults, pr_off>>
Pr == INSTANCE ProcessLoading WITH
    proc <- pr_proc, tm <- pr_tm, pending <- pr_pending, act <- pr_act, gLock <- pr_gLock,
    procLock <- pr_procLock, loadLock <- pr_loadLock, embLock <- pr_embLock,
    restarts <- pr_restarts, faults <- pr_faults, off <- pr_off, Clients <- {},
    Openers <- {"o"}, AutoStart <- TRUE, MaxLaunches <- 4, NumPids <- 5, MaxFaults <- 2,
    MAX_RELOAD_ATTEMPTS <- 1, MAX_RETRY_ATTEMPTS <- 3

-----------------------------------------------------------------------------
(* Two servers of the mink daemon, one daemon that dies.                   *)
VmVars == <<vm_starting, vm_started, vm_pid, vm_pPid, vm_zombies, vm_sock, vm_event, vm_pc,
        vm_retry, vm_isReconnect, vm_conn, vm_notifier, vm_closed, vm_loader, vm_served,
        vm_faults>>
Vm == INSTANCE VmDaemons WITH
    starting <- vm_starting, started <- vm_started, pid <- vm_pid, pPid <- vm_pPid,
    zombies <- vm_zombies, sock <- vm_sock, event <- vm_event, pc <- vm_pc,
    retry <- vm_retry, isReconnect <- vm_isReconnect, conn <- vm_conn,
    notifier <- vm_notifier, closed <- vm_closed, loader <- vm_loader, served <- vm_served,
    faults <- vm_faults, Servers <- <<"unix", "qrtr">>, MaxFaults <- 1,
    LOCAL_SERVER_RETRY_TIME <- 2

-----------------------------------------------------------------------------
vars == <<subject, LiVars, PlVars, EhVars, TzVars, PrVars, VmVars>>

Init ==
    /\ subject \in {"ListenerCBO", "PreLauncher", "ExampleHub", "TZCom", "ProcessLoading",
        "VmDaemons"}
    /\ Li!Init
    /\ Pl!Init
    /\ Eh!Init
    /\ Tz!Init
    /\ Pr!Init
    /\ Vm!Init

Next ==
    \/ subject = "ListenerCBO" /\ Li!Next /\ UNCHANGED <<subject, PlVars, EhVars, TzVars,
            PrVars, VmVars>>
    \/ subject = "PreLauncher" /\ Pl!Next /\ UNCHANGED <<subject, LiVars, EhVars, TzVars,
            PrVars, VmVars>>
    \/ subject = "ExampleHub" /\ Eh!Next /\ UNCHANGED <<subject, LiVars, PlVars, TzVars,
            PrVars, VmVars>>
    \/ subject = "TZCom" /\ Tz!Next /\ UNCHANGED <<subject, LiVars, PlVars, EhVars, PrVars,
            VmVars>>
    \/ subject = "ProcessLoading" /\ Pr!Next /\ UNCHANGED <<subject, LiVars, PlVars,
            EhVars, TzVars, VmVars>>
    \/ subject = "VmDaemons" /\ Vm!Next /\ UNCHANGED <<subject, LiVars, PlVars, EhVars,
            TzVars, PrVars>>

Spec == Init /\ [][Next]_vars

-----------------------------------------------------------------------------

(* A listener works on one request at a time (CListenerCBO.c).             *)
OneRequest == Li!OneRequest

(* An open through the example hub answers with a service of the module    *)
(* that is registered under the UID asked for (ServiceManager.cpp).        *)
AnswersItsUid == Eh!AnswersItsUid

(* A handle that QTEE holds names the object it was given for, whatever    *)
(* retries, releases and callbacks run meanwhile, and an object that is    *)
(* referred to is alive (MinkDescriptor.cpp).                              *)
HandlesNameTheirObject == Tz!HandlesNameTheirObject /\ Tz!LocalObjectsAlive

(* No downloaded image is launched after a newer version of it, whatever   *)
(* other launches do meanwhile and wherever the pre-launcher dies.         *)
NoRollback == Pl!NoRollback

-----------------------------------------------------------------------------
(* A listener works on one request at a time, for any number of callers:   *)
(* the compare-and-exchange of CListenerCBO_request lets in only who finds *)
(* the flag free, and only who set it clears it.                           *)
THEOREM AlwaysOneRequest == Spec => []OneRequest
<1>1. Init => Li!Init
  BY Zenon DEF Init
<1>2. [Next]_vars => [Li!Next]_(Li!vars)
  BY Zenon DEF Next, vars, LiVars, Li!vars, Li!cvars, Li!mvars
<1> QED
  BY <1>1, <1>2, ListenerServesOne, PTL DEF Spec, Li!Spec, OneRequest

(* No rollback, for any threads, images, launches and crashes, as long as  *)
(* there is memory for a DistId: from the comparison with the stored       *)
(* version to the launch a thread has gLock.                               *)
THEOREM NeverRollback == Spec => NoRollback
<1>1. Init => Pl!Init
  BY Zenon DEF Init
<1>2. [Next]_vars => [Pl!Next]_(Pl!vars)
  BY Zenon DEF Next, vars, PlVars, Pl!vars
<1> QED
  BY <1>1, <1>2, LaunchesInOrder, PTL DEF Spec, Pl!Spec, NoRollback

(* An open that succeeds hands out a service of the UID asked for, for any *)
(* threads, slots and UIDs: ServiceManager_getService keeps its mutex      *)
(* while it asks the module.                                               *)
THEOREM AlwaysAnswersItsUid == Spec => []AnswersItsUid
<1>1. Init => Eh!Init
  BY Zenon DEF Init
<1>2. [Next]_vars => [Eh!Next]_(Eh!vars)
  BY Zenon DEF Next, vars, EhVars, Eh!vars
<1> QED
  BY <1>1, <1>2, HubAnswersItsUid, PTL DEF Spec, Eh!Spec, AnswersItsUid

(* For any number of accept threads, slots, calls, retries and failures:   *)
(* until the shutdown a handle that QTEE holds names the object it was     *)
(* given for, the memory objects it holds are listed, and a local object   *)
(* has at least one reference for every slot and callback that refers to   *)
(* it (MinkDescriptor.cpp).                                                *)
THEOREM HandlesAlwaysName == Spec => []HandlesNameTheirObject
<1>1. Init => Tz!Init
  BY Zenon DEF Init
<1>2. [Next]_vars => [Tz!Next]_(Tz!vars)
  BY Zenon DEF Next, vars, TzVars, Tz!vars, Tz!mem
<1>3. Tz!Spec => [](Tz!HandlesNameTheirObject /\ Tz!LocalObjectsAlive)
  BY Tz!LocalObjectsSafe, TZComAssumption, Zenon
<1> QED
  BY <1>1, <1>2, <1>3, PTL DEF Spec, Tz!Spec, HandlesNameTheirObject
=============================================================================
