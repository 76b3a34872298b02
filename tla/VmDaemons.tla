------------------------------ MODULE VmDaemons ------------------------------
(***************************************************************************)
(* The daemons of the trusted VM: the root daemon starts the pre-launcher  *)
(* and the mink daemon and starts them again when they die; the mink       *)
(* daemon connects to the pre-launcher's socket, waiting for it if it must *)
(* and connecting again when the connection closes, and serves once it has *)
(* connected.  Sources (mink_platform/QTVM): daemons/root/src/Root.c,      *)
(* daemons/prelauncher/src/Prelauncher.c, daemons/mink/src/Mink.c and      *)
(* LocalConnectionManager.c, libs/libcommon/src/ControlSocket.c.           *)
(*                                                                         *)
(* A process is a number that nothing refers to any more when it is used   *)
(* again.  External: inotify, the socket file, fork, SIGCHLD, and that a    *)
(* CloseNotifier is told when the peer of its connection dies (module      *)
(* MinkHub looks inside it).                                               *)
(***************************************************************************)
EXTENDS Naturals, Sequences, FiniteSets

CONSTANTS
    Servers,       \* the servers the mink daemon starts, in order
    MaxFaults,     \* bound on daemons that die or fail to start
    LOCAL_SERVER_RETRY_TIME

VARIABLES
    starting,   \* what Root's threads are starting: thread -> daemon or "none"
    started,    \* how many daemons Root's main has started
    pid,        \* the process of each daemon, 0 if there is none
    pPid,       \* gDaemonInfo[].pPid
    zombies,    \* processes that have died and are not reaped
    sock,       \* the pre-launcher's socket file
    event,      \* the mink daemon's inotify: "off", "quiet" or "enabled"
    pc,         \* the mink daemon's main thread and its connection thread
    retry,      \* _connectTargetServer's retry of each
    isReconnect,
    conn,       \* the pre-launcher gMinkConnectionInfo is connected to, 0 if none
    notifier,   \* the pre-launcher its closeNotifier watches, 0 if none
    closed,     \* the notifier is to call _reconnectServer
    loader,     \* the pre-launcher whose object CTProcessLoader has, 0 if none
    served,     \* servers started by the mink daemon
    faults

rvars == <<starting, started, pPid, zombies>>
mvars == <<event, pc, retry, isReconnect, conn, notifier, closed, loader, served>>
vars == <<starting, started, pid, pPid, zombies, sock, event, pc, retry, isReconnect, conn,
          notifier, closed, loader, served, faults>>

gDaemonInfo == <<"prelauncher", "mink">>
Daemons == {"prelauncher", "mink"}
Running(d) == pid[d] # 0
Labels == {"off", "main", "watch", "try", "notifier", "wait", "open", "enable", "hub", "servers",
           "autostart", "serving"}

TypeOK ==
    /\ starting \in [{"main", "signal"} -> Daemons \cup {"none"}]
    /\ started \in 0..2 /\ pid \in [Daemons -> Nat] /\ pPid \in [Daemons -> Nat]
    /\ zombies \subseteq Nat \X Daemons
    /\ sock \in {"none", "dead", "bound", "enabled"} /\ event \in {"off", "quiet", "enabled"}
    /\ pc \in [{"main", "conn"} -> Labels] /\ retry \in [{"main", "conn"} -> 0..LOCAL_SERVER_RETRY_TIME]
    /\ conn \in Nat /\ notifier \in Nat /\ loader \in Nat /\ served \in 0..Len(Servers)

Init ==
    /\ starting = [t \in {"main", "signal"} |-> "none"] /\ started = 0
    /\ pid = [d \in Daemons |-> 0] /\ pPid = [d \in Daemons |-> 0] /\ zombies = {}
    /\ sock = "none" /\ event = "off"
    /\ pc = [t \in {"main", "conn"} |-> "off"] /\ retry = [t \in {"main", "conn"} |-> 0]
    /\ isReconnect = FALSE
    /\ conn = 0 /\ notifier = 0 /\ closed = FALSE /\ loader = 0 /\ served = 0 /\ faults = 0

-----------------------------------------------------------------------------
(* The root daemon.                                                        *)

NewPid ==
    LET used == {pid[d] : d \in Daemons} \cup {pPid[d] : d \in Daemons} \cup {z[1] : z \in zombies}
                    \cup {conn, notifier, loader}
    IN CHOOSE p \in 1..10 : p \notin used /\ \A q \in 1..(p - 1) : q \in used

(* _startDaemon: TPPM_launch forks the child ...                           *)
Fork(t, d) ==
    /\ starting[t] = "none" /\ starting' = [starting EXCEPT ![t] = d]
    /\ pid' = [pid EXCEPT ![d] = NewPid]
    /\ pc' = IF d = "mink" THEN [pc EXCEPT !["main"] = "main"] ELSE pc

(* main starts the daemons in order, after its own server; ...             *)
Root_main ==
    /\ started < Len(gDaemonInfo) /\ Fork("main", gDaemonInfo[started + 1])
    /\ started' = started + 1
    /\ UNCHANGED <<pPid, zombies, sock, event, retry, isReconnect, conn, notifier, closed, loader,
                   served, faults>>

(* ... and LaunchProcess reports the child's id to the parent.             *)
_startDaemon(t) ==
    LET d == starting[t]
    IN /\ d # "none" /\ starting' = [starting EXCEPT ![t] = "none"]
       /\ \E p \in {pid[d]} \cup {z[1] : z \in {x \in zombies : x[2] = d}} :
              p # 0 /\ pPid' = [pPid EXCEPT ![d] = p]
       /\ UNCHANGED <<started, pid, zombies, sock, faults, mvars>>

(* _signalHandler reaps a child; _diedProcessHandler starts the daemon     *)
(* with its id, if there is one.                                           *)
_diedProcessHandler_keeps(z) ==
    /\ z \in zombies /\ starting["signal"] = "none" /\ zombies' = zombies \ {z}
    /\ UNCHANGED <<pPid, started, starting, pid, pc, sock, event, retry, isReconnect, conn, notifier, closed, loader,
                   served, faults>>
_diedProcessHandler(z) ==
    /\ z \in zombies /\ starting["signal"] = "none" /\ zombies' = zombies \ {z}
    /\ IF \E d \in Daemons : pPid[d] = z[1]
       THEN LET d == CHOOSE d \in Daemons : pPid[d] = z[1]
            IN Fork("signal", d) /\ pPid' = [pPid EXCEPT ![d] = 0]
       ELSE UNCHANGED <<pPid, starting, pid, pc>>
    /\ UNCHANGED <<started, sock, event, retry, isReconnect, conn, notifier, closed, loader,
                   served, faults>>

-----------------------------------------------------------------------------
(* The pre-launcher.                                                       *)

(* Prelauncher.c's main, once Root answers: MinkIPC_startServiceModule ... *)
StartServiceModule ==
    /\ Running("prelauncher") /\ sock \in {"none", "dead"} /\ sock' = "bound"
    /\ UNCHANGED <<pid, faults, rvars, mvars>>
(* ... and ControlSocket_enableSocketAttribute, which inotify reports.     *)
ControlSocket_enableSocketAttribute ==
    /\ Running("prelauncher") /\ sock = "bound" /\ sock' = "enabled"
    /\ event' = IF event = "off" THEN "off" ELSE "enabled"
    /\ UNCHANGED <<pid, pc, retry, isReconnect, conn, notifier, closed, loader, served, faults, rvars>>

(* The pre-launcher dies (or cannot start): its socket file stays, and a   *)
(* CloseNotifier on its connection is told.                                *)
PrelauncherDies ==
    /\ Running("prelauncher") /\ faults < MaxFaults /\ faults' = faults + 1
    /\ pid' = [pid EXCEPT !["prelauncher"] = 0]
    /\ zombies' = zombies \cup {<<pid["prelauncher"], "prelauncher">>}
    /\ sock' = IF sock = "none" THEN "none" ELSE "dead"
    /\ closed' = (closed \/ notifier = pid["prelauncher"])
    /\ UNCHANGED <<starting, started, pPid, event, pc, retry, isReconnect, conn, notifier, loader, served>>

-----------------------------------------------------------------------------
(* The mink daemon.                                                        *)

Mink == Running("mink")
At(t, label) == Mink /\ pc[t] = label
Goto(t, label) == pc' = [pc EXCEPT ![t] = label]
Alive(p) == p # 0 /\ p = pid["prelauncher"]

(* The process is gone, with all its state.                                *)
MinkGone ==
    /\ pid' = [pid EXCEPT !["mink"] = 0] /\ zombies' = zombies \cup {<<pid["mink"], "mink">>}
    /\ event' = "off" /\ pc' = [t \in {"main", "conn"} |-> "off"]
    /\ retry' = [t \in {"main", "conn"} |-> 0] /\ isReconnect' = FALSE
    /\ conn' = 0 /\ notifier' = 0 /\ closed' = FALSE /\ loader' = 0 /\ served' = 0
    /\ UNCHANGED <<starting, started, pPid, sock>>

(* It dies, or a step of main fails: main's exit frees everything.         *)
MinkDies == Mink /\ faults < MaxFaults /\ faults' = faults + 1 /\ MinkGone

(* A connection that fails ends main (LocalConnectionManager_createConne-  *)
(* ction, then its exit), and in the connection thread only the thread.    *)
ConnectFails(t) ==
    IF t = "main" THEN MinkGone
    ELSE /\ Goto(t, "off")
         /\ UNCHANGED <<pid, zombies, sock, starting, started, pPid, retry, isReconnect, closed, served>>

_freeMinkConnect == conn' = 0 /\ notifier' = 0

(* main, up to the connection: the wake lock and the profiles.             *)
MinkMain ==
    /\ At("main", "main") /\ Goto("main", "watch")
    /\ UNCHANGED <<pid, zombies, sock, starting, started, pPid, event, retry, isReconnect, conn, notifier,
                   closed, loader, served, faults>>

(* _connectPrelauncherDaemon begins, and so does _connectTargetServer: the *)
(* loader is disabled, the old connection freed, the watch set up.         *)
ConnectBegins(t) ==
    /\ At(t, "watch") /\ Goto(t, "try")
    /\ isReconnect' = (conn # 0) /\ loader' = 0 /\ _freeMinkConnect
    /\ event' = "quiet" /\ retry' = [retry EXCEPT ![t] = LOCAL_SERVER_RETRY_TIME]
    /\ UNCHANGED <<pid, closed, served, sock, faults, rvars>>

(* One turn of its loop fails: retry is counted down, and the next turn    *)
(* waits for the socket's event.                                           *)
TurnFails(t) ==
    LET left == retry[t] - 1
    IN IF left > 0
       THEN /\ Goto(t, "wait") /\ retry' = [retry EXCEPT ![t] = left] /\ _freeMinkConnect
            /\ UNCHANGED <<pid, zombies, sock, starting, started, pPid, event, isReconnect, closed, loader, served>>
       ELSE /\ ConnectFails(t)
            /\ t = "conn" => event' = "off" /\ _freeMinkConnect /\ UNCHANGED loader

MinkIPC_connect(t) ==
    /\ At(t, "try")
    /\ IF sock \in {"bound", "enabled"}
       THEN /\ conn' = pid["prelauncher"] /\ Goto(t, "notifier")
            /\ UNCHANGED <<event, retry, isReconnect, notifier, closed, loader, served, pid, sock, rvars>>
       ELSE TurnFails(t)
    /\ UNCHANGED faults

CloseNotifier_new(t) ==
    /\ At(t, "notifier")
    /\ IF Alive(conn)
       THEN /\ notifier' = conn /\ event' = "off" /\ Goto(t, "open")
            /\ UNCHANGED <<retry, isReconnect, conn, closed, loader, served, pid, sock, rvars>>
       ELSE TurnFails(t)
    /\ UNCHANGED faults

(* ControlSocket_waitSocketEnable returns once an event is read.           *)
ControlSocket_waitSocketEnable_not(t) ==
    /\ At(t, "wait") /\ event' = "quiet" /\ Goto(t, "try")
    /\ UNCHANGED <<pid, retry, isReconnect, conn, notifier, closed, loader, served, sock, faults, rvars>>
ControlSocket_waitSocketEnable(t) ==
    /\ At(t, "wait") /\ event = "enabled" /\ event' = "quiet" /\ Goto(t, "try")
    /\ UNCHANGED <<pid, retry, isReconnect, conn, notifier, closed, loader, served, sock, faults, rvars>>

(* The rest of _connectPrelauncherDaemon: ITEnv_open, ...                  *)
OpenPreLauncher(t) ==
    /\ At(t, "open")
    /\ IF Alive(conn)
       THEN /\ Goto(t, "enable") /\ loader' = conn
            /\ UNCHANGED <<event, retry, isReconnect, conn, notifier, closed, served, pid, sock, rvars>>
       ELSE ConnectFails(t) /\ (t = "conn" => UNCHANGED <<event, conn, notifier, loader>>)
    /\ UNCHANGED faults
(* ... and, with the loader enabled, ITPreLauncher_registerNotify; a       *)
(* reconnection starts the auto-start services again.                      *)
RegisterNotify(t) ==
    /\ At(t, "enable")
    /\ IF Alive(loader)
       THEN /\ Goto(t, IF t = "main" THEN "hub" ELSE "off")
            /\ UNCHANGED <<event, retry, isReconnect, conn, notifier, closed, loader, served, pid, sock, rvars>>
       ELSE ConnectFails(t) /\ (t = "conn" => UNCHANGED <<event, conn, notifier, loader>>)
    /\ UNCHANGED faults

(* _reconnectServer, on the socket's thread: it joins the last connection  *)
(* thread and starts another.                                              *)
_reconnectServer ==
    /\ Mink /\ closed /\ pc["conn"] = "off" /\ closed' = FALSE /\ Goto("conn", "watch")
    /\ UNCHANGED <<pid, event, retry, isReconnect, conn, notifier, loader, served, sock, faults, rvars>>

(* main, after the connection: the hub and its services, the servers one   *)
(* by one, the auto-start services.                                        *)
MinkHub_new ==
    /\ At("main", "hub") /\ Goto("main", "servers")
    /\ UNCHANGED <<pid, event, retry, isReconnect, conn, notifier, closed, loader, served, sock, faults, rvars>>
StartService ==
    /\ At("main", "servers") /\ served < Len(Servers) /\ served' = served + 1
    /\ Goto("main", IF served + 1 = Len(Servers) THEN "autostart" ELSE "servers")
    /\ UNCHANGED <<pid, event, retry, isReconnect, conn, notifier, closed, loader, sock, faults, rvars>>
MinkStarted ==
    /\ At("main", "autostart") /\ Goto("main", "serving")
    /\ UNCHANGED <<pid, event, retry, isReconnect, conn, notifier, closed, loader, served, sock, faults, rvars>>

-----------------------------------------------------------------------------
RootStep == Root_main \/ (\E t \in {"main", "signal"} : _startDaemon(t)) \/ (\E z \in zombies : _diedProcessHandler(z))
PreLauncherStep == StartServiceModule \/ ControlSocket_enableSocketAttribute
ConnectStep(t) ==
    \/ ConnectBegins(t) \/ MinkIPC_connect(t) \/ CloseNotifier_new(t) \/ ControlSocket_waitSocketEnable(t)
    \/ OpenPreLauncher(t) \/ RegisterNotify(t)
MinkStep == MinkMain \/ MinkHub_new \/ StartService \/ MinkStarted
Next ==
    \/ RootStep \/ PreLauncherStep \/ PrelauncherDies \/ MinkDies \/ MinkStep \/ _reconnectServer
    \/ \E t \in {"main", "conn"} : ConnectStep(t)

Spec == Init /\ [][Next]_vars

(* The daemons' threads are scheduled; nobody has to die.                  *)
Fairness ==
    /\ WF_vars(RootStep) /\ WF_vars(PreLauncherStep) /\ WF_vars(MinkStep) /\ WF_vars(_reconnectServer)
    /\ \A t \in {"main", "conn"} : WF_vars(ConnectStep(t))

-----------------------------------------------------------------------------
(* A daemon that has died after Root had recorded its process is started   *)
(* again: _diedProcessHandler finds it among gDaemonInfo.                  *)
RecordedIsRestarted ==
    \A d \in Daemons : pPid[d] # 0 /\ pPid[d] # pid[d] ~> Running(d)

(* Once daemons stop dying, and while both run, the mink daemon serves and *)
(* its loader has the pre-launcher that runs: a connection that closes is made again, the     *)
(* connection thread waiting for the socket where it must.                 *)
LoaderReconnects == <>[]((\A d \in Daemons : Running(d)) => At("main", "serving") /\ Alive(loader))
=============================================================================
