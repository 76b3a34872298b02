------------------------------ MODULE MinkHub ------------------------------
(***************************************************************************)
(* The hub (MinkHub.c) with its sessions and registered services, and one  *)
(* remote server of it as ConnectionManager.c keeps it: connected on       *)
(* demand, watched by a close notifier, reconnected by a thread that the   *)
(* notification starts.  A QTEE server follows it in remoteServer.         *)
(*                                                                         *)
(* Connection c is the c-th one made.  Its socket has a mutex, and the     *)
(* worker of the socket that finds it dead tells the notifiers with that   *)
(* mutex held (MinkSocket_notifyClose); releasing the forwarder of a       *)
(* connection takes the same mutex (MinkSocket_preDeleteForwarder).        *)
(*                                                                         *)
(* The owner of the hub creates the sessions, one per user, and destroys   *)
(* the hub; each user calls with its own session.                          *)
(***************************************************************************)
EXTENDS Naturals, Sequences, FiniteSets, SequencesExt

CONSTANTS
    Users, Uids,
    MaxConns,       \* bound on the connections made
    MaxCalls        \* bound on the calls of a user

Owner == "owner"
Thread == "thread"     \* the reconnecting thread, _reconnectRemoteConn
None == "none"
Conns == 1 .. MaxConns
Actors == Users \cup {Owner, Thread}
MAX_RETRY_TIME == 2

VARIABLES
    refs, isValid,      \* the hub
    readers,            \* who holds rwMutex for reading
    sessionList,        \* users whose session is registered, in order
    session,            \* per user: state, services, module and clientEnv
    mutex, isDone,      \* RemoteConnection: mutex holder, isDone,
    remoteConn,         \*   connection in use, 0 when there is none,
    closeNotifier,      \*   connection its notifier is for, 0 when none,
    freed,              \*   and whether it is freed
    sock,               \* per connection: its socket
    watched,            \* per connection: the notifier is on its forwarder
    worker,             \* per connection: what its worker does
    smutex,             \* per connection: does the worker hold its mutex?
    pc, retry, uid, ret,\* per actor: place, attempts left, service, result
    calls               \* per user: calls made

hubVars == <<refs, isValid, sessionList, session>>
connVars == <<remoteConn, closeNotifier, sock>>
workVars == <<watched, worker, smutex>>
callVars == <<retry, uid, ret>>
vars == <<hubVars, readers, mutex, isDone, freed, connVars, workVars, pc,
          callVars, calls>>

TypeOK ==
    /\ refs \in Nat /\ isValid \in BOOLEAN /\ freed \in BOOLEAN /\ isDone \in BOOLEAN
    /\ readers \subseteq Users
    /\ session \in [Users -> [is : {None, "open", "destroyed"},
                              services : SUBSET Uids,
                              module : {None, "running", "shut down"},
                              clientEnv : BOOLEAN]]
    /\ mutex \in Actors \cup {None}
    /\ remoteConn \in Conns \cup {0} /\ closeNotifier \in Conns \cup {0}
    /\ sock \in [Conns -> {"unused", "alive", "dead", "closed"}]
    /\ watched \in [Conns -> BOOLEAN] /\ smutex \in [Conns -> BOOLEAN]
    /\ worker \in [Conns -> {"idle", "popped", "notify", "done"}]
    /\ retry \in [Actors -> 0 .. MAX_RETRY_TIME]

Init ==
    /\ refs = 1 /\ isValid = TRUE /\ readers = {} /\ sessionList = <<>>
    /\ session = [u \in Users |-> [is |-> None, services |-> {},
                                   module |-> None, clientEnv |-> FALSE]]
    /\ mutex = None /\ isDone = FALSE /\ freed = FALSE
    /\ remoteConn = 0 /\ closeNotifier = 0
    /\ sock = [c \in Conns |-> "unused"]
    /\ watched = [c \in Conns |-> FALSE] /\ smutex = [c \in Conns |-> FALSE]
    /\ worker = [c \in Conns |-> "idle"]
    /\ pc = [x \in Actors |-> IF x = Thread THEN "none" ELSE "idle"]
    /\ retry = [x \in Actors |-> 0]
    /\ uid = [u \in Users |-> None] /\ ret = [x \in Actors |-> None]
    /\ calls = [u \in Users |-> 0]

Goto(x, where) == pc' = [pc EXCEPT ![x] = where]

(* MinkHub_createSession: a session keeps the hub alive. *)
MinkHub_createSession(u) ==
    /\ pc[Owner] = "idle" /\ isValid /\ session[u].is = None
    /\ session' = [session EXCEPT ![u].is = "open"]
    /\ refs' = refs + 1
    /\ UNCHANGED <<isValid, sessionList, readers, mutex, isDone, freed, connVars,
                   workVars, pc, callVars, calls>>

(* _deregisterSession, in the calls that use it; rwMutex is written. *)
deregistered(u) == SelectSeq(sessionList, LAMBDA v : v # u)

Begins(u) ==
    /\ pc[u] = "idle" /\ session[u].is = "open" /\ calls[u] < MaxCalls
    /\ calls' = [calls EXCEPT ![u] = @ + 1]

(* MinkHub_registerServices: out of the list first, into it again last. *)
MinkHub_registerServices(u, services) ==
    /\ Begins(u)
    /\ IF isValid
       THEN /\ readers = {}
            /\ sessionList' = deregistered(u)
            /\ session' = [session EXCEPT ![u].services = services]
            /\ Goto(u, "registering")
       ELSE UNCHANGED <<sessionList, session, pc>>
    /\ UNCHANGED <<refs, isValid, readers, mutex, isDone, freed, connVars,
                   workVars, callVars>>

Register(u) ==
    /\ pc[u] = "registering" /\ readers = {}
    /\ session' = [session EXCEPT ![u].module = "running"]
    /\ sessionList' = Append(sessionList, u)
    /\ Goto(u, "idle")
    /\ UNCHANGED <<refs, isValid, readers, mutex, isDone, freed, connVars,
                   workVars, callVars, calls>>

(* MinkHub_localOpen: the first registered session that offers the uid is  *)
(* asked, with rwMutex held for reading.                                   *)
Offering(i) == SelectSeq(sessionList, LAMBDA v : i \in session[v].services)

MinkHub_localOpen(u, i) ==
    /\ Begins(u)
    /\ IF isValid /\ Offering(i) # <<>>
       THEN /\ readers' = readers \cup {u}
            /\ ret' = [ret EXCEPT ![u] = Head(Offering(i))]
            /\ uid' = [uid EXCEPT ![u] = i]
            /\ Goto(u, "opening")
       ELSE UNCHANGED <<readers, ret, uid, pc>>
    /\ UNCHANGED <<hubVars, mutex, isDone, freed, connVars, workVars, retry>>

LocalOpened(u) ==
    /\ pc[u] = "opening"
    /\ readers' = readers \ {u}
    /\ ret' = [ret EXCEPT ![u] = None] /\ uid' = [uid EXCEPT ![u] = None]
    /\ Goto(u, "idle")
    /\ UNCHANGED <<hubVars, mutex, isDone, freed, connVars, workVars, retry, calls>>

(* MinkHub_remoteOpen up to the mutex of the first server. *)
MinkHub_remoteOpen(u) ==
    /\ Begins(u)
    /\ IF isValid
       THEN readers' = readers \cup {u} /\ Goto(u, "lock")
       ELSE UNCHANGED <<readers, pc>>
    /\ UNCHANGED <<hubVars, mutex, isDone, freed, connVars, workVars, callVars>>

(* _openVMService locks and connects. *)
LockVM(u) ==
    /\ pc[u] = "lock" /\ mutex = None
    /\ mutex' = u
    /\ retry' = [retry EXCEPT ![u] = MAX_RETRY_TIME]
    /\ Goto(u, "refresh")
    /\ UNCHANGED <<hubVars, readers, isDone, freed, connVars, workVars, uid, ret, calls>>

(* _refreshRemoteConn: what is connected stays; a new connection is made   *)
(* and watched, or given up again.                                         *)
Refreshed(x) == IF x = Thread THEN "unlock" ELSE "call"

Unused == {c \in Conns : sock[c] = "unused"}

_refreshRemoteConn(x) ==
    /\ pc[x] = "refresh"
    /\ \/ remoteConn # 0 /\ Goto(x, Refreshed(x)) /\ UNCHANGED <<connVars, ret>>
       \/ /\ remoteConn = 0 /\ Unused # {}
          /\ LET c == CHOOSE c \in Unused : \A d \in Unused : c <= d
             IN  remoteConn' = c /\ sock' = [sock EXCEPT ![c] = "alive"]
          /\ Goto(x, "watch")
          /\ UNCHANGED <<closeNotifier, ret>>
       \/ /\ remoteConn = 0
          /\ ret' = [ret EXCEPT ![x] = "not found"]
          /\ Goto(x, "unlock")
          /\ UNCHANGED connVars
    /\ UNCHANGED <<hubVars, readers, mutex, isDone, freed, workVars, retry, uid, calls>>

(* CloseNotifier_new: the peer is told, then the notifier is attached. *)
CloseNotifier_new(x) ==
    /\ pc[x] = "watch"
    /\ \/ sock[remoteConn] = "alive" /\ Goto(x, "attach") /\ UNCHANGED ret
       \/ /\ sock[remoteConn] = "dead"
          /\ ret' = [ret EXCEPT ![x] = "not found"]
          /\ Goto(x, "release")
    /\ UNCHANGED <<hubVars, readers, mutex, isDone, freed, connVars, workVars, retry,
                   uid, calls>>

Attach(x) ==
    /\ pc[x] = "attach"
    /\ watched' = [watched EXCEPT ![remoteConn] = TRUE]
    /\ closeNotifier' = remoteConn
    /\ Goto(x, Refreshed(x))
    /\ UNCHANGED <<hubVars, readers, mutex, isDone, freed, remoteConn, sock, worker,
                   smutex, callVars, calls>>

(* _openVMService calls the opener: answered, or the server is down. *)
Call(u) ==
    /\ pc[u] = "call"
    /\ \/ /\ sock[remoteConn] = "alive"
          /\ \E r \in {"ok", "not found"} : ret' = [ret EXCEPT ![u] = r]
          /\ Goto(u, "unlock")
          /\ UNCHANGED retry
       \/ /\ sock[remoteConn] = "dead"
          /\ ret' = [ret EXCEPT ![u] = "not found"]
          /\ retry' = [retry EXCEPT ![u] = @ - 1]
          /\ Goto(u, "release")
    /\ UNCHANGED <<hubVars, readers, mutex, isDone, freed, connVars, workVars, uid, calls>>

(* _releaseRemoteConnection: the notifier, then the opener, whose release  *)
(* needs the mutex of the socket, and the connection.                      *)
_releaseRemoteConnection(x) ==
    /\ pc[x] = "release"
    /\ closeNotifier' = 0
    /\ watched' = [c \in Conns |-> watched[c] /\ c # closeNotifier]
    /\ Goto(x, "close")
    /\ UNCHANGED <<hubVars, readers, mutex, isDone, freed, remoteConn, sock, worker,
                   smutex, callVars, calls>>

AfterRelease(x) ==
    CASE isDone -> "join"
      [] x = Thread -> IF ret[x] = "not found" THEN "unlock" ELSE "refresh"
      [] OTHER -> IF retry[x] > 0 THEN "refresh" ELSE "unlock"

CloseConn(x) ==
    /\ pc[x] = "close"
    /\ remoteConn # 0 => ~smutex[remoteConn]
    /\ sock' = [c \in Conns |-> IF c = remoteConn THEN "closed" ELSE sock[c]]
    /\ remoteConn' = 0
    /\ Goto(x, AfterRelease(x))
    /\ mutex' = IF isDone THEN None ELSE mutex
    /\ UNCHANGED <<hubVars, readers, isDone, freed, closeNotifier, workVars, callVars, calls>>

(* The calls leave; a service that is not found is looked for in QTEE with *)
(* the client environment that the session keeps (_openQTEEService).       *)
Unlock(u) ==
    /\ pc[u] = "unlock" /\ mutex = u
    /\ mutex' = None
    /\ Goto(u, IF ret[u] = "ok" THEN "leave" ELSE "QTEE")
    /\ UNCHANGED <<hubVars, readers, isDone, freed, connVars, workVars, callVars, calls>>

_openQTEEService(u) ==
    /\ pc[u] = "QTEE"
    /\ \E got \in BOOLEAN :
         session' = [session EXCEPT ![u].clientEnv = @ \/ got]
    /\ Goto(u, "leave")
    /\ UNCHANGED <<refs, isValid, sessionList, readers, mutex, isDone, freed, connVars,
                   workVars, callVars, calls>>

Leave(u) ==
    /\ pc[u] = "leave"
    /\ readers' = readers \ {u}
    /\ ret' = [ret EXCEPT ![u] = None] /\ retry' = [retry EXCEPT ![u] = 0]
    /\ Goto(u, "idle")
    /\ UNCHANGED <<hubVars, mutex, isDone, freed, connVars, workVars, uid, calls>>

(* _reconnectRemoteConn: a connection that an open has made meanwhile and  *)
(* that can still be watched is kept.                                      *)
_reconnectRemoteConn ==
    /\ pc[Thread] = "start" /\ mutex = None
    /\ IF isDone
       THEN Goto(Thread, "ended") /\ UNCHANGED mutex
       ELSE /\ mutex' = Thread
            /\ Goto(Thread, IF remoteConn # 0 THEN "check" ELSE "refresh")
    /\ UNCHANGED <<hubVars, readers, isDone, freed, connVars, workVars, callVars, calls>>

_checkConnection ==
    /\ pc[Thread] = "check"
    /\ Goto(Thread, IF sock[remoteConn] = "alive" THEN "unlock" ELSE "release")
    /\ UNCHANGED <<hubVars, readers, mutex, isDone, freed, connVars, workVars, callVars, calls>>

ThreadEnds ==
    /\ pc[Thread] = "unlock" /\ mutex = Thread
    /\ mutex' = None
    /\ ret' = [ret EXCEPT ![Thread] = None]
    /\ Goto(Thread, "ended")
    /\ UNCHANGED <<hubVars, readers, isDone, freed, connVars, workVars, retry, uid, calls>>

(* The remote end goes away. *)
SocketDies(c) ==
    /\ sock[c] = "alive"
    /\ sock' = [sock EXCEPT ![c] = "dead"]
    /\ UNCHANGED <<hubVars, readers, mutex, isDone, freed, remoteConn, closeNotifier,
                   workVars, pc, callVars, calls>>

(* MinkSocket_notifyClose, with the mutex of the socket held: a notifier   *)
(* is popped, and told without a reference to it.  The handler of one that *)
(* was released meanwhile is the null object.                              *)
MinkSocket_notifyClose(c) ==
    /\ worker[c] = "idle" /\ sock[c] = "dead" /\ ~smutex[c]
    /\ worker' = [worker EXCEPT ![c] = IF watched[c] THEN "popped" ELSE "done"]
    /\ smutex' = [smutex EXCEPT ![c] = watched[c]]
    /\ watched' = [watched EXCEPT ![c] = FALSE]
    /\ UNCHANGED <<hubVars, readers, mutex, isDone, freed, connVars, pc, callVars, calls>>

CloseNotifier_notify(c) ==
    /\ worker[c] = "popped"
    /\ worker' = [worker EXCEPT ![c] = IF closeNotifier = c THEN "notify" ELSE "done"]
    /\ smutex' = [smutex EXCEPT ![c] = closeNotifier = c]
    /\ UNCHANGED <<hubVars, readers, mutex, isDone, freed, connVars, watched, pc,
                   callVars, calls>>

(* _notifyDisconnection joins the last reconnecting thread and starts one. *)
_notifyDisconnection(c) ==
    /\ worker[c] = "notify"
    /\ pc[Thread] \in {"none", "ended"}
    /\ worker' = [worker EXCEPT ![c] = "done"]
    /\ smutex' = [smutex EXCEPT ![c] = FALSE]
    /\ \E created \in BOOLEAN : Goto(Thread, IF created THEN "start" ELSE "none")
    /\ UNCHANGED <<hubVars, readers, mutex, isDone, freed, connVars, watched, callVars, calls>>

MinkHub_destroySession_listed(u) ==
    /\ pc[u] = "idle" /\ session[u].is = "open" /\ readers = {}
    /\ Goto(u, "shutdown")
    /\ UNCHANGED <<refs, isValid, sessionList, session, readers, mutex, isDone, freed,
                   connVars, workVars, callVars, calls>>

(* MinkHub_destroySession: out of the list before the module is shut down. *)
MinkHub_destroySession(u) ==
    /\ pc[u] = "idle" /\ session[u].is = "open" /\ readers = {}
    /\ sessionList' = deregistered(u)
    /\ Goto(u, "shutdown")
    /\ UNCHANGED <<refs, isValid, session, readers, mutex, isDone, freed, connVars,
                   workVars, callVars, calls>>

Shutdown(u) ==
    /\ pc[u] = "shutdown"
    /\ session' = [session EXCEPT ![u] =
         [is |-> "destroyed", services |-> {}, clientEnv |-> FALSE,
          module |-> IF @.module = "running" THEN "shut down" ELSE None]]
    /\ Goto(u, "drop")
    /\ UNCHANGED <<refs, isValid, sessionList, readers, mutex, isDone, freed, connVars,
                   workVars, callVars, calls>>

MinkHub_destroy ==
    /\ pc[Owner] = "idle" /\ readers = {}
    /\ isValid' = FALSE
    /\ Goto(Owner, "drop")
    /\ UNCHANGED <<refs, sessionList, session, readers, mutex, isDone, freed, connVars,
                   workVars, callVars, calls>>

(* _MinkHub_release; ConnectionManager_destroyConnection when it is last. *)
_MinkHub_release(x) ==
    /\ pc[x] = "drop"
    /\ refs' = refs - 1
    /\ Goto(x, IF refs = 1 THEN "destroy" ELSE "gone")
    /\ UNCHANGED <<isValid, sessionList, session, readers, mutex, isDone, freed,
                   connVars, workVars, callVars, calls>>

ConnectionManager_destroyConnection(x) ==
    /\ pc[x] = "destroy" /\ mutex = None
    /\ mutex' = x /\ isDone' = TRUE
    /\ Goto(x, "release")
    /\ UNCHANGED <<hubVars, readers, freed, connVars, workVars, callVars, calls>>

JoinThread_not(x) ==
    /\ pc[x] = "join"
    /\ freed' = TRUE
    /\ Goto(x, "gone")
    /\ UNCHANGED <<hubVars, readers, mutex, isDone, connVars, workVars, callVars, calls>>

JoinThread(x) ==
    /\ pc[x] = "join" /\ pc[Thread] \in {"none", "ended"}
    /\ freed' = TRUE
    /\ Goto(x, "gone")
    /\ UNCHANGED <<hubVars, readers, mutex, isDone, connVars, workVars, callVars, calls>>

----------------------------------------------------------------------------
UserCalls(u) ==
    \/ MinkHub_createSession(u)
    \/ \E services \in SUBSET Uids : services # {} /\ MinkHub_registerServices(u, services)
    \/ \E i \in Uids : MinkHub_localOpen(u, i)
    \/ MinkHub_remoteOpen(u)
    \/ MinkHub_destroySession(u)

UserSteps(u) ==
    \/ Register(u) \/ LocalOpened(u) \/ LockVM(u) \/ Call(u) \/ Unlock(u)
    \/ _openQTEEService(u) \/ Leave(u) \/ Shutdown(u)

Steps(x) ==
    \/ _refreshRemoteConn(x) \/ CloseNotifier_new(x) \/ Attach(x)
    \/ _releaseRemoteConnection(x) \/ CloseConn(x)
    \/ _MinkHub_release(x) \/ ConnectionManager_destroyConnection(x) \/ JoinThread(x)

ThreadSteps == _reconnectRemoteConn \/ _checkConnection \/ ThreadEnds

Worker(c) ==
    \/ MinkSocket_notifyClose(c) \/ CloseNotifier_notify(c) \/ _notifyDisconnection(c)

Next ==
    \/ \E u \in Users : UserCalls(u) \/ UserSteps(u)
    \/ MinkHub_destroy
    \/ \E x \in Actors : Steps(x)
    \/ ThreadSteps
    \/ \E c \in Conns : SocketDies(c) \/ Worker(c)

Spec == Init /\ [][Next]_vars

----------------------------------------------------------------------------
(* MinkHub_localOpen only ever asks a module that is running: a session    *)
(* leaves the list before MinkHub_destroySession shuts its module down,    *)
(* and a reader of the list keeps it there.                                *)
OpensRunningModule ==
    \A u \in Users : pc[u] = "opening" =>
        session[ret[u]].module = "running" /\ uid[u] \in session[ret[u]].services

(* A connection that is up is watched whenever nobody holds the mutex of   *)
(* the RemoteConnection: _refreshRemoteConn keeps none that it could not   *)
(* watch, and the notifier goes only together with the connection.         *)
ConnectionWatched ==
    \A c \in Conns : mutex = None /\ remoteConn = c /\ sock[c] = "alive" =>
        closeNotifier = c /\ watched[c]

(* A freed RemoteConnection is used by nobody: the reconnecting thread has *)
(* ended, no worker of a socket is still telling its notifier, and the     *)
(* last user is gone (ConnectionManager_destroyConnection,                 *)
(* _MinkHub_release).                                                      *)
UnusedWhenFreed ==
    freed =>
        /\ pc[Thread] \in {"none", "ended"} /\ mutex = None
        /\ \A c \in Conns : worker[c] # "notify" /\ sock[c] # "alive"
        /\ \A u \in Users : session[u].is # "open" /\ readers = {}
=============================================================================
