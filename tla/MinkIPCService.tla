--------------------------- MODULE MinkIPCService ---------------------------
(***************************************************************************)
(* One MinkIPC instance (libmink/Transport/MinkSocket/sock/minkipc.c): the *)
(* thread that starts it, its listener thread, the list of sessions the    *)
(* listener keeps, and the threads that retain, join and release it.       *)
(*                                                                         *)
(* UNIX and QMSGQ are connected: the listener accepts.  QIPCRTR and VSOCK  *)
(* are connectionless: the listener receives every datagram, classifies it *)
(* and finds the session of its sender.  Only the listener changes the     *)
(* session list until it has ended; the list has no lock of its own.       *)
(***************************************************************************)
EXTENDS Naturals, Sequences, FiniteSets, SequencesExt

CONSTANTS
    Threads,      \* application threads; they pass references to each other
    Main,         \* the one that starts the instance and may join it
    Peers,        \* addresses [node, port] of remote endpoints
    MaxSessions,  \* bound on the length of the session list
    MaxMsgs       \* bound on the datagrams and connections received

VARIABLES
    ipc,        \* ipcType, bServer; on a client the address of the server
    me,         \* the fields of struct MinkIPC that change
    sessions,   \* sessionList: the peer of each MinkSocket, and whether it is alive
    received,   \* how many datagrams or connections it has received
    lpc, lmsg,  \* the listener thread and the datagram in its buffer
    target,     \* the session it serves, an index of the list
    app         \* where each application thread is

vars == <<ipc, me, sessions, received, lpc, lmsg, target, app>>

IPCTypes == {"UNIX", "QMSGQ", "QIPCRTR", "VSOCK"}
NoMsg == [type |-> "none"]

(* qrtr packet types; a VSOCK datagram is always data.                     *)
Packets(t) ==
    IF t = "QIPCRTR" THEN {"DATA", "NEW_SERVER", "DEL_CLIENT", "DEL_SERVER", "BYE"}
    ELSE IF t = "VSOCK" THEN {"DATA"} ELSE {"CONNECT"}

(* VSOCK does not populate the node of an address.                         *)
Populated(p) == ipc.type = "VSOCK" => p.node = 0

(* SockAgnostic_isConnless.                                                *)
Connless == ipc.type \in {"QIPCRTR", "VSOCK"}

ListenerPC == {"none", "start", "clean", "recv", "classify", "find", "handle", "test",
               "ending", "exited"}
AppPC == {"idle", "ready", "holds", "joining", "stopping", "waiting", "cleaning", "gone"}

TypeOK ==
    /\ ipc \in [type : IPCTypes, bServer : BOOLEAN, server : Peers]
    /\ me \in [refs : Nat, bReady : BOOLEAN, bDone : BOOLEAN, bServerDone : BOOLEAN,
               alive : BOOLEAN, listenerThread : BOOLEAN, freed : BOOLEAN]
    /\ sessions \in Seq([peer : Peers, alive : BOOLEAN]) /\ Len(sessions) <= MaxSessions
    /\ received \in 0..MaxMsgs
    /\ lpc \in ListenerPC
    /\ lmsg = NoMsg \/ lmsg \in [type : Packets(ipc.type), peer : Peers]
    /\ target \in 0..MaxSessions
    /\ app \in [Threads -> AppPC]

Init ==
    /\ ipc \in [type : IPCTypes, bServer : BOOLEAN, server : Peers]
    /\ Populated(ipc.server)
    /\ me = [refs |-> 0, bReady |-> FALSE, bDone |-> FALSE, bServerDone |-> FALSE,
             alive |-> FALSE, listenerThread |-> FALSE, freed |-> FALSE]
    /\ sessions = <<>> /\ received = 0
    /\ lpc = "none" /\ lmsg = NoMsg /\ target = 0
    /\ app = [t \in Threads |-> "idle"]

-----------------------------------------------------------------------------
(* Addresses and sessions.                                                 *)

(* SockAgnostic_fullMatched and _nodeMatched, for two sockets of one type. *)
(* VSOCK tells peers apart by their ports alone.                           *)
FullMatched_node(p, q) == p.node = q.node
FullMatched(p, q) ==
    IF ipc.type = "VSOCK" THEN p.port = q.port ELSE p.node = q.node /\ p.port = q.port
NodeMatched(p, q) == p.node = q.node

(* MinkIPC_retrieveSession: the first session of the peer, dead or alive.  *)
RetrieveSession(p) ==
    LET found == {i \in 1..Len(sessions) : FullMatched(sessions[i].peer, p)}
    IN IF found = {} THEN 0 ELSE CHOOSE i \in found : \A j \in found : i <= j

(* MinkIPC_closeSession: close, notify the subscribers, detach forwarders. *)
Closed(s) == [s EXCEPT !.alive = FALSE]

(* closeSessionOfNode and closeAllSessions.                                *)
CloseSessionOfNode(ss, p) ==
    [i \in DOMAIN ss |-> IF NodeMatched(ss[i].peer, p) THEN Closed(ss[i]) ELSE ss[i]]
CloseAllSessions(ss) == [i \in DOMAIN ss |-> Closed(ss[i])]

(* MinkIPC_cleanupSessions: release and forget the sessions that are dead. *)
IsAlive(s) == s.alive
CleanupSessions(ss) == SelectSeq(ss, IsAlive)

(* MinkIPC_newSession appends to the list.                                 *)
NewSession(p) == Append(sessions, [peer |-> p, alive |-> TRUE])

-----------------------------------------------------------------------------
(* Starting: MinkIPC_beginService on a server, MinkIPC_connectService on a *)
(* client.                                                                 *)

(* MinkIPC_new, then the socket and the listener thread.  A connected      *)
(* client has no listener; a client makes its session first.  When a later *)
(* step fails the instance is released.                                    *)
Start ==
    /\ app[Main] = "idle" /\ me.refs = 0
    /\ \E fails \in BOOLEAN :
        LET listens == ~fails /\ (ipc.bServer \/ Connless)
        IN /\ me' = [me EXCEPT !.refs = IF fails THEN 0 ELSE 1, !.alive = TRUE,
                               !.listenerThread = listens]
           /\ lpc' = IF listens THEN "start" ELSE "none"
           /\ sessions' = IF ipc.bServer THEN <<>> ELSE NewSession(ipc.server)
           /\ app' = [app EXCEPT ![Main] =
                 IF fails THEN "stopping" ELSE IF listens THEN "ready" ELSE "holds"]
    /\ UNCHANGED <<ipc, received, lmsg, target>>

(* The thread that starts waits for bReady.                                *)
WaitReady ==
    /\ app[Main] = "ready" /\ me.bReady
    /\ app' = [app EXCEPT ![Main] = "holds"]
    /\ UNCHANGED <<ipc, me, sessions, received, lpc, lmsg, target>>

-----------------------------------------------------------------------------
(* The listener: MinkIPC_serviceConnless, MinkIPC_serviceConnected.        *)

(* It says it is ready; a buffer or the socket may be unusable.            *)
ListenerStart ==
    /\ lpc = "start"
    /\ me' = [me EXCEPT !.bReady = TRUE]
    /\ lpc' \in {"clean"} \cup (IF Connless THEN {"ending"} ELSE {})
    /\ UNCHANGED <<ipc, sessions, received, lmsg, target, app>>

CleanupDead ==
    /\ lpc = "clean"
    /\ sessions' = CleanupSessions(sessions)
    /\ lpc' = IF me.alive THEN "recv" ELSE IF Connless THEN "ending" ELSE "test"
    /\ UNCHANGED <<ipc, me, received, lmsg, target, app>>

(* SockAgnostic_recvfrom or _accept returns a datagram or a connection ... *)
Recv ==
    /\ lpc = "recv" /\ received < MaxMsgs
    /\ \E k \in Packets(ipc.type), p \in Peers :
        /\ Populated(p) /\ (k = "DEL_SERVER" => ~ipc.bServer)
        /\ lmsg' = [type |-> k, peer |-> p]
    /\ received' = received + 1
    /\ lpc' = "classify"
    /\ UNCHANGED <<ipc, me, sessions, target, app>>

(* ... or fails: of itself or, when MinkIPC_stop closes the socket, by the *)
(* auxiliary pipe of QIPCRTR and the shutdown of a connected socket.       *)
(* Nothing wakes a VSOCK listener.  A connected listener tests bDone.      *)
RecvFails ==
    /\ lpc = "recv"
    /\ lpc' = IF Connless THEN "ending" ELSE "test"
    /\ UNCHANGED <<ipc, me, sessions, received, lmsg, target, app>>
WokenByStop == ~me.alive /\ ipc.type # "VSOCK"

(* SockQRTR_preProcess and SockVSOCK_preProcess.                           *)
PreProcessSock(m) ==
    CASE ipc.type = "VSOCK" -> "VSOCKCASE"
      [] m.type = "DATA" -> "OK"
      [] m.type = "DEL_CLIENT" -> "CLIENTDOWN"
      [] m.type = "DEL_SERVER" -> "SERVERDOWN"
      [] m.type = "BYE" /\ m.peer.node = 0 -> "SUBSYSDOWN"
      [] OTHER -> "DISCARD"

(* MinkIPC_preProcess and the test of its result.  The Object_ERROR of a   *)
(* DEL_SERVER that is not about this server is DISCARD: both are 1.        *)
PreProcess ==
    LET m == lmsg
        c == PreProcessSock(m)
        s == RetrieveSession(m.peer)
        closeFound == IF s = 0 THEN sessions ELSE [sessions EXCEPT ![s] = Closed(@)]
    IN CASE c = "OK" -> <<sessions, "find">>
         [] c = "CLIENTDOWN" -> <<closeFound, "test">>
         [] c = "SERVERDOWN" ->
                IF FullMatched(ipc.server, m.peer) THEN <<closeFound, "ending">>
                ELSE <<sessions, "test">>
         [] c = "SUBSYSDOWN" -> <<CloseSessionOfNode(sessions, m.peer), "test">>
         [] c = "VSOCKCASE" ->
                <<IF s = 0 THEN CloseAllSessions(sessions) ELSE sessions, "find">>
         [] c = "DISCARD" -> <<sessions, "test">>

Classify_keepsOld ==
    /\ lpc = "classify" /\ Connless
    /\ lpc' = PreProcess[2]
    /\ UNCHANGED <<ipc, me, sessions, received, lmsg, target, app>>
Classify ==
    /\ lpc = "classify" /\ Connless
    /\ sessions' = PreProcess[1]
    /\ lpc' = PreProcess[2]
    /\ UNCHANGED <<ipc, me, received, lmsg, target, app>>

(* MinkIPC_retrieveOrNewSession; a datagram without a session is dropped.  *)
Find_new ==
    /\ lpc = "find"
    /\ sessions' = NewSession(lmsg.peer) /\ target' = Len(sessions) + 1 /\ lpc' = "handle"
    /\ UNCHANGED <<ipc, me, received, lmsg, app>>
Find ==
    /\ lpc = "find"
    /\ LET s == RetrieveSession(lmsg.peer)
       IN \/ s # 0 /\ target' = s /\ lpc' = "handle" /\ UNCHANGED sessions
          \/ s = 0 /\ sessions' = NewSession(lmsg.peer)
             /\ target' = Len(sessions) + 1 /\ lpc' = "handle"
          \/ s = 0 /\ lpc' = "test" /\ UNCHANGED <<sessions, target>>
    /\ UNCHANGED <<ipc, me, received, lmsg, app>>

(* A connection that was accepted always gets a session of its own.        *)
Accept ==
    /\ lpc = "classify" /\ ~Connless
    /\ \/ sessions' = NewSession(lmsg.peer) /\ target' = Len(sessions) + 1 /\ lpc' = "handle"
       \/ lpc' = "test" /\ UNCHANGED <<sessions, target>>
    /\ UNCHANGED <<ipc, me, received, lmsg, app>>

(* MinkSocket_handleConnless or _handleConnected queues a work, if the     *)
(* session is alive.                                                       *)
Handle ==
    /\ lpc = "handle"
    /\ lpc' = "test" /\ target' = 0
    /\ UNCHANGED <<ipc, me, sessions, received, lmsg, app>>

(* while (!me->bDone).                                                     *)
Test ==
    /\ lpc = "test"
    /\ lpc' = IF me.bDone THEN "ending" ELSE "clean"
    /\ lmsg' = NoMsg
    /\ UNCHANGED <<ipc, me, sessions, received, target, app>>

(* serverDone: under the mutex, close everything and tell MinkIPC_stop.    *)
End_keepsSessions ==
    /\ lpc = "ending"
    /\ me' = [me EXCEPT !.bServerDone = TRUE]
    /\ lpc' = "exited" /\ lmsg' = NoMsg
    /\ UNCHANGED <<ipc, sessions, received, target, app>>
End ==
    /\ lpc = "ending"
    /\ sessions' = CloseAllSessions(sessions)
    /\ me' = [me EXCEPT !.bServerDone = TRUE]
    /\ lpc' = "exited" /\ lmsg' = NoMsg
    /\ UNCHANGED <<ipc, received, target, app>>

Listener ==
    \/ ListenerStart
    \/ CleanupDead
    \/ Recv
    \/ Classify
    \/ Find
    \/ Accept
    \/ Handle
    \/ Test
    \/ End

-----------------------------------------------------------------------------
(* Application threads.                                                    *)

(* MinkIPC_retain, by a thread that holds a reference, for another one.    *)
Retain(t) ==
    /\ \E u \in Threads : app[u] = "holds"
    /\ app[t] = "idle" /\ t # Main
    /\ me' = [me EXCEPT !.refs = @ + 1]
    /\ app' = [app EXCEPT ![t] = "holds"]
    /\ UNCHANGED <<ipc, sessions, received, lpc, lmsg, target>>

(* MinkIPC_join, on a server that has a listener.                          *)
JoinBegin ==
    /\ app[Main] = "holds" /\ ipc.bServer /\ me.listenerThread
    /\ app' = [app EXCEPT ![Main] = "joining"]
    /\ UNCHANGED <<ipc, me, sessions, received, lpc, lmsg, target>>
JoinEnd ==
    /\ app[Main] = "joining" /\ lpc = "exited"
    /\ me' = [me EXCEPT !.listenerThread = FALSE]
    /\ app' = [app EXCEPT ![Main] = "holds"]
    /\ UNCHANGED <<ipc, sessions, received, lpc, lmsg, target>>

(* MinkIPC_release: who drops the last reference stops and frees.          *)
Release(t) ==
    /\ app[t] = "holds"
    /\ me' = [me EXCEPT !.refs = @ - 1]
    /\ app' = [app EXCEPT ![t] = IF me.refs = 1 THEN "stopping" ELSE "gone"]
    /\ UNCHANGED <<ipc, sessions, received, lpc, lmsg, target>>

(* MinkIPC_stop: say so and close the socket ...                           *)
StopBegin_open(t) ==
    /\ app[t] = "stopping"
    /\ me' = [me EXCEPT !.bDone = TRUE]
    /\ app' = [app EXCEPT ![t] = IF me.listenerThread THEN "waiting" ELSE "cleaning"]
    /\ UNCHANGED <<ipc, sessions, received, lpc, lmsg, target>>
StopBegin(t) ==
    /\ app[t] = "stopping"
    /\ me' = [me EXCEPT !.bDone = TRUE, !.alive = FALSE]
    /\ app' = [app EXCEPT ![t] = IF me.listenerThread THEN "waiting" ELSE "cleaning"]
    /\ UNCHANGED <<ipc, sessions, received, lpc, lmsg, target>>

(* ... wait for the listener to be done, and join it ...                   *)
StopJoin_eager(t) ==
    /\ app[t] = "waiting"
    /\ me' = [me EXCEPT !.listenerThread = FALSE]
    /\ app' = [app EXCEPT ![t] = "cleaning"]
    /\ UNCHANGED <<ipc, sessions, received, lpc, lmsg, target>>
StopJoin(t) ==
    /\ app[t] = "waiting" /\ me.bServerDone /\ lpc = "exited"
    /\ me' = [me EXCEPT !.listenerThread = FALSE]
    /\ app' = [app EXCEPT ![t] = "cleaning"]
    /\ UNCHANGED <<ipc, sessions, received, lpc, lmsg, target>>

(* ... MinkIPC_cleanupAllSessions, and the instance is freed.              *)
StopClean(t) ==
    /\ app[t] = "cleaning"
    /\ sessions' = CleanupSessions(CloseAllSessions(sessions))
    /\ me' = [me EXCEPT !.freed = TRUE]
    /\ app' = [app EXCEPT ![t] = "gone"]
    /\ UNCHANGED <<ipc, received, lpc, lmsg, target>>

Stop(t) == StopBegin(t) \/ StopJoin(t) \/ StopClean(t)

-----------------------------------------------------------------------------
(* The environment.                                                        *)

(* A thread of the pool of a session closes it: its connection broke, or   *)
(* its object table became empty.                                          *)
SessionDies ==
    /\ \E i \in 1..Len(sessions) :
        sessions[i].alive /\ sessions' = [sessions EXCEPT ![i] = Closed(@)]
    /\ UNCHANGED <<ipc, me, received, lpc, lmsg, target, app>>

Next ==
    \/ Start
    \/ WaitReady
    \/ Listener
    \/ RecvFails
    \/ \E t \in Threads : Retain(t) \/ Release(t) \/ Stop(t)
    \/ JoinBegin
    \/ JoinEnd
    \/ SessionDies

Spec == Init /\ [][Next]_vars

(* Threads go on; a call that waits on the socket returns once it is woken.*)
Fairness ==
    /\ WF_vars(Start) /\ WF_vars(WaitReady) /\ WF_vars(JoinEnd)
    /\ WF_vars(Listener) /\ WF_vars(RecvFails /\ WokenByStop)
    /\ \A t \in Threads : WF_vars(Stop(t))

-----------------------------------------------------------------------------

(* A datagram is handled in the session of its sender, whatever sessions   *)
(* have been closed, forgotten and made since (minkipc.c retrieveSession,  *)
(* retrieveOrNewSession, handled at 390); there is one session for each    *)
(* sender.                                                                 *)
DatagramsFindTheirSession ==
    Connless =>
        /\ lpc = "handle" => sessions[target].peer = lmsg.peer
        /\ \A i, j \in 1..Len(sessions) : sessions[i].peer = sessions[j].peer => i = j

(* minkipc.c:303-306 "VSOCK has to work in single connection mode because  *)
(* it doesn't support close detection": a VSOCK server has at most one     *)
(* session that is alive.                                                  *)
VsockSingleConnection ==
    ipc.type = "VSOCK" /\ ipc.bServer =>
        Cardinality({i \in 1..Len(sessions) : sessions[i].alive}) <= 1

(* minkipc.c:949-952: MinkIPC_cleanupAllSessions is the only user of the   *)
(* unlocked session list when MinkIPC_stop calls it, and nothing of the    *)
(* instance is in use, or left in the list, once it is freed.              *)
StopAloneOnList ==
    /\ (\E t \in Threads : app[t] = "cleaning") => lpc \in {"none", "exited"}
    /\ me.freed =>
        /\ lpc \in {"none", "exited"} /\ sessions = <<>>
        /\ \A t \in Threads : app[t] \in {"idle", "gone"}

(* A listener that has ended, for whatever reason, leaves no session alive *)
(* (minkipc.c:402, 451): its callers have been woken, and no forwarder     *)
(* points to a connection that nobody reads.                               *)
EndedListenerLeavesNoneAlive ==
    me.bServerDone => \A i \in 1..Len(sessions) : ~sessions[i].alive

(* Releasing the last reference returns: the listener is woken wherever it *)
(* is (minkipc.c:925-954).  A VSOCK listener that waits in recvfrom is not *)
(* woken by the close of its socket, and is left out.                      *)
StopReturns ==
    (ipc.type # "VSOCK" /\ \E t \in Threads : app[t] = "stopping") ~> me.freed
=============================================================================
