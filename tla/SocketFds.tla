------------------------------ MODULE SocketFds ------------------------------
(***************************************************************************)
(* Who closes which descriptor: a MinkIPC instance, the MinkSockets of its *)
(* connections, and the rest of the process, which opens and closes        *)
(* descriptors of its own and gets the numbers that are free.  Sources     *)
(* (libmink/Transport/MinkSocket/sock): SockAgnostic.c, the constructors   *)
(* of SockUNIX.c, SockQRTR.c, SockVSOCK.c and SockQMSGQ.c, minkipc.c and   *)
(* minksocket.c where they make, copy and close a SockAgnostic; and the    *)
(* hub that gives a server its descriptor (Hub/ExampleHub/src/MinkHub.cpp).*)
(***************************************************************************)
EXTENDS Naturals, FiniteSets, FiniteSetsExt

CONSTANTS
    NumFds,       \* descriptors 1..NumFds; 0 belongs to the rest of the process
    Sockets,      \* MinkSockets
    Failures,     \* what may fail: "socket", "lookup", "bind", "listen", "connect"; "session" before
                  \* there is a MinkSocket, "late" after it, "adopted" after it took a descriptor over;
                  \* "opener" before there is a MinkIPC, "begun" after it was given a descriptor
    MaxFails,     \* bound on them
    MaxOthers     \* bound on the descriptors the rest of the process opens

VARIABLES
    kind,       \* ipcType, server or client, whether its descriptor is given
    table,      \* number -> who opened what it stands for, or "free"
    wrong,      \* a number was closed that stood for another's descriptor
    pc,         \* the thread that starts, serves and stops the instance
    sockFd,     \* its socket, 0 when there is none
    auxPipe,    \* its auxiliary pipe (one number for the pair)
    newSock,    \* newSockAgn: the connection just accepted
    sock,       \* MinkSocket -> its descriptor, 0 when it has none
    fails, others

vars == <<kind, table, wrong, pc, sockFd, auxPipe, newSock, sock, fails, others>>

Numbers == 1..NumFds
Types == {"UNIX", "QIPCRTR", "VSOCK", "QMSGQ"}
Connless == kind.type \in {"QIPCRTR", "VSOCK"}
Owners == {"free", "ipc", "aux", "conn", "other"} \cup Sockets

TypeOK ==
    /\ kind \in [type : Types, server : BOOLEAN, given : BOOLEAN]
    /\ table \in [Numbers -> Owners] /\ wrong \in BOOLEAN
    /\ pc \in {"construct", "opener", "given", "new", "ipc", "setup", "connect", "session", "serve", "abandon", "stop", "stopped"}
    /\ {sockFd, auxPipe, newSock} \subseteq 0..NumFds /\ sock \in [Sockets -> 0..NumFds]
    /\ fails \in 0..MaxFails /\ others \in 0..MaxOthers

(* A server is started on an address or on a descriptor that it is given.  *)
Init ==
    /\ kind \in {k \in [type : Types, server : BOOLEAN, given : BOOLEAN] : k.given => k.server}
    /\ table = [n \in Numbers |-> "free"]
    /\ wrong = FALSE /\ pc = (IF kind.given THEN "construct" ELSE "new") /\ sockFd = 0 /\ auxPipe = 0 /\ newSock = 0
    /\ sock = [s \in Sockets |-> 0] /\ fails = 0 /\ others = 0

Fails(call) == call \in Failures /\ fails < MaxFails /\ fails' = fails + 1

(* The kernel gives the lowest number that is free.                        *)
Free(tab) == {n \in Numbers : tab[n] = "free"}
Lowest(tab) == Min(Free(tab))
Opened(tab, who) == [tab EXCEPT ![Lowest(tab)] = who]

(* The number n is closed, if it is one; it may not stand for who's any    *)
(* more.                                                                   *)
Without(tab, n) == IF n \in Numbers THEN [tab EXCEPT ![n] = "free"] ELSE tab
NotIts(n, who) == n \in Numbers /\ table[n] # who

-----------------------------------------------------------------------------
(* A hub that serves on a descriptor of its own making.                    *)

(* MinkHub_constructSockfd: a socket that is bound, or published, or is    *)
(* closed again.                                                           *)
MinkUNIX_constructSockfd == Opened(table, "ipc")
MinkQRTR_constructSockfd == Opened(table, "ipc")
MinkVSOCK_constructSockfd == Opened(table, "ipc")
MinkHub_constructSockfd ==
    /\ pc = "construct" /\ Free(table) # {}
    /\ \/ /\ table' = CASE kind.type = "UNIX" -> MinkUNIX_constructSockfd
                        [] kind.type = "QIPCRTR" -> MinkQRTR_constructSockfd
                        [] OTHER -> MinkVSOCK_constructSockfd
          /\ sockFd' = Lowest(table) /\ pc' = "opener" /\ UNCHANGED fails
       \/ Fails("bind") /\ pc' = "stopped" /\ UNCHANGED <<table, sockFd>>
    /\ UNCHANGED <<kind, wrong, auxPipe, newSock, sock, others>>

(* MinkHub_startService_common makes the opener and begins the service;    *)
(* when either fails it closes the descriptor.                             *)
MinkHub_startService_common ==
    /\ pc = "opener"
    /\ \/ pc' = "new" /\ UNCHANGED fails
       \/ Fails("opener") /\ pc' = "given"
    /\ UNCHANGED <<kind, table, wrong, sockFd, auxPipe, newSock, sock, others>>
StartServiceFails ==
    /\ pc = "given" /\ pc' = "stopped" /\ sockFd' = 0
    /\ table' = Without(table, sockFd) /\ wrong' = (wrong \/ NotIts(sockFd, "ipc"))
    /\ UNCHANGED <<kind, auxPipe, newSock, sock, fails, others>>

-----------------------------------------------------------------------------
(* Making the instance.                                                    *)

(* SockUNIX_new, SockVSOCK_new and SockQMSGQ_new: a socket, unless the     *)
(* descriptor is given.                                                    *)
SockUNIX_new(tab) == IF kind.given THEN tab ELSE Opened(tab, "ipc")
SockVSOCK_new(tab) == IF kind.given THEN tab ELSE Opened(tab, "ipc")
SockQMSGQ_new(tab) == IF kind.given THEN tab ELSE Opened(tab, "ipc")

(* SockQRTR_new also looks the service up, reading control packets until   *)
(* the last; if that fails it closes the socket again.                     *)
SockQRTR_new(tab) == IF kind.given THEN tab ELSE Opened(tab, "ipc")

(* SockAgnostic_new: for QIPCRTR the auxiliary pipe comes first.           *)
SockAgnostic_new ==
    LET piped == IF kind.type = "QIPCRTR" THEN Opened(table, "aux") ELSE table
        made == CASE kind.type = "UNIX" -> SockUNIX_new(piped)
                  [] kind.type = "VSOCK" -> SockVSOCK_new(piped)
                  [] kind.type = "QMSGQ" -> SockQMSGQ_new(piped)
                  [] kind.type = "QIPCRTR" -> SockQRTR_new(piped)
    IN /\ pc = "new" /\ Cardinality(Free(table)) >= 2
       /\ \/ /\ table' = made /\ sockFd' = (IF kind.given THEN sockFd ELSE Lowest(piped))
             /\ auxPipe' = (IF kind.type = "QIPCRTR" THEN Lowest(table) ELSE 0)
             /\ pc' = (IF kind.server THEN "setup" ELSE "connect") /\ UNCHANGED fails
          \/ /\ ~kind.given /\ Fails(IF kind.type = "QIPCRTR" THEN "lookup" ELSE "socket")
             /\ pc' = "stopped" /\ table' = piped /\ UNCHANGED <<sockFd, auxPipe>>
       /\ UNCHANGED <<kind, wrong, newSock, sock, others>>

(* SockAgnostic_bind, which knows no QIPCRTR.                              *)
SockAgnostic_bind ==
    \/ kind.given /\ UNCHANGED fails
    \/ ~kind.given /\ kind.type # "QIPCRTR" /\ UNCHANGED fails
BindFails ==
    /\ ~kind.given
    /\ IF kind.type = "QIPCRTR" THEN UNCHANGED fails ELSE Fails("bind")

(* The rest of MinkIPC_beginService; when a step fails MinkIPC_release,    *)
(* which closes the socket; a hub that gave it closes it after that.       *)
ListenFails ==
    /\ ~Connless /\ Fails(IF kind.given THEN "begun" ELSE "listen")
    /\ IF kind.given THEN pc' = "given" /\ table' = Without(table, sockFd)
       ELSE pc' = "stop" /\ UNCHANGED table
MinkIPC_beginService ==
    /\ pc = "setup"
    /\ \/ SockAgnostic_bind /\ pc' = "serve" /\ UNCHANGED table
       \/ BindFails /\ pc' = "stop" /\ UNCHANGED table
       \/ ListenFails
    /\ UNCHANGED <<kind, wrong, sockFd, auxPipe, newSock, sock, others>>

(* SockAgnostic_connect in MinkIPC_connectService.                         *)
SockAgnostic_connect ==
    /\ pc = "connect"
    /\ \/ pc' = "session" /\ UNCHANGED fails
       \/ Fails("connect") /\ pc' = "stop"
    /\ UNCHANGED <<kind, table, wrong, sockFd, auxPipe, newSock, sock, others>>

-----------------------------------------------------------------------------
(* Sessions.                                                               *)

(* SockAgnostic_accept in MinkIPC_serviceConnected; a connectionless       *)
(* server makes a session of its own socket.                               *)
SockAgnostic_accept ==
    /\ pc = "serve" /\ kind.server /\ Free(table) # {}
    /\ IF Connless THEN newSock' = sockFd /\ UNCHANGED table
       ELSE newSock' = Lowest(table) /\ table' = Opened(table, "conn")
    /\ pc' = "session"
    /\ UNCHANGED <<kind, wrong, sockFd, auxPipe, sock, fails, others>>

(* SockAgnostic_adaptAndCopy: a connected server's MinkSocket takes the    *)
(* descriptor over, any other has a duplicate.                             *)
SockAgnostic_adaptAndCopy_shared(s) ==
    LET from == IF kind.server THEN newSock ELSE sockFd
    IN sock' = [sock EXCEPT ![s] = from] /\ table' = [table EXCEPT ![from] = s]
SockAgnostic_adaptAndCopy(s) ==
    IF kind.server /\ ~Connless
    THEN sock' = [sock EXCEPT ![s] = newSock] /\ table' = [table EXCEPT ![newSock] = s]
    ELSE sock' = [sock EXCEPT ![s] = Lowest(table)] /\ table' = Opened(table, s)

(* MinkIPC_newSession: out of memory before there is a MinkSocket; or the  *)
(* MinkSocket is made and a later step fails, and it is released, which    *)
(* closes what it has taken over.                                          *)
MinkIPC_newSession ==
    /\ pc = "session" /\ Free(table) # {} /\ UNCHANGED <<kind, wrong, sockFd, auxPipe, others>>
    /\ \/ /\ \E s \in Sockets : sock[s] = 0 /\ SockAgnostic_adaptAndCopy(s)
          /\ pc' = "serve" /\ newSock' = 0 /\ UNCHANGED fails
       \/ /\ Fails("session") /\ pc' = (IF kind.server THEN "abandon" ELSE "stop")
          /\ UNCHANGED <<table, sock, newSock>>
       \/ /\ Fails(IF kind.server /\ ~Connless THEN "adopted" ELSE "late")
          /\ pc' = (IF kind.server THEN "abandon" ELSE "stop")
          /\ table' = (IF kind.server /\ ~Connless THEN [table EXCEPT ![newSock] = "free"] ELSE table)
          /\ UNCHANGED <<sock, newSock>>

(* MinkIPC_serviceConnected abandons the connection; SockAgnostic_close.   *)
(* MinkIPC_retrieveOrNewSession only fails.                                *)
AbandonConnection ==
    /\ pc = "abandon" /\ pc' = "serve" /\ newSock' = 0
    /\ IF Connless THEN UNCHANGED <<table, wrong>>
       ELSE /\ table' = Without(table, newSock) /\ wrong' = (wrong \/ NotIts(newSock, "conn"))
    /\ UNCHANGED <<kind, sockFd, auxPipe, sock, fails, others>>

(* MinkSocket_close: by a worker of its pool, by the last release or when  *)
(* the instance closes its sessions.                                       *)
MinkSocket_close(s) ==
    /\ sock[s] # 0 /\ sock' = [sock EXCEPT ![s] = 0]
    /\ table' = Without(table, sock[s]) /\ wrong' = (wrong \/ NotIts(sock[s], s))
    /\ UNCHANGED <<kind, pc, sockFd, auxPipe, newSock, fails, others>>

(* MinkSocket_detach: the caller gets a duplicate, and the socket closes.  *)
MinkSocket_detach(s) ==
    /\ sock[s] # 0 /\ Free(table) # {} /\ others < MaxOthers /\ others' = others + 1
    /\ LET dup == Opened(table, "other")
       IN table' = Without(dup, sock[s]) /\ wrong' = (wrong \/ NotIts(sock[s], s))
    /\ sock' = [sock EXCEPT ![s] = 0]
    /\ UNCHANGED <<kind, pc, sockFd, auxPipe, newSock, fails>>

-----------------------------------------------------------------------------
(* Stopping.                                                               *)

SockAgnostic_close ==
    /\ table' = Without(Without(table, sockFd), auxPipe)
    /\ wrong' = (wrong \/ NotIts(sockFd, "ipc") \/ NotIts(auxPipe, "aux"))

(* MinkIPC_stop, when the last reference is released.                      *)
Release ==
    /\ pc = "serve" /\ pc' = "stop"
    /\ UNCHANGED <<kind, table, wrong, sockFd, auxPipe, newSock, sock, fails, others>>
MinkIPC_stop ==
    /\ pc = "stop" /\ sockFd # 0 /\ SockAgnostic_close /\ sockFd' = 0 /\ auxPipe' = 0
    /\ UNCHANGED <<kind, pc, newSock, sock, fails, others>>

(* MinkIPC_cleanupAllSessions has closed every session.                    *)
Stopped ==
    /\ pc = "stop" /\ sockFd = 0 /\ (\A s \in Sockets : sock[s] = 0) /\ pc' = "stopped"
    /\ UNCHANGED <<kind, table, wrong, sockFd, auxPipe, newSock, sock, fails, others>>

-----------------------------------------------------------------------------
(* The rest of the process opens a descriptor.                             *)
OtherOpens ==
    /\ others < MaxOthers /\ others' = others + 1 /\ Free(table) # {}
    /\ table' = Opened(table, "other")
    /\ UNCHANGED <<kind, wrong, pc, sockFd, auxPipe, newSock, sock, fails>>

Next ==
    \/ MinkHub_constructSockfd \/ MinkHub_startService_common \/ StartServiceFails
    \/ SockAgnostic_new \/ MinkIPC_beginService \/ SockAgnostic_connect \/ SockAgnostic_accept
    \/ MinkIPC_newSession \/ AbandonConnection \/ Release \/ MinkIPC_stop \/ Stopped \/ OtherOpens
    \/ \E s \in Sockets : MinkSocket_close(s) \/ MinkSocket_detach(s)

Spec == Init /\ [][Next]_vars

-----------------------------------------------------------------------------
=============================================================================
