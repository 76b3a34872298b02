----------------------------- MODULE SocketLife -----------------------------
(***************************************************************************)
(* The life of one MinkSocket (libmink/Transport/MinkSocket/sock):         *)
(* reference counts, the works of its thread pool, the forwarders attached *)
(* to it, its close, and its deletion by whoever drops the last reference. *)
(*                                                                         *)
(* References are held by the session of MinkIPC (the owner), by every     *)
(* attached MSForwarder and, on a server, by every work.  On a client a    *)
(* work holds none, and MinkSocket_delete joins the other threads of the   *)
(* pool instead (see ThreadPool).  An action that runs under the socket's  *)
(* mutex is one step; what the code reads before it locks is another.      *)
(***************************************************************************)
EXTENDS Naturals, FiniteSets

CONSTANTS
    Works, Fwds,  \* works of the pool; forwarders
    Owner         \* the MinkIPC session, on the thread that manages it

Actors == Works \cup Fwds \cup {Owner}

VARIABLES
    kind,       \* server or client; connectionless: the listener reads the messages
    refs, bDone, firstShot,
    freed,      \* MinkSocket_delete has run
    deaf,       \* a read failed with an error that ends the reader only
    fwd,        \* forwarders: "none", "attached" or "detached" (conn is NULL)
    pc          \* what each work, each user of a forwarder and the owner is at

vars == <<kind, refs, bDone, firstShot, freed, deaf, fwd, pc>>

WorkPC == {"idle", "queued", "polling", "received", "handling", "defunct",
           "closing", "detaching", "end", "lastclose", "deleting"}
UserPC == {"idle", "using", "releasing", "deleting"}
OwnerPC == {"new", "open", "detaching", "closed", "lastclose", "deleting", "gone"}

TypeOK ==
    /\ kind \in [bServer : BOOLEAN, connless : BOOLEAN]
    /\ refs \in Nat /\ firstShot \in {0, 1}
    /\ bDone \in BOOLEAN /\ freed \in BOOLEAN /\ deaf \in BOOLEAN
    /\ fwd \in [Fwds -> {"none", "attached", "detached"}]
    /\ pc \in [Actors -> WorkPC \cup UserPC \cup OwnerPC]
    /\ \A w \in Works : pc[w] \in WorkPC
    /\ \A f \in Fwds : pc[f] \in UserPC
    /\ pc[Owner] \in OwnerPC

(* MinkSocket_new_internal, with the reference of the session.             *)
Init ==
    /\ kind \in [bServer : BOOLEAN, connless : BOOLEAN]
    /\ refs = 1 /\ firstShot = 1
    /\ bDone = FALSE /\ freed = FALSE /\ deaf = FALSE
    /\ fwd = [f \in Fwds |-> "none"]
    /\ pc = [a \in Actors |-> IF a = Owner THEN "new" ELSE "idle"]

Attached == {f \in Fwds : fwd[f] = "attached"}
Busy == {w \in Works : pc[w] # "idle"}

-----------------------------------------------------------------------------
(* References, close and delete, on behalf of any actor.                   *)

Goto(a, l) == pc' = [pc EXCEPT ![a] = l]

(* MinkSocket_release: the last reference closes and deletes.              *)
MinkSocket_release_early(a, l) ==
    /\ refs' = refs - 1
    /\ Goto(a, IF refs <= 2 THEN "lastclose" ELSE l)
    /\ UNCHANGED <<kind, bDone, firstShot, freed, deaf, fwd>>
MinkSocket_release(a, l) ==
    /\ refs' = refs - 1
    /\ Goto(a, IF refs = 1 THEN "lastclose" ELSE l)
    /\ UNCHANGED <<kind, bDone, firstShot, freed, deaf, fwd>>

(* MinkSocket_close: only the first one does anything.                     *)
MinkSocket_close(a, l) ==
    /\ bDone' = TRUE
    /\ Goto(a, l)
    /\ UNCHANGED <<kind, refs, firstShot, freed, deaf, fwd>>

LastClose(a) == pc[a] = "lastclose" /\ MinkSocket_close(a, "deleting")

(* MinkSocket_detachForwarderAll: forwarders forget the connection; who    *)
(* drops the last reference deletes without another close.                 *)
DetachForwarderAll(a, l) ==
    LET S == Attached
    IN /\ fwd' = [f \in Fwds |-> IF f \in S THEN "detached" ELSE fwd[f]]
       /\ refs' = refs - Cardinality(S)
       /\ Goto(a, IF S # {} /\ refs' = 0 THEN "deleting" ELSE l)
       /\ UNCHANGED <<kind, bDone, firstShot, freed, deaf>>

(* ThreadPool_stop on a client waits for the threads that run a work, but  *)
(* for the thread that calls it.                                           *)
Joined_none(a) == TRUE
Joined(a) == kind.bServer \/ \A w \in Busy \ {a} : pc[w] = "queued"

(* MinkSocket_delete: works that are still queued go with the pool.        *)
MinkSocket_delete(a) ==
    /\ pc[a] = "deleting" /\ Joined(a)
    /\ freed' = TRUE
    /\ pc' = [b \in Actors |->
        IF b \in Works /\ (b = a \/ pc[b] = "queued") THEN "idle"
        ELSE IF b = a THEN (IF a = Owner THEN "gone" ELSE "idle")
        ELSE pc[b]]
    /\ UNCHANGED <<kind, refs, bDone, firstShot, deaf, fwd>>

(* MinkSocket_enqueue of v by a, which goes on at l.  A closed socket      *)
(* frees the work.                                                         *)
Retained_client == 0
Retained == IF kind.bServer THEN 1 ELSE 0
Queued(a, v, l) ==
    /\ ~bDone /\ pc[v] = "idle"
    /\ refs' = refs + Retained
    /\ pc' = [pc EXCEPT ![a] = l, ![v] = "queued"]
    /\ UNCHANGED <<kind, bDone, firstShot, freed, deaf, fwd>>

-----------------------------------------------------------------------------
(* The works: MinkSocket_processReq, or MinkSocket_processMsg.             *)

(* A thread takes the work.  A reader whose socket is closed handles an    *)
(* empty message, which is of no known type.                               *)
StartWork(w) ==
    /\ pc[w] = "queued"
    /\ Goto(w, IF kind.connless THEN "handling" ELSE IF bDone THEN "defunct" ELSE "polling")
    /\ UNCHANGED <<kind, refs, bDone, firstShot, freed, deaf, fwd>>

(* poll and, under the mutex, recv: a message, the end of the connection   *)
(* (by the peer, or by a close here), or an error that is only logged.     *)
Recv(w) ==
    /\ pc[w] = "polling"
    /\ \/ ~bDone /\ Goto(w, "received") /\ UNCHANGED deaf
       \/ Goto(w, "defunct") /\ UNCHANGED deaf
       \/ ~bDone /\ Goto(w, "end") /\ deaf' = TRUE
    /\ UNCHANGED <<kind, refs, bDone, firstShot, freed, fwd>>

(* The reader queues its successor before it handles its message.          *)
EnqueueNext_none(w) ==
    /\ pc[w] = "received" /\ Goto(w, "handling")
    /\ UNCHANGED <<kind, refs, bDone, firstShot, freed, deaf, fwd>>
EnqueueNext(w) ==
    /\ pc[w] = "received"
    /\ \/ \E v \in Works : Queued(w, v, "handling")
       \/ /\ bDone /\ Goto(w, "handling")
          /\ UNCHANGED <<kind, refs, bDone, firstShot, freed, deaf, fwd>>

(* MinkSocket_processMsgInternal returns: OK or an error that is logged;   *)
(* DEFUNCT, of a reply that could not be sent; or, in recvClose on a VSOCK *)
(* server whose table is empty, it closes the connection.                  *)
Handle(w) ==
    /\ pc[w] = "handling"
    /\ \/ Goto(w, "end")
       \/ Goto(w, "defunct")
       \/ kind.bServer /\ kind.connless /\ Goto(w, "closing")
    /\ UNCHANGED <<kind, refs, bDone, firstShot, freed, deaf, fwd>>

(* MinkSocket_processException(DEFUNCT): the first one closes.             *)
ProcessException(w) ==
    /\ pc[w] = "defunct"
    /\ firstShot' = 0
    /\ Goto(w, IF firstShot = 1 THEN "closing" ELSE "end")
    /\ UNCHANGED <<kind, refs, bDone, freed, deaf, fwd>>

WorkClose_only(w) == pc[w] = "closing" /\ MinkSocket_close(w, "end")
WorkClose(w) == pc[w] = "closing" /\ MinkSocket_close(w, "detaching")

WorkDetach(w) == pc[w] = "detaching" /\ DetachForwarderAll(w, "end")

(* MinkSocket_dequeue ends the work.                                       *)
EndWork(w) ==
    /\ pc[w] = "end"
    /\ IF kind.bServer THEN MinkSocket_release(w, "idle")
       ELSE Goto(w, "idle") /\ UNCHANGED <<kind, refs, bDone, firstShot, freed, deaf, fwd>>

Work(w) ==
    \/ StartWork(w)
    \/ Recv(w)
    \/ EnqueueNext(w)
    \/ Handle(w)
    \/ ProcessException(w)
    \/ WorkClose(w)
    \/ WorkDetach(w)
    \/ EndWork(w)
    \/ LastClose(w)
    \/ MinkSocket_delete(w)

-----------------------------------------------------------------------------
(* Forwarders and the threads that use them.                               *)

(* MinkSocket_attachForwarder, for the proxy of MinkIPC_connect, a handle  *)
(* in a message, or a primordial derived from another forwarder.           *)
CanAttach_always == TRUE
CanAttach == ~bDone
AttachForwarder(f) ==
    /\ \/ pc[Owner] = "open"
       \/ \E w \in Works : pc[w] = "handling"
       \/ \E g \in Fwds : pc[g] = "using"
    /\ fwd[f] = "none" /\ CanAttach /\ ~freed
    /\ refs' = refs + 1
    /\ fwd' = [fwd EXCEPT ![f] = "attached"]
    /\ UNCHANGED <<kind, bDone, firstShot, freed, deaf, pc>>

(* MSForwarder_invoke reads conn and calls MinkSocket_invoke, which ends   *)
(* with the mutex of the socket.                                           *)
BeginInvoke(f) ==
    /\ pc[f] = "idle" /\ fwd[f] = "attached"
    /\ Goto(f, "using")
    /\ UNCHANGED <<kind, refs, bDone, firstShot, freed, deaf, fwd>>
EndInvoke(f) ==
    /\ pc[f] = "using"
    /\ Goto(f, "idle")
    /\ UNCHANGED <<kind, refs, bDone, firstShot, freed, deaf, fwd>>

(* MSForwarder_delete reads conn ...                                       *)
BeginDelete(f) ==
    /\ pc[f] = "idle" /\ fwd[f] # "none"
    /\ IF fwd[f] = "attached" THEN Goto(f, "releasing") /\ UNCHANGED fwd
       ELSE fwd' = [fwd EXCEPT ![f] = "none"] /\ UNCHANGED pc
    /\ UNCHANGED <<kind, refs, bDone, firstShot, freed, deaf>>

(* ... and MinkSocket_preDeleteForwarder detaches under the mutex, unless  *)
(* the forwarder has been detached meanwhile.                              *)
PreDeleteForwarder_twice(f) ==
    /\ pc[f] = "releasing"
    /\ fwd' = [fwd EXCEPT ![f] = "none"]
    /\ refs' = refs - 1
    /\ Goto(f, IF refs = 1 THEN "deleting" ELSE "idle")
    /\ UNCHANGED <<kind, bDone, firstShot, freed, deaf>>
PreDeleteForwarder(f) ==
    /\ pc[f] = "releasing"
    /\ fwd' = [fwd EXCEPT ![f] = "none"]
    /\ IF fwd[f] = "attached"
       THEN refs' = refs - 1 /\ Goto(f, IF refs = 1 THEN "deleting" ELSE "idle")
       ELSE Goto(f, "idle") /\ UNCHANGED refs
    /\ UNCHANGED <<kind, bDone, firstShot, freed, deaf>>

User(f) == EndInvoke(f) \/ PreDeleteForwarder(f) \/ MinkSocket_delete(f)

-----------------------------------------------------------------------------
(* The session.                                                            *)

(* MinkIPC_newSession: the session is set up, or the socket is released.   *)
OpenSession ==
    /\ pc[Owner] = "new"
    /\ \/ /\ kind.connless /\ Goto(Owner, "open")
          /\ UNCHANGED <<kind, refs, bDone, firstShot, freed, deaf, fwd>>
       \/ ~kind.connless /\ \E w \in Works : Queued(Owner, w, "open")
       \/ MinkSocket_release(Owner, "gone")

(* MinkSocket_handleConnless: a message for this session.                  *)
HandleConnless ==
    /\ kind.connless /\ pc[Owner] = "open"
    /\ \E w \in Works : Queued(Owner, w, "open")

(* MinkIPC_closeSession, and MinkIPC_removeSession of a dead session.      *)
CloseSession == pc[Owner] = "open" /\ MinkSocket_close(Owner, "detaching")
DetachSession == pc[Owner] = "detaching" /\ DetachForwarderAll(Owner, "closed")
RemoveSession_alive == pc[Owner] \in {"open", "closed"} /\ MinkSocket_release(Owner, "gone")
RemoveSession ==
    /\ pc[Owner] \in {"open", "closed"} /\ bDone
    /\ MinkSocket_release(Owner, "gone")

OwnerEnds == DetachSession \/ RemoveSession \/ LastClose(Owner) \/ MinkSocket_delete(Owner)

Next ==
    \/ \E w \in Works : Work(w)
    \/ \E f \in Fwds : AttachForwarder(f) \/ BeginInvoke(f) \/ BeginDelete(f) \/ User(f)
    \/ OpenSession
    \/ HandleConnless
    \/ CloseSession
    \/ OwnerEnds

Spec == Init /\ [][Next]_vars

(* Threads go on; a reader polls for ever on a connection that is open.    *)
Fairness ==
    /\ \A w \in Works : WF_vars(Work(w) /\ (bDone \/ pc[w] # "polling"))
    /\ \A f \in Fwds : WF_vars(User(f))
    /\ WF_vars(OwnerEnds)

-----------------------------------------------------------------------------

(* refs is the number of references: one of the session, one of every      *)
(* attached forwarder and, on a server, one of every work (minksocket.c    *)
(* attachForwarder, detachForwarderLocked, enqueue, dequeue, release).     *)
HoldingWorks == {w \in Busy : kind.bServer /\ pc[w] \notin {"lastclose", "deleting"}}
Holders == Cardinality(Attached) + Cardinality(HoldingWorks)
         + (IF pc[Owner] \in {"lastclose", "deleting", "gone"} THEN 0 ELSE 1)
RefsExact == refs = Holders

(* The socket is deleted by one actor only, once, with no reference left.  *)
Deleters == {a \in Actors : pc[a] \in {"lastclose", "deleting"}}
DeletedOnce ==
    /\ Cardinality(Deleters) <= 1
    /\ freed => Deleters = {}
    /\ freed \/ Deleters # {} => refs = 0

(* minksocket.c:598 "Thus MinkSocket never be freed before all TheadWorks  *)
(* done", and on a client neither; nor is a session left that names it.    *)
FreedAfterAllWorks == freed => Busy = {} /\ pc[Owner] = "gone"

(* Who deletes without a close (detachForwarderAll, preDeleteForwarder)    *)
(* does so after somebody closed: the readers have been woken, and the     *)
(* join of ThreadPool_stop can end.                                        *)
DeletedOnlyClosed == \A a \in Actors : pc[a] = "deleting" => bDone

(* Whoever closes also detaches, and nothing attaches afterwards: no       *)
(* forwarder keeps a closed connection alive.                              *)
ClosedHasNoForwarders ==
    bDone => Attached = {} \/ \E a \in Actors : pc[a] = "detaching"

(* On a connection that is open somebody reads, or is about to, unless a   *)
(* read failed with an error other than DEFUNCT (minksocket.c:1338-1359).  *)
OpenConnectionIsRead ==
    ~kind.connless /\ ~bDone /\ pc[Owner] = "open" /\ ~deaf =>
        \E w \in Works : pc[w] \in {"queued", "polling", "received", "defunct", "closing"}

(* A socket is freed by the last of its holders, once, when it is closed   *)
(* and after all its works, and until then its connection is read.         *)
SocketFreedLast ==
    /\ RefsExact
    /\ DeletedOnce
    /\ FreedAfterAllWorks
    /\ DeletedOnlyClosed
    /\ ClosedHasNoForwarders
    /\ OpenConnectionIsRead

(* A session that has been removed is followed by the deletion of its      *)
(* socket, whether or not the users of its forwarders release them.        *)
RemovedIsFreed == pc[Owner] = "gone" ~> freed

(* minkipc.c:283-289 "This causes crash as MinkSocket_delete would delete  *)
(* full socket data and invoke thread tries to access socket data": no     *)
(* thread that has read conn still needs the socket when it is freed.      *)
UsersDoneWhenFreed == freed => \A f \in Fwds : pc[f] \notin {"using", "releasing"}

-----------------------------------------------------------------------------
(* What the proofs of these properties keep true besides.                  *)

(* Nothing has begun, or nothing is left that could use the socket.        *)
Quiet ==
    /\ \A w \in Works : pc[w] = "idle"
    /\ \A f \in Fwds : fwd[f] = "none" /\ pc[f] = "idle"

(* The owner before and after its reference.                               *)
Left == pc[Owner] \in {"lastclose", "deleting", "gone"}
OwnerRef == IF Left THEN 0 ELSE 1

(* Who may still reach an open socket: before the session opens nobody; a  *)
(* user of a forwarder that was detached has seen the close.               *)
Reached ==
    /\ pc[Owner] = "new" => Quiet /\ ~bDone /\ ~freed
    /\ Left => bDone \/ (Quiet /\ pc[Owner] = "lastclose" /\ ~freed)
    /\ pc[Owner] \in {"detaching", "closed"} => bDone
    /\ \A w \in Works : pc[w] = "detaching" => bDone
    /\ \A f \in Fwds : pc[f] \in {"using", "releasing"} => fwd[f] = "attached" \/ bDone

(* Only one actor is past the last reference, and then none is left.       *)
OneDeleter ==
    /\ \A a, b \in Deleters : a = b
    /\ freed => Deleters = {} /\ bDone
    /\ (freed \/ Deleters # {}) => refs = 0

SocketInv ==
    /\ TypeOK
    /\ RefsExact
    /\ Reached
    /\ OneDeleter
    /\ DeletedOnlyClosed
    /\ FreedAfterAllWorks

(* Works, forwarders and the session are different actors, and finite.     *)
ActorsApart ==
    /\ IsFiniteSet(Works) /\ IsFiniteSet(Fwds)
    /\ Works \cap Fwds = {} /\ Owner \notin Works /\ Owner \notin Fwds

(* A work moves on within its life, or closes the socket.                  *)
InWork == WorkPC \ {"idle", "lastclose", "deleting"}

(* Who reads, or is about to.                                              *)
Reading == {"queued", "polling", "received", "defunct", "closing"}

(* Only the first DEFUNCT closes (bFirstShot): until it has, it is about   *)
(* to, so that a later one may leave the closing to it.                    *)
FirstCloses == firstShot = 0 /\ ~bDone => \E w \in Works : pc[w] = "closing"

ReadInv == OpenConnectionIsRead /\ FirstCloses
=============================================================================
