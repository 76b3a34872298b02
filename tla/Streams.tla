------------------------------- MODULE Streams -------------------------------
(***************************************************************************)
(* What crosses a connected socket: the threads of the two ends that send  *)
(* requests, replies and closes, each in as many pieces as the kernel      *)
(* takes, and the reader of each end, which puts messages together again.  *)
(* Every send, and on a UNIX socket every receive, holds the MinkSocket's  *)
(* mutex.  Sources (libmink/Transport/MinkSocket/sock): SockUNIX.c,        *)
(* SockQMSGQ.c, SockAgnostic.c, and the callers in minksocket.c.           *)
(*                                                                         *)
(* A message is a run of units; its first unit carries its descriptors, as *)
(* SCM_RIGHTS does.  External: the kernel's two buffers of Cap units, which *)
(* split a UNIX stream anywhere and keep the packets of QMSGQ whole.       *)
(***************************************************************************)
EXTENDS Integers, Sequences

CONSTANTS
    Protocols,      \* subset of {"UNIX", "QMSGQ"}
    SendersA, SendersB,  \* the threads that send at either end
    Sizes,          \* sizes of messages; one with a body brings descriptors
    HdrSize,        \* units of the header
    Cap,            \* units a buffer holds
    MaxPayload,     \* MAX_QMSGQ_PAYLOAD
    MaxCloses       \* bound on ends that close of themselves

VARIABLES
    sockType,
    open,       \* the end's socket is open
    mutex,      \* end -> thread that has the MinkSocket's mutex, or "none"
    chan,       \* end -> units on their way to it
    pc,         \* sender -> where it is
    msg,        \* sender -> the message it sends
    left,       \* sender -> units not yet sent
    rpc,        \* end -> where its reader is
    got,        \* end -> units and descriptors of the message being read
    intact,     \* no end has taken anything but a whole message for a message
    closes

vars == <<sockType, open, mutex, chan, pc, msg, left, rpc, got, intact, closes>>

Ends == {"a", "b"}
Peer(e) == IF e = "a" THEN "b" ELSE "a"
Senders == [e \in Ends |-> IF e = "a" THEN SendersA ELSE SendersB]
Messages == {[size |-> n, fds |-> n - HdrSize] : n \in Sizes}
Threads == UNION {Senders[e] : e \in Ends}
EndOf(t) == CHOOSE e \in Ends : t \in Senders[e]
SomeMessage == CHOOSE m \in Messages : TRUE
NoFds == [count |-> 0, valid |-> 0]
Nothing == [units |-> <<>>, fds |-> NoFds]

TypeOK ==
    /\ sockType \in Protocols /\ open \in [Ends -> BOOLEAN]
    /\ mutex \in [Ends -> Threads \cup {"reader", "none"}]
    /\ pc \in [Threads -> {"idle", "lock", "send", "done", "failed"}]
    /\ msg \in [Threads -> Messages]
    /\ rpc \in [Ends -> {"poll", "lock", "header", "body", "end"}]
    /\ \A e \in Ends : Len(chan[e]) <= Cap

Init ==
    /\ sockType \in Protocols /\ open = [e \in Ends |-> TRUE] /\ mutex = [e \in Ends |-> "none"]
    /\ chan = [e \in Ends |-> <<>>] /\ pc = [t \in Threads |-> "idle"]
    /\ msg = [t \in Threads |-> SomeMessage] /\ left = [t \in Threads |-> 0]
    /\ rpc = [e \in Ends |-> "poll"] /\ got = [e \in Ends |-> Nothing]
    /\ intact = TRUE /\ closes = 0

-----------------------------------------------------------------------------
(* Sending.                                                                *)

(* SockAgnostic_sendVec or _sendMsg is called for a message.               *)
Send(t) ==
    /\ pc[t] = "idle" /\ pc' = [pc EXCEPT ![t] = "lock"]
    /\ \E m \in Messages : msg' = [msg EXCEPT ![t] = m] /\ left' = [left EXCEPT ![t] = m.size]
    /\ UNCHANGED <<sockType, open, mutex, chan, rpc, got, intact, closes>>

LockToSend_not(t) ==
    /\ pc[t] = "lock" /\ pc' = [pc EXCEPT ![t] = "send"] /\ UNCHANGED mutex
    /\ UNCHANGED <<sockType, open, chan, msg, left, rpc, got, intact, closes>>
LockToSend(t) ==
    LET e == EndOf(t)
    IN /\ pc[t] = "lock" /\ mutex[e] = "none"
       /\ mutex' = [mutex EXCEPT ![e] = t] /\ pc' = [pc EXCEPT ![t] = "send"]
       /\ UNCHANGED <<sockType, open, chan, msg, left, rpc, got, intact, closes>>

SendReturns(t, result) ==
    /\ pc' = [pc EXCEPT ![t] = result] /\ mutex' = [mutex EXCEPT ![EndOf(t)] = "none"]

(* The units numbered from..to of t's message.                             *)
Piece(t, from, to) ==
    [i \in 1..(to + 1 - from) |->
        [by |-> t, idx |-> from + i - 1, size |-> msg[t].size, fds |-> IF from + i = 2 THEN msg[t].fds ELSE 0]]

(* A socket that is closed here or there.                                  *)
SendFails_keeps(t) ==
    /\ pc[t] = "send" /\ ~(open[EndOf(t)] /\ open[Peer(EndOf(t))])
    /\ pc' = [pc EXCEPT ![t] = "failed"] /\ UNCHANGED mutex /\ left' = [left EXCEPT ![t] = 0]
    /\ UNCHANGED <<sockType, open, chan, msg, rpc, got, intact, closes>>
SendFails(t) ==
    /\ pc[t] = "send" /\ ~(open[EndOf(t)] /\ open[Peer(EndOf(t))])
    /\ SendReturns(t, "failed") /\ left' = [left EXCEPT ![t] = 0]
    /\ UNCHANGED <<sockType, open, chan, msg, rpc, got, intact, closes>>

(* SockUNIX_sendVec and SockUNIX_sendMsg: one call of sendmsg of the loop, *)
(* which takes what there is room for.                                     *)
SockUNIX_sendVec(t) ==
    LET e == EndOf(t)
        to == Peer(e)
        sent == msg[t].size - left[t]
        room == Cap - Len(chan[to])
    IN /\ sockType = "UNIX" /\ pc[t] = "send" /\ open[e] /\ open[to]
       /\ \E n \in 1..left[t] :
             /\ n <= room /\ chan' = [chan EXCEPT ![to] = @ \o Piece(t, sent + 1, sent + n)]
             /\ left' = [left EXCEPT ![t] = @ - n]
             /\ IF n = left[t] THEN SendReturns(t, "done") ELSE UNCHANGED <<pc, mutex>>
       /\ UNCHANGED <<sockType, open, msg, rpc, got, intact, closes>>

(* SockQMSGQ_sendVec: a message over the limit is refused, another is one  *)
(* packet.                                                                 *)
SockQMSGQ_sendVec(t) ==
    LET e == EndOf(t)
        to == Peer(e)
    IN /\ sockType = "QMSGQ" /\ pc[t] = "send" /\ open[e] /\ open[to] /\ left' = [left EXCEPT ![t] = 0]
       /\ \/ /\ msg[t].size > MaxPayload /\ SendReturns(t, "failed") /\ UNCHANGED chan
          \/ /\ msg[t].size <= MaxPayload /\ Len(chan[to]) + msg[t].size <= Cap
             /\ chan' = [chan EXCEPT ![to] = @ \o Piece(t, 1, msg[t].size)] /\ SendReturns(t, "done")
       /\ UNCHANGED <<sockType, open, msg, rpc, got, intact, closes>>

-----------------------------------------------------------------------------
(* Receiving: MinkSocket_processReq of each end.                           *)

(* SockAgnostic_poll returns when there is something to read, or the       *)
(* socket is closed here or there, read or not: this end closes too.  For  *)
(* QMSGQ it returns at once.                                               *)
SockAgnostic_poll(e) ==
    /\ rpc[e] = "poll"
    /\ \/ /\ sockType = "QMSGQ" /\ open[e] /\ rpc' = [rpc EXCEPT ![e] = "header"] /\ UNCHANGED open
       \/ /\ sockType = "UNIX" /\ open[e] /\ open[Peer(e)] /\ chan[e] # <<>>
          /\ rpc' = [rpc EXCEPT ![e] = "lock"] /\ UNCHANGED open
       \/ /\ ~open[e] \/ (sockType = "UNIX" /\ ~open[Peer(e)])
          /\ rpc' = [rpc EXCEPT ![e] = "end"] /\ open' = [open EXCEPT ![e] = FALSE]
    /\ UNCHANGED <<sockType, mutex, chan, pc, msg, left, got, intact, closes>>

(* The receive holds the mutex, except on QMSGQ.                           *)
LockToReceive(e) ==
    /\ rpc[e] = "lock" /\ mutex[e] = "none"
    /\ mutex' = [mutex EXCEPT ![e] = "reader"] /\ rpc' = [rpc EXCEPT ![e] = "header"]
    /\ UNCHANGED <<sockType, open, chan, pc, msg, left, got, intact, closes>>

UnlockReader(e) == mutex' = [mutex EXCEPT ![e] = IF @ = "reader" THEN "none" ELSE @]

(* The peer is gone and all is read: MinkSocket_processException closes    *)
(* this end.                                                               *)
ReceiveFails(e) ==
    /\ rpc[e] \in {"header", "body"} /\ chan[e] = <<>> /\ ~open[Peer(e)]
    /\ rpc' = [rpc EXCEPT ![e] = "end"] /\ open' = [open EXCEPT ![e] = FALSE] /\ UnlockReader(e)
    /\ got' = [got EXCEPT ![e] = Nothing]
    /\ UNCHANGED <<sockType, chan, pc, msg, left, intact, closes>>

(* What recvmsg leaves of the descriptors: those of this piece are copied  *)
(* over the ones of the piece before, and the count goes on.               *)
CollectFds(fds, piece) ==
    LET n == piece[1].fds
    IN [count |-> fds.count + n, valid |-> IF fds.count + n = 0 THEN 0 ELSE n]

(* A message that is whole: all the units of one message, in order, with   *)
(* all its descriptors.                                                    *)
Whole(g) ==
    /\ \A i \in DOMAIN g.units : g.units[i].by = g.units[1].by /\ g.units[i].idx = i
    /\ Len(g.units) = g.units[1].size
    /\ g.fds.count = g.units[1].fds /\ g.fds.valid = g.fds.count

Deliver(e, g) ==
    /\ got' = [got EXCEPT ![e] = Nothing] /\ intact' = (intact /\ Whole(g))
    /\ rpc' = [rpc EXCEPT ![e] = "poll"] /\ UnlockReader(e)

(* SockUNIX_recvMsg, called by SockUNIX_recv for the header and then for   *)
(* as much as the header says: one recvmsg of its loop.                    *)
SockUNIX_recvMsg(e) ==
    LET want == (IF rpc[e] = "header" THEN HdrSize ELSE got[e].units[1].size) - Len(got[e].units)
    IN /\ sockType = "UNIX" /\ rpc[e] \in {"header", "body"} /\ chan[e] # <<>>
       /\ \E n \in 1..want :
             /\ n <= Len(chan[e])
             /\ LET piece == SubSeq(chan[e], 1, n)
                    fds == IF rpc[e] = "header" THEN CollectFds(got[e].fds, piece) ELSE got[e].fds
                    g == [units |-> got[e].units \o piece, fds |-> fds]
                    size == g.units[1].size
                IN /\ chan' = [chan EXCEPT ![e] = SubSeq(@, n + 1, Len(@))]
                   /\ IF (rpc[e] = "header" /\ Len(g.units) = HdrSize /\ size = HdrSize)
                         \/ (rpc[e] = "body" /\ n = want)
                      THEN Deliver(e, g)
                      ELSE /\ got' = [got EXCEPT ![e] = g]
                           /\ rpc' = [rpc EXCEPT ![e] = IF Len(g.units) >= HdrSize THEN "body" ELSE "header"]
                           /\ UNCHANGED <<intact, mutex>>
       /\ UNCHANGED <<sockType, open, pc, msg, left, closes>>

(* SockQMSGQ_recv: one packet.                                             *)
SockQMSGQ_recv(e) ==
    /\ sockType = "QMSGQ" /\ rpc[e] = "header" /\ chan[e] # <<>>
    /\ LET n == chan[e][1].size
       IN /\ Deliver(e, [units |-> SubSeq(chan[e], 1, n),
                         fds |-> [count |-> chan[e][1].fds, valid |-> chan[e][1].fds]])
          /\ chan' = [chan EXCEPT ![e] = SubSeq(@, n + 1, Len(@))]
    /\ UNCHANGED <<sockType, open, pc, msg, left, closes>>

(* MinkSocket_close, of an end whose owner lets it go.                     *)
MinkSocket_close(e) ==
    /\ closes < MaxCloses /\ closes' = closes + 1
    /\ open[e] /\ mutex[e] = "none" /\ open' = [open EXCEPT ![e] = FALSE]
    /\ UNCHANGED <<sockType, mutex, chan, pc, msg, left, rpc, got, intact>>

-----------------------------------------------------------------------------
SenderStep(t) == LockToSend(t) \/ SendFails(t) \/ SockUNIX_sendVec(t) \/ SockQMSGQ_sendVec(t)
ReaderStep(e) ==
    \/ SockAgnostic_poll(e) \/ LockToReceive(e) \/ ReceiveFails(e) \/ SockUNIX_recvMsg(e)
    \/ SockQMSGQ_recv(e)
Next ==
    \/ \E t \in Threads : Send(t) \/ SenderStep(t)
    \/ \E e \in Ends : ReaderStep(e) \/ MinkSocket_close(e)

Spec == Init /\ [][Next]_vars

(* Threads run, and a mutex that is free again and again is had in the end.*)
Fairness ==
    /\ \A t \in Threads : WF_vars(SenderStep(t)) /\ SF_vars(LockToSend(t))
    /\ \A e \in Ends : WF_vars(ReaderStep(e)) /\ SF_vars(LockToReceive(e))
FairSpec == Spec /\ Fairness

-----------------------------------------------------------------------------
(* What the reader puts together is one message that was sent, whole and   *)
(* with its descriptors, however many threads send at the same time and    *)
(* however the kernel splits what they send: the mutex is held for the     *)
(* whole of a send.                                                        *)
MessagesWhole == intact

(* Every send returns: the peer's reader makes room for it, or the socket  *)
(* closes.  It holds while what one of the two ends sends always fits the  *)
(* kernel's buffer; when both can fill it, both hold their mutex in a send *)
(* while their readers wait for it.                                        *)
SendsReturn == \A t \in Threads : pc[t] = "lock" ~> pc[t] \in {"done", "failed"}

-----------------------------------------------------------------------------
(* Towards a proof, for a header that is not split: an end's stream is     *)
(* what its reader has of a message and what is on its way after it.       *)
SendersApart ==
    /\ SendersA \cap SendersB = {} /\ {"reader", "none"} \cap (SendersA \cup SendersB) = {}
    /\ Protocols \subseteq {"UNIX", "QMSGQ"}
    /\ Sizes \subseteq Nat \ {0} /\ Sizes # {} /\ HdrSize = 1 /\ Cap \in Nat /\ MaxPayload \in Nat

Units == [by : Threads, idx : Nat, size : Nat, fds : Nat]
StreamLen(e) == Len(got[e].units) + Len(chan[e])
UnitAt(e, i) ==
    IF i <= Len(got[e].units) THEN got[e].units[i] ELSE chan[e][i - Len(got[e].units)]
Rest(e, i) == UnitAt(e, i).size - UnitAt(e, i).idx

Types ==
    /\ sockType \in {"UNIX", "QMSGQ"} /\ open \in [Ends -> BOOLEAN]
    /\ mutex \in [Ends -> Threads \cup {"reader", "none"}]
    /\ chan \in [Ends -> Seq(Units)]
    /\ pc \in [Threads -> {"idle", "lock", "send", "done", "failed"}]
    /\ msg \in [Threads -> [size : Nat \ {0}, fds : Nat]]
    /\ left \in [Threads -> Nat]
    /\ rpc \in [Ends -> {"poll", "lock", "header", "body", "end"}]
    /\ got \in [Ends -> [units : Seq(Units), fds : [count : Nat, valid : Nat]]]

(* A thread sends under its end's mutex, and has all of its message left   *)
(* when it begins.                                                         *)
SendsLocked ==
    \A t \in Threads :
        /\ pc[t] = "send" => mutex[EndOf(t)] = t /\ left[t] \in 1..msg[t].size
        /\ pc[t] = "lock" \/ (pc[t] = "send" /\ sockType = "QMSGQ") => left[t] = msg[t].size

(* The reader is in the middle of a message exactly in its body, whose     *)
(* descriptors it has.                                                     *)
ReaderOf(e) ==
    IF rpc[e] = "body"
    THEN /\ Len(got[e].units) >= 1 /\ Len(got[e].units) < got[e].units[1].size
         /\ got[e].fds.count = got[e].units[1].fds /\ got[e].fds.valid = got[e].units[1].fds
         /\ sockType = "UNIX"
    ELSE got[e] = Nothing
ReaderAt == \A e \in Ends : ReaderOf(e)

(* Units follow each other in the order they were sent in, message after   *)
(* message.                                                                *)
Ordered(e) ==
    \A i \in 1..StreamLen(e) :
        /\ UnitAt(e, i).idx >= 1 /\ UnitAt(e, i).idx <= UnitAt(e, i).size
        /\ i = 1 => UnitAt(e, i).idx = 1
        /\ \A j \in 1..StreamLen(e) :
              /\ i < j /\ j - i <= Rest(e, i) =>
                    /\ UnitAt(e, j).by = UnitAt(e, i).by /\ UnitAt(e, j).size = UnitAt(e, i).size
                    /\ UnitAt(e, j).idx = UnitAt(e, i).idx + (j - i)
              /\ j - i = Rest(e, i) + 1 => UnitAt(e, j).idx = 1
InOrder == \A e \in Ends : Ordered(e)

(* Only the last message may be incomplete: its sender is sending the rest *)
(* of it, or an end has closed.                                            *)
LastUnfinished ==
    \A e \in Ends : \A i \in 1..StreamLen(e) :
        i + Rest(e, i) > StreamLen(e) =>
            /\ sockType = "UNIX"
            /\ \/ \E c \in Ends : ~open[c]
               \/ LET t == UnitAt(e, i).by
                  IN /\ pc[t] = "send" /\ EndOf(t) = Peer(e) /\ msg[t].size = UnitAt(e, i).size
                     /\ left[t] = Rest(e, i) - (StreamLen(e) - i)

(* ... and a sender that is in the middle of a message goes on where the   *)
(* stream ends.                                                            *)
GoesOn ==
    \A t \in Threads :
        pc[t] = "send" /\ left[t] < msg[t].size =>
            \/ \E c \in Ends : ~open[c]
            \/ LET e == Peer(EndOf(t))
                   u == UnitAt(e, StreamLen(e))
               IN /\ StreamLen(e) >= 1 /\ u.by = t /\ u.size = msg[t].size
                  /\ u.idx = msg[t].size - left[t]

StreamInv == Types /\ SendsLocked /\ ReaderAt /\ InOrder /\ LastUnfinished /\ GoesOn /\ intact

(* The units of a piece, and a step that sends one.                        *)
Numbered(p, t, f, n) ==
    \A i \in 1..n : p[i].by = t /\ p[i].idx = f + i - 1 /\ p[i].size = msg[t].size
PieceStep(t, to, n, f) ==
    /\ pc[t] = "send" /\ Peer(to) = EndOf(t) /\ \A c \in Ends : open[c]
    /\ n \in 1..left[t] /\ (sockType = "UNIX" \/ n = left[t]) /\ f = msg[t].size - left[t] + 1
    /\ chan' = [chan EXCEPT ![to] = @ \o Piece(t, f, f + n - 1)]
    /\ left' = [left EXCEPT ![t] = @ - n]
    /\ IF n = left[t] THEN SendReturns(t, "done") ELSE pc' = pc /\ mutex' = mutex
    /\ sockType' = sockType /\ open' = open /\ msg' = msg /\ rpc' = rpc /\ got' = got /\ intact' = intact
=============================================================================
