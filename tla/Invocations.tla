---------------------------- MODULE Invocations ----------------------------
(***************************************************************************)
(* How MinkSocket_invoke waits for its reply and how replies find it       *)
(* (libmink/Transport/MinkSocket/sock/minksocket.c): invoke ids, the list  *)
(* qlInvokes, nested invocations, the condition variable of an InvokeInfo  *)
(* and the close of the connection, on both ends of one connection.        *)
(*                                                                         *)
(* An invocation stands for its InvokeInfo, for the request and the reply  *)
(* that belong to it, and for the thread that handles the request.  A      *)
(* reply is handled in three steps: getInvokeInfo under the mutex, then    *)
(* the two halves of InvokeInfo_setResult, which takes no mutex.           *)
(***************************************************************************)
EXTENDS Naturals, Sequences, Functions

CONSTANTS
    A, B,           \* the two ends
    Invs,           \* invocations
    NONE, CLOSED,   \* no invocation; the error of MinkSocket_close
    MaxDepth,       \* bound on nested invocations
    MaxSpurious     \* bound on spurious wake-ups

Ends == {A, B}
Other(e) == IF e = A THEN B ELSE A

VARIABLES
    bDone,       \* the end has closed its socket
    qlInvokes,   \* the invocations an end waits for
    inv,         \* where an invocation comes from, its id and its depth
    thread,      \* the invoking thread
    bComplete, result,
    handler,     \* the thread that handles the request
    tls,         \* that thread still has the id in gSpecificInvokeId
    reader,      \* the thread that handles the reply, and the InvokeInfo it found
    spurious

vars == <<bDone, qlInvokes, inv, thread, bComplete, result, handler, tls, reader, spurious>>

NoInv == [end |-> A, parent |-> NONE, id |-> NONE, depth |-> 0]
NoReader == [at |-> "none", info |-> NONE]

TypeOK ==
    /\ bDone \in [Ends -> BOOLEAN]
    /\ \A e \in Ends : Range(qlInvokes[e]) \subseteq Invs /\ IsInjective(qlInvokes[e])
    /\ inv \in [Invs -> [end : Ends, parent : Invs \cup {NONE}, id : Invs \cup {NONE},
                         depth : 0..MaxDepth]]
    /\ thread \in [Invs -> {"unused", "alive", "asleep", "checking", "woken", "returned"}]
    /\ bComplete \in [Invs -> BOOLEAN]
    /\ result \in [Invs -> Invs \cup {NONE, CLOSED}]
    /\ handler \in [Invs -> {"none", "request", "running", "reply", "over"}]
    /\ tls \in [Invs -> BOOLEAN]
    /\ reader \in [Invs -> {NoReader} \cup [at : {"found", "flagged"}, info : Invs]]
    /\ spurious \in 0..MaxSpurious

Init ==
    /\ bDone = [e \in Ends |-> FALSE]
    /\ qlInvokes = [e \in Ends |-> <<>>]
    /\ inv = [i \in Invs |-> NoInv]
    /\ thread = [i \in Invs |-> "unused"]
    /\ bComplete = [i \in Invs |-> FALSE]
    /\ result = [i \in Invs |-> NONE]
    /\ handler = [i \in Invs |-> "none"]
    /\ tls = [i \in Invs |-> FALSE]
    /\ reader = [i \in Invs |-> NoReader]
    /\ spurious = 0

-----------------------------------------------------------------------------

(* A thread between its test of bComplete and its wait holds the mutex.    *)
Unlocked(e) == \A i \in Invs : thread[i] = "checking" => inv[i].end # e

(* A thread that handles request p and has not invoked anything yet takes  *)
(* the id of p; any other takes a new one.  Random ids are taken to differ.*)
NewId_constant(i, p) == IF p # NONE /\ tls[p] THEN inv[p].id ELSE CHOOSE j \in Invs : TRUE
NewId(i, p) == IF p # NONE /\ tls[p] THEN inv[p].id ELSE i

(* The start of MinkSocket_invoke at end e: the connection must be alive.  *)
Begin(i, e, p, d) ==
    /\ thread[i] = "unused" /\ Unlocked(e) /\ ~bDone[e]
    /\ thread' = [thread EXCEPT ![i] = "alive"]
    /\ inv' = [inv EXCEPT ![i] = [end |-> e, parent |-> p, depth |-> d, id |-> NewId(i, p)]]
    /\ UNCHANGED <<bDone, qlInvokes, bComplete, result, handler, tls, reader, spurious>>

(* An application thread invokes.                                          *)
InvokeOuter(i, e) == Begin(i, e, NONE, 1)

(* An object invokes the peer while it handles request p.                  *)
Nested(p) == {i \in Invs : inv[i].parent = p /\ thread[i] \notin {"unused", "returned"}}
InvokeNested(i, p) ==
    /\ handler[p] = "running" /\ Nested(p) = {} /\ inv[p].depth < MaxDepth
    /\ Begin(i, Other(inv[p].end), p, inv[p].depth + 1)

(* Under the mutex: the InvokeInfo is queued, the request is sent, the     *)
(* thread forgets its id and waits.  The send fails on a closed socket,    *)
(* and may fail when the peer has closed.                                  *)
SendWaits(i) ==
    /\ thread' = [thread EXCEPT ![i] = "asleep"]
    /\ qlInvokes' = [qlInvokes EXCEPT ![inv[i].end] = Append(@, i)]
    /\ handler' = [handler EXCEPT ![i] = "request"]
    /\ UNCHANGED result
SendFails(i) ==
    /\ thread' = [thread EXCEPT ![i] = "returned"]
    /\ result' = [result EXCEPT ![i] = CLOSED]
    /\ UNCHANGED <<qlInvokes, handler>>
SendVec_blind(i) == SendWaits(i)
SendVec(i) ==
    \/ ~bDone[inv[i].end] /\ SendWaits(i)
    \/ (\E e \in Ends : bDone[e]) /\ SendFails(i)
SendRequest(i) ==
    /\ thread[i] = "alive" /\ Unlocked(inv[i].end)
    /\ SendVec(i)
    /\ tls' = [p \in Invs |-> tls[p] /\ p # inv[i].parent]
    /\ UNCHANGED <<bDone, inv, bComplete, reader, spurious>>

(* MinkSocket_recvInvocationRequest, up to the invocation of the object.   *)
RecvRequest(i) ==
    /\ handler[i] = "request" /\ ~bDone[Other(inv[i].end)]
    /\ handler' = [handler EXCEPT ![i] = "running"]
    /\ tls' = [tls EXCEPT ![i] = TRUE]
    /\ UNCHANGED <<bDone, qlInvokes, inv, thread, bComplete, result, reader, spurious>>

(* The object returns and the reply is sent, or cannot be sent.            *)
SendReply(i) ==
    LET e == Other(inv[i].end)
    IN /\ handler[i] = "running" /\ Nested(i) = {} /\ Unlocked(e)
       /\ handler' = [handler EXCEPT ![i] = IF bDone[e] THEN "over" ELSE "reply"]
       /\ tls' = [tls EXCEPT ![i] = FALSE]
       /\ UNCHANGED <<bDone, qlInvokes, inv, thread, bComplete, result, reader, spurious>>

(* MinkSocket_getInvokeInfo: the first entry with the id of the reply.     *)
FirstWith(q, found) == IF found = {} THEN NONE ELSE q[CHOOSE k \in found : \A l \in found : k <= l]
GetInvokeInfo_notLast(e, id) ==
    FirstWith(qlInvokes[e], {k \in 1..Len(qlInvokes[e]) - 1 : inv[qlInvokes[e][k]].id = id})
GetInvokeInfo(e, id) ==
    FirstWith(qlInvokes[e], {k \in 1..Len(qlInvokes[e]) : inv[qlInvokes[e][k]].id = id})

Found(info) == IF info = NONE THEN NoReader ELSE [at |-> "found", info |-> info]
RecvReply(i) ==
    /\ handler[i] = "reply" /\ Unlocked(inv[i].end)
    /\ handler' = [handler EXCEPT ![i] = "over"]
    /\ reader' = [reader EXCEPT ![i] = Found(GetInvokeInfo(inv[i].end, inv[i].id))]
    /\ UNCHANGED <<bDone, qlInvokes, inv, thread, bComplete, result, tls, spurious>>

(* InvokeInfo_setResult: bComplete, then the result and the signal.        *)
SetComplete(i) ==
    /\ reader[i].at = "found"
    /\ bComplete' = [bComplete EXCEPT ![reader[i].info] = TRUE]
    /\ reader' = [reader EXCEPT ![i].at = "flagged"]
    /\ UNCHANGED <<bDone, qlInvokes, inv, thread, result, handler, tls, spurious>>

(* The signal reaches a thread that waits, and no other.                   *)
Signalled(j) == IF thread[j] = "asleep" THEN "woken" ELSE thread[j]

SetResult(i) ==
    LET j == reader[i].info
    IN /\ reader[i].at = "flagged"
       /\ result' = IF thread[j] = "returned" THEN result ELSE [result EXCEPT ![j] = i]
       /\ thread' = [thread EXCEPT ![j] = Signalled(j)]
       /\ reader' = [reader EXCEPT ![i] = NoReader]
       /\ UNCHANGED <<bDone, qlInvokes, inv, bComplete, handler, tls, spurious>>

(* QNode_dequeueIf.                                                        *)
Dequeue(q, j) ==
    LET k == CHOOSE k \in 1..Len(q) : q[k] = j
    IN IF j \in Range(q) THEN SubSeq(q, 1, k - 1) \o SubSeq(q, k + 1, Len(q)) ELSE q

(* The waiting thread has been signalled: it takes the mutex and returns.  *)
Wake(j) ==
    LET e == inv[j].end
    IN /\ thread[j] = "woken" /\ Unlocked(e)
       /\ IF bComplete[j]
          THEN /\ thread' = [thread EXCEPT ![j] = "returned"]
               /\ qlInvokes' = [qlInvokes EXCEPT ![e] = Dequeue(@, j)]
          ELSE /\ thread' = [thread EXCEPT ![j] = "checking"]
               /\ UNCHANGED qlInvokes
       /\ UNCHANGED <<bDone, inv, bComplete, result, handler, tls, reader, spurious>>

(* A condition variable may wake a thread without a signal.                *)
SpuriousWake(j) ==
    /\ thread[j] = "asleep" /\ spurious < MaxSpurious
    /\ thread' = [thread EXCEPT ![j] = "woken"]
    /\ spurious' = spurious + 1
    /\ UNCHANGED <<bDone, qlInvokes, inv, bComplete, result, handler, tls, reader>>

(* bComplete was false: the thread waits again.                            *)
WaitAgain(j) ==
    /\ thread[j] = "checking"
    /\ thread' = [thread EXCEPT ![j] = "asleep"]
    /\ UNCHANGED <<bDone, qlInvokes, inv, bComplete, result, handler, tls, reader, spurious>>

(* MinkSocket_close, for whatever reason.                                  *)
Close_silent(e) ==
    /\ ~bDone[e] /\ Unlocked(e)
    /\ bDone' = [bDone EXCEPT ![e] = TRUE]
    /\ UNCHANGED <<qlInvokes, inv, thread, bComplete, result, handler, tls, reader, spurious>>
Close(e) ==
    /\ ~bDone[e] /\ Unlocked(e)
    /\ bDone' = [bDone EXCEPT ![e] = TRUE]
    /\ LET popped == Range(qlInvokes[e])
       IN /\ bComplete' = [j \in Invs |-> bComplete[j] \/ j \in popped]
          /\ result' = [j \in Invs |-> IF j \in popped THEN CLOSED ELSE result[j]]
          /\ thread' = [j \in Invs |-> IF j \in popped THEN Signalled(j) ELSE thread[j]]
    /\ qlInvokes' = [qlInvokes EXCEPT ![e] = <<>>]
    /\ UNCHANGED <<inv, handler, tls, reader, spurious>>

(* The reader of the other end sees the closed connection and closes too.  *)
PeerCloses(e) == bDone[Other(e)] /\ Close(e)

Steps(i) ==
    \/ SendRequest(i)
    \/ RecvRequest(i)
    \/ SendReply(i)
    \/ RecvReply(i)
    \/ SetComplete(i)
    \/ SetResult(i)
    \/ Wake(i)
    \/ WaitAgain(i)

Next ==
    \/ \E i \in Invs, e \in Ends : InvokeOuter(i, e)
    \/ \E i, p \in Invs : InvokeNested(i, p)
    \/ \E i \in Invs : Steps(i) \/ SpuriousWake(i)
    \/ \E e \in Ends : Close(e)

Spec == Init /\ [][Next]_vars

(* Threads go on, objects return, and an end notices that its peer closed. *)
Fairness ==
    /\ \A i \in Invs : WF_vars(Steps(i))
    /\ \A e \in Ends : WF_vars(PeerCloses(e))
FairSpec == Spec /\ Fairness

-----------------------------------------------------------------------------

(* docs/mink-object.md:115 "The invoke call will block the caller until    *)
(* the operation has completed": an invocation returns with the answer to  *)
(* its own request, or because the connection was closed.                  *)
AnsweredByOwnReply ==
    \A i \in Invs : thread[i] = "returned" => result[i] \in {i, CLOSED}

(* A reader that found an InvokeInfo writes to it after it has released    *)
(* the mutex.  The InvokeInfo lives on the stack of the invoking thread:   *)
(* it is still there, unless the end has closed meanwhile.                 *)
InfoOutlivesReader ==
    \A i \in Invs :
        reader[i].at # "none" /\ thread[reader[i].info] = "returned" =>
            bDone[inv[reader[i].info].end]

(* A reply finds an invocation to complete while the end is open: what     *)
(* recvInvocationSuccess logs as an "incredible failure ... Leading to     *)
(* caller never be replied" does not happen, whatever ids are shared.      *)
RepliesFindAnInvocation ==
    \A i \in Invs :
        handler[i] = "reply" /\ ~bDone[inv[i].end] =>
            GetInvokeInfo(inv[i].end, inv[i].id) # NONE

(* An end that has closed leaves no thread waiting for a reply, also when  *)
(* the close falls between the test and the send of MinkSocket_invoke, or  *)
(* when threads wake up without a signal.                                  *)
ClosedEndWakesAll == \A i \in Invs : bDone[inv[i].end] => thread[i] # "asleep"

(* docs/mink-object.md:115 again: an invocation that has begun returns, by *)
(* the reply of an object that answers or by the close of the connection.  *)
InvokesReturn == \A i \in Invs : thread[i] = "alive" ~> thread[i] = "returned"

-----------------------------------------------------------------------------
(* Towards a proof.  Names that are not invocations, and calls that are    *)
(* nested at most once: a third would share its id with the first.         *)
NamesApart ==
    /\ A # B /\ NONE \notin Invs /\ CLOSED \notin Invs \cup {NONE}
    /\ MaxDepth = 2 /\ MaxSpurious \in Nat

Waits(i) == thread[i] \in {"asleep", "checking", "woken"}
Queued(i) ==
    \E k \in 1..Len(qlInvokes[inv[i].end]) : qlInvokes[inv[i].end][k] = i

Types ==
    /\ bDone \in [Ends -> BOOLEAN]
    /\ qlInvokes \in [Ends -> Seq(Invs)]
    /\ inv \in [Invs -> [end : Ends, parent : Invs \cup {NONE}, id : Invs \cup {NONE}, depth : 0..MaxDepth]]
    /\ thread \in [Invs -> {"unused", "alive", "asleep", "checking", "woken", "returned"}]
    /\ bComplete \in [Invs -> BOOLEAN]
    /\ result \in [Invs -> Invs \cup {NONE, CLOSED}]
    /\ handler \in [Invs -> {"none", "request", "running", "reply", "over"}]
    /\ tls \in [Invs -> BOOLEAN]
    /\ reader \in [Invs -> [at : {"none", "found", "flagged"}, info : Invs \cup {NONE}]]
    /\ spurious \in Nat

(* An id is that of the invocation or of the one it is nested in, whose    *)
(* request was handled first.                                              *)
IdsGiven ==
    \A i \in Invs :
        /\ thread[i] = "unused" => inv[i] = NoInv
        /\ thread[i] # "unused" /\ inv[i].parent = NONE => inv[i].id = i /\ inv[i].depth = 1
        /\ inv[i].parent # NONE =>
              /\ inv[i].depth = 2 /\ inv[i].end = Other(inv[inv[i].parent].end)
              /\ inv[i].id \in {i, inv[i].parent}
              /\ thread[inv[i].parent] # "unused" /\ inv[inv[i].parent].parent = NONE
              /\ handler[inv[i].parent] \in {"running", "reply", "over"}
              /\ tls[inv[i].parent] /\ inv[i].id # i => thread[i] = "alive"

(* A request's id is handed on once.                                       *)
OneHeir ==
    \A i, j \in Invs :
        /\ inv[i].parent # NONE /\ inv[i].parent = inv[j].parent
        /\ inv[i].id = inv[i].parent /\ inv[j].id = inv[j].parent
        => i = j

(* An end's queue holds its waiting invocations, each once, and a closed   *)
(* end has none.                                                           *)
QueueHolds ==
    \A e \in Ends :
        /\ bDone[e] => qlInvokes[e] = <<>>
        /\ \A k \in 1..Len(qlInvokes[e]) :
              /\ inv[qlInvokes[e][k]].end = e /\ Waits(qlInvokes[e][k])
              /\ \A l \in 1..Len(qlInvokes[e]) : qlInvokes[e][k] = qlInvokes[e][l] => k = l

(* A waiting invocation is in its end's queue until that end closes, which *)
(* completes it, or its own reply has come.                                *)
RepliesOwn ==
    \A i \in Invs :
        /\ thread[i] \in {"unused", "alive"} => handler[i] = "none" /\ ~bComplete[i]
        /\ Waits(i) /\ ~bDone[inv[i].end] => Queued(i)
        /\ Waits(i) /\ bDone[inv[i].end] => thread[i] = "woken" /\ bComplete[i]
        /\ bComplete[i] => handler[i] = "over" \/ bDone[inv[i].end]
        /\ thread[i] = "returned" => bComplete[i] \/ handler[i] = "none"
        /\ reader[i].at # "none" => reader[i].info = i /\ handler[i] = "over"
        /\ reader[i].at = "flagged" => bComplete[i]

(* While no thread wakes without a signal, a thread is woken with its      *)
(* result, and the reader that found it is done with it.                   *)
WokenWithResult ==
    spurious = 0 =>
    \A i \in Invs :
        /\ thread[i] # "checking"
        /\ thread[i] = "woken" => bComplete[i]
        /\ thread[i] \in {"woken", "returned"} => result[i] \in {i, CLOSED}
        /\ thread[i] = "asleep" /\ bComplete[i] => reader[i].at = "flagged"
        /\ reader[i].at # "none" /\ ~bDone[inv[i].end] => thread[i] = "asleep"

InvocationsInv ==
    Types /\ IdsGiven /\ OneHeir /\ QueueHolds /\ RepliesOwn /\ WokenWithResult
=============================================================================
