------------------------------- MODULE CWait -------------------------------
(***************************************************************************)
(* The wait object that libminkteec gives to QTEE (libminkteec/src/        *)
(* CWait.c): threads wait for events under a code, others signal events    *)
(* under a code, and a signal that finds no waiter is kept for a later     *)
(* wait.  Events are bits of a mask, here members of a set; code 0 is none.*)
(*                                                                         *)
(* The list of waiters and signals is guarded by lock; a waiter item has a *)
(* mutex of its own, and after a wait the thread reads its item without    *)
(* either before it takes lock again to remove the item.                   *)
(***************************************************************************)
EXTENDS Naturals, Sequences, SequencesExt

CONSTANTS
    Threads, Codes, Events,
    Msecs,        \* time-outs a caller passes; INFINITE is another
    INFINITE,
    Nsecs,        \* values of tv_nsec of the clock
    MaxQueued     \* bound on the signals that are kept

VARIABLES
    list,     \* [type, thread] for a waiter, [type, code, events] for a signal
    item,     \* the waiter item of a thread
    pc,
    rv, events_out    \* what the wait of a thread is about to return

vars == <<list, item, pc, rv, events_out>>

Masks == SUBSET Events \ {{}}
NoItem == [code |-> 0, asked |-> {}, events |-> {}, signaled |-> FALSE, from |-> 0,
           msec |-> INFINITE, tv_nsec |-> 0]
Waiter(t) == [type |-> "waiter", thread |-> t]
Signal(c, E) == [type |-> "signal", code |-> c, events |-> E]

TypeOK ==
    /\ \A k \in DOMAIN list : list[k] \in {Waiter(t) : t \in Threads} \cup
                                          {Signal(c, E) : c \in Codes, E \in Masks}
    /\ item \in [Threads -> [code : Codes \cup {0}, asked : SUBSET Events, events : SUBSET Events,
                             signaled : BOOLEAN, from : Codes \cup {0},
                             msec : Msecs \cup {INFINITE}, tv_nsec : Nat]]
    /\ pc \in [Threads -> {"idle", "queued", "waiting", "awake", "leaving"}]
    /\ rv \in [Threads -> {"OK", "ERROR"}]
    /\ events_out \in [Threads -> SUBSET Events]
    /\ \A t \in Threads : Waiter(t) \in Range(list) <=> pc[t] # "idle"

Init ==
    /\ list = <<>>
    /\ item = [t \in Threads |-> NoItem]
    /\ pc = [t \in Threads |-> "idle"]
    /\ rv = [t \in Threads |-> "OK"]
    /\ events_out = [t \in Threads |-> {}]

-----------------------------------------------------------------------------

(* compute_wakeup_time, for a clock with 100 ticks a second.               *)
Tick == 10
Nsec(msec, start) == start + ((IF msec < Tick THEN Tick ELSE msec) % 1000) * 1000000
ComputeWakeup_uncarried(msec, start) == Nsec(msec, start)
ComputeWakeup(msec, start) ==
    IF Nsec(msec, start) > 1000000000 THEN Nsec(msec, start) % 1000000000 ELSE Nsec(msec, start)

(* get_signal_item: the first kept signal that the wait accepts.           *)
KeptSignal_other(c, E) ==
    SelectInSeq(list, LAMBDA i : i.type = "signal" /\ i.events \cap E # {} /\ i.code # c)
KeptSignal(c, E) ==
    SelectInSeq(list, LAMBDA i : i.type = "signal" /\ i.events \cap E # {} /\ i.code \in {c, 0})

(* CWait_wait, up to the release of lock: a kept signal is taken, or a     *)
(* waiter item is queued.                                                  *)
Wait(t, msec, c, E) ==
    /\ pc[t] = "idle"
    /\ LET k == KeptSignal(c, E)
       IN IF k # 0
          THEN /\ list' = RemoveAt(list, k)
               /\ UNCHANGED <<item, pc>>
          ELSE /\ list' = Append(list, Waiter(t))
               /\ item' = [item EXCEPT ![t] = [NoItem EXCEPT !.code = c, !.asked = E,
                                                             !.events = E, !.msec = msec]]
               /\ pc' = [pc EXCEPT ![t] = "queued"]
    /\ UNCHANGED <<rv, events_out>>

(* The wake-up time is computed, and the thread waits.                     *)
Sleep(t) ==
    /\ pc[t] = "queued"
    /\ pc' = [pc EXCEPT ![t] = "waiting"]
    /\ IF item[t].msec = INFINITE THEN UNCHANGED item
       ELSE \E n \in Nsecs : item' = [item EXCEPT ![t].tv_nsec = ComputeWakeup(item[t].msec, n)]
    /\ UNCHANGED <<list, rv, events_out>>

(* wait_for_signal ends: signaled, timed out, or refused because tv_nsec   *)
(* is not below 10^9 (pthread_cond_timedwait).                             *)
Woken(t) == item[t].signaled /\ UNCHANGED rv
TimedOut(t) == item[t].msec # INFINITE /\ item[t].tv_nsec < 1000000000 /\ UNCHANGED rv
Refused(t) ==
    /\ ~item[t].signaled /\ item[t].msec # INFINITE /\ item[t].tv_nsec >= 1000000000
    /\ rv' = [rv EXCEPT ![t] = "ERROR"]
EndsWait(t) == Woken(t) \/ TimedOut(t) \/ Refused(t)
WaitForSignal(t) ==
    /\ pc[t] = "waiting"
    /\ EndsWait(t)
    /\ pc' = [pc EXCEPT ![t] = "awake"]
    /\ UNCHANGED <<list, item, events_out>>

(* The thread reports the events of its item if it has been signaled.      *)
Report(t) ==
    /\ pc[t] = "awake"
    /\ events_out' = [events_out EXCEPT ![t] = IF item[t].signaled THEN item[t].events ELSE {}]
    /\ pc' = [pc EXCEPT ![t] = "leaving"]
    /\ UNCHANGED <<list, item, rv>>

(* clear_waiter_item, under lock, and CWait_wait returns.                  *)
Clear_kept(t) ==
    /\ pc[t] = "leaving"
    /\ pc' = [pc EXCEPT ![t] = "idle"]
    /\ UNCHANGED <<list, item, rv, events_out>>
Clear(t) ==
    /\ pc[t] = "leaving"
    /\ list' = SelectSeq(list, LAMBDA i : i # Waiter(t))
    /\ item' = [item EXCEPT ![t] = NoItem]
    /\ pc' = [pc EXCEPT ![t] = "idle"]
    /\ rv' = [rv EXCEPT ![t] = "OK"]
    /\ events_out' = [events_out EXCEPT ![t] = {}]

(* signal_waiter_item: the first waiter that accepts the signal.           *)
Accepts_any(i, c, E) == i.events \cap E # {}
Accepts(i, c, E) == i.events \cap E # {} /\ i.code \in {0, c}

(* CWait_signal: a waiter is signaled, whatever it is doing; or the signal *)
(* is kept if it has a code; or it is ignored.                             *)
WaiterFor(c, E) ==
    SelectInSeq(list, LAMBDA i : i.type = "waiter" /\ Accepts(item[i.thread], c, E))
Kept == Len(SelectSeq(list, LAMBDA i : i.type = "signal"))
SignalEvents(c, E) ==
    /\ LET k == WaiterFor(c, E)
       IN \/ /\ k # 0
             /\ item' = [item EXCEPT ![list[k].thread] =
                   [@ EXCEPT !.signaled = TRUE, !.events = @ \cap E, !.from = c]]
             /\ UNCHANGED list
          \/ /\ k = 0 /\ c # 0 /\ Kept < MaxQueued
             /\ list' = Append(list, Signal(c, E))
             /\ UNCHANGED item
    /\ UNCHANGED <<pc, rv, events_out>>

Steps(t) == Sleep(t) \/ WaitForSignal(t) \/ Report(t) \/ Clear(t)

Next ==
    \/ \E t \in Threads, m \in Msecs \cup {INFINITE}, c \in Codes \cup {0}, E \in Masks :
            Wait(t, m, c, E)
    \/ \E t \in Threads : Steps(t)
    \/ \E c \in Codes \cup {0}, E \in Masks : SignalEvents(c, E)

Spec == Init /\ [][Next]_vars

-----------------------------------------------------------------------------

(* idl/IWait.idl:38 "if non-0, the object will only accept a signal with   *)
(* matching code": a signaled item was signaled under its code, and holds  *)
(* some of the events it was asked to wait for, whatever signals came      *)
(* after the first.                                                        *)
OnlyMatchingSignals ==
    \A t \in Threads : item[t].signaled =>
        /\ item[t].code \in {0, item[t].from}
        /\ item[t].events # {} /\ item[t].events \subseteq item[t].asked

(* A thread sleeps only while no signal is kept that it would accept.      *)
SleepsBeside(t) ==
    /\ pc[t] \in {"queued", "waiting"} /\ ~item[t].signaled
    /\ \E k \in DOMAIN list : /\ list[k].type = "signal"
                              /\ Accepts(item[t], list[k].code, list[k].events)

(* For a wait with a code: CWait_wait looks for a kept signal before it    *)
(* queues, CWait_signal looks for a waiter before it keeps.                *)
CodedWaitTakesKeptSignal == \A t \in Threads : item[t].code # 0 => ~SleepsBeside(t)

(* CWait.c:388 "If nobody was waiting on this signal, we queue it to the   *)
(* list, since the TA can attempt to wait on it later": a signal with a    *)
(* code that was given to a waiter instead is reported by that waiter.     *)
GivenSignalIsReported ==
    \A t \in Threads :
        pc[t] = "leaving" /\ item[t].signaled /\ item[t].from # 0 => events_out[t] # {}

(* CWait.c:259 "We account for this by waiting at least that long to       *)
(* guarantee TEE_Wait() times": a timed wait ends by a signal or by its    *)
(* time-out.  It is refused for a malformed wake-up time only when the     *)
(* nanoseconds add up to exactly one second, which is not carried.         *)
RefusedOnlyOnWholeSecond ==
    \A t \in Threads : rv[t] = "ERROR" => item[t].tv_nsec = 1000000000
=============================================================================
