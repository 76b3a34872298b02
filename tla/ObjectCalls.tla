---------------------------- MODULE ObjectCalls ----------------------------
(***************************************************************************)
(* What a Mink connection promises its two domains (docs/mink-object.md):  *)
(* a domain invokes only objects it has been granted, passes on only       *)
(* objects it has or holds, and an invocation runs the object that the     *)
(* caller holds with the object that the caller passes.  There are no      *)
(* handles, messages, tables or reference counts here.                     *)
(*                                                                         *)
(* One thing is not promised: that a caller finds an object of its own     *)
(* which an invocation hands back to it.                                   *)
(***************************************************************************)
CONSTANTS Server, Client, ServerObjs, ClientObjs, Opener, Calls, NULL

Sides == {Server, Client}
Other(s) == IF s = Server THEN Client ELSE Server
Own(s) == IF s = Server THEN ServerObjs ELSE ClientObjs

VARIABLES
    caps,   \* the objects of the other domain that a domain holds
    inv     \* the invocations

vars == <<caps, inv>>

Idle == [st |-> "idle", from |-> Server, obj |-> NULL, arg |-> NULL]

Init ==
    /\ caps = [s \in Sides |-> IF s = Client THEN {Opener} ELSE {}]
    /\ inv = [c \in Calls |-> Idle]

Gain(s, o) ==
    caps' = IF o \in Own(Other(s)) THEN [caps EXCEPT ![s] = @ \cup {o}] ELSE caps

(* A domain invokes an object it holds, and passes one it has or holds.    *)
Call(c, s, o, a) ==
    /\ inv[c] = Idle
    /\ inv' = [inv EXCEPT ![c] = [st |-> "sent", from |-> s, obj |-> o, arg |-> a]]
    /\ UNCHANGED caps

(* The callee's domain is granted the object that was passed.              *)
Arrive(c) ==
    /\ inv[c].st = "sent"
    /\ Gain(Other(inv[c].from), inv[c].arg)
    /\ inv' = [inv EXCEPT ![c].st = "running"]

(* The object runs.                                                        *)
Run(c) ==
    /\ inv[c].st = "running"
    /\ inv' = [inv EXCEPT ![c].st = "done", ![c].obj = NULL, ![c].arg = NULL]
    /\ UNCHANGED caps

(* It returns an object of its domain, or something else.                  *)
Reply(c, r) ==
    /\ inv[c].st = "done"
    /\ inv' = [inv EXCEPT ![c].st = "replied", ![c].arg = r]
    /\ UNCHANGED caps

Return(c) ==
    /\ inv[c].st = "replied"
    /\ Gain(inv[c].from, inv[c].arg)
    /\ inv' = [inv EXCEPT ![c] = Idle]

Drop(s, o) ==
    /\ caps' = [caps EXCEPT ![s] = @ \ {o}]
    /\ UNCHANGED inv

Next ==
    \/ \E c \in Calls : Arrive(c) \/ Run(c) \/ Return(c)
    \/ \E s \in Sides : \E o \in caps[s] : Drop(s, o)
    \/ \E c \in Calls : \E r \in {NULL} \cup Own(Other(inv[c].from)) : Reply(c, r)
    \/ \E c \in Calls, s \in Sides :
        \E o \in caps[s], a \in {NULL} \cup Own(s) \cup caps[s] : Call(c, s, o, a)

Spec == Init /\ [][Next]_vars
=============================================================================
