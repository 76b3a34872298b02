---------------------------- MODULE TouchControl ----------------------------
(* The service through which an application of the trusted VM takes the    *)
(* touch device from the HLOS and gives it back (CTTouchControlService.c): *)
(* "1" or "0" is written to a node of the touch driver, which moves the    *)
(* device when it can, and the node is read back until it has.  An object  *)
(* of the service has one caller at a time; several objects share the node.*)
EXTENDS Integers

CONSTANTS
    Objects,        \* service objects that may be open
    Retry,          \* rounds of writing and reading back, 5 in the code
    Failures,       \* the calls on the node that may fail
    MaxFails        \* how many do (a bound of the model)

VARIABLES
    asked,          \* what was last written to the node
    owner,          \* who has the touch device, what the node reads
    open,           \* open[o]: the service object exists
    controlFd,      \* controlFd[o]: it has the node open
    pc,             \* pc[o]: what the call in it does next
    retry,          \* retry[o]: rounds left
    fails

vars == <<asked, owner, open, controlFd, pc, retry, fails>>

Init ==
    /\ asked = "HLOS" /\ owner = "HLOS"
    /\ open = [o \in Objects |-> FALSE] /\ controlFd = [o \in Objects |-> FALSE]
    /\ pc = [o \in Objects |-> "idle"] /\ retry = [o \in Objects |-> 0]
    /\ fails = 0

(* External: the driver hands the device over as it was last asked to.     *)
Driver ==
    /\ owner # asked /\ owner' = asked
    /\ UNCHANGED <<asked, open, controlFd, pc, retry, fails>>

(* A call on the node answers or fails.                                    *)
Fails(what) == IF what \in Failures /\ fails < MaxFails THEN BOOLEAN ELSE {FALSE}

Counted(failed) == fails' = IF failed THEN fails + 1 ELSE fails

CTTouchControlService_open(o) ==
    /\ ~open[o] /\ open' = [open EXCEPT ![o] = TRUE]
    /\ UNCHANGED <<asked, owner, controlFd, pc, retry, fails>>

(* A call ends with the node open or closed; the object goes with the call *)
(* that released the last reference, an open node or not.                  *)
Ends(o, fd) ==
    /\ controlFd' = [controlFd EXCEPT ![o] = fd]
    /\ open' = [open EXCEPT ![o] = pc[o] \notin {"free", "freeRead"}]
    /\ pc' = [pc EXCEPT ![o] = "idle"]
    /\ retry' = [retry EXCEPT ![o] = 0]

Goes(o, to) == pc' = [pc EXCEPT ![o] = to]

(* Nothing to do when the node is open already.                            *)
CTTouchControlService_acquireTouch(o) ==
    /\ open[o] /\ pc[o] = "idle" /\ ~controlFd[o]
    /\ \E failed \in Fails("open") :
         /\ Counted(failed)
         /\ IF failed THEN UNCHANGED <<controlFd, pc, retry>>
            ELSE /\ controlFd' = [controlFd EXCEPT ![o] = TRUE]
                 /\ Goes(o, "write") /\ retry' = [retry EXCEPT ![o] = Retry]
    /\ UNCHANGED <<asked, owner, open>>

(* An error closes the node, whatever was written before.                  *)
WriteOne(o) ==
    /\ pc[o] = "write"
    /\ \E failed \in Fails(IF retry[o] = Retry THEN "first write" ELSE "later write") :
         /\ Counted(failed)
         /\ IF failed THEN Ends(o, FALSE) /\ UNCHANGED asked
            ELSE asked' = "VM" /\ Goes(o, "read") /\ UNCHANGED <<open, controlFd, retry>>
    /\ UNCHANGED owner

ReadOne(o) ==
    /\ pc[o] = "read"
    /\ \E failed \in Fails("read") :
         /\ Counted(failed)
         /\ IF failed \/ owner = "VM" THEN Ends(o, ~failed)
            ELSE /\ retry' = [retry EXCEPT ![o] = @ - 1]
                 /\ Goes(o, IF retry[o] = 1 THEN "giveup" ELSE "write")
                 /\ UNCHANGED <<open, controlFd>>
    /\ UNCHANGED <<asked, owner>>


(* "Touch device failure - attempt release".                               *)
GiveUp(o) ==
    /\ pc[o] = "giveup"
    /\ \E failed \in Fails("last write") :
         Counted(failed) /\ asked' = IF failed THEN asked ELSE "HLOS"
    /\ Ends(o, FALSE)
    /\ UNCHANGED owner

(* Asked for by the caller, or by the release of the last reference        *)
(* ("free"), which ignores what it returns.                                *)
CTTouchControlService_releaseTouch(o) ==
    /\ open[o] /\ pc[o] = "idle" /\ controlFd[o]
    /\ Goes(o, "release") /\ retry' = [retry EXCEPT ![o] = Retry]
    /\ UNCHANGED <<asked, owner, open, controlFd, fails>>

CTTouchControlService_release(o) ==
    /\ open[o] /\ pc[o] = "idle"
    /\ IF controlFd[o]
       THEN Goes(o, "free") /\ retry' = [retry EXCEPT ![o] = Retry] /\ UNCHANGED open
       ELSE open' = [open EXCEPT ![o] = FALSE] /\ UNCHANGED <<pc, retry>>
    /\ UNCHANGED <<asked, owner, controlFd, fails>>

WriteZero(o) ==
    /\ pc[o] \in {"release", "free"}
    /\ \E failed \in Fails(pc[o]) :
         /\ Counted(failed)
         /\ IF failed THEN Ends(o, TRUE) /\ UNCHANGED asked
            ELSE /\ asked' = "HLOS"
                 /\ Goes(o, IF pc[o] = "free" THEN "freeRead" ELSE "readBack")
                 /\ UNCHANGED <<open, controlFd, retry>>
    /\ UNCHANGED owner

(* The node is closed when the rounds are over, given back or not.         *)
ReadBack(o) ==
    /\ pc[o] \in {"readBack", "freeRead"}
    /\ \E failed \in Fails("read back") :
         /\ Counted(failed)
         /\ IF failed \/ owner = "HLOS" \/ retry[o] = 1 THEN Ends(o, failed)
            ELSE retry' = [retry EXCEPT ![o] = @ - 1] /\ UNCHANGED <<open, controlFd, pc>>
    /\ UNCHANGED <<asked, owner>>

Next ==
    \/ Driver
    \/ \E o \in Objects :
         \/ CTTouchControlService_open(o) \/ CTTouchControlService_acquireTouch(o)
         \/ WriteOne(o) \/ ReadOne(o) \/ GiveUp(o)
         \/ CTTouchControlService_releaseTouch(o) \/ CTTouchControlService_release(o)
         \/ WriteZero(o) \/ ReadBack(o)

Spec == Init /\ [][Next]_vars

TypeOK ==
    /\ asked \in {"HLOS", "VM"} /\ owner \in {"HLOS", "VM"}
    /\ open \in [Objects -> BOOLEAN] /\ controlFd \in [Objects -> BOOLEAN]
    /\ pc \in [Objects -> {"idle", "write", "read", "giveup", "release", "free",
                           "readBack", "freeRead"}]
    /\ retry \in [Objects -> 0 .. Retry] /\ fails \in 0 .. MaxFails

(* With no call under way, the touch device is asked for exactly when an   *)
(* object of the service has the node open: an acquisition that failed,    *)
(* after however many rounds and with the driver moving the device at any  *)
(* moment, has asked to give it back, and one that succeeded is not undone *)
(* before its own object is released.                                      *)
TouchAskedForWhileHeld ==
    (\A o \in Objects : pc[o] = "idle") =>
        (asked = "VM" <=> \E o \in Objects : open[o] /\ controlFd[o])
=============================================================================
