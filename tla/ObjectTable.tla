---------------------------- MODULE ObjectTable ----------------------------
(***************************************************************************)
(* The table of local objects that a remote domain holds                   *)
(* (libmink/Transport/MinkSocket/sock/ObjectTable.c).                      *)
(*                                                                         *)
(* Threads of one MinkSocket share the table.  A critical section of its   *)
(* mutex is one step.  ObjectTable_close takes an object out of its slot   *)
(* under the mutex and releases it afterwards: that is a step of its own.  *)
(* Objects are known by their reference counts, which Object_retain and    *)
(* Object_release change; an object at 0 has been destroyed.               *)
(***************************************************************************)
EXTENDS Integers, FiniteSets

CONSTANTS
    Threads,
    Objs,
    NULL,                \* Object_NULL
    GENERIC_HANDLE,      \* the first handle addObject gives out
    PRIMORDIAL_HANDLE,   \* the handle of the primordial object
    objectsLen           \* MAX_OBJECT_COUNT, the size of objects[]

ASSUME TableAssumption ==
    /\ IsFiniteSet(Threads)
    /\ NULL \notin Objs
    /\ GENERIC_HANDLE \in Nat /\ PRIMORDIAL_HANDLE \in Nat /\ objectsLen \in Nat
    /\ GENERIC_HANDLE < PRIMORDIAL_HANDLE /\ PRIMORDIAL_HANDLE < objectsLen

Handles == 0..(objectsLen - 1)
Generic == GENERIC_HANDLE..(PRIMORDIAL_HANDLE - 1)

VARIABLES
    objects,        \* objects[]
    objectsCount,
    refs,           \* the reference count inside each object
    owned,          \* objects whose creator still holds its reference
    holds,          \* the object a thread has recovered and not released yet
    closing,        \* the object a thread took out of its slot to release it
    cursor,         \* the h of a loop of ObjectTable_close, -1 outside a loop
    phase           \* "inUse", "destruct" (loop of ObjectTable_destruct), "gone"

tableVars == <<objects, objectsCount>>
vars == <<tableVars, refs, owned, holds, closing, cursor, phase>>

TypeOK ==
    /\ objects \in [Handles -> Objs \cup {NULL}]
    /\ objectsCount \in Nat
    /\ refs \in [Objs -> Nat]
    /\ owned \in SUBSET Objs
    /\ holds \in [Threads -> Objs \cup {NULL}]
    /\ closing \in [Threads -> Objs \cup {NULL}]
    /\ cursor \in [Threads -> Handles \cup {objectsLen, -1}]
    /\ phase \in {"inUse", "destruct", "gone"}

(* ObjectTable_construct, with every object still held by its creator.     *)
Init ==
    /\ objects = [h \in Handles |-> NULL]
    /\ objectsCount = 0
    /\ refs = [o \in Objs |-> 1]
    /\ owned = Objs
    /\ holds = [t \in Threads |-> NULL]
    /\ closing = [t \in Threads |-> NULL]
    /\ cursor = [t \in Threads |-> -1]
    /\ phase = "inUse"

-----------------------------------------------------------------------------

(* A thread between two calls on the table.                                *)
Free(t) == phase = "inUse" /\ closing[t] = NULL /\ cursor[t] = -1

(* An object the thread may pass on: somebody's reference keeps it alive   *)
(* during the call.                                                        *)
MayPass(t, o) == o \in owned \/ holds[t] = o

ObjectTable_add_overwrite(o, n) ==
    /\ objects' = [objects EXCEPT ![n] = o]
    /\ objectsCount' = objectsCount + 1
    /\ refs' = [refs EXCEPT ![o] = @ + 1]

(* ObjectTable_add into a free slot.                                       *)
ObjectTable_add(o, n) ==
    /\ objects[n] = NULL
    /\ objects' = [objects EXCEPT ![n] = o]
    /\ objectsCount' = objectsCount + 1
    /\ refs' = [refs EXCEPT ![o] = @ + 1]

(* ObjectTable_addObject: the first free generic slot; without one it      *)
(* returns -1 and changes nothing.                                         *)
ObjectTable_addObject(t, o) ==
    /\ Free(t) /\ MayPass(t, o)
    /\ \E n \in Generic :
        /\ \A m \in Generic : m < n => objects[m] # NULL
        /\ ObjectTable_add(o, n)
    /\ UNCHANGED <<owned, holds, closing, cursor, phase>>

ObjectTable_AddPrimordial(t, o) ==
    /\ Free(t) /\ MayPass(t, o)
    /\ ObjectTable_add(o, PRIMORDIAL_HANDLE)
    /\ UNCHANGED <<owned, holds, closing, cursor, phase>>

ObjectTable_recoverObject_unretained(t, h) ==
    /\ Free(t) /\ holds[t] = NULL
    /\ objects[h] # NULL
    /\ holds' = [holds EXCEPT ![t] = objects[h]]
    /\ UNCHANGED <<tableVars, refs, owned, closing, cursor, phase>>

(* ObjectTable_recoverObject of an occupied slot: retained under the       *)
(* mutex.  Any other handle yields Object_NULL and changes nothing.        *)
ObjectTable_recoverObject(t, h) ==
    /\ Free(t) /\ holds[t] = NULL
    /\ objects[h] # NULL
    /\ holds' = [holds EXCEPT ![t] = objects[h]]
    /\ refs' = [refs EXCEPT ![objects[h]] = @ + 1]
    /\ UNCHANGED <<tableVars, owned, closing, cursor, phase>>

CloseSlot_uncounted(t, h) ==
    /\ closing' = [closing EXCEPT ![t] = objects[h]]
    /\ objects' = [objects EXCEPT ![h] = NULL]
    /\ objectsCount' = objectsCount

(* The critical section of ObjectTable_close on an occupied slot.          *)
CloseSlot(t, h) ==
    /\ closing' = [closing EXCEPT ![t] = objects[h]]
    /\ objects' = [objects EXCEPT ![h] = NULL]
    /\ objectsCount' = objectsCount - 1

(* The Object_release that follows it, outside the mutex.                  *)
CloseRelease(t) ==
    /\ closing[t] # NULL
    /\ refs' = [refs EXCEPT ![closing[t]] = @ - 1]
    /\ closing' = [closing EXCEPT ![t] = NULL]
    /\ UNCHANGED <<tableVars, owned, holds, cursor, phase>>

(* ObjectTable_releaseHandle, for a generic handle, and                    *)
(* ObjectTable_releasePrimordial.                                          *)
ObjectTable_releaseHandle(t, h) ==
    /\ Free(t)
    /\ objects[h] # NULL
    /\ CloseSlot(t, h)
    /\ UNCHANGED <<refs, owned, holds, cursor, phase>>

CloseNext_alwaysCounts(t, last) ==
    /\ closing[t] = NULL
    /\ cursor[t] \in 0..last
    /\ IF objects[cursor[t]] = NULL
       THEN objectsCount' = objectsCount - 1 /\ UNCHANGED <<objects, closing>>
       ELSE CloseSlot(t, cursor[t])
    /\ cursor' = [cursor EXCEPT ![t] = @ + 1]
    /\ UNCHANGED <<refs, owned, holds, phase>>

(* One round of a loop over ObjectTable_close: the slot at the cursor is   *)
(* closed, and the round ends with the release when there is one.          *)
CloseNext(t, last) ==
    /\ closing[t] = NULL
    /\ cursor[t] \in 0..last
    /\ IF objects[cursor[t]] = NULL
       THEN UNCHANGED <<tableVars, closing>>
       ELSE CloseSlot(t, cursor[t])
    /\ cursor' = [cursor EXCEPT ![t] = @ + 1]
    /\ UNCHANGED <<refs, owned, holds, phase>>

(* ObjectTable_closeAllHandles.                                            *)
CloseAllBegin(t) ==
    /\ Free(t)
    /\ cursor' = [cursor EXCEPT ![t] = GENERIC_HANDLE]
    /\ UNCHANGED <<tableVars, refs, owned, holds, closing, phase>>

CloseAllNext(t) == phase = "inUse" /\ CloseNext(t, PRIMORDIAL_HANDLE - 1)

CloseAllEnd(t) ==
    /\ phase = "inUse" /\ closing[t] = NULL /\ cursor[t] = PRIMORDIAL_HANDLE
    /\ cursor' = [cursor EXCEPT ![t] = -1]
    /\ UNCHANGED <<tableVars, refs, owned, holds, closing, phase>>

(* ObjectTable_destruct.  MinkSocket_delete calls it when nobody else      *)
(* holds the MinkSocket, hence nobody is inside a call on its table.       *)
DestructBegin(t) ==
    /\ \A u \in Threads : Free(u)
    /\ phase' = "destruct"
    /\ cursor' = [cursor EXCEPT ![t] = 0]
    /\ UNCHANGED <<tableVars, refs, owned, holds, closing>>

DestructNext_short(t) ==
    /\ phase = "destruct"
    /\ IF cursor[t] = objectsLen - 1
       THEN /\ cursor' = [cursor EXCEPT ![t] = @ + 1]
            /\ UNCHANGED <<tableVars, refs, owned, holds, closing, phase>>
       ELSE CloseNext(t, objectsLen - 1)

DestructNext(t) == phase = "destruct" /\ CloseNext(t, objectsLen - 1)

DestructEnd(t) ==
    /\ phase = "destruct" /\ closing[t] = NULL /\ cursor[t] = objectsLen
    /\ phase' = "gone"
    /\ objectsCount' = 0
    /\ cursor' = [cursor EXCEPT ![t] = -1]
    /\ UNCHANGED <<objects, refs, owned, holds, closing>>

(* The user of a recovered object, and its creator, release it.            *)
HolderRelease(t) ==
    /\ holds[t] # NULL
    /\ refs' = [refs EXCEPT ![holds[t]] = @ - 1]
    /\ holds' = [holds EXCEPT ![t] = NULL]
    /\ UNCHANGED <<tableVars, owned, closing, cursor, phase>>

CreatorRelease(o) ==
    /\ o \in owned
    /\ refs' = [refs EXCEPT ![o] = @ - 1]
    /\ owned' = owned \ {o}
    /\ UNCHANGED <<tableVars, holds, closing, cursor, phase>>

Loops(t) ==
    \/ CloseRelease(t)
    \/ CloseAllNext(t)
    \/ CloseAllEnd(t)
    \/ DestructNext(t)
    \/ DestructEnd(t)

Next ==
    \/ \E t \in Threads, o \in Objs :
        ObjectTable_addObject(t, o) \/ ObjectTable_AddPrimordial(t, o)
    \/ \E t \in Threads, h \in Handles : ObjectTable_recoverObject(t, h)
    \/ \E t \in Threads, h \in Generic \cup {PRIMORDIAL_HANDLE} :
        ObjectTable_releaseHandle(t, h)
    \/ \E t \in Threads : CloseAllBegin(t) \/ DestructBegin(t) \/ HolderRelease(t)
    \/ \E o \in Objs : CreatorRelease(o)
    \/ \E t \in Threads : Loops(t)

Spec == Init /\ [][Next]_vars

(* A loop that was begun, and the release after a close, go on.            *)
FairSpec == Spec /\ \A t \in Threads : WF_vars(Loops(t))

-----------------------------------------------------------------------------

(* ObjectTable_isCleaned.                                                  *)
ObjectTable_isCleaned == objectsCount = 1 /\ objects[PRIMORDIAL_HANDLE] # NULL

Occupied == {h \in Handles : objects[h] # NULL}
SlotsOf(o) == {h \in Handles : objects[h] = o}
HandsOf(o) == {t \in Threads : holds[t] = o}
ClosersOf(o) == {t \in Threads : closing[t] = o}

(* objectsCount, which alone decides whether an idle VSOCK server closes   *)
(* (ObjectTable_isCleaned), agrees with the slots across concurrent adds,  *)
(* closes and loops.                                                       *)
CountExact == objectsCount = Cardinality(Occupied)

(* The references on an object are exactly those of its creator, its       *)
(* slots, the threads that recovered it, and the closes still to release   *)
(* it: nothing is released twice or leaked, whatever the interleaving.     *)
RefsExact ==
    \A o \in Objs :
        refs[o] = (IF o \in owned THEN 1 ELSE 0) + Cardinality(SlotsOf(o))
                  + Cardinality(HandsOf(o)) + Cardinality(ClosersOf(o))

(* ObjectTable_destruct leaves empty slots behind it.                      *)
Swept ==
    phase = "destruct" =>
        \A t \in Threads, h \in Handles : h < cursor[t] => objects[h] = NULL

(* Count, references and the progress of a destruct agree: the inductive   *)
(* invariant of the table.                                                 *)
TableInv == TypeOK /\ CountExact /\ RefsExact /\ Swept

(* A thread that recovered an object can use it, even when its slot is     *)
(* closed and reused meanwhile.                                            *)
RecoveredAlive == \A t \in Threads : holds[t] # NULL => refs[holds[t]] > 0

(* A table that reports itself cleaned holds no object of the remote side. *)
CleanedMeansEmpty ==
    ObjectTable_isCleaned => \A h \in Handles \ {PRIMORDIAL_HANDLE} : objects[h] = NULL

(* A step that fills a slot never overwrites another object there, so a    *)
(* handle in use keeps its meaning until it is closed.                     *)
HandleStable ==
    [][\A h \in Handles : objects[h] # NULL => objects'[h] \in {objects[h], NULL}]_vars

(* Destruction ends, and leaves no object behind in the table.             *)
DestructEmpties ==
    phase = "destruct" ~> phase = "gone" /\ Occupied = {}
=============================================================================
