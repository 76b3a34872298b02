---------------------------- MODULE MemoryObjects ----------------------------
(***************************************************************************)
(* Memory shared between two VMs over one remote connection.  The owner    *)
(* wraps a FdWrapper in a WrappedMemparcel, which shares the buffer with   *)
(* the other VM and reclaims it when the last slot of the object table     *)
(* that holds it is closed; the borrower accepts the memparcel, or dups    *)
(* the descriptor of a MSMem that already has it, and its MSMem depends on *)
(* a forwarder whose release closes the slot.                              *)
(* Sources: sock/Marshalling.c, sock/ObjectTable.c, sharemm/src/MSMem.c,   *)
(* WrappedMemparcel.c, ShareMemory.c and FdWrapper/src/fdwrapper.c.        *)
(*                                                                         *)
(* The hypervisor and its drivers are external: a memparcel handle names   *)
(* one buffer until it is reclaimed, a reclaim fails while the borrower    *)
(* has a descriptor of it, and a handle is reused afterwards.              *)
(***************************************************************************)
EXTENDS Naturals, FiniteSets, FiniteSetsExt

CONSTANTS
    Mems,       \* DMA buffers of the owner, each in one FdWrapper
    Senders,    \* threads of the owner that pass memory
    NumSlots,   \* slots 1..NumSlots of the owner's table; slot 0 is its service
    MPs,        \* memparcel handles
    NumWmps,    \* bound on WrappedMemparcels created
    NumMSMems   \* bound on MSMems created

Slots == 1..NumSlots
Wmps == 1..NumWmps
MSMems == 1..NumMSMems

VARIABLES
    held,       \* buffers whose FdWrapper the application holds
    wmps,       \* [mem, mp, refs, state]
    table,      \* the wmp in each slot, 0 if the slot is free
    send,       \* what each sender is at: [pc, mem, wmp, retrieved]
    share,      \* the buffer each memparcel handle names, or "none"
    net,        \* memory messages on their way: [slot, mp, mem]
    closes,     \* LXCOM_CLOSE messages on their way
    ms,         \* the borrower's MSMems: [mp, mem, meant, slot, state]
    connected,  \* the connection is open
    ub          \* a WrappedMemparcel was used or released without a reference

vars == <<held, wmps, table, send, share, net, closes, ms, connected, ub>>

NoWmp == [mem |-> "none", mp |-> "none", refs |-> 0, state |-> "unborn"]
NoMS == [mp |-> "none", mem |-> "none", meant |-> "none", slot |-> 0, state |-> "unborn"]
Idle == [pc |-> "idle", mem |-> "none", wmp |-> 0, retrieved |-> FALSE]

TypeOK ==
    /\ held \subseteq Mems
    /\ \A w \in Wmps : wmps[w].refs \in Nat
                       /\ wmps[w].state \in {"unborn", "live", "reclaiming", "freed"}
    /\ table \in [Slots -> 0..NumWmps]
    /\ share \in [MPs -> Mems \cup {"none"}]
    /\ closes \subseteq Slots
    /\ \A b \in MSMems :
          ms[b].state \in {"unborn", "live", "released", "closed", "gone", "failed"}

Init ==
    /\ held = Mems /\ wmps = [w \in Wmps |-> NoWmp] /\ table = [h \in Slots |-> 0]
    /\ send = [s \in Senders |-> Idle] /\ share = [p \in MPs |-> "none"]
    /\ net = {} /\ closes = {} /\ ms = [b \in MSMems |-> NoMS] /\ connected = TRUE /\ ub = FALSE

(* isWrappedFd of a buffer that some borrower descriptor still maps.       *)
Open(p) == \E b \in MSMems : ms[b].mp = p /\ ms[b].state \in {"live", "released"}

-----------------------------------------------------------------------------
(* The owner sends.                                                        *)

(* ObjectTable_retrieveMemObj scans the handles below objectsCount, the    *)
(* number of slots in use, slot 0 and the primordial included.             *)
Scanned == {h \in Slots : h < 2 + Cardinality({k \in Slots : table[k] # 0})}
Holding(m) == {h \in Scanned : table[h] # 0 /\ wmps[table[h]].mem = m}
Retrieve(s) ==
    /\ send[s].pc = "idle" /\ connected
    /\ \E m \in held :
          send' = [send EXCEPT ![s] =
                     IF Holding(m) = {} THEN [pc |-> "new", mem |-> m, wmp |-> 0, retrieved |-> FALSE]
                     ELSE [pc |-> "add", mem |-> m, wmp |-> table[Min(Holding(m))],
                           retrieved |-> TRUE]]
    /\ UNCHANGED <<held, wmps, table, share, net, closes, ms, connected, ub>>

(* WrappedMemparcel_new with ShareMemory_GetMemParcelHandle.               *)
WrappedMemparcel_new(s) ==
    /\ send[s].pc = "new"
    /\ \/ \E w \in Wmps, p \in MPs :
             /\ \A v \in 1..(w - 1) : wmps[v].state # "unborn"
             /\ wmps[w].state = "unborn" /\ share[p] = "none"
             /\ wmps' = [wmps EXCEPT ![w] = [mem |-> send[s].mem, mp |-> p, refs |-> 1,
                                             state |-> "live"]]
             /\ share' = [share EXCEPT ![p] = send[s].mem]
             /\ send' = [send EXCEPT ![s].pc = "add", ![s].wmp = w]
       \/ /\ send' = [send EXCEPT ![s] = Idle] /\ UNCHANGED <<wmps, share>>
    /\ UNCHANGED <<held, table, net, closes, ms, connected, ub>>

(* WrappedMemparcel_release: the last reference starts _delete.            *)
Released(w, n) ==
    [wmps EXCEPT ![w].refs = @ - n,
                 ![w].state = IF wmps[w].refs = n THEN "reclaiming" ELSE @]

(* The rest of MarshalOut_populateWrappedMemparcel: ObjectTable_addObject  *)
(* takes the lowest free slot and retains; the reference of                *)
(* WrappedMemparcel_new is given back, and so is one when the table is     *)
(* full, retrieved or not.  Then the message is sent, or the connection is *)
(* gone and the slot stays.                                                *)
FreeSlots == {h \in Slots : table[h] = 0}
Populate(s) ==
    LET w == send[s].wmp
        h == Min(FreeSlots)
    IN /\ send[s].pc = "add"
       /\ IF wmps[w].state # "live"
          THEN ub' = TRUE /\ UNCHANGED <<wmps, table, net>>
          ELSE IF FreeSlots = {}
               THEN /\ wmps' = Released(w, 1) /\ ub' = send[s].retrieved
                    /\ UNCHANGED <<table, net>>
               ELSE /\ UNCHANGED ub
                    /\ table' = [table EXCEPT ![h] = w]
                    /\ wmps' = IF send[s].retrieved THEN [wmps EXCEPT ![w].refs = @ + 1]
                               ELSE wmps
                    /\ net' = IF connected
                              THEN net \cup {[slot |-> h, mp |-> wmps[w].mp, mem |-> wmps[w].mem]}
                              ELSE net
       /\ send' = [send EXCEPT ![s] = Idle]
       /\ UNCHANGED <<held, share, closes, ms, connected>>

(* MinkSocket_recvClose: ObjectTable_releaseHandle.                        *)
RecvClose(h) ==
    /\ h \in closes /\ connected
    /\ closes' = closes \ {h}
    /\ IF table[h] = 0 THEN UNCHANGED <<table, wmps>>
       ELSE table' = [table EXCEPT ![h] = 0] /\ wmps' = Released(table[h], 1)
    /\ UNCHANGED <<held, send, share, net, ms, connected, ub>>

(* WrappedMemparcel_delete reclaims, and tries again ten times while the   *)
(* borrower has the memory; the memory object is freed either way.         *)
Reclaim(w) ==
    /\ wmps[w].state = "reclaiming" /\ ~Open(wmps[w].mp)
    /\ wmps' = [wmps EXCEPT ![w].state = "freed"]
    /\ share' = [share EXCEPT ![wmps[w].mp] = "none"]
    /\ UNCHANGED <<held, table, send, net, closes, ms, connected, ub>>
ReclaimGivesUp(w) ==
    /\ wmps[w].state = "reclaiming" /\ Open(wmps[w].mp)
    /\ wmps' = [wmps EXCEPT ![w].state = "freed"]
    /\ UNCHANGED <<held, table, send, share, net, closes, ms, connected, ub>>

(* The application releases its FdWrapper; one in a WrappedMemparcel lives *)
(* on.                                                                     *)
ReleaseFdWrapper(m) ==
    /\ m \in held /\ \A s \in Senders : send[s].mem # m
    /\ held' = held \ {m}
    /\ UNCHANGED <<wmps, table, send, share, net, closes, ms, connected, ub>>

-----------------------------------------------------------------------------
(* The borrower.                                                           *)

(* MarshalIn_remoteGenericMem: Marshal_retrieveDmabuf dups the descriptor  *)
(* of a listed MSMem with this handle, else ShareMemory_GetMSMem accepts   *)
(* it; then a forwarder for the slot is attached and the MSMem listed.     *)
(* Both can fail; the sender's slot is then not closed.                    *)
Listed_stale(p) == {b \in MSMems : ms[b].mp = p}
Listed(p) == {b \in MSMems : ms[b].mp = p /\ ms[b].state \in {"live", "released"}}
NewMSMem == CHOOSE b \in MSMems : ms[b].state = "unborn" /\ \A c \in 1..(b-1) : ms[c].state # "unborn"
RecvMem(m) ==
    /\ m \in net /\ connected /\ \E b \in MSMems : ms[b].state = "unborn"
    /\ net' = net \ {m}
    /\ LET mem == IF Listed(m.mp) # {} THEN ms[Min(Listed(m.mp))].mem ELSE share[m.mp]
           new == [mp |-> m.mp, mem |-> mem, meant |-> m.mem, slot |-> m.slot, state |-> "live"]
       IN \/ mem # "none" /\ ms' = [ms EXCEPT ![NewMSMem] = new]
          \/ ms' = [ms EXCEPT ![NewMSMem] = [NoMS EXCEPT !.slot = m.slot, !.state = "failed"]]
    /\ UNCHANGED <<held, wmps, table, send, share, closes, connected, ub>>


(* CMSMem_release of the last reference: then, under the list's lock, the  *)
(* descriptor is closed and the MSMem unlisted; then the dependency is     *)
(* released, which sends LXCOM_CLOSE while the connection is open.         *)
ReleaseMSMem(b) ==
    /\ ms[b].state = "live" /\ ms' = [ms EXCEPT ![b].state = "released"]
    /\ UNCHANGED <<held, wmps, table, send, share, net, closes, connected, ub>>
CloseFd(b) ==
    /\ ms[b].state = "released" /\ ms' = [ms EXCEPT ![b].state = "closed"]
    /\ UNCHANGED <<held, wmps, table, send, share, net, closes, connected, ub>>
ReleaseDependency(b) ==
    /\ ms[b].state = "closed" /\ ms' = [ms EXCEPT ![b].state = "gone"]
    /\ closes' = IF connected THEN closes \cup {ms[b].slot} ELSE closes
    /\ UNCHANGED <<held, wmps, table, send, share, net, connected, ub>>

(* The connection ends: MinkSocket_processException closes all handles of  *)
(* the owner's table; messages on their way are lost.                      *)
InTable(w) == Cardinality({h \in Slots : table[h] = w})
Disconnect ==
    /\ connected /\ connected' = FALSE
    /\ net' = {} /\ closes' = {} /\ table' = [h \in Slots |-> 0]
    /\ wmps' = [w \in Wmps |-> IF InTable(w) = 0 THEN wmps[w] ELSE Released(w, InTable(w))[w]]
    /\ UNCHANGED <<held, send, share, ms, ub>>

Next ==
    /\ ~ub
    /\ \/ \E s \in Senders : Retrieve(s) \/ WrappedMemparcel_new(s) \/ Populate(s)
       \/ \E h \in Slots : RecvClose(h)
       \/ \E w \in Wmps : Reclaim(w) \/ ReclaimGivesUp(w)
       \/ \E m \in Mems : ReleaseFdWrapper(m)
       \/ \E m \in net : RecvMem(m)
       \/ \E b \in MSMems : ReleaseMSMem(b) \/ CloseFd(b) \/ ReleaseDependency(b)
       \/ Disconnect

Spec == Init /\ [][Next]_vars

-----------------------------------------------------------------------------

(* While the connection is open the owner never starts to reclaim memory   *)
(* that the borrower has or is about to accept: a slot holds a live        *)
(* WrappedMemparcel for every message on its way and every open MSMem,     *)
(* and CMSMem_release closes the descriptor before it releases the slot.   *)
Kept(h, p) == table[h] # 0 /\ wmps[table[h]].mp = p /\ wmps[table[h]].state = "live"
ReclaimNeverEarly ==
    connected /\ ~ub =>
        /\ \A m \in net : Kept(m.slot, m.mp)
        /\ \A b \in MSMems : ms[b].state \in {"live", "released"} => Kept(ms[b].slot, ms[b].mp)
=============================================================================
