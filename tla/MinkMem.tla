------------------------------- MODULE MinkMem -------------------------------
(***************************************************************************)
(* The allocator of memory that is shared with or lent to another VM, and  *)
(* how its memory objects become memparcels.  MinkMem maps a DMA buffer,   *)
(* wraps its descriptor in a FdWrapper and lists the wrapper under the     *)
(* address; lending unmaps the buffer but keeps the address as its name,   *)
(* sharing it again maps it anywhere.  A wrapper passed to another VM is   *)
(* held by a WrappedMemparcel, whose memparcel names the VMs that may      *)
(* accept it; the borrower has to name the same ones.                      *)
(* Sources: sharemm/src/MinkMem.c, ShareMemory.c, RemoteShareMemory.c,     *)
(* CConfinement.c, WrappedMemparcel.c, FdWrapper/src/fdwrapper.c and       *)
(* sock/Marshalling.c.                                                     *)
(*                                                                         *)
(* Threads that use one memory object agree among themselves on its        *)
(* attributes, so MinkMem_setMemObjAttr is one step; the other operations  *)
(* hold the monitor's mutex.  The kernel's choice of addresses and the VM  *)
(* manager are external.                                                   *)
(***************************************************************************)
EXTENDS Integers, Sequences, FiniteSets, SequencesExt

CONSTANTS
    Users,      \* threads between MinkMem_init and MinkMem_deinit
    MaxFdw,     \* bound on FdWrappers created
    Vas,        \* virtual addresses
    MaxObjs,    \* bound on references the application has to one memory object
    MaxLent,    \* bound on buffers lent at a time
    Rules       \* special rules that confinements are given

Fdws == 1..MaxFdw
Leaked == MaxFdw + 1        \* in the address space: a mapping nobody knows of
ForeignFd == 0              \* a descriptor of another allocator
NoVa == "null"

VARIABLES
    inited,     \* users that have called MinkMem_init
    monitor,    \* [initCounter, bufferAllocator]
    mapInfoList,
    fdw,        \* [state, refs, mink, va, mapped, ipcFlags, conf]
    space,      \* what is mapped at each address: a FdWrapper, Leaked or 0
    fds,        \* open descriptors: that of FdWrapper f is f
    appVa,      \* the address by which the application knows each buffer
    objs,       \* references the application has to each memory object
    wmp         \* [state, rules, parcel] of the memparcel of each FdWrapper

vars == <<inited, monitor, mapInfoList, fdw, space, fds, appVa, objs, wmp>>

NoFdw == [state |-> "unborn", refs |-> 0, mink |-> FALSE, va |-> NoVa, mapped |-> FALSE,
          ipcFlags |-> "UNSET", conf |-> "none"]
NoParcel == [owner |-> "none", acl |-> <<>>]
NoWmp == [state |-> "none", rules |-> "none", parcel |-> NoParcel]

TypeOK ==
    /\ inited \subseteq Users /\ monitor.initCounter \in Int /\ monitor.bufferAllocator \in BOOLEAN
    /\ \A i \in DOMAIN mapInfoList : mapInfoList[i] \in Fdws
    /\ \A f \in Fdws : /\ fdw[f].state \in {"unborn", "live", "freed"} /\ fdw[f].refs \in Nat
                       /\ fdw[f].ipcFlags \in {"UNSET", "SHARE", "LEND"}
                       /\ fdw[f].conf \in Rules \cup {"none"}
    /\ space \in [Vas -> 0..Leaked] /\ fds \subseteq 0..MaxFdw
    /\ objs \in [Fdws -> 0..MaxObjs]

Init ==
    /\ inited = {} /\ monitor = [initCounter |-> 0, bufferAllocator |-> FALSE]
    /\ mapInfoList = <<>> /\ fdw = [f \in Fdws |-> NoFdw] /\ space = [v \in Vas |-> 0]
    /\ fds = {ForeignFd} /\ appVa = [f \in Fdws |-> NoVa] /\ objs = [f \in Fdws |-> 0]
    /\ wmp = [f \in Fdws |-> NoWmp]

-----------------------------------------------------------------------------
(* FdWrapper.                                                              *)

(* FdWrapper_newInternal takes the next record.                            *)
Unborn == {f \in Fdws : fdw[f].state = "unborn" /\ \A g \in 1..(f - 1) : fdw[g].state # "unborn"}
FdWrapper_newInternal(mink, va) ==
    [NoFdw EXCEPT !.state = "live", !.refs = 1, !.mink = mink, !.va = va, !.mapped = mink]

(* FdWrapper_release of `drop`: FdWrapper_delete unmaps what is mapped,    *)
(* closes a descriptor of MinkMem's own, and frees the wrapper.            *)
LastRef(f) == fdw[f].refs = 1
FdWrapper_delete(drop) ==
    /\ space' = [v \in Vas |-> IF \E f \in drop : LastRef(f) /\ fdw[f].mapped /\ fdw[f].va = v
                               THEN 0 ELSE space[v]]
    /\ fds' = fds \ {f \in drop : LastRef(f) /\ fdw[f].mink}
FdWrapper_release(drop) ==
    /\ FdWrapper_delete(drop)
    /\ fdw' = [f \in Fdws |->
                 IF f \notin drop THEN fdw[f]
                 ELSE IF LastRef(f) THEN [fdw[f] EXCEPT !.state = "freed", !.refs = 0, !.conf = "none"]
                      ELSE [fdw[f] EXCEPT !.refs = @ - 1]]

-----------------------------------------------------------------------------
(* MinkMem_init creates the allocator for the first user.                  *)
CreateAllocator(u) ==
    /\ monitor' = [initCounter |-> monitor.initCounter + 1, bufferAllocator |-> TRUE]
    /\ inited' = inited \cup {u}
MinkMem_init(u) ==
    /\ u \notin inited
    /\ \/ CreateAllocator(u)
       \/ ~monitor.bufferAllocator /\ UNCHANGED <<monitor, inited>>
    /\ UNCHANGED <<mapInfoList, fdw, space, fds, appVa, objs, wmp>>

(* MinkMem_deinit frees the allocator with the last user, and whatever is  *)
(* still listed.                                                           *)
MinkMem_deinit(u) ==
    /\ u \in inited /\ inited' = inited \ {u}
    /\ LET left == monitor.initCounter - 1
       IN IF left > 0 \/ ~monitor.bufferAllocator
          THEN /\ monitor' = [monitor EXCEPT !.initCounter = left]
               /\ UNCHANGED <<mapInfoList, fdw, space, fds>>
          ELSE /\ monitor' = [initCounter |-> left, bufferAllocator |-> FALSE]
               /\ mapInfoList' = <<>> /\ FdWrapper_release(ToSet(mapInfoList))
    /\ UNCHANGED <<appVa, objs, wmp>>

(* As if only mapped buffers had an address.                               *)
MinkMem_checkExistingVirtAddr_mapped(v) ==
    \E f \in ToSet(mapInfoList) : fdw[f].va = v /\ fdw[f].mapped
(* An address that names a lent buffer is taken, though nothing is mapped  *)
(* there.                                                                  *)
MinkMem_checkExistingVirtAddr(v) == \E f \in ToSet(mapInfoList) : fdw[f].va = v

(* MinkMem_alloc: when the address is taken, or the wrapper cannot be      *)
(* allocated, the descriptor is closed; the test before munmap is the      *)
(* wrong way round, so the mapping stays.                                  *)
MinkMem_alloc(u) ==
    /\ u \in inited /\ monitor.bufferAllocator
    /\ \E f \in Unborn, v \in Vas :
          /\ space[v] = 0
          /\ \/ /\ ~MinkMem_checkExistingVirtAddr(v)
                /\ fdw' = [fdw EXCEPT ![f] = FdWrapper_newInternal(TRUE, v)]
                /\ space' = [space EXCEPT ![v] = f] /\ fds' = fds \cup {f}
                /\ mapInfoList' = Append(mapInfoList, f) /\ appVa' = [appVa EXCEPT ![f] = v]
             \/ /\ space' = [space EXCEPT ![v] = Leaked]
                /\ UNCHANGED <<fdw, fds, mapInfoList, appVa>>
    /\ UNCHANGED <<inited, monitor, objs, wmp>>

(* The first listed entry with the address: MinkMem_virtAddrToFd and       *)
(* MinkMem_queryMemObj answer with it, MinkMem_free removes it.            *)
Entries(v) == SelectSeq(mapInfoList, LAMBDA f : fdw[f].va = v)
MinkMem_virtAddrToFd(v) == IF Entries(v) = <<>> THEN -1 ELSE Head(Entries(v))

(* MinkMem_queryMemObj retains what it finds, by address or by descriptor. *)
MinkMem_queryMemObj(f) ==
    /\ objs[f] < MaxObjs
    /\ fdw' = [fdw EXCEPT ![f].refs = @ + 1] /\ objs' = [objs EXCEPT ![f] = @ + 1]
MinkMem_virtAddrToMemObj(f) ==
    /\ appVa[f] # NoVa /\ MinkMem_virtAddrToFd(appVa[f]) # -1
    /\ MinkMem_queryMemObj(MinkMem_virtAddrToFd(appVa[f]))
    /\ UNCHANGED <<inited, monitor, mapInfoList, space, fds, appVa, wmp>>

(* MinkMem_fdToMemObj: a descriptor of another allocator gets a wrapper of *)
(* its own that does not close it.                                         *)
MinkMem_fdToMemObj(f) ==
    /\ f \in ToSet(mapInfoList) /\ MinkMem_queryMemObj(f)
    /\ UNCHANGED <<inited, monitor, mapInfoList, space, fds, appVa, wmp>>
FdWrapper_newWithCloseFlags ==
    /\ \E f \in Unborn : /\ fdw' = [fdw EXCEPT ![f] = FdWrapper_newInternal(FALSE, NoVa)]
                         /\ objs' = [objs EXCEPT ![f] = 1]
    /\ UNCHANGED <<inited, monitor, mapInfoList, space, fds, appVa, wmp>>

(* MinkMem_memObjToVirtAddr of a buffer that is mapped.                    *)
MinkMem_memObjToVirtAddr(f) ==
    /\ objs[f] > 0 /\ fdw[f].mink /\ fdw[f].mapped /\ fdw[f].ipcFlags # "LEND"
    /\ appVa[f] \notin {NoVa, fdw[f].va} /\ appVa' = [appVa EXCEPT ![f] = fdw[f].va]
    /\ UNCHANGED <<inited, monitor, mapInfoList, fdw, space, fds, objs, wmp>>

ReleaseMemObj(f) ==
    /\ objs[f] > 0 /\ objs' = [objs EXCEPT ![f] = @ - 1] /\ FdWrapper_release({f})
    /\ UNCHANGED <<inited, monitor, mapInfoList, appVa, wmp>>

(* MinkMem_free: the entry leaves the list, its reference is released.  An *)
(* application that has shared a buffer again asks for its address first.  *)
MinkMem_free(f) ==
    /\ appVa[f] # NoVa /\ (f \in ToSet(mapInfoList) => appVa[f] = fdw[f].va)
    /\ appVa' = [appVa EXCEPT ![f] = NoVa]
    /\ LET e == MinkMem_virtAddrToFd(appVa[f])
       IN IF e = -1 THEN UNCHANGED <<mapInfoList, fdw, space, fds>>
          ELSE mapInfoList' = SelectSeq(mapInfoList, LAMBDA g : g # e) /\ FdWrapper_release({e})
    /\ UNCHANGED <<inited, monitor, objs, wmp>>

-----------------------------------------------------------------------------
(* Attributes.                                                             *)

(* RemoteShareMemory_attachConfinement drops the old confinement, and has  *)
(* none when CConfinement_new fails.  An application calls it for buffers  *)
(* that are not MinkMem's; for those MinkMem_setMemObjAttr does.           *)
RemoteShareMemory_attachConfinement(f, rules) ==
    /\ objs[f] > 0 /\ ~fdw[f].mink /\ fdw[f].conf # rules
    /\ fdw' = [fdw EXCEPT ![f].conf = rules]
    /\ UNCHANGED <<inited, monitor, mapInfoList, space, fds, appVa, objs, wmp>>

Lent == {f \in Fdws : fdw[f].state = "live" /\ fdw[f].ipcFlags = "LEND"}

(* MinkMem_updateShareMapInfo of a mapped buffer; lending fails when there *)
(* is no memory for the confinement.                                       *)
MinkMem_updateShareMapInfo(f, flags) ==
    /\ fdw[f].ipcFlags \in {"UNSET", "SHARE"} /\ fdw[f].mapped
    /\ \/ /\ flags = "LEND" /\ Cardinality(Lent) < MaxLent
          /\ fdw' = [fdw EXCEPT ![f].conf = "removeSelf", ![f].mapped = FALSE,
                                ![f].ipcFlags = "LEND"]
          /\ space' = [space EXCEPT ![fdw[f].va] = 0]
       \/ /\ flags = "LEND" /\ fdw[f].conf # "none"
          /\ fdw' = [fdw EXCEPT ![f].conf = "none"] /\ UNCHANGED space
       \/ /\ flags = "SHARE" /\ fdw[f].ipcFlags # "SHARE"
          /\ fdw' = [fdw EXCEPT ![f].ipcFlags = "SHARE"] /\ UNCHANGED space

(* MinkMem_updateLendMapInfo of a lent one; the address is not checked.    *)
MinkMem_updateLendMapInfo(f, flags) ==
    /\ fdw[f].ipcFlags = "LEND" /\ ~fdw[f].mapped /\ flags = "SHARE"
    /\ \E v \in Vas :
          /\ space[v] = 0 /\ space' = [space EXCEPT ![v] = f]
          /\ fdw' = [fdw EXCEPT ![f].ipcFlags = "SHARE", ![f].va = v, ![f].mapped = TRUE,
                                ![f].conf = "none"]

(* MinkMem_setMemObjAttr of a foreign buffer only changes its confinement. *)
SetForeignAttr(f, flags) ==
    /\ fdw' = [fdw EXCEPT ![f].conf = IF flags = "LEND" THEN "removeSelf" ELSE "none"]
    /\ fdw' # fdw /\ UNCHANGED space
MinkMem_setMemObjAttr(f, flags) ==
    /\ objs[f] > 0
    /\ IF fdw[f].mink
       THEN MinkMem_updateShareMapInfo(f, flags) \/ MinkMem_updateLendMapInfo(f, flags)
       ELSE SetForeignAttr(f, flags)
    /\ UNCHANGED <<inited, monitor, mapInfoList, fds, appVa, objs, wmp>>

-----------------------------------------------------------------------------
(* Memparcels: this VM is "owner" and the other end is "borrower".         *)

ShareMemory_PrepareInfoForMemBuf(rules, self, dest, flip, accepts) ==
    IF rules = "removeSelf" THEN IF accepts THEN <<self>> ELSE <<dest>>
    ELSE IF flip THEN <<self, dest>> ELSE <<dest, self>>

(* Buffers that another driver has lent already have a memparcel           *)
(* (external): to the two VMs of ShareMemory_MixedGetDMA, or one of the    *)
(* SMMU proxy, which asks for no list.                                     *)
MixedVms == <<"qcom,trusted_vm", "qcom,oemvm">>
Existing(rules) ==
    [owner |-> "owner", acl |-> IF rules = "mixed" THEN MixedVms ELSE <<"smmu">>]

(* ShareMemory_GetMemParcelHandle, for the owner.                          *)
ShareMemory_GetMemParcelHandle(rules) ==
    IF rules \in {"smmuProxy", "mixed"} THEN Existing(rules)
    ELSE [owner |-> "owner",
          acl |-> ShareMemory_PrepareInfoForMemBuf(rules, "owner", "borrower", TRUE, FALSE)]

(* ShareMemory_GetRemoteFileDescriptor: what the borrower asks for.        *)
ShareMemory_MixedGetDMA == [owner |-> "owner", acl |-> MixedVms]
ShareMemory_SMMUProxyGetDMA == Existing("smmuProxy")
ShareMemory_GetRemoteFileDescriptor(rules) ==
    CASE rules = "mixed" -> ShareMemory_MixedGetDMA
      [] rules = "smmuProxy" -> ShareMemory_SMMUProxyGetDMA
      [] OTHER ->
           LET acl == ShareMemory_PrepareInfoForMemBuf(rules, "borrower", "owner", FALSE,
                                                       rules = "removeSelf")
           IN [owner |-> IF rules = "removeSelf" THEN "owner" ELSE acl[1], acl |-> acl]

(* MarshalOut_remoteGenericMem: a buffer with no confinement gets the      *)
(* default one; WrappedMemparcel_new keeps the wrapper.  The message       *)
(* carries the rules of this moment.                                       *)
MarshalOut_checkGenericConfinement(f) ==
    IF fdw[f].conf = "none" THEN "keepSelf" ELSE fdw[f].conf
WrappedMemparcel_new(f) ==
    /\ objs[f] > 0 /\ wmp[f].state = "none"
    /\ LET rules == MarshalOut_checkGenericConfinement(f)
       IN /\ fdw' = [fdw EXCEPT ![f].refs = @ + 1, ![f].conf = rules]
          /\ wmp' = [wmp EXCEPT ![f] = [state |-> "live", rules |-> rules,
                                        parcel |-> ShareMemory_GetMemParcelHandle(rules)]]
    /\ UNCHANGED <<inited, monitor, mapInfoList, space, fds, appVa, objs>>

(* WrappedMemparcel_delete, when the borrower is done: with no confinement *)
(* on the wrapper it returns before it reclaims or releases anything.      *)
WrappedMemparcel_delete(f) ==
    /\ wmp[f].state = "live"
    /\ IF fdw[f].conf = "none"
       THEN wmp' = [wmp EXCEPT ![f].state = "stuck"] /\ UNCHANGED <<fdw, space, fds>>
       ELSE wmp' = [wmp EXCEPT ![f] = NoWmp] /\ FdWrapper_release({f})
    /\ UNCHANGED <<inited, monitor, mapInfoList, appVa, objs>>

Next ==
    \/ \E u \in Users : MinkMem_init(u) \/ MinkMem_deinit(u) \/ MinkMem_alloc(u)
    \/ FdWrapper_newWithCloseFlags
    \/ \E f \in Fdws :
          \/ MinkMem_virtAddrToMemObj(f) \/ MinkMem_fdToMemObj(f) \/ MinkMem_memObjToVirtAddr(f)
          \/ ReleaseMemObj(f) \/ MinkMem_free(f)
          \/ \E flags \in {"SHARE", "LEND"} : MinkMem_setMemObjAttr(f, flags)
          \/ \E r \in Rules \cup {"none"} : RemoteShareMemory_attachConfinement(f, r)
          \/ WrappedMemparcel_new(f) \/ WrappedMemparcel_delete(f)

Spec == Init /\ [][Next]_vars

-----------------------------------------------------------------------------
(* The address by which the application knows a buffer finds this buffer   *)
(* and no other, also while it is lent and its address is free for others  *)
(* to be mapped at: "it is just used for quering the DMA buffer".          *)
AddressFindsItsBuffer ==
    \A f \in ToSet(mapInfoList) : appVa[f] = fdw[f].va => MinkMem_virtAddrToFd(appVa[f]) = f

(* The VM that accepts a memparcel under the rules it was made with names  *)
(* the same owner and the same list of VMs, in the same order, as the one  *)
(* that made it; and what is passed stays open.                            *)
AcceptMatchesShare ==
    \A f \in Fdws : wmp[f].state = "live" =>
        /\ ShareMemory_GetRemoteFileDescriptor(wmp[f].rules) = wmp[f].parcel
        /\ fdw[f].state = "live" /\ (fdw[f].mink => f \in fds)
=============================================================================
