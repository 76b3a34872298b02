---------------------------- MODULE MemoryService ----------------------------
(***************************************************************************)
(* The memory and power services of the Mink daemon.  A memory pool takes  *)
(* one DMA-BUF heap for itself, buffers are carved out of the pool's       *)
(* bytes, a lock object keeps a buffer, and every operation holds the one  *)
(* wake lock of the VM while it runs.  Sources:                            *)
(* daemons/mink/src/CTMemoryService.c, CTMemLock.c and CTPowerService.c.   *)
(***************************************************************************)
EXTENDS Naturals, FiniteSets, FiniteSetsExt

CONSTANTS
    Threads,    \* threads serving the clients' invocations
    NumHeaps,   \* entries of gListOfHeaps
    Pools,      \* pools created in a behaviour
    Buffers,    \* buffers allocated in a behaviour
    PoolSize,   \* bytes of a pool once aligned, in blocks
    Sizes,      \* sizes asked of a pool once aligned, in blocks
    MaxFaults   \* bound: failed writes of the wake lock file, failed allocations

VARIABLES
    available,  \* heap -> DmaBufHeap.available
    heapLock,   \* gHeapListLock
    pool,       \* pool -> [st, refs, heap, remain, lock]
    buf,        \* buffer -> [st, pool, size, refs]
    wakeRefs,   \* gWakeLock.refs
    wakeLock,   \* CTPowerService.c's gLock
    awake,      \* what /sys/power/wake_lock holds: "no", "held" or "timed"
    act,        \* thread -> [pc, op, pool, buf, size]
    faults

vars == <<available, heapLock, pool, buf, wakeRefs, wakeLock, awake, act, faults>>

Heaps == 1 .. NumHeaps
Free == "free"
NoPool == [st |-> "new", refs |-> 0, heap |-> 0, remain |-> 0, lock |-> Free]
NoBuf == [st |-> "new", pool |-> "none", size |-> 0, refs |-> 0, locked |-> FALSE]
Idle == [pc |-> "idle", op |-> "none", pool |-> "none", buf |-> "none", size |-> 0]

Init ==
    /\ available = [h \in Heaps |-> TRUE]
    /\ heapLock = Free
    /\ pool = [p \in Pools |-> NoPool]
    /\ buf = [b \in Buffers |-> NoBuf]
    /\ wakeRefs = 0 /\ wakeLock = Free /\ awake = "no"
    /\ act = [t \in Threads |-> Idle]
    /\ faults = 0

Goto(t, pc) == act' = [act EXCEPT ![t].pc = pc]
Fault == faults < MaxFaults /\ faults' = faults + 1
Rest(t) == act' = [act EXCEPT ![t] = Idle]
----------------------------------------------------------------------------
\* The wake lock.

\* CTWakeLock_retain takes the mutex for the whole call ...
CTWakeLock_retain_unlocked(t) ==
    /\ act[t].pc = "wake"
    /\ wakeRefs' = wakeRefs + 1
    /\ Goto(t, IF wakeRefs = 0 THEN "acquire" ELSE act[t].op)
    /\ UNCHANGED <<available, heapLock, pool, buf, wakeLock, awake, faults>>

CTWakeLock_retain(t) ==
    /\ act[t].pc = "wake" /\ wakeLock = Free
    /\ IF wakeRefs = 0
       THEN wakeLock' = t /\ Goto(t, "acquire") /\ UNCHANGED wakeRefs
       ELSE wakeRefs' = wakeRefs + 1 /\ Goto(t, act[t].op) /\ UNCHANGED wakeLock
    /\ UNCHANGED <<available, heapLock, pool, buf, awake, faults>>

\* ... and the first one writes the file before it counts itself.
_acquireWakeLock(t) ==
    /\ act[t].pc = "acquire"
    /\ awake' = "held"
    /\ wakeRefs' = IF wakeLock = t THEN wakeRefs + 1 ELSE wakeRefs
    /\ wakeLock' = Free
    /\ Goto(t, act[t].op)
    /\ UNCHANGED <<available, heapLock, pool, buf, faults>>

\* A failed write makes the operation fail as a whole.
acquireWakeLockFails(t) ==
    /\ act[t].pc = "acquire"
    /\ Fault
    /\ wakeLock' = Free
    /\ Rest(t)
    /\ IF act[t].op = "create"
       THEN pool' = [pool EXCEPT ![act[t].pool] = NoPool] /\ UNCHANGED buf
       ELSE /\ pool' = [pool EXCEPT ![act[t].pool].lock = Free]
            /\ buf' = [buf EXCEPT ![act[t].buf] = NoBuf]
    /\ UNCHANGED <<available, heapLock, wakeRefs, awake>>

\* CTWakeLock_release: the last one leaves the VM awake for another 500 ms.
CTWakeLock_release(t) ==
    /\ act[t].pc = "unwake" /\ wakeLock = Free
    /\ wakeRefs' = wakeRefs - 1
    /\ IF wakeRefs = 1 THEN wakeLock' = t /\ Goto(t, "release")
       ELSE Rest(t) /\ UNCHANGED wakeLock
    /\ UNCHANGED <<available, heapLock, pool, buf, awake, faults>>

_releaseWakeLock(t) ==
    /\ act[t].pc = "release"
    /\ \/ awake' = "timed" /\ UNCHANGED faults
       \/ Fault /\ UNCHANGED awake
    /\ wakeLock' = Free
    /\ Rest(t)
    /\ UNCHANGED <<available, heapLock, pool, buf, wakeRefs>>

TimeOut ==
    /\ awake = "timed"
    /\ awake' = "no"
    /\ UNCHANGED <<available, heapLock, pool, buf, wakeRefs, wakeLock, act, faults>>
----------------------------------------------------------------------------
\* Pools.

CTMemPoolFactory_createPool(t, p) ==
    /\ act[t].pc = "idle" /\ pool[p].st = "new"
    /\ act' = [act EXCEPT ![t] = [Idle EXCEPT !.pc = "wake", !.op = "create", !.pool = p]]
    /\ pool' = [pool EXCEPT ![p].st = "creating"]
    /\ UNCHANGED <<available, heapLock, buf, wakeRefs, wakeLock, awake, faults>>

\* getAvailableHeap: the first heap nobody occupies.
getAvailableHeap == CHOOSE h \in Heaps : available[h] /\ \A g \in 1 .. h - 1 : ~available[g]

\* CTMemPool_new under gHeapListLock, up to the call that fills the heap.
CTMemPool_new(t) ==
    /\ act[t].pc = "create" /\ heapLock = Free
    /\ IF \E h \in Heaps : available[h]
       THEN /\ heapLock' = t
            /\ pool' = [pool EXCEPT ![act[t].pool].heap = getAvailableHeap]
            /\ Goto(t, "populate")
       ELSE /\ pool' = [pool EXCEPT ![act[t].pool] = NoPool]
            /\ Goto(t, "unwake") /\ UNCHANGED heapLock
    /\ UNCHANGED <<available, buf, wakeRefs, wakeLock, awake, faults>>

\* populateHeap, which retries the remote allocation, and the rest of it.
populateHeap(t) ==
    LET p == act[t].pool IN
    /\ act[t].pc = "populate"
    /\ heapLock' = Free
    /\ \/ /\ available' = [available EXCEPT ![pool[p].heap] = FALSE]
          /\ pool' = [pool EXCEPT ![p].st = "open", ![p].refs = 1, ![p].remain = PoolSize]
          /\ UNCHANGED faults
       \/ /\ Fault
          /\ pool' = [pool EXCEPT ![p] = NoPool]
          /\ UNCHANGED available
    /\ Goto(t, "unwake")
    /\ UNCHANGED <<buf, wakeRefs, wakeLock, awake>>

\* A client lets go of its pool.
ReleasePool(t, p) ==
    /\ act[t].pc = "idle" /\ pool[p].st = "open"
    /\ \A u \in Threads : act[u].pool # p \/ act[u].pc = "putpool"
    /\ pool' = [pool EXCEPT ![p].st = "left"]
    /\ act' = [act EXCEPT ![t] = [Idle EXCEPT !.pc = "putpool", !.pool = p]]
    /\ UNCHANGED <<available, heapLock, buf, wakeRefs, wakeLock, awake, faults>>

\* CTMemPool_release: the last reference gives the heap back.
CTMemPool_release(t) ==
    LET p == act[t].pool IN
    /\ act[t].pc = "putpool"
    /\ IF pool[p].refs > 1
       THEN pool' = [pool EXCEPT ![p].refs = @ - 1] /\ Rest(t) /\ UNCHANGED available
       ELSE /\ heapLock = Free
            /\ available' = [available EXCEPT ![pool[p].heap] = TRUE]
            /\ pool' = [pool EXCEPT ![p] = NoPool]
            /\ Rest(t)
    /\ UNCHANGED <<heapLock, buf, wakeRefs, wakeLock, awake, faults>>
----------------------------------------------------------------------------
\* Buffers.

\* CTMemPool_allocateBuffer holds the pool's allocLock from before it takes the
\* wake lock.
CTMemPool_allocateBuffer(t, p, b, n) ==
    /\ act[t].pc = "idle" /\ pool[p].st = "open" /\ pool[p].lock = Free
    /\ buf[b].st = "new"
    /\ pool' = [pool EXCEPT ![p].lock = t]
    /\ buf' = [buf EXCEPT ![b].st = "asked"]
    /\ act' = [act EXCEPT ![t] = [pc |-> "wake", op |-> "alloc", pool |-> p, buf |-> b, size |-> n]]
    /\ UNCHANGED <<available, heapLock, wakeRefs, wakeLock, awake, faults>>

\* DmabufHeapAlloc with a callback object that copies the pool without a
\* reference.
DmabufHeapAlloc_unretained(t) ==
    LET p == act[t].pool
        b == act[t].buf
        n == act[t].size IN
    /\ act[t].pc = "alloc" /\ n <= pool[p].remain
    /\ pool' = [pool EXCEPT ![p].remain = @ - n, ![p].lock = Free]
    /\ buf' = [buf EXCEPT ![b] = [NoBuf EXCEPT !.st = "open", !.pool = p, !.size = n, !.refs = 1]]
    /\ act' = [act EXCEPT ![t] = [Idle EXCEPT !.pc = "unwake"]]
    /\ UNCHANGED <<available, heapLock, wakeRefs, wakeLock, awake, faults>>

\* DmabufHeapAlloc that keeps the bytes of an allocation that failed.
DmabufHeapAlloc_keeps(t) ==
    LET p == act[t].pool
        b == act[t].buf
        n == act[t].size IN
    /\ act[t].pc = "alloc" /\ n <= pool[p].remain
    /\ Fault
    /\ pool' = [pool EXCEPT ![p].remain = @ - n, ![p].lock = Free]
    /\ buf' = [buf EXCEPT ![b] = NoBuf]
    /\ act' = [act EXCEPT ![t] = [Idle EXCEPT !.pc = "unwake"]]
    /\ UNCHANGED <<available, heapLock, wakeRefs, wakeLock, awake>>

\* DmabufHeapAlloc, and the callback object that keeps the pool.
DmabufHeapAlloc(t) ==
    LET p == act[t].pool
        b == act[t].buf
        n == act[t].size IN
    /\ act[t].pc = "alloc"
    /\ \/ /\ n <= pool[p].remain
          /\ pool' = [pool EXCEPT ![p].remain = @ - n, ![p].lock = Free, ![p].refs = @ + 1]
          /\ buf' = [buf EXCEPT ![b] = [NoBuf EXCEPT !.st = "open", !.pool = p, !.size = n,
                                                     !.refs = 1]]
          /\ UNCHANGED faults
       \/ /\ IF n <= pool[p].remain THEN Fault ELSE UNCHANGED faults
          /\ pool' = [pool EXCEPT ![p].lock = Free]
          /\ buf' = [buf EXCEPT ![b] = NoBuf]
    /\ act' = [act EXCEPT ![t] = [Idle EXCEPT !.pc = "unwake"]]
    /\ UNCHANGED <<available, heapLock, wakeRefs, wakeLock, awake>>

\* A lock object: the driver locks the buffer, which the object retains.
TMemLock_new(b) ==
    /\ buf[b].st = "open" /\ buf[b].refs = 1
    /\ buf' = [buf EXCEPT ![b].locked = TRUE, ![b].refs = 2]
    /\ UNCHANGED <<available, heapLock, pool, wakeRefs, wakeLock, awake, act, faults>>

\* CTMemLock_release: the driver unlocks, then the buffer is let go.
CTMemLock_release(t, b) ==
    /\ act[t].pc = "idle" /\ buf[b].locked
    /\ buf' = [buf EXCEPT ![b].locked = FALSE]
    /\ act' = [act EXCEPT ![t] = [Idle EXCEPT !.pc = "putbuf", !.buf = b]]
    /\ UNCHANGED <<available, heapLock, pool, wakeRefs, wakeLock, awake, faults>>

\* A client lets go of its buffer.
ReleaseBuffer(t, b) ==
    /\ act[t].pc = "idle" /\ buf[b].st = "open"
    /\ buf' = [buf EXCEPT ![b].st = "left"]
    /\ act' = [act EXCEPT ![t] = [Idle EXCEPT !.pc = "putbuf", !.buf = b]]
    /\ UNCHANGED <<available, heapLock, pool, wakeRefs, wakeLock, awake, faults>>

\* MSMem's release: the last reference closes the descriptor, then releases the
\* callback object.
ReleaseMSMem(t) ==
    LET b == act[t].buf IN
    /\ act[t].pc = "putbuf"
    /\ buf' = [buf EXCEPT ![b].refs = @ - 1, ![b].st = IF buf[b].refs = 1 THEN "closed" ELSE @]
    /\ IF buf[b].refs = 1 THEN Goto(t, "callback") ELSE Rest(t)
    /\ UNCHANGED <<available, heapLock, pool, wakeRefs, wakeLock, awake, faults>>

\* CTBufCallBack_release gives the bytes back, then lets go of the pool.
CTBufCallBack_release(t) ==
    LET b == act[t].buf IN
    /\ act[t].pc = "callback" /\ pool[buf[b].pool].lock = Free
    /\ pool' = [pool EXCEPT ![buf[b].pool].remain = @ + buf[b].size]
    /\ buf' = [buf EXCEPT ![b] = NoBuf]
    /\ act' = [act EXCEPT ![t] = [Idle EXCEPT !.pc = "putpool", !.pool = buf[b].pool]]
    /\ UNCHANGED <<available, heapLock, wakeRefs, wakeLock, awake, faults>>
----------------------------------------------------------------------------
Next ==
    \/ \E t \in Threads :
         \/ CTWakeLock_retain(t) \/ _acquireWakeLock(t) \/ acquireWakeLockFails(t)
         \/ CTWakeLock_release(t) \/ _releaseWakeLock(t)
         \/ CTMemPool_new(t) \/ populateHeap(t) \/ CTMemPool_release(t)
         \/ DmabufHeapAlloc(t) \/ ReleaseMSMem(t) \/ CTBufCallBack_release(t)
         \/ \E p \in Pools : \/ CTMemPoolFactory_createPool(t, p) \/ ReleasePool(t, p)
                             \/ \E b \in Buffers, n \in Sizes : CTMemPool_allocateBuffer(t, p, b, n)
         \/ \E b \in Buffers : CTMemLock_release(t, b) \/ ReleaseBuffer(t, b)
    \/ \E b \in Buffers : TMemLock_new(b)
    \/ TimeOut

Spec == Init /\ [][Next]_vars
----------------------------------------------------------------------------
TypeOK ==
    /\ \A p \in Pools : pool[p].refs \in 0 .. 1 + Cardinality(Buffers) + Cardinality(Threads)
    /\ \A b \in Buffers : buf[b].refs \in 0 .. 2
    /\ wakeRefs \in 0 .. Cardinality(Threads)

Allocated(b) == buf[b].st \in {"open", "left"}

\* "One that requests the heap will occupy the heap until all memory buffers
\* allocated from the heap are released" (CTMemoryService.c:104): as long as a
\* buffer's descriptor is open its pool exists, the pool's heap is not available
\* and no other pool has it, whoever let go of the pool.
HeapOccupied ==
    \A b \in Buffers : Allocated(b) =>
        LET p == buf[b].pool IN
        /\ pool[p].refs > 0
        /\ ~available[pool[p].heap]
        /\ \A q \in Pools \ {p} : pool[q].refs > 0 => pool[q].heap # pool[p].heap

\* The bytes of a pool: what remains and what its buffers hold make up the pool,
\* across failed allocations and releases (allocLock, CTBufCallBack_release).
BytesExact ==
    \A p \in Pools : pool[p].refs > 0 =>
        pool[p].remain + MapThenSumSet(LAMBDA b : buf[b].size,
            {b \in Buffers : buf[b].st \in {"open", "left", "closed"} /\ buf[b].pool = p}) = PoolSize

\* While an operation runs that acquireWakeLock granted, the VM cannot go to
\* sleep: the file holds the lock without a time-out ("Avoid the second service B
\* get Object_OK before the first service A finished", CTPowerService.c:80).
AwakeWhileGranted ==
    (\E t \in Threads : act[t].pc \in {"create", "populate", "alloc", "unwake"}) => awake = "held"
=============================================================================
