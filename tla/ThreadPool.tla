----------------------------- MODULE ThreadPool -----------------------------
(***************************************************************************)
(* The worker pool of a MinkSocket                                         *)
(* (libmink/Transport/MinkSocket/sock/ThreadPool.c).                       *)
(*                                                                         *)
(* A critical section of qMtx is one step: every section either runs to    *)
(* its unlock or gives the mutex up in vm_osal_cond_wait, and the fields   *)
(* it writes are read without the mutex only where a step of its own says  *)
(* so (the test of bDone, the reads after the unlock, the scan of          *)
(* ThreadPool_stop).  aThreads[] is the set of the thread identifiers it   *)
(* holds: the order of the slots only decides the order in which           *)
(* ThreadPool_stop visits them, which is left open here.                   *)
(***************************************************************************)
EXTENDS Integers, FiniteSets, Sequences

CONSTANTS
    Threads,      \* identifiers vm_osal_thread_create can hand out
    Works,        \* the ThreadWork records of a run
    Owner,        \* a thread outside the pool that uses it (the listener)
    NoThread,     \* the 0 of an empty slot and of bDelayCleaner
    MIN_IDLE,     \* THREADPOOL_MIN_IDLE_THREADS
    MAX_THREADS   \* THREADPOOL_MAX_THREADS

ASSUME PoolAssumption ==
    /\ IsFiniteSet(Threads)
    /\ Owner \notin Threads
    /\ NoThread \notin Threads \cup {Owner}
    /\ MIN_IDLE \in Nat \ {0}
    /\ MAX_THREADS \in Nat /\ MIN_IDLE <= MAX_THREADS

VARIABLES
    pool,           \* the heap block: "unborn", "live", "freed", and "corrupt"
                    \* once it has been freed twice
    refs,
    aThreads,
    bDelayCleaner,
    qlWork,
    workForServer,
    bDone,
    nThreads,
    nIdleThreads,
    pc,             \* where each thread is in thread_entrypoint
    detached,       \* threads whose identifier is given back when they return
    stopper,        \* who runs ThreadPool_stop and ThreadPool_release
    stopPc,         \* how far it is
    work            \* what became of each ThreadWork

counters == <<refs, nThreads, nIdleThreads>>
stopping == <<stopper, stopPc>>
vars == <<pool, aThreads, bDelayCleaner, qlWork, workForServer, bDone, pc,
          detached, work, counters, stopping>>

Pcs == {"none", "top", "lock", "wait", "woken", "work", "idleExit", "bail",
        "exited"}

TypeOK ==
    /\ pool \in {"unborn", "live", "freed", "corrupt"}
    /\ refs \in Nat
    /\ aThreads \in SUBSET Threads
    /\ bDelayCleaner \in Threads \cup {NoThread}
    /\ qlWork \in Seq(Works)
    /\ workForServer \in BOOLEAN
    /\ bDone \in BOOLEAN
    /\ nThreads \in 0..MAX_THREADS
    /\ nIdleThreads \in 0..MIN_IDLE
    /\ pc \in [Threads -> Pcs]
    /\ detached \in SUBSET Threads
    /\ stopper \in Threads \cup {Owner, NoThread}
    /\ stopPc \in {"idle", "scan", "release", "done"}
    /\ work \in [Works -> {"new", "queued", "taken", "freed"}]

Init ==
    /\ pool = "unborn"
    /\ refs = 0
    /\ aThreads = {}
    /\ bDelayCleaner = NoThread
    /\ qlWork = <<>>
    /\ workForServer \in BOOLEAN
    /\ bDone = FALSE
    /\ nThreads = 0
    /\ nIdleThreads = 0
    /\ pc = [t \in Threads |-> "none"]
    /\ detached = {}
    /\ stopper = NoThread
    /\ stopPc = "idle"
    /\ work = [w \in Works |-> "new"]

-----------------------------------------------------------------------------

(* The threads that some calls of ThreadPool_createThread started: at most *)
(* n, fewer when vm_osal_thread_create fails or no slot of aThreads is 0.  *)
Created(n) ==
    {S \in SUBSET {t \in Threads : pc[t] = "none"} :
        Cardinality(S) <= n /\ Cardinality(S) <= MAX_THREADS - Cardinality(aThreads)}

Retained_never(S) == 0

(* The references those threads hold: one each, in server mode only.       *)
Retained(S) == IF workForServer THEN Cardinality(S) ELSE 0

(* The successful calls of ThreadPool_createThread for the threads in S,   *)
(* on program counters c: a slot, a reference in server mode, and the new  *)
(* thread in front of its loop.  All under qMtx.                           *)
CreateThreads(S, c) ==
    /\ aThreads' = aThreads \cup S
    /\ nThreads' = nThreads + Cardinality(S)
    /\ pc' = [t \in Threads |-> IF t \in S THEN "top" ELSE c[t]]

Broadcast_lost(c) == c

(* vm_osal_cond_broadcast on qCnd.                                         *)
Broadcast(c) == [t \in Threads |-> IF c[t] = "wait" THEN "woken" ELSE c[t]]

(* ThreadPool_delete frees the work that is still queued and the pool.     *)
ThreadPool_delete ==
    /\ pool' = IF pool = "live" THEN "freed" ELSE "corrupt"
    /\ qlWork' = <<>>
    /\ work' = [w \in Works |-> IF work[w] = "queued" THEN "freed" ELSE work[w]]

ThreadPool_release_always ==
    /\ refs' = refs - 1
    /\ IF refs' = 0 THEN ThreadPool_delete ELSE UNCHANGED <<pool, qlWork, work>>

(* ThreadPool_release: the last reference deletes the pool, unless a       *)
(* worker that stopped its own pool is going to.                           *)
ThreadPool_release ==
    /\ refs' = refs - 1
    /\ IF refs' = 0 /\ bDelayCleaner = NoThread
       THEN ThreadPool_delete
       ELSE UNCHANGED <<pool, qlWork, work>>

(* ThreadPool_new: the first MIN_IDLE threads; a pool without any thread   *)
(* is released at once and the caller gets NULL.                           *)
ThreadPool_new ==
    /\ pool = "unborn"
    /\ \E S \in Created(MIN_IDLE) :
        /\ CreateThreads(S, pc)
        /\ IF S = {}
           THEN /\ pool' = "freed"
                /\ refs' = 0
           ELSE /\ pool' = "live"
                /\ refs' = 1 + Retained(S)
    /\ UNCHANGED <<bDelayCleaner, qlWork, workForServer, bDone, nIdleThreads,
                   detached, work, stopping>>

(* Who may call into the pool: a worker inside its workFunc, and the owner *)
(* for as long as nobody has begun to delete the MinkSocket.               *)
Caller(p) ==
    \/ p \in Threads /\ pc[p] = "work" /\ stopper # p
    \/ p = Owner /\ pool = "live" /\ stopPc = "idle"

(* ThreadPool_queue.                                                       *)
ThreadPool_queue(p, w) ==
    /\ Caller(p)
    /\ work[w] = "new"
    /\ IF bDone
       THEN /\ pc' = Broadcast(pc)
            /\ work' = [work EXCEPT ![w] = "freed"]
            /\ UNCHANGED <<qlWork, aThreads, nThreads, refs>>
       ELSE /\ qlWork' = Append(qlWork, w)
            /\ work' = [work EXCEPT ![w] = "queued"]
            /\ \E S \in IF Len(qlWork') > nIdleThreads
                        THEN Created(MIN_IDLE) ELSE {{}} :
                /\ CreateThreads(S, Broadcast(pc))
                /\ refs' = refs + Retained(S)
    /\ UNCHANGED <<pool, bDelayCleaner, workForServer, bDone, nIdleThreads,
                   detached, stopping>>

-----------------------------------------------------------------------------

(* ThreadPool_stop up to its scan.  MinkSocket_delete is the only caller   *)
(* and runs once, on a worker or on a thread outside the pool.             *)
StopBegin(p) ==
    /\ stopPc = "idle"
    /\ Caller(p)
    /\ stopper' = p
    /\ stopPc' = "scan"
    /\ bDone' = TRUE
    /\ pc' = Broadcast(pc)
    /\ UNCHANGED <<pool, aThreads, bDelayCleaner, qlWork, workForServer,
                   detached, work, counters>>

(* One slot of the scan, without qMtx.  Server threads are detached; a     *)
(* client waits for each of its threads, and defers the deletion to itself *)
(* when the slot is its own.                                               *)
StopScan(t) ==
    /\ stopPc = "scan"
    /\ t \in aThreads
    /\ IF workForServer \/ t = stopper
       THEN /\ detached' = IF pc[t] = "exited" THEN detached ELSE detached \cup {t}
            /\ pc' = [pc EXCEPT ![t] = IF @ = "exited" THEN "none" ELSE @]
            /\ bDelayCleaner' = IF workForServer THEN bDelayCleaner ELSE t
       ELSE /\ pc[t] = "exited"
            /\ pc' = [pc EXCEPT ![t] = "none"]
            /\ UNCHANGED <<detached, bDelayCleaner>>
    /\ aThreads' = aThreads \ {t}
    /\ nThreads' = nThreads - 1
    /\ UNCHANGED <<pool, qlWork, workForServer, bDone, work, refs,
                   nIdleThreads, stopping>>

StopScanned ==
    /\ stopPc = "scan"
    /\ aThreads = {}
    /\ stopPc' = "release"
    /\ UNCHANGED <<pool, aThreads, bDelayCleaner, qlWork, workForServer, bDone,
                   pc, detached, work, counters, stopper>>

(* MinkSocket_delete releases the pool it has stopped.                     *)
StopRelease ==
    /\ stopPc = "release"
    /\ stopPc' = "done"
    /\ stopper' = NoThread
    /\ ThreadPool_release
    /\ UNCHANGED <<aThreads, bDelayCleaner, workForServer, bDone, pc, detached,
                   nThreads, nIdleThreads>>

-----------------------------------------------------------------------------

(* The thread returns: its identifier is free when it was detached, and    *)
(* waits to be joined otherwise.                                           *)
Return(t) ==
    /\ pc' = [pc EXCEPT ![t] = IF t \in detached THEN "none" ELSE "exited"]
    /\ detached' = detached \ {t}

(* while (!me->bDone), read without qMtx.                                  *)
TestDone(t) ==
    /\ pc[t] = "top"
    /\ pc' = [pc EXCEPT ![t] = IF bDone THEN "bail" ELSE "lock"]
    /\ UNCHANGED <<pool, aThreads, bDelayCleaner, qlWork, workForServer, bDone,
                   detached, work, counters, stopping>>

TooManyIdle_late(idle) == idle > MIN_IDLE

TooManyIdle_early(idle) == idle + 1 >= MIN_IDLE

(* One more idle thread, next to an empty queue, is more than the reserve. *)
TooManyIdle(idle) == idle + 1 > MIN_IDLE

(* Inside qMtx, with idle threads counted: give up, take work, retire      *)
(* because enough threads are idle, or wait.                               *)
Serve(t, idle) ==
    /\ \/ /\ bDone
          /\ pc' = [pc EXCEPT ![t] = "bail"]
          /\ nIdleThreads' = idle
          /\ UNCHANGED <<qlWork, work, aThreads, nThreads>>
       \/ /\ ~bDone
          /\ qlWork # <<>>
          /\ pc' = [pc EXCEPT ![t] = "work"]
          /\ work' = [work EXCEPT ![Head(qlWork)] = "taken"]
          /\ qlWork' = Tail(qlWork)
          /\ nIdleThreads' = idle
          /\ UNCHANGED <<aThreads, nThreads>>
       \/ /\ ~bDone
          /\ qlWork = <<>>
          /\ TooManyIdle(idle)
          /\ pc' = [pc EXCEPT ![t] = "idleExit"]
          /\ aThreads' = aThreads \ {t}
          /\ nThreads' = nThreads - 1
          /\ nIdleThreads' = idle
          /\ UNCHANGED <<qlWork, work>>
       \/ /\ ~bDone
          /\ qlWork = <<>>
          /\ ~TooManyIdle(idle)
          /\ pc' = [pc EXCEPT ![t] = "wait"]
          /\ nIdleThreads' = idle + 1
          /\ UNCHANGED <<qlWork, work, aThreads, nThreads>>
    /\ UNCHANGED <<pool, refs, bDelayCleaner, workForServer, bDone, detached,
                   stopping>>

LockAndServe(t) == pc[t] = "lock" /\ Serve(t, nIdleThreads)

WakeAndServe_stillIdle(t) == pc[t] = "woken" /\ Serve(t, nIdleThreads)

WakeAndServe(t) == pc[t] = "woken" /\ Serve(t, nIdleThreads - 1)

(* vm_osal_cond_wait may return without a broadcast.                       *)
SpuriousWake(t) ==
    /\ pc[t] = "wait"
    /\ pc' = [pc EXCEPT ![t] = "woken"]
    /\ UNCHANGED <<pool, aThreads, bDelayCleaner, qlWork, workForServer, bDone,
                   detached, work, counters, stopping>>

(* workFunc returns; the thread goes back to its loop.                     *)
FinishWork(t) ==
    /\ pc[t] = "work"
    /\ stopper # t
    /\ pc' = [pc EXCEPT ![t] = "top"]
    /\ UNCHANGED <<pool, aThreads, bDelayCleaner, qlWork, workForServer, bDone,
                   detached, work, counters, stopping>>

(* The end of a thread that retired: workForServer is read, and in server  *)
(* mode the reference given up, after the mutex has been released.         *)
IdleExit(t) ==
    /\ pc[t] = "idleExit"
    /\ pc' = [pc EXCEPT ![t] = "none"]
    /\ IF workForServer
       THEN ThreadPool_release
       ELSE UNCHANGED <<pool, qlWork, work, refs>>
    /\ UNCHANGED <<aThreads, bDelayCleaner, workForServer, bDone, detached,
                   nThreads, nIdleThreads, stopping>>

Bail_noCleaner(t) ==
    /\ pc[t] = "bail"
    /\ Return(t)
    /\ IF workForServer
       THEN ThreadPool_release
       ELSE UNCHANGED <<pool, qlWork, work, refs>>
    /\ UNCHANGED <<aThreads, bDelayCleaner, workForServer, bDone, nThreads,
                   nIdleThreads, stopping>>

(* bail: a server thread gives up its reference; the thread that stopped   *)
(* its own client pool deletes it.                                         *)
Bail(t) ==
    /\ pc[t] = "bail"
    /\ Return(t)
    /\ IF workForServer
       THEN ThreadPool_release
       ELSE IF bDelayCleaner = t
            THEN ThreadPool_delete /\ UNCHANGED refs
            ELSE UNCHANGED <<pool, qlWork, work, refs>>
    /\ UNCHANGED <<aThreads, bDelayCleaner, workForServer, bDone, nThreads,
                   nIdleThreads, stopping>>

-----------------------------------------------------------------------------

Worker(t) ==
    \/ TestDone(t)
    \/ LockAndServe(t)
    \/ WakeAndServe(t)
    \/ FinishWork(t)
    \/ IdleExit(t)
    \/ Bail(t)

StopSteps ==
    \/ \E t \in Threads : StopScan(t)
    \/ StopScanned
    \/ StopRelease

Next ==
    \/ ThreadPool_new
    \/ \E p \in Threads \cup {Owner}, w \in Works : ThreadPool_queue(p, w)
    \/ \E p \in Threads \cup {Owner} : StopBegin(p)
    \/ StopSteps
    \/ \E t \in Threads : Worker(t) \/ SpuriousWake(t)

(* Threads are scheduled, a workFunc returns, and a ThreadPool_stop that   *)
(* was begun goes on; nobody has to queue or to stop.                      *)
Fairness ==
    /\ \A t \in Threads : WF_vars(Worker(t))
    /\ WF_vars(StopSteps)

Spec == Init /\ [][Next]_vars

FairSpec == Spec /\ Fairness

-----------------------------------------------------------------------------

(* Threads that are counted as idle, and threads that still run in the     *)
(* pool's code.                                                            *)
Idle == {t \in Threads : pc[t] \in {"wait", "woken"}}
Running == {t \in Threads : pc[t] \notin {"none", "exited"}}

(* nThreads and nIdleThreads, which decide when threads are added and when *)
(* they retire, always agree with the threads there are, and the pool      *)
(* holds one reference for its owner and one per running server thread.    *)
AccountingExact ==
    /\ nThreads = Cardinality(aThreads)
    /\ nIdleThreads = Cardinality(Idle)
    /\ pool = "live" =>
          refs = (IF stopPc = "done" THEN 0 ELSE 1) + Retained(Running)

(* Nobody touches a freed pool.  The one exception is a client thread that *)
(* retires: it reads workForServer after it has released qMtx              *)
(* (ThreadPool.c:121) and neither holds a reference nor is joined.         *)
NoUseAfterFree ==
    pool = "freed" =>
        /\ \A t \in Running : pc[t] = "idleExit" /\ ~workForServer
        /\ stopPc \notin {"scan", "release"}

(* Whichever of the stopping thread, the last server worker and the        *)
(* deferred cleaner comes last, exactly one of them frees the pool.        *)
FreedOnce == pool # "corrupt"

(* Which threads have a slot: every thread in the loop until it is joined  *)
(* or detached, and no thread that retired.                                *)
Recorded ==
    /\ \A t \in aThreads : pc[t] \notin {"none", "idleExit"} /\ t \notin detached
    /\ \A t \in Running : pc[t] # "idleExit" => t \in aThreads \cup detached
    /\ \A t \in Threads : pc[t] \in {"bail", "exited"} => bDone
    /\ \A t \in detached : pc[t] \notin {"none", "exited", "idleExit"}
    /\ ~bDone => detached = {}
    /\ ~workForServer => detached \subseteq {bDelayCleaner}

(* How far the one ThreadPool_stop is, and who it leaves the deletion to.  *)
StopOrder ==
    /\ bDone <=> stopPc # "idle"
    /\ stopPc \in {"idle", "done"} <=> stopper = NoThread
    /\ stopper \in Threads => pc[stopper] = "work"
    /\ stopPc \in {"release", "done"} => aThreads = {}
    /\ bDelayCleaner # NoThread =>
          /\ ~workForServer /\ bDone
          /\ stopPc # "done" => stopper = bDelayCleaner
    /\ ~bDone /\ pool # "live" =>
          /\ aThreads = {}
          /\ \A t \in Threads : pc[t] = "none"
    /\ bDone => pool # "unborn"

(* The inductive invariant: what is known of the pool in every state.      *)
PoolInv ==
    /\ TypeOK
    /\ AccountingExact
    /\ NoUseAfterFree
    /\ FreedOnce
    /\ Recorded
    /\ StopOrder

(* No wake-up is lost: while work is queued and the pool is not stopped,   *)
(* some thread is on its way to the queue.                                 *)
NoStrandedWork ==
    qlWork # <<>> /\ ~bDone =>
        \E t \in Threads : pc[t] \in {"top", "lock", "woken", "work"}

(* A pool that is not being stopped never shrinks below the reserve of     *)
(* MIN_IDLE threads.                                                       *)
ReserveKept ==
    [][ ~bDone /\ ~(aThreads \subseteq aThreads') =>
            Cardinality(aThreads') >= MIN_IDLE ]_vars

(* A queued work is taken by a thread, or freed with a stopped pool.       *)
QueuedWorkLeavesQueue ==
    \A w \in Works : work[w] = "queued" ~> work[w] # "queued"

(* ThreadPool_stop and the release after it end: the pool is freed and     *)
(* every thread has returned and been joined or detached, whoever stops.   *)
StopFreesEverything ==
    stopPc = "scan" ~> pool = "freed" /\ \A t \in Threads : pc[t] = "none"

(* Over time: retirement never takes the pool below its reserve, a queued  *)
(* work leaves the queue, and a stop that has begun frees the pool with    *)
(* every thread returned (ThreadPool.c thread_entrypoint, ThreadPool_stop).*)
PoolGoesOn == ReserveKept /\ QueuedWorkLeavesQueue /\ StopFreesEverything
=============================================================================
