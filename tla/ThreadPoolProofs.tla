-------------------------- MODULE ThreadPoolProofs --------------------------
(***************************************************************************)
(* Proofs about ThreadPool for every number of threads, every reserve and  *)
(* every limit: PoolInv is inductive, and the safety properties follow.    *)
(***************************************************************************)
EXTENDS ThreadPool, FiniteSetTheorems, TLAPS

(* A set of threads is finite and has a size.                              *)
LEMMA ThreadSets ==
    ASSUME NEW S \in SUBSET Threads
    PROVE  IsFiniteSet(S) /\ Cardinality(S) \in Nat
BY PoolAssumption, FS_Subset, FS_CardinalityType, Zenon

(* Taking one thread out of a set of threads.                              *)
LEMMA OneLess ==
    ASSUME NEW S \in SUBSET Threads, NEW t \in S
    PROVE  /\ Cardinality(S \ {t}) = Cardinality(S) - 1
           /\ Cardinality(S) \in Nat \ {0}
<1>1. IsFiniteSet(S) /\ Cardinality(S) \in Nat
  BY ThreadSets, Zenon
<1>2. Cardinality(S \ {t}) = Cardinality(S) - 1 /\ IsFiniteSet(S \ {t})
  BY <1>1, FS_RemoveElement, Zenon
<1>3. Cardinality(S) # 0
  BY <1>1, FS_EmptySet, Zenon
<1> QED
  BY <1>1, <1>2, <1>3, Zenon

(* Adding one thread to a set of threads.                                  *)
LEMMA OneMore ==
    ASSUME NEW S \in SUBSET Threads, NEW t \in Threads, t \notin S
    PROVE  Cardinality(S \cup {t}) = Cardinality(S) + 1
BY ThreadSets, FS_AddElement, Zenon

(* Adding a disjoint set of threads.                                       *)
LEMMA DisjointMore ==
    ASSUME NEW S \in SUBSET Threads, NEW T \in SUBSET Threads, S \cap T = {}
    PROVE  Cardinality(S \cup T) = Cardinality(S) + Cardinality(T)
<1>1. IsFiniteSet(S) /\ Cardinality(S) \in Nat
  BY ThreadSets, Zenon
<1>2. IsFiniteSet(T) /\ Cardinality(T) \in Nat
  BY ThreadSets, Zenon
<1>3. Cardinality(S \cup T) = Cardinality(S) + Cardinality(T) - Cardinality(S \cap T)
  BY <1>1, <1>2, FS_Union, Zenon
<1>4. Cardinality(S \cap T) = 0
  BY FS_EmptySet, Zenon
<1> QED
  BY <1>1, <1>2, <1>3, <1>4

(* A new pool counts no thread.                                            *)
LEMMA NoThreads == Cardinality({}) = 0
BY FS_EmptySet, Zenon

(* The invariant holds before the pool is made.                            *)
LEMMA InitInv == Init => PoolInv
<1> SUFFICES ASSUME Init PROVE PoolInv
  BY Zenon
<1>1. TypeOK
  <2>1. qlWork \in Seq(Works) /\ workForServer \in BOOLEAN
    BY DEF Init
  <2>2. pc \in [Threads -> Pcs] /\ stopper \in Threads \cup {Owner, NoThread}
    BY Zenon DEF Init, Pcs
  <2>3. work \in [Works -> {"new", "queued", "taken", "freed"}]
    BY Zenon DEF Init
  <2>4. nThreads \in 0..MAX_THREADS /\ nIdleThreads \in 0..MIN_IDLE /\ refs \in Nat
    BY PoolAssumption DEF Init
  <2> QED
    BY <2>1, <2>2, <2>3, <2>4, Zenon DEF Init, TypeOK
<1>2. Idle = {} /\ Running = {}
  BY Zenon DEF Init, Idle, Running
<1>3. AccountingExact
  BY <1>2, NoThreads, Zenon DEF Init, AccountingExact
<1> QED
  BY <1>1, <1>2, <1>3, PoolAssumption, Zenon
  DEF Init, PoolInv, NoUseAfterFree, FreedOnce, Recorded, StopOrder

(* Who calls into the pool finds it alive.                                 *)
LEMMA CallerFindsPool ==
    ASSUME PoolInv, NEW p \in Threads \cup {Owner}, Caller(p)
    PROVE  pool = "live"
<1>1. CASE p = Owner
  BY <1>1, PoolAssumption, Zenon DEF Caller
<1>2. CASE p \in Threads
  BY <1>2, PoolAssumption, Zenon
  DEF Caller, PoolInv, TypeOK, NoUseAfterFree, FreedOnce, StopOrder, Running
<1> QED
  BY <1>1, <1>2, Zenon

(* A broadcast changes neither who runs nor who is counted as idle.        *)
LEMMA BroadcastSame ==
    ASSUME pc \in [Threads -> Pcs], pc' = Broadcast(pc)
    PROVE  /\ Running' = Running
           /\ Idle' = Idle
           /\ pc' \in [Threads -> Pcs]
           /\ \A t \in Threads : pc[t] # "wait" => pc'[t] = pc[t]
           /\ \A t \in Threads : pc[t] = "wait" => pc'[t] = "woken"
BY Zenon DEF Broadcast, Running, Idle, Pcs

(* ThreadPool_new.                                                         *)
LEMMA NewInv == PoolInv /\ ThreadPool_new => PoolInv'
<1> SUFFICES ASSUME PoolInv, ThreadPool_new PROVE PoolInv'
  BY Zenon
<1> USE DEF PoolInv
<1>1. /\ aThreads = {} /\ detached = {} /\ ~bDone /\ nThreads = 0
      /\ \A t \in Threads : pc[t] = "none"
      /\ stopPc = "idle" /\ stopper = NoThread /\ bDelayCleaner = NoThread
  BY NoThreads, Zenon DEF ThreadPool_new, TypeOK, Recorded, StopOrder, AccountingExact
<1>2. PICK S \in Created(MIN_IDLE) :
        /\ CreateThreads(S, pc)
        /\ IF S = {} THEN pool' = "freed" /\ refs' = 0
                     ELSE pool' = "live" /\ refs' = 1 + Retained(S)
  BY Zenon DEF ThreadPool_new
<1>3. S \in SUBSET Threads /\ Cardinality(S) <= MAX_THREADS /\ Cardinality(S) \in Nat
  BY <1>1, <1>2, NoThreads, ThreadSets, PoolAssumption DEF Created
<1>4. /\ aThreads' = S /\ Running' = S /\ Idle' = {} /\ Idle = {}
      /\ nThreads' = Cardinality(S)
      /\ pc' \in [Threads -> Pcs]
      /\ \A t \in Threads : pc'[t] = IF t \in S THEN "top" ELSE "none"
  BY <1>1, <1>2, <1>3 DEF CreateThreads, Running, Idle, Pcs
<1>5. /\ bDelayCleaner' = bDelayCleaner /\ qlWork' = qlWork /\ work' = work
      /\ workForServer' = workForServer /\ bDone' = bDone
      /\ nIdleThreads' = nIdleThreads /\ detached' = detached
      /\ stopper' = stopper /\ stopPc' = stopPc
  BY Zenon DEF ThreadPool_new, stopping
<1>6. Retained(S)' = Retained(S) /\ Retained(S) \in Nat
  BY <1>3, <1>5, Zenon DEF Retained
<1>7. TypeOK'
  BY <1>2, <1>3, <1>4, <1>5, <1>6 DEF TypeOK
<1>8. AccountingExact'
  BY <1>2, <1>3, <1>4, <1>5, <1>6, <1>1, Zenon DEF AccountingExact
<1>9. NoUseAfterFree' /\ FreedOnce' /\ Recorded' /\ StopOrder'
  BY <1>1, <1>2, <1>3, <1>4, <1>5, Zenon
  DEF NoUseAfterFree, FreedOnce, Recorded, StopOrder
<1> QED
  BY <1>7, <1>8, <1>9, Zenon

(* ThreadPool_queue, with and without a new thread.                        *)
LEMMA QueueInv ==
    ASSUME PoolInv, NEW p \in Threads \cup {Owner}, NEW w \in Works,
           ThreadPool_queue(p, w)
    PROVE  PoolInv'
<1> USE DEF PoolInv
<1>1. pool = "live"
  BY CallerFindsPool, Zenon DEF ThreadPool_queue
<1>2. /\ pool' = pool /\ bDelayCleaner' = bDelayCleaner
      /\ workForServer' = workForServer /\ bDone' = bDone
      /\ nIdleThreads' = nIdleThreads /\ detached' = detached
      /\ stopper' = stopper /\ stopPc' = stopPc
  BY Zenon DEF ThreadPool_queue, stopping
<1>3. CASE bDone
  <2>1. /\ pc' = Broadcast(pc) /\ work' = [work EXCEPT ![w] = "freed"]
        /\ qlWork' = qlWork /\ aThreads' = aThreads
        /\ nThreads' = nThreads /\ refs' = refs
    BY <1>3, Zenon DEF ThreadPool_queue
  <2>2. /\ Running' = Running /\ Idle' = Idle /\ pc' \in [Threads -> Pcs]
        /\ \A t \in Threads : pc[t] # "wait" => pc'[t] = pc[t]
        /\ \A t \in Threads : pc[t] = "wait" => pc'[t] = "woken"
    BY <2>1, BroadcastSame, Zenon DEF TypeOK
  <2>3. TypeOK'
    BY <1>2, <2>1, <2>2, Zenon DEF TypeOK
  <2>4. AccountingExact'
    BY <1>2, <2>1, <2>2, Zenon DEF AccountingExact, Retained
  <2>5. NoUseAfterFree' /\ FreedOnce' /\ StopOrder'
    BY <1>1, <1>2, <2>1, <2>2, PoolAssumption, Zenon
    DEF TypeOK, NoUseAfterFree, FreedOnce, StopOrder
  <2>6. Recorded'
    BY <1>2, <2>1, <2>2, Zenon DEF TypeOK, Recorded, Running
  <2> QED
    BY <2>3, <2>4, <2>5, <2>6, Zenon
<1>4. CASE ~bDone
  <2>1. PICK S \in (IF Len(qlWork') > nIdleThreads THEN Created(MIN_IDLE) ELSE {{}}) :
          /\ CreateThreads(S, Broadcast(pc))
          /\ refs' = refs + Retained(S)
    BY <1>4, Zenon DEF ThreadPool_queue
  <2>2. /\ qlWork' = Append(qlWork, w) /\ work' = [work EXCEPT ![w] = "queued"]
    BY <1>4, Zenon DEF ThreadPool_queue
  <2>3. /\ S \in SUBSET Threads /\ Cardinality(S) \in Nat
        /\ \A t \in S : pc[t] = "none"
        /\ Cardinality(S) <= MAX_THREADS - Cardinality(aThreads)
    <3>1. CASE S = {}
      BY <3>1, NoThreads, PoolAssumption DEF AccountingExact, TypeOK
    <3>2. CASE S \in Created(MIN_IDLE)
      BY <3>2, ThreadSets, Zenon DEF Created
    <3> QED
      BY <2>1, <3>1, <3>2, Zenon
  <2>4. /\ aThreads' = aThreads \cup S /\ nThreads' = nThreads + Cardinality(S)
        /\ pc' \in [Threads -> Pcs]
        /\ \A t \in S : pc'[t] = "top"
        /\ \A t \in Threads \ S : pc'[t] = IF pc[t] = "wait" THEN "woken" ELSE pc[t]
    BY <2>1, <2>3, Zenon DEF CreateThreads, Broadcast, TypeOK, Pcs
  <2>5. Running' = Running \cup S /\ Running \cap S = {} /\ Idle' = Idle
    BY <2>3, <2>4, Zenon DEF Running, Idle
  <2>6. aThreads \cap S = {}
    BY <2>3, Zenon DEF Recorded
  <2>7. Cardinality(aThreads') = Cardinality(aThreads) + Cardinality(S)
    BY <2>3, <2>4, <2>6, DisjointMore, Zenon DEF TypeOK
  <2>8. Cardinality(Running') = Cardinality(Running) + Cardinality(S)
    <3>1. Running \in SUBSET Threads
      BY Zenon DEF Running
    <3> QED
      BY <2>3, <2>5, <3>1, DisjointMore, Zenon
  <2>9. TypeOK'
    <3>1. qlWork' \in Seq(Works) /\ work' \in [Works -> {"new", "queued", "taken", "freed"}]
      BY <2>2 DEF TypeOK
    <3>2. refs' \in Nat
      BY <2>1, <2>3 DEF TypeOK, Retained
    <3>3. nThreads' \in 0..MAX_THREADS
      BY <2>3, <2>4, PoolAssumption DEF TypeOK, AccountingExact
    <3> QED
      BY <1>2, <2>3, <2>4, <3>1, <3>2, <3>3, Zenon DEF TypeOK
  <2>10. AccountingExact'
    <3>1. Cardinality(Running) \in Nat
      BY ThreadSets, Zenon DEF Running
    <3> QED
      BY <1>1, <1>2, <2>1, <2>3, <2>4, <2>5, <2>7, <2>8, <3>1
      DEF AccountingExact, Retained, TypeOK
  <2>11. NoUseAfterFree' /\ FreedOnce'
    BY <1>1, <1>2, Zenon DEF NoUseAfterFree, FreedOnce
  <2>12. Recorded'
    BY <1>2, <1>4, <2>3, <2>4, <2>5, Zenon DEF TypeOK, Recorded, Running
  <2>13. StopOrder'
    BY <1>1, <1>2, <1>4, <2>3, <2>4, PoolAssumption, Zenon DEF TypeOK, StopOrder
  <2> QED
    BY <2>9, <2>10, <2>11, <2>12, <2>13, Zenon
<1> QED
  BY <1>3, <1>4, Zenon

(* ThreadPool_stop sets the flag and wakes the threads.                    *)
LEMMA StopBeginInv ==
    ASSUME PoolInv, NEW p \in Threads \cup {Owner}, StopBegin(p)
    PROVE  PoolInv'
<1> USE DEF PoolInv
<1>1. pool = "live"
  BY CallerFindsPool, Zenon DEF StopBegin
<1>2. /\ Running' = Running /\ Idle' = Idle /\ pc' \in [Threads -> Pcs]
      /\ \A t \in Threads : pc[t] # "wait" => pc'[t] = pc[t]
      /\ \A t \in Threads : pc[t] = "wait" => pc'[t] = "woken"
  BY BroadcastSame, Zenon DEF StopBegin, TypeOK
<1>3. TypeOK'
  BY <1>2, Zenon DEF StopBegin, TypeOK, counters
<1>4. AccountingExact'
  BY <1>2, Zenon DEF StopBegin, AccountingExact, Retained, counters
<1>5. NoUseAfterFree' /\ FreedOnce'
  BY <1>1, Zenon DEF StopBegin, NoUseAfterFree, FreedOnce
<1>6. Recorded'
  BY <1>2, Zenon DEF StopBegin, TypeOK, Recorded, Running
<1>7. StopOrder'
  BY <1>1, <1>2, PoolAssumption, Zenon DEF StopBegin, Caller, TypeOK, StopOrder
<1> QED
  BY <1>3, <1>4, <1>5, <1>6, <1>7, Zenon

(* ThreadPool_stop turns to one of the threads of the pool.                *)
LEMMA StopScanInv ==
    ASSUME PoolInv, NEW t \in Threads, StopScan(t)
    PROVE  PoolInv'
<1> USE DEF PoolInv
<1>1. pool = "live" /\ bDone /\ stopPc = "scan" /\ t \in aThreads
  BY Zenon DEF StopScan, StopOrder, NoUseAfterFree, FreedOnce, TypeOK
<1>2. /\ pool' = pool /\ qlWork' = qlWork /\ workForServer' = workForServer
      /\ bDone' = bDone /\ work' = work /\ refs' = refs
      /\ nIdleThreads' = nIdleThreads /\ stopper' = stopper /\ stopPc' = stopPc
      /\ aThreads' = aThreads \ {t} /\ nThreads' = nThreads - 1
  BY Zenon DEF StopScan, stopping
<1>3. /\ pc' \in [Threads -> Pcs]
      /\ \A u \in Threads \ {t} : pc'[u] = pc[u]
      /\ pc'[t] = IF pc[t] = "exited" THEN "none" ELSE pc[t]
  BY Zenon DEF StopScan, TypeOK, Pcs
<1>4. Running' = Running /\ Idle' = Idle
  BY <1>3, Zenon DEF Running, Idle
<1>5. /\ Cardinality(aThreads') = Cardinality(aThreads) - 1
      /\ Cardinality(aThreads) \in Nat \ {0}
  BY <1>1, <1>2, OneLess, Zenon DEF TypeOK
<1>6. TypeOK'
  <2>1. detached' \in SUBSET Threads /\ bDelayCleaner' \in Threads \cup {NoThread}
    BY Zenon DEF StopScan, TypeOK
  <2>2. nThreads' \in 0..MAX_THREADS
    BY <1>2, <1>5, PoolAssumption DEF TypeOK, AccountingExact
  <2> QED
    BY <1>2, <1>3, <2>1, <2>2, Zenon DEF TypeOK
<1>7. AccountingExact'
  BY <1>2, <1>4, <1>5, Zenon DEF AccountingExact, Retained
<1>8. NoUseAfterFree' /\ FreedOnce'
  BY <1>1, <1>2, Zenon DEF NoUseAfterFree, FreedOnce
<1>9. Recorded'
  <2>1. CASE workForServer \/ t = stopper
    <3>1. /\ detached' = IF pc[t] = "exited" THEN detached ELSE detached \cup {t}
          /\ bDelayCleaner' = IF workForServer THEN bDelayCleaner ELSE t
      BY <2>1, Zenon DEF StopScan
    <3>2. ~workForServer => detached \subseteq {t}
      BY <1>1, <2>1, PoolAssumption, Zenon DEF TypeOK, Recorded, StopOrder
    <3> QED
      BY <1>1, <1>2, <1>3, <1>4, <3>1, <3>2, Zenon DEF TypeOK, Recorded, Running
  <2>2. CASE ~(workForServer \/ t = stopper)
    <3>1. pc[t] = "exited" /\ detached' = detached /\ bDelayCleaner' = bDelayCleaner
      BY <2>2, Zenon DEF StopScan
    <3> QED
      BY <1>1, <1>2, <1>3, <1>4, <3>1, Zenon DEF TypeOK, Recorded, Running
  <2> QED
    BY <2>1, <2>2, Zenon
<1>10. StopOrder'
  <2>1. CASE workForServer \/ t = stopper
    <3>1. bDelayCleaner' = IF workForServer THEN bDelayCleaner ELSE t
      BY <2>1, Zenon DEF StopScan
    <3> QED
      BY <1>1, <1>2, <1>3, <2>1, <3>1, PoolAssumption, Zenon DEF TypeOK, StopOrder
  <2>2. CASE ~(workForServer \/ t = stopper)
    <3>1. bDelayCleaner' = bDelayCleaner
      BY <2>2, Zenon DEF StopScan
    <3> QED
      BY <1>1, <1>2, <1>3, <3>1, PoolAssumption, Zenon DEF TypeOK, StopOrder
  <2> QED
    BY <2>1, <2>2, Zenon
<1> QED
  BY <1>6, <1>7, <1>8, <1>9, <1>10, Zenon

(* ThreadPool_stop has been through all threads.                           *)
LEMMA StopScannedInv == PoolInv /\ StopScanned => PoolInv'
<1> SUFFICES ASSUME PoolInv, StopScanned PROVE PoolInv'
  BY Zenon
<1> USE DEF PoolInv
<1>1. Running' = Running /\ Idle' = Idle
  BY Zenon DEF StopScanned, Running, Idle
<1>2. TypeOK' /\ FreedOnce'
  BY Zenon DEF StopScanned, TypeOK, FreedOnce, counters
<1>3. AccountingExact'
  BY <1>1, Zenon DEF StopScanned, AccountingExact, Retained, counters
<1>4. NoUseAfterFree' /\ Recorded' /\ StopOrder'
  BY <1>1, Zenon DEF StopScanned, NoUseAfterFree, Recorded, StopOrder
<1> QED
  BY <1>2, <1>3, <1>4, Zenon

(* What ThreadPool_release does to the pool's own fields.                  *)
LEMMA ReleaseEffect ==
    ASSUME TypeOK, pool = "live", refs # 0, ThreadPool_release
    PROVE  /\ refs' = refs - 1 /\ refs' \in Nat
           /\ qlWork' \in Seq(Works)
           /\ work' \in [Works -> {"new", "queued", "taken", "freed"}]
           /\ pool' = IF refs' = 0 /\ bDelayCleaner = NoThread
                      THEN "freed" ELSE "live"
<1>1. refs' = refs - 1 /\ refs' \in Nat
  BY DEF ThreadPool_release, TypeOK
<1>2. CASE refs' = 0 /\ bDelayCleaner = NoThread
  <2>1. /\ pool' = "freed" /\ qlWork' = <<>>
        /\ work' = [w \in Works |-> IF work[w] = "queued" THEN "freed" ELSE work[w]]
    BY <1>2, Zenon DEF ThreadPool_release, ThreadPool_delete
  <2>2. qlWork' \in Seq(Works)
    BY <2>1
  <2>3. work' \in [Works -> {"new", "queued", "taken", "freed"}]
    BY <2>1, Zenon DEF TypeOK
  <2> QED
    BY <1>1, <1>2, <2>1, <2>2, <2>3, Zenon
<1>3. CASE ~(refs' = 0 /\ bDelayCleaner = NoThread)
  BY <1>1, <1>3, Zenon DEF ThreadPool_release, TypeOK
<1> QED
  BY <1>1, <1>2, <1>3, Zenon

(* The end of ThreadPool_stop, once no thread is left.                     *)
LEMMA StopReleaseInv == PoolInv /\ StopRelease => PoolInv'
<1> SUFFICES ASSUME PoolInv, StopRelease PROVE PoolInv'
  OBVIOUS
<1> USE DEF PoolInv
<1>1. pool = "live" /\ bDone /\ stopPc = "release" /\ aThreads = {}
  BY Zenon DEF StopRelease, StopOrder, NoUseAfterFree, FreedOnce, TypeOK
<1>2. /\ aThreads' = aThreads /\ bDelayCleaner' = bDelayCleaner
      /\ workForServer' = workForServer /\ bDone' = bDone /\ pc' = pc
      /\ detached' = detached /\ nThreads' = nThreads
      /\ nIdleThreads' = nIdleThreads
      /\ stopPc' = "done" /\ stopper' = NoThread
  BY Zenon DEF StopRelease
<1>3. Running' = Running /\ Idle' = Idle /\ Running \in SUBSET Threads
  BY <1>2, Zenon DEF Running, Idle
<1>4. Cardinality(Running) \in Nat /\ refs = 1 + Retained(Running) /\ refs # 0
  BY <1>1, <1>3, ThreadSets DEF AccountingExact, Retained
<1>5. /\ refs' = refs - 1 /\ refs' \in Nat /\ qlWork' \in Seq(Works)
      /\ work' \in [Works -> {"new", "queued", "taken", "freed"}]
      /\ pool' = IF refs' = 0 /\ bDelayCleaner = NoThread THEN "freed" ELSE "live"
  BY <1>1, <1>4, ReleaseEffect, Zenon DEF StopRelease
<1>6. TypeOK'
  BY <1>2, <1>5, Zenon DEF TypeOK
<1>7. AccountingExact'
  BY <1>2, <1>3, <1>4, <1>5 DEF AccountingExact, Retained
<1>8. NoUseAfterFree'
  <2> SUFFICES ASSUME pool' = "freed", NEW t \in Running
               PROVE  pc[t] = "idleExit" /\ ~workForServer
    BY <1>2, <1>3, Zenon DEF NoUseAfterFree
  <2>1. refs' = 0 /\ bDelayCleaner = NoThread
    BY <1>5, Zenon
  <2>2. ~workForServer
    <3>1. Cardinality(Running) # 0
      BY <1>3, OneLess, Zenon
    <3> QED
      BY <1>4, <1>5, <2>1, <3>1 DEF Retained
  <2>3. pc[t] # "idleExit" => t \in {bDelayCleaner}
    BY <1>1, <2>2, Zenon DEF Recorded
  <2> QED
    BY <2>1, <2>2, <2>3, PoolAssumption, Zenon DEF Running
<1>9. FreedOnce'
  BY <1>5, Zenon DEF FreedOnce
<1>10. Recorded'
  BY <1>2, <1>3, Zenon DEF Recorded
<1>11. StopOrder'
  BY <1>1, <1>2, <1>5, PoolAssumption, Zenon DEF StopOrder
<1> QED
  BY <1>6, <1>7, <1>8, <1>9, <1>10, <1>11, Zenon

(* A thread tests bDone at the top of its loop.                            *)
LEMMA TestDoneInv ==
    ASSUME PoolInv, NEW t \in Threads, TestDone(t)
    PROVE  PoolInv'
<1> USE DEF PoolInv
<1>1. /\ pc' \in [Threads -> Pcs] /\ pc[t] = "top"
      /\ \A u \in Threads \ {t} : pc'[u] = pc[u]
      /\ pc'[t] = IF bDone THEN "bail" ELSE "lock"
  BY Zenon DEF TestDone, TypeOK, Pcs
<1>2. Running' = Running /\ Idle' = Idle
  BY <1>1, Zenon DEF Running, Idle
<1>3. TypeOK' /\ FreedOnce'
  BY <1>1, Zenon DEF TestDone, TypeOK, FreedOnce, counters, stopping
<1>4. AccountingExact'
  BY <1>2, Zenon DEF TestDone, AccountingExact, Retained, counters, stopping
<1>5. NoUseAfterFree'
  BY <1>1, <1>2, Zenon DEF TestDone, NoUseAfterFree, Running, stopping
<1>6. Recorded'
  BY <1>1, <1>2, Zenon DEF TestDone, TypeOK, Recorded, Running
<1>7. StopOrder'
  BY <1>1, Zenon DEF TestDone, TypeOK, StopOrder, stopping
<1> QED
  BY <1>3, <1>4, <1>5, <1>6, <1>7, Zenon

(* The four outcomes of the critical section, for a thread that has just   *)
(* locked qMtx or come back from vm_osal_cond_wait: idle is the number of  *)
(* the other idle threads.                                                 *)
LEMMA ServeInv ==
    ASSUME PoolInv, NEW t \in Threads, NEW idle, pc[t] \in {"lock", "woken"},
           idle = Cardinality(Idle \ {t}), Serve(t, idle)
    PROVE  PoolInv'
<1> USE DEF PoolInv
<1>1. /\ pool' = pool /\ refs' = refs /\ bDelayCleaner' = bDelayCleaner
      /\ workForServer' = workForServer /\ bDone' = bDone
      /\ detached' = detached /\ stopper' = stopper /\ stopPc' = stopPc
  BY Zenon DEF Serve, stopping
<1>2. /\ pool = "live" /\ (~bDone => t \in aThreads) /\ t \in Running
      /\ t # stopper
  BY Zenon DEF TypeOK, NoUseAfterFree, FreedOnce, Recorded, StopOrder, Running
<1>3. /\ idle \in Nat /\ idle <= MIN_IDLE
      /\ Idle \in SUBSET Threads /\ Idle \ {t} \in SUBSET Threads
  <2>1. Idle \in SUBSET Threads /\ Idle \ {t} \in SUBSET Threads
    BY Zenon DEF Idle
  <2>2. Cardinality(Idle \ {t}) \in Nat /\ Cardinality(Idle) \in Nat
    BY <2>1, ThreadSets, Zenon
  <2>3. Cardinality(Idle \ {t}) <= Cardinality(Idle)
    <3>1. CASE t \in Idle
      BY <2>1, <2>2, <3>1, OneLess
    <3>2. CASE t \notin Idle
      <4>1. Idle \ {t} = Idle
        BY <3>2, Zenon
      <4> QED
        BY <2>2, <4>1
    <3> QED
      BY <3>1, <3>2, Zenon
  <2> QED
    BY <2>1, <2>2, <2>3, PoolAssumption DEF AccountingExact, TypeOK
<1>4. ASSUME NEW v \in {"bail", "work", "idleExit"}, pc' = [pc EXCEPT ![t] = v]
      PROVE  Idle' = Idle \ {t} /\ Running' = Running /\ pc' \in [Threads -> Pcs]
  BY <1>2, <1>4, Zenon DEF Idle, Running, TypeOK, Pcs
<1>5. CASE /\ bDone
           /\ pc' = [pc EXCEPT ![t] = "bail"]
           /\ nIdleThreads' = idle
           /\ UNCHANGED <<qlWork, work, aThreads, nThreads>>
  <2>1. Idle' = Idle \ {t} /\ Running' = Running /\ pc' \in [Threads -> Pcs]
    BY <1>4, <1>5, Zenon
  <2>2. TypeOK'
    BY <1>1, <1>3, <1>5, <2>1, PoolAssumption DEF TypeOK
  <2>3. AccountingExact'
    BY <1>1, <1>5, <2>1, Zenon DEF AccountingExact, Retained
  <2>4. NoUseAfterFree' /\ FreedOnce'
    BY <1>1, <1>2, Zenon DEF NoUseAfterFree, FreedOnce
  <2>5. Recorded'
    BY <1>1, <1>2, <1>5, <2>1, Zenon DEF TypeOK, Recorded, Running
  <2>6. StopOrder'
    BY <1>1, <1>2, <1>5, Zenon DEF TypeOK, StopOrder
  <2> QED
    BY <2>2, <2>3, <2>4, <2>5, <2>6, Zenon
<1>6. CASE /\ ~bDone
           /\ qlWork # <<>>
           /\ pc' = [pc EXCEPT ![t] = "work"]
           /\ work' = [work EXCEPT ![Head(qlWork)] = "taken"]
           /\ qlWork' = Tail(qlWork)
           /\ nIdleThreads' = idle
           /\ UNCHANGED <<aThreads, nThreads>>
  <2>1. Idle' = Idle \ {t} /\ Running' = Running /\ pc' \in [Threads -> Pcs]
    BY <1>4, <1>6, Zenon
  <2>2. TypeOK'
    <3>1. qlWork' \in Seq(Works)
      BY <1>6 DEF TypeOK
    <3>2. work' \in [Works -> {"new", "queued", "taken", "freed"}]
      BY <1>6, Zenon DEF TypeOK
    <3> QED
      BY <1>1, <1>3, <1>6, <2>1, <3>1, <3>2, PoolAssumption DEF TypeOK
  <2>3. AccountingExact'
    BY <1>1, <1>6, <2>1, Zenon DEF AccountingExact, Retained
  <2>4. NoUseAfterFree' /\ FreedOnce'
    BY <1>1, <1>2 DEF NoUseAfterFree, FreedOnce
  <2>5. Recorded'
    BY <1>1, <1>2, <1>6, <2>1, Zenon DEF TypeOK, Recorded, Running
  <2>6. StopOrder'
    BY <1>1, <1>2, <1>6, Zenon DEF TypeOK, StopOrder
  <2> QED
    BY <2>2, <2>3, <2>4, <2>5, <2>6
<1>7. CASE /\ ~bDone
           /\ pc' = [pc EXCEPT ![t] = "idleExit"]
           /\ aThreads' = aThreads \ {t}
           /\ nThreads' = nThreads - 1
           /\ nIdleThreads' = idle
           /\ UNCHANGED <<qlWork, work>>
  <2>1. Idle' = Idle \ {t} /\ Running' = Running /\ pc' \in [Threads -> Pcs]
    BY <1>4, <1>7, Zenon
  <2>2. /\ Cardinality(aThreads') = Cardinality(aThreads) - 1
        /\ Cardinality(aThreads) \in Nat \ {0}
    BY <1>2, <1>7, OneLess, Zenon DEF TypeOK
  <2>3. TypeOK'
    <3>1. nThreads' \in 0..MAX_THREADS
      BY <1>7, <2>2, PoolAssumption DEF TypeOK, AccountingExact
    <3> QED
      BY <1>1, <1>3, <1>7, <2>1, <3>1, PoolAssumption DEF TypeOK
  <2>4. AccountingExact'
    BY <1>1, <1>7, <2>1, <2>2, Zenon DEF AccountingExact, Retained
  <2>5. NoUseAfterFree' /\ FreedOnce'
    BY <1>1, <1>2, Zenon DEF NoUseAfterFree, FreedOnce
  <2>6. Recorded'
    BY <1>1, <1>2, <1>7, <2>1, Zenon DEF TypeOK, Recorded, Running
  <2>7. StopOrder'
    BY <1>1, <1>2, <1>7, Zenon DEF TypeOK, StopOrder
  <2> QED
    BY <2>3, <2>4, <2>5, <2>6, <2>7, Zenon
<1>8. CASE /\ ~bDone
           /\ ~TooManyIdle(idle)
           /\ pc' = [pc EXCEPT ![t] = "wait"]
           /\ nIdleThreads' = idle + 1
           /\ UNCHANGED <<qlWork, work, aThreads, nThreads>>
  <2>1. /\ Idle' = (Idle \ {t}) \cup {t} /\ Running' = Running
        /\ pc' \in [Threads -> Pcs]
    BY <1>2, <1>8, Zenon DEF Idle, Running, TypeOK, Pcs
  <2>2. Cardinality(Idle') = idle + 1
    BY <1>3, <2>1, OneMore, Zenon
  <2>3. TypeOK'
    BY <1>1, <1>3, <1>8, <2>1, PoolAssumption DEF TypeOK, TooManyIdle
  <2>4. AccountingExact'
    BY <1>1, <1>8, <2>1, <2>2, Zenon DEF AccountingExact, Retained
  <2>5. NoUseAfterFree' /\ FreedOnce'
    BY <1>1, <1>2 DEF NoUseAfterFree, FreedOnce
  <2>6. Recorded'
    BY <1>1, <1>2, <1>8, <2>1, Zenon DEF TypeOK, Recorded, Running
  <2>7. StopOrder'
    BY <1>1, <1>2, <1>8, Zenon DEF TypeOK, StopOrder
  <2> QED
    BY <2>3, <2>4, <2>5, <2>6, <2>7
<1> QED
  BY <1>5, <1>6, <1>7, <1>8, Zenon DEF Serve

(* A thread that locked or woke passes ServeInv the right count.           *)
LEMMA LockWakeInv ==
    ASSUME PoolInv, NEW t \in Threads, LockAndServe(t) \/ WakeAndServe(t)
    PROVE  PoolInv'
<1>1. CASE LockAndServe(t)
  <2>1. Idle \ {t} = Idle
    BY <1>1, Zenon DEF LockAndServe, Idle
  <2>2. nIdleThreads = Cardinality(Idle \ {t})
    BY <2>1, Zenon DEF PoolInv, AccountingExact
  <2> QED
    BY <1>1, <2>2, ServeInv DEF LockAndServe
<1>2. CASE WakeAndServe(t)
  <2>1. t \in Idle /\ Idle \in SUBSET Threads
    BY <1>2, Zenon DEF WakeAndServe, Idle
  <2>2. nIdleThreads - 1 = Cardinality(Idle \ {t})
    BY <2>1, OneLess, Zenon DEF PoolInv, AccountingExact
  <2> QED
    BY <1>2, <2>2, ServeInv DEF WakeAndServe
<1> QED
  BY <1>1, <1>2, Zenon

(* A wait that returns without a signal.                                   *)
LEMMA SpuriousWakeInv ==
    ASSUME PoolInv, NEW t \in Threads, SpuriousWake(t)
    PROVE  PoolInv'
<1> USE DEF PoolInv
<1>1. /\ pc' \in [Threads -> Pcs] /\ pc[t] = "wait" /\ pc'[t] = "woken"
      /\ \A u \in Threads \ {t} : pc'[u] = pc[u]
  BY Zenon DEF SpuriousWake, TypeOK, Pcs
<1>2. Running' = Running /\ Idle' = Idle
  BY <1>1, Zenon DEF Running, Idle
<1>3. TypeOK' /\ FreedOnce'
  BY <1>1, Zenon DEF SpuriousWake, TypeOK, FreedOnce, counters, stopping
<1>4. AccountingExact'
  BY <1>2, Zenon DEF SpuriousWake, AccountingExact, Retained, counters, stopping
<1>5. NoUseAfterFree'
  BY <1>1, <1>2, Zenon DEF SpuriousWake, NoUseAfterFree, Running, stopping
<1>6. Recorded'
  BY <1>1, <1>2, Zenon DEF SpuriousWake, TypeOK, Recorded, Running
<1>7. StopOrder'
  BY <1>1, Zenon DEF SpuriousWake, TypeOK, StopOrder, stopping
<1> QED
  BY <1>3, <1>4, <1>5, <1>6, <1>7, Zenon

(* A thread has run its work.                                              *)
LEMMA FinishWorkInv ==
    ASSUME PoolInv, NEW t \in Threads, FinishWork(t)
    PROVE  PoolInv'
<1> USE DEF PoolInv
<1>1. /\ pc' \in [Threads -> Pcs] /\ pc[t] = "work" /\ pc'[t] = "top"
      /\ \A u \in Threads \ {t} : pc'[u] = pc[u]
      /\ stopper # t
  BY Zenon DEF FinishWork, TypeOK, Pcs
<1>2. Running' = Running /\ Idle' = Idle
  BY <1>1, Zenon DEF Running, Idle
<1>3. TypeOK' /\ FreedOnce'
  BY <1>1, Zenon DEF FinishWork, TypeOK, FreedOnce, counters, stopping
<1>4. AccountingExact'
  BY <1>2, Zenon DEF FinishWork, AccountingExact, Retained, counters, stopping
<1>5. NoUseAfterFree'
  BY <1>1, <1>2, Zenon DEF FinishWork, NoUseAfterFree, Running, stopping
<1>6. Recorded'
  BY <1>1, <1>2, Zenon DEF FinishWork, TypeOK, Recorded, Running
<1>7. StopOrder'
  BY <1>1, Zenon DEF FinishWork, TypeOK, StopOrder, stopping
<1> QED
  BY <1>3, <1>4, <1>5, <1>6, <1>7

(* A thread ends that was idle for too long.                               *)
LEMMA IdleExitInv ==
    ASSUME PoolInv, NEW t \in Threads, IdleExit(t)
    PROVE  PoolInv'
<1> USE DEF PoolInv
<1>1. /\ pc' \in [Threads -> Pcs] /\ pc[t] = "idleExit" /\ pc'[t] = "none"
      /\ \A u \in Threads \ {t} : pc'[u] = pc[u]
  BY Zenon DEF IdleExit, TypeOK, Pcs
<1>2. /\ aThreads' = aThreads /\ bDelayCleaner' = bDelayCleaner
      /\ workForServer' = workForServer /\ bDone' = bDone
      /\ detached' = detached /\ nThreads' = nThreads
      /\ nIdleThreads' = nIdleThreads
      /\ stopper' = stopper /\ stopPc' = stopPc
  BY Zenon DEF IdleExit, stopping
<1>3. t \in Running /\ Running' = Running \ {t} /\ Idle' = Idle /\ Running \in SUBSET Threads
  BY <1>1, Zenon DEF Running, Idle
<1>4. /\ Cardinality(Running') = Cardinality(Running) - 1
      /\ Cardinality(Running) \in Nat \ {0}
  BY <1>3, OneLess, Zenon
<1>5. t \notin detached /\ t \notin aThreads /\ stopper # t
  BY <1>1, Zenon DEF Recorded, StopOrder
<1>6. pool # "unborn" /\ (~bDone => pool = "live")
  BY <1>1, Zenon DEF StopOrder, TypeOK
<1>7. Recorded'
  BY <1>1, <1>2, <1>3, <1>5, Zenon DEF TypeOK, Recorded, Running
<1>8. CASE workForServer
  <2>1. pool = "live" /\ refs # 0
    BY <1>3, <1>4, <1>6, <1>8 DEF NoUseAfterFree, FreedOnce, TypeOK, AccountingExact, Retained
  <2>2. /\ refs' = refs - 1 /\ refs' \in Nat /\ qlWork' \in Seq(Works)
        /\ work' \in [Works -> {"new", "queued", "taken", "freed"}]
        /\ pool' = IF refs' = 0 /\ bDelayCleaner = NoThread THEN "freed" ELSE "live"
    BY <1>8, <2>1, ReleaseEffect, Zenon DEF IdleExit
  <2>3. TypeOK'
    BY <1>1, <1>2, <2>2, Zenon DEF TypeOK
  <2>4. AccountingExact'
    BY <1>2, <1>3, <1>4, <1>8, <2>1, <2>2 DEF AccountingExact, Retained
  <2>5. FreedOnce'
    BY <2>2, Zenon DEF FreedOnce
  <2>6. pool' = "freed" => Running' = {} /\ stopPc = "done"
    <3> SUFFICES ASSUME refs' = 0 PROVE Running' = {} /\ stopPc = "done"
      BY <2>2, Zenon
    <3>1. stopPc = "done" /\ Cardinality(Running') = 0
      BY <1>4, <1>8, <2>1, <2>2 DEF AccountingExact, Retained
    <3>2. IsFiniteSet(Running')
      BY <1>3, ThreadSets, Zenon
    <3> QED
      BY <3>1, <3>2, FS_EmptySet, Zenon
  <2>7. NoUseAfterFree'
    BY <1>2, <2>6, Zenon DEF NoUseAfterFree
  <2>8. StopOrder'
    BY <1>1, <1>2, <1>5, <2>1, <2>2, <2>6, Zenon DEF StopOrder
  <2> QED
    BY <1>7, <2>3, <2>4, <2>5, <2>7, <2>8, Zenon
<1>9. CASE ~workForServer
  <2>1. pool' = pool /\ qlWork' = qlWork /\ work' = work /\ refs' = refs
    BY <1>9, Zenon DEF IdleExit
  <2>2. TypeOK' /\ FreedOnce'
    BY <1>1, <1>2, <2>1, Zenon DEF TypeOK, FreedOnce
  <2>3. AccountingExact'
    BY <1>2, <1>3, <1>9, <2>1, Zenon DEF AccountingExact, Retained
  <2>4. NoUseAfterFree'
    BY <1>1, <1>2, <1>3, <2>1, Zenon DEF NoUseAfterFree, Running
  <2>5. StopOrder'
    BY <1>1, <1>2, <1>5, <1>6, <2>1, Zenon DEF StopOrder
  <2> QED
    BY <1>7, <2>2, <2>3, <2>4, <2>5, Zenon
<1> QED
  BY <1>8, <1>9, Zenon

(* A thread ends as the pool stops.                                        *)
LEMMA BailInv ==
    ASSUME PoolInv, NEW t \in Threads, Bail(t)
    PROVE  PoolInv'
<1> USE DEF PoolInv
<1>1. /\ pc' \in [Threads -> Pcs] /\ pc[t] = "bail"
      /\ pc'[t] = IF t \in detached THEN "none" ELSE "exited"
      /\ \A u \in Threads \ {t} : pc'[u] = pc[u]
  BY Zenon DEF Bail, Return, TypeOK, Pcs
<1>2. /\ aThreads' = aThreads /\ bDelayCleaner' = bDelayCleaner
      /\ workForServer' = workForServer /\ bDone' = bDone
      /\ detached' = detached \ {t} /\ nThreads' = nThreads
      /\ nIdleThreads' = nIdleThreads
      /\ stopper' = stopper /\ stopPc' = stopPc
  BY Zenon DEF Bail, Return, stopping
<1>3. t \in Running /\ Running' = Running \ {t} /\ Idle' = Idle /\ Running \in SUBSET Threads
  BY <1>1, Zenon DEF Running, Idle
<1>4. /\ Cardinality(Running') = Cardinality(Running) - 1
      /\ Cardinality(Running) \in Nat \ {0}
  BY <1>3, OneLess
<1>5. pool = "live" /\ bDone /\ stopper # t
  BY <1>1, <1>3, Zenon DEF NoUseAfterFree, FreedOnce, TypeOK, Recorded, StopOrder
<1>6. Recorded'
  BY <1>1, <1>2, <1>3, <1>5, Zenon DEF TypeOK, Recorded, Running
<1>7. pool' \in {"live", "freed"} => StopOrder'
  BY <1>1, <1>2, <1>5, Zenon DEF StopOrder
<1>8. CASE workForServer
  <2>1. refs # 0
    BY <1>4, <1>5, <1>8 DEF AccountingExact, Retained
  <2>2. /\ refs' = refs - 1 /\ refs' \in Nat /\ qlWork' \in Seq(Works)
        /\ work' \in [Works -> {"new", "queued", "taken", "freed"}]
        /\ pool' = IF refs' = 0 /\ bDelayCleaner = NoThread THEN "freed" ELSE "live"
    BY <1>5, <1>8, <2>1, ReleaseEffect, Zenon DEF Bail
  <2>3. TypeOK'
    BY <1>1, <1>2, <2>2, Zenon DEF TypeOK
  <2>4. AccountingExact'
    BY <1>2, <1>3, <1>4, <1>5, <1>8, <2>2 DEF AccountingExact, Retained
  <2>5. FreedOnce'
    BY <2>2 DEF FreedOnce
  <2>6. pool' = "freed" => Running' = {} /\ stopPc = "done"
    <3> SUFFICES ASSUME refs' = 0 PROVE Running' = {} /\ stopPc = "done"
      BY <2>2
    <3>1. stopPc = "done" /\ Cardinality(Running') = 0
      BY <1>4, <1>5, <1>8, <2>2 DEF AccountingExact, Retained
    <3>2. IsFiniteSet(Running')
      BY <1>3, ThreadSets
    <3> QED
      BY <3>1, <3>2, FS_EmptySet
  <2>7. NoUseAfterFree'
    BY <1>2, <2>6, Zenon DEF NoUseAfterFree
  <2> QED
    BY <1>6, <1>7, <2>2, <2>3, <2>4, <2>5, <2>7, Zenon
<1>9. CASE ~workForServer /\ bDelayCleaner = t
  <2>1. /\ pool' = "freed" /\ qlWork' = <<>> /\ refs' = refs
        /\ work' = [w \in Works |-> IF work[w] = "queued" THEN "freed" ELSE work[w]]
    BY <1>5, <1>9, Zenon DEF Bail, ThreadPool_delete
  <2>2. qlWork' \in Seq(Works) /\ work' \in [Works -> {"new", "queued", "taken", "freed"}]
    <3>1. qlWork' \in Seq(Works)
      BY <2>1
    <3>2. work' \in [Works -> {"new", "queued", "taken", "freed"}]
      BY <2>1, Zenon DEF TypeOK
    <3> QED
      BY <3>1, <3>2, Zenon
  <2>3. TypeOK' /\ FreedOnce'
    BY <1>1, <1>2, <2>1, <2>2, Zenon DEF TypeOK, FreedOnce
  <2>4. AccountingExact'
    BY <1>2, <1>3, <2>1, Zenon DEF AccountingExact
  <2>5. stopPc = "done" /\ aThreads = {}
    BY <1>5, <1>9, PoolAssumption, Zenon DEF StopOrder
  <2>6. \A u \in Running' : pc'[u] = "idleExit"
    BY <1>1, <1>3, <1>9, <2>5, Zenon DEF Recorded, Running
  <2>7. NoUseAfterFree'
    BY <1>2, <1>9, <2>5, <2>6, Zenon DEF NoUseAfterFree
  <2> QED
    BY <1>6, <1>7, <2>1, <2>3, <2>4, <2>7, Zenon
<1>10. CASE ~workForServer /\ bDelayCleaner # t
  <2>1. pool' = pool /\ qlWork' = qlWork /\ work' = work /\ refs' = refs
    BY <1>10, Zenon DEF Bail
  <2>2. TypeOK' /\ FreedOnce'
    BY <1>1, <1>2, <2>1, Zenon DEF TypeOK, FreedOnce
  <2>3. AccountingExact'
    BY <1>2, <1>3, <1>10, <2>1, Zenon DEF AccountingExact, Retained
  <2>4. NoUseAfterFree'
    BY <1>5, <2>1, Zenon DEF NoUseAfterFree
  <2> QED
    BY <1>5, <1>6, <1>7, <2>1, <2>2, <2>3, <2>4, Zenon
<1> QED
  BY <1>8, <1>9, <1>10, Zenon

(* A step of something else.                                               *)
LEMMA StutterInv == PoolInv /\ UNCHANGED vars => PoolInv'
BY DEF PoolInv, TypeOK, AccountingExact, NoUseAfterFree, FreedOnce, Recorded,
       StopOrder, Running, Idle, Retained, vars, counters, stopping

(* Every step of the pool preserves PoolInv.                               *)
THEOREM PoolInvInductive == PoolInv /\ [Next]_vars => PoolInv'
<1> SUFFICES ASSUME PoolInv, [Next]_vars PROVE PoolInv'
  BY Zenon
<1>1. CASE ThreadPool_new
  BY <1>1, NewInv, Zenon
<1>2. ASSUME NEW p \in Threads \cup {Owner}, NEW w \in Works, ThreadPool_queue(p, w)
      PROVE  PoolInv'
  BY <1>2, QueueInv, Zenon
<1>3. ASSUME NEW p \in Threads \cup {Owner}, StopBegin(p) PROVE PoolInv'
  BY <1>3, StopBeginInv, Zenon
<1>4. CASE StopSteps
  BY <1>4, StopScanInv, StopScannedInv, StopReleaseInv, Zenon DEF StopSteps
<1>5. ASSUME NEW t \in Threads, Worker(t) \/ SpuriousWake(t) PROVE PoolInv'
  BY <1>5, TestDoneInv, LockWakeInv, SpuriousWakeInv, FinishWorkInv,
     IdleExitInv, BailInv, Zenon DEF Worker
<1>6. CASE UNCHANGED vars
  BY <1>6, StutterInv, Zenon
<1> QED
  BY <1>1, <1>2, <1>3, <1>4, <1>5, <1>6, Zenon DEF Next

(* PoolInv, and with it the counters, the absence of use after free and    *)
(* the single deletion of ThreadPool.c, holds in every reachable state.    *)
THEOREM PoolSafe == Spec => []PoolInv
BY InitInv, PoolInvInductive, PTL DEF Spec

(* nThreads, nIdleThreads and refs stay exact, for any number of threads.  *)
THEOREM PoolAccounting == Spec => []AccountingExact
<1>1. PoolInv => AccountingExact
  BY Zenon DEF PoolInv
<1> QED
  BY <1>1, PoolSafe, PTL

(* No thread touches a freed pool, but for the read at ThreadPool.c:121.   *)
THEOREM PoolNoUseAfterFree == Spec => []NoUseAfterFree
<1>1. PoolInv => NoUseAfterFree
  BY Zenon DEF PoolInv
<1> QED
  BY <1>1, PoolSafe, PTL

(* The pool is deleted at most once.                                       *)
THEOREM PoolFreedOnce == Spec => []FreedOnce
<1>1. PoolInv => FreedOnce
  BY Zenon DEF PoolInv
<1> QED
  BY <1>1, PoolSafe, PTL

-----------------------------------------------------------------------------

(* Retiring leaves at least MIN_IDLE recorded threads behind: the others   *)
(* that are idle.                                                          *)
LEMMA RetireLeavesReserve ==
    ASSUME PoolInv, NEW t \in Threads, NEW idle,
           idle = Cardinality(Idle \ {t}), TooManyIdle(idle), ~bDone,
           aThreads' = aThreads \ {t}
    PROVE  Cardinality(aThreads') >= MIN_IDLE
<1>1. Idle \ {t} \subseteq aThreads'
  BY Zenon DEF PoolInv, Recorded, Idle, Running
<1>2. IsFiniteSet(aThreads') /\ Cardinality(aThreads') \in Nat
  <2>1. aThreads \ {t} \in SUBSET Threads
    BY Zenon DEF PoolInv, TypeOK
  <2> QED
    BY <2>1, ThreadSets, Zenon
<1>3. Cardinality(Idle \ {t}) <= Cardinality(aThreads')
  BY <1>1, <1>2, FS_Subset, Zenon
<1>4. Idle \ {t} \in SUBSET Threads
  BY Zenon DEF Idle
<1>5. Cardinality(Idle \ {t}) \in Nat
  BY <1>4, ThreadSets, Zenon
<1> QED
  BY <1>2, <1>3, <1>5, PoolAssumption DEF TooManyIdle

(* The count a locking or woken thread works with.                         *)
LEMMA OthersIdle ==
    ASSUME PoolInv, NEW t \in Threads
    PROVE  /\ pc[t] = "lock" => nIdleThreads = Cardinality(Idle \ {t})
           /\ pc[t] = "woken" => nIdleThreads - 1 = Cardinality(Idle \ {t})
<1>1. ASSUME pc[t] = "lock" PROVE nIdleThreads = Cardinality(Idle \ {t})
  <2>1. Idle \ {t} = Idle
    BY <1>1, Zenon DEF Idle
  <2> QED
    BY <2>1, Zenon DEF PoolInv, AccountingExact
<1>2. ASSUME pc[t] = "woken" PROVE nIdleThreads - 1 = Cardinality(Idle \ {t})
  <2>1. t \in Idle /\ Idle \in SUBSET Threads
    BY <1>2, Zenon DEF Idle
  <2> QED
    BY <2>1, OneLess, Zenon DEF PoolInv, AccountingExact
<1> QED
  BY <1>1, <1>2, Zenon

(* A step of the pool takes a recorded thread away before the stop only    *)
(* where the thread retires, and then the reserve stays.                   *)
LEMMA ReserveStep ==
    ASSUME PoolInv, Next, ~bDone, ~(aThreads \subseteq aThreads')
    PROVE  Cardinality(aThreads') >= MIN_IDLE
<1>1. ASSUME ThreadPool_new PROVE FALSE
  BY <1>1, Zenon DEF ThreadPool_new, CreateThreads
<1>2. ASSUME NEW p \in Threads \cup {Owner}, NEW w \in Works, ThreadPool_queue(p, w)
      PROVE  FALSE
  BY <1>2, Zenon DEF ThreadPool_queue, CreateThreads
<1>3. ASSUME NEW p \in Threads \cup {Owner}, StopBegin(p) PROVE FALSE
  BY <1>3, Zenon DEF StopBegin
<1>4. ASSUME StopSteps PROVE FALSE
  BY <1>4, Zenon DEF StopSteps, StopScan, StopScanned, StopRelease, PoolInv, StopOrder
<1>5. ASSUME NEW t \in Threads, Worker(t) \/ SpuriousWake(t)
      PROVE  Cardinality(aThreads') >= MIN_IDLE
  <2>1. ASSUME NEW idle, Serve(t, idle), idle = Cardinality(Idle \ {t})
        PROVE  Cardinality(aThreads') >= MIN_IDLE
    <3>1. TooManyIdle(idle) /\ aThreads' = aThreads \ {t}
      BY <2>1, Zenon DEF Serve
    <3> QED
      BY <2>1, <3>1, RetireLeavesReserve, Zenon
  <2>2. LockAndServe(t) \/ WakeAndServe(t)
    BY <1>5, Zenon DEF Worker, TestDone, FinishWork, IdleExit, Bail, SpuriousWake
  <2> QED
    BY <2>1, <2>2, OthersIdle, Zenon DEF LockAndServe, WakeAndServe
<1> QED
  BY <1>1, <1>2, <1>3, <1>4, <1>5, Zenon DEF Next

(* Before it is stopped a pool never drops below MIN_IDLE threads by       *)
(* letting one retire.                                                     *)
THEOREM PoolReserve == Spec => ReserveKept
<1>1. PoolInv /\ [Next]_vars =>
        [~bDone /\ ~(aThreads \subseteq aThreads') => Cardinality(aThreads') >= MIN_IDLE]_vars
  BY ReserveStep, Zenon
<1> QED
  BY <1>1, PoolSafe, PTL DEF Spec, ReserveKept

-----------------------------------------------------------------------------

(* What NoStrandedWork needs on top of PoolInv: a pool in service has      *)
(* threads.                                                                *)
Served == NoStrandedWork /\ (pool = "live" /\ ~bDone => aThreads # {})

(* Every step keeps the strengthened form of NoStrandedWork.               *)
LEMMA ServedStep ==
    ASSUME PoolInv, PoolInv', Served, [Next]_vars
    PROVE  Served'
<1>1. CASE ThreadPool_new
  BY <1>1, Zenon DEF ThreadPool_new, CreateThreads, Served, NoStrandedWork, Created,
              PoolInv, StopOrder, TypeOK
<1>2. ASSUME NEW p \in Threads \cup {Owner}, NEW w \in Works, ThreadPool_queue(p, w)
      PROVE  Served'
  <2>1. pool = "live" /\ pool' = pool /\ bDone' = bDone
    BY <1>2, CallerFindsPool, Zenon DEF ThreadPool_queue
  <2>2. CASE bDone
    BY <2>1, <2>2, Zenon DEF Served, NoStrandedWork
  <2>3. CASE ~bDone
    <3>1. PICK t \in aThreads : TRUE
      BY <2>1, <2>3, Zenon DEF Served
    <3>2. t \in Threads /\ pc[t] \in {"top", "lock", "wait", "woken", "work"}
      BY <2>3, <3>1, Zenon DEF PoolInv, TypeOK, Recorded, Pcs
    <3>3. pc'[t] \in {"top", "lock", "woken", "work"} /\ aThreads \subseteq aThreads'
      BY <1>2, <2>3, <3>2, Zenon DEF ThreadPool_queue, CreateThreads, Broadcast
    <3> QED
      BY <3>1, <3>2, <3>3, Zenon DEF Served, NoStrandedWork
  <2> QED
    BY <2>2, <2>3, Zenon
<1>3. ASSUME NEW p \in Threads \cup {Owner}, StopBegin(p) PROVE Served'
  BY <1>3, Zenon DEF StopBegin, Served, NoStrandedWork
<1>4. CASE StopSteps
  BY <1>4, Zenon DEF StopSteps, StopScan, StopScanned, StopRelease, PoolInv, StopOrder,
              Served, NoStrandedWork
<1>5. ASSUME NEW t \in Threads, Worker(t) \/ SpuriousWake(t) PROVE Served'
  <2>1. CASE bDone
    <3>1. bDone'
      BY <1>5, <2>1, Zenon DEF Worker, TestDone, LockAndServe, WakeAndServe, Serve,
                        FinishWork, IdleExit, Bail, SpuriousWake
    <3> QED
      BY <3>1, Zenon DEF Served, NoStrandedWork
  <2>2. CASE ~bDone
    <3>1. bDone' = bDone /\ pc[t] # "bail"
      BY <1>5, <2>2, Zenon DEF Worker, TestDone, LockAndServe, WakeAndServe, Serve,
                        FinishWork, IdleExit, Bail, SpuriousWake, PoolInv, Recorded
    <3>2. pool' = "live" => pool = "live"
      BY <1>5, Zenon DEF Worker, TestDone, LockAndServe, WakeAndServe, Serve, FinishWork,
                  IdleExit, Bail, SpuriousWake, ThreadPool_release,
                  ThreadPool_delete
    <3>3. pool' = "live" => aThreads' # {}
      <4>1. CASE aThreads \subseteq aThreads'
        BY <2>2, <3>2, <4>1, Zenon DEF Served
      <4>2. CASE ~(aThreads \subseteq aThreads')
        <5>1. Next
          BY <1>5, Zenon DEF Next
        <5>2. Cardinality(aThreads') >= MIN_IDLE
          BY <2>2, <4>2, <5>1, ReserveStep, Zenon
        <5> QED
          BY <5>2, NoThreads, PoolAssumption
      <4> QED
        BY <4>1, <4>2, Zenon
    <3>4. NoStrandedWork'
      <4> SUFFICES ASSUME qlWork' # <<>>
                   PROVE  \E u \in Threads : pc'[u] \in {"top", "lock", "woken", "work"}
        BY Zenon DEF NoStrandedWork
      <4>1. CASE TestDone(t) \/ FinishWork(t) \/ SpuriousWake(t)
        BY <2>2, <4>1, Zenon DEF TestDone, FinishWork, SpuriousWake, PoolInv, TypeOK
      <4>2. CASE IdleExit(t)
        <5>1. qlWork # <<>>
          BY <4>2, Zenon DEF IdleExit, ThreadPool_release, ThreadPool_delete
        <5> QED
          BY <2>2, <4>2, <5>1, Zenon DEF IdleExit, Served, NoStrandedWork, PoolInv, TypeOK
      <4>3. CASE LockAndServe(t) \/ WakeAndServe(t)
        <5>1. PICK idle : Serve(t, idle)
          BY <4>3, Zenon DEF LockAndServe, WakeAndServe
        <5>2. pc' = [pc EXCEPT ![t] = "work"]
          BY <2>2, <5>1, Zenon DEF Serve
        <5> QED
          BY <5>2, Zenon DEF PoolInv, TypeOK
      <4> QED
        BY <1>5, <3>1, <4>1, <4>2, <4>3, Zenon DEF Worker, Bail
    <3> QED
      BY <3>3, <3>4, Zenon DEF Served
  <2> QED
    BY <2>1, <2>2, Zenon
<1>6. CASE UNCHANGED vars
  BY <1>6, Zenon DEF vars, counters, stopping, Served, NoStrandedWork
<1> QED
  BY <1>1, <1>2, <1>3, <1>4, <1>5, <1>6, Zenon DEF Next

(* No wake-up is lost: queued work always has a thread on its way to it.   *)
THEOREM PoolNoStrandedWork == Spec => []NoStrandedWork
<1>1. Init => Served
  BY Zenon DEF Init, Served, NoStrandedWork
<1>2. PoolInv /\ PoolInv' /\ Served /\ [Next]_vars => Served'
  BY ServedStep, Zenon
<1>3. Served => NoStrandedWork
  BY Zenon DEF Served
<1> QED
  BY <1>1, <1>2, <1>3, PoolSafe, PTL DEF Spec
=============================================================================
