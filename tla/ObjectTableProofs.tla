------------------------- MODULE ObjectTableProofs -------------------------
(***************************************************************************)
(* Proofs about ObjectTable for every table size and any number of threads *)
(* and objects: its count and the reference counts are exact.              *)
(***************************************************************************)
EXTENDS ObjectTable, FiniteSetTheorems, TLAPS

(* How many arguments in D have value o, and how many have another.        *)
Count(D, f, o) == Cardinality({d \in D : f[d] = o})
CountNot(D, f, o) == Cardinality({d \in D : f[d] # o})

(* f and g agree but on x.                                                 *)
SameBut(D, x, f, g) == \A d \in D \ {x} : g[d] = f[d]

(* How a change at x moves the count.                                      *)
CountMoves(D, x, f, g, o) ==
    /\ Count(D, f, o) \in Nat /\ Count(D, g, o) \in Nat
    /\ Count(D, g, o) = Count(D, f, o) - (IF f[x] = o THEN 1 ELSE 0)
                                       + (IF g[x] = o THEN 1 ELSE 0)

(* One argument of a function changes.                                     *)
LEMMA CountUpdate ==
    ASSUME NEW D, IsFiniteSet(D), NEW x \in D, NEW f, NEW g, NEW o,
           SameBut(D, x, f, g)
    PROVE  CountMoves(D, x, f, g, o)
<1> DEFINE F == {d \in D : f[d] = o}
           G == {d \in D : g[d] = o}
           R == {d \in D \ {x} : f[d] = o}
<1>1. IsFiniteSet(R) /\ Cardinality(R) \in Nat
  <2>1. R \in SUBSET D
    BY Zenon
  <2> QED
    BY <2>1, FS_Subset, FS_CardinalityType, Zenon
<1>2. Cardinality(R \cup {x}) = Cardinality(R) + 1
  BY <1>1, FS_AddElement, Zenon
<1>3. F = IF f[x] = o THEN R \cup {x} ELSE R
  BY Zenon
<1>4. G = IF g[x] = o THEN R \cup {x} ELSE R
  BY Zenon DEF SameBut
<1>5. Cardinality(F) = Cardinality(R) + (IF f[x] = o THEN 1 ELSE 0)
  BY <1>1, <1>2, <1>3
<1>6. Cardinality(G) = Cardinality(R) + (IF g[x] = o THEN 1 ELSE 0)
  BY <1>1, <1>2, <1>4
<1>7. Count(D, f, o) = Cardinality(F) /\ Count(D, g, o) = Cardinality(G)
  BY Zenon DEF Count
<1> HIDE DEF F, G, R
<1> QED
  BY <1>1, <1>5, <1>6, <1>7 DEF CountMoves

(* The arguments split into those with value o and the others.             *)
LEMMA CountOthers ==
    ASSUME NEW D, IsFiniteSet(D), NEW f, NEW o
    PROVE  /\ CountNot(D, f, o) \in Nat /\ Count(D, f, o) \in Nat
           /\ Cardinality(D) \in Nat
           /\ CountNot(D, f, o) = Cardinality(D) - Count(D, f, o)
<1> DEFINE F == {d \in D : f[d] = o}
           G == {d \in D : f[d] # o}
<1>1. F \in SUBSET D /\ G \in SUBSET D
  BY Zenon
<1>2. IsFiniteSet(F) /\ IsFiniteSet(G)
  BY <1>1, FS_Subset, Zenon
<1>3. Cardinality(F) \in Nat /\ Cardinality(G) \in Nat /\ Cardinality(D) \in Nat
  BY <1>2, FS_CardinalityType, Zenon
<1>4. F \cup G = D /\ F \cap G = {}
  BY Zenon
<1>5. Cardinality(F \cup G) = Cardinality(F) + Cardinality(G) - Cardinality(F \cap G)
  BY <1>2, FS_Union, Zenon
<1>6. Cardinality(F \cap G) = 0
  BY <1>4, FS_EmptySet, Zenon
<1>7. Cardinality(F \cup G) = Cardinality(D)
  BY <1>4, Zenon
<1>8. Count(D, f, o) = Cardinality(F) /\ CountNot(D, f, o) = Cardinality(G)
  BY Zenon DEF Count, CountNot
<1> HIDE DEF F, G
<1> QED
  BY <1>3, <1>5, <1>6, <1>7, <1>8

(* The tables are finite, so counts over them are defined.                 *)
LEMMA FiniteDomains ==
    IsFiniteSet(Handles) /\ IsFiniteSet(Threads) /\ PRIMORDIAL_HANDLE \in Handles
    /\ Generic \subseteq Handles
BY TableAssumption, FS_Interval DEF Handles, Generic

(* The sizes that the invariants speak of, as counts.                      *)
LEMMA SizesAsCounts ==
    /\ Cardinality(Occupied) = CountNot(Handles, objects, NULL)
    /\ \A o : /\ Cardinality(SlotsOf(o)) = Count(Handles, objects, o)
             /\ Cardinality(HandsOf(o)) = Count(Threads, holds, o)
             /\ Cardinality(ClosersOf(o)) = Count(Threads, closing, o)
BY Zenon DEF Count, CountNot, Occupied, SlotsOf, HandsOf, ClosersOf

(* The same after a step.                                                  *)
LEMMA SizesAsCountsNext ==
    /\ Cardinality(Occupied') = CountNot(Handles, objects', NULL)
    /\ \A o : /\ Cardinality(SlotsOf(o)') = Count(Handles, objects', o)
             /\ Cardinality(HandsOf(o)') = Count(Threads, holds', o)
             /\ Cardinality(ClosersOf(o)') = Count(Threads, closing', o)
BY Zenon DEF Count, CountNot, Occupied, SlotsOf, HandsOf, ClosersOf

(* CountExact and RefsExact in these terms.                                *)
Counted(objs, n) == n = CountNot(Handles, objs, NULL)
Balance(objs, hs, cs, own, o) ==
    (IF o \in own THEN 1 ELSE 0) + Count(Handles, objs, o)
      + Count(Threads, hs, o) + Count(Threads, cs, o)

(* The invariant, with its cardinalities as counts.                        *)
LEMMA InvAsCounts ==
    /\ CountExact <=> Counted(objects, objectsCount)
    /\ RefsExact <=> \A o \in Objs : refs[o] = Balance(objects, holds, closing, owned, o)
BY SizesAsCounts, Zenon DEF CountExact, RefsExact, Counted, Balance

(* The same after a step.                                                  *)
LEMMA InvAsCountsNext ==
    /\ CountExact' <=> Counted(objects', objectsCount')
    /\ RefsExact' <=> \A o \in Objs : refs'[o] = Balance(objects', holds', closing', owned', o)
BY SizesAsCountsNext, Zenon DEF CountExact, RefsExact, Counted, Balance

(* The counts are numbers.                                                 *)
LEMMA Sizes ==
    /\ \A f : CountNot(Handles, f, NULL) \in Nat
    /\ \A f, o : Count(Handles, f, o) \in Nat /\ Count(Threads, f, o) \in Nat
BY FiniteDomains, CountOthers, Zenon

(* How the counts move when slot h, or what thread t holds or closes,      *)
(* becomes v.                                                              *)
SlotMoves(h, v) ==
    /\ CountNot(Handles, objects', NULL) = CountNot(Handles, objects, NULL)
         - (IF objects[h] # NULL THEN 1 ELSE 0) + (IF v # NULL THEN 1 ELSE 0)
    /\ \A o : Count(Handles, objects', o) = Count(Handles, objects, o)
         - (IF objects[h] = o THEN 1 ELSE 0) + (IF v = o THEN 1 ELSE 0)
ThreadMoves(t, v, f, g) ==
    \A o : Count(Threads, g, o) = Count(Threads, f, o)
         - (IF f[t] = o THEN 1 ELSE 0) + (IF v = o THEN 1 ELSE 0)

(* One slot changes.                                                       *)
LEMMA SlotUpdate ==
    ASSUME TypeOK, NEW h \in Handles, NEW v, objects' = [objects EXCEPT ![h] = v]
    PROVE  SlotMoves(h, v)
<1>1. objects'[h] = v /\ SameBut(Handles, h, objects, objects')
  BY Zenon DEF TypeOK, SameBut
<1>2. \A o : CountMoves(Handles, h, objects, objects', o)
  BY <1>1, FiniteDomains, CountUpdate, Zenon
<1>3. CountNot(Handles, objects', NULL) = CountNot(Handles, objects, NULL)
                - (IF objects[h] # NULL THEN 1 ELSE 0) + (IF v # NULL THEN 1 ELSE 0)
  <2>1. /\ CountNot(Handles, objects, NULL) = Cardinality(Handles) - Count(Handles, objects, NULL)
        /\ CountNot(Handles, objects', NULL) = Cardinality(Handles) - Count(Handles, objects', NULL)
        /\ Cardinality(Handles) \in Nat
    BY FiniteDomains, CountOthers, Zenon
  <2>2. CountMoves(Handles, h, objects, objects', NULL)
    BY <1>2, Zenon
  <2> QED
    BY <1>1, <2>1, <2>2 DEF CountMoves
<1> QED
  BY <1>1, <1>2, <1>3, Zenon DEF CountMoves, SlotMoves

(* What one thread holds changes, and what it is closing.                  *)
LEMMA HandUpdate ==
    ASSUME TypeOK, NEW t \in Threads, NEW v, holds' = [holds EXCEPT ![t] = v]
    PROVE  ThreadMoves(t, v, holds, holds')
<1>1. holds'[t] = v /\ SameBut(Threads, t, holds, holds')
  BY Zenon DEF TypeOK, SameBut
<1>2. \A o : CountMoves(Threads, t, holds, holds', o)
  BY <1>1, FiniteDomains, CountUpdate, Zenon
<1> QED
  BY <1>1, <1>2, Zenon DEF CountMoves, ThreadMoves

(* What a closer's move to another place changes of the counts.            *)
LEMMA CloserUpdate ==
    ASSUME TypeOK, NEW t \in Threads, NEW v, closing' = [closing EXCEPT ![t] = v]
    PROVE  ThreadMoves(t, v, closing, closing')
<1>1. closing'[t] = v /\ SameBut(Threads, t, closing, closing')
  BY Zenon DEF TypeOK, SameBut
<1>2. \A o : CountMoves(Threads, t, closing, closing', o)
  BY <1>1, FiniteDomains, CountUpdate
<1> QED
  BY <1>1, <1>2 DEF CountMoves, ThreadMoves

(* The parts of the invariant, in terms of counts.                         *)
LEMMA InvParts ==
    ASSUME TableInv
    PROVE  /\ TypeOK /\ Swept
           /\ objectsCount = CountNot(Handles, objects, NULL)
           /\ \A o \in Objs : refs[o] = Balance(objects, holds, closing, owned, o)
BY InvAsCounts, Zenon DEF TableInv, Counted

(* The parts of the invariant after a step.                                *)
LEMMA InvPartsNext ==
    ASSUME TypeOK', Swept', Counted(objects', objectsCount'),
           \A o \in Objs : refs'[o] = Balance(objects', holds', closing', owned', o)
    PROVE  TableInv'
BY InvAsCountsNext, Zenon DEF TableInv

(* An object in a slot, in a hand or about to be released has a reference. *)
LEMMA Referenced ==
    ASSUME TableInv, NEW o \in Objs,
           \/ o \in owned
           \/ \E h \in Handles : objects[h] = o
           \/ \E t \in Threads : holds[t] = o
           \/ \E t \in Threads : closing[t] = o
    PROVE  refs[o] \in Nat /\ refs[o] > 0
<1>1. refs[o] = Balance(objects, holds, closing, owned, o)
  BY InvParts, Zenon
<1>2. /\ Count(Handles, objects, o) \in Nat
      /\ Count(Threads, holds, o) \in Nat
      /\ Count(Threads, closing, o) \in Nat
  BY Sizes, Zenon
<1>3. ASSUME NEW D, IsFiniteSet(D), NEW f, NEW d \in D, f[d] = o
      PROVE  Count(D, f, o) > 0
  <2> DEFINE F == {e \in D : f[e] = o}
  <2>1. F \in SUBSET D /\ F # {}
    BY <1>3, Zenon
  <2>2. IsFiniteSet(F)
    BY <1>3, <2>1, FS_Subset, Zenon
  <2>3. Cardinality(F) \in Nat /\ Cardinality(F) # 0
    BY <2>1, <2>2, FS_CardinalityType, FS_EmptySet, Zenon
  <2>4. Count(D, f, o) = Cardinality(F)
    BY Zenon DEF Count
  <2> HIDE DEF F
  <2> QED
    BY <2>3, <2>4
<1>4. CASE o \in owned
  BY <1>1, <1>2, <1>4 DEF Balance
<1>5. CASE \E h \in Handles : objects[h] = o
  BY <1>1, <1>2, <1>3, <1>5, FiniteDomains DEF Balance
<1>6. CASE \E t \in Threads : holds[t] = o
  BY <1>1, <1>2, <1>3, <1>6, FiniteDomains DEF Balance
<1>7. CASE \E t \in Threads : closing[t] = o
  BY <1>1, <1>2, <1>3, <1>7, FiniteDomains DEF Balance
<1> QED
  BY <1>4, <1>5, <1>6, <1>7, Zenon

(* A filled slot gains the reference that was taken for it.                *)
LEMMA AddInv ==
    ASSUME TableInv, NEW o \in Objs, NEW n \in Handles, phase = "inUse",
           ObjectTable_add(o, n), UNCHANGED <<owned, holds, closing, cursor, phase>>
    PROVE  TableInv'
<1>1. /\ TypeOK
      /\ objectsCount = CountNot(Handles, objects, NULL)
      /\ \A p \in Objs : refs[p] = Balance(objects, holds, closing, owned, p)
  BY InvParts, Zenon
<1>2. TypeOK'
  BY <1>1 DEF TypeOK, ObjectTable_add
<1>3. Swept'
  BY Zenon DEF Swept
<1>4. /\ CountNot(Handles, objects', NULL) = CountNot(Handles, objects, NULL) + 1
      /\ \A p \in Objs : Count(Handles, objects', p) = Count(Handles, objects, p) + (IF p = o THEN 1 ELSE 0)
  <2>1. objects[n] = NULL /\ o # NULL /\ \A p \in Objs : p # NULL
    BY TableAssumption, Zenon DEF ObjectTable_add
  <2>2. objects' = [objects EXCEPT ![n] = o]
    BY Zenon DEF ObjectTable_add
  <2>3. SlotMoves(n, o)
    BY <1>1, <2>2, SlotUpdate, Zenon
  <2> QED
    BY <2>1, <2>3, Sizes DEF SlotMoves
<1>5. Counted(objects', objectsCount')
  BY <1>1, <1>4, Zenon DEF Counted, ObjectTable_add
<1>6. ASSUME NEW p \in Objs
      PROVE  refs'[p] = Balance(objects', holds', closing', owned', p)
  <2>1. refs'[p] = refs[p] + (IF p = o THEN 1 ELSE 0)
    BY <1>1 DEF TypeOK, ObjectTable_add
  <2> QED
    BY <1>1, <1>4, <2>1, Sizes DEF Balance
<1> QED
  BY <1>2, <1>3, <1>5, <1>6, InvPartsNext, Zenon

(* Closing a slot hands its reference to the close.                        *)
LEMMA CloseSlotInv ==
    ASSUME TableInv, NEW t \in Threads, NEW h \in Handles,
           objects[h] # NULL, closing[t] = NULL, CloseSlot(t, h),
           cursor' \in [Threads -> Handles \cup {objectsLen, -1}], Swept',
           UNCHANGED <<refs, owned, holds, phase>>
    PROVE  TableInv'
<1>1. /\ TypeOK
      /\ objectsCount = CountNot(Handles, objects, NULL)
      /\ \A p \in Objs : refs[p] = Balance(objects, holds, closing, owned, p)
  BY InvParts, Zenon
<1>2. \A p \in Objs : p # NULL
  BY TableAssumption, Zenon
<1>3. /\ CountNot(Handles, objects', NULL) = CountNot(Handles, objects, NULL) - 1
      /\ \A p \in Objs : Count(Handles, objects', p) = Count(Handles, objects, p) - (IF p = objects[h] THEN 1 ELSE 0)
  <2>1. objects' = [objects EXCEPT ![h] = NULL]
    BY Zenon DEF CloseSlot
  <2>2. SlotMoves(h, NULL)
    BY <1>1, <2>1, SlotUpdate, Zenon
  <2> QED
    BY <1>2, <2>2, Sizes DEF SlotMoves
<1>4. \A p \in Objs : Count(Threads, closing', p) = Count(Threads, closing, p) + (IF p = objects[h] THEN 1 ELSE 0)
  <2>1. closing' = [closing EXCEPT ![t] = objects[h]]
    BY Zenon DEF CloseSlot
  <2>2. ThreadMoves(t, objects[h], closing, closing')
    BY <1>1, <2>1, CloserUpdate, Zenon
  <2> QED
    BY <1>2, <2>2, Sizes DEF ThreadMoves
<1>5. Counted(objects', objectsCount') /\ objectsCount' \in Nat
  BY <1>1, <1>3, Sizes, Zenon DEF Counted, CloseSlot
<1>6. TypeOK'
  BY <1>1, <1>5, Zenon DEF TypeOK, CloseSlot
<1>7. ASSUME NEW p \in Objs
      PROVE  refs'[p] = Balance(objects', holds', closing', owned', p)
  BY <1>1, <1>3, <1>4, Sizes DEF Balance
<1> QED
  BY <1>5, <1>6, <1>7, InvPartsNext, Zenon

(* Recovering an object adds a hand and its reference.                     *)
LEMMA RecoverInv ==
    ASSUME TableInv, NEW t \in Threads, NEW h \in Handles,
           ObjectTable_recoverObject(t, h)
    PROVE  TableInv'
<1>1. /\ TypeOK /\ Swept
      /\ objectsCount = CountNot(Handles, objects, NULL)
      /\ \A p \in Objs : refs[p] = Balance(objects, holds, closing, owned, p)
  BY InvParts, Zenon
<1>2. objects[h] \in Objs /\ \A p \in Objs : p # NULL
  BY <1>1, TableAssumption, Zenon DEF TypeOK, ObjectTable_recoverObject
<1>3. \A p \in Objs : Count(Threads, holds', p) = Count(Threads, holds, p) + (IF p = objects[h] THEN 1 ELSE 0)
  <2>1. holds' = [holds EXCEPT ![t] = objects[h]]
    BY Zenon DEF ObjectTable_recoverObject
  <2>2. ThreadMoves(t, objects[h], holds, holds')
    BY <1>1, <2>1, HandUpdate, Zenon
  <2>3. holds[t] = NULL
    BY Zenon DEF ObjectTable_recoverObject
  <2> QED
    BY <1>2, <2>2, <2>3, Sizes DEF ThreadMoves
<1>4. TypeOK'
  BY <1>1, <1>2 DEF TypeOK, ObjectTable_recoverObject, tableVars
<1>5. Swept' /\ Counted(objects', objectsCount')
  BY <1>1, Zenon DEF Swept, Counted, ObjectTable_recoverObject, tableVars
<1>6. ASSUME NEW p \in Objs
      PROVE  refs'[p] = Balance(objects', holds', closing', owned', p)
  <2>1. refs'[p] = refs[p] + (IF p = objects[h] THEN 1 ELSE 0)
    BY <1>1, <1>2 DEF TypeOK, ObjectTable_recoverObject
  <2>2. UNCHANGED <<objects, closing, owned>>
    BY Zenon DEF ObjectTable_recoverObject, tableVars
  <2> QED
    BY <1>1, <1>3, <2>1, <2>2, Sizes DEF Balance
<1> QED
  BY <1>4, <1>5, <1>6, InvPartsNext, Zenon

(* A release gives up one hand, one close or the creator's reference.      *)
LEMMA HolderReleaseInv ==
    ASSUME TableInv, NEW t \in Threads, HolderRelease(t)
    PROVE  TableInv'
<1>1. /\ TypeOK /\ Swept
      /\ objectsCount = CountNot(Handles, objects, NULL)
      /\ \A p \in Objs : refs[p] = Balance(objects, holds, closing, owned, p)
  BY InvParts, Zenon
<1>2. holds[t] \in Objs /\ \A p \in Objs : p # NULL
  BY <1>1, TableAssumption, Zenon DEF TypeOK, HolderRelease
<1>3. refs[holds[t]] \in Nat /\ refs[holds[t]] > 0
  BY <1>2, Referenced, Zenon
<1>4. \A p \in Objs : Count(Threads, holds', p) = Count(Threads, holds, p) - (IF p = holds[t] THEN 1 ELSE 0)
  <2>1. holds' = [holds EXCEPT ![t] = NULL]
    BY Zenon DEF HolderRelease
  <2>2. ThreadMoves(t, NULL, holds, holds')
    BY <1>1, <2>1, HandUpdate, Zenon
  <2> QED
    BY <1>2, <2>2, Sizes DEF ThreadMoves
<1>5. TypeOK'
  BY <1>1, <1>2, <1>3 DEF TypeOK, HolderRelease, tableVars
<1>6. Swept' /\ Counted(objects', objectsCount')
  BY <1>1, Zenon DEF Swept, Counted, HolderRelease, tableVars
<1>7. ASSUME NEW p \in Objs
      PROVE  refs'[p] = Balance(objects', holds', closing', owned', p)
  <2>1. refs'[p] = refs[p] - (IF p = holds[t] THEN 1 ELSE 0) /\ refs[p] \in Nat
    BY <1>1, <1>2 DEF TypeOK, HolderRelease
  <2>2. UNCHANGED <<objects, closing, owned>>
    BY Zenon DEF HolderRelease, tableVars
  <2> QED
    BY <1>1, <1>4, <2>1, <2>2, Sizes DEF Balance
<1> QED
  BY <1>5, <1>6, <1>7, InvPartsNext, Zenon

(* A CLOSE's release of the object it took from its slot.                  *)
LEMMA CloseReleaseInv ==
    ASSUME TableInv, NEW t \in Threads, CloseRelease(t)
    PROVE  TableInv'
<1>1. /\ TypeOK /\ Swept
      /\ objectsCount = CountNot(Handles, objects, NULL)
      /\ \A p \in Objs : refs[p] = Balance(objects, holds, closing, owned, p)
  BY InvParts, Zenon
<1>2. closing[t] \in Objs /\ \A p \in Objs : p # NULL
  BY <1>1, TableAssumption, Zenon DEF TypeOK, CloseRelease
<1>3. refs[closing[t]] \in Nat /\ refs[closing[t]] > 0
  BY <1>2, Referenced, Zenon
<1>4. \A p \in Objs : Count(Threads, closing', p) = Count(Threads, closing, p) - (IF p = closing[t] THEN 1 ELSE 0)
  <2>1. closing' = [closing EXCEPT ![t] = NULL]
    BY Zenon DEF CloseRelease
  <2>2. ThreadMoves(t, NULL, closing, closing')
    BY <1>1, <2>1, CloserUpdate, Zenon
  <2> QED
    BY <1>2, <2>2, Sizes DEF ThreadMoves
<1>5. TypeOK'
  BY <1>1, <1>2, <1>3 DEF TypeOK, CloseRelease, tableVars
<1>6. Swept' /\ Counted(objects', objectsCount')
  BY <1>1, Zenon DEF Swept, Counted, CloseRelease, tableVars
<1>7. ASSUME NEW p \in Objs
      PROVE  refs'[p] = Balance(objects', holds', closing', owned', p)
  <2>1. refs'[p] = refs[p] - (IF p = closing[t] THEN 1 ELSE 0) /\ refs[p] \in Nat
    BY <1>1, <1>2 DEF TypeOK, CloseRelease
  <2>2. UNCHANGED <<objects, holds, owned>>
    BY Zenon DEF CloseRelease, tableVars
  <2> QED
    BY <1>1, <1>4, <2>1, <2>2, Sizes DEF Balance
<1> QED
  BY <1>5, <1>6, <1>7, InvPartsNext

(* The creator's release of its own reference.                             *)
LEMMA CreatorReleaseInv ==
    ASSUME TableInv, NEW o \in Objs, CreatorRelease(o)
    PROVE  TableInv'
<1>1. /\ TypeOK /\ Swept
      /\ objectsCount = CountNot(Handles, objects, NULL)
      /\ \A p \in Objs : refs[p] = Balance(objects, holds, closing, owned, p)
  BY InvParts, Zenon
<1>2. refs[o] \in Nat /\ refs[o] > 0
  BY Referenced, Zenon DEF CreatorRelease
<1>3. TypeOK'
  BY <1>1, <1>2 DEF TypeOK, CreatorRelease, tableVars
<1>4. Swept' /\ Counted(objects', objectsCount')
  BY <1>1, Zenon DEF Swept, Counted, CreatorRelease, tableVars
<1>5. ASSUME NEW p \in Objs
      PROVE  refs'[p] = Balance(objects', holds', closing', owned', p)
  <2>1. refs'[p] = refs[p] - (IF p = o THEN 1 ELSE 0) /\ refs[p] \in Nat
    BY <1>1 DEF TypeOK, CreatorRelease
  <2>2. UNCHANGED <<objects, holds, closing>>
    BY Zenon DEF CreatorRelease, tableVars
  <2>3. (IF p \in owned' THEN 1 ELSE 0) = (IF p \in owned THEN 1 ELSE 0) - (IF p = o THEN 1 ELSE 0)
    BY DEF CreatorRelease
  <2> QED
    BY <1>1, <2>1, <2>2, <2>3, Sizes DEF Balance
<1> QED
  BY <1>3, <1>4, <1>5, InvPartsNext, Zenon

(* A round of a loop closes at most the slot at the cursor.                *)
LEMMA CloseNextInv ==
    ASSUME TableInv, NEW t \in Threads, NEW last \in Handles, CloseNext(t, last)
    PROVE  TableInv'
<1>1. TypeOK /\ Swept
  BY InvParts, Zenon
<1>2. /\ cursor[t] \in Handles
      /\ cursor' \in [Threads -> Handles \cup {objectsLen, -1}]
      /\ \A u \in Threads : cursor'[u] = IF u = t THEN cursor[t] + 1 ELSE cursor[u]
  BY <1>1, TableAssumption DEF TypeOK, CloseNext, Handles
<1>3. /\ objects'[cursor[t]] = NULL
      /\ \A h \in Handles : objects[h] = NULL => objects'[h] = NULL
  BY <1>1, <1>2, Zenon DEF TypeOK, CloseNext, CloseSlot, tableVars
<1>4. Swept'
  <2> SUFFICES ASSUME phase' = "destruct", NEW u \in Threads, NEW h \in Handles, h < cursor'[u]
               PROVE  objects'[h] = NULL
    BY Zenon DEF Swept
  <2>1. phase = "destruct"
    BY Zenon DEF CloseNext
  <2>2. h < cursor[u] \/ h = cursor[t]
    BY <1>2, TableAssumption DEF Handles
  <2> QED
    BY <1>1, <1>3, <2>1, <2>2, Zenon DEF Swept
<1>5. CASE objects[cursor[t]] = NULL
  <2>1. UNCHANGED <<objects, objectsCount, closing, refs, owned, holds, phase>>
    BY <1>5, Zenon DEF CloseNext, tableVars
  <2>2. TypeOK'
    BY <1>1, <1>2, <2>1, Zenon DEF TypeOK
  <2> QED
    BY <1>4, <2>1, <2>2, InvParts, InvPartsNext, Zenon DEF Counted
<1>6. CASE objects[cursor[t]] # NULL
  <2>1. CloseSlot(t, cursor[t]) /\ closing[t] = NULL /\ UNCHANGED <<refs, owned, holds, phase>>
    BY <1>6, Zenon DEF CloseNext
  <2> QED
    BY <1>2, <1>4, <1>6, <2>1, CloseSlotInv, Zenon
<1> QED
  BY <1>5, <1>6, Zenon

(* The steps that only move a cursor or the phase.                         *)
LEMMA QuietInv ==
    ASSUME TableInv, UNCHANGED <<objects, objectsCount, refs, owned, holds, closing>>,
           cursor' \in [Threads -> Handles \cup {objectsLen, -1}],
           phase' \in {"inUse", "destruct", "gone"}, Swept'
    PROVE  TableInv'
<1>1. TypeOK'
  BY InvParts, Zenon DEF TypeOK
<1> QED
  BY <1>1, InvParts, InvPartsNext, Zenon DEF Counted

(* The end of ObjectTable_destruct: no slot is occupied.                   *)
LEMMA DestructEndInv ==
    ASSUME TableInv, NEW t \in Threads, DestructEnd(t)
    PROVE  TableInv' /\ Occupied = {}
<1>1. TypeOK /\ Swept /\ objectsCount = CountNot(Handles, objects, NULL)
  BY InvParts, Zenon
<1>2. Occupied = {}
  BY <1>1, TableAssumption DEF DestructEnd, Swept, Occupied, Handles
<1>3. CountNot(Handles, objects, NULL) = 0
  BY <1>2, SizesAsCounts, FS_EmptySet, Zenon
<1>4. UNCHANGED <<objects, objectsCount, refs, owned, holds, closing>>
  BY <1>1, <1>3, Zenon DEF DestructEnd
<1>5. cursor' \in [Threads -> Handles \cup {objectsLen, -1}] /\ phase' = "gone" /\ Swept'
  BY <1>1, Zenon DEF DestructEnd, TypeOK, Swept
<1> QED
  BY <1>2, <1>4, <1>5, QuietInv, Zenon

(* Every step of the table keeps the invariant.                            *)
THEOREM TableInvInductive == TableInv /\ [Next]_vars => TableInv'
<1> SUFFICES ASSUME TableInv, [Next]_vars
             PROVE  TableInv'
  BY Zenon
<1>t. TypeOK /\ Swept
  BY InvParts, Zenon
<1>c. /\ GENERIC_HANDLE \in Handles /\ PRIMORDIAL_HANDLE \in Handles
      /\ PRIMORDIAL_HANDLE - 1 \in Handles /\ objectsLen - 1 \in Handles /\ 0 \in Handles
      /\ Generic \subseteq Handles
  BY TableAssumption DEF Handles, Generic
<1>1. ASSUME NEW t \in Threads, NEW o \in Objs,
             ObjectTable_addObject(t, o) \/ ObjectTable_AddPrimordial(t, o)
      PROVE  TableInv'
  <2>1. PICK n \in Handles : /\ phase = "inUse" /\ ObjectTable_add(o, n)
                             /\ UNCHANGED <<owned, holds, closing, cursor, phase>>
    BY <1>1, <1>c, Zenon DEF ObjectTable_addObject, ObjectTable_AddPrimordial, Free
  <2> QED
    BY <2>1, AddInv, Zenon
<1>2. ASSUME NEW t \in Threads, NEW h \in Handles, ObjectTable_recoverObject(t, h)
      PROVE  TableInv'
  BY <1>2, RecoverInv, Zenon
<1>3. ASSUME NEW t \in Threads, NEW h \in Generic \cup {PRIMORDIAL_HANDLE},
             ObjectTable_releaseHandle(t, h)
      PROVE  TableInv'
  <2>1. /\ h \in Handles /\ objects[h] # NULL /\ closing[t] = NULL /\ CloseSlot(t, h)
        /\ UNCHANGED <<refs, owned, holds, phase>>
        /\ cursor' \in [Threads -> Handles \cup {objectsLen, -1}]
    BY <1>3, <1>c, <1>t, Zenon DEF ObjectTable_releaseHandle, Free, TypeOK
  <2>2. Swept'
    BY <1>3, Zenon DEF ObjectTable_releaseHandle, Free, Swept
  <2> QED
    BY <2>1, <2>2, CloseSlotInv, Zenon
<1>4. ASSUME NEW t \in Threads, CloseAllBegin(t) \/ CloseAllEnd(t)
      PROVE  TableInv'
  <2>1. /\ UNCHANGED <<objects, objectsCount, refs, owned, holds, closing>>
        /\ phase' = "inUse" /\ Swept'
    BY <1>4, Zenon DEF CloseAllBegin, CloseAllEnd, Free, tableVars, Swept
  <2>2. cursor' \in [Threads -> Handles \cup {objectsLen, -1}]
    BY <1>4, <1>t, <1>c, Zenon DEF CloseAllBegin, CloseAllEnd, TypeOK
  <2> QED
    BY <2>1, <2>2, QuietInv, Zenon
<1>5. ASSUME NEW t \in Threads, DestructBegin(t)
      PROVE  TableInv'
  <2>1. /\ UNCHANGED <<objects, objectsCount, refs, owned, holds, closing>>
        /\ phase' = "destruct"
        /\ cursor' \in [Threads -> Handles \cup {objectsLen, -1}]
    BY <1>5, <1>t, <1>c, Zenon DEF DestructBegin, TypeOK, tableVars
  <2>2. \A u \in Threads : cursor'[u] \in {0, -1}
    BY <1>5, <1>t, Zenon DEF DestructBegin, TypeOK, Free
  <2>3. Swept'
    BY <2>2, TableAssumption DEF Swept, Handles
  <2> QED
    BY <2>1, <2>3, QuietInv, Zenon
<1>6. ASSUME NEW t \in Threads, CloseAllNext(t) \/ DestructNext(t)
      PROVE  TableInv'
  BY <1>6, <1>c, CloseNextInv, Zenon DEF CloseAllNext, DestructNext
<1>7. ASSUME NEW t \in Threads, HolderRelease(t) \/ CloseRelease(t) \/ DestructEnd(t)
      PROVE  TableInv'
  BY <1>7, HolderReleaseInv, CloseReleaseInv, DestructEndInv, Zenon
<1>8. ASSUME NEW o \in Objs, CreatorRelease(o)
      PROVE  TableInv'
  BY <1>8, CreatorReleaseInv, Zenon
<1>9. CASE UNCHANGED vars
  BY <1>9, <1>t, InvParts, QuietInv, Zenon DEF vars, tableVars, TypeOK, Swept
<1> QED
  BY <1>1, <1>2, <1>3, <1>4, <1>5, <1>6, <1>7, <1>8, <1>9, Zenon DEF Next, Loops

(* The empty table satisfies it: each object has its creator's reference.  *)
LEMMA TableInvInit == Init => TableInv
<1> SUFFICES ASSUME Init
             PROVE  TableInv
  BY Zenon
<1>1. TypeOK /\ Swept
  BY TableAssumption, Zenon DEF Init, TypeOK, Swept
<1>2. Occupied = {} /\ \A o \in Objs : SlotsOf(o) = {} /\ HandsOf(o) = {} /\ ClosersOf(o) = {}
  BY TableAssumption, Zenon DEF Init, Occupied, SlotsOf, HandsOf, ClosersOf
<1>3. CountExact
  BY <1>2, FS_EmptySet, Zenon DEF CountExact, Init
<1>4. RefsExact
  BY <1>2, FS_EmptySet DEF RefsExact, Init
<1> QED
  BY <1>1, <1>3, <1>4, Zenon DEF TableInv

(* In every behaviour of the table, objectsCount and the reference counts  *)
(* are exact, whatever the threads interleave.                             *)
THEOREM TableSafe == Spec => []TableInv
BY TableInvInit, TableInvInductive, PTL DEF Spec

(* A recovered object can be used, even when its slot was closed and       *)
(* reused meanwhile.                                                       *)
THEOREM TableRecoveredAlive == Spec => []RecoveredAlive
<1>1. TableInv => RecoveredAlive
  BY Referenced, InvParts, Zenon DEF RecoveredAlive, TypeOK
<1> QED
  BY <1>1, TableSafe, PTL

(* ObjectTable_isCleaned never holds while the remote side has a handle.   *)
THEOREM TableCleaned == Spec => []CleanedMeansEmpty
<1>1. TableInv => CleanedMeansEmpty
  <2> SUFFICES ASSUME TableInv, ObjectTable_isCleaned,
                      NEW h \in Handles \ {PRIMORDIAL_HANDLE}, objects[h] # NULL
               PROVE  FALSE
    BY Zenon DEF CleanedMeansEmpty
  <2> DEFINE Two == {h} \cup {PRIMORDIAL_HANDLE}
  <2>1. PRIMORDIAL_HANDLE \in Handles /\ objects[PRIMORDIAL_HANDLE] # NULL /\ objectsCount = 1
    BY FiniteDomains, Zenon DEF ObjectTable_isCleaned
  <2>2. Two \in SUBSET Occupied /\ Occupied \in SUBSET Handles
    BY <2>1, Zenon DEF Occupied
  <2>3. IsFiniteSet(Occupied)
    BY <2>2, FiniteDomains, FS_Subset, Zenon
  <2>4. Cardinality(Two) <= Cardinality(Occupied)
    BY <2>2, <2>3, FS_Subset, Zenon
  <2>5. Cardinality(Two) = 2
    <3>1. IsFiniteSet({h}) /\ Cardinality({h}) = 1
      BY FS_Singleton, Zenon
    <3>2. PRIMORDIAL_HANDLE \notin {h}
      BY Zenon
    <3> QED
      BY <3>1, <3>2, FS_AddElement
  <2>6. Cardinality(Occupied) = 1
    BY <2>1, Zenon DEF TableInv, CountExact
  <2> HIDE DEF Two
  <2> QED
    BY <2>4, <2>5, <2>6
<1> QED
  BY <1>1, TableSafe, PTL

(* A handle in use keeps its meaning until it is closed.                   *)
THEOREM TableHandleStable == Spec => HandleStable
<1>1. TypeOK /\ [Next]_vars =>
        [\A h \in Handles : objects[h] # NULL => objects'[h] \in {objects[h], NULL}]_vars
  <2> SUFFICES ASSUME TypeOK, Next, NEW h \in Handles, objects[h] # NULL
               PROVE  objects'[h] \in {objects[h], NULL}
    BY Zenon
  <2>1. ASSUME NEW o \in Objs, NEW n \in Handles, ObjectTable_add(o, n)
        PROVE  objects'[h] = objects[h]
    BY <2>1, Zenon DEF ObjectTable_add, TypeOK
  <2>2. ASSUME NEW t \in Threads, NEW n \in Handles, CloseSlot(t, n)
        PROVE  objects'[h] \in {objects[h], NULL}
    BY <2>2, Zenon DEF CloseSlot, TypeOK
  <2>3. Generic \subseteq Handles /\ PRIMORDIAL_HANDLE \in Handles
    BY FiniteDomains, Zenon
  <2>4. ASSUME NEW t \in Threads, NEW last \in {PRIMORDIAL_HANDLE - 1, objectsLen - 1}, CloseNext(t, last)
        PROVE  objects'[h] \in {objects[h], NULL}
    <3>1. cursor[t] \in Handles
      BY <2>4, TableAssumption DEF CloseNext, Handles
    <3> QED
      BY <2>2, <2>4, <3>1, Zenon DEF CloseNext, tableVars
  <2>5. ASSUME NEW t \in Threads, Loops(t)
        PROVE  objects'[h] \in {objects[h], NULL}
    BY <2>4, <2>5, Zenon DEF Loops, CloseRelease, CloseAllNext, CloseAllEnd, DestructNext, DestructEnd, tableVars
  <2>6. ASSUME NEW t \in Threads, NEW n \in Generic \cup {PRIMORDIAL_HANDLE}, ObjectTable_releaseHandle(t, n)
        PROVE  objects'[h] \in {objects[h], NULL}
    BY <2>2, <2>3, <2>6, Zenon DEF ObjectTable_releaseHandle
  <2>7. ASSUME NEW t \in Threads, NEW o \in Objs, ObjectTable_addObject(t, o) \/ ObjectTable_AddPrimordial(t, o)
        PROVE  objects'[h] \in {objects[h], NULL}
    BY <2>1, <2>3, <2>7, Zenon DEF ObjectTable_addObject, ObjectTable_AddPrimordial
  <2> QED
    BY <2>5, <2>6, <2>7, Zenon DEF Next, ObjectTable_recoverObject, CloseAllBegin, DestructBegin,
                            HolderRelease, CreatorRelease, tableVars
<1>2. TableInv => TypeOK
  BY Zenon DEF TableInv
<1> QED
  BY <1>1, <1>2, TableSafe, PTL DEF Spec, HandleStable
=============================================================================
