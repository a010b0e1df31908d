--------------------------- MODULE SchedulerProofs ---------------------------
(* What is proved of the scheduler for every number of workers, every work   *)
(* list and every set of capacities.                                         *)
EXTENDS SchedulerQueues, FiniteSetTheorems, WellFoundedInduction, TLAPS

-----------------------------------------------------------------------------
(* Facts about the constants and the selection order. *)

LEMMA JobFields ==
  ASSUME NEW i \in Work
  PROVE  /\ WorkList[i].file \in Files
         /\ WorkList[i].item \in Items
         /\ WorkList[i].package \in Packages
         /\ WorkList[i].resources \subseteq Resources
         /\ Key(i) \in Keys
BY WorkAssumption DEF Job, Key, Keys

\* The first criterion is the number of turns: what precedes has had no more.
LEMMA TurnsFirst ==
  ASSUME NEW a, NEW b, a.turns \in Int, b.turns \in Int, Precedes(a, b)
  PROVE  a.turns <= b.turns
<1>1. PICK k \in 1..8 : /\ Criteria(a, b)[k] < 0
                        /\ \A j \in 1..(k - 1) : Criteria(a, b)[j] = 0
  BY DEF Precedes
<1>2. Criteria(a, b)[1] = a.turns - b.turns
  BY DEF Criteria
<1>3. CASE k = 1
  BY <1>1, <1>2, <1>3
<1>4. CASE k # 1
  <2>1. 1 \in 1..(k - 1)
    BY <1>1, <1>4
  <2> QED
    BY <2>1, <1>1, <1>2
<1> QED
  BY <1>3, <1>4

-----------------------------------------------------------------------------
(* Type correctness. *)

LEMMA TypeInit == Init => TypeOK
<1> SUFFICES ASSUME Init PROVE TypeOK
  OBVIOUS
<1>1. remainingCount \in Int
  <2>1. IsFiniteSet(Pending)
    BY WorkAssumption, FS_Subset
  <2> QED
    BY <2>1, FS_CardinalityType DEF Init
<1>2. transferItems \subseteq Keys
  BY JobFields DEF Init
<1>3. pc \in [Threads -> Places]
  BY DEF Init, Threads, Places
<1>4. /\ activeFiles \in [Files -> Int]
      /\ activeItems \in [Keys -> Int]
      /\ activeResources \in [Resources -> Int]
  BY DEF Init
<1>5. /\ packageTurns \in [Packages -> Nat]
      /\ claimed \in [Workers -> Work \cup {NoWork}]
      /\ remaining \subseteq Work
  BY WorkAssumption DEF Init
<1>6. learnedItems \subseteq Keys /\ lock \in Workers \cup {Free} /\ abandoned \in BOOLEAN
  BY DEF Init
<1> QED
  BY <1>1, <1>2, <1>3, <1>4, <1>5, <1>6 DEF TypeOK

LEMMA ReleaseType ==
  ASSUME TypeOK, NEW w \in Workers, claimed[w] # NoWork,
         NEW learned, NEW transfer, Release(w, learned, transfer)
  PROVE  /\ activeFiles' \in [Files -> Int]
         /\ activeItems' \in [Keys -> Int]
         /\ activeResources' \in [Resources -> Int]
         /\ learnedItems' \subseteq Keys
         /\ transferItems' \subseteq Keys
         /\ claimed' \in [Workers -> Work \cup {NoWork}]
         /\ UNCHANGED <<remaining, remainingCount, packageTurns, lock, abandoned>>
<1>1. claimed[w] \in Work
  BY DEF TypeOK
<1>2. Key(claimed[w]) \in Keys
  BY <1>1, JobFields
<1>3. learnedItems' \subseteq Keys /\ transferItems' \subseteq Keys
  BY <1>2 DEF Release, TypeOK
<1>4. /\ activeFiles' \in [Files -> Int]
      /\ activeItems' \in [Keys -> Int]
  BY <1>1, <1>2, JobFields DEF Release, TypeOK
<1>5. activeResources' \in [Resources -> Int]
  BY <1>1 DEF Release, TypeOK, Flag
<1>6. claimed' \in [Workers -> Work \cup {NoWork}]
  BY DEF Release, TypeOK
<1> QED
  BY <1>3, <1>4, <1>5, <1>6 DEF Release

\* A live assignment is exactly what a judging worker holds, and the mutex is
\* held between two steps only by a claim that is deciding.
PlaceOK ==
  /\ \A w \in Workers : claimed[w] # NoWork <=> pc[w] \in {"judging", "dropping"}
  /\ \A w \in Workers : pc[w] = "deciding" <=> lock = w
  /\ pc[Drain] \in {"draining", "abandoning", "done"}
  /\ \A w \in Workers : pc[w] # "draining"
  /\ \A t \in Threads : pc[t] \in {"dropping", "dropped", "abandoning"} => abandoned

LEMMA WakePlaces ==
  ASSUME pc \in [Threads -> Places], NEW t \in Threads, NEW place \in Places, Wake(t, place)
  PROVE  /\ pc' \in [Threads -> Places]
         /\ pc'[t] = place
         /\ \A u \in Threads \ {t} : pc'[u] = IF pc[u] = "blocked" THEN "claim" ELSE pc[u]
BY DEF Wake, Places

LEMMA TypeStep ==
  ASSUME TypeOK, PlaceOK, [Next]_vars
  PROVE  TypeOK' /\ PlaceOK'
<1> USE ThreadAssumption, WorkAssumption
<1>1. ASSUME NEW w \in Workers, LoopHead(w) PROVE TypeOK' /\ PlaceOK'
  BY <1>1 DEF LoopHead, TypeOK, PlaceOK, Goto, queue, Threads, Places
<1>2. ASSUME NEW w \in Workers, EnterClaim(w) PROVE TypeOK' /\ PlaceOK'
  BY <1>2 DEF EnterClaim, TypeOK, PlaceOK, Goto, queue, Threads, Places
<1>3. ASSUME NEW w \in Workers, NEW i \in Work, Reserve(w, i) PROVE TypeOK' /\ PlaceOK'
  <2>1. activeFiles' \in [Files -> Int] /\ activeItems' \in [Keys -> Int]
    BY <1>3, JobFields DEF Reserve, Take, TypeOK
  <2>2. activeResources' \in [Resources -> Int]
    BY <1>3 DEF Reserve, Take, TypeOK, Flag
  <2>3. packageTurns' \in [Packages -> Nat]
    BY <1>3, JobFields DEF Reserve, Take, TypeOK
  <2>4. /\ pc' \in [Threads -> Places]
        /\ claimed' \in [Workers -> Work \cup {NoWork}]
        /\ remaining' \subseteq Work
        /\ remainingCount' \in Int
    BY <1>3 DEF Reserve, Take, TypeOK, Goto, Threads, Places
  <2>5. PlaceOK'
    BY <1>3 DEF Reserve, Take, TypeOK, PlaceOK, Goto, Threads
  <2> QED
    BY <1>3, <2>1, <2>2, <2>3, <2>4, <2>5 DEF Reserve, Take, TypeOK
<1>4. ASSUME NEW w \in Workers, Exhausted(w) \/ Block(w) PROVE TypeOK' /\ PlaceOK'
  BY <1>4 DEF Exhausted, Block, TypeOK, PlaceOK, Goto, queue, Threads, Places
<1>5. ASSUME NEW w \in Workers, SpuriousWake(w) PROVE TypeOK' /\ PlaceOK'
  BY <1>5 DEF SpuriousWake, TypeOK, PlaceOK, Goto, queue, Threads, Places
<1>6. ASSUME NEW w \in Workers, NEW transfer, Complete(w, transfer) PROVE TypeOK' /\ PlaceOK'
  <2>1. claimed[w] # NoWork
    BY <1>6 DEF Complete, PlaceOK
  <2>2. TypeOK'
    BY <1>6, <2>1, ReleaseType DEF Complete, TypeOK, Goto, Threads, Places
  <2> QED
    BY <1>6, <2>2 DEF Complete, Release, TypeOK, PlaceOK, Goto, Threads
<1>7. ASSUME NEW w \in Workers, Defer(w) PROVE TypeOK' /\ PlaceOK'
  <2>1. claimed[w] # NoWork
    BY <1>7 DEF Defer, PlaceOK
  <2>2. TypeOK'
    BY <1>7, <2>1, ReleaseType DEF Defer, TypeOK, Goto, Threads, Places
  <2> QED
    BY <1>7, <2>2 DEF Defer, Release, TypeOK, PlaceOK, Goto, Threads
<1>8. ASSUME NEW w \in Workers, DropAbandoned(w) PROVE TypeOK' /\ PlaceOK'
  <2>1. claimed[w] # NoWork
    BY <1>8 DEF DropAbandoned, PlaceOK
  <2>2. TypeOK'
    BY <1>8, <2>1, ReleaseType DEF DropAbandoned, TypeOK, Goto, Threads, Places
  <2> QED
    BY <1>8, <2>2 DEF DropAbandoned, Release, TypeOK, PlaceOK, Goto, Threads
<1>9. ASSUME NEW w \in Workers, LoseContainment(w) PROVE TypeOK' /\ PlaceOK'
  BY <1>9 DEF LoseContainment, TypeOK, PlaceOK, Goto, queue, Threads, Places
<1>10. ASSUME NEW w \in Workers, NotifyReleased(w) \/ NotifyDropped(w)
       PROVE TypeOK' /\ PlaceOK'
  <2>1. PICK place \in {"loop", "abandoning"} :
           /\ Wake(w, place)
           /\ pc[w] = IF place = "loop" THEN "notify" ELSE "dropped"
    BY <1>10 DEF NotifyReleased, NotifyDropped
  <2>2. UNCHANGED <<queue, lock, claimed, abandoned>>
    BY <1>10 DEF NotifyReleased, NotifyDropped
  <2>3. /\ pc' \in [Threads -> Places]
        /\ pc'[w] = place
        /\ \A u \in Threads \ {w} : pc'[u] = IF pc[u] = "blocked" THEN "claim" ELSE pc[u]
    BY <2>1, WakePlaces DEF TypeOK, Threads, Places
  <2>4. TypeOK'
    BY <2>2, <2>3 DEF TypeOK, queue
  <2> QED
    BY <2>1, <2>2, <2>3, <2>4 DEF PlaceOK, TypeOK, queue, Threads
<1>11. ASSUME FailCheckpoint PROVE TypeOK' /\ PlaceOK'
  BY <1>11 DEF FailCheckpoint, TypeOK, PlaceOK, Goto, queue, Threads, Places
<1>12. ASSUME NEW t \in Threads, Abandon(t) PROVE TypeOK' /\ PlaceOK'
  <2>2. UNCHANGED <<queue, lock, claimed, abandoned>> /\ pc[t] = "abandoning"
    BY <1>12 DEF Abandon
  <2>3. /\ pc' \in [Threads -> Places]
        /\ pc'[t] = "done"
        /\ \A u \in Threads \ {t} : pc'[u] = IF pc[u] = "blocked" THEN "claim" ELSE pc[u]
    BY <1>12, WakePlaces DEF Abandon, TypeOK, Places
  <2>4. TypeOK'
    BY <2>2, <2>3 DEF TypeOK, queue
  <2> QED
    BY <2>2, <2>3, <2>4 DEF PlaceOK, TypeOK, queue, Threads
<1>13. ASSUME DrainEnds PROVE TypeOK' /\ PlaceOK'
  BY <1>13 DEF DrainEnds, TypeOK, PlaceOK, Goto, queue, Threads, Places
<1>14. ASSUME UNCHANGED vars PROVE TypeOK' /\ PlaceOK'
  BY <1>14 DEF vars, queue, TypeOK, PlaceOK
<1> QED
  BY <1>1, <1>2, <1>3, <1>4, <1>5, <1>6, <1>7, <1>8, <1>9, <1>10, <1>11, <1>12, <1>13, <1>14
  DEF Next, Worker, Claim, Judge, Threads

\* TypeOK: every counter, flag and place stays in its range, whatever the threads
\* do and whatever fails.
THEOREM TypeInvariant == Spec => [](TypeOK /\ PlaceOK)
<1>1. Init => TypeOK /\ PlaceOK
  <2>1. Init => PlaceOK
    BY ThreadAssumption, WorkAssumption DEF Init, PlaceOK, Threads
  <2> QED
    BY <2>1, TypeInit
<1>2. TypeOK /\ PlaceOK /\ [Next]_vars => TypeOK' /\ PlaceOK'
  BY TypeStep
<1> QED
  BY <1>1, <1>2, PTL DEF Spec

-----------------------------------------------------------------------------
(* Turn taking, claims, and the counters. *)

\* Only a reservation touches the unclaimed work and the turns.
LEMMA QueueUntouched ==
  ASSUME [Next]_vars,
         \A w \in Workers, i \in Work : ~Reserve(w, i)
  PROVE  UNCHANGED <<remaining, remainingCount, packageTurns>>
BY DEF Next, Worker, Claim, Judge, LoopHead, EnterClaim, Exhausted, Block, SpuriousWake,
       Complete, Defer, Release, NotifyReleased, LoseContainment, DropAbandoned,
       NotifyDropped, FailCheckpoint, Abandon, DrainEnds, Finished, vars, queue

\* PackagesTakeTurns: a package with unclaimed work is never more than one claim
\* behind (Scheduler::reserve_next and PackageHead::cmp).
THEOREM TurnTaking == Spec => []PackagesTakeTurns
<1>1. Init => PackagesTakeTurns
  BY JobFields, WorkAssumption DEF Init, PackagesTakeTurns
<1>2. TypeOK /\ PackagesTakeTurns /\ [Next]_vars => PackagesTakeTurns'
  <2> SUFFICES ASSUME TypeOK, PackagesTakeTurns, [Next]_vars, DOMAIN Capacity = {},
                      NEW j \in remaining', NEW p \in Packages
               PROVE  packageTurns'[p] <= packageTurns'[WorkList[j].package] + 1
    BY DEF PackagesTakeTurns
  <2>1. CASE \A w \in Workers, i \in Work : ~Reserve(w, i)
    BY <2>1, QueueUntouched DEF PackagesTakeTurns
  <2>2. ASSUME NEW w \in Workers, NEW i \in Work, Reserve(w, i)
        PROVE  packageTurns'[p] <= packageTurns'[WorkList[j].package] + 1
    <3> DEFINE own == WorkList[i].package
               q == WorkList[j].package
    <3>1. /\ j \in remaining /\ j # i /\ j \in Work
          /\ packageTurns' = [packageTurns EXCEPT ![own] = @ + 1]
      BY <2>2 DEF Reserve, Take, TypeOK
    <3>2. own \in Packages /\ q \in Packages
      BY <3>1, JobFields
    <3>3. packageTurns[own] \in Nat /\ packageTurns[q] \in Nat /\ packageTurns[p] \in Nat
      BY <3>2 DEF TypeOK
    <3>4. Available = remaining
      BY DEF Available, ResourcesAvailable
    <3>5. Precedes(Head(i), Head(j))
      BY <2>2, <3>1, <3>4 DEF Reserve, Take, Selected
    <3>6. Head(i).turns = packageTurns[own] /\ Head(j).turns = packageTurns[q]
      BY DEF Head
    <3>7. packageTurns[own] <= packageTurns[q]
      BY <3>3, <3>5, <3>6, TurnsFirst
    <3>8. packageTurns[p] <= packageTurns[q] + 1
      BY <3>1 DEF PackagesTakeTurns
    <3> QED
      BY <3>1, <3>2, <3>3, <3>7, <3>8 DEF TypeOK
  <2> QED
    BY <2>1, <2>2
<1> QED
  BY <1>1, <1>2, TypeInvariant, PTL DEF Spec

LEMMA PendingFinite == IsFiniteSet(Pending) /\ IsFiniteSet(Work)
BY WorkAssumption, FS_Subset

\* The cached count tells an empty queue from a busy one.
CountOK ==
  /\ remaining \subseteq Pending
  /\ remainingCount = Cardinality(remaining)

LEMMA CountZero ==
  ASSUME CountOK
  PROVE  remainingCount = 0 <=> remaining = {}
BY PendingFinite, FS_Subset, FS_EmptySet DEF CountOK

LEMMA CountInvariant == Spec => []CountOK
<1>1. Init => CountOK
  BY DEF Init, CountOK
<1>2. TypeOK /\ CountOK /\ [Next]_vars => CountOK'
  <2> SUFFICES ASSUME TypeOK, CountOK, [Next]_vars PROVE CountOK'
    OBVIOUS
  <2>1. CASE \A w \in Workers, i \in Work : ~Reserve(w, i)
    BY <2>1, QueueUntouched DEF CountOK
  <2>2. ASSUME NEW w \in Workers, NEW i \in Work, Reserve(w, i) PROVE CountOK'
    <3>1. i \in remaining /\ remaining' = remaining \ {i}
          /\ remainingCount' = remainingCount - 1
      BY <2>2 DEF Reserve, Take, Selected, Available
    <3>2. IsFiniteSet(remaining)
      BY PendingFinite, FS_Subset DEF CountOK
    <3>3. Cardinality(remaining \ {i}) = Cardinality(remaining) - 1
      BY <3>1, <3>2, FS_RemoveElement
    <3> QED
      BY <3>1, <3>3 DEF CountOK
  <2> QED
    BY <2>1, <2>2
<1> QED
  BY <1>1, <1>2, TypeInvariant, PTL DEF Spec

\* ClaimedOnce (Scheduler::reserve_next, and release never re-queueing).
THEOREM ClaimsAreUnique == Spec => []ClaimedOnce
<1>1. Init => ClaimedOnce
  BY DEF Init, ClaimedOnce
<1>2. TypeOK /\ CountOK /\ ClaimedOnce /\ [Next]_vars => ClaimedOnce'
  <2> SUFFICES ASSUME TypeOK, CountOK, ClaimedOnce, [Next]_vars PROVE ClaimedOnce'
    OBVIOUS
  <2>1. ASSUME NEW w \in Workers, NEW i \in Work, Reserve(w, i) PROVE ClaimedOnce'
    <3>1. /\ i \in remaining /\ remaining' = remaining \ {i}
          /\ claimed' = [claimed EXCEPT ![w] = i]
      BY <2>1 DEF Reserve, Take, Selected, Available
    <3> QED
      BY <3>1 DEF ClaimedOnce, CountOK, TypeOK
  <2>2. ASSUME NEW w \in Workers, NEW learned, NEW transfer, Release(w, learned, transfer)
        PROVE  ClaimedOnce'
    BY <2>2 DEF Release, ClaimedOnce, TypeOK
  <2>3. CASE UNCHANGED <<remaining, claimed>>
    BY <2>3 DEF ClaimedOnce
  <2> QED
    BY <2>1, <2>2, <2>3 DEF Next, Worker, Claim, Judge, LoopHead, EnterClaim, Exhausted,
       Block, SpuriousWake, Complete, Defer, NotifyReleased, LoseContainment,
       DropAbandoned, NotifyDropped, FailCheckpoint, Abandon, DrainEnds, Finished, vars, queue
<1> QED
  BY <1>1, <1>2, TypeInvariant, CountInvariant, PTL DEF Spec

\* WaitsOnlyForResources: reserve_next always finds something in a queue that
\* is not exhausted, unless a resource is missing.
THEOREM NoIdleWaiting == Spec => []WaitsOnlyForResources
<1>1. Init => WaitsOnlyForResources
  BY ThreadAssumption DEF Init, WaitsOnlyForResources, Threads
<1>2. TypeOK /\ PlaceOK /\ CountOK /\ WaitsOnlyForResources /\ [Next]_vars
        => WaitsOnlyForResources'
  <2> SUFFICES ASSUME TypeOK, PlaceOK, CountOK, WaitsOnlyForResources, [Next]_vars,
                      \A i \in Work : WorkList[i].resources = {},
                      NEW v \in Workers
               PROVE  pc'[v] # "blocked"
    BY DEF WaitsOnlyForResources
  <2>1. pc[v] # "blocked"
    BY DEF WaitsOnlyForResources
  <2>2. Available = remaining
    BY DEF Available, ResourcesAvailable, TypeOK
  <2>3. ASSUME NEW w \in Workers, Block(w) PROVE FALSE
    BY <2>2, <2>3, CountZero DEF Block
  <2> QED
    BY <2>1, <2>3, ThreadAssumption DEF Next, Worker, Claim, Judge, LoopHead, EnterClaim, Exhausted,
       Reserve, Take, SpuriousWake, Complete, Defer, Release, NotifyReleased, LoseContainment,
       DropAbandoned, NotifyDropped, FailCheckpoint, Abandon, DrainEnds, Finished, vars,
       Wake, Goto, TypeOK, Threads
<1> QED
  BY <1>1, <1>2, TypeInvariant, CountInvariant, PTL DEF Spec

\* CapacityRespected (Scheduler::resources_available).
THEOREM CapacitiesHold == Spec => []CapacityRespected
<1>1. Init => CapacityRespected
  BY CapacityAssumption DEF Init, CapacityRespected, Limit
<1>2. TypeOK /\ PlaceOK /\ CapacityRespected /\ [Next]_vars => CapacityRespected'
  <2> SUFFICES ASSUME TypeOK, PlaceOK, CapacityRespected, [Next]_vars,
                      DOMAIN Capacity # {}, NEW r \in Resources
               PROVE  activeResources'[r] <= Limit(r)
    BY DEF CapacityRespected
  <2>1. activeResources[r] <= Limit(r) /\ activeResources[r] \in Int /\ Limit(r) \in Int
    BY CapacityAssumption DEF CapacityRespected, TypeOK, Limit
  <2>2. ASSUME NEW w \in Workers, NEW i \in Work, Reserve(w, i)
        PROVE  activeResources'[r] <= Limit(r)
    <3>1. r \in WorkList[i].resources => activeResources[r] < Limit(r)
      BY <2>2 DEF Reserve, Take, Selected, Available, ResourcesAvailable
    <3>2. activeResources'[r] = activeResources[r] + Flag(r \in WorkList[i].resources)
      BY <2>2 DEF Reserve, Take
    <3> QED
      BY <2>1, <3>1, <3>2 DEF Flag
  <2>3. ASSUME NEW w \in Workers, NEW learned, NEW transfer, Release(w, learned, transfer)
        PROVE  activeResources'[r] <= Limit(r)
    <3>1. activeResources'[r] = activeResources[r] - Flag(r \in WorkList[claimed[w]].resources)
      BY <2>3 DEF Release
    <3> QED
      BY <2>1, <3>1 DEF Flag
  <2>4. CASE UNCHANGED activeResources
    BY <2>1, <2>4
  <2> QED
    BY <2>2, <2>3, <2>4 DEF Next, Worker, Claim, Judge, LoopHead, EnterClaim, Exhausted,
       Block, SpuriousWake, Complete, Defer, NotifyReleased, LoseContainment,
       DropAbandoned, NotifyDropped, FailCheckpoint, Abandon, DrainEnds, Finished, vars, queue
<1> QED
  BY <1>1, <1>2, TypeInvariant, PTL DEF Spec

-----------------------------------------------------------------------------
(* The reservation counters. *)

Counters ==
  /\ \A f \in Files : activeFiles[f] = Cardinality(FileHolders(f))
  /\ \A k \in Keys : activeItems[k] = Cardinality(ItemHolders(k))
  /\ \A r \in Resources : activeResources[r] = Cardinality(ResourceHolders(r))

LEMMA HoldersFinite ==
  /\ \A f : IsFiniteSet(FileHolders(f))
  /\ \A k : IsFiniteSet(ItemHolders(k))
  /\ \A r : IsFiniteSet(ResourceHolders(r))
BY ThreadAssumption, FS_Subset DEF FileHolders, ItemHolders, ResourceHolders

\* A claim adds its worker to the holders of its file, item and resources.
LEMMA ReserveCounts ==
  ASSUME TypeOK, PlaceOK, Counters, NEW w \in Workers, NEW i \in Work, Reserve(w, i)
  PROVE  Counters'
<1>1. claimed[w] = NoWork /\ claimed' = [claimed EXCEPT ![w] = i] /\ i # NoWork
  BY WorkAssumption DEF Reserve, Take, PlaceOK
<1>2. ASSUME NEW f \in Files PROVE activeFiles'[f] = Cardinality(FileHolders(f)')
  <2>1. FileHolders(f)' = IF WorkList[i].file = f THEN FileHolders(f) \cup {w} ELSE FileHolders(f)
    BY <1>1 DEF FileHolders, TypeOK
  <2>2. w \notin FileHolders(f)
    BY <1>1 DEF FileHolders
  <2>3. activeFiles'[f] = IF WorkList[i].file = f THEN activeFiles[f] + 1 ELSE activeFiles[f]
    BY DEF Reserve, Take, TypeOK
  <2>4. Cardinality(FileHolders(f) \cup {w}) = Cardinality(FileHolders(f)) + 1
    BY <2>2, HoldersFinite, FS_AddElement
  <2> QED
    BY <2>1, <2>3, <2>4 DEF Counters
<1>3. ASSUME NEW k \in Keys PROVE activeItems'[k] = Cardinality(ItemHolders(k)')
  <2>1. ItemHolders(k)' = IF Key(i) = k THEN ItemHolders(k) \cup {w} ELSE ItemHolders(k)
    BY <1>1 DEF ItemHolders, TypeOK
  <2>2. w \notin ItemHolders(k)
    BY <1>1 DEF ItemHolders
  <2>3. activeItems'[k] = IF Key(i) = k THEN activeItems[k] + 1 ELSE activeItems[k]
    BY DEF Reserve, Take, TypeOK
  <2>4. Cardinality(ItemHolders(k) \cup {w}) = Cardinality(ItemHolders(k)) + 1
    BY <2>2, HoldersFinite, FS_AddElement
  <2> QED
    BY <2>1, <2>3, <2>4 DEF Counters
<1>4. ASSUME NEW r \in Resources PROVE activeResources'[r] = Cardinality(ResourceHolders(r)')
  <2>1. ResourceHolders(r)' = IF r \in WorkList[i].resources
                              THEN ResourceHolders(r) \cup {w} ELSE ResourceHolders(r)
    BY <1>1 DEF ResourceHolders, TypeOK
  <2>2. w \notin ResourceHolders(r)
    BY <1>1 DEF ResourceHolders
  <2>3. activeResources'[r] = activeResources[r] + Flag(r \in WorkList[i].resources)
    BY DEF Reserve, Take
  <2>4. activeResources[r] \in Int
    BY DEF TypeOK
  <2>5. Cardinality(ResourceHolders(r) \cup {w}) = Cardinality(ResourceHolders(r)) + 1
    BY <2>2, HoldersFinite, FS_AddElement
  <2> QED
    BY <2>1, <2>3, <2>4, <2>5 DEF Counters, Flag
<1> QED
  BY <1>2, <1>3, <1>4 DEF Counters

\* A dropped assignment takes its worker out of the same sets.
LEMMA ReleaseCounts ==
  ASSUME TypeOK, Counters, NEW w \in Workers, claimed[w] # NoWork,
         NEW learned, NEW transfer, Release(w, learned, transfer)
  PROVE  Counters'
<1> DEFINE i == claimed[w]
<1>1. claimed' = [claimed EXCEPT ![w] = NoWork] /\ i \in Work
  BY DEF Release, TypeOK
<1>2. ASSUME NEW f \in Files PROVE activeFiles'[f] = Cardinality(FileHolders(f)')
  <2>1. FileHolders(f)' = IF WorkList[i].file = f THEN FileHolders(f) \ {w} ELSE FileHolders(f)
    BY <1>1 DEF FileHolders, TypeOK
  <2>2. WorkList[i].file = f => w \in FileHolders(f)
    BY DEF FileHolders
  <2>3. activeFiles'[f] = IF WorkList[i].file = f THEN activeFiles[f] - 1 ELSE activeFiles[f]
    BY DEF Release, TypeOK
  <2> QED
    BY <2>1, <2>2, <2>3, HoldersFinite, FS_RemoveElement DEF Counters
<1>3. ASSUME NEW k \in Keys PROVE activeItems'[k] = Cardinality(ItemHolders(k)')
  <2>1. ItemHolders(k)' = IF Key(i) = k THEN ItemHolders(k) \ {w} ELSE ItemHolders(k)
    BY <1>1 DEF ItemHolders, TypeOK
  <2>2. Key(i) = k => w \in ItemHolders(k)
    BY DEF ItemHolders
  <2>3. activeItems'[k] = IF Key(i) = k THEN activeItems[k] - 1 ELSE activeItems[k]
    BY DEF Release, TypeOK
  <2> QED
    BY <2>1, <2>2, <2>3, HoldersFinite, FS_RemoveElement DEF Counters
<1>4. ASSUME NEW r \in Resources PROVE activeResources'[r] = Cardinality(ResourceHolders(r)')
  <2>1. ResourceHolders(r)' = IF r \in WorkList[i].resources
                              THEN ResourceHolders(r) \ {w} ELSE ResourceHolders(r)
    BY <1>1 DEF ResourceHolders, TypeOK
  <2>2. r \in WorkList[i].resources => w \in ResourceHolders(r)
    BY DEF ResourceHolders
  <2>3. activeResources'[r] = activeResources[r] - Flag(r \in WorkList[i].resources)
    BY DEF Release
  <2>4. activeResources[r] \in Int
    BY DEF TypeOK
  <2>5. r \in WorkList[i].resources
          => Cardinality(ResourceHolders(r) \ {w}) = Cardinality(ResourceHolders(r)) - 1
    BY <2>2, HoldersFinite, FS_RemoveElement
  <2> QED
    BY <2>1, <2>3, <2>4, <2>5 DEF Counters, Flag
<1> QED
  BY <1>2, <1>3, <1>4 DEF Counters

\* ReservationsExact: the debug assertions of release_with_transfer ("a released
\* file must have an active assignment", ...) can never fire.
THEOREM ReservationsAreExact == Spec => []ReservationsExact
<1>1. Init => Counters
  <2> SUFFICES ASSUME Init PROVE Counters
    OBVIOUS
  <2>1. /\ \A f \in Files : FileHolders(f) = {}
        /\ \A k \in Keys : ItemHolders(k) = {}
        /\ \A r \in Resources : ResourceHolders(r) = {}
    BY DEF Init, FileHolders, ItemHolders, ResourceHolders
  <2> QED
    BY <2>1, FS_EmptySet DEF Init, Counters
<1>2. TypeOK /\ PlaceOK /\ Counters /\ [Next]_vars => Counters'
  <2> SUFFICES ASSUME TypeOK, PlaceOK, Counters, [Next]_vars PROVE Counters'
    OBVIOUS
  <2>1. ASSUME NEW w \in Workers, NEW i \in Work, Reserve(w, i) PROVE Counters'
    BY <2>1, ReserveCounts
  <2>2. ASSUME NEW w \in Workers, pc[w] \in {"judging", "dropping"},
               NEW learned, NEW transfer, Release(w, learned, transfer)
        PROVE  Counters'
    BY <2>2, ReleaseCounts DEF PlaceOK
  <2>3. CASE UNCHANGED <<activeFiles, activeItems, activeResources, claimed>>
    BY <2>3 DEF Counters, FileHolders, ItemHolders, ResourceHolders
  <2> QED
    BY <2>1, <2>2, <2>3 DEF Next, Worker, Claim, Judge, LoopHead, EnterClaim, Exhausted,
       Block, SpuriousWake, Complete, Defer, NotifyReleased, LoseContainment,
       DropAbandoned, NotifyDropped, FailCheckpoint, Abandon, DrainEnds, Finished, vars, queue
<1>3. CountOK /\ Counters => ReservationsExact
  BY DEF CountOK, Counters, ReservationsExact
<1> QED
  BY <1>1, <1>2, <1>3, TypeInvariant, CountInvariant, PTL DEF Spec

-----------------------------------------------------------------------------
(* Wake-ups. *)

\* Whoever sets the abandonment cell while a claim holds the mutex has yet to
\* take the mutex to notify: the claim cannot slip into its wait unseen.
AbandonPending ==
  abandoned /\ lock # Free =>
    \E t \in Threads : pc[t] \in {"dropping", "dropped", "abandoning"}

LEMMA AbandonPendingStep ==
  ASSUME TypeOK, PlaceOK, AbandonPending, [Next]_vars
  PROVE  AbandonPending'
<1> USE ThreadAssumption
<1> DEFINE Late(t) == pc[t] \in {"dropping", "dropped", "abandoning"}
<1>1. ASSUME NEW w \in Workers, LoopHead(w) \/ SpuriousWake(w) PROVE AbandonPending'
  BY <1>1 DEF LoopHead, SpuriousWake, Goto, AbandonPending, TypeOK, Threads, queue
<1>2. ASSUME NEW w \in Workers, EnterClaim(w) PROVE AbandonPending'
  BY <1>2 DEF EnterClaim, AbandonPending, TypeOK
<1>3. ASSUME NEW w \in Workers, Exhausted(w) \/ Block(w) \/ \E i \in Work : Reserve(w, i)
      PROVE  AbandonPending'
  BY <1>3 DEF Exhausted, Block, Reserve, Take, AbandonPending
<1>4. ASSUME NEW w \in Workers, NEW learned, NEW transfer, Release(w, learned, transfer)
      PROVE  AbandonPending'
  BY <1>4 DEF Release, AbandonPending
<1>5. ASSUME NEW w \in Workers, LoseContainment(w) PROVE AbandonPending'
  <2>1. pc'[w] = "dropping" /\ w \in Threads
    BY <1>5 DEF LoseContainment, Goto, TypeOK, Threads
  <2> QED
    BY <2>1 DEF AbandonPending
<1>6. ASSUME FailCheckpoint PROVE AbandonPending'
  <2>1. pc'[Drain] = "abandoning" /\ Drain \in Threads
    BY <1>6 DEF FailCheckpoint, Goto, TypeOK, Threads
  <2> QED
    BY <2>1 DEF AbandonPending
<1>7. ASSUME NEW w \in Workers, NotifyReleased(w) PROVE AbandonPending'
  <2>1. \A t \in Threads : Late(t) => Late(t)'
    BY <1>7 DEF NotifyReleased, Wake, Threads
  <2> QED
    BY <1>7, <2>1 DEF NotifyReleased, AbandonPending
<1>8. ASSUME NEW w \in Workers, NotifyDropped(w) PROVE AbandonPending'
  <2>1. \A t \in Threads : Late(t) => Late(t)'
    BY <1>8 DEF NotifyDropped, Wake, Threads
  <2> QED
    BY <1>8, <2>1 DEF NotifyDropped, AbandonPending
<1>9. ASSUME NEW t \in Threads, Abandon(t) PROVE AbandonPending'
  BY <1>9 DEF Abandon, AbandonPending
<1>10. ASSUME DrainEnds PROVE AbandonPending'
  <2>1. \A t \in Threads : ~Late(t)
    BY <1>10 DEF DrainEnds, Threads
  <2> QED
    BY <1>10, <2>1 DEF DrainEnds, AbandonPending
<1>11. CASE UNCHANGED vars
  BY <1>11 DEF vars, queue, AbandonPending
<1> QED
  BY <1>1, <1>2, <1>3, <1>4, <1>5, <1>6, <1>7, <1>8, <1>9, <1>10, <1>11
  DEF Next, Worker, Claim, Judge, Complete, Defer, DropAbandoned, Threads

LEMMA NoLostWakeupStep ==
  ASSUME TypeOK, PlaceOK, CountOK, AbandonPending, NoLostWakeup, [Next]_vars
  PROVE  NoLostWakeup'
<1> USE ThreadAssumption
<1> DEFINE Parked(v) == pc[v] = "blocked"
           Late(t) == pc[t] \in {"notify", "dropping", "dropped", "abandoning"}
<1>1. ASSUME NEW w \in Workers, LoopHead(w) \/ EnterClaim(w) \/ Exhausted(w) \/ SpuriousWake(w)
      PROVE  NoLostWakeup'
  <2>1. UNCHANGED <<queue, abandoned>>
    BY <1>1 DEF LoopHead, EnterClaim, Exhausted, SpuriousWake
  <2>2. /\ \A v \in Workers : Parked(v)' => Parked(v)
        /\ \A t \in Threads : Late(t) => Late(t)'
    BY <1>1 DEF LoopHead, EnterClaim, Exhausted, SpuriousWake, Goto, TypeOK, Threads
  <2> QED
    BY <2>1, <2>2 DEF NoLostWakeup, Notifying, queue, Available, ResourcesAvailable
<1>2. ASSUME NEW w \in Workers, Block(w) PROVE NoLostWakeup'
  <2>1. UNCHANGED <<queue, abandoned>> /\ Available = {} /\ remaining # {}
    BY <1>2, CountZero DEF Block
  <2>2. abandoned => \E t \in Threads : Late(t)
    BY <1>2 DEF AbandonPending, Block, PlaceOK
  <2>3. \A t \in Threads : Late(t) => Late(t)'
    BY <1>2 DEF Block, Goto, TypeOK, Threads
  <2> QED
    BY <2>1, <2>2, <2>3 DEF NoLostWakeup, Notifying, queue, Available, ResourcesAvailable
<1>3. ASSUME NEW w \in Workers, NEW i \in Work, Reserve(w, i) PROVE NoLostWakeup'
  <2>1. Available # {}
    BY <1>3 DEF Reserve, Take, Selected
  <2>2. /\ \A v \in Workers : Parked(v)' => Parked(v)
        /\ \A t \in Threads : Late(t) => Late(t)'
    BY <1>3 DEF Reserve, Take, Goto, TypeOK, Threads
  <2> QED
    BY <2>1, <2>2 DEF NoLostWakeup, Notifying
<1>4. ASSUME NEW w \in Workers, Complete(w, TRUE) \/ Complete(w, FALSE) \/ Defer(w)
               \/ LoseContainment(w) \/ DropAbandoned(w)
      PROVE  NoLostWakeup'
  <2>1. Late(w)' /\ w \in Threads
    BY <1>4 DEF Complete, Defer, LoseContainment, DropAbandoned, Goto, TypeOK, Threads
  <2> QED
    BY <2>1 DEF NoLostWakeup, Notifying
<1>5. ASSUME NEW t \in Threads, NEW place, place # "blocked", Wake(t, place) PROVE NoLostWakeup'
  <2>1. \A v \in Workers : ~Parked(v)'
    BY <1>5 DEF Wake, Threads
  <2> QED
    BY <2>1 DEF NoLostWakeup
<1>6. ASSUME FailCheckpoint PROVE NoLostWakeup'
  <2>1. Late(Drain)' /\ Drain \in Threads
    BY <1>6 DEF FailCheckpoint, Goto, TypeOK, Threads
  <2> QED
    BY <2>1 DEF NoLostWakeup, Notifying
<1>7. ASSUME DrainEnds PROVE NoLostWakeup'
  <2>1. \A v \in Workers : ~Parked(v)'
    BY <1>7 DEF DrainEnds, Goto, TypeOK, Threads
  <2> QED
    BY <2>1 DEF NoLostWakeup
<1>8. CASE UNCHANGED vars
  BY <1>8 DEF vars, queue, NoLostWakeup, Notifying, Available, ResourcesAvailable
<1> QED
  BY <1>1, <1>2, <1>3, <1>4, <1>5, <1>6, <1>7, <1>8
  DEF Next, Worker, Claim, Judge, NotifyReleased, NotifyDropped, Abandon, Threads

\* NoLostWakeup: abandon notifies with the mutex held and release after giving
\* it up, and neither can miss a claim on its way into the wait.
THEOREM NoWakeupIsLost == Spec => []NoLostWakeup
<1>1. Init => AbandonPending /\ NoLostWakeup
  BY ThreadAssumption DEF Init, AbandonPending, NoLostWakeup, Threads
<1>2. TypeOK /\ PlaceOK /\ CountOK /\ AbandonPending /\ NoLostWakeup /\ [Next]_vars
        => AbandonPending' /\ NoLostWakeup'
  BY AbandonPendingStep, NoLostWakeupStep
<1> QED
  BY <1>1, <1>2, TypeInvariant, CountInvariant, PTL DEF Spec

-----------------------------------------------------------------------------
(* Refinement. *)

\* ImplementsWorkPool: the scheduler, with its priorities, condition variable
\* and abandonment, keeps the promises of WorkPool.
THEOREM Refinement == Spec => ImplementsWorkPool
<1>1. Init => Pool!Init
  BY ThreadAssumption DEF Init, Pool!Init, Threads
<1>2. TypeOK /\ PlaceOK /\ CountOK /\ [Next]_vars => [Pool!Next]_(Pool!vars)
  <2> SUFFICES ASSUME TypeOK, PlaceOK, CountOK, [Next]_vars PROVE [Pool!Next]_(Pool!vars)
    OBVIOUS
  <2> USE ThreadAssumption DEF Pool!vars, Pool!Next, Threads
  <2> DEFINE ended == {w \in Workers : pc[w] = "done"}
  <2>1. ASSUME NEW w \in Workers, NEW i \in Work, Reserve(w, i) PROVE Pool!Take(w)
    <3>1. claimed[w] = NoWork /\ w \notin ended /\ ended' = ended
      BY <2>1 DEF Reserve, Take, PlaceOK, Goto, TypeOK
    <3>2. i \in remaining
      BY <2>1 DEF Reserve, Take, Selected, Available
    <3> QED
      BY <2>1, <3>1, <3>2 DEF Reserve, Take, Pool!Take
  <2>2. ASSUME NEW w \in Workers, NEW learned, NEW transfer, Release(w, learned, transfer),
               pc[w] \in {"judging", "dropping"},
               NEW place \in {"notify", "dropped"}, Goto(w, place)
        PROVE  Pool!GiveBack(w)
    <3>1. claimed[w] # NoWork /\ ended' = ended
      BY <2>2 DEF PlaceOK, Goto, TypeOK
    <3> QED
      BY <2>2, <3>1 DEF Release, Pool!GiveBack
  <2>3. ASSUME NEW w \in Workers, LoopHead(w) \/ EnterClaim(w) \/ Exhausted(w)
        PROVE  Pool!Stop(w) \/ UNCHANGED Pool!vars
    <3>1. UNCHANGED <<remaining, claimed, abandoned>> /\ claimed[w] = NoWork /\ w \notin ended
      BY <2>3 DEF LoopHead, EnterClaim, Exhausted, queue, PlaceOK
    <3>2. CASE pc'[w] = "done"
      <4>1. abandoned \/ remaining = {}
        BY <2>3, <3>2, CountZero DEF LoopHead, EnterClaim, Exhausted, Goto, TypeOK
      <4>2. ended' = ended \cup {w}
        BY <2>3, <3>2 DEF LoopHead, EnterClaim, Exhausted, Goto, TypeOK
      <4> QED
        BY <3>1, <4>1, <4>2 DEF Pool!Stop
    <3>3. CASE pc'[w] # "done"
      <4>1. ended' = ended
        BY <2>3, <3>1, <3>3 DEF LoopHead, EnterClaim, Exhausted, Goto, TypeOK
      <4> QED
        BY <3>1, <4>1
    <3> QED
      BY <3>2, <3>3
  <2>4. ASSUME NEW w \in Workers,
               Block(w) \/ SpuriousWake(w) \/ NotifyReleased(w) \/ NotifyDropped(w)
        PROVE  UNCHANGED Pool!vars
    <3>1. UNCHANGED <<remaining, claimed, abandoned>>
      BY <2>4 DEF Block, SpuriousWake, NotifyReleased, NotifyDropped, queue
    <3>2. ended' = ended
      BY <2>4 DEF Block, SpuriousWake, NotifyReleased, NotifyDropped, Goto, Wake, TypeOK
    <3> QED
      BY <3>1, <3>2
  <2>5. ASSUME (\E w \in Workers : LoseContainment(w)) \/ FailCheckpoint
        PROVE  Pool!Cancel \/ UNCHANGED Pool!vars
    <3>1. UNCHANGED <<remaining, claimed>> /\ abandoned'
      BY <2>5 DEF LoseContainment, FailCheckpoint, queue
    <3>2. ended' = ended
      BY <2>5 DEF LoseContainment, FailCheckpoint, Goto, TypeOK
    <3> QED
      BY <3>1, <3>2 DEF Pool!Cancel, TypeOK
  <2>6. ASSUME NEW t \in Threads, Abandon(t) PROVE [Pool!Next]_(Pool!vars)
    <3>1. UNCHANGED <<remaining, claimed, abandoned>> /\ abandoned
      BY <2>6 DEF Abandon, queue, PlaceOK
    <3>2. CASE t \in Workers
      <4>1. ended' = ended \cup {t} /\ t \notin ended /\ claimed[t] = NoWork
        BY <2>6, <3>2 DEF Abandon, Wake, PlaceOK
      <4> QED
        BY <3>1, <3>2, <4>1 DEF Pool!Stop
    <3>3. CASE t \notin Workers
      <4>1. ended' = ended
        BY <2>6, <3>3 DEF Abandon, Wake
      <4> QED
        BY <3>1, <4>1
    <3> QED
      BY <3>2, <3>3
  <2>7. ASSUME DrainEnds \/ UNCHANGED vars PROVE UNCHANGED Pool!vars
    <3>1. UNCHANGED <<remaining, claimed, abandoned>>
      BY <2>7 DEF DrainEnds, vars, queue
    <3>2. ended' = ended
      BY <2>7 DEF DrainEnds, vars, Goto, TypeOK
    <3> QED
      BY <3>1, <3>2
  <2> QED
    BY <2>1, <2>2, <2>3, <2>4, <2>5, <2>6, <2>7
    DEF Next, Worker, Claim, Judge, Complete, Defer, DropAbandoned
<1> QED
  BY <1>1, <1>2, TypeInvariant, CountInvariant, PTL DEF Spec, ImplementsWorkPool, Pool!Spec

-----------------------------------------------------------------------------
(* From here on: the index picks what the plain rule picks, for every work   *)
(* list.  No claim, release or lesson, in whatever order, leaves an entry    *)
(* behind or a head out of date.                                             *)

-----------------------------------------------------------------------------
(* The order of entries. *)

Entries == [turns: Nat, transfer: BOOLEAN, distance: Int \X Int, benefit: Nat,
            cost: Nat \ {0}, order: Nat, index: Work]

\* The criteria that no claim elsewhere moves.
Fixed(a, b) ==
  LET gain == b.benefit * a.cost - a.benefit * b.cost IN
  \/ gain < 0
  \/ gain = 0 /\ b.cost < a.cost
  \/ gain = 0 /\ b.cost = a.cost /\ a.order < b.order
  \/ gain = 0 /\ b.cost = a.cost /\ a.order = b.order /\ a.index < b.index

Level(a, b) == a.turns = b.turns /\ a.transfer = b.transfer /\ a.distance = b.distance

\* The criteria before them, read in order.
Moving(a, b) ==
  \/ a.turns < b.turns
  \/ a.turns = b.turns /\ a.transfer /\ ~b.transfer
  \/ a.turns = b.turns /\ a.transfer = b.transfer /\ a.distance[1] < b.distance[1]
  \/ a.turns = b.turns /\ a.transfer = b.transfer /\ a.distance[1] = b.distance[1]
       /\ a.distance[2] < b.distance[2]

LEMMA CriteriaInOrder ==
  ASSUME NEW c1, NEW c2, NEW c3, NEW c4, NEW c5, NEW c6, NEW c7, NEW c8
  PROVE  (\E k \in 1..8 : /\ <<c1, c2, c3, c4, c5, c6, c7, c8>>[k] < 0
                          /\ \A j \in 1..(k - 1) : <<c1, c2, c3, c4, c5, c6, c7, c8>>[j] = 0)
         <=> \/ c1 < 0
             \/ c1 = 0 /\ c2 < 0
             \/ c1 = 0 /\ c2 = 0 /\ c3 < 0
             \/ c1 = 0 /\ c2 = 0 /\ c3 = 0 /\ c4 < 0
             \/ c1 = 0 /\ c2 = 0 /\ c3 = 0 /\ c4 = 0 /\ c5 < 0
             \/ c1 = 0 /\ c2 = 0 /\ c3 = 0 /\ c4 = 0 /\ c5 = 0 /\ c6 < 0
             \/ c1 = 0 /\ c2 = 0 /\ c3 = 0 /\ c4 = 0 /\ c5 = 0 /\ c6 = 0 /\ c7 < 0
             \/ c1 = 0 /\ c2 = 0 /\ c3 = 0 /\ c4 = 0 /\ c5 = 0 /\ c6 = 0 /\ c7 = 0 /\ c8 < 0
<1> DEFINE c == <<c1, c2, c3, c4, c5, c6, c7, c8>>
           P(k) == c[k] < 0 /\ \A j \in 1..(k - 1) : c[j] = 0
<1>1. /\ c[1] = c1 /\ c[2] = c2 /\ c[3] = c3 /\ c[4] = c4
      /\ c[5] = c5 /\ c[6] = c6 /\ c[7] = c7 /\ c[8] = c8
  OBVIOUS
<1>2. P(1) <=> c1 < 0
  BY <1>1
<1>3. P(2) <=> c1 = 0 /\ c2 < 0
  BY <1>1
<1>4. P(3) <=> c1 = 0 /\ c2 = 0 /\ c3 < 0
  BY <1>1
<1>5. P(4) <=> c1 = 0 /\ c2 = 0 /\ c3 = 0 /\ c4 < 0
  BY <1>1
<1>6. P(5) <=> c1 = 0 /\ c2 = 0 /\ c3 = 0 /\ c4 = 0 /\ c5 < 0
  BY <1>1
<1>7. P(6) <=> c1 = 0 /\ c2 = 0 /\ c3 = 0 /\ c4 = 0 /\ c5 = 0 /\ c6 < 0
  BY <1>1
<1>8. P(7) <=> c1 = 0 /\ c2 = 0 /\ c3 = 0 /\ c4 = 0 /\ c5 = 0 /\ c6 = 0 /\ c7 < 0
  BY <1>1
<1>9. P(8) <=> c1 = 0 /\ c2 = 0 /\ c3 = 0 /\ c4 = 0 /\ c5 = 0 /\ c6 = 0 /\ c7 = 0 /\ c8 < 0
  BY <1>1
<1>10. (\E k \in 1..8 : P(k)) <=>
         P(1) \/ P(2) \/ P(3) \/ P(4) \/ P(5) \/ P(6) \/ P(7) \/ P(8)
  <2> HIDE DEF P
  <2> QED
    OBVIOUS
<1> QED
  BY <1>2, <1>3, <1>4, <1>5, <1>6, <1>7, <1>8, <1>9, <1>10

LEMMA PrecedesInOrder ==
  ASSUME NEW a \in Entries, NEW b \in Entries
  PROVE  Precedes(a, b) <=> Moving(a, b) \/ (Level(a, b) /\ Fixed(a, b))
<1> DEFINE c1 == a.turns - b.turns
           c2 == Flag(b.transfer) - Flag(a.transfer)
           c3 == a.distance[1] - b.distance[1]
           c4 == a.distance[2] - b.distance[2]
           c5 == b.benefit * a.cost - a.benefit * b.cost
           c6 == b.cost - a.cost
           c7 == a.order - b.order
           c8 == a.index - b.index
<1>1. Precedes(a, b) <=>
             \/ c1 < 0
             \/ c1 = 0 /\ c2 < 0
             \/ c1 = 0 /\ c2 = 0 /\ c3 < 0
             \/ c1 = 0 /\ c2 = 0 /\ c3 = 0 /\ c4 < 0
             \/ c1 = 0 /\ c2 = 0 /\ c3 = 0 /\ c4 = 0 /\ c5 < 0
             \/ c1 = 0 /\ c2 = 0 /\ c3 = 0 /\ c4 = 0 /\ c5 = 0 /\ c6 < 0
             \/ c1 = 0 /\ c2 = 0 /\ c3 = 0 /\ c4 = 0 /\ c5 = 0 /\ c6 = 0 /\ c7 < 0
             \/ c1 = 0 /\ c2 = 0 /\ c3 = 0 /\ c4 = 0 /\ c5 = 0 /\ c6 = 0 /\ c7 = 0 /\ c8 < 0
  <2>1. Criteria(a, b) = <<c1, c2, c3, c4, c5, c6, c7, c8>>
    BY DEF Criteria
  <2> HIDE DEF c1, c2, c3, c4, c5, c6, c7, c8
  <2> QED
    BY <2>1, CriteriaInOrder DEF Precedes
<1>2. /\ a.turns \in Nat /\ b.turns \in Nat /\ a.order \in Nat /\ b.order \in Nat
      /\ a.cost \in Nat /\ b.cost \in Nat /\ a.benefit \in Nat /\ b.benefit \in Nat
      /\ a.index \in Nat /\ b.index \in Nat
      /\ a.transfer \in BOOLEAN /\ b.transfer \in BOOLEAN
      /\ a.distance \in Int \X Int /\ b.distance \in Int \X Int
  BY WorkAssumption DEF Entries
<1>3. /\ c1 < 0 <=> a.turns < b.turns
      /\ c1 = 0 <=> a.turns = b.turns
      /\ c2 < 0 <=> a.transfer /\ ~b.transfer
      /\ c2 = 0 <=> a.transfer = b.transfer
      /\ c3 < 0 <=> a.distance[1] < b.distance[1]
      /\ c3 = 0 <=> a.distance[1] = b.distance[1]
      /\ c4 < 0 <=> a.distance[2] < b.distance[2]
      /\ c4 = 0 <=> a.distance[2] = b.distance[2]
  <2>1. a.distance[1] \in Int /\ a.distance[2] \in Int /\ b.distance[1] \in Int /\ b.distance[2] \in Int
    BY <1>2
  <2>2. c2 < 0 <=> a.transfer /\ ~b.transfer
    BY <1>2 DEF Flag
  <2>3. c2 = 0 <=> a.transfer = b.transfer
    BY <1>2 DEF Flag
  <2> QED
    BY <1>2, <2>1, <2>2, <2>3
<1>4. a.distance = b.distance <=> a.distance[1] = b.distance[1] /\ a.distance[2] = b.distance[2]
  BY <1>2
<1>5. /\ c6 < 0 <=> b.cost < a.cost
      /\ c6 = 0 <=> b.cost = a.cost
      /\ c7 < 0 <=> a.order < b.order
      /\ c7 = 0 <=> a.order = b.order
      /\ c8 < 0 <=> a.index < b.index
  BY <1>2
<1>6. Fixed(a, b) <=>
      \/ c5 < 0
      \/ c5 = 0 /\ c6 < 0
      \/ c5 = 0 /\ c6 = 0 /\ c7 < 0
      \/ c5 = 0 /\ c6 = 0 /\ c7 = 0 /\ c8 < 0
  BY <1>5 DEF Fixed
<1> HIDE DEF c1, c2, c3, c4, c5, c6, c7, c8
<1> QED
  BY <1>1, <1>3, <1>4, <1>6 DEF Moving, Level

\* Benefit per cost is compared by cross-multiplication; that is transitive
\* because no cost is zero.
LEMMA RatioLE ==
  ASSUME NEW a \in Nat, NEW p \in Nat \ {0}, NEW b \in Nat, NEW q \in Nat \ {0},
         NEW c \in Nat, NEW r \in Nat \ {0}, b * p <= a * q, c * q <= b * r
  PROVE  /\ c * p <= a * r
         /\ c * p = a * r => b * p = a * q /\ c * q = b * r
<1> DEFINE cp == c * p  ar == a * r  bp == b * p  aq == a * q  cq == c * q  br == b * r
<1>1. cp \in Nat /\ ar \in Nat /\ bp \in Nat /\ aq \in Nat /\ cq \in Nat /\ br \in Nat
  OBVIOUS
<1>2. /\ cp * q = cq * p /\ br * p = bp * r /\ aq * r = ar * q
  OBVIOUS
<1>3. bp <= aq /\ cq <= br
  OBVIOUS
<1> HIDE DEF cp, ar, bp, aq, cq, br
<1>4. cq * p <= br * p /\ (cq # br => cq * p < br * p)
  BY <1>1, <1>3
<1>5. bp * r <= aq * r /\ (bp # aq => bp * r < aq * r)
  BY <1>1, <1>3
<1>6. cp * q <= ar * q /\ (cq # br \/ bp # aq => cp * q < ar * q)
  <2> DEFINE x == cp * q  y == ar * q  z == br * p
  <2>1. x \in Nat /\ y \in Nat /\ z \in Nat
    BY <1>1
  <2>2. x <= z /\ (cq # br => x < z)
    BY <1>2, <1>4
  <2>3. z <= y /\ (bp # aq => z < y)
    BY <1>2, <1>5
  <2> HIDE DEF x, y, z
  <2>4. x <= y /\ (cq # br \/ bp # aq => x < y)
    BY <2>1, <2>2, <2>3
  <2> QED
    BY <2>4 DEF x, y
<1>7. cp <= ar
  <2>1. ar < cp => ar * q < cp * q
    BY <1>1
  <2>2. cp * q \in Int /\ ar * q \in Int
    BY <1>1
  <2> QED
    BY <1>1, <1>6, <2>1, <2>2
<1>8. cp = ar => bp = aq /\ cq = br
  <2>1. cp * q \in Int /\ ar * q \in Int
    BY <1>1
  <2>2. cp = ar => cp * q = ar * q
    OBVIOUS
  <2> QED
    BY <1>6, <2>1, <2>2
<1> QED
  BY <1>7, <1>8 DEF cp, ar, bp, aq, cq, br

\* The benefit of b for the cost of q is no better than that of a for p.
NoBetter(b, q, a, p) == b * p <= a * q
AsGood(b, q, a, p) == b * p = a * q

LEMMA RatioOrder ==
  ASSUME NEW a \in Nat, NEW p \in Nat \ {0}, NEW b \in Nat, NEW q \in Nat \ {0},
         NEW c \in Nat, NEW r \in Nat \ {0}, NoBetter(b, q, a, p), NoBetter(c, r, b, q)
  PROVE  /\ NoBetter(c, r, a, p)
         /\ AsGood(c, r, a, p) => AsGood(b, q, a, p)
         /\ AsGood(c, r, a, p) => AsGood(c, r, b, q)
BY RatioLE DEF NoBetter, AsGood

LEMMA FixedOrder ==
  ASSUME NEW a \in Entries, NEW b \in Entries
  PROVE  /\ ~Fixed(a, a)
         /\ a.index # b.index => Fixed(a, b) \/ Fixed(b, a)
         /\ ~(Fixed(a, b) /\ Fixed(b, a))
<1> DEFINE x == b.benefit * a.cost  y == a.benefit * b.cost  z == a.benefit * a.cost
<1>1. x \in Int /\ y \in Int /\ z \in Int
  BY DEF Entries
<1>2. /\ a.cost \in Nat /\ b.cost \in Nat /\ a.order \in Nat /\ b.order \in Nat
      /\ a.index \in Nat /\ b.index \in Nat
  BY WorkAssumption DEF Entries
<1>3. Fixed(a, b) <=> LET gain == x - y IN
           \/ gain < 0
           \/ gain = 0 /\ b.cost < a.cost
           \/ gain = 0 /\ b.cost = a.cost /\ a.order < b.order
           \/ gain = 0 /\ b.cost = a.cost /\ a.order = b.order /\ a.index < b.index
  BY DEF Fixed
<1>4. Fixed(b, a) <=> LET gain == y - x IN
           \/ gain < 0
           \/ gain = 0 /\ a.cost < b.cost
           \/ gain = 0 /\ a.cost = b.cost /\ b.order < a.order
           \/ gain = 0 /\ a.cost = b.cost /\ b.order = a.order /\ b.index < a.index
  BY DEF Fixed
<1>5. Fixed(a, a) <=> LET gain == z - z IN
           \/ gain < 0
           \/ gain = 0 /\ a.cost < a.cost
           \/ gain = 0 /\ a.cost = a.cost /\ a.order < a.order
           \/ gain = 0 /\ a.cost = a.cost /\ a.order = a.order /\ a.index < a.index
  BY DEF Fixed
<1> HIDE DEF x, y, z
<1> QED
  BY <1>1, <1>2, <1>3, <1>4, <1>5

LEMMA FixedTransitive ==
  ASSUME NEW a \in Entries, NEW b \in Entries, NEW c \in Entries, Fixed(a, b), Fixed(b, c)
  PROVE  Fixed(a, c)
<1> DEFINE ba == b.benefit * a.cost  ab == a.benefit * b.cost
           cb == c.benefit * b.cost  bc == b.benefit * c.cost
           ca == c.benefit * a.cost  ac == a.benefit * c.cost
<1>1. ba \in Int /\ ab \in Int /\ cb \in Int /\ bc \in Int /\ ca \in Int /\ ac \in Int
  BY DEF Entries
<1>2. /\ a.cost \in Nat /\ b.cost \in Nat /\ c.cost \in Nat
      /\ a.order \in Nat /\ b.order \in Nat /\ c.order \in Nat
      /\ a.index \in Nat /\ b.index \in Nat /\ c.index \in Nat
  BY WorkAssumption DEF Entries
<1>3. LET gain == ba - ab IN
           \/ gain < 0
           \/ gain = 0 /\ b.cost < a.cost
           \/ gain = 0 /\ b.cost = a.cost /\ a.order < b.order
           \/ gain = 0 /\ b.cost = a.cost /\ a.order = b.order /\ a.index < b.index
  BY DEF Fixed
<1>4. LET gain == cb - bc IN
           \/ gain < 0
           \/ gain = 0 /\ c.cost < b.cost
           \/ gain = 0 /\ c.cost = b.cost /\ b.order < c.order
           \/ gain = 0 /\ c.cost = b.cost /\ b.order = c.order /\ b.index < c.index
  BY DEF Fixed
<1>5. Fixed(a, c) <=> LET gain == ca - ac IN
           \/ gain < 0
           \/ gain = 0 /\ c.cost < a.cost
           \/ gain = 0 /\ c.cost = a.cost /\ a.order < c.order
           \/ gain = 0 /\ c.cost = a.cost /\ a.order = c.order /\ a.index < c.index
  BY DEF Fixed
<1>6. ba <= ab /\ cb <= bc
  <2> HIDE DEF ba, ab, cb, bc
  <2> QED
    BY <1>1, <1>3, <1>4
<1>7. ca <= ac /\ (ca = ac => ba = ab /\ cb = bc)
  <2>1. /\ a.benefit \in Nat /\ b.benefit \in Nat /\ c.benefit \in Nat
        /\ a.cost \in Nat \ {0} /\ b.cost \in Nat \ {0} /\ c.cost \in Nat \ {0}
    BY DEF Entries
  <2>2. /\ NoBetter(b.benefit, b.cost, a.benefit, a.cost)
        /\ NoBetter(c.benefit, c.cost, b.benefit, b.cost)
    BY <1>6 DEF NoBetter
  <2>3. ASSUME NEW x, x = a.benefit, NEW y, y = b.benefit, NEW z, z = c.benefit,
               NEW p, p = a.cost, NEW q, q = b.cost, NEW r, r = c.cost
        PROVE  /\ NoBetter(z, r, x, p)
               /\ AsGood(z, r, x, p) => AsGood(y, q, x, p) /\ AsGood(z, r, y, q)
    <3>1. /\ x \in Nat /\ y \in Nat /\ z \in Nat
          /\ p \in Nat \ {0} /\ q \in Nat \ {0} /\ r \in Nat \ {0}
      BY <2>1, <2>3
    <3>2. NoBetter(y, q, x, p) /\ NoBetter(z, r, y, q)
      BY <2>2, <2>3
    <3> QED
      BY <3>1, <3>2, RatioOrder
  <2> QED
    BY <2>3 DEF NoBetter, AsGood
<1> HIDE DEF ba, ab, cb, bc, ca, ac
<1>8. ca = ac => ba = ab /\ cb = bc
  BY <1>7
<1>9. CASE ca < ac
  BY <1>1, <1>5, <1>9
<1>10. CASE ca = ac
  BY <1>1, <1>2, <1>3, <1>4, <1>5, <1>8, <1>10
<1> QED
  BY <1>1, <1>7, <1>9, <1>10

\* The order of entries is total and strict where no two share an index.
LEMMA EntryOrder ==
  ASSUME NEW a \in Entries, NEW b \in Entries
  PROVE  /\ ~Precedes(a, a)
         /\ a.index # b.index => Precedes(a, b) \/ Precedes(b, a)
         /\ ~(Precedes(a, b) /\ Precedes(b, a))
<1>1. /\ a.turns \in Nat /\ b.turns \in Nat
      /\ a.transfer \in BOOLEAN /\ b.transfer \in BOOLEAN
      /\ a.distance \in Int \X Int /\ b.distance \in Int \X Int
  BY DEF Entries
<1>2. /\ a.distance[1] \in Int /\ a.distance[2] \in Int
      /\ b.distance[1] \in Int /\ b.distance[2] \in Int
      /\ a.distance = b.distance <=> a.distance[1] = b.distance[1] /\ a.distance[2] = b.distance[2]
  BY <1>1
<1>3. /\ ~Moving(a, a)
      /\ Moving(a, b) \/ Moving(b, a) \/ Level(a, b)
      /\ ~(Moving(a, b) /\ Moving(b, a))
      /\ ~(Moving(a, b) /\ Level(b, a))
      /\ ~(Level(a, b) /\ Moving(b, a))
      /\ Level(a, b) <=> Level(b, a)
  BY <1>1, <1>2 DEF Moving, Level
<1> QED
  BY <1>3, FixedOrder, PrecedesInOrder

LEMMA EntryTransitive ==
  ASSUME NEW a \in Entries, NEW b \in Entries, NEW c \in Entries,
         Precedes(a, b), Precedes(b, c)
  PROVE  Precedes(a, c)
<1>1. /\ a.turns \in Nat /\ b.turns \in Nat /\ c.turns \in Nat
      /\ a.transfer \in BOOLEAN /\ b.transfer \in BOOLEAN /\ c.transfer \in BOOLEAN
      /\ a.distance \in Int \X Int /\ b.distance \in Int \X Int /\ c.distance \in Int \X Int
  BY DEF Entries
<1>2. /\ a.distance[1] \in Int /\ a.distance[2] \in Int /\ b.distance[1] \in Int
      /\ b.distance[2] \in Int /\ c.distance[1] \in Int /\ c.distance[2] \in Int
  BY <1>1
<1>3. Moving(a, b) /\ Moving(b, c) => Moving(a, c)
  BY <1>1, <1>2 DEF Moving
<1>4. /\ Moving(a, b) /\ Level(b, c) => Moving(a, c)
      /\ Level(a, b) /\ Moving(b, c) => Moving(a, c)
      /\ Level(a, b) /\ Level(b, c) => Level(a, c)
  BY <1>1, <1>2 DEF Moving, Level
<1> QED
  BY <1>3, <1>4, FixedTransitive, PrecedesInOrder

-----------------------------------------------------------------------------
(* The best of a set of mutants. *)

Ahead(i, j) == Precedes(Head(i), Head(j))

Best(I) == {i \in I : \A j \in I \ {i} : Ahead(i, j)}

LEMMA HeadType ==
  ASSUME TypeOK, NEW i \in Work
  PROVE  Head(i) \in Entries /\ Head(i).index = i
<1>1. /\ WorkList[i].cost \in Nat \ {0} /\ WorkList[i].benefit \in Nat /\ WorkList[i].order \in Nat
      /\ WorkList[i].file \in Files /\ WorkList[i].package \in Packages
      /\ Key(i) \in Keys
  BY WorkAssumption, JobFields DEF Job
<1>2. packageTurns[WorkList[i].package] \in Nat
  BY <1>1 DEF TypeOK
<1>3. Distance(i) \in Int \X Int
  <2>1. activeFiles[WorkList[i].file] \in Int
    BY <1>1 DEF TypeOK
  <2> QED
    BY <2>1 DEF Distance
<1> QED
  BY <1>1, <1>2, <1>3 DEF Head, Entries

LEMMA AheadOrder ==
  ASSUME TypeOK, NEW i \in Work, NEW j \in Work
  PROVE  /\ ~Ahead(i, i)
         /\ i # j => Ahead(i, j) \/ Ahead(j, i)
         /\ ~(Ahead(i, j) /\ Ahead(j, i))
         /\ \A k \in Work : Ahead(i, j) /\ Ahead(j, k) => Ahead(i, k)
BY HeadType, EntryOrder, EntryTransitive DEF Ahead

\* A finite order has a first element: one with the fewest before it.
LEMMA BestExists ==
  ASSUME TypeOK, NEW I \in SUBSET Work, I # {}
  PROVE  Best(I) # {}
<1> DEFINE Before(i) == {j \in I : Ahead(j, i)}
           Counts == {Cardinality(Before(i)) : i \in I}
<1>1. \A i \in I : IsFiniteSet(Before(i)) /\ Cardinality(Before(i)) \in Nat
  <2> SUFFICES ASSUME NEW i \in I PROVE IsFiniteSet(Before(i)) /\ Cardinality(Before(i)) \in Nat
    OBVIOUS
  <2>1. IsFiniteSet(Work) /\ Before(i) \in SUBSET Work
    BY WorkAssumption
  <2> QED
    BY <2>1, FS_Subset, FS_CardinalityType
<1>2. PICK n \in Counts : \A m \in Counts : ~(m < n)
  <2>1. Counts \subseteq Nat /\ Counts # {}
    BY <1>1
  <2>2. \E n \in Counts : \A m \in Counts : ~(<<m, n>> \in OpToRel(<, Nat))
    BY <2>1, NatLessThanWellFounded, WFMin
  <2> QED
    BY <2>1, <2>2 DEF OpToRel
<1>3. PICK i \in I : n = Cardinality(Before(i))
  BY <1>2
<1>4. ASSUME NEW j \in I \ {i} PROVE Ahead(i, j)
  <2> SUFFICES ASSUME ~Ahead(i, j) PROVE FALSE
    OBVIOUS
  <2>1. Ahead(j, i) /\ ~Ahead(j, j)
    BY AheadOrder
  <2>2. Before(j) \in SUBSET Before(i) /\ j \in Before(i) /\ j \notin Before(j)
    BY <2>1, AheadOrder
  <2> HIDE DEF Before
  <2>3. Cardinality(Before(j)) <= Cardinality(Before(i)) /\ Cardinality(Before(j)) # Cardinality(Before(i))
    BY <1>1, <2>2, FS_Subset
  <2>4. Cardinality(Before(j)) \in Counts
    OBVIOUS
  <2> QED
    BY <1>1, <1>2, <1>3, <2>3, <2>4
<1> QED
  BY <1>4 DEF Best

\* Leaving out what is behind another changes nothing.
LEMMA BestOfFew ==
  ASSUME TypeOK, NEW I \in SUBSET Work, NEW F \in SUBSET I,
         \A j \in I : \E b \in F : b = j \/ Ahead(b, j)
  PROVE  Best(F) = Best(I)
<1>1. ASSUME NEW i \in Best(I) PROVE i \in Best(F)
  <2>1. PICK b \in F : b = i \/ Ahead(b, i)
    BY <1>1 DEF Best
  <2>2. b = i
    BY <1>1, <2>1, AheadOrder DEF Best
  <2> QED
    BY <1>1, <2>2 DEF Best
<1>2. ASSUME NEW i \in Best(F) PROVE i \in Best(I)
  <2>1. ASSUME NEW j \in I \ {i} PROVE Ahead(i, j)
    <3>1. PICK b \in F : b = j \/ Ahead(b, j)
      OBVIOUS
    <3>2. b = i \/ Ahead(i, b)
      BY <1>2 DEF Best
    <3> QED
      BY <1>2, <3>1, <3>2, AheadOrder DEF Best
  <2> QED
    BY <1>2, <2>1 DEF Best
<1> QED
  BY <1>1, <1>2

\* The best of the whole is the best among the best of its parts.
LEMMA BestOfParts ==
  ASSUME TypeOK, NEW I \in SUBSET Work, NEW P, UNION P = I
  PROVE  Best(UNION {Best(J) : J \in P}) = Best(I)
<1> DEFINE F == UNION {Best(J) : J \in P}
<1>1. F \in SUBSET I
  BY DEF Best
<1>2. ASSUME NEW j \in I PROVE \E b \in F : b = j \/ Ahead(b, j)
  <2>1. PICK J \in P : j \in J
    OBVIOUS
  <2>2. J \in SUBSET Work /\ J # {}
    BY <2>1
  <2>3. PICK b : b \in Best(J)
    BY <2>2, BestExists
  <2>4. b \in F /\ (b = j \/ Ahead(b, j))
    BY <2>1, <2>3 DEF Best
  <2> QED
    BY <2>4
<1> HIDE DEF F
<1>3. Best(F) = Best(I)
  BY <1>1, <1>2, BestOfFew
<1> QED
  BY <1>3 DEF F

\* Entries that stand for mutants, in the mutants' order.
LEMMA FirstIsBest ==
  ASSUME NEW I, NEW e, \A i \in I : e[i].index = i,
         \A i, j \in I : i # j => (Precedes(e[i], e[j]) <=> Ahead(i, j))
  PROVE  First({e[i] : i \in I}) = {e[i] : i \in Best(I)}
<1>1. \A i, j \in I : e[i] = e[j] => i = j
  OBVIOUS
<1>2. ASSUME NEW i \in I
      PROVE  (\A b \in {e[j] : j \in I} \ {e[i]} : Precedes(e[i], b)) <=> i \in Best(I)
  BY <1>1 DEF Best
<1> QED
  BY <1>2 DEF First, Best

-----------------------------------------------------------------------------
(* What the index is, in terms of the scheduler. *)

Left(g) == {i \in remaining : GroupOf(i) = g}
AtSlot(s) == {i \in remaining : SlotOf(GroupOf(i)) = s}
AtPackage(p) == {i \in remaining : WorkList[i].package = p}

\* What is queued was published when the pass began, and learned since.
Kept(i) ==
  [turns |-> 0, transfer |-> \E j \in Work : WorkList[j].transfer /\ Key(j) = Key(i),
   distance |-> <<0, 0>>, benefit |-> Head(i).benefit, cost |-> WorkList[i].cost,
   order |-> WorkList[i].order, index |-> i]

Idle(i) == [Kept(i) EXCEPT !.transfer = (Key(i) \in transferItems)]
Active(i) == [Idle(i) EXCEPT !.distance = <<IF activeItems[Key(i)] # 0 THEN 2 ELSE 1, 0>>]
Local(i) == [Head(i) EXCEPT !.turns = 0]

Cold(g) == {i \in Left(g) : ~WorkList[i].hinted /\ KeyOf(g) \notin learnedItems}
Informed(g) == Left(g) \ Cold(g)

Queued ==
  /\ cold = [g \in Groups |-> {Kept(i) : i \in Cold(g)}]
  /\ informed = [g \in Groups |-> {Kept(i) : i \in Informed(g)}]

\* Each level of the index is a recomputation of the one below it.
GroupsPublished ==
  /\ idleHead = [g \in Groups |->
       IdleHead(g, [cold |-> cold[g], informed |-> informed[g]], transferItems)]
  /\ activeHead = [g \in Groups |-> ActiveHead(g, idleHead[g], activeItems)]

SlotsPublished ==
  /\ fileIdle = [s \in Slots |-> Published(idleHead, Groups, s)]
  /\ fileActive = [s \in Slots |-> Published(activeHead, Groups, s)]
  /\ fileHead = [s \in Slots |-> FileHead(fileIdle[s], fileActive[s], activeFiles[s[1]])]

PackagesPublished ==
  /\ packageQueue = [p \in Packages |-> UNION {fileHead[s] : s \in {t \in Slots : t[2] = p}}]
  /\ heads = UNION {PackageHead(packageQueue[p], packageTurns[p]) : p \in Packages}

IndexInv == Queued /\ GroupsPublished /\ SlotsPublished /\ PackagesPublished

-----------------------------------------------------------------------------
(* What such an index publishes: at each level the best of what is left. *)

\* Two pairs of entries that agree on the fixed criteria and on how the others
\* compare are in the same order.
LEMMA SameOrder ==
  ASSUME NEW a \in Entries, NEW b \in Entries, NEW c \in Entries, NEW d \in Entries,
         a.benefit = c.benefit, a.cost = c.cost, a.order = c.order, a.index = c.index,
         b.benefit = d.benefit, b.cost = d.cost, b.order = d.order, b.index = d.index,
         Moving(a, b) <=> Moving(c, d), Level(a, b) <=> Level(c, d)
  PROVE  Precedes(a, b) <=> Precedes(c, d)
<1>1. Fixed(a, b) <=> Fixed(c, d)
  BY DEF Fixed
<1> QED
  BY <1>1, PrecedesInOrder

LEMMA LevelOrder ==
  ASSUME NEW a \in Entries, NEW b \in Entries, Level(a, b)
  PROVE  ~Moving(a, b)
BY DEF Level, Moving, Entries

LEMMA EntryTypes ==
  ASSUME TypeOK, NEW i \in Work
  PROVE  /\ Kept(i) \in Entries /\ Idle(i) \in Entries /\ Active(i) \in Entries
         /\ Local(i) \in Entries /\ Head(i) \in Entries
<1>1. Head(i) \in Entries
  BY HeadType
<1>2. Head(i).benefit \in Nat /\ WorkList[i].cost \in Nat \ {0} /\ WorkList[i].order \in Nat
  BY <1>1, WorkAssumption DEF Job, Entries
<1>3. Kept(i) \in Entries
  BY <1>2 DEF Kept, Entries
<1>4. Idle(i) \in Entries
  <2>1. \A e \in Entries, t \in BOOLEAN : [e EXCEPT !.transfer = t] \in Entries
    BY DEF Entries
  <2>2. (Key(i) \in transferItems) \in BOOLEAN
    OBVIOUS
  <2> QED
    BY <1>3, <2>1, <2>2, Zenon DEF Idle
<1>5. Active(i) \in Entries
  BY <1>4 DEF Active, Entries
<1>6. Local(i) \in Entries
  BY <1>1 DEF Local, Entries
<1> QED
  BY <1>1, <1>3, <1>4, <1>5, <1>6

\* What each kind of entry says of its mutant.
LEMMA EntryFields ==
  ASSUME NEW i \in Work
  PROVE  /\ Kept(i).turns = 0 /\ Idle(i).turns = 0 /\ Active(i).turns = 0 /\ Local(i).turns = 0
         /\ Head(i).turns = packageTurns[WorkList[i].package]
         /\ Idle(i).transfer = (Key(i) \in transferItems) /\ Active(i).transfer = Idle(i).transfer
         /\ Local(i).transfer = Idle(i).transfer /\ Head(i).transfer = Idle(i).transfer
         /\ Kept(i).distance = <<0, 0>> /\ Idle(i).distance = <<0, 0>>
         /\ Active(i).distance = <<IF activeItems[Key(i)] # 0 THEN 2 ELSE 1, 0>>
         /\ Local(i).distance = Distance(i) /\ Head(i).distance = Distance(i)
         /\ \A e \in {Kept(i), Idle(i), Active(i), Local(i)} :
              /\ e.benefit = Head(i).benefit /\ e.cost = Head(i).cost
              /\ e.order = Head(i).order /\ e.index = Head(i).index
         /\ Head(i).index = i
BY DEF Kept, Idle, Active, Local, Head

LEMMA GroupFields ==
  ASSUME NEW i \in Work, NEW j \in Work
  PROVE  /\ GroupOf(i) = GroupOf(j) => Key(i) = Key(j) /\ SlotOf(GroupOf(i)) = SlotOf(GroupOf(j))
         /\ SlotOf(GroupOf(i)) = SlotOf(GroupOf(j)) =>
              WorkList[i].file = WorkList[j].file /\ WorkList[i].package = WorkList[j].package
         /\ KeyOf(GroupOf(i)) = Key(i)
         /\ SlotOf(GroupOf(i)) = <<WorkList[i].file, WorkList[i].package>>
BY DEF GroupOf, SlotOf, Key, KeyOf

\* Within a group nothing but the fixed criteria decides.
LEMMA GroupOrder ==
  ASSUME TypeOK, NEW i \in Work, NEW j \in Work, GroupOf(i) = GroupOf(j)
  PROVE  Precedes(Kept(i), Kept(j)) <=> Ahead(i, j)
<1>1. Level(Kept(i), Kept(j))
  BY GroupFields DEF Kept, Level
<1>2. Level(Head(i), Head(j))
  BY GroupFields DEF Head, Level, Distance
<1>3. ~Moving(Kept(i), Kept(j)) /\ ~Moving(Head(i), Head(j))
  BY <1>1, <1>2, LevelOrder, EntryTypes
<1> QED
  BY <1>1, <1>2, <1>3, SameOrder, EntryTypes, EntryFields DEF Ahead

\* In an idle file transfer decides first; in a busy one, whether the item is.
LEMMA SlotOrder ==
  ASSUME TypeOK, NEW i \in Work, NEW j \in Work, SlotOf(GroupOf(i)) = SlotOf(GroupOf(j))
  PROVE  /\ activeFiles[WorkList[i].file] = 0 => (Precedes(Idle(i), Idle(j)) <=> Ahead(i, j))
         /\ activeFiles[WorkList[i].file] # 0 => (Precedes(Active(i), Active(j)) <=> Ahead(i, j))
<1>1. WorkList[i].file = WorkList[j].file /\ WorkList[i].package = WorkList[j].package
  BY GroupFields
<1>2. /\ packageTurns[WorkList[i].package] \in Nat /\ activeFiles[WorkList[i].file] \in Int
  BY JobFields DEF TypeOK
<1>3. CASE activeFiles[WorkList[i].file] = 0
  <2>1. Distance(i) = <<0, 0>> /\ Distance(j) = <<0, 0>>
    BY <1>1, <1>3 DEF Distance
  <2>2. Moving(Idle(i), Idle(j)) <=> Moving(Head(i), Head(j))
    BY <1>1, <1>2, <2>1, EntryFields DEF Moving
  <2>3. Level(Idle(i), Idle(j)) <=> Level(Head(i), Head(j))
    BY <1>1, <2>1, EntryFields DEF Level
  <2>4. Precedes(Idle(i), Idle(j)) <=> Ahead(i, j)
    BY <2>2, <2>3, SameOrder, EntryTypes, EntryFields DEF Ahead
  <2> QED
    BY <1>3, <2>4
<1>4. CASE activeFiles[WorkList[i].file] # 0
  <2>1. /\ Distance(i) = <<IF activeItems[Key(i)] # 0 THEN 2 ELSE 1, activeFiles[WorkList[i].file]>>
        /\ Distance(j) = <<IF activeItems[Key(j)] # 0 THEN 2 ELSE 1, activeFiles[WorkList[i].file]>>
    BY <1>1, <1>4 DEF Distance
  <2>2. /\ Active(i).distance[1] = Head(i).distance[1] /\ Active(j).distance[1] = Head(j).distance[1]
        /\ Active(i).distance[2] = 0 /\ Active(j).distance[2] = 0
        /\ Head(i).distance[2] = Head(j).distance[2] /\ Head(i).distance[2] \in Int
    BY <2>1, <1>2, EntryFields
  <2>3. Moving(Active(i), Active(j)) <=> Moving(Head(i), Head(j))
    BY <1>1, <1>2, <2>2, EntryFields DEF Moving
  <2>4. Active(i).distance = Active(j).distance <=> Head(i).distance = Head(j).distance
    BY <2>1, EntryFields
  <2>5. Level(Active(i), Active(j)) <=> Level(Head(i), Head(j))
    BY <1>1, <2>4, EntryFields DEF Level
  <2>6. Precedes(Active(i), Active(j)) <=> Ahead(i, j)
    BY <2>3, <2>5, SameOrder, EntryTypes, EntryFields DEF Ahead
  <2> QED
    BY <1>4, <2>6
<1> QED
  BY <1>3, <1>4

\* Within a package the turns are the same.
LEMMA PackageOrder ==
  ASSUME TypeOK, NEW i \in Work, NEW j \in Work, WorkList[i].package = WorkList[j].package
  PROVE  Precedes(Local(i), Local(j)) <=> Ahead(i, j)
<1>1. packageTurns[WorkList[i].package] \in Nat
  BY JobFields DEF TypeOK
<1>2. Moving(Local(i), Local(j)) <=> Moving(Head(i), Head(j))
  BY <1>1, EntryFields DEF Moving
<1>3. Level(Local(i), Local(j)) <=> Level(Head(i), Head(j))
  BY EntryFields DEF Level
<1> QED
  BY <1>2, <1>3, SameOrder, EntryTypes, EntryFields DEF Ahead

LEMMA EntryEquality ==
  ASSUME NEW a \in Entries, NEW b \in Entries,
         a.turns = b.turns, a.transfer = b.transfer, a.distance = b.distance,
         a.benefit = b.benefit, a.cost = b.cost, a.order = b.order, a.index = b.index
  PROVE  a = b
BY DEF Entries

LEMMA SameEntry ==
  ASSUME TypeOK, NEW i \in Work
  PROVE  /\ activeFiles[WorkList[i].file] = 0 => Idle(i) = Local(i)
         /\ activeFiles[WorkList[i].file] # 0 =>
              [Active(i) EXCEPT !.distance[2] = activeFiles[WorkList[i].file]] = Local(i)
         /\ [Local(i) EXCEPT !.turns = packageTurns[WorkList[i].package]] = Head(i)
<1>1. ASSUME activeFiles[WorkList[i].file] = 0 PROVE Idle(i) = Local(i)
  <2>1. Distance(i) = <<0, 0>>
    BY <1>1 DEF Distance
  <2> QED
    BY <2>1, EntryTypes, EntryFields, EntryEquality
<1>2. ASSUME activeFiles[WorkList[i].file] # 0
      PROVE  [Active(i) EXCEPT !.distance[2] = activeFiles[WorkList[i].file]] = Local(i)
  <2> DEFINE n == activeFiles[WorkList[i].file]
             d == IF activeItems[Key(i)] # 0 THEN 2 ELSE 1
             e == [Active(i) EXCEPT !.distance[2] = n]
  <2>1. Distance(i) = <<d, n>> /\ n \in Int /\ d \in Int
    BY <1>2, JobFields DEF Distance, TypeOK
  <2>2. Active(i).distance = <<d, 0>>
    BY EntryFields
  <2>3. [<<d, 0>> EXCEPT ![2] = n] = <<d, n>>
    OBVIOUS
  <2> HIDE DEF n, d
  <2>4. e = [Active(i) EXCEPT !.distance = <<d, n>>]
    BY <2>2, <2>3
  <2>5. /\ e \in Entries /\ e.distance = <<d, n>>
        /\ e.turns = Active(i).turns /\ e.transfer = Active(i).transfer
        /\ e.benefit = Active(i).benefit /\ e.cost = Active(i).cost
        /\ e.order = Active(i).order /\ e.index = Active(i).index
    BY <2>1, <2>4, EntryTypes DEF Entries
  <2> HIDE DEF e
  <2>6. e = Local(i)
    BY <2>1, <2>5, EntryTypes, EntryFields, EntryEquality
  <2> QED
    BY <2>6 DEF e, n
<1>3. [Local(i) EXCEPT !.turns = packageTurns[WorkList[i].package]] = Head(i)
  <2> DEFINE e == [Local(i) EXCEPT !.turns = packageTurns[WorkList[i].package]]
  <2>1. packageTurns[WorkList[i].package] \in Nat
    BY JobFields DEF TypeOK
  <2>2. /\ e \in Entries /\ e.turns = packageTurns[WorkList[i].package]
        /\ e.transfer = Local(i).transfer /\ e.distance = Local(i).distance
        /\ e.benefit = Local(i).benefit /\ e.cost = Local(i).cost
        /\ e.order = Local(i).order /\ e.index = Local(i).index
    BY <2>1, EntryTypes DEF Entries
  <2> HIDE DEF e
  <2>3. e = Head(i)
    BY <2>2, EntryTypes, EntryFields, EntryEquality
  <2> QED
    BY <2>3 DEF e
<1> QED
  BY <1>1, <1>2, <1>3

LEMMA LeftFacts ==
  ASSUME TypeOK
  PROVE  /\ \A i \in Work : GroupOf(i) \in Groups /\ SlotOf(GroupOf(i)) \in Slots
         /\ \A g \in Groups : Left(g) \in SUBSET Work /\ SlotOf(g) \in Slots
         /\ \A s \in Slots : AtSlot(s) \in SUBSET Work
         /\ \A s \in Slots : UNION {Left(g) : g \in {h \in Groups : SlotOf(h) = s}} = AtSlot(s)
         /\ \A p \in Packages : AtPackage(p) \in SUBSET Work
         /\ \A p \in Packages : UNION {AtSlot(s) : s \in {t \in Slots : t[2] = p}} = AtPackage(p)
         /\ UNION {AtPackage(p) : p \in Packages} = remaining
<1>1. \A i \in Work : GroupOf(i) \in Groups /\ SlotOf(GroupOf(i)) \in Slots
  BY DEF Groups, Slots
<1>2. /\ \A g \in Groups : Left(g) \in SUBSET Work /\ SlotOf(g) \in Slots
      /\ \A s \in Slots : AtSlot(s) \in SUBSET Work
      /\ \A p \in Packages : AtPackage(p) \in SUBSET Work
  BY DEF TypeOK, Left, AtSlot, AtPackage, Slots
<1>3. \A s \in Slots : UNION {Left(g) : g \in {h \in Groups : SlotOf(h) = s}} = AtSlot(s)
  BY <1>1 DEF Left, AtSlot, TypeOK
<1>4. \A p \in Packages : UNION {AtSlot(s) : s \in {t \in Slots : t[2] = p}} = AtPackage(p)
  <2>1. \A i \in Work : SlotOf(GroupOf(i))[2] = WorkList[i].package
    BY GroupFields
  <2> QED
    BY <1>1, <2>1 DEF AtSlot, AtPackage, TypeOK
<1>5. UNION {AtPackage(p) : p \in Packages} = remaining
  BY JobFields DEF AtPackage, TypeOK
<1> QED
  BY <1>1, <1>2, <1>3, <1>4, <1>5

LEMMA BestInside == ASSUME NEW I PROVE Best(I) \subseteq I
BY DEF Best

LEMMA FirstKept ==
  ASSUME TypeOK, NEW g \in Groups, NEW I \in SUBSET Left(g)
  PROVE  First({Kept(i) : i \in I}) = {Kept(i) : i \in Best(I)}
<1> DEFINE e == [i \in I |-> Kept(i)]
<1>1. \A i \in I : i \in Work /\ GroupOf(i) = g
  BY LeftFacts DEF Left
<1>2. \A i \in I : e[i].index = i
  BY <1>1 DEF Kept
<1>3. \A i, j \in I : Precedes(e[i], e[j]) <=> Ahead(i, j)
  BY <1>1, GroupOrder
<1>4. First({e[i] : i \in I}) = {e[i] : i \in Best(I)}
  <2> HIDE DEF e
  <2> QED
    BY <1>2, <1>3, FirstIsBest
<1>5. {e[i] : i \in I} = {Kept(i) : i \in I} /\ {e[i] : i \in Best(I)} = {Kept(i) : i \in Best(I)}
  BY BestInside
<1> QED
  BY <1>4, <1>5

LEMMA GroupHeads ==
  ASSUME TypeOK, Queued, GroupsPublished, NEW g \in Groups
  PROVE  /\ idleHead[g] = {Idle(i) : i \in Best(Left(g))}
         /\ activeHead[g] = {Active(i) : i \in Best(Left(g))}
<1>1. cold[g] = {Kept(i) : i \in Cold(g)} /\ informed[g] = {Kept(i) : i \in Informed(g)}
  BY DEF Queued
<1>2. Cold(g) \in SUBSET Left(g) /\ Informed(g) \in SUBSET Left(g)
  BY DEF Cold, Informed
<1> DEFINE F == Best(Cold(g)) \cup Best(Informed(g))
<1>3. F \in SUBSET Left(g)
  BY <1>2, BestInside
<1>4. First(cold[g]) \cup First(informed[g]) = {Kept(i) : i \in F}
  <2>1. /\ First(cold[g]) = {Kept(i) : i \in Best(Cold(g))}
        /\ First(informed[g]) = {Kept(i) : i \in Best(Informed(g))}
    BY <1>1, <1>2, FirstKept
  <2> QED
    BY <2>1
<1>5. Best(F) = Best(Left(g))
  <2> DEFINE P == {Cold(g), Informed(g)}
  <2>1. UNION P = Left(g)
    BY DEF Cold, Informed
  <2>2. UNION {Best(J) : J \in P} = F
    OBVIOUS
  <2>3. Left(g) \in SUBSET Work
    BY LeftFacts
  <2> HIDE DEF P, F
  <2> QED
    BY <2>1, <2>2, <2>3, BestOfParts
<1>6. First(First(cold[g]) \cup First(informed[g])) = {Kept(i) : i \in Best(Left(g))}
  <2> HIDE DEF F
  <2> QED
    BY <1>3, <1>4, <1>5, FirstKept
<1>7. \A i \in Best(Left(g)) : Key(i) = KeyOf(g)
  BY BestInside, LeftFacts, GroupFields DEF Left
<1>8. idleHead[g] = {Idle(i) : i \in Best(Left(g))}
  <2> DEFINE Moved(e) == [e EXCEPT !.transfer = (KeyOf(g) \in transferItems)]
  <2>1. idleHead[g] = {Moved(e) : e \in First(First(cold[g]) \cup First(informed[g]))}
    BY DEF GroupsPublished, IdleHead
  <2>2. \A i \in Best(Left(g)) : Idle(i) = Moved(Kept(i))
    BY <1>7 DEF Idle
  <2> HIDE DEF Moved
  <2>3. {Moved(e) : e \in {Kept(i) : i \in Best(Left(g))}} = {Idle(i) : i \in Best(Left(g))}
    BY <2>2
  <2> QED
    BY <1>6, <2>1, <2>3
<1>9. activeHead[g] = {Active(i) : i \in Best(Left(g))}
  <2>1. activeHead[g] = {[e EXCEPT !.distance = <<IF activeItems[KeyOf(g)] # 0 THEN 2 ELSE 1, 0>>] :
                           e \in idleHead[g]}
    BY DEF GroupsPublished, ActiveHead
  <2>2. \A i \in Best(Left(g)) :
          Active(i) = [Idle(i) EXCEPT !.distance = <<IF activeItems[KeyOf(g)] # 0 THEN 2 ELSE 1, 0>>]
    BY <1>7 DEF Active
  <2> QED
    BY <1>8, <2>1, <2>2
<1> QED
  BY <1>8, <1>9

LEMMA SlotHeads ==
  ASSUME TypeOK, Queued, GroupsPublished, SlotsPublished, NEW s \in Slots
  PROVE  fileHead[s] = {Local(i) : i \in Best(AtSlot(s))}
<1> DEFINE own == {h \in Groups : SlotOf(h) = s}
           F == UNION {Best(Left(g)) : g \in own}
           n == activeFiles[s[1]]
<1>1. F \in SUBSET AtSlot(s) /\ AtSlot(s) \in SUBSET Work
  BY BestInside, LeftFacts
<1>2. Best(F) = Best(AtSlot(s))
  <2> DEFINE P == {Left(g) : g \in own}
  <2>1. UNION P = AtSlot(s)
    BY LeftFacts
  <2>2. UNION {Best(J) : J \in P} = F
    OBVIOUS
  <2> HIDE DEF P, F
  <2> QED
    BY <1>1, <2>1, <2>2, BestOfParts
<1>3. /\ fileIdle[s] = {Idle(i) : i \in F}
      /\ fileActive[s] = {Active(i) : i \in F}
  <2>1. fileIdle[s] = UNION {idleHead[g] : g \in own} /\ fileActive[s] = UNION {activeHead[g] : g \in own}
    BY DEF SlotsPublished, Published
  <2>2. \A g \in own : /\ idleHead[g] = {Idle(i) : i \in Best(Left(g))}
                       /\ activeHead[g] = {Active(i) : i \in Best(Left(g))}
    BY GroupHeads
  <2> QED
    BY <2>1, <2>2
<1>4. fileHead[s] = IF n = 0 THEN First(fileIdle[s])
                    ELSE {[e EXCEPT !.distance[2] = n] : e \in First(fileActive[s])}
  BY DEF SlotsPublished, FileHead
<1>5. \A i \in AtSlot(s) : i \in Work /\ SlotOf(GroupOf(i)) = s /\ WorkList[i].file = s[1]
  BY <1>1, GroupFields DEF AtSlot
<1> HIDE DEF F
<1>6. CASE n = 0
  <2> DEFINE e == [i \in F |-> Idle(i)]
  <2>1. \A i \in F : e[i].index = i
    BY <1>1, <1>5, EntryFields
  <2>2. \A i, j \in F : Precedes(e[i], e[j]) <=> Ahead(i, j)
    BY <1>1, <1>5, <1>6, SlotOrder
  <2>3. First({e[i] : i \in F}) = {e[i] : i \in Best(F)}
    <3> HIDE DEF e
    <3> QED
      BY <2>1, <2>2, FirstIsBest
  <2>4. {e[i] : i \in F} = fileIdle[s] /\ {e[i] : i \in Best(F)} = {Idle(i) : i \in Best(F)}
    BY <1>3, BestInside
  <2>5. \A i \in Best(F) : Idle(i) = Local(i)
    BY <1>1, <1>5, <1>6, BestInside, SameEntry
  <2> QED
    BY <1>2, <1>4, <1>6, <2>3, <2>4, <2>5
<1>7. CASE n # 0
  <2> DEFINE e == [i \in F |-> Active(i)]
  <2>1. \A i \in F : e[i].index = i
    BY <1>1, <1>5, EntryFields
  <2>2. \A i, j \in F : Precedes(e[i], e[j]) <=> Ahead(i, j)
    BY <1>1, <1>5, <1>7, SlotOrder
  <2>3. First({e[i] : i \in F}) = {e[i] : i \in Best(F)}
    <3> HIDE DEF e
    <3> QED
      BY <2>1, <2>2, FirstIsBest
  <2>4. {e[i] : i \in F} = fileActive[s] /\ {e[i] : i \in Best(F)} = {Active(i) : i \in Best(F)}
    BY <1>3, BestInside
  <2>5. \A i \in Best(F) : [Active(i) EXCEPT !.distance[2] = n] = Local(i)
    BY <1>1, <1>5, <1>7, BestInside, SameEntry
  <2> HIDE DEF e
  <2>6. fileHead[s] = {[e1 EXCEPT !.distance[2] = n] : e1 \in {Active(i) : i \in Best(F)}}
    BY <1>4, <1>7, <2>3, <2>4
  <2> QED
    BY <1>2, <2>5, <2>6
<1> QED
  BY <1>6, <1>7

LEMMA PackageHeads ==
  ASSUME TypeOK, IndexInv, NEW p \in Packages
  PROVE  PackageHead(packageQueue[p], packageTurns[p]) = {Head(i) : i \in Best(AtPackage(p))}
<1> DEFINE own == {t \in Slots : t[2] = p}
           F == UNION {Best(AtSlot(s)) : s \in own}
<1>1. F \in SUBSET AtPackage(p) /\ AtPackage(p) \in SUBSET Work
  BY BestInside, LeftFacts
<1>2. Best(F) = Best(AtPackage(p))
  <2> DEFINE P == {AtSlot(s) : s \in own}
  <2>1. UNION P = AtPackage(p)
    BY LeftFacts
  <2>2. UNION {Best(J) : J \in P} = F
    OBVIOUS
  <2> HIDE DEF P, F
  <2> QED
    BY <1>1, <2>1, <2>2, BestOfParts
<1>3. packageQueue[p] = {Local(i) : i \in F}
  <2>1. packageQueue[p] = UNION {fileHead[s] : s \in own}
    BY DEF IndexInv, PackagesPublished
  <2>2. \A s \in own : fileHead[s] = {Local(i) : i \in Best(AtSlot(s))}
    BY SlotHeads DEF IndexInv
  <2> QED
    BY <2>1, <2>2
<1> HIDE DEF F
<1> DEFINE e == [i \in F |-> Local(i)]
<1>4. \A i \in AtPackage(p) : i \in Work /\ WorkList[i].package = p
  BY <1>1 DEF AtPackage
<1>5. \A i \in F : e[i].index = i
  BY <1>1, <1>4, EntryFields
<1>6. \A i, j \in F : Precedes(e[i], e[j]) <=> Ahead(i, j)
  BY <1>1, <1>4, PackageOrder
<1>7. First({e[i] : i \in F}) = {e[i] : i \in Best(F)}
  <2> HIDE DEF e
  <2> QED
    BY <1>5, <1>6, FirstIsBest
<1>8. First(packageQueue[p]) = {Local(i) : i \in Best(F)}
  BY <1>3, <1>7, BestInside
<1>9. \A i \in Best(F) : [Local(i) EXCEPT !.turns = packageTurns[p]] = Head(i)
  BY <1>1, <1>4, BestInside, SameEntry
<1> HIDE DEF e
<1> QED
  BY <1>2, <1>8, <1>9 DEF PackageHead

\* The heads are the best of the packages.
LEMMA HeadsAreBest ==
  ASSUME TypeOK, IndexInv
  PROVE  heads = {Head(i) : i \in UNION {Best(AtPackage(p)) : p \in Packages}}
<1>1. \A p \in Packages :
        PackageHead(packageQueue[p], packageTurns[p]) = {Head(i) : i \in Best(AtPackage(p))}
  BY PackageHeads
<1>2. heads = UNION {PackageHead(packageQueue[p], packageTurns[p]) : p \in Packages}
  BY DEF IndexInv, PackagesPublished
<1>3. heads = UNION {{Head(i) : i \in Best(AtPackage(p))} : p \in Packages}
  BY <1>1, <1>2
<1> QED
  BY <1>3

-----------------------------------------------------------------------------
(* What a claim picks. *)

LEMMA BestUnique ==
  ASSUME TypeOK, NEW I \in SUBSET Work, NEW i \in Best(I)
  PROVE  Best(I) = {i}
BY AheadOrder DEF Best

LEMMA FirstHeads ==
  ASSUME TypeOK, NEW I \in SUBSET Work
  PROVE  {h.index : h \in First({Head(i) : i \in I})} = Best(I)
<1> DEFINE e == [i \in I |-> Head(i)]
<1>1. \A i \in I : e[i].index = i
  BY EntryFields
<1>2. \A i, j \in I : Precedes(e[i], e[j]) <=> Ahead(i, j)
  BY DEF Ahead
<1>3. First({e[i] : i \in I}) = {e[i] : i \in Best(I)}
  <2> HIDE DEF e
  <2> QED
    BY <1>1, <1>2, FirstIsBest
<1>4. {e[i] : i \in I} = {Head(i) : i \in I}
  OBVIOUS
<1>5. {h.index : h \in {e[i] : i \in Best(I)}} = Best(I)
  <2> HIDE DEF e
  <2> QED
    BY <1>1, BestInside
<1> QED
  BY <1>3, <1>4, <1>5

\* The first available entry of a queue, brought up to date, is a head.
LEMMA RefreshedEntry ==
  ASSUME TypeOK, NEW i \in Work
  PROVE  [Kept(i) EXCEPT !.distance = Distance(i), !.transfer = (Key(i) \in transferItems),
                         !.turns = packageTurns[WorkList[i].package]] = Head(i)
<1> DEFINE e == [Kept(i) EXCEPT !.distance = Distance(i), !.transfer = (Key(i) \in transferItems),
                                !.turns = packageTurns[WorkList[i].package]]
<1>1. /\ e.turns = Head(i).turns /\ e.distance = Head(i).distance
      /\ e.benefit = Head(i).benefit /\ e.cost = Head(i).cost
      /\ e.order = Head(i).order /\ e.index = Head(i).index
  BY DEF Kept, Head
<1>2. e.transfer = Head(i).transfer
  BY DEF Kept, Head
<1>3. e \in Entries
  <2>1. Head(i) \in Entries /\ Kept(i) \in Entries
    BY EntryTypes
  <2>2. packageTurns[WorkList[i].package] \in Nat /\ Distance(i) \in Int \X Int
        /\ (Key(i) \in transferItems) \in BOOLEAN
    <3>1. Head(i).turns \in Nat /\ Head(i).distance \in Int \X Int
      BY <2>1 DEF Entries
    <3> QED
      BY <3>1, EntryFields
  <2>3. \A a \in Entries, d \in Int \X Int, t \in BOOLEAN, n \in Nat :
          [a EXCEPT !.distance = d, !.transfer = t, !.turns = n] \in Entries
    BY DEF Entries
  <2> QED
    BY <2>1, <2>2, <2>3, Zenon
<1> HIDE DEF e
<1>4. e = Head(i)
  BY <1>1, <1>2, <1>3, EntryTypes, EntryEquality
<1> QED
  BY <1>4 DEF e

\* The first entry of a queue whose resources are free, for one group.
Reach(q, g) ==
  {[e EXCEPT !.distance = Distance(e.index),
             !.transfer = (KeyOf(g) \in transferItems),
             !.turns = packageTurns[g[2]]] :
     e \in First({a \in q : ResourcesAvailable(a.index)})}

LEMMA ReachIsBest ==
  ASSUME TypeOK, NEW g \in Groups, NEW I \in SUBSET Left(g)
  PROVE  Reach({Kept(i) : i \in I}, g) = {Head(i) : i \in Best(I \cap Available)}
<1> DEFINE J == I \cap Available
           q == {Kept(i) : i \in I}
           Brought(e) == [e EXCEPT !.distance = Distance(e.index),
                                   !.transfer = (KeyOf(g) \in transferItems),
                                   !.turns = packageTurns[g[2]]]
<1>1. \A i \in I : i \in Work /\ i \in remaining /\ GroupOf(i) = g
  BY LeftFacts DEF Left
<1>2. {a \in q : ResourcesAvailable(a.index)} = {Kept(i) : i \in J}
  <2>1. \A i \in I : Kept(i).index = i
    BY <1>1, EntryFields
  <2>2. \A i \in I : ResourcesAvailable(i) <=> i \in J
    BY <1>1 DEF Available
  <2> HIDE DEF J
  <2> QED
    BY <2>1, <2>2, <1>1 DEF Available, J
<1>3. First({Kept(i) : i \in J}) = {Kept(i) : i \in Best(J)}
  BY FirstKept
<1>4. \A i \in Best(J) : Brought(Kept(i)) = Head(i)
  <2> SUFFICES ASSUME NEW i \in Best(J) PROVE Brought(Kept(i)) = Head(i)
    OBVIOUS
  <2>1. i \in Work /\ GroupOf(i) = g
    BY <1>1, BestInside
  <2>2. Kept(i).index = i /\ KeyOf(g) = Key(i) /\ g[2] = WorkList[i].package
    BY <2>1, EntryFields, GroupFields DEF GroupOf
  <2> QED
    BY <2>1, <2>2, RefreshedEntry
<1>5. Reach(q, g) = {Brought(e) : e \in {Kept(i) : i \in Best(J)}}
  BY <1>2, <1>3 DEF Reach
<1> HIDE DEF Brought, J
<1>6. Reach(q, g) = {Head(i) : i \in Best(J)}
  BY <1>4, <1>5
<1> QED
  BY <1>6 DEF J

LEMMA ReservableIsBest ==
  ASSUME TypeOK, IndexInv
  PROVE  {h.index : h \in First(Reservable)} = Best(Available)
<1> DEFINE Queues(g) == {Cold(g) \cap Available, Informed(g) \cap Available}
           P == UNION {Queues(g) : g \in Groups}
           F == UNION {Best(J) : J \in P}
<1>1. Available \in SUBSET Work /\ Available \in SUBSET remaining
  BY DEF Available, TypeOK
<1>2. UNION P = Available
  <2>1. \A i \in Available : i \in Left(GroupOf(i)) /\ GroupOf(i) \in Groups
    BY <1>1, LeftFacts DEF Left
  <2>2. \A g \in Groups : UNION Queues(g) = Left(g) \cap Available
    BY DEF Informed, Cold
  <2> HIDE DEF Queues
  <2> QED
    BY <2>1, <2>2
<1>3. Best(F) = Best(Available) /\ F \in SUBSET Work
  <2> HIDE DEF P
  <2>1. F \in SUBSET Available
    BY <1>2, BestInside
  <2> QED
    BY <1>1, <1>2, <2>1, BestOfParts
<1>4. Reservable = UNION {Reach(cold[g], g) \cup Reach(informed[g], g) : g \in Groups}
  BY DEF Reservable, Reach
<1>5. \A g \in Groups :
        Reach(cold[g], g) \cup Reach(informed[g], g)
          = {Head(i) : i \in UNION {Best(J) : J \in Queues(g)}}
  <2> SUFFICES ASSUME NEW g \in Groups
               PROVE  Reach(cold[g], g) \cup Reach(informed[g], g)
                        = {Head(i) : i \in UNION {Best(J) : J \in Queues(g)}}
    OBVIOUS
  <2>1. cold[g] = {Kept(i) : i \in Cold(g)} /\ informed[g] = {Kept(i) : i \in Informed(g)}
    BY DEF IndexInv, Queued
  <2>2. Cold(g) \in SUBSET Left(g) /\ Informed(g) \in SUBSET Left(g)
    BY DEF Cold, Informed
  <2>3. /\ Reach(cold[g], g) = {Head(i) : i \in Best(Cold(g) \cap Available)}
        /\ Reach(informed[g], g) = {Head(i) : i \in Best(Informed(g) \cap Available)}
    BY <2>1, <2>2, ReachIsBest
  <2> QED
    BY <2>3
<1> HIDE DEF Queues
<1>6. Reservable = {Head(i) : i \in F}
  BY <1>4, <1>5
<1> QED
  BY <1>3, <1>6, FirstHeads

\* The fast path and the slow path pick the one mutant nothing is ahead of.
LEMMA ChoiceIsBest ==
  ASSUME TypeOK, IndexInv
  PROVE  /\ Choice = Best(Available)
         /\ Choice = {} <=> Available = {}
<1> DEFINE best == {h.index : h \in First(heads)}
           P == {AtPackage(p) : p \in Packages}
           F == UNION {Best(J) : J \in P}
<1>1. remaining \in SUBSET Work /\ Available \in SUBSET remaining
  BY DEF Available, TypeOK
<1>2. best = Best(remaining)
  <2>1. UNION P = remaining
    BY LeftFacts
  <2>2. heads = {Head(i) : i \in F}
    BY HeadsAreBest
  <2> HIDE DEF P
  <2>3. Best(F) = Best(remaining)
    BY <1>1, <2>1, BestOfParts
  <2>4. F \in SUBSET Work
    BY <1>1, <2>1, BestInside
  <2> QED
    BY <2>2, <2>3, <2>4, FirstHeads
<1>3. CASE DOMAIN Capacity = {}
  <2>1. Available = remaining
    BY <1>3 DEF Available, ResourcesAvailable
  <2> QED
    BY <1>1, <1>2, <1>3, <2>1, BestExists, BestInside DEF Choice
<1>4. CASE DOMAIN Capacity # {} /\ \E i \in best : ResourcesAvailable(i)
  <2>1. PICK i \in Best(remaining) : ResourcesAvailable(i)
    BY <1>2, <1>4
  <2>2. i \in Best(Available)
    BY <1>1, <2>1 DEF Available, Best
  <2>3. Best(remaining) = {i} /\ Best(Available) = {i}
    BY <1>1, <2>1, <2>2, BestUnique
  <2> QED
    BY <1>2, <1>4, <2>2, <2>3, BestInside DEF Choice
<1>5. CASE DOMAIN Capacity # {} /\ ~\E i \in best : ResourcesAvailable(i)
  <2>1. Choice = {h.index : h \in First(Reservable)}
    BY <1>5 DEF Choice
  <2> QED
    BY <1>1, <2>1, ReservableIsBest, BestExists, BestInside
<1> QED
  BY <1>3, <1>4, <1>5

-----------------------------------------------------------------------------
(* The index is brought up to date inside each step. *)

LEMMA IndexInit == QInit => IndexInv
<1> SUFFICES ASSUME QInit PROVE IndexInv
  OBVIOUS
<1>1. TypeOK /\ Init
  BY TypeInit DEF QInit
<1>2. /\ remaining = Pending /\ learnedItems = {} /\ Pending \subseteq Work
      /\ \A i \in Work : activeFiles[WorkList[i].file] = 0 /\ packageTurns[WorkList[i].package] = 0
      /\ \A p \in Packages : packageTurns[p] = 0
      /\ \A f \in Files : activeFiles[f] = 0
  BY <1>1, JobFields, WorkAssumption DEF Init
<1>3. \A i \in Work : Entry(i) = Kept(i)
  <2> SUFFICES ASSUME NEW i \in Work PROVE Local(i) = Kept(i)
    BY DEF Entry, Local
  <2>1. Distance(i) = <<0, 0>>
    BY <1>2 DEF Distance
  <2> DEFINE now == Key(i) \in transferItems
             first == \E j \in Work : WorkList[j].transfer /\ Key(j) = Key(i)
  <2>2. (now <=> first) /\ now \in BOOLEAN /\ first \in BOOLEAN
    BY <1>1 DEF Init
  <2>3. Local(i).transfer = now /\ Kept(i).transfer = first
    BY EntryFields DEF Kept
  <2>4. Local(i).transfer = Kept(i).transfer
    <3> HIDE DEF now, first
    <3> QED
      BY <2>2, <2>3
  <2>5. /\ Local(i).turns = Kept(i).turns /\ Local(i).distance = Kept(i).distance
        /\ Local(i).benefit = Kept(i).benefit /\ Local(i).cost = Kept(i).cost
        /\ Local(i).order = Kept(i).order /\ Local(i).index = Kept(i).index
    BY <2>1, EntryFields
  <2> QED
    BY <1>1, <2>4, <2>5, EntryTypes, EntryEquality
<1>4. Queued
  <2>1. \A g \in Groups :
          /\ Cold(g) = {j \in Pending : GroupOf(j) = g /\ ~WorkList[j].hinted}
          /\ Informed(g) = {j \in Pending : GroupOf(j) = g /\ WorkList[j].hinted}
    BY <1>2 DEF Cold, Informed, Left
  <2>2. \A g \in Groups :
          /\ {Entry(i) : i \in Cold(g)} = {Kept(i) : i \in Cold(g)}
          /\ {Entry(i) : i \in Informed(g)} = {Kept(i) : i \in Informed(g)}
    BY <1>2, <1>3 DEF Cold, Informed, Left
  <2>3. \A g \in Groups :
          /\ {Entry(i) : i \in {j \in Pending : GroupOf(j) = g /\ ~WorkList[j].hinted}}
               = {Kept(i) : i \in Cold(g)}
          /\ {Entry(i) : i \in {j \in Pending : GroupOf(j) = g /\ WorkList[j].hinted}}
               = {Kept(i) : i \in Informed(g)}
    BY <2>1, <2>2
  <2> QED
    BY <2>3 DEF QInit, Queued
<1>5. GroupsPublished
  BY DEF QInit, GroupsPublished
<1>6. SlotsPublished
  <2>1. \A s \in Slots : s[1] \in Files
    BY JobFields DEF Slots, SlotOf, Groups, GroupOf
  <2>2. \A s \in Slots : FileHead(fileIdle[s], fileActive[s], activeFiles[s[1]]) = First(fileIdle[s])
    BY <1>2, <2>1 DEF FileHead
  <2> QED
    BY <2>2 DEF QInit, SlotsPublished
<1>7. PackagesPublished
  BY <1>2 DEF QInit, PackagesPublished
<1> QED
  BY <1>4, <1>5, <1>6, <1>7 DEF IndexInv

\* A mutant's queue entry changes only when its item is learned from.
LEMMA KeptSame ==
  ASSUME NEW i \in Work, Key(i) \in learnedItems <=> Key(i) \in learnedItems'
  PROVE  Kept(i)' = Kept(i)
<1>1. (Head(i).benefit)' = Head(i).benefit
  BY DEF Head
<1> QED
  BY <1>1 DEF Kept

LEMMA KeptLearned ==
  ASSUME NEW i \in Work, Key(i) \in learnedItems'
  PROVE  [Kept(i) EXCEPT !.benefit = 0] = Kept(i)'
<1> DEFINE t == \E j \in Work : WorkList[j].transfer /\ Key(j) = Key(i)
           K(b) == [turns |-> 0, transfer |-> t, distance |-> <<0, 0>>, benefit |-> b,
                    cost |-> WorkList[i].cost, order |-> WorkList[i].order, index |-> i]
<1>1. (Head(i).benefit)' = 0
  BY DEF Head
<1>2. Kept(i) = K(Head(i).benefit) /\ Kept(i)' = K(0)
  BY <1>1 DEF Kept
<1> HIDE DEF t
<1>3. \A b : [K(b) EXCEPT !.benefit = 0] = K(0)
  OBVIOUS
<1> HIDE DEF K
<1> QED
  BY <1>2, <1>3

\* What stays of a queue when the mutants of D leave it.
Without(q, D) == {e \in q : e.index \notin D}

\* Each unclaimed mutant stays in the queue its lessons put it in: of one item
\* the entries taken by a claim leave, and those still to learn from move.
LEMMA QueuedStep ==
  ASSUME TypeOK, Queued, NEW D, NEW key,
         NEW c, NEW inf, Refresh(key, c, inf),
         \A g \in Groups : /\ c[g] = Without(cold[g], D)
                           /\ inf[g] = Without(informed[g], D),
         remaining' = remaining \ D,
         \A i \in D \cap Work : Key(i) = key,
         learnedItems' \in {learnedItems, learnedItems \cup {key}}
  PROVE  Queued'
<1> DEFINE Lesson(g) == (KeyOf(g) \in learnedItems) # (KeyOf(g) \in learnedItems')
<1>1. ASSUME NEW g \in Groups
      PROVE  /\ Left(g)' = Left(g) \ D
             /\ \A i \in Left(g) : i \in Work /\ Key(i) = KeyOf(g)
             /\ KeyOf(g) # key => Left(g) \cap D = {} /\ ~Lesson(g)
             /\ Lesson(g) => KeyOf(g) \notin learnedItems /\ KeyOf(g) \in learnedItems'
  <2>1. Left(g)' = Left(g) \ D
    BY DEF Left
  <2>2. \A i \in Left(g) : i \in Work /\ Key(i) = KeyOf(g)
    BY LeftFacts, GroupFields DEF Left
  <2>3. Lesson(g) => KeyOf(g) = key /\ KeyOf(g) \notin learnedItems /\ KeyOf(g) \in learnedItems'
    OBVIOUS
  <2> HIDE DEF Lesson
  <2> QED
    BY <2>1, <2>2, <2>3
<1>2. ASSUME NEW g \in Groups
      PROVE  /\ c[g] = {Kept(i) : i \in Cold(g) \ D}
             /\ inf[g] = {Kept(i) : i \in Informed(g) \ D}
  <2>1. cold[g] = {Kept(i) : i \in Cold(g)} /\ informed[g] = {Kept(i) : i \in Informed(g)}
    BY DEF Queued
  <2>2. \A i \in Cold(g) \cup Informed(g) : Kept(i).index = i
    BY <1>1, EntryFields DEF Cold, Informed
  <2> QED
    BY <2>1, <2>2 DEF Without
<1>3. ASSUME NEW g \in Groups
      PROVE  /\ cold'[g] = IF KeyOf(g) = key /\ KeyOf(g) \in learnedItems' THEN {} ELSE c[g]
             /\ informed'[g] = IF KeyOf(g) = key /\ KeyOf(g) \in learnedItems'
                               THEN inf[g] \cup {[e EXCEPT !.benefit = 0] : e \in c[g]}
                               ELSE inf[g]
  BY DEF Refresh, RefreshedGroup
<1>4. ASSUME NEW g \in Groups, ~Lesson(g)
      PROVE  /\ cold'[g] = {Kept(i)' : i \in Cold(g)'}
             /\ informed'[g] = {Kept(i)' : i \in Informed(g)'}
  <2>1. KeyOf(g) \in learnedItems <=> KeyOf(g) \in learnedItems'
    BY <1>4
  <2>2. Cold(g)' = Cold(g) \ D /\ Informed(g)' = Informed(g) \ D
    BY <1>1, <2>1 DEF Cold, Informed
  <2>3. \A i \in Left(g) : Kept(i)' = Kept(i)
    BY <1>1, <2>1, KeptSame
  <2>4. c[g] = {Kept(i)' : i \in Cold(g)'} /\ inf[g] = {Kept(i)' : i \in Informed(g)'}
    BY <1>2, <2>2, <2>3 DEF Cold, Informed
  <2>5. KeyOf(g) \in learnedItems' => c[g] = {} /\ Cold(g)' = {}
    BY <1>2, <2>1, <2>2 DEF Cold
  <2>6. CASE KeyOf(g) = key /\ KeyOf(g) \in learnedItems'
    <3>1. cold'[g] = {} /\ informed'[g] = inf[g]
      BY <1>3, <2>5, <2>6
    <3> QED
      BY <2>4, <2>5, <2>6, <3>1
  <2>7. CASE ~(KeyOf(g) = key /\ KeyOf(g) \in learnedItems')
    <3>1. cold'[g] = c[g] /\ informed'[g] = inf[g]
      BY <1>3, <2>7
    <3> QED
      BY <2>4, <3>1
  <2> QED
    BY <2>6, <2>7
<1>5. ASSUME NEW g \in Groups, Lesson(g)
      PROVE  /\ cold'[g] = {Kept(i)' : i \in Cold(g)'}
             /\ informed'[g] = {Kept(i)' : i \in Informed(g)'}
  <2>1. KeyOf(g) = key /\ KeyOf(g) \notin learnedItems /\ KeyOf(g) \in learnedItems'
    BY <1>1, <1>5
  <2>2. Cold(g)' = {} /\ Informed(g)' = Left(g) \ D
    BY <1>1, <2>1 DEF Cold, Informed
  <2>3. cold'[g] = {} /\ informed'[g] = inf[g] \cup {[e EXCEPT !.benefit = 0] : e \in c[g]}
    BY <1>3, <2>1
  <2>4. \A i \in Left(g) : [Kept(i) EXCEPT !.benefit = 0] = Kept(i)'
    BY <1>1, <2>1, KeptLearned
  <2>5. \A i \in Informed(g) : Kept(i) = Kept(i)'
    <3> SUFFICES ASSUME NEW i \in Informed(g) PROVE Kept(i) = Kept(i)'
      OBVIOUS
    <3>1. i \in Left(g) /\ WorkList[i].hinted
      BY <2>1 DEF Informed, Cold
    <3>2. Head(i).benefit = 0 /\ (Head(i).benefit)' = 0
      BY <3>1 DEF Head
    <3> QED
      BY <3>2 DEF Kept
  <2>6. {[e EXCEPT !.benefit = 0] : e \in c[g]} = {Kept(i)' : i \in Cold(g) \ D}
    <3> DEFINE Taught(e) == [e EXCEPT !.benefit = 0]
    <3>1. \A i \in Cold(g) \ D : Taught(Kept(i)) = Kept(i)'
      BY <2>4 DEF Cold
    <3> HIDE DEF Taught
    <3>2. {Taught(e) : e \in c[g]} = {Kept(i)' : i \in Cold(g) \ D}
      BY <1>2, <3>1
    <3> QED
      BY <3>2 DEF Taught
  <2>7. inf[g] = {Kept(i)' : i \in Informed(g) \ D}
    BY <1>2, <2>5
  <2>8. Left(g) \ D = (Cold(g) \ D) \cup (Informed(g) \ D)
    BY DEF Cold, Informed
  <2> QED
    BY <2>2, <2>3, <2>6, <2>7, <2>8
<1>6. ASSUME NEW g \in Groups
      PROVE  /\ cold'[g] = {Kept(i)' : i \in Cold(g)'}
             /\ informed'[g] = {Kept(i)' : i \in Informed(g)'}
  BY <1>4, <1>5
<1>7. cold' = [g \in Groups |-> cold'[g]] /\ informed' = [g \in Groups |-> informed'[g]]
  BY DEF Refresh
<1>8. /\ cold' = [g \in Groups |-> {Kept(i)' : i \in Cold(g)'}]
      /\ informed' = [g \in Groups |-> {Kept(i)' : i \in Informed(g)'}]
  BY <1>6, <1>7
<1> QED
  BY <1>8 DEF Queued

\* Taking some parts of a union out and putting their successors in.
LEMMA Replaced ==
  ASSUME NEW S, NEW T \in SUBSET S, NEW old, NEW new,
         \A s \in S \ T : old[s] = new[s] /\ \A t \in T : old[s] \cap old[t] = {}
  PROVE  ((UNION {old[s] : s \in S}) \ UNION {old[s] : s \in T}) \cup UNION {new[s] : s \in T}
           = UNION {new[s] : s \in S}
OBVIOUS

\* No entry is published by two groups, two slots or two packages.
LEMMA Apart ==
  ASSUME TypeOK, IndexInv
  PROVE  /\ \A g, h \in Groups : g # h => /\ idleHead[g] \cap idleHead[h] = {}
                                          /\ activeHead[g] \cap activeHead[h] = {}
         /\ \A s, t \in Slots : s # t => fileHead[s] \cap fileHead[t] = {}
         /\ \A p, q \in Packages : p # q =>
              PackageHead(packageQueue[p], packageTurns[p])
                \cap PackageHead(packageQueue[q], packageTurns[q]) = {}
<1>1. ASSUME NEW g \in Groups
      PROVE  \A e \in idleHead[g] \cup activeHead[g] : GroupOf(e.index) = g
  <2>1. /\ idleHead[g] = {Idle(i) : i \in Best(Left(g))}
        /\ activeHead[g] = {Active(i) : i \in Best(Left(g))}
    BY GroupHeads DEF IndexInv
  <2>2. \A i \in Best(Left(g)) : i \in Work /\ GroupOf(i) = g
    BY BestInside, LeftFacts DEF Left
  <2>3. \A i \in Best(Left(g)) : Idle(i).index = i /\ Active(i).index = i
    BY <2>2, EntryFields
  <2> QED
    BY <2>1, <2>2, <2>3
<1>2. ASSUME NEW s \in Slots PROVE \A e \in fileHead[s] : SlotOf(GroupOf(e.index)) = s
  <2>1. fileHead[s] = {Local(i) : i \in Best(AtSlot(s))}
    BY SlotHeads DEF IndexInv
  <2>2. \A i \in Best(AtSlot(s)) : i \in Work /\ SlotOf(GroupOf(i)) = s
    BY BestInside, LeftFacts DEF AtSlot
  <2> QED
    BY <2>1, <2>2, EntryFields
<1>3. ASSUME NEW p \in Packages
      PROVE  \A e \in PackageHead(packageQueue[p], packageTurns[p]) : WorkList[e.index].package = p
  <2>1. PackageHead(packageQueue[p], packageTurns[p]) = {Head(i) : i \in Best(AtPackage(p))}
    BY PackageHeads
  <2>2. \A i \in Best(AtPackage(p)) : i \in Work /\ WorkList[i].package = p
    BY BestInside, LeftFacts DEF AtPackage
  <2> QED
    BY <2>1, <2>2, EntryFields
<1> QED
  BY <1>1, <1>2, <1>3

\* The head of an idle group says whether its item transferred, no more.
LEMMA IdleHeadSame ==
  ASSUME NEW g, NEW group, NEW S, NEW T, KeyOf(g) \in S <=> KeyOf(g) \in T
  PROVE  IdleHead(g, group, S) = IdleHead(g, group, T)
<1> DEFINE now == KeyOf(g) \in S
           then == KeyOf(g) \in T
<1>1. now = then
  <2>1. (now <=> then) /\ now \in BOOLEAN /\ then \in BOOLEAN
    OBVIOUS
  <2> HIDE DEF now, then
  <2> QED
    BY <2>1
<1> DEFINE F == First(First(group.cold) \cup First(group.informed))
<1>2. IdleHead(g, group, S) = {[e EXCEPT !.transfer = now] : e \in F}
  BY DEF IdleHead
<1>3. IdleHead(g, group, T) = {[e EXCEPT !.transfer = then] : e \in F}
  BY DEF IdleHead
<1> HIDE DEF now, then, F
<1> QED
  BY <1>1, <1>2, <1>3

\* Only what the key touches publishes anew, and nothing of it is left behind.
LEMMA IndexStep ==
  ASSUME TypeOK, IndexInv, NEW key, NEW c, NEW inf, Refresh(key, c, inf), Reattach(key[1]),
         \A g \in Groups : KeyOf(g) # key =>
           /\ c[g] = cold[g] /\ inf[g] = informed[g]
           /\ KeyOf(g) \in transferItems <=> KeyOf(g) \in transferItems'
           /\ activeItems'[KeyOf(g)] = activeItems[KeyOf(g)],
         \A f \in Files : f # key[1] => activeFiles'[f] = activeFiles[f],
         \A p \in Packages : <<key[1], p>> \notin Slots => packageTurns'[p] = packageTurns[p],
         Queued'
  PROVE  IndexInv'
<1> DEFINE touched == {g \in Groups : KeyOf(g) = key}
           group(g) == RefreshedGroup(g, c[g], inf[g], learnedItems')
           f == key[1]
<1>1. \A g \in Groups :
        /\ cold'[g] = IF g \in touched THEN group(g).cold ELSE c[g]
        /\ informed'[g] = IF g \in touched THEN group(g).informed ELSE inf[g]
        /\ idleHead'[g] = IF g \in touched THEN IdleHead(g, group(g), transferItems')
                          ELSE idleHead[g]
        /\ activeHead'[g] = IF g \in touched THEN ActiveHead(g, idleHead'[g], activeItems')
                            ELSE activeHead[g]
  BY DEF Refresh
<1>2. \A g \in Groups :
        /\ idleHead'[g] = IdleHead(g, [cold |-> cold'[g], informed |-> informed'[g]], transferItems')
        /\ activeHead'[g] = ActiveHead(g, idleHead'[g], activeItems')
  <2> SUFFICES ASSUME NEW g \in Groups
               PROVE  /\ idleHead'[g] = IdleHead(g, [cold |-> cold'[g], informed |-> informed'[g]],
                                                 transferItems')
                      /\ activeHead'[g] = ActiveHead(g, idleHead'[g], activeItems')
    OBVIOUS
  <2>1. CASE g \in touched
    <3>1. cold'[g] = group(g).cold /\ informed'[g] = group(g).informed
      BY <1>1, <2>1
    <3>2. IdleHead(g, group(g), transferItems')
            = IdleHead(g, [cold |-> cold'[g], informed |-> informed'[g]], transferItems')
      BY <3>1 DEF IdleHead
    <3> QED
      BY <1>1, <2>1, <3>2
  <2>2. CASE g \notin touched
    <3>1. /\ cold'[g] = cold[g] /\ informed'[g] = informed[g]
          /\ idleHead'[g] = idleHead[g] /\ activeHead'[g] = activeHead[g]
          /\ activeItems'[KeyOf(g)] = activeItems[KeyOf(g)]
      BY <1>1, <2>2
    <3>2. /\ idleHead[g] = IdleHead(g, [cold |-> cold[g], informed |-> informed[g]], transferItems)
          /\ activeHead[g] = ActiveHead(g, idleHead[g], activeItems)
      BY DEF IndexInv, GroupsPublished
    <3>3. idleHead'[g] = IdleHead(g, [cold |-> cold'[g], informed |-> informed'[g]], transferItems')
      BY <2>2, <3>1, <3>2, IdleHeadSame
    <3>4. ActiveHead(g, idleHead[g], activeItems) = ActiveHead(g, idleHead'[g], activeItems')
      BY <3>1 DEF ActiveHead
    <3> QED
      BY <3>1, <3>2, <3>3, <3>4
  <2> QED
    BY <2>1, <2>2
<1>3. GroupsPublished'
  <2>1. idleHead' = [g \in Groups |-> idleHead'[g]] /\ activeHead' = [g \in Groups |-> activeHead'[g]]
    BY DEF Refresh
  <2> QED
    BY <1>2, <2>1 DEF GroupsPublished
<1>4. \A g \in Groups \ touched : idleHead'[g] = idleHead[g] /\ activeHead'[g] = activeHead[g]
  BY <1>1
<1>5. \A s \in Slots : /\ fileIdle'[s] = Published(idleHead', Groups, s)
                       /\ fileActive'[s] = Published(activeHead', Groups, s)
  <2> SUFFICES ASSUME NEW s \in Slots
               PROVE  /\ fileIdle'[s] = Published(idleHead', Groups, s)
                      /\ fileActive'[s] = Published(activeHead', Groups, s)
    OBVIOUS
  <2> DEFINE S == {h \in Groups : SlotOf(h) = s}
             T == {h \in touched : SlotOf(h) = s}
  <2>1. /\ fileIdle'[s] = (fileIdle[s] \ UNION {idleHead[h] : h \in T}) \cup UNION {idleHead'[h] : h \in T}
        /\ fileActive'[s] = (fileActive[s] \ UNION {activeHead[h] : h \in T})
                              \cup UNION {activeHead'[h] : h \in T}
    BY DEF Refresh, Published
  <2>2. fileIdle[s] = UNION {idleHead[h] : h \in S} /\ fileActive[s] = UNION {activeHead[h] : h \in S}
    BY DEF IndexInv, SlotsPublished, Published
  <2>3. T \in SUBSET S
    OBVIOUS
  <2>4. /\ \A h \in S \ T : idleHead[h] = idleHead'[h] /\ \A t \in T : idleHead[h] \cap idleHead[t] = {}
        /\ \A h \in S \ T : activeHead[h] = activeHead'[h]
                              /\ \A t \in T : activeHead[h] \cap activeHead[t] = {}
    BY <1>4, Apart
  <2> HIDE DEF S, T
  <2>5. fileIdle'[s] = UNION {idleHead'[h] : h \in S}
    BY <2>1, <2>2, <2>3, <2>4, Replaced
  <2>6. fileActive'[s] = UNION {activeHead'[h] : h \in S}
    BY <2>1, <2>2, <2>3, <2>4, Replaced
  <2> QED
    BY <2>5, <2>6 DEF Published, S
<1>6. \A s \in Slots : fileHead'[s] = FileHead(fileIdle'[s], fileActive'[s], activeFiles'[s[1]])
  <2> SUFFICES ASSUME NEW s \in Slots
               PROVE  fileHead'[s] = FileHead(fileIdle'[s], fileActive'[s], activeFiles'[s[1]])
    OBVIOUS
  <2>1. fileHead'[s] = IF s[1] = f THEN FileHead(fileIdle'[s], fileActive'[s], activeFiles'[f])
                       ELSE fileHead[s]
    BY DEF Reattach
  <2>2. CASE s[1] = f
    BY <2>1, <2>2
  <2>3. CASE s[1] # f
    <3>1. \A g \in touched : g[1] = f /\ SlotOf(g) # s
      BY <2>3 DEF KeyOf, SlotOf
    <3>2. Published(idleHead, touched, s) = {} /\ Published(idleHead', touched, s) = {}
          /\ Published(activeHead, touched, s) = {} /\ Published(activeHead', touched, s) = {}
      BY <3>1 DEF Published
    <3>3. fileIdle'[s] = fileIdle[s] /\ fileActive'[s] = fileActive[s]
      BY <3>2 DEF Refresh
    <3>4. s[1] \in Files
      BY JobFields DEF Slots, SlotOf, Groups, GroupOf
    <3>5. fileHead[s] = FileHead(fileIdle[s], fileActive[s], activeFiles[s[1]])
      BY DEF IndexInv, SlotsPublished
    <3> QED
      BY <2>1, <2>3, <3>3, <3>4, <3>5
  <2> QED
    BY <2>2, <2>3
<1>7. SlotsPublished'
  <2>1. /\ fileIdle' = [s \in Slots |-> fileIdle'[s]] /\ fileActive' = [s \in Slots |-> fileActive'[s]]
        /\ fileHead' = [s \in Slots |-> fileHead'[s]]
    BY DEF Refresh, Reattach
  <2> QED
    BY <1>5, <1>6, <2>1 DEF SlotsPublished
<1> DEFINE own == {s[2] : s \in {t \in Slots : t[1] = f}}
<1>8. \A s \in Slots : s = <<s[1], s[2]>> /\ s[2] \in Packages
  BY JobFields DEF Slots, SlotOf, Groups, GroupOf
<1>9. own \in SUBSET Packages /\ \A p \in Packages : p \in own <=> <<f, p>> \in Slots
  <2>1. \A p : <<f, p>>[1] = f /\ <<f, p>>[2] = p
    OBVIOUS
  <2> QED
    BY <1>8, <2>1
<1>10. \A p \in Packages : packageQueue'[p] = UNION {fileHead'[s] : s \in {t \in Slots : t[2] = p}}
  <2> SUFFICES ASSUME NEW p \in Packages
               PROVE  packageQueue'[p] = UNION {fileHead'[s] : s \in {t \in Slots : t[2] = p}}
    OBVIOUS
  <2> DEFINE S == {t \in Slots : t[2] = p}
             T == {t \in S : t[1] = f}
  <2>1. packageQueue[p] = UNION {fileHead[s] : s \in S}
    BY DEF IndexInv, PackagesPublished
  <2>2. packageQueue'[p] = IF p \in own THEN (packageQueue[p] \ fileHead[<<f, p>>]) \cup fileHead'[<<f, p>>]
                           ELSE packageQueue[p]
    BY DEF Reattach
  <2>3. \A s \in S \ T : fileHead'[s] = fileHead[s]
    BY DEF Reattach
  <2>4. CASE p \in own
    <3>1. T = {<<f, p>>}
      BY <1>8, <1>9, <2>4
    <3>2. \A s \in S \ T : fileHead[s] = fileHead'[s] /\ \A t \in T : fileHead[s] \cap fileHead[t] = {}
      BY <2>3, Apart
    <3>3. packageQueue'[p] = ((UNION {fileHead[s] : s \in S}) \ UNION {fileHead[s] : s \in T})
                               \cup UNION {fileHead'[s] : s \in T}
      <4> HIDE DEF S, T
      <4> QED
        BY <2>1, <2>2, <2>4, <3>1
    <3>4. T \in SUBSET S
      OBVIOUS
    <3> HIDE DEF S, T
    <3>5. packageQueue'[p] = UNION {fileHead'[s] : s \in S}
      BY <3>2, <3>3, <3>4, Replaced
    <3> QED
      BY <3>5 DEF S
  <2>5. CASE p \notin own
    <3>1. T = {}
      BY <2>5
    <3> QED
      BY <2>1, <2>2, <2>3, <2>5, <3>1
  <2> QED
    BY <2>4, <2>5
<1>11. heads' = UNION {PackageHead(packageQueue'[p], packageTurns'[p]) : p \in Packages}
  <2> DEFINE old == [p \in Packages |-> PackageHead(packageQueue[p], packageTurns[p])]
             new == [p \in Packages |-> PackageHead(packageQueue'[p], packageTurns'[p])]
  <2>1. heads = UNION {old[p] : p \in Packages}
    BY DEF IndexInv, PackagesPublished
  <2>2. heads' = (heads \ UNION {old[p] : p \in own}) \cup UNION {new[p] : p \in own}
    <3>1. heads' = (heads \ UNION {PackageHead(packageQueue[p], packageTurns[p]) : p \in own})
                     \cup UNION {PackageHead(packageQueue'[p], packageTurns'[p]) : p \in own}
      BY DEF Reattach
    <3>2. /\ {PackageHead(packageQueue[p], packageTurns[p]) : p \in own} = {old[p] : p \in own}
          /\ {PackageHead(packageQueue'[p], packageTurns'[p]) : p \in own} = {new[p] : p \in own}
      <4> HIDE DEF own
      <4> QED
        BY <1>9
    <3> HIDE DEF own, old, new
    <3> QED
      BY <3>1, <3>2
  <2>3. \A p \in Packages \ own : old[p] = new[p] /\ \A q \in own : old[p] \cap old[q] = {}
    <3>1. \A p \in Packages \ own : packageQueue'[p] = packageQueue[p] /\ packageTurns'[p] = packageTurns[p]
      BY <1>9 DEF Reattach
    <3> HIDE DEF own
    <3> QED
      BY <1>9, <3>1, Apart
  <2> HIDE DEF own, old, new
  <2>4. heads' = UNION {new[p] : p \in Packages}
    BY <1>9, <2>1, <2>2, <2>3, Replaced
  <2> QED
    BY <2>4 DEF new
<1>12. PackagesPublished'
  <2>1. packageQueue' = [p \in Packages |-> packageQueue'[p]]
    BY DEF Reattach
  <2> QED
    BY <1>10, <1>11, <2>1 DEF PackagesPublished
<1> QED
  BY <1>3, <1>7, <1>12 DEF IndexInv

LEMMA IndexKept ==
  ASSUME IndexInv, UNCHANGED <<queue, index>>
  PROVE  IndexInv'
<1> USE DEF queue, index
<1>1. Queued'
  BY DEF IndexInv, Queued, Cold, Informed, Left, Kept, Head
<1>2. GroupsPublished'
  BY DEF IndexInv, GroupsPublished
<1>3. SlotsPublished' /\ PackagesPublished'
  BY DEF IndexInv, SlotsPublished, PackagesPublished
<1> QED
  BY <1>1, <1>2, <1>3 DEF IndexInv

LEMMA IndexReserve ==
  ASSUME TypeOK, IndexInv, NEW w \in Workers, NEW i \in Work, ReserveFromIndex(w, i)
  PROVE  Reserve(w, i) /\ IndexInv'
<1>1. Reserve(w, i)
  <2>1. i \in Best(Available)
    BY ChoiceIsBest DEF ReserveFromIndex
  <2> QED
    BY <2>1 DEF ReserveFromIndex, Reserve, Selected, Best, Ahead
<1> DEFINE c == [g \in Groups |-> {e \in cold[g] : e.index # i}]
           inf == [g \in Groups |-> {e \in informed[g] : e.index # i}]
           key == Key(i)
           D == {i}
<1>2. Take(w, i) /\ Refresh(key, c, inf) /\ Reattach(key[1])
  BY DEF ReserveFromIndex, Key
<1>3. \A g \in Groups : /\ c[g] = Without(cold[g], D)
                        /\ inf[g] = Without(informed[g], D)
  BY DEF Without
<1>4. /\ remaining' = remaining \ D /\ transferItems' = transferItems
      /\ learnedItems' \in {learnedItems, learnedItems \cup {key}}
  BY <1>2 DEF Take
<1>5. \A j \in D \cap Work : Key(j) = key
  OBVIOUS
<1>6. ASSUME NEW g \in Groups, KeyOf(g) # key
      PROVE  /\ c[g] = cold[g] /\ inf[g] = informed[g]
             /\ activeItems'[KeyOf(g)] = activeItems[KeyOf(g)]
  <2>1. i \notin Left(g)
    BY <1>6, GroupFields DEF Left
  <2>2. cold[g] = {Kept(j) : j \in Cold(g)} /\ informed[g] = {Kept(j) : j \in Informed(g)}
    BY DEF IndexInv, Queued
  <2>3. \A j \in Cold(g) \cup Informed(g) : Kept(j).index # i
    BY <2>1, LeftFacts, EntryFields DEF Cold, Informed
  <2>4. KeyOf(g) \in Keys
    BY JobFields, GroupFields DEF Groups
  <2>5. activeItems'[KeyOf(g)] = activeItems[KeyOf(g)]
    BY <1>2, <1>6, <2>4 DEF Take, TypeOK
  <2> QED
    BY <2>2, <2>3, <2>5
<1>7. \A f \in Files : f # key[1] => activeFiles'[f] = activeFiles[f]
  BY <1>2 DEF Take, TypeOK, Key
<1>8. \A p \in Packages : <<key[1], p>> \notin Slots => packageTurns'[p] = packageTurns[p]
  <2>1. <<key[1], WorkList[i].package>> \in Slots
    BY LeftFacts, GroupFields DEF Key
  <2> QED
    BY <1>2, <2>1 DEF Take, TypeOK
<1> HIDE DEF c, inf, key, D
<1>9. Queued
  BY DEF IndexInv
<1>10. Queued'
  BY <1>2, <1>3, <1>4, <1>5, <1>9, QueuedStep
<1>11. IndexInv'
  BY <1>2, <1>4, <1>6, <1>7, <1>8, <1>10, IndexStep
<1> QED
  BY <1>1, <1>11

LEMMA IndexRelease ==
  ASSUME TypeOK, IndexInv, NEW w \in Workers, claimed[w] # NoWork,
         NEW learned, NEW transfer, Release(w, learned, transfer),
         Refresh(Key(claimed[w]), cold, informed), Reattach(WorkList[claimed[w]].file)
  PROVE  IndexInv'
<1> DEFINE i == claimed[w]
           key == Key(i)
           D == {}
           c == cold
           inf == informed
<1>1. i \in Work /\ key[1] = WorkList[i].file
  BY DEF TypeOK, Key
<1>2. Refresh(key, c, inf) /\ Reattach(key[1])
  BY <1>1
<1>3. /\ remaining' = remaining /\ packageTurns' = packageTurns
      /\ learnedItems' \in {learnedItems, learnedItems \cup {key}}
      /\ transferItems' \in {transferItems, transferItems \cup {key}, transferItems \ {key}}
      /\ activeItems' = [activeItems EXCEPT ![key] = @ - 1]
      /\ activeFiles' = [activeFiles EXCEPT ![key[1]] = @ - 1]
  BY <1>1 DEF Release
<1>4. \A g \in Groups : /\ c[g] = Without(cold[g], D)
                        /\ inf[g] = Without(informed[g], D)
  BY DEF Without
<1>5. \A g \in Groups : KeyOf(g) # key =>
        /\ c[g] = cold[g] /\ inf[g] = informed[g]
        /\ KeyOf(g) \in transferItems <=> KeyOf(g) \in transferItems'
        /\ activeItems'[KeyOf(g)] = activeItems[KeyOf(g)]
  <2>1. \A g \in Groups : KeyOf(g) \in Keys
    BY JobFields, GroupFields DEF Groups
  <2> HIDE DEF key
  <2> QED
    BY <1>3, <2>1 DEF TypeOK
<1>6. \A f \in Files : f # key[1] => activeFiles'[f] = activeFiles[f]
  <2> HIDE DEF key
  <2> QED
    BY <1>3 DEF TypeOK
<1>7. remaining' = remaining \ D /\ \A j \in D \cap Work : Key(j) = key
  BY <1>3
<1>8. Queued /\ learnedItems' \in {learnedItems, learnedItems \cup {key}}
  BY <1>3 DEF IndexInv
<1> HIDE DEF i, key, D, c, inf
<1>9. Queued'
  BY <1>2, <1>4, <1>7, <1>8, QueuedStep
<1> QED
  BY <1>2, <1>3, <1>5, <1>6, <1>9, IndexStep

LEMMA IndexedStep ==
  ASSUME TypeOK, PlaceOK, IndexInv, [QNext]_<<vars, index>>
  PROVE  [Next]_vars /\ IndexInv'
<1>1. ASSUME NEW w \in Workers, NEW i \in Work, ReserveFromIndex(w, i)
      PROVE  [Next]_vars /\ IndexInv'
  BY <1>1, IndexReserve DEF Next, Worker, Claim
<1>2. ASSUME NEW w \in Workers, NothingToReserve(w) PROVE [Next]_vars /\ IndexInv'
  <2>1. Available = {}
    BY <1>2, ChoiceIsBest DEF NothingToReserve
  <2>2. Exhausted(w) \/ Block(w)
    BY <1>2, <2>1 DEF NothingToReserve, Exhausted, Block
  <2>3. UNCHANGED <<queue, index>>
    BY <1>2 DEF NothingToReserve
  <2> QED
    BY <2>2, <2>3, IndexKept DEF Next, Worker, Claim
<1>3. ASSUME NEW w \in Workers, Dropped(w) PROVE [Next]_vars /\ IndexInv'
  <2>1. Judge(w) \/ DropAbandoned(w)
    BY <1>3 DEF Dropped
  <2>2. [Next]_vars
    BY <2>1 DEF Next, Worker
  <2>3. claimed[w] # NoWork
    BY <2>1 DEF Judge, Complete, Defer, LoseContainment, DropAbandoned, PlaceOK
  <2>4. CASE LoseContainment(w)
    <3>1. UNCHANGED index
      BY <1>3, <2>3, <2>4 DEF LoseContainment, Dropped
    <3>2. UNCHANGED queue
      BY <2>4 DEF LoseContainment
    <3> QED
      BY <2>2, <3>1, <3>2, IndexKept
  <2>5. ASSUME NEW learned, NEW transfer, Release(w, learned, transfer) PROVE IndexInv'
    <3>1. claimed'[w] = NoWork
      BY <2>5 DEF Release, TypeOK
    <3>2. Refresh(Key(claimed[w]), cold, informed) /\ Reattach(WorkList[claimed[w]].file)
      BY <1>3, <3>1 DEF Dropped
    <3> QED
      BY <2>3, <2>5, <3>2, IndexRelease
  <2> QED
    BY <2>1, <2>2, <2>4, <2>5 DEF Judge, Complete, Defer, DropAbandoned
<1>4. ASSUME Elsewhere PROVE [Next]_vars /\ IndexInv'
  <2>1. [Next]_vars
    BY <1>4 DEF Elsewhere, Next, Worker, Claim, Threads
  <2>2. UNCHANGED <<queue, index>>
    BY <1>4 DEF Elsewhere, LoopHead, EnterClaim, SpuriousWake, NotifyReleased, NotifyDropped,
       Abandon, FailCheckpoint, DrainEnds, vars
  <2> QED
    BY <2>1, <2>2, IndexKept
<1>5. CASE UNCHANGED <<vars, index>>
  BY <1>5, IndexKept DEF vars
<1> QED
  BY <1>1, <1>2, <1>3, <1>4, <1>5 DEF QNext

LEMMA IndexInvariant == QSpec => [](TypeOK /\ PlaceOK /\ IndexInv)
<1>1. QInit => TypeOK /\ PlaceOK /\ IndexInv
  <2>1. Init => PlaceOK
    BY ThreadAssumption, WorkAssumption DEF Init, PlaceOK, Threads
  <2> QED
    BY <2>1, TypeInit, IndexInit DEF QInit
<1>2. TypeOK /\ PlaceOK /\ IndexInv /\ [QNext]_<<vars, index>>
        => TypeOK' /\ PlaceOK' /\ IndexInv'
  BY IndexedStep, TypeStep
<1> QED
  BY <1>1, <1>2, PTL DEF QSpec

\* IndexExact: whatever was claimed, given back and learned, the index holds
\* what a recomputation over the unclaimed work would give, with no unclaimed
\* mutant missing, none twice, and every head the present best of its package.
THEOREM IndexIsExact == QSpec => []IndexExact
<1>1. ASSUME TypeOK, IndexInv PROVE IndexExact
  <2> USE <1>1
  <2>1. ASSUME NEW g \in Groups
        PROVE  /\ {<<e.index, e.benefit, e.cost, e.order>> : e \in cold[g] \cup informed[g]} =
                    {<<i, Head(i).benefit, WorkList[i].cost, WorkList[i].order>> :
                       i \in {j \in remaining : GroupOf(j) = g}}
               /\ \A a \in cold[g], b \in informed[g] : a.index # b.index
    <3>1. cold[g] = {Kept(i) : i \in Cold(g)} /\ informed[g] = {Kept(i) : i \in Informed(g)}
      BY DEF IndexInv, Queued
    <3>2. Cold(g) \cup Informed(g) = Left(g) /\ Cold(g) \cap Informed(g) = {}
      BY DEF Cold, Informed
    <3>3. \A i : /\ Kept(i).index = i /\ Kept(i).benefit = Head(i).benefit
                 /\ Kept(i).cost = WorkList[i].cost /\ Kept(i).order = WorkList[i].order
      BY DEF Kept
    <3>4. cold[g] \cup informed[g] = {Kept(i) : i \in Left(g)}
      BY <3>1, <3>2
    <3>5. {<<e.index, e.benefit, e.cost, e.order>> : e \in {Kept(i) : i \in Left(g)}}
            = {<<i, Head(i).benefit, WorkList[i].cost, WorkList[i].order>> : i \in Left(g)}
      BY <3>3
    <3>6. \A a \in cold[g], b \in informed[g] : a.index # b.index
      BY <3>1, <3>2, <3>3
    <3> QED
      BY <3>4, <3>5, <3>6 DEF Left
  <2>2. heads = UNION {First({Head(i) : i \in AtPackage(p)}) : p \in Packages}
    <3>1. ASSUME NEW p \in Packages
          PROVE  First({Head(i) : i \in AtPackage(p)})
                   = PackageHead(packageQueue[p], packageTurns[p])
      <4> DEFINE I == AtPackage(p)
                 e == [i \in I |-> Head(i)]
      <4>1. I \in SUBSET Work
        BY LeftFacts
      <4>2. \A i \in I : e[i].index = i
        BY <4>1, EntryFields
      <4>3. \A i, j \in I : Precedes(e[i], e[j]) <=> Ahead(i, j)
        BY DEF Ahead
      <4>4. {e[i] : i \in I} = {Head(i) : i \in I} /\ {e[i] : i \in Best(I)} = {Head(i) : i \in Best(I)}
        BY BestInside
      <4>5. First({e[i] : i \in I}) = {e[i] : i \in Best(I)}
        <5> HIDE DEF e, I
        <5> QED
          BY <4>2, <4>3, FirstIsBest
      <4> QED
        BY <4>4, <4>5, PackageHeads
    <3>2. heads = UNION {PackageHead(packageQueue[p], packageTurns[p]) : p \in Packages}
      BY DEF IndexInv, PackagesPublished
    <3> QED
      BY <3>1, <3>2
  <2> QED
    BY <2>1, <2>2 DEF IndexExact, AtPackage
<1> QED
  BY <1>1, IndexInvariant, PTL

\* ImplementsScheduler: the fast path over the heads and the slow path over the
\* queues claim exactly the mutant that the priorities name among all that may
\* be claimed, and give up only when there is none.
THEOREM IndexImplements == QSpec => ImplementsScheduler
<1>1. QInit => Init
  BY DEF QInit
<1>2. TypeOK /\ PlaceOK /\ IndexInv /\ [QNext]_<<vars, index>> => [Next]_vars
  BY IndexedStep
<1> QED
  BY <1>1, <1>2, IndexInvariant, PTL DEF QSpec, ImplementsScheduler, Spec
=============================================================================
