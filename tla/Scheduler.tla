------------------------------ MODULE Scheduler ------------------------------
(* The priority queue one sweep pass hands mutants out of, and the worker    *)
(* threads that loop over it (crates/cargo-gamma-lib/src/exec/sweep.rs).     *)
(*                                                                           *)
(* Everything between taking and dropping the state mutex is one step,       *)
(* except that a claim reads the abandonment cell first and decides in a     *)
(* second step with the mutex still held: the cell is set without the mutex. *)
EXTENDS Integers, FiniteSets

CONSTANTS
  Workers,    \* the threads of the pass
  Work,       \* indices into the work list
  Files, Items, Packages, Resources,
  WorkList,   \* the ScheduledWork records
  Pending,    \* the indices that still need a verdict when the pass starts
  Capacity,   \* resource_capacities: a function from some of the resources
  NoWork, Free, Drain

Job == [file: Files, item: Items, package: Packages, cost: Nat \ {0},
        benefit: Nat, hinted: BOOLEAN, transfer: BOOLEAN, order: Nat,
        resources: SUBSET Resources]

ASSUME WorkAssumption ==
  /\ IsFiniteSet(Work) /\ Work \subseteq Nat
  /\ WorkList \in [Work -> Job]
  /\ Pending \subseteq Work
  /\ NoWork \notin Work

ASSUME ThreadAssumption ==
  /\ IsFiniteSet(Workers)
  /\ Free \notin Workers /\ Drain \notin Workers

\* A capacity of zero would make its users wait for ever.
ASSUME CapacityAssumption ==
  /\ DOMAIN Capacity \subseteq Resources
  /\ \A r \in DOMAIN Capacity : Capacity[r] \in Nat \ {0}

VARIABLES
  remaining,        \* indices not yet claimed
  remainingCount,
  activeFiles, activeItems, activeResources,   \* reservations outstanding
  learnedItems, transferItems,
  packageTurns,     \* claims made from each package
  lock,             \* holder of the state mutex between two steps, or Free
  pc,               \* where each worker thread, and the drain, stands
  claimed,          \* the live Assignment of each worker
  abandoned         \* the OnceLock the workers and the drain share

queue == <<remaining, remainingCount, activeFiles, activeItems, activeResources,
           learnedItems, transferItems, packageTurns>>
vars == <<queue, lock, pc, claimed, abandoned>>

Threads == Workers \cup {Drain}

Key(i) == <<WorkList[i].file, WorkList[i].item>>
Keys == Files \X Items

\* A resource nobody configured admits one user at a time.
Limit(r) == IF r \in DOMAIN Capacity THEN Capacity[r] ELSE 1

-----------------------------------------------------------------------------
(* Selection. *)

Flag(b) == IF b THEN 1 ELSE 0

\* An idle file first, then an idle item of a busy file, then a busy item.
Distance(i) ==
  IF activeFiles[WorkList[i].file] = 0 THEN <<0, 0>>
  ELSE <<IF activeItems[Key(i)] = 0 THEN 1 ELSE 2, activeFiles[WorkList[i].file]>>

\* The published head an item would be, were it the best of its package.
Head(i) ==
  [turns    |-> packageTurns[WorkList[i].package],
   transfer |-> Key(i) \in transferItems,
   distance |-> Distance(i),
   benefit  |-> IF Key(i) \in learnedItems \/ WorkList[i].hinted
                THEN 0 ELSE WorkList[i].benefit,
   cost     |-> WorkList[i].cost,
   order    |-> WorkList[i].order,
   index    |-> i]

\* Each criterion as a difference that is negative when a comes first: the
\* fourth compares benefit per unit of cost by cross-multiplication.
Criteria(a, b) ==
  <<a.turns - b.turns,
    Flag(b.transfer) - Flag(a.transfer),
    a.distance[1] - b.distance[1],
    a.distance[2] - b.distance[2],
    b.benefit * a.cost - a.benefit * b.cost,
    b.cost - a.cost,
    a.order - b.order,
    a.index - b.index>>

Precedes(a, b) ==
  \E k \in 1..8 :
    /\ Criteria(a, b)[k] < 0
    /\ \A j \in 1..(k - 1) : Criteria(a, b)[j] = 0

\* Without configured capacities a reservation never depends on resources.
ResourcesAvailable(i) ==
  \/ DOMAIN Capacity = {}
  \/ \A r \in WorkList[i].resources : activeResources[r] < Limit(r)

Available == {i \in remaining : ResourcesAvailable(i)}

Selected(i) ==
  /\ i \in Available
  /\ \A j \in Available \ {i} : Precedes(Head(i), Head(j))

-----------------------------------------------------------------------------
Init ==
  /\ remaining = Pending
  /\ remainingCount = Cardinality(Pending)
  /\ activeFiles = [f \in Files |-> 0]
  /\ activeItems = [k \in Keys |-> 0]
  /\ activeResources = [r \in Resources |-> 0]
  /\ learnedItems = {}
  /\ transferItems = {Key(i) : i \in {j \in Work : WorkList[j].transfer}}
  /\ packageTurns = [p \in Packages |-> 0]
  /\ lock = Free
  /\ pc = [t \in Threads |-> IF t = Drain THEN "draining" ELSE "loop"]
  /\ claimed = [w \in Workers |-> NoWork]
  /\ abandoned = FALSE

Goto(t, place) == pc' = [pc EXCEPT ![t] = place]

\* notify_all: every blocked claim goes back for the mutex.
Wake(t, place) ==
  pc' = [u \in Threads |-> IF u = t THEN place
                           ELSE IF pc[u] = "blocked" THEN "claim" ELSE pc[u]]

\* The loop of a worker tests the abandonment cell before each claim.
LoopHead(w) ==
  /\ pc[w] = "loop"
  /\ Goto(w, IF abandoned THEN "done" ELSE "claim")
  /\ UNCHANGED <<queue, lock, claimed, abandoned>>

EnterClaim(w) ==
  /\ pc[w] = "claim"
  /\ lock = Free
  /\ IF abandoned
     THEN Goto(w, "done") /\ UNCHANGED lock
     ELSE Goto(w, "deciding") /\ lock' = w
  /\ UNCHANGED <<queue, claimed, abandoned>>

\* Mistake: the claimed item keeps its flag and is claimed again.
TakeKeepingFlag(w, i) ==
  /\ activeFiles' = [activeFiles EXCEPT ![WorkList[i].file] = @ + 1]
  /\ activeItems' = [activeItems EXCEPT ![Key(i)] = @ + 1]
  /\ packageTurns' = [packageTurns EXCEPT ![WorkList[i].package] = @ + 1]
  /\ claimed' = [claimed EXCEPT ![w] = i]
  /\ lock' = Free /\ Goto(w, "judging")
  /\ UNCHANGED <<remaining, remainingCount, activeResources, learnedItems,
                 transferItems, abandoned>>

\* Mistake: the count of unclaimed items is not kept in step with their flags.
TakeUncounted(w, i) ==
  /\ remaining' = remaining \ {i}
  /\ activeFiles' = [activeFiles EXCEPT ![WorkList[i].file] = @ + 1]
  /\ activeItems' = [activeItems EXCEPT ![Key(i)] = @ + 1]
  /\ packageTurns' = [packageTurns EXCEPT ![WorkList[i].package] = @ + 1]
  /\ claimed' = [claimed EXCEPT ![w] = i]
  /\ lock' = Free /\ Goto(w, "judging")
  /\ UNCHANGED <<remainingCount, activeResources, learnedItems, transferItems, abandoned>>

\* The whole of reserve_next after its selection; the mutex is then given up.
Take(w, i) ==
  /\ remaining' = remaining \ {i}
  /\ remainingCount' = remainingCount - 1
  /\ activeFiles' = [activeFiles EXCEPT ![WorkList[i].file] = @ + 1]
  /\ activeItems' = [activeItems EXCEPT ![Key(i)] = @ + 1]
  /\ packageTurns' = [packageTurns EXCEPT ![WorkList[i].package] = @ + 1]
  /\ activeResources' = [r \in Resources |->
        activeResources[r] + Flag(r \in WorkList[i].resources)]
  /\ claimed' = [claimed EXCEPT ![w] = i]
  /\ lock' = Free
  /\ Goto(w, "judging")
  /\ UNCHANGED <<learnedItems, transferItems, abandoned>>

Reserve(w, i) ==
  /\ pc[w] = "deciding"
  /\ Selected(i)
  /\ Take(w, i)

Exhausted(w) ==
  /\ pc[w] = "deciding"
  /\ Available = {}
  /\ remainingCount = 0
  /\ lock' = Free
  /\ Goto(w, "done")
  /\ UNCHANGED <<queue, claimed, abandoned>>

\* Joining the wait set and giving the mutex up is one step of the condvar.
Block(w) ==
  /\ pc[w] = "deciding"
  /\ Available = {}
  /\ remainingCount # 0
  /\ lock' = Free
  /\ Goto(w, "blocked")
  /\ UNCHANGED <<queue, claimed, abandoned>>

\* A condition variable may wake a thread nobody notified.
SpuriousWake(w) ==
  /\ pc[w] = "blocked"
  /\ Goto(w, "claim")
  /\ UNCHANGED <<queue, lock, claimed, abandoned>>

\* Dropping an assignment: learned and transfer are what Assignment::complete
\* recorded in it, transfer being empty when it was dropped without a verdict.
Release(w, learned, transfer) ==
  LET i == claimed[w]  key == Key(claimed[w]) IN
  /\ lock = Free
  /\ learnedItems' = IF learned THEN learnedItems \cup {key} ELSE learnedItems
  /\ transferItems' = IF transfer = {} THEN transferItems
                      ELSE IF TRUE \in transfer THEN transferItems \cup {key}
                      ELSE transferItems \ {key}
  /\ activeFiles' = [activeFiles EXCEPT ![WorkList[i].file] = @ - 1]
  /\ activeItems' = [activeItems EXCEPT ![key] = @ - 1]
  /\ activeResources' = [r \in Resources |->
        activeResources[r] - Flag(r \in WorkList[i].resources)]
  /\ claimed' = [claimed EXCEPT ![w] = NoWork]
  /\ UNCHANGED <<remaining, remainingCount, packageTurns, lock, abandoned>>

\* A verdict was reached: the item has been learned from.
Complete(w, transfer) ==
  /\ pc[w] = "judging"
  /\ Release(w, TRUE, {transfer})
  /\ Goto(w, "notify")

\* Mistake: an assignment without a verdict is forgotten, not dropped.
DeferWithoutRelease(w) ==
  /\ pc[w] = "judging"
  /\ claimed' = [claimed EXCEPT ![w] = NoWork]
  /\ Goto(w, "notify")
  /\ UNCHANGED <<queue, lock, abandoned>>

\* This pass could not judge the mutant: the assignment is simply dropped.
Defer(w) ==
  /\ pc[w] = "judging"
  /\ Release(w, FALSE, {})
  /\ Goto(w, "notify")

\* Mistake: nobody hears that the reservation was given back.
NotifyNobody(w) ==
  /\ pc[w] = "notify"
  /\ Goto(w, "loop")
  /\ UNCHANGED <<queue, lock, claimed, abandoned>>

NotifyReleased(w) ==
  /\ pc[w] = "notify"
  /\ Wake(w, "loop")
  /\ UNCHANGED <<queue, lock, claimed, abandoned>>

\* Containment was lost while judging: set the cell, drop, then abandon.
LoseContainment(w) ==
  /\ pc[w] = "judging"
  /\ abandoned' = TRUE
  /\ Goto(w, "dropping")
  /\ UNCHANGED <<queue, lock, claimed>>

DropAbandoned(w) ==
  /\ pc[w] = "dropping"
  /\ Release(w, FALSE, {})
  /\ Goto(w, "dropped")

NotifyDropped(w) ==
  /\ pc[w] = "dropped"
  /\ Wake(w, "abandoning")
  /\ UNCHANGED <<queue, lock, claimed, abandoned>>

\* The draining thread could not checkpoint: it sets the cell, then abandons.
FailCheckpoint ==
  /\ pc[Drain] = "draining"
  /\ abandoned' = TRUE
  /\ Goto(Drain, "abandoning")
  /\ UNCHANGED <<queue, lock, claimed>>

\* Mistake: notifying without the mutex.
AbandonUnlocked(t) ==
  /\ pc[t] = "abandoning"
  /\ Wake(t, "done")
  /\ UNCHANGED <<queue, lock, claimed, abandoned>>

\* Notifying with the mutex held: no claim is between its test of the cell
\* and its wait.
Abandon(t) ==
  /\ pc[t] = "abandoning"
  /\ lock = Free
  /\ Wake(t, "done")
  /\ UNCHANGED <<queue, lock, claimed, abandoned>>

Claim(w) ==
  \/ EnterClaim(w)
  \/ \E i \in Work : Reserve(w, i)
  \/ Exhausted(w)
  \/ Block(w)

Judge(w) ==
  \/ \E transfer \in BOOLEAN : Complete(w, transfer)
  \/ Defer(w)
  \/ LoseContainment(w)

Worker(w) ==
  \/ LoopHead(w)
  \/ Claim(w)
  \/ Judge(w)
  \/ NotifyReleased(w)
  \/ DropAbandoned(w)
  \/ NotifyDropped(w)
  \/ Abandon(w)

\* The drain ends when the last worker has dropped its end of the channel.
DrainEnds ==
  /\ pc[Drain] = "draining"
  /\ \A w \in Workers : pc[w] = "done"
  /\ Goto(Drain, "done")
  /\ UNCHANGED <<queue, lock, claimed, abandoned>>

Finished == \A t \in Threads : pc[t] = "done"

Next ==
  \/ \E w \in Workers : Worker(w) \/ SpuriousWake(w)
  \/ FailCheckpoint
  \/ Abandon(Drain)
  \/ DrainEnds
  \/ Finished /\ UNCHANGED vars

\* Threads run, every judgement ends, and a mutex that is free again and again
\* is granted in the end.  Wake-ups nobody asked for and failures may not come.
Fairness ==
  /\ \A w \in Workers : WF_vars(LoopHead(w) \/ NotifyReleased(w) \/ NotifyDropped(w))
  /\ \A w \in Workers : SF_vars(Claim(w))
  /\ \A w \in Workers : SF_vars(Judge(w) \/ DropAbandoned(w))
  /\ \A t \in Threads : SF_vars(Abandon(t))

Spec == Init /\ [][Next]_vars
FairSpec == Spec /\ Fairness

-----------------------------------------------------------------------------
(* Properties. *)

Places == {"loop", "claim", "deciding", "blocked", "judging", "notify",
           "dropping", "dropped", "abandoning", "draining", "done"}

TypeOK ==
  /\ remaining \subseteq Work
  /\ remainingCount \in Int
  /\ activeFiles \in [Files -> Int]
  /\ activeItems \in [Keys -> Int]
  /\ activeResources \in [Resources -> Int]
  /\ learnedItems \subseteq Keys
  /\ transferItems \subseteq Keys
  /\ packageTurns \in [Packages -> Nat]
  /\ lock \in Workers \cup {Free}
  /\ pc \in [Threads -> Places]
  /\ claimed \in [Workers -> Work \cup {NoWork}]
  /\ abandoned \in BOOLEAN

FileHolders(f) == {w \in Workers : claimed[w] # NoWork /\ WorkList[claimed[w]].file = f}
ItemHolders(k) == {w \in Workers : claimed[w] # NoWork /\ Key(claimed[w]) = k}
ResourceHolders(r) ==
  {w \in Workers : claimed[w] # NoWork /\ r \in WorkList[claimed[w]].resources}

\* No mutant is ever handed to two workers, or handed out again later.
ClaimedOnce ==
  \A w \in Workers : claimed[w] # NoWork =>
    /\ claimed[w] \in Pending \ remaining
    /\ \A v \in Workers \ {w} : claimed[v] # claimed[w]

\* The reservation counters are exactly the live assignments: no path through
\* the worker loop leaks one, gives one back twice or takes one below zero, and
\* the cached count of unclaimed items agrees with their flags.
ReservationsExact ==
  /\ remainingCount = Cardinality(remaining)
  /\ \A f \in Files : activeFiles[f] = Cardinality(FileHolders(f))
  /\ \A k \in Keys : activeItems[k] = Cardinality(ItemHolders(k))
  /\ \A r \in Resources : activeResources[r] = Cardinality(ResourceHolders(r))

\* No configured resource ever has more users than its capacity.
CapacityRespected ==
  DOMAIN Capacity # {} => \A r \in Resources : activeResources[r] <= Limit(r)

\* Packages take turns: while a package still has unclaimed work, no other one
\* is more than a single claim ahead of it, whatever the costs and hints are.
PackagesTakeTurns ==
  DOMAIN Capacity = {} =>
    \A i \in remaining : \A p \in Packages :
      packageTurns[p] <= packageTurns[WorkList[i].package] + 1

\* A claim waits only for a resource: a pass whose work needs none, which is
\* every pass the sweep starts, never parks a worker.
WaitsOnlyForResources ==
  (\A i \in Work : WorkList[i].resources = {}) => \A w \in Workers : pc[w] # "blocked"

\* No lost wake-up: when a parked claim could go on (there is work it may take,
\* nothing is left, or the campaign was abandoned), some thread is on its way to
\* a notify_all.
Notifying == \E t \in Threads : pc[t] \in {"notify", "dropping", "dropped", "abandoning"}
NoLostWakeup ==
  (\E w \in Workers : pc[w] = "blocked")
    => \/ remaining # {} /\ Available = {} /\ ~abandoned
       \/ Notifying

\* Every worker leaves its loop, so the scope that joins them returns.
EveryWorkerStops == <>(\A w \in Workers : pc[w] = "done")

\* The scheduler keeps the promises of the work pool.
Pool == INSTANCE WorkPool WITH
          pool <- remaining, held <- claimed, cancelled <- abandoned,
          stopped <- {w \in Workers : pc[w] = "done"}
ImplementsWorkPool == Pool!Spec
=============================================================================
