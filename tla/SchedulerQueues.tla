--------------------------- MODULE SchedulerQueues ---------------------------
(* The index the scheduler keeps so that a claim does not look at every      *)
(* mutant: priorities sorted per group, the best of each group published to  *)
(* its file, the best of each file to its package, the best of each package  *)
(* to one set of heads.  A claim or a release moves only what its file and   *)
(* item touch.  The index is correct when what it picks is always what       *)
(* Scheduler picks by looking at everything.                                 *)
EXTENDS Scheduler

VARIABLES
  cold, informed,         \* per group: entries that may, or may not, still teach
  idleHead, activeHead,   \* per group: its entry, as published to its file
  fileIdle, fileActive,   \* per file slot: the published entries
  fileHead,               \* per file slot: the entry published to its package
  packageQueue, heads

index == <<cold, informed, idleHead, activeHead, fileIdle, fileActive, fileHead,
           packageQueue, heads>>

\* A group is the work of one item of one file in one package; a file that is
\* compiled into two packages has a slot in each.
GroupOf(i) == <<WorkList[i].file, WorkList[i].package, WorkList[i].item>>
Groups == {GroupOf(i) : i \in Work}
SlotOf(g) == <<g[1], g[2]>>
Slots == {SlotOf(g) : g \in Groups}
KeyOf(g) == <<g[1], g[3]>>

\* BTreeSet::first, as a set of at most one entry.
First(entries) == {a \in entries : \A b \in entries \ {a} : Precedes(a, b)}

\* A LocalPriority is a head that leaves the turns to its package.
Entry(i) == [Head(i) EXCEPT !.turns = 0]

-----------------------------------------------------------------------------
(* What a change of one item, and then of its file, does to the index. The   *)
(* new item and reservation sets are passed in: the index is brought up to   *)
(* date inside the step that changes them.                                   *)

\* Mistake: learning leaves the entries of the item where they are.
RefreshedUnlearned(g, c, inf, learned) == [cold |-> c, informed |-> inf]

\* Learning takes the sibling benefit from what was cold, once.
RefreshedGroup(g, c, inf, learned) ==
  IF KeyOf(g) \in learned
  THEN [cold |-> {}, informed |-> inf \cup {[e EXCEPT !.benefit = 0] : e \in c}]
  ELSE [cold |-> c, informed |-> inf]

IdleHead(g, group, transfer) ==
  {[e EXCEPT !.transfer = (KeyOf(g) \in transfer)] :
     e \in First(First(group.cold) \cup First(group.informed))}

ActiveHead(g, idle, items) ==
  {[e EXCEPT !.distance = <<IF items[KeyOf(g)] # 0 THEN 2 ELSE 1, 0>>] : e \in idle}

\* The entries that some groups have in a slot of their file.
Published(head, groups, s) == UNION {head[g] : g \in {h \in groups : SlotOf(h) = s}}

\* refresh_item: the groups of the key publish anew, the others stay.
Refresh(key, c, inf) ==
  LET touched == {g \in Groups : KeyOf(g) = key}
      group(g) == RefreshedGroup(g, c[g], inf[g], learnedItems')
  IN /\ cold' = [g \in Groups |-> IF g \in touched THEN group(g).cold ELSE c[g]]
     /\ informed' = [g \in Groups |-> IF g \in touched THEN group(g).informed ELSE inf[g]]
     /\ idleHead' = [g \in Groups |->
          IF g \in touched THEN IdleHead(g, group(g), transferItems') ELSE idleHead[g]]
     /\ activeHead' = [g \in Groups |->
          IF g \in touched THEN ActiveHead(g, idleHead'[g], activeItems') ELSE activeHead[g]]
     /\ fileIdle' = [s \in Slots |->
          (fileIdle[s] \ Published(idleHead, touched, s)) \cup Published(idleHead', touched, s)]
     /\ fileActive' = [s \in Slots |->
          (fileActive[s] \ Published(activeHead, touched, s))
            \cup Published(activeHead', touched, s)]

\* What attach_file publishes for a slot: an idle file's best entry, or the
\* best entry of a busy one at the distance of its reservations.
FileHead(idle, active, contention) ==
  IF contention = 0 THEN First(idle)
  ELSE {[e EXCEPT !.distance[2] = contention] : e \in First(active)}

\* Mistake: heads are published without the turns of their package.
PackageHeadUncounted(entries, turns) == First(entries)

PackageHead(entries, turns) == {[e EXCEPT !.turns = turns] : e \in First(entries)}

\* detach_file before the change and attach_file after it.
Reattach(f) ==
  LET slots == {s \in Slots : s[1] = f}
      own == {s[2] : s \in slots}
  IN /\ fileHead' = [s \in Slots |-> IF s \in slots
          THEN FileHead(fileIdle'[s], fileActive'[s], activeFiles'[f]) ELSE fileHead[s]]
     /\ packageQueue' = [p \in Packages |-> IF p \in own
          THEN (packageQueue[p] \ fileHead[<<f, p>>]) \cup fileHead'[<<f, p>>]
          ELSE packageQueue[p]]
     /\ heads' = (heads \ UNION {PackageHead(packageQueue[p], packageTurns[p]) : p \in own})
                   \cup UNION {PackageHead(packageQueue'[p], packageTurns'[p]) : p \in own}

-----------------------------------------------------------------------------
(* Selection from the index. *)

\* The slow path looks at the first entry of each queue whose resources are
\* free, bringing its distance and transfer up to date.
Reservable ==
  UNION {UNION {{[e EXCEPT !.distance = Distance(e.index),
                           !.transfer = (KeyOf(g) \in transferItems),
                           !.turns = packageTurns[g[2]]] :
                   e \in First({a \in q : ResourcesAvailable(a.index)})} :
                q \in {cold[g], informed[g]}} :
         g \in Groups}

\* Mistake: when the best head lacks a resource, only the other heads are tried.
ChoiceAmongHeads == {h.index : h \in First({a \in heads : ResourcesAvailable(a.index)})}

Choice ==
  LET best == {h.index : h \in First(heads)} IN
  IF DOMAIN Capacity = {} \/ \E i \in best : ResourcesAvailable(i) THEN best
  ELSE {h.index : h \in First(Reservable)}

QInit ==
  /\ Init
  /\ cold = [g \in Groups |->
       {Entry(i) : i \in {j \in Pending : GroupOf(j) = g /\ ~WorkList[j].hinted}}]
  /\ informed = [g \in Groups |->
       {Entry(i) : i \in {j \in Pending : GroupOf(j) = g /\ WorkList[j].hinted}}]
  /\ idleHead = [g \in Groups |->
       IdleHead(g, [cold |-> cold[g], informed |-> informed[g]], transferItems)]
  /\ activeHead = [g \in Groups |-> ActiveHead(g, idleHead[g], activeItems)]
  /\ fileIdle = [s \in Slots |-> Published(idleHead, Groups, s)]
  /\ fileActive = [s \in Slots |-> Published(activeHead, Groups, s)]
  /\ fileHead = [s \in Slots |-> First(fileIdle[s])]
  /\ packageQueue = [p \in Packages |-> UNION {fileHead[s] : s \in {t \in Slots : t[2] = p}}]
  /\ heads = UNION {PackageHead(packageQueue[p], 0) : p \in Packages}

\* reserve_next: the entry leaves its group, then item and file are refreshed.
ReserveFromIndex(w, i) ==
  LET without(q) == [g \in Groups |-> {e \in q[g] : e.index # i}] IN
  /\ pc[w] = "deciding"
  /\ i \in Choice
  /\ Take(w, i)
  /\ Refresh(Key(i), without(cold), without(informed))
  /\ Reattach(WorkList[i].file)

NothingToReserve(w) ==
  /\ pc[w] = "deciding"
  /\ Choice = {}
  /\ lock' = Free
  /\ Goto(w, IF remainingCount = 0 THEN "done" ELSE "blocked")
  /\ UNCHANGED <<queue, claimed, abandoned, index>>

\* A drop refreshes the item and the file of the mutant it gives back.
Dropped(w) ==
  /\ Judge(w) \/ DropAbandoned(w)
  /\ IF claimed'[w] = NoWork
     THEN /\ Refresh(Key(claimed[w]), cold, informed)
          /\ Reattach(WorkList[claimed[w]].file)
     ELSE UNCHANGED index

Elsewhere ==
  /\ \/ \E w \in Workers : LoopHead(w) \/ EnterClaim(w) \/ SpuriousWake(w)
                             \/ NotifyReleased(w) \/ NotifyDropped(w)
     \/ \E t \in Threads : Abandon(t)
     \/ FailCheckpoint
     \/ DrainEnds
     \/ Finished /\ UNCHANGED vars
  /\ UNCHANGED index

QNext ==
  \/ \E w \in Workers : \/ \E i \in Work : ReserveFromIndex(w, i)
                        \/ NothingToReserve(w)
                        \/ Dropped(w)
  \/ Elsewhere

QSpec == QInit /\ [][QNext]_<<vars, index>>
QFairSpec == QSpec /\ Fairness

-----------------------------------------------------------------------------
(* Properties. *)

\* The index is what a recomputation over the unclaimed work would give, after
\* any claims and releases.  Each unclaimed mutant is in exactly one queue of
\* its group, with its present benefit; no claimed one is left behind; and the
\* published heads are, package by package, the first.
IndexExact ==
  /\ \A g \in Groups :
       /\ {<<e.index, e.benefit, e.cost, e.order>> : e \in cold[g] \cup informed[g]} =
            {<<i, Head(i).benefit, WorkList[i].cost, WorkList[i].order>> :
               i \in {j \in remaining : GroupOf(j) = g}}
       /\ \A a \in cold[g], b \in informed[g] : a.index # b.index
  /\ heads = UNION {First({Head(i) : i \in {j \in remaining : WorkList[j].package = p}}) :
                     p \in Packages}

\* Every claim takes the mutant the priorities name, and a claim finds nothing
\* only when nothing may be claimed: the index implements the plain scheduler.
ImplementsScheduler == Spec
=============================================================================
