--------------------------- MODULE InterruptProofs ---------------------------
(***************************************************************************)
(* What holds of the interrupt registry for any threads, identities and    *)
(* array lengths.  The inductive invariant counts the owners and the       *)
(* sweeps, says what a launch holds and where it is registered at each of  *)
(* its steps, that whatever is registered or in hand belongs to a launch   *)
(* that cannot give it up yet, and, once the run is interrupted, that      *)
(* whatever lives is in an open window or about to be killed by an owner:  *)
(* the last owner, who dies of the signal, can leave nothing behind.       *)
(***************************************************************************)
EXTENDS InterruptRegistry, FiniteSetTheorems, TLAPS

OwnerLabels == {"opened", "spawn", "claim", "claimed", "revoke", "revoking", "abandon",
                "close", "publish", "stop", "enter", "sweep", "kill", "finish"}
SweepLabels == {"sweep", "kill"}

\* The two counters count.
OwnerSet == {a \in Actors : pc[a] \in OwnerLabels}
SweepSet == {a \in Actors : pc[a] \in SweepLabels}
Counts == owners = Cardinality(OwnerSet) /\ handling = Cardinality(SweepSet)

\* A handler has published before it stops the run.
Published ==
  /\ stopping => interrupted
  /\ \A t \in Threads : pc[Handler(t)] = "stop" => interrupted

\* No identity is held by two launches.
Distinct ==
  \A t, u \in Threads : \A k \in Kinds :
    mine[t][k] = mine[u][k] /\ mine[t][k] # None => t = u

Unplaced(t) == \A k \in Kinds : place[t][k] = None
Placed(t) == \A k \in Kinds : place[t][k] # None

\* The group is registered before the cgroup, and given up before it.
InOrder(t, k) ==
  /\ k = "cgroup" => place[t]["group"] # None
  /\ k = "group" /\ Sealed => place[t]["cgroup"] = None

\* What a launch holds and where it is registered, at each of its steps.
Shape(t) ==
  LET r == pc[Run(t)]  p == at[Run(t)]  k == Kind(p) IN
  /\ r \in {"idle", "opened", "spawn"} =>
       Unplaced(t) /\ mine[t]["group"] = None /\ live[t] = {}
  /\ r = "idle" => \A j \in Kinds : mine[t][j] = None
  /\ r # "idle" /\ Sealed => mine[t]["cgroup"] # None
  /\ r = "claim" =>
       p \in Places /\ mine[t]["group"] # None /\ place[t][k] = None /\ InOrder(t, k)
  /\ r = "claimed" =>
       p \in Places /\ mine[t]["group"] # None /\ place[t][k] = p /\ InOrder(t, k)
  /\ r \in {"revoke", "revoking"} =>
       /\ p \in Places /\ k = "group" /\ mine[t]["group"] # None
       /\ place[t][k] = p /\ InOrder(t, k)
  /\ r = "abandon" => Unplaced(t)
  /\ r \in {"close", "enter", "sweep", "kill", "finish", "dying"} =>
       \/ mine[t]["group"] # None /\ Placed(t)
       \/ mine[t]["group"] = None /\ Unplaced(t) /\ live[t] = {}
  /\ r = "running" => mine[t]["group"] # None /\ Placed(t)
  /\ r \in {"release", "quiesce", "give up"} =>
       /\ p \in Places /\ place[t][k] = p /\ live[t] = {}
       /\ k = "group" /\ Sealed => place[t]["cgroup"] # None
       /\ k = "cgroup" => mine[t]["group"] = None /\ place[t]["group"] = None
  /\ \A j \in Kinds : place[t][j] # None =>
       place[t][j] \in Places /\ Kind(place[t][j]) = j /\ mine[t][j] # None
  /\ live[t] # {} => mine[t]["group"] # None
  /\ "strays" \in live[t] => Sealed

\* Whatever is registered is held by a launch, which knows where.
EntryOwned ==
  \A p \in Places : entry[p] # None =>
    \E t \in Threads : mine[t][Kind(p)] = entry[p] /\ place[t][Kind(p)] = p

\* Whatever is in hand is held by a launch that cannot give it up yet.
HandOwned ==
  \A a \in Actors : pc[a] = "kill" =>
    /\ at[a] \in Places
    /\ \E t \in Threads :
         /\ mine[t][Kind(at[a])] = hand[a] /\ place[t][Kind(at[a])] # None
         /\ ~(pc[Run(t)] = "give up" /\ Kind(at[Run(t)]) = Kind(at[a]))

\* A slot that was released does not hold the launch any more.
Cleared ==
  \A t \in Threads : pc[Run(t)] \in {"quiesce", "revoking", "give up"} =>
    entry[at[Run(t)]] # mine[t][Kind(at[Run(t)])]

\* A launch that lives is before its registration, or reachable; so is its
\* cgroup, whether or not anything has left the group yet.
BeforeGroup(t) ==
  \/ pc[Run(t)] = "claim" /\ Kind(at[Run(t)]) = "group"
  \/ pc[Run(t)] \in {"revoking", "abandon"}
BeforeCgroup(t) ==
  \/ pc[Run(t)] \in {"claim", "revoke", "revoking", "abandon"}
  \/ pc[Run(t)] = "claimed" /\ Kind(at[Run(t)]) = "group"
Reached(t) ==
  /\ "group" \in live[t] => BeforeGroup(t) \/ Reachable(t, "group")
  /\ live[t] # {} /\ Sealed => BeforeCgroup(t) \/ Reachable(t, "cgroup")

\* Sweep a has yet to come to entry p.
Ahead(a, p) ==
  \/ pc[a] \in {"stop", "enter"}
  \/ pc[a] = "sweep" /\ at[a] <= p
  \/ pc[a] = "kill" /\ at[a] < p

\* Somebody who still owns cleanup is going to kill the launch of t.
Pending(t, k) ==
  \/ \E a \in Actors : pc[a] = "kill" /\ Kind(at[a]) = k /\ hand[a] = mine[t][k]
  \/ \E a \in Actors, p \in Places :
       Kind(p) = k /\ entry[p] = mine[t][k] /\ Ahead(a, p)

\* Once the run is interrupted, whatever lives is in an open window or about
\* to be killed by an owner.
Doomed(t) ==
  /\ "group" \in live[t] => WindowOpen(t) \/ Pending(t, "group")
  /\ live[t] # {} /\ Sealed => WindowOpen(t) \/ Pending(t, "cgroup")

Fatal == dead \/ \E a \in Actors : pc[a] = "dying"

\* Once somebody is about to die of the signal, nothing lives or will.
Final ==
  Fatal => /\ interrupted
           /\ \A t \in Threads : live[t] = {} /\ pc[Run(t)] # "spawn"

Shapes == \A t \in Threads : Shape(t)
AllReached == \A t \in Threads : Reached(t)
AllDoomed == interrupted => \A t \in Threads : Doomed(t)

IInv ==
  /\ TypeOK /\ Counts /\ Published /\ Distinct /\ Shapes /\ EntryOwned /\ HandOwned
  /\ Cleared /\ AllReached /\ AllDoomed /\ Final

-----------------------------------------------------------------------------
(* Actors, places and the two counters. *)

LEMMA ActorFacts ==
  /\ \A t \in Threads : Run(t) \in Actors /\ Handler(t) \in Actors
  /\ \A t \in Threads : Run(t)[1] = t /\ Run(t)[2] = "run"
  /\ \A t \in Threads : Handler(t)[1] = t /\ Handler(t)[2] = "handler"
  /\ \A t, u \in Threads : (Run(t) = Run(u) => t = u) /\ Run(t) # Handler(u)
  /\ \A t, u \in Threads : Handler(t) = Handler(u) => t = u
  /\ \A a \in Actors : \E t \in Threads : a = Run(t) \/ a = Handler(t)
BY DEF Run, Handler, Actors

LEMMA PlaceFacts ==
  /\ Last \in Nat \ {0} /\ SLOTS \in 1..Last
  /\ "group" \in Kinds
  /\ Sealed <=> "cgroup" \in Kinds
  /\ \A k \in Kinds : k \in {"group", "cgroup"}
  /\ \A p \in Places : Kind(p) \in Kinds
  /\ 1 \in Places /\ Kind(1) = "group"
  /\ \A p \in Places \ {SLOTS, Last} : p + 1 \in Places /\ Kind(p + 1) = Kind(p)
  /\ None \notin Places
  /\ Sealed => SLOTS + 1 \in Places /\ Kind(SLOTS + 1) = "cgroup"
BY RegistryAssumption DEF Last, Places, Kind, Kinds

LEMMA ActorsFinite == IsFiniteSet(Actors)
<1>1. IsFiniteSet({"run", "handler"})
  <2>1. IsFiniteSet({"run"} \cup {"handler"})
    BY FS_Singleton, FS_AddElement
  <2>2. {"run", "handler"} = {"run"} \cup {"handler"}
    OBVIOUS
  <2> QED
    BY <2>1, <2>2
<1> QED
  BY <1>1, RegistryAssumption, FS_Product DEF Actors

\* An actor that goes to a label is counted there.
LEMMA CountingSets ==
  ASSUME TypeOK, NEW a \in Actors, NEW L, NEW label,
         pc' = [pc EXCEPT ![a] = label]
  PROVE  /\ Cardinality({b \in Actors : pc[b] \in L}) \in Nat
         /\ pc[a] \in L => Cardinality({b \in Actors : pc[b] \in L}) > 0
         /\ Cardinality({b \in Actors : pc'[b] \in L})
              = Cardinality({b \in Actors : pc[b] \in L})
                  + (IF label \in L THEN 1 ELSE 0) - (IF pc[a] \in L THEN 1 ELSE 0)
<1> DEFINE S == {b \in Actors : pc[b] \in L}
           T == {b \in Actors : pc'[b] \in L}
<1>1. IsFiniteSet(S) /\ Cardinality(S) \in Nat
  BY ActorsFinite, FS_Subset, FS_CardinalityType
<1>2. T = IF label \in L THEN S \cup {a} ELSE S \ {a}
  BY DEF TypeOK
<1>3. a \in S <=> pc[a] \in L
  OBVIOUS
<1>4. pc[a] \in L => Cardinality(S) > 0
  BY <1>1, <1>3, FS_EmptySet
<1> HIDE DEF S, T
<1>5. Cardinality(S \cup {a}) = IF a \in S THEN Cardinality(S) ELSE Cardinality(S) + 1
  BY <1>1, FS_AddElement
<1>6. Cardinality(S \ {a}) = IF a \in S THEN Cardinality(S) - 1 ELSE Cardinality(S)
  BY <1>1, FS_RemoveElement
<1>7. Cardinality(T) = Cardinality(S) + (IF label \in L THEN 1 ELSE 0)
                                      - (IF pc[a] \in L THEN 1 ELSE 0)
  BY <1>1, <1>2, <1>3, <1>5, <1>6
<1> QED
  BY <1>1, <1>4, <1>7 DEF S, T

\* The counters follow a step that moves one actor.
LEMMA Counting ==
  ASSUME TypeOK, Counts, NEW a \in Actors, NEW label,
         pc' = [pc EXCEPT ![a] = label],
         owners' = owners + (IF label \in OwnerLabels THEN 1 ELSE 0)
                          - (IF pc[a] \in OwnerLabels THEN 1 ELSE 0),
         handling' = handling + (IF label \in SweepLabels THEN 1 ELSE 0)
                              - (IF pc[a] \in SweepLabels THEN 1 ELSE 0)
  PROVE  Counts' /\ owners' \in Nat /\ handling' \in Nat
<1>1. owners' = Cardinality(OwnerSet)' /\ owners' \in Nat
  <2> DEFINE n == Cardinality({b \in Actors : pc[b] \in OwnerLabels})
             m == Cardinality({b \in Actors : pc'[b] \in OwnerLabels})
  <2>1. /\ n \in Nat
        /\ pc[a] \in OwnerLabels => n > 0
        /\ m = n + (IF label \in OwnerLabels THEN 1 ELSE 0) - (IF pc[a] \in OwnerLabels THEN 1 ELSE 0)
    BY CountingSets
  <2>2. owners = n
    BY DEF Counts, OwnerSet
  <2>3. Cardinality(OwnerSet)' = m
    BY DEF OwnerSet
  <2> HIDE DEF n, m
  <2> QED
    BY <2>1, <2>2, <2>3
<1>2. handling' = Cardinality(SweepSet)' /\ handling' \in Nat
  <2> DEFINE n == Cardinality({b \in Actors : pc[b] \in SweepLabels})
             m == Cardinality({b \in Actors : pc'[b] \in SweepLabels})
  <2>1. /\ n \in Nat
        /\ pc[a] \in SweepLabels => n > 0
        /\ m = n + (IF label \in SweepLabels THEN 1 ELSE 0) - (IF pc[a] \in SweepLabels THEN 1 ELSE 0)
    BY CountingSets
  <2>2. handling = n
    BY DEF Counts, SweepSet
  <2>3. Cardinality(SweepSet)' = m
    BY DEF SweepSet
  <2> HIDE DEF n, m
  <2> QED
    BY <2>1, <2>2, <2>3
<1> QED
  BY <1>1, <1>2 DEF Counts

LEMMA CountedAlike ==
  ASSUME TypeOK, Counts, NEW a \in Actors, NEW label,
         pc' = [pc EXCEPT ![a] = label], UNCHANGED <<owners, handling>>,
         label \in OwnerLabels <=> pc[a] \in OwnerLabels,
         label \in SweepLabels <=> pc[a] \in SweepLabels
  PROVE  Counts'
<1>1. owners \in Nat /\ handling \in Nat
  BY DEF TypeOK
<1>2. owners' = owners + (IF label \in OwnerLabels THEN 1 ELSE 0)
                       - (IF pc[a] \in OwnerLabels THEN 1 ELSE 0)
  BY <1>1
<1>3. handling' = handling + (IF label \in SweepLabels THEN 1 ELSE 0)
                           - (IF pc[a] \in SweepLabels THEN 1 ELSE 0)
  BY <1>1
<1> QED
  BY <1>2, <1>3, Counting

\* When nobody is counted as sweeping, nobody holds an identity.
LEMMA NobodySweeps ==
  ASSUME TypeOK, Counts, handling = 0
  PROVE  \A a \in Actors : pc[a] \notin SweepLabels
<1>1. IsFiniteSet(SweepSet)
  BY ActorsFinite, FS_Subset DEF SweepSet
<1>2. SweepSet = {}
  BY <1>1, FS_EmptySet DEF Counts
<1> QED
  BY <1>2 DEF SweepSet

\* The last owner is alone.
LEMMA LastOwner ==
  ASSUME TypeOK, Counts, owners = 1, NEW a \in Actors, pc[a] \in OwnerLabels
  PROVE  \A b \in Actors : pc[b] \in OwnerLabels => b = a
<1>1. IsFiniteSet(OwnerSet) /\ Cardinality(OwnerSet) = 1 /\ a \in OwnerSet
  BY ActorsFinite, FS_Subset DEF OwnerSet, Counts
<1>2. PICK b : OwnerSet = {b}
  BY <1>1, FS_Singleton
<1> QED
  BY <1>1, <1>2 DEF OwnerSet

-----------------------------------------------------------------------------
(* What a step keeps when it leaves the state it depends on alone. *)

LEMMA Moved ==
  ASSUME TypeOK, NEW a \in Actors, NEW label \in Labels, pc' = [pc EXCEPT ![a] = label]
  PROVE  /\ pc' \in [Actors -> Labels] /\ pc'[a] = label
         /\ \A b \in Actors \ {a} : pc'[b] = pc[b]
         /\ \A t \in Threads : Run(t) # a => pc'[Run(t)] = pc[Run(t)]
         /\ \A t \in Threads : Handler(t) # a => pc'[Handler(t)] = pc[Handler(t)]
BY ActorFacts DEF TypeOK

LEMMA ShapeKept ==
  ASSUME NEW t \in Threads, Shape(t),
         pc'[Run(t)] = pc[Run(t)], at'[Run(t)] = at[Run(t)],
         mine'[t] = mine[t], place'[t] = place[t], live'[t] \subseteq live[t]
  PROVE  Shape(t)'
BY DEF Shape, Unplaced, Placed, InOrder

LEMMA EntriesKept ==
  ASSUME EntryOwned,
         \A p \in Places : entry'[p] \in {None, entry[p]},
         \A t \in Threads : \A k \in Kinds : place[t][k] # None =>
           place'[t][k] = place[t][k] /\ mine'[t][k] = mine[t][k]
  PROVE  EntryOwned'
BY PlaceFacts DEF EntryOwned

LEMMA HandsKept ==
  ASSUME HandOwned,
         \A a \in Actors : pc'[a] = "kill" =>
           pc[a] = "kill" /\ hand'[a] = hand[a] /\ at'[a] = at[a],
         \A t \in Threads : \A k \in Kinds : place[t][k] # None =>
           place'[t][k] # None /\ mine'[t][k] = mine[t][k],
         \A t \in Threads : pc'[Run(t)] = "give up" =>
           pc[Run(t)] = "give up" /\ at'[Run(t)] = at[Run(t)]
  PROVE  HandOwned'
<1> SUFFICES ASSUME NEW a \in Actors, pc'[a] = "kill"
             PROVE  /\ at'[a] \in Places
                    /\ \E t \in Threads :
                         /\ mine'[t][Kind(at'[a])] = hand'[a] /\ place'[t][Kind(at'[a])] # None
                         /\ ~(pc'[Run(t)] = "give up" /\ Kind(at'[Run(t)]) = Kind(at'[a]))
  BY DEF HandOwned, Kind
<1>1. pc[a] = "kill" /\ hand'[a] = hand[a] /\ at'[a] = at[a] /\ at[a] \in Places
  BY DEF HandOwned
<1>2. PICK t \in Threads :
        /\ mine[t][Kind(at[a])] = hand[a] /\ place[t][Kind(at[a])] # None
        /\ ~(pc[Run(t)] = "give up" /\ Kind(at[Run(t)]) = Kind(at[a]))
  BY <1>1 DEF HandOwned
<1>3. Kind(at[a]) \in Kinds
  BY <1>1, PlaceFacts
<1>4. mine'[t][Kind(at[a])] = hand[a] /\ place'[t][Kind(at[a])] # None
  BY <1>2, <1>3
<1>5. ~(pc'[Run(t)] = "give up" /\ Kind(at'[Run(t)]) = Kind(at[a]))
  BY <1>2
<1> QED
  BY <1>1, <1>4, <1>5

Cleaning == {"quiesce", "revoking", "give up"}

LEMMA HeldIdentity ==
  ASSUME NEW t \in Threads, Shape(t), pc[Run(t)] \in Cleaning \cup {"release", "revoke", "claimed"}
  PROVE  LET p == at[Run(t)]  k == Kind(p) IN
         p \in Places /\ k \in Kinds /\ place[t][k] = p /\ mine[t][k] # None
BY PlaceFacts DEF Shape, Cleaning

LEMMA ClearedKept ==
  ASSUME Cleared, Shapes,
         \A p \in Places : entry'[p] \in {None, entry[p]},
         \A t \in Threads : pc'[Run(t)] \in Cleaning =>
           pc[Run(t)] \in Cleaning /\ at'[Run(t)] = at[Run(t)] /\ mine'[t] = mine[t]
  PROVE  Cleared'
<1> SUFFICES ASSUME NEW t \in Threads, pc'[Run(t)] \in Cleaning
             PROVE  entry'[at'[Run(t)]] # mine'[t][Kind(at'[Run(t)])]
  BY DEF Cleared, Cleaning, Kind
<1>1. pc[Run(t)] \in Cleaning /\ at'[Run(t)] = at[Run(t)] /\ mine'[t] = mine[t]
  OBVIOUS
<1>2. at[Run(t)] \in Places /\ mine[t][Kind(at[Run(t)])] # None
  BY <1>1, HeldIdentity DEF Shapes
<1>3. entry[at[Run(t)]] # mine[t][Kind(at[Run(t)])]
  BY <1>1 DEF Cleared, Cleaning
<1> QED
  BY <1>1, <1>2, <1>3

\* The step leaves the registration of t and the hands that hold it alone.
Undisturbed(t, k) ==
  /\ mine'[t][k] = mine[t][k]
  /\ \A p \in Places : Kind(p) = k /\ entry[p] = mine[t][k] => entry'[p] = entry[p]
  /\ \A a \in Actors : pc[a] = "kill" /\ Kind(at[a]) = k /\ hand[a] = mine[t][k] =>
       pc'[a] = "kill" /\ at'[a] = at[a] /\ hand'[a] = hand[a]

LEMMA ReachableKept ==
  ASSUME NEW t \in Threads, NEW k, Undisturbed(t, k), Reachable(t, k)
  PROVE  Reachable(t, k)'
BY DEF Undisturbed, Reachable, Kind

LEMMA PendingKept ==
  ASSUME NEW t \in Threads, NEW k, Undisturbed(t, k), Pending(t, k),
         \A a \in Actors : \A p \in Places :
           Kind(p) = k /\ entry[p] = mine[t][k] /\ Ahead(a, p) => Ahead(a, p)'
  PROVE  Pending(t, k)'
<1>1. CASE \E a \in Actors : pc[a] = "kill" /\ Kind(at[a]) = k /\ hand[a] = mine[t][k]
  BY <1>1 DEF Undisturbed, Pending, Kind
<1>2. CASE \E a \in Actors, p \in Places : Kind(p) = k /\ entry[p] = mine[t][k] /\ Ahead(a, p)
  <2>1. PICK a \in Actors, p \in Places : Kind(p) = k /\ entry[p] = mine[t][k] /\ Ahead(a, p)
    BY <1>2
  <2>2. Kind(p) = k /\ entry'[p] = mine'[t][k] /\ Ahead(a, p)'
    BY <2>1 DEF Undisturbed
  <2> QED
    BY <2>2 DEF Pending, Kind
<1> QED
  BY <1>1, <1>2 DEF Pending

LEMMA ReachedKept ==
  ASSUME NEW t \in Threads, Reached(t), live'[t] \subseteq live[t],
         live'[t] # {} => Undisturbed(t, "group") /\ (Sealed => Undisturbed(t, "cgroup")),
         BeforeGroup(t) => BeforeGroup(t)', BeforeCgroup(t) => BeforeCgroup(t)'
  PROVE  Reached(t)'
BY ReachableKept DEF Reached

LEMMA DoomedKept ==
  ASSUME NEW t \in Threads, Doomed(t), live'[t] \subseteq live[t],
         live'[t] # {} => Undisturbed(t, "group") /\ (Sealed => Undisturbed(t, "cgroup")),
         \A a \in Actors : \A p \in Places : entry[p] # None /\ Ahead(a, p) => Ahead(a, p)',
         live'[t] # {} => mine[t]["group"] # None /\ (Sealed => mine[t]["cgroup"] # None),
         WindowOpen(t) => WindowOpen(t)'
  PROVE  Doomed(t)'
<1>1. ASSUME live'[t] # {}, Pending(t, "group") PROVE Pending(t, "group")'
  BY <1>1, PendingKept
<1>2. ASSUME live'[t] # {}, Sealed, Pending(t, "cgroup") PROVE Pending(t, "cgroup")'
  BY <1>2, PendingKept
<1> QED
  BY <1>1, <1>2 DEF Doomed

LEMMA FinalKept ==
  ASSUME Final, Fatal' => Fatal, interrupted => interrupted',
         Fatal => \A t \in Threads :
           live'[t] \subseteq live[t] /\ (pc'[Run(t)] = "spawn" => pc[Run(t)] = "spawn")
  PROVE  Final'
BY DEF Final

\* What lives has its identities.
LEMMA LivingHold ==
  ASSUME NEW t \in Threads, Shape(t), live[t] # {}
  PROVE  mine[t]["group"] # None /\ (Sealed => mine[t]["cgroup"] # None)
BY DEF Shape

-----------------------------------------------------------------------------
(* Steps that only move one actor and change counters and flags. *)

Quiet(a, label) ==
  /\ label \in Labels \ (Cleaning \cup {"kill", "dying"})
  /\ pc' = [pc EXCEPT ![a] = label] /\ pc[a] # "kill"
  /\ UNCHANGED <<entry, hand, mine, place, live, dead>>
  /\ \A b \in Actors \ {a} : at'[b] = at[b]
  /\ interrupted => interrupted'
  /\ label = "spawn" => ~interrupted

LEMMA QuietStep ==
  ASSUME IInv, NEW a \in Actors, NEW label, Quiet(a, label),
         \A t \in Threads : Run(t) = a =>
           /\ Shape(t)'
           /\ live[t] # {} => /\ BeforeGroup(t) => BeforeGroup(t)'
                              /\ BeforeCgroup(t) => BeforeCgroup(t)'
  PROVE  Distinct' /\ Shapes' /\ EntryOwned' /\ HandOwned' /\ Cleared' /\ AllReached' /\ Final'
<1> USE DEF IInv, Quiet
<1>1. /\ pc' \in [Actors -> Labels] /\ pc'[a] = label
      /\ \A b \in Actors \ {a} : pc'[b] = pc[b]
      /\ \A t \in Threads : Run(t) # a => pc'[Run(t)] = pc[Run(t)]
  BY Moved
<1>2. \A t \in Threads : Run(t) # a => at'[Run(t)] = at[Run(t)]
  BY ActorFacts
<1>3. Distinct'
  BY DEF Distinct
<1>4. Shapes'
  BY <1>1, <1>2, ShapeKept DEF Shapes
<1>5. EntryOwned'
  BY EntriesKept
<1>6. HandOwned'
  <2>1. \A b \in Actors : pc'[b] = "kill" => pc[b] = "kill" /\ at'[b] = at[b]
    BY <1>1
  <2>2. \A t \in Threads : pc'[Run(t)] = "give up" =>
          pc[Run(t)] = "give up" /\ at'[Run(t)] = at[Run(t)]
    BY <1>1, <1>2 DEF Cleaning
  <2> QED
    BY <2>1, <2>2, HandsKept
<1>7. Cleared'
  <2>1. \A t \in Threads : pc'[Run(t)] \in Cleaning =>
          pc[Run(t)] \in Cleaning /\ at'[Run(t)] = at[Run(t)]
    BY <1>1, <1>2
  <2> QED
    BY <2>1, ClearedKept
<1>8. \A t \in Threads : Undisturbed(t, "group") /\ Undisturbed(t, "cgroup")
  BY <1>1 DEF Undisturbed
<1>9. AllReached'
  <2> SUFFICES ASSUME NEW t \in Threads PROVE Reached(t)'
    BY DEF AllReached
  <2>1. CASE live[t] = {}
    BY <2>1 DEF Reached
  <2>2. CASE live[t] # {}
    <3>1. (BeforeGroup(t) => BeforeGroup(t)') /\ (BeforeCgroup(t) => BeforeCgroup(t)')
      BY <1>1, <1>2, <2>2 DEF BeforeGroup, BeforeCgroup, Kind
    <3> QED
      BY <1>8, <3>1, ReachedKept DEF AllReached
  <2> QED
    BY <2>1, <2>2
<1>10. Final'
  <2>1. Fatal' => Fatal
    BY <1>1 DEF Fatal
  <2>2. Fatal => interrupted
    BY DEF Final
  <2>3. Fatal => \A t \in Threads : pc'[Run(t)] = "spawn" => pc[Run(t)] = "spawn"
    BY <1>1, <2>2
  <2> QED
    BY <2>1, <2>3, FinalKept
<1> QED
  BY <1>3, <1>4, <1>5, <1>6, <1>7, <1>9, <1>10

LEMMA QuietDoom ==
  ASSUME IInv, NEW a \in Actors, NEW label, Quiet(a, label), interrupted' = interrupted,
         \A p \in Places : entry[p] # None /\ Ahead(a, p) => Ahead(a, p)',
         \A t \in Threads : Run(t) = a /\ live[t] # {} /\ WindowOpen(t) => WindowOpen(t)'
  PROVE  AllDoomed'
<1> USE DEF IInv, Quiet
<1>1. /\ pc'[a] = label
      /\ \A b \in Actors \ {a} : pc'[b] = pc[b]
      /\ \A t \in Threads : Run(t) # a => pc'[Run(t)] = pc[Run(t)]
  BY Moved
<1>2. \A t \in Threads : Undisturbed(t, "group") /\ Undisturbed(t, "cgroup")
  BY <1>1 DEF Undisturbed
<1>3. \A b \in Actors : \A p \in Places : entry[p] # None /\ Ahead(b, p) => Ahead(b, p)'
  BY <1>1 DEF Ahead
<1>4. \A t \in Threads : live[t] # {} /\ WindowOpen(t) => WindowOpen(t)'
  BY <1>1 DEF WindowOpen
<1> SUFFICES ASSUME interrupted, NEW t \in Threads PROVE Doomed(t)'
  BY DEF AllDoomed
<1>5. CASE live[t] = {}
  BY <1>5 DEF Doomed
<1>6. CASE live[t] # {}
  BY <1>2, <1>3, <1>4, <1>6, LivingHold, DoomedKept DEF AllDoomed, Shapes
<1> QED
  BY <1>5, <1>6

\* A sweep that is about to start is going to find what is registered.
LEMMA StartsSweep ==
  ASSUME NEW t \in Threads, NEW k, Reachable(t, k)',
         NEW a \in Actors, pc'[a] \in {"stop", "enter"}
  PROVE  Pending(t, k)'
<1>1. \A p \in Places : Ahead(a, p)'
  BY DEF Ahead
<1> QED
  BY <1>1 DEF Reachable, Pending

LEMMA CheckStep ==
  ASSUME IInv, NEW t \in Threads, Check(t)
  PROVE  IInv'
<1> USE DEF IInv, Check, Ready, Goto, registry, launch
<1> DEFINE label == IF interrupted THEN "close" ELSE "spawn"
<1>1. Run(t) \in Actors /\ label \in Labels /\ pc[Run(t)] = "opened"
  BY ActorFacts DEF Labels
<1>2. Quiet(Run(t), label) /\ pc'[Run(t)] = label
  BY <1>1, Moved DEF Quiet, Labels, Cleaning
<1>3. TypeOK'
  BY <1>1, Moved DEF TypeOK
<1>4. Counts'
  BY <1>1, CountedAlike DEF OwnerLabels, SweepLabels
<1>5. Published'
  BY <1>1, Moved, ActorFacts DEF Published
<1>6. Shape(t)'
  <2>1. Shape(t) /\ pc'[Run(t)] \in {"close", "spawn"}
    BY <1>2 DEF Shapes
  <2> QED
    BY <1>1, <1>2, <2>1 DEF Shape, Unplaced, Placed
<1>7. \A u \in Threads : Run(u) = Run(t) => u = t
  BY ActorFacts
<1>8. live[t] = {}
  BY <1>1 DEF Shapes, Shape
<1>9. AllDoomed'
  BY <1>1, <1>2, <1>7, <1>8, QuietDoom DEF Ahead
<1> QED
  BY <1>1, <1>2, <1>3, <1>4, <1>5, <1>6, <1>7, <1>8, <1>9, QuietStep

LEMMA SpawnFailsStep ==
  ASSUME IInv, NEW t \in Threads, SpawnFails(t)
  PROVE  IInv'
<1> USE DEF IInv, SpawnFails, Ready, Goto, registry, launch
<1>1. Run(t) \in Actors /\ "close" \in Labels /\ pc[Run(t)] = "spawn"
  BY ActorFacts DEF Labels
<1>2. Quiet(Run(t), "close") /\ pc'[Run(t)] = "close"
  BY <1>1, Moved DEF Quiet, Labels, Cleaning
<1>3. TypeOK'
  BY <1>1, Moved DEF TypeOK
<1>4. Counts'
  BY <1>1, CountedAlike DEF OwnerLabels, SweepLabels
<1>5. Published'
  BY <1>1, Moved, ActorFacts DEF Published
<1>6. Shape(t)'
  BY <1>1, <1>2 DEF Shapes, Shape, Unplaced, Placed, InOrder
<1>7. \A u \in Threads : Run(u) = Run(t) => u = t
  BY ActorFacts
<1>8. live[t] = {}
  BY <1>1 DEF Shapes, Shape
<1>9. AllDoomed'
  BY <1>1, <1>2, <1>7, <1>8, QuietDoom DEF Ahead
<1> QED
  BY <1>1, <1>2, <1>3, <1>4, <1>5, <1>6, <1>7, <1>8, <1>9, QuietStep

\* The window is closed only on what a sweep of the closing thread reaches.
LEMMA CloseStep ==
  ASSUME IInv, NEW t \in Threads, Close(t)
  PROVE  IInv'
<1> USE DEF IInv, Close, Ready, Goto, registry, launch
<1> DEFINE label == IF interrupted THEN "enter" ELSE "finish"
<1>1. Run(t) \in Actors /\ label \in Labels /\ pc[Run(t)] = "close"
  BY ActorFacts DEF Labels
<1>2. Quiet(Run(t), label) /\ pc'[Run(t)] = label
  BY <1>1, Moved DEF Quiet, Labels, Cleaning
<1>3. TypeOK'
  BY <1>1, Moved DEF TypeOK
<1>4. Counts'
  BY <1>1, CountedAlike DEF OwnerLabels, SweepLabels
<1>5. Published'
  BY <1>1, Moved, ActorFacts DEF Published
<1>6. Shape(t)'
  <2>1. Shape(t) /\ pc'[Run(t)] \in {"enter", "finish"}
    BY <1>2 DEF Shapes
  <2> QED
    BY <1>1, <1>2, <2>1 DEF Shape, Unplaced, Placed
<1>7. \A u \in Threads : Run(u) = Run(t) => u = t
  BY ActorFacts
<1>8. /\ Distinct' /\ Shapes' /\ EntryOwned' /\ HandOwned'
      /\ Cleared' /\ AllReached' /\ Final'
  BY <1>1, <1>2, <1>6, <1>7, QuietStep DEF BeforeGroup, BeforeCgroup
<1>9. AllDoomed'
  <2> SUFFICES ASSUME interrupted, NEW u \in Threads PROVE Doomed(u)'
    BY DEF AllDoomed
  <2>1. CASE u = t
    <3>1. ~BeforeGroup(t)' /\ ~BeforeCgroup(t)'
      BY <1>2 DEF BeforeGroup, BeforeCgroup
    <3>2. /\ "group" \in live'[t] => Reachable(t, "group")'
          /\ live'[t] # {} /\ Sealed => Reachable(t, "cgroup")'
      BY <1>8, <3>1 DEF AllReached, Reached
    <3> QED
      BY <1>1, <1>2, <2>1, <3>2, StartsSweep DEF Doomed
  <2>2. CASE u # t
    <3>1. \A b \in Actors \ {Run(t)} : pc'[b] = pc[b]
      BY <1>1, Moved
    <3>2. pc'[Run(u)] = pc[Run(u)]
      BY <1>7, <2>2, <3>1, ActorFacts
    <3>3. Undisturbed(u, "group") /\ Undisturbed(u, "cgroup")
      BY <1>1, <3>1 DEF Undisturbed
    <3>4. \A b \in Actors : \A p \in Places : Ahead(b, p) => Ahead(b, p)'
      BY <1>1, <3>1 DEF Ahead
    <3>5. WindowOpen(u) => WindowOpen(u)'
      BY <3>2 DEF WindowOpen
    <3>6. Doomed(u) /\ Shape(u)
      BY DEF AllDoomed, Shapes
    <3> QED
      BY <3>3, <3>4, <3>5, <3>6, LivingHold, DoomedKept
  <2> QED
    BY <2>1, <2>2
<1> QED
  BY <1>3, <1>4, <1>5, <1>8, <1>9

LEMMA SignalStep ==
  ASSUME IInv, NEW t \in Threads, Signal(t)
  PROVE  IInv'
<1> USE DEF IInv, Signal, Ready, Goto, registry, launch
<1>1. Handler(t) \in Actors /\ "publish" \in Labels /\ pc[Handler(t)] = "idle"
  BY ActorFacts DEF Labels
<1>2. Quiet(Handler(t), "publish") /\ pc'[Handler(t)] = "publish"
  BY <1>1, Moved DEF Quiet, Labels, Cleaning
<1>3. Counts' /\ owners' \in Nat
  <2>1. owners' = owners + 1 - 0 /\ handling' = handling + 0 - 0
    BY DEF TypeOK
  <2>2. /\ "publish" \in OwnerLabels /\ pc[Handler(t)] \notin OwnerLabels
        /\ "publish" \notin SweepLabels /\ pc[Handler(t)] \notin SweepLabels
    BY <1>1 DEF OwnerLabels, SweepLabels
  <2> QED
    BY <1>1, <2>1, <2>2, Counting
<1>4. TypeOK'
  BY <1>1, <1>3, Moved DEF TypeOK
<1>5. Published'
  BY <1>1, Moved, ActorFacts DEF Published
<1>6. \A u \in Threads : Run(u) # Handler(t)
  BY ActorFacts
<1>7. AllDoomed'
  BY <1>1, <1>2, <1>6, QuietDoom DEF Ahead
<1> QED
  BY <1>1, <1>2, <1>3, <1>4, <1>5, <1>6, <1>7, QuietStep

\* What lives when the signal is published is in a window, or the handler is
\* going to find it.
LEMMA PublishStep ==
  ASSUME IInv, NEW t \in Threads, Publish(t)
  PROVE  IInv'
<1> USE DEF IInv, Publish, Ready, Goto, registry, launch
<1>1. Handler(t) \in Actors /\ "stop" \in Labels /\ pc[Handler(t)] = "publish"
  BY ActorFacts DEF Labels
<1>2. Quiet(Handler(t), "stop") /\ pc'[Handler(t)] = "stop"
  BY <1>1, Moved DEF Quiet, Labels, Cleaning
<1>3. Counts'
  BY <1>1, CountedAlike DEF OwnerLabels, SweepLabels
<1>4. TypeOK'
  BY <1>1, Moved DEF TypeOK
<1>5. Published'
  BY DEF Published
<1>6. \A u \in Threads : Run(u) # Handler(t) /\ pc'[Run(u)] = pc[Run(u)]
  BY <1>1, Moved, ActorFacts
<1>7. /\ Distinct' /\ Shapes' /\ EntryOwned' /\ HandOwned'
      /\ Cleared' /\ AllReached' /\ Final'
  BY <1>1, <1>2, <1>6, QuietStep
<1>8. AllDoomed'
  <2> SUFFICES ASSUME NEW u \in Threads PROVE Doomed(u)'
    BY DEF AllDoomed
  <2>1. (BeforeGroup(u)' => WindowOpen(u)') /\ (BeforeCgroup(u)' => WindowOpen(u)')
    BY DEF BeforeGroup, BeforeCgroup, WindowOpen
  <2>2. Reached(u)'
    BY <1>7 DEF AllReached
  <2> QED
    BY <1>1, <1>2, <2>1, <2>2, StartsSweep DEF Doomed, Reached
<1> QED
  BY <1>3, <1>4, <1>5, <1>7, <1>8

LEMMA StopStep ==
  ASSUME IInv, NEW t \in Threads, Stop(t)
  PROVE  IInv'
<1> USE DEF IInv, Stop, Ready, Goto, registry, launch
<1>1. Handler(t) \in Actors /\ "enter" \in Labels /\ pc[Handler(t)] = "stop"
  BY ActorFacts DEF Labels
<1>2. Quiet(Handler(t), "enter") /\ pc'[Handler(t)] = "enter"
  BY <1>1, Moved DEF Quiet, Labels, Cleaning
<1>3. Counts'
  BY <1>1, CountedAlike DEF OwnerLabels, SweepLabels
<1>4. TypeOK'
  BY <1>1, Moved DEF TypeOK
<1>5. Published'
  BY <1>1, Moved, ActorFacts DEF Published
<1>6. \A u \in Threads : Run(u) # Handler(t)
  BY ActorFacts
<1>7. AllDoomed'
  BY <1>1, <1>2, <1>6, QuietDoom DEF Ahead
<1> QED
  BY <1>1, <1>2, <1>3, <1>4, <1>5, <1>6, <1>7, QuietStep

LEMMA EnterStep ==
  ASSUME IInv, NEW a \in Actors, Enter(a)
  PROVE  IInv'
<1> USE DEF IInv, Enter, Ready, Goto, registry, launch
<1>1. /\ "sweep" \in Labels /\ pc[a] = "enter" /\ at'[a] = 1
      /\ \A b \in Actors \ {a} : at'[b] = at[b]
  BY DEF Labels, TypeOK
<1>2. Quiet(a, "sweep") /\ pc'[a] = "sweep"
  <2>1. pc' = [pc EXCEPT ![a] = "sweep"] /\ pc'[a] = "sweep"
    BY <1>1, Moved
  <2>2. UNCHANGED <<entry, hand, mine, place, live, dead, interrupted>>
    OBVIOUS
  <2> QED
    BY <1>1, <2>1, <2>2 DEF Quiet, Labels, Cleaning
<1>3. Counts' /\ handling' \in Nat
  <2>1. owners' = owners + 1 - 1 /\ handling' = handling + 1 - 0
    BY DEF TypeOK
  <2>2. /\ "sweep" \in OwnerLabels /\ pc[a] \in OwnerLabels
        /\ "sweep" \in SweepLabels /\ pc[a] \notin SweepLabels
    BY <1>1 DEF OwnerLabels, SweepLabels
  <2> QED
    BY <1>1, <2>1, <2>2, Counting
<1>4. TypeOK'
  BY <1>1, <1>3, Moved, PlaceFacts DEF TypeOK
<1>5. Published'
  BY <1>1, Moved, ActorFacts DEF Published
<1>6. ASSUME NEW u \in Threads, Run(u) = a
      PROVE  Shape(u)' /\ ~BeforeGroup(u) /\ ~BeforeCgroup(u) /\ ~WindowOpen(u)
  <2>1. pc[Run(u)] = "enter" /\ pc'[Run(u)] = "sweep" /\ Shape(u)
    BY <1>1, <1>2, <1>6 DEF Shapes
  <2> QED
    BY <1>2, <2>1 DEF Quiet, Shape, Unplaced, Placed, BeforeGroup, BeforeCgroup, WindowOpen
<1>7. AllDoomed'
  BY <1>1, <1>2, <1>6, QuietDoom DEF Ahead, Places
<1> QED
  BY <1>1, <1>2, <1>3, <1>4, <1>5, <1>6, <1>7, QuietStep

LEMMA LeaveStep ==
  ASSUME IInv, NEW a \in Actors, Leave(a)
  PROVE  IInv'
<1> USE DEF IInv, Leave, Ready, Goto, registry, launch
<1>1. "finish" \in Labels /\ pc[a] = "sweep" /\ at[a] > Last
  BY DEF Labels
<1>2. Quiet(a, "finish") /\ pc'[a] = "finish"
  BY <1>1, Moved DEF Quiet, Labels, Cleaning
<1>3. Counts' /\ handling' \in Nat
  <2>1. owners' = owners + 1 - 1 /\ handling' = handling + 0 - 1
    BY DEF TypeOK
  <2>2. /\ "finish" \in OwnerLabels /\ pc[a] \in OwnerLabels
        /\ "finish" \notin SweepLabels /\ pc[a] \in SweepLabels
    BY <1>1 DEF OwnerLabels, SweepLabels
  <2> QED
    BY <1>1, <2>1, <2>2, Counting
<1>4. TypeOK'
  BY <1>1, <1>3, Moved DEF TypeOK
<1>5. Published'
  BY <1>1, Moved, ActorFacts DEF Published
<1>6. ASSUME NEW u \in Threads, Run(u) = a
      PROVE  Shape(u)' /\ ~BeforeGroup(u) /\ ~BeforeCgroup(u) /\ ~WindowOpen(u)
  <2>1. pc[Run(u)] = "sweep" /\ pc'[Run(u)] = "finish" /\ Shape(u)
    BY <1>1, <1>2, <1>6 DEF Shapes
  <2> QED
    BY <1>2, <2>1 DEF Quiet, Shape, Unplaced, Placed, BeforeGroup, BeforeCgroup, WindowOpen
<1>7. \A p \in Places : ~Ahead(a, p)
  BY <1>1, PlaceFacts DEF Ahead, Places, TypeOK
<1>8. AllDoomed'
  BY <1>1, <1>2, <1>6, <1>7, QuietDoom
<1> QED
  BY <1>1, <1>2, <1>3, <1>4, <1>5, <1>6, <1>8, QuietStep

LEMMA EscapeStep ==
  ASSUME IInv, NEW t \in Threads, Escape(t)
  PROVE  IInv'
<1> USE DEF IInv, Escape, registry
<1>1. UNCHANGED <<entry, handling, owners, stopping, interrupted, pc, at, hand, mine, place, dead>>
  OBVIOUS
<1>2. /\ Sealed /\ "group" \in live[t] /\ live'[t] = live[t] \cup {"strays"}
      /\ \A u \in Threads \ {t} : live'[u] = live[u]
  BY DEF TypeOK
<1>3. TypeOK'
  BY <1>1, <1>2 DEF TypeOK
<1>4. Counts' /\ Published'
  <2>1. OwnerSet' = OwnerSet /\ SweepSet' = SweepSet
    BY <1>1 DEF OwnerSet, SweepSet
  <2> QED
    BY <1>1, <2>1 DEF Counts, Published
<1>10. Distinct' /\ EntryOwned'
  BY <1>1 DEF Distinct, EntryOwned, Kind
<1>11. HandOwned'
  BY <1>1, HandsKept
<1>12. Cleared'
  BY <1>1 DEF Cleared, Kind
<1>5. Shapes'
  <2>1. Shape(t)'
    <3>1. Shape(t)
      BY DEF Shapes
    <3> QED
      BY <1>1, <1>2, <3>1 DEF Shape, Unplaced, Placed, InOrder, Kind
  <2>2. \A u \in Threads \ {t} : Shape(u)'
    BY <1>1, <1>2, ShapeKept DEF Shapes
  <2> QED
    BY <2>1, <2>2 DEF Shapes
<1>6. \A u \in Threads : \A k : Pending(u, k)' <=> Pending(u, k)
  BY <1>1 DEF Pending, Ahead, Kind
<1>7. AllReached'
  <2> SUFFICES ASSUME NEW u \in Threads PROVE Reached(u)'
    BY DEF AllReached
  <2>1. (BeforeGroup(u) => BeforeGroup(u)') /\ (BeforeCgroup(u) => BeforeCgroup(u)')
    BY <1>1 DEF BeforeGroup, BeforeCgroup, Kind
  <2>3. /\ Reachable(u, "group") => Reachable(u, "group")'
        /\ Reachable(u, "cgroup") => Reachable(u, "cgroup")'
    BY <1>1 DEF Reachable, Kind
  <2>4. Reached(u)
    BY DEF AllReached
  <2>2. /\ "group" \in live'[u] => "group" \in live[u]
        /\ live'[u] # {} => live[u] # {}
    BY <1>2
  <2> QED
    BY <2>1, <2>2, <2>3, <2>4 DEF Reached
<1>8. AllDoomed'
  BY <1>1, <1>2, <1>6 DEF AllDoomed, Doomed, WindowOpen
<1>9. Final'
  BY <1>1, <1>2 DEF Final, Fatal
<1> QED
  BY <1>3, <1>4, <1>5, <1>7, <1>8, <1>9, <1>10, <1>11, <1>12

LEMMA DieStep ==
  ASSUME IInv, NEW a \in Actors, Die(a)
  PROVE  IInv'
<1> USE DEF IInv, Die, Ready, registry, launch
<1>1. UNCHANGED <<entry, handling, owners, stopping, interrupted, pc, at, hand, mine, place,
                  live, launches, signals>> /\ dead' = TRUE /\ pc[a] = "dying"
  OBVIOUS
<1>2. TypeOK'
  BY <1>1 DEF TypeOK
<1>3. Counts' /\ Published'
  <2>1. OwnerSet' = OwnerSet /\ SweepSet' = SweepSet
    BY <1>1 DEF OwnerSet, SweepSet
  <2> QED
    BY <1>1, <2>1 DEF Counts, Published
<1>8. Distinct' /\ EntryOwned'
  BY <1>1 DEF Distinct, EntryOwned, Kind
<1>9. HandOwned'
  BY <1>1, HandsKept
<1>10. Cleared'
  BY <1>1 DEF Cleared, Kind
<1>4. Shapes'
  BY <1>1, ShapeKept DEF Shapes
<1>5. \A u \in Threads : \A k : Pending(u, k)' <=> Pending(u, k)
  BY <1>1 DEF Pending, Ahead, Kind
<1>6. AllReached'
  <2> SUFFICES ASSUME NEW u \in Threads PROVE Reached(u)'
    BY DEF AllReached
  <2>1. (BeforeGroup(u) => BeforeGroup(u)') /\ (BeforeCgroup(u) => BeforeCgroup(u)')
    BY <1>1 DEF BeforeGroup, BeforeCgroup, Kind
  <2>3. /\ Reachable(u, "group") => Reachable(u, "group")'
        /\ Reachable(u, "cgroup") => Reachable(u, "cgroup")'
    BY <1>1 DEF Reachable, Kind
  <2>4. Reached(u)
    BY DEF AllReached
  <2> QED
    BY <1>1, <2>1, <2>3, <2>4 DEF Reached
<1>11. AllDoomed'
  BY <1>1, <1>5 DEF AllDoomed, Doomed, WindowOpen
<1>7. Final'
  BY <1>1 DEF Final, Fatal
<1> QED
  BY <1>2, <1>3, <1>4, <1>6, <1>7, <1>8, <1>9, <1>10, <1>11

-----------------------------------------------------------------------------
(* Steps of a thread's own flow that change its own launch only. *)

Own(t, label) ==
  /\ label \in Labels \ {"spawn", "kill", "dying"}
  /\ pc' = [pc EXCEPT ![Run(t)] = label]
  /\ pc[Run(t)] \notin {"stop", "enter", "sweep", "kill"}
  /\ UNCHANGED <<entry, hand, dead, interrupted>>
  /\ \A b \in Actors \ {Run(t)} : at'[b] = at[b]
  /\ \A u \in Threads \ {t} : mine'[u] = mine[u] /\ place'[u] = place[u] /\ live'[u] = live[u]
  /\ live'[t] \subseteq live[t] \/ pc[Run(t)] = "spawn"

LEMMA OwnFacts ==
  ASSUME TypeOK, NEW t \in Threads, NEW label, Own(t, label)
  PROVE  /\ Run(t) \in Actors /\ pc' \in [Actors -> Labels] /\ pc'[Run(t)] = label
         /\ \A b \in Actors \ {Run(t)} : pc'[b] = pc[b]
         /\ \A u \in Threads \ {t} : Run(u) \in Actors \ {Run(t)}
         /\ \A u \in Threads \ {t} : pc'[Run(u)] = pc[Run(u)] /\ at'[Run(u)] = at[Run(u)]
<1>1. Run(t) \in Actors /\ label \in Labels /\ pc' = [pc EXCEPT ![Run(t)] = label]
  BY ActorFacts DEF Own
<1>2. /\ pc' \in [Actors -> Labels] /\ pc'[Run(t)] = label
      /\ \A b \in Actors \ {Run(t)} : pc'[b] = pc[b]
  BY <1>1, Moved
<1>3. \A u \in Threads \ {t} : Run(u) \in Actors \ {Run(t)}
  BY ActorFacts
<1>4. \A b \in Actors \ {Run(t)} : at'[b] = at[b]
  BY DEF Own
<1> QED
  BY <1>1, <1>2, <1>3, <1>4

LEMMA OwnStep ==
  ASSUME IInv, NEW t \in Threads, NEW label, Own(t, label),
         Shape(t)', Reached(t)', interrupted => Doomed(t)'
  PROVE  Shapes' /\ AllReached' /\ AllDoomed' /\ Final'
<1> USE DEF IInv
<1>1. /\ Run(t) \in Actors /\ pc' \in [Actors -> Labels] /\ pc'[Run(t)] = label
      /\ \A b \in Actors \ {Run(t)} : pc'[b] = pc[b] /\ at'[b] = at[b]
      /\ \A u \in Threads \ {t} : pc'[Run(u)] = pc[Run(u)] /\ at'[Run(u)] = at[Run(u)]
  BY OwnFacts DEF Own
<1>2. /\ UNCHANGED <<entry, hand, dead, interrupted>>
      /\ \A u \in Threads \ {t} : mine'[u] = mine[u] /\ place'[u] = place[u] /\ live'[u] = live[u]
      /\ pc[Run(t)] \notin {"stop", "enter", "sweep", "kill"} /\ label \notin {"spawn", "kill", "dying"}
      /\ live'[t] \subseteq live[t] \/ pc[Run(t)] = "spawn"
  BY DEF Own
<1>3. ASSUME NEW u \in Threads \ {t}
      PROVE  Undisturbed(u, "group") /\ Undisturbed(u, "cgroup")
  BY <1>1, <1>2 DEF Undisturbed
<1>4. Shapes'
  BY <1>1, <1>2, ShapeKept DEF Shapes
<1>5. AllReached'
  <2> SUFFICES ASSUME NEW u \in Threads \ {t} PROVE Reached(u)'
    BY DEF AllReached
  <2>1. (BeforeGroup(u) => BeforeGroup(u)') /\ (BeforeCgroup(u) => BeforeCgroup(u)')
    BY <1>1 DEF BeforeGroup, BeforeCgroup, Kind
  <2>2. Reached(u)
    BY DEF AllReached
  <2> QED
    BY <1>2, <1>3, <2>1, <2>2, ReachedKept
<1>6. AllDoomed'
  <2> SUFFICES ASSUME interrupted, NEW u \in Threads \ {t} PROVE Doomed(u)'
    BY <1>2 DEF AllDoomed
  <2>1. \A b \in Actors : \A p \in Places : Ahead(b, p) => Ahead(b, p)'
    BY <1>1, <1>2 DEF Ahead
  <2>2. WindowOpen(u) => WindowOpen(u)'
    BY <1>1 DEF WindowOpen
  <2>3. Doomed(u) /\ Shape(u)
    BY DEF AllDoomed, Shapes
  <2>4. live'[u] # {} => mine[u]["group"] # None /\ (Sealed => mine[u]["cgroup"] # None)
    BY <1>2, <2>3, LivingHold
  <2> QED
    BY <1>2, <1>3, <2>1, <2>2, <2>3, <2>4, DoomedKept
<1>7. Final'
  <2>1. Fatal' => Fatal
    BY <1>1, <1>2 DEF Fatal
  <2>2. Fatal => pc[Run(t)] # "spawn"
    BY DEF Final
  <2>3. Fatal => \A u \in Threads :
          live'[u] \subseteq live[u] /\ (pc'[Run(u)] = "spawn" => pc[Run(u)] = "spawn")
    BY <1>1, <1>2, <2>2
  <2> QED
    BY <1>2, <2>1, <2>3, FinalKept
<1> QED
  BY <1>4, <1>5, <1>6, <1>7

LEMMA OwnKept ==
  ASSUME IInv, NEW t \in Threads, NEW label, Own(t, label),
         \A k \in Kinds : place[t][k] # None => place'[t][k] = place[t][k] /\ mine'[t][k] = mine[t][k],
         label \notin Cleaning
  PROVE  EntryOwned' /\ HandOwned' /\ Cleared'
<1> USE DEF IInv
<1>1. /\ Run(t) \in Actors /\ pc'[Run(t)] = label
      /\ \A b \in Actors \ {Run(t)} : pc'[b] = pc[b] /\ at'[b] = at[b]
      /\ \A u \in Threads \ {t} : pc'[Run(u)] = pc[Run(u)] /\ at'[Run(u)] = at[Run(u)]
  BY OwnFacts DEF Own
<1>2. UNCHANGED <<entry, hand>> /\ label # "kill"
  BY DEF Own
<1>3. \A u \in Threads : \A k \in Kinds : place[u][k] # None =>
        place'[u][k] = place[u][k] /\ mine'[u][k] = mine[u][k]
  BY DEF Own
<1>4. EntryOwned'
  BY <1>2, <1>3, EntriesKept
<1>5. HandOwned'
  <2>1. \A b \in Actors : pc'[b] = "kill" => pc[b] = "kill" /\ hand'[b] = hand[b] /\ at'[b] = at[b]
    BY <1>1, <1>2
  <2>2. \A u \in Threads : pc'[Run(u)] = "give up" =>
          pc[Run(u)] = "give up" /\ at'[Run(u)] = at[Run(u)]
    BY <1>1 DEF Cleaning
  <2>3. \A u \in Threads : \A k \in Kinds : place[u][k] # None =>
          place'[u][k] # None /\ mine'[u][k] = mine[u][k]
    BY <1>3
  <2> QED
    BY <2>1, <2>2, <2>3, HandsKept
<1>6. Cleared'
  <2>1. \A u \in Threads : pc'[Run(u)] \in Cleaning =>
          pc[Run(u)] \in Cleaning /\ at'[Run(u)] = at[Run(u)] /\ mine'[u] = mine[u]
    BY <1>1 DEF Own
  <2> QED
    BY <1>2, <2>1, ClearedKept
<1> QED
  BY <1>4, <1>5, <1>6

\* A thread that has no live launch needs neither to be reached nor doomed.
LEMMA NothingLives ==
  ASSUME NEW t \in Threads, live'[t] = {}
  PROVE  Reached(t)' /\ Doomed(t)'
BY DEF Reached, Doomed

LEMMA PublishedKept ==
  ASSUME IInv, NEW t \in Threads, NEW label, Own(t, label), UNCHANGED stopping
  PROVE  Published'
<1>1. /\ \A b \in Actors \ {Run(t)} : pc'[b] = pc[b]
      /\ interrupted' = interrupted
  BY OwnFacts DEF Own, IInv
<1>2. \A u \in Threads : pc'[Handler(u)] = pc[Handler(u)]
  BY <1>1, ActorFacts
<1> QED
  BY <1>1, <1>2 DEF Published, IInv

LEMMA PrepareStep ==
  ASSUME IInv, NEW t \in Threads, Prepare(t)
  PROVE  IInv'
<1> USE DEF IInv, Prepare, Ready, Goto, registry, launch
<1>1. Run(t) \in Actors /\ "opened" \in Labels /\ pc[Run(t)] = "idle"
  BY ActorFacts DEF Labels
<1>2. Shape(t) /\ Unplaced(t) /\ live[t] = {} /\ \A k \in Kinds : mine[t][k] = None
  BY <1>1 DEF Shapes, Shape
<1>3. /\ mine' \in [Threads -> [Kinds -> Ids \cup {None}]]
      /\ \A u \in Threads \ {t} : mine'[u] = mine[u]
      /\ mine'[t]["group"] = None
      /\ Sealed => mine'[t]["cgroup"] \in Free("cgroup")
  <2>1. CASE Sealed
    <3>1. PICK i \in Free("cgroup") : mine' = [mine EXCEPT ![t]["cgroup"] = i]
      BY <2>1
    <3> QED
      BY <1>2, <2>1, <3>1, PlaceFacts DEF TypeOK, Free
  <2>2. CASE ~Sealed
    BY <1>2, <2>2, PlaceFacts DEF TypeOK
  <2> QED
    BY <2>1, <2>2
<1>4. \A i \in Free("cgroup") : i \in Ids /\ i # None
  BY RegistryAssumption DEF Free
<1>5. Own(t, "opened")
  BY <1>1, <1>3 DEF Own, Labels
<1>6. pc'[Run(t)] = "opened"
  BY <1>5, OwnFacts
<1>7. Counts' /\ owners' \in Nat
  <2>1. owners' = owners + 1 - 0 /\ handling' = handling + 0 - 0
    BY DEF TypeOK
  <2>2. /\ "opened" \in OwnerLabels /\ pc[Run(t)] \notin OwnerLabels
        /\ "opened" \notin SweepLabels /\ pc[Run(t)] \notin SweepLabels
    BY <1>1 DEF OwnerLabels, SweepLabels
  <2> QED
    BY <1>1, <2>1, <2>2, Counting
<1>8. TypeOK'
  <2>1. pc' \in [Actors -> Labels] /\ \A b \in Actors : pc'[b] = "kill" <=> pc[b] = "kill"
    BY <1>1, Moved
  <2>2. launches' \in [Threads -> Nat]
    BY DEF TypeOK
  <2>3. UNCHANGED <<entry, handling, stopping, interrupted, at, hand, place, live, signals, dead>>
    OBVIOUS
  <2> QED
    BY <1>3, <1>7, <2>1, <2>2, <2>3 DEF TypeOK
<1>9. Published'
  BY <1>5, PublishedKept
<1>10. Distinct'
  <2> SUFFICES ASSUME NEW u \in Threads, NEW v \in Threads, NEW k \in Kinds,
                      mine'[u][k] = mine'[v][k], mine'[u][k] # None
               PROVE  u = v
    BY DEF Distinct
  <2>1. CASE u # t /\ v # t
    BY <1>3, <2>1 DEF Distinct
  <2>2. CASE u = t /\ v # t
    <3>1. k = "cgroup" /\ Sealed
      BY <1>3, <2>2, PlaceFacts
    <3> QED
      BY <1>3, <2>2, <3>1 DEF Free
  <2>3. CASE v = t /\ u # t
    <3>1. k = "cgroup" /\ Sealed
      BY <1>3, <2>3, PlaceFacts
    <3> QED
      BY <1>3, <2>3, <3>1 DEF Free
  <2> QED
    BY <2>1, <2>2, <2>3
<1>11. Shape(t)'
  <2>1. /\ Unplaced(t)' /\ mine'[t]["group"] = None /\ live'[t] = {}
        /\ Sealed => mine'[t]["cgroup"] # None
    BY <1>2, <1>3, <1>4 DEF Unplaced
  <2> QED
    BY <1>6, <2>1 DEF Shape, Unplaced
<1>12. Reached(t)' /\ Doomed(t)'
  BY <1>2, NothingLives
<1>13. Shapes' /\ AllReached' /\ AllDoomed' /\ Final'
  BY <1>5, <1>11, <1>12, OwnStep
<1>14. EntryOwned' /\ HandOwned' /\ Cleared'
  BY <1>2, <1>5, OwnKept DEF Unplaced, Cleaning
<1> QED
  BY <1>7, <1>8, <1>9, <1>10, <1>13, <1>14

LEMMA SpawnStep ==
  ASSUME IInv, NEW t \in Threads, Spawn(t)
  PROVE  IInv'
<1> USE DEF IInv, Spawn, Ready, Goto, registry, launch
<1>1. Run(t) \in Actors /\ "claim" \in Labels /\ pc[Run(t)] = "spawn"
  BY ActorFacts DEF Labels
<1>2. /\ Shape(t) /\ Unplaced(t) /\ live[t] = {} /\ mine[t]["group"] = None
      /\ Sealed => mine[t]["cgroup"] # None
  BY <1>1 DEF Shapes, Shape
<1>3. PICK i \in Free("group") : mine' = [mine EXCEPT ![t]["group"] = i]
  OBVIOUS
<1>4. /\ i \in Ids /\ i # None /\ \A u \in Threads : mine[u]["group"] # i
  BY RegistryAssumption DEF Free
<1>5. /\ mine' \in [Threads -> [Kinds -> Ids \cup {None}]]
      /\ \A u \in Threads \ {t} : mine'[u] = mine[u]
      /\ mine'[t]["group"] = i
      /\ \A k \in Kinds \ {"group"} : mine'[t][k] = mine[t][k]
  BY <1>3, <1>4, PlaceFacts DEF TypeOK
<1>6. /\ live' \in [Threads -> SUBSET {"group", "strays"}]
      /\ \A u \in Threads \ {t} : live'[u] = live[u]
      /\ live'[t] = {"group"}
      /\ at' \in [Actors -> 1..Last + 1] /\ at'[Run(t)] = 1
      /\ \A b \in Actors \ {Run(t)} : at'[b] = at[b]
  BY <1>1, PlaceFacts DEF TypeOK
<1>7. Own(t, "claim")
  BY <1>1, <1>5, <1>6 DEF Own, Labels
<1>8. pc'[Run(t)] = "claim" /\ pc' \in [Actors -> Labels]
  BY <1>7, OwnFacts
<1>9. Counts'
  BY <1>1, CountedAlike DEF OwnerLabels, SweepLabels
<1>10. TypeOK'
  BY <1>1, <1>5, <1>6, Moved DEF TypeOK
<1>11. Published'
  BY <1>7, PublishedKept
<1>12. Distinct'
  BY <1>4, <1>5 DEF Distinct
<1>13. Shape(t)'
  <2>1. /\ Unplaced(t)' /\ mine'[t]["group"] # None /\ "strays" \notin live'[t]
        /\ Sealed => mine'[t]["cgroup"] # None /\ "cgroup" \in Kinds
    BY <1>2, <1>4, <1>5, <1>6, PlaceFacts DEF Unplaced
  <2>2. at'[Run(t)] \in Places /\ Kind(at'[Run(t)]) = "group" /\ "group" \in Kinds
    BY <1>6, PlaceFacts
  <2> QED
    BY <1>8, <2>1, <2>2 DEF Shape, Unplaced, InOrder, Kind
<1>14. Reached(t)'
  BY <1>6, <1>8, PlaceFacts DEF Reached, BeforeGroup, BeforeCgroup, Kind
<1>15. Doomed(t)'
  BY <1>8 DEF Doomed, WindowOpen
<1>16. Shapes' /\ AllReached' /\ AllDoomed' /\ Final'
  BY <1>7, <1>13, <1>14, <1>15, OwnStep
<1>17. EntryOwned' /\ HandOwned' /\ Cleared'
  BY <1>2, <1>7, OwnKept DEF Unplaced, Cleaning
<1> QED
  BY <1>9, <1>10, <1>11, <1>12, <1>16, <1>17

LEMMA AbandonStep ==
  ASSUME IInv, NEW t \in Threads, Abandon(t)
  PROVE  IInv'
<1> USE DEF IInv, Abandon, Ready, Goto, registry, launch
<1>1. Run(t) \in Actors /\ "close" \in Labels /\ pc[Run(t)] = "abandon"
  BY ActorFacts DEF Labels
<1>2. Shape(t) /\ Unplaced(t) /\ (Sealed => mine[t]["cgroup"] # None)
  BY <1>1 DEF Shapes, Shape
<1>3. /\ mine' \in [Threads -> [Kinds -> Ids \cup {None}]]
      /\ \A u \in Threads \ {t} : mine'[u] = mine[u]
      /\ mine'[t]["group"] = None
      /\ \A k \in Kinds \ {"group"} : mine'[t][k] = mine[t][k]
  BY PlaceFacts DEF TypeOK
<1>4. /\ live' \in [Threads -> SUBSET {"group", "strays"}]
      /\ \A u \in Threads \ {t} : live'[u] = live[u]
      /\ live'[t] = {}
  BY DEF TypeOK
<1>5. Own(t, "close")
  BY <1>1, <1>3, <1>4 DEF Own, Labels
<1>6. pc'[Run(t)] = "close" /\ pc' \in [Actors -> Labels]
  BY <1>5, OwnFacts
<1>7. Counts'
  BY <1>1, CountedAlike DEF OwnerLabels, SweepLabels
<1>8. TypeOK'
  BY <1>1, <1>3, <1>4, Moved DEF TypeOK
<1>9. Published'
  BY <1>5, PublishedKept
<1>10. Distinct'
  BY <1>3 DEF Distinct
<1>11. Shape(t)'
  <2>1. /\ Unplaced(t)' /\ mine'[t]["group"] = None /\ live'[t] = {}
        /\ Sealed => mine'[t]["cgroup"] # None
    BY <1>2, <1>3, <1>4, PlaceFacts DEF Unplaced
  <2> QED
    BY <1>6, <2>1 DEF Shape, Unplaced
<1>12. Reached(t)' /\ Doomed(t)'
  BY <1>4, NothingLives
<1>13. Shapes' /\ AllReached' /\ AllDoomed' /\ Final'
  BY <1>5, <1>11, <1>12, OwnStep
<1>14. EntryOwned' /\ HandOwned' /\ Cleared'
  BY <1>2, <1>5, OwnKept DEF Unplaced, Cleaning
<1> QED
  BY <1>7, <1>8, <1>9, <1>10, <1>13, <1>14

LEMMA TerminateStep ==
  ASSUME IInv, NEW t \in Threads, Terminate(t)
  PROVE  IInv'
<1> USE DEF IInv, Terminate, Ready, Goto, registry, launch
<1>1. Run(t) \in Actors /\ "release" \in Labels /\ pc[Run(t)] = "running"
  BY ActorFacts DEF Labels
<1>2. /\ Shape(t) /\ Placed(t) /\ mine[t]["group"] # None /\ (Sealed => mine[t]["cgroup"] # None)
      /\ place[t]["group"] \in Places /\ Kind(place[t]["group"]) = "group"
  BY <1>1, PlaceFacts DEF Shapes, Shape, Placed
<1>3. /\ live' \in [Threads -> SUBSET {"group", "strays"}]
      /\ \A u \in Threads \ {t} : live'[u] = live[u]
      /\ live'[t] = {}
  BY DEF TypeOK
<1>4. /\ at' \in [Actors -> 1..Last + 1] /\ at'[Run(t)] = place[t]["group"]
      /\ \A b \in Actors \ {Run(t)} : at'[b] = at[b]
  BY <1>1, <1>2, PlaceFacts DEF TypeOK, Places
<1>5. Own(t, "release")
  BY <1>1, <1>3, <1>4 DEF Own, Labels
<1>6. pc'[Run(t)] = "release" /\ pc' \in [Actors -> Labels]
  BY <1>5, OwnFacts
<1>7. Counts'
  BY <1>1, CountedAlike DEF OwnerLabels, SweepLabels
<1>8. TypeOK'
  BY <1>1, <1>3, <1>4, Moved DEF TypeOK
<1>9. Published'
  BY <1>5, PublishedKept
<1>10. Distinct'
  BY DEF Distinct
<1>11. Shape(t)'
  <2>1. /\ at'[Run(t)] \in Places /\ Kind(at'[Run(t)]) = "group"
        /\ place'[t]["group"] = at'[Run(t)] /\ live'[t] = {}
        /\ Sealed => place'[t]["cgroup"] # None /\ mine'[t]["cgroup"] # None
    BY <1>2, <1>3, <1>4, PlaceFacts DEF Placed
  <2>2. \A j \in Kinds : place'[t][j] # None =>
          place'[t][j] \in Places /\ Kind(place'[t][j]) = j /\ mine'[t][j] # None
    BY <1>2 DEF Shape, Kind
  <2> QED
    BY <1>6, <2>1, <2>2 DEF Shape, Kind
<1>12. Reached(t)' /\ Doomed(t)'
  BY <1>3, NothingLives
<1>13. Shapes' /\ AllReached' /\ AllDoomed' /\ Final'
  BY <1>5, <1>11, <1>12, OwnStep
<1>14. EntryOwned' /\ HandOwned' /\ Cleared'
  BY <1>5, OwnKept DEF Cleaning
<1> QED
  BY <1>7, <1>8, <1>9, <1>10, <1>13, <1>14

\* No sweep holds an identity when a launch goes on past its wait.
LEMMA QuiesceStep ==
  ASSUME IInv, NEW t \in Threads, Quiesce(t)
  PROVE  IInv'
<1> USE DEF IInv, Quiesce, Ready, Goto, registry
<1> DEFINE label == IF pc[Run(t)] = "quiesce" THEN "give up" ELSE "abandon"
<1>1. /\ Run(t) \in Actors /\ label \in Labels /\ pc[Run(t)] \in {"quiesce", "revoking"}
      /\ pc' = [pc EXCEPT ![Run(t)] = label]
  BY ActorFacts DEF Labels
<1>2. /\ UNCHANGED <<entry, handling, owners, stopping, interrupted, at, hand, mine, live>>
      /\ UNCHANGED <<launches, signals, dead>>
      /\ handling = 0
  OBVIOUS
<1>3. Shape(t)
  BY DEF Shapes
<1>4. /\ place' \in [Threads -> [Kinds -> Places \cup {None}]]
      /\ \A u \in Threads \ {t} : place'[u] = place[u]
      /\ \A k \in Kinds \ {"group"} : place'[t][k] = place[t][k]
      /\ label = "give up" => place' = place
      /\ label = "abandon" => place'[t]["group"] = None
  <2>1. CASE pc[Run(t)] = "quiesce"
    BY <2>1 DEF TypeOK
  <2>2. CASE pc[Run(t)] = "revoking"
    <3>1. place' = [place EXCEPT ![t]["group"] = None] /\ "group" \in Kinds
      BY <2>2, PlaceFacts
    <3>2. place \in [Threads -> [Kinds -> Places \cup {None}]]
      BY DEF TypeOK
    <3>3. label = "abandon"
      BY <2>2
    <3> QED
      BY ONLY <3>1, <3>2, <3>3, t \in Threads
  <2> QED
    BY <1>1, <2>1, <2>2
<1>5. Own(t, label)
  BY <1>1, <1>2, <1>4 DEF Own, Labels
<1>6. pc'[Run(t)] = label /\ pc' \in [Actors -> Labels]
  BY <1>5, OwnFacts
<1>7. Counts'
  BY <1>1, CountedAlike DEF OwnerLabels, SweepLabels
<1>8. \A b \in Actors : pc[b] # "kill" /\ pc'[b] # "kill"
  <2>1. \A b \in Actors : pc[b] # "kill"
    BY <1>2, NobodySweeps DEF SweepLabels
  <2> QED
    BY <1>5, <1>6, <2>1, OwnFacts
<1>9. TypeOK'
  BY <1>2, <1>4, <1>6, <1>8 DEF TypeOK
<1>10. Published'
  BY <1>5, PublishedKept
<1>11. Distinct'
  <2>1. mine' = mine /\ Distinct
    BY <1>2
  <2> QED
    BY ONLY <2>1 DEF Distinct
<1>12. Shape(t)'
  <2>1. CASE pc[Run(t)] = "quiesce"
    BY <1>2, <1>3, <1>4, <1>6, <2>1 DEF Shape, Kind
  <2>2. CASE pc[Run(t)] = "revoking"
    <3>1. Unplaced(t)' /\ (Sealed => mine'[t]["cgroup"] # None)
      BY <1>2, <1>3, <1>4, <2>2, PlaceFacts DEF Shape, InOrder, Unplaced
    <3> QED
      BY <1>2, <1>3, <1>6, <2>2, <3>1 DEF Shape, Unplaced
  <2> QED
    BY <1>1, <2>1, <2>2
<1>13. Reached(t)' /\ Doomed(t)'
  <2>1. CASE pc[Run(t)] = "quiesce"
    BY <1>2, <1>3, <2>1, NothingLives DEF Shape
  <2>2. CASE pc[Run(t)] = "revoking"
    BY <1>6, <2>2 DEF Reached, Doomed, BeforeGroup, BeforeCgroup, WindowOpen
  <2> QED
    BY <1>1, <2>1, <2>2
<1>14. Shapes' /\ AllReached' /\ AllDoomed' /\ Final'
  BY <1>5, <1>12, <1>13, OwnStep
<1>15. EntryOwned'
  <2>1. ASSUME NEW p \in Places, entry[p] # None
        PROVE  \E u \in Threads : mine[u][Kind(p)] = entry[p] /\ place'[u][Kind(p)] = p
    <3>1. PICK u \in Threads : mine[u][Kind(p)] = entry[p] /\ place[u][Kind(p)] = p
      BY <2>1 DEF EntryOwned
    <3>2. CASE u = t /\ label = "abandon" /\ Kind(p) = "group"
      <4>1. at[Run(t)] = p /\ entry[at[Run(t)]] # mine[t][Kind(at[Run(t)])]
        <5>1. pc[Run(t)] = "revoking"
          BY <1>1, <3>2
        <5>2. Kind(at[Run(t)]) = "group" /\ place[t]["group"] = at[Run(t)]
          BY ONLY <1>3, <5>1 DEF Shape
        <5>3. entry[at[Run(t)]] # mine[t][Kind(at[Run(t)])]
          BY <5>1 DEF Cleared
        <5> QED
          BY ONLY <3>1, <3>2, <5>2, <5>3
      <4> QED
        BY <3>1, <3>2, <4>1
    <3>3. CASE ~(u = t /\ label = "abandon" /\ Kind(p) = "group")
      <4>1. place'[u][Kind(p)] = place[u][Kind(p)]
        BY <1>4, <3>3, PlaceFacts
      <4> QED
        BY <3>1, <4>1
    <3> QED
      BY <3>2, <3>3
  <2>2. entry' = entry /\ mine' = mine
    BY <1>2
  <2> QED
    BY ONLY <2>1, <2>2 DEF EntryOwned, Kind
<1>16. HandOwned'
  BY <1>8 DEF HandOwned
<1>17. Cleared'
  <2>1. \A u \in Threads : pc'[Run(u)] \in Cleaning => pc[Run(u)] \in Cleaning
    BY <1>1, <1>5, <1>6, OwnFacts DEF Cleaning
  <2> QED
    BY <1>2, <2>1, ClearedKept
<1> QED
  BY <1>7, <1>9, <1>10, <1>11, <1>14, <1>15, <1>16, <1>17

LEMMA GiveUpStep ==
  ASSUME IInv, NEW t \in Threads, GiveUp(t)
  PROVE  IInv'
<1> USE DEF IInv, GiveUp, Ready, Goto, registry
<1> DEFINE k == Kind(at[Run(t)])
           label == IF Sealed /\ k = "group" THEN "release" ELSE "idle"
<1>1. /\ Run(t) \in Actors /\ label \in Labels /\ pc[Run(t)] = "give up"
      /\ pc' = [pc EXCEPT ![Run(t)] = label]
  BY ActorFacts DEF Labels
<1>2. Shape(t)
  BY DEF Shapes
<1>3. /\ at[Run(t)] \in Places /\ k \in Kinds /\ place[t][k] = at[Run(t)]
      /\ live[t] = {}
      /\ k = "group" /\ Sealed => place[t]["cgroup"] # None /\ mine[t]["cgroup"] # None
      /\ k = "cgroup" => mine[t]["group"] = None /\ place[t]["group"] = None
      /\ entry[at[Run(t)]] # mine[t][k]
  BY <1>1, <1>2, PlaceFacts DEF Shape, Cleared
<1>4. Sealed => place[t]["cgroup"] \in Places \cup {None}
  <2>1. place \in [Threads -> [Kinds -> Places \cup {None}]]
    BY DEF TypeOK
  <2> QED
    BY ONLY <2>1, PlaceFacts, t \in Threads
<1> HIDE DEF k
<1>5. /\ mine' \in [Threads -> [Kinds -> Ids \cup {None}]]
      /\ place' \in [Threads -> [Kinds -> Places \cup {None}]]
      /\ \A u \in Threads \ {t} : mine'[u] = mine[u] /\ place'[u] = place[u]
      /\ mine'[t][k] = None /\ place'[t][k] = None
      /\ \A j \in Kinds \ {k} : mine'[t][j] = mine[t][j] /\ place'[t][j] = place[t][j]
  <2>1. /\ mine' = [mine EXCEPT ![t][k] = None] /\ place' = [place EXCEPT ![t][k] = None]
    BY DEF k
  <2>2. /\ mine \in [Threads -> [Kinds -> Ids \cup {None}]]
        /\ place \in [Threads -> [Kinds -> Places \cup {None}]]
    BY DEF TypeOK
  <2> QED
    BY ONLY <1>3, <2>1, <2>2, t \in Threads
<1>6. /\ at' \in [Actors -> 1..Last + 1]
      /\ \A b \in Actors \ {Run(t)} : at'[b] = at[b]
      /\ label = "release" => at'[Run(t)] = place[t]["cgroup"]
  <2>1. CASE label = "release"
    <3>1. at' = [at EXCEPT ![Run(t)] = place[t]["cgroup"]]
      BY <2>1 DEF k
    <3>2. at \in [Actors -> 1..Last + 1] /\ Last \in Nat
      BY PlaceFacts DEF TypeOK
    <3>3. place[t]["cgroup"] \in 1..Last + 1
      <4>1. k = "group" /\ Sealed
        BY <2>1
      <4>2. place[t]["cgroup"] \in 1..Last
        BY ONLY <1>3, <1>4, <4>1 DEF Places
      <4> QED
        BY ONLY <3>2, <4>2
    <3>4. Run(t) \in Actors
      BY <1>1
    <3> QED
      BY ONLY <3>1, <3>2, <3>3, <3>4
  <2>2. CASE label # "release"
    BY <2>2 DEF TypeOK, k
  <2> QED
    BY <2>1, <2>2
<1>7. /\ UNCHANGED <<entry, handling, owners, stopping, interrupted>>
      /\ UNCHANGED <<hand, live, launches, signals, dead>>
  OBVIOUS
<1>8. Own(t, label)
  BY <1>1, <1>5, <1>6, <1>7 DEF Own, Labels
<1>9. /\ pc'[Run(t)] = label /\ pc' \in [Actors -> Labels]
      /\ \A b \in Actors \ {Run(t)} : pc'[b] = pc[b]
      /\ \A u \in Threads \ {t} : pc'[Run(u)] = pc[Run(u)] /\ at'[Run(u)] = at[Run(u)]
  BY <1>8, OwnFacts
<1>10. Counts'
  BY <1>1, CountedAlike DEF OwnerLabels, SweepLabels
<1>11. TypeOK'
  <2>1. \A b \in Actors : pc'[b] = "kill" <=> pc[b] = "kill"
    BY <1>1, <1>9
  <2>2. TypeOK
    OBVIOUS
  <2> QED
    BY ONLY <1>5, <1>6, <1>7, <1>9, <2>1, <2>2 DEF TypeOK
<1>12. Published'
  BY <1>8, PublishedKept
<1>13. Distinct'
  <2>1. \A u \in Threads : \A j \in Kinds : mine'[u][j] # None => mine'[u][j] = mine[u][j]
    BY <1>5
  <2>2. Distinct
    OBVIOUS
  <2> QED
    BY ONLY <2>1, <2>2 DEF Distinct
<1>14. Shape(t)'
  <2>1. CASE label = "release"
    <3>1. k = "group" /\ Sealed /\ "cgroup" \in Kinds
      BY <2>1, PlaceFacts
    <3>2. /\ at'[Run(t)] = place[t]["cgroup"] /\ at'[Run(t)] \in Places
          /\ Kind(at'[Run(t)]) = "cgroup"
      BY <1>2, <1>3, <1>6, <2>1, <3>1 DEF Shape
    <3>3. /\ place'[t]["cgroup"] = place[t]["cgroup"] /\ mine'[t]["cgroup"] = mine[t]["cgroup"]
          /\ mine'[t]["group"] = None /\ place'[t]["group"] = None /\ live'[t] = {}
          /\ mine'[t]["cgroup"] # None
      BY <1>3, <1>5, <3>1
    <3>4. pc'[Run(t)] = "release" /\ \A j \in Kinds : j \in {"group", "cgroup"}
      BY <1>9, <2>1, PlaceFacts
    <3> QED
      BY ONLY <3>1, <3>2, <3>3, <3>4, PlaceFacts DEF Shape, Kind
  <2>2. CASE label = "idle"
    <3>1. \A j \in Kinds : mine'[t][j] = None /\ place'[t][j] = None
      <4>1. CASE k = "cgroup"
        <5>1. \A j \in Kinds \ {k} : j = "group"
          BY <4>1, PlaceFacts
        <5>2. "group" \in Kinds \ {k} /\ mine[t]["group"] = None /\ place[t]["group"] = None
          BY <1>3, <4>1, PlaceFacts
        <5> QED
          BY ONLY <1>5, <5>1, <5>2
      <4>2. CASE k # "cgroup"
        <5>1. Kinds = {k}
          BY <1>3, <2>2, <4>2 DEF Kinds
        <5> QED
          BY ONLY <1>5, <5>1
      <4> QED
        BY <4>1, <4>2
    <3> QED
      BY <1>3, <1>9, <2>2, <3>1, PlaceFacts DEF Shape, Unplaced
  <2> QED
    BY <2>1, <2>2
<1>15. Reached(t)' /\ Doomed(t)'
  BY <1>3, NothingLives
<1>16. Shapes' /\ AllReached' /\ AllDoomed' /\ Final'
  BY <1>8, <1>14, <1>15, OwnStep
<1>17. EntryOwned'
  <2>1. ASSUME NEW p \in Places, entry[p] # None
        PROVE  \E u \in Threads : mine'[u][Kind(p)] = entry[p] /\ place'[u][Kind(p)] = p
    <3>1. PICK u \in Threads : mine[u][Kind(p)] = entry[p] /\ place[u][Kind(p)] = p
      BY <2>1 DEF EntryOwned
    <3>2. ~(u = t /\ Kind(p) = k)
      BY <1>3, <3>1, <2>1
    <3>3. mine'[u][Kind(p)] = mine[u][Kind(p)] /\ place'[u][Kind(p)] = place[u][Kind(p)]
      BY <1>5, <3>2, PlaceFacts
    <3> QED
      BY <3>1, <3>3
  <2>2. entry' = entry
    BY <1>7
  <2> QED
    BY ONLY <2>1, <2>2 DEF EntryOwned, Kind
<1>18. HandOwned'
  <2> SUFFICES ASSUME NEW a \in Actors, pc'[a] = "kill"
               PROVE  /\ at'[a] \in Places
                      /\ \E u \in Threads :
                           /\ mine'[u][Kind(at'[a])] = hand'[a] /\ place'[u][Kind(at'[a])] # None
                           /\ ~(pc'[Run(u)] = "give up" /\ Kind(at'[Run(u)]) = Kind(at'[a]))
    BY DEF HandOwned, Kind
  <2>1. a # Run(t) /\ pc[a] = "kill" /\ at'[a] = at[a] /\ hand'[a] = hand[a]
    BY <1>6, <1>9
  <2>2. PICK u \in Threads :
          /\ mine[u][Kind(at[a])] = hand[a] /\ place[u][Kind(at[a])] # None
          /\ ~(pc[Run(u)] = "give up" /\ Kind(at[Run(u)]) = Kind(at[a]))
    BY <2>1 DEF HandOwned
  <2>3. at[a] \in Places /\ Kind(at[a]) \in Kinds
    BY <2>1, PlaceFacts DEF HandOwned
  <2>4. ~(u = t /\ Kind(at[a]) = k)
    BY <1>1, <2>2 DEF k
  <2>5. mine'[u][Kind(at[a])] = mine[u][Kind(at[a])] /\ place'[u][Kind(at[a])] = place[u][Kind(at[a])]
    BY <1>5, <2>3, <2>4
  <2>6. ~(pc'[Run(u)] = "give up" /\ Kind(at'[Run(u)]) = Kind(at[a]))
    BY <1>9, <2>2
  <2> QED
    BY <2>1, <2>2, <2>3, <2>5, <2>6
<1>19. Cleared'
  <2>1. \A u \in Threads : pc'[Run(u)] \in Cleaning =>
          pc[Run(u)] \in Cleaning /\ at'[Run(u)] = at[Run(u)] /\ mine'[u] = mine[u]
    BY <1>5, <1>9 DEF Cleaning
  <2> QED
    BY <1>7, <2>1, ClearedKept
<1> QED
  BY <1>10, <1>11, <1>12, <1>13, <1>16, <1>17, <1>18, <1>19

-----------------------------------------------------------------------------
(* Steps of a thread's own flow that change the registry or kill. *)

LEMMA OthersStep ==
  ASSUME IInv, NEW t \in Threads, NEW label \in Labels \ {"spawn", "kill", "dying"},
         pc' = [pc EXCEPT ![Run(t)] = label],
         pc[Run(t)] \notin {"spawn", "stop", "enter", "sweep", "kill"},
         UNCHANGED <<at, hand, mine, live, stopping, interrupted, dead>>,
         \A u \in Threads \ {t} : place'[u] = place[u],
         \A u \in Threads \ {t} : live[u] # {} =>
           Undisturbed(u, "group") /\ (Sealed => Undisturbed(u, "cgroup")),
         Shape(t)', Reached(t)', interrupted => Doomed(t)'
  PROVE  /\ Published' /\ Distinct' /\ Shapes' /\ AllReached' /\ AllDoomed' /\ Final'
         /\ pc' \in [Actors -> Labels] /\ pc'[Run(t)] = label
         /\ \A b \in Actors \ {Run(t)} : pc'[b] = pc[b]
         /\ \A u \in Threads \ {t} : pc'[Run(u)] = pc[Run(u)]
<1> USE DEF IInv
<1>1. /\ Run(t) \in Actors /\ pc' \in [Actors -> Labels] /\ pc'[Run(t)] = label
      /\ \A b \in Actors \ {Run(t)} : pc'[b] = pc[b]
      /\ \A u \in Threads : pc'[Handler(u)] = pc[Handler(u)]
      /\ \A u \in Threads \ {t} : pc'[Run(u)] = pc[Run(u)]
  <2>1. Run(t) \in Actors
    BY ActorFacts
  <2>2. /\ pc' \in [Actors -> Labels] /\ pc'[Run(t)] = label
        /\ \A b \in Actors \ {Run(t)} : pc'[b] = pc[b]
    BY <2>1, Moved
  <2>3. /\ \A u \in Threads : Handler(u) \in Actors \ {Run(t)}
        /\ \A u \in Threads \ {t} : Run(u) \in Actors \ {Run(t)}
    BY ActorFacts
  <2> QED
    BY ONLY <2>1, <2>2, <2>3
<1>2. Published' /\ Distinct'
  BY <1>1 DEF Published, Distinct
<1>3. Shapes'
  BY <1>1, ShapeKept DEF Shapes
<1>4. AllReached'
  <2> SUFFICES ASSUME NEW u \in Threads \ {t} PROVE Reached(u)'
    BY DEF AllReached
  <2>1. (BeforeGroup(u) => BeforeGroup(u)') /\ (BeforeCgroup(u) => BeforeCgroup(u)')
    BY <1>1 DEF BeforeGroup, BeforeCgroup, Kind
  <2>2. Reached(u) /\ live' = live
    BY DEF AllReached
  <2> QED
    BY <2>1, <2>2, ReachedKept
<1>5. AllDoomed'
  <2> SUFFICES ASSUME interrupted, NEW u \in Threads \ {t} PROVE Doomed(u)'
    BY DEF AllDoomed
  <2>1. \A b \in Actors : \A p \in Places : Ahead(b, p) => Ahead(b, p)'
    BY <1>1 DEF Ahead
  <2>2. WindowOpen(u) => WindowOpen(u)'
    BY <1>1 DEF WindowOpen
  <2>3. Doomed(u) /\ Shape(u) /\ live' = live
    BY DEF AllDoomed, Shapes
  <2> QED
    BY <2>1, <2>2, <2>3, LivingHold, DoomedKept
<1>6. Final'
  <2>1. Fatal' => Fatal
    BY <1>1 DEF Fatal
  <2>2. \A u \in Threads :
          live'[u] \subseteq live[u] /\ (pc'[Run(u)] = "spawn" => pc[Run(u)] = "spawn")
    BY <1>1
  <2> QED
    BY <2>1, <2>2, FinalKept
<1> QED
  BY <1>1, <1>2, <1>3, <1>4, <1>5, <1>6

\* A slot is cleared by the launch that is in it, or left to who is.
LEMMA ReleaseStep ==
  ASSUME IInv, NEW t \in Threads, Release(t)
  PROVE  IInv'
<1> USE DEF IInv
<1> DEFINE p == at[Run(t)]
           k == Kind(p)
           label == IF pc[Run(t)] = "revoke" THEN "revoking" ELSE "quiesce"
<1>1. /\ Run(t) \in Actors /\ label \in Labels \ {"spawn", "kill", "dying"}
      /\ pc[Run(t)] \in {"release", "revoke"}
      /\ pc' = [pc EXCEPT ![Run(t)] = label]
      /\ entry' = IF entry[p] = mine[t][k] THEN [entry EXCEPT ![p] = None] ELSE entry
  BY ActorFacts DEF Labels, Release, Ready, Goto
<1>2. UNCHANGED <<handling, owners, stopping, interrupted, at, hand, mine, place, live,
                  launches, signals, dead>>
  BY DEF Release, launch
<1>3. Shape(t) /\ p \in Places /\ k \in Kinds /\ place[t][k] = p /\ mine[t][k] # None
  BY <1>1, HeldIdentity DEF Shapes
<1> HIDE DEF p, k
<1>4. /\ entry' \in [Places -> Ids \cup {None}]
      /\ \A q \in Places : entry'[q] \in {None, entry[q]}
      /\ \A q \in Places \ {p} : entry'[q] = entry[q]
      /\ entry'[p] # mine[t][k]
      /\ entry[p] # mine[t][k] => entry'[p] = entry[p]
  <2>1. entry \in [Places -> Ids \cup {None}]
    BY DEF TypeOK
  <2> QED
    BY ONLY <1>1, <1>3, <2>1
<1>5. k = Kind(p) /\ p = at[Run(t)]
  BY DEF k, p
<1>6. ASSUME NEW u \in Threads \ {t}, NEW j \in Kinds
      PROVE  Undisturbed(u, j)
  <2>1. ASSUME NEW q \in Places, Kind(q) = j, entry[q] = mine[u][j]
        PROVE  entry'[q] = entry[q]
    BY <1>3, <1>4, <1>5, <2>1 DEF Distinct
  <2>2. \A b \in Actors : pc[b] = "kill" => pc'[b] = "kill"
    BY <1>1, Moved, ActorFacts
  <2> QED
    BY ONLY <1>2, <2>1, <2>2 DEF Undisturbed
<1>7. Shape(t)'
  <2>1. CASE pc[Run(t)] = "release"
    <3>1. pc'[Run(t)] = "quiesce"
      BY <1>1, <2>1, Moved
    <3> QED
      BY ONLY <1>2, <1>3, <2>1, <3>1 DEF Shape, Kind
  <2>2. CASE pc[Run(t)] = "revoke"
    <3>1. pc'[Run(t)] = "revoking"
      BY <1>1, <2>2, Moved
    <3> QED
      BY ONLY <1>2, <1>3, <2>2, <3>1 DEF Shape, InOrder, Kind
  <2> QED
    BY <1>1, <2>1, <2>2
<1>8. Reached(t)' /\ Doomed(t)'
  <2>1. CASE pc[Run(t)] = "release"
    BY <1>2, <1>3, <2>1, NothingLives DEF Shape
  <2>2. CASE pc[Run(t)] = "revoke"
    <3>1. pc'[Run(t)] = "revoking"
      BY <1>1, <2>2, Moved
    <3> QED
      BY <3>1 DEF Reached, Doomed, BeforeGroup, BeforeCgroup, WindowOpen
  <2> QED
    BY <1>1, <2>1, <2>2
<1>9. /\ Published' /\ Distinct' /\ Shapes' /\ AllReached' /\ AllDoomed' /\ Final'
      /\ pc' \in [Actors -> Labels] /\ pc'[Run(t)] = label
      /\ \A b \in Actors \ {Run(t)} : pc'[b] = pc[b]
      /\ \A u \in Threads \ {t} : pc'[Run(u)] = pc[Run(u)]
  BY <1>1, <1>2, <1>6, <1>7, <1>8, OthersStep, PlaceFacts
<1>10. Counts'
  BY <1>1, <1>2, CountedAlike DEF OwnerLabels, SweepLabels
<1>11. TypeOK'
  <2>1. \A b \in Actors : pc'[b] = "kill" <=> pc[b] = "kill"
    BY <1>1, <1>9
  <2>2. TypeOK
    OBVIOUS
  <2> QED
    BY ONLY <1>2, <1>4, <1>9, <2>1, <2>2 DEF TypeOK
<1>12. EntryOwned'
  BY <1>2, <1>4, EntriesKept
<1>13. HandOwned'
  <2>1. /\ \A b \in Actors : pc'[b] = "kill" => pc[b] = "kill"
        /\ \A u \in Threads : pc'[Run(u)] = "give up" => pc[Run(u)] = "give up"
    BY <1>1, <1>9
  <2> QED
    BY <1>2, <2>1, HandsKept
<1>14. Cleared'
  <2>1. ASSUME NEW u \in Threads, pc'[Run(u)] \in Cleaning
        PROVE  entry'[at[Run(u)]] # mine[u][Kind(at[Run(u)])]
    <3>1. CASE u = t
      BY ONLY <1>4, <1>5, <3>1
    <3>2. CASE u # t
      <4>1. pc[Run(u)] \in Cleaning
        BY <1>9, <2>1, <3>2
      <4>2. at[Run(u)] \in Places /\ mine[u][Kind(at[Run(u)])] # None
        BY <4>1, HeldIdentity DEF Shapes
      <4>3. entry[at[Run(u)]] # mine[u][Kind(at[Run(u)])]
        BY <4>1 DEF Cleared, Cleaning
      <4> QED
        BY ONLY <1>4, <4>2, <4>3
    <3> QED
      BY <3>1, <3>2
  <2>2. at' = at /\ mine' = mine
    BY <1>2
  <2> QED
    BY ONLY <2>1, <2>2 DEF Cleared, Cleaning, Kind
<1> QED
  BY <1>9, <1>10, <1>11, <1>12, <1>13, <1>14

\* A free slot is taken.
LEMMA ClaimFree ==
  ASSUME IInv, NEW t \in Threads, Claim(t), entry[at[Run(t)]] = None
  PROVE  IInv'
<1> USE DEF IInv
<1> DEFINE p == at[Run(t)]
           k == Kind(p)
<1>1. /\ Run(t) \in Actors /\ "claimed" \in Labels \ {"spawn", "kill", "dying"}
      /\ pc[Run(t)] = "claim" /\ pc' = [pc EXCEPT ![Run(t)] = "claimed"]
      /\ entry' = [entry EXCEPT ![p] = mine[t][k]]
      /\ place' = [place EXCEPT ![t][k] = p]
  BY ActorFacts DEF Labels, Claim, Ready, Goto
<1>2. UNCHANGED <<handling, owners, stopping, interrupted, at, hand, mine, live,
                  launches, signals, dead>>
  BY DEF Claim
<1>3. /\ Shape(t) /\ p \in Places /\ k \in Kinds /\ place[t][k] = None /\ InOrder(t, k)
      /\ mine[t]["group"] # None /\ (Sealed => mine[t]["cgroup"] # None)
  BY <1>1, PlaceFacts DEF Shapes, Shape
<1>4. mine[t][k] # None /\ mine[t][k] \in Ids \cup {None} /\ p # None
  <2>1. mine[t][k] # None /\ p # None
    BY <1>3, PlaceFacts
  <2>2. mine \in [Threads -> [Kinds -> Ids \cup {None}]]
    BY DEF TypeOK
  <2> QED
    BY ONLY <1>3, <2>1, <2>2, t \in Threads
<1>5. k = Kind(p) /\ p = at[Run(t)] /\ entry[p] = None
  BY DEF k, p
<1> HIDE DEF p, k
<1>6. /\ entry' \in [Places -> Ids \cup {None}]
      /\ \A q \in Places \ {p} : entry'[q] = entry[q]
      /\ entry'[p] = mine[t][k]
  <2>1. entry \in [Places -> Ids \cup {None}]
    BY DEF TypeOK
  <2> QED
    BY ONLY <1>1, <1>3, <1>4, <2>1
<1>7. /\ place' \in [Threads -> [Kinds -> Places \cup {None}]]
      /\ \A u \in Threads \ {t} : place'[u] = place[u]
      /\ \A j \in Kinds \ {k} : place'[t][j] = place[t][j]
      /\ place'[t][k] = p
  <2>1. place \in [Threads -> [Kinds -> Places \cup {None}]]
    BY DEF TypeOK
  <2> QED
    BY ONLY <1>1, <1>3, <2>1, t \in Threads
<1>8. /\ pc' \in [Actors -> Labels] /\ pc'[Run(t)] = "claimed"
      /\ \A b \in Actors \ {Run(t)} : pc'[b] = pc[b]
  BY <1>1, Moved
<1>9. ASSUME NEW u \in Threads, NEW j \in Kinds, mine[u][j] # None
      PROVE  Undisturbed(u, j)
  <2>1. ASSUME NEW q \in Places, Kind(q) = j, entry[q] = mine[u][j]
        PROVE  entry'[q] = entry[q]
    BY ONLY <1>5, <1>6, <1>9, <2>1
  <2>2. \A b \in Actors : pc[b] = "kill" => pc'[b] = "kill"
    BY <1>1, <1>8
  <2> QED
    BY ONLY <1>2, <2>1, <2>2 DEF Undisturbed
<1>10. Shape(t)'
  <2>1. \A j \in Kinds : place'[t][j] # None =>
          place'[t][j] \in Places /\ Kind(place'[t][j]) = j /\ mine'[t][j] # None
    <3>1. \A j \in Kinds : place[t][j] # None =>
            place[t][j] \in Places /\ Kind(place[t][j]) = j /\ mine[t][j] # None
      BY <1>3 DEF Shape
    <3> QED
      BY ONLY <1>2, <1>3, <1>4, <1>5, <1>7, <3>1
  <2>2. /\ k = "cgroup" => place'[t]["group"] # None
        /\ k = "group" /\ Sealed => place'[t]["cgroup"] = None
    BY <1>3, <1>7, PlaceFacts DEF InOrder
  <2>3. live'[t] = live[t] /\ mine'[t] = mine[t] /\ at'[Run(t)] = p
    BY <1>2, <1>5
  <2>4. "strays" \in live[t] => Sealed
    BY <1>3 DEF Shape
  <2> QED
    BY ONLY <1>3, <1>5, <1>7, <1>8, <2>1, <2>2, <2>3, <2>4 DEF Shape, InOrder, Kind
<1>11. /\ k = "group" => Reachable(t, "group")'
       /\ k = "cgroup" => Reachable(t, "cgroup")'
  <2>1. Kind(p) = k /\ entry'[p] = mine'[t][k] /\ p \in Places
    BY <1>2, <1>3, <1>5, <1>6
  <2> QED
    BY ONLY <2>1 DEF Reachable, Kind
<1>12. Reached(t)'
  <2>1. Reached(t) /\ live' = live
    BY <1>2 DEF AllReached
  <2>2. CASE k = "group"
    <3>1. BeforeCgroup(t)'
      BY <1>2, <1>5, <1>8, <2>2 DEF BeforeCgroup, Kind
    <3> QED
      BY <1>11, <2>2, <3>1 DEF Reached
  <2>3. CASE k = "cgroup"
    <3>1. ~BeforeGroup(t)
      BY <1>1, <1>5, <2>3 DEF BeforeGroup
    <3>2. Undisturbed(t, "group")
      BY <1>3, <1>9, PlaceFacts
    <3>3. Reachable(t, "group") => Reachable(t, "group")'
      BY <3>2, ReachableKept
    <3> QED
      BY <1>11, <2>1, <2>3, <3>1, <3>3 DEF Reached
  <2> QED
    BY <1>3, <2>2, <2>3, PlaceFacts
<1>13. Doomed(t)'
  BY <1>8 DEF Doomed, WindowOpen
<1>14. \A u \in Threads \ {t} : live[u] # {} =>
         Undisturbed(u, "group") /\ (Sealed => Undisturbed(u, "cgroup"))
  <2> SUFFICES ASSUME NEW u \in Threads \ {t}, live[u] # {}
               PROVE  Undisturbed(u, "group") /\ (Sealed => Undisturbed(u, "cgroup"))
    OBVIOUS
  <2>1. mine[u]["group"] # None /\ (Sealed => mine[u]["cgroup"] # None)
    BY LivingHold DEF Shapes
  <2> QED
    BY <1>9, <2>1, PlaceFacts
<1>15. /\ Published' /\ Distinct' /\ Shapes' /\ AllReached' /\ AllDoomed' /\ Final'
       /\ \A u \in Threads \ {t} : pc'[Run(u)] = pc[Run(u)]
  BY <1>1, <1>2, <1>7, <1>10, <1>12, <1>13, <1>14, OthersStep
<1>16. Counts'
  BY <1>1, <1>2, CountedAlike DEF OwnerLabels, SweepLabels
<1>17. TypeOK'
  <2>1. \A b \in Actors : pc'[b] = "kill" <=> pc[b] = "kill"
    BY <1>1, <1>8
  <2>2. TypeOK
    OBVIOUS
  <2> QED
    BY ONLY <1>2, <1>6, <1>7, <1>8, <2>1, <2>2 DEF TypeOK
<1>18. EntryOwned'
  <2>1. ASSUME NEW q \in Places, entry'[q] # None
        PROVE  \E u \in Threads : mine[u][Kind(q)] = entry'[q] /\ place'[u][Kind(q)] = q
    <3>1. CASE q = p
      BY <1>5, <1>6, <1>7, <3>1
    <3>2. CASE q # p
      <4>1. entry'[q] = entry[q]
        BY <1>6, <3>2
      <4>2. PICK u \in Threads : mine[u][Kind(q)] = entry[q] /\ place[u][Kind(q)] = q
        BY <2>1, <4>1 DEF EntryOwned
      <4>3. ~(u = t /\ Kind(q) = k)
        BY <1>3, <4>2, PlaceFacts
      <4>4. place'[u][Kind(q)] = place[u][Kind(q)]
        BY <1>7, <4>3, PlaceFacts
      <4> QED
        BY <4>1, <4>2, <4>4
    <3> QED
      BY <3>1, <3>2
  <2>2. mine' = mine
    BY <1>2
  <2> QED
    BY ONLY <2>1, <2>2 DEF EntryOwned, Kind
<1>19. HandOwned'
  <2>1. /\ \A b \in Actors : pc'[b] = "kill" => pc[b] = "kill"
        /\ \A u \in Threads : pc'[Run(u)] = "give up" => pc[Run(u)] = "give up"
    BY <1>8, <1>15
  <2>2. \A u \in Threads : \A j \in Kinds : place[u][j] # None => place'[u][j] # None
    BY <1>3, <1>7
  <2> QED
    BY <1>2, <2>1, <2>2, HandsKept
<1>20. Cleared'
  <2>1. ASSUME NEW u \in Threads, pc'[Run(u)] \in Cleaning
        PROVE  entry'[at[Run(u)]] # mine[u][Kind(at[Run(u)])]
    <3>1. u # t /\ pc[Run(u)] \in Cleaning
      BY <1>8, <1>15, <2>1 DEF Cleaning
    <3>2. at[Run(u)] \in Places /\ mine[u][Kind(at[Run(u)])] # None /\ Kind(at[Run(u)]) \in Kinds
      BY <3>1, HeldIdentity DEF Shapes
    <3>3. entry[at[Run(u)]] # mine[u][Kind(at[Run(u)])]
      BY <3>1 DEF Cleared, Cleaning
    <3>4. CASE at[Run(u)] = p
      BY <1>5, <1>6, <3>1, <3>2, <3>4 DEF Distinct
    <3>5. CASE at[Run(u)] # p
      BY <1>6, <3>2, <3>3, <3>5
    <3> QED
      BY <3>4, <3>5
  <2>2. at' = at /\ mine' = mine
    BY <1>2
  <2> QED
    BY ONLY <2>1, <2>2 DEF Cleared, Cleaning, Kind
<1> QED
  BY <1>15, <1>16, <1>17, <1>18, <1>19, <1>20

\* A slot is taken: the search goes on, or the launch is refused.
LEMMA ClaimTaken ==
  ASSUME IInv, NEW t \in Threads, Claim(t), entry[at[Run(t)]] # None
  PROVE  IInv'
<1> USE DEF IInv
<1> DEFINE p == at[Run(t)]
           k == Kind(p)
           full == p \in {SLOTS, Last}
           label == IF ~full THEN "claim" ELSE IF k = "group" THEN "abandon" ELSE "revoke"
           next == IF ~full THEN p + 1 ELSE IF k = "group" THEN p ELSE place[t]["group"]
<1>1. /\ Run(t) \in Actors /\ label \in Labels \ {"spawn", "kill", "dying"}
      /\ pc[Run(t)] = "claim"
  BY ActorFacts DEF Labels, Claim, Ready
<1>2. pc' = [pc EXCEPT ![Run(t)] = label]
  <2>1. pc \in [Actors -> Labels]
    BY DEF TypeOK
  <2>2. CASE ~full
    <3>1. pc' = pc
      BY <2>2 DEF Claim
    <3> QED
      BY ONLY <1>1, <2>1, <2>2, <3>1
  <2>3. CASE full
    BY <2>3 DEF Claim, Goto
  <2> QED
    BY <2>2, <2>3
<1>3. UNCHANGED <<entry, place, handling, owners, stopping, interrupted, hand, mine, live,
                  launches, signals, dead>>
  BY DEF Claim
<1>4. /\ Shape(t) /\ p \in Places /\ k \in Kinds /\ place[t][k] = None /\ InOrder(t, k)
      /\ mine[t]["group"] # None /\ (Sealed => mine[t]["cgroup"] # None)
  BY <1>1, PlaceFacts DEF Shapes, Shape
<1>5. next \in Places /\ Kind(next) = (IF full THEN "group" ELSE k)
  <2>1. CASE ~full
    BY <1>4, <2>1, PlaceFacts
  <2>2. CASE full /\ k = "group"
    BY <1>4, <2>2
  <2>3. CASE full /\ k # "group"
    <3>1. k = "cgroup" /\ place[t]["group"] # None /\ "group" \in Kinds
      BY <1>4, <2>3, PlaceFacts DEF InOrder
    <3>2. place[t]["group"] \in Places /\ Kind(place[t]["group"]) = "group"
      BY ONLY <1>4, <3>1 DEF Shape
    <3> QED
      BY <2>3, <3>1, <3>2
  <2> QED
    BY <2>1, <2>2, <2>3
<1>6. /\ at' \in [Actors -> 1..Last + 1]
      /\ at'[Run(t)] = next /\ \A b \in Actors \ {Run(t)} : at'[b] = at[b]
  <2>1. at \in [Actors -> 1..Last + 1] /\ next \in 1..Last + 1
    BY <1>5, PlaceFacts DEF TypeOK, Places
  <2>2. at' = [at EXCEPT ![Run(t)] = next]
    <3>1. CASE ~full
      BY <3>1 DEF Claim
    <3>2. CASE full /\ k = "group"
      <4>1. at' = at
        BY <3>2 DEF Claim
      <4> QED
        BY ONLY <1>1, <2>1, <3>2, <4>1
    <3>3. CASE full /\ k # "group"
      BY <3>3 DEF Claim
    <3> QED
      BY <3>1, <3>2, <3>3
  <2> QED
    BY ONLY <1>1, <2>1, <2>2
<1>7. k = Kind(p) /\ p = at[Run(t)] /\ (full => p \in {SLOTS, Last})
      /\ label = (IF ~full THEN "claim" ELSE IF k = "group" THEN "abandon" ELSE "revoke")
  OBVIOUS
<1> HIDE DEF p, k, full, next, label
<1>8. Own(t, label)
  BY <1>1, <1>2, <1>3, <1>6 DEF Own
<1>9. /\ pc'[Run(t)] = label /\ pc' \in [Actors -> Labels]
      /\ \A b \in Actors \ {Run(t)} : pc'[b] = pc[b]
  BY <1>8, OwnFacts
<1>10. Counts'
  <2>1. label \in OwnerLabels /\ label \notin SweepLabels
    BY <1>7 DEF OwnerLabels, SweepLabels
  <2> QED
    BY <1>1, <1>2, <1>3, <2>1, CountedAlike DEF OwnerLabels, SweepLabels
<1>11. TypeOK'
  <2>1. \A b \in Actors : pc'[b] = "kill" <=> pc[b] = "kill"
    BY <1>1, <1>9
  <2>2. TypeOK
    OBVIOUS
  <2> QED
    BY ONLY <1>3, <1>6, <1>9, <2>1, <2>2 DEF TypeOK
<1>12. Published'
  BY <1>3, <1>8, PublishedKept
<1>13. Distinct'
  BY <1>3 DEF Distinct
<1>14. Shape(t)'
  <2>1. /\ \A j \in Kinds : place[t][j] # None =>
             place[t][j] \in Places /\ Kind(place[t][j]) = j /\ mine[t][j] # None
        /\ "strays" \in live[t] => Sealed
    BY <1>4 DEF Shape
  <2>2. CASE ~full
    <3>1. pc'[Run(t)] = "claim" /\ at'[Run(t)] \in Places /\ Kind(at'[Run(t)]) = k
      BY <1>5, <1>6, <1>7, <1>9, <2>2
    <3> QED
      BY ONLY <1>3, <1>4, <2>1, <3>1 DEF Shape, InOrder, Kind
  <2>3. CASE full /\ k = "group"
    <3>1. pc'[Run(t)] = "abandon"
      BY <1>7, <1>9, <2>3
    <3>2. Unplaced(t)
      BY <1>4, <2>3, PlaceFacts DEF InOrder, Unplaced
    <3> QED
      BY ONLY <1>3, <1>4, <2>1, <3>1, <3>2 DEF Shape, Unplaced
  <2>4. CASE full /\ k # "group"
    <3>1. pc'[Run(t)] = "revoke"
      BY <1>7, <1>9, <2>4
    <3>2. at'[Run(t)] \in Places /\ Kind(at'[Run(t)]) = "group" /\ place[t]["group"] = at'[Run(t)]
      BY <1>5, <1>6, <2>4 DEF next
    <3>3. k = "cgroup"
      BY <1>4, <2>4, PlaceFacts
    <3> QED
      BY ONLY <1>3, <1>4, <2>1, <3>1, <3>2, <3>3 DEF Shape, InOrder, Kind
  <2> QED
    BY <2>2, <2>3, <2>4
<1>15. Reached(t)'
  <2>1. Reached(t) /\ live' = live
    BY <1>3 DEF AllReached
  <2>2. CASE ~full
    <3>1. pc'[Run(t)] = "claim" /\ Kind(at'[Run(t)]) = k
      BY <1>5, <1>6, <1>7, <1>9, <2>2
    <3>2. (BeforeGroup(t) => BeforeGroup(t)') /\ (BeforeCgroup(t) => BeforeCgroup(t)')
      BY ONLY <1>1, <1>7, <3>1 DEF BeforeGroup, BeforeCgroup, Kind
    <3>3. Undisturbed(t, "group") /\ Undisturbed(t, "cgroup")
      BY <1>1, <1>3, <1>6, <1>9 DEF Undisturbed
    <3> QED
      BY <2>1, <3>2, <3>3, ReachedKept
  <2>3. CASE full /\ k = "group"
    <3>1. pc'[Run(t)] = "abandon"
      BY <1>7, <1>9, <2>3
    <3> QED
      BY <3>1 DEF Reached, BeforeGroup, BeforeCgroup
  <2>4. CASE full /\ k # "group"
    <3>1. pc'[Run(t)] = "revoke" /\ ~BeforeGroup(t)
      BY <1>1, <1>7, <1>9, <2>4 DEF BeforeGroup
    <3>2. Undisturbed(t, "group")
      BY <1>1, <1>3, <1>6, <1>9 DEF Undisturbed
    <3>3. Reachable(t, "group") => Reachable(t, "group")'
      BY <3>2, ReachableKept
    <3> QED
      BY <2>1, <3>1, <3>3 DEF Reached, BeforeCgroup
  <2> QED
    BY <2>2, <2>3, <2>4
<1>16. Doomed(t)'
  BY <1>7, <1>9 DEF Doomed, WindowOpen
<1>17. Shapes' /\ AllReached' /\ AllDoomed' /\ Final'
  BY <1>8, <1>14, <1>15, <1>16, OwnStep
<1>18. EntryOwned' /\ HandOwned' /\ Cleared'
  <2>1. label \notin Cleaning
    BY <1>7 DEF Cleaning
  <2> QED
    BY <1>3, <1>8, <2>1, OwnKept
<1> QED
  BY <1>10, <1>11, <1>12, <1>13, <1>17, <1>18

LEMMA ClaimStep ==
  ASSUME IInv, NEW t \in Threads, Claim(t)
  PROVE  IInv'
BY ClaimFree, ClaimTaken

\* What a kill leaves of each launch.
LEMMA KilledFacts ==
  ASSUME TypeOK, NEW k \in Kinds, NEW i, Killed(k, i)
  PROVE  /\ live' \in [Threads -> SUBSET {"group", "strays"}]
         /\ \A u \in Threads :
              /\ live'[u] \subseteq live[u]
              /\ mine[u][k] # i => live'[u] = live[u]
              /\ mine[u][k] = i => "group" \notin live'[u]
              /\ mine[u][k] = i /\ k = "cgroup" => live'[u] = {}
<1>1. live \in [Threads -> SUBSET {"group", "strays"}]
  BY DEF TypeOK
<1>2. \A u \in Threads : live'[u] = Survivors(u, k, i)
  BY DEF Killed
<1>3. ASSUME NEW u \in Threads
      PROVE  /\ Survivors(u, k, i) \subseteq live[u]
             /\ mine[u][k] # i => Survivors(u, k, i) = live[u]
             /\ mine[u][k] = i => "group" \notin Survivors(u, k, i)
             /\ mine[u][k] = i /\ k = "cgroup" => Survivors(u, k, i) = {}
  BY DEF Survivors
<1>4. live' = [u \in Threads |-> Survivors(u, k, i)]
  BY DEF Killed
<1> QED
  BY ONLY <1>1, <1>2, <1>3, <1>4

\* A launch looks again once it is registered, and kills its own child.
LEMMA ConfirmStep ==
  ASSUME IInv, NEW t \in Threads, Confirm(t)
  PROVE  IInv'
<1> USE DEF IInv
<1> DEFINE p == at[Run(t)]
           k == Kind(p)
           more == Sealed /\ k = "group"
           label == IF more THEN "claim" ELSE "close"
<1>1. /\ Run(t) \in Actors /\ label \in Labels \ {"spawn", "kill", "dying"}
      /\ pc[Run(t)] = "claimed" /\ pc' = [pc EXCEPT ![Run(t)] = label]
  BY ActorFacts DEF Labels, Confirm, Registered, Ready, Goto
<1>2. UNCHANGED <<entry, place, handling, owners, stopping, interrupted, hand, mine,
                  launches, signals, dead>>
  BY DEF Confirm, registry
<1>3. /\ Shape(t) /\ p \in Places /\ k \in Kinds /\ place[t][k] = p /\ InOrder(t, k)
      /\ mine[t]["group"] # None /\ mine[t][k] # None
  <2>1. Shape(t)
    BY DEF Shapes
  <2> QED
    BY <1>1, <2>1, HeldIdentity DEF Shape
<1>4. /\ at' \in [Actors -> 1..Last + 1] /\ \A b \in Actors \ {Run(t)} : at'[b] = at[b]
      /\ more => at'[Run(t)] = SLOTS + 1
  <2>1. at \in [Actors -> 1..Last + 1] /\ (Sealed => SLOTS + 1 \in 1..Last + 1)
    BY PlaceFacts DEF TypeOK, Places
  <2>2. at' = IF more THEN [at EXCEPT ![Run(t)] = SLOTS + 1] ELSE at
    BY DEF Confirm, Registered
  <2> QED
    BY ONLY <1>1, <2>1, <2>2
<1>5. /\ live' \in [Threads -> SUBSET {"group", "strays"}]
      /\ live'[t] \subseteq live[t]
      /\ \A u \in Threads \ {t} : live'[u] = live[u]
  <2>1. CASE interrupted
    <3>1. Killed(k, mine[t][k])
      BY <2>1 DEF Confirm
    <3>2. \A u \in Threads \ {t} : mine[u][k] # mine[t][k]
      BY <1>3 DEF Distinct
    <3> QED
      BY <1>3, <3>1, <3>2, KilledFacts
  <2>2. CASE ~interrupted
    <3>1. live' = live
      BY <2>2 DEF Confirm
    <3> QED
      BY <3>1 DEF TypeOK
  <2> QED
    BY <2>1, <2>2
<1>6. k = Kind(p) /\ p = at[Run(t)] /\ (more <=> Sealed /\ k = "group")
      /\ label = (IF more THEN "claim" ELSE "close")
  OBVIOUS
<1> HIDE DEF p, k, more, label
<1>7. Own(t, label)
  BY <1>1, <1>2, <1>4, <1>5 DEF Own
<1>8. /\ pc'[Run(t)] = label /\ pc' \in [Actors -> Labels]
      /\ \A b \in Actors \ {Run(t)} : pc'[b] = pc[b]
  BY <1>7, OwnFacts
<1>9. Counts'
  <2>1. label \in OwnerLabels /\ label \notin SweepLabels
    BY <1>6 DEF OwnerLabels, SweepLabels
  <2> QED
    BY <1>1, <1>2, <2>1, CountedAlike DEF OwnerLabels, SweepLabels
<1>10. TypeOK'
  <2>1. \A b \in Actors : pc'[b] = "kill" <=> pc[b] = "kill"
    BY <1>1, <1>8
  <2>2. TypeOK
    OBVIOUS
  <2> QED
    BY ONLY <1>2, <1>4, <1>5, <1>8, <2>1, <2>2 DEF TypeOK
<1>11. Published'
  BY <1>2, <1>7, PublishedKept
<1>12. Distinct'
  BY <1>2 DEF Distinct
<1>13. Shape(t)'
  <2>1. /\ \A j \in Kinds : place[t][j] # None =>
             place[t][j] \in Places /\ Kind(place[t][j]) = j /\ mine[t][j] # None
        /\ "strays" \in live'[t] => Sealed
        /\ Sealed => mine[t]["cgroup"] # None
    BY <1>1, <1>3, <1>5 DEF Shape
  <2>2. CASE more
    <3>1. /\ pc'[Run(t)] = "claim" /\ at'[Run(t)] \in Places /\ Kind(at'[Run(t)]) = "cgroup"
          /\ place[t]["cgroup"] = None /\ place[t]["group"] # None
      BY <1>3, <1>4, <1>6, <1>8, <2>2, PlaceFacts DEF InOrder
    <3> QED
      BY ONLY <1>2, <1>3, <2>1, <3>1 DEF Shape, InOrder, Kind
  <2>3. CASE ~more
    <3>1. pc'[Run(t)] = "close"
      BY <1>6, <1>8, <2>3
    <3>2. Placed(t)
      <4>1. CASE k = "group"
        <5>1. Kinds = {"group"}
          BY <1>6, <2>3, <4>1 DEF Kinds
        <5> QED
          BY <1>3, <4>1, <5>1, PlaceFacts DEF Placed
      <4>2. CASE k # "group"
        BY <1>3, <4>2, PlaceFacts DEF Placed, InOrder
      <4> QED
        BY <4>1, <4>2
    <3> QED
      BY ONLY <1>2, <1>3, <2>1, <3>1, <3>2 DEF Shape, Placed
  <2> QED
    BY <2>2, <2>3
<1>14. Reached(t)'
  <2>1. Reached(t) /\ ~BeforeGroup(t)
    BY <1>1 DEF AllReached, BeforeGroup
  <2>2. Undisturbed(t, "group") /\ Undisturbed(t, "cgroup")
    BY <1>1, <1>2, <1>4, <1>8 DEF Undisturbed
  <2>3. /\ Reachable(t, "group") => Reachable(t, "group")'
        /\ Reachable(t, "cgroup") => Reachable(t, "cgroup")'
    BY <2>2, ReachableKept
  <2>4. Sealed => BeforeCgroup(t)' \/ ~BeforeCgroup(t)
    <3>1. CASE more
      BY <1>6, <1>8, <3>1 DEF BeforeCgroup
    <3>2. CASE ~more
      BY <1>1, <1>6, <3>2 DEF BeforeCgroup
    <3> QED
      BY <3>1, <3>2
  <2> QED
    BY <1>5, <2>1, <2>3, <2>4 DEF Reached
<1>15. Doomed(t)'
  BY <1>6, <1>8 DEF Doomed, WindowOpen
<1>16. Shapes' /\ AllReached' /\ AllDoomed' /\ Final'
  BY <1>7, <1>13, <1>14, <1>15, OwnStep
<1>17. EntryOwned' /\ HandOwned' /\ Cleared'
  <2>1. label \notin Cleaning
    BY <1>6 DEF Cleaning
  <2> QED
    BY <1>2, <1>7, <2>1, OwnKept
<1> QED
  BY <1>9, <1>10, <1>11, <1>12, <1>16, <1>17

-----------------------------------------------------------------------------
(* Steps of a sweep, and the end of one. *)

LEMMA ExtractNothing ==
  ASSUME IInv, NEW a \in Actors, Extract(a), entry[at[a]] = None
  PROVE  IInv'
<1> USE DEF IInv
<1>1. /\ pc[a] = "sweep" /\ at[a] <= Last /\ at[a] \in Places
      /\ at' = [at EXCEPT ![a] = at[a] + 1]
      /\ pc' = pc /\ hand' = hand /\ entry' = [entry EXCEPT ![at[a]] = None]
  BY PlaceFacts DEF Extract, Ready, Places, TypeOK
<1>2. UNCHANGED <<handling, owners, stopping, interrupted, mine, place, live,
                  launches, signals, dead>>
  BY DEF Extract, launch
<1>3. entry' = entry
  <2>1. entry \in [Places -> Ids \cup {None}]
    BY DEF TypeOK
  <2> QED
    BY <1>1, <2>1
<1>4. /\ at' \in [Actors -> 1..Last + 1] /\ at'[a] = at[a] + 1
      /\ \A b \in Actors \ {a} : at'[b] = at[b]
  BY <1>1, PlaceFacts DEF TypeOK, Places
<1>5. pc' = [pc EXCEPT ![a] = "sweep"]
  <2>1. pc \in [Actors -> Labels]
    BY DEF TypeOK
  <2> QED
    BY <1>1, <2>1
<1>6. Quiet(a, "sweep")
  BY <1>1, <1>2, <1>3, <1>4, <1>5 DEF Quiet, Labels, Cleaning
<1>7. Counts'
  BY <1>1, <1>2 DEF Counts, OwnerSet, SweepSet
<1>8. TypeOK'
  <2>1. TypeOK
    OBVIOUS
  <2> QED
    BY ONLY <1>1, <1>2, <1>3, <1>4, <2>1 DEF TypeOK
<1>9. Published'
  BY <1>1, <1>2 DEF Published
<1>10. ASSUME NEW u \in Threads, Run(u) = a
       PROVE  Shape(u)' /\ ~BeforeGroup(u) /\ ~BeforeCgroup(u) /\ ~WindowOpen(u)
  <2>1. pc[Run(u)] = "sweep" /\ pc'[Run(u)] = "sweep" /\ Shape(u)
    BY <1>1, <1>10 DEF Shapes
  <2>2. ~BeforeGroup(u) /\ ~BeforeCgroup(u) /\ ~WindowOpen(u)
    BY ONLY <2>1 DEF BeforeGroup, BeforeCgroup, WindowOpen
  <2>3. Shape(u)'
    BY ONLY <1>2, <2>1 DEF Shape, Unplaced, Placed
  <2> QED
    BY <2>2, <2>3
<1>11. \A p \in Places : entry[p] # None /\ Ahead(a, p) => Ahead(a, p)'
  <2> SUFFICES ASSUME NEW p \in Places, entry[p] # None, Ahead(a, p) PROVE Ahead(a, p)'
    OBVIOUS
  <2>1. at[a] <= p /\ at[a] # p /\ p \in Nat /\ at[a] \in Nat
    BY <1>1, PlaceFacts DEF Ahead, Places
  <2>2. pc'[a] = "sweep" /\ at'[a] <= p
    BY <1>1, <1>4, <2>1
  <2> QED
    BY <2>2 DEF Ahead
<1>12. AllDoomed'
  BY <1>2, <1>6, <1>10, <1>11, QuietDoom
<1>13. /\ Distinct' /\ Shapes' /\ EntryOwned' /\ HandOwned'
       /\ Cleared' /\ AllReached' /\ Final'
  BY <1>6, <1>10, QuietStep
<1> QED
  BY <1>7, <1>8, <1>9, <1>12, <1>13

\* A swap takes an identity, and from there on the sweep holds it.
LEMMA ExtractOne ==
  ASSUME IInv, NEW a \in Actors, Extract(a), entry[at[a]] # None
  PROVE  IInv'
<1> USE DEF IInv
<1> DEFINE p == at[a]
           i == entry[p]
<1>1. /\ pc[a] = "sweep" /\ p \in Places /\ i # None
      /\ pc' = [pc EXCEPT ![a] = "kill"]
      /\ hand' = [hand EXCEPT ![a] = i] /\ entry' = [entry EXCEPT ![p] = None]
  BY PlaceFacts DEF Extract, Ready, Goto, Places, TypeOK
<1>2. UNCHANGED <<handling, owners, stopping, interrupted, at, mine, place, live,
                  launches, signals, dead>>
  BY DEF Extract, launch
<1>3. p = at[a] /\ i = entry[p]
  OBVIOUS
<1> HIDE DEF p, i
<1>4. /\ entry' \in [Places -> Ids \cup {None}]
      /\ entry'[p] = None /\ \A q \in Places \ {p} : entry'[q] = entry[q]
      /\ hand' \in [Actors -> Ids \cup {None}]
      /\ hand'[a] = i /\ \A b \in Actors \ {a} : hand'[b] = hand[b]
  <2>1. entry \in [Places -> Ids \cup {None}] /\ hand \in [Actors -> Ids \cup {None}]
    BY DEF TypeOK
  <2> QED
    BY ONLY <1>1, <1>3, <2>1
<1>5. /\ pc' \in [Actors -> Labels] /\ pc'[a] = "kill"
      /\ \A b \in Actors \ {a} : pc'[b] = pc[b]
      /\ \A u \in Threads : Run(u) # a => pc'[Run(u)] = pc[Run(u)]
      /\ \A u \in Threads : Handler(u) # a => pc'[Handler(u)] = pc[Handler(u)]
  <2>1. "kill" \in Labels
    BY DEF Labels
  <2> QED
    BY <1>1, <2>1, Moved
<1>6. Counts'
  BY <1>1, <1>2, CountedAlike DEF OwnerLabels, SweepLabels
<1>7. TypeOK'
  <2>1. \A b \in Actors : pc'[b] = "kill" <=> hand'[b] # None
    BY <1>1, <1>4, <1>5 DEF TypeOK
  <2>2. TypeOK
    OBVIOUS
  <2> QED
    BY ONLY <1>2, <1>4, <1>5, <2>1, <2>2 DEF TypeOK
<1>8. Published' /\ Distinct'
  <2>1. \A u \in Threads : pc'[Handler(u)] = "stop" => pc[Handler(u)] = "stop"
    BY <1>5
  <2> QED
    BY <1>2, <2>1 DEF Published, Distinct
<1>9. Shapes'
  <2> SUFFICES ASSUME NEW u \in Threads PROVE Shape(u)'
    BY DEF Shapes
  <2>1. Shape(u)
    BY DEF Shapes
  <2>2. CASE Run(u) = a
    <3>1. pc[Run(u)] = "sweep" /\ pc'[Run(u)] = "kill"
      BY <1>1, <1>5, <2>2
    <3> QED
      BY ONLY <1>2, <2>1, <3>1 DEF Shape, Unplaced, Placed
  <2>3. CASE Run(u) # a
    BY <1>2, <1>5, <2>1, <2>3, ShapeKept
  <2> QED
    BY <2>2, <2>3
<1>10. EntryOwned'
  <2>1. \A q \in Places : entry'[q] \in {None, entry[q]}
    BY <1>4
  <2> QED
    BY <1>2, <2>1, EntriesKept
<1>11. HandOwned'
  <2>1. ASSUME NEW b \in Actors, pc'[b] = "kill"
        PROVE  /\ at[b] \in Places
               /\ \E u \in Threads :
                    /\ mine[u][Kind(at[b])] = hand'[b] /\ place[u][Kind(at[b])] # None
                    /\ ~(pc[Run(u)] = "give up" /\ Kind(at[Run(u)]) = Kind(at[b]))
    <3>1. CASE b # a
      <4>1. pc[b] = "kill" /\ hand'[b] = hand[b]
        BY <1>4, <1>5, <2>1, <3>1
      <4> QED
        BY <4>1 DEF HandOwned
    <3>2. CASE b = a
      <4>1. PICK u \in Threads : mine[u][Kind(p)] = entry[p] /\ place[u][Kind(p)] = p
        BY <1>1, <1>3 DEF EntryOwned
      <4>2. ASSUME pc[Run(u)] = "give up", Kind(at[Run(u)]) = Kind(p)
            PROVE  FALSE
        <5>1. place[u][Kind(p)] = at[Run(u)]
          BY <4>2, HeldIdentity DEF Shapes, Cleaning
        <5>2. entry[at[Run(u)]] # mine[u][Kind(at[Run(u)])]
          BY <4>2 DEF Cleared
        <5> QED
          BY <4>1, <4>2, <5>1, <5>2
      <4>3. place[u][Kind(p)] # None
        BY <1>1, <4>1, PlaceFacts
      <4> QED
        BY <1>1, <1>3, <1>4, <3>2, <4>1, <4>2, <4>3
    <3> QED
      BY <3>1, <3>2
  <2>2. \A u \in Threads : pc'[Run(u)] = "give up" => pc[Run(u)] = "give up"
    BY <1>5
  <2>3. at' = at /\ mine' = mine /\ place' = place
    BY <1>2
  <2> QED
    BY ONLY <2>1, <2>2, <2>3 DEF HandOwned, Kind
<1>12. Cleared'
  <2>1. /\ \A q \in Places : entry'[q] \in {None, entry[q]}
        /\ \A u \in Threads : pc'[Run(u)] \in Cleaning => pc[Run(u)] \in Cleaning
    BY <1>4, <1>5 DEF Cleaning
  <2> QED
    BY <1>2, <2>1, ClearedKept
<1>13. ASSUME NEW u \in Threads, NEW j,
              \/ \E b \in Actors : pc[b] = "kill" /\ Kind(at[b]) = j /\ hand[b] = mine[u][j]
              \/ Kind(p) = j /\ i = mine[u][j]
       PROVE  \E b \in Actors : pc'[b] = "kill" /\ Kind(at'[b]) = j /\ hand'[b] = mine'[u][j]
  <2>1. ASSUME NEW b \in Actors, pc[b] = "kill", Kind(at[b]) = j, hand[b] = mine[u][j]
        PROVE  pc'[b] = "kill" /\ Kind(at'[b]) = j /\ hand'[b] = mine'[u][j]
    BY <1>1, <1>2, <1>4, <1>5, <2>1
  <2>2. ASSUME Kind(p) = j, i = mine[u][j]
        PROVE  pc'[a] = "kill" /\ Kind(at'[a]) = j /\ hand'[a] = mine'[u][j]
    BY <1>2, <1>3, <1>4, <1>5, <2>2
  <2> QED
    BY <1>13, <2>1, <2>2
<1>14. ASSUME NEW u \in Threads, NEW j, Reachable(u, j)
       PROVE  Reachable(u, j)'
  <2>1. CASE \E b \in Actors : pc[b] = "kill" /\ Kind(at[b]) = j /\ hand[b] = mine[u][j]
    BY <1>13, <2>1 DEF Reachable, Kind
  <2>2. CASE \E q \in Places : Kind(q) = j /\ entry[q] = mine[u][j]
    <3>1. PICK q \in Places : Kind(q) = j /\ entry[q] = mine[u][j]
      BY <2>2
    <3>2. CASE q = p
      BY <1>3, <1>13, <3>1, <3>2 DEF Reachable, Kind
    <3>3. CASE q # p
      <4>1. entry'[q] = mine'[u][j]
        BY <1>2, <1>4, <3>1, <3>3
      <4> QED
        BY <3>1, <4>1 DEF Reachable, Kind
    <3> QED
      BY <3>2, <3>3
  <2> QED
    BY <1>14, <2>1, <2>2 DEF Reachable
<1>15. ASSUME NEW u \in Threads, NEW j, Pending(u, j)
       PROVE  Pending(u, j)'
  <2>1. CASE \E b \in Actors : pc[b] = "kill" /\ Kind(at[b]) = j /\ hand[b] = mine[u][j]
    BY <1>13, <2>1 DEF Pending, Kind
  <2>2. CASE \E b \in Actors, q \in Places : Kind(q) = j /\ entry[q] = mine[u][j] /\ Ahead(b, q)
    <3>1. PICK b \in Actors, q \in Places : Kind(q) = j /\ entry[q] = mine[u][j] /\ Ahead(b, q)
      BY <2>2
    <3>2. CASE q = p
      BY <1>3, <1>13, <3>1, <3>2 DEF Pending, Kind
    <3>3. CASE q # p
      <4>1. entry'[q] = mine'[u][j]
        BY <1>2, <1>4, <3>1, <3>3
      <4>2. Ahead(b, q)'
        <5>1. CASE b # a
          BY <1>2, <1>5, <3>1, <5>1 DEF Ahead
        <5>2. CASE b = a
          <6>1. p <= q /\ p \in Nat /\ q \in Nat
            BY <1>1, <1>3, <3>1, <5>2, PlaceFacts DEF Ahead, Places
          <6>2. at'[a] < q /\ pc'[a] = "kill"
            BY <1>2, <1>3, <1>5, <3>3, <6>1
          <6> QED
            BY <5>2, <6>2 DEF Ahead
        <5> QED
          BY <5>1, <5>2
      <4> QED
        BY <3>1, <4>1, <4>2 DEF Pending, Kind
    <3> QED
      BY <3>2, <3>3
  <2> QED
    BY <1>15, <2>1, <2>2 DEF Pending
<1>16. ASSUME NEW u \in Threads
       PROVE  /\ BeforeGroup(u) => BeforeGroup(u)'
              /\ BeforeCgroup(u) => BeforeCgroup(u)'
              /\ WindowOpen(u) => WindowOpen(u)'
  <2>1. pc[Run(u)] # "sweep" => pc'[Run(u)] = pc[Run(u)]
    BY <1>1, <1>5
  <2> QED
    BY <1>2, <2>1 DEF BeforeGroup, BeforeCgroup, WindowOpen, Kind
<1>17. AllReached'
  <2> SUFFICES ASSUME NEW u \in Threads PROVE Reached(u)'
    BY DEF AllReached
  <2>1. Reached(u) /\ live' = live
    BY <1>2 DEF AllReached
  <2> QED
    BY <1>14, <1>16, <2>1 DEF Reached
<1>18. AllDoomed'
  <2> SUFFICES ASSUME interrupted, NEW u \in Threads PROVE Doomed(u)'
    BY <1>2 DEF AllDoomed
  <2>1. Doomed(u) /\ live' = live
    BY <1>2 DEF AllDoomed
  <2> QED
    BY <1>15, <1>16, <2>1 DEF Doomed
<1>19. Final'
  <2>1. Fatal' => Fatal
    BY <1>2, <1>5 DEF Fatal
  <2>2. \A u \in Threads : pc'[Run(u)] = "spawn" => pc[Run(u)] = "spawn"
    BY <1>5
  <2> QED
    BY <1>2, <2>1, <2>2, FinalKept
<1> QED
  BY <1>6, <1>7, <1>8, <1>9, <1>10, <1>11, <1>12, <1>17, <1>18, <1>19

LEMMA ExtractStep ==
  ASSUME IInv, NEW a \in Actors, Extract(a)
  PROVE  IInv'
BY ExtractNothing, ExtractOne

\* The kill reaches the launch the identity was registered for.
LEMMA KillStep ==
  ASSUME IInv, NEW a \in Actors, Kill(a)
  PROVE  IInv'
<1> USE DEF IInv
<1> DEFINE p == at[a]
           k == Kind(p)
           i == hand[a]
<1>1. /\ pc[a] = "kill" /\ pc' = [pc EXCEPT ![a] = "sweep"]
      /\ at' = [at EXCEPT ![a] = at[a] + 1]
      /\ hand' = [hand EXCEPT ![a] = None] /\ Killed(k, i)
  BY DEF Kill, Ready, Goto
<1>2. UNCHANGED <<entry, handling, owners, stopping, interrupted, mine, place,
                  launches, signals, dead>>
  BY DEF Kill, registry
<1>3. p \in Places /\ k \in Kinds
  BY <1>1, PlaceFacts DEF HandOwned
<1>4. p = at[a] /\ k = Kind(p) /\ i = hand[a]
  OBVIOUS
<1> HIDE DEF p, k, i
<1>5. /\ live' \in [Threads -> SUBSET {"group", "strays"}]
      /\ \A u \in Threads :
           /\ live'[u] \subseteq live[u]
           /\ mine[u][k] = i => "group" \notin live'[u]
           /\ mine[u][k] = i /\ k = "cgroup" => live'[u] = {}
  BY <1>1, <1>3, KilledFacts
<1>6. /\ at' \in [Actors -> 1..Last + 1] /\ at'[a] = p + 1
      /\ \A b \in Actors \ {a} : at'[b] = at[b]
      /\ hand' \in [Actors -> Ids \cup {None}] /\ hand'[a] = None
      /\ \A b \in Actors \ {a} : hand'[b] = hand[b]
  <2>1. at \in [Actors -> 1..Last + 1] /\ hand \in [Actors -> Ids \cup {None}]
    BY DEF TypeOK
  <2>2. at[a] + 1 \in 1..Last + 1
    BY <1>3, <1>4, PlaceFacts DEF Places
  <2> QED
    BY ONLY <1>1, <1>4, <2>1, <2>2
<1>7. /\ pc' \in [Actors -> Labels] /\ pc'[a] = "sweep"
      /\ \A b \in Actors \ {a} : pc'[b] = pc[b]
      /\ \A u \in Threads : Run(u) # a => pc'[Run(u)] = pc[Run(u)]
      /\ \A u \in Threads : Handler(u) # a => pc'[Handler(u)] = pc[Handler(u)]
  <2>1. "sweep" \in Labels
    BY DEF Labels
  <2> QED
    BY <1>1, <2>1, Moved
<1>8. Counts'
  BY <1>1, <1>2, CountedAlike DEF OwnerLabels, SweepLabels
<1>9. TypeOK'
  <2>1. \A b \in Actors : pc'[b] = "kill" <=> hand'[b] # None
    BY <1>1, <1>6, <1>7 DEF TypeOK
  <2>2. TypeOK
    OBVIOUS
  <2> QED
    BY ONLY <1>2, <1>5, <1>6, <1>7, <2>1, <2>2 DEF TypeOK
<1>10. Published' /\ Distinct'
  <2>1. \A u \in Threads : pc'[Handler(u)] = "stop" => pc[Handler(u)] = "stop"
    BY <1>7
  <2> QED
    BY <1>2, <2>1 DEF Published, Distinct
<1>11. Shapes'
  <2> SUFFICES ASSUME NEW u \in Threads PROVE Shape(u)'
    BY DEF Shapes
  <2>1. Shape(u) /\ live'[u] \subseteq live[u]
    BY <1>5 DEF Shapes
  <2>2. CASE Run(u) = a
    <3>1. pc[Run(u)] = "kill" /\ pc'[Run(u)] = "sweep"
      BY <1>1, <1>7, <2>2
    <3> QED
      BY ONLY <1>2, <2>1, <3>1 DEF Shape, Unplaced, Placed
  <2>3. CASE Run(u) # a
    <3>1. pc'[Run(u)] = pc[Run(u)] /\ at'[Run(u)] = at[Run(u)]
      BY <1>6, <1>7, <2>3, ActorFacts
    <3> QED
      BY <1>2, <2>1, <3>1, ShapeKept
  <2> QED
    BY <2>2, <2>3
<1>12. EntryOwned'
  BY <1>2, EntriesKept
<1>13. HandOwned'
  <2>1. \A b \in Actors : pc'[b] = "kill" => pc[b] = "kill" /\ hand'[b] = hand[b] /\ at'[b] = at[b]
    BY <1>6, <1>7
  <2>2. \A u \in Threads : pc'[Run(u)] = "give up" =>
          pc[Run(u)] = "give up" /\ at'[Run(u)] = at[Run(u)]
    BY <1>6, <1>7, ActorFacts
  <2> QED
    BY <1>2, <2>1, <2>2, HandsKept
<1>14. Cleared'
  <2>1. \A u \in Threads : pc'[Run(u)] \in Cleaning =>
          pc[Run(u)] \in Cleaning /\ at'[Run(u)] = at[Run(u)]
    BY <1>6, <1>7, ActorFacts DEF Cleaning
  <2> QED
    BY <1>2, <2>1, ClearedKept
<1>15. ASSUME NEW u \in Threads, NEW j, ~(j = k /\ mine[u][j] = i)
       PROVE  Undisturbed(u, j)
  <2>1. ASSUME NEW b \in Actors, pc[b] = "kill", Kind(at[b]) = j, hand[b] = mine[u][j]
        PROVE  pc'[b] = "kill" /\ at'[b] = at[b] /\ hand'[b] = hand[b]
    <3>1. b # a
      BY <1>4, <1>15, <2>1
    <3> QED
      BY <1>6, <1>7, <2>1, <3>1
  <2> QED
    BY <1>2, <2>1 DEF Undisturbed
<1>16. \A b \in Actors : \A q \in Places : Ahead(b, q) => Ahead(b, q)'
  <2> SUFFICES ASSUME NEW b \in Actors, NEW q \in Places, Ahead(b, q) PROVE Ahead(b, q)'
    OBVIOUS
  <2>1. CASE b # a
    BY <1>6, <1>7, <2>1 DEF Ahead
  <2>2. CASE b = a
    <3>1. p < q /\ p \in Nat /\ q \in Nat
      BY <1>1, <1>3, <1>4, <2>2, PlaceFacts DEF Ahead, Places
    <3>2. pc'[a] = "sweep" /\ at'[a] <= q
      BY <1>6, <1>7, <3>1
    <3> QED
      BY <2>2, <3>2 DEF Ahead
  <2> QED
    BY <2>1, <2>2
<1>17. ASSUME NEW u \in Threads
       PROVE  /\ BeforeGroup(u) => BeforeGroup(u)'
              /\ BeforeCgroup(u) => BeforeCgroup(u)'
              /\ WindowOpen(u) => WindowOpen(u)'
  <2>1. pc[Run(u)] # "kill" => pc'[Run(u)] = pc[Run(u)] /\ at'[Run(u)] = at[Run(u)]
    BY <1>1, <1>6, <1>7, ActorFacts
  <2> QED
    BY <2>1 DEF BeforeGroup, BeforeCgroup, WindowOpen, Kind
<1>18. ASSUME NEW u \in Threads
       PROVE  /\ "group" \in live'[u] => "group" \in live[u] /\ Undisturbed(u, "group")
              /\ live'[u] # {} => live[u] # {} /\ Undisturbed(u, "cgroup")
  BY <1>5, <1>15
<1>19. AllReached'
  <2> SUFFICES ASSUME NEW u \in Threads PROVE Reached(u)'
    BY DEF AllReached
  <2>1. Reached(u)
    BY DEF AllReached
  <2>2. /\ Undisturbed(u, "group") /\ Reachable(u, "group") => Reachable(u, "group")'
        /\ Undisturbed(u, "cgroup") /\ Reachable(u, "cgroup") => Reachable(u, "cgroup")'
    BY ReachableKept
  <2> QED
    BY <1>17, <1>18, <2>1, <2>2 DEF Reached
<1>20. AllDoomed'
  <2> SUFFICES ASSUME interrupted, NEW u \in Threads PROVE Doomed(u)'
    BY <1>2 DEF AllDoomed
  <2>1. Doomed(u)
    BY DEF AllDoomed
  <2>2. /\ Undisturbed(u, "group") /\ Pending(u, "group") => Pending(u, "group")'
        /\ Undisturbed(u, "cgroup") /\ Pending(u, "cgroup") => Pending(u, "cgroup")'
    BY <1>16, PendingKept
  <2> QED
    BY <1>17, <1>18, <2>1, <2>2 DEF Doomed
<1>21. Final'
  <2>1. Fatal' => Fatal
    BY <1>2, <1>7 DEF Fatal
  <2>2. \A u \in Threads : pc'[Run(u)] = "spawn" => pc[Run(u)] = "spawn"
    BY <1>7
  <2> QED
    BY <1>2, <1>5, <2>1, <2>2, FinalKept
<1> QED
  BY <1>8, <1>9, <1>10, <1>11, <1>12, <1>13, <1>14, <1>19, <1>20, <1>21

\* The last owner leaves nothing behind: nobody else has a window open or
\* anything left to kill, and so nothing lives.
LEMMA NothingLeft ==
  ASSUME IInv, interrupted, owners = 1, NEW a \in Actors, pc[a] = "finish", NEW t \in Threads
  PROVE  live[t] = {} /\ pc[Run(t)] # "spawn"
<1> USE DEF IInv
<1>1. \A b \in Actors : pc[b] \in OwnerLabels => b = a
  BY LastOwner DEF OwnerLabels
<1>2. pc[Run(t)] \in OwnerLabels => pc[Run(t)] = "finish"
  BY <1>1, ActorFacts
<1>3. ~WindowOpen(t) /\ pc[Run(t)] # "spawn"
  BY <1>2 DEF WindowOpen, OwnerLabels
<1>4. \A b \in Actors : pc[b] \notin {"stop", "enter", "sweep", "kill"}
  BY <1>1 DEF OwnerLabels
<1>5. \A j : ~Pending(t, j)
  BY <1>4 DEF Pending, Ahead
<1>6. "group" \notin live[t] /\ (Sealed => live[t] = {})
  BY <1>3, <1>5 DEF AllDoomed, Doomed
<1>7. "strays" \in live[t] => Sealed
  BY DEF Shapes, Shape
<1>8. live[t] \subseteq {"group", "strays"}
  BY DEF TypeOK
<1> QED
  BY <1>3, <1>6, <1>7, <1>8

LEMMA FinishFacts ==
  ASSUME IInv, NEW a \in Actors, Finish(a), NEW label,
         label \in {"dying", "running", "idle"}, pc' = [pc EXCEPT ![a] = label]
  PROVE  /\ Counts' /\ owners' \in Nat /\ Published'
         /\ pc' \in [Actors -> Labels] /\ pc'[a] = label
         /\ \A b \in Actors \ {a} : pc'[b] = pc[b]
         /\ \A b \in Actors : pc'[b] = "kill" <=> pc[b] = "kill"
<1> USE DEF IInv
<1>1. /\ pc[a] = "finish" /\ owners' = owners - 1
      /\ UNCHANGED <<handling, stopping, interrupted>>
  BY DEF Finish, Ready
<1>2. label \in Labels
  BY DEF Labels
<1>3. /\ pc' \in [Actors -> Labels] /\ pc'[a] = label
      /\ \A b \in Actors \ {a} : pc'[b] = pc[b]
  BY <1>2, Moved
<1>4. Counts' /\ owners' \in Nat
  <2>1. owners' = owners + 0 - 1 /\ handling' = handling + 0 - 0
    BY <1>1 DEF TypeOK
  <2>2. /\ label \notin OwnerLabels /\ pc[a] \in OwnerLabels
        /\ label \notin SweepLabels /\ pc[a] \notin SweepLabels
    BY <1>1 DEF OwnerLabels, SweepLabels
  <2> QED
    BY <2>1, <2>2, Counting
<1>5. Published'
  <2>1. \A u \in Threads : pc'[Handler(u)] = "stop" => pc[Handler(u)] = "stop"
    BY <1>3, ActorFacts
  <2> QED
    BY <1>1, <2>1 DEF Published
<1>6. \A b \in Actors : pc'[b] = "kill" <=> pc[b] = "kill"
  BY <1>1, <1>3
<1> QED
  BY <1>3, <1>4, <1>5, <1>6

LEMMA FinishDying ==
  ASSUME IInv, NEW a \in Actors, Finish(a), stopping, owners = 1
  PROVE  IInv'
<1> USE DEF IInv
<1>1. /\ pc[a] = "finish" /\ pc' = [pc EXCEPT ![a] = "dying"] /\ interrupted
  BY DEF Finish, Ready, Goto, Published
<1>2. UNCHANGED <<entry, handling, stopping, interrupted, at, hand, mine, place, live,
                  launches, signals, dead>>
  BY DEF Finish
<1>3. /\ Counts' /\ owners' \in Nat /\ Published'
      /\ pc' \in [Actors -> Labels] /\ pc'[a] = "dying"
      /\ \A b \in Actors \ {a} : pc'[b] = pc[b]
      /\ \A b \in Actors : pc'[b] = "kill" <=> pc[b] = "kill"
  BY <1>1, FinishFacts
<1>4. \A u \in Threads : live[u] = {} /\ pc[Run(u)] # "spawn"
  BY <1>1, NothingLeft
<1>5. \A u \in Threads : Run(u) # a => pc'[Run(u)] = pc[Run(u)]
  BY <1>3, ActorFacts
<1>6. TypeOK'
  <2>1. TypeOK
    OBVIOUS
  <2> QED
    BY ONLY <1>2, <1>3, <2>1 DEF TypeOK
<1>7. Distinct' /\ EntryOwned'
  BY <1>2, EntriesKept DEF Distinct
<1>8. Shapes'
  <2> SUFFICES ASSUME NEW u \in Threads PROVE Shape(u)'
    BY DEF Shapes
  <2>1. Shape(u)
    BY DEF Shapes
  <2>2. CASE Run(u) = a
    <3>1. pc[Run(u)] = "finish" /\ pc'[Run(u)] = "dying"
      BY <1>1, <1>3, <2>2
    <3> QED
      BY ONLY <1>2, <2>1, <3>1 DEF Shape, Unplaced, Placed
  <2>3. CASE Run(u) # a
    BY <1>2, <1>5, <2>1, <2>3, ShapeKept
  <2> QED
    BY <2>2, <2>3
<1>9. HandOwned' /\ Cleared'
  <2>1. \A u \in Threads : /\ pc'[Run(u)] = "give up" => pc[Run(u)] = "give up"
                           /\ pc'[Run(u)] \in Cleaning => pc[Run(u)] \in Cleaning
    BY <1>3, <1>5 DEF Cleaning
  <2>2. HandOwned'
    BY <1>2, <1>3, <2>1, HandsKept
  <2>3. Cleared'
    BY <1>2, <2>1, ClearedKept
  <2> QED
    BY <2>2, <2>3
<1>10. AllReached' /\ AllDoomed'
  BY <1>2, <1>4, NothingLives DEF AllReached, AllDoomed
<1>11. Final'
  <2>1. \A u \in Threads : pc'[Run(u)] # "spawn"
    BY <1>3, <1>4, <1>5
  <2> QED
    BY <1>1, <1>2, <1>4, <2>1 DEF Final
<1> QED
  BY <1>3, <1>6, <1>7, <1>8, <1>9, <1>10, <1>11

\* Whoever is not the last goes on with what it was doing.
LEMMA FinishResumed ==
  ASSUME IInv, NEW a \in Actors, Finish(a), ~(stopping /\ owners = 1)
  PROVE  IInv'
<1> USE DEF IInv
<1>1. pc[a] = "finish" /\ Resumed(a)
  BY DEF Finish, Ready
<1>2. UNCHANGED <<entry, handling, stopping, interrupted, at, hand, place, live,
                  launches, signals, dead>>
  BY DEF Finish
<1>3. ASSUME NEW label \in {"running", "idle"}, pc' = [pc EXCEPT ![a] = label], mine' = mine,
             \A u \in Threads : Run(u) = a => Shape(u)'
      PROVE  IInv'
  <2>1. Quiet(a, label)
    BY <1>1, <1>2, <1>3 DEF Quiet, Labels, Cleaning
  <2>2. /\ Counts' /\ owners' \in Nat /\ Published'
        /\ pc' \in [Actors -> Labels]
        /\ \A b \in Actors : pc'[b] = "kill" <=> pc[b] = "kill"
    BY <1>3, FinishFacts
  <2>3. TypeOK'
    <3>1. TypeOK
      OBVIOUS
    <3> QED
      BY ONLY <1>2, <1>3, <2>2, <3>1 DEF TypeOK
  <2>4. \A u \in Threads : Run(u) = a => ~BeforeGroup(u) /\ ~BeforeCgroup(u) /\ ~WindowOpen(u)
    BY <1>1 DEF BeforeGroup, BeforeCgroup, WindowOpen
  <2>5. \A p \in Places : ~Ahead(a, p)
    BY <1>1 DEF Ahead
  <2>6. AllDoomed'
    BY <1>2, <2>1, <2>4, <2>5, QuietDoom
  <2>7. /\ Distinct' /\ Shapes' /\ EntryOwned' /\ HandOwned'
        /\ Cleared' /\ AllReached' /\ Final'
    BY <1>3, <2>1, <2>4, QuietStep
  <2> QED
    BY <2>2, <2>3, <2>6, <2>7
<1>4. PICK t \in Threads : a = Run(t) \/ a = Handler(t)
  BY ActorFacts
<1>5. CASE a = Handler(t)
  <2>1. pc' = [pc EXCEPT ![a] = "idle"] /\ mine' = mine
    BY <1>1, <1>5, ActorFacts DEF Resumed, Goto
  <2>2. \A u \in Threads : Run(u) # a
    BY <1>5, ActorFacts
  <2> QED
    BY <1>3, <2>1, <2>2
<1>6. CASE a = Run(t) /\ mine[t]["group"] # None
  <2>1. pc' = [pc EXCEPT ![a] = "running"] /\ mine' = mine
    BY <1>1, <1>6, ActorFacts DEF Resumed, Goto
  <2>2. \A u \in Threads : Run(u) = a => u = t
    BY <1>6, ActorFacts
  <2>3. Shape(t)'
    <3>1. pc'[Run(t)] = "running" /\ pc[Run(t)] = "finish" /\ Shape(t)
      BY <1>1, <1>6, <2>1, FinishFacts DEF Shapes
    <3> QED
      BY ONLY <1>2, <1>6, <2>1, <3>1 DEF Shape, Placed
  <2> QED
    BY <1>3, <2>1, <2>2, <2>3
<1>7. CASE a = Run(t) /\ mine[t]["group"] = None
  <2>1. /\ pc' = [pc EXCEPT ![Run(t)] = "idle"]
        /\ mine' = [mine EXCEPT ![t] = [k \in Kinds |-> None]]
    BY <1>1, <1>7, ActorFacts DEF Resumed, Goto
  <2>2. /\ mine' \in [Threads -> [Kinds -> Ids \cup {None}]]
        /\ \A k \in Kinds : mine'[t][k] = None
        /\ \A u \in Threads \ {t} : mine'[u] = mine[u]
    <3>1. mine \in [Threads -> [Kinds -> Ids \cup {None}]]
      BY DEF TypeOK
    <3> QED
      BY ONLY <2>1, <3>1, t \in Threads
  <2>3. Unplaced(t) /\ live[t] = {}
    <3>1. pc[Run(t)] = "finish" /\ Shape(t)
      BY <1>1, <1>7 DEF Shapes
    <3> QED
      BY ONLY <1>7, <3>1 DEF Shape
  <2>4. Own(t, "idle")
    BY <1>1, <1>2, <1>7, <2>1, <2>2 DEF Own, Labels
  <2>5. /\ Counts' /\ owners' \in Nat /\ Published'
        /\ pc' \in [Actors -> Labels] /\ pc'[Run(t)] = "idle"
        /\ \A b \in Actors : pc'[b] = "kill" <=> pc[b] = "kill"
    BY <1>7, <2>1, FinishFacts
  <2>6. TypeOK'
    <3>1. TypeOK
      OBVIOUS
    <3> QED
      BY ONLY <1>2, <2>2, <2>5, <3>1 DEF TypeOK
  <2>7. Distinct'
    <3>1. \A u \in Threads : \A k \in Kinds : mine'[u][k] # None => mine'[u][k] = mine[u][k]
      BY <2>2
    <3>2. Distinct
      OBVIOUS
    <3> QED
      BY ONLY <3>1, <3>2 DEF Distinct
  <2>8. Shape(t)'
    <3>1. Unplaced(t)' /\ live'[t] = {}
      BY <1>2, <2>3 DEF Unplaced
    <3> QED
      BY ONLY <2>2, <2>5, <3>1, PlaceFacts DEF Shape, Unplaced
  <2>9. Reached(t)' /\ Doomed(t)'
    BY <1>2, <2>3, NothingLives
  <2>10. Shapes' /\ AllReached' /\ AllDoomed' /\ Final'
    BY <2>4, <2>8, <2>9, OwnStep
  <2>11. EntryOwned' /\ HandOwned' /\ Cleared'
    BY <2>3, <2>4, OwnKept DEF Unplaced, Cleaning
  <2> QED
    BY <2>5, <2>6, <2>7, <2>10, <2>11
<1> QED
  BY <1>4, <1>5, <1>6, <1>7

LEMMA FinishStep ==
  ASSUME IInv, NEW a \in Actors, Finish(a)
  PROVE  IInv'
BY FinishDying, FinishResumed

-----------------------------------------------------------------------------
(* The invariant, and what it says. *)

LEMMA Start == Init => IInv
<1> SUFFICES ASSUME Init PROVE IInv
  OBVIOUS
<1>1. /\ entry = [p \in Places |-> None] /\ handling = 0 /\ owners = 0
      /\ stopping = FALSE /\ interrupted = FALSE /\ dead = FALSE
      /\ pc = [a \in Actors |-> "idle"] /\ at = [a \in Actors |-> 1]
      /\ hand = [a \in Actors |-> None]
      /\ launches = [t \in Threads |-> 0] /\ signals = 0
  BY DEF Init
<1>2. /\ mine = [t \in Threads |-> [k \in Kinds |-> None]]
      /\ place = [t \in Threads |-> [k \in Kinds |-> None]]
      /\ live = [t \in Threads |-> {}]
  BY DEF Init
<1>3. \A t \in Threads : Run(t) \in Actors /\ pc[Run(t)] = "idle"
  BY <1>1, ActorFacts
<1>4. TypeOK
  <2>1. 1 \in 1..Last + 1 /\ "idle" \in Labels
    BY PlaceFacts DEF Labels
  <2>2. /\ entry \in [Places -> Ids \cup {None}] /\ at \in [Actors -> 1..Last + 1]
        /\ pc \in [Actors -> Labels] /\ hand \in [Actors -> Ids \cup {None}]
        /\ \A a \in Actors : pc[a] = "idle" /\ hand[a] = None
    BY <1>1, <2>1
  <2>3. /\ mine \in [Threads -> [Kinds -> Ids \cup {None}]]
        /\ place \in [Threads -> [Kinds -> Places \cup {None}]]
        /\ live \in [Threads -> SUBSET {"group", "strays"}]
    BY <1>2
  <2>4. launches \in [Threads -> Nat]
    BY <1>1
  <2> QED
    BY <1>1, <2>2, <2>3, <2>4 DEF TypeOK
<1>5. Counts
  <2>1. OwnerSet = {} /\ SweepSet = {}
    BY <1>1 DEF OwnerSet, SweepSet, OwnerLabels, SweepLabels
  <2> QED
    BY <1>1, <2>1, FS_EmptySet DEF Counts
<1>6. Published /\ Distinct
  BY <1>1, <1>2, ActorFacts DEF Published, Distinct
<1>7. Shapes
  <2> SUFFICES ASSUME NEW t \in Threads PROVE Shape(t)
    BY DEF Shapes
  <2>1. \A k \in Kinds : mine[t][k] = None /\ place[t][k] = None
    BY <1>2
  <2>2. live[t] = {} /\ pc[Run(t)] = "idle" /\ "group" \in Kinds
    BY <1>2, <1>3, PlaceFacts
  <2> QED
    BY <2>1, <2>2 DEF Shape, Unplaced
<1>8. EntryOwned /\ HandOwned
  BY <1>1 DEF EntryOwned, HandOwned
<1>9. Cleared
  BY <1>3 DEF Cleared
<1>10. AllReached /\ AllDoomed
  BY <1>1, <1>2 DEF AllReached, AllDoomed, Reached
<1>11. Final
  BY <1>1 DEF Final, Fatal
<1> QED
  BY <1>4, <1>5, <1>6, <1>7, <1>8, <1>9, <1>10, <1>11 DEF IInv

LEMMA Stuttering ==
  ASSUME IInv, UNCHANGED vars
  PROVE  IInv'
<1> USE DEF IInv
<1>1. /\ UNCHANGED <<entry, handling, owners, stopping, interrupted, pc, at, hand>>
      /\ UNCHANGED <<mine, place, live, launches, signals, dead>>
  BY DEF vars, registry, launch
<1>2. TypeOK' /\ Published' /\ Distinct'
  BY <1>1 DEF TypeOK, Published, Distinct
<1>3. Counts'
  BY <1>1 DEF Counts, OwnerSet, SweepSet
<1>4. Shapes'
  BY <1>1, ShapeKept DEF Shapes
<1>5. EntryOwned' /\ HandOwned' /\ Cleared'
  <2>1. EntryOwned'
    BY <1>1, EntriesKept
  <2>2. HandOwned'
    BY <1>1, HandsKept
  <2>3. Cleared'
    BY <1>1, ClearedKept
  <2> QED
    BY <2>1, <2>2, <2>3
<1>6. AllReached'
  BY <1>1 DEF AllReached, Reached, Reachable, BeforeGroup, BeforeCgroup, Kind
<1>7. AllDoomed'
  BY <1>1 DEF AllDoomed, Doomed, Pending, Ahead, WindowOpen, Kind
<1>8. Final'
  BY <1>1 DEF Final, Fatal
<1> QED
  BY <1>2, <1>3, <1>4, <1>5, <1>6, <1>7, <1>8

LEMMA Preserved == IInv /\ [Next]_vars => IInv'
<1> SUFFICES ASSUME IInv, [Next]_vars PROVE IInv'
  OBVIOUS
<1>1. ASSUME NEW t \in Threads, Progress(t) PROVE IInv'
  <2>1. CASE Check(t)
    BY <2>1, CheckStep
  <2>2. CASE Spawn(t)
    BY <2>2, SpawnStep
  <2>3. CASE SpawnFails(t)
    BY <2>3, SpawnFailsStep
  <2>4. CASE Claim(t)
    BY <2>4, ClaimStep
  <2>5. CASE Confirm(t)
    BY <2>5, ConfirmStep
  <2>6. CASE Abandon(t)
    BY <2>6, AbandonStep
  <2>7. CASE Close(t)
    BY <2>7, CloseStep
  <2>8. CASE Publish(t)
    BY <2>8, PublishStep
  <2>9. CASE Stop(t)
    BY <2>9, StopStep
  <2>10. CASE Release(t)
    BY <2>10, ReleaseStep
  <2>11. CASE Quiesce(t)
    BY <2>11, QuiesceStep
  <2>12. CASE GiveUp(t)
    BY <2>12, GiveUpStep
  <2> QED
    BY <1>1, <2>1, <2>2, <2>3, <2>4, <2>5, <2>6, <2>7, <2>8, <2>9, <2>10, <2>11, <2>12
       DEF Progress
<1>2. ASSUME NEW a \in Actors, Sweeper(a) PROVE IInv'
  BY <1>2, EnterStep, ExtractStep, KillStep, LeaveStep, FinishStep, DieStep DEF Sweeper
<1>3. ASSUME NEW t \in Threads, Prepare(t) \/ Escape(t) \/ Signal(t) \/ Terminate(t)
      PROVE  IInv'
  BY <1>3, PrepareStep, EscapeStep, SignalStep, TerminateStep
<1>4. CASE Ended
  BY <1>4, Stuttering DEF Ended
<1>5. CASE UNCHANGED vars
  BY <1>5, Stuttering
<1> QED
  BY <1>1, <1>2, <1>3, <1>4, <1>5 DEF Next

\* The invariant is inductive: every step of a launch, of a handler and of a
\* sweep (interrupt.rs and process_tree.rs) preserves it, whatever the number
\* of threads, identities, slots, launches and signals.
THEOREM Inductive == Safety => []IInv
BY Start, Preserved, PTL DEF Safety

\* Every variable keeps its type, an identity is in hand exactly between its
\* extraction and its kill, and neither HANDLING nor OWNERS, which the code
\* decrements without a check (interrupt.rs), goes below zero.
THEOREM KeepsTypes == Safety => []TypeOK
<1>1. IInv => TypeOK
  BY DEF IInv
<1> QED
  BY <1>1, Inductive, PTL

\* The process never dies of the signal while a process it launched lives:
\* the last owner of a stopping run (finish in interrupt.rs) has left no
\* window open and no registered launch unswept.
THEOREM DiesAlone == Safety => []NothingSurvives
<1>1. IInv => NothingSurvives
  BY DEF IInv, NothingSurvives, Final, Fatal
<1> QED
  BY <1>1, Inductive, PTL

\* The identity a sweep is about to kill is still held by the launch it was
\* registered for: quiesce in interrupt.rs waits before it can be given up.
THEOREM PinsIdentities == Safety => []IdentitiesPinned
<1>1. IInv => IdentitiesPinned
  BY DEF IInv, IdentitiesPinned, HandOwned
<1> QED
  BY <1>1, Inductive, PTL

\* A running launch is never out of an interrupt's reach: outside its spawn
\* window what lives of it is registered or about to be killed, though slots
\* fill up and change hands (claim and adopt).
THEOREM KeepsReachable == Safety => []ChildrenReachable
<1>1. IInv => ChildrenReachable
  <2> SUFFICES ASSUME IInv, NEW t \in Threads, ~WindowOpen(t)
               PROVE  /\ "group" \in live[t] => Reachable(t, "group")
                      /\ "strays" \in live[t] => Reachable(t, "cgroup")
    BY DEF ChildrenReachable
  <2>1. ~BeforeGroup(t) /\ ~BeforeCgroup(t)
    BY DEF BeforeGroup, BeforeCgroup, WindowOpen
  <2>2. Reached(t) /\ ("strays" \in live[t] => Sealed)
    BY DEF IInv, AllReached, Shapes, Shape
  <2> QED
    BY <2>1, <2>2 DEF Reached
<1> QED
  BY <1>1, Inductive, PTL
====
