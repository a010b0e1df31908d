-------------------------- MODULE ResourceGateProofs --------------------------
(***************************************************************************)
(* What holds of the resource gate for any workers, resources and limits.  *)
(* The inductive invariant is the type invariant, the exact count of the   *)
(* permits, that each count is within its limit, and that the waiters of   *)
(* what is free are about to be woken; what the tests share follows.       *)
(***************************************************************************)
EXTENDS ResourceGate, FiniteSetTheorems, TLAPS

Holders(n) == {w \in Holding : n \in Names(w)}

Limits == \A n \in Resources : active[n] <= Capacity[n]

IInv == TypeOK /\ PermitsExact /\ Limits /\ NoWaiterForgotten

\* There are finitely many permits of a name, and they can be counted.
LEMMA HoldersFinite ==
  ASSUME NEW n
  PROVE  IsFiniteSet(Holders(n)) /\ Cardinality(Holders(n)) \in Nat
<1>1. IsFiniteSet(Workers) /\ Holders(n) \subseteq Workers
  BY GateAssumption DEF Holders, Holding
<1> QED
  BY <1>1, FS_Subset, FS_CardinalityType

LEMMA RequiredResources ==
  ASSUME NEW r \in Runs
  PROVE  Required(r) \subseteq Resources
BY GateAssumption DEF Runs, Required

\* A step that leaves the permits alone leaves their count exact.
LEMMA SamePermits ==
  ASSUME PermitsExact, UNCHANGED active,
         \A n \in Resources : Holders(n)' = Holders(n)
  PROVE  PermitsExact'
BY DEF PermitsExact, Holders

\* Taking adds one permit for each of the names that the run needs.
LEMMA TakeCounts ==
  ASSUME IInv, NEW w \in Workers, Take(w)
  PROVE  PermitsExact' /\ Limits'
<1> USE DEF IInv, TypeOK, Take, Goto
<1>1. Holding' = Holding \cup {w} /\ w \notin Holding
  BY DEF Holding
<1>2. \A v \in Workers : Names(v)' = Names(v)
  BY DEF Names
<1>3. ASSUME NEW n \in Resources
      PROVE  active'[n] = Cardinality(Holders(n)') /\ active'[n] <= Capacity[n]
  <2>1. active[n] = Cardinality(Holders(n)) /\ active[n] <= Capacity[n]
    BY DEF PermitsExact, Limits, Holders
  <2>2. CASE n \in Names(w)
    <3>1. Holders(n)' = Holders(n) \cup {w} /\ w \notin Holders(n)
      BY <1>1, <1>2, <2>2 DEF Holders, Holding
    <3>2. Cardinality(Holders(n)') = Cardinality(Holders(n)) + 1
      BY <3>1, HoldersFinite, FS_AddElement
    <3>3. active'[n] = active[n] + 1
      BY <2>2
    <3>4. active[n] < Capacity[n]
      BY <2>2, GateAssumption DEF Exhausted
    <3> QED
      BY <2>1, <3>2, <3>3, <3>4, GateAssumption
  <2>3. CASE n \notin Names(w)
    <3>1. Holders(n)' = Holders(n)
      BY <1>1, <1>2, <2>3 DEF Holders, Holding
    <3> QED
      BY <2>1, <2>3, <3>1
  <2> QED
    BY <2>2, <2>3
<1> QED
  BY <1>3 DEF PermitsExact, Limits, Holders

\* Releasing gives up the same permits, and no counter saturates.
LEMMA ReleaseCounts ==
  ASSUME IInv, NEW w \in Workers, Release(w)
  PROVE  PermitsExact' /\ Limits'
<1> USE DEF IInv, TypeOK, Release, Goto
<1>1. Holding' = Holding \ {w} /\ w \in Holding
  BY DEF Holding
<1>2. \A v \in Workers \ {w} : Names(v)' = Names(v)
  BY DEF Names
<1>3. ASSUME NEW n \in Resources
      PROVE  active'[n] = Cardinality(Holders(n)') /\ active'[n] <= Capacity[n]
  <2>1. active[n] = Cardinality(Holders(n)) /\ active[n] <= Capacity[n] /\ active[n] \in Nat
    BY DEF PermitsExact, Limits, Holders
  <2>2. CASE n \in Names(w)
    <3>1. Holders(n)' = Holders(n) \ {w} /\ w \in Holders(n)
      BY <1>1, <1>2, <2>2 DEF Holders, Holding
    <3>2. Cardinality(Holders(n)') = Cardinality(Holders(n)) - 1
      BY <3>1, HoldersFinite, FS_RemoveElement
    <3>3. active[n] > 0
      BY <2>1, <3>1, <3>2, HoldersFinite, FS_EmptySet
    <3>4. active'[n] = active[n] - 1
      BY <2>2, <3>3
    <3> QED
      BY <2>1, <3>2, <3>4, GateAssumption
  <2>3. CASE n \notin Names(w)
    <3>1. Holders(n)' = Holders(n)
      BY <1>1, <1>2, <2>3 DEF Holders, Holding
    <3> QED
      BY <2>1, <2>3, <3>1
  <2> QED
    BY <2>2, <2>3
<1> QED
  BY <1>3 DEF PermitsExact, Limits, Holders

\* The invariant that every theorem of this module rests on.
LEMMA Inductive == Safety => []IInv
<1> USE NoneAssumption DEF IInv
<1>1. Init => IInv
  <2> SUFFICES ASSUME Init PROVE IInv
    OBVIOUS
  <2>1. \A n \in Resources : Holders(n) = {}
    BY DEF Init, Holders, Holding
  <2>2. PermitsExact /\ Limits
    <3> SUFFICES ASSUME NEW n \in Resources
                 PROVE  active[n] = Cardinality(Holders(n)) /\ active[n] <= Capacity[n]
      BY DEF PermitsExact, Limits, Holders
    <3>1. active[n] = 0 /\ Capacity[n] \in Nat
      BY GateAssumption DEF Init
    <3> QED
      BY <2>1, <3>1, FS_EmptySet
  <2>3. TypeOK
    BY DEF Init, TypeOK
  <2>4. NoWaiterForgotten
    BY DEF Init, NoWaiterForgotten
  <2> QED
    BY <2>2, <2>3, <2>4
<1>2. IInv /\ [Next]_vars => IInv'
  <2> SUFFICES ASSUME IInv, [Next]_vars PROVE IInv'
    OBVIOUS
  <2>1. ASSUME NEW w \in Workers, Ask(w) PROVE IInv'
    <3>1. TypeOK'
      BY <2>1 DEF Ask, TypeOK, Goto
    <3>2. \A n \in Resources : Holders(n)' = Holders(n)
      BY <2>1 DEF Ask, TypeOK, Goto, Holders, Holding, Names
    <3>3. PermitsExact'
      BY <2>1, <3>2, SamePermits DEF Ask
    <3>4. NoWaiterForgotten'
      BY <2>1 DEF Ask, TypeOK, Goto, NoWaiterForgotten, Exhausted, Names
    <3> QED
      BY <2>1, <3>1, <3>3, <3>4 DEF Ask, Limits
  <2>2. ASSUME NEW w \in Workers, Wait(w) \/ WakeSpuriously(w) PROVE IInv'
    <3>1. TypeOK'
      BY <2>2 DEF Wait, WakeSpuriously, TypeOK, Goto
    <3>2. \A n \in Resources : Holders(n)' = Holders(n)
      BY <2>2 DEF Wait, WakeSpuriously, TypeOK, Goto, Holders, Holding, Names
    <3>3. PermitsExact'
      BY <2>2, <3>2, SamePermits DEF Wait, WakeSpuriously
    <3>4. NoWaiterForgotten'
      BY <2>2 DEF Wait, WakeSpuriously, TypeOK, Goto, NoWaiterForgotten, Exhausted, Names
    <3> QED
      BY <2>2, <3>1, <3>3, <3>4 DEF Wait, WakeSpuriously, Limits
  <2>3. ASSUME NEW w \in Workers, Take(w) PROVE IInv'
    <3>1. TypeOK'
      BY <2>3 DEF Take, TypeOK, Goto
    <3>2. ASSUME NEW v \in Workers, pc[v] = "waiting", Exhausted(v) PROVE Exhausted(v)'
      <4>1. PICK n \in Names(v) : active[n] >= Capacity[n]
        BY <3>2 DEF Exhausted
      <4>2. Names(v)' = Names(v)
        BY <2>3 DEF Take, Names
      <4>3. n \in Resources
        BY <3>2, RequiredResources DEF TypeOK, Names
      <4>4. active'[n] >= active[n]
        BY <2>3, <4>3 DEF Take, TypeOK
      <4>5. active'[n] \in Nat /\ active[n] \in Nat /\ Capacity[n] \in Nat
        BY <3>1, <4>3, GateAssumption DEF TypeOK
      <4> QED
        BY <4>1, <4>2, <4>4, <4>5 DEF Exhausted
    <3>3. NoWaiterForgotten'
      BY <2>3, <3>2 DEF Take, TypeOK, Goto, NoWaiterForgotten
    <3> QED
      BY <2>3, <3>1, <3>3, TakeCounts
  <2>4. ASSUME NEW w \in Workers, Release(w) PROVE IInv'
    <3>1. TypeOK'
      BY <2>4 DEF Release, TypeOK, Goto
    <3>2. NoWaiterForgotten'
      BY <2>4 DEF Release, TypeOK, Goto, NoWaiterForgotten
    <3> QED
      BY <2>4, <3>1, <3>2, ReleaseCounts
  <2>5. ASSUME NEW w \in Workers, Notify(w) PROVE IInv'
    <3>1. TypeOK'
      BY <2>5 DEF Notify, TypeOK
    <3>2. \A n \in Resources : Holders(n)' = Holders(n)
      BY <2>5 DEF Notify, TypeOK, Holders, Holding, Names
    <3>3. PermitsExact'
      BY <2>5, <3>2, SamePermits DEF Notify
    <3>4. NoWaiterForgotten'
      BY <2>5 DEF Notify, TypeOK, NoWaiterForgotten
    <3> QED
      BY <2>5, <3>1, <3>3, <3>4 DEF Notify, Limits
  <2>6. CASE UNCHANGED vars
    <3>1. \A n \in Resources : Holders(n)' = Holders(n)
      BY <2>6 DEF vars, Holders, Holding, Names
    <3> QED
      BY <2>6, <3>1, SamePermits DEF vars, TypeOK, NoWaiterForgotten, Exhausted, Names, Limits
  <2> QED
    BY <2>1, <2>2, <2>3, <2>4, <2>5, <2>6 DEF Next, Step, Done
<1> QED
  BY <1>1, <1>2, PTL DEF Safety

-----------------------------------------------------------------------------
\* The permits of resources.rs are counted exactly, for any workers and names.
THEOREM PermitsAreExact == Safety => []PermitsExact
BY Inductive, PTL DEF IInv

\* A waiter for what is free is always about to be woken by notify_all.
THEOREM NobodyIsForgotten == Safety => []NoWaiterForgotten
BY Inductive, PTL DEF IInv

\* Type correctness: in particular a worker has a run exactly while it asks
\* for, waits for or holds the resources of one.
THEOREM TypeCorrect == Safety => []TypeOK
BY Inductive, PTL DEF IInv

\* However runs of whole binaries and of single tests interleave, tests that
\* declare a resource run in no more processes at once than its limit.
THEOREM Sharing == Safety => []SharedWithinCapacity
<1>1. IInv => SharedWithinCapacity
  <2> SUFFICES ASSUME IInv, NEW n \in Resources
               PROVE  Cardinality({w \in Holding : Uses(w, n)}) <= Capacity[n]
    BY DEF SharedWithinCapacity
  <2>1. \A w \in Holding : Uses(w, n) => n \in Names(w)
    BY DEF Uses, Names, Required
  <2>2. {w \in Holding : Uses(w, n)} \subseteq Holders(n)
    BY <2>1 DEF Holders
  <2>3. Cardinality({w \in Holding : Uses(w, n)}) <= Cardinality(Holders(n))
    BY <2>2, HoldersFinite, FS_Subset
  <2>4. Cardinality({w \in Holding : Uses(w, n)}) \in Nat
    BY <2>2, HoldersFinite, FS_Subset, FS_CardinalityType
  <2>5. Cardinality(Holders(n)) <= Capacity[n]
    BY DEF IInv, PermitsExact, Limits, Holders
  <2> QED
    BY <2>3, <2>4, <2>5, HoldersFinite, GateAssumption
<1> QED
  BY <1>1, Inductive, PTL
=============================================================================
