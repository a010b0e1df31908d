----------------------------- MODULE ResourceGate -----------------------------
(***************************************************************************)
(* The resources that tests declare with #[gamma::resource(...)] and that  *)
(* only so many of them may use at once                                    *)
(* (cargo-gamma-lib/src/exec/resources.rs).  A worker takes everything a   *)
(* run of a binary needs in one critical section, holds it over the run    *)
(* and its confirmations (verdict.rs, run_binary_observed), and hands it   *)
(* back under the lock; the waiters are woken after the lock is dropped.   *)
(***************************************************************************)
EXTENDS Integers, FiniteSets

CONSTANTS
  Workers,    \* the sweep's worker threads
  Binaries,   \* the instrumented test binaries
  Tests,      \* the tests they may contain
  Resources,  \* the names the markers declare
  OfBinary,   \* the resources each binary declares for all its tests
  OfTest,     \* the resources each test of each binary declares
  Capacity,   \* the limit of each, 1 unless configured
  MaxRuns,    \* bound: the runs of one worker
  None        \* no run

ASSUME GateAssumption ==
  /\ IsFiniteSet(Workers)
  /\ OfBinary \in [Binaries -> SUBSET Resources]
  /\ OfTest \in [Binaries -> [Tests -> SUBSET Resources]]
  /\ Capacity \in [Resources -> Nat \ {0}]
  /\ MaxRuns \in Nat

\* What a worker may run: the whole of a binary, or one of its tests.
Runs == [binary : Binaries, only : {Tests} \cup {{t} : t \in Tests}]

ASSUME NoneAssumption == None \notin Runs

VARIABLES
  active,  \* how many permits name each resource
  pc,      \* where each worker is
  run,     \* what it wants to run, or runs
  made     \* how many runs it has asked for

vars == <<active, pc, run, made>>

-----------------------------------------------------------------------------
\* A mutant: a run of one test forgets what its binary declares.
RequiredByTests(r) == UNION {OfTest[r.binary][t] : t \in r.only}

\* What a run has to be given: its binary's resources and its tests'.
Required(r) == OfBinary[r.binary] \cup UNION {OfTest[r.binary][t] : t \in r.only}

Names(w) == Required(run[w])

Init ==
  /\ active = [n \in Resources |-> 0]
  /\ pc = [w \in Workers |-> "idle"]
  /\ run = [w \in Workers |-> None]
  /\ made = [w \in Workers |-> 0]

Goto(w, label) == pc' = [pc EXCEPT ![w] = label]

\* Some resource the worker needs is used up.
Exhausted(w) == \E n \in Names(w) : active[n] >= Capacity[n]

Ask(w) ==
  /\ pc[w] = "idle" /\ made[w] < MaxRuns
  /\ \E r \in Runs : run' = [run EXCEPT ![w] = r]
  /\ made' = [made EXCEPT ![w] = @ + 1]
  /\ Goto(w, "asking")
  /\ UNCHANGED active

\* Under the lock, the worker finds its names exhausted and waits, which
\* gives the lock up.
Wait(w) ==
  /\ pc[w] = "asking" /\ Exhausted(w)
  /\ Goto(w, "waiting")
  /\ UNCHANGED <<active, run, made>>

\* A mutant: one resource that is free is enough.
TakeIfAnyFree(w) ==
  /\ pc[w] = "asking"
  /\ Names(w) = {} \/ \E n \in Names(w) : active[n] < Capacity[n]
  /\ active' = [n \in Resources |-> IF n \in Names(w) THEN active[n] + 1 ELSE active[n]]
  /\ Goto(w, "running")
  /\ UNCHANGED <<run, made>>

\* Under the lock, it takes all of them.
Take(w) ==
  /\ pc[w] = "asking" /\ ~Exhausted(w)
  /\ active' = [n \in Resources |-> IF n \in Names(w) THEN active[n] + 1 ELSE active[n]]
  /\ Goto(w, "running")
  /\ UNCHANGED <<run, made>>

\* A mutant: a resource the binary declares as well is not handed back.
ReleaseOnlyTests(w) ==
  /\ pc[w] = "running"
  /\ active' = [n \in Resources |->
       IF n \in Names(w) \ OfBinary[run[w].binary] /\ active[n] > 0
       THEN active[n] - 1 ELSE active[n]]
  /\ run' = [run EXCEPT ![w] = None]
  /\ Goto(w, "notifying")
  /\ UNCHANGED made

\* The run and its confirmations are over, or the worker unwinds.
Release(w) ==
  /\ pc[w] = "running"
  /\ active' = [n \in Resources |->
       IF n \in Names(w) /\ active[n] > 0 THEN active[n] - 1 ELSE active[n]]
  /\ run' = [run EXCEPT ![w] = None]
  /\ Goto(w, "notifying")
  /\ UNCHANGED made

\* A mutant: only one waiter is woken.
NotifyOne(w) ==
  /\ pc[w] = "notifying"
  /\ \/ \E v \in Workers : pc[v] = "waiting" /\ pc' = [pc EXCEPT ![w] = "idle", ![v] = "asking"]
     \/ (\A v \in Workers : pc[v] # "waiting") /\ Goto(w, "idle")
  /\ UNCHANGED <<active, run, made>>

\* Everybody who waits looks again.
Notify(w) ==
  /\ pc[w] = "notifying"
  /\ pc' = [v \in Workers |->
       IF v = w THEN "idle" ELSE IF pc[v] = "waiting" THEN "asking" ELSE pc[v]]
  /\ UNCHANGED <<active, run, made>>

\* A condition variable may wake a waiter for no reason.
WakeSpuriously(w) ==
  /\ pc[w] = "waiting"
  /\ Goto(w, "asking")
  /\ UNCHANGED <<active, run, made>>

Done ==
  /\ \A w \in Workers : pc[w] = "idle" /\ made[w] = MaxRuns
  /\ UNCHANGED vars

Step(w) == Wait(w) \/ Take(w) \/ Release(w) \/ Notify(w)

Next ==
  \/ \E w \in Workers : Ask(w) \/ Step(w) \/ WakeSpuriously(w)
  \/ Done

Safety == Init /\ [][Next]_vars

\* Threads are scheduled and runs end, by their budgets if not by themselves;
\* no order among the waiters is assumed.
Spec == Safety /\ \A w \in Workers : WF_vars(Step(w))
-----------------------------------------------------------------------------
(* Properties *)

Holding == {w \in Workers : pc[w] = "running"}

\* Every variable keeps its type, and a worker has a run from the moment it
\* asks until it hands its resources back.
TypeOK ==
  /\ active \in [Resources -> Nat]
  /\ pc \in [Workers -> {"idle", "asking", "waiting", "running", "notifying"}]
  /\ run \in [Workers -> Runs \cup {None}]
  /\ \A w \in Workers : pc[w] \in {"asking", "waiting", "running"} <=> run[w] # None
  /\ made \in [Workers -> Nat]

\* The tests a running worker may execute that use the resource, by their own
\* declaration or by their binary's.
Uses(w, n) ==
  \E t \in run[w].only :
    n \in OfBinary[run[w].binary] \/ n \in OfTest[run[w].binary][t]

\* Tests that declare the same resource never run in more processes at once
\* than its limit allows, whether each is run alone or with its whole binary.
SharedWithinCapacity ==
  \A n \in Resources : Cardinality({w \in Holding : Uses(w, n)}) <= Capacity[n]

\* The counters are the permits in hand: nothing taken is forgotten, nothing
\* handed back twice, and the saturating subtraction never saturates.
PermitsExact ==
  \A n \in Resources : active[n] = Cardinality({w \in Holding : n \in Names(w)})

\* A worker that waits for what is already free is going to be woken: whoever
\* freed it is between the lock and notify_all.
NoWaiterForgotten ==
  (\E w \in Workers : pc[w] = "waiting" /\ ~Exhausted(w)) =>
    \E v \in Workers : pc[v] = "notifying"

\* All-or-nothing taking cannot deadlock: every run that was asked for is
\* made, even by waiters that need several resources.
EveryRunEnds == \A w \in Workers : pc[w] = "asking" ~> pc[w] = "idle"
=============================================================================
