-------------------------- MODULE InterruptRegistry --------------------------
(***************************************************************************)
(* Taking the children along when cargo-gamma is interrupted: the registry *)
(* of cargo-gamma-unsafe/src/interrupt.rs, which the terminal signal       *)
(* handler and every launch share, and the part of a launch's life         *)
(* (cargo-gamma-process/src/process_tree.rs) that uses it.                 *)
(*                                                                         *)
(* Every step of the registry is one sequentially consistent atomic        *)
(* operation.  A handler may run on any thread at any point, suspending    *)
(* what the thread was doing; the terminal signals are blocked on that     *)
(* thread until it returns, and handlers of two threads may overlap.  A    *)
(* launch has two kinds of identity the kernel can hand to somebody else   *)
(* once given up: its process group's number and, on a host that can seal  *)
(* a subtree, its cgroup's kill descriptor.  That a kill succeeds is an    *)
(* assumption: the handler has nobody to tell that it did not.             *)
(***************************************************************************)
EXTENDS Integers, FiniteSets

CONSTANTS
  Threads,      \* the threads that launch test binaries
  Ids,          \* process group numbers, and kill descriptors
  SLOTS,        \* the length of each of the registry's two arrays
  Sealed,       \* whether the host has cgroups
  MaxLaunches,  \* bound: the launches of one thread
  MaxSignals,   \* bound: the terminal signals that arrive
  None          \* EMPTY, or nothing

ASSUME RegistryAssumption ==
  /\ IsFiniteSet(Threads)
  /\ SLOTS \in Nat \ {0} /\ Sealed \in BOOLEAN
  /\ MaxLaunches \in Nat /\ MaxSignals \in Nat
  /\ None \notin Ids \cup 1..(2 * SLOTS)

VARIABLES
  entry,       \* the arrays groups and cgroups, one after the other
  handling,    \* sweeps that may hold an extracted identity
  owners,      \* open spawn windows and unfinished handlers
  stopping,    \* the STOPPING flag in the word of owners
  interrupted, \* signal() # CALM
  pc, at, hand,\* each actor's next step, position in entry, extracted identity
  mine,        \* the identities each thread's launch keeps the kernel from reusing
  place,       \* where the launch's identities were registered
  live,        \* which processes of the launch run: its group, strays that left it
  launches, signals, \* how many there were
  dead         \* the process has died of the signal

registry == <<entry, handling, owners, stopping, interrupted>>
launch == <<mine, place, live, launches>>
vars == <<registry, pc, at, hand, launch, signals, dead>>

-----------------------------------------------------------------------------
Kinds == IF Sealed THEN {"group", "cgroup"} ELSE {"group"}

\* groups is swept before cgroups.
Last == IF Sealed THEN 2 * SLOTS ELSE SLOTS
Places == 1..Last
Kind(p) == IF p <= SLOTS THEN "group" ELSE "cgroup"

\* A thread's ordinary flow, and the handler that may have interrupted it.
Run(t) == <<t, "run">>
Handler(t) == <<t, "handler">>
Actors == Threads \X {"run", "handler"}

Init ==
  /\ entry = [p \in Places |-> None]
  /\ handling = 0 /\ owners = 0 /\ stopping = FALSE /\ interrupted = FALSE
  /\ pc = [a \in Actors |-> "idle"]
  /\ at = [a \in Actors |-> 1]
  /\ hand = [a \in Actors |-> None]
  /\ mine = [t \in Threads |-> [k \in Kinds |-> None]]
  /\ place = [t \in Threads |-> [k \in Kinds |-> None]]
  /\ live = [t \in Threads |-> {}]
  /\ launches = [t \in Threads |-> 0]
  /\ signals = 0 /\ dead = FALSE

\* What an actor may do next: a handler suspends its thread.
Ready(a, label) ==
  /\ ~dead /\ pc[a] = label
  /\ a[2] = "run" => pc[Handler(a[1])] = "idle"

Goto(a, label) == pc' = [pc EXCEPT ![a] = label]

Free(k) == {i \in Ids : \A t \in Threads : mine[t][k] # i}

\* What is left of the launch of t once the identity i of kind k is killed.
Survivors(t, k, i) ==
  IF mine[t][k] # i THEN live[t]
  ELSE IF k = "group" THEN live[t] \ {"group"} ELSE {}

Killed(k, i) == live' = [t \in Threads |-> Survivors(t, k, i)]

-----------------------------------------------------------------------------
(* Launching: prepare, spawn, adopt. *)

\* Containment is set up and, last, the spawn window is opened.
Prepare(t) ==
  /\ Ready(Run(t), "idle")
  /\ launches[t] < MaxLaunches
  /\ launches' = [launches EXCEPT ![t] = @ + 1]
  /\ IF Sealed
     THEN \E i \in Free("cgroup") : mine' = [mine EXCEPT ![t]["cgroup"] = i]
     ELSE mine' = mine
  /\ owners' = owners + 1
  /\ Goto(Run(t), "opened")
  /\ UNCHANGED <<entry, handling, stopping, interrupted, at, hand, place, live, signals, dead>>

\* The spawner's half of the handshake.
Check(t) ==
  /\ Ready(Run(t), "opened")
  /\ Goto(Run(t), IF interrupted THEN "close" ELSE "spawn")
  /\ UNCHANGED <<registry, at, hand, launch, signals, dead>>

\* The child leads a group of its own.
Spawn(t) ==
  /\ Ready(Run(t), "spawn")
  /\ \E i \in Free("group") : mine' = [mine EXCEPT ![t]["group"] = i]
  /\ live' = [live EXCEPT ![t] = {"group"}]
  /\ at' = [at EXCEPT ![Run(t)] = 1]
  /\ Goto(Run(t), "claim")
  /\ UNCHANGED <<registry, hand, place, launches, signals, dead>>

\* A backoff closes the window as well, and prepares another when it is over.
SpawnFails(t) ==
  /\ Ready(Run(t), "spawn")
  /\ Goto(Run(t), "close")
  /\ UNCHANGED <<registry, at, hand, launch, signals, dead>>

\* Descendants may leave the group, and only a cgroup still reaches them.
Escape(t) ==
  /\ ~dead /\ Sealed /\ "group" \in live[t] /\ "strays" \notin live[t]
  /\ live' = [live EXCEPT ![t] = @ \cup {"strays"}]
  /\ UNCHANGED <<registry, pc, at, hand, mine, place, launches, signals, dead>>

\* A mutant: a launch that found no slot goes on unwatched.
ClaimUnwatched(t) ==
  LET a == Run(t)  p == at[a]  k == Kind(p) IN
  /\ Ready(a, "claim")
  /\ \/ /\ entry[p] = None
        /\ entry' = [entry EXCEPT ![p] = mine[t][k]]
        /\ place' = [place EXCEPT ![t][k] = p]
        /\ Goto(a, "claimed")
        /\ UNCHANGED at
     \/ /\ entry[p] # None
        /\ IF p \in {SLOTS, Last}
           THEN Goto(a, "close") /\ UNCHANGED at
           ELSE at' = [at EXCEPT ![a] = p + 1] /\ UNCHANGED pc
        /\ UNCHANGED <<entry, place>>
  /\ UNCHANGED <<handling, owners, stopping, interrupted, hand, mine, live, launches, signals, dead>>

\* One compare_exchange of the search for a free slot.
Claim(t) ==
  LET a == Run(t)  p == at[a]  k == Kind(p) IN
  /\ Ready(a, "claim")
  /\ \/ /\ entry[p] = None
        /\ entry' = [entry EXCEPT ![p] = mine[t][k]]
        /\ place' = [place EXCEPT ![t][k] = p]
        /\ Goto(a, "claimed")
        /\ UNCHANGED at
     \/ /\ entry[p] # None /\ p \notin {SLOTS, Last}
        /\ at' = [at EXCEPT ![a] = p + 1]
        /\ UNCHANGED <<entry, place, pc>>
     \/ \* every slot is taken: the launch is refused
        /\ entry[p] # None /\ p \in {SLOTS, Last}
        /\ IF k = "group"
           THEN Goto(a, "abandon") /\ UNCHANGED at
           ELSE Goto(a, "revoke") /\ at' = [at EXCEPT ![a] = place[t]["group"]]
        /\ UNCHANGED <<entry, place>>
  /\ UNCHANGED <<handling, owners, stopping, interrupted, hand, mine, live, launches, signals, dead>>

\* Where a launch goes from one registration to the next.
Registered(t) ==
  LET a == Run(t) IN
  IF Sealed /\ Kind(at[a]) = "group"
  THEN at' = [at EXCEPT ![a] = SLOTS + 1] /\ Goto(a, "claim")
  ELSE UNCHANGED at /\ Goto(a, "close")

\* A handler may have passed the slot before it was taken.
Confirm(t) ==
  LET k == Kind(at[Run(t)]) IN
  /\ Ready(Run(t), "claimed")
  /\ IF interrupted THEN Killed(k, mine[t][k]) ELSE UNCHANGED live
  /\ Registered(t)
  /\ UNCHANGED <<registry, hand, mine, place, launches, signals, dead>>

\* adopt ends and reaps a child it cannot have watched.
Abandon(t) ==
  /\ Ready(Run(t), "abandon")
  /\ live' = [live EXCEPT ![t] = {}]
  /\ mine' = [mine EXCEPT ![t]["group"] = None]
  /\ Goto(Run(t), "close")
  /\ UNCHANGED <<registry, at, hand, place, launches, signals, dead>>

\* The window closes, with a sweep of its own when the run is interrupted.
Close(t) ==
  /\ Ready(Run(t), "close")
  /\ Goto(Run(t), IF interrupted THEN "enter" ELSE "finish")
  /\ UNCHANGED <<registry, at, hand, launch, signals, dead>>

-----------------------------------------------------------------------------
(* Interrupting: the handler, the sweep, and who dies of the signal. *)

\* A terminal signal is delivered on some thread, and the handler takes
\* cleanup ownership before it says anything.
Signal(t) ==
  /\ Ready(Handler(t), "idle")
  /\ signals < MaxSignals
  /\ signals' = signals + 1
  /\ owners' = owners + 1
  /\ Goto(Handler(t), "publish")
  /\ UNCHANGED <<entry, handling, stopping, interrupted, at, hand, launch, dead>>

Publish(t) ==
  /\ Ready(Handler(t), "publish")
  /\ interrupted' = TRUE
  /\ Goto(Handler(t), "stop")
  /\ UNCHANGED <<entry, handling, owners, stopping, at, hand, launch, signals, dead>>

Stop(t) ==
  /\ Ready(Handler(t), "stop")
  /\ stopping' = TRUE
  /\ Goto(Handler(t), "enter")
  /\ UNCHANGED <<entry, handling, owners, interrupted, at, hand, launch, signals, dead>>

Enter(a) ==
  /\ Ready(a, "enter")
  /\ handling' = handling + 1
  /\ at' = [at EXCEPT ![a] = 1]
  /\ Goto(a, "sweep")
  /\ UNCHANGED <<entry, owners, stopping, interrupted, hand, launch, signals, dead>>

\* One swap of the sweep.
Extract(a) ==
  LET p == at[a] IN
  /\ Ready(a, "sweep") /\ p <= Last
  /\ entry' = [entry EXCEPT ![p] = None]
  /\ IF entry[p] = None
     THEN at' = [at EXCEPT ![a] = p + 1] /\ UNCHANGED <<hand, pc>>
     ELSE hand' = [hand EXCEPT ![a] = entry[p]] /\ Goto(a, "kill") /\ UNCHANGED at
  /\ UNCHANGED <<handling, owners, stopping, interrupted, launch, signals, dead>>

Kill(a) ==
  /\ Ready(a, "kill")
  /\ Killed(Kind(at[a]), hand[a])
  /\ hand' = [hand EXCEPT ![a] = None]
  /\ at' = [at EXCEPT ![a] = @ + 1]
  /\ Goto(a, "sweep")
  /\ UNCHANGED <<registry, mine, place, launches, signals, dead>>

Leave(a) ==
  /\ Ready(a, "sweep") /\ at[a] > Last
  /\ handling' = handling - 1
  /\ Goto(a, "finish")
  /\ UNCHANGED <<entry, owners, stopping, interrupted, at, hand, launch, signals, dead>>

\* What a thread goes on with, and a launch without a child has no cgroup.
Resumed(a) ==
  IF a[2] = "run" /\ mine[a[1]]["group"] # None
  THEN Goto(a, "running") /\ UNCHANGED mine
  ELSE /\ Goto(a, "idle")
       /\ mine' = IF a[2] = "run" THEN [mine EXCEPT ![a[1]] = [k \in Kinds |-> None]] ELSE mine

\* A mutant: a handler dies of the signal whatever windows are open.
FinishFatally(a) ==
  /\ Ready(a, "finish")
  /\ owners' = owners - 1
  /\ IF stopping /\ (owners = 1 \/ a[2] = "handler")
     THEN Goto(a, "dying") /\ UNCHANGED mine
     ELSE Resumed(a)
  /\ UNCHANGED <<entry, handling, stopping, interrupted, at, hand, place, live, launches, signals, dead>>

\* A mutant: only a handler dies of the signal.
FinishOnlyHandlers(a) ==
  /\ Ready(a, "finish")
  /\ owners' = owners - 1
  /\ IF stopping /\ owners = 1 /\ a[2] = "handler"
     THEN Goto(a, "dying") /\ UNCHANGED mine
     ELSE Resumed(a)
  /\ UNCHANGED <<entry, handling, stopping, interrupted, at, hand, place, live, launches, signals, dead>>

\* Ownership is handed back, and the last owner of a stopping run dies of
\* the signal; nobody waits for anybody.
Finish(a) ==
  /\ Ready(a, "finish")
  /\ owners' = owners - 1
  /\ IF stopping /\ owners = 1
     THEN Goto(a, "dying") /\ UNCHANGED mine
     ELSE Resumed(a)
  /\ UNCHANGED <<entry, handling, stopping, interrupted, at, hand, place, live, launches, signals, dead>>

\* The default disposition is restored and the signal raised again; raised
\* by a handler it is taken when the handler returns.
Die(a) ==
  /\ Ready(a, "dying")
  /\ dead' = TRUE
  /\ UNCHANGED <<registry, pc, at, hand, launch, signals>>

-----------------------------------------------------------------------------
(* The end of a launch: observe or terminate, and the drop of the cgroup. *)

\* The leader has exited, or the launch is over budget: the cgroup and the
\* group are killed while the leader still holds the number.
Terminate(t) ==
  /\ Ready(Run(t), "running")
  /\ live' = [live EXCEPT ![t] = {}]
  /\ at' = [at EXCEPT ![Run(t)] = place[t]["group"]]
  /\ Goto(Run(t), "release")
  /\ UNCHANGED <<registry, hand, mine, place, launches, signals, dead>>

\* The slot is cleared unless it went to another launch in the meantime.
Release(t) ==
  LET a == Run(t)  p == at[a] IN
  /\ Ready(a, "release") \/ Ready(a, "revoke")
  /\ entry' = IF entry[p] = mine[t][Kind(p)] THEN [entry EXCEPT ![p] = None] ELSE entry
  /\ Goto(a, IF pc[a] = "revoke" THEN "revoking" ELSE "quiesce")
  /\ UNCHANGED <<handling, owners, stopping, interrupted, at, hand, launch, signals, dead>>

\* A mutant: nobody waits for the sweeps.
QuiesceAtOnce(t) ==
  /\ Ready(Run(t), "quiesce")
  /\ Goto(Run(t), "give up")
  /\ UNCHANGED <<registry, at, hand, launch, signals, dead>>

\* A sweep may still hold the identity that was in the slot.
Quiesce(t) ==
  /\ handling = 0
  /\ \/ /\ Ready(Run(t), "quiesce")
        /\ Goto(Run(t), "give up")
        /\ UNCHANGED place
     \/ /\ Ready(Run(t), "revoking")
        /\ Goto(Run(t), "abandon")
        /\ place' = [place EXCEPT ![t]["group"] = None]
  /\ UNCHANGED <<registry, at, hand, mine, live, launches, signals, dead>>

\* The leader is reaped, then the cgroup dropped and its descriptor closed.
GiveUp(t) ==
  LET a == Run(t)  k == Kind(at[a]) IN
  /\ Ready(a, "give up")
  /\ mine' = [mine EXCEPT ![t][k] = None]
  /\ place' = [place EXCEPT ![t][k] = None]
  /\ IF Sealed /\ k = "group"
     THEN Goto(a, "release") /\ at' = [at EXCEPT ![a] = place[t]["cgroup"]]
     ELSE Goto(a, "idle") /\ UNCHANGED at
  /\ UNCHANGED <<registry, hand, live, launches, signals, dead>>

-----------------------------------------------------------------------------
\* The process died, or every thread has made its launches.
Ended ==
  /\ \/ dead
     \/ \A a \in Actors : pc[a] = "idle" /\ launches[a[1]] = MaxLaunches
  /\ UNCHANGED vars

Sweeper(a) == Enter(a) \/ Extract(a) \/ Kill(a) \/ Leave(a) \/ Finish(a) \/ Die(a)

Progress(t) ==
  \/ Check(t) \/ Spawn(t) \/ SpawnFails(t) \/ Claim(t) \/ Confirm(t) \/ Abandon(t)
  \/ Close(t) \/ Publish(t) \/ Stop(t) \/ Release(t) \/ Quiesce(t) \/ GiveUp(t)

Next ==
  \/ \E t \in Threads :
       Prepare(t) \/ Escape(t) \/ Signal(t) \/ Terminate(t) \/ Progress(t)
  \/ \E a \in Actors : Sweeper(a)
  \/ Ended

Safety == Init /\ [][Next]_vars

\* A thread that can go on does, in its own code or in the handler that
\* suspends it; a child may hang for ever.
Thread(t) == Progress(t) \/ Sweeper(Run(t)) \/ Sweeper(Handler(t))
Spec == Safety /\ \A t \in Threads : WF_vars(Thread(t))
-----------------------------------------------------------------------------
(* Properties *)

Labels == {"idle", "opened", "spawn", "claim", "claimed", "abandon", "close",
           "publish", "stop", "enter", "sweep", "kill", "finish", "dying",
           "revoke", "revoking", "running", "release", "quiesce", "give up"}

\* Every variable keeps its type, an identity is in hand exactly between its
\* extraction and its kill, and neither counter goes below zero.
TypeOK ==
  /\ entry \in [Places -> Ids \cup {None}]
  /\ handling \in Nat /\ owners \in Nat
  /\ stopping \in BOOLEAN /\ interrupted \in BOOLEAN /\ dead \in BOOLEAN
  /\ pc \in [Actors -> Labels]
  /\ at \in [Actors -> 1..Last + 1]
  /\ hand \in [Actors -> Ids \cup {None}]
  /\ \A a \in Actors : pc[a] = "kill" <=> hand[a] # None
  /\ mine \in [Threads -> [Kinds -> Ids \cup {None}]]
  /\ place \in [Threads -> [Kinds -> Places \cup {None}]]
  /\ live \in [Threads -> SUBSET {"group", "strays"}]
  /\ launches \in [Threads -> Nat] /\ signals \in Nat

\* The process never dies of the signal while a process it launched lives:
\* not one spawned while the handler ran, not one registered in a slot the
\* sweep had passed, and on a sealed host not one that left its group.
NothingSurvives == dead => \A t \in Threads : live[t] = {}

\* A number a sweep is about to kill still belongs to the launch it was
\* registered for: it is not reaped, or closed, and so given to a stranger,
\* between the extraction and the kill.
IdentitiesPinned ==
  \A a \in Actors : pc[a] = "kill" =>
    \E t \in Threads : mine[t][Kind(at[a])] = hand[a]

WindowOpen(t) ==
  pc[Run(t)] \in {"opened", "spawn", "claim", "claimed", "revoke", "revoking",
                  "abandon", "close"}

\* An interrupt can find the launch of t: under this kind of identity it is
\* registered, or a sweep is about to kill it.
Reachable(t, k) ==
  \/ \E p \in Places : Kind(p) = k /\ entry[p] = mine[t][k]
  \/ \E a \in Actors : pc[a] = "kill" /\ Kind(at[a]) = k /\ hand[a] = mine[t][k]

\* A running launch is never out of an interrupt's reach, even when every
\* slot is taken or its slot changed hands: outside its spawn window its
\* group, and its strays through the cgroup, are registered or about to be
\* killed.
ChildrenReachable ==
  \A t \in Threads : ~WindowOpen(t) =>
    /\ "group" \in live[t] => Reachable(t, "group")
    /\ "strays" \in live[t] => Reachable(t, "cgroup")

\* An interrupted run ends, though no handler waits and whoever finds a
\* window open leaves dying to somebody else.
InterruptionEnds == interrupted ~> dead
=============================================================================
