------------------------------ MODULE Throttler ------------------------------
(***************************************************************************)
(* The shared throttler of cargo-aprz-lib/src/facts/throttler.rs and the   *)
(* fetch loop of facts/hosting/provider.rs that works through it: permits, *)
(* and pauses that one rate-limited fetch imposes on all.                  *)
(*                                                                         *)
(* A step is one atomic operation, one critical section of the resume_at   *)
(* lock, or one await.  A timer task that slept for a pause's duration     *)
(* wakes at its end or later.                                              *)
(***************************************************************************)
EXTENDS Naturals, Sequences, FiniteSets

CONSTANTS
  Repos,           \* one fetch each
  MaxConcurrent,   \* the semaphore's permits
  Requests,        \* HTTP requests one fetch makes: the repository and issue pages
  Durations,       \* how long a rate limit may ask to wait; 0 when it is over
  MIN_PAUSE_EXTENSION,
  MaxLimits,       \* bound on rate-limited answers
  MaxTime,         \* bound on the clock
  None

ASSUME ThrottlerAssumption ==
  /\ MaxConcurrent \in Nat \ {0} /\ Requests \in Nat \ {0}
  /\ Durations \subseteq Nat /\ MIN_PAUSE_EXTENSION \in Nat
  /\ MaxLimits \in Nat /\ MaxTime \in Nat /\ None \notin Nat

VARIABLES
  pc,          \* each fetch's next step
  queue,       \* the semaphore's waiters, first come first served
  notified,    \* fetches whose Notified future has been completed
  answered,    \* requests answered in the current attempt
  until,       \* new_resume_at of a pause being requested
  paused,      \* the flag
  resume_at,   \* when the pause ends
  sleeping,    \* how many timer tasks sleep until each time
  rousing,     \* timers that lifted a pause and have yet to notify
  now,         \* the clock
  limits,      \* rate-limited answers so far
  accepted,    \* history: the latest end of a pause that was established
  requested    \* history: the latest end of a pause that was asked for

vars == <<pc, queue, notified, answered, until, paused, resume_at, sleeping, rousing, now,
          limits, accepted, requested>>
fetches == <<pc, queue, notified, answered, until>>
pause == <<paused, resume_at, sleeping, rousing>>
history == <<limits, accepted, requested>>

Times == 0..MaxTime

\* The permit lives from its grant to the end of the attempt.
Holders == {r \in Repos : pc[r] \in {"granted", "admitted", "asking", "pausing"}}

\* A mutant: a Notified future listens only once it is awaited.
ListeningWhenAwaited == {r \in Repos : pc[r] = "parked"}

\* The Notified future is enabled before the flag is read and lives through
\* the iteration of acquire's loop.
Listening == {r \in Repos : pc[r] \in {"enrolled", "waiting", "parked", "queued", "granted"}}

Goto(r, step) == pc' = [pc EXCEPT ![r] = step]

Init ==
  /\ pc = [r \in Repos |-> "entering"]
  /\ queue = <<>> /\ notified = {}
  /\ answered = [r \in Repos |-> 0] /\ until = [r \in Repos |-> 0]
  /\ paused = FALSE /\ resume_at = None
  /\ sleeping = [t \in Times |-> 0] /\ rousing = 0
  /\ now = 0 /\ limits = 0 /\ accepted = 0 /\ requested = 0

-----------------------------------------------------------------------------
(* Throttler::acquire. *)

\* Each attempt starts from nothing.
Enroll(r) ==
  /\ pc[r] = "entering" /\ Goto(r, "enrolled")
  /\ notified' = notified \ {r}
  /\ answered' = [answered EXCEPT ![r] = 0]
  /\ UNCHANGED <<queue, until, pause, now, history>>

\* The first look at the flag: wait for the resume, or for a permit.
Check(r) ==
  /\ pc[r] = "enrolled"
  /\ IF paused
     THEN Goto(r, "waiting") /\ UNCHANGED queue
     ELSE Goto(r, "queued") /\ queue' = Append(queue, r)
  /\ UNCHANGED <<notified, answered, until, pause, now, history>>

Await(r) ==
  /\ pc[r] = "waiting"
  /\ Goto(r, IF r \in notified THEN "entering" ELSE "parked")
  /\ UNCHANGED <<queue, notified, answered, until, pause, now, history>>

Wake(r) ==
  /\ pc[r] = "parked" /\ r \in notified
  /\ Goto(r, "entering")
  /\ UNCHANGED <<queue, notified, answered, until, pause, now, history>>

Grant(r) ==
  /\ queue # <<>> /\ r = Head(queue) /\ Cardinality(Holders) < MaxConcurrent
  /\ queue' = Tail(queue) /\ Goto(r, "granted")
  /\ UNCHANGED <<notified, answered, until, pause, now, history>>

\* A mutant: the second look is the wrong way round.
RecheckNegated(r) ==
  /\ pc[r] = "granted"
  /\ Goto(r, IF paused THEN "admitted" ELSE "entering")
  /\ UNCHANGED <<queue, notified, answered, until, pause, now, history>>

\* The second look, with the permit in hand.
Recheck(r) ==
  /\ pc[r] = "granted"
  /\ Goto(r, IF paused THEN "entering" ELSE "admitted")
  /\ UNCHANGED <<queue, notified, answered, until, pause, now, history>>

-----------------------------------------------------------------------------
(* fetch_with_retry and fetch_hosting_data_for_repo. *)

\* Before each request: a pause another fetch began ends this attempt.
Ask(r) ==
  /\ pc[r] = "admitted"
  /\ Goto(r, IF paused THEN "entering" ELSE "asking")
  /\ UNCHANGED <<queue, notified, answered, until, pause, now, history>>

Answer(r) ==
  /\ pc[r] = "asking"
  /\ answered' = [answered EXCEPT ![r] = @ + 1]
  /\ Goto(r, IF answered[r] + 1 = Requests THEN "done" ELSE "admitted")
  /\ UNCHANGED <<queue, notified, until, pause, now, history>>

\* A cached result, a request that failed for good, a page that was the last.
Finish(r) ==
  /\ pc[r] \in {"admitted", "asking"} /\ Goto(r, "done")
  /\ UNCHANGED <<queue, notified, answered, until, pause, now, history>>

\* The rate limit: wait until its reset, unless that has passed.
Limit(r) ==
  /\ pc[r] = "asking" /\ limits < MaxLimits
  /\ limits' = limits + 1
  /\ \E d \in Durations :
       /\ now + d <= MaxTime
       /\ IF d = 0
          THEN Goto(r, "entering") /\ UNCHANGED until
          ELSE Goto(r, "pausing") /\ until' = [until EXCEPT ![r] = now + d]
  /\ UNCHANGED <<queue, notified, answered, pause, now, accepted, requested>>

\* A mutant: the shorter of two pauses wins.
EquivalentOrShorter(new) == resume_at # None /\ resume_at <= new

\* pause_is_equivalent_or_longer
EquivalentOrLonger(new) == resume_at # None /\ resume_at + MIN_PAUSE_EXTENSION >= new

Later(s, t) == IF s >= t THEN s ELSE t

\* pause_for, under the lock, and the timer it spawns.
Pause(r) ==
  /\ pc[r] = "pausing" /\ Goto(r, "entering")
  /\ requested' = Later(requested, until[r])
  /\ IF EquivalentOrLonger(until[r])
     THEN UNCHANGED <<paused, resume_at, sleeping, accepted>>
     ELSE /\ paused' = TRUE /\ resume_at' = until[r]
          /\ sleeping' = [sleeping EXCEPT ![until[r]] = @ + 1]
          /\ accepted' = Later(accepted, until[r])
  /\ until' = [until EXCEPT ![r] = 0]
  /\ UNCHANGED <<queue, notified, answered, rousing, now, limits>>

-----------------------------------------------------------------------------
(* The timer tasks. *)

\* try_resume: only at the end of the pause in force.
Expire(t) ==
  /\ sleeping[t] > 0 /\ now >= t
  /\ sleeping' = [sleeping EXCEPT ![t] = @ - 1]
  /\ IF resume_at # None /\ now >= resume_at
     THEN resume_at' = None /\ paused' = FALSE /\ rousing' = rousing + 1
     ELSE UNCHANGED <<resume_at, paused, rousing>>
  /\ UNCHANGED <<fetches, now, history>>

\* notify_waiters, after the lock is released.
Rouse ==
  /\ rousing > 0
  /\ rousing' = rousing - 1
  /\ notified' = notified \cup Listening
  /\ UNCHANGED <<pc, queue, answered, until, paused, resume_at, sleeping, now, history>>

Tick ==
  /\ now < MaxTime /\ now' = now + 1
  /\ UNCHANGED <<fetches, pause, history>>

Acquire(r) == Enroll(r) \/ Check(r) \/ Await(r) \/ Wake(r) \/ Grant(r) \/ Recheck(r)
Fetch(r) == Ask(r) \/ Answer(r) \/ Finish(r) \/ Limit(r) \/ Pause(r)
Done == (\A r \in Repos : pc[r] = "done") /\ UNCHANGED vars

Next == \/ \E r \in Repos : Acquire(r) \/ Fetch(r)
        \/ \E t \in Times : Expire(t)
        \/ Rouse \/ Tick \/ Done

\* The executor polls what is ready, timers fire, and every request is
\* answered, by the host or by the client's own timeout.
Fairness ==
  /\ \A r \in Repos : WF_vars(Acquire(r)) /\ WF_vars(Fetch(r))
  /\ \A t \in Times : WF_vars(Expire(t))
  /\ WF_vars(Rouse) /\ WF_vars(Tick)

Safety == Init /\ [][Next]_vars
Spec == Safety /\ Fairness

-----------------------------------------------------------------------------
(* Properties. *)

TypeOK ==
  /\ pc \in [Repos -> {"entering", "enrolled", "waiting", "parked", "queued", "granted",
                       "admitted", "asking", "pausing", "done"}]
  /\ queue \in Seq(Repos) /\ notified \subseteq Repos
  /\ answered \in [Repos -> Nat] /\ until \in [Repos -> Times]
  /\ paused \in BOOLEAN /\ resume_at \in Times \cup {None}
  /\ sleeping \in [Times -> Nat] /\ rousing \in Nat
  /\ now \in Times /\ limits \in Nat /\ accepted \in Times /\ requested \in Times

\* Dispatching never resumes before the longest pause is over: whoever asked
\* in what order and whichever timer fired last, when the throttler is open
\* every pause that was established has ended, and every pause that was asked
\* for ends within the tolerance that let it be ignored.
LongestPauseWins ==
  ~paused => now >= accepted /\ now + MIN_PAUSE_EXTENSION >= requested

\* No resume is lost between the look at the flag and the wait: a parked
\* fetch that has not been notified waits for a pause in force, whose own timer
\* still sleeps however many pauses it replaced, or for a notification on its
\* way.
ParkedWillWake ==
  \A r \in Repos : pc[r] = "parked" /\ r \notin notified =>
    rousing > 0 \/ (paused /\ resume_at # None /\ sleeping[resume_at] > 0)

\* Once the host stops limiting, every fetch returns, and with it the query.
EveryFetchReturns == <>(\A r \in Repos : pc[r] = "done")
=============================================================================
