--------------------------- MODULE ThrottlerProofs ---------------------------
(***************************************************************************)
(* The throttler's safety for any number of fetches, permits, durations    *)
(* and clock values.                                                       *)
(***************************************************************************)
EXTENDS Throttler, TLAPS

\* The flag, the time and the timer that will compare itself with it belong
\* together: a timer that ends early leaves the one that counts asleep.
TimerSleeps ==
  /\ paused <=> resume_at # None
  /\ resume_at # None => sleeping[resume_at] > 0

\* The time until which dispatching is certain to rest.
Rests == IF resume_at # None THEN Later(resume_at, now) ELSE now

\* No pause outlives the rest, however late it was established.
RestsLongEnough == accepted <= Rests /\ requested <= Rests + MIN_PAUSE_EXTENSION

\* Who decided to wait will hear of the resume, parked already or not.
WaiterWillWake ==
  \A r \in Repos : pc[r] \in {"waiting", "parked"} /\ r \notin notified =>
    rousing > 0 \/ paused

ThrottlerInv == TypeOK /\ TimerSleeps /\ RestsLongEnough /\ WaiterWillWake

-----------------------------------------------------------------------------

LEMMA InitInv == Init => ThrottlerInv
<1> SUFFICES ASSUME Init PROVE ThrottlerInv
  OBVIOUS
<1> USE ThrottlerAssumption DEF Init
<1>1. 0 \in Times /\ <<>> \in Seq(Repos)
  BY DEF Times
<1>4. /\ pc \in [Repos -> {"entering", "enrolled", "waiting", "parked", "queued", "granted",
                          "admitted", "asking", "pausing", "done"}]
      /\ answered \in [Repos -> Nat] /\ until \in [Repos -> Times] /\ sleeping \in [Times -> Nat]
  BY <1>1
<1>3. TypeOK
  BY <1>1, <1>4 DEF TypeOK
<1>2. TimerSleeps /\ RestsLongEnough /\ WaiterWillWake
  BY DEF TimerSleeps, RestsLongEnough, Rests, Later, WaiterWillWake
<1> QED
  BY <1>3, <1>2 DEF ThrottlerInv

-----------------------------------------------------------------------------
(* Types. *)

LEMMA TypeAcquire ==
  ASSUME TypeOK, NEW r \in Repos, Acquire(r)
  PROVE  TypeOK'
<1> USE DEF TypeOK, Goto, pause, history
<1>1. CASE Enroll(r)
  BY <1>1 DEF Enroll
<1>2. CASE Check(r)
  <2>1. queue \in Seq(Repos) /\ r \in Repos /\ (queue' = queue \/ queue' = Append(queue, r))
    BY <1>2 DEF Check
  <2>2. queue' \in Seq(Repos)
    BY ONLY <2>1
  <2> QED
    BY <1>2, <2>2 DEF Check
<1>3. CASE Await(r)
  BY <1>3 DEF Await
<1>4. CASE Wake(r)
  BY <1>4 DEF Wake
<1>5. CASE Grant(r)
  BY <1>5 DEF Grant
<1>6. CASE Recheck(r)
  BY <1>6 DEF Recheck
<1> QED
  BY <1>1, <1>2, <1>3, <1>4, <1>5, <1>6 DEF Acquire

LEMMA TypeFetch ==
  ASSUME TypeOK, NEW r \in Repos, Fetch(r)
  PROVE  TypeOK'
<1> USE ThrottlerAssumption DEF TypeOK, Goto, pause, history
<1>1. CASE Ask(r)
  BY <1>1 DEF Ask
<1>2. CASE Answer(r)
  BY <1>2 DEF Answer
<1>3. CASE Finish(r)
  BY <1>3 DEF Finish
<1>4. CASE Limit(r)
  <2>1. PICK d \in Durations :
          /\ now + d <= MaxTime
          /\ IF d = 0
             THEN Goto(r, "entering") /\ UNCHANGED until
             ELSE Goto(r, "pausing") /\ until' = [until EXCEPT ![r] = now + d]
    BY <1>4 DEF Limit
  <2>2. now + d \in Times
    BY <2>1 DEF Times
  <2>3. until' \in [Repos -> Times] /\ pc' \in [Repos -> {"entering", "enrolled", "waiting",
            "parked", "queued", "granted", "admitted", "asking", "pausing", "done"}]
    BY <2>1, <2>2
  <2>4. UNCHANGED <<queue, notified, answered, paused, resume_at, sleeping, rousing, now, accepted,
                    requested>> /\ limits' = limits + 1
    BY <1>4 DEF Limit
  <2> QED
    BY <2>3, <2>4
<1>5. CASE Pause(r)
  <2>1. until[r] \in Times /\ 0 \in Times
    BY DEF Times
  <2>2. requested' \in Times /\ accepted' \in Times
    BY <1>5, <2>1 DEF Pause, Later
  <2>3. paused' \in BOOLEAN /\ resume_at' \in Times \cup {None}
    BY <1>5, <2>1 DEF Pause
  <2>6. sleeping' = sleeping \/ sleeping' = [sleeping EXCEPT ![until[r]] = @ + 1]
    BY <1>5 DEF Pause
  <2>7. sleeping \in [Times -> Nat]
    OBVIOUS
  <2>8. sleeping' \in [Times -> Nat]
    BY ONLY <2>1, <2>6, <2>7
  <2>4. until' \in [Repos -> Times] /\ pc' = [pc EXCEPT ![r] = "entering"]
    BY <1>5, <2>1 DEF Pause
  <2>5. UNCHANGED <<queue, notified, answered, rousing, now, limits>>
    BY <1>5 DEF Pause
  <2> QED
    BY <2>2, <2>3, <2>4, <2>5, <2>8
<1> QED
  BY <1>1, <1>2, <1>3, <1>4, <1>5 DEF Fetch

LEMMA TypeTimers ==
  ASSUME TypeOK, (\E t \in Times : Expire(t)) \/ Rouse \/ Tick
  PROVE  TypeOK'
<1> USE ThrottlerAssumption DEF TypeOK, fetches, pause, history
<1>1. CASE \E t \in Times : Expire(t)
  <2>1. PICK t \in Times : Expire(t)
    BY <1>1
  <2>2. sleeping' = [sleeping EXCEPT ![t] = @ - 1] /\ sleeping[t] > 0
    BY <2>1 DEF Expire
  <2>3. sleeping \in [Times -> Nat] /\ t \in Times
    OBVIOUS
  <2>4. sleeping' \in [Times -> Nat]
    BY ONLY <2>2, <2>3
  <2>5. \/ paused' = FALSE /\ resume_at' = None /\ rousing' = rousing + 1
        \/ UNCHANGED <<paused, resume_at, rousing>>
    BY <2>1 DEF Expire
  <2>6. UNCHANGED <<pc, queue, notified, answered, until, now, limits, accepted, requested>>
    <3>1. UNCHANGED <<fetches, now, history>>
      BY <2>1 DEF Expire
    <3> QED
      BY ONLY <3>1 DEF fetches, history
  <2>7. paused \in BOOLEAN /\ resume_at \in Times \cup {None} /\ rousing \in Nat
    OBVIOUS
  <2>8. paused' \in BOOLEAN /\ resume_at' \in Times \cup {None} /\ rousing' \in Nat
    <3>1. CASE paused' = FALSE /\ resume_at' = None /\ rousing' = rousing + 1
      <4>1. rousing' \in Nat
        BY ONLY <3>1, <2>7
      <4>2. paused' \in BOOLEAN
        BY ONLY <3>1, Zenon
      <4>3. resume_at' \in Times \cup {None}
        BY ONLY <3>1, Zenon
      <4> QED
        BY <4>1, <4>2, <4>3
    <3>2. CASE UNCHANGED <<paused, resume_at, rousing>>
      BY ONLY <3>2, <2>7
    <3> QED
      BY ONLY <2>5, <3>1, <3>2
  <2> QED
    BY ONLY TypeOK, <2>4, <2>6, <2>8 DEF TypeOK
<1>2. CASE Rouse
  BY <1>2 DEF Rouse, Listening
<1>3. CASE Tick
  BY <1>3 DEF Tick, Times
<1> QED
  BY <1>1, <1>2, <1>3

-----------------------------------------------------------------------------
(* The pause and its timer. *)

\* What only fetches do leaves the pause as it is.
LEMMA QuietKeepsPause ==
  ASSUME TimerSleeps, RestsLongEnough, UNCHANGED pause, UNCHANGED <<accepted, requested, now>>
  PROVE  TimerSleeps' /\ RestsLongEnough'
BY DEF TimerSleeps, RestsLongEnough, Rests, pause

\* Pausing: either a later rest and its own timer, or the old one lasts long
\* enough.
LEMMA PauseKeepsRest ==
  ASSUME TypeOK, TimerSleeps, RestsLongEnough, NEW r \in Repos, Pause(r)
  PROVE  TimerSleeps' /\ RestsLongEnough'
<1> USE ThrottlerAssumption
<1>1. until[r] \in Nat /\ until[r] \in Times /\ now \in Nat /\ accepted \in Nat /\ requested \in Nat
      /\ (resume_at # None => resume_at \in Nat)
  BY DEF TypeOK, Times
<1>2. now' = now /\ requested' = Later(requested, until[r])
  BY DEF Pause
<1>3. CASE EquivalentOrLonger(until[r])
  <2>1. UNCHANGED <<paused, resume_at, sleeping, accepted>>
    BY <1>3 DEF Pause
  <2>2. resume_at # None /\ resume_at + MIN_PAUSE_EXTENSION >= until[r]
    BY <1>3 DEF EquivalentOrLonger
  <2> QED
    BY <1>1, <1>2, <2>1, <2>2 DEF TimerSleeps, RestsLongEnough, Rests, Later
<1>4. CASE ~EquivalentOrLonger(until[r])
  <2>1. /\ paused' = TRUE /\ resume_at' = until[r] /\ accepted' = Later(accepted, until[r])
        /\ sleeping' = [sleeping EXCEPT ![until[r]] = @ + 1]
    BY <1>4 DEF Pause
  <2>2. sleeping'[until[r]] > 0
    BY <1>1, <2>1 DEF TypeOK
  <2>3. resume_at # None => resume_at < until[r]
    BY <1>1, <1>4 DEF EquivalentOrLonger
  <2>4. until[r] # None
    BY <1>1
  <2> QED
    BY <1>1, <1>2, <2>1, <2>2, <2>3, <2>4 DEF TimerSleeps, RestsLongEnough, Rests, Later
<1> QED
  BY <1>3, <1>4

\* A timer: it lifts the pause it finds over, and is not the one that counts
\* otherwise.
LEMMA ExpireKeepsRest ==
  ASSUME TypeOK, TimerSleeps, RestsLongEnough, NEW t \in Times, Expire(t)
  PROVE  TimerSleeps' /\ RestsLongEnough'
<1> USE ThrottlerAssumption
<1>1. t \in Nat /\ now \in Nat /\ accepted \in Nat /\ requested \in Nat
      /\ (resume_at # None => resume_at \in Nat /\ resume_at \in Times)
  BY DEF TypeOK, Times
<1>2. UNCHANGED <<now, accepted, requested>> /\ now >= t
  BY DEF Expire, history
<1>3. CASE resume_at # None /\ now >= resume_at
  <2>1. resume_at' = None /\ paused' = FALSE
    BY <1>3 DEF Expire
  <2> QED
    BY <1>1, <1>2, <1>3, <2>1 DEF TimerSleeps, RestsLongEnough, Rests, Later
<1>4. CASE ~(resume_at # None /\ now >= resume_at)
  <2>1. UNCHANGED <<resume_at, paused>> /\ sleeping' = [sleeping EXCEPT ![t] = @ - 1]
    BY <1>4 DEF Expire
  <2>2. resume_at # None => sleeping'[resume_at] = sleeping[resume_at]
    BY <1>1, <1>2, <1>4, <2>1 DEF TypeOK
  <2> QED
    BY <1>2, <2>1, <2>2 DEF TimerSleeps, RestsLongEnough, Rests
<1> QED
  BY <1>3, <1>4

LEMMA RestKept ==
  ASSUME TypeOK, TimerSleeps, RestsLongEnough, [Next]_vars
  PROVE  TimerSleeps' /\ RestsLongEnough'
<1>1. CASE \E r \in Repos : Acquire(r)
  <2>1. UNCHANGED pause /\ UNCHANGED <<accepted, requested, now>>
    BY <1>1 DEF Acquire, Enroll, Check, Await, Wake, Grant, Recheck, history
  <2> QED
    BY <2>1, QuietKeepsPause
<1>2. CASE \E r \in Repos : Fetch(r)
  <2>1. PICK r \in Repos : Fetch(r)
    BY <1>2
  <2>2. CASE Pause(r)
    BY <2>2, PauseKeepsRest
  <2>3. CASE ~Pause(r)
    <3>1. UNCHANGED pause /\ UNCHANGED <<accepted, requested, now>>
      BY <2>1, <2>3 DEF Fetch, Ask, Answer, Finish, Limit, history
    <3> QED
      BY <3>1, QuietKeepsPause
  <2> QED
    BY <2>2, <2>3
<1>3. CASE \E t \in Times : Expire(t)
  BY <1>3, ExpireKeepsRest
<1>4. CASE Rouse
  BY <1>4 DEF Rouse, history, TimerSleeps, RestsLongEnough, Rests
<1>5. CASE Tick
  <2>1. UNCHANGED <<paused, resume_at, sleeping, accepted, requested>> /\ now' = now + 1
    BY <1>5 DEF Tick, pause, history
  <2>2. now \in Nat /\ accepted \in Nat /\ requested \in Nat /\ MIN_PAUSE_EXTENSION \in Nat
        /\ (resume_at # None => resume_at \in Nat)
    BY ThrottlerAssumption DEF TypeOK, Times
  <2> QED
    BY <2>1, <2>2 DEF TimerSleeps, RestsLongEnough, Rests, Later
<1>6. CASE UNCHANGED vars
  BY <1>6, QuietKeepsPause DEF vars, pause
<1> QED
  BY <1>1, <1>2, <1>3, <1>4, <1>5, <1>6 DEF Next, Done

-----------------------------------------------------------------------------
(* No resume is lost. *)

LEMMA WakeKept ==
  ASSUME TypeOK, TimerSleeps, WaiterWillWake, [Next]_vars
  PROVE  WaiterWillWake'
<1> SUFFICES ASSUME NEW q \in Repos, pc'[q] \in {"waiting", "parked"}, q \notin notified'
             PROVE  rousing' > 0 \/ paused'
  BY DEF WaiterWillWake
<1>0. rousing \in Nat /\ pc \in [Repos -> {"entering", "enrolled", "waiting", "parked", "queued",
         "granted", "admitted", "asking", "pausing", "done"}]
  BY DEF TypeOK
<1>1. CASE \E r \in Repos : Acquire(r)
  <2>1. PICK r \in Repos : Acquire(r)
    BY <1>1
  <2>2. UNCHANGED <<rousing, paused>>
    BY <2>1 DEF Acquire, Enroll, Check, Await, Wake, Grant, Recheck, pause
  <2>3. CASE q # r
    <3>1. pc'[q] = pc[q] /\ q \notin notified
      BY <1>0, <2>1, <2>3 DEF Acquire, Enroll, Check, Await, Wake, Grant, Recheck, Goto
    <3> QED
      BY <2>2, <3>1 DEF WaiterWillWake
  <2>4. CASE q = r
    <3>1. Check(r) \/ Await(r)
      BY <1>0, <2>1, <2>4 DEF Acquire, Enroll, Wake, Grant, Recheck, Goto
    <3>2. CASE Check(r)
      BY <1>0, <2>2, <2>4, <3>2 DEF Check, Goto
    <3>3. CASE Await(r)
      BY <2>2, <2>4, <3>3 DEF Await, WaiterWillWake
    <3> QED
      BY <3>1, <3>2, <3>3
  <2> QED
    BY <2>3, <2>4
<1>2. CASE \E r \in Repos : Fetch(r)
  <2>1. PICK r \in Repos : Fetch(r)
    BY <1>2
  <2>2. rousing' = rousing /\ notified' = notified /\ (paused => paused')
    BY <2>1 DEF Fetch, Ask, Answer, Finish, Limit, Pause, pause
  <2>3. pc'[q] = pc[q]
    BY <1>0, <2>1 DEF Fetch, Ask, Answer, Finish, Limit, Pause, Goto
  <2> QED
    BY <2>2, <2>3 DEF WaiterWillWake
<1>3. CASE \E t \in Times : Expire(t)
  <2>1. PICK t \in Times : Expire(t)
    BY <1>3
  <2>2. pc' = pc /\ notified' = notified
    BY <2>1 DEF Expire, fetches
  <2>3. UNCHANGED <<paused, rousing>> \/ rousing' > 0
    BY <1>0, <2>1 DEF Expire
  <2> QED
    BY <2>2, <2>3 DEF WaiterWillWake
<1>4. CASE Rouse
  BY <1>4 DEF Rouse, Listening
<1>5. CASE Tick
  BY <1>5 DEF Tick, fetches, pause, WaiterWillWake
<1>6. CASE UNCHANGED vars
  BY <1>6 DEF vars, WaiterWillWake
<1> QED
  BY <1>1, <1>2, <1>3, <1>4, <1>5, <1>6 DEF Next, Done

-----------------------------------------------------------------------------

LEMMA InvKept == ThrottlerInv /\ [Next]_vars => ThrottlerInv'
<1> SUFFICES ASSUME ThrottlerInv, [Next]_vars PROVE ThrottlerInv'
  OBVIOUS
<1>1. TypeOK'
  <2>1. CASE UNCHANGED vars
    BY <2>1 DEF ThrottlerInv, TypeOK, vars
  <2> QED
    BY <2>1, TypeAcquire, TypeFetch, TypeTimers DEF ThrottlerInv, Next, Done
<1>2. TimerSleeps' /\ RestsLongEnough'
  BY RestKept DEF ThrottlerInv
<1>3. WaiterWillWake'
  BY WakeKept DEF ThrottlerInv
<1> QED
  BY <1>1, <1>2, <1>3 DEF ThrottlerInv

LEMMA InvHolds == Safety => []ThrottlerInv
BY InitInv, InvKept, PTL DEF Safety

\* Every variable keeps its type in every behaviour of the throttler and its
\* fetches.
THEOREM TypesHold == Safety => []TypeOK
<1>1. ThrottlerInv => TypeOK
  BY DEF ThrottlerInv
<1> QED
  BY <1>1, InvHolds, PTL

\* The longest pause wins: pause_for and try_resume never open the throttler
\* while a pause that was asked for, less the tolerance, has time to run.
THEOREM LongestWins == Safety => []LongestPauseWins
<1>1. ThrottlerInv => LongestPauseWins
  BY DEF ThrottlerInv, TimerSleeps, RestsLongEnough, Rests, LongestPauseWins
<1> QED
  BY <1>1, InvHolds, PTL

\* acquire loses no resume: whoever parks is notified already, or will be by
\* a timer that sleeps or a notification on its way.
THEOREM NoResumeLost == Safety => []ParkedWillWake
<1>1. ThrottlerInv => ParkedWillWake
  BY DEF ThrottlerInv, TimerSleeps, WaiterWillWake, ParkedWillWake
<1> QED
  BY <1>1, InvHolds, PTL
=============================================================================
