---------------------------- MODULE VerdictProofs ----------------------------
(***************************************************************************)
(* The launches of a test binary and the verdict they add up to, for any   *)
(* set of attempts a run may ask for.                                      *)
(***************************************************************************)
EXTENDS Verdict, SequenceTheorems, TLAPS

Authoritative == "authoritative"

\* Before the first launch, and while a later one goes its way, nothing of a
\* launch exists.
Unborn ==
  pc \in {"start", "away"} =>
    /\ leader = "none" /\ others = {}
    /\ pipe = [s \in Streams |-> <<>>] /\ kept = [s \in Streams |-> {}]
    /\ reader = [s \in Streams |-> "done"]

\* A budget that is not there cannot run out.
Budgeted == overdue => attempt.timeout # 0

\* A launch is settled on something that was found.
Reasoned ==
  /\ pc \in {"cut", "drain"} =>
       /\ why = "stalled" => attempt.stall # 0
       /\ why = "overdue" => attempt.timeout # 0
       /\ why = "named" => ~nextest
  /\ pc = "cut" => why \in {"unread", "unasked", "startup", "named", "stalled", "overdue"}
  /\ pc = "drain" => why \notin {"none", "unread"}

\* What is drained is over, unless containment was lost.
Finished ==
  pc = "drain" /\ why # "uncontained" => leader = "none" /\ "descendant" \notin others

\* Only a test process's own lines are read, and nextest announces a failure
\* before it replays the reason.
Spoken ==
  \A s \in Streams :
    /\ \A line \in kept[s] : <<s, line>> \in Lines
    /\ \A i \in DOMAIN pipe[s] : <<s, pipe[s][i]>> \in Lines

InOrder(lines) ==
  \A i \in DOMAIN lines : lines[i] = "startup failure" =>
    \E j \in 1..(i - 1) : lines[j] = "failure"

Announced ==
  nextest =>
    \/ "failure" \in kept[Authoritative]
    \/ "startup failure" \notin kept[Authoritative] /\ InOrder(pipe[Authoritative])

\* News that the supervisor has already looked past moves the pulse, or is
\* about to.
Telling == \E s \in Streams : reader[s] = "raise"
Waking == \E s \in Streams : reader[s] \in {"raise", "rouse"}

News == startup \/ (failed /\ ~nextest /\ ~attempt.baseline /\ pc # "failure")

Told ==
  News => /\ pc \in {"failure", "budgets", "doze"} => moved \/ Telling
          /\ pc = "asleep" => Waking

\* The ladder's memory.
Climbing ==
  /\ stage = "ladder" =>
       /\ Len(seen) = round /\ attempt.active = asked.active
       /\ round = 0 => checked = "none" /\ attempt = asked
       /\ round > 0 => /\ checked # "none" /\ seen[round].class = checked
                       /\ attempt = Checking(checked)
  /\ stage = "control" =>
       /\ attempt = Exonerating
       /\ \E i \in DOMAIN seen : seen[i].class = "TestEnumerationFailed"
                                 /\ seen[i].attempt.active = asked.active

LaunchInv == /\ Unborn /\ Budgeted /\ Reasoned /\ Finished /\ Spoken /\ Announced /\ Told
             /\ ContractKept /\ Contained /\ StartupFailureDisqualifies
LadderInv == Climbing /\ SecondLook /\ OnlyTheMutantConvicts
VerdictInv == TypeOK /\ LaunchInv /\ LadderInv

USE DEF Streams

-----------------------------------------------------------------------------
(* The initial states. *)

LEMMA InitInv == Init => VerdictInv
<1> SUFFICES ASSUME Init PROVE VerdictInv
  OBVIOUS
<1> USE AttemptsAssumption DEF Init, Fresh
<1>1. TypeOK
  <2>1. <<>> \in Seq({"failure", "startup failure"})
    OBVIOUS
  <2>2. <<>> \in Seq([attempt : AttemptType, class : Classes])
    OBVIOUS
  <2>3. attempt \in AttemptType /\ asked \in Attempts /\ nextest \in BOOLEAN
    OBVIOUS
  <2>4. overdue \in BOOLEAN /\ moved \in BOOLEAN
    OBVIOUS
  <2>5. pipe \in [Streams -> Seq({"failure", "startup failure"})]
    BY <2>1
  <2>6. /\ reader \in [Streams -> {"reading", "raise", "rouse", "last raise", "last rouse", "done"}]
        /\ kept \in [Streams -> SUBSET {"failure", "startup failure"}]
    OBVIOUS
  <2> QED
    BY <2>2, <2>3, <2>4, <2>5, <2>6 DEF TypeOK, CONFIRM_ROUNDS
<1>2. Unborn /\ Budgeted /\ Reasoned /\ Finished
  BY DEF Unborn, Budgeted, Reasoned, Finished
<1>3. Spoken /\ Announced
  BY DEF Spoken, Announced, InOrder, Authoritative
<1>4. Told /\ ContractKept /\ Contained /\ StartupFailureDisqualifies
  BY DEF Told, News, startup, failed, ContractKept, Contained, StartupFailureDisqualifies
<1>5. Climbing
  BY DEF Climbing
<1>6. SecondLook /\ OnlyTheMutantConvicts
  BY DEF SecondLook, OnlyTheMutantConvicts
<1> QED
  BY <1>1, <1>2, <1>3, <1>4, <1>5, <1>6 DEF VerdictInv, LaunchInv, LadderInv

-----------------------------------------------------------------------------
(* The steps. *)

\* A launch is found settled only by the step that settles it.
LEMMA SettledNow ==
  ASSUME [Next]_vars, pc' = "settled"
  PROVE  \/ (Refuse \/ Cut \/ Drain \/ Return) /\ UNCHANGED ladder
         \/ UNCHANGED vars
<1> USE DEF World
<1>1. CASE UNCHANGED vars
  BY <1>1
<1>2. CASE Supervisor /\ UNCHANGED ladder
  <2>1. CASE Spawn \/ Sample \/ Observe \/ ObserveFails
    BY <2>1 DEF Spawn, Sample, Observe, ObserveFails
  <2>2. CASE LookAtStartup \/ LookAtFailure \/ LookAtBudgets \/ Doze \/ WakeByItself
    BY <2>2 DEF LookAtStartup, LookAtFailure, LookAtBudgets, Doze, WakeByItself
  <2> QED
    BY <1>2, <2>1, <2>2 DEF Supervisor
<1>3. CASE World /\ UNCHANGED ladder
  <2>1. pc # "settled"
    BY <1>3
  <2>2. CASE \E s \in Streams : Reader(s)
    <3>1. PICK s \in Streams : Reader(s)
      BY <2>2
    <3> QED
      BY <2>1, <3>1 DEF Reader, Read, EndOfStream, ReadFails, Hand, Raise, Rouse
  <2>3. CASE UNCHANGED pc
    BY <2>1, <2>3
  <2>4. (\E s \in Streams : Reader(s)) \/ UNCHANGED pc
    BY <1>3 DEF Write, Fork, Depart, Exit, Expire
  <2> QED
    BY <2>2, <2>3, <2>4
<1>4. CASE Return /\ UNCHANGED ladder
  BY <1>4
<1>5. CASE Judge
  BY <1>5 DEF Judge, Confirm, Control, Conclude, Attribute, Relaunch, Settle
<1> QED
  BY <1>1, <1>2, <1>3, <1>4, <1>5 DEF Next

LEMMA ContractStep ==
  ASSUME VerdictInv, [Next]_vars
  PROVE  ContractKept'
<1> SUFFICES ASSUME pc' = "settled" PROVE verdict' \in Outcomes'
  BY DEF ContractKept
<1>1. CASE UNCHANGED vars
  BY <1>1 DEF vars, VerdictInv, LaunchInv, ContractKept, Outcomes
<1>2. ASSUME Refuse \/ Cut \/ Drain \/ Return PROVE Outcomes' = Outcomes
  BY <1>2 DEF Refuse, Cut, Drain, Return, Outcomes
<1>3. CASE Refuse \/ Return
  BY <1>2, <1>3 DEF Refuse, Return, Outcomes
<1>4. CASE Cut
  <2>1. verdict' \in {"Unjudged", "Unmetered"}
    BY <1>4 DEF Cut, Settled
  <2> QED
    BY <1>2, <1>4, <2>1 DEF Outcomes
<1>5. CASE Drain
  <2> USE <1>5 DEF Drain, Settled, Outcomes
  <2>1. /\ why = "stalled" => attempt.stall # 0
        /\ why = "overdue" => attempt.timeout # 0
        /\ why \notin {"none", "unread"}
    BY DEF VerdictInv, LaunchInv, Reasoned
  <2>2. why \in {"unasked", "uncontained", "startup", "named", "stalled", "overdue"} \cup Exits
    BY <2>1 DEF VerdictInv, TypeOK
  <2>3. CASE why \in Exits
    BY <1>2, <2>3 DEF Exits, OfExit
  <2>4. CASE why \in {"stalled", "overdue"}
    <3>1. why \notin Exits
      BY <2>4 DEF Exits
    <3>2. \E breached \in BOOLEAN : verdict' = OfBudget(breached)
      BY <2>4, <3>1
    <3> QED
      BY <1>2, <2>1, <2>4, <3>2 DEF OfBudget
  <2>5. CASE why \in {"unasked", "uncontained", "startup", "named"}
    BY <1>2, <2>5 DEF Exits
  <2> QED
    BY <2>2, <2>3, <2>4, <2>5
<1> QED
  BY <1>1, <1>3, <1>4, <1>5, SettledNow

LEMMA ContainedStep ==
  ASSUME VerdictInv, [Next]_vars
  PROVE  Contained'
<1> SUFFICES ASSUME pc' = "settled", verdict' # "Unmetered"
             PROVE  leader' = "none" /\ "descendant" \notin others'
  BY DEF Contained
<1> USE DEF VerdictInv, LaunchInv
<1>1. CASE UNCHANGED vars
  BY <1>1 DEF vars, Contained
<1>2. CASE Refuse \/ Return
  BY <1>2 DEF Refuse, Return, Unborn
<1>3. CASE Cut
  BY <1>3 DEF Cut, Settled
<1>4. CASE Drain
  <2>1. why # "uncontained"
    BY <1>4 DEF Drain, Settled, Exits
  <2> QED
    BY <1>4, <2>1 DEF Drain, Finished
<1> QED
  BY <1>1, <1>2, <1>3, <1>4, SettledNow

LEMMA StartupStep ==
  ASSUME VerdictInv, [Next]_vars
  PROVE  StartupFailureDisqualifies'
<1> SUFFICES ASSUME pc' = "settled", startup', nextest' \/ why' \in Exits'
             PROVE  verdict' \in {"Unmetered", "Unjudged"}
  BY DEF StartupFailureDisqualifies
<1> USE DEF VerdictInv, LaunchInv
<1>1. CASE UNCHANGED vars
  BY <1>1 DEF vars, StartupFailureDisqualifies, startup, Exits
<1>2. CASE Refuse \/ Return
  BY <1>2 DEF Refuse, Return, Unborn, startup
<1>3. CASE Cut
  BY <1>3 DEF Cut, Settled
<1>4. CASE Drain
  <2>1. startup /\ (nextest \/ why \in Exits)
    BY <1>4 DEF Drain, startup, Exits
  <2>2. CASE why \in Exits
    <3>1. \E breached \in BOOLEAN : verdict' = OfExit(breached)
      BY <1>4, <2>2 DEF Drain, Settled, Exits
    <3>2. ASSUME NEW breached PROVE OfExit(breached) = "Unmetered"
      BY <2>1 DEF OfExit
    <3> QED
      BY <3>1, <3>2
  <2>3. CASE why \notin Exits
    <3>1. nextest /\ why # "named"
      BY <1>4, <2>1, <2>3 DEF Reasoned, Drain
    <3>2. "startup failure" \in kept["authoritative"]
      BY <2>1, <3>1 DEF startup, Spoken, Lines, Complaints
    <3>3. failed
      BY <3>1, <3>2 DEF Announced, Authoritative, failed
    <3>4. CASE why \in {"stalled", "overdue"}
      BY <1>4, <2>3, <3>1, <3>3, <3>4 DEF Drain, Settled, OfBudget
    <3>5. CASE why \in {"startup", "uncontained", "unasked"}
      BY <1>4, <2>3, <3>5 DEF Drain, Settled
    <3>6. why \in {"startup", "uncontained", "unasked", "stalled", "overdue"}
      BY <1>4, <2>3, <3>1 DEF TypeOK, Reasoned, Drain
    <3> QED
      BY <3>4, <3>5, <3>6
  <2> QED
    BY <2>2, <2>3
<1> QED
  BY <1>1, <1>2, <1>3, <1>4, SettledNow

\* The child, what it started and its readers act on a launch that is
\* supervised or being settled.
LEMMA WorldSteps ==
  ASSUME World
  PROVE  /\ pc \notin {"settled", "away", "over"}
         /\ \/ \E s \in Streams, line \in {"failure", "startup failure"} : Write(s, line)
            \/ \E where \in {"descendant", "stray"} : Fork(where) \/ Depart(where)
            \/ \E status \in Exits : Exit(status)
            \/ Expire
            \/ \E s \in Streams : Read(s) \/ Hand(s) \/ Raise(s) \/ Rouse(s)
BY DEF World, Reader, EndOfStream, ReadFails

LEMMA UnbornStep ==
  ASSUME VerdictInv, [Next]_vars
  PROVE  Unborn'
<1> SUFFICES ASSUME pc' \in {"start", "away"}
             PROVE  /\ leader' = "none" /\ others' = {}
                    /\ pipe' = [s \in Streams |-> <<>>] /\ kept' = [s \in Streams |-> {}]
                    /\ reader' = [s \in Streams |-> "done"]
  BY DEF Unborn
<1> USE DEF VerdictInv, LaunchInv
<1>1. CASE UNCHANGED vars
  BY <1>1 DEF vars, Unborn
<1>2. CASE Supervisor
  <2>1. CASE Refuse \/ Spawn \/ Sample \/ Observe \/ ObserveFails
    BY <2>1 DEF Refuse, Spawn, Sample, Observe, ObserveFails
  <2>2. CASE LookAtStartup \/ LookAtFailure \/ LookAtBudgets \/ Doze \/ WakeByItself
    BY <2>2 DEF LookAtStartup, LookAtFailure, LookAtBudgets, Doze, WakeByItself
  <2>3. CASE Cut \/ Drain
    BY <2>3 DEF Cut, Drain, Settled
  <2> QED
    BY <1>2, <2>1, <2>2, <2>3 DEF Supervisor
<1>3. CASE World
  <2> USE DEF Unborn
  <2>1. ASSUME NEW s \in Streams, NEW line, Write(s, line) PROVE FALSE
    BY <2>1, <1>3, WorldSteps DEF Write
  <2>2. ASSUME NEW where \in {"descendant", "stray"}, Fork(where) \/ Depart(where) PROVE FALSE
    BY <2>2, <1>3, WorldSteps DEF Fork, Depart
  <2>3. ASSUME NEW status, Exit(status) PROVE FALSE
    BY <2>3, <1>3, WorldSteps DEF Exit
  <2>4. ASSUME Expire PROVE FALSE
    BY <2>4, <1>3, WorldSteps DEF Expire, Supervising
  <2>5. ASSUME NEW s \in Streams, Read(s) \/ Hand(s) \/ Raise(s) \/ Rouse(s) PROVE FALSE
    <3>1. pc' = pc \/ pc' = "sample"
      BY <2>5 DEF Read, Hand, Raise, Rouse
    <3>2. pc = "start"
      BY <3>1, <1>3, WorldSteps
    <3>3. reader[s] = "done"
      BY <3>2
    <3> QED
      BY <2>5, <3>3 DEF Read, Hand, Raise, Rouse
  <2> QED
    BY <1>3, <2>1, <2>2, <2>3, <2>4, <2>5, WorldSteps
<1>4. CASE Return
  BY <1>4 DEF Return
<1>5. CASE Judge
  BY <1>5 DEF Judge, Confirm, Control, Conclude, Attribute, Relaunch, Settle, Forget
<1> QED
  BY <1>1, <1>2, <1>3, <1>4, <1>5 DEF Next

LEMMA ReasonedStep ==
  ASSUME VerdictInv, [Next]_vars
  PROVE  Budgeted' /\ Reasoned'
<1> USE DEF VerdictInv, LaunchInv, Budgeted, Reasoned
<1>1. CASE UNCHANGED vars
  BY <1>1 DEF vars
<1>2. CASE Supervisor
  <2>1. CASE Refuse \/ Spawn \/ Sample
    BY <2>1 DEF Refuse, Spawn, Sample
  <2>2. CASE Observe \/ ObserveFails
    BY <2>2 DEF Observe, ObserveFails, Exits
  <2>3. CASE LookAtStartup \/ LookAtFailure \/ LookAtBudgets \/ Doze \/ WakeByItself
    BY <2>3 DEF LookAtStartup, LookAtFailure, LookAtBudgets, Doze, WakeByItself
  <2>4. CASE Cut
    BY <2>4 DEF Cut, Settled
  <2>5. CASE Drain
    BY <2>5 DEF Drain, Settled
  <2> QED
    BY <1>2, <2>1, <2>2, <2>3, <2>4, <2>5 DEF Supervisor
<1>3. CASE World
  <2>1. ASSUME NEW s \in Streams, NEW line, Write(s, line) PROVE Budgeted' /\ Reasoned'
    BY <2>1 DEF Write
  <2>2. ASSUME NEW where, Fork(where) \/ Depart(where) PROVE Budgeted' /\ Reasoned'
    BY <2>2 DEF Fork, Depart
  <2>3. ASSUME NEW status, Exit(status) PROVE Budgeted' /\ Reasoned'
    BY <2>3 DEF Exit
  <2>4. ASSUME Expire PROVE Budgeted' /\ Reasoned'
    BY <2>4 DEF Expire
  <2>5. ASSUME NEW s \in Streams, Read(s) \/ Hand(s) \/ Raise(s) \/ Rouse(s)
        PROVE  Budgeted' /\ Reasoned'
    <3>1. /\ nextest' = nextest /\ attempt' = attempt /\ overdue' = overdue /\ why' = why
          /\ pc' = pc \/ pc' = "sample"
      BY ONLY <2>5 DEF Read, Hand, Raise, Rouse
    <3> QED
      BY <3>1
  <2> QED
    BY <1>3, <2>1, <2>2, <2>3, <2>4, <2>5, WorldSteps
<1>4. CASE Return
  BY <1>4 DEF Return
<1>5. CASE Judge
  BY <1>5 DEF Judge, Confirm, Control, Conclude, Attribute, Relaunch, Settle, Forget
<1> QED
  BY <1>1, <1>2, <1>3, <1>4, <1>5 DEF Next

LEMMA FinishedStep ==
  ASSUME VerdictInv, [Next]_vars
  PROVE  Finished'
<1> SUFFICES ASSUME pc' = "drain", why' # "uncontained"
             PROVE  leader' = "none" /\ "descendant" \notin others'
  BY DEF Finished
<1> USE DEF VerdictInv, LaunchInv
<1>1. CASE UNCHANGED vars
  BY <1>1 DEF vars, Finished
<1>2. CASE Supervisor
  <2>1. CASE Refuse \/ Spawn \/ Sample \/ Observe \/ ObserveFails
    BY <2>1 DEF Refuse, Spawn, Sample, Observe, ObserveFails
  <2>2. CASE LookAtStartup \/ LookAtFailure \/ LookAtBudgets \/ Doze \/ WakeByItself
    BY <2>2 DEF LookAtStartup, LookAtFailure, LookAtBudgets, Doze, WakeByItself
  <2>3. CASE Cut \/ Drain
    BY <2>3 DEF Cut, Drain, Settled
  <2> QED
    BY <1>2, <2>1, <2>2, <2>3 DEF Supervisor
<1>3. CASE World
  <2> USE DEF Finished
  <2>1. ASSUME NEW s \in Streams, NEW line, Write(s, line)
        PROVE  leader' = "none" /\ "descendant" \notin others'
    BY <2>1 DEF Write
  <2>2. ASSUME NEW where, Fork(where) \/ Depart(where)
        PROVE  leader' = "none" /\ "descendant" \notin others'
    BY <2>2 DEF Fork, Depart
  <2>3. ASSUME NEW status, Exit(status) PROVE leader' = "none" /\ "descendant" \notin others'
    BY <2>3 DEF Exit
  <2>4. ASSUME Expire PROVE leader' = "none" /\ "descendant" \notin others'
    BY <2>4 DEF Expire
  <2>5. ASSUME NEW s \in Streams, Read(s) \/ Hand(s) \/ Raise(s) \/ Rouse(s)
        PROVE  leader' = "none" /\ "descendant" \notin others'
    <3>1. CASE Read(s) \/ Hand(s)
      BY <3>1 DEF Read, Hand
    <3>2. CASE Raise(s) \/ Rouse(s)
      BY <3>2 DEF Raise, Rouse
    <3> QED
      BY <2>5, <3>1, <3>2
  <2> QED
    BY <1>3, <2>1, <2>2, <2>3, <2>4, <2>5, WorldSteps
<1>4. CASE Return
  BY <1>4 DEF Return
<1>5. CASE Judge
  BY <1>5 DEF Judge, Confirm, Control, Conclude, Attribute, Relaunch, Settle
<1> QED
  BY <1>1, <1>2, <1>3, <1>4, <1>5 DEF Next

\* What is written and read: nothing else touches the pipes and the lines that
\* were kept, but a launch that is forgotten.
LEMMA LineSteps ==
  ASSUME TypeOK, [Next]_vars
  PROVE  /\ nextest' = nextest
         /\ \/ pipe' = pipe /\ kept' = kept
            \/ pipe' = [s \in Streams |-> <<>>] /\ kept' = [s \in Streams |-> {}]
            \/ \E s \in Streams, line \in {"failure", "startup failure"} : Write(s, line)
            \/ \E s \in Streams : Read(s)
<1>1. CASE UNCHANGED vars
  BY <1>1 DEF vars
<1>2. CASE Supervisor
  <2>1. CASE Refuse \/ Spawn \/ Sample \/ Observe \/ ObserveFails
    BY <2>1 DEF Refuse, Spawn, Sample, Observe, ObserveFails
  <2>2. CASE LookAtStartup \/ LookAtFailure \/ LookAtBudgets \/ Doze \/ WakeByItself
    BY <2>2 DEF LookAtStartup, LookAtFailure, LookAtBudgets, Doze, WakeByItself
  <2>3. CASE Cut \/ Drain
    BY <2>3 DEF Cut, Drain
  <2> QED
    BY <1>2, <2>1, <2>2, <2>3 DEF Supervisor
<1>3. CASE World
  <2>1. ASSUME NEW s, NEW line, Write(s, line) PROVE nextest' = nextest
    BY <2>1 DEF Write
  <2>2. ASSUME NEW where, Fork(where) \/ Depart(where)
        PROVE  nextest' = nextest /\ pipe' = pipe /\ kept' = kept
    BY <2>2 DEF Fork, Depart
  <2>3. ASSUME NEW status, Exit(status)
        PROVE  nextest' = nextest /\ pipe' = pipe /\ kept' = kept
    BY <2>3 DEF Exit
  <2>4. ASSUME Expire PROVE nextest' = nextest /\ pipe' = pipe /\ kept' = kept
    BY <2>4 DEF Expire
  <2>5. ASSUME NEW s, Hand(s) \/ Raise(s) \/ Rouse(s)
        PROVE  nextest' = nextest /\ pipe' = pipe /\ kept' = kept
    BY ONLY <2>5 DEF Hand, Raise, Rouse
  <2>6. ASSUME NEW s, Read(s) PROVE nextest' = nextest
    BY <2>6 DEF Read
  <2> QED
    BY <1>3, <2>1, <2>2, <2>3, <2>4, <2>5, <2>6, WorldSteps
<1>4. CASE Return
  BY <1>4 DEF Return
<1>5. CASE Judge
  BY <1>5 DEF Judge, Confirm, Control, Conclude, Attribute, Relaunch, Settle, Forget
<1> QED
  BY <1>1, <1>2, <1>3, <1>4, <1>5 DEF Next

\* Sequences of lines.
LineText == {"failure", "startup failure"}

LEMMA Oldest ==
  ASSUME NEW q \in Seq(LineText), q # <<>>
  PROVE  /\ Len(q) \in Nat /\ DOMAIN q = 1..Len(q) /\ Len(q) >= 1
         /\ Head(q) = q[1] /\ Head(q) \in LineText
         /\ Tail(q) \in Seq(LineText) /\ DOMAIN Tail(q) = 1..(Len(q) - 1)
         /\ \A i \in 1..(Len(q) - 1) : Tail(q)[i] = q[i + 1]
<1>1. Len(q) \in Nat /\ DOMAIN q = 1..Len(q) /\ Len(q) # 0
  BY LenProperties, EmptySeq
<1>2. /\ Tail(q) \in Seq(LineText) /\ Len(Tail(q)) = Len(q) - 1 /\ Head(q) \in LineText
      /\ \A i \in 1..Len(Tail(q)) : Tail(q)[i] = q[i + 1]
  BY HeadTailProperties
<1>3. DOMAIN Tail(q) = 1..Len(Tail(q))
  BY <1>2, LenProperties
<1>4. Head(q) = q[1]
  OBVIOUS
<1> QED
  BY <1>1, <1>2, <1>3, <1>4

LEMMA Newest ==
  ASSUME NEW q \in Seq(LineText), NEW e \in LineText
  PROVE  /\ Len(q) \in Nat /\ DOMAIN q = 1..Len(q)
         /\ Append(q, e) \in Seq(LineText) /\ DOMAIN Append(q, e) = 1..(Len(q) + 1)
         /\ \A i \in 1..Len(q) : Append(q, e)[i] = q[i]
         /\ Append(q, e)[Len(q) + 1] = e
<1>1. Len(q) \in Nat /\ DOMAIN q = 1..Len(q)
  BY LenProperties
<1>2. /\ Append(q, e) \in Seq(LineText) /\ Len(Append(q, e)) = Len(q) + 1
      /\ \A i \in 1..Len(q) : Append(q, e)[i] = q[i]
      /\ Append(q, e)[Len(q) + 1] = e
  BY AppendProperties
<1>3. DOMAIN Append(q, e) = 1..Len(Append(q, e))
  BY <1>2, LenProperties
<1> QED
  BY <1>1, <1>2, <1>3

LEMMA LongerInOrder ==
  ASSUME NEW n \in Nat, NEW q, NEW r, DOMAIN q = 1..n, DOMAIN r = 1..(n + 1),
         \A i \in 1..n : r[i] = q[i], InOrder(q),
         r[n + 1] = "startup failure" => \E j \in DOMAIN q : q[j] = "failure"
  PROVE  InOrder(r)
<1>1. ASSUME NEW i \in 1..(n + 1), r[i] = "startup failure"
      PROVE  \E j \in 1..(i - 1) : r[j] = "failure"
  <2>1. CASE i = n + 1
    <3>1. PICK j \in 1..n : q[j] = "failure"
      BY <1>1, <2>1
    <3>2. (n + 1) - 1 = n
      BY ONLY n \in Nat
    <3> QED
      BY <2>1, <3>1, <3>2
  <2>2. CASE i # n + 1
    <3>1. i \in 1..n /\ \A j \in 1..(i - 1) : j \in 1..n
      BY ONLY <2>2, n \in Nat, i \in 1..(n + 1)
    <3>2. q[i] = "startup failure"
      BY <1>1, <3>1
    <3>3. PICK j \in 1..(i - 1) : q[j] = "failure"
      BY <3>1, <3>2 DEF InOrder
    <3> QED
      BY <3>1, <3>3
  <2> QED
    BY <2>1, <2>2
<1> QED
  BY <1>1 DEF InOrder

LEMMA ShorterInOrder ==
  ASSUME NEW n \in Nat, n >= 1, NEW q, NEW r, DOMAIN q = 1..n, DOMAIN r = 1..(n - 1),
         \A i \in 1..(n - 1) : r[i] = q[i + 1], InOrder(q), q[1] # "failure"
  PROVE  q[1] # "startup failure" /\ InOrder(r)
<1>1. q[1] # "startup failure"
  <2>1. 1 \in 1..n /\ 1..(1 - 1) = {}
    OBVIOUS
  <2> QED
    BY <2>1 DEF InOrder
<1>2. ASSUME NEW i \in 1..(n - 1), r[i] = "startup failure"
      PROVE  \E j \in 1..(i - 1) : r[j] = "failure"
  <2>1. i + 1 \in 1..n /\ (i + 1) - 1 = i
    OBVIOUS
  <2>2. q[i + 1] = "startup failure"
    BY <1>2
  <2>3. PICK j \in 1..i : q[j] = "failure"
    BY <2>1, <2>2 DEF InOrder
  <2>4. j # 1
    BY <2>3
  <2>5. j - 1 \in 1..(i - 1) /\ j - 1 \in 1..(n - 1) /\ (j - 1) + 1 = j
    BY <2>4
  <2>6. r[j - 1] = q[(j - 1) + 1]
    BY <2>5
  <2> QED
    BY <2>3, <2>5, <2>6
<1> QED
  BY <1>1, <1>2 DEF InOrder

LEMMA AppendInOrder ==
  ASSUME NEW q \in Seq(LineText), NEW e \in LineText, InOrder(q),
         e = "startup failure" => \E j \in DOMAIN q : q[j] = "failure"
  PROVE  InOrder(Append(q, e))
<1>1. /\ Len(q) \in Nat /\ DOMAIN q = 1..Len(q) /\ DOMAIN Append(q, e) = 1..(Len(q) + 1)
      /\ \A i \in 1..Len(q) : Append(q, e)[i] = q[i]
      /\ Append(q, e)[Len(q) + 1] = e
  BY Newest
<1> QED
  BY <1>1, LongerInOrder

LEMMA TailInOrder ==
  ASSUME NEW q \in Seq(LineText), q # <<>>, InOrder(q), Head(q) # "failure"
  PROVE  Head(q) # "startup failure" /\ InOrder(Tail(q))
<1>1. /\ Len(q) \in Nat /\ DOMAIN q = 1..Len(q) /\ Len(q) >= 1 /\ Head(q) = q[1]
      /\ DOMAIN Tail(q) = 1..(Len(q) - 1)
      /\ \A i \in 1..(Len(q) - 1) : Tail(q)[i] = q[i + 1]
  BY Oldest
<1> QED
  BY <1>1, ShorterInOrder

\* The reader takes the oldest line.
LEMMA ReadEffect ==
  ASSUME TypeOK, NEW s \in Streams, Read(s)
  PROVE  /\ pipe[s] \in Seq(LineText) /\ pipe[s] # <<>>
         /\ kept'[s] = kept[s] \cup {Head(pipe[s])} /\ pipe'[s] = Tail(pipe[s])
         /\ \A t \in Streams \ {s} : kept'[t] = kept[t] /\ pipe'[t] = pipe[t]
<1>1. pipe \in [Streams -> Seq(LineText)] /\ kept \in [Streams -> SUBSET LineText]
  BY DEF TypeOK, LineText
<1>2. /\ pipe[s] # <<>>
      /\ kept' = [kept EXCEPT ![s] = @ \cup {Head(pipe[s])}]
      /\ pipe' = [pipe EXCEPT ![s] = Tail(@)]
  BY DEF Read
<1> QED
  BY <1>1, <1>2

\* The writer adds a line to the others.
LEMMA WriteEffect ==
  ASSUME TypeOK, NEW s \in Streams, NEW line \in LineText, Write(s, line)
  PROVE  /\ pipe[s] \in Seq(LineText)
         /\ kept' = kept /\ <<s, line>> \in Lines
         /\ pipe'[s] = Append(pipe[s], line)
         /\ \A t \in Streams \ {s} : pipe'[t] = pipe[t]
<1>1. pipe \in [Streams -> Seq(LineText)]
  BY DEF TypeOK, LineText
<1>2. kept' = kept /\ <<s, line>> \in Lines /\ pipe' = [pipe EXCEPT ![s] = Append(@, line)]
  BY DEF Write
<1> QED
  BY <1>1, <1>2

LEMMA SpokenStep ==
  ASSUME VerdictInv, [Next]_vars
  PROVE  Spoken'
<1>1. TypeOK /\ Spoken
  BY DEF VerdictInv, LaunchInv
<1>2. Lines' = Lines
  <2>1. nextest' = nextest
    BY <1>1, LineSteps
  <2> QED
    BY ONLY <2>1 DEF Lines, Complaints
<1>3. CASE pipe' = pipe /\ kept' = kept
  BY <1>1, <1>2, <1>3 DEF Spoken
<1>4. CASE pipe' = [s \in Streams |-> <<>>] /\ kept' = [s \in Streams |-> {}]
  BY <1>4 DEF Spoken
<1>5. ASSUME NEW s \in Streams, NEW line \in LineText, Write(s, line)
      PROVE  Spoken'
  <2>1. /\ pipe[s] \in Seq(LineText)
        /\ kept' = kept /\ <<s, line>> \in Lines
        /\ pipe'[s] = Append(pipe[s], line)
        /\ \A t \in Streams \ {s} : pipe'[t] = pipe[t]
    BY <1>1, <1>5, WriteEffect
  <2>2. \A i \in DOMAIN pipe'[s] : <<s, pipe'[s][i]>> \in Lines
    <3> DEFINE q == pipe[s]
    <3>1. /\ Len(q) \in Nat /\ DOMAIN q = 1..Len(q)
          /\ DOMAIN Append(q, line) = 1..(Len(q) + 1)
          /\ \A i \in 1..Len(q) : Append(q, line)[i] = q[i]
          /\ Append(q, line)[Len(q) + 1] = line
      BY <2>1, Newest
    <3>2. \A i \in DOMAIN q : <<s, q[i]>> \in Lines
      BY <1>1 DEF Spoken
    <3> HIDE DEF q
    <3>3. \A i \in 1..(Len(q) + 1) : i \in 1..Len(q) \/ i = Len(q) + 1
      BY <3>1
    <3>4. \A i \in 1..(Len(q) + 1) : <<s, Append(q, line)[i]>> \in Lines
      BY ONLY <2>1, <3>1, <3>2, <3>3
    <3> QED
      BY <2>1, <3>1, <3>4 DEF q
  <2> QED
    BY <1>1, <1>2, <2>1, <2>2 DEF Spoken
<1>6. ASSUME NEW s \in Streams, Read(s) PROVE Spoken'
  <2>1. /\ pipe[s] \in Seq(LineText) /\ pipe[s] # <<>>
        /\ kept'[s] = kept[s] \cup {Head(pipe[s])} /\ pipe'[s] = Tail(pipe[s])
        /\ \A t \in Streams \ {s} : kept'[t] = kept[t] /\ pipe'[t] = pipe[t]
    BY <1>1, <1>6, ReadEffect
  <2> DEFINE q == pipe[s]
  <2>2. /\ Len(q) \in Nat /\ DOMAIN q = 1..Len(q) /\ Len(q) >= 1
        /\ Head(q) = q[1]
        /\ DOMAIN Tail(q) = 1..(Len(q) - 1)
        /\ \A i \in 1..(Len(q) - 1) : Tail(q)[i] = q[i + 1]
    BY <2>1, Oldest
  <2>3. /\ \A i \in DOMAIN q : <<s, q[i]>> \in Lines
        /\ \A line \in kept[s] : <<s, line>> \in Lines
    BY <1>1 DEF Spoken
  <2>4. (\A i \in DOMAIN Tail(q) : <<s, Tail(q)[i]>> \in Lines) /\ <<s, Head(q)>> \in Lines
    <3> HIDE DEF q
    <3>1. 1 \in 1..Len(q) /\ \A i \in 1..(Len(q) - 1) : i + 1 \in 1..Len(q)
      BY <2>2
    <3> QED
      BY ONLY <2>2, <2>3, <3>1
  <2> QED
    BY <1>1, <1>2, <2>1, <2>3, <2>4 DEF Spoken
<1> QED
  BY <1>1, <1>3, <1>4, <1>5, <1>6, LineSteps DEF LineText

LEMMA AnnouncedStep ==
  ASSUME VerdictInv, [Next]_vars
  PROVE  Announced'
<1>1. TypeOK /\ Announced
  BY DEF VerdictInv, LaunchInv
<1>2. nextest' = nextest
  BY <1>1, LineSteps
<1> DEFINE a == Authoritative
<1>3. CASE pipe'[a] = pipe[a] /\ kept'[a] = kept[a]
  BY <1>1, <1>2, <1>3 DEF Announced
<1>4. CASE pipe' = [s \in Streams |-> <<>>] /\ kept' = [s \in Streams |-> {}]
  BY <1>4 DEF Announced, Authoritative, InOrder
<1>5. ASSUME NEW line \in LineText, Write(a, line) PROVE Announced'
  <2>1. /\ pipe[a] \in Seq(LineText) /\ kept' = kept /\ pipe'[a] = Append(pipe[a], line)
    BY <1>1, <1>5, WriteEffect DEF Authoritative
  <2>2. nextest /\ line = "startup failure" => Wrote(a, "failure")
    BY <1>5 DEF Write
  <2>3. nextest /\ "failure" \notin kept[a] => InOrder(Append(pipe[a], line))
    BY <1>1, <2>1, <2>2, AppendInOrder DEF Announced, Wrote
  <2> QED
    BY <1>1, <1>2, <2>1, <2>3 DEF Announced
<1>6. ASSUME Read(a) PROVE Announced'
  <2>1. /\ pipe[a] \in Seq(LineText) /\ pipe[a] # <<>>
        /\ kept'[a] = kept[a] \cup {Head(pipe[a])} /\ pipe'[a] = Tail(pipe[a])
    BY <1>1, <1>6, ReadEffect DEF Authoritative
  <2>2. nextest /\ "failure" \notin kept'[a] =>
          Head(pipe[a]) # "startup failure" /\ InOrder(Tail(pipe[a]))
    BY <1>1, <2>1, TailInOrder DEF Announced
  <2> QED
    BY <1>1, <1>2, <2>1, <2>2 DEF Announced
<1>7. ASSUME NEW s \in Streams \ {a}, NEW line \in LineText, Write(s, line) PROVE Announced'
  BY <1>1, <1>3, <1>7, WriteEffect DEF Authoritative
<1>8. ASSUME NEW s \in Streams \ {a}, Read(s) PROVE Announced'
  BY <1>1, <1>3, <1>8, ReadEffect DEF Authoritative
<1> QED
  BY <1>1, <1>3, <1>4, <1>5, <1>6, <1>7, <1>8, LineSteps DEF LineText, Authoritative

\* A decisive line is followed by a signal; any other is no news.
LEMMA ReadTells ==
  ASSUME TypeOK, Told, NEW s \in Streams, Read(s)
  PROVE  Told'
<1> DEFINE line == Head(pipe[s])
           decisive == \/ line = "failure" /\ ~failed
                       \/ line = "startup failure" /\ ~startup
<1>1. /\ nextest' = nextest /\ attempt' = attempt /\ moved' = moved /\ pc' = pc
      /\ reader[s] = "reading"
      /\ reader' = [reader EXCEPT ![s] = IF decisive THEN "raise" ELSE @]
      /\ kept' = [kept EXCEPT ![s] = @ \cup {line}]
  BY DEF Read, failed, startup
<1>2. /\ reader \in [Streams -> {"reading", "raise", "rouse", "last raise", "last rouse", "done"}]
      /\ kept \in [Streams -> SUBSET {"failure", "startup failure"}]
  BY DEF TypeOK
<1>3. CASE decisive
  <2>1. reader'[s] = "raise"
    BY <1>1, <1>2, <1>3
  <2> QED
    BY <2>1 DEF Told, Telling, Waking
<1>4. CASE ~decisive
  <2>1. reader' = reader
    BY <1>1, <1>2, <1>4
  <2>2. \A t \in Streams : kept'[t] = IF t = s THEN kept[t] \cup {line} ELSE kept[t]
    BY <1>1, <1>2
  <2>3. failed' => failed
    <3>1. line = "failure" => failed
      BY <1>4
    <3>2. kept'["authoritative"] \subseteq kept["authoritative"] \cup {line}
      BY ONLY <2>2
    <3> QED
      BY ONLY <3>1, <3>2 DEF failed
  <2>4. startup' => startup
    BY <1>4, <2>2 DEF startup
  <2> QED
    BY <1>1, <2>1, <2>3, <2>4 DEF Told, News, Telling, Waking
<1> QED
  BY <1>3, <1>4

\* A signal moves the pulse before it wakes whoever sleeps.
LEMMA SignalTells ==
  ASSUME TypeOK, Told, NEW s \in Streams, Hand(s) \/ Raise(s) \/ Rouse(s)
  PROVE  Told'
<1>1. reader \in [Streams -> {"reading", "raise", "rouse", "last raise", "last rouse", "done"}]
  BY DEF TypeOK
<1>2. ASSUME nextest' = nextest, attempt' = attempt, kept' = kept, pc' = pc
      PROVE  News' <=> News
  BY <1>2 DEF News, startup, failed
<1>3. CASE Hand(s)
  <2>1. /\ nextest' = nextest /\ attempt' = attempt /\ kept' = kept /\ pc' = pc /\ moved' = moved
        /\ reader[s] = "reading" /\ \A t \in Streams \ {s} : reader'[t] = reader[t]
    BY <1>1, <1>3 DEF Hand
  <2> QED
    BY <1>2, <2>1 DEF Told, Telling, Waking
<1>4. CASE Raise(s)
  <2>1. nextest' = nextest /\ attempt' = attempt /\ kept' = kept /\ pc' = pc /\ moved'
    BY <1>4 DEF Raise
  <2>2. Waking => Waking'
    <3>1. \A t \in Streams \ {s} : reader'[t] = reader[t]
      BY <1>1, <1>4 DEF Raise
    <3>2. reader[s] \in {"raise", "rouse"} => reader'[s] = "rouse"
      BY <1>1, <1>4 DEF Raise
    <3> QED
      BY <3>1, <3>2 DEF Waking
  <2> QED
    BY <1>2, <2>1, <2>2 DEF Told
<1>5. CASE Rouse(s)
  <2>1. nextest' = nextest /\ attempt' = attempt /\ kept' = kept /\ moved' = moved
    BY <1>5 DEF Rouse
  <2>2. CASE pc = "asleep"
    BY <1>5, <2>2 DEF Rouse, Told
  <2>3. CASE pc # "asleep"
    <3>1. pc' = pc
      BY <1>5, <2>3 DEF Rouse
    <3>2. \A t \in Streams \ {s} : reader'[t] = reader[t]
      BY <1>1, <1>5 DEF Rouse
    <3>3. reader[s] # "raise"
      BY <1>5 DEF Rouse
    <3>4. Telling => Telling'
      BY <3>2, <3>3 DEF Telling
    <3> QED
      BY <1>2, <2>1, <2>3, <3>1, <3>4 DEF Told
  <2> QED
    BY <2>2, <2>3
<1> QED
  BY <1>3, <1>4, <1>5

LEMMA ToldStep ==
  ASSUME VerdictInv, [Next]_vars
  PROVE  Told'
<1>1. TypeOK /\ Told
  BY DEF VerdictInv, LaunchInv
<1>2. ASSUME pc' \notin {"failure", "budgets", "doze", "asleep"} PROVE Told'
  BY <1>2 DEF Told
<1>3. ASSUME nextest' = nextest, attempt' = attempt, kept' = kept, moved' = moved,
             reader' = reader, pc' = pc
      PROVE  Told'
  BY <1>1, <1>3 DEF Told, News, startup, failed, Telling, Waking
<1>4. CASE UNCHANGED vars
  BY <1>3, <1>4 DEF vars
<1>5. CASE Supervisor
  <2>1. CASE Refuse \/ Spawn \/ Sample \/ Observe \/ ObserveFails
    BY <1>2, <2>1 DEF Refuse, Spawn, Sample, Observe, ObserveFails
  <2>2. CASE LookAtStartup
    BY <1>2, <2>2 DEF LookAtStartup, Told, News, startup
  <2>3. CASE LookAtFailure
    BY <1>1, <2>3 DEF LookAtFailure, Told, News, startup, failed, Telling, Waking
  <2>4. CASE LookAtBudgets
    BY <1>1, <2>4 DEF LookAtBudgets, Told, News, startup, failed, Telling, Waking
  <2>5. CASE Doze
    BY <1>1, <2>5 DEF Doze, Told, News, startup, failed, Telling, Waking
  <2>6. CASE WakeByItself \/ Cut \/ Drain
    BY <1>2, <2>6 DEF WakeByItself, Cut, Drain, Settled
  <2> QED
    BY <1>5, <2>1, <2>2, <2>3, <2>4, <2>5, <2>6 DEF Supervisor
<1>6. CASE World
  <2>1. ASSUME NEW s, NEW line, Write(s, line) PROVE Told'
    BY <1>3, <2>1 DEF Write
  <2>2. ASSUME NEW where, Fork(where) \/ Depart(where) PROVE Told'
    BY <1>3, <2>2 DEF Fork, Depart
  <2>3. ASSUME NEW status, Exit(status) PROVE Told'
    BY <1>3, <2>3 DEF Exit
  <2>4. ASSUME Expire PROVE Told'
    BY <1>3, <2>4 DEF Expire
  <2>5. ASSUME NEW s \in Streams, Read(s) PROVE Told'
    BY <1>1, <2>5, ReadTells
  <2>6. ASSUME NEW s \in Streams, Hand(s) \/ Raise(s) \/ Rouse(s) PROVE Told'
    BY <1>1, <2>6, SignalTells
  <2> QED
    BY <1>6, <2>1, <2>2, <2>3, <2>4, <2>5, <2>6, WorldSteps
<1>7. CASE Return
  BY <1>2, <1>7 DEF Return
<1>8. CASE Judge
  BY <1>2, <1>8 DEF Judge, Confirm, Control, Conclude, Attribute, Relaunch, Settle
<1> QED
  BY <1>4, <1>5, <1>6, <1>7, <1>8 DEF Next

-----------------------------------------------------------------------------
(* Types. *)

\* What the launch is and has said.
TypeLines ==
  /\ pipe \in [Streams -> Seq(LineText)] /\ kept \in [Streams -> SUBSET LineText]
  /\ reader \in [Streams -> {"reading", "raise", "rouse", "last raise", "last rouse", "done"}]

\* How far its supervisor is.
TypeSupervised ==
  /\ leader \in {"none", "running"} \cup Exits
  /\ others \subseteq {"descendant", "stray"}
  /\ pc \in {"start", "sample", "observe", "startup", "failure", "budgets", "doze", "asleep",
             "cut", "drain", "settled", "away", "over"}
  /\ why \in {"none", "unread", "unasked", "uncontained", "startup", "named", "stalled", "overdue"}
               \cup Exits
  /\ verdict \in Classes \cup {"none"}

TypeFlags == nextest \in BOOLEAN /\ overdue \in BOOLEAN /\ moved \in BOOLEAN

TypeLadder ==
  /\ attempt \in AttemptType /\ asked \in Attempts
  /\ stage \in {"ladder", "control", "final"} /\ checked \in Suspicions \cup {"none"}
  /\ round \in 0..CONFIRM_ROUNDS
  /\ seen \in Seq([attempt : AttemptType, class : Classes])
  /\ result \in Classes \cup {"none", "Flaky", "Unconfirmed"}

LEMMA TypeParts == TypeOK <=> TypeLines /\ TypeSupervised /\ TypeFlags /\ TypeLadder
BY DEF TypeOK, TypeLines, TypeSupervised, TypeFlags, TypeLadder, LineText

LEMMA LinesTyped ==
  ASSUME TypeOK, [Next]_vars
  PROVE  TypeLines'
<1>1. TypeLines
  BY TypeParts
<1>2. /\ pipe' \in [Streams -> Seq(LineText)] /\ kept' \in [Streams -> SUBSET LineText]
  <2>1. CASE pipe' = pipe /\ kept' = kept
    BY <1>1, <2>1 DEF TypeLines
  <2>2. CASE pipe' = [s \in Streams |-> <<>>] /\ kept' = [s \in Streams |-> {}]
    <3>1. <<>> \in Seq(LineText)
      BY EmptySeq
    <3> QED
      BY <2>2, <3>1
  <2>3. ASSUME NEW s \in Streams, NEW line \in LineText, Write(s, line)
        PROVE  pipe' \in [Streams -> Seq(LineText)] /\ kept' = kept
    <3>1. pipe' = [pipe EXCEPT ![s] = Append(@, line)] /\ kept' = kept
      BY <2>3 DEF Write
    <3>2. pipe[s] \in Seq(LineText)
      BY <1>1 DEF TypeLines
    <3>3. Append(pipe[s], line) \in Seq(LineText)
      BY <3>2, AppendProperties
    <3> QED
      BY <1>1, <3>1, <3>3 DEF TypeLines
  <2>4. ASSUME NEW s \in Streams, Read(s)
        PROVE  pipe' \in [Streams -> Seq(LineText)] /\ kept' \in [Streams -> SUBSET LineText]
    <3>1. /\ pipe' = [pipe EXCEPT ![s] = Tail(@)] /\ kept' = [kept EXCEPT ![s] = @ \cup {Head(pipe[s])}]
          /\ pipe[s] # <<>>
      BY <2>4 DEF Read
    <3>2. pipe[s] \in Seq(LineText) /\ kept[s] \in SUBSET LineText
      BY <1>1 DEF TypeLines
    <3>3. Tail(pipe[s]) \in Seq(LineText) /\ kept[s] \cup {Head(pipe[s])} \in SUBSET LineText
      BY <3>1, <3>2, HeadTailProperties
    <3> QED
      BY <1>1, <3>1, <3>3 DEF TypeLines
  <2> QED
    BY <1>1, <2>1, <2>2, <2>3, <2>4, LineSteps DEF LineText, TypeLines
<1>3. reader' \in [Streams -> {"reading", "raise", "rouse", "last raise", "last rouse", "done"}]
  <2> USE DEF TypeLines
  <2>1. CASE UNCHANGED vars
    BY <1>1, <2>1 DEF vars
  <2>2. CASE Supervisor
    <3>1. CASE Spawn
      BY <3>1 DEF Spawn
    <3>2. CASE Refuse \/ Sample \/ Observe \/ ObserveFails \/ LookAtStartup \/ LookAtFailure
      BY <1>1, <3>2 DEF Refuse, Sample, Observe, ObserveFails, LookAtStartup, LookAtFailure
    <3>3. CASE LookAtBudgets \/ Doze \/ WakeByItself \/ Cut \/ Drain
      BY <1>1, <3>3 DEF LookAtBudgets, Doze, WakeByItself, Cut, Drain
    <3> QED
      BY <2>2, <3>1, <3>2, <3>3 DEF Supervisor
  <2>3. CASE World
    <3>1. ASSUME NEW s, NEW line, Write(s, line) PROVE reader' = reader
      BY <3>1 DEF Write
    <3>2. ASSUME NEW where, Fork(where) \/ Depart(where) PROVE reader' = reader
      BY <3>2 DEF Fork, Depart
    <3>3. ASSUME NEW status, Exit(status) PROVE reader' = reader
      BY <3>3 DEF Exit
    <3>4. ASSUME Expire PROVE reader' = reader
      BY <3>4 DEF Expire
    <3>5. ASSUME NEW s \in Streams, Read(s) \/ Hand(s) \/ Raise(s) \/ Rouse(s)
          PROVE  \E next \in {"reading", "raise", "rouse", "last raise", "last rouse", "done"} :
                   reader' = [reader EXCEPT ![s] = next]
      <4>1. CASE Read(s)
        BY <1>1, <4>1 DEF Read
      <4>2. CASE Hand(s) \/ Raise(s) \/ Rouse(s)
        BY <4>2 DEF Hand, Raise, Rouse
      <4> QED
        BY <3>5, <4>1, <4>2
    <3> QED
      BY <1>1, <2>3, <3>1, <3>2, <3>3, <3>4, <3>5, WorldSteps
  <2>4. CASE Return
    BY <1>1, <2>4 DEF Return
  <2>5. CASE Judge
    BY <2>5 DEF Judge, Confirm, Control, Conclude, Attribute, Relaunch, Settle, Forget
  <2> QED
    BY <2>1, <2>2, <2>3, <2>4, <2>5 DEF Next
<1> QED
  BY <1>2, <1>3 DEF TypeLines

LEMMA SupervisedTyped ==
  ASSUME VerdictInv, [Next]_vars
  PROVE  TypeSupervised' /\ TypeFlags'
<1>1. TypeSupervised /\ TypeFlags
  BY TypeParts DEF VerdictInv
<1>2. nextest' = nextest /\ Exits' = Exits
  <2>1. nextest' = nextest
    BY LineSteps DEF VerdictInv
  <2> QED
    BY <2>1 DEF Exits
<1>5. pc' = "settled" => verdict' \in Classes
  BY ContractStep DEF ContractKept, Outcomes, Classes
<1> USE DEF TypeSupervised, TypeFlags
<1>3. CASE UNCHANGED vars
  BY <1>1, <1>2, <1>3 DEF vars
<1>4. CASE Supervisor
  <2>1. CASE Refuse
    BY <1>1, <1>2, <2>1 DEF Refuse, Classes
  <2>2. CASE Spawn
    BY <1>1, <1>2, <2>2 DEF Spawn
  <2>3. CASE Sample
    BY <1>1, <1>2, <2>3 DEF Sample
  <2>4. CASE Observe \/ ObserveFails
    BY <1>1, <1>2, <2>4 DEF Observe, ObserveFails
  <2>5. CASE LookAtStartup \/ LookAtFailure
    BY <1>1, <1>2, <2>5 DEF LookAtStartup, LookAtFailure
  <2>6. CASE LookAtBudgets \/ Doze \/ WakeByItself
    BY <1>1, <1>2, <2>6 DEF LookAtBudgets, Doze, WakeByItself
  <2>7. CASE Cut
    BY <1>1, <1>2, <2>7 DEF Cut, Settled, Classes
  <2>8. CASE Drain
    <3>1. pc' = "settled" /\ verdict' \in Classes
      BY <1>5, <2>8 DEF Drain, Settled
    <3> QED
      BY <1>1, <1>2, <2>8, <3>1 DEF Drain
  <2> QED
    BY <1>4, <2>1, <2>2, <2>3, <2>4, <2>5, <2>6, <2>7, <2>8 DEF Supervisor
<1>6. CASE World
  <2>1. ASSUME NEW s, NEW line, Write(s, line) PROVE TypeSupervised' /\ TypeFlags'
    BY <1>1, <1>2, <2>1 DEF Write
  <2>2. ASSUME NEW where \in {"descendant", "stray"}, Fork(where) \/ Depart(where)
        PROVE  TypeSupervised' /\ TypeFlags'
    BY <1>1, <1>2, <2>2 DEF Fork, Depart
  <2>3. ASSUME NEW status, Exit(status) PROVE TypeSupervised' /\ TypeFlags'
    BY <1>1, <1>2, <2>3 DEF Exit
  <2>4. ASSUME Expire PROVE TypeSupervised' /\ TypeFlags'
    BY <1>1, <1>2, <2>4 DEF Expire
  <2>5. ASSUME NEW s \in Streams, Read(s) \/ Hand(s) \/ Raise(s) \/ Rouse(s)
        PROVE  TypeSupervised' /\ TypeFlags'
    <3>1. /\ leader' = leader /\ others' = others /\ why' = why /\ verdict' = verdict
          /\ overdue' = overdue /\ pc' \in {pc, "sample"}
      BY ONLY <2>5 DEF Read, Hand, Raise, Rouse
    <3>2. moved' \in {moved, TRUE}
      BY ONLY <2>5 DEF Read, Hand, Raise, Rouse
    <3>3. moved' \in BOOLEAN
      BY <1>1, <3>2
    <3> QED
      BY <1>1, <1>2, <3>1, <3>3
  <2> QED
    BY <1>6, <2>1, <2>2, <2>3, <2>4, <2>5, WorldSteps
<1>7. CASE Return
  <2>1. pc' = "settled" /\ verdict' \in Classes
    BY <1>5, <1>7 DEF Return
  <2> QED
    BY <1>1, <1>2, <1>7, <2>1 DEF Return
<1>8. CASE Judge
  <2>1. /\ leader' = "none" /\ others' = {} /\ why' = "none" /\ verdict' = "none"
        /\ overdue' = FALSE /\ moved' = FALSE /\ pc' \in {"away", "over"}
    BY <1>8 DEF Judge, Confirm, Control, Conclude, Attribute, Relaunch, Settle, Forget
  <2> QED
    BY <1>1, <1>2, <2>1
<1> QED
  BY <1>3, <1>4, <1>6, <1>7, <1>8 DEF Next

\* A launch is asked one thing from its start to its verdict.
LEMMA AttemptKept ==
  ASSUME Supervisor \/ Return \/ World
  PROVE  attempt' = attempt
<1>1. CASE Supervisor
  <2>1. CASE Refuse \/ Spawn \/ Sample \/ Observe \/ ObserveFails
    BY <2>1 DEF Refuse, Spawn, Sample, Observe, ObserveFails
  <2>2. CASE LookAtStartup \/ LookAtFailure \/ LookAtBudgets \/ Doze \/ WakeByItself
    BY <2>2 DEF LookAtStartup, LookAtFailure, LookAtBudgets, Doze, WakeByItself
  <2>3. CASE Cut \/ Drain
    BY <2>3 DEF Cut, Drain
  <2> QED
    BY <1>1, <2>1, <2>2, <2>3 DEF Supervisor
<1>2. CASE World
  <2>1. ASSUME NEW s, NEW line, Write(s, line) PROVE attempt' = attempt
    BY <2>1 DEF Write
  <2>2. ASSUME NEW where, Fork(where) \/ Depart(where) PROVE attempt' = attempt
    BY <2>2 DEF Fork, Depart
  <2>3. ASSUME NEW status, Exit(status) PROVE attempt' = attempt
    BY <2>3 DEF Exit
  <2>4. ASSUME Expire PROVE attempt' = attempt
    BY <2>4 DEF Expire
  <2>5. ASSUME NEW s, Read(s) \/ Hand(s) \/ Raise(s) \/ Rouse(s) PROVE attempt' = attempt
    BY ONLY <2>5 DEF Read, Hand, Raise, Rouse
  <2> QED
    BY <1>2, <2>1, <2>2, <2>3, <2>4, <2>5, WorldSteps
<1> QED
  BY <1>1, <1>2 DEF Return

LEMMA CheckingTyped ==
  ASSUME asked \in AttemptType, NEW suspicion \in Suspicions
  PROVE  Checking(suspicion) \in AttemptType /\ Checking(suspicion).active = asked.active
<1>1. /\ asked.timeout * CONFIRM_FACTOR \in Nat /\ asked.stall * CONFIRM_FACTOR \in Nat
  BY DEF AttemptType, CONFIRM_FACTOR
<1>2. CASE suspicion = "TimedOut"
  BY <1>1, <1>2 DEF Checking, AttemptType
<1>3. CASE suspicion = "Stalled"
  BY <1>1, <1>3 DEF Checking, AttemptType
<1>4. CASE suspicion = "MemoryLimit"
  BY <1>4 DEF Checking
<1> QED
  BY <1>2, <1>3, <1>4 DEF Suspicions

\* What judging a settled launch remembers.
LEMMA Remembered ==
  ASSUME VerdictInv, pc = "settled", Forget
  PROVE  LET n == Len(seen)
             now == [attempt |-> attempt, class |-> verdict] IN
         /\ asked' = asked /\ verdict \in Classes /\ n \in Nat /\ DOMAIN seen = 1..n
         /\ seen' \in Seq([attempt : AttemptType, class : Classes])
         /\ Len(seen') = n + 1 /\ DOMAIN seen' = 1..(n + 1)
         /\ \A i \in 1..n : seen'[i] = seen[i]
         /\ seen'[n + 1] = now
<1> DEFINE S == [attempt : AttemptType, class : Classes]
           now == [attempt |-> attempt, class |-> verdict]
<1>1. verdict \in Classes /\ attempt \in AttemptType /\ seen \in Seq(S)
  BY DEF VerdictInv, LaunchInv, TypeOK, ContractKept, Outcomes, Classes
<1>2. now \in S
  BY <1>1
<1>3. seen' = Append(seen, now) /\ asked' = asked
  BY DEF Forget
<1> HIDE DEF S, now
<1>4. /\ seen' \in Seq(S) /\ Len(seen') = Len(seen) + 1
      /\ \A i \in 1..Len(seen) : seen'[i] = seen[i]
      /\ seen'[Len(seen) + 1] = now
  BY <1>1, <1>2, <1>3, AppendProperties
<1>5. DOMAIN seen' = 1..Len(seen') /\ DOMAIN seen = 1..Len(seen) /\ Len(seen) \in Nat
  BY <1>1, <1>4, LenProperties
<1> QED
  BY <1>1, <1>3, <1>4, <1>5 DEF S, now

LEMMA LadderTyped ==
  ASSUME VerdictInv, [Next]_vars
  PROVE  TypeLadder'
<1>1. TypeLadder /\ asked \in AttemptType
  BY TypeParts, AttemptsAssumption DEF VerdictInv, TypeLadder
<1>2. ASSUME UNCHANGED ladder, attempt' = attempt PROVE TypeLadder'
  BY <1>1, <1>2 DEF TypeLadder, ladder
<1>3. CASE UNCHANGED vars
  BY <1>2, <1>3 DEF vars, ladder
<1>4. CASE (Supervisor \/ Return \/ World) /\ UNCHANGED ladder
  BY <1>2, <1>4, AttemptKept
<1>5. CASE Judge
  <2>1. Forget /\ pc = "settled"
    BY <1>5 DEF Judge, Confirm, Control, Conclude, Attribute, Relaunch, Settle
  <2>2. /\ asked' = asked /\ verdict \in Classes
        /\ seen' \in Seq([attempt : AttemptType, class : Classes])
    BY <2>1, Remembered
  <2>3. CASE Confirm
    <3>1. /\ verdict \in Suspicions /\ checked' = verdict /\ round' = round + 1
          /\ round < CONFIRM_ROUNDS /\ attempt' = Checking(verdict)
          /\ stage' = stage /\ result' = result
      BY <2>3 DEF Confirm, Suspected, Relaunch
    <3>2. attempt' \in AttemptType
      BY <1>1, <3>1, CheckingTyped
    <3>3. round' \in 0..CONFIRM_ROUNDS
      BY <1>1, <3>1 DEF TypeLadder, CONFIRM_ROUNDS
    <3> QED
      BY <1>1, <2>2, <3>1, <3>2, <3>3 DEF TypeLadder
  <2>4. CASE Control
    <3>1. Exonerating \in AttemptType
      BY <1>1 DEF Exonerating, AttemptType
    <3> QED
      BY <1>1, <2>2, <2>4, <3>1 DEF TypeLadder, Control, Relaunch
  <2>5. CASE Conclude \/ Attribute
    <3>1. /\ attempt' = attempt /\ checked' = checked /\ round' = round /\ stage' = "final"
          /\ result' \in Classes \cup {"Flaky", "Unconfirmed"}
      BY <2>2, <2>5 DEF Conclude, Attribute, Settle, Classes, Suspicions
    <3> QED
      BY <1>1, <2>2, <3>1 DEF TypeLadder
  <2> QED
    BY <1>5, <2>3, <2>4, <2>5 DEF Judge
<1> QED
  BY <1>3, <1>4, <1>5 DEF Next

-----------------------------------------------------------------------------
(* The ladder. *)

LEMMA LadderStep ==
  ASSUME VerdictInv, [Next]_vars
  PROVE  LadderInv'
<1>1. Climbing /\ SecondLook /\ OnlyTheMutantConvicts /\ asked \in AttemptType
  BY AttemptsAssumption DEF VerdictInv, LadderInv, TypeOK
<1>2. ASSUME UNCHANGED ladder, attempt' = attempt PROVE LadderInv'
  <2>1. Climbing'
    BY <1>1, <1>2 DEF ladder, Climbing, Checking, Exonerating
  <2>2. SecondLook' /\ OnlyTheMutantConvicts'
    BY <1>1, <1>2 DEF ladder, SecondLook, OnlyTheMutantConvicts, Checking, Exonerating
  <2> QED
    BY <2>1, <2>2 DEF LadderInv
<1>3. CASE UNCHANGED vars
  BY <1>2, <1>3 DEF vars, ladder
<1>4. CASE (Supervisor \/ Return \/ World) /\ UNCHANGED ladder
  BY <1>2, <1>4, AttemptKept
<1>5. CASE Judge
  <2> DEFINE n == Len(seen)
             now == [attempt |-> attempt, class |-> verdict]
  <2>1. Forget /\ pc = "settled"
    BY <1>5 DEF Judge, Confirm, Control, Conclude, Attribute, Relaunch, Settle
  <2>2. /\ asked' = asked /\ verdict \in Classes /\ n \in Nat /\ DOMAIN seen = 1..n
        /\ Len(seen') = n + 1 /\ DOMAIN seen' = 1..(n + 1)
        /\ \A i \in 1..n : seen'[i] = seen[i]
        /\ seen'[n + 1] = now
    BY <2>1, Remembered
  <2> HIDE DEF n, now
  <2>3. now.attempt = attempt /\ now.class = verdict /\ n + 1 \in 1..(n + 1)
    BY <2>2 DEF now
  <2>4. Exonerating' = Exonerating /\ \A suspicion : Checking(suspicion)' = Checking(suspicion)
    BY <2>2 DEF Exonerating, Checking
  <2>5. stage' # "final" => SecondLook' /\ OnlyTheMutantConvicts'
    BY DEF SecondLook, OnlyTheMutantConvicts
  <2>6. CASE Confirm
    <3>1. /\ verdict \in Suspicions /\ checked' = verdict /\ round' = round + 1
          /\ attempt' = Checking(verdict) /\ stage = "ladder" /\ stage' = "ladder"
      BY <2>6 DEF Confirm, Suspected, Relaunch
    <3>2. round = n /\ round' = n + 1
      BY <1>1, <3>1 DEF Climbing, n
    <3>3. seen'[round'].class = checked' /\ attempt'.active = asked'.active
      BY <1>1, <2>2, <2>3, <3>1, <3>2, CheckingTyped
    <3>4. checked' # "none" /\ attempt' = Checking(checked')
      BY <3>1 DEF Suspicions
    <3>5. attempt' = Checking(checked)'
      BY <2>2, <3>4 DEF Checking
    <3>6. Len(seen') = round' /\ round' # 0
      BY <2>2, <3>2
    <3>7. Climbing'
      BY <3>1, <3>3, <3>4, <3>5, <3>6 DEF Climbing
    <3> QED
      BY <2>5, <3>1, <3>7 DEF LadderInv
  <2>7. CASE Control
    <3>1. /\ verdict = "TestEnumerationFailed" /\ stage = "ladder" /\ stage' = "control"
          /\ attempt' = Exonerating
      BY <2>7 DEF Control, Relaunch
    <3>2. seen'[n + 1].class = "TestEnumerationFailed" /\ seen'[n + 1].attempt.active = asked'.active
      BY <1>1, <2>2, <2>3, <3>1 DEF Climbing
    <3>3. Climbing'
      BY <2>2, <2>3, <2>4, <3>1, <3>2 DEF Climbing
    <3> QED
      BY <2>5, <3>1, <3>3 DEF LadderInv
  <2>8. CASE Conclude
    <3>1. /\ stage = "ladder" /\ stage' = "final" /\ result' = verdict
          /\ verdict # "TestEnumerationFailed" /\ ~Suspected
      BY <2>8 DEF Conclude, Settle
    <3>2. /\ n = round /\ attempt.active = asked.active
          /\ round = 0 => checked = "none"
          /\ round > 0 => seen[round].class = checked /\ attempt = Checking(checked)
      BY <1>1, <3>1 DEF Climbing, n
    <3>3. ASSUME verdict \in Suspicions, ~asked.baseline, n # CONFIRM_ROUNDS
          PROVE  /\ n + 1 >= 2 /\ seen'[n].class = verdict
                 /\ seen'[n + 1] = [attempt |-> Checking(verdict), class |-> verdict]
      <4>1. checked = verdict
        <5>1. round \in 0..CONFIRM_ROUNDS
          BY DEF VerdictInv, TypeOK
        <5>2. round < CONFIRM_ROUNDS
          BY ONLY <5>1, <3>2, <3>3 DEF CONFIRM_ROUNDS
        <5> QED
          BY <3>1, <3>3, <5>2 DEF Suspected
      <4>2. n >= 1
        BY <2>2, <3>2, <3>3, <4>1 DEF Suspicions
      <4>3. n \in 1..n
        BY <2>2, <4>2
      <4> QED
        BY <2>2, <3>2, <4>1, <4>2, <4>3 DEF now
    <3>4. SecondLook'
      <4> SUFFICES ASSUME verdict \in Suspicions, ~asked.baseline, n # CONFIRM_ROUNDS
                   PROVE  /\ Len(seen') >= 2 /\ seen'[Len(seen') - 1].class = result'
                          /\ seen'[Len(seen')] =
                               [attempt |-> Checking(result), class |-> result]'
        BY <2>2, <3>1 DEF SecondLook, CONFIRM_ROUNDS
      <4>1. Len(seen') = n + 1 /\ Len(seen') - 1 = n
        BY <2>2
      <4>2. [attempt |-> Checking(result), class |-> result]'
              = [attempt |-> Checking(verdict), class |-> verdict]
        BY <2>2, <3>1 DEF Checking
      <4> QED
        BY <3>1, <3>3, <4>1, <4>2
    <3>5. OnlyTheMutantConvicts'
      BY <2>2, <2>3, <3>1, <3>2 DEF OnlyTheMutantConvicts
    <3>6. Climbing'
      BY <3>1 DEF Climbing
    <3> QED
      BY <3>4, <3>5, <3>6 DEF LadderInv
  <2>9. CASE Attribute
    <3>1. /\ stage = "control" /\ stage' = "final"
          /\ result' \in {"TestEnumerationFailed", "Flaky", "Unmetered", "Unjudged", "Unconfirmed"}
          /\ result' = "TestEnumerationFailed" => verdict = "Passed"
      BY <2>2, <2>9 DEF Attribute, Settle, Classes, Suspicions
    <3>2. /\ attempt = Exonerating
          /\ \E i \in 1..n : /\ seen[i].class = "TestEnumerationFailed"
                             /\ seen[i].attempt.active = asked.active
      BY <1>1, <2>2, <3>1 DEF Climbing
    <3>3. PICK i \in 1..n : /\ seen[i].class = "TestEnumerationFailed"
                            /\ seen[i].attempt.active = asked.active
      BY <3>2
    <3>4. i \in DOMAIN seen' /\ seen'[i] = seen[i]
      BY <2>2
    <3>5. verdict = "Passed" => seen'[n + 1] = [attempt |-> Exonerating, class |-> "Passed"]
      BY <2>2, <3>2 DEF now
    <3>6. OnlyTheMutantConvicts'
      BY <2>2, <2>3, <2>4, <3>1, <3>3, <3>4, <3>5 DEF OnlyTheMutantConvicts, Convictions, Suspicions
    <3>7. SecondLook' /\ Climbing'
      BY <3>1 DEF SecondLook, Climbing, Suspicions
    <3> QED
      BY <3>6, <3>7 DEF LadderInv
  <2> QED
    BY <1>5, <2>6, <2>7, <2>8, <2>9 DEF Judge
<1> QED
  BY <1>3, <1>4, <1>5 DEF Next

-----------------------------------------------------------------------------
(* The theorems. *)

LEMMA StepInv == VerdictInv /\ [Next]_vars => VerdictInv'
<1> SUFFICES ASSUME VerdictInv, [Next]_vars PROVE VerdictInv'
  OBVIOUS
<1>1. TypeOK'
  <2>1. TypeOK
    BY DEF VerdictInv
  <2>2. TypeLines' /\ TypeSupervised' /\ TypeFlags' /\ TypeLadder'
    BY <2>1, LinesTyped, SupervisedTyped, LadderTyped
  <2> QED
    BY <2>2 DEF TypeOK, TypeLines, TypeSupervised, TypeFlags, TypeLadder, LineText
<1>2. LaunchInv'
  BY UnbornStep, ReasonedStep, FinishedStep, SpokenStep, AnnouncedStep, ToldStep, ContractStep,
     ContainedStep, StartupStep
  DEF LaunchInv
<1>3. LadderInv'
  BY LadderStep
<1> QED
  BY <1>1, <1>2, <1>3 DEF VerdictInv

LEMMA AlwaysInv == Safety => []VerdictInv
BY InitInv, StepInv, PTL DEF Safety

\* Types: what the threads of a launch and the ladder above it may hold, the
\* verdict among it, for any budgets and any sequence of lines.
THEOREM TypesHold == Safety => []TypeOK
<1>1. VerdictInv => TypeOK
  BY DEF VerdictInv
<1> QED
  BY <1>1, AlwaysInv, PTL

\* A launch returns nothing but what Outcomes allows it, which is what the
\* ladder assumes of each launch after the first (supervise, run_launch).
THEOREM KeepsContract == Safety => []ContractKept
<1>1. VerdictInv => ContractKept
  BY DEF VerdictInv, LaunchInv
<1> QED
  BY <1>1, AlwaysInv, PTL

\* Once a launch is settled nothing of it is left in its containment, unless
\* it is declared unmetered (observe_exit, cut_short).
THEOREM StaysContained == Safety => []Contained
<1>1. VerdictInv => Contained
  BY DEF VerdictInv, LaunchInv
<1> QED
  BY <1>1, AlwaysInv, PTL

\* No wake-up is lost between looking at what was published and sleeping
\* (Pulse::seen, Pulse::signal, Pulse::wait).
THEOREM NewsAlwaysWakes == Safety => []NewsWakes
<1>1. VerdictInv => NewsWakes
  <2> SUFFICES ASSUME VerdictInv, pc = "asleep", \A s \in Streams : reader[s] \in {"reading", "done"}
               PROVE  ~startup /\ (nextest \/ attempt.baseline \/ ~failed)
    BY DEF NewsWakes
  <2>1. ~Waking
    BY DEF Waking
  <2>2. ~News
    BY <2>1 DEF VerdictInv, LaunchInv, Told
  <2> QED
    BY <2>2 DEF News
<1> QED
  BY <1>1, AlwaysInv, PTL

\* A runtime that could not start neither convicts nor acquits, in whatever
\* order its exit, its lines and its budgets came (settle, settle_budget_with).
THEOREM StartupDisqualifies == Safety => []StartupFailureDisqualifies
<1>1. VerdictInv => StartupFailureDisqualifies
  BY DEF VerdictInv, LaunchInv
<1> QED
  BY <1>1, AlwaysInv, PTL

\* A suspicion is a verdict only after the launch that checked it agreed, or
\* when no confirmation is left (settle_suspicions).
THEOREM SuspicionsAreChecked == Safety => []SecondLook
<1>1. VerdictInv => SecondLook
  BY DEF VerdictInv, LadderInv
<1> QED
  BY <1>1, AlwaysInv, PTL

\* A verdict is about the mutant (confirm_enumeration_with).
THEOREM MutantConvicted == Safety => []OnlyTheMutantConvicts
<1>1. VerdictInv => OnlyTheMutantConvicts
  BY DEF VerdictInv, LadderInv
<1> QED
  BY <1>1, AlwaysInv, PTL
=============================================================================
