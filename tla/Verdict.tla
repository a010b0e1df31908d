------------------------------ MODULE Verdict ------------------------------
(***************************************************************************)
(* From launches to a verdict: cargo-gamma-lib/src/exec/verdict.rs         *)
(* (run_binary_with_observer, settle_suspicions, confirm_enumeration_with) *)
(* over the supervised launches of Launch.                                 *)
(*                                                                         *)
(* A timeout, a stall and a memory limit are suspicions, launched again    *)
(* with more room; a failed enumeration is held against a control launch   *)
(* without the mutant.  A baseline is launched once and read as it is.     *)
(*                                                                         *)
(* The first launch is modelled step by step.  The later ones share no     *)
(* state with it but the verdict they return, and are modelled by what a   *)
(* launch may return, Outcomes, which Launch is proved to keep to.         *)
(***************************************************************************)
EXTENDS Launch

CONSTANT Attempts     \* what may be asked: the attempts a run starts with

ASSUME AttemptsAssumption == Attempts \subseteq {a \in AttemptType : a.baseline => ~a.active}

VARIABLES
  asked,      \* the attempt this verdict answers
  stage,      \* ladder, control, final
  checked,    \* the suspicion the current launch checks
  round,      \* confirmations made
  seen,       \* history: each settled launch's attempt and class
  result      \* what the run of this binary says

ladder == <<asked, stage, checked, round, seen, result>>
vars == <<nextest, attempt, leader, others, pipe, overdue,
          reader, kept, moved, pc, why, verdict,
          asked, stage, checked, round, seen, result>>

-----------------------------------------------------------------------------
CONFIRM_ROUNDS == 2
CONFIRM_FACTOR == 3

Suspicions == {"TimedOut", "Stalled", "MemoryLimit"}

\* lengthened, patient, or the same again.
Checking(suspicion) ==
  CASE suspicion = "TimedOut" -> [asked EXCEPT !.timeout = @ * CONFIRM_FACTOR]
    [] suspicion = "Stalled" -> [asked EXCEPT !.stall = @ * CONFIRM_FACTOR]
    [] suspicion = "MemoryLimit" -> asked

Exonerating == [asked EXCEPT !.active = FALSE]

Init ==
  /\ nextest \in BOOLEAN
  /\ asked \in Attempts /\ attempt = asked
  /\ Fresh
  /\ stage = "ladder" /\ checked = "none" /\ round = 0 /\ seen = <<>> /\ result = "none"

\* The launch is over and recorded; what strayed from it has its own pipes.
Forget ==
  /\ seen' = Append(seen, [attempt |-> attempt, class |-> verdict])
  /\ leader' = "none" /\ others' = {} /\ overdue' = FALSE
  /\ pipe' = [s \in Streams |-> <<>>]
  /\ reader' = [s \in Streams |-> "done"]
  /\ kept' = [s \in Streams |-> {}]
  /\ moved' = FALSE /\ why' = "none" /\ verdict' = "none"
  /\ UNCHANGED <<nextest, asked>>

\* Another process goes its way unobserved until it returns.
Relaunch(next) ==
  /\ attempt' = next /\ pc' = "away"
  /\ Forget
  /\ UNCHANGED result

Return ==
  /\ pc = "away"
  /\ \E class \in Outcomes : verdict' = class
  /\ pc' = "settled"
  /\ UNCHANGED <<nextest, attempt, leader, others, overdue, pipe, reader, kept, moved, why>>

Settle(class) ==
  /\ result' = class /\ stage' = "final" /\ pc' = "over"
  /\ Forget
  /\ UNCHANGED <<attempt, checked, round>>

\* A mutant: one confirmation, whatever it says.
SuspectedOnce ==
  /\ verdict \in Suspicions /\ ~asked.baseline
  /\ round < CONFIRM_ROUNDS /\ checked = "none"

\* Only a class that is not what this launch was checking is looked at again.
Suspected ==
  /\ verdict \in Suspicions /\ ~asked.baseline
  /\ round < CONFIRM_ROUNDS /\ checked # verdict

Confirm ==
  /\ pc = "settled" /\ stage = "ladder" /\ Suspected
  /\ checked' = verdict /\ round' = round + 1
  /\ Relaunch(Checking(verdict))
  /\ UNCHANGED stage

\* A mutant: the control keeps the mutant switched on.
ControlWithMutant ==
  /\ pc = "settled" /\ stage = "ladder" /\ verdict = "TestEnumerationFailed"
  /\ stage' = "control"
  /\ Relaunch(attempt)
  /\ UNCHANGED <<checked, round>>

Control ==
  /\ pc = "settled" /\ stage = "ladder" /\ verdict = "TestEnumerationFailed"
  /\ stage' = "control"
  /\ Relaunch(Exonerating)
  /\ UNCHANGED <<checked, round>>

Conclude ==
  /\ pc = "settled" /\ stage = "ladder"
  /\ ~Suspected /\ verdict # "TestEnumerationFailed"
  /\ Settle(verdict)

\* Nothing a launch without the mutant suffers is held against the mutant.
Attribute ==
  /\ pc = "settled" /\ stage = "control"
  /\ Settle(CASE verdict = "Passed" -> "TestEnumerationFailed"
              [] verdict = "Failed" -> "Flaky"
              [] verdict \in {"Unmetered", "Unjudged"} -> verdict
              [] verdict \in Suspicions \cup {"TestEnumerationFailed"} -> "Unconfirmed")

Judge == Confirm \/ Control \/ Conclude \/ Attribute

Next == \/ (Supervisor \/ Return \/ World) /\ UNCHANGED ladder
        \/ Judge
        \/ stage = "final" /\ UNCHANGED vars

\* The supervisor is never starved, and a deadline that exists passes.  The
\* child, its descendants and the readers may do nothing for ever.
Fairness ==
  /\ WF_vars(((Supervisor \/ Return) /\ UNCHANGED ladder) \/ Judge)
  /\ WF_vars(Expire /\ UNCHANGED ladder)

Safety == Init /\ [][Next]_vars
Spec == Safety /\ Fairness

-----------------------------------------------------------------------------
(* Properties. *)

Convictions == Suspicions \cup {"Failed", "TestEnumerationFailed"}

TypeOK ==
  /\ nextest \in BOOLEAN
  /\ attempt \in AttemptType /\ asked \in Attempts
  /\ leader \in {"none", "running"} \cup Exits
  /\ others \subseteq {"descendant", "stray"}
  /\ pipe \in [Streams -> Seq({"failure", "startup failure"})]
  /\ overdue \in BOOLEAN
  /\ reader \in [Streams -> {"reading", "raise", "rouse", "last raise", "last rouse", "done"}]
  /\ kept \in [Streams -> SUBSET {"failure", "startup failure"}]
  /\ moved \in BOOLEAN
  /\ pc \in {"start", "sample", "observe", "startup", "failure", "budgets", "doze", "asleep",
             "cut", "drain", "settled", "away", "over"}
  /\ why \in {"none", "unread", "unasked", "uncontained", "startup", "named", "stalled", "overdue"}
               \cup Exits
  /\ verdict \in Classes \cup {"none"}
  /\ stage \in {"ladder", "control", "final"} /\ checked \in Suspicions \cup {"none"}
  /\ round \in 0..CONFIRM_ROUNDS
  /\ seen \in Seq([attempt : AttemptType, class : Classes])
  /\ result \in Classes \cup {"none", "Flaky", "Unconfirmed"}

\* Unless a launch admits that containment is unproven, nothing it started
\* within the containment outlives it and its child has been reaped: no later
\* launch runs beside a process that still holds the scratch tree.
Contained ==
  pc = "settled" /\ verdict # "Unmetered" => leader = "none" /\ "descendant" \notin others

\* A supervisor that sleeps after every reader has finished signalling has
\* seen all the news that can settle its launch: no wake-up is lost between
\* looking at the progress and going to sleep.
NewsWakes ==
  pc = "asleep" /\ (\A s \in Streams : reader[s] \in {"reading", "done"}) =>
    /\ ~startup
    /\ nextest \/ attempt.baseline \/ ~failed

\* A startup failure that was read disqualifies a launch that ran to its own
\* end, and under nextest any launch: in whatever order the readers, the exit,
\* the budgets and the grace period came, the launch convicts and acquits
\* nobody.
StartupFailureDisqualifies ==
  /\ pc = "settled" /\ startup
  /\ nextest \/ why \in Exits
  => verdict \in {"Unmetered", "Unjudged"}

\* A suspicion becomes a verdict only when the launch that checked it, with
\* more room, ended the same way, or when every confirmation has been spent.
SecondLook ==
  stage = "final" /\ result \in Suspicions /\ ~asked.baseline =>
    LET n == Len(seen) IN
    \/ n = 1 + CONFIRM_ROUNDS
    \/ /\ n >= 2
       /\ seen[n - 1].class = result
       /\ seen[n] = [attempt |-> Checking(result), class |-> result]

\* A mutant is convicted or acquitted only by what happened while it was
\* active; an enumeration failure needs, besides, the same selection to pass
\* without it.
OnlyTheMutantConvicts ==
  stage = "final" /\ result \in Convictions \cup {"Passed"} =>
    /\ \E i \in DOMAIN seen : seen[i].class = result /\ seen[i].attempt.active = asked.active
    /\ result = "TestEnumerationFailed" =>
         \E i \in DOMAIN seen : seen[i] = [attempt |-> Exonerating, class |-> "Passed"]

\* A run with a time budget is given a verdict, however long the child, what
\* it started and the readers hang.
VerdictReached == asked.timeout # 0 ~> stage = "final"
=============================================================================
