------------------------------- MODULE Launch -------------------------------
(***************************************************************************)
(* One launch of a test binary under supervision:                          *)
(* cargo-gamma-lib/src/exec/verdict.rs (run_with_observation, supervise,   *)
(* readers, drain) and the Pulse of exec/verdict/hubs.rs that its threads  *)
(* wake each other with.                                                   *)
(*                                                                         *)
(* A reader thread per output stream publishes what the harness says; the  *)
(* supervising thread samples the pulse, asks whether the leader exited,   *)
(* looks at what was published and at its budgets, and sleeps.  Every step *)
(* is one lock acquisition or one system call.  A deadline passes; that    *)
(* the harness has been silent for longer than its budget, and that a wait *)
(* of bounded length (WAIT_CAP, DRAIN_GRACE) is over, may always be found. *)
(* Of the output only the lines a verdict is read from are kept: any other *)
(* line only postpones the silence.                                        *)
(***************************************************************************)
EXTENDS Naturals, Sequences

VARIABLES
  nextest,     \* whether the tests run under cargo-nextest
  attempt,     \* what this launch is asked: mutant active, budgets, baseline
  leader,      \* the child: none (also once reaped), running, or its exit
  others,      \* its living descendants, in the containment or strayed from it
  pipe,        \* what is written and not yet read of each stream
  overdue,     \* the deadline has passed
  reader,      \* each reader's next step
  kept,        \* the lines each reader published and will hand over
  moved,       \* the pulse's generation moved past the sampled one
  pc,          \* the supervisor's next step
  why,         \* what it settles the launch on
  verdict      \* what the launch returned

launch == <<nextest, attempt, leader, others, overdue, pipe, reader, kept, moved, pc, why, verdict>>

-----------------------------------------------------------------------------
Streams == {"authoritative", "diagnostic"}

\* A direct binary's runtime complains on stderr; nextest replays it all.
Complaints == IF nextest THEN "authoritative" ELSE "diagnostic"

Lines == {<<"authoritative", "failure">>, <<Complaints, "startup failure">>}

\* A direct binary succeeds or does not; cargo-nextest tells more by its code.
Exits == {"success", "failure"} \cup (IF nextest THEN {"listing", "signal", "code"} ELSE {})

Classes == {"Passed", "Failed", "TestEnumerationFailed", "TimedOut", "Stalled",
            "MemoryLimit", "Unmetered", "Unjudged"}

\* What a launch may return, given what it is asked and where it runs.
Outcomes ==
  {"Passed", "Failed", "MemoryLimit", "Unmetered", "Unjudged"}
    \cup (IF attempt.timeout # 0 THEN {"TimedOut"} ELSE {})
    \cup (IF attempt.stall # 0 THEN {"Stalled"} ELSE {})
    \cup (IF nextest /\ attempt.active THEN {"TestEnumerationFailed"} ELSE {})

\* timeout and stall count multiples of the calibrated budgets, 0 for none.
AttemptType == [active : BOOLEAN, timeout : Nat, stall : Nat, baseline : BOOLEAN]

\* Each line is written at most once, and is then in the pipe until it is read.
Wrote(s, line) == line \in kept[s] \/ \E i \in DOMAIN pipe[s] : pipe[s][i] = line

\* Progress: a failing test was announced; the runtime could not start.
failed == "failure" \in kept["authoritative"]
startup == \E s \in Streams : "startup failure" \in kept[s]

\* A stream ends when nobody is left to write to it.
Ended(s) == pipe[s] = <<>> /\ leader # "running" /\ others = {}

Sent(s) == reader[s] \in {"last raise", "last rouse", "done"}

Supervising == pc \in {"sample", "observe", "startup", "failure", "budgets", "doze", "asleep"}

\* A launch that nobody has started.
Fresh ==
  /\ pc = "start" /\ leader = "none" /\ others = {}
  /\ overdue = FALSE
  /\ pipe = [s \in Streams |-> <<>>]
  /\ reader = [s \in Streams |-> "done"]
  /\ kept = [s \in Streams |-> {}]
  /\ moved = FALSE /\ why = "none" /\ verdict = "none"

-----------------------------------------------------------------------------
(* The test process and its descendants. *)

\* nextest prints its FAIL line before it replays what the test printed.
Write(s, line) ==
  /\ leader = "running" \/ others # {}
  /\ <<s, line>> \in Lines /\ ~Wrote(s, line)
  /\ nextest /\ line = "startup failure" => Wrote(s, "failure")
  /\ pipe' = [pipe EXCEPT ![s] = Append(@, line)]
  /\ UNCHANGED <<nextest, attempt, leader, others, overdue, reader, kept, moved, pc, why, verdict>>

\* A descendant, still in the group or out of the containment's reach.
Fork(where) ==
  /\ leader = "running" /\ where \notin others
  /\ others' = others \cup {where}
  /\ UNCHANGED <<nextest, attempt, leader, overdue, pipe, reader, kept, moved, pc, why, verdict>>

Depart(where) ==
  /\ where \in others
  /\ others' = others \ {where}
  /\ UNCHANGED <<nextest, attempt, leader, overdue, pipe, reader, kept, moved, pc, why, verdict>>

\* A harness that announced a failure does not succeed.
Exit(status) ==
  /\ leader = "running" /\ status \in Exits
  /\ status = "success" => ~Wrote("authoritative", "failure")
  /\ leader' = status
  /\ UNCHANGED <<nextest, attempt, others, overdue, pipe, reader, kept, moved, pc, why, verdict>>

Expire ==
  /\ Supervising /\ attempt.timeout # 0
  /\ overdue' = TRUE
  /\ UNCHANGED <<nextest, attempt, leader, others, pipe, reader, kept, moved, pc, why, verdict>>

-----------------------------------------------------------------------------
(* The readers. *)

\* One line is published under the lock; only decisive ones wake the waiter.
Read(s) ==
  /\ reader[s] = "reading" /\ pipe[s] # <<>>
  /\ LET line == Head(pipe[s])
         decisive == \/ line = "failure" /\ ~failed
                     \/ line = "startup failure" /\ ~startup
     IN  /\ kept' = [kept EXCEPT ![s] = @ \cup {line}]
         /\ reader' = [reader EXCEPT ![s] = IF decisive THEN "raise" ELSE @]
  /\ pipe' = [pipe EXCEPT ![s] = Tail(@)]
  /\ UNCHANGED <<nextest, attempt, leader, others, overdue, moved, pc, why, verdict>>

\* At the end of the stream, or when it cannot be read any further, the
\* reader hands over what it kept.
Hand(s) ==
  /\ reader[s] = "reading"
  /\ reader' = [reader EXCEPT ![s] = "last raise"]
  /\ UNCHANGED <<nextest, attempt, leader, others, overdue, pipe, kept, moved, pc, why, verdict>>

EndOfStream(s) == Ended(s) /\ Hand(s)
ReadFails(s) == ~Ended(s) /\ Hand(s)

\* Pulse::signal: the generation moves under the lock, then all are notified.
Raise(s) ==
  /\ \/ reader[s] = "raise" /\ reader' = [reader EXCEPT ![s] = "rouse"]
     \/ reader[s] = "last raise" /\ reader' = [reader EXCEPT ![s] = "last rouse"]
  /\ moved' = TRUE
  /\ UNCHANGED <<nextest, attempt, leader, others, overdue, pipe, kept, pc, why, verdict>>

Rouse(s) ==
  /\ \/ reader[s] = "rouse" /\ reader' = [reader EXCEPT ![s] = "reading"]
     \/ reader[s] = "last rouse" /\ reader' = [reader EXCEPT ![s] = "done"]
  /\ pc' = IF pc = "asleep" THEN "sample" ELSE pc
  /\ UNCHANGED <<nextest, attempt, leader, others, overdue, pipe, kept, moved, why, verdict>>

Reader(s) == Read(s) \/ EndOfStream(s) \/ ReadFails(s) \/ Raise(s) \/ Rouse(s)

-----------------------------------------------------------------------------
(* The supervisor. *)

\* No child came to be, or adopt ended the one it could not take over.
Refuse ==
  /\ pc = "start"
  /\ \E class \in {"Unmetered", "Unjudged"} : verdict' = class
  /\ pc' = "settled"
  /\ UNCHANGED <<nextest, attempt, leader, others, overdue, pipe, reader, kept, moved, why>>

\* The child runs, and its readers start, standard output's first, or one does
\* not.
Spawn ==
  /\ pc = "start"
  /\ leader' = "running"
  /\ \E started \in {{}, {IF nextest THEN "diagnostic" ELSE "authoritative"}, Streams} :
       /\ reader' = [s \in Streams |-> IF s \in started THEN "reading" ELSE "done"]
       /\ IF started = Streams
          THEN pc' = "sample" /\ UNCHANGED why
          ELSE pc' = "cut" /\ why' = "unread"
  /\ UNCHANGED <<nextest, attempt, others, overdue, pipe, kept, moved, verdict>>

\* Pulse::seen, before anything is looked at.
Sample ==
  /\ pc = "sample"
  /\ moved' = FALSE
  /\ pc' = "observe"
  /\ UNCHANGED <<nextest, attempt, leader, others, overdue, pipe, reader, kept, why, verdict>>

\* A mutant: the leader is reaped and what it left behind is not swept.
ObserveUnswept ==
  /\ pc = "observe"
  /\ IF leader \in Exits
     THEN leader' = "none" /\ why' = leader /\ pc' = "drain"
     ELSE pc' = "startup" /\ UNCHANGED <<leader, why>>
  /\ UNCHANGED <<nextest, attempt, others, overdue, pipe, reader, kept, moved, verdict>>

\* An exit is observed, what it left behind is swept, and it is reaped.
Observe ==
  /\ pc = "observe"
  /\ IF leader \in Exits
     THEN /\ others' = others \ {"descendant"}
          /\ leader' = "none" /\ why' = leader /\ pc' = "drain"
     ELSE pc' = "startup" /\ UNCHANGED <<leader, others, why>>
  /\ UNCHANGED <<nextest, attempt, overdue, pipe, reader, kept, moved, verdict>>

\* The child cannot be asked, or it exited and was not swept, or not reaped.
ObserveFails ==
  /\ pc = "observe"
  /\ \/ UNCHANGED <<leader, others>>
     \/ leader \in Exits /\ others' = others \ {"descendant"} /\ UNCHANGED leader
     \/ leader \in Exits /\ leader' = "none" /\ UNCHANGED others
  /\ why' = "unasked" /\ pc' = "cut"
  /\ UNCHANGED <<nextest, attempt, overdue, pipe, reader, kept, moved, verdict>>

LookAtStartup ==
  /\ pc = "startup"
  /\ IF startup THEN pc' = "cut" /\ why' = "startup" ELSE pc' = "failure" /\ UNCHANGED why
  /\ UNCHANGED <<nextest, attempt, leader, others, overdue, pipe, reader, kept, moved, verdict>>

\* A direct binary's announced failure settles a mutant at once.
LookAtFailure ==
  /\ pc = "failure"
  /\ IF failed /\ ~nextest /\ ~attempt.baseline
     THEN pc' = "cut" /\ why' = "named" ELSE pc' = "budgets" /\ UNCHANGED why
  /\ UNCHANGED <<nextest, attempt, leader, others, overdue, pipe, reader, kept, moved, verdict>>

\* The harness may have been silent for longer than its budget at any time.
LookAtBudgets ==
  /\ pc = "budgets"
  /\ \/ attempt.stall # 0 /\ pc' = "cut" /\ why' = "stalled"
     \/ overdue /\ pc' = "cut" /\ why' = "overdue"
     \/ ~overdue /\ pc' = "doze" /\ UNCHANGED why
  /\ UNCHANGED <<nextest, attempt, leader, others, overdue, pipe, reader, kept, moved, verdict>>

\* A mutant: the generation is not compared before sleeping.
DozeBlindly ==
  /\ pc = "doze"
  /\ pc' = "asleep"
  /\ UNCHANGED <<nextest, attempt, leader, others, overdue, pipe, reader, kept, moved, why, verdict>>

\* Pulse::wait compares the generation under the lock it sleeps on.
Doze ==
  /\ pc = "doze"
  /\ pc' = IF moved THEN "sample" ELSE "asleep"
  /\ UNCHANGED <<nextest, attempt, leader, others, overdue, pipe, reader, kept, moved, why, verdict>>

\* The wait is bounded.
WakeByItself ==
  /\ pc = "asleep"
  /\ pc' = "sample"
  /\ UNCHANGED <<nextest, attempt, leader, others, overdue, pipe, reader, kept, moved, why, verdict>>

Settled(class) == verdict' = class /\ pc' = "settled"

\* cut_short: the tree is killed and the leader reaped.  A leader that is
\* already reaped, or a kill that fails, leaves containment unproven.
Cut ==
  /\ pc = "cut"
  /\ \/ /\ leader # "none"
        /\ leader' = "none" /\ others' = others \ {"descendant"}
        /\ UNCHANGED why
        /\ IF why = "unread" THEN Settled("Unjudged") ELSE pc' = "drain" /\ UNCHANGED verdict
     \/ /\ leader' = "none"
        /\ others' \in {others, others \ {"descendant"}}
        /\ IF why = "unasked"
           THEN why' = "uncontained" /\ pc' = "drain" /\ UNCHANGED verdict
           ELSE UNCHANGED why /\ Settled("Unmetered")
  /\ UNCHANGED <<nextest, attempt, overdue, pipe, reader, kept, moved>>

\* What the readers handed over by the end of the grace period.
Text == UNION {kept[s] : s \in {t \in Streams : Sent(t)}}

\* stopped_by_ceiling, settle and prefer_named: an exit's meaning.  A startup
\* failure that was handed over was also published.
OfExit(breached) ==
  CASE startup -> "Unmetered"
    [] ~startup /\ why = "success" -> "Passed"
    [] ~startup /\ why = "signal" -> IF breached THEN "MemoryLimit" ELSE "Unmetered"
    [] ~startup /\ why = "failure" -> IF breached /\ "failure" \notin Text THEN "MemoryLimit" ELSE "Failed"
    [] ~startup /\ why = "listing" -> IF attempt.active THEN "TestEnumerationFailed" ELSE "Unmetered"
    [] ~startup /\ why = "code" -> "Unmetered"

\* A mutant: a budget that ran out forgets the failure nextest announced.
OfBudgetUnchecked(breached) ==
  IF breached THEN "MemoryLimit" ELSE IF why = "stalled" THEN "Stalled" ELSE "TimedOut"

\* settle_budget_with, for a launch cut short by its deadline or by silence.
OfBudget(breached) ==
  CASE nextest /\ failed -> "Unmetered"
    [] ~(nextest /\ failed) /\ breached -> "MemoryLimit"
    [] ~(nextest /\ failed) /\ ~breached /\ why = "stalled" -> "Stalled"
    [] ~(nextest /\ failed) /\ ~breached /\ why = "overdue" -> "TimedOut"

\* A mutant: every reader is waited for, however long.
DrainAll ==
  /\ pc = "drain" /\ \A s \in Streams : Sent(s)
  /\ \E class \in Outcomes : Settled(class)
  /\ UNCHANGED <<nextest, attempt, leader, others, overdue, pipe, reader, kept, moved, why>>

\* The readers are waited for, all of them or for the grace period.  That the
\* memory ceiling was hit, if there is one, is the platform's word and is
\* asked for once.
Drain ==
  /\ pc = "drain"
  /\ \E breached \in BOOLEAN :
       Settled(CASE why \in Exits -> OfExit(breached)
                 [] why \in {"stalled", "overdue"} -> OfBudget(breached)
                 [] why = "named" -> "Failed"
                 [] why = "unasked" -> "Unjudged"
                 [] why \in {"startup", "uncontained"} -> "Unmetered")
  /\ UNCHANGED <<nextest, attempt, leader, others, overdue, pipe, reader, kept, moved, why>>

\* What the rest of the program may rely on, whatever a launch went through.
ContractKept == pc = "settled" => verdict \in Outcomes

Supervisor ==
  \/ Refuse \/ Spawn \/ Sample \/ Observe \/ ObserveFails \/ LookAtStartup \/ LookAtFailure
  \/ LookAtBudgets \/ Doze \/ WakeByItself \/ Cut \/ Drain

\* Nobody looks at a launch any more once it is settled.
World ==
  /\ pc \notin {"settled", "away", "over"}
  /\ \/ \E s \in Streams, line \in {"failure", "startup failure"} : Write(s, line)
     \/ \E where \in {"descendant", "stray"} : Fork(where) \/ Depart(where)
     \/ \E status \in Exits : Exit(status)
     \/ Expire \/ \E s \in Streams : Reader(s)
=============================================================================
