-------------------------------- MODULE Sweep --------------------------------
(* A mutation sweep: workers judge mutants stage by stage against the test   *)
(* binaries that may reach them, share what they learn about unreached       *)
(* sites, and report to one draining thread that checkpoints each verdict    *)
(* before anybody sees it (exec/sweep.rs and exec/sweep/staged.rs).          *)
(*                                                                           *)
(* The queue is taken at its word (WorkPool).  A launch of a test binary is  *)
(* two steps, so that other workers act while it runs; which probes learning *)
(* proposes is left open, so nothing rests on the quality of its guesses.    *)
EXTENDS Integers, Sequences, FiniteSets

CONSTANTS
  Workers, Mutants, Sites, Binaries, Tests,
  SiteOf,         \* the source site of each mutant
  Reachable,      \* per mutant, its test binaries in their stable order
  Hint,           \* per mutant, the test that killed it in an earlier run
  HomeOf,         \* the binary of each test
  Admitted,       \* the tests the harness filters let run
  Budgeted,       \* binaries with a timeout or stall budget or metering
  Deterministic,  \* whether reach narrowing may be relied upon
  CaseLimit,      \* named probes per mutant
  Suites,         \* what the test suite may be like
  None

Fails == {"failed", "enumeration"}
Inconclusive == {"timeout", "memory", "flaky", "unjudged"}
Verdicts == {"passed"} \cup Fails \cup Inconclusive
Outcomes == {"killed", "timeout", "memory", "flaky", "pending", "survived", "nocoverage"}

Reach(m) == {Reachable[m][k] : k \in DOMAIN Reachable[m]}

ASSUME SweepAssumption ==
  /\ Workers # {}
  /\ SiteOf \in [Mutants -> Sites]
  /\ Reachable \in [Mutants -> Seq(Binaries)]
  /\ Hint \in [Mutants -> Tests \cup {None}]
  /\ HomeOf \in [Tests -> Binaries]
  /\ Deterministic \in BOOLEAN /\ CaseLimit \in Nat
  /\ None \notin Binaries \cup Tests \cup Mutants \cup Verdicts \cup Outcomes
  /\ Binaries \cap Tests = {}

\* A suite gives the same verdict whenever the same selection is run: whole is
\* that of a whole binary, single that of one test.  A binary that never
\* reaches a site behaves as in the baseline for every mutant of the site, and
\* so does each test of a binary that passes.
ASSUME SuiteAssumption ==
  \A s \in Suites :
    /\ s.whole \in [Mutants -> [Binaries -> Verdicts]]
    /\ s.single \in [Mutants -> [Tests -> Verdicts]]
    /\ s.reaches \in [Sites -> [Binaries -> BOOLEAN]]
    /\ \A m \in Mutants, b \in Binaries :
         ~s.reaches[SiteOf[m]][b] => s.whole[m][b] = "passed"
    /\ \A m \in Mutants, t \in Tests :
         s.whole[m][HomeOf[t]] = "passed" => s.single[m][t] = "passed"

VARIABLES
  suite,
  pass,          \* the exact pass, or the tail pass after its barrier
  pool,          \* mutants of this pass nobody has claimed
  pc, at,        \* the stage of each worker and the mutant it judges
  todo,          \* selections left in the stage
  running,       \* the selection a worker has launched
  runs,          \* ProbeState.binary_runs
  passedTests,   \* ProbeState.passed_tests
  verdict,       \* the settled outcome of each mutant, or None
  negative,      \* NegativeLearning: (site, binary) pairs seen not to meet
  channel,       \* Completed events on their way to the drain
  plan,          \* the outcomes the drain has written into the plan
  recorded,      \* mutants whose verdict a checkpoint took
  shown,         \* mutants reported to the user
  checkpointFailed, abandoned,
  result         \* what the sweep returned

judging == <<pc, at, todo, running, runs, passedTests, verdict, negative>>
draining == <<plan, recorded, shown, checkpointFailed>>
vars == <<suite, pass, pool, judging, channel, draining, abandoned, result>>

Finished(m) == verdict[m] # None

-----------------------------------------------------------------------------
(* Stages. *)

\* Mistake: evidence of reach also waives the run that would check a budget.
ExcludedDespiteBudget(m, b) ==
  Deterministic /\ <<SiteOf[m], b>> \in negative

\* A whole binary may be left out when sealed evidence says it does not reach
\* the site and no resource budget hangs on running it.
Excluded(m, b) ==
  Deterministic /\ <<SiteOf[m], b>> \in negative /\ b \notin Budgeted

\* A named test worth launching: its binary is reachable and not excluded, and
\* the harness filters admit it.
Probe(m, t) ==
  HomeOf[t] \in Reach(m) /\ ~Excluded(m, HomeOf[t]) /\ t \in Admitted

\* What a stage may set out to run.  Without deterministic reach there are no
\* probes at all, only the fallback over every reachable binary.
Selections(m, stage) ==
  CASE stage = "exact" ->
         {{t \in {Hint[m]} \ {None} : Deterministic /\ Probe(m, t)}}
    [] stage = "inferred" ->
         {s \in SUBSET {t \in Tests \ passedTests[m] : Deterministic /\ Probe(m, t)} :
            Cardinality(s) <= CaseLimit}
    [] stage = "binaries" -> SUBSET {b \in Reach(m) : Deterministic}
    [] stage = "fallback" -> {Reach(m)}

Enter(w, m, stage) ==
  /\ pc' = [pc EXCEPT ![w] = stage]
  /\ \E s \in Selections(m, stage) : todo' = [todo EXCEPT ![w] = s]

OutcomeOf(v) ==
  CASE v \in Fails -> "killed" [] v = "unjudged" -> "pending" [] OTHER -> v

\* The end of the fallback: the first run that did not pass decides, in stable
\* order; if all passed, the mutant survived unless nothing had to run.
Conclude(m, outcome) ==
  LET ran(k) == runs[m][Reachable[m][k]]
      open == {k \in DOMAIN Reachable[m] : ran(k) \notin {None, "passed"}}
  IN IF open = {}
     THEN outcome = IF \E b \in Reach(m) : runs[m][b] # None THEN "survived" ELSE "nocoverage"
     ELSE \E k \in open : outcome = OutcomeOf(ran(k)) /\ \A j \in open : k <= j

-----------------------------------------------------------------------------
(* Workers. *)

Init ==
  /\ suite \in Suites
  /\ pass = "exact"
  /\ pool = Mutants
  /\ pc = [w \in Workers |-> "loop"]
  /\ at = [w \in Workers |-> None]
  /\ todo = [w \in Workers |-> {}]
  /\ running = [w \in Workers |-> None]
  /\ runs = [m \in Mutants |-> [b \in Binaries |-> None]]
  /\ passedTests = [m \in Mutants |-> {}]
  /\ verdict = [m \in Mutants |-> None]
  /\ negative = {}
  /\ channel = <<>>
  /\ plan = [m \in Mutants |-> "pending"]
  /\ recorded = {}
  /\ shown = {}
  /\ checkpointFailed = FALSE
  /\ abandoned = FALSE
  /\ result = "starting"

\* The first accounting checkpoint, before any worker exists.
Start ==
  /\ result = "starting"
  /\ result' \in {"running", "err"}
  /\ UNCHANGED <<suite, pass, pool, judging, channel, draining, abandoned>>

Claim(w) ==
  /\ result = "running" /\ pc[w] = "loop" /\ ~abandoned
  /\ \E m \in pool :
       /\ pool' = pool \ {m}
       /\ at' = [at EXCEPT ![w] = m]
       /\ Enter(w, m, IF pass = "exact" THEN "exact" ELSE "inferred")
  /\ UNCHANGED <<suite, pass, running, runs, passedTests, verdict, negative,
                 channel, draining, abandoned, result>>

Stages == {"exact", "inferred", "binaries", "fallback"}
Idle(w) == pc[w] \in Stages /\ running[w] = None

\* A binary already run for this mutant, or excluded, is passed over.
Skip(w, b) ==
  /\ Idle(w) /\ pc[w] \in {"binaries", "fallback"} /\ b \in todo[w]
  /\ runs[at[w]][b] # None \/ Excluded(at[w], b)
  /\ todo' = [todo EXCEPT ![w] = @ \ {b}]
  /\ UNCHANGED <<suite, pass, pool, pc, at, running, runs, passedTests, verdict,
                 negative, channel, draining, abandoned, result>>

Launch(w, x) ==
  /\ Idle(w) /\ x \in todo[w]
  /\ x \in Binaries => runs[at[w]][x] = None /\ ~Excluded(at[w], x)
  /\ todo' = [todo EXCEPT ![w] = @ \ {x}]
  /\ running' = [running EXCEPT ![w] = x]
  /\ UNCHANGED <<suite, pass, pool, pc, at, runs, passedTests, verdict,
                 negative, channel, draining, abandoned, result>>

\* A verdict settles the mutant: it goes to the drain and the assignment back
\* to the queue.
Settle(w, outcome) ==
  /\ verdict' = [verdict EXCEPT ![at[w]] = outcome]
  /\ channel' = Append(channel, <<at[w], outcome>>)
  /\ pc' = [pc EXCEPT ![w] = "loop"]
  /\ at' = [at EXCEPT ![w] = None]
  /\ todo' = [todo EXCEPT ![w] = {}]

\* What the run of a named test says: a failure settles, a pass is remembered,
\* anything else is only a guess that did not help.
TestEnds(w, t) ==
  /\ pc[w] \in Stages /\ running[w] = t
  /\ LET v == suite.single[at[w]][t] IN
     /\ running' = [running EXCEPT ![w] = None]
     /\ IF v \in Fails
        THEN Settle(w, "killed") /\ UNCHANGED passedTests
        ELSE /\ passedTests' = IF v = "passed"
                               THEN [passedTests EXCEPT ![at[w]] = @ \cup {t}]
                               ELSE passedTests
             /\ UNCHANGED <<verdict, channel, pc, at, todo>>
  /\ UNCHANGED <<suite, pass, pool, runs, negative, draining, abandoned, result>>

\* Sealed evidence: a deterministic whole run that passed and did not reach.
Observed(m, b, v, reach) ==
  IF Deterministic /\ v = "passed" /\ reach = "notreached"
  THEN negative \cup {<<SiteOf[m], b>>} ELSE negative

\* The reach a run reports: what happened, or that it could not be observed;
\* unless reach is deterministic it may be wrong about the next run.
Reports(m, b) ==
  IF Deterministic
  THEN {"unknown", IF suite.reaches[SiteOf[m]][b] THEN "reached" ELSE "notreached"}
  ELSE {"unknown", "reached", "notreached"}

\* Mistake: a whole run that is inconclusive settles the mutant on the spot.
BinaryEndsEagerly(w, b) ==
  /\ pc[w] \in Stages /\ running[w] = b
  /\ LET m == at[w]  v == suite.whole[at[w]][b] IN
     /\ running' = [running EXCEPT ![w] = None]
     /\ IF v # "passed"
        THEN Settle(w, OutcomeOf(v)) /\ UNCHANGED <<runs, negative>>
        ELSE /\ runs' = [runs EXCEPT ![m][b] = v]
             /\ UNCHANGED <<verdict, channel, pc, at, todo, negative>>
  /\ UNCHANGED <<suite, pass, pool, passedTests, draining, abandoned, result>>

\* What the run of a whole binary says: a failure settles at once, everything
\* else is kept for the conclusion.
BinaryEnds(w, b) ==
  /\ pc[w] \in Stages /\ running[w] = b
  /\ LET m == at[w]  v == suite.whole[at[w]][b] IN
     /\ running' = [running EXCEPT ![w] = None]
     /\ \E reach \in Reports(m, b) : negative' = Observed(m, b, v, reach)
     /\ IF v \in Fails
        THEN Settle(w, "killed") /\ UNCHANGED runs
        ELSE /\ runs' = [runs EXCEPT ![m][b] = v]
             /\ UNCHANGED <<verdict, channel, pc, at, todo>>
  /\ UNCHANGED <<suite, pass, pool, passedTests, draining, abandoned, result>>

\* A stage that settled nothing hands over to the next one; after the exact
\* stage the mutant waits for the tail pass.
NextStage(w) ==
  /\ Idle(w) /\ todo[w] = {}
  /\ \/ /\ pc[w] = "exact"
        /\ pc' = [pc EXCEPT ![w] = "loop"]
        /\ at' = [at EXCEPT ![w] = None]
        /\ UNCHANGED <<todo, verdict, channel>>
     \/ /\ pc[w] = "inferred"
        /\ Enter(w, at[w], "binaries")
        /\ UNCHANGED <<at, verdict, channel>>
     \/ /\ pc[w] = "binaries"
        /\ Enter(w, at[w], "fallback")
        /\ UNCHANGED <<at, verdict, channel>>
     \/ /\ pc[w] = "fallback"
        /\ \E outcome \in Outcomes : Conclude(at[w], outcome) /\ Settle(w, outcome)
  /\ UNCHANGED <<suite, pass, pool, running, runs, passedTests, negative,
                 draining, abandoned, result>>

\* The launched process could not be contained: nothing may be judged any more.
LoseContainment(w) ==
  /\ pc[w] \in Stages /\ running[w] # None
  /\ abandoned' = TRUE
  /\ pc' = [pc EXCEPT ![w] = "done"]
  /\ at' = [at EXCEPT ![w] = None]
  /\ running' = [running EXCEPT ![w] = None]
  /\ todo' = [todo EXCEPT ![w] = {}]
  /\ UNCHANGED <<suite, pass, pool, runs, passedTests, verdict, negative,
                 channel, draining, result>>

\* Mistake: only an empty queue ends a worker.
StopWhenEmpty(w) ==
  /\ result = "running" /\ pc[w] = "loop" /\ pool = {}
  /\ pc' = [pc EXCEPT ![w] = "done"]
  /\ UNCHANGED <<suite, pass, pool, at, todo, running, runs, passedTests, verdict,
                 negative, channel, draining, abandoned, result>>

Stop(w) ==
  /\ result = "running" /\ pc[w] = "loop"
  /\ pool = {} \/ abandoned
  /\ pc' = [pc EXCEPT ![w] = "done"]
  /\ UNCHANGED <<suite, pass, pool, at, todo, running, runs, passedTests, verdict,
                 negative, channel, draining, abandoned, result>>

-----------------------------------------------------------------------------
(* The drain, on the thread that owns the plan. *)

Received ==
  /\ channel # <<>>
  /\ plan' = [plan EXCEPT ![Head(channel)[1]] = Head(channel)[2]]
  /\ channel' = Tail(channel)
  /\ UNCHANGED <<suite, pass, pool, judging, result>>

\* Mistake: the user sees the verdict although its checkpoint failed.
ReceiveShowing(taken) ==
  /\ Received /\ ~checkpointFailed
  /\ shown' = shown \cup {Head(channel)[1]}
  /\ recorded' = IF taken THEN recorded \cup {Head(channel)[1]} ELSE recorded
  /\ checkpointFailed' = ~taken
  /\ abandoned' = (abandoned \/ ~taken)

\* The verdict is written into the plan, then checkpointed, then shown; a
\* checkpoint that is not taken ends all showing and abandons the campaign.
Receive(taken) ==
  /\ Received /\ ~checkpointFailed
  /\ IF taken
     THEN /\ recorded' = recorded \cup {Head(channel)[1]}
          /\ shown' = shown \cup {Head(channel)[1]}
          /\ UNCHANGED <<checkpointFailed, abandoned>>
     ELSE /\ checkpointFailed' = TRUE
          /\ abandoned' = TRUE
          /\ UNCHANGED <<recorded, shown>>

ReceiveSilently ==
  /\ Received /\ checkpointFailed
  /\ UNCHANGED <<recorded, shown, checkpointFailed, abandoned>>

\* The accounting of a launch is checkpointed too, and may fail likewise.
FailAccounting ==
  /\ result = "running" /\ ~checkpointFailed
  /\ checkpointFailed' = TRUE
  /\ abandoned' = TRUE
  /\ UNCHANGED <<suite, pass, pool, judging, channel, plan, recorded, shown, result>>

\* Mistake: the tail pass is built from every mutant, finished or not.
NextPassOverAll ==
  /\ result = "running" /\ channel = <<>> /\ \A w \in Workers : pc[w] = "done"
  /\ pass = "exact" /\ ~abandoned
  /\ pass' = "tail"
  /\ pool' = Mutants
  /\ pc' = [w \in Workers |-> "loop"]
  /\ UNCHANGED <<suite, at, todo, running, runs, passedTests, verdict, negative,
                 channel, draining, abandoned, result>>

\* The workers of the exact pass have been joined and their events drained: a
\* second queue is built over what is unfinished.
NextPass ==
  /\ result = "running" /\ channel = <<>> /\ \A w \in Workers : pc[w] = "done"
  /\ pass = "exact" /\ ~abandoned
  /\ pass' = "tail"
  /\ pool' = {m \in Mutants : ~Finished(m)}
  /\ pc' = [w \in Workers |-> "loop"]
  /\ UNCHANGED <<suite, at, todo, running, runs, passedTests, verdict, negative,
                 channel, draining, abandoned, result>>

\* Mistake: a campaign that was abandoned in its last pass still returns well.
ReturnRegardless ==
  /\ result = "running" /\ channel = <<>> /\ \A w \in Workers : pc[w] = "done"
  /\ pass = "tail" \/ abandoned
  /\ result' = "ok"
  /\ UNCHANGED <<suite, pass, pool, judging, channel, draining, abandoned>>

\* The last accounting checkpoint may fail as well.
Return ==
  /\ result = "running" /\ channel = <<>> /\ \A w \in Workers : pc[w] = "done"
  /\ pass = "tail" \/ abandoned
  /\ result' \in (IF abandoned THEN {"err"} ELSE {"ok", "err"})
  /\ UNCHANGED <<suite, pass, pool, judging, channel, draining, abandoned>>

Worker(w) ==
  \/ Claim(w)
  \/ \E b \in Binaries : Skip(w, b) \/ BinaryEnds(w, b)
  \/ \E x \in Binaries \cup Tests : Launch(w, x)
  \/ \E t \in Tests : TestEnds(w, t)
  \/ NextStage(w)
  \/ Stop(w)

Drain ==
  \/ \E taken \in BOOLEAN : Receive(taken)
  \/ ReceiveSilently
  \/ NextPass
  \/ Return

Next ==
  \/ Start
  \/ \E w \in Workers : Worker(w) \/ LoseContainment(w)
  \/ Drain
  \/ FailAccounting
  \/ result \in {"ok", "err"} /\ UNCHANGED vars

\* Threads run and every launched process ends.
Fairness ==
  /\ WF_vars(Start)
  /\ \A w \in Workers : WF_vars(Worker(w))
  /\ WF_vars(Drain)

Spec == Init /\ [][Next]_vars
FairSpec == Spec /\ Fairness

-----------------------------------------------------------------------------
(* Properties. *)

TypeOK ==
  /\ suite \in Suites
  /\ pass \in {"exact", "tail"}
  /\ pool \subseteq Mutants
  /\ pc \in [Workers -> Stages \cup {"loop", "done"}]
  /\ at \in [Workers -> Mutants \cup {None}]
  /\ todo \in [Workers -> SUBSET (Binaries \cup Tests)]
  /\ running \in [Workers -> Binaries \cup Tests \cup {None}]
  /\ runs \in [Mutants -> [Binaries -> Verdicts \cup {None}]]
  /\ passedTests \in [Mutants -> SUBSET Tests]
  /\ verdict \in [Mutants -> Outcomes \cup {None}]
  /\ negative \subseteq Sites \X Binaries
  /\ channel \in Seq(Mutants \X Outcomes)
  /\ plan \in [Mutants -> Outcomes]
  /\ recorded \subseteq Mutants /\ shown \subseteq Mutants
  /\ checkpointFailed \in BOOLEAN /\ abandoned \in BOOLEAN
  /\ result \in {"starting", "running", "ok", "err"}

WholeFails(m) == \E b \in Reach(m) : suite.whole[m][b] \in Fails
SingleFails(m) == \E t \in Tests : HomeOf[t] \in Reach(m) /\ suite.single[m][t] \in Fails
FirstOpen(m, k) ==
  /\ k \in DOMAIN Reachable[m]
  /\ suite.whole[m][Reachable[m][k]] # "passed"
  /\ \A j \in DOMAIN Reachable[m] : j < k => suite.whole[m][Reachable[m][j]] = "passed"

\* What running every reachable binary to its end would have said.  A failure
\* of a named test alone may kill as well.
Justified(m, outcome) ==
  CASE outcome = "killed" -> WholeFails(m) \/ SingleFails(m)
    [] outcome \in {"survived", "nocoverage"} ->
         \A b \in Reach(m) : suite.whole[m][b] = "passed"
    [] OTHER -> /\ ~WholeFails(m)
                /\ \E k \in DOMAIN Reachable[m] :
                     FirstOpen(m, k) /\ outcome = OutcomeOf(suite.whole[m][Reachable[m][k]])

\* Verdicts do not depend on scheduling, hints or learning: each one is what
\* the exhaustive run over the reachable binaries justifies, although probes,
\* cached runs and evidence gathered by other mutants skip most of it.  A mutant
\* is only reported without coverage when no binary reaches its site.
VerdictsJustified ==
  \A m \in Mutants :
    /\ Finished(m) => Justified(m, verdict[m])
    /\ verdict[m] = "nocoverage" => \A b \in Reach(m) : ~suite.reaches[SiteOf[m]][b]

\* A binary whose run would check a resource budget, and any binary while reach
\* is not deterministic, has really been run before a mutant is called survived
\* or uncovered: evidence gathered by other mutants never stands in for it.
RequiredRunsMade ==
  \A m \in Mutants : verdict[m] \in {"survived", "nocoverage"} =>
    \A b \in Reach(m) : b \in Budgeted \/ ~Deterministic => runs[m][b] = "passed"

\* The user is never shown a verdict that a resumed run would not find, and
\* what the plan holds is what a worker settled.
ShownIsRecorded ==
  /\ shown \subseteq recorded
  /\ \A m \in recorded : Finished(m) /\ plan[m] = verdict[m]

\* The sweep returns success only for a complete campaign: every mutant judged,
\* its verdict in the plan, checkpointed and shown.
OkMeansComplete ==
  result = "ok" => \A m \in Mutants : Finished(m) /\ plan[m] = verdict[m] /\ m \in shown

\* A settled verdict is final: no later stage, pass or event changes it.
VerdictsFinal ==
  [][\A m \in Mutants : /\ Finished(m) => verdict'[m] = verdict[m]
                        /\ m \in recorded => plan'[m] = plan[m]]_vars

\* Whatever fails or is abandoned, the sweep comes to an end.
SweepReturns == <>(result \in {"ok", "err"})

\* What a resumed run would find, and what the user has been told.
Durable == [m \in Mutants |-> IF m \in recorded THEN plan[m] ELSE "pending"]
Told == [m \in Mutants |-> IF m \in shown THEN verdict[m] ELSE "pending"]

Log == INSTANCE VerdictLog WITH
  Outcomes <- Outcomes \ {"pending"}, Pending <- "pending",
  durable <- Durable, shown <- Told, campaigns <- 0

\* To the user a sweep is a log of verdicts: whatever fails or is abandoned,
\* what was settled is shown as it was settled and checkpointed, never before,
\* and neither the plan nor a later stage takes it back.  No step of a sweep
\* supersedes the campaign.
ImplementsVerdictLog == Log!Spec
=============================================================================
