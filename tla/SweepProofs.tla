----------------------------- MODULE SweepProofs -----------------------------
(***************************************************************************)
(* The sweep's safety for any number of workers, mutants, binaries and     *)
(* tests, and for every consistent test suite.                             *)
(***************************************************************************)
EXTENDS Sweep, SequenceTheorems, TLAPS

-----------------------------------------------------------------------------
(* The invariant. *)

\* A worker judges an unfinished mutant that is in nobody else's hands, or
\* holds nothing.
Standing(w) ==
  /\ pc[w] \in Stages => at[w] \in Mutants /\ ~Finished(at[w]) /\ at[w] \notin pool
  /\ pc[w] \notin Stages => at[w] = None /\ running[w] = None

Holding ==
  /\ \A w \in Workers : Standing(w)
  /\ \A v, w \in Workers : v # w /\ at[v] = at[w] => at[v] = None
  /\ \A m \in pool : ~Finished(m)

\* What has been learnt is so: sealed evidence, and the results of runs.
Learnt ==
  /\ \A s \in Sites, b \in Binaries :
       <<s, b>> \in negative => Deterministic /\ ~suite.reaches[s][b]
  /\ \A m \in Mutants, b \in Binaries : runs[m][b] # None =>
       runs[m][b] = suite.whole[m][b] /\ runs[m][b] \notin Fails

\* Only what may reach the mutant is selected and launched.
AimedAt(w) ==
  pc[w] \in Stages => \A x \in todo[w] \cup {running[w]} :
    /\ x \in Binaries => x \in Reach(at[w])
    /\ x \in Tests => HomeOf[x] \in Reach(at[w])

\* The fallback leaves out nothing but what has run or may be left out.
CoveredAt(w) ==
  pc[w] = "fallback" => \A b \in Reach(at[w]) :
    b \in todo[w] \/ b = running[w] \/ runs[at[w]][b] # None \/ Excluded(at[w], b)

Aimed == \A w \in Workers : AimedAt(w)
Covered == \A w \in Workers : CoveredAt(w)

\* An event carries the verdict of its mutant, and no verdict gets lost while
\* checkpoints are taken.
Delivered ==
  /\ \A i \in DOMAIN channel : verdict[channel[i][1]] = channel[i][2]
  /\ checkpointFailed => abandoned
  /\ ~checkpointFailed => \A m \in Mutants : Finished(m) =>
       m \in shown \/ \E i \in DOMAIN channel : channel[i][1] = m

\* The tail pass forgets no mutant, and a pass ends when its pool is empty.
Accounted ==
  /\ \A w \in Workers : pc[w] = "exact" => pass = "exact"
  /\ pass = "tail" /\ ~abandoned => \A m \in Mutants :
       Finished(m) \/ m \in pool \/ \E w \in Workers : at[w] = m
  /\ \A w \in Workers : pc[w] = "done" => pool = {} \/ abandoned
  /\ result = "ok" => channel = <<>> /\ \A w \in Workers : pc[w] = "done"

JudgeInv == Holding /\ Learnt /\ Aimed /\ Covered /\ VerdictsJustified /\ RequiredRunsMade
DrainInv == Delivered /\ Accounted /\ ShownIsRecorded /\ OkMeansComplete
SweepInv == TypeOK /\ JudgeInv /\ DrainInv

-----------------------------------------------------------------------------
(* The constants. *)

LEMMA ReachFacts ==
  ASSUME NEW m \in Mutants
  PROVE  /\ Reach(m) \subseteq Binaries
         /\ Reachable[m] \in Seq(Binaries) /\ Len(Reachable[m]) \in Nat
         /\ DOMAIN Reachable[m] = 1..Len(Reachable[m])
         /\ \A k \in DOMAIN Reachable[m] : Reachable[m][k] \in Reach(m)
         /\ \A b \in Reach(m) : \E k \in DOMAIN Reachable[m] : Reachable[m][k] = b
<1>1. Reachable[m] \in Seq(Binaries)
  BY SweepAssumption
<1>2. Len(Reachable[m]) \in Nat /\ DOMAIN Reachable[m] = 1..Len(Reachable[m])
  BY <1>1, LenProperties
<1>3. \A k \in 1..Len(Reachable[m]) : Reachable[m][k] \in Binaries
  BY <1>1, ElementOfSeq
<1> QED
  BY <1>1, <1>2, <1>3 DEF Reach

LEMMA InitInv == Init => SweepInv
<1> SUFFICES ASSUME Init PROVE SweepInv
  OBVIOUS
<1> USE SweepAssumption DEF Init
<1>1. TypeOK
  <2>1. <<>> \in Seq(Mutants \X Outcomes)
    BY EmptySeq
  <2>2. "pending" \in Outcomes
    BY DEF Outcomes
  <2>3. /\ pc \in [Workers -> Stages \cup {"loop", "done"}]
        /\ at \in [Workers -> Mutants \cup {None}]
        /\ todo \in [Workers -> SUBSET (Binaries \cup Tests)]
        /\ running \in [Workers -> Binaries \cup Tests \cup {None}]
    OBVIOUS
  <2>4. /\ runs \in [Mutants -> [Binaries -> Verdicts \cup {None}]]
        /\ passedTests \in [Mutants -> SUBSET Tests]
        /\ verdict \in [Mutants -> Outcomes \cup {None}]
        /\ plan \in [Mutants -> Outcomes]
    BY <2>2
  <2> QED
    BY <2>1, <2>3, <2>4 DEF TypeOK
<1>2. \A m \in Mutants : ~Finished(m)
  BY DEF Finished
<1>3. \A w \in Workers : pc[w] = "loop" /\ at[w] = None /\ running[w] = None
  OBVIOUS
<1>4. Holding
  BY <1>2, <1>3 DEF Holding, Standing, Stages
<1>5. Learnt
  BY DEF Learnt
<1>6. Aimed /\ Covered
  BY <1>3 DEF Aimed, Covered, AimedAt, CoveredAt, Stages
<1>7. VerdictsJustified /\ RequiredRunsMade
  BY <1>2 DEF VerdictsJustified, RequiredRunsMade, Finished, Outcomes
<1>8. Delivered /\ Accounted
  BY <1>2, <1>3 DEF Delivered, Accounted
<1>9. ShownIsRecorded /\ OkMeansComplete
  BY DEF ShownIsRecorded, OkMeansComplete
<1> QED
  BY <1>1, <1>4, <1>5, <1>6, <1>7, <1>8, <1>9 DEF SweepInv, JudgeInv, DrainInv

\* Whatever a stage sets out to run may reach the mutant.
LEMMA SelectionFacts ==
  ASSUME NEW m \in Mutants, NEW stage \in Stages, NEW s \in Selections(m, stage)
  PROVE  /\ s \in SUBSET (Binaries \cup Tests)
         /\ \A x \in s : /\ x \in Binaries => x \in Reach(m)
                         /\ x \in Tests => HomeOf[x] \in Reach(m)
         /\ stage = "fallback" => s = Reach(m)
<1> USE SweepAssumption, ReachFacts
<1>1. CASE stage = "exact"
  <2>1. s = {t \in {Hint[m]} \ {None} : Deterministic /\ Probe(m, t)}
    BY <1>1 DEF Selections
  <2>2. \A t \in s : t \in Tests /\ HomeOf[t] \in Reach(m)
    BY <2>1 DEF Probe
  <2> QED
    BY <1>1, <2>2
<1>2. CASE stage = "inferred"
  <2>1. \A t \in s : t \in Tests /\ HomeOf[t] \in Reach(m)
    BY <1>2 DEF Selections, Probe
  <2> QED
    BY <1>2, <2>1
<1>3. CASE stage = "binaries"
  <2>1. s \in SUBSET {b \in Reach(m) : Deterministic}
    BY <1>3 DEF Selections
  <2>2. \A x \in s : x \in Binaries /\ x \in Reach(m) /\ x \notin Tests
    BY <2>1
  <2> QED
    BY <1>3, <2>2
<1>4. CASE stage = "fallback"
  <2>1. s = Reach(m)
    BY <1>4 DEF Selections
  <2> QED
    BY <1>4, <2>1
<1> QED
  BY <1>1, <1>2, <1>3, <1>4 DEF Stages

-----------------------------------------------------------------------------
(* Types. *)

LEMMA OutcomeTyped ==
  ASSUME NEW v \in Verdicts
  PROVE  /\ v \notin Fails \cup {"passed"} => OutcomeOf(v) \in Outcomes \ {"killed", "survived", "nocoverage"}
         /\ "killed" \in Outcomes /\ "pending" \in Outcomes
BY DEF OutcomeOf, Verdicts, Fails, Inconclusive, Outcomes

LEMMA SettleTyped ==
  ASSUME TypeOK, NEW w \in Workers, at[w] \in Mutants, NEW outcome \in Outcomes, Settle(w, outcome)
  PROVE  /\ pc' \in [Workers -> Stages \cup {"loop", "done"}]
         /\ at' \in [Workers -> Mutants \cup {None}]
         /\ todo' \in [Workers -> SUBSET (Binaries \cup Tests)]
         /\ verdict' \in [Mutants -> Outcomes \cup {None}]
         /\ channel' \in Seq(Mutants \X Outcomes)
<1> USE DEF TypeOK, Settle
<1>1. <<at[w], outcome>> \in Mutants \X Outcomes
  OBVIOUS
<1>2. channel' \in Seq(Mutants \X Outcomes)
  BY <1>1, AppendProperties
<1>3. /\ pc' \in [Workers -> Stages \cup {"loop", "done"}]
      /\ at' \in [Workers -> Mutants \cup {None}]
      /\ todo' \in [Workers -> SUBSET (Binaries \cup Tests)]
  OBVIOUS
<1>4. verdict' \in [Mutants -> Outcomes \cup {None}]
  OBVIOUS
<1> QED
  BY <1>2, <1>3, <1>4

LEMMA WorkerTyped ==
  ASSUME TypeOK, Holding, NEW w \in Workers, Worker(w)
  PROVE  TypeOK'
<1> USE SweepAssumption DEF TypeOK
<1>1. pc[w] \in Stages => at[w] \in Mutants
  BY DEF Holding, Standing
<1>2. CASE Claim(w)
  <2>1. PICK m \in pool : /\ pool' = pool \ {m} /\ at' = [at EXCEPT ![w] = m]
                          /\ Enter(w, m, IF pass = "exact" THEN "exact" ELSE "inferred")
    BY <1>2 DEF Claim
  <2>2. PICK stage \in Stages : Enter(w, m, stage)
    BY <2>1 DEF Stages
  <2>3. PICK s \in Selections(m, stage) : todo' = [todo EXCEPT ![w] = s]
    BY <2>2 DEF Enter
  <2>4. s \in SUBSET (Binaries \cup Tests)
    BY <2>3, SelectionFacts
  <2>5. /\ todo' \in [Workers -> SUBSET (Binaries \cup Tests)]
        /\ pc' \in [Workers -> Stages \cup {"loop", "done"}]
        /\ at' \in [Workers -> Mutants \cup {None}] /\ pool' \subseteq Mutants
    BY <2>1, <2>2, <2>3, <2>4 DEF Enter
  <2> QED
    BY <1>2, <2>5 DEF Claim, draining
<1>3. ASSUME NEW b \in Binaries, Skip(w, b) PROVE TypeOK'
  BY <1>3 DEF Skip, draining
<1>4. ASSUME NEW b \in Binaries, BinaryEnds(w, b) PROVE TypeOK'
  <2> DEFINE m == at[w]  v == suite.whole[m][b]
  <2>1. m \in Mutants /\ v \in Verdicts
    BY <1>1, <1>4, SuiteAssumption DEF BinaryEnds
  <2>2. negative' \subseteq Sites \X Binaries
    <3>1. <<SiteOf[m], b>> \in Sites \X Binaries
      BY <2>1
    <3> QED
      BY <1>4, <3>1 DEF BinaryEnds, Observed
  <2>3. running' \in [Workers -> Binaries \cup Tests \cup {None}]
    BY <1>4 DEF BinaryEnds
  <2>4. CASE v \in Fails
    <3>1. Settle(w, "killed") /\ runs' = runs
      BY <1>4, <2>4 DEF BinaryEnds
    <3>2. "killed" \in Outcomes
      BY DEF Outcomes
    <3> QED
      BY <1>4, <2>1, <2>2, <2>3, <3>1, <3>2, SettleTyped DEF BinaryEnds, draining
  <2>5. CASE v \notin Fails
    <3>1. /\ runs' = [runs EXCEPT ![m][b] = v]
          /\ verdict' = verdict /\ channel' = channel /\ pc' = pc /\ at' = at /\ todo' = todo
      BY <1>4, <2>5 DEF BinaryEnds
    <3>2. runs' \in [Mutants -> [Binaries -> Verdicts \cup {None}]]
      BY <2>1, <3>1
    <3> QED
      BY <1>4, <2>1, <2>2, <2>3, <3>1, <3>2 DEF BinaryEnds, draining
  <2> QED
    BY <2>4, <2>5
<1>5. ASSUME NEW x \in Binaries \cup Tests, Launch(w, x) PROVE TypeOK'
  BY <1>5 DEF Launch, draining
<1>6. ASSUME NEW t \in Tests, TestEnds(w, t) PROVE TypeOK'
  <2>1. at[w] \in Mutants
    BY <1>1, <1>6 DEF TestEnds
  <2>2. running' \in [Workers -> Binaries \cup Tests \cup {None}]
    BY <1>6 DEF TestEnds
  <2>3. CASE suite.single[at[w]][t] \in Fails
    <3>1. Settle(w, "killed") /\ passedTests' = passedTests
      BY <1>6, <2>3 DEF TestEnds
    <3>2. "killed" \in Outcomes
      BY DEF Outcomes
    <3> QED
      BY <1>6, <2>1, <2>2, <3>1, <3>2, SettleTyped DEF TestEnds, draining
  <2>4. CASE suite.single[at[w]][t] \notin Fails
    <3> DEFINE m == at[w]  more == passedTests[m] \cup {t}
    <3>1. /\ passedTests' = passedTests \/ passedTests' = [passedTests EXCEPT ![m] = more]
          /\ verdict' = verdict /\ channel' = channel /\ pc' = pc /\ at' = at /\ todo' = todo
      BY <1>6, <2>4 DEF TestEnds
    <3>2. more \in SUBSET Tests
      BY <2>1
    <3>3. passedTests' \in [Mutants -> SUBSET Tests]
      <4>1. passedTests \in [Mutants -> SUBSET Tests]
        BY DEF TypeOK
      <4> HIDE DEF more
      <4>2. [passedTests EXCEPT ![m] = more] \in [Mutants -> SUBSET Tests]
        BY ONLY <2>1, <3>2, <4>1
      <4> QED BY ONLY <3>1, <4>1, <4>2
    <3> QED
      BY <1>6, <2>2, <3>1, <3>3 DEF TestEnds, draining
  <2> QED
    BY <2>3, <2>4
<1>7. CASE NextStage(w)
  <2>1. at[w] \in Mutants
    BY <1>1, <1>7 DEF NextStage, Idle
  <2>2. CASE pc[w] = "exact"
    BY <1>7, <2>2 DEF NextStage, draining
  <2>3. CASE pc[w] \in {"inferred", "binaries"}
    <3>1. PICK stage \in Stages : Enter(w, at[w], stage)
      BY <1>7, <2>3 DEF NextStage, Stages
    <3>2. PICK s \in Selections(at[w], stage) : todo' = [todo EXCEPT ![w] = s]
      BY <3>1 DEF Enter
    <3>3. s \in SUBSET (Binaries \cup Tests)
      BY <2>1, <3>2, SelectionFacts
    <3>4. /\ todo' \in [Workers -> SUBSET (Binaries \cup Tests)]
          /\ pc' \in [Workers -> Stages \cup {"loop", "done"}]
      BY <3>1, <3>2, <3>3 DEF Enter
    <3> QED
      BY <1>7, <2>3, <3>4 DEF NextStage, draining
  <2>4. CASE pc[w] = "fallback"
    <3>1. PICK outcome \in Outcomes : Settle(w, outcome)
      BY <1>7, <2>4 DEF NextStage
    <3> QED
      BY <1>7, <2>1, <3>1, SettleTyped DEF NextStage, draining
  <2> QED
    BY <1>7, <2>2, <2>3, <2>4 DEF NextStage
<1>8. CASE Stop(w)
  BY <1>8 DEF Stop, draining
<1> QED
  BY <1>2, <1>3, <1>4, <1>5, <1>6, <1>7, <1>8 DEF Worker

LEMMA OtherTyped ==
  ASSUME TypeOK,
         \/ Start \/ Drain \/ FailAccounting \/ UNCHANGED vars
         \/ \E w \in Workers : LoseContainment(w)
  PROVE  TypeOK'
<1> USE SweepAssumption DEF TypeOK
<1>1. CASE Start
  BY <1>1 DEF Start, judging, draining
<1>2. ASSUME NEW taken \in BOOLEAN, Receive(taken) \/ ReceiveSilently PROVE TypeOK'
  <2>1. /\ channel # <<>> /\ channel' = Tail(channel)
        /\ plan' = [plan EXCEPT ![Head(channel)[1]] = Head(channel)[2]]
    BY <1>2 DEF Receive, ReceiveSilently, Received
  <2>2. Tail(channel) \in Seq(Mutants \X Outcomes) /\ Head(channel) \in Mutants \X Outcomes
    BY <2>1, HeadTailProperties
  <2>3. plan' \in [Mutants -> Outcomes] /\ channel' \in Seq(Mutants \X Outcomes)
    BY <2>1, <2>2
  <2>4. /\ pc' = pc /\ at' = at /\ todo' = todo /\ running' = running /\ runs' = runs
        /\ passedTests' = passedTests /\ verdict' = verdict /\ negative' = negative
        /\ suite' = suite /\ pass' = pass /\ pool' = pool /\ result' = result
    BY <1>2 DEF Receive, ReceiveSilently, Received, judging
  <2>5. recorded' \subseteq Mutants /\ shown' \subseteq Mutants
    BY <1>2, <2>2 DEF Receive, ReceiveSilently
  <2>6. checkpointFailed' \in BOOLEAN /\ abandoned' \in BOOLEAN
    BY <1>2 DEF Receive, ReceiveSilently
  <2> QED
    BY <2>3, <2>4, <2>5, <2>6
<1>3. CASE NextPass
  BY <1>3 DEF NextPass, draining
<1>4. CASE Return
  BY <1>4 DEF Return, judging, draining
<1>5. CASE FailAccounting
  BY <1>5 DEF FailAccounting, judging
<1>6. CASE UNCHANGED vars
  BY <1>6 DEF vars, judging, draining
<1>7. ASSUME NEW w \in Workers, LoseContainment(w) PROVE TypeOK'
  BY <1>7 DEF LoseContainment, draining
<1> QED
  BY <1>1, <1>2, <1>3, <1>4, <1>5, <1>6, <1>7 DEF Drain

-----------------------------------------------------------------------------
(* What a step of a worker touches. *)

LEMMA SettleEffects ==
  ASSUME TypeOK, NEW w \in Workers, at[w] \in Mutants, NEW outcome, Settle(w, outcome)
  PROVE  /\ pc'[w] = "loop" /\ at'[w] = None /\ todo'[w] = {}
         /\ \A v \in Workers \ {w} : pc'[v] = pc[v] /\ at'[v] = at[v] /\ todo'[v] = todo[v]
         /\ verdict'[at[w]] = outcome
         /\ \A m \in Mutants : m # at[w] => verdict'[m] = verdict[m]
BY DEF TypeOK, Settle

\* The mutants, runs and workers of the others stay as they are.
Confined(w) ==
  /\ suite' = suite /\ pass' = pass /\ result' = result /\ plan' = plan
  /\ recorded' = recorded /\ shown' = shown /\ checkpointFailed' = checkpointFailed
  /\ pool' \subseteq pool /\ negative \subseteq negative'
  /\ \A v \in Workers \ {w} : /\ pc'[v] = pc[v] /\ at'[v] = at[v]
                              /\ todo'[v] = todo[v] /\ running'[v] = running[v]
  /\ \A m \in Mutants : m # at[w] => runs'[m] = runs[m] /\ verdict'[m] = verdict[m]
  /\ \A m \in Mutants, b \in Binaries : runs[m][b] # None => runs'[m][b] # None

LEMMA WorkerEffects ==
  ASSUME TypeOK, Holding, NEW w \in Workers, Worker(w)
  PROVE  Confined(w)
<1> USE SweepAssumption DEF TypeOK
<1>1. pc[w] \in Stages => at[w] \in Mutants
  BY DEF Holding, Standing
<1>2. CASE Claim(w)
  BY <1>2 DEF Claim, Enter, draining, Confined
<1>3. ASSUME NEW b \in Binaries, Skip(w, b) PROVE Confined(w)
  BY <1>3 DEF Skip, draining, Confined
<1>4. ASSUME NEW b \in Binaries, BinaryEnds(w, b) PROVE Confined(w)
  <2>1. at[w] \in Mutants /\ suite.whole[at[w]][b] \in Verdicts
    BY <1>1, <1>4, SuiteAssumption DEF BinaryEnds
  <2>2. /\ suite' = suite /\ pass' = pass /\ result' = result /\ plan' = plan
        /\ recorded' = recorded /\ shown' = shown /\ checkpointFailed' = checkpointFailed
        /\ abandoned' = abandoned /\ pool' = pool
        /\ \A v \in Workers \ {w} : running'[v] = running[v]
    BY <1>4 DEF BinaryEnds, draining
  <2>3. negative \subseteq negative'
    BY <1>4 DEF BinaryEnds, Observed
  <2>4. CASE suite.whole[at[w]][b] \in Fails
    <3>1. Settle(w, "killed") /\ runs' = runs
      BY <1>4, <2>4 DEF BinaryEnds
    <3>2. /\ \A v \in Workers \ {w} : pc'[v] = pc[v] /\ at'[v] = at[v] /\ todo'[v] = todo[v]
          /\ \A m \in Mutants : m # at[w] => verdict'[m] = verdict[m]
      BY <2>1, <3>1, SettleEffects
    <3> QED
      BY <2>2, <2>3, <3>1, <3>2 DEF Confined
  <2>5. CASE suite.whole[at[w]][b] \notin Fails
    <3>1. /\ runs' = [runs EXCEPT ![at[w]][b] = suite.whole[at[w]][b]]
          /\ verdict' = verdict /\ channel' = channel /\ pc' = pc /\ at' = at /\ todo' = todo
      BY <1>4, <2>5 DEF BinaryEnds
    <3>2. suite.whole[at[w]][b] # None
      BY <2>1
    <3>3. /\ \A m \in Mutants : m # at[w] => runs'[m] = runs[m]
          /\ \A m \in Mutants, c \in Binaries : runs[m][c] # None => runs'[m][c] # None
      BY <2>1, <3>1, <3>2
    <3> QED
      BY <2>2, <2>3, <3>1, <3>3 DEF Confined
  <2> QED
    BY <2>4, <2>5
<1>5. ASSUME NEW x \in Binaries \cup Tests, Launch(w, x) PROVE Confined(w)
  BY <1>5 DEF Launch, draining, Confined
<1>6. ASSUME NEW t \in Tests, TestEnds(w, t) PROVE Confined(w)
  <2>1. at[w] \in Mutants
    BY <1>1, <1>6 DEF TestEnds
  <2>2. /\ suite' = suite /\ pass' = pass /\ result' = result /\ plan' = plan
        /\ recorded' = recorded /\ shown' = shown /\ checkpointFailed' = checkpointFailed
        /\ abandoned' = abandoned /\ pool' = pool /\ negative' = negative /\ runs' = runs
        /\ \A v \in Workers \ {w} : running'[v] = running[v]
    BY <1>6 DEF TestEnds, draining
  <2>3. CASE suite.single[at[w]][t] \in Fails
    <3>1. Settle(w, "killed")
      BY <1>6, <2>3 DEF TestEnds
    <3> QED
      BY <2>1, <2>2, <3>1, SettleEffects DEF Confined
  <2>4. CASE suite.single[at[w]][t] \notin Fails
    <3>1. verdict' = verdict /\ pc' = pc /\ at' = at /\ todo' = todo
      BY <1>6, <2>4 DEF TestEnds
    <3> QED
      BY <2>2, <3>1 DEF Confined
  <2> QED
    BY <2>3, <2>4
<1>7. CASE NextStage(w)
  <2>1. at[w] \in Mutants
    BY <1>1, <1>7 DEF NextStage, Idle
  <2>2. /\ suite' = suite /\ pass' = pass /\ result' = result /\ plan' = plan
        /\ recorded' = recorded /\ shown' = shown /\ checkpointFailed' = checkpointFailed
        /\ abandoned' = abandoned /\ pool' = pool /\ negative' = negative /\ runs' = runs
        /\ running' = running
    BY <1>7 DEF NextStage, draining
  <2>3. CASE pc[w] = "fallback"
    <3>1. PICK outcome \in Outcomes : Settle(w, outcome)
      BY <1>7, <2>3 DEF NextStage
    <3> QED
      BY <2>1, <2>2, <3>1, SettleEffects DEF Confined
  <2>4. CASE pc[w] # "fallback"
    <3>1. /\ verdict' = verdict
          /\ \A v \in Workers \ {w} : pc'[v] = pc[v] /\ at'[v] = at[v] /\ todo'[v] = todo[v]
      BY <1>7, <2>4 DEF NextStage, Enter
    <3> QED
      BY <2>2, <3>1 DEF Confined
  <2> QED
    BY <2>3, <2>4
<1>8. CASE Stop(w)
  BY <1>8 DEF Stop, draining, Confined
<1> QED
  BY <1>2, <1>3, <1>4, <1>5, <1>6, <1>7, <1>8 DEF Worker

\* So what the others hold, aim at and have covered stays so, as long as this
\* worker takes up only what is in the pool.
LEMMA OthersKept ==
  ASSUME TypeOK, Holding, Aimed, Covered, NEW w \in Workers, Confined(w),
         NEW v \in Workers \ {w}
  PROVE  Standing(v)' /\ AimedAt(v)' /\ CoveredAt(v)'
<1> USE SweepAssumption DEF TypeOK
<1>1. /\ pc'[v] = pc[v] /\ at'[v] = at[v] /\ todo'[v] = todo[v] /\ running'[v] = running[v]
      /\ pool' \subseteq pool /\ negative \subseteq negative'
  BY DEF Confined
<1>2. CASE pc[v] \in Stages
  <2>1. /\ at[v] \in Mutants /\ verdict[at[v]] = None /\ at[v] \notin pool
        /\ at[v] # None /\ at[v] # at[w]
    BY <1>2 DEF Holding, Standing, Finished
  <2>2. runs'[at[v]] = runs[at[v]] /\ verdict'[at[v]] = None
    BY <2>1 DEF Confined
  <2>3. Standing(v)'
    BY <1>1, <1>2, <2>1, <2>2 DEF Standing, Finished
  <2>4. AimedAt(v)'
    BY <1>1, <1>2 DEF Aimed, AimedAt
  <2>5. CoveredAt(v)'
    BY <1>1, <2>1, <2>2 DEF Covered, CoveredAt, Excluded
  <2> QED
    BY <2>3, <2>4, <2>5
<1>3. CASE pc[v] \notin Stages
  BY <1>1, <1>3 DEF Holding, Standing, AimedAt, CoveredAt, Stages
<1> QED
  BY <1>2, <1>3

\* The worker that acts holds, aims at and covers what it should afterwards.
Steady(w) == Standing(w)' /\ AimedAt(w)' /\ CoveredAt(w)'

LEMMA LetGoSteady ==
  ASSUME NEW w \in Workers, pc'[w] \notin Stages, at'[w] = None, running'[w] = None
  PROVE  Steady(w)
BY DEF Steady, Standing, AimedAt, CoveredAt, Stages

LEMMA EnterSteady ==
  ASSUME TypeOK, NEW w \in Workers, NEW m \in Mutants, NEW stage \in Stages, Enter(w, m, stage),
         at'[w] = m, running'[w] = None, verdict'[m] = None, m \notin pool'
  PROVE  Steady(w)
<1> USE SweepAssumption DEF TypeOK
<1>1. PICK s \in Selections(m, stage) : todo' = [todo EXCEPT ![w] = s]
  BY DEF Enter
<1>2. pc'[w] = stage /\ todo'[w] = s
  BY <1>1 DEF Enter
<1>3. /\ \A x \in s : /\ x \in Binaries => x \in Reach(m)
                      /\ x \in Tests => HomeOf[x] \in Reach(m)
      /\ stage = "fallback" => s = Reach(m)
  BY <1>1, SelectionFacts
<1>4. Standing(w)'
  BY <1>2 DEF Standing, Finished
<1>5. AimedAt(w)'
  BY <1>2, <1>3 DEF AimedAt
<1>6. CoveredAt(w)'
  BY <1>2, <1>3 DEF CoveredAt
<1> QED
  BY <1>4, <1>5, <1>6 DEF Steady

LEMMA OwnKept ==
  ASSUME TypeOK, Holding, Aimed, Covered, NEW w \in Workers, Worker(w)
  PROVE  /\ Steady(w)
         /\ \/ at'[w] \in {None, at[w]}
            \/ at'[w] \in pool /\ at'[w] \notin pool'
<1> DEFINE Goal == /\ Steady(w)
                   /\ \/ at'[w] \in {None, at[w]}
                      \/ at'[w] \in pool /\ at'[w] \notin pool'
<1> SUFFICES Goal
  OBVIOUS
<1> USE SweepAssumption DEF TypeOK
<1>1. /\ pc[w] \in Stages => at[w] \in Mutants /\ verdict[at[w]] = None /\ at[w] \notin pool
      /\ pc[w] \notin Stages => at[w] = None /\ running[w] = None
      /\ AimedAt(w) /\ CoveredAt(w)
  BY DEF Holding, Standing, Finished, Aimed, Covered
<1>2. CASE Claim(w)
  <2>1. PICK m \in pool : /\ pool' = pool \ {m} /\ at' = [at EXCEPT ![w] = m]
                          /\ Enter(w, m, IF pass = "exact" THEN "exact" ELSE "inferred")
    BY <1>2 DEF Claim
  <2>2. PICK stage \in Stages : Enter(w, m, stage)
    BY <2>1 DEF Stages
  <2>3. at'[w] = m /\ m \in pool /\ m \notin pool' /\ m \in Mutants
    BY <2>1
  <2>4. verdict'[m] = None /\ running'[w] = None
    BY <1>1, <1>2, <2>1 DEF Claim, Holding, Finished, Stages
  <2>5. Steady(w)
    BY <2>2, <2>3, <2>4, EnterSteady
  <2> QED
    BY <2>3, <2>5
<1>3. ASSUME NEW b \in Binaries, Skip(w, b) PROVE Goal
  <2>1. /\ pc' = pc /\ at' = at /\ running' = running /\ runs' = runs /\ verdict' = verdict
        /\ pool' = pool /\ negative' = negative /\ todo'[w] = todo[w] \ {b}
        /\ runs[at[w]][b] # None \/ Excluded(at[w], b)
    BY <1>3 DEF Skip
  <2>2. Standing(w)' /\ AimedAt(w)'
    BY <1>1, <2>1 DEF Standing, Finished, AimedAt
  <2>3. CoveredAt(w)'
    BY <1>1, <2>1 DEF CoveredAt, Excluded
  <2> QED
    BY <2>1, <2>2, <2>3 DEF Steady
<1>4. ASSUME NEW b \in Binaries, BinaryEnds(w, b) PROVE Goal
  <2>1. /\ at[w] \in Mutants /\ suite.whole[at[w]][b] \in Verdicts /\ pc[w] \in Stages
        /\ running[w] = b /\ running'[w] = None /\ pool' = pool
    BY <1>1, <1>4, SuiteAssumption DEF BinaryEnds
  <2>2. CASE suite.whole[at[w]][b] \in Fails
    <3>1. Settle(w, "killed")
      BY <1>4, <2>2 DEF BinaryEnds
    <3>2. pc'[w] = "loop" /\ at'[w] = None
      BY <2>1, <3>1, SettleEffects
    <3> QED
      BY <2>1, <3>2, LetGoSteady DEF Stages
  <2>3. CASE suite.whole[at[w]][b] \notin Fails
    <3>1. /\ runs' = [runs EXCEPT ![at[w]][b] = suite.whole[at[w]][b]]
          /\ verdict' = verdict /\ pc' = pc /\ at' = at /\ todo' = todo
      BY <1>4, <2>3 DEF BinaryEnds
    <3>2. negative \subseteq negative'
      BY <1>4 DEF BinaryEnds, Observed
    <3>3. runs'[at[w]][b] # None
      BY <2>1, <3>1
    <3>4. \A c \in Binaries : c # b => runs'[at[w]][c] = runs[at[w]][c]
      BY <2>1, <3>1
    <3>5. Standing(w)'
      BY <1>1, <2>1, <3>1 DEF Standing, Finished
    <3>6. AimedAt(w)'
      BY <1>1, <2>1, <3>1 DEF AimedAt
    <3>7. CoveredAt(w)'
      BY <1>1, <2>1, <3>1, <3>2, <3>3, <3>4, ReachFacts DEF CoveredAt, Excluded
    <3> QED
      BY <3>1, <3>5, <3>6, <3>7 DEF Steady
  <2> QED
    BY <2>2, <2>3
<1>5. ASSUME NEW x \in Binaries \cup Tests, Launch(w, x) PROVE Goal
  <2>1. /\ pc' = pc /\ at' = at /\ runs' = runs /\ verdict' = verdict
        /\ pool' = pool /\ negative' = negative
        /\ running'[w] = x /\ todo'[w] = todo[w] \ {x} /\ x \in todo[w]
        /\ pc[w] \in Stages /\ running[w] = None
    BY <1>5 DEF Launch, Idle
  <2>2. Standing(w)'
    BY <1>1, <2>1 DEF Standing, Finished
  <2>3. AimedAt(w)'
    BY <1>1, <2>1 DEF AimedAt
  <2>4. CoveredAt(w)'
    BY <1>1, <2>1, ReachFacts DEF CoveredAt, Excluded
  <2> QED
    BY <2>1, <2>2, <2>3, <2>4 DEF Steady
<1>6. ASSUME NEW t \in Tests, TestEnds(w, t) PROVE Goal
  <2>1. /\ at[w] \in Mutants /\ pc[w] \in Stages /\ running[w] = t
        /\ running'[w] = None /\ pool' = pool /\ runs' = runs /\ negative' = negative
    BY <1>1, <1>6 DEF TestEnds
  <2>2. CASE suite.single[at[w]][t] \in Fails
    <3>1. Settle(w, "killed")
      BY <1>6, <2>2 DEF TestEnds
    <3>2. pc'[w] = "loop" /\ at'[w] = None
      BY <2>1, <3>1, SettleEffects
    <3> QED
      BY <2>1, <3>2, LetGoSteady DEF Stages
  <2>3. CASE suite.single[at[w]][t] \notin Fails
    <3>1. verdict' = verdict /\ pc' = pc /\ at' = at /\ todo' = todo
      BY <1>6, <2>3 DEF TestEnds
    <3>2. Standing(w)' /\ AimedAt(w)'
      BY <1>1, <2>1, <3>1 DEF Standing, Finished, AimedAt
    <3>3. CoveredAt(w)'
      BY <1>1, <2>1, <3>1, ReachFacts DEF CoveredAt, Excluded
    <3> QED
      BY <3>1, <3>2, <3>3 DEF Steady
  <2> QED
    BY <2>2, <2>3
<1>7. CASE NextStage(w)
  <2>1. /\ at[w] \in Mutants /\ verdict[at[w]] = None /\ at[w] \notin pool /\ pool' = pool
        /\ pc[w] \in Stages /\ running[w] = None /\ running' = running
    BY <1>1, <1>7 DEF NextStage, Idle
  <2>2. CASE pc[w] = "exact"
    <3>1. pc'[w] = "loop" /\ at'[w] = None
      BY <1>7, <2>2 DEF NextStage
    <3> QED
      BY <2>1, <3>1, LetGoSteady DEF Stages
  <2>3. CASE pc[w] \in {"inferred", "binaries"}
    <3>1. /\ at' = at /\ verdict' = verdict
          /\ \E stage \in Stages : Enter(w, at[w], stage)
      BY <1>7, <2>3 DEF NextStage, Stages
    <3> QED
      BY <2>1, <3>1, EnterSteady
  <2>4. CASE pc[w] = "fallback"
    <3>1. PICK outcome \in Outcomes : Settle(w, outcome)
      BY <1>7, <2>4 DEF NextStage
    <3>2. pc'[w] = "loop" /\ at'[w] = None
      BY <2>1, <3>1, SettleEffects
    <3> QED
      BY <2>1, <3>2, LetGoSteady DEF Stages
  <2> QED
    BY <1>7, <2>2, <2>3, <2>4 DEF NextStage
<1>8. CASE Stop(w)
  <2>1. pc'[w] = "done" /\ at' = at /\ running' = running /\ pc[w] = "loop"
    BY <1>8 DEF Stop
  <2> QED
    BY <1>1, <2>1, LetGoSteady DEF Stages
<1> QED
  BY <1>2, <1>3, <1>4, <1>5, <1>6, <1>7, <1>8 DEF Worker

\* What is learnt from a run is so.
LEMMA WorkerLearnt ==
  ASSUME TypeOK, Holding, Learnt, NEW w \in Workers, Worker(w)
  PROVE  Learnt'
<1> USE SweepAssumption DEF TypeOK
<1>1. pc[w] \in Stages => at[w] \in Mutants
  BY DEF Holding, Standing
<1>2. suite' = suite
  BY WorkerEffects DEF Confined
<1>3. CASE runs' = runs /\ negative' = negative
  BY <1>2, <1>3 DEF Learnt
<1>4. ASSUME NEW b \in Binaries, BinaryEnds(w, b) PROVE Learnt'
  <2>1. /\ at[w] \in Mutants /\ suite.whole[at[w]][b] \in Verdicts
    BY <1>1, <1>4, SuiteAssumption DEF BinaryEnds
  <2>2. \/ runs' = runs
        \/ /\ runs' = [runs EXCEPT ![at[w]][b] = suite.whole[at[w]][b]]
           /\ suite.whole[at[w]][b] \notin Fails
    BY <1>4 DEF BinaryEnds
  <2>3. \A m \in Mutants, c \in Binaries : runs'[m][c] # None =>
          runs'[m][c] = suite.whole[m][c] /\ runs'[m][c] \notin Fails
    <3>1. CASE runs' = runs
      BY <3>1 DEF Learnt
    <3>2. CASE /\ runs' = [runs EXCEPT ![at[w]][b] = suite.whole[at[w]][b]]
               /\ suite.whole[at[w]][b] \notin Fails
      <4>1. /\ runs'[at[w]][b] = suite.whole[at[w]][b]
            /\ \A c \in Binaries : c # b => runs'[at[w]][c] = runs[at[w]][c]
            /\ \A m \in Mutants : m # at[w] => runs'[m] = runs[m]
        BY <2>1, <3>2
      <4> QED
        BY <2>1, <3>2, <4>1 DEF Learnt
    <3> QED
      BY <2>2, <3>1, <3>2
  <2>4. PICK reach \in Reports(at[w], b) :
          negative' = Observed(at[w], b, suite.whole[at[w]][b], reach)
    BY <1>4 DEF BinaryEnds
  <2>5. \/ negative' = negative
        \/ /\ negative' = negative \cup {<<SiteOf[at[w]], b>>}
           /\ Deterministic /\ reach = "notreached"
    BY <2>4 DEF Observed
  <2>6. Deterministic /\ reach = "notreached" => ~suite.reaches[SiteOf[at[w]]][b]
    BY <2>4 DEF Reports
  <2>7. \A s \in Sites, c \in Binaries :
          <<s, c>> \in negative' => Deterministic /\ ~suite.reaches[s][c]
    BY <2>5, <2>6 DEF Learnt
  <2> QED
    BY <1>2, <2>3, <2>7 DEF Learnt
<1> QED
  BY <1>3, <1>4 DEF Worker, Claim, Skip, Launch, TestEnds, NextStage, Stop

-----------------------------------------------------------------------------
(* What a verdict rests on. *)

\* An outcome that the exhaustive run bears out, with the runs it may not do
\* without.
Sound(m, outcome) ==
  /\ Justified(m, outcome)
  /\ outcome = "nocoverage" => \A b \in Reach(m) : ~suite.reaches[SiteOf[m]][b]
  /\ outcome \in {"survived", "nocoverage"} =>
       \A b \in Reach(m) : b \in Budgeted \/ ~Deterministic => runs[m][b] = "passed"

\* The fallback has tried every binary that could tell, so the exhaustive run
\* would end as it does.
LEMMA ConcludeSound ==
  ASSUME TypeOK, Learnt, NEW m \in Mutants, NEW outcome, Conclude(m, outcome),
         \A b \in Reach(m) : runs[m][b] # None \/ Excluded(m, b)
  PROVE  Sound(m, outcome)
<1> USE SweepAssumption DEF TypeOK
<1> DEFINE ran(k) == runs[m][Reachable[m][k]]
           open == {k \in DOMAIN Reachable[m] : ran(k) \notin {None, "passed"}}
<1>1. Reach(m) \subseteq Binaries /\ SiteOf[m] \in Sites
  BY ReachFacts
<1>2. \A b \in Reach(m) : runs[m][b] # None =>
        runs[m][b] = suite.whole[m][b] /\ suite.whole[m][b] \notin Fails
  BY <1>1 DEF Learnt
<1>3. \A b \in Reach(m) : runs[m][b] = None =>
        /\ Excluded(m, b) /\ ~suite.reaches[SiteOf[m]][b]
        /\ suite.whole[m][b] = "passed"
  <2>1. \A b \in Reach(m) : Excluded(m, b) => ~suite.reaches[SiteOf[m]][b]
    BY <1>1 DEF Excluded, Learnt
  <2>2. \A b \in Binaries : ~suite.reaches[SiteOf[m]][b] => suite.whole[m][b] = "passed"
    BY SuiteAssumption
  <2> QED
    BY <1>1, <2>1, <2>2
<1>4. ~WholeFails(m)
  BY <1>2, <1>3 DEF WholeFails, Fails
<1>5. \A k \in DOMAIN Reachable[m] : k \in open <=> suite.whole[m][Reachable[m][k]] # "passed"
  <2> SUFFICES ASSUME NEW k \in DOMAIN Reachable[m]
               PROVE  k \in open <=> suite.whole[m][Reachable[m][k]] # "passed"
    OBVIOUS
  <2>1. Reachable[m][k] \in Reach(m)
    BY ReachFacts
  <2>2. CASE ran(k) = None
    BY <1>3, <2>1, <2>2
  <2>3. CASE ran(k) # None
    BY <1>2, <2>1, <2>3
  <2> QED
    BY <2>2, <2>3
<1>6. CASE open = {}
  <2>1. \A b \in Reach(m) : suite.whole[m][b] = "passed"
    BY <1>5, <1>6, ReachFacts
  <2>2. outcome = IF \E b \in Reach(m) : runs[m][b] # None THEN "survived" ELSE "nocoverage"
    BY <1>6 DEF Conclude
  <2>3. Justified(m, outcome)
    BY <2>1, <2>2 DEF Justified
  <2>4. outcome = "nocoverage" => \A b \in Reach(m) : ~suite.reaches[SiteOf[m]][b]
    BY <1>3, <2>2
  <2>5. \A b \in Reach(m) : b \in Budgeted \/ ~Deterministic => runs[m][b] = "passed"
    BY <1>2, <1>3, <2>1 DEF Excluded
  <2> QED
    BY <2>3, <2>4, <2>5 DEF Sound
<1>7. CASE open # {}
  <2>1. PICK k \in open : outcome = OutcomeOf(ran(k)) /\ \A j \in open : k <= j
    BY <1>7 DEF Conclude
  <2>2. k \in DOMAIN Reachable[m] /\ Reachable[m][k] \in Reach(m)
    BY ReachFacts
  <2>3. ran(k) = suite.whole[m][Reachable[m][k]] /\ ran(k) \notin Fails \cup {"passed"}
    BY <1>2, <2>2
  <2>4. FirstOpen(m, k)
    <3>1. \A j \in DOMAIN Reachable[m] : j < k => j \notin open
      BY <2>1, <2>2, ReachFacts
    <3> QED
      BY <1>5, <2>2, <2>3, <3>1 DEF FirstOpen
  <2>5. ran(k) \in Verdicts
    BY <1>1, <2>2
  <2>6. outcome \notin {"killed", "survived", "nocoverage"}
    BY <2>1, <2>3, <2>5, OutcomeTyped
  <2>7. Justified(m, outcome)
    BY <1>4, <2>1, <2>2, <2>3, <2>4, <2>6 DEF Justified
  <2> QED
    BY <2>6, <2>7 DEF Sound
<1> QED
  BY <1>6, <1>7

\* A step of a worker leaves every verdict alone, or settles its own mutant
\* with a sound one.
Settles(w) ==
  /\ at[w] \in Mutants /\ verdict[at[w]] = None /\ runs' = runs
  /\ \E outcome \in Outcomes : Settle(w, outcome) /\ Sound(at[w], outcome)

LEMMA WorkerSettles ==
  ASSUME TypeOK, JudgeInv, NEW w \in Workers, Worker(w)
  PROVE  Settles(w) \/ (verdict' = verdict /\ channel' = channel)
<1> USE SweepAssumption DEF TypeOK
<1>1. /\ pc[w] \in Stages => at[w] \in Mutants /\ verdict[at[w]] = None
      /\ AimedAt(w) /\ CoveredAt(w) /\ Learnt
  BY DEF JudgeInv, Holding, Standing, Finished, Aimed, Covered
<1>2. "killed" \in Outcomes
  BY DEF Outcomes
<1>3. ASSUME NEW b \in Binaries, BinaryEnds(w, b), suite.whole[at[w]][b] \in Fails
      PROVE  Settles(w)
  <2>1. at[w] \in Mutants /\ verdict[at[w]] = None /\ Settle(w, "killed") /\ runs' = runs
    BY <1>1, <1>3 DEF BinaryEnds
  <2>2. b \in Reach(at[w])
    BY <1>1, <1>3 DEF BinaryEnds, AimedAt
  <2>3. Sound(at[w], "killed")
    BY <1>3, <2>2 DEF Sound, Justified, WholeFails
  <2> QED
    BY <1>2, <2>1, <2>3 DEF Settles
<1>4. ASSUME NEW t \in Tests, TestEnds(w, t), suite.single[at[w]][t] \in Fails
      PROVE  Settles(w)
  <2>1. at[w] \in Mutants /\ verdict[at[w]] = None /\ Settle(w, "killed") /\ runs' = runs
    BY <1>1, <1>4 DEF TestEnds
  <2>2. HomeOf[t] \in Reach(at[w])
    BY <1>1, <1>4 DEF TestEnds, AimedAt
  <2>3. Sound(at[w], "killed")
    BY <1>4, <2>2 DEF Sound, Justified, SingleFails
  <2> QED
    BY <1>2, <2>1, <2>3 DEF Settles
<1>5. CASE NextStage(w) /\ pc[w] = "fallback"
  <2>1. /\ at[w] \in Mutants /\ verdict[at[w]] = None /\ runs' = runs
        /\ todo[w] = {} /\ running[w] = None
    BY <1>1, <1>5 DEF NextStage, Idle
  <2>2. PICK outcome \in Outcomes : Conclude(at[w], outcome) /\ Settle(w, outcome)
    BY <1>5 DEF NextStage
  <2>3. \A b \in Reach(at[w]) : runs[at[w]][b] # None \/ Excluded(at[w], b)
    BY <1>1, <1>5, <2>1, ReachFacts DEF CoveredAt
  <2>4. Sound(at[w], outcome)
    BY <1>1, <2>1, <2>2, <2>3, ConcludeSound
  <2> QED
    BY <2>1, <2>2, <2>4 DEF Settles
<1>6. CASE NextStage(w) /\ pc[w] # "fallback"
  BY <1>6 DEF NextStage
<1> QED
  BY <1>3, <1>4, <1>5, <1>6
     DEF Worker, Claim, Skip, Launch, BinaryEnds, TestEnds, Stop

LEMMA WorkerJudges ==
  ASSUME TypeOK, JudgeInv, NEW w \in Workers, Worker(w)
  PROVE  VerdictsJustified' /\ RequiredRunsMade'
<1> USE SweepAssumption DEF TypeOK
<1>1. /\ suite' = suite
      /\ \A m \in Mutants : m # at[w] => runs'[m] = runs[m] /\ verdict'[m] = verdict[m]
  BY WorkerEffects DEF JudgeInv, Confined
<1>2. ASSUME NEW m \in Mutants, verdict'[m] # None
      PROVE  Sound(m, verdict'[m]) /\ runs'[m] = runs[m]
  <2>1. CASE verdict[m] # None
    <3>1. m # at[w] \/ at[w] = None
      <4>1. pc[w] \in Stages \/ at[w] = None
        BY DEF JudgeInv, Holding, Standing
      <4> QED
        BY <2>1, <4>1 DEF JudgeInv, Holding, Standing, Finished
    <3>2. runs'[m] = runs[m] /\ verdict'[m] = verdict[m]
      BY <1>1, <3>1
    <3> QED
      BY <2>1, <3>2 DEF JudgeInv, VerdictsJustified, RequiredRunsMade, Finished, Sound
  <2>2. CASE verdict[m] = None
    <3>1. Settles(w)
      BY <1>2, <2>2, WorkerSettles
    <3>2. PICK outcome \in Outcomes : Settle(w, outcome) /\ Sound(at[w], outcome)
      BY <3>1 DEF Settles
    <3>3. m = at[w] /\ runs' = runs
      BY <1>1, <1>2, <2>2, <3>1 DEF Settles
    <3>4. verdict'[m] = outcome
      BY <3>2, <3>3, SettleEffects
    <3> QED
      BY <3>2, <3>3, <3>4
  <2> QED
    BY <2>1, <2>2
<1>3. VerdictsJustified'
  <2> SUFFICES ASSUME NEW m \in Mutants
               PROVE  /\ verdict'[m] # None => Justified(m, verdict[m])'
                      /\ verdict'[m] = "nocoverage" => \A b \in Reach(m) : ~suite'.reaches[SiteOf[m]][b]
    BY DEF VerdictsJustified, Finished
  <2>1. verdict'[m] # None => Justified(m, verdict[m])'
    <3> HAVE verdict'[m] # None
    <3>1. Justified(m, verdict'[m]) /\ suite' = suite
      BY <1>1, <1>2 DEF Sound
    <3>2. /\ WholeFails(m)' <=> WholeFails(m)
          /\ SingleFails(m)' <=> SingleFails(m)
      BY ONLY <3>1 DEF WholeFails, SingleFails, Reach
    <3>3. \A k : FirstOpen(m, k)' <=> FirstOpen(m, k)
      BY ONLY <3>1 DEF FirstOpen
    <3> QED
      BY ONLY <3>1, <3>2, <3>3 DEF Justified, Reach
  <2>2. verdict'[m] = "nocoverage" => verdict'[m] # None
    BY DEF Outcomes
  <2> QED
    BY <1>1, <1>2, <2>1, <2>2 DEF Sound
<1>4. RequiredRunsMade'
  <2>1. "survived" # None /\ "nocoverage" # None
    BY DEF Outcomes
  <2> QED
    BY <1>1, <1>2, <2>1 DEF Sound, RequiredRunsMade
<1> QED
  BY <1>3, <1>4

\* A worker's step keeps what judging rests on.
LEMMA WorkerKeepsJudge ==
  ASSUME TypeOK, JudgeInv, NEW w \in Workers, Worker(w)
  PROVE  JudgeInv'
<1> USE SweepAssumption DEF TypeOK
<1>1. Holding /\ Learnt /\ Aimed /\ Covered /\ Confined(w)
  BY WorkerEffects DEF JudgeInv
<1>2. \A v \in Workers \ {w} : Standing(v)' /\ AimedAt(v)' /\ CoveredAt(v)'
  BY <1>1, OthersKept
<1>3. /\ Steady(w)
      /\ at'[w] \in {None, at[w]} \/ (at'[w] \in pool /\ at'[w] \notin pool')
  BY <1>1, OwnKept
<1>4. \A u \in Workers : Standing(u)' /\ AimedAt(u)' /\ CoveredAt(u)'
  BY <1>2, <1>3 DEF Steady
<1>5. \A u, v \in Workers : u # v /\ at'[u] = at'[v] => at'[u] = None
  <2>1. \A v \in Workers \ {w} : at'[v] = at[v] /\ at[v] \notin pool
    BY <1>1 DEF Confined, Holding, Standing
  <2>2. \A v \in Workers \ {w} : at'[v] = at'[w] => at'[w] = None
    BY <1>1, <1>3, <2>1 DEF Holding
  <2> QED
    BY <1>1, <2>1, <2>2 DEF Holding
<1>6. \A m \in pool' : verdict'[m] = None
  <2> SUFFICES ASSUME NEW m \in pool' PROVE verdict'[m] = None
    OBVIOUS
  <2>1. m \in pool /\ m \in Mutants /\ verdict[m] = None
    BY <1>1 DEF Confined, Holding, Finished
  <2>2. m # at[w] \/ at[w] = None
    BY <1>1, <2>1 DEF Holding, Standing
  <2> QED
    BY <1>1, <2>1, <2>2 DEF Confined
<1>7. Holding'
  BY <1>4, <1>5, <1>6 DEF Holding, Finished
<1>8. Aimed' /\ Covered'
  BY <1>4 DEF Aimed, Covered
<1>9. Learnt'
  BY <1>1, WorkerLearnt
<1> QED
  BY <1>7, <1>8, <1>9, WorkerJudges DEF JudgeInv

\* Justification depends on nothing but the suite, the runs and the verdicts.
LEMMA VerdictsFrame ==
  ASSUME VerdictsJustified, RequiredRunsMade, suite' = suite, runs' = runs, verdict' = verdict
  PROVE  VerdictsJustified' /\ RequiredRunsMade'
<1>1. \A m : /\ WholeFails(m)' <=> WholeFails(m)
             /\ SingleFails(m)' <=> SingleFails(m)
  BY DEF WholeFails, SingleFails, Reach
<1>2. \A m, k : FirstOpen(m, k)' <=> FirstOpen(m, k)
  BY DEF FirstOpen
<1>3. \A m \in Mutants : verdict[m] # None => Justified(m, verdict[m])
  BY DEF VerdictsJustified, Finished
<1>4. \A m \in Mutants : verdict[m] # None => Justified(m, verdict[m])'
  <2> SUFFICES ASSUME NEW m \in Mutants, Justified(m, verdict[m])
               PROVE  Justified(m, verdict[m])'
    BY <1>3
  <2> QED
    BY <1>1, <1>2 DEF Justified, Reach
<1>5. \A m \in Mutants : verdict[m] = "nocoverage" => \A b \in Reach(m) : ~suite.reaches[SiteOf[m]][b]
  BY DEF VerdictsJustified
<1>6. VerdictsJustified'
  BY <1>4, <1>5 DEF VerdictsJustified, Finished
<1>7. RequiredRunsMade'
  BY DEF RequiredRunsMade
<1> QED
  BY <1>6, <1>7

LEMMA LossKeepsJudge ==
  ASSUME TypeOK, JudgeInv, NEW w \in Workers, LoseContainment(w)
  PROVE  JudgeInv'
<1> USE SweepAssumption DEF TypeOK
<1>1. Holding /\ Learnt /\ Aimed /\ Covered
  BY DEF JudgeInv
<1>2. /\ suite' = suite /\ runs' = runs /\ verdict' = verdict /\ negative' = negative
      /\ pool' = pool /\ pc'[w] = "done" /\ at'[w] = None /\ running'[w] = None
      /\ \A v \in Workers \ {w} : at'[v] = at[v]
  BY DEF LoseContainment
<1>3. Confined(w)
  BY DEF LoseContainment, draining, Confined
<1>4. \A v \in Workers \ {w} : Standing(v)' /\ AimedAt(v)' /\ CoveredAt(v)'
  BY <1>1, <1>3, OthersKept
<1>5. Steady(w)
  BY <1>2, LetGoSteady DEF Stages
<1>6. \A u \in Workers : Standing(u)' /\ AimedAt(u)' /\ CoveredAt(u)'
  BY <1>4, <1>5 DEF Steady
<1>7. Holding'
  BY <1>1, <1>2, <1>6 DEF Holding, Finished
<1>8. Aimed' /\ Covered'
  BY <1>6 DEF Aimed, Covered
<1>9. Learnt'
  BY <1>1, <1>2 DEF Learnt
<1> QED
  BY <1>2, <1>7, <1>8, <1>9, VerdictsFrame DEF JudgeInv

LEMMA NextPassKeepsJudge ==
  ASSUME TypeOK, JudgeInv, NextPass
  PROVE  JudgeInv'
<1> USE SweepAssumption DEF TypeOK
<1>1. /\ suite' = suite /\ runs' = runs /\ verdict' = verdict /\ negative' = negative
      /\ at' = at /\ running' = running
      /\ pool' = {m \in Mutants : ~Finished(m)}
      /\ \A w \in Workers : pc[w] = "done" /\ pc'[w] = "loop"
  BY DEF NextPass
<1>2. \A w \in Workers : at'[w] = None /\ running'[w] = None
  BY <1>1 DEF JudgeInv, Holding, Standing, Stages
<1>3. \A w \in Workers : Steady(w)
  BY <1>1, <1>2, LetGoSteady DEF Stages
<1>4. Holding'
  BY <1>1, <1>2, <1>3 DEF Holding, Steady, Finished
<1>5. Aimed' /\ Covered'
  BY <1>3 DEF Aimed, Covered, Steady
<1>6. Learnt'
  BY <1>1 DEF JudgeInv, Learnt
<1> QED
  BY <1>1, <1>4, <1>5, <1>6, VerdictsFrame DEF JudgeInv

\* The drain and the accounting do not touch what judging rests on.
LEMMA JudgeFrame ==
  ASSUME JudgeInv, suite' = suite, pool' = pool, UNCHANGED judging
  PROVE  JudgeInv'
<1>1. /\ pc' = pc /\ at' = at /\ todo' = todo /\ running' = running /\ runs' = runs
      /\ verdict' = verdict /\ negative' = negative
  BY DEF judging
<1>2. Holding'
  BY <1>1 DEF JudgeInv, Holding, Standing, Finished
<1>3. Learnt'
  BY <1>1 DEF JudgeInv, Learnt
<1>4. Aimed'
  BY <1>1 DEF JudgeInv, Aimed, AimedAt
<1>5. Covered'
  BY <1>1 DEF JudgeInv, Covered, CoveredAt, Excluded
<1> QED
  BY <1>1, <1>2, <1>3, <1>4, <1>5, VerdictsFrame DEF JudgeInv

-----------------------------------------------------------------------------
(* What reaches the plan and the user. *)

LEMMA AppendFacts ==
  ASSUME NEW S, NEW c \in Seq(S), NEW e \in S
  PROVE  /\ DOMAIN Append(c, e) = 1..(Len(c) + 1) /\ DOMAIN c = 1..Len(c) /\ Len(c) \in Nat
         /\ \A i \in DOMAIN c : Append(c, e)[i] = c[i]
         /\ Append(c, e)[Len(c) + 1] = e
BY AppendProperties, LenProperties

LEMMA TailFacts ==
  ASSUME NEW S, NEW c \in Seq(S), c # <<>>
  PROVE  /\ DOMAIN c = 1..Len(c) /\ Len(c) \in Nat \ {0} /\ DOMAIN Tail(c) = 1..(Len(c) - 1)
         /\ \A i \in DOMAIN Tail(c) : Tail(c)[i] = c[i + 1]
         /\ Head(c) = c[1]
         /\ \A i \in DOMAIN c : c[i] \in S
BY HeadTailProperties, LenProperties, ElementOfSeq, EmptySeq

\* A settled verdict is on its way until the drain has it.
LEMMA WorkerDelivers ==
  ASSUME TypeOK, JudgeInv, Delivered, NEW w \in Workers, Worker(w), abandoned' = abandoned
  PROVE  Delivered'
<1> USE SweepAssumption DEF TypeOK
<1>1. /\ checkpointFailed' = checkpointFailed /\ shown' = shown
      /\ \A m \in Mutants : m # at[w] => verdict'[m] = verdict[m]
  BY WorkerEffects DEF JudgeInv, Confined
<1>2. CASE verdict' = verdict /\ channel' = channel
  BY <1>1, <1>2 DEF Delivered, Finished
<1>3. CASE Settles(w)
  <2>1. PICK outcome \in Outcomes : Settle(w, outcome) /\ at[w] \in Mutants /\ verdict[at[w]] = None
    BY <1>3 DEF Settles
  <2> DEFINE e == <<at[w], outcome>>
  <2>2. channel' = Append(channel, e) /\ verdict'[at[w]] = outcome
    BY <2>1, SettleEffects DEF Settle
  <2>3. e \in Mutants \X Outcomes /\ e[1] = at[w] /\ e[2] = outcome
    BY <2>1
  <2> HIDE DEF e
  <2>4. /\ DOMAIN channel' = 1..(Len(channel) + 1)
        /\ DOMAIN channel = 1..Len(channel) /\ Len(channel) \in Nat
        /\ \A i \in DOMAIN channel : channel'[i] = channel[i]
        /\ channel'[Len(channel) + 1] = e
    BY <2>2, <2>3, AppendFacts
  <2>5. \A i \in DOMAIN channel : channel[i] \in Mutants \X Outcomes
    BY <2>4, ElementOfSeq
  <2>6. \A i \in DOMAIN channel : channel[i][1] \in Mutants /\ channel[i][1] # at[w]
    BY <2>1, <2>5 DEF Delivered
  <2>7. \A i \in DOMAIN channel' : verdict'[channel'[i][1]] = channel'[i][2]
    <3> SUFFICES ASSUME NEW i \in DOMAIN channel' PROVE verdict'[channel'[i][1]] = channel'[i][2]
      OBVIOUS
    <3>1. CASE i \in DOMAIN channel
      BY <1>1, <2>4, <2>6, <3>1 DEF Delivered
    <3>2. CASE i = Len(channel) + 1
      BY <2>2, <2>3, <2>4, <3>2
    <3> QED
      BY <2>4, <3>1, <3>2
  <2>8. ASSUME ~checkpointFailed, NEW m \in Mutants, verdict'[m] # None
        PROVE  m \in shown \/ \E i \in DOMAIN channel' : channel'[i][1] = m
    <3>1. CASE m = at[w]
      <4>1. Len(channel) + 1 \in DOMAIN channel' /\ channel'[Len(channel) + 1][1] = at[w]
        BY ONLY <2>3, <2>4
      <4> QED
        BY ONLY <3>1, <4>1
    <3>2. CASE m # at[w]
      <4>1. m \in shown \/ \E i \in DOMAIN channel : channel[i][1] = m
        BY <1>1, <2>8, <3>2 DEF Delivered, Finished
      <4> QED
        BY <2>4, <4>1
    <3> QED
      BY <3>1, <3>2
  <2> QED
    BY <1>1, <2>7, <2>8 DEF Delivered, Finished
<1> QED
  BY <1>2, <1>3, WorkerSettles

LEMMA WorkerKeepsDrain ==
  ASSUME TypeOK, JudgeInv, DrainInv, NEW w \in Workers, Worker(w)
  PROVE  DrainInv'
<1> USE SweepAssumption DEF TypeOK
<1>1. /\ pass' = pass /\ result' = result /\ plan' = plan /\ recorded' = recorded
      /\ shown' = shown /\ pool' \subseteq pool
      /\ \A v \in Workers \ {w} : pc'[v] = pc[v] /\ at'[v] = at[v]
      /\ \A m \in Mutants : m # at[w] => verdict'[m] = verdict[m]
  BY WorkerEffects DEF JudgeInv, Confined
<1>2. abandoned' = abandoned
  BY DEF Worker, Claim, Skip, BinaryEnds, Launch, TestEnds, NextStage, Stop
<1>3. Delivered'
  BY <1>2, WorkerDelivers DEF DrainInv
<1>4. \A m \in Mutants : verdict[m] # None => verdict'[m] = verdict[m]
  <2>1. at[w] = None \/ verdict[at[w]] = None
    BY DEF JudgeInv, Holding, Standing, Finished
  <2> QED
    BY <1>1, <2>1
<1>5. pc[w] # "done"
  BY DEF Worker, Claim, Skip, Idle, BinaryEnds, Launch, TestEnds, NextStage, Stop, Stages
<1>6. result # "ok"
  BY <1>5 DEF DrainInv, Accounted
<1> DEFINE Passed == /\ pc'[w] = "done" => pool' = {} \/ abandoned
                     /\ pc'[w] = "exact" => pass = "exact"
                     /\ pass = "tail" => \A m \in Mutants : m \in pool \/ at[w] = m =>
                          verdict'[m] # None \/ m \in pool' \/ at'[w] = m
<1>7. Passed
  <2>1. pc[w] = "exact" => pass = "exact"
    BY DEF DrainInv, Accounted
  <2>2. /\ pc[w] \in Stages => at[w] \in Mutants
        /\ pc[w] \notin Stages => at[w] = None
    BY DEF JudgeInv, Holding, Standing
  <2>3. CASE Claim(w)
    <3>1. PICK m \in pool : /\ pool' = pool \ {m} /\ at' = [at EXCEPT ![w] = m]
                            /\ Enter(w, m, IF pass = "exact" THEN "exact" ELSE "inferred")
      BY <2>3 DEF Claim
    <3>2. pc'[w] = (IF pass = "exact" THEN "exact" ELSE "inferred")
      BY <3>1 DEF Enter
    <3>3. at'[w] = m /\ at[w] = None
      BY <2>2, <2>3, <3>1 DEF Claim, Stages
    <3> QED
      BY <3>1, <3>2, <3>3
  <2>4. ASSUME pc' = pc, at' = at, pool' = pool PROVE Passed
    BY <1>5, <2>1, <2>4
  <2>5. ASSUME NEW outcome \in Outcomes, Settle(w, outcome), pc[w] \in Stages, pool' = pool
        PROVE  Passed
    <3>1. outcome # None
      BY <2>5
    <3>2. pc'[w] = "loop" /\ verdict'[at[w]] = outcome
      BY <2>2, <2>5, SettleEffects
    <3> QED
      BY <2>5, <3>1, <3>2
  <2>6. "killed" \in Outcomes
    BY DEF Outcomes
  <2>7. ASSUME NEW b \in Binaries, BinaryEnds(w, b) PROVE Passed
    <3>1. pc[w] \in Stages /\ pool' = pool /\ (Settle(w, "killed") \/ (pc' = pc /\ at' = at))
      BY <2>7 DEF BinaryEnds
    <3> QED
      BY <2>4, <2>5, <2>6, <3>1
  <2>8. ASSUME NEW t \in Tests, TestEnds(w, t) PROVE Passed
    <3>1. pc[w] \in Stages /\ pool' = pool /\ (Settle(w, "killed") \/ (pc' = pc /\ at' = at))
      BY <2>8 DEF TestEnds
    <3> QED
      BY <2>4, <2>5, <2>6, <3>1
  <2>9. CASE NextStage(w) /\ pc[w] = "fallback"
    <3>1. pc[w] \in Stages /\ pool' = pool /\ \E outcome \in Outcomes : Settle(w, outcome)
      BY <2>9 DEF NextStage, Idle
    <3> QED
      BY <2>5, <3>1
  <2>10. CASE NextStage(w) /\ pc[w] # "fallback"
    <3>1. pool' = pool /\ pc'[w] \in {"loop", "binaries", "fallback"}
      BY <2>10 DEF NextStage, Enter
    <3>2. pc[w] # "exact" => at' = at
      BY <2>10 DEF NextStage
    <3> QED
      BY <2>1, <3>1, <3>2
  <2>11. CASE Stop(w)
    <3>1. at' = at /\ pool' = pool /\ pc'[w] = "done" /\ (pool = {} \/ abandoned)
      BY <2>11 DEF Stop
    <3> QED
      BY <3>1
  <2> QED
    BY <2>3, <2>4, <2>7, <2>8, <2>9, <2>10, <2>11 DEF Worker, Skip, Launch
<1>8. Accounted'
  <2>1. pass' = "tail" /\ ~abandoned' => \A m \in Mutants :
          verdict'[m] # None \/ m \in pool' \/ \E v \in Workers : at'[v] = m
    BY <1>1, <1>2, <1>4, <1>7 DEF DrainInv, Accounted, Finished
  <2>2. \A v \in Workers : pc'[v] = "done" => pool' = {} \/ abandoned'
    BY <1>1, <1>2, <1>7 DEF DrainInv, Accounted
  <2>3. \A v \in Workers : pc'[v] = "exact" => pass' = "exact"
    BY <1>1, <1>7 DEF DrainInv, Accounted
  <2> QED
    BY <1>1, <1>6, <2>1, <2>2, <2>3 DEF Accounted, Finished
<1>9. ShownIsRecorded'
  BY <1>1, <1>4 DEF DrainInv, ShownIsRecorded, Finished
<1>10. OkMeansComplete'
  BY <1>1, <1>6 DEF OkMeansComplete
<1> QED
  BY <1>3, <1>8, <1>9, <1>10 DEF DrainInv

LEMMA LossKeepsDrain ==
  ASSUME TypeOK, JudgeInv, DrainInv, NEW w \in Workers, LoseContainment(w)
  PROVE  DrainInv'
<1> USE SweepAssumption DEF TypeOK
<1>1. /\ verdict' = verdict /\ channel' = channel /\ plan' = plan /\ recorded' = recorded
      /\ shown' = shown /\ checkpointFailed' = checkpointFailed /\ abandoned' = TRUE
      /\ pool' = pool /\ result' = result /\ pass' = pass /\ pc'[w] = "done"
      /\ \A v \in Workers \ {w} : pc'[v] = pc[v]
      /\ pc[w] \in Stages
  BY DEF LoseContainment, draining
<1>2. result # "ok"
  BY <1>1 DEF DrainInv, Accounted, Stages
<1>3. Delivered'
  BY <1>1 DEF DrainInv, Delivered, Finished
<1>4. Accounted'
  BY <1>1, <1>2 DEF DrainInv, Accounted
<1>5. ShownIsRecorded' /\ OkMeansComplete'
  BY <1>1, <1>2 DEF DrainInv, ShownIsRecorded, OkMeansComplete, Finished
<1> QED
  BY <1>3, <1>4, <1>5 DEF DrainInv

LEMMA ReceiveKeepsDrain ==
  ASSUME TypeOK, JudgeInv, DrainInv, NEW taken \in BOOLEAN, Receive(taken) \/ ReceiveSilently
  PROVE  DrainInv'
<1> USE SweepAssumption DEF TypeOK
<1>1. /\ channel # <<>> /\ channel' = Tail(channel)
      /\ plan' = [plan EXCEPT ![Head(channel)[1]] = Head(channel)[2]]
      /\ pass' = pass /\ pool' = pool /\ result' = result
  BY DEF Receive, ReceiveSilently, Received
<1>2. pc' = pc /\ at' = at /\ verdict' = verdict
  BY DEF Receive, ReceiveSilently, Received, judging
<1>3. /\ DOMAIN channel = 1..Len(channel) /\ Len(channel) \in Nat \ {0}
      /\ DOMAIN channel' = 1..(Len(channel) - 1)
      /\ \A i \in DOMAIN channel' : channel'[i] = channel[i + 1]
      /\ Head(channel) = channel[1]
      /\ \A i \in DOMAIN channel : channel[i] \in Mutants \X Outcomes
  BY <1>1, TailFacts
<1> DEFINE m0 == channel[1][1]
<1>0. \A i \in DOMAIN channel : verdict[channel[i][1]] = channel[i][2]
  BY DEF DrainInv, Delivered
<1>4. 1 \in DOMAIN channel /\ m0 \in Mutants /\ verdict[m0] = channel[1][2]
  <2>1. 1 \in DOMAIN channel
    BY ONLY <1>3
  <2>2. channel[1] \in Mutants \X Outcomes
    BY ONLY <1>3, <2>1
  <2> QED
    BY ONLY <1>0, <2>1, <2>2
<1>5. /\ plan'[m0] = verdict[m0] /\ verdict[m0] # None
      /\ \A m \in Mutants : m # m0 => plan'[m] = plan[m]
  <2>1. plan' = [plan EXCEPT ![m0] = channel[1][2]] /\ channel[1][2] \in Outcomes
    BY <1>1, <1>3, <1>4
  <2>2. plan'[m0] = channel[1][2] /\ \A m \in Mutants : m # m0 => plan'[m] = plan[m]
    BY <1>4, <2>1
  <2> QED
    BY <1>4, <2>1, <2>2
<1>6. \/ /\ recorded' = recorded \cup {m0} /\ shown' = shown \cup {m0}
         /\ checkpointFailed' = checkpointFailed /\ abandoned' = abandoned
      \/ /\ checkpointFailed' /\ abandoned'
         /\ recorded' = recorded /\ shown' = shown
  <2>1. CASE Receive(taken)
    BY <1>3, <2>1 DEF Receive
  <2>2. CASE ReceiveSilently
    BY <2>2 DEF ReceiveSilently, DrainInv, Delivered
  <2> QED
    BY <2>1, <2>2
<1>7. result # "ok"
  BY <1>1 DEF DrainInv, Accounted
<1>8. \A i \in DOMAIN channel' : verdict'[channel'[i][1]] = channel'[i][2]
  <2> SUFFICES ASSUME NEW i \in DOMAIN channel' PROVE verdict'[channel'[i][1]] = channel'[i][2]
    OBVIOUS
  <2>1. i + 1 \in DOMAIN channel /\ channel'[i] = channel[i + 1]
    <3>1. i \in 1..(Len(channel) - 1)
      BY ONLY <1>3, i \in DOMAIN channel'
    <3> QED
      BY ONLY <1>3, <3>1
  <2> QED
    BY ONLY <1>0, <1>2, <2>1
<1>9. ASSUME ~checkpointFailed', NEW m \in Mutants, verdict[m] # None
      PROVE  m \in shown' \/ \E i \in DOMAIN channel' : channel'[i][1] = m
  <2>1. shown' = shown \cup {m0} /\ ~checkpointFailed
    BY <1>6, <1>9
  <2>2. CASE m \in shown
    BY <2>1, <2>2
  <2>3. CASE m \notin shown
    <3>1. PICK i \in DOMAIN channel : channel[i][1] = m
      BY <1>9, <2>1, <2>3 DEF DrainInv, Delivered, Finished
    <3>2. CASE i = 1
      BY <2>1, <3>1, <3>2
    <3>3. CASE i # 1
      <4>1. i - 1 \in DOMAIN channel' /\ channel'[i - 1] = channel[i]
        <5>1. i \in 1..Len(channel)
          BY ONLY <1>3, i \in DOMAIN channel
        <5>2. i - 1 \in 1..(Len(channel) - 1) /\ (i - 1) + 1 = i
          BY ONLY <1>3, <3>3, <5>1
        <5> QED
          BY ONLY <1>3, <5>2
      <4> QED
        BY <3>1, <4>1
    <3> QED
      BY <3>2, <3>3
  <2> QED
    BY <2>2, <2>3
<1>10. checkpointFailed' => abandoned'
  BY <1>6 DEF DrainInv, Delivered
<1>11. Delivered'
  BY <1>2, <1>8, <1>9, <1>10 DEF Delivered, Finished
<1>12. abandoned => abandoned'
  BY <1>6
<1>13. Accounted'
  BY <1>1, <1>2, <1>7, <1>12 DEF DrainInv, Accounted, Finished
<1>14. ShownIsRecorded'
  BY <1>2, <1>5, <1>6 DEF DrainInv, ShownIsRecorded, Finished
<1>15. OkMeansComplete'
  BY <1>1, <1>7 DEF OkMeansComplete
<1> QED
  BY <1>11, <1>13, <1>14, <1>15 DEF DrainInv

LEMMA OthersKeepDrain ==
  ASSUME TypeOK, JudgeInv, DrainInv,
         Start \/ NextPass \/ Return \/ FailAccounting \/ UNCHANGED vars
  PROVE  DrainInv'
<1> USE SweepAssumption DEF TypeOK
<1>1. CASE Start
  <2>1. /\ verdict' = verdict /\ channel' = channel /\ plan' = plan /\ recorded' = recorded
        /\ shown' = shown /\ checkpointFailed' = checkpointFailed /\ abandoned' = abandoned
        /\ pool' = pool /\ pass' = pass /\ pc' = pc /\ at' = at /\ result' # "ok"
    BY <1>1 DEF Start, judging, draining
  <2> QED
    BY <2>1 DEF DrainInv, Delivered, Accounted, ShownIsRecorded, OkMeansComplete, Finished
<1>2. CASE NextPass
  <2>1. /\ verdict' = verdict /\ channel' = channel /\ plan' = plan /\ recorded' = recorded
        /\ shown' = shown /\ checkpointFailed' = checkpointFailed /\ abandoned' = abandoned
        /\ pool' = {m \in Mutants : ~Finished(m)} /\ result' # "ok"
        /\ \A w \in Workers : pc'[w] = "loop"
    BY <1>2 DEF NextPass, draining
  <2>2. Accounted'
    BY <2>1 DEF Accounted, Finished
  <2> QED
    BY <2>1, <2>2 DEF DrainInv, Delivered, ShownIsRecorded, OkMeansComplete, Finished
<1>3. CASE Return
  <2>1. /\ verdict' = verdict /\ channel' = channel /\ plan' = plan /\ recorded' = recorded
        /\ shown' = shown /\ checkpointFailed' = checkpointFailed /\ abandoned' = abandoned
        /\ pool' = pool /\ pass' = pass /\ pc' = pc /\ at' = at
        /\ channel = <<>> /\ \A w \in Workers : pc[w] = "done"
        /\ result' = "ok" => ~abandoned /\ pass = "tail"
    BY <1>3 DEF Return, judging, draining
  <2>2. ASSUME result' = "ok", NEW m \in Mutants
        PROVE  Finished(m) /\ plan[m] = verdict[m] /\ m \in shown
    <3>1. pool = {} /\ \A w \in Workers : at[w] # m
      BY <2>1, <2>2 DEF DrainInv, Accounted, JudgeInv, Holding, Standing, Stages
    <3>2. Finished(m)
      BY <2>1, <2>2, <3>1 DEF DrainInv, Accounted
    <3>3. DOMAIN channel = {}
      BY <2>1
    <3>4. m \in shown
      BY <2>1, <2>2, <3>2, <3>3 DEF DrainInv, Delivered
    <3> QED
      BY <3>2, <3>4 DEF DrainInv, ShownIsRecorded
  <2>3. OkMeansComplete'
    BY <2>1, <2>2 DEF OkMeansComplete, Finished
  <2>4. Accounted'
    BY <2>1 DEF DrainInv, Accounted, Finished
  <2> QED
    BY <2>1, <2>3, <2>4 DEF DrainInv, Delivered, ShownIsRecorded, Finished
<1>4. CASE FailAccounting
  <2>1. /\ verdict' = verdict /\ channel' = channel /\ plan' = plan /\ recorded' = recorded
        /\ shown' = shown /\ checkpointFailed' /\ abandoned'
        /\ pool' = pool /\ pass' = pass /\ pc' = pc /\ at' = at /\ result' # "ok"
    BY <1>4 DEF FailAccounting, judging
  <2> QED
    BY <2>1 DEF DrainInv, Delivered, Accounted, ShownIsRecorded, OkMeansComplete, Finished
<1>5. CASE UNCHANGED vars
  <2>1. /\ verdict' = verdict /\ channel' = channel /\ plan' = plan /\ recorded' = recorded
        /\ shown' = shown /\ checkpointFailed' = checkpointFailed /\ abandoned' = abandoned
        /\ pool' = pool /\ pass' = pass /\ pc' = pc /\ at' = at /\ result' = result
    BY <1>5 DEF vars, judging, draining
  <2> QED
    BY <2>1 DEF DrainInv, Delivered, Accounted, ShownIsRecorded, OkMeansComplete, Finished
<1> QED
  BY <1>1, <1>2, <1>3, <1>4, <1>5

-----------------------------------------------------------------------------
(* The theorems. *)

LEMMA NextInv == SweepInv /\ [Next]_vars => SweepInv'
<1> SUFFICES ASSUME TypeOK, JudgeInv, DrainInv, [Next]_vars PROVE SweepInv'
  BY DEF SweepInv
<1>1. ASSUME NEW w \in Workers, Worker(w) PROVE SweepInv'
  BY <1>1, WorkerTyped, WorkerKeepsJudge, WorkerKeepsDrain DEF SweepInv, JudgeInv
<1>2. ASSUME NEW w \in Workers, LoseContainment(w) PROVE SweepInv'
  BY <1>2, OtherTyped, LossKeepsJudge, LossKeepsDrain DEF SweepInv
<1>3. ASSUME NEW taken \in BOOLEAN, Receive(taken) \/ ReceiveSilently PROVE SweepInv'
  <2>1. suite' = suite /\ pool' = pool /\ UNCHANGED judging
    BY <1>3 DEF Receive, ReceiveSilently, Received
  <2>2. Drain
    BY <1>3 DEF Drain
  <2> QED
    BY <1>3, <2>1, <2>2, OtherTyped, JudgeFrame, ReceiveKeepsDrain DEF SweepInv
<1>4. CASE NextPass
  BY <1>4, OtherTyped, NextPassKeepsJudge, OthersKeepDrain DEF SweepInv, Drain
<1>5. CASE Start \/ Return \/ FailAccounting \/ UNCHANGED vars
  <2>1. suite' = suite /\ pool' = pool /\ UNCHANGED judging
    BY <1>5 DEF Start, Return, FailAccounting, vars
  <2>2. Start \/ Drain \/ FailAccounting \/ UNCHANGED vars
    BY <1>5 DEF Drain
  <2> QED
    BY <1>5, <2>1, <2>2, OtherTyped, JudgeFrame, OthersKeepDrain DEF SweepInv
<1> QED
  BY <1>1, <1>2, <1>3, <1>4, <1>5 DEF Next, Drain

LEMMA Invariance == Spec => []SweepInv
BY InitInv, NextInv, PTL DEF Spec

\* Every variable of a sweep keeps its type, however many workers share it
\* (sweep.rs, staged.rs).
THEOREM SweepTyped == Spec => []TypeOK
<1>1. SweepInv => TypeOK
  BY DEF SweepInv
<1> QED
  BY <1>1, Invariance, PTL

\* Whatever the interleaving, hints and learning, a verdict is the one that
\* running every reachable binary would have led to (staged.rs).
THEOREM JudgesSoundly == Spec => []VerdictsJustified
<1>1. SweepInv => VerdictsJustified
  BY DEF SweepInv, JudgeInv
<1> QED
  BY <1>1, Invariance, PTL

\* No mutant survives, or is called uncovered, without the runs that a budget
\* or nondeterministic reach demand (staged.rs).
THEOREM RunsWhatItMust == Spec => []RequiredRunsMade
<1>1. SweepInv => RequiredRunsMade
  BY DEF SweepInv, JudgeInv
<1> QED
  BY <1>1, Invariance, PTL

\* A verdict is shown only after its checkpoint, and as it was settled
\* (sweep.rs, the drain).
THEOREM ShowsWhatIsRecorded == Spec => []ShownIsRecorded
<1>1. SweepInv => ShownIsRecorded
  BY DEF SweepInv, DrainInv
<1> QED
  BY <1>1, Invariance, PTL

\* A sweep that returns well has judged, recorded and shown every mutant
\* (sweep.rs).
THEOREM ReturnsComplete == Spec => []OkMeansComplete
<1>1. SweepInv => OkMeansComplete
  BY DEF SweepInv, DrainInv
<1> QED
  BY <1>1, Invariance, PTL

LEMMA StepFinal ==
  ASSUME SweepInv, [Next]_vars, NEW m \in Mutants
  PROVE  /\ Finished(m) => verdict'[m] = verdict[m]
         /\ m \in recorded => plan'[m] = plan[m]
<1> DEFINE Goal == /\ Finished(m) => verdict'[m] = verdict[m]
                   /\ m \in recorded => plan'[m] = plan[m]
<1> SUFFICES Goal
  OBVIOUS
<1>1. TypeOK /\ JudgeInv /\ DrainInv
  BY DEF SweepInv
<1>2. ASSUME NEW w \in Workers, Worker(w) PROVE Goal
  <2>1. plan' = plan /\ (m # at[w] => verdict'[m] = verdict[m])
    BY <1>1, <1>2, WorkerEffects DEF JudgeInv, Confined
  <2>2. at[w] = m => ~Finished(m)
    BY <1>1, SweepAssumption DEF JudgeInv, Holding, Standing
  <2> QED
    BY <2>1, <2>2
<1>3. ASSUME NEW taken \in BOOLEAN, Receive(taken) \/ ReceiveSilently PROVE Goal
  <2>1. /\ channel # <<>> /\ verdict' = verdict
        /\ plan' = [plan EXCEPT ![Head(channel)[1]] = Head(channel)[2]]
    BY <1>3 DEF Receive, ReceiveSilently, Received, judging
  <2>2. verdict[Head(channel)[1]] = Head(channel)[2]
    <3>1. Head(channel) = channel[1] /\ 1 \in DOMAIN channel
      BY <1>1, <2>1, TailFacts DEF TypeOK
    <3> QED
      BY <1>1, <3>1 DEF DrainInv, Delivered
  <2>3. m \in recorded => plan[m] = verdict[m]
    BY <1>1 DEF DrainInv, ShownIsRecorded
  <2>4. plan \in [Mutants -> Outcomes]
    BY <1>1 DEF TypeOK
  <2> QED
    BY <2>1, <2>2, <2>3, <2>4
<1>4. ASSUME NEW w \in Workers, LoseContainment(w) PROVE Goal
  BY <1>4 DEF LoseContainment, draining
<1>5. CASE NextPass
  BY <1>5 DEF NextPass, draining
<1>6. CASE Start \/ Return \/ FailAccounting \/ UNCHANGED vars
  BY <1>6 DEF Start, Return, FailAccounting, vars, judging, draining
<1> QED
  BY <1>2, <1>3, <1>4, <1>5, <1>6 DEF Next, Drain

\* Neither a later stage, nor the tail pass, nor an event that arrives late
\* changes a verdict (staged.rs, sweep.rs).
THEOREM VerdictsStay == Spec => VerdictsFinal
<1>1. SweepInv /\ [Next]_vars =>
        [\A m \in Mutants : /\ Finished(m) => verdict'[m] = verdict[m]
                            /\ m \in recorded => plan'[m] = plan[m]]_vars
  BY StepFinal
<1> QED
  BY <1>1, Invariance, PTL DEF Spec, VerdictsFinal

-----------------------------------------------------------------------------
(* The sweep as a log of verdicts. *)

\* An event that the drain takes up is recorded and shown at once, or leaves no
\* trace that anybody sees.
LEMMA ReceiveIsLogged ==
  ASSUME SweepInv, NEW taken \in BOOLEAN, Receive(taken) \/ ReceiveSilently
  PROVE  [Log!Next]_(Log!vars)
<1>1. /\ channel # <<>> /\ verdict' = verdict
      /\ plan' = [plan EXCEPT ![Head(channel)[1]] = Head(channel)[2]]
  BY DEF Receive, ReceiveSilently, Received, judging
<1>2. Head(channel) = channel[1] /\ 1 \in DOMAIN channel /\ Head(channel) \in Mutants \X Outcomes
  BY <1>1, TailFacts, HeadTailProperties DEF SweepInv, TypeOK
<1> DEFINE m0 == Head(channel)[1]  o == Head(channel)[2]
<1>3. m0 \in Mutants /\ o \in Outcomes /\ verdict[m0] = o
  BY <1>2 DEF SweepInv, DrainInv, Delivered
<1>4. /\ plan' = [plan EXCEPT ![m0] = o]
      /\ plan \in [Mutants -> Outcomes]
      /\ shown \subseteq recorded /\ recorded \subseteq Mutants
      /\ \A m \in recorded : plan[m] = verdict[m]
  BY <1>1 DEF SweepInv, TypeOK, DrainInv, ShownIsRecorded
<1>5. /\ Durable = [m \in Mutants |-> IF m \in recorded THEN plan[m] ELSE "pending"]
      /\ Durable' = [m \in Mutants |-> IF m \in recorded' THEN plan'[m] ELSE "pending"]
      /\ Told = [m \in Mutants |-> IF m \in shown THEN verdict[m] ELSE "pending"]
      /\ Told' = [m \in Mutants |-> IF m \in shown' THEN verdict[m] ELSE "pending"]
  BY <1>1 DEF Durable, Told
<1>6. \/ recorded' = recorded /\ shown' = shown
      \/ recorded' = recorded \cup {m0} /\ shown' = shown \cup {m0}
  BY DEF Receive, ReceiveSilently
<1>7. /\ m0 \in recorded => plan[m0] = o
      /\ plan'[m0] = o /\ \A m \in Mutants : m # m0 => plan'[m] = plan[m]
  BY <1>3, <1>4
<1> HIDE DEF m0, o
<1>8. CASE recorded' = recorded /\ shown' = shown
  <2>1. Durable' = Durable
    BY <1>5, <1>7, <1>8
  <2>2. Told' = Told
    BY <1>5, <1>8
  <2> QED
    BY <2>1, <2>2 DEF Log!vars
<1>9. CASE recorded' = recorded \cup {m0} /\ shown' = shown \cup {m0}
  <2>1. Durable' = [Durable EXCEPT ![m0] = o]
    BY <1>3, <1>5, <1>7, <1>9
  <2>2. Told' = [Told EXCEPT ![m0] = o]
    BY <1>3, <1>5, <1>9
  <2>3. /\ Durable[m0] = IF m0 \in recorded THEN o ELSE "pending"
        /\ Told[m0] = IF m0 \in shown THEN o ELSE "pending"
    BY <1>3, <1>5, <1>7
  <2>4. CASE o = "pending"
    <3>1. Durable' = Durable /\ Told' = Told
      BY <1>5, <2>1, <2>2, <2>3, <2>4
    <3> QED
      BY <3>1 DEF Log!vars
  <2>5. CASE o # "pending" /\ m0 \in recorded
    <3>1. Durable' = Durable /\ Durable[m0] = o
      BY <1>5, <2>1, <2>3, <2>5
    <3>2. Log!Show(m0)
      BY <2>2, <2>5, <3>1 DEF Log!Show
    <3> QED
      BY <1>3, <3>2 DEF Log!Next
  <2>6. CASE o # "pending" /\ m0 \notin recorded
    <3>1. Log!Record(m0)
      <4>1. o \in Outcomes \ {"pending"} /\ Durable[m0] = "pending"
        BY <1>3, <2>3, <2>6
      <4>2. Told' \in {Told, [Told EXCEPT ![m0] = o]}
        BY <2>2
      <4> QED
        BY <2>1, <4>1, <4>2 DEF Log!Record
    <3> QED
      BY <1>3, <3>1 DEF Log!Next
  <2> QED
    BY <2>4, <2>5, <2>6
<1> QED
  BY <1>6, <1>8, <1>9

\* A sweep is a log of verdicts for whoever watches it: checkpointed before it
\* is shown, as a worker settled it, and never taken back (sweep.rs, the drain).
THEOREM SweepIsLog == Spec => ImplementsVerdictLog
<1>1. Init => Log!Init
  BY DEF Init, Log!Init, Durable, Told
<1>2. SweepInv /\ [Next]_vars => [Log!Next]_(Log!vars)
  <2> SUFFICES ASSUME SweepInv, [Next]_vars PROVE [Log!Next]_(Log!vars)
    OBVIOUS
  <2>1. ASSUME NEW taken \in BOOLEAN, Receive(taken) \/ ReceiveSilently
        PROVE  [Log!Next]_(Log!vars)
    BY <2>1, ReceiveIsLogged
  <2>2. ASSUME recorded' = recorded, shown' = shown PROVE UNCHANGED Log!vars
    <3>1. \A m \in recorded : plan'[m] = plan[m]
      BY StepFinal DEF SweepInv, TypeOK
    <3>2. \A m \in shown : verdict'[m] = verdict[m]
      BY StepFinal DEF SweepInv, TypeOK, DrainInv, ShownIsRecorded
    <3>3. Durable' = Durable
      BY <2>2, <3>1 DEF Durable
    <3>4. Told' = Told
      BY <2>2, <3>2 DEF Told
    <3> QED
      BY <3>3, <3>4 DEF Log!vars
  <2>3. ASSUME NEW w \in Workers, Worker(w) PROVE recorded' = recorded /\ shown' = shown
    BY <2>3, WorkerEffects DEF SweepInv, JudgeInv, Confined
  <2>4. ASSUME NEW w \in Workers, LoseContainment(w) PROVE recorded' = recorded /\ shown' = shown
    BY <2>4 DEF LoseContainment, draining
  <2>5. CASE NextPass
    BY <2>2, <2>5 DEF NextPass, draining
  <2>6. CASE Start \/ Return \/ FailAccounting \/ UNCHANGED vars
    BY <2>2, <2>6 DEF Start, Return, FailAccounting, vars, draining
  <2> QED
    BY <2>1, <2>2, <2>3, <2>4, <2>5, <2>6 DEF Next, Drain
<1> QED
  BY <1>1, <1>2, Invariance, PTL DEF Spec, ImplementsVerdictLog, Log!Spec

=============================================================================
