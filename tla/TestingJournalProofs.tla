------------------------ MODULE TestingJournalProofs ------------------------
(***************************************************************************)
(* What outlives the process, for any mutants, outcomes, files and bounds. *)
(* The durable campaign: what the user was shown survives, what is marked  *)
(* can be read back, and cost is exact, whatever dies, fails or is         *)
(* resumed.  The scratch tree: a preparation leaves exactly the checkout,  *)
(* whatever earlier runs left behind.                                      *)
(***************************************************************************)
EXTENDS TestingJournal, SyncScratch, FiniteSetTheorems, SequenceTheorems, TLAPS

-----------------------------------------------------------------------------
(* The invariant. *)

Preparing == {"building", "built", "snapshotted", "armed"}
Working == {"testing", "appending", "failed", "swept", "finished", "stored"}

\* A line that the program may have written for the campaign that is running.
Proper(line) ==
  /\ line.kind # "garbled" /\ line.of = snapshot
  /\ line.kind = "verdict" => line.outcome \in Outcomes
  /\ line.count <= executions

\* No two lines bring the same confirmation as news.
Disjoint(j) ==
  \A i, k \in DOMAIN j : i # k /\ j[i].kind = "cost" /\ j[k].kind = "cost" =>
    j[i].confirmed \cap j[k].confirmed = {}

\* The files of a campaign that can be resumed, or has been completed, are its
\* own; the last line carries the whole count.
Kept ==
  /\ Resumable \/ phase.name = "completed" => snapshot = campaigns
  /\ Resumable =>
       /\ phase.bound = snapshot /\ Readable(journal)
       /\ \A i \in DOMAIN journal : Proper(journal[i])
       /\ \A i \in DOMAIN journal : journal[i].count <= journal[Len(journal)].count
       /\ Disjoint(journal)

\* A process that has not begun to test knows nothing yet.
Blank ==
  plan = AllPending /\ prior = NoCost /\ tally = NoCost /\ append = <<>>

\* Where the process stands tells what is on disk.
Placed ==
  /\ pc = "idle" \/ pc \in Preparing => Blank
  /\ pc # "idle" => running = campaigns
  /\ pc \in Preparing => phase.name = "preparing"
  /\ pc \in Working => Resumable
  /\ pc \in {"snapshotted", "armed"} => snapshot = running
  /\ pc \in {"built", "snapshotted", "armed", "testing", "appending"} => prepared = running
  /\ pc = "armed" => journal = <<>> /\ ~torn
  /\ pc = "stored" => record = [of |-> running, outcomes |-> plan]

\* What an append is about to write and to announce.
Appending ==
  /\ append \in JournalLine \X JournalLine
  /\ Proper(append[1])
  /\ append[1].kind = "verdict" =>
       /\ append[2] = append[1]
       /\ \E m \in Mutants : /\ append[1].mutant = {m} /\ VerdictLines(journal, m) = {}
                             /\ plan = [Recovered(journal) EXCEPT ![m] = append[1].outcome]
  /\ append[1].kind # "verdict" => plan = Recovered(journal)
  /\ \A m \in append[2].mutant : plan[m] = append[2].outcome

\* The plan in memory is the journal, and the line under way.
Remembered ==
  /\ pc \in {"testing", "swept", "finished", "stored"} => plan = Recovered(journal)
  /\ pc \in Working \ {"appending"} => append = <<>>
  /\ pc \in {"testing", "appending"} => ~torn
  /\ pc = "appending" => Appending

\* The cost in memory covers the journal's.
Counted ==
  /\ pc # "idle" => prior.count + tally.count <= executions
  /\ pc \in {"testing", "appending"} => \A i \in DOMAIN journal :
       /\ journal[i].count <= prior.count + tally.count
       /\ journal[i].confirmed \subseteq tally.confirmed
  /\ pc = "appending" =>
       /\ append[1].count = prior.count + tally.count
       /\ append[1].confirmed \subseteq tally.confirmed
       /\ append[1].kind = "cost" => \A i \in DOMAIN journal :
            journal[i].kind = "cost" => journal[i].confirmed \cap append[1].confirmed = {}

DiskInv == Kept /\ ShownSurvives /\ CompletedIsPublished
ProcessInv == Placed /\ Remembered /\ Counted
JournalInv == TypeOK /\ DiskInv /\ ProcessInv

-----------------------------------------------------------------------------
(* What a line adds to a journal. *)

LEMMA AppendFacts ==
  ASSUME NEW S, NEW j \in Seq(S), NEW line \in S
  PROVE  /\ Append(j, line) \in Seq(S)
         /\ Len(j) \in Nat /\ DOMAIN j = 1..Len(j)
         /\ Len(Append(j, line)) = Len(j) + 1 /\ DOMAIN Append(j, line) = 1..(Len(j) + 1)
         /\ \A i \in DOMAIN j : Append(j, line)[i] = j[i]
         /\ Append(j, line)[Len(j) + 1] = line
         /\ \A i \in DOMAIN j : j[i] \in S
BY AppendProperties, LenProperties, ElementOfSeq

\* The same, without the sequence operators.
Extends(k, j, line, n) ==
  /\ n \in Nat /\ DOMAIN j = 1..n /\ DOMAIN k = 1..(n + 1)
  /\ \A i \in 1..n : k[i] = j[i]
  /\ k[n + 1] = line

LEMMA AppendExtends ==
  ASSUME NEW S, NEW j \in Seq(S), NEW line \in S
  PROVE  Extends(Append(j, line), j, line, Len(j))
BY AppendFacts DEF Extends

LEMMA LinesKept ==
  ASSUME NEW j, NEW k, NEW line, NEW n, Extends(k, j, line, n), NEW m,
         line.kind # "verdict" \/ line.mutant # {m}
  PROVE  VerdictLines(k, m) = VerdictLines(j, m)
BY DEF Extends, VerdictLines

LEMMA LinesAdded ==
  ASSUME NEW j, NEW k, NEW line, NEW n, Extends(k, j, line, n), NEW m,
         line.kind = "verdict", line.mutant = {m}, VerdictLines(j, m) = {}
  PROVE  VerdictLines(k, m) = {n + 1}
BY DEF Extends, VerdictLines

LEMMA SameRecovered ==
  ASSUME NEW j, NEW k, NEW m \in Mutants, VerdictLines(k, m) = VerdictLines(j, m),
         \A i \in VerdictLines(j, m) : k[i] = j[i]
  PROVE  Recovered(k)[m] = Recovered(j)[m]
<1> DEFINE V == VerdictLines(j, m)  c == CHOOSE i \in V : TRUE
<1>1. /\ Recovered(k)[m] = IF V = {} THEN Pending ELSE k[c].outcome
      /\ Recovered(j)[m] = IF V = {} THEN Pending ELSE j[c].outcome
  BY DEF Recovered
<1>2. V # {} => c \in V
  OBVIOUS
<1> HIDE DEF V, c
<1>3. \A i \in V : k[i] = j[i]
  BY DEF V
<1> QED
  BY <1>1, <1>2, <1>3

LEMMA RecoveredKept ==
  ASSUME NEW j, NEW k, NEW line, NEW n, Extends(k, j, line, n), line.kind # "verdict"
  PROVE  Recovered(k) = Recovered(j)
<1>1. \A m : VerdictLines(k, m) = VerdictLines(j, m)
  BY LinesKept
<1>2. \A m, i : i \in VerdictLines(j, m) => k[i] = j[i]
  BY DEF Extends, VerdictLines
<1>3. \A m \in Mutants : Recovered(k)[m] = Recovered(j)[m]
  BY <1>1, <1>2, SameRecovered
<1>4. /\ Recovered(k) = [x \in Mutants |-> Recovered(k)[x]]
      /\ Recovered(j) = [x \in Mutants |-> Recovered(j)[x]]
  BY DEF Recovered
<1> QED
  BY <1>3, <1>4

LEMMA RecoveredAdded ==
  ASSUME NEW j, NEW k, NEW line, NEW n, Extends(k, j, line, n), NEW m \in Mutants,
         line.kind = "verdict", line.mutant = {m}, VerdictLines(j, m) = {}
  PROVE  Recovered(k) = [Recovered(j) EXCEPT ![m] = line.outcome]
<1>1. \A x : x # m => VerdictLines(k, x) = VerdictLines(j, x)
  BY LinesKept
<1>2. \A x, i : i \in VerdictLines(j, x) => k[i] = j[i]
  BY DEF Extends, VerdictLines
<1>3. \A x \in Mutants : x # m => Recovered(k)[x] = Recovered(j)[x]
  BY <1>1, <1>2, SameRecovered
<1>4. Recovered(k)[m] = line.outcome
  <2>1. VerdictLines(k, m) = {n + 1}
    BY LinesAdded
  <2>2. (CHOOSE i \in {n + 1} : TRUE) = n + 1
    OBVIOUS
  <2>3. k[n + 1] = line
    BY DEF Extends
  <2> QED
    BY <2>1, <2>2, <2>3 DEF Recovered
<1>5. Recovered(k) = [x \in Mutants |-> Recovered(k)[x]]
  BY DEF Recovered
<1>6. Recovered(j) = [x \in Mutants |-> Recovered(j)[x]]
  BY DEF Recovered
<1> QED
  BY <1>3, <1>4, <1>5, <1>6

LEMMA ReadableExtended ==
  ASSUME NEW j, NEW k, NEW line, NEW n, Extends(k, j, line, n), Readable(j),
         line.kind # "garbled",
         line.kind = "verdict" => \E m \in Mutants : line.mutant = {m} /\ VerdictLines(j, m) = {}
  PROVE  Readable(k)
<1>1. \A i \in DOMAIN k : k[i].kind # "garbled"
  BY DEF Extends, Readable
<1>2. ASSUME NEW m \in Mutants PROVE Cardinality(VerdictLines(k, m)) <= 1
  <2>1. CASE line.kind = "verdict" /\ line.mutant = {m}
    <3>1. VerdictLines(j, m) = {}
      BY <2>1
    <3>2. VerdictLines(k, m) = {n + 1}
      BY <2>1, <3>1, LinesAdded
    <3>3. Cardinality({n + 1}) = 1
      BY FS_Singleton
    <3> QED
      BY <3>2, <3>3
  <2>2. CASE line.kind # "verdict" \/ line.mutant # {m}
    <3>1. VerdictLines(k, m) = VerdictLines(j, m)
      BY <2>2, LinesKept
    <3> QED
      BY <3>1 DEF Readable
  <2> QED
    BY <2>1, <2>2
<1> QED
  BY <1>1, <1>2 DEF Readable

\* A journal without verdicts recovers nothing.
LEMMA EmptyRecovered ==
  /\ Recovered(<<>>) = AllPending /\ Readable(<<>>) /\ DOMAIN <<>> = {}
<1>1. DOMAIN <<>> = {}
  OBVIOUS
<1>2. \A m : VerdictLines(<<>>, m) = {}
  BY <1>1 DEF VerdictLines
<1>3. Cardinality({}) = 0
  BY FS_EmptySet
<1> QED
  BY <1>1, <1>2, <1>3 DEF Recovered, AllPending, Readable

\* The recovered outcome is a verdict exactly when a line settles the mutant.
LEMMA RecoveredTyped ==
  ASSUME NEW j \in Seq(JournalLine)
  PROVE  /\ Recovered(j) \in Plan
         /\ (\A i \in DOMAIN j : j[i].kind = "verdict" => j[i].outcome \in Outcomes) =>
              \A m \in Mutants : Recovered(j)[m] = Pending <=> VerdictLines(j, m) = {}
<1>1. \A i \in DOMAIN j : j[i] \in JournalLine
  BY ElementOfSeq, LenProperties
<1>2. \A i \in DOMAIN j : j[i].outcome \in Outcomes \cup {Pending}
  BY <1>1 DEF JournalLine
<1>3. ASSUME NEW m \in Mutants
      PROVE  /\ Recovered(j)[m] \in Outcomes \cup {Pending}
             /\ (\A i \in DOMAIN j : j[i].kind = "verdict" => j[i].outcome \in Outcomes) =>
                  (Recovered(j)[m] = Pending <=> VerdictLines(j, m) = {})
  <2>1. CASE VerdictLines(j, m) = {}
    BY <2>1 DEF Recovered
  <2>2. CASE VerdictLines(j, m) # {}
    <3> DEFINE c == CHOOSE i \in VerdictLines(j, m) : TRUE
    <3>1. c \in VerdictLines(j, m)
      BY <2>2
    <3>2. c \in DOMAIN j /\ j[c].kind = "verdict"
      BY <3>1 DEF VerdictLines
    <3>3. Recovered(j)[m] = j[c].outcome
      BY <2>2 DEF Recovered
    <3> HIDE DEF c
    <3> QED
      BY <1>2, <2>2, <3>2, <3>3, PendingIsNoVerdict
  <2> QED
    BY <2>1, <2>2
<1>4. Recovered(j) \in Plan
  BY <1>3 DEF Recovered, Plan
<1> QED
  BY <1>3, <1>4

-----------------------------------------------------------------------------
(* Steps that end the process, or leave the files alone. *)

ProcessTyped ==
  /\ pc \in {"idle"} \cup Preparing \cup Working
  /\ running \in Campaign /\ plan \in Plan /\ prior \in Cost /\ tally \in Cost
  /\ append \in {<<>>} \cup (JournalLine \X JournalLine)

LEMMA ConstantsTyped ==
  /\ AllPending \in Plan /\ NoCost \in Cost /\ 0 \in Campaign /\ 0 \in Count
BY BoundsAreNumbers DEF AllPending, Plan, NoCost, Cost, Count, Campaign

LEMMA TypeParts ==
  TypeOK <=>
    /\ phase \in [name : {"none", "preparing", "testing", "finishedTesting", "completed"},
                  bound : Campaign]
    /\ snapshot \in Campaign
    /\ journal \in Seq(JournalLine)
    /\ torn \in BOOLEAN
    /\ record \in [of : Campaign, outcomes : Plan]
    /\ prepared \in Campaign
    /\ ProcessTyped
    /\ campaigns \in Campaign
    /\ shown \in Plan
    /\ executions \in Count
BY DEF TypeOK, ProcessTyped, Preparing, Working

LEMMA TypeAssembled ==
  ASSUME /\ phase' \in [name : {"none", "preparing", "testing", "finishedTesting", "completed"},
                        bound : Campaign]
         /\ snapshot' \in Campaign
         /\ journal' \in Seq(JournalLine)
         /\ torn' \in BOOLEAN
         /\ record' \in [of : Campaign, outcomes : Plan]
         /\ prepared' \in Campaign
         /\ ProcessTyped'
         /\ campaigns' \in Campaign
         /\ shown' \in Plan
         /\ executions' \in Count
  PROVE  TypeOK'
BY DEF TypeOK, ProcessTyped, Preparing, Working

LEMMA GoneFacts ==
  ASSUME Gone
  PROVE  ProcessTyped' /\ ProcessInv'
<1>1. ProcessTyped'
  BY ConstantsTyped DEF Gone, ProcessTyped
<1>2. pc' = "idle" /\ Blank'
  BY DEF Gone, Blank
<1>3. Placed' /\ Remembered' /\ Counted'
  BY <1>2 DEF Placed, Remembered, Counted, Preparing, Working
<1> QED
  BY <1>1, <1>3 DEF ProcessInv

LEMMA DiskFrame ==
  ASSUME TypeOK, DiskInv, phase' = phase, snapshot' = snapshot, journal' = journal,
         record' = record, campaigns' = campaigns, shown' = shown,
         executions' \in Count, executions <= executions'
  PROVE  DiskInv'
<1>1. ShownSurvives' /\ CompletedIsPublished'
  BY DEF DiskInv, ShownSurvives, CompletedIsPublished, Resumable
<1>2. ASSUME Resumable PROVE \A i \in DOMAIN journal : Proper(journal[i])'
  <2>1. \A i \in DOMAIN journal : journal[i] \in JournalLine
    BY ElementOfSeq, LenProperties DEF TypeOK
  <2>2. \A i \in DOMAIN journal : journal[i].count \in Count
    BY <2>1 DEF JournalLine
  <2> QED
    BY <1>2, <2>2, BoundsAreNumbers DEF DiskInv, Kept, Proper, TypeOK, Count
<1>3. Kept'
  BY <1>2 DEF DiskInv, Kept, Resumable
<1> QED
  BY <1>1, <1>3 DEF DiskInv

\* While a campaign is prepared nothing on disk is bound to be kept.
LEMMA DiskOpen ==
  ASSUME phase'.name \notin {"testing", "finishedTesting", "completed"}, shown' = AllPending
  PROVE  DiskInv'
<1>1. \A m \in Mutants : shown'[m] = Pending
  BY DEF AllPending
<1> QED
  BY <1>1 DEF DiskInv, Kept, ShownSurvives, CompletedIsPublished, Resumable

LEMMA NothingShown ==
  ASSUME TypeOK, DiskInv, phase.name \notin {"testing", "finishedTesting", "completed"}
  PROVE  shown = AllPending
<1>1. \A m \in Mutants : shown[m] = Pending
  BY DEF DiskInv, ShownSurvives, Resumable
<1>2. shown = [m \in Mutants |-> shown[m]]
  BY DEF TypeOK, Plan
<1> QED
  BY <1>1, <1>2 DEF AllPending

-----------------------------------------------------------------------------
(* Preparing a campaign. *)

LEMMA StartKeeps ==
  ASSUME JournalInv, StartCampaign
  PROVE  JournalInv'
<1> USE BoundsAreNumbers
<1>0. TypeOK /\ DiskInv /\ ProcessInv
  BY DEF JournalInv
<1>1. /\ snapshot' = snapshot /\ journal' = journal /\ torn' = torn /\ record' = record
      /\ prepared' = prepared /\ pc = "idle" /\ campaigns < MaxCampaigns
  BY DEF StartCampaign
<1>2. Blank
  BY <1>0, <1>1 DEF ProcessInv, Placed
<1>3. CASE phase' = phase /\ UNCHANGED outside /\ Gone
  <2>1. ProcessTyped' /\ ProcessInv'
    BY <1>3, GoneFacts
  <2>2. campaigns' = campaigns /\ shown' = shown /\ executions' = executions
    BY <1>3 DEF outside
  <2>3. executions \in Count /\ executions <= executions
    BY <1>0 DEF TypeOK, Count
  <2>4. DiskInv'
    BY <1>0, <1>1, <1>3, <2>2, <2>3, DiskFrame
  <2>5. TypeOK'
    BY <1>0, <1>1, <1>3, <2>1, <2>2, TypeParts, TypeAssembled
  <2> QED
    BY <2>1, <2>4, <2>5 DEF JournalInv
<1>4. CASE /\ phase' = Invalidated /\ campaigns' = campaigns + 1
           /\ shown' = AllPending /\ executions' = 0
           /\ \/ /\ pc' = "building" /\ running' = campaigns'
                 /\ UNCHANGED <<plan, prior, tally, append>>
              \/ Gone
  <2>1. phase' = [name |-> "preparing", bound |-> 0]
    BY <1>4 DEF Invalidated, Marked
  <2>2. campaigns' \in Campaign
    BY <1>0, <1>1, <1>4 DEF TypeOK, Campaign
  <2>3. ProcessTyped' /\ ProcessInv'
    <3>1. CASE Gone
      BY <3>1, GoneFacts
    <3>2. CASE /\ pc' = "building" /\ running' = campaigns'
               /\ UNCHANGED <<plan, prior, tally, append>>
      <4>1. ProcessTyped'
        BY <1>0, <2>2, <3>2, TypeParts DEF ProcessTyped, Preparing
      <4>2. Blank'
        BY <1>2, <3>2 DEF Blank
      <4>3. Placed'
        BY <2>1, <3>2, <4>2 DEF Placed, Preparing, Working
      <4>4. prior'.count + tally'.count <= executions'
        BY <1>4, <4>2 DEF Blank, NoCost
      <4> QED
        BY <3>2, <4>1, <4>3, <4>4 DEF ProcessInv, Remembered, Counted, Working
    <3> QED
      BY <1>4, <3>1, <3>2
  <2>4. DiskInv'
    BY <1>4, <2>1, DiskOpen
  <2>5. TypeOK'
    <3>1. /\ phase' \in [name : {"none", "preparing", "testing", "finishedTesting", "completed"},
                         bound : Campaign]
          /\ shown' \in Plan /\ executions' \in Count
      BY <1>4, <2>1, ConstantsTyped
    <3> QED
      BY <1>0, <1>1, <2>2, <2>3, <3>1, TypeParts, TypeAssembled
  <2> QED
    BY <2>3, <2>4, <2>5 DEF JournalInv
<1> QED
  BY <1>3, <1>4 DEF StartCampaign

\* Where a preparing process stands.
LEMMA PreparingFacts ==
  ASSUME JournalInv, pc \in Preparing
  PROVE  /\ TypeOK /\ DiskInv /\ ProcessTyped /\ Blank
         /\ phase.name = "preparing" /\ shown = AllPending
         /\ running = campaigns
         /\ prior.count + tally.count <= executions
<1>1. TypeOK /\ DiskInv /\ ProcessInv /\ ProcessTyped
  BY TypeParts DEF JournalInv
<1>2. /\ Blank /\ phase.name = "preparing" /\ running = campaigns
      /\ prior.count + tally.count <= executions
  BY <1>1 DEF ProcessInv, Placed, Counted, Preparing
<1> QED
  BY <1>1, <1>2, NothingShown

\* One step of the preparation, or its end.
LEMMA PreparingStep ==
  ASSUME JournalInv, pc \in Preparing, phase' = phase, UNCHANGED outside,
         snapshot' \in Campaign, prepared' \in Campaign, journal' \in Seq(JournalLine),
         torn' \in BOOLEAN, record' = record, NEW next \in Preparing,
         \/ Gone
         \/ /\ GoesOn(next)
            /\ next \in {"snapshotted", "armed"} => snapshot' = running
            /\ next # "building" => prepared' = running
            /\ next = "armed" => journal' = <<>> /\ ~torn'
  PROVE  JournalInv'
<1>1. /\ TypeOK /\ DiskInv /\ ProcessTyped /\ Blank
      /\ phase.name = "preparing" /\ shown = AllPending
      /\ running = campaigns
      /\ prior.count + tally.count <= executions
  BY PreparingFacts
<1>2. campaigns' = campaigns /\ shown' = shown /\ executions' = executions
  BY DEF outside
<1>3. DiskInv'
  BY <1>1, <1>2, DiskOpen
<1>4. ProcessTyped' /\ ProcessInv'
  <2>1. CASE Gone
    BY <2>1, GoneFacts
  <2>2. CASE /\ GoesOn(next)
             /\ next \in {"snapshotted", "armed"} => snapshot' = running
             /\ next # "building" => prepared' = running
             /\ next = "armed" => journal' = <<>> /\ ~torn'
    <3>1. /\ pc' = next /\ running' = running /\ plan' = plan /\ prior' = prior
          /\ tally' = tally /\ append' = append
      BY <2>2 DEF GoesOn
    <3>2. ProcessTyped'
      BY <1>1, <3>1 DEF ProcessTyped, Preparing
    <3>3. Blank'
      BY <1>1, <3>1 DEF Blank
    <3>4. Placed'
      BY <1>1, <1>2, <2>2, <3>1, <3>3 DEF Placed, Preparing, Working
    <3>5. Remembered' /\ Counted'
      BY <1>1, <1>2, <3>1 DEF Remembered, Counted, Preparing, Working
    <3> QED
      BY <3>2, <3>4, <3>5 DEF ProcessInv
  <2> QED
    BY <2>1, <2>2
<1>5. TypeOK'
  BY <1>1, <1>2, <1>4, TypeParts, TypeAssembled
<1> QED
  BY <1>3, <1>4, <1>5 DEF JournalInv

LEMMA PreparationKeeps ==
  ASSUME JournalInv, Build \/ TakeSnapshot \/ EmptyJournal
  PROVE  JournalInv'
<1>1. TypeOK /\ ProcessInv
  BY DEF JournalInv
<1>2. /\ phase \in [name : {"none", "preparing", "testing", "finishedTesting", "completed"},
                    bound : Campaign]
      /\ snapshot \in Campaign /\ journal \in Seq(JournalLine) /\ torn \in BOOLEAN
      /\ prepared \in Campaign /\ running \in Campaign
  BY <1>1 DEF TypeOK
<1>3. CASE Build
  <2>1. /\ pc \in Preparing /\ phase' = phase /\ UNCHANGED outside /\ snapshot' = snapshot
        /\ prepared' = running /\ journal' = journal /\ torn' = torn /\ record' = record
        /\ Gone \/ GoesOn("built")
    BY <1>3 DEF Build, Preparing
  <2> QED
    BY <1>2, <2>1, PreparingStep DEF Preparing
<1>4. CASE TakeSnapshot
  <2>1. /\ pc = "built" /\ phase' = phase /\ UNCHANGED outside
        /\ prepared' = prepared /\ journal' = journal /\ torn' = torn /\ record' = record
        /\ snapshot' \in Campaign
        /\ Gone \/ (GoesOn("snapshotted") /\ snapshot' = running)
    BY <1>2, <1>4 DEF TakeSnapshot, Replace
  <2>2. prepared = running
    BY <1>1, <2>1 DEF ProcessInv, Placed
  <2> QED
    BY <1>2, <2>1, <2>2, PreparingStep DEF Preparing
<1>5. CASE EmptyJournal
  <2>1. /\ pc = "snapshotted" /\ phase' = phase /\ UNCHANGED outside
        /\ prepared' = prepared /\ snapshot' = snapshot /\ record' = record
        /\ \/ journal' = journal /\ torn' = torn
           \/ journal' = <<>> /\ torn' = FALSE
        /\ Gone \/ (GoesOn("armed") /\ journal' = <<>> /\ torn' = FALSE)
    BY <1>5 DEF EmptyJournal, Replace
  <2>2. prepared = running /\ snapshot = running
    BY <1>1, <2>1 DEF ProcessInv, Placed
  <2>3. journal' \in Seq(JournalLine) /\ torn' \in BOOLEAN
    BY <1>2, <2>1, EmptySeq
  <2> QED
    BY <1>2, <2>1, <2>2, <2>3, PreparingStep DEF Preparing
<1> QED
  BY <1>3, <1>4, <1>5

LEMMA ArmKeeps ==
  ASSUME JournalInv, Arm
  PROVE  JournalInv'
<1>1. /\ TypeOK /\ DiskInv /\ ProcessTyped /\ Blank
      /\ phase.name = "preparing" /\ shown = AllPending
      /\ running = campaigns
      /\ prior.count + tally.count <= executions
  BY PreparingFacts DEF Arm, Preparing
<1>2. /\ pc = "armed" /\ snapshot' = snapshot /\ journal' = journal /\ torn' = torn
      /\ record' = record /\ prepared' = prepared
      /\ campaigns' = campaigns /\ shown' = shown /\ executions' = executions
  BY DEF Arm, outside
<1>3. /\ snapshot = running /\ prepared = running /\ journal = <<>> /\ ~torn
  BY <1>2 DEF JournalInv, ProcessInv, Placed
<1>4. \/ phase' = phase /\ Gone
      \/ phase' = Marked("testing") /\ Gone
      \/ phase' = Marked("testing") /\ GoesOn("testing")
  BY DEF Arm, SetPhase, Replace
<1>5. Marked("testing") = [name |-> "testing", bound |-> snapshot]
  BY DEF Marked
<1>6. DiskInv'
  <2>1. CASE phase' = phase
    BY <1>1, <1>2, <2>1, DiskOpen
  <2>2. CASE phase' = Marked("testing")
    <3>1. phase'.name = "testing" /\ phase'.bound = snapshot
      BY <1>5, <2>2
    <3>2. Readable(journal') /\ DOMAIN journal' = {}
      BY <1>2, <1>3, EmptyRecovered
    <3>3. Kept'
      BY <1>1, <1>2, <1>3, <3>1, <3>2 DEF Kept, Disjoint
    <3>4. \A m \in Mutants : shown'[m] = Pending
      BY <1>1, <1>2 DEF AllPending
    <3>5. ShownSurvives' /\ CompletedIsPublished'
      BY <3>1, <3>4 DEF ShownSurvives, CompletedIsPublished
    <3> QED
      BY <3>3, <3>5 DEF DiskInv
  <2> QED
    BY <1>4, <2>1, <2>2
<1>7. ProcessTyped' /\ ProcessInv'
  <2>1. CASE Gone
    BY <2>1, GoneFacts
  <2>2. CASE phase' = Marked("testing") /\ GoesOn("testing")
    <3>1. /\ pc' = "testing" /\ running' = running /\ plan' = plan /\ prior' = prior
          /\ tally' = tally /\ append' = append /\ phase'.name = "testing"
      BY <1>5, <2>2 DEF GoesOn
    <3>2. ProcessTyped'
      BY <1>1, <3>1 DEF ProcessTyped, Working
    <3>3. Placed'
      BY <1>1, <1>2, <1>3, <3>1 DEF Placed, Preparing, Working, Resumable
    <3>4. plan' = Recovered(journal') /\ append' = <<>>
      BY <1>1, <1>2, <1>3, <3>1, EmptyRecovered DEF Blank
    <3>5. Remembered'
      BY <1>2, <1>3, <3>1, <3>4 DEF Remembered
    <3>6. DOMAIN journal' = {}
      BY <1>2, <1>3, EmptyRecovered
    <3>7. Counted'
      BY <1>1, <1>2, <3>1, <3>6 DEF Counted
    <3> QED
      BY <3>2, <3>3, <3>5, <3>7 DEF ProcessInv
  <2> QED
    BY <1>4, <2>1, <2>2
<1>8. TypeOK'
  <2>1. phase' \in [name : {"none", "preparing", "testing", "finishedTesting", "completed"},
                    bound : Campaign]
    <3>1. snapshot \in Campaign
      BY <1>1 DEF TypeOK
    <3> QED
      BY <1>1, <1>4, <1>5, <3>1 DEF TypeOK
  <2> QED
    BY <1>1, <1>2, <1>7, <2>1, TypeParts, TypeAssembled
<1> QED
  BY <1>6, <1>7, <1>8 DEF JournalInv

-----------------------------------------------------------------------------
(* Testing. *)

\* Where a working process stands.
LEMMA WorkingFacts ==
  ASSUME JournalInv, pc \in Working
  PROVE  /\ TypeOK /\ DiskInv /\ ProcessTyped
         /\ Resumable /\ phase.name # "completed" /\ phase.bound = snapshot
         /\ running = campaigns /\ snapshot = campaigns
         /\ prior.count + tally.count <= executions
         /\ prior.count \in Nat /\ tally.count \in Nat /\ executions \in Nat
         /\ Len(journal) \in Nat /\ DOMAIN journal = 1..Len(journal)
         /\ \A i \in DOMAIN journal : journal[i] \in JournalLine /\ journal[i].count \in Nat
         /\ Readable(journal) /\ Disjoint(journal)
         /\ \A i \in DOMAIN journal : Proper(journal[i])
         /\ \A m \in Mutants : Recovered(journal)[m] = Pending <=> VerdictLines(journal, m) = {}
         /\ \A m \in Mutants : shown[m] # Pending => Recovered(journal)[m] = shown[m]
<1>1. TypeOK /\ DiskInv /\ ProcessInv /\ ProcessTyped
  BY TypeParts DEF JournalInv
<1>2. /\ Resumable /\ running = campaigns /\ prior.count + tally.count <= executions
  BY <1>1 DEF ProcessInv, Placed, Counted, Working
<1>3. phase.name # "completed"
  BY <1>2 DEF Resumable
<1>4. /\ snapshot = campaigns /\ phase.bound = snapshot /\ Readable(journal) /\ Disjoint(journal)
      /\ \A i \in DOMAIN journal : Proper(journal[i])
  BY <1>1, <1>2 DEF DiskInv, Kept
<1>5. prior.count \in Nat /\ tally.count \in Nat /\ executions \in Nat
  BY <1>1, BoundsAreNumbers DEF TypeOK, Cost, Count
<1>6. /\ Len(journal) \in Nat /\ DOMAIN journal = 1..Len(journal)
      /\ \A i \in DOMAIN journal : journal[i] \in JournalLine
  BY <1>1, LenProperties, ElementOfSeq DEF TypeOK
<1>7. \A i \in DOMAIN journal : journal[i].count \in Nat
  BY <1>6, BoundsAreNumbers DEF JournalLine, Count
<1>8. \A m \in Mutants : Recovered(journal)[m] = Pending <=> VerdictLines(journal, m) = {}
  <2>1. journal \in Seq(JournalLine)
    BY <1>1 DEF TypeOK
  <2>2. \A i \in DOMAIN journal : journal[i].kind = "verdict" => journal[i].outcome \in Outcomes
    BY <1>4 DEF Proper
  <2> QED
    BY <2>1, <2>2, RecoveredTyped
<1>9. \A m \in Mutants : shown[m] # Pending => Recovered(journal)[m] = shown[m]
  BY <1>1, <1>3 DEF DiskInv, ShownSurvives
<1> QED
  BY <1>1, <1>2, <1>3, <1>4, <1>5, <1>6, <1>7, <1>8, <1>9

\* An event of the sweep begins its line.
LEMMA BeginKeeps ==
  ASSUME JournalInv, pc = "testing", NEW line \in JournalLine, Begin(line), UNCHANGED disk,
         running' = running, prior' = prior, campaigns' = campaigns, shown' = shown,
         tally' \in Cost, plan' \in Plan, executions' \in Count, executions <= executions',
         prior.count + tally'.count <= executions', tally.count <= tally'.count,
         line.count = prior.count + tally'.count, line.of = running,
         tally.confirmed \subseteq tally'.confirmed, line.confirmed \subseteq tally'.confirmed,
         line.confirmed \cap tally.confirmed = {},
         \/ line.kind = "cost" /\ line.mutant = {} /\ plan' = plan
         \/ /\ line.kind = "verdict" /\ line.outcome \in Outcomes
            /\ \E m \in Mutants : /\ line.mutant = {m} /\ plan[m] = Pending
                                  /\ plan' = [plan EXCEPT ![m] = line.outcome]
  PROVE  JournalInv'
<1>1. /\ TypeOK /\ DiskInv /\ ProcessTyped
      /\ Resumable /\ phase.name # "completed" /\ phase.bound = snapshot
      /\ running = campaigns /\ snapshot = campaigns
      /\ prior.count \in Nat /\ tally.count \in Nat /\ executions \in Nat
      /\ \A i \in DOMAIN journal : journal[i].count \in Nat
      /\ \A m \in Mutants : Recovered(journal)[m] = Pending <=> VerdictLines(journal, m) = {}
  BY WorkingFacts DEF Working
<1>2. /\ prepared = running /\ ~torn /\ plan = Recovered(journal)
      /\ \A i \in DOMAIN journal : /\ journal[i].count <= prior.count + tally.count
                                   /\ journal[i].confirmed \subseteq tally.confirmed
  BY DEF JournalInv, ProcessInv, Placed, Remembered, Counted
<1>3. /\ phase' = phase /\ snapshot' = snapshot /\ journal' = journal /\ torn' = torn
      /\ record' = record /\ prepared' = prepared
  BY DEF disk
<1>4. pc' = "appending" /\ append' = <<line, line>>
  BY DEF Begin
<1>5. append' \in JournalLine \X JournalLine /\ append'[1] = line /\ append'[2] = line
  BY <1>4
<1>6. DiskInv'
  BY <1>1, <1>3, DiskFrame
<1>7. ProcessTyped'
  BY <1>1, <1>4, <1>5 DEF ProcessTyped, Working
<1>8. TypeOK'
  BY <1>1, <1>3, <1>7, TypeParts, TypeAssembled
<1>9. Placed'
  BY <1>1, <1>2, <1>3, <1>4 DEF Placed, Preparing, Working, Resumable
<1>10. Appending'
  <2>1. Proper(append[1])'
    BY <1>1, <1>3, <1>5 DEF Proper
  <2>2. plan \in Plan
    BY <1>1 DEF TypeOK
  <2>3. CASE line.kind = "cost" /\ line.mutant = {} /\ plan' = plan
    BY <1>2, <1>3, <1>5, <2>1, <2>3 DEF Appending
  <2>4. ASSUME NEW m \in Mutants, line.kind = "verdict", line.mutant = {m}, plan[m] = Pending,
               plan' = [plan EXCEPT ![m] = line.outcome]
        PROVE  Appending'
    <3>1. VerdictLines(journal, m) = {}
      BY <1>1, <1>2, <2>4
    <3>2. VerdictLines(journal', m) = {} /\ plan' = [Recovered(journal') EXCEPT ![m] = line.outcome]
      BY <1>2, <1>3, <2>4, <3>1
    <3>3. \A x \in line.mutant : plan'[x] = line.outcome
      BY <2>2, <2>4 DEF Plan
    <3> QED
      BY <1>5, <2>1, <2>4, <3>2, <3>3 DEF Appending
  <2> QED
    BY <2>3, <2>4
<1>11. Remembered'
  BY <1>2, <1>3, <1>4, <1>10 DEF Remembered
<1>12. Counted'
  <2>1. tally'.count \in Nat
    BY BoundsAreNumbers DEF Cost, Count
  <2>2. \A i \in DOMAIN journal' : /\ journal'[i].count <= prior'.count + tally'.count
                                   /\ journal'[i].confirmed \subseteq tally'.confirmed
    BY <1>1, <1>2, <1>3, <2>1
  <2>3. \A i \in DOMAIN journal' : journal'[i].confirmed \cap line.confirmed = {}
    BY <1>2, <1>3
  <2> QED
    BY <1>4, <1>5, <2>2, <2>3 DEF Counted
<1> QED
  BY <1>6, <1>8, <1>9, <1>11, <1>12 DEF JournalInv, ProcessInv

LEMMA EventKeeps ==
  ASSUME JournalInv,
         \/ Account
         \/ \E m \in Mutants : ConfirmKiller(m)
         \/ \E m \in Mutants, o \in Outcomes : Complete(m, o)
  PROVE  JournalInv'
<1>1. pc = "testing"
  BY DEF Account, ConfirmKiller, Complete
<1>2. /\ TypeOK /\ running = campaigns
      /\ prior.count + tally.count <= executions
      /\ prior.count \in Nat /\ tally.count \in Nat /\ executions \in Nat
  BY <1>1, WorkingFacts DEF Working
<1>3. /\ prior \in Cost /\ tally \in Cost /\ plan \in Plan /\ executions \in Count
      /\ running \in Campaign
  BY <1>2 DEF TypeOK
<1>4. tally.confirmed \subseteq Mutants
  BY <1>3 DEF Cost
<1>5. CASE Account
  <2> DEFINE line == CostLine(tally', {})
  <2>1. /\ executions' = executions + 1 /\ executions < MaxExecutions
        /\ tally' = [tally EXCEPT !.count = @ + 1] /\ Begin(line)
        /\ UNCHANGED disk /\ running' = running /\ plan' = plan /\ prior' = prior
        /\ campaigns' = campaigns /\ shown' = shown
    BY <1>5 DEF Account
  <2>2. tally'.count = tally.count + 1 /\ tally'.confirmed = tally.confirmed
    BY <1>3, <2>1 DEF Cost
  <2>3. executions' \in Count /\ tally.count + 1 \in Count /\ prior.count + (tally.count + 1) \in Count
    BY <1>2, <2>1, BoundsAreNumbers DEF Count
  <2>4. tally' \in Cost
    BY <1>3, <2>1, <2>3 DEF Cost
  <2>5. /\ line.kind = "cost" /\ line.mutant = {} /\ line.of = running /\ line.confirmed = {}
        /\ line.count = prior.count + tally'.count
    BY DEF CostLine, Line
  <2>6. line \in JournalLine
    BY <1>3, <2>2, <2>3 DEF CostLine, Line, JournalLine
  <2>7. executions <= executions' /\ prior.count + tally'.count <= executions' /\ tally.count <= tally'.count
    BY <1>2, <2>1, <2>2
  <2> HIDE DEF line
  <2> QED
    BY <1>1, <1>3, <2>1, <2>2, <2>3, <2>4, <2>5, <2>6, <2>7, BeginKeeps
<1>6. ASSUME NEW m \in Mutants, ConfirmKiller(m) PROVE JournalInv'
  <2> DEFINE line == CostLine(tally', {m})
  <2>1. /\ m \notin tally.confirmed
        /\ tally' = [tally EXCEPT !.confirmed = @ \cup {m}] /\ Begin(line)
        /\ UNCHANGED disk /\ running' = running /\ plan' = plan /\ prior' = prior
        /\ campaigns' = campaigns /\ shown' = shown /\ executions' = executions
    BY <1>6 DEF ConfirmKiller, outside
  <2>2. tally'.count = tally.count /\ tally'.confirmed = tally.confirmed \cup {m}
    BY <1>3, <2>1 DEF Cost
  <2>3. prior.count + tally.count \in Count /\ tally.count \in Count
    BY <1>2, <1>3, BoundsAreNumbers DEF Count, Cost
  <2>4. tally' \in Cost
    BY <1>3, <1>4, <2>1 DEF Cost
  <2>5. /\ line.kind = "cost" /\ line.mutant = {} /\ line.of = running /\ line.confirmed = {m}
        /\ line.count = prior.count + tally'.count
    BY DEF CostLine, Line
  <2>6. line \in JournalLine
    BY <1>3, <2>2, <2>3 DEF CostLine, Line, JournalLine
  <2>7. executions <= executions' /\ prior.count + tally'.count <= executions' /\ tally.count <= tally'.count
    BY <1>2, <2>1, <2>2
  <2>8. /\ tally.confirmed \subseteq tally'.confirmed /\ line.confirmed \subseteq tally'.confirmed
        /\ line.confirmed \cap tally.confirmed = {}
    BY <2>1, <2>2, <2>5
  <2> HIDE DEF line
  <2> QED
    BY <1>1, <1>3, <2>1, <2>4, <2>5, <2>6, <2>7, <2>8, BeginKeeps
<1>7. ASSUME NEW m \in Mutants, NEW o \in Outcomes, Complete(m, o) PROVE JournalInv'
  <2> DEFINE line == Line("verdict", {m}, o, tally, {})
  <2>1. /\ plan[m] = Pending /\ plan' = [plan EXCEPT ![m] = o] /\ Begin(line)
        /\ UNCHANGED disk /\ running' = running /\ prior' = prior /\ tally' = tally
        /\ campaigns' = campaigns /\ shown' = shown /\ executions' = executions
    BY <1>7 DEF Complete, outside
  <2>2. prior.count + tally.count \in Count
    BY <1>2, <1>3, BoundsAreNumbers DEF Count, Cost
  <2>3. plan' \in Plan
    BY <1>3, <2>1 DEF Plan
  <2>4. /\ line.kind = "verdict" /\ line.mutant = {m} /\ line.outcome = o /\ line.of = running
        /\ line.confirmed = {} /\ line.count = prior.count + tally.count
    BY DEF Line
  <2>5. line \in JournalLine
    BY <1>3, <2>2 DEF Line, JournalLine
  <2>6. executions <= executions' /\ tally.count <= tally'.count
    BY <1>2, <2>1
  <2> HIDE DEF line
  <2> QED
    BY <1>1, <1>2, <1>3, <2>1, <2>3, <2>4, <2>5, <2>6, BeginKeeps
<1> QED
  BY <1>5, <1>6, <1>7

-----------------------------------------------------------------------------
(* The append. *)

Longer == Append(journal, append[1])

LEMMA LongerFacts ==
  ASSUME JournalInv, pc = "appending"
  PROVE  /\ Written(append[1]) = Longer /\ Longer \in Seq(JournalLine)
         /\ Extends(Longer, journal, append[1], Len(journal)) /\ Len(Longer) = Len(journal) + 1
         /\ Readable(Longer) /\ Recovered(Longer) = plan /\ Disjoint(Longer)
         /\ \A i \in DOMAIN Longer : Proper(Longer[i])
         /\ \A i \in DOMAIN Longer : /\ Longer[i].count <= prior.count + tally.count
                                     /\ Longer[i].confirmed \subseteq tally.confirmed
         /\ append[1].count = prior.count + tally.count
         /\ \A m \in Mutants : shown[m] # Pending => plan[m] = shown[m]
<1>1. /\ TypeOK
      /\ Len(journal) \in Nat /\ DOMAIN journal = 1..Len(journal)
      /\ prior.count \in Nat /\ tally.count \in Nat
      /\ \A i \in DOMAIN journal : journal[i] \in JournalLine /\ journal[i].count \in Nat
      /\ Readable(journal) /\ Disjoint(journal)
      /\ \A i \in DOMAIN journal : Proper(journal[i])
      /\ \A m \in Mutants : Recovered(journal)[m] = Pending <=> VerdictLines(journal, m) = {}
      /\ \A m \in Mutants : shown[m] # Pending => Recovered(journal)[m] = shown[m]
  BY WorkingFacts DEF Working
<1>2. Appending /\ ~torn
  BY DEF JournalInv, ProcessInv, Remembered
<1>3. /\ \A i \in DOMAIN journal : /\ journal[i].count <= prior.count + tally.count
                                   /\ journal[i].confirmed \subseteq tally.confirmed
      /\ append[1].count = prior.count + tally.count
      /\ append[1].confirmed \subseteq tally.confirmed
      /\ append[1].kind = "cost" => \A i \in DOMAIN journal :
           journal[i].kind = "cost" => journal[i].confirmed \cap append[1].confirmed = {}
  BY DEF JournalInv, ProcessInv, Counted
<1>4. append[1] \in JournalLine /\ journal \in Seq(JournalLine) /\ Proper(append[1])
  BY <1>1, <1>2 DEF Appending, TypeOK
<1>5. /\ Longer \in Seq(JournalLine) /\ Len(Longer) = Len(journal) + 1
      /\ Extends(Longer, journal, append[1], Len(journal))
  BY <1>4, AppendFacts, AppendExtends DEF Longer
<1>6. Written(append[1]) = Longer
  BY <1>2 DEF Written, Longer
<1> DEFINE line == append[1]  k == Longer  n == Len(journal)
<1>7. /\ Extends(k, journal, line, n) /\ Proper(line)
      /\ line.kind = "verdict" =>
           \E m \in Mutants : /\ line.mutant = {m} /\ VerdictLines(journal, m) = {}
                              /\ plan = [Recovered(journal) EXCEPT ![m] = line.outcome]
      /\ line.kind # "verdict" => plan = Recovered(journal)
  BY <1>2, <1>4, <1>5 DEF Appending
<1>8. /\ n \in Nat /\ DOMAIN journal = 1..n /\ DOMAIN k = 1..(n + 1)
      /\ \A i \in 1..n : k[i] = journal[i]
      /\ k[n + 1] = line
  BY <1>7 DEF Extends
<1> HIDE DEF line, k, n
<1>9. Readable(k)
  BY <1>1, <1>7, ReadableExtended DEF Proper
<1>10. Recovered(k) = plan
  BY <1>7, RecoveredKept, RecoveredAdded
<1>11. \A i \in DOMAIN k : i \in DOMAIN journal \/ i = n + 1
  BY ONLY <1>8
<1>12. \A i \in DOMAIN k : Proper(k[i])
  BY ONLY <1>1, <1>7, <1>8, <1>11
<1>13. Disjoint(k)
  <2>1. line.kind = "cost" => \A i \in DOMAIN journal :
           journal[i].kind = "cost" => journal[i].confirmed \cap line.confirmed = {}
    BY <1>3 DEF line
  <2> SUFFICES ASSUME NEW i \in DOMAIN k, NEW h \in DOMAIN k, i # h,
                      k[i].kind = "cost", k[h].kind = "cost"
               PROVE  k[i].confirmed \cap k[h].confirmed = {}
    BY DEF Disjoint
  <2>2. CASE i \in DOMAIN journal /\ h \in DOMAIN journal
    BY <1>1, <1>8, <2>2 DEF Disjoint
  <2>3. CASE i \in DOMAIN journal /\ h = n + 1
    BY <1>8, <2>1, <2>3
  <2>4. CASE i = n + 1 /\ h \in DOMAIN journal
    BY <1>8, <2>1, <2>4
  <2> QED
    BY <1>11, <2>2, <2>3, <2>4
<1>14. \A i \in DOMAIN k : /\ k[i].count <= prior.count + tally.count
                           /\ k[i].confirmed \subseteq tally.confirmed
  <2>1. line.count = prior.count + tally.count /\ line.confirmed \subseteq tally.confirmed
    BY <1>3 DEF line
  <2> SUFFICES ASSUME NEW i \in DOMAIN k
               PROVE  k[i].count <= prior.count + tally.count /\ k[i].confirmed \subseteq tally.confirmed
    OBVIOUS
  <2>2. CASE i \in DOMAIN journal
    BY <1>3, <1>8, <2>2
  <2>3. CASE i = n + 1
    BY <1>1, <1>8, <2>1, <2>3
  <2> QED
    BY <1>11, <2>2, <2>3
<1>15. ASSUME NEW m \in Mutants, shown[m] # Pending PROVE plan[m] = shown[m]
  <2>1. Recovered(journal)[m] = shown[m] /\ VerdictLines(journal, m) # {}
    BY <1>1, <1>15
  <2>2. Recovered(journal) \in Plan
    BY <1>4, RecoveredTyped
  <2> QED
    BY <1>7, <2>1, <2>2 DEF Plan
<1> QED
  BY <1>3, <1>5, <1>6, <1>9, <1>10, <1>12, <1>13, <1>14, <1>15 DEF k

\* Wherever the bytes of the line got to, the files are those of the campaign,
\* and whatever has been shown, or is now announced, can be recovered.
LEMMA GrowthKeepsDisk ==
  ASSUME JournalInv, pc = "appending", phase' = phase, snapshot' = snapshot, record' = record,
         campaigns' = campaigns, executions' = executions,
         \/ journal' = journal /\ shown' = shown
         \/ journal' = Longer /\ (shown' = shown \/ Announce(append[2]))
  PROVE  DiskInv'
<1>1. /\ TypeOK /\ DiskInv /\ Resumable /\ phase.name # "completed" /\ phase.bound = snapshot
      /\ snapshot = campaigns /\ executions \in Nat
      /\ Len(journal) \in Nat
      /\ prior.count \in Nat /\ tally.count \in Nat
  BY WorkingFacts DEF Working
<1>2. CASE journal' = journal /\ shown' = shown
  <2>1. executions \in Count
    BY <1>1 DEF TypeOK
  <2> QED
    BY <1>1, <1>2, <2>1, DiskFrame
<1>3. CASE journal' = Longer /\ (shown' = shown \/ Announce(append[2]))
  <2>1. /\ Extends(Longer, journal, append[1], Len(journal)) /\ Len(Longer) = Len(journal) + 1
        /\ Readable(Longer) /\ Recovered(Longer) = plan /\ Disjoint(Longer)
        /\ \A i \in DOMAIN Longer : Proper(Longer[i])
        /\ \A i \in DOMAIN Longer : Longer[i].count <= prior.count + tally.count
        /\ append[1].count = prior.count + tally.count
        /\ \A m \in Mutants : shown[m] # Pending => plan[m] = shown[m]
    BY LongerFacts
  <2>2. \A i \in DOMAIN journal' : journal'[i].count <= journal'[Len(journal')].count
    <3>1. Longer[Len(Longer)] = append[1]
      BY <2>1 DEF Extends
    <3> QED
      BY <1>3, <2>1, <3>1
  <2>3. \A i \in DOMAIN journal' : Proper(journal[i])'
    BY <1>3, <2>1 DEF Proper
  <2>4. Readable(journal)' /\ Disjoint(journal)'
    BY <1>3, <2>1 DEF Readable, Disjoint, VerdictLines
  <2>5. Kept'
    BY <1>1, <2>2, <2>3, <2>4 DEF Kept
  <2>6. \A m \in append[2].mutant : plan[m] = append[2].outcome
    BY DEF JournalInv, ProcessInv, Remembered, Appending
  <2>7. \A m \in Mutants : shown'[m] # Pending => plan[m] = shown'[m]
    BY <1>3, <2>1, <2>6 DEF Announce
  <2>8. Recovered(journal') = plan
    BY <1>3, <2>1
  <2>9. ShownSurvives'
    BY <1>1, <2>7, <2>8 DEF ShownSurvives, Resumable
  <2>10. CompletedIsPublished'
    BY <1>1 DEF CompletedIsPublished
  <2> QED
    BY <2>5, <2>9, <2>10 DEF DiskInv
<1> QED
  BY <1>2, <1>3

LEMMA AppendSucceedsKeeps ==
  ASSUME JournalInv, AppendSucceeds
  PROVE  JournalInv'
<1>1. /\ pc = "appending" /\ journal' = Written(append[1]) /\ torn' = FALSE
      /\ phase' = phase /\ snapshot' = snapshot /\ record' = record /\ prepared' = prepared
      /\ running' = running /\ plan' = plan /\ prior' = prior /\ tally' = tally
      /\ campaigns' = campaigns /\ executions' = executions
  BY DEF AppendSucceeds
<1>2. /\ TypeOK /\ ProcessTyped /\ Resumable /\ phase.name # "completed"
      /\ running = campaigns /\ snapshot = campaigns
      /\ prior.count + tally.count <= executions
      /\ prior.count \in Nat /\ tally.count \in Nat /\ executions \in Nat
  BY <1>1, WorkingFacts DEF Working
<1>3. Appending /\ prepared = running /\ append[1].confirmed \subseteq tally.confirmed
  BY <1>1 DEF JournalInv, ProcessInv, Remembered, Placed, Counted
<1>4. /\ journal' = Longer /\ Longer \in Seq(JournalLine)
      /\ Recovered(Longer) = plan
      /\ \A i \in DOMAIN Longer : /\ Longer[i].count <= prior.count + tally.count
                                  /\ Longer[i].confirmed \subseteq tally.confirmed
      /\ append[1].count = prior.count + tally.count
  BY <1>1, LongerFacts
<1>5. plan = Recovered(journal')
  BY <1>4
<1>6. \A i \in DOMAIN journal' : /\ journal'[i].count <= prior'.count + tally'.count
                                 /\ journal'[i].confirmed \subseteq tally'.confirmed
  BY <1>1, <1>4
<1>7. CASE pc' = "testing" /\ append' = <<>> /\ Announce(append[2])
  <2>1. DiskInv'
    BY <1>1, <1>4, <1>7, GrowthKeepsDisk
  <2>2. ProcessTyped'
    BY <1>1, <1>2, <1>7 DEF ProcessTyped, Working
  <2>3. shown' \in Plan
    <3>1. append[2].outcome \in Outcomes \cup {Pending} /\ shown \in Plan
      BY <1>2, <1>3 DEF Appending, JournalLine, TypeOK
    <3> QED
      BY <1>7, <3>1 DEF Announce, Plan
  <2>4. TypeOK'
    BY <1>1, <1>2, <1>4, <2>2, <2>3, TypeParts, TypeAssembled
  <2>5. Placed' /\ Remembered' /\ Counted'
    BY <1>1, <1>2, <1>3, <1>5, <1>6, <1>7
       DEF Placed, Remembered, Counted, Preparing, Working, Resumable
  <2> QED
    BY <2>1, <2>4, <2>5 DEF JournalInv, ProcessInv
<1>8. CASE /\ append' = <<[append[1] EXCEPT !.kind = "diagnostic", !.mutant = {},
                                            !.outcome = Pending], append[2]>>
           /\ pc' = pc /\ shown' = shown
  <2> DEFINE line == [append[1] EXCEPT !.kind = "diagnostic", !.mutant = {}, !.outcome = Pending]
  <2>1. append[1] \in JournalLine /\ append[2] \in JournalLine
    BY <1>3 DEF Appending
  <2>2. /\ line \in JournalLine /\ line.kind = "diagnostic" /\ line.of = append[1].of
        /\ line.count = append[1].count /\ line.confirmed = append[1].confirmed
    BY <2>1 DEF JournalLine
  <2> HIDE DEF line
  <2>3. append' = <<line, append[2]>>
    BY <1>8 DEF line
  <2>4. append' \in JournalLine \X JournalLine /\ append'[1] = line /\ append'[2] = append[2]
    BY <2>1, <2>2, <2>3
  <2>5. DiskInv'
    BY <1>1, <1>4, <1>8, GrowthKeepsDisk
  <2>6. ProcessTyped'
    BY <1>1, <1>2, <1>8, <2>4 DEF ProcessTyped
  <2>7. TypeOK'
    BY <1>1, <1>2, <1>4, <1>8, <2>6, TypeParts, TypeAssembled
  <2>8. Proper(append[1])'
    BY <1>1, <1>3, <2>2, <2>4 DEF Proper, Appending
  <2>9. Appending'
    <3>1. \A m \in append'[2].mutant : plan'[m] = append'[2].outcome
      BY <1>1, <1>3, <2>4 DEF Appending
    <3>2. append'[1].kind # "verdict" /\ plan' = Recovered(journal')
      BY <1>1, <1>5, <2>2, <2>4
    <3> QED
      BY <2>4, <2>8, <3>1, <3>2 DEF Appending
  <2>10. Placed'
    BY <1>1, <1>2, <1>3, <1>8 DEF Placed, Preparing, Working, Resumable
  <2>11. Remembered'
    BY <1>1, <1>8, <2>9 DEF Remembered
  <2>12. Counted'
    BY <1>1, <1>2, <1>3, <1>4, <1>6, <1>8, <2>2, <2>4 DEF Counted
  <2> QED
    BY <2>5, <2>7, <2>10, <2>11, <2>12 DEF JournalInv, ProcessInv
<1> QED
  BY <1>7, <1>8 DEF AppendSucceeds

\* The line is cut short, or whole but not acknowledged.
LEMMA InterruptedFacts ==
  ASSUME JournalInv, pc = "appending", Interrupted
  PROVE  /\ torn' \in BOOLEAN /\ journal' \in Seq(JournalLine)
         /\ journal' = journal \/ journal' = Longer
<1>1. journal \in Seq(JournalLine) /\ torn \in BOOLEAN
  BY DEF JournalInv, TypeOK
<1> QED
  BY <1>1, LongerFacts DEF Interrupted

LEMMA AppendFailsKeeps ==
  ASSUME JournalInv, AppendFails
  PROVE  JournalInv'
<1>1. /\ pc = "appending" /\ pc' = "failed" /\ append' = <<>> /\ Interrupted
      /\ phase' = phase /\ snapshot' = snapshot /\ record' = record /\ prepared' = prepared
      /\ running' = running /\ plan' = plan /\ prior' = prior /\ tally' = tally
      /\ campaigns' = campaigns /\ shown' = shown /\ executions' = executions
  BY DEF AppendFails, outside
<1>2. /\ TypeOK /\ ProcessTyped /\ Resumable /\ running = campaigns
      /\ prior.count + tally.count <= executions
  BY <1>1, WorkingFacts DEF Working
<1>3. /\ torn' \in BOOLEAN /\ journal' \in Seq(JournalLine)
      /\ journal' = journal \/ journal' = Longer
  BY <1>1, InterruptedFacts
<1>4. DiskInv'
  BY <1>1, <1>3, GrowthKeepsDisk
<1>5. ProcessTyped'
  BY <1>1, <1>2 DEF ProcessTyped, Working
<1>6. TypeOK'
  BY <1>1, <1>2, <1>3, <1>5, TypeParts, TypeAssembled
<1>7. Placed' /\ Remembered' /\ Counted'
  BY <1>1, <1>2 DEF Placed, Remembered, Counted, Preparing, Working, Resumable
<1> QED
  BY <1>4, <1>6, <1>7 DEF JournalInv, ProcessInv

LEMMA DieKeeps ==
  ASSUME JournalInv, Die
  PROVE  JournalInv'
<1>1. /\ Gone /\ phase' = phase /\ snapshot' = snapshot /\ record' = record
      /\ prepared' = prepared /\ campaigns' = campaigns /\ shown' = shown
      /\ executions' = executions
  BY DEF Die, outside
<1>2. TypeOK /\ DiskInv
  BY DEF JournalInv
<1>3. ProcessTyped' /\ ProcessInv'
  BY <1>1, GoneFacts
<1>4. executions \in Count /\ executions <= executions /\ torn \in BOOLEAN
      /\ journal \in Seq(JournalLine)
  BY <1>2 DEF TypeOK, Count
<1>5. DiskInv' /\ journal' \in Seq(JournalLine) /\ torn' \in BOOLEAN
  <2>1. CASE pc = "appending"
    <3>1. /\ torn' \in BOOLEAN /\ journal' \in Seq(JournalLine)
          /\ journal' = journal \/ journal' = Longer
      BY <2>1, InterruptedFacts DEF Die
    <3> QED
      BY <1>1, <2>1, <3>1, GrowthKeepsDisk
  <2>2. CASE pc # "appending"
    <3>1. journal' = journal /\ torn' = torn
      BY <2>2 DEF Die
    <3> QED
      BY <1>1, <1>2, <1>4, <3>1, DiskFrame
  <2> QED
    BY <2>1, <2>2
<1>6. TypeOK'
  BY <1>1, <1>2, <1>3, <1>5, TypeParts, TypeAssembled
<1> QED
  BY <1>3, <1>5, <1>6 DEF JournalInv

-----------------------------------------------------------------------------
(* The end of the sweep, the record, and the next process. *)

LEMMA SweepKeeps ==
  ASSUME JournalInv,
         \/ SweepEnds \/ SweepFails \/ Tamper
         \/ \E m \in Mutants, o \in Outcomes : Drain(m, o)
  PROVE  JournalInv'
<1>1. TypeOK /\ DiskInv /\ ProcessInv /\ ProcessTyped
  BY TypeParts DEF JournalInv
<1>2. executions \in Count /\ executions <= executions
  BY <1>1 DEF TypeOK, Count
<1>3. CASE SweepEnds
  <2>1. /\ phase' = phase /\ snapshot' = snapshot /\ journal' = journal /\ torn' = torn
        /\ record' = record /\ prepared' = prepared /\ campaigns' = campaigns /\ shown' = shown
        /\ executions' = executions
        /\ pc = "testing" /\ pc' = "swept" /\ running' = running /\ plan' = plan
        /\ prior' = prior /\ tally' = tally /\ append' = append
    BY <1>3 DEF SweepEnds, GoesOn, disk, outside
  <2>2. DiskInv'
    BY <1>1, <1>2, <2>1, DiskFrame
  <2>3. ProcessTyped'
    BY <1>1, <2>1 DEF ProcessTyped, Working
  <2>4. TypeOK'
    BY <1>1, <2>1, <2>3, TypeParts, TypeAssembled
  <2>5. plan' = Recovered(journal') /\ append' = <<>>
    BY <1>1, <2>1 DEF ProcessInv, Remembered, Working
  <2>6. Placed' /\ Remembered' /\ Counted'
    BY <1>1, <2>1, <2>5 DEF ProcessInv, Placed, Remembered, Counted, Preparing, Working, Resumable
  <2> QED
    BY <2>2, <2>4, <2>6 DEF JournalInv, ProcessInv
<1>4. CASE SweepFails
  <2>1. /\ phase' = phase /\ snapshot' = snapshot /\ journal' = journal /\ torn' = torn
        /\ record' = record /\ prepared' = prepared /\ campaigns' = campaigns /\ shown' = shown
        /\ executions' = executions /\ Gone
    BY <1>4 DEF SweepFails, disk, outside
  <2>2. DiskInv'
    BY <1>1, <1>2, <2>1, DiskFrame
  <2>3. ProcessTyped' /\ ProcessInv'
    BY <2>1, GoneFacts
  <2>4. TypeOK'
    BY <1>1, <2>1, <2>3, TypeParts, TypeAssembled
  <2> QED
    BY <2>2, <2>3, <2>4 DEF JournalInv
<1>5. CASE Tamper
  <2>1. /\ phase' = phase /\ snapshot' = snapshot /\ journal' = journal /\ torn' = torn
        /\ record' = record /\ prepared' = 0 /\ campaigns' = campaigns /\ shown' = shown
        /\ executions' = executions
        /\ pc = "idle" /\ pc' = pc /\ running' = running /\ plan' = plan
        /\ prior' = prior /\ tally' = tally /\ append' = append
    BY <1>5 DEF Tamper, process, outside
  <2>2. DiskInv'
    BY <1>1, <1>2, <2>1, DiskFrame
  <2>3. ProcessTyped'
    BY <1>1, <2>1 DEF ProcessTyped
  <2>4. TypeOK'
    BY <1>1, <2>1, <2>3, TypeParts, TypeAssembled, ConstantsTyped
  <2>5. Placed' /\ Remembered' /\ Counted'
    BY <1>1, <2>1 DEF ProcessInv, Placed, Remembered, Counted, Preparing, Working, Blank
  <2> QED
    BY <2>2, <2>4, <2>5 DEF JournalInv, ProcessInv
<1>6. ASSUME NEW m \in Mutants, NEW o \in Outcomes, Drain(m, o) PROVE JournalInv'
  <2>1. /\ phase' = phase /\ snapshot' = snapshot /\ journal' = journal /\ torn' = torn
        /\ record' = record /\ prepared' = prepared /\ campaigns' = campaigns /\ shown' = shown
        /\ executions' = executions
        /\ pc = "failed" /\ pc' = pc /\ running' = running
        /\ plan' = [plan EXCEPT ![m] = o]
        /\ prior' = prior /\ tally' = tally /\ append' = append
    BY <1>6 DEF Drain, disk, outside
  <2>2. DiskInv'
    BY <1>1, <1>2, <2>1, DiskFrame
  <2>3. plan' \in Plan
    BY <1>1, <2>1 DEF ProcessTyped, Plan
  <2>4. ProcessTyped'
    BY <1>1, <2>1, <2>3 DEF ProcessTyped
  <2>5. TypeOK'
    BY <1>1, <2>1, <2>4, TypeParts, TypeAssembled
  <2>6. Placed' /\ Remembered' /\ Counted'
    BY <1>1, <2>1 DEF ProcessInv, Placed, Remembered, Counted, Preparing, Working, Resumable
  <2> QED
    BY <2>2, <2>5, <2>6 DEF JournalInv, ProcessInv
<1> QED
  BY <1>3, <1>4, <1>5, <1>6

LEMMA CompleteTestingKeeps ==
  ASSUME JournalInv, CompleteTesting
  PROVE  JournalInv'
<1>1. /\ TypeOK /\ DiskInv /\ ProcessTyped
      /\ Resumable /\ phase.name # "completed" /\ phase.bound = snapshot
      /\ running = campaigns /\ snapshot = campaigns
      /\ prior.count + tally.count <= executions /\ executions \in Nat
      /\ \A m \in Mutants : shown[m] # Pending => Recovered(journal)[m] = shown[m]
  BY WorkingFacts DEF CompleteTesting, Working
<1>2. /\ pc = "swept" /\ snapshot' = snapshot /\ journal' = journal /\ torn' = torn
      /\ record' = record /\ prepared' = prepared
      /\ campaigns' = campaigns /\ shown' = shown /\ executions' = executions
  BY DEF CompleteTesting, outside
<1>3. plan = Recovered(journal) /\ append = <<>>
  BY <1>2 DEF JournalInv, ProcessInv, Remembered, Working
<1>4. Marked("finishedTesting") = [name |-> "finishedTesting", bound |-> snapshot]
  BY DEF Marked
<1>5. /\ phase' = phase \/ phase' = Marked("finishedTesting")
      /\ Gone \/ (phase' = Marked("finishedTesting") /\ GoesOn("finished"))
  BY DEF CompleteTesting, SetPhase, Replace
<1>6. /\ phase'.name \in {"testing", "finishedTesting"} /\ phase'.bound = snapshot
      /\ phase' \in [name : {"none", "preparing", "testing", "finishedTesting", "completed"},
                     bound : Campaign]
  <2>1. CASE phase' = phase
    BY <1>1, <2>1 DEF Resumable, TypeOK
  <2>2. CASE phase' = Marked("finishedTesting")
    BY <1>1, <1>4, <2>2 DEF TypeOK
  <2> QED
    BY <1>5, <2>1, <2>2
<1>7. DiskInv'
  <2>1. /\ Readable(journal) /\ Disjoint(journal)
        /\ \A i \in DOMAIN journal : Proper(journal[i])
        /\ \A i \in DOMAIN journal : journal[i].count <= journal[Len(journal)].count
    BY <1>1 DEF DiskInv, Kept
  <2>2. Kept'
    BY <1>1, <1>2, <1>6, <2>1 DEF Kept, Proper, Resumable
  <2>3. ShownSurvives'
    BY <1>1, <1>2, <1>6 DEF ShownSurvives, Resumable
  <2>4. CompletedIsPublished'
    BY <1>6 DEF CompletedIsPublished
  <2> QED
    BY <2>2, <2>3, <2>4 DEF DiskInv
<1>8. ProcessTyped' /\ ProcessInv'
  <2>1. CASE Gone
    BY <2>1, GoneFacts
  <2>2. CASE GoesOn("finished")
    <3>1. /\ pc' = "finished" /\ running' = running /\ plan' = plan /\ prior' = prior
          /\ tally' = tally /\ append' = append
      BY <2>2 DEF GoesOn
    <3>2. ProcessTyped'
      BY <1>1, <3>1 DEF ProcessTyped, Working
    <3>3. Placed' /\ Counted'
      BY <1>1, <1>2, <1>6, <3>1 DEF Placed, Counted, Preparing, Working, Resumable
    <3>4. Remembered'
      BY <1>2, <1>3, <3>1 DEF Remembered
    <3> QED
      BY <3>2, <3>3, <3>4 DEF ProcessInv
  <2> QED
    BY <1>5, <2>1, <2>2
<1>9. TypeOK'
  BY <1>1, <1>2, <1>6, <1>8, TypeParts, TypeAssembled
<1> QED
  BY <1>7, <1>8, <1>9 DEF JournalInv

LEMMA StoreRecordKeeps ==
  ASSUME JournalInv, StoreRecord
  PROVE  JournalInv'
<1>1. /\ TypeOK /\ DiskInv /\ ProcessTyped
      /\ Resumable /\ phase.name # "completed" /\ phase.bound = snapshot
      /\ running = campaigns /\ snapshot = campaigns
      /\ prior.count + tally.count <= executions /\ executions \in Nat
  BY WorkingFacts DEF StoreRecord, Working
<1>2. /\ pc = "finished" /\ phase' = phase /\ snapshot' = snapshot /\ journal' = journal
      /\ torn' = torn /\ prepared' = prepared
      /\ campaigns' = campaigns /\ shown' = shown /\ executions' = executions
  BY DEF StoreRecord, outside
<1>3. plan = Recovered(journal) /\ append = <<>>
  BY <1>2 DEF JournalInv, ProcessInv, Remembered, Working
<1>4. /\ record' = record \/ record' = [of |-> running, outcomes |-> plan]
      /\ Gone \/ (record' = [of |-> running, outcomes |-> plan] /\ GoesOn("stored"))
  BY DEF StoreRecord, Replace
<1>5. DiskInv'
  <2>1. Kept'
    BY <1>1, <1>2 DEF DiskInv, Kept, Proper, Resumable
  <2>2. ShownSurvives' /\ CompletedIsPublished'
    BY <1>1, <1>2 DEF DiskInv, ShownSurvives, CompletedIsPublished, Resumable
  <2> QED
    BY <2>1, <2>2 DEF DiskInv
<1>6. ProcessTyped' /\ ProcessInv'
  <2>1. CASE Gone
    BY <2>1, GoneFacts
  <2>2. CASE record' = [of |-> running, outcomes |-> plan] /\ GoesOn("stored")
    <3>1. /\ pc' = "stored" /\ running' = running /\ plan' = plan /\ prior' = prior
          /\ tally' = tally /\ append' = append
      BY <2>2 DEF GoesOn
    <3>2. ProcessTyped'
      BY <1>1, <3>1 DEF ProcessTyped, Working
    <3>3. Placed' /\ Counted'
      BY <1>1, <1>2, <2>2, <3>1 DEF Placed, Counted, Preparing, Working, Resumable
    <3>4. Remembered'
      BY <1>2, <1>3, <3>1 DEF Remembered
    <3> QED
      BY <3>2, <3>3, <3>4 DEF ProcessInv
  <2> QED
    BY <1>4, <2>1, <2>2
<1>7. record' \in [of : Campaign, outcomes : Plan]
  BY <1>1, <1>4 DEF TypeOK
<1>8. TypeOK'
  BY <1>1, <1>2, <1>6, <1>7, TypeParts, TypeAssembled
<1> QED
  BY <1>5, <1>6, <1>8 DEF JournalInv

LEMMA FinishRecordKeeps ==
  ASSUME JournalInv, FinishRecord
  PROVE  JournalInv'
<1>1. /\ TypeOK /\ DiskInv
      /\ Resumable /\ running = campaigns /\ snapshot = campaigns
      /\ \A m \in Mutants : shown[m] # Pending => Recovered(journal)[m] = shown[m]
  BY WorkingFacts DEF FinishRecord, Working
<1>2. /\ pc = "stored" /\ Gone /\ snapshot' = snapshot /\ journal' = journal
      /\ torn' = torn /\ record' = record /\ prepared' = prepared
      /\ campaigns' = campaigns /\ shown' = shown /\ executions' = executions
  BY DEF FinishRecord, outside
<1>3. /\ record = [of |-> running, outcomes |-> plan] /\ plan = Recovered(journal)
  BY <1>2 DEF JournalInv, ProcessInv, Placed, Remembered
<1>4. Marked("completed") = [name |-> "completed", bound |-> 0]
  BY DEF Marked
<1>5. ProcessTyped' /\ ProcessInv'
  BY <1>2, GoneFacts
<1>6. CASE phase' = phase
  <2>1. executions \in Count /\ executions <= executions
    BY <1>1 DEF TypeOK, Count
  <2>2. DiskInv'
    BY <1>1, <1>2, <1>6, <2>1, DiskFrame
  <2>3. TypeOK'
    BY <1>1, <1>2, <1>5, <1>6, TypeParts, TypeAssembled
  <2> QED
    BY <1>5, <2>2, <2>3 DEF JournalInv
<1>7. CASE phase' = Marked("completed")
  <2>1. phase'.name = "completed"
    BY <1>4, <1>7
  <2>2. record.of = campaigns /\ record.outcomes = Recovered(journal)
    BY <1>1, <1>3
  <2>3. Kept'
    BY <1>1, <1>2, <2>1 DEF Kept, Resumable
  <2>4. ShownSurvives'
    BY <1>1, <1>2, <2>1, <2>2 DEF ShownSurvives
  <2>5. CompletedIsPublished'
    BY <1>1, <1>2, <2>2 DEF CompletedIsPublished
  <2>6. phase' \in [name : {"none", "preparing", "testing", "finishedTesting", "completed"},
                    bound : Campaign]
    BY <1>4, <1>7, ConstantsTyped
  <2>7. TypeOK'
    BY <1>1, <1>2, <1>5, <2>6, TypeParts, TypeAssembled
  <2> QED
    BY <1>5, <2>3, <2>4, <2>5, <2>7 DEF JournalInv, DiskInv
<1> QED
  BY <1>6, <1>7 DEF FinishRecord

\* What a journal has cost so far covers each of its lines.
LEMMA RestoredFacts ==
  ASSUME TypeOK, Kept, Resumable
  PROVE  /\ Restored(journal) \in Cost
         /\ Restored(journal).count <= executions
         /\ \A i \in DOMAIN journal : /\ journal[i].count <= Restored(journal).count
                                      /\ journal[i].confirmed \subseteq Restored(journal).confirmed
<1>1. /\ Len(journal) \in Nat /\ DOMAIN journal = 1..Len(journal)
      /\ \A i \in DOMAIN journal : journal[i] \in JournalLine
      /\ executions \in Nat
  BY LenProperties, ElementOfSeq, BoundsAreNumbers DEF TypeOK, Count
<1>2. CASE journal = <<>>
  BY <1>1, <1>2, ConstantsTyped, EmptyRecovered DEF Restored, NoCost
<1>3. CASE journal # <<>>
  <2> DEFINE last == journal[Len(journal)]
             all == UNION {journal[i].confirmed : i \in DOMAIN journal}
  <2>1. Len(journal) \in DOMAIN journal
    <3>1. Len(journal) # 0
      BY <1>3, EmptySeq, LenProperties DEF TypeOK
    <3> QED
      BY <1>1, <3>1
  <2>2. Restored(journal) = [count |-> last.count, confirmed |-> all]
    BY <1>3 DEF Restored
  <2>3. last.count \in Count /\ last.count <= executions
    BY <1>1, <2>1 DEF JournalLine, Kept, Proper
  <2>4. all \in SUBSET Mutants
    BY <1>1 DEF JournalLine
  <2>5. \A i \in DOMAIN journal : journal[i].count <= last.count /\ journal[i].confirmed \subseteq all
    BY DEF Kept
  <2> HIDE DEF last, all
  <2> QED
    BY <2>2, <2>3, <2>4, <2>5 DEF Cost
<1> QED
  BY <1>2, <1>3

LEMMA ResumeKeeps ==
  ASSUME JournalInv, Resume
  PROVE  JournalInv'
<1>1. TypeOK /\ DiskInv /\ Kept /\ Resumable
  BY DEF JournalInv, DiskInv, Resume
<1>2. /\ phase' = phase /\ snapshot' = snapshot /\ journal' = journal /\ record' = record
      /\ prepared' = prepared /\ append' = append
      /\ campaigns' = campaigns /\ shown' = shown /\ executions' = executions
      /\ running' = snapshot /\ plan' = Recovered(journal)
      /\ prior' = Restored(journal) /\ tally' = SegmentStart(prior')
      /\ \/ pc' = "swept" /\ torn' = torn
         \/ pc' = "testing" /\ torn' = FALSE /\ prepared = snapshot
  BY DEF Resume, outside, Repaired
<1>3. append = <<>>
  BY DEF JournalInv, ProcessInv, Placed, Resume, Blank
<1>4. snapshot = campaigns /\ snapshot \in Campaign /\ executions \in Count /\ executions <= executions
  BY <1>1 DEF Kept, TypeOK, Count
<1>5. /\ prior' \in Cost /\ prior'.count <= executions
      /\ \A i \in DOMAIN journal : /\ journal[i].count <= prior'.count
                                   /\ journal[i].confirmed \subseteq prior'.confirmed
  BY <1>1, <1>2, RestoredFacts
<1>6. /\ tally' \in Cost /\ tally'.count = 0 /\ tally'.confirmed = prior'.confirmed
      /\ prior'.count \in Nat
  <2>1. tally' = [count |-> 0, confirmed |-> prior'.confirmed]
    BY <1>2 DEF SegmentStart, NoCost
  <2> QED
    BY <1>5, <2>1, BoundsAreNumbers DEF Cost, Count
<1>7. DiskInv'
  BY <1>1, <1>2, <1>4, DiskFrame
<1>8. plan' \in Plan
  BY <1>1, <1>2, RecoveredTyped DEF TypeOK
<1>9. ProcessTyped'
  BY <1>2, <1>3, <1>4, <1>5, <1>6, <1>8 DEF ProcessTyped, Working
<1>10. TypeOK'
  BY <1>1, <1>2, <1>9, TypeParts, TypeAssembled
<1>11. Placed'
  BY <1>1, <1>2, <1>4 DEF Placed, Preparing, Working, Resumable
<1>12. Remembered'
  BY <1>2, <1>3 DEF Remembered
<1>13. Counted'
  <2>1. prior'.count + tally'.count = prior'.count
    BY <1>6
  <2> QED
    BY <1>2, <1>5, <1>6, <2>1 DEF Counted
<1> QED
  BY <1>7, <1>10, <1>11, <1>12, <1>13 DEF JournalInv, ProcessInv

LEMMA StutterKeeps ==
  ASSUME JournalInv, UNCHANGED vars
  PROVE  JournalInv'
<1>1. /\ phase' = phase /\ snapshot' = snapshot /\ journal' = journal /\ torn' = torn
      /\ record' = record /\ prepared' = prepared /\ campaigns' = campaigns /\ shown' = shown
      /\ executions' = executions /\ pc' = pc /\ running' = running /\ plan' = plan
      /\ prior' = prior /\ tally' = tally /\ append' = append
  BY DEF vars, disk, process, outside
<1>2. TypeOK /\ DiskInv /\ ProcessInv /\ ProcessTyped
  BY TypeParts DEF JournalInv
<1>3. executions \in Count /\ executions <= executions
  BY <1>2 DEF TypeOK, Count
<1>4. DiskInv'
  BY <1>1, <1>2, <1>3, DiskFrame
<1>5. ProcessTyped'
  BY <1>1, <1>2 DEF ProcessTyped
<1>6. TypeOK'
  BY <1>1, <1>2, <1>5, TypeParts, TypeAssembled
<1>7. Placed' /\ Counted'
  BY <1>1, <1>2 DEF ProcessInv, Placed, Counted, Blank, Resumable
<1>8. Remembered'
  BY <1>1, <1>2 DEF ProcessInv, Remembered, Appending, Proper
<1> QED
  BY <1>4, <1>6, <1>7, <1>8 DEF JournalInv, ProcessInv

-----------------------------------------------------------------------------
(* The theorems. *)

LEMMA InitInv == Init => JournalInv
<1> SUFFICES ASSUME Init PROVE JournalInv
  OBVIOUS
<1>1. /\ phase = [name |-> "none", bound |-> 0] /\ snapshot = 0 /\ journal = <<>> /\ torn = FALSE
      /\ record = [of |-> 0, outcomes |-> AllPending] /\ prepared = 0
      /\ pc = "idle" /\ running = 0 /\ Blank
      /\ campaigns = 0 /\ shown = AllPending /\ executions = 0
  BY DEF Init, Blank
<1>2. ProcessTyped
  BY <1>1, ConstantsTyped DEF ProcessTyped, Blank
<1>3. TypeOK
  BY <1>1, <1>2, ConstantsTyped, EmptySeq, TypeParts
<1>4. DiskInv
  BY <1>1 DEF DiskInv, Kept, ShownSurvives, CompletedIsPublished, Resumable, AllPending
<1>5. ProcessInv
  BY <1>1 DEF ProcessInv, Placed, Remembered, Counted, Preparing, Working
<1> QED
  BY <1>3, <1>4, <1>5 DEF JournalInv

LEMMA NextInv == JournalInv /\ [Next]_vars => JournalInv'
BY StartKeeps, PreparationKeeps, ArmKeeps, EventKeeps, AppendSucceedsKeeps, AppendFailsKeeps,
   SweepKeeps, CompleteTestingKeeps, StoreRecordKeeps, FinishRecordKeeps, ResumeKeeps, DieKeeps,
   StutterKeeps
   DEF Next

LEMMA Invariance == Spec => []JournalInv
BY InitInv, NextInv, PTL DEF Spec

\* Every file and variable of a campaign keeps its type (testing_state.rs).
THEOREM JournalTyped == Spec => []TypeOK
<1>1. JournalInv => TypeOK
  BY DEF JournalInv
<1> QED
  BY <1>1, Invariance, PTL

\* No verdict the user was shown is lost by a death, a failed write or a
\* resume, at any point (testing_state.rs, sweep.rs).
THEOREM NothingShownIsLost == Spec => []ShownSurvives
<1>1. JournalInv => ShownSurvives
  BY DEF JournalInv, DiskInv
<1> QED
  BY <1>1, Invariance, PTL

\* What is marked resumable can be read back and belongs to one campaign
\* (testing_state.rs).
THEOREM MarkerIsTrue == Spec => []MarkedIsReadable
<1>1. JournalInv => MarkedIsReadable
  BY DEF JournalInv, DiskInv, Kept, Proper, MarkedIsReadable
<1> QED
  BY <1>1, Invariance, PTL

\* A process tests the newest campaign with the build that was measured for it
\* (testing_state.rs, run.rs).
THEOREM LatestIsTested == Spec => []TestsLatestBuild
<1>1. JournalInv => TestsLatestBuild
  BY DEF JournalInv, DiskInv, Kept, ProcessInv, Placed, Working, TestsLatestBuild
<1> QED
  BY <1>1, Invariance, PTL

\* A campaign is completed only under a record that agrees with its journal
\* (testing_state.rs, publication.rs).
THEOREM RecordBeforeCompletion == Spec => []CompletedIsPublished
<1>1. JournalInv => CompletedIsPublished
  BY DEF JournalInv, DiskInv
<1> QED
  BY <1>1, Invariance, PTL

\* While a campaign can be resumed its journal only grows, by the line under
\* way.
LEMMA JournalMoves ==
  ASSUME JournalInv, [Next]_vars, Resumable
  PROVE  journal' = journal \/ (pc = "appending" /\ journal' = Longer)
<1>1. CASE EmptyJournal
  <2>1. phase.name = "preparing"
    BY <1>1 DEF EmptyJournal, JournalInv, ProcessInv, Placed, Preparing
  <2> QED
    BY <2>1 DEF Resumable
<1>2. CASE AppendSucceeds
  BY <1>2, LongerFacts DEF AppendSucceeds
<1>3. CASE AppendFails \/ Die
  <2>1. pc = "appending" => journal' = journal \/ journal' = Longer
    BY <1>3, InterruptedFacts DEF AppendFails, Die
  <2>2. pc # "appending" => journal' = journal
    BY <1>3 DEF AppendFails, Die
  <2> QED
    BY <2>1, <2>2
<1> QED
  BY <1>1, <1>2, <1>3
     DEF Next, vars, disk, StartCampaign, Build, TakeSnapshot, Arm, Account, ConfirmKiller,
         Complete, Drain, SweepEnds, SweepFails, CompleteTesting, StoreRecord, FinishRecord,
         Resume, Tamper

\* A line carries at least the cost of the journal before it.
LEMMA LongerCosts ==
  ASSUME JournalInv, pc = "appending"
  PROVE  /\ Restored(journal).count <= Restored(Longer).count
         /\ Restored(journal).confirmed \subseteq Restored(Longer).confirmed
<1>1. /\ Extends(Longer, journal, append[1], Len(journal)) /\ Len(Longer) = Len(journal) + 1
      /\ append[1].count = prior.count + tally.count /\ Longer \in Seq(JournalLine)
  BY LongerFacts
<1>2. /\ Len(journal) \in Nat /\ DOMAIN journal = 1..Len(journal)
      /\ prior.count \in Nat /\ tally.count \in Nat
  BY WorkingFacts DEF Working
<1>3. \A i \in DOMAIN journal : journal[i].count <= prior.count + tally.count
  BY DEF JournalInv, ProcessInv, Counted
<1>4. /\ Longer[Len(Longer)] = append[1] /\ DOMAIN journal \subseteq DOMAIN Longer
      /\ \A i \in DOMAIN journal : Longer[i] = journal[i]
  BY <1>1, <1>2 DEF Extends
<1>5. Longer # <<>>
  <2>1. Len(<<>>) = 0
    BY EmptySeq, LenProperties
  <2> QED
    BY <1>1, <1>2, <2>1
<1>6. /\ Restored(Longer).count = prior.count + tally.count
      /\ Restored(Longer).confirmed = UNION {Longer[i].confirmed : i \in DOMAIN Longer}
  BY <1>1, <1>4, <1>5 DEF Restored
<1>7. CASE journal = <<>>
  BY <1>2, <1>6, <1>7 DEF Restored, NoCost
<1>8. CASE journal # <<>>
  <2>1. Len(journal) \in DOMAIN journal
    <3>1. Len(journal) # 0
      BY <1>8, EmptySeq, LenProperties DEF JournalInv, TypeOK
    <3> QED
      BY <1>2, <3>1
  <2>2. /\ Restored(journal).count = journal[Len(journal)].count
        /\ Restored(journal).confirmed = UNION {journal[i].confirmed : i \in DOMAIN journal}
    BY <1>8 DEF Restored
  <2>3. \A i \in DOMAIN journal : journal[i].confirmed \subseteq UNION {Longer[k].confirmed : k \in DOMAIN Longer}
    BY <1>4
  <2> QED
    BY <1>3, <1>6, <2>1, <2>2, <2>3
<1> QED
  BY <1>7, <1>8

CostBound == Resumable => Restored(journal).count <= executions

\* Cost is neither doubled nor dropped, however often a campaign stops and is
\* resumed (testing_state.rs, measurement.rs).
THEOREM CostIsExact == Spec => CostExact
<1> DEFINE Exact ==
      Resumable' =>
       /\ (Restored(journal).count <= executions)'
       /\ \A i, j \in DOMAIN journal' :
            i # j /\ journal'[i].kind = "cost" /\ journal'[j].kind = "cost" =>
              journal'[i].confirmed \cap journal'[j].confirmed = {}
       /\ Resumable /\ campaigns' = campaigns =>
            /\ Restored(journal)'.count >= Restored(journal).count
            /\ Restored(journal).confirmed \subseteq Restored(journal)'.confirmed
<1>1. JournalInv => CostBound
  BY RestoredFacts DEF JournalInv, DiskInv, CostBound
<1>2. JournalInv /\ JournalInv' /\ CostBound' /\ [Next]_vars => [Exact]_vars
  <2> SUFFICES ASSUME JournalInv, JournalInv', CostBound', [Next]_vars, Resumable'
               PROVE  Exact
    OBVIOUS
  <2>1. (Restored(journal).count <= executions)'
    BY DEF CostBound
  <2>2. Disjoint(journal)'
    BY DEF JournalInv, DiskInv, Kept
  <2>3. ASSUME Resumable
        PROVE  /\ Restored(journal)'.count >= Restored(journal).count
               /\ Restored(journal).confirmed \subseteq Restored(journal)'.confirmed
    <3>1. CASE journal' = journal
      <4>1. Restored(journal).count \in Nat
        BY <2>3, RestoredFacts, BoundsAreNumbers DEF JournalInv, DiskInv, Cost, Count
      <4>2. Restored(journal)' = Restored(journal)
        BY <3>1 DEF Restored
      <4> QED
        BY <4>1, <4>2
    <3>2. CASE pc = "appending" /\ journal' = Longer
      <4>1. Restored(journal)' = Restored(Longer)
        BY <3>2 DEF Restored
      <4>2. /\ Restored(journal).count <= Restored(Longer).count
            /\ Restored(journal).confirmed \subseteq Restored(Longer).confirmed
        BY <3>2, LongerCosts
      <4> QED
        BY <4>1, <4>2
    <3> QED
      BY <2>3, <3>1, <3>2, JournalMoves
  <2> QED
    BY <2>1, <2>2, <2>3 DEF Disjoint
<1> QED
  BY <1>1, <1>2, Invariance, PTL DEF Spec, CostExact

-----------------------------------------------------------------------------
(* The campaign as a log of verdicts. *)

\* What is still to be announced is one verdict at most.
Announces ==
  pc = "appending" =>
    \/ append[2].mutant = {}
    \/ \E m \in Mutants : append[2].mutant = {m} /\ append[2].outcome \in Outcomes

LEMMA AnnouncesInvariance == Spec => []Announces
<1>1. Init => Announces
  BY DEF Init, Announces
<1>2. Announces /\ [Next]_vars => Announces'
  <2> SUFFICES ASSUME Announces, [Next]_vars, pc' = "appending" PROVE Announces'
    BY DEF Announces
  <2>1. CASE Account \/ \E m \in Mutants : ConfirmKiller(m)
    <3>1. PICK line : append' = <<line, line>> /\ line.mutant = {}
      <4>1. \E confirmed : Begin(CostLine(tally', confirmed))
        BY <2>1 DEF Account, ConfirmKiller
      <4>2. \A confirmed : CostLine(tally', confirmed).mutant = {}
        BY DEF CostLine, Line
      <4> QED
        BY <4>1, <4>2 DEF Begin
    <3>2. append'[2] = line
      BY <3>1
    <3> QED
      BY <3>1, <3>2 DEF Announces
  <2>2. ASSUME NEW m \in Mutants, NEW o \in Outcomes, Complete(m, o)
        PROVE  Announces'
    <3>1. PICK line : append' = <<line, line>> /\ line.mutant = {m} /\ line.outcome = o
      BY <2>2 DEF Complete, Begin, Line
    <3>2. append'[2] = line
      BY <3>1
    <3> QED
      BY <3>1, <3>2 DEF Announces
  <2>3. CASE AppendSucceeds
    <3>1. PICK line : append' = <<line, append[2]>> /\ pc = "appending"
      BY <2>3 DEF AppendSucceeds
    <3>2. append'[2] = append[2]
      BY <3>1
    <3> QED
      BY <3>1, <3>2 DEF Announces
  <2>4. CASE UNCHANGED vars
    BY <2>4 DEF Announces, vars, process
  <2> QED
    BY <2>1, <2>2, <2>3, <2>4
       DEF Next, StartCampaign, Build, TakeSnapshot, EmptyJournal, Arm, SetPhase, Replace, GoesOn, Gone,
           Drain, AppendFails, SweepEnds, SweepFails, CompleteTesting, StoreRecord, FinishRecord,
           Resume, Die, Tamper, process
<1> QED
  BY <1>1, <1>2, PTL DEF Spec

\* The line under way makes one verdict durable, or none.
LEMMA DurableGrows ==
  ASSUME JournalInv, pc = "appending", journal' = Longer, phase' = phase
  PROVE  /\ Durable = Recovered(journal) /\ Durable' = plan
         /\ \/ /\ append[1].kind = "verdict" /\ append[2] = append[1]
               /\ \E m \in Mutants :
                    /\ append[1].mutant = {m} /\ append[1].outcome \in Outcomes
                    /\ Durable[m] = Pending /\ Durable' = [Durable EXCEPT ![m] = append[1].outcome]
            \/ append[1].kind # "verdict" /\ Durable' = Durable
<1>1. /\ Resumable /\ phase.name # "completed"
      /\ \A m \in Mutants : Recovered(journal)[m] = Pending <=> VerdictLines(journal, m) = {}
  BY WorkingFacts DEF Working
<1>2. Recovered(Longer) = plan
  BY LongerFacts
<1>3. Appending
  BY DEF JournalInv, ProcessInv, Remembered
<1>4. Durable = Recovered(journal) /\ Durable' = plan
  BY <1>1, <1>2 DEF Durable, Resumable
<1>5. CASE append[1].kind = "verdict"
  <2>1. append[1].outcome \in Outcomes /\ append[2] = append[1]
    BY <1>3, <1>5 DEF Appending, Proper
  <2>2. PICK m \in Mutants : /\ append[1].mutant = {m} /\ VerdictLines(journal, m) = {}
                             /\ plan = [Recovered(journal) EXCEPT ![m] = append[1].outcome]
    BY <1>3, <1>5 DEF Appending
  <2> QED
    BY <1>1, <1>4, <1>5, <2>1, <2>2
<1>6. CASE append[1].kind # "verdict"
  BY <1>3, <1>4, <1>6 DEF Appending
<1> QED
  BY <1>4, <1>5, <1>6

LEMMA AppendIsLogged ==
  ASSUME JournalInv, Announces, AppendSucceeds
  PROVE  [Log!Next]_(Log!vars)
<1>1. /\ pc = "appending" /\ phase' = phase /\ journal' = Longer
      /\ campaigns' = campaigns
      /\ \/ Announce(append[2])
         \/ append[1].kind # "diagnostic" /\ shown' = shown
  BY LongerFacts DEF AppendSucceeds
<1>2. shown \in Plan
  BY DEF JournalInv, TypeOK
<1>3. Appending
  BY <1>1 DEF JournalInv, ProcessInv, Remembered
<1>4. ASSUME Announce(append[2]), NEW m \in Mutants, append[2].mutant = {m}
      PROVE  shown' = [shown EXCEPT ![m] = append[2].outcome]
  BY <1>2, <1>4 DEF Announce, Plan
<1>5. ASSUME Announce(append[2]), append[2].mutant = {} PROVE shown' = shown
  BY <1>2, <1>5 DEF Announce, Plan
<1>6. CASE append[1].kind = "verdict"
  <2>1. PICK m \in Mutants :
          /\ append[2].mutant = {m} /\ append[2].outcome \in Outcomes
          /\ Durable[m] = Pending /\ Durable' = [Durable EXCEPT ![m] = append[2].outcome]
    BY <1>1, <1>6, DurableGrows
  <2>2. shown' \in {shown, [shown EXCEPT ![m] = append[2].outcome]}
    BY <1>1, <1>4, <2>1
  <2> QED
    BY <1>1, <2>1, <2>2 DEF Log!Next, Log!Record
<1>7. CASE append[1].kind # "verdict"
  <2>1. Durable' = Durable /\ Durable' = plan
    BY <1>1, <1>7, DurableGrows
  <2>2. CASE shown' = shown
    BY <1>1, <2>1, <2>2 DEF Log!vars
  <2>3. ASSUME Announce(append[2]), NEW m \in Mutants, append[2].mutant = {m}, append[2].outcome \in Outcomes
        PROVE  Log!Show(m)
    <3>1. plan[m] = append[2].outcome
      BY <1>3, <2>3 DEF Appending
    <3> QED
      BY <1>1, <1>4, <2>1, <2>3, <3>1, PendingIsNoVerdict DEF Log!Show
  <2> QED
    BY <1>1, <1>5, <2>2, <2>3 DEF Announces, Log!Next
<1> QED
  BY <1>6, <1>7

LEMMA InterruptionIsLogged ==
  ASSUME JournalInv, pc = "appending", Interrupted, phase' = phase, record' = record, shown' = shown,
         campaigns' = campaigns
  PROVE  [Log!Next]_(Log!vars)
<1>1. CASE journal' = journal
  BY <1>1 DEF Durable, Resumable, Log!vars
<1>2. CASE journal' = Longer
  BY <1>2, DurableGrows DEF Log!Next, Log!Record, Log!vars
<1> QED
  BY <1>1, <1>2, InterruptedFacts

\* Whatever happens to the process, the phase, the journal and the record
\* together are one log of verdicts: an append that is cut short either has made
\* its verdict durable or has left no trace, and the record takes over from the
\* journal without a gap (testing_state.rs, publication.rs, sweep.rs).
THEOREM CampaignIsLog == Spec => ImplementsVerdictLog
<1>1. Init => Log!Init
  BY DEF Init, Log!Init, Durable, Resumable, AllPending
<1>2. JournalInv /\ Announces /\ [Next]_vars => [Log!Next]_(Log!vars)
  <2> SUFFICES ASSUME JournalInv, Announces, [Next]_vars PROVE [Log!Next]_(Log!vars)
    OBVIOUS
  <2>1. CASE StartCampaign
    <3>1. CASE phase' = Invalidated /\ shown' = AllPending /\ campaigns' = campaigns + 1
      <4>1. phase'.name = "preparing"
        BY <3>1 DEF Invalidated, Marked
      <4>2. Durable' = AllPending
        BY <4>1 DEF Durable, Resumable
      <4> QED
        BY <3>1, <4>2 DEF Log!Next, Log!Supersede, AllPending
    <3>2. CASE phase' = phase /\ UNCHANGED outside
      BY <2>1, <3>2 DEF StartCampaign, outside, Durable, Resumable, Log!vars
    <3> QED
      BY <2>1, <3>1, <3>2 DEF StartCampaign
  <2>2. CASE EmptyJournal
    <3>1. phase.name = "preparing"
      BY <2>2 DEF EmptyJournal, JournalInv, ProcessInv, Placed, Preparing
    <3> QED
      BY <2>2, <3>1 DEF EmptyJournal, outside, Durable, Resumable, Log!vars
  <2>3. CASE Arm
    <3>1. phase.name = "preparing" /\ journal = <<>>
      BY <2>3 DEF Arm, JournalInv, ProcessInv, Placed, Preparing
    <3>2. /\ journal' = journal /\ shown' = shown /\ campaigns' = campaigns
          /\ phase' = phase \/ phase'.name = "testing"
      BY <2>3 DEF Arm, SetPhase, Replace, Marked, outside
    <3>3. Durable = AllPending /\ Durable' = AllPending
      BY <3>1, <3>2, EmptyRecovered DEF Durable, Resumable
    <3> QED
      BY <3>2, <3>3 DEF Log!vars
  <2>4. CASE AppendSucceeds
    BY <2>4, AppendIsLogged
  <2>5. CASE AppendFails \/ Die
    <3>1. phase' = phase /\ record' = record /\ shown' = shown /\ campaigns' = campaigns
      BY <2>5 DEF AppendFails, Die, outside
    <3>2. CASE pc = "appending"
      BY <2>5, <3>1, <3>2, InterruptionIsLogged DEF AppendFails, Die
    <3>3. CASE pc # "appending"
      BY <2>5, <3>1, <3>3 DEF AppendFails, Die, Durable, Resumable, Log!vars
    <3> QED
      BY <3>2, <3>3
  <2>6. CASE CompleteTesting \/ StoreRecord
    <3>1. Resumable
      BY <2>6 DEF CompleteTesting, StoreRecord, JournalInv, ProcessInv, Placed, Working
    <3>2. /\ journal' = journal /\ shown' = shown /\ campaigns' = campaigns
          /\ phase' = phase \/ phase'.name = "finishedTesting"
      BY <2>6 DEF CompleteTesting, StoreRecord, SetPhase, Replace, Marked, outside
    <3> QED
      BY <3>1, <3>2 DEF Durable, Resumable, Log!vars
  <2>7. CASE FinishRecord
    <3>1. Resumable /\ record = [of |-> running, outcomes |-> plan] /\ plan = Recovered(journal)
      BY <2>7 DEF FinishRecord, JournalInv, ProcessInv, Placed, Remembered, Working
    <3>2. /\ journal' = journal /\ shown' = shown /\ campaigns' = campaigns /\ record' = record
          /\ phase' = phase \/ phase'.name = "completed"
      BY <2>7 DEF FinishRecord, Marked, outside
    <3>3. Durable' = Durable
      BY <3>1, <3>2 DEF Durable, Resumable
    <3> QED
      BY <3>2, <3>3 DEF Log!vars
  <2>8. CASE \/ Build \/ TakeSnapshot \/ Account \/ (\E m \in Mutants : ConfirmKiller(m))
             \/ (\E m \in Mutants, o \in Outcomes : Complete(m, o) \/ Drain(m, o))
             \/ SweepEnds \/ SweepFails \/ Resume \/ Tamper \/ UNCHANGED vars
    <3>1. /\ phase' = phase /\ journal' = journal /\ record' = record
          /\ shown' = shown /\ campaigns' = campaigns
      BY <2>8 DEF Build, TakeSnapshot, Account, ConfirmKiller, Complete, Drain, SweepEnds, SweepFails,
                  Resume, Tamper, vars, disk, outside
    <3> QED
      BY <3>1 DEF Durable, Resumable, Log!vars
  <2> QED
    BY <2>1, <2>2, <2>3, <2>4, <2>5, <2>6, <2>7, <2>8 DEF Next
<1> QED
  BY <1>1, <1>2, Invariance, AnnouncesInvariance, PTL DEF Spec, ImplementsVerdictLog, Log!Spec

-----------------------------------------------------------------------------
(* The scratch tree.  The inductive invariant says how far a copy or a       *)
(* synchronisation has got: everything it has been over agrees with the      *)
(* checkout, and during a copy nothing else exists.                          *)

\* How far the operation under way has got.
Progress ==
  /\ stage \in {"copying", "syncing"} => \A f \in Sources \ todo : tree[f] = source[f]
  /\ stage = "copying" => \A f \in Files \ Sources : tree[f] = None
  /\ stage = "copying" => \A f \in todo : tree[f] = None
  /\ stage \in {"copying", "syncing"} => todo \subseteq Sources
  /\ stage \notin {"copying", "syncing"} => todo = {}
  /\ stage # "idle" => root
  /\ stage = "syncing" => broken = "sync"

SyncInv == SyncTypeOK /\ Progress

\* The invariant that the theorems about the scratch tree rest on.
LEMMA SyncInvariance == SyncSpec => []SyncInv
<1>1. SyncInit => SyncInv
  BY DEF SyncInit, SyncInv, SyncTypeOK, Progress, Present
<1>2. SyncInv /\ [SyncNext]_syncVars => SyncInv'
  <2> SUFFICES ASSUME SyncInv, [SyncNext]_syncVars PROVE SyncInv'
    OBVIOUS
  <2> USE DEF SyncInv, SyncTypeOK, Progress, Sources, Present
  <2>1. CASE Prepare
    BY <2>1 DEF Prepare, Lowered
  <2>2. CASE Cleared
    BY <2>2 DEF Cleared
  <2>3. CASE Prepared
    BY <2>3 DEF Prepared
  <2>4. CASE SyncFails
    BY <2>4 DEF SyncFails, CutShort
  <2>5. CASE Stops
    BY <2>5 DEF Stops, CutShort, Ends
  <2>6. CASE TearDown
    BY <2>6 DEF TearDown
  <2>7. CASE TornDown
    BY <2>7 DEF TornDown, Ends
  <2>8. CASE \E f \in Files : RemoveFile(f)
    BY <2>8 DEF RemoveFile
  <2>9. CASE \E f \in Files : WriteFile(f)
    BY <2>9 DEF WriteFile
  <2>10. CASE \E f \in Files : RemoveStale(f)
    BY <2>10 DEF RemoveStale
  <2>11. CASE \E f \in Files : Instrument(f)
    BY <2>11 DEF Instrument
  <2>12. CASE \E f \in Files, content \in Versions \cup {None} : Edit(f, content)
    BY <2>12 DEF Edit
  <2>13. CASE UNCHANGED syncVars
    BY <2>13 DEF syncVars
  <2> QED
    BY <2>1, <2>2, <2>3, <2>4, <2>5, <2>6, <2>7, <2>8, <2>9, <2>10, <2>11, <2>12, <2>13
    DEF SyncNext
<1> QED
  BY <1>1, <1>2, PTL DEF SyncSpec

\* A fresh copy never overlays the sources onto anything left in the tree
\* (the clear before every fallback in sync_or_copy_using).
THEOREM CopiesStartClean == SyncSpec => []CopyStartsClean
<1>1. SyncInv => CopyStartsClean
  BY DEF SyncInv, SyncTypeOK, Progress, CopyStartsClean, Sources
<1> QED
  BY <1>1, SyncInvariance, PTL

\* Whatever an earlier run left, a preparation that reports success leaves
\* exactly the checkout (both branches of sync_or_copy_using).
THEOREM PreparationIsExact == SyncSpec => PreparedMatchesSource
<1>1. SyncInv /\ [SyncNext]_syncVars => (stage' = "prepared" /\ stage # "prepared" => tree' = source)
  <2> SUFFICES ASSUME SyncInv, [SyncNext]_syncVars, stage' = "prepared", stage # "prepared"
               PROVE tree' = source
    OBVIOUS
  <2>1. Prepared
    BY DEF SyncNext, syncVars, Prepare, Cleared, SyncFails, Stops, Ends, TearDown, TornDown,
           RemoveFile, WriteFile, RemoveStale, Instrument, Edit
  <2>2. \A f \in Files : tree[f] = source[f]
    BY <2>1 DEF Prepared, SyncInv, SyncTypeOK, Progress, Sources, Present
  <2> QED
    BY <2>1, <2>2 DEF Prepared, SyncInv, SyncTypeOK
<1> QED
  BY <1>1, SyncInvariance, PTL DEF SyncSpec, PreparedMatchesSource

\* A synchronisation or clear that did not finish leaves the sentinel down
\* (clear_sentinel comes before the first change).
THEOREM UnfinishedIsUnmarked == SyncSpec => []UnfinishedSyncIsUnmarked
<1>1. SyncInit => UnfinishedSyncIsUnmarked
  BY DEF SyncInit, UnfinishedSyncIsUnmarked
<1>2. SyncInv /\ UnfinishedSyncIsUnmarked /\ [SyncNext]_syncVars => UnfinishedSyncIsUnmarked'
  BY DEF SyncInv, Progress, UnfinishedSyncIsUnmarked, SyncNext, syncVars, Prepare, Lowered, Cleared, Prepared,
         SyncFails, Stops, TearDown, TornDown, RemoveFile, WriteFile, RemoveStale, Instrument, Edit
<1> QED
  BY <1>1, <1>2, SyncInvariance, PTL DEF SyncSpec
=============================================================================
