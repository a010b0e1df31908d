--------------------------- MODULE TestingJournal ---------------------------
(***************************************************************************)
(* The durable side of a mutation-testing campaign: the prepared snapshot  *)
(* (testing-session.json), the journal of verdicts (testing-verdicts.jsonl)*)
(* and the phase marker (testing-phase.json) that exec/testing_state.rs    *)
(* keeps in the campaign's private cache, the completed record that ends   *)
(* the campaign, and the one process at a time (the workspace lock) that   *)
(* starts a campaign, tests, fails, dies, resumes and publishes.           *)
(*                                                                         *)
(* A journal line is a record.  A line whose bytes are cut short has no    *)
(* newline: it is the flag `torn`, never a line.  A line written after a   *)
(* torn fragment shares the fragment's line and no longer matches its      *)
(* checksum: it is "garbled".                                              *)
(***************************************************************************)
EXTENDS Naturals, Sequences, FiniteSets

CONSTANTS
  Mutants,        \* the mutants that are pending when the snapshot is taken
  Outcomes,       \* the verdicts a mutant may end with
  Pending,        \* the outcome of a mutant without a verdict
  MaxCampaigns,   \* bound: fresh campaigns started
  MaxExecutions,  \* bound: test executions of one campaign, over all segments
  MaxDiagnostics  \* bound: diagnostic lines of one campaign

ASSUME PendingIsNoVerdict == Pending \notin Outcomes
ASSUME BoundsAreNumbers ==
  MaxCampaigns \in Nat /\ MaxExecutions \in Nat /\ MaxDiagnostics \in Nat

VARIABLES
  \* what is on disk
  phase,      \* testing-phase.json: the phase and the snapshot it is bound to
  snapshot,   \* the campaign whose snapshot testing-session.json holds
  journal,    \* the complete lines of testing-verdicts.jsonl
  torn,       \* whether an unterminated fragment follows them
  record,     \* the completed record: its campaign and its verdicts
  prepared,   \* the campaign whose build the copied workspace holds, 0 if none
  \* the process that holds the workspace lock
  pc,         \* where it stands
  running,    \* the campaign it works on
  plan,       \* the outcomes in its memory
  prior,      \* the cost of the earlier segments, as restored
  tally,      \* the cost of this segment
  append,     \* the journal append under way, none when <<>>
  \* what the outside has seen
  campaigns,  \* campaigns started
  shown,      \* the verdicts the current campaign reported to the user
  executions  \* test executions of the current campaign, over all segments

disk == <<phase, snapshot, journal, torn, record, prepared>>
process == <<pc, running, plan, prior, tally, append>>
outside == <<campaigns, shown, executions>>
vars == <<disk, process, outside>>

-----------------------------------------------------------------------------
(* What a reader makes of the journal.                                     *)

AllPending == [m \in Mutants |-> Pending]
NoCost == [count |-> 0, confirmed |-> {}]

VerdictLines(j, m) ==
  {i \in DOMAIN j : j[i].kind = "verdict" /\ j[i].mutant = {m}}

\* Replay refuses a line that does not decode and a second verdict for a
\* mutant; the fragment behind the last newline is no line.
Readable(j) ==
  /\ \A i \in DOMAIN j : j[i].kind # "garbled"
  /\ \A m \in Mutants : Cardinality(VerdictLines(j, m)) <= 1

Recovered(j) ==
  [m \in Mutants |->
     LET lines == VerdictLines(j, m)
     IN  IF lines = {} THEN Pending ELSE j[CHOOSE i \in lines : TRUE].outcome]

\* Counters are cumulative, so the last line's replace the others';
\* confirmations are deltas, so they are united.
Restored(j) ==
  IF j = <<>> THEN NoCost
  ELSE [count |-> j[Len(j)].count,
        confirmed |-> UNION {j[i].confirmed : i \in DOMAIN j}]

Resumable == phase.name \in {"testing", "finishedTesting"}

-----------------------------------------------------------------------------
Init ==
  /\ phase = [name |-> "none", bound |-> 0]
  /\ snapshot = 0 /\ journal = <<>> /\ torn = FALSE
  /\ record = [of |-> 0, outcomes |-> AllPending]
  /\ prepared = 0
  /\ pc = "idle" /\ running = 0 /\ plan = AllPending
  /\ prior = NoCost /\ tally = NoCost /\ append = <<>>
  /\ campaigns = 0 /\ shown = AllPending /\ executions = 0

\* The process is gone, and everything it had in memory with it.
Gone ==
  /\ pc' = "idle" /\ running' = 0 /\ plan' = AllPending
  /\ prior' = NoCost /\ tally' = NoCost /\ append' = <<>>

GoesOn(next) == pc' = next /\ UNCHANGED <<running, plan, prior, tally, append>>

\* A file replaced whole, by a staged write and a rename: the command goes on
\* to `next`, or ends with an error met before the rename or after it.
Replace(old, new, next) ==
  \/ new /\ GoesOn(next)
  \/ (old \/ new) /\ Gone

\* set_phase: a resumable phase is bound to the digest of the snapshot.
Marked(name) ==
  [name |-> name,
   bound |-> IF name \in {"testing", "finishedTesting"} THEN snapshot ELSE 0]

SetPhase(name, next) == Replace(UNCHANGED phase, phase' = Marked(name), next)

-----------------------------------------------------------------------------
(* A fresh campaign up to the moment it can be resumed.                    *)

\* A mutant: the previous campaign stays resumable while the next one builds.
InvalidatedLate == phase

\* What a fresh measured run leaves of the previous campaign's phase.
Invalidated == Marked("preparing")

\* A fresh measured run ends the previous campaign before it touches the
\* workspace the two of them share; a marker it could not replace ends it.
StartCampaign ==
  /\ pc = "idle" /\ campaigns < MaxCampaigns
  /\ \/ /\ phase' = Invalidated
        /\ campaigns' = campaigns + 1
        /\ shown' = AllPending /\ executions' = 0
        /\ \/ /\ pc' = "building" /\ running' = campaigns'
              /\ UNCHANGED <<plan, prior, tally, append>>
           \/ Gone
     \/ UNCHANGED <<phase, outside>> /\ Gone
  /\ UNCHANGED <<snapshot, journal, torn, record, prepared>>

\* The workspace is copied, instrumented, built and measured.
Build ==
  /\ pc = "building"
  /\ prepared' = running
  /\ GoesOn("built") \/ Gone
  /\ UNCHANGED <<phase, snapshot, journal, torn, record, outside>>

TakeSnapshot ==
  /\ pc = "built"
  /\ Replace(UNCHANGED snapshot, snapshot' = running, "snapshotted")
  /\ UNCHANGED <<phase, journal, torn, record, prepared, outside>>

EmptyJournal ==
  /\ pc = "snapshotted"
  /\ Replace(UNCHANGED <<journal, torn>>, journal' = <<>> /\ torn' = FALSE, "armed")
  /\ UNCHANGED <<phase, snapshot, record, prepared, outside>>

\* The marker is the last thing published: from here on the campaign resumes.
Arm ==
  /\ pc = "armed"
  /\ SetPhase("testing", "testing")
  /\ UNCHANGED <<snapshot, journal, torn, record, prepared, outside>>

-----------------------------------------------------------------------------
(* The sweep's coordinator and the journal.                                *)

\* The line of an event: the cost of all segments, one confirmation at most.
Line(kind, mutant, outcome, cost, confirmed) ==
  [kind |-> kind, of |-> running, mutant |-> mutant, outcome |-> outcome,
   count |-> prior.count + cost.count, confirmed |-> confirmed]

CostLine(cost, confirmed) == Line("cost", {}, Pending, cost, confirmed)

\* Bytes appended behind a fragment share its line.
Written(line) ==
  Append(journal, IF torn THEN [line EXCEPT !.kind = "garbled"] ELSE line)

\* An append begins; the event it records waits behind it.
Begin(line) == pc' = "appending" /\ append' = <<line, line>>

\* A worker's execution is accounted for, in memory and in the journal.
Account ==
  /\ pc = "testing" /\ executions < MaxExecutions
  /\ executions' = executions + 1
  /\ tally' = [tally EXCEPT !.count = @ + 1]
  /\ Begin(CostLine(tally', {}))
  /\ UNCHANGED <<disk, running, plan, prior, campaigns, shown>>

\* A mutant's recorded killer failed again; only the first time is news.
ConfirmKiller(m) ==
  /\ pc = "testing" /\ m \notin tally.confirmed
  /\ tally' = [tally EXCEPT !.confirmed = @ \cup {m}]
  /\ Begin(CostLine(tally', {m}))
  /\ UNCHANGED <<disk, running, plan, prior, outside>>

\* A mutant: the verdict is shown before its line is durable.
CompleteShown(m, o) ==
  /\ pc = "testing" /\ plan[m] = Pending
  /\ plan' = [plan EXCEPT ![m] = o] /\ shown' = [shown EXCEPT ![m] = o]
  /\ Begin(Line("verdict", {m}, o, tally, {}))
  /\ UNCHANGED <<disk, running, prior, tally, campaigns, executions>>

\* A verdict arrives: it is applied to the plan, then journalled.
Complete(m, o) ==
  /\ pc = "testing" /\ plan[m] = Pending
  /\ plan' = [plan EXCEPT ![m] = o]
  /\ Begin(Line("verdict", {m}, o, tally, {}))
  /\ UNCHANGED <<disk, running, prior, tally, outside>>

\* The events left in the channel after a failed checkpoint are applied to
\* the plan, and neither journalled nor shown.
Drain(m, o) ==
  /\ pc = "failed" /\ plan[m] = Pending
  /\ plan' = [plan EXCEPT ![m] = o]
  /\ UNCHANGED <<disk, pc, running, prior, tally, append, outside>>

Announce(line) ==
  shown' = [m \in Mutants |-> IF m \in line.mutant THEN line.outcome ELSE shown[m]]

\* The line is synced.  When the live diagnostics cannot be refreshed a line
\* that says so follows, and the verdict is shown after that one.
AppendSucceeds ==
  /\ pc = "appending"
  /\ journal' = Written(append[1]) /\ torn' = FALSE
  /\ \/ /\ pc' = "testing" /\ append' = <<>>
        /\ Announce(append[2])
     \/ /\ append[1].kind # "diagnostic"
        /\ Cardinality({i \in DOMAIN journal : journal[i].kind = "diagnostic"}) < MaxDiagnostics
        /\ append' = <<[append[1] EXCEPT !.kind = "diagnostic", !.mutant = {},
                                         !.outcome = Pending], append[2]>>
        /\ UNCHANGED <<pc, shown>>
  /\ UNCHANGED <<phase, snapshot, record, prepared, running, plan, prior, tally,
                 campaigns, executions>>

\* Where the bytes of an append got to: nowhere, part of the line, all of it.
Interrupted ==
  \/ UNCHANGED <<journal, torn>>
  \/ torn' = TRUE /\ UNCHANGED journal
  \/ journal' = Written(append[1]) /\ torn' = FALSE

\* The write or its sync fails.  The file is cut back to the durable prefix,
\* which may fail too; either way nothing is appended by this process again.
AppendFails ==
  /\ pc = "appending"
  /\ Interrupted
  /\ pc' = "failed" /\ append' = <<>>
  /\ UNCHANGED <<phase, snapshot, record, prepared, running, plan, prior, tally, outside>>

-----------------------------------------------------------------------------
(* The end of the sweep, the completed record, the next process.           *)

\* The sweep is exhausted; mutants without a trustworthy judgement stay
\* pending.
SweepEnds ==
  /\ pc = "testing"
  /\ GoesOn("swept")
  /\ UNCHANGED <<disk, outside>>

SweepFails ==
  /\ pc = "failed"
  /\ Gone
  /\ UNCHANGED <<disk, outside>>

\* A mutant: the end of the sweep is taken for the end of the campaign.
CompletedBeforeRecord ==
  /\ pc = "swept"
  /\ SetPhase("completed", "finished")
  /\ UNCHANGED <<snapshot, journal, torn, record, prepared, outside>>

CompleteTesting ==
  /\ pc = "swept"
  /\ SetPhase("finishedTesting", "finished")
  /\ UNCHANGED <<snapshot, journal, torn, record, prepared, outside>>

StoreRecord ==
  /\ pc = "finished"
  /\ Replace(UNCHANGED record, record' = [of |-> running, outcomes |-> plan], "stored")
  /\ UNCHANGED <<phase, snapshot, journal, torn, prepared, outside>>

FinishRecord ==
  /\ pc = "stored"
  /\ \/ phase.name = "finishedTesting" /\ phase' = Marked("completed")
     \/ UNCHANGED phase
  /\ Gone
  /\ UNCHANGED <<snapshot, journal, torn, record, prepared, outside>>

\* Mutant: a new segment takes every confirmation for news.
SegmentUnseeded(restored) == NoCost

\* The cost a resumed segment starts its own count with.
SegmentStart(restored) == [NoCost EXCEPT !.confirmed = restored.confirmed]

\* Mutant: the journal is reopened without cutting the fragment off.
Unrepaired == torn

\* What is left of a fragment when the journal is reopened at its last line.
Repaired == FALSE

\* --resume-testing.  A campaign with verdicts for all is only published; any
\* other needs the build it was prepared with, and the journal without its
\* fragment.
Resume ==
  /\ pc = "idle" /\ Resumable
  /\ phase.bound = snapshot
  /\ Readable(journal)
  /\ running' = snapshot /\ plan' = Recovered(journal)
  /\ prior' = Restored(journal)
  /\ tally' = SegmentStart(prior')
  /\ \/ /\ \A m \in Mutants : plan'[m] # Pending
        /\ pc' = "swept" /\ UNCHANGED torn
     \/ /\ \E m \in Mutants : plan'[m] = Pending
        /\ prepared = snapshot
        /\ pc' = "testing" /\ torn' = Repaired
  /\ UNCHANGED <<phase, snapshot, journal, record, prepared, append, outside>>

\* The process dies at any moment: a signal, a crash, the machine.
Die ==
  /\ pc # "idle"
  /\ IF pc = "appending" THEN Interrupted ELSE UNCHANGED <<journal, torn>>
  /\ Gone
  /\ UNCHANGED <<phase, snapshot, record, prepared, outside>>

\* Between processes someone changes the prepared sources or binaries.
Tamper ==
  /\ pc = "idle" /\ prepared # 0
  /\ prepared' = 0
  /\ UNCHANGED <<phase, snapshot, journal, torn, record, process, outside>>

Next ==
  \/ StartCampaign \/ Build \/ TakeSnapshot \/ EmptyJournal \/ Arm
  \/ Account
  \/ \E m \in Mutants : ConfirmKiller(m)
  \/ \E m \in Mutants, o \in Outcomes : Complete(m, o) \/ Drain(m, o)
  \/ AppendSucceeds \/ AppendFails
  \/ SweepEnds \/ SweepFails \/ CompleteTesting \/ StoreRecord \/ FinishRecord
  \/ Resume \/ Die \/ Tamper

Spec == Init /\ [][Next]_vars

-----------------------------------------------------------------------------
Count == 0 .. MaxExecutions
Campaign == 0 .. MaxCampaigns
Cost == [count : Count, confirmed : SUBSET Mutants]
JournalLine ==
  [kind : {"verdict", "cost", "diagnostic", "garbled"}, of : Campaign,
   mutant : SUBSET Mutants, outcome : Outcomes \cup {Pending},
   count : Count, confirmed : SUBSET Mutants]
Plan == [Mutants -> Outcomes \cup {Pending}]

\* Every file and every variable of the process holds what its type says.
TypeOK ==
  /\ phase \in [name : {"none", "preparing", "testing", "finishedTesting", "completed"},
                bound : Campaign]
  /\ snapshot \in Campaign
  /\ journal \in Seq(JournalLine)
  /\ torn \in BOOLEAN
  /\ record \in [of : Campaign, outcomes : Plan]
  /\ prepared \in Campaign
  /\ pc \in {"idle", "building", "built", "snapshotted", "armed", "testing", "appending",
             "failed", "swept", "finished", "stored"}
  /\ running \in Campaign
  /\ plan \in Plan
  /\ prior \in Cost
  /\ tally \in Cost
  /\ append \in {<<>>} \cup (JournalLine \X JournalLine)
  /\ campaigns \in Campaign
  /\ shown \in Plan
  /\ executions \in Count

\* A verdict the user was shown survives every crash, failed write and
\* resume: as long as the campaign is not superseded, replaying its journal
\* gives that verdict, and once it is completed so does the record.
ShownSurvives ==
  \A m \in Mutants : shown[m] # Pending =>
    \/ Resumable /\ Recovered(journal)[m] = shown[m]
    \/ /\ phase.name = "completed"
       /\ record.of = campaigns /\ record.outcomes[m] = shown[m]

\* A campaign whose marker says it can be resumed is never refused for what
\* the program itself wrote: the marker matches the snapshot, every line
\* decodes, no mutant is settled twice and no line is another campaign's.
MarkedIsReadable ==
  Resumable =>
    /\ phase.bound = snapshot
    /\ Readable(journal)
    /\ \A i \in DOMAIN journal : journal[i].of = snapshot

\* A process tests the campaign that was started last, and with the build
\* that campaign's snapshot describes.
TestsLatestBuild ==
  /\ pc # "idle" => running = campaigns
  /\ pc \in {"testing", "appending"} => prepared = running /\ snapshot = running

\* A completed marker is only written over a record of that campaign which
\* agrees with its journal in every verdict.
CompletedIsPublished ==
  phase.name = "completed" =>
    /\ record.of = snapshot
    /\ record.outcomes = Recovered(journal)

\* However often a campaign is resumed, cost is neither doubled nor dropped:
\* the restored counter is at most what was executed, a confirmation is
\* journalled as news once, and while the campaign lives both only grow.
CostExact ==
  [][Resumable' =>
       /\ (Restored(journal).count <= executions)'
       /\ \A i, j \in DOMAIN journal' :
            i # j /\ journal'[i].kind = "cost" /\ journal'[j].kind = "cost" =>
              journal'[i].confirmed \cap journal'[j].confirmed = {}
       /\ Resumable /\ campaigns' = campaigns =>
            /\ Restored(journal)'.count >= Restored(journal).count
            /\ Restored(journal).confirmed \subseteq Restored(journal)'.confirmed]_vars

\* What a process that starts now would find of the current campaign.
Durable ==
  CASE Resumable -> Recovered(journal)
    [] phase.name = "completed" -> record.outcomes
    [] ~Resumable /\ phase.name # "completed" -> AllPending

Log == INSTANCE VerdictLog WITH durable <- Durable

\* Over all its deaths, failed writes and resumptions, and through the
\* publication of its record, a campaign is one log of verdicts: each becomes
\* durable once, is shown after that and as it was recorded, and is neither lost
\* nor changed before another campaign begins.
ImplementsVerdictLog == Log!Spec
=============================================================================
