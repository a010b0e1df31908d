# A TLA+ development for ox-tools

This directory holds a formal model of the parts of ox-tools where ordering, concurrency and
failure decide whether the answer is right, the TLC runs that check it on small instances, and
TLAPS proofs of its central safety properties for every instance. Paths below are relative to
`src/crates/`; `exec/` stands for `cargo-gamma-lib/src/exec/`.

## 1. The system

ox-tools is a collection of Cargo subcommands. Most are one-shot programs that read files and print
a verdict. One, the mutation tester cargo-gamma, is a concurrent, crash-recoverable system with a
scheduler, a journal, child processes and signal handling; it carries most of the logic worth
modelling.

### 1.1 cargo-gamma

It splices all mutants of a workspace into one instrumented copy, builds it once, and runs the test
binaries once per mutant, selecting the active one through the environment.

| Component | State | Operations | Hard behaviour | Correct when |
|---|---|---|---|---|
| Scratch tree (`exec/sync.rs`, `copy.rs`, `workspace.rs`) | the tree, a sentinel file beside it | copy, delta sync, fallback, instrument, teardown | a stop between any two file operations; trees that survive runs | a preparation that succeeds leaves exactly the checkout |
| Build, isolation, blame (`exec/build*`) | candidate mutants, proof budget | build, bisect failures, exclude | bounded search, non-monotone compile errors | a mutant is excluded only on evidence |
| Baseline and limits (`exec/baseline.rs`, `memory.rs`) | timings, memory samples | measure, derive budgets | noise | (numeric heuristics) |
| Scheduler (`exec/sweep.rs` 770-1480) | unclaimed work, reservations, turn counts, a multi-level index, a condition variable | claim, wait, release, abandon | threads, incremental index, wake-ups | unique claims, exact reservations, fair turns, no lost wake-up |
| Stages (`exec/sweep.rs` 1920-2660, `exec/sweep/staged.rs`) | per-mutant progress, negative learning per site, verdicts, the event channel | exact hint, hinted binaries, case batches, whole binaries, settle, drain | evidence shared across mutants; runs skipped on it; failure of a checkpoint | verdicts are those of an exhaustive run |
| Resource gate (`exec/resources.rs`) | permits per declared resource | acquire (wait), drop | several resources at once, one condition variable | limits hold, nobody is forgotten |
| Verdict ladder and supervision (`exec/verdict.rs`, `verdict/hubs.rs`) | one child, its readers, budgets | launch, retry, observe, confirm | exit, timeout, stall, interrupt racing | a class is reported only when seen |
| Testing journal (`exec/testing_state.rs`, `workspace.rs`, `measure.rs`, `commands/run.rs`) | snapshot, journal, phase, record | start, append, replay, repair, resume, finish | death or failed write at any step | what was shown survives; a marker is always readable |
| Interrupt registry (`cargo-gamma-unsafe/src/interrupt.rs`, `cargo-gamma-process/src/process_tree.rs`) | slots for groups and cgroups, sweeps under way, an owners word | window, claim, release, quiesce, sweep, die | lock-free, in signal handlers, reuse of numbers by the kernel | no child survives, no stranger is killed |
| Discovery, operators, planning (`cargo-gamma-engine`, `discover/`) | none | parse, enumerate, identify | size | (pure) |
| Records, merging, shards (`discover/record.rs`, `merge/`) | JSON records | publish, union | disagreeing shards | the union loses and invents nothing |
| Runtime, attributes (`cargo-gamma-rt`, `-attrs*`) | one cached environment variable | select | none | (trivial) |
| Reports, suppression, fixes, advice, CLI | none | render, edit text | none | (formatting) |

How they interact: `commands/run.rs` takes the workspace lock, writes the campaign's phase and
calls `exec/measure.rs`, which prepares the scratch tree, builds it, takes the snapshot, arms the
journal and calls the sweep. The sweep's workers claim mutants from the scheduler, execute their
stages, acquire the resource gate around each launch of a test binary, and launch through the
process tree, which registers every child with the interrupt registry. Workers report over a
channel to one draining thread that appends to the journal before it updates the plan or tells the
user. A failed checkpoint or a refused launch abandons the scheduler. When the sweep returns, the
record is published and the phase ends the campaign, or the next command resumes it.

### 1.2 The other tools

| Component | State | Hard behaviour |
|---|---|---|
| cargo-aprz facts (`cargo-aprz-lib/src/facts`) | a throttler (semaphore, pause, timer), request counters, HTTP retries | async tasks, overlapping rate-limit pauses |
| cargo-aprz caches | files with ages under an advisory lock | concurrent processes, stale entries |
| cargo-aprz expressions, metrics, reports | none | none |
| cargo-anvil decisions (`decision.rs`, `plan.rs`, `region.rs`, `run.rs`) | manifest of recorded content, files on disk | three-way divergence, partial application |
| cargo-anvil catalog and templates | none | none |
| cargo-each (`run.rs`) | running workers, buffered outcomes | completion order, stop on failure |
| cargo-coverage-gate, cargo-unused-deps, cargo-heather, hunspell-dictgen, ensure-no-* | none | none |
| automation, justfiles, CI | none | none |

`PROJECT.json` lists every component with its status, and every hazard we found at its line with
the properties that would notice it.

## 2. The modules

| Module | Models | Shape |
|---|---|---|
| `WorkPool` | what a work queue promises its workers | abstract specification, all policy left out |
| `Scheduler` | the scheduler and the worker loop | one step per critical section; the claim reads the abandonment cell and decides in two steps with the mutex held |
| `SchedulerQueues` | the incremental index | extends `Scheduler`; each claim or release also maintains the index as the code does |
| `VerdictLog` | what a campaign promises whoever watches it | abstract specification: verdicts become durable, are shown, go only when another campaign begins |
| `Sweep` | stages, learning, drain, passes, result | a launch is a start and an end, so other workers act in between |
| `TestingJournal` | the durable files and the process over them | one step per write that can be interrupted |
| `SyncScratch` | preparation and teardown of the tree | one step per file |
| `InterruptRegistry` | the registry, handlers and launches | one step per atomic operation |
| `ResourceGate` | the gate | one step per critical section |
| `Launch` | one supervised launch of a test binary and the pulse its threads share | one step per lock acquisition or system call |
| `Verdict` | confirmations, the control launch, a binary's result | extends `Launch`; the first launch in full, later ones by contract |
| `Throttler` | cargo-aprz's throttler and the fetch loop over it | one step per atomic operation, critical section or await |
| `AnvilUpdate` | cargo-anvil's update | planning is one function, then one step per write |
| `*Proofs` | theorems about the module of that name; `SchedulerProofs` also about `SchedulerQueues`, `TestingJournalProofs` about `SyncScratch` | |
| `MC*` | instances for TLC | |

Composition. `Scheduler` implements `WorkPool` (`ImplementsWorkPool`), `SchedulerQueues` implements
`Scheduler` (`ImplementsScheduler`), and `Sweep` uses the queue at its word: it claims any
unsettled mutant. The scheduler's policy therefore cannot affect what `Sweep` shows. `Sweep` and
`TestingJournal` meet at the drain: `Sweep!Receive` is checkpoint, plan, show in one step;
`TestingJournal` splits the checkpoint into the writes behind it, and puts deaths and resumed
processes between them. Both implement `VerdictLog` (`ImplementsVerdictLog` in each), which is all
that either tells the user. A sweep has no step that supersedes its campaign. The mapping of `Sweep` takes as durable what a checkpoint took, that
of `TestingJournal` what a process that starts now would recover from the journal or the record. `Verdict` composes with `Launch` by extension: the
first launch of a ladder runs step by step, and every later one returns any member of `Outcomes`,
which `KeepsContract` proves to contain whatever a launch returns. `Sweep`'s outcomes of a run are in
turn what a ladder concludes.

### Scheduler

`remaining`, `packageTurns`, `activeFiles`, `activeItems`, `activeResources`, `learnedItems`,
`transferItems` are the fields of `SchedulerState`; `claimed` is the `Assignment` a worker holds;
`pc` is a worker's place in the loop. `Claim` is `claim_with_wait` from taking the mutex on;
`Complete`, `Defer`, `LoseContainment`/`DropAbandoned` are the ways an assignment ends; `Abandon` is
called by the drain and by workers. `Precedes` is the derived order of `LocalPriority` and
`PackageHead`.

In the production program `ScheduledWork.resources` is always empty (a comment at
`exec/sweep.rs:1237` says so): tests are admitted by the resource gate at launch, and the
scheduler's own resource machinery is reached only from its tests. Both are modelled, and
`WaitsOnlyForResources` states the consequence: production workers never park here.

### Sweep

A `Suite` fixes what each binary and test does under each mutant and which sites a binary reaches.
Verdicts of runs are outcomes of that table, so the exhaustive verdict is defined
(`Justified`) and `VerdictsJustified` compares every shortcut against it. The suites are all
consistent ones: what no run reaches cannot fail, and a test of a passing binary passes. The
probes a stage tries are any admitted by the filters, so the properties do not depend on how well
the selection guesses. A pending verdict is one whose run failed to give one.

### TestingJournal

Lines are records, or `garbled`. A failed append may leave a fragment (`torn`), the drain then
stops the campaign; a process may die at any step (`Die`). What the model takes as given: the file
system keeps what was written and renames atomically (the code syncs file and directory), and the
workspace lock admits one process at a time. `Tamper` edits the prepared tree between commands; it
is what the fingerprint check on resume is for. A launch and the accounting of its cost are one
step. The outcome store's indices, the killers file and reports are left out.

### SyncScratch

Files take symbolic contents: a version of the source, a cut-off copy, or instrumented text. Every
file operation may be the last one (`Stops`), or the synchronisation may fail and fall back. The
checkout is edited between runs. Directories, links, permissions and modification times are left
out, so the model compares contents where the code may compare size and time first.

### InterruptRegistry

An actor is a thread running its own code (`Run(t)`) or the handler it runs (`Handler(t)`); a
handler suspends its thread, and terminal signals are blocked meanwhile. `mine` and `place` are a
launch's identities and slots, `live` what of it still runs: its group and, on a host with
cgroups, descendants that left the group (`strays`). Identities return to the pool the moment they
are given up, so that a late kill could hit a stranger: that is `IdentitiesPinned`. Kills are
assumed to succeed. Left out: fault injection, the macOS sampler, Windows jobs, a
`SpawnedCommand` dropped before adoption, and the ECHILD path. A failed spawn closes its window and
prepares again; the model takes a new cgroup then, the code keeps the old one.

Claim's own signal check turns out to be a second line of defence: dropping it alone breaks no
property, because the window's closing sweeps again when a signal is pending. `ClaimUnwatched`, the
mutation that lets a launch go on without a slot, does break one.

### ResourceGate

`Ask` evaluates `Resources::required`, `Take` and `Wait` are the two ends of the predicate loop,
`Release` and `Notify` are the permit's drop: the counters under the lock, then `notify_all` after
it. The permit is held over the run and its confirmations.

### Launch

`pc` is the supervising thread's place in `run_with_observation` and `supervise`
(`exec/verdict.rs`); `reader[s]` is the place of the thread that reads stream `s`, `pipe[s]` what it
has yet to read and `kept[s]` what it has published under the progress lock. `Read`, `Raise` and
`Rouse` are separate because the lock is released between publishing, moving the pulse's generation
and `notify_all`; `Sample`, `Observe`, the looks at progress and `Doze` are separate for the same
reason on the other side. `moved` says that the generation differs from the sampled one
(`verdict/hubs.rs`). `World` is the child, its descendants and the clock: it may write its lines,
exit, leave descendants in the containment or outside it, or hang. `OfExit` and `OfBudget` are
`settle`, `prefer_named` and `settle_budget_with`, with the memory ceiling a platform's word that may
go either way.

`StartupFailureDisqualifies` is stated for launches that ran to their own end, and under
cargo-nextest for all of them. A direct binary whose startup failure is read while the supervisor
already cuts it for a named failure or a spent budget keeps that class; nothing in the code promises
otherwise.

Left out: folding the reach of several processes, unsupervised launches, output caps and fragment
assembly, the gauge of readers, backoff between spawn attempts, Windows and macOS.

### Verdict

`Confirm` is the loop of `settle_suspicions` (`CONFIRM_ROUNDS`, `CONFIRM_FACTOR` as in the code),
`Control` and `Attribute` are `confirm_enumeration_with`, `Conclude` and `Attribute` the return of
`run_binary_with_observer`. `seen` records each settled launch. When suspicions alternate (a timeout
whose confirmation stalls, whose confirmation times out again) the code accepts the last class once
the rounds are spent; `SecondLook` says so.

### Throttler

A fetch goes through `Throttler::acquire` (`Enroll` to `Recheck`) and the request loop of
`facts/hosting/provider.rs` (`Ask` to `Pause`). The semaphore is a first-come queue; a permit is held
from its grant to the end of the attempt. `Listening` is the set of enabled `Notified` futures: the
code enables one before it reads the flag, which is what makes the resume reach a task that has not
yet parked. A timer's wake-up and its `notify_waiters` are two steps, as the lock is released between
them. Left out: the progress tracker, caches, providers that do not throttle.

### AnvilUpdate

`Plan` is `build_plan`: `PlanFile` is `decide` and `plan_owned_file`, `PlanRegion`
`plan_region_with_splice`, `RetireFile` and `RetireRegion` the two passes over what only the manifest
still names; a plan threads the host texts its items leave, as the code's accumulator does. The three
passes are one list of `Visits`, of which those take effect that the catalog and the lock call for
(`PassOf`); `Planned[n]` is what is planned after `n` of them. `Start`,
`Apply`, `Save` are the run; `Stop` ends it between any two writes. `Release` is another version of
the tool or another choice of backends; `Edit` is the user. A checksum is modelled by the text it is
of. `edited` is a history variable: what an update need not take for generated. A stopped run that is
followed by another release has left text the lock knows nothing of, which then looks like an edit;
the code refuses or proposes there, and `UpToDate` does not claim otherwise. Of a retired artifact it
says that neither the lock nor the file holds anything of it (`Gone`); a retired file may stay on as
the host of regions that took its place, and the markers of a region that a user emptied may stay.

Left out: structural arrays in JSON and TOML, adoption of hand-written TOML tables, composed hosts
and the placement of regions, repair of markers (an unpaired marker is refused like an edit), letter
case of paths, the tool guard, edits made while a run is under way. Adoption is the one exception the
code makes to preserving a user's text (`cargo-anvil/src/region.rs:18-22`): introducing a region into a
TOML host removes a hand-written table that the region's body covers. `EditsKept` therefore speaks of
hosts without such a table.

The model sides with the code on one point where its design document differs:
`cargo-anvil/docs/design/README.md:106` and `:176` say that an update never deletes a file, while
`decision.rs` has a removal for a retired file nobody edited, and the test
`disabling_a_backend_removes_its_orphaned_files` in `run.rs` expects it.

## 3. The runs

Every passing run explores its state space completely; actions that one configuration cannot fire
are fired by another.

| Run | Instance | Properties | Shows |
|---|---|---|---|
| `scheduler_index` | 2 workers, 5 mutants, one file compiled into two packages, no resources | `IndexExact PackagesTakeTurns WaitsOnlyForResources` | the pass the sweep starts: the index equals a recomputation, packages take turns, nobody parks |
| `scheduler_waiting` | 3 workers, 3 mutants, 2 resources, fairness | `ReservationsExact NoLostWakeup ImplementsScheduler ImplementsWorkPool EveryWorkerStops` | waiting, waking, abandonment, the index's slow path, termination |
| `sweep` | 2 workers, 2 mutants of one site, 2 binaries of which one is budgeted, 1 hinted test, every consistent suite in which one mutant passes, fails or times out and the other fails one binary at most, fairness | `VerdictsJustified RequiredRunsMade OkMeansComplete VerdictsFinal ImplementsVerdictLog SweepReturns` | no shortcut changes a verdict; what the user sees is a log of recorded verdicts; failures of checkpoints and containment; the sweep returns |
| `journal_recovery` | 2 campaigns, 2 mutants, 1 counted execution each | `MarkedIsReadable TestsLatestBuild CompletedIsPublished CostExact ImplementsVerdictLog` | the campaign is one log of verdicts; death or a failed write at every step |
| `scratch_sync` | 3 files, 2 contents | `UnfinishedSyncIsUnmarked PreparedMatchesSource` | a stop at every file |
| `scratch_interrupted` | the same | `InterruptedTreeIsReplaced` (violated) | the finding below |
| `interrupt_safety` | 2 threads, 2 identities, 2 launches each, one slot per array, cgroups, 2 signals | `IdentitiesPinned ChildrenReachable NothingSurvives` | no stranger is killed, no child survives, a full registry refuses |
| `interrupt_ends` | 2 threads, 2 slots, 1 launch each, 2 signals, fairness | `InterruptionEnds` | the process dies though no handler waits |
| `resource_gate` | 3 workers, 2 runs each, 2 resources, fairness | `SharedWithinCapacity NoWaiterForgotten EveryRunEnds` | the gate |
| `launch_verdict` | a mutant's run with a time and a silence budget, a baseline's with a time budget, with and without cargo-nextest, fairness | `Contained NewsWakes StartupFailureDisqualifies SecondLook OnlyTheMutantConvicts VerdictReached` | exit, lines, budgets, cuts and confirmations in every order |
| `throttler` | 3 fetches of 2 requests, 2 permits, 2 rate limits of length 0, 1 or 3, fairness | `LongestPauseWins ParkedWillWake EveryFetchReturns` | overlapping pauses and the resume that must reach everyone |
| `anvil_update` | 1 path, 2 regions, 2 templates, 1 text of the user's, 2 edits, 2 releases | `RunTwiceIsRunOnce UpToDate EditsKept` | three-way divergence, partial application, retired artifacts leave nothing |

The type invariant of every module is proved rather than run, and so are `PermitsExact` of the gate,
`CopyStartsClean` of the scratch tree, and `ShownIsRecorded` of the sweep and
`ShownSurvives` of the journal, the invariants by which these two keep the promise of `VerdictLog`. `CostExact` is an action property: whatever a command counts again, it neither doubles nor drops.

Why the bounds are enough. Two workers are needed for every race in the scheduler, a third only to
tell `notify_one` from `notify_all`; five mutants give a package a hinted, an unhinted and a
transferable entry, siblings in one item, and a second package to take turns with. Learning by
site involves two mutants of the site and a binary. A journal of two campaigns shows every mixture
of old and new files; a third repeats the second. Two identities and two threads are what number
reuse needs; two signals let two handlers overlap, or a signal arrive after a handler left. A
launch has two streams and writes each line a verdict is read from once; `Attempts` chooses the
budgets, of which only presence and confirmation factor matter. Two rate limits of lengths 1 and 3
overlap in both orders, within the tolerance of 1 and beyond it; the third fetch waits for a permit
meanwhile. One path that is by turns a file, a host of two regions and nothing meets every branch of
`decide`; a second edit and a second release let each follow a stopped run and the other.
Bounds are `MaxCampaigns`, `MaxExecutions`, `MaxDiagnostics`, `MaxLaunches`, `MaxSignals`,
`MaxRuns`, `MaxLimits`, `MaxTime`, `MaxEdits`, `MaxReleases`; they guard the action that would grow
the count.

`CHECK_DEADLOCK FALSE` is set only for the journal, whose bounded campaigns do end.

### Fairness

- Scheduler: weak fairness of every step a running thread takes on its own; strong fairness of
  taking the mutex, which the operating system grants again and again but not continuously.
  Judging an assignment ends because every launch has a budget. Nothing forces an abandonment.
- Sweep: launches end, workers go on, the drain receives. No fairness for failures.
- Interrupt registry: weak fairness per thread, whose step is its handler's while one runs on it. A
  child is under no fairness: it may hang for ever. No signal has to arrive.
- Resource gate: a thread that can take its next step does, a run ends by its budget; the mutex is
  granted again and again.
- Launch and verdict: the supervisor is scheduled and a deadline that exists passes. The child, its
  descendants and the readers are under no fairness: they may hang, write nothing, or never end.
- Throttler: the executor polls what is ready, timers fire, the clock advances, and a request is
  answered, by the host or by the client's own timeout.
- Journal, scratch tree and anvil: safety only. The user decides when to run a command again.

### The finding

`scratch_interrupted`. The doc of `sync_or_copy` (`exec/sync.rs:71-72`) says that a tree
inconsistent from a prior interrupted run is removed and copied afresh. A run whose campaign did
not settle removes its tree in teardown (`exec/workspace.rs:303`) but not the sentinel beside it;
with no tree in place the next run copies without lowering the sentinel; if that copy is cut short,
the run after it finds a directory with the old sentinel up and synchronises the partial tree in
place. The result is still right (`PreparedMatchesSource` holds, in TLC and by proof), since the
delta compares every file; it is the doc's description that fails.

## 4. The proofs

All theorems are for every value of the constants satisfying the named assumptions of the modules:
finite sets of workers and work, positive capacities, distinct marker values.

**SchedulerProofs** (`TypeInvariant`, `ClaimsAreUnique`, `ReservationsAreExact`, `TurnTaking`,
`CapacitiesHold`, `NoIdleWaiting`, `NoWakeupIsLost`, `Refinement`). The inductive invariant adds to
the type invariant where a worker may stand while holding an assignment and who owns the mutex
(`PlaceOK`), that counters are cardinalities of holder sets (`CountOK`, `Counters`), and that an
abandonment flag without a notification yet means the abandoning thread is still on its way
(`AbandonPending`). Exactness of the counters rests on lemmas about adding a worker to, or removing
it from, one holder set and no other. Turn taking is inductive because the chosen head minimises
turns among all packages with unclaimed work. No wake-up is lost because deciding to wait happens
with the mutex held, so availability can only change through a step that ends in a notification.
`Refinement` maps initial states and every step of the scheduler to a step of `WorkPool` or a
stutter.

Its second part is about the index (`IndexIsExact`, `IndexImplements`). The order of entries is
shown to be total and transitive (`EntryOrder`, `EntryTransitive`); the comparison of benefit per
cost by cross-multiplication is transitive because no cost is zero (`RatioLE`). Each level of the
index compares entries that lack what the level holds in common, and still orders them as the full
heads are ordered (`GroupOrder`, `SlotOrder`, `PackageOrder`), so the best of the bests is the best
(`BestOfParts`). The invariant `IndexInv` says that each queue holds its unclaimed mutants with their
present benefit and that each level is a recomputation of the one below. It survives a refresh that
touches one item and one file because no entry is published in two places (`Apart`), so taking the
old entries out takes nothing else (`IndexStep`), and because a lesson moves exactly what had still
to learn it (`QueuedStep`). From it `ChoiceIsBest`: the fast path over the heads and the slow path
over the queues both find the one mutant nothing is ahead of, or nothing when nothing is available.
Every step of `QSpec` is then a step of `Spec`, so the theorems above hold of the indexed scheduler.

**ResourceGateProofs** (`TypeCorrect`, `PermitsAreExact`, `NobodyIsForgotten`, `Sharing`). Counters
equal the number of permits in hand; a waiter's predicate can become false only by a release, which
leaves its thread at the notification. `Sharing` turns the counters into what a user cares about:
how many processes run tests that declare a resource.

**InterruptProofs** (`Inductive`, `KeepsTypes`, `DiesAlone`, `PinsIdentities`, `KeepsReachable`).
The invariant `IInv` has to say what every step of a launch holds and where it is registered
(`Shape`), because none of the three properties is inductive without it. Its other parts, in the
order the argument uses them: the two counters count actors (`Counts`), so a launch that sees
`handling = 0` knows that nobody holds an identity, and an owner that brings `owners` to zero knows
it is alone; whatever is registered or in hand belongs to a launch that knows its slot and is not
past its wait (`EntryOwned`, `HandOwned`, `Cleared`), which gives `PinsIdentities`; whatever lives
is before its registration or reachable (`Reached`), which gives `KeepsReachable`; and once the run
is interrupted, whatever lives is in an open window or is still going to be killed by somebody who
owns cleanup (`Doomed`). The last owner owns no window and has nothing left to kill, so nothing
lives when it decides to die (`NothingLeft`), and nothing is spawned afterwards (`Final`):
`DiesAlone`. The proof has one lemma per action; `QuietStep`, `OwnStep` and `OthersStep` are the
framing they share. It assumes finitely many threads, a positive number of slots and a `None` that
is neither an identity nor a position, and neither fairness nor a bound on launches or signals
beyond their being numbers.

**SweepProofs** (`SweepTyped`, `JudgesSoundly`, `RunsWhatItMust`, `ShowsWhatIsRecorded`,
`ReturnsComplete`, `VerdictsStay`, `SweepIsLog`). What is proved is that evidence shared between mutants is sound
for every suite that is consistent (`SuiteAssumption`): what a run does not reach cannot fail it, and
a test of a passing binary passes. The invariant says who may hold a mutant and at which stage
(`Holding`); that what has been learnt of a site, and every run's result on file, is what the suite
says (`Learnt`); that only what can reach the mutant is selected (`Aimed`); and that the fallback
leaves out no binary but those already run or excused by what was learnt (`Covered`). Lemma
`ConcludeSound` is the core: from covered binaries the code concludes what the exhaustive run does.
`Delivered` says that a verdict not yet shown is in the channel unless a checkpoint failed, and
`Accounted` that a pass loses no mutant and ends only with its pool empty; together they give the
properties about what is shown, returned and final. `SweepIsLog` needs one more lemma, that an event
the drain takes up is recorded and shown at once or leaves no trace (`ReceiveIsLogged`): everything
else changes neither what is recorded nor, by `VerdictsStay`'s lemma, what was settled. `SweepAssumption` asks for at least one worker,
tables of the right domains and a `None` apart from what it stands beside.

**TestingJournalProofs** (`JournalTyped`, `NothingShownIsLost`, `MarkerIsTrue`, `LatestIsTested`,
`RecordBeforeCompletion`, `CostIsExact`, `CampaignIsLog`). The invariant `JournalInv` says, for each place of the
process, what is on disk (`Placed`); that the files of a campaign that can be resumed are its own and
readable, and its last line carries the whole count (`Kept`); that the plan in memory is the journal's,
or one line ahead of it while that line is appended (`Remembered`, `Appending`); and that the cost in
memory covers the journal's (`Counted`). Lemmas on appending one line to a journal (`RecoveredKept`,
`RecoveredAdded`, `ReadableExtended`) carry the durable properties over a complete, a torn and a
failed append. `CostIsExact` follows from two facts about steps: a resumable journal is only ever
appended to, and a longer journal restores no less. `CampaignIsLog` compares what is durable before and after each
step: a step on a resumable journal adds at most one verdict (`DurableGrows`), an append that is cut
short has made its line durable or has changed nothing (`InterruptionIsLogged`), and the record takes
over from the journal with the same outcomes. The log counts campaigns, so a step that makes a durable
verdict disappear can only be one that starts another campaign. It assumes that
`Pending` is no verdict and that the bounds are numbers.

The module's second part is about `SyncScratch` (`CopiesStartClean`, `PreparationIsExact`,
`UnfinishedIsUnmarked`). The invariant says which files a running copy or delta may still have wrong:
those in `todo`. The action property `PreparedMatchesSource` follows from it.

**VerdictProofs** (`TypesHold`, `KeepsContract`, `StaysContained`, `NewsAlwaysWakes`,
`StartupDisqualifies`, `SuspicionsAreChecked`, `MutantConvicted`). The invariant follows a launch from
one that nobody started (`Unborn`) through the reason it is settled on (`Budgeted`, `Reasoned`,
`Finished`) and relates what the readers published to what was written and in which order (`Spoken`,
`Announced`, `InOrder`). `Told` says that decisive news which the supervisor has already looked past
(`News`) has moved the generation or is about to, and that once it sleeps a reader is on its way to
wake it; that is why none is lost. `Climbing` relates the ladder's round and stage to the launches recorded in `seen`.
`KeepsContract` is what entitles `Verdict` to model later launches by `Outcomes`.

**ThrottlerProofs** (`TypesHold`, `LongestWins`, `NoResumeLost`). The flag is up exactly while
`resume_at` is set, and then a timer for that very time sleeps (`TimerSleeps`); no accepted pause
outlives the time until which dispatching is certain to rest, and no requested one by more than the
tolerance (`RestsLongEnough`); a fetch that decided to wait and has not been notified faces a raised
flag or a notification under way (`WaiterWillWake`).

**AnvilUpdateProofs** (`TypesHold`, `UsersWordsSurvive`, `SecondRunDoesNothing`,
`CompletedIsUpToDate`). The difficulty is the plan, which is computed by recursion over the visits and
carried out write by write, with stops, edits and releases in between. The proof describes a plan by
what it comes to for each target on its own: the body a region ends with (`BodyAfter`), the paths that
are written as owned files (`Replaced`, `FileAfter`) and what is recorded (`RecordAfter`). `PlanOK`
says so of the targets planned so far. `PlansFile`, `PlansRegion`, `RetiresFile` and `RetiresRegion`
show that one visit extends it, `PlannedOK` that the whole plan has it. Two facts carry this: the
splices into one host compose because each starts from the text the one before left, and a path
written as an owned file has no region anybody spliced (`ReplacedFacts`). That the recursion defines a
function at all (`PlannedRecursion`) is proved by building it step by step (`Iteration`); the
induction is over a bounded set of numbers, by its least counterexample (`InductionTo`).

The inductive invariant `IInv` then has three parts beside the types. `Unedited`: what nobody edited is
something an update takes for generated. `Underway`: every write still to apply agrees with the disk on
every word of a user's (`Harmless`), and the last writes to each path lead to contents of which the
lock to be saved says the truth (`Accomplished`). `Completed`: after a completed run the disk and the
lock are such contents. `Accomplished` says of each target that another run leaves it alone (`Final`)
and, if nobody edited it, that it is as the catalog has it (`Current`). `SecondRunDoesNothing` follows
from `Final` visit by visit, `CompletedIsUpToDate` from `Current`, `UsersWordsSurvive` from `Harmless`. That retired files are gone rests
on the file part of `Unedited`: a file nobody edited is absent, as it was rendered, or the host of a
declared region, so the update either has it removed or has a use for it.
It assumes that the order lists every target, that the bounds are numbers, and that the marker values
are no texts.

Only model-checked: all liveness, which like `ENABLED` is outside the prover's reach, and the
counterexample of the finding.

## 5. What is not modelled

The components of section 1 without a module, for the reasons `PROJECT.json` gives. In the
modelled ones: wording and formats; numeric heuristics (estimates, ranking of probes); Windows and
macOS variants; poisoned locks (the code recovers the guard and goes on).

Most of the repository is not the kind of code a model checker helps with. By far the largest share
of its lines is unit tests inside the source files, parsing of Rust, TOML, JSON and dictionaries,
rendering of reports, and generated text; the state machines among them are few and are the ones
modelled here or listed in the plan. The models therefore stand for a small share of all lines and a
large share of those where an order of events decides the outcome.

cargo-each's parallel run (`cargo-each/src/run.rs:289`) launches a wave, joins all of it and then
starts the next, so that within a wave there is one order of observable events: the order of the
plan. Its hazard is listed without a property.

## 6. Plan

Done: scheduler and pool, index, sweep, journal, scratch tree, interrupt registry, resource gate,
launch supervision and the verdict ladder, aprz's throttler, anvil's update; proofs of all of
them.

Next, in this order:

1. `SweepCampaign`: `Sweep` over `TestingJournal`, its drain refined to journal writes, with
   resumption feeding recovered verdicts to the next sweep.
2. `BuildIsolation`: bisection under `MAX_ISOLATION_PROOFS`, the exclusions it records and what the
   next run carries over.
3. `FactCache` of cargo-aprz; `MergeUnion` of shard records; `EachWaves` of cargo-each.
