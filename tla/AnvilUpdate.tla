----------------------------- MODULE AnvilUpdate -----------------------------
(***************************************************************************)
(* cargo anvil's update: owned files and managed regions brought to the    *)
(* catalog's templates by decision.rs, emit/owned_file.rs,                 *)
(* emit/managed_region.rs, plan.rs and run.rs of cargo-anvil/src.          *)
(*                                                                         *)
(* A checksum stands for the text it is of.  A file is the text outside    *)
(* its regions and each region's body; a body between markers that do not  *)
(* pair is refused like an edited one and is not told from it.  Nobody     *)
(* edits a file while a run is under way.                                  *)
(***************************************************************************)
EXTENDS Naturals, Sequences

CONSTANTS
  Paths,
  Regions,     \* region identifiers
  Versions,    \* rendered templates
  Words,       \* what only a user writes
  Order,       \* the targets, as the catalog and the sorted manifest list them
  File, Missing, Empty, None,
  MaxEdits, MaxReleases  \* bounds on what users and the catalog do

VARIABLES
  catalog,   \* each target's template, None where it is not declared
  disk,      \* each path's content
  proposed,  \* each path's .anvil-proposed sibling
  lock,      \* .anvil.lock: what each target was last rendered as
  running,   \* between planning and the saved lock
  todo,      \* the plan's writes still to apply
  next,      \* the lock the plan will save
  settled,   \* history: a run completed and nothing happened since
  edited,    \* history: targets whose content an update need not take for generated
  edits, releases

vars == <<catalog, disk, proposed, lock, running, todo, next, settled, edited, edits, releases>>

\* A target is an owned file or a managed region of a host file.
Targets == Paths \X (Regions \cup {File})

Bodies == Versions \cup Words \cup {Empty, None}
Texts == Versions \cup Words \cup {Empty}
Hosts == [text : Texts, body : [Regions -> Bodies]]
Contents == {Missing} \cup Hosts

ASSUME EveryTargetIsListed ==
  Order \in Seq(Targets) /\ \A t \in Targets : \E i \in DOMAIN Order : Order[i] = t
ASSUME BoundsAreNumbers == MaxEdits \in Nat /\ MaxReleases \in Nat

\* A path is owned as a file or hosts regions, never both.
Catalogs == {c \in [Targets -> Versions \cup {None}] :
               \A p \in Paths : c[<<p, File>>] # None => \A r \in Regions : c[<<p, r>>] = None}

\* The file a template renders to; no file is Rendered(None).
Rendered(v) == [text |-> v, body |-> [r \in Regions |-> None]]

ASSUME MarksAreNoTexts ==
  /\ File \notin Regions /\ None # Empty /\ Missing \notin Hosts \cup {Rendered(None)}
  /\ {None, Empty} \cap (Versions \cup Words) = {} /\ Versions \cap Words = {}

\* The body of a region, None where the host has no such region.
Body(host, r) == IF host = Missing THEN None ELSE host.body[r]

\* The host with a region's body replaced, introduced or excised.
Splice(host, r, b) ==
  [text |-> IF host = Missing THEN Empty ELSE host.text,
   body |-> [x \in Regions |-> IF x = r THEN b ELSE Body(host, x)]]

Init ==
  /\ catalog \in Catalogs
  /\ disk = [p \in Paths |-> Missing] /\ proposed = [p \in Paths |-> None]
  /\ lock = [t \in Targets |-> None] /\ next = lock
  /\ running = FALSE /\ todo = <<>>
  /\ settled = FALSE /\ edited = {} /\ edits = 0 /\ releases = 0

-----------------------------------------------------------------------------
(* Planning.  A plan is the host texts as its items leave them, the writes  *)
(* it will make and the manifest it projects.                              *)

Write(plan, p, content) == [plan EXCEPT !.writes = Append(plan.writes, [path |-> p, content |-> content])]
ProposeTo(plan, p, v) == [plan EXCEPT !.writes = Append(plan.writes, [path |-> p, proposal |-> v])]

\* projected_manifest's insertions; None removes the entry.
Record(plan, t, v) == [plan EXCEPT !.lock[t] = v]

\* plan_owned_file: decide, on the text on disk.
PlanFile(plan, p) ==
  LET t == <<p, File>>
      template == catalog[t]
      last == lock[t]
      customized == disk[p] \notin {Missing, Rendered(template), Rendered(last)}
  IN  CASE disk[p] = Rendered(template) -> Record(plan, t, template)
        [] disk[p] \in {Missing, Rendered(last)} \ {Rendered(template)} ->
             Record(Write(plan, p, Rendered(template)), t, template)
        [] customized /\ last = template -> plan
        [] customized /\ last # template -> Record(ProposeTo(plan, p, template), t, template)

\* A mutant: each region is spliced into the text on disk.
SpliceIntoDisk(plan, p, r, b) == Write(plan, p, Splice(disk[p], r, b))

\* A region's write composes on the host text the pass has accumulated.
SpliceInto(plan, p, r, b) ==
  LET host == Splice(plan.text[p], r, b)
  IN  [Write(plan, p, host) EXCEPT !.text[p] = host]

\* plan_region_with_splice and push_region_at: an edited body is refused, and
\* what the manifest says of it stays.
PlanRegion(plan, p, r) ==
  LET t == <<p, r>>
      body == Body(plan.text[p], r)
  IN  CASE body = catalog[t] -> Record(plan, t, catalog[t])
        [] body \in {None, Empty, lock[t]} \ {catalog[t]} ->
             Record(SpliceInto(plan, p, r, catalog[t]), t, catalog[t])
        [] body \notin {None, Empty, lock[t], catalog[t]} -> plan

\* A mutant: a retired file goes whatever it holds.
RetireFileUnasked(plan, p) ==
  IF \E r \in Regions : catalog[<<p, r>>] # None
  THEN Record(plan, <<p, File>>, None)
  ELSE Record(Write(plan, p, Missing), <<p, File>>, None)

\* A file the catalog no longer declares: it goes if it is as it was rendered,
\* unless it now hosts regions.
RetireFile(plan, p) ==
  IF disk[p] \in {Missing, Rendered(lock[<<p, File>>])} /\ \A r \in Regions : catalog[<<p, r>>] = None
  THEN Record(Write(plan, p, Missing), <<p, File>>, None)
  ELSE Record(plan, <<p, File>>, None)

\* A region the catalog no longer declares; an edited one is refused and
\* stays tracked.
RetireRegion(plan, p, r) ==
  LET body == Body(plan.text[p], r)
  IN  CASE body = None -> Record(plan, <<p, r>>, None)
        [] body \in {Empty, lock[<<p, r>>]} -> Record(SpliceInto(plan, p, r, None), <<p, r>>, None)
        [] body \notin {None, Empty, lock[<<p, r>>]} -> plan

PlanItem(plan, t) == IF t[2] = File THEN PlanFile(plan, t[1]) ELSE PlanRegion(plan, t[1], t[2])

Retire(plan, t) == IF t[2] = File THEN RetireFile(plan, t[1]) ELSE RetireRegion(plan, t[1], t[2])

\* build_plan's passes: the catalog's artifacts, then the files and then the
\* regions that only the manifest still names.
Pass(k) == [i \in DOMAIN Order |-> <<k, Order[i]>>]
Visits == Pass("declared") \o Pass("retired file") \o Pass("retired region")

\* The pass that handles a target, none if neither catalog nor lock names it.
PassOf(t) ==
  CASE catalog[t] # None -> "declared"
    [] catalog[t] = None /\ lock[t] # None /\ t[2] = File -> "retired file"
    [] catalog[t] = None /\ lock[t] # None /\ t[2] # File -> "retired region"
    [] catalog[t] = None /\ lock[t] = None -> "none"

Handle(plan, t) == IF catalog[t] # None THEN PlanItem(plan, t) ELSE Retire(plan, t)

Nothing == [text |-> disk, writes |-> <<>>, lock |-> lock]

\* What is planned after a number of visits.
Planned[n \in 0..Len(Visits)] ==
  IF n = 0 THEN Nothing
  ELSE LET t == Visits[n][2]
       IN  IF Visits[n][1] = PassOf(t) THEN Handle(Planned[n - 1], t) ELSE Planned[n - 1]

Plan == Planned[Len(Visits)]

-----------------------------------------------------------------------------
(* A run. *)

\* A mutant: the lock is saved before the files it speaks of.
StartWithLock ==
  /\ ~running /\ running' = TRUE
  /\ todo' = Plan.writes /\ next' = Plan.lock /\ lock' = Plan.lock
  /\ settled' = FALSE
  /\ UNCHANGED <<catalog, disk, proposed, edited, edits, releases>>

Start ==
  /\ ~running /\ running' = TRUE
  /\ todo' = Plan.writes /\ next' = Plan.lock
  /\ settled' = FALSE
  /\ UNCHANGED <<catalog, disk, proposed, lock, edited, edits, releases>>

\* apply_files_with: one write or removal, each atomic by its rename.
Apply ==
  /\ running /\ todo # <<>>
  /\ LET w == Head(todo)
     IN  IF "proposal" \in DOMAIN w
         THEN proposed' = [proposed EXCEPT ![w.path] = w.proposal] /\ UNCHANGED disk
         ELSE disk' = [disk EXCEPT ![w.path] = w.content] /\ UNCHANGED proposed
  /\ todo' = Tail(todo)
  /\ UNCHANGED <<catalog, lock, running, next, settled, edited, edits, releases>>

\* What is as the lock says needs no leave to be brought up to date.
AsRecorded(t, recorded) ==
  IF t[2] = File THEN disk[t[1]] = Rendered(recorded[t])
                 ELSE Body(disk[t[1]], t[2]) = recorded[t]

\* The lock is saved last.
Save ==
  /\ running /\ todo = <<>>
  /\ lock' = next /\ running' = FALSE /\ settled' = TRUE
  /\ edited' = {t \in edited : ~AsRecorded(t, next)}
  /\ UNCHANGED <<catalog, disk, proposed, todo, next, edits, releases>>

\* A write that failed, or a process that died, anywhere in the run.
Stop ==
  /\ running /\ running' = FALSE /\ todo' = <<>>
  /\ UNCHANGED <<catalog, disk, proposed, lock, next, settled, edited, edits, releases>>

-----------------------------------------------------------------------------
(* Between runs. *)

\* An absent file and an empty region ask to be rendered again.
Blank(content, t) ==
  IF t[2] = File THEN content = Missing ELSE Body(content, t[2]) \in {None, Empty}

\* One edit is of a file's text and of one region at most.
Edit(p) ==
  /\ ~running /\ edits < MaxEdits /\ edits' = edits + 1
  /\ \E content \in Contents \ {disk[p]} :
       /\ content # Missing =>
            \E r \in Regions : \A x \in Regions \ {r} : content.body[x] = Body(disk[p], x)
       /\ disk' = [disk EXCEPT ![p] = content]
       /\ edited' = {t \in edited : t[1] # p}
                    \cup {t \in {p} \X (Regions \cup {File}) : ~Blank(content, t) /\
                            (t \in edited \/ t[2] = File \/ Body(disk[p], t[2]) # Body(content, t[2]))}
  /\ settled' = FALSE
  /\ UNCHANGED <<catalog, proposed, lock, running, todo, next, releases>>

\* Another version of the tool, or another set of backends.  What exists and is
\* not as the lock has it -- a file adopted, what a stopped run wrote -- will
\* look like an edit to it.
Release ==
  /\ ~running /\ releases < MaxReleases /\ releases' = releases + 1
  /\ catalog' \in Catalogs \ {catalog}
  /\ edited' = edited \cup {t \in Targets : ~Blank(disk[t[1]], t) /\ ~AsRecorded(t, lock)}
  /\ settled' = FALSE
  /\ UNCHANGED <<disk, proposed, lock, running, todo, next, edits>>

Next == Start \/ Apply \/ Save \/ Stop \/ (\E p \in Paths : Edit(p)) \/ Release

Spec == Init /\ [][Next]_vars

-----------------------------------------------------------------------------
(* Properties. *)

TypeOK ==
  /\ catalog \in Catalogs /\ disk \in [Paths -> Contents]
  /\ proposed \in [Paths -> Versions \cup {None}]
  /\ lock \in [Targets -> Versions \cup {None}] /\ next \in [Targets -> Versions \cup {None}]
  /\ running \in BOOLEAN /\ settled \in BOOLEAN /\ edited \subseteq Targets
  /\ edits \in 0..MaxEdits /\ releases \in 0..MaxReleases

\* A user's words survive every run: whatever the catalog made of the path --
\* a file, a host, nothing -- and wherever earlier runs were stopped, no step of
\* a run changes text outside the regions, or a region's body, that a user
\* wrote.
EditsKept ==
  [][running => \A p \in Paths : disk[p] # Missing =>
        /\ disk[p].text \in Words => disk'[p] # Missing /\ disk'[p].text = disk[p].text
        /\ \A r \in Regions : disk[p].body[r] \in Words =>
             disk'[p] # Missing /\ disk'[p].body[r] = disk[p].body[r]]_vars

\* A second run does nothing: the plan of a run that follows a completed one
\* writes no file, proposes nothing again and leaves the lock as it is, so that a
\* dry run in CI reports only what it refused.
RunTwiceIsRunOnce == settled => Plan.writes = <<>> /\ Plan.lock = lock

Hosting(p) == \E r \in Regions : catalog[<<p, r>>] # None

\* Nothing of an artifact is in its file; a retired file may stay on as a host.
Gone(t) == Blank(disk[t[1]], t) \/ (t[2] = File /\ Hosting(t[1]))

\* A completed run brings the repository up to date, whatever stopped runs it
\* follows: every declared target that no user edited since it was rendered
\* holds the catalog's template, and of every retired one nothing is left,
\* neither in its file nor in the lock.
UpToDate ==
  settled => \A t \in Targets \ edited :
    IF catalog[t] # None
    THEN IF t[2] = File THEN disk[t[1]] = Rendered(catalog[t])
                        ELSE Body(disk[t[1]], t[2]) = catalog[t]
    ELSE lock[t] = None /\ Gone(t)
=============================================================================
