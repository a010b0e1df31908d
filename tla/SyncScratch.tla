----------------------------- MODULE SyncScratch -----------------------------
(***************************************************************************)
(* The scratch copy of the workspace that a campaign instruments and       *)
(* builds (exec/sync.rs, and the teardown in exec/workspace.rs).  The tree *)
(* outlives the process, and so does the sentinel file beside it that says *)
(* the tree may be synchronised in place; the process may fail or die      *)
(* between any two files it writes or removes.                             *)
(*                                                                         *)
(* Directories, links and permissions are left out, and the checkout is    *)
(* edited only between runs: an edit during the copy is caught later by    *)
(* the digests taken at discovery.                                         *)
(***************************************************************************)
EXTENDS FiniteSets

CONSTANTS
  Files,
  Versions,    \* the contents a source file may have
  None,        \* no such file
  Partial,     \* the contents of a copy that was cut short
  Instrumented \* the contents of a file the campaign has spliced mutants into

ASSUME MarksAreNoVersions ==
  /\ {None, Partial, Instrumented} \cap Versions = {}
  /\ Cardinality({None, Partial, Instrumented}) = 3

VARIABLES
  source,   \* the checkout
  root,     \* whether the scratch tree's directory exists
  tree,     \* its files
  sentinel, \* whether .gamma-sync-ok says "1"
  stage,    \* what the process is doing
  todo,     \* source files a copy or a synchronisation has not reached
  broken    \* the operation that left the tree unfinished, "none" if none did

syncVars == <<source, root, tree, sentinel, stage, todo, broken>>

Sources == {f \in Files : source[f] # None}
Present == {f \in Files : tree[f] # None}

SyncInit ==
  /\ source \in [Files -> Versions]
  /\ root = FALSE /\ tree = [f \in Files |-> None]
  /\ sentinel = FALSE
  /\ stage = "idle" /\ todo = {} /\ broken = "none"

-----------------------------------------------------------------------------
\* A mutant: the sentinel stays up while the tree is synchronised.
LoweredLater == sentinel

\* The sentinel once an existing tree is about to be changed.
Lowered == FALSE

\* sync_or_copy chooses: no tree, a tree that cannot be trusted, or one that
\* can.  Creating the directory or removing the sentinel may fail.
Prepare ==
  /\ stage = "idle"
  /\ \/ /\ ~root
        /\ root' = TRUE /\ stage' = "copying" /\ todo' = Sources
        /\ broken' = "copy"
        /\ UNCHANGED sentinel
     \/ /\ root /\ ~sentinel
        /\ stage' = "clearing" /\ broken' = "clear"
        /\ UNCHANGED <<root, todo, sentinel>>
     \/ /\ root /\ sentinel
        /\ sentinel' = Lowered
        /\ stage' = "syncing" /\ todo' = Sources /\ broken' = "sync"
        /\ UNCHANGED root
  /\ UNCHANGED <<source, tree>>

\* The tree is removed file by file, by a clear or by the teardown.
RemoveFile(f) ==
  /\ stage \in {"clearing", "tearing"}
  /\ tree[f] # None
  /\ tree' = [tree EXCEPT ![f] = None]
  /\ UNCHANGED <<source, root, sentinel, stage, todo, broken>>

\* A cleared tree is copied anew.
Cleared ==
  /\ stage = "clearing" /\ Present = {}
  /\ stage' = "copying" /\ todo' = Sources /\ broken' = "copy"
  /\ UNCHANGED <<source, root, tree, sentinel>>

\* A copy, or the part of a synchronisation that goes over the source: what
\* has the source's contents is left alone.
WriteFile(f) ==
  /\ stage \in {"copying", "syncing"} /\ f \in todo
  /\ tree' = [tree EXCEPT ![f] = source[f]]
  /\ todo' = todo \ {f}
  /\ UNCHANGED <<source, root, sentinel, stage, broken>>

\* The rest of a synchronisation: files the source no longer has.
RemoveStale(f) ==
  /\ stage = "syncing" /\ todo = {}
  /\ source[f] = None /\ tree[f] # None
  /\ tree' = [tree EXCEPT ![f] = None]
  /\ UNCHANGED <<source, root, sentinel, stage, todo, broken>>

\* The sentinel is written, and whether that worked is ignored.
Prepared ==
  /\ stage \in {"copying", "syncing"} /\ todo = {}
  /\ stage = "syncing" => Present \subseteq Sources
  /\ sentinel' \in BOOLEAN
  /\ stage' = "prepared" /\ broken' = "none"
  /\ UNCHANGED <<source, root, tree, todo>>

\* A file that was being written is cut short.
CutShort ==
  \/ UNCHANGED tree
  \/ \E f \in todo : tree' = [tree EXCEPT ![f] = Partial]

Ends == stage' = "idle" /\ todo' = {}

\* A mutant: a synchronisation that failed is overlaid with a copy.
OverlayAfterFailure ==
  /\ stage = "syncing"
  /\ CutShort
  /\ stage' = "copying" /\ todo' = Sources /\ broken' = "copy"
  /\ UNCHANGED <<source, root, sentinel>>

\* A failed synchronisation falls back to a clear and a copy.
SyncFails ==
  /\ stage = "syncing"
  /\ CutShort
  /\ stage' = "clearing" /\ todo' = {} /\ broken' = "clear"
  /\ UNCHANGED <<source, root, sentinel>>

\* Any other failure ends the command, and so does the process's death.
Stops ==
  /\ stage # "idle"
  /\ CutShort
  /\ Ends
  /\ UNCHANGED <<source, root, sentinel, broken>>

Instrument(f) ==
  /\ stage = "prepared" /\ tree[f] # None
  /\ tree' = [tree EXCEPT ![f] = Instrumented]
  /\ UNCHANGED <<source, root, sentinel, stage, todo, broken>>

\* A run that did not get as far as a measured build removes its tree.  (One
\* that did, or was told to keep it, just ends: Stops.)
TearDown ==
  /\ stage = "prepared"
  /\ stage' = "tearing" /\ broken' = "teardown"
  /\ UNCHANGED <<source, root, tree, sentinel, todo>>

TornDown ==
  /\ stage = "tearing" /\ Present = {}
  /\ root' = FALSE
  /\ Ends
  /\ UNCHANGED <<source, tree, sentinel, broken>>

\* Between runs the user edits, adds or deletes a file.
Edit(f, content) ==
  /\ stage = "idle"
  /\ source' = [source EXCEPT ![f] = content]
  /\ UNCHANGED <<root, tree, sentinel, stage, todo, broken>>

SyncNext ==
  \/ Prepare \/ Cleared \/ Prepared \/ SyncFails \/ Stops \/ TearDown \/ TornDown
  \/ \E f \in Files : RemoveFile(f) \/ WriteFile(f) \/ RemoveStale(f) \/ Instrument(f)
  \/ \E f \in Files, content \in Versions \cup {None} : Edit(f, content)

SyncSpec == SyncInit /\ [][SyncNext]_syncVars

-----------------------------------------------------------------------------
\* Files have contents, and a tree without a directory has no files.
SyncTypeOK ==
  /\ source \in [Files -> Versions \cup {None}]
  /\ root \in BOOLEAN
  /\ tree \in [Files -> Versions \cup {None, Partial, Instrumented}]
  /\ ~root => Present = {}
  /\ sentinel \in BOOLEAN
  /\ stage \in {"idle", "copying", "clearing", "syncing", "prepared", "tearing"}
  /\ todo \subseteq Files
  /\ broken \in {"none", "copy", "clear", "sync", "teardown"}

\* Whatever earlier runs left behind, a preparation that succeeds leaves the
\* checkout's files with the checkout's contents and no others.
PreparedMatchesSource ==
  [][stage' = "prepared" /\ stage # "prepared" => tree' = source]_syncVars

\* A fresh copy never overlays the current sources onto what an older
\* generation, an instrumented run or a cut-short copy left.
CopyStartsClean ==
  stage = "copying" => \A f \in Files : tree[f] \in {None, source[f]}

\* A synchronisation or a clear that did not finish leaves a tree the next
\* run does not trust, wherever it stopped.
UnfinishedSyncIsUnmarked ==
  broken \in {"sync", "clear"} => ~sentinel

\* What sync.rs says of sync_or_copy: a tree left inconsistent by an earlier
\* interrupted run is unsuitable for synchronisation in place, and is removed
\* and copied.  Here: a tree whose copy or synchronisation was cut short.
InterruptedTreeIsReplaced ==
  [][stage = "idle" /\ stage' = "syncing" => broken \notin {"copy", "sync"}]_syncVars
=============================================================================
