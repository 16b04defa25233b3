-------------------------------- MODULE Store --------------------------------
(***************************************************************************)
(* The on-disk store of undo-anything (internal/store), the walk that      *)
(* captures a snapshot into it (internal/snapshot) and the garbage         *)
(* collection that thins it (internal/prune, Store.GC).                    *)
(*                                                                         *)
(* Every `ua` command and the watch daemon are processes of their own that *)
(* share the .undo directory and no lock.  One action is one step of such  *)
(* a process that another process can see: a file created, renamed,        *)
(* appended to or removed, or a decision read off the directory.           *)
(*                                                                         *)
(* Abstractions.  A Content stands for the bytes and the permission bits   *)
(* of one regular file; SHA-256 is taken as injective, so a content is its *)
(* own blob key and a snapshot id is its set of rows.  The working tree is *)
(* the environment: a walk may find anything at any path.                  *)
(***************************************************************************)
EXTENDS Naturals, FiniteSets

CONSTANTS
    NumPaths,     \* tracked paths, numbered in the order WalkDir meets them
    Content,      \* what a regular file may hold
    Skipped,      \* what the walk finds at a path it does not track: nothing,
                  \* an ignored or irregular file, one too large or unreadable
    Snappers,     \* processes that call snapshot.Create
    Pruners,      \* processes that call prune.Run
    MaxCommands,  \* bound: commands started in a behaviour
    MaxAborts,    \* bound: commands that crash or give up with an error
    MaxIOErrors   \* bound: torn appends and removals that fail

ASSUME StoreAssumption ==
    /\ NumPaths \in Nat
    /\ MaxCommands \in Nat
    /\ MaxAborts \in Nat
    /\ MaxIOErrors \in Nat
    /\ Skipped \notin Content
    /\ Snappers \cap Pruners = {}

Path == 1..NumPaths
Row == Path \X Content              \* store.FileEntry
Id == SUBSET Row                    \* ComputeID of the rows
Processes == Snappers \cup Pruners
Line == [no : Nat, id : Id, by : Snappers]     \* store.IndexEntry

VARIABLES
    objects,    \* blobs in .undo/objects
    manifests,  \* ids with a file in .undo/snapshots
    timeline,   \* lines of timeline.log, numbered in file order
    appended,   \* number of the last line ever appended
    torn,       \* timeline.log ends in an incomplete line
    logFile,    \* which file is timeline.log: a rewrite renames a new one
    pc,         \* where each process is in its command
    cursor,     \* snapper: the path the walk looks at next
    rows,       \* snapper: the files captured so far, then the snapshot
    opened,     \* snapper: the logFile its append has open
    keep,       \* pruner: the ids the policy keeps
    kept,       \* pruner: the lines GC will write back
    doomed,     \* pruner: the globbed manifests still to remove
    unswept,    \* pruner: the blob keys the sweep has not come to
    commands, aborts, ioErrors      \* counters of the bounds

disk == <<objects, manifests, timeline, appended, torn, logFile>>
snapping == <<cursor, rows, opened>>
pruning == <<keep, kept, doomed, unswept>>
counters == <<commands, aborts, ioErrors>>
vars == <<disk, pc, snapping, pruning, counters>>

-----------------------------------------------------------------------------
(* What can be read off the directory. *)

Refs(id) == {r[2] : r \in id}
IdsOf(lines) == {l.id : l \in lines}
Listed == IdsOf(timeline)
Newest(lines) == {l \in lines : \A m \in lines : m.no <= l.no}
NewestIds == IdsOf(Newest(timeline))

\* ReadSnapshot finds the id and GetBlob finds all it refers to.
Stored(id) == id \in manifests /\ Refs(id) \subseteq objects
Saved(id) == id \in Listed /\ Stored(id)
Readable == ~torn
Restorable(id) == Readable /\ Saved(id)

Active(p) == pc[p] # "idle"
Decided(g) == pc[g] \notin {"idle", "plan"}
At(p, steps) == pc[p] \in steps

Init ==
    /\ objects = {} /\ manifests = {} /\ timeline = {}
    /\ appended = 0 /\ torn = FALSE /\ logFile = 0
    /\ pc = [p \in Processes |-> "idle"]
    /\ cursor = [s \in Snappers |-> 1]
    /\ rows = [s \in Snappers |-> {}]
    /\ opened = [s \in Snappers |-> 0]
    /\ keep = [g \in Pruners |-> {}]
    /\ kept = [g \in Pruners |-> {}]
    /\ doomed = [g \in Pruners |-> {}]
    /\ unswept = [g \in Pruners |-> {}]
    /\ commands = 0 /\ aborts = 0 /\ ioErrors = 0

Goto(p, step) == pc' = [pc EXCEPT ![p] = step]

\* The process is gone, or back in its caller, and forgets its locals.
EndSnap(s) ==
    /\ Goto(s, "idle")
    /\ cursor' = [cursor EXCEPT ![s] = 1]
    /\ rows' = [rows EXCEPT ![s] = {}]
    /\ opened' = [opened EXCEPT ![s] = 0]

EndPrune(g) ==
    /\ Goto(g, "idle")
    /\ keep' = [keep EXCEPT ![g] = {}]
    /\ kept' = [kept EXCEPT ![g] = {}]
    /\ doomed' = [doomed EXCEPT ![g] = {}]
    /\ unswept' = [unswept EXCEPT ![g] = {}]

-----------------------------------------------------------------------------
(* snapshot.Create *)

StartSnap(s) ==
    /\ pc[s] = "idle"
    /\ commands < MaxCommands
    /\ commands' = commands + 1
    /\ Goto(s, "walk")
    /\ UNCHANGED <<disk, snapping, pruning, aborts, ioErrors>>

\* Wrong variant: the walk does not stop after the last path.
Visit_endless(s, found) ==
    /\ pc[s] = "walk"
    /\ cursor' = [cursor EXCEPT ![s] = @ + 1]
    /\ UNCHANGED <<disk, pc, rows, opened, pruning, counters>>

\* One file of the walk.  Reading the file, the stat that finds the blob there
\* and the rename that puts it there are one step: the bytes are in memory, and
\* a step of another process in between is as good as one before or after.
Visit(s, found) ==
    /\ pc[s] = "walk"
    /\ cursor[s] \in Path
    /\ cursor' = [cursor EXCEPT ![s] = @ + 1]
    /\ IF found \in Content
       THEN /\ objects' = objects \cup {found}
            /\ rows' = [rows EXCEPT ![s] = @ \cup {<<cursor[s], found>>}]
       ELSE UNCHANGED <<objects, rows>>
    /\ UNCHANGED <<manifests, timeline, appended, torn, logFile, pc, opened,
                   pruning, counters>>

\* Create compares the id with the last line's; an unreadable timeline counts
\* as an empty one.
Compare(s) ==
    /\ pc[s] = "walk"
    /\ cursor[s] \notin Path
    /\ Goto(s, IF Readable /\ rows[s] \in NewestIds THEN "exists" ELSE "stat")
    /\ UNCHANGED <<disk, snapping, pruning, counters>>

StatManifest(s) ==
    /\ pc[s] = "stat"
    /\ Goto(s, IF rows[s] \in manifests THEN "exists" ELSE "manifest")
    /\ UNCHANGED <<disk, snapping, pruning, counters>>

WriteManifest(s) ==
    /\ pc[s] = "manifest"
    /\ manifests' = manifests \cup {rows[s]}
    /\ Goto(s, "open")
    /\ UNCHANGED <<objects, timeline, appended, torn, logFile, snapping,
                   pruning, counters>>

OpenTimeline(s) ==
    /\ pc[s] = "open"
    /\ opened' = [opened EXCEPT ![s] = logFile]
    /\ Goto(s, "append")
    /\ UNCHANGED <<disk, cursor, rows, pruning, counters>>

\* A line appended to a file that a rewrite has replaced is lost with it.  So
\* is one that continues an incomplete line: nothing can read it, and the
\* rewrite that repairs the file does not have it.
AppendLine(s) ==
    /\ pc[s] = "append"
    /\ IF opened[s] = logFile /\ Readable
       THEN /\ timeline' = timeline \cup
                    {[no |-> appended + 1, id |-> rows[s], by |-> s]}
            /\ appended' = appended + 1
       ELSE UNCHANGED <<timeline, appended>>
    /\ Goto(s, "created")
    /\ UNCHANGED <<objects, manifests, torn, logFile, snapping, pruning,
                   counters>>

\* Only a part of the line reaches the file: a full disk, a crash or a power
\* cut during the write.  The command fails or is gone.
TearLine(s) ==
    /\ pc[s] = "append"
    /\ ioErrors < MaxIOErrors
    /\ ioErrors' = ioErrors + 1
    /\ torn' = (torn \/ opened[s] = logFile)
    /\ EndSnap(s)
    /\ UNCHANGED <<objects, manifests, timeline, appended, logFile, pruning,
                   commands, aborts>>

Return(s) ==
    /\ At(s, {"created", "exists"})
    /\ EndSnap(s)
    /\ UNCHANGED <<disk, pruning, counters>>

\* A crash, or an error that Create hands to its caller, at any step.
AbortSnap(s) ==
    /\ Active(s)
    /\ aborts < MaxAborts
    /\ aborts' = aborts + 1
    /\ EndSnap(s)
    /\ UNCHANGED <<disk, pruning, commands, ioErrors>>

-----------------------------------------------------------------------------
(* prune.Run and Store.GC *)

\* `ua prune` plans once for its preview and stops when nothing would go: an
\* empty timeline, or only the newest snapshot on it.  Then it asks for consent.
StartPrune(g) ==
    /\ pc[g] = "idle"
    /\ commands < MaxCommands
    /\ Readable
    /\ Listed \ NewestIds # {}
    /\ commands' = commands + 1
    /\ Goto(g, "plan")
    /\ UNCHANGED <<disk, snapping, pruning, aborts, ioErrors>>

\* Wrong variant: the plan does not always keep the newest snapshot.
PlanKeep_any(g, ids) ==
    /\ pc[g] = "plan"
    /\ Readable
    /\ ids \subseteq Listed
    /\ keep' = [keep EXCEPT ![g] = ids]
    /\ Goto(g, "collect")
    /\ UNCHANGED <<disk, snapping, kept, doomed, unswept, counters>>

\* Run reads the timeline anew and asks Plan for the ids to keep.  What Plan
\* returns is the business of module Prune; here it is any set of listed ids
\* with the newest one.
PlanKeep(g, ids) ==
    /\ pc[g] = "plan"
    /\ Readable
    /\ ids \subseteq Listed
    /\ NewestIds \subseteq ids
    /\ keep' = [keep EXCEPT ![g] = ids]
    /\ Goto(g, "collect")
    /\ UNCHANGED <<disk, snapping, kept, doomed, unswept, counters>>

\* Run cannot read the timeline.
PlanFails(g) ==
    /\ pc[g] = "plan"
    /\ ~Readable
    /\ EndPrune(g)
    /\ UNCHANGED <<disk, snapping, counters>>

\* GC reads the timeline again, and the manifest of every line it keeps.
Collect(g) ==
    /\ pc[g] = "collect"
    /\ LET lines == {l \in timeline : l.id \in keep[g]}
       IN  IF Readable /\ IdsOf(lines) \subseteq manifests
           THEN /\ kept' = [kept EXCEPT ![g] = lines]
                /\ Goto(g, "glob")
                /\ UNCHANGED <<keep, doomed, unswept>>
           ELSE EndPrune(g)
    /\ UNCHANGED <<disk, snapping, counters>>

\* Wrong variants: GC removes the manifests of the lines it drops, and with
\* them no orphan; GC spares the newest manifest only.
GlobManifests_listed(g) ==
    /\ pc[g] = "glob"
    /\ doomed' = [doomed EXCEPT ![g] = (manifests \cap Listed) \ keep[g]]
    /\ Goto(g, "unlink")
    /\ UNCHANGED <<disk, snapping, keep, kept, unswept, counters>>

GlobManifests_newest(g) ==
    /\ pc[g] = "glob"
    /\ doomed' = [doomed EXCEPT ![g] = manifests \ NewestIds]
    /\ Goto(g, "unlink")
    /\ UNCHANGED <<disk, snapping, keep, kept, unswept, counters>>

GlobManifests(g) ==
    /\ pc[g] = "glob"
    /\ doomed' = [doomed EXCEPT ![g] = manifests \ keep[g]]
    /\ Goto(g, "unlink")
    /\ UNCHANGED <<disk, snapping, keep, kept, unswept, counters>>

RemoveManifest(g, id) ==
    /\ pc[g] = "unlink"
    /\ id \in doomed[g]
    /\ manifests' = manifests \ {id}
    /\ doomed' = [doomed EXCEPT ![g] = @ \ {id}]
    /\ UNCHANGED <<objects, timeline, appended, torn, logFile, pc, snapping,
                   keep, kept, unswept, counters>>

\* os.Remove fails and GC goes on with the next manifest.
LeaveManifest(g, id) ==
    /\ pc[g] = "unlink"
    /\ id \in doomed[g]
    /\ ioErrors < MaxIOErrors
    /\ ioErrors' = ioErrors + 1
    /\ doomed' = [doomed EXCEPT ![g] = @ \ {id}]
    /\ UNCHANGED <<disk, pc, snapping, keep, kept, unswept, commands, aborts>>

\* Wrong variant: the timeline is rewritten before all manifests are gone.
Rewrite_early(g) ==
    /\ pc[g] = "unlink"
    /\ timeline' = kept[g]
    /\ torn' = FALSE
    /\ logFile' = logFile + 1
    /\ doomed' = [doomed EXCEPT ![g] = {}]
    /\ unswept' = [unswept EXCEPT ![g] = Content]
    /\ Goto(g, "sweep")
    /\ UNCHANGED <<objects, manifests, appended, snapping, keep, kept,
                   counters>>

\* The kept lines are renamed over timeline.log, whatever it holds by now.
Rewrite(g) ==
    /\ pc[g] = "unlink"
    /\ doomed[g] = {}
    /\ timeline' = kept[g]
    /\ torn' = FALSE
    /\ logFile' = logFile + 1
    /\ unswept' = [unswept EXCEPT ![g] = Content]
    /\ Goto(g, "sweep")
    /\ UNCHANGED <<objects, manifests, appended, snapping, keep, kept, doomed,
                   counters>>

\* Wrong variant: only the newest snapshot's references are collected.
Sweep_newest(g, c) ==
    /\ pc[g] = "sweep"
    /\ c \in unswept[g]
    /\ unswept' = [unswept EXCEPT ![g] = @ \ {c}]
    /\ objects' = IF \E id \in NewestIds : c \in Refs(id)
                  THEN objects ELSE objects \ {c}
    /\ UNCHANGED <<manifests, timeline, appended, torn, logFile, pc, snapping,
                   keep, kept, doomed, counters>>

\* The sweep comes to each blob once, in the order of the hashes; one that is
\* put there behind it is as one put there after its turn.
Sweep(g, c) ==
    /\ pc[g] = "sweep"
    /\ c \in unswept[g]
    /\ unswept' = [unswept EXCEPT ![g] = @ \ {c}]
    /\ IF \E id \in IdsOf(kept[g]) : c \in Refs(id)
       THEN UNCHANGED objects
       ELSE objects' = objects \ {c}
    /\ UNCHANGED <<manifests, timeline, appended, torn, logFile, pc, snapping,
                   keep, kept, doomed, counters>>

\* os.Remove fails and the sweep goes on with the next blob.
LeaveBlob(g, c) ==
    /\ pc[g] = "sweep"
    /\ c \in unswept[g]
    /\ ioErrors < MaxIOErrors
    /\ ioErrors' = ioErrors + 1
    /\ unswept' = [unswept EXCEPT ![g] = @ \ {c}]
    /\ UNCHANGED <<disk, pc, snapping, keep, kept, doomed, commands, aborts>>

FinishPrune(g) ==
    /\ pc[g] = "sweep"
    /\ unswept[g] = {}
    /\ EndPrune(g)
    /\ UNCHANGED <<disk, snapping, counters>>

AbortPrune(g) ==
    /\ Active(g)
    /\ aborts < MaxAborts
    /\ aborts' = aborts + 1
    /\ EndPrune(g)
    /\ UNCHANGED <<disk, snapping, commands, ioErrors>>

-----------------------------------------------------------------------------
SnapStep(s) ==
    \/ StartSnap(s)
    \/ \E found \in Content \cup {Skipped} : Visit(s, found)
    \/ Compare(s)
    \/ StatManifest(s)
    \/ WriteManifest(s)
    \/ OpenTimeline(s)
    \/ AppendLine(s)
    \/ TearLine(s)
    \/ Return(s)
    \/ AbortSnap(s)

PruneStep(g) ==
    \/ StartPrune(g)
    \/ \E ids \in SUBSET Listed : PlanKeep(g, ids)
    \/ PlanFails(g)
    \/ Collect(g)
    \/ GlobManifests(g)
    \/ \E id \in doomed[g] : RemoveManifest(g, id) \/ LeaveManifest(g, id)
    \/ Rewrite(g)
    \/ \E c \in unswept[g] : Sweep(g, c) \/ LeaveBlob(g, c)
    \/ FinishPrune(g)
    \/ AbortPrune(g)

Next == (\E s \in Snappers : SnapStep(s)) \/ (\E g \in Pruners : PruneStep(g))

Spec == Init /\ [][Next]_vars

\* No command runs while a prune does: what the user gets who stops the daemon
\* before pruning.  Nothing in the code sees to it.
Exclusive ==
    \A g \in Pruners : Active(g) => \A p \in Processes \ {g} : ~Active(p)

ExclusiveSpec == Init /\ [][Next /\ Exclusive']_vars

-----------------------------------------------------------------------------
\* Every variable has its type.
TypeOK ==
    /\ objects \subseteq Content
    /\ manifests \subseteq Id
    /\ timeline \subseteq Line
    /\ appended \in Nat /\ torn \in BOOLEAN /\ logFile \in Nat
    /\ pc \in [Processes -> {"idle", "walk", "stat", "manifest", "open",
                             "append", "created", "exists", "plan", "collect",
                             "glob", "unlink", "sweep"}]
    /\ cursor \in [Snappers -> 1..(NumPaths + 1)]
    /\ rows \in [Snappers -> Id]
    /\ opened \in [Snappers -> Nat]
    /\ keep \in [Pruners -> SUBSET Id]
    /\ kept \in [Pruners -> SUBSET Line]
    /\ doomed \in [Pruners -> SUBSET Id]
    /\ unswept \in [Pruners -> SUBSET Content]
    /\ commands \in Nat /\ aborts \in Nat /\ ioErrors \in Nat

\* A snapshot that is listed and has its manifest has all its blobs: no crash
\* and no prune takes the contents from under one (gc.go, the order of the
\* sweep after the collection of references; snapshot.go, blobs before the
\* manifest).  Holds while no command overlaps a prune.
ListedIntact == \A id \in Listed \cap manifests : Refs(id) \subseteq objects

\* The newest snapshot can always be gone back to, also after a crash at any
\* step of a snapshot or a prune (prune.go: "it always keeps the most recent
\* snapshot"), once the timeline can be read.  Holds while no command overlaps
\* a prune.
NewestStored == \A id \in NewestIds : Stored(id)

\* A prune that comes to its end has reclaimed every blob and manifest no
\* surviving snapshot needs, the leftovers of crashed commands with them; only
\* what could not be removed is left behind.  Holds while no command overlaps a
\* prune.
PruneExact ==
    \A g \in Pruners :
        pc[g] = "sweep" /\ unswept[g] = {} =>
            /\ Listed = keep[g]
            /\ Listed \subseteq manifests
            /\ ioErrors = 0 =>
                /\ manifests = Listed
                /\ objects = UNION {Refs(id) : id \in Listed}

\* Without crashes, errors and overlapping prunes, the id a command prints can
\* be restored, at the latest when a concurrent command that is recording the
\* same tree has added its line.
ReturnMeansSaved ==
    aborts = 0 /\ ioErrors = 0 =>
        \A s \in Snappers :
            At(s, {"created", "exists"}) =>
                \/ Restorable(rows[s])
                \/ /\ Stored(rows[s])
                   /\ \E q \in Snappers :
                        At(q, {"open", "append"}) /\ rows[q] = rows[s]

\* Only failures stand in a prune's way (gc.go:80): as long as there are none,
\* the timeline can be read when a prune collects, and every line has its
\* manifest, those with it that an earlier prune has written back.  Holds while
\* no command overlaps a prune.
PrunesGoThrough ==
    aborts = 0 /\ ioErrors = 0 =>
        \A g \in Pruners :
            pc[g] = "collect" => Readable /\ Listed \subseteq manifests

\* Whatever else is going on, a step never takes a saved snapshot away that no
\* running prune has decided to drop.  Holds with at most one prune at a time.
KeptSurvive ==
    [][\A id \in Id :
          Saved(id) /\ (\A g \in Pruners : Decided(g) => id \in keep[g])
              => Saved(id)']_vars

-----------------------------------------------------------------------------
(* What the documentation says and the code does not do. *)

\* gc.go:61-63 of GC: "It is safe to run at any time".
SafeAtAnyTime == ListedIntact

\* SECURITY.md:38-39: "An interrupted run can never corrupt existing history."
HistoryStaysReadable == \A id \in Id : Saved(id) => Restorable(id)
=============================================================================
