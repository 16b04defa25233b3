------------------------------- MODULE Restore -------------------------------
(***************************************************************************)
(* Restores (internal/restore, internal/cli/restore.go) on top of the      *)
(* store: the safety snapshot, the files written one by one, the clean-up. *)
(* A restore runs while the user edits the folder and other processes      *)
(* snapshot it.                                                            *)
(*                                                                         *)
(* The working tree, left open in module Store, is a variable here, and a  *)
(* walk finds what the tree holds.                                         *)
(***************************************************************************)
EXTENDS Store

CONSTANTS
    Absent,       \* no regular file at a path
    Restorers,    \* the snappers that run `ua restore`
    Oversize,     \* contents over max_file_size: a walk passes them over
    IgnoreRules,  \* the sets of paths a matcher may ignore
    MaxEdits      \* bound: edits of the user

ASSUME RestoreAssumption ==
    /\ Absent \notin Content
    /\ Restorers \subseteq Snappers
    /\ Oversize \subseteq Content
    /\ IgnoreRules \subseteq SUBSET Path
    /\ MaxEdits \in Nat

VARIABLES
    tree,       \* what the folder holds at each path
    ignored,    \* the paths the process's matcher ignores
    rpc,        \* where each restore is
    target,     \* the snapshot restored, as read when the restore began
    left,       \* rows still to write
    cleaning,   \* --clean
    mode,       \* the whole tree, or files named on the command line
    unclean,    \* paths the clean-up walk has not come to
    safety,     \* the id of the safety snapshot: at most one
    edits,      \* counter of the bound
    \* What the properties compare with; the program has none of these.
    origin,     \* what the safety walk found at each path
    touched,    \* paths somebody else changed since
    goal        \* <<path, content>> pairs that undoing a restore brings back

restoring == <<rpc, target, left, cleaning, mode, unclean, safety>>
history == <<origin, touched, goal>>
rvars == <<vars, tree, ignored, restoring, edits, history>>

RInit ==
    /\ Init
    /\ tree \in [Path -> Content \cup {Absent}]
    /\ ignored = [s \in Snappers |-> {}]
    /\ rpc = [r \in Restorers |-> "idle"]
    /\ target = [r \in Restorers |-> {}]
    /\ left = [r \in Restorers |-> {}]
    /\ cleaning = [r \in Restorers |-> FALSE]
    /\ mode = [r \in Restorers |-> "tree"]
    /\ unclean = [r \in Restorers |-> {}]
    /\ safety = [r \in Restorers |-> {}]
    /\ edits = 0
    /\ origin = [r \in Restorers |-> tree]
    /\ touched = [r \in Restorers |-> {}]
    /\ goal = [r \in Restorers |-> {}]

\* The file at p becomes c; every restore but those of `by` sees it as the
\* doing of somebody else.
Put(p, c, by) ==
    /\ tree' = [tree EXCEPT ![p] = c]
    /\ touched' = [r \in Restorers |->
                        IF r \in by THEN touched[r] ELSE touched[r] \cup {p}]
    /\ goal' = [r \in Restorers |->
                    IF r \in by THEN goal[r] ELSE {x \in goal[r] : x[1] # p}]

Edit(p, c) ==
    /\ edits < MaxEdits
    /\ tree[p] # c
    /\ edits' = edits + 1
    /\ Put(p, c, {})
    /\ UNCHANGED <<vars, ignored, restoring, origin>>

-----------------------------------------------------------------------------
(* Walks of snapshot.Create over the tree *)

\* The matcher is built when the command starts, from the ignore files of then.
BeginSnap(s, rule) ==
    /\ StartSnap(s)
    /\ ignored' = [ignored EXCEPT ![s] = rule]

Tracks(s, p) == p \notin ignored[s]
Found(s, p) ==
    IF tree[p] \in Content \ Oversize /\ Tracks(s, p) THEN tree[p] ELSE Skipped

See(s) ==
    /\ cursor[s] \in Path
    /\ Visit(s, Found(s, cursor[s]))
    /\ IF s \in Restorers
       THEN /\ origin' = [origin EXCEPT ![s][cursor[s]] = tree[cursor[s]]]
            /\ touched' = [touched EXCEPT ![s] = @ \ {cursor[s]}]
       ELSE UNCHANGED <<origin, touched>>
    /\ UNCHANGED <<tree, ignored, restoring, edits, goal>>

\* Steps of Create that have nothing to do with the tree.
Record(s) ==
    /\ \/ Compare(s) \/ StatManifest(s) \/ WriteManifest(s)
       \/ OpenTimeline(s) \/ AppendLine(s)
    /\ UNCHANGED <<tree, ignored, restoring, edits, history>>

\* A snapshot of its own: `ua snapshot`, the daemon.
SnapshotStep(s) ==
    /\ s \notin Restorers
    /\ \/ \E rule \in IgnoreRules : BeginSnap(s, rule)
       \/ (Return(s) \/ AbortSnap(s) \/ TearLine(s)) /\ UNCHANGED ignored
    /\ UNCHANGED <<tree, restoring, edits, history>>

-----------------------------------------------------------------------------
(* restore.Snapshot and restore.File *)

\* The id is resolved and its manifest read; with safety the snapshot of the
\* current state begins.
Begin(r, id, rows0, clean, how, rule, safe) ==
    /\ rpc[r] = "idle"
    /\ Readable /\ id \in Listed \cap manifests
    /\ target' = [target EXCEPT ![r] = id]
    /\ left' = [left EXCEPT ![r] = rows0]
    /\ cleaning' = [cleaning EXCEPT ![r] = clean]
    /\ mode' = [mode EXCEPT ![r] = how]
    /\ safety' = [safety EXCEPT ![r] = {}]
    /\ touched' = [touched EXCEPT ![r] = {}]
    /\ goal' = [goal EXCEPT ![r] =
            IF id \in safety[r]
            THEN {<<p, origin[r][p]>> : p \in
                    {q \in Path \ touched[r] :
                        Tracks(r, q) /\ origin[r][q] \notin Oversize}}
            ELSE {}]
    /\ IF safe
       THEN /\ BeginSnap(r, rule)
            /\ rpc' = [rpc EXCEPT ![r] = "safety"]
       ELSE /\ commands < MaxCommands
            /\ commands' = commands + 1
            /\ ignored' = [ignored EXCEPT ![r] = rule]
            /\ rpc' = [rpc EXCEPT ![r] = "write"]
            /\ UNCHANGED <<disk, pc, snapping, pruning, aborts, ioErrors>>
    /\ UNCHANGED <<tree, unclean, edits, origin>>

RestoreTree(r, id, clean, rule, safe) ==
    Begin(r, id, id, clean, "tree", rule, safe)

\* Named paths, each in the snapshot: the first takes the safety snapshot.
\* --clean is for the whole tree only.
RestoreFiles(r, id, files, rule, safe) ==
    /\ files # {}
    /\ Begin(r, id, files, FALSE, "files", rule, safe)

\* Wrong variant: an error of the safety snapshot is not looked at.
SafetyDone_anyhow(r) ==
    /\ rpc[r] = "safety"
    /\ Active(r) /\ EndSnap(r)
    /\ safety' = [safety EXCEPT ![r] = {rows[r]}]
    /\ rpc' = [rpc EXCEPT ![r] = "write"]
    /\ UNCHANGED <<disk, pruning, counters, tree, ignored, target, left,
                   cleaning, mode, unclean, edits, history>>

SafetyDone(r) ==
    /\ rpc[r] = "safety"
    /\ Return(r)
    /\ safety' = [safety EXCEPT ![r] = {rows[r]}]
    /\ rpc' = [rpc EXCEPT ![r] = "write"]
    /\ UNCHANGED <<tree, ignored, target, left, cleaning, mode, unclean,
                   edits, history>>

EndRestore(r) ==
    /\ rpc' = [rpc EXCEPT ![r] = "idle"]
    /\ left' = [left EXCEPT ![r] = {}]
    /\ unclean' = [unclean EXCEPT ![r] = {}]
    /\ UNCHANGED <<tree, target, cleaning, mode, safety, edits,
                   ignored, history>>

\* "safety snapshot failed (nothing was changed)"
SafetyFails(r) ==
    /\ rpc[r] = "safety"
    /\ AbortSnap(r) \/ TearLine(r)
    /\ EndRestore(r)

\* The rows of a whole tree are written in the order of the manifest, named
\* paths in any order.
Turn(r, row) ==
    /\ row \in left[r]
    /\ mode[r] = "tree" => \A x \in left[r] : row[1] <= x[1]

\* Wrong variants: the file is written in place and a crash cuts it short; a
\* file that is there is left alone.
WriteFile_inPlace(r, row) ==
    /\ rpc[r] = "write"
    /\ Turn(r, row)
    /\ Put(row[1], Skipped, {r})
    /\ left' = [left EXCEPT ![r] = {}]
    /\ UNCHANGED <<vars, ignored, rpc, target, cleaning, mode, unclean, safety,
                   edits, origin>>

WriteFile_missing(r, row) ==
    /\ rpc[r] = "write"
    /\ Turn(r, row)
    /\ row[2] \in objects
    /\ Put(row[1], IF tree[row[1]] = Absent THEN row[2] ELSE tree[row[1]], {r})
    /\ left' = [left EXCEPT ![r] = @ \ {row}]
    /\ UNCHANGED <<vars, ignored, rpc, target, cleaning, mode, unclean, safety,
                   edits, origin>>

\* The matcher has no say in it.
WriteFile(r, row) ==
    /\ rpc[r] = "write"
    /\ Turn(r, row)
    /\ row[2] \in objects
    /\ Put(row[1], row[2], {r})
    /\ left' = [left EXCEPT ![r] = @ \ {row}]
    /\ UNCHANGED <<vars, ignored, rpc, target, cleaning, mode, unclean, safety,
                   edits, origin>>

WritesDone(r) ==
    /\ rpc[r] = "write"
    /\ left[r] = {}
    /\ rpc' = [rpc EXCEPT ![r] = IF cleaning[r] THEN "clean" ELSE "done"]
    /\ unclean' = [unclean EXCEPT ![r] = IF cleaning[r] THEN Path ELSE {}]
    /\ UNCHANGED <<vars, tree, ignored, target, left, cleaning, mode, safety,
                   edits, history>>

\* Wrong variant: the wanted files are looked up by content.
Extraneous_content(r, p) ==
    /\ tree[p] \in Content
    /\ Tracks(r, p)
    /\ \A row \in target[r] : row[2] # tree[p]

\* cleanExtraneous removes what the matcher tracks, of whatever size.
Extraneous(r, p) ==
    /\ tree[p] \in Content
    /\ Tracks(r, p)
    /\ \A row \in target[r] : row[1] # p

CleanUp(r, p) ==
    /\ rpc[r] = "clean"
    /\ p \in unclean[r] /\ \A q \in unclean[r] : p <= q
    /\ unclean' = [unclean EXCEPT ![r] = @ \ {p}]
    /\ IF Extraneous(r, p)
       THEN Put(p, Absent, {r})
       ELSE UNCHANGED <<tree, touched, goal>>
    /\ UNCHANGED <<vars, ignored, rpc, target, left, cleaning, mode, safety,
                   edits, origin>>

\* os.Remove fails and the clean-up goes on with the next file.
LeaveFile(r, p) ==
    /\ rpc[r] = "clean"
    /\ p \in unclean[r] /\ \A q \in unclean[r] : p <= q
    /\ Extraneous(r, p)
    /\ ioErrors < MaxIOErrors
    /\ ioErrors' = ioErrors + 1
    /\ unclean' = [unclean EXCEPT ![r] = @ \ {p}]
    /\ UNCHANGED <<disk, pc, snapping, pruning, commands, aborts, tree, ignored,
                   rpc, target, left, cleaning, mode, safety, edits,
                   history>>

CleanDone(r) ==
    /\ rpc[r] = "clean"
    /\ unclean[r] = {}
    /\ rpc' = [rpc EXCEPT ![r] = "done"]
    /\ UNCHANGED <<vars, tree, ignored, target, left, cleaning, mode, unclean,
                   safety, edits, history>>

Report(r) ==
    /\ rpc[r] = "done"
    /\ EndRestore(r)
    /\ UNCHANGED vars

\* A crash, a blob that is missing, a directory in the way of a file, a
\* permission: what is written stays written.
AbortRestore(r) ==
    /\ rpc[r] \in {"write", "clean"}
    /\ aborts < MaxAborts
    /\ aborts' = aborts + 1
    /\ EndRestore(r)
    /\ UNCHANGED <<disk, pc, snapping, pruning, commands, ioErrors>>

RestoreStep(r) ==
    \/ \E id \in Listed \cap manifests, rule \in IgnoreRules, safe \in BOOLEAN :
        \/ \E clean \in BOOLEAN : RestoreTree(r, id, clean, rule, safe)
        \/ \E files \in SUBSET id : RestoreFiles(r, id, files, rule, safe)
    \/ SafetyDone(r)
    \/ SafetyFails(r)
    \/ \E row \in left[r] : WriteFile(r, row)
    \/ WritesDone(r)
    \/ \E p \in unclean[r] : CleanUp(r, p) \/ LeaveFile(r, p)
    \/ CleanDone(r)
    \/ Report(r)
    \/ AbortRestore(r)

RNext ==
    \/ \E p \in Path, c \in Content \cup {Absent} : Edit(p, c)
    \/ \E s \in Snappers : See(s) \/ Record(s) \/ SnapshotStep(s)
    \/ \E r \in Restorers : RestoreStep(r)

RSpec == RInit /\ [][RNext]_rvars

-----------------------------------------------------------------------------
\* Every variable has its type.
RTypeOK ==
    /\ TypeOK
    /\ tree \in [Path -> Content \cup {Absent}]
    /\ ignored \in [Snappers -> SUBSET Path]
    /\ rpc \in [Restorers -> {"idle", "safety", "write", "clean", "done"}]
    /\ target \in [Restorers -> Id]
    /\ left \in [Restorers -> Id]
    /\ cleaning \in [Restorers -> BOOLEAN]
    /\ mode \in [Restorers -> {"tree", "files"}]
    /\ unclean \in [Restorers -> SUBSET Path]
    /\ safety \in [Restorers -> SUBSET Id]
    /\ edits \in Nat
    /\ origin \in [Restorers -> [Path -> Content \cup {Absent}]]
    /\ touched \in [Restorers -> SUBSET Path]
    /\ goal \in [Restorers -> SUBSET (Path \X (Content \cup {Absent}))]

\* A write or a removal of the restore's own changes what is at p.
Overwrites(r, p) ==
    /\ tree[p] # tree'[p]
    /\ left'[r] # left[r] \/ unclean'[r] # unclean[r]

\* What a restore with a safety snapshot writes over or removes, and the walk
\* of that snapshot tracks, is in the snapshot, and the snapshot is complete on
\* disk and listed or about to be (restore.go: "a mistaken restore is never
\* destructive").  Excepted are files somebody changed since the walk was
\* there, and crashes of snapshots.
OverwrittenIsSaved ==
    [][\A r \in Restorers : \A id \in safety[r], p \in Path :
          /\ Overwrites(r, p)
          /\ aborts = 0 /\ ioErrors = 0
          /\ p \notin touched[r] /\ Tracks(r, p)
          /\ tree[p] \in Content \ Oversize
          => /\ <<p, tree[p]>> \in id
             /\ Stored(id)
             /\ \/ id \in Listed
                \/ \E q \in Snappers : At(q, {"open", "append"}) /\ rows[q] = id
      ]_rvars

\* A restore that comes to its end has made every path it tracks what the
\* snapshot says; with --clean also by absence.  Excepted are paths somebody
\* changed since it began.
TreeMatches ==
    \A r \in Restorers :
        rpc[r] = "done" /\ mode[r] = "tree" /\ ioErrors = 0 =>
            \A p \in Path \ touched[r] :
                /\ \A c \in Content : <<p, c>> \in target[r] => tree[p] = c
                /\ cleaning[r] /\ Tracks(r, p)
                    /\ (\A c \in Content : <<p, c>> \notin target[r])
                   => tree[p] = Absent

Undone(r) ==
    \A x \in goal[r] : tree[x[1]] = x[2] \/ (x[2] = Absent /\ ~Tracks(r, x[1]))

\* A restore, finished or cut short, is undone by a restore of its safety id
\* with --clean: the tree is as it was, but for what nothing tracks and what
\* somebody changed since.  Without --clean, as in the command that
\* cli/restore.go:91 prints, files the restore brought would stay.
CleanUndoReturns ==
    \A r \in Restorers :
        rpc[r] = "done" /\ mode[r] = "tree" /\ cleaning[r] /\ ioErrors = 0
            => Undone(r)

-----------------------------------------------------------------------------
(* What the documentation says and the code does not do. *)

\* CONTRIBUTING.md:55-56: "Never delete a user's file without a recoverable
\* snapshot of it first."
NeverDeletesUnsaved ==
    [][\A r \in Restorers, p \in Path :
          /\ Overwrites(r, p) /\ safety[r] # {} /\ p \notin touched[r]
          /\ tree[p] \in Content
          => \E id \in Listed : <<p, tree[p]>> \in id]_rvars
=============================================================================
