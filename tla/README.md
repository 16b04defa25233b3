# undo-anything: TLA+ models, checks and proofs

undo-anything (`ua`) keeps the past states of a folder: it snapshots the folder
into a content-addressed store under `.undo/`, on demand or from a watcher that
runs as a daemon, restores any of them, and thins them by a retention policy.
Every command and the daemon is a process of its own; they share the `.undo`
directory and **no lock**. That, crashes between two writes, and a file system
that changes while it is walked are what these modules are about.

Paths below are relative to the repository (`src/` here); `internal/` is its Go
code. `PROJECT.json` maps each definition to the lines it models.

## 1. Inventory

| Component | State it keeps | Operations | What is hard, what makes it correct |
|---|---|---|---|
| **Store** `internal/store` (store, blob, index, types) | `objects/` (blobs by hash), `snapshots/` (a manifest per id), `timeline.log` (a JSON line per snapshot, appended) | Init, PutBlob, GetBlob, WriteSnapshot, Index, Latest, ResolveID, ReadSnapshot | Three kinds of files, written in an order, no lock and no fsync of the whole: a listed snapshot must have its manifest and blobs after any crash; the newest can always be gone back to |
| **Garbage collection** `internal/store/gc.go` | none; rewrites the three above | GC, Usage | Collects references, then removes manifests, rewrites the timeline, sweeps blobs, each step visible to others: exact when it ends, harmless when cut short |
| **Snapshot** `internal/snapshot/snapshot.go` | rows gathered by a walk | Create | The tree changes during the walk; "exists" is decided from a line or a manifest that may go away |
| **Restore** `internal/restore`, `internal/cli/restore.go` | none | Snapshot, File, takeSafety, cleanExtraneous | Writes over the user's files one by one: what is lost must be in the safety snapshot, and going back must be possible from any stop half way |
| **Retention** `internal/prune`, `internal/cli/prune.go` | none | Plan, Run, preview and consent | Plans twice, at two times; sequences of prunes; duplicated ids; boundaries of hours and days |
| **Watcher** `internal/watch`, `internal/cli/watch.go` | watches, `dirty`, the debounce timer | addTree, the select loop, snapshotNow | Non-recursive watches on a moving tree; bounded queue; changes during a snapshot: settled activity must be saved |
| **Ignore matcher** `internal/ignore`, `buildMatcher` | ordered list of patterns | parse, Match | Marks and blanks of a line, the loop over `*`, recursive `**`, exact and ancestor matches, order of rules; the only thing that keeps the store out of its own snapshots |
| **Daemon** `internal/daemon`, `internal/cli/daemon.go` | pidfile, process table | Start, Stop, Status | Check-then-act on the pidfile, stale pids, stop does not wait: one watcher, and the pidfile names it |
| **Timeline browser** `internal/timeline` | entries, cursor, offset, prompt, pane | keys, resize, restore, reload | The history changes under an open list: what is restored is what the prompt named, what the pane says is true, the list follows the cursor |
| **Diff** `internal/snapshot/diff.go` | none | Diff | The changes turn the one tree into the other, and nothing is said twice |
| **Initialisation and configuration** `internal/cli/init.go`, `store.Init`, `internal/config`, `loadConfigured` | `.undo` with its directories and `timeline.log`; config.toml | init, Load, Save, MaxFileSizeBytes | Look-then-create without a lock, kills in between, a user who edits the file: a store is completed, never emptied; limits are what the file says |
| **Service** `internal/daemon/service.go` | unit file | Install, Uninstall | One-shot calls of launchctl or systemctl |
| **Presentation** `internal/cli/{log,status,show,doctor,style,version}`, `humanize`, `buildinfo` | none | formatting | No state |

How they interact:

- `cli` commands call `snapshot.Create`, `restore.*`, `prune.Run` directly;
  the daemon runs `watch.Run`, which calls `snapshot.Create`; `restore` calls
  `snapshot.Create` for its safety snapshot. All of them meet only in `.undo/`.
- `prune.Run` reads the timeline, calls `Plan`, and hands the ids to `Store.GC`,
  which reads the timeline *again*.
- The watcher, the walks of `Create` and the clean-up of a restore ask a matcher
  that each process builds for itself when it starts.
- The browser calls `restore.Snapshot` and reads the timeline again; `show`, `diff`
  and its pane call `snapshot.Diff`.
- Every command but `init` finds the store and loads config.toml when it starts; the
  watcher goes by what it loaded until it ends.
- `daemon start` spawns `ua watch`; `daemon stop` sends it SIGTERM, which
  cancels the context the watcher's loop selects on.

The hazards that follow from this are listed line by line in `PROJECT.json`.

## 2. Modules

| Module | Models | Uses |
|---|---|---|
| `Store` | store, snapshot creation and garbage collection as steps of concurrent processes | |
| `History` | the abstract promise: a set of saved states, one of them newest | |
| `StoreHistory` | `Store` implements `History` (refinement mapping) | `Store`, `History` |
| `Restore` | restores over a working tree, on top of `Store` | `Store` |
| `Prune` | retention policy and the `ua prune` command over time | |
| `Watch` | watcher, fsnotify as environment, the walk of its snapshots | |
| `Ignore` | lines, patterns and the matcher, against their meaning | |
| `Daemon` | pidfile protocol of start, stop and status, process table | |
| `Diff` | the changes between two trees | |
| `Timeline` | the browser over a history that others change | `Diff` |
| `Setup` | init, config.toml and the commands that load it | |
| `StoreProofs` | theorems about `Store`, `StoreHistory` and `Restore` | TLAPS |
| `PruneProofs`, `IgnoreProofs` | theorems about the modules they are named for | `InductionTheorems` |
| `WatchProofs`, `DaemonProofs`, `TimelineProofs`, `SetupProofs` | theorems about the modules they are named for | TLAPS |
| `InductionTheorems` | induction over the naturals, folds and functions defined by recursion, for any model | TLAPS |
| `MC*` | values of the constants for TLC, one `.cfg` per question | |

### Store

One action is one step of one process that another process can see. `pc`,
`cursor`, `rows`, `opened` are the locals of `snapshot.Create` and
`WriteSnapshot`; `keep`, `kept`, `doomed`, `unswept` those of `prune.Run` and
`GC`.

| Action | Code |
|---|---|
| `Visit` | one file of the walk: read, hash, `PutBlob` (snapshot.go) |
| `Compare`, `StatManifest`, `WriteManifest` | compare with the last line, stat of the manifest, its atomic write |
| `OpenTimeline`, `AppendLine`, `TearLine` | `appendIndex`: the open, the single write, a write cut short |
| `StartPrune`, `PlanKeep`, `Collect` | preview, second plan, GC's own read of the timeline and of the kept manifests |
| `GlobManifests`, `RemoveManifest`, `LeaveManifest` | the first loop of GC, with removals that fail |
| `Rewrite`, `Sweep`, `LeaveBlob`, `FinishPrune` | rename of the new timeline, the walk over the objects |
| `AbortSnap`, `AbortPrune` | a crash or a returned error at any step |

Two details matter. `logFile` is the identity of the file behind the name
`timeline.log`: an append into a file that a rewrite has replaced is lost. And
`torn` is an incomplete last line, on which every reader fails (`Index` returns
the error), so that nothing is listed until a collection that had already read
the timeline rewrites it; a *new* prune cannot begin, so the state is in effect
permanent.

A snapshot id is the set of rows, a blob key the content: SHA-256 is taken as
injective. `PlanKeep` keeps any set of ids with the newest one, so what is
shown holds for every retention policy; `Prune` has the policy itself. The
working tree is open: a walk may find anything anywhere.

`Spec` lets everything overlap. `ExclusiveSpec` is `Spec` in which no command
runs while a prune does. Nothing in the code sees to that; it is the condition
under which the strong properties hold, and the run `store_anytime` shows that
they do not without it.

### Restore

Adds `tree`, the folder, with one action per step of a restore: `Begin` (resolve
and read the manifest), the safety snapshot as the store's own steps, `WriteFile`
per row in manifest order, the clean-up walk, and the user's `Edit`s and other
processes' snapshots in between. `ignored` is the matcher each process built.
`origin`, `touched` and `goal` are history variables that say what the folder
held and what undoing should bring back; no action of the code reads them.

### Prune

`Plan` is the two loops of `prune.Plan` as folds over the lines, newest first,
with `time.Duration` as an integer that wraps around (`Duration`). `Preview`,
`Confirm` and `Decline` are the command; the collection, being `Store`'s subject, is
one step, and `Survivors` its loop over the lines. `Retained` states the policy of
docs/architecture.md:111-117 without a loop. `InRange` are the retentions whose hours
fit a `time.Duration`; for others the documentation promises nothing, and only what
the preview announces is asked of them.

### Watch

`Run` is the goroutine: `addTree` (a watch, then the entries of the directory, as
two steps), the select loop, the timer, the snapshot's walk directory by
directory. The environment writes, makes, moves in and removes directories at
every moment. `missed` and `deaf` record what *nothing reported*: changes before
the first watch, behind a refused watch, or dropped by a queue full of ignored
events.

The walks ask the matcher about a directory as a directory (`Match(rel, true)`), the
loop asks about the path of every event as a file's (watch.go:102). `Muted` are the
directories for which only the second says ignored, such as the top-level ones under
`*`, `!*/`, `!*.txt`; `MutedByReinclusion` of `Ignore` says how they come about. The
loop watches what such a directory brings (`Receive`, `AddWatch`), and then drops the
event (`Counts`, `Added`). `dropped` records what came or went that way, `Arriving`
what changes in such a directory while its creation is still being dealt with. The
properties except `missed`, `deaf` and `dropped` and nothing else; without the
exception of `dropped` they do not hold (section 5). `Above` and `Below` are the
closures of `Parent`, stated without recursion so that they can be reasoned about.

### Ignore

A line is a sequence of characters, a path the sequence of its names. `Parse` is
`parse` with its trimming and its marks in the order of the code, and gives a sequence
of one pattern or none, `MatchSegment` the loop of `matchSegment` over its
`Positions`, where it is in the two texts and what it goes back to, `MatchSegs` the
recursion over `**` as a function on positions, `Matches` the exact
and ancestor matches, `Match` the last-match-wins loop. Beside each stands what it
should compute, without an algorithm: `Says` for lines, `Globs` for segments,
`Covers` and `Excludes` for paths.

### Daemon

`process` is the process table, `pidfile` what `daemon.pid` holds, `file` which file
has that name (a write to a file that has been removed is lost). Each command is a
process: `ReadPid`, `Probe` and `RemoveStale` are `Status`, with which start and stop
begin too; `Spawn`, `OpenPidfile`, `WritePid`, `WriteFails` are the rest of `Start`,
`Terminate` and `Forget` that of `Stop`. Watchers crash, or leave some time after
SIGTERM (`Watch` says when); their pids may go to other programs (`Stranger`).
All commands overlap in every way. `crowded` records the commands that have overlapped
another one, `orphaned` the watchers that such a start, or one that was killed
between fork and write, has left: the code can lose those, and `Proper` are the rest.

### Timeline

Bubble Tea hands one message after the other to `Update` and draws after each, so an
action is a message with the drawing that follows it: `Move`, `Jump`, `Ask`, `Refuse`
and their like are keys, `Resize` the terminal. `doRestore` takes several steps
(`pc` "safety", "write", "reload"), and between any two steps other processes
`Snapshot` trees and `Prune` lines. `ListHeight`, `EnsureVisible` and `View` are the
window of entries as the code computes it; `BoxLines`, `LinesCut` and `OnScreen` what
becomes of it on the screen, where an entry takes two lines and Bubble Tea drops the
lines at the top that do not fit. `pruned` remembers the latter, because only they can
make the list longer than the timeline.

### Diff

A tree gives each path a content and a mode, or nothing. `Diff` is the code's two
loops as a set of changes; `Turns` says what a set of changes has to be.

### Setup

One action per call that touches the disk: `MakeDirs`, `StatLog`, `MakeLog` of
`store.Init`; `StatConfig`, `OpenConfig`, `SaveConfig` of init and `config.Save`, which
truncates and then writes, so that others read an empty file or a number's beginning
in between; `Load` with the arithmetic of `MaxFileSizeBytes` on integers of bounded
width; a snapshot's walk, manifest and line. The user edits or removes the file at any
moment and every command can be killed before every call.

## 3. Runs

| Run | Config | Checks | Result |
|---|---|---|---|
| `store_exclusive` | MCStore_exclusive | `TypeOK ListedIntact NewestStored PruneExact ReturnMeansSaved PrunesGoThrough ImplementsHistory` | holds, 2.07 M states |
| `store_concurrent` | MCStore_concurrent | `KeptSurvive` | holds, 0.33 M states |
| `restore` | MCRestore_saved | `RTypeOK TreeMatches CleanUndoReturns OverwrittenIsSaved` | holds, 0.98 M states |
| `prune` | MCPrune | `PTypeOK PlanIsReference PromiseKept AnnouncedGo` | holds, 0.17 M states |
| `watch` | MCWatch | `WTypeOK Covered SettledSaved ChangesGetSaved` | holds, 0.96 M states |
| `ignore` | MCIgnore | `ITypeOK MatchIsReference BeneathIgnored StoreStaysOut MutedByReinclusion SegmentIsReference LinesAreRead` | holds, 8 557 rule lists, each against 28 questions |
| `daemon` | MCDaemon | `DTypeOK OneWatcherNamed` | holds, 1.53 M states |
| `timeline` | MCTimeline | `TTypeOK RestoresWhatItNamed PanicOnlyAfterPrune CursorVisible PaneExplains SafetyIsListed` | holds, 1.37 M states |
| `setup` | MCSetup | `SuTypeOK ReportedIsListed CompleteAfterInit EditsStay TakesWhatFits` | holds, 2.02 M states |
| `store_anytime` | MCStore_anytime | `SafeAtAnyTime` | violated |
| `store_torn` | MCStore_torn | `HistoryStaysReadable` | violated |
| `restore_oversize` | MCRestore_oversize | `NeverDeletesUnsaved` | violated |

Bounds, and why they are enough:

- **Store.** Two paths and two contents: nine trees, which share blobs, hold the
  same blob twice, and include the empty tree. `store_concurrent` has one
  content in its two paths: four trees, three of which share its blob. Two
  snapshotting processes and one pruner. Four commands give two snapshots, a prune
  that drops one of them and a fourth command after it, or three that overlap. One
  crash and one failed removal or torn append at every step. Contents and
  snapshotting processes are interchangeable, hence the symmetry.
- **Restore.** Two paths, one restorer and one other snapshotting process, three
  commands (a snapshot, a restore, its undo), one edit, one crash, one failing
  removal; the second path may be ignored by some processes and not by others.
  Restores beside restores are the theorems' business. No pruner: its overlap with a
  restore's safety snapshot is `store_anytime`'s.
- **Prune.** Days of three hours and two days: every position of a line relative
  to midnight and to both cutoffs. Three ids and four lines, any of them
  doubled; eight retentions, among them a window longer than the days, caps,
  negative values, and six hours where a duration holds fewer than five, so that the
  window begins in the future.
- **Watch.** A directory in a directory in the folder, so that a subdirectory can
  appear before and after its parent is read and be moved in with content; a
  queue of two, so that it overflows with changes, noise and both; three
  changes, one fault. The outer directory is muted, the one in it is not.
- **Ignore.** Two of 98 lines after the default one: bodies of one to three segments
  with `*`, `?`, a `*` within a name, `**` at the start, the end, both and in the
  middle, and two slashes in a row, each with and without a slash at either end, or
  re-included with a blank behind; lines that say nothing, and lines that begin or end
  with more marks than one. Paths of one to three segments over two names.
  Patterns and names of up to four characters for the loop over `*`, which is enough
  for two stars with text around them and a first match that has to be given up.
- **Daemon.** Four pids, two processes that run six commands between them, three
  faults: start, crash, start with a failing write, start again, with a stop and
  statuses around and pids coming back in between.
- **Timeline.** One path with two contents and two modes, so that a change of mode
  only occurs and a tree can be come back to; three lines, three snapshots and prunes
  of others, one fault; a terminal whose list has one entry and one in which all have
  room.
- **Setup.** Two processes that run three commands, two edits, one kill, two files of 6
  and 24 bytes. A megabyte of four bytes in integers of six bits, the default five
  megabytes: the settings -1, 7 and 17 are one for which the default steps in, one
  that fits and one whose bytes wrap around to four. A write that is cut short leaves
  a file that does not parse, or another number.

Deadlock checking is off everywhere: commands end, bounds run out, and a stopped
watcher is a legal end.

**Fairness.** Only `WSpec` has any: `WF` of `Run`, the steps of the watcher's one
goroutine and of the runtime's timer, which the scheduler does let go on. Nothing
is assumed of the user, of SIGTERM, of refused watches or of failing snapshots.
`ChangesGetSaved` relies on the bound of changes for activity to pause; the code
has no limit on how long continuous activity postpones a snapshot.

Each property of a passing run has a mutant in `PROJECT.json`: an operator next
to the one it replaces, marked *Wrong variant*, under which TLC finds the
property violated.

## 4. What is proved

By TLAPS, for all numbers of paths, contents, processes and bounds, from each
module's named assumption on its constants alone. A theorem is about the property
its run checks, unless the last column says more.

| Module | Theorem | Statement |
|---|---|---|
| `StoreProofs` | `TypeCorrect` | `Spec => []TypeOK` |
| | `InvHolds` | `ExclusiveSpec => []Inv`, the inductive invariant |
| | `ListedStayIntact`, `NewestStaysStored`, `PruneIsExact` | `ExclusiveSpec => []ListedIntact`, `[]NewestStored`, `[]PruneExact` |
| | `ReturnedIsSaved`, `PrunesDoGoThrough` | `ExclusiveSpec => []ReturnMeansSaved`, `[]PrunesGoThrough` |
| | `KeptAlwaysSurvive` | `Spec => KeptSurvive`, with at most one prune at a time |
| | `StoreImplementsHistory` | `ExclusiveSpec => ImplementsHistory` |
| | `RTypesCorrect`, `TreeIsRestored`, `UndoIsComplete` | `RSpec => []RTypeOK`, `[]TreeMatches`, `[]CleanUndoReturns` |
| | `OverwrittenStaysSaved` | `RSpec => OverwrittenIsSaved` |
| `PruneProofs` | `TypeCorrect`, `PlanKeepsWhatThePolicySays`, `PromisesAreKept` | `PSpec => []PTypeOK`, `[]PlanIsReference`, `[]PromiseKept`, for any timeline, clock and retentions |
| | `AnnouncedIsGone` | `PSpec => AnnouncedGo` |
| | `PlanFitsStore` | `PSpec => []PlanFits`: the plan is one that `PlanKeep` of `Store` allows, and within the cap |
| `IgnoreProofs` | `SegmentMatches` | `ISpec => []SegmentIsReference`; the lemma `SegmentMeans` under it is for patterns and names of every length |
| | `TypeCorrect`, `LinesMean` | `ISpec => []ITypeOK`, `[]LinesAreRead` |
| | `MatchesAsLinesMean`, `IgnoredBeneath`, `StoreIsOut` | `ISpec => []MatchIsReference`, `[]BeneathIgnored`, `[]StoreStaysOut` |
| | `MutedIsReincluded` | `ISpec => []MutedByReinclusion` |
| `WatchProofs` | `TypeCorrect`, `EveryDirectoryIsWatched`, `SettledIsSaved` | `WSpec => []WTypeOK`, `[]Covered`, `[]SettledSaved`, in any tree of directories and with any queue |
| `DaemonProofs` | `TypeCorrect`, `OneWatcherIsNamed` | `DSpec => []DTypeOK`, `[]OneWatcherNamed` |
| `TimelineProofs` | `DiffIsRight` | the changes between any two trees turn the one into the other |
| | `TypeCorrect`, `NamedIsRestored`, `OnlyPrunePanics`, `CursorIsVisible` | `TSpec => []TTypeOK`, `[]RestoresWhatItNamed`, `[]PanicOnlyAfterPrune`, `[]CursorVisible` |
| | `PaneIsRight`, `SafetyIsShown` | `TSpec => PaneExplains`, `SafetyIsListed` |
| `SetupProofs` | `TypeCorrect`, `InitCompletes`, `ReportedStaysListed` | `SuSpec => []SuTypeOK`, `[]CompleteAfterInit`, `[]ReportedIsListed` |
| | `EditsAreKept`, `LimitIsMeant` | `SuSpec => EditsStay`, `TakesWhatFits` |

**Store.** `ListedIntact` is not inductive: a sweep removes a blob because the lines
read long before do not need it. So `Inv` says what each stage has established. Of a
snapshot: the blobs of the rows gathered so far are there, and a line follows its
manifest. Of a prune: the plan holds listed ids only, the newest among them; the
kept lines are those of the timeline with a planned id, and their manifests are
there; nothing doomed is planned; during the sweep the timeline is the kept lines
and, unless a removal failed, a blob the sweep has passed is there only if a
listed snapshot needs it. Line numbers stay below `appended`, so an appended line
is the newest. Exclusiveness enters where a snapshot's step may assume that no
prune is under way, and a prune's that no snapshot is (`SnapAlone`,
`PruneAlone`). The proof goes action by action: `SnapCore` and `PruneCore` for the
disk, `PruneStages` for the stages, `InvStep` for all steps.

`ReturnMeansSaved` and `PrunesGoThrough` need `Tidy` besides: as long as nothing has
failed, every manifest is listed or its snapshot is about to list it, every line has
its manifest outside the removals of a prune, and an append has the file open that
has the name.

`KeptSurvive` needs no exclusiveness: a step that removes a manifest, a line or a
blob belongs to a pruner, and what that pruner keeps is exempt from each of the
three. This also shows how far the promise of gc.go goes: what is *saved and
kept* when a prune decides stays saved, and only snapshots in the making are lost.

`StoreImplementsHistory` rests on `Inv`: by it what is saved is what is listed and
has its manifest, so `AppendLine` is `Record`, `WriteManifest` of a listed id is
`Recover`, `RemoveManifest` and `Rewrite` are `Forget`, and every other step
stutters.

**Restore.** `RInv` adds to the store's invariants that a snapshot has one row for a
path (`Walked`), and for each restore: what it has written is there (`Written`), what
the clean-up has passed is gone (`Cleaned`), what the walk of its safety snapshot has
taken is what it saw (`Seen`, then `Kept`), and a path it has not come to is still what
that walk saw, unless somebody else changed it (`Same`). `Same` with `Kept` is
`OverwrittenIsSaved`; `Goals`, what an undo has to bring back, follows from `Kept` of
the restore that is undone. `Elsewhere` is the lemma that keeps all this through the
steps of others: it is why any number of restores may run side by side.

**Watch.** `Covered` is not inductive: while `addTree` is at work there are directories
without a watch. `Sought` says where each of those is: on the agenda, in an event
that waits, or in a directory that is itself still to be read. `SettledSaved` rests on
it and on `Recorded`: every change that was neither missed nor dropped is in the last
snapshot, makes another one due, or is in what the walk under way has found or has yet
to visit. Whether the end of an `addTree` counts as a change depends on the directory it
was called for, so the invariant keeps the walk beneath that (`Stages`), and
`UncoveredDue` says what a change in a directory without a watch can rely on.

**Daemon.** A command that has overlapped no other is the only one that runs
(`Alone`), the file it has open is the pidfile (`Opened`), and beside a proper watcher
that the pidfile names no command has come past its probe but a stop of that very
watcher (`Named`): so nobody removes or replaces its pidfile.

**Timeline.** A prompt names the snapshot under the cursor as long as it waits
(`Asked`); without a prune the list is never longer than the timeline it is loaded
from again (`Shorter`), so the cursor stays in it (`InList`); offset and pane are those
of the last message that moved the cursor (`UpToDate`). `CursorIsVisible` is about what
is drawn; that it is on the screen is proved for lists that have room there, and is not
so for longer ones.

**Setup.** An init that is about to make the timeline or config.toml began without
one, and is remembered in `noLog` and `noConfig` (`Making`, `Configuring`); what has a
manifest has its line, or one on its way, or has lost it in a way the property
allows (`Recorded`); the limit a command goes by was in force since it began
(`Limited`).

**Induction.** The loops of `Prune` and `Ignore` are folds and recursive functions, and
what those compute is a matter of induction over data. The library's induction theorems
have an operator for a parameter, which no backend can instantiate, so
`InductionTheorems` says the same of *sets*: what has 0 and with every number the next
has them all (`Induction`). That follows from a fact of the library about sets alone,
that the finite sets of naturals are well-founded by inclusion (`Least`). From it come
what the folds and recursive functions of TLA+ only `CHOOSE`: that there is such a
function (`FoldExists`, `LoopExists`). A fold is then the last of a run of results, each
made of the one before (`CappedRun`, `ThinnedRun`, `MatchRun` and their like), and a
claim about it is shown for the set of lengths at which it holds.

**Prune.** `ThinnedIsPicked` follows the first loop, where a line is taken for its day
exactly if no newer line outside the window is of that day; this is where the order of
the timeline enters (`Chronological`, which no step disturbs, because the clock is not
set back). `CappedIsNewest` follows the cap: at every line, what it has taken is what
is ahead of it. The two give `PlanIsReference`. `PromiseKept` is not inductive, for an id
may be listed by a line that no plan will keep: `PInv` has it that what is owed is
listed *as the line it was recorded with* (`OwedListed`). A later time owes nothing new
(a window and days that begin later), a new line owes only itself and can end an
obligation of its day, and what is owed is among what the plan picks. `AnnouncedDoomed`
is what `AnnouncedGo` needs: what was announced stays outside what would be picked,
since time and newer lines only make lines go.

**Ignore.** The loop over `*` goes back to the last `*` and forgets those before. It is
right because at every position that can be reached what is between the last `*` and the
position has been matched literally (`Reach`), and what is open from the position on
is what is open from the place to go back to (`ReachRest`); a piece without a `*` takes one
way only (`StarlessTakes`). `AdvanceMeans` says that a step of the loop keeps to this,
changes nothing about the answer and goes on in the order `Before`, so the position at
which the loop and the meaning differ and that has none behind it (`LastPosition`)
cannot be. `**` stops at the first split that matches and takes its exactness: that this
is enough is `EarlyEnds` (if a later split ends before the end of the path, so does an earlier
one) with `ReachesDeep`. `SplitMeans` and `ParseMeans` are about lines: `Joined` of the
segments, with the marks put back, is the line again. `IInv` adds to the properties that
the first rule is the default one (`Default`); by `MatchMeans` the fold of `Match` is the
answer of the last rule that matches, by `MatchesMeans` that is the last that excludes, and
`SomeDecides`, `DefaultExcludes` and `ExcludesBeneath` give the rest.

Only model-checked: liveness (`ChangesGetSaved`), which rests on fairness and so on
ENABLED, beyond this prover; and the three violations, which are counterexamples on one
instance. How a prune beside a restore behaves is not among the theorems about
`Restore`: no step of `RNext` is a prune's.

## 5. Where the code and its documentation differ

Shown by runs:

- **`store_anytime`**: gc.go:62 "It is safe to run at any time". A snapshot that
  writes or re-uses blobs after the collection of references and appends its
  line after the rewrite is listed without contents.
- **`store_torn`**: SECURITY.md:38-39 "An interrupted run can never corrupt existing
  history." One incomplete line makes every reader of the timeline fail.
- **`restore_oversize`**: CONTRIBUTING.md:55-56. `--clean` removes files over the
  size limit, which no snapshot has.

Met while modelling, without a run of their own:

- watch.go:2-4 "snapshots the folder whenever activity settles" and
  docs/faq.md:21-22. A directory that comes or goes is no change if the list excludes
  its path as a file's, though the walks enter it: under `*`, `!*/`, `!*.txt` the
  tracked files of a directory that is moved in are in no snapshot until something else
  changes. `SettledSaved` excepts it (`dropped`).
- timeline.go:1-2 "a scrollable list of snapshots on the left". The
  window holds as many entries as the box has lines, and an entry takes two
  (timeline.go:240, 261-274): the view is higher than the terminal, and what Bubble Tea
  drops at the top includes the selected entry, in 24 lines from 12 snapshots on. `CursorVisible`
  asks for a place on the screen only where all entries have room (`HasRoom`).
- restore.go:143 writes the target's files whatever the current ignore rules say,
  and the safety snapshot then lacks what was there; CONTRIBUTING.md:57 has it that
  ignored files are not touched.
- README.md:137-140 and cli/restore.go:91: the printed undo command has no
  `--clean`, so files the restore brought stay. `CleanUndoReturns` shows that with
  `--clean` the undo is complete.
- ignore.go:15 "DefaultPatterns are always ignored", while ignore.go:64-65 has user
  rules override them: a line such as `!*/`, usual in lists that include by name,
  takes `.undo/` out, snapshots then record the store, and a restore writes over it.
- Two `ua daemon start` at once both start a watcher; a watcher installed as a
  service is unknown to start, stop and status; a pid that went to another program
  after a reboot is taken for the watcher, and stop signals it (daemon.go:36-45).
- cli/restore.go:70: with several named paths the loop overwrites the safety id
  with the empty one of the next call, and none is printed (docs/faq.md:46).
- index.go:34: two processes that record one tree at once add two lines
  (docs/faq.md:23-24). `Prune` has doubled lines.
- A tree that is come back to has the time of its first line, so it may go within
  `keep_hours` of being snapshotted again (docs/configuration.md:28).
- prune.go:45: `keep_hours` beyond 2562047 wraps around, and config.go:108:
  `max_file_size_mb` times 2^20 does, to a small limit or to a negative one that counts
  as the default.
- ignore.go:221: a `*` of a pattern that meets a `*` in a file name is taken
  literally. A trailing `/**` also matches the directory itself. ignore.go:96 has it
  that escaped blanks at the end of a line stay; they are trimmed like others.
- snapshot.go:29-30: after a crash between manifest and line the same tree counts as
  recorded, under an id no command finds (index.go:34-44).
- daemon.go:34-35 "A stale pidfile (process gone) is cleaned up": it goes by name, so
  the pidfile goes that a start has written in between, and the watcher it names
  cannot be found.
- store.go:63: Init looks for timeline.log and creates it with a call that empties it;
  a line that is appended in between is lost.
- config.go:100, daemon.go:106: config.toml and the pidfile are written in place. A
  config.toml whose write is cut short stops every command, or holds another number.
- docs/configuration.md:6-7 "you can edit it any time": every command loads the file
  when it starts; the running watcher keeps what it loaded (cli/watch.go:30).
- timeline.go:183: a reload after a restore keeps the cursor; when a prune has made
  the list shorter than that, the browser ends with an index out of range, before it
  has shown the id of the safety snapshot. Without a prune the cursor is on another
  snapshot than before, since the safety snapshot is now the first: docs/faq.md:52-54
  undoes a restore with two keys and means the newest one.
- timeline.go:166: a restore that fails half way does not load the list again, so its
  safety snapshot cannot be selected there.
- A change of mode alone is a change, shown like one of content; a snapshot whose
  parent has gone is shown as all added.
- service.go:181: the folder is put into `ExecStart` unquoted. For one with a blank in
  its path the unit runs `ua watch` with two arguments, which it refuses, and starts
  it again every three seconds; `ua daemon install` reports success.
- A prune cut short between the removal of manifests and the rewrite leaves lines
  without manifests; a later prune that keeps one of them fails (gc.go:80).
  `PrunesGoThrough` shows that nothing but a failure leads there.
- PutBlob trusts a blob that is there (blob.go:49).
- The watcher takes no snapshot at its start and drops a pending one at its end.

## 6. Not modelled

- **Within `Ignore`**: files that cannot be read, `./` before a path, names with a `*`.
- **Within `Store`**: compression, permissions apart from content, prefixes of ids,
  statistics (`Usage`); damage of files on disk; loss of a rename on power failure.
- **Within `Restore`**: file against directory conflicts (they are `AbortRestore`),
  `secureJoin`, what is printed.
- **Within `Daemon`**: Windows, where stopping kills; processes of other users, which
  the probe takes for gone; the zombie a watcher is until its start has ended; a
  watcher that the OS service runs, which has no pidfile.
- **Within `Setup`**: the keys of config.toml other than `max_file_size_mb` (`Prune` has
  the retention, `Watch` the debounce time as a timer), and `ua init` of a folder in a
  folder that has a store. `Record` looks for the manifest and writes it in one step,
  `Store` in two; the user replaces config.toml as a whole.
- **Within `Timeline`**: width, colours and wording; the scrolling inside the pane.
- **Within `Watch`**: what inotify goes on reporting of directories beneath one that was
  moved out of the folder, under the names they had.
- **Service installation** (`service.go`): it writes a file and calls `launchctl` or
  `systemctl` once; what follows is those programs' doing.
- **Presentation, read-only commands**: formatting without state.

## 7. Plan

Done, in this order: `Store` with its proofs; `History` and the refinement;
`Restore` composed with `Store`; `Prune`; `Watch`; `Ignore`; `Daemon`; `Timeline` with
`Diff`; the matcher's texts and its loop over `*`; `Setup`; the proofs about `Timeline`,
`Setup`, `Daemon`, `Watch` and `Restore`, and `ReturnMeansSaved` of the store; induction
for folds and recursive functions, and with it the proofs about `Prune`, `Ignore`, and
that a plan of `Prune` is one that `PlanKeep` of `Store` allows.

Next:

1. A service's watcher beside the one of the pidfile, in `Daemon`, with logins and
   restarts by the OS.
2. Restores beside a prune: which of the theorems about `Restore` remain when the prune
   keeps the snapshots concerned, on top of `KeptSurvive`.
3. `Capture` and `Confirm` of `Prune` as a refinement of `History`, on top of
   `PlanFitsStore`.
