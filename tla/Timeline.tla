------------------------------- MODULE Timeline -------------------------------
(***************************************************************************)
(* The timeline browser (internal/timeline): a list of snapshots with a    *)
(* cursor, a pane that shows what the selected one changed, and a restore  *)
(* after a prompt.  It loads the list when it starts and after a restore;  *)
(* in between the daemon and other commands add snapshots and prune them.  *)
(*                                                                         *)
(* Bubble Tea hands one message after the other to Update and draws View   *)
(* after each, so an action is a message with the drawing that follows;    *)
(* only a restore takes several steps.  Positions count from 0, as in the  *)
(* code.  The folder is left open: a snapshot may find any tree.  What a   *)
(* restore saves and writes file by file is the business of module         *)
(* Restore, what a concurrent prune may spoil that of Store.               *)
(***************************************************************************)
EXTENDS Integers, Diff, SequencesExt

CONSTANTS
    None,       \* no snapshot
    Heights,    \* heights of the terminal
    Frame,      \* what is taken off the terminal's height: 6 in the code
    MinRows,    \* the least height of the list: 3 in the code
    MaxLines,   \* bound: lines of the timeline
    MaxOthers,  \* bound: snapshots and prunes of other processes
    MaxFaults   \* bound: torn timelines and restores that fail

ASSUME TimelineAssumption ==
    /\ None \notin Tree
    /\ Heights \subseteq Nat /\ Frame \in Nat /\ MinRows \in Nat \ {0}
    /\ MaxLines \in Nat /\ MaxOthers \in Nat /\ MaxFaults \in Nat

Line == [id : Tree, parent : Tree \cup {None}]

VARIABLES
    log,        \* lines of timeline.log, oldest first, with their manifests
    torn,       \* timeline.log cannot be read
    pc,         \* the browser: closed, keys, safety, write, reload, quit, panic
    entries,    \* ids of model.entries, newest first
    cursor, offset, ready, height, confirming,
    status,     \* the footer: what it says, and of which snapshot it asks
    detail,     \* the pane: a snapshot and its changes
    target,     \* doRestore: the snapshot it has read
    safety,     \* doRestore: the id of its safety snapshot
    others, faults,     \* counters of the bounds
    \* What the properties compare with; the program has none of these.
    pruned      \* snapshots were taken out of the timeline while it was open

shared == <<log, torn, pruned>>
list == <<entries, cursor, offset, ready, height>>
restoring == <<target, safety>>
tvars == <<shared, pc, list, confirming, status, detail, restoring, others,
           faults>>

Ids(lines) == {lines[i].id : i \in DOMAIN lines}
\* store.Entries and the reversal after it: the newest first
Listing == Reverse([i \in DOMAIN log |-> log[i].id])
NewestId(lines) == IF lines = <<>> THEN None ELSE Last(lines).id
Says(kind, id) == [kind |-> kind, id |-> id]
Silent == Says("", None)

\* store.ReadSnapshot
CanRead(id) == ~torn /\ id \in Ids(log)
ParentOf(id) == (CHOOSE l \in ToSet(log) : l.id = id).parent

TInit ==
    /\ log = <<>> /\ torn = FALSE
    /\ pruned = FALSE
    /\ pc = "closed"
    /\ entries = <<>> /\ cursor = 0 /\ offset = 0
    /\ ready = FALSE /\ height = 0 /\ confirming = FALSE
    /\ status = Silent /\ detail = None
    /\ target = None /\ safety = None
    /\ others = 0 /\ faults = 0

-----------------------------------------------------------------------------
(* The other processes *)

\* snapshot.Create by anyone, of any tree: an id with a manifest adds no line,
\* and a line that continues a torn one is lost.
Capture(tree) ==
    IF torn \/ tree \in Ids(log)
    THEN UNCHANGED log
    ELSE /\ Len(log) < MaxLines
         /\ log' = Append(log, [id |-> tree, parent |-> NewestId(log)])

Other ==
    /\ others < MaxOthers
    /\ others' = others + 1
    /\ UNCHANGED <<pc, list, confirming, status, detail, restoring, faults>>

Snapshot(tree) ==
    /\ Other
    /\ ~torn
    /\ Capture(tree)
    /\ UNCHANGED <<torn, pruned>>

\* The lines a prune may keep, by their positions: the newest, and what else its
\* policy wants.
Selections ==
    UNION {{keep \in [1..n -> DOMAIN log] :
                /\ keep[n] = Len(log)
                /\ \A i, j \in 1..n : i < j => keep[i] < keep[j]} :
           n \in 1..(Len(log) - 1)}

Prune(keep) ==
    /\ Other
    /\ ~torn
    /\ log' = [i \in DOMAIN keep |-> log[keep[i]]]
    /\ pruned' = (pruned \/ pc # "closed")
    /\ UNCHANGED torn

Tear ==
    /\ faults < MaxFaults
    /\ faults' = faults + 1
    /\ torn' = TRUE
    /\ UNCHANGED <<log, pruned, pc, list, confirming, status, detail,
                   restoring, others>>

-----------------------------------------------------------------------------
(* Drawing *)

\* listHeight: the lines of the list's box, and how many entries View puts
\* into it.  The pane beside it is as high.
ListHeight(h) == IF h - Frame < MinRows THEN MinRows ELSE h - Frame

\* Wrong variant: the list scrolls down only.
EnsureVisible_down(o, c, rows) == IF c >= o + rows THEN c - rows + 1 ELSE o

EnsureVisible(o, c, rows) ==
    LET up == IF c < o THEN c ELSE o
        down == IF c >= up + rows THEN c - rows + 1 ELSE up
    IN  IF down < 0 THEN 0 ELSE down

\* The entries drawn are those from offset up to this one.
Bottom ==
    LET end == offset + ListHeight(height)
    IN  IF end < Len(entries) THEN end ELSE Len(entries)

\* renderRow makes two lines of an entry, and the box grows with what is in it.
BoxLines(n) ==
    IF 2 * n > ListHeight(height) THEN 2 * n ELSE ListHeight(height)

\* A line of header, one of footer and two of the box's border around n entries.
HasRoom(n) == BoxLines(n) + 4 <= height

\* Bubble Tea drops the lines at the top that the terminal has no room for.
LinesCut ==
    LET lines == BoxLines(Bottom - offset) + 4
    IN  IF lines > height THEN lines - height ELSE 0

\* The first line of the entry at position i is drawn, and beneath what is cut.
OnScreen(i) ==
    /\ offset <= i /\ i < Bottom
    /\ 2 * (i - offset) + 2 >= LinesCut

\* View moves the offset of the list it draws, an entry counting as one line.
View ==
    offset' = IF ready' /\ entries' # <<>>
              THEN EnsureVisible(offset, cursor', ListHeight(height'))
              ELSE offset

\* What the pane says of a snapshot: a parent that cannot be read counts as
\* none, so that every file is an added one.
Describe(id) ==
    IF CanRead(id)
    THEN LET parent == ParentOf(id)
             from == IF parent # None /\ CanRead(parent) THEN parent
                                                         ELSE NoFiles
         IN  [id |-> id, read |-> TRUE, changes |-> Diff(from, id)]
    ELSE [id |-> id, read |-> FALSE, changes |-> {}]

\* refreshDetail, for the new list and cursor, and the drawing after it.  An
\* index out of range is a panic, which ends the program.
Refresh ==
    IF ~ready' \/ entries' = <<>>
    THEN pc' = "keys" /\ View /\ UNCHANGED detail
    ELSE IF cursor' + 1 \in DOMAIN entries'
    THEN pc' = "keys" /\ View /\ detail' = Describe(entries'[cursor' + 1])
    ELSE pc' = "panic" /\ UNCHANGED <<offset, detail>>

-----------------------------------------------------------------------------
(* Messages *)

Open ==
    /\ pc = "closed"
    /\ ~torn
    /\ pc' = "keys"
    /\ entries' = Listing
    /\ UNCHANGED <<shared, cursor, offset, ready, height, confirming, status,
                   detail, restoring, others, faults>>

Resize(h) ==
    /\ pc = "keys"
    /\ height' = h
    /\ ready' = TRUE
    /\ UNCHANGED <<entries, cursor>>
    /\ Refresh
    /\ UNCHANGED <<shared, confirming, status, restoring, others, faults>>

\* Wrong variant: the keys work while a prompt waits for its answer.
Jump_always(c) ==
    /\ pc = "keys"
    /\ cursor' = c
    /\ UNCHANGED <<entries, ready, height>>
    /\ Refresh
    /\ UNCHANGED <<shared, confirming, status, restoring, others, faults>>

\* The keys that move the cursor do nothing while a prompt waits.
Jump(c) ==
    /\ pc = "keys"
    /\ ~confirming
    /\ cursor' = c
    /\ UNCHANGED <<entries, ready, height>>
    /\ Refresh
    /\ UNCHANGED <<shared, confirming, status, restoring, others, faults>>

\* Wrong variant: the ends of the list are not looked at.
Move_unclamped(delta) ==
    /\ entries # <<>>
    /\ Jump(cursor + delta)

\* moveCursor
Move(delta) ==
    /\ entries # <<>>
    /\ Jump(LET c == cursor + delta
            IN  IF c < 0 THEN 0
                ELSE IF c >= Len(entries) THEN Len(entries) - 1 ELSE c)

Home == Jump(0)

\* Of an empty list it is position -1.
End == Jump(Len(entries) - 1)

Quit ==
    /\ pc = "keys"
    /\ pc' = "quit"
    /\ UNCHANGED <<shared, list, confirming, status, detail, restoring,
                   others, faults>>

\* r
Ask ==
    /\ pc = "keys"
    /\ ~confirming /\ entries # <<>>
    /\ IF cursor + 1 \in DOMAIN entries
       THEN /\ confirming' = TRUE
            /\ status' = Says("confirm", entries[cursor + 1])
            /\ UNCHANGED pc
       ELSE /\ pc' = "panic"
            /\ UNCHANGED <<confirming, status>>
    /\ UNCHANGED <<shared, list, detail, restoring, others, faults>>

\* n or esc
Refuse ==
    /\ pc = "keys"
    /\ confirming
    /\ confirming' = FALSE
    /\ status' = Silent
    /\ UNCHANGED <<shared, pc, list, detail, restoring, others, faults>>

-----------------------------------------------------------------------------
(* y: doRestore, during which no message is handled *)

Leave(kind) ==
    /\ confirming' = FALSE
    /\ status' = Says(kind, None)
    /\ target' = None /\ safety' = None

Accept ==
    /\ pc = "keys"
    /\ confirming
    /\ LET id == entries[cursor + 1]
       IN  IF CanRead(id)
           THEN /\ pc' = "safety"
                /\ target' = id
                /\ UNCHANGED <<confirming, status, safety>>
           ELSE Leave("error") /\ UNCHANGED pc
    /\ UNCHANGED <<shared, list, detail, others, faults>>

\* The snapshot of whatever the folder holds.
TakeSafety(tree) ==
    /\ pc = "safety"
    /\ Capture(tree)
    /\ safety' = tree
    /\ pc' = "write"
    /\ UNCHANGED <<torn, pruned, list, confirming, status, detail, target, others,
                   faults>>

\* The files are in the folder and the footer offers the undo.
Write ==
    /\ pc = "write"
    /\ pc' = "reload"
    /\ status' = Says("restored", None)
    /\ UNCHANGED <<shared, list, confirming, detail, restoring, others, faults>>

\* The safety snapshot or the writing of a file fails: the list is not loaded
\* again.
RestoreFails ==
    /\ pc \in {"safety", "write"}
    /\ faults < MaxFaults
    /\ faults' = faults + 1
    /\ Leave("failed")
    /\ pc' = "keys"
    /\ UNCHANGED <<shared, list, detail, others>>

\* Wrong variant: the list is not loaded again.
Reload_stale ==
    /\ pc = "reload"
    /\ UNCHANGED <<entries, cursor, ready, height>>
    /\ Refresh
    /\ Leave("restored")
    /\ UNCHANGED <<shared, others, faults>>

\* The cursor keeps its position, whatever stands there now.
Reload ==
    /\ pc = "reload"
    /\ entries' = IF torn THEN entries ELSE Listing
    /\ UNCHANGED <<cursor, ready, height>>
    /\ Refresh
    /\ Leave("restored")
    /\ UNCHANGED <<shared, others, faults>>

TNext ==
    \/ \E tree \in Tree : Snapshot(tree)
    \/ \E keep \in Selections : Prune(keep)
    \/ Tear
    \/ Open
    \/ \E h \in Heights : Resize(h)
    \/ \E delta \in {-1, 1} : Move(delta)
    \/ Home
    \/ End
    \/ Quit
    \/ Ask
    \/ Refuse
    \/ Accept
    \/ \E tree \in Tree : TakeSafety(tree)
    \/ Write
    \/ RestoreFails
    \/ Reload

TSpec == TInit /\ [][TNext]_tvars

-----------------------------------------------------------------------------
Drawn == pc = "keys" /\ ready /\ entries # <<>>

\* Every variable has its type; the cursor is -1 only in an empty list.
TTypeOK ==
    /\ log \in Seq(Line) /\ pruned \in BOOLEAN
    /\ torn \in BOOLEAN
    /\ pc \in {"closed", "keys", "safety", "write", "reload", "quit", "panic"}
    /\ entries \in Seq(Tree)
    /\ cursor \in Nat \/ (cursor = -1 /\ entries = <<>>)
    /\ offset \in Nat
    /\ ready \in BOOLEAN /\ confirming \in BOOLEAN
    /\ height \in Heights \cup {0}
    /\ status \in [kind : {"", "confirm", "error", "failed", "restored"},
                   id : Tree \cup {None}]
    /\ detail \in [id : Tree, read : BOOLEAN, changes : SUBSET Change]
                    \cup {None}
    /\ target \in Tree \cup {None} /\ safety \in Tree \cup {None}

\* A restore touches the folder only after the user has said yes to a prompt
\* that names the very snapshot it writes, and the prompt is in the footer until
\* it ends: no key and no change of the history between question and answer
\* puts another snapshot in its place (timeline.go: the cases of Update).
RestoresWhatItNamed ==
    pc \in {"safety", "write"} =>
        /\ confirming
        /\ status.kind = "confirm" /\ status.id = target

\* The program ends with an index out of range only when a prune has taken
\* snapshots out of the timeline while it was open: moving, asking and resizing
\* never leave the list, and what other processes add never does
\* (timeline.go:183).  That a prune can end it, after a restore and before the
\* user has seen the id of the safety snapshot, is what the code does.
PanicOnlyAfterPrune ==
    /\ pc = "panic" => pruned
    /\ ~pruned /\ entries # <<>> => cursor + 1 \in DOMAIN entries

\* The pane is about the snapshot under the cursor, and what it then says is
\* true: the changes turn the parent the snapshot was recorded with, or no files
\* at all if it has none that can be read, into its contents (refreshDetail
\* after every move, resize and reload; diff.go: Diff).
PaneExplains ==
    [][Drawn' =>
        /\ detail'.id = entries'[cursor' + 1]
        /\ detail' # detail =>
             IF detail'.read
             THEN \E l \in ToSet(log) :
                    /\ l.id = detail'.id
                    /\ Turns(detail'.changes,
                             IF l.parent \in Ids(log) THEN l.parent ELSE NoFiles,
                             l.id)
             ELSE torn \/ detail'.id \notin Ids(log)]_tvars

\* The entry under the cursor is among those View draws, after every key, reload
\* and change of the terminal's height, and it is on the screen if all entries
\* have room there (View, ensureVisible).  If they have not, the code may draw it
\* above the top of the screen: it counts entries where it draws two lines each.
CursorVisible ==
    Drawn => /\ offset <= cursor /\ cursor < Bottom
             /\ HasRoom(Len(entries)) => OnScreen(cursor)

\* When the footer comes to say that a restore can be undone by restoring its
\* safety snapshot, that snapshot is in the list, whether the restore has added
\* it or found it there, unless it has gone from the timeline since
\* (timeline.go:173: "so the new safety snapshot appears").
SafetyIsListed ==
    [][pc = "reload" /\ pc' = "keys" /\ CanRead(safety) =>
         safety \in ToSet(entries')]_tvars
=============================================================================
