-------------------------------- MODULE Watch --------------------------------
(***************************************************************************)
(* The watcher that the daemon runs (internal/watch): it keeps a watch on  *)
(* every directory, because fsnotify is not recursive, and takes a         *)
(* snapshot when activity has settled.  One goroutine, one select loop,    *)
(* while the user, editors and builds change the folder at any moment.     *)
(*                                                                         *)
(* Abstractions.  A directory holds one file, which stands for all that    *)
(* its watch reports.  The kernel's and fsnotify's buffers are one bounded *)
(* queue.  Events the loop drops, of ignored paths and of the store's own  *)
(* directory, are of one kind, Noise.  snapshot.Create is its walk over    *)
(* the directories and its outcome; module Store has what it does on disk. *)
(*                                                                         *)
(* The walks ask the matcher about a directory as a directory, the loop    *)
(* asks about the path of every event as if it were a file's.  The answers *)
(* differ where a rule for directories only re-includes what another one   *)
(* excludes, as in a list that includes by name: `*`, `!*/`, `!*.txt`.     *)
(* Such a directory is walked and watched, and Muted; MutedByReinclusion   *)
(* of module Ignore has how it comes about.                                *)
(***************************************************************************)
EXTENDS Naturals, Sequences

CONSTANTS
    Dirs,         \* directories the matcher does not ignore
    Muted,        \* those of them whose own path it ignores as a file's
    Root,         \* the folder itself
    Parent,       \* [Dirs \ {Root} -> Dirs], a tree
    Content,      \* what a directory's file may hold
    Gone,         \* the directory does not exist
    QueueLimit,   \* events that may wait
    MaxChanges,   \* bound: changes of the folder
    MaxFaults     \* bound: watches refused and snapshots that fail

ASSUME WatchAssumption ==
    /\ Root \in Dirs /\ Muted \subseteq Dirs \ {Root}
    /\ Parent \in [Dirs \ {Root} -> Dirs]
    /\ \A D \in SUBSET Dirs :    \* every directory is beneath the root
          /\ Root \in D
          /\ \A e \in Dirs \ {Root} : Parent[e] \in D => e \in D
          => D = Dirs
    /\ Gone \notin Content
    /\ QueueLimit \in Nat \ {0}
    /\ MaxChanges \in Nat
    /\ MaxFaults \in Nat

VARIABLES
    tree,       \* what each directory holds
    watched,    \* directories with a watch
    queue,      \* events not yet received
    loop,       \* what Run is doing
    agenda,     \* addTree: directories listed and not yet visited
    listing,    \* addTree: the directory whose watch is added and whose
                \* entries are not read yet
    at,         \* addTree: the directory it was called for
    dirty,
    timer,      \* the debounce timer; "fired": its tick is in the channel
    unvisited,  \* the snapshot's walk: directories it has not come to
    seen,       \* the snapshot's walk: what it found
    shot,       \* the last snapshot that succeeded
    cancelled,  \* ctx is done
    changes, faults,    \* counters of the bounds
    \* What the properties except; the program has neither.
    missed,     \* changes nothing will report
    dropped,    \* changes only dropped events have told of
    deaf        \* directories whose watch was refused or whose creation was
                \* not reported

walk == <<unvisited, seen>>
watches == <<watched, agenda, listing, at>>
debounce == <<dirty, timer>>
unsaved == <<missed, dropped>>
wvars == <<tree, watches, queue, loop, debounce, walk, shot, cancelled,
           changes, faults, unsaved, deaf>>

Children(d) == {e \in Dirs \ {Root} : Parent[e] = d}
Exists(d) == tree[d] # Gone

\* A directory and those beneath it: the least set that holds it and, with a
\* directory, its subdirectories.
Below == [d \in Dirs |->
    {e \in Dirs : \A D \in SUBSET Dirs :
        d \in D /\ (\A x \in Dirs \ {Root} : Parent[x] \in D => x \in D)
        => e \in D}]
Above == [d \in Dirs |-> {e \in Dirs : d \in Below[e]}]

Event == [kind : {"change", "noise"}] \cup [kind : {"new"}, dir : Dirs]
Change == [kind |-> "change"]
Noise == [kind |-> "noise"]
New(d) == [kind |-> "new", dir |-> d]

\* The loop takes the event for a change (watch.go:102).
Counts(event) ==
    \/ event.kind = "change"
    \/ event.kind = "new" /\ event.dir \notin Muted

WInit ==
    /\ tree \in {t \in [Dirs -> Content \cup {Gone}] :
                    /\ t[Root] # Gone
                    /\ \A d \in Dirs \ {Root} : t[Parent[d]] = Gone => t[d] = Gone}
    /\ watched = {} /\ agenda = {Root} /\ listing = {} /\ at = Root
    /\ queue = <<>> /\ loop = "boot"
    /\ dirty = FALSE /\ timer = "stopped"
    /\ unvisited = {} /\ seen = [d \in Dirs |-> Gone]
    /\ shot = tree
    /\ cancelled = FALSE
    /\ changes = 0 /\ faults = 0
    /\ missed = {} /\ dropped = {} /\ deaf = {}

-----------------------------------------------------------------------------
(* The folder changes, and inotify reports it. *)

\* A snapshot will begin after this moment.
Due ==
    \/ dirty
    \/ loop = "adding" /\ at \notin Muted
    \/ \E i \in DOMAIN queue : Counts(queue[i])

Reported(d) == \E i \in DOMAIN queue : queue[i] = New(d)

\* The loop has yet to deal with, or is dealing with, the creation of a muted
\* directory that is d or above it.
Arriving(d) ==
    \E m \in Muted :
        /\ d \in Below[m]
        /\ Reported(m) \/ (loop = "adding" /\ at = m)

Room == Len(queue) < QueueLimit

\* Wrong variant: the buffer has no end.
Report_endless(event, reporters) ==
    queue' = IF reporters \cap watched # {} THEN Append(queue, event) ELSE queue

\* An event reaches the queue when a watch is there to see it; a full queue
\* drops it, and Run ignores the overflow error.
Report(event, reporters) ==
    queue' = IF reporters \cap watched # {} /\ Room
             THEN Append(queue, event) ELSE queue

\* The directories D change in a way the watches of `reporters` would tell.
\* Nobody can know of it before addTree has been there the first time, with a
\* refused watch, or with a queue full of noise.  Nobody will act on it when the
\* event is dropped, or when a creation that is dropped has yet to bring the
\* watch.
Folder(D, event, reporters) ==
    /\ loop # "stopped"
    /\ changes < MaxChanges
    /\ changes' = changes + 1
    /\ Report(event, reporters)
    /\ LET told == reporters \cap watched # {}
           unheard == IF told THEN Counts(event) /\ ~Room
                      ELSE loop = "boot" \/ reporters \cap deaf # {}
           passed == IF told THEN ~Counts(event)
                     ELSE \E r \in reporters : Arriving(r)
       IN  /\ missed' = IF unheard /\ ~Due THEN missed \cup D ELSE missed
           /\ dropped' = IF passed /\ ~Due THEN dropped \cup D ELSE dropped

Write(d, c) ==
    /\ Exists(d) /\ tree[d] # c
    /\ tree' = [tree EXCEPT ![d] = c]
    /\ Folder({d}, Change, {d})
    /\ UNCHANGED <<watches, loop, debounce, walk, shot, cancelled, faults, deaf>>

\* mkdir, or a move that brings a directory with all its subdirectories.
Make(d, c, whole) ==
    LET D == IF whole THEN Below[d] ELSE {d}
    IN  /\ d # Root /\ ~Exists(d) /\ Exists(Parent[d])
        /\ tree' = [e \in Dirs |-> IF e \in D THEN c ELSE tree[e]]
        /\ Folder(D, New(d), {Parent[d]})
        /\ deaf' = IF \/ Parent[d] \in watched /\ ~Room
                      \/ Parent[d] \in deaf
                   THEN deaf \cup D ELSE deaf
        /\ UNCHANGED <<watches, loop, debounce, walk, shot, cancelled, faults>>

\* Directory d goes with all that is beneath it.
Leave(d) ==
    /\ d # Root /\ Exists(d)
    /\ tree' = [e \in Dirs |-> IF e \in Below[d] THEN Gone ELSE tree[e]]
    /\ watched' = watched \ Below[d]
    /\ deaf' = deaf \ Below[d]
    /\ UNCHANGED <<agenda, listing, at, loop, debounce, walk, shot, cancelled,
                   faults>>

\* rm -r: each watch tells of the file that goes, and the one above of d.
Destroy(d) ==
    /\ Leave(d)
    /\ Folder(Below[d], Change,
              Below[d] \cup (IF d \in Muted THEN {} ELSE {Parent[d]}))

\* A move out of the folder: only d is told of.  What inotify goes on telling
\* of the directories beneath it is left out.
MoveAway(d) ==
    /\ Leave(d)
    /\ Folder(Below[d], IF d \in Muted THEN Noise ELSE Change, {Parent[d], d})

\* Something ignored changes.  A directory that a rule for directories only
\* excludes is ignored by the walks, and counts here.
Ignored(event) == Folder({}, event, {Root})
    /\ UNCHANGED <<tree, watches, loop, debounce, walk, shot, cancelled,
                   faults, deaf>>

\* SIGTERM from `ua daemon stop`, or Ctrl-C.
Cancel ==
    /\ ~cancelled
    /\ cancelled' = TRUE
    /\ UNCHANGED <<tree, watches, queue, loop, debounce, walk, shot, changes,
                   faults, unsaved, deaf>>

-----------------------------------------------------------------------------
(* addTree, at the start and for a new directory *)

Visited(d) ==
    /\ loop \in {"boot", "adding"}
    /\ listing = {}
    /\ d \in agenda
    /\ agenda' = agenda \ {d}
    /\ listing' = {d}

\* w.Add comes before WalkDir reads the directory.
AddWatch(d) ==
    /\ Visited(d)
    /\ watched' = IF Exists(d) THEN watched \cup {d} ELSE watched
    /\ deaf' = deaf \ {d}
    /\ UNCHANGED <<at, tree, queue, loop, debounce, walk, shot, cancelled, changes,
                   faults, unsaved>>

\* w.Add fails, the number of watches being limited, and nobody looks.
AddRefused(d) ==
    /\ faults < MaxFaults
    /\ faults' = faults + 1
    /\ Visited(d)
    /\ d \notin watched /\ Exists(d)
    /\ deaf' = deaf \cup {d}
    /\ UNCHANGED <<watched, at, tree, queue, loop, debounce, walk, shot, cancelled,
                   changes, unsaved>>

\* Wrong variant: subdirectories are not walked.
ReadEntries_flat ==
    /\ listing # {}
    /\ listing' = {}
    /\ UNCHANGED <<agenda, at, tree, watched, queue, loop, debounce, walk, shot,
                   cancelled, changes, faults, unsaved, deaf>>

ReadEntries ==
    /\ listing # {}
    /\ agenda' = agenda \cup
            {e \in Dirs \ {Root} : Parent[e] \in listing /\ Exists(e)}
    /\ listing' = {}
    /\ UNCHANGED <<at, tree, watched, queue, loop, debounce, walk, shot, cancelled,
                   changes, faults, unsaved, deaf>>

AddTreeDone == agenda = {} /\ listing = {}

EnterLoop ==
    /\ loop = "boot" /\ AddTreeDone
    /\ loop' = "idle"
    /\ UNCHANGED <<tree, watches, queue, debounce, walk, shot, cancelled,
                   changes, faults, unsaved, deaf>>

-----------------------------------------------------------------------------
(* The select loop *)

\* Wrong variant: the timer is left alone.
Touch_untimed == dirty' = TRUE /\ UNCHANGED timer

\* Reset, since Go 1.23, also discards a tick that waits in the channel.
Touch == dirty' = TRUE /\ timer' = "armed"

Receive ==
    /\ loop = "idle" /\ queue # <<>>
    /\ queue' = Tail(queue)
    /\ LET event == Head(queue)
       IN  IF event.kind = "new" /\ Exists(event.dir)
           THEN /\ loop' = "adding"
                /\ agenda' = {event.dir} /\ at' = event.dir
                /\ UNCHANGED debounce
           ELSE /\ IF Counts(event) THEN Touch ELSE UNCHANGED debounce
                /\ UNCHANGED <<loop, agenda, at>>
    /\ UNCHANGED <<tree, watched, listing, walk, shot, cancelled, changes,
                   faults, unsaved, deaf>>

\* Wrong variant: the creation of a directory is no change.
Added_only ==
    /\ loop = "adding" /\ AddTreeDone
    /\ loop' = "idle"
    /\ at' = Root
    /\ UNCHANGED <<tree, watched, agenda, listing, queue, debounce, walk, shot,
                   cancelled, changes, faults, unsaved, deaf>>

\* After addTree the event is handled like any other: that of a muted directory
\* is dropped.
Added ==
    /\ loop = "adding" /\ AddTreeDone
    /\ loop' = "idle"
    /\ IF at \in Muted THEN UNCHANGED debounce ELSE Touch
    /\ at' = Root
    /\ UNCHANGED <<tree, watched, agenda, listing, queue, walk, shot, cancelled,
                   changes, faults, unsaved, deaf>>

Expire ==
    /\ timer = "armed" /\ loop # "stopped"
    /\ timer' = "fired"
    /\ UNCHANGED <<tree, watches, queue, loop, dirty, walk, shot, cancelled,
                   changes, faults, unsaved, deaf>>

\* snapshotNow begins.
Settled ==
    /\ loop = "idle" /\ timer = "fired"
    /\ timer' = "stopped"
    /\ dirty' = FALSE
    /\ IF dirty
       THEN /\ loop' = "snap"
            /\ unvisited' = Dirs
       ELSE UNCHANGED <<loop, unvisited>>
    /\ UNCHANGED <<tree, watches, queue, seen, shot, cancelled, changes, faults,
                   unsaved, deaf>>

\* The walk reads a directory: its file, and which subdirectories there are to
\* go to.
Look(d) ==
    LET absent == UNION {Below[e] : e \in {x \in Children(d) : ~Exists(x)}}
    IN  /\ loop = "snap"
        /\ d \in unvisited /\ Above[d] \cap unvisited = {d}
        /\ seen' = [seen EXCEPT ![d] = tree[d]]
        /\ unvisited' = unvisited \ ({d} \cup absent)
        /\ UNCHANGED <<tree, watches, queue, loop, debounce, shot, cancelled,
                       changes, faults, unsaved, deaf>>

SnapshotTaken ==
    /\ loop = "snap" /\ unvisited = {}
    /\ loop' = "idle"
    /\ shot' = seen
    /\ seen' = [d \in Dirs |-> Gone]
    /\ missed' = {d \in missed : seen[d] # tree[d]}
    /\ dropped' = {d \in dropped : seen[d] # tree[d]}
    /\ UNCHANGED <<tree, watches, queue, debounce, unvisited, cancelled, changes,
                   faults, deaf>>

\* onEvent prints the error; the changes wait for the next event.
SnapshotFails ==
    /\ loop = "snap"
    /\ faults < MaxFaults
    /\ faults' = faults + 1
    /\ loop' = "idle"
    /\ unvisited' = {}
    /\ seen' = [d \in Dirs |-> Gone]
    /\ missed' = IF Due THEN missed
                 ELSE missed \cup {d \in Dirs : shot[d] # tree[d]}
    /\ UNCHANGED <<tree, watches, queue, debounce, shot, cancelled, changes,
                   dropped, deaf>>

Exit ==
    /\ loop = "idle" /\ cancelled
    /\ loop' = "stopped"
    /\ UNCHANGED <<tree, watches, queue, debounce, walk, shot, cancelled,
                   changes, faults, unsaved, deaf>>

Run ==
    \/ \E d \in agenda : AddWatch(d)
    \/ ReadEntries \/ EnterLoop
    \/ Receive \/ Added
    \/ Expire \/ Settled
    \/ \E d \in unvisited : Look(d)
    \/ SnapshotTaken
    \/ Exit

Environment ==
    \/ \E d \in Dirs, c \in Content :
          \/ Write(d, c)
          \/ \E whole \in BOOLEAN : Make(d, c, whole)
    \/ \E d \in Dirs : Destroy(d) \/ MoveAway(d)
    \/ \E event \in {Noise, Change} : Ignored(event)
    \/ Cancel
    \/ \E d \in agenda : AddRefused(d)
    \/ SnapshotFails

WNext == Run \/ Environment

\* The daemon's goroutine and the runtime's timers go on as long as they can.
WSpec == WInit /\ [][WNext]_wvars /\ WF_wvars(Run)

-----------------------------------------------------------------------------
\* Every variable has its type.
WTypeOK ==
    /\ tree \in [Dirs -> Content \cup {Gone}]
    /\ watched \subseteq Dirs /\ agenda \subseteq Dirs /\ listing \subseteq Dirs
    /\ at \in Dirs
    /\ queue \in Seq(Event) /\ Len(queue) <= QueueLimit
    /\ loop \in {"boot", "idle", "adding", "snap", "stopped"}
    /\ dirty \in BOOLEAN
    /\ timer \in {"stopped", "armed", "fired"}
    /\ unvisited \subseteq Dirs
    /\ seen \in [Dirs -> Content \cup {Gone}]
    /\ shot \in [Dirs -> Content \cup {Gone}]
    /\ cancelled \in BOOLEAN
    /\ changes \in Nat /\ faults \in Nat
    /\ missed \subseteq Dirs /\ dropped \subseteq Dirs /\ deaf \subseteq Dirs

Quiet == loop = "idle" /\ queue = <<>>

\* Whatever came and went while addTree was walking, when the loop has caught
\* up every directory is watched, moved-in subdirectories too (watch.go: w.Add
\* before the entries are read).  Excepted are those whose watch was refused or
\* whose creation an overflow swallowed.
Covered == Quiet => \A d \in Dirs : Exists(d) => d \in watched \cup deaf

\* When everything has settled, the last snapshot is the folder as it is:
\* changes during a snapshot's walk, in a directory too new to be watched, or
\* dropped from a full queue that holds a change, get into a later one.
\* Excepted is what nothing reported: changes before the first watch, behind a
\* refused watch, or drowned in noise, and those a failed snapshot had taken
\* upon itself; and what came or went with a muted directory (watch.go:102).
SettledSaved ==
    Quiet /\ timer = "stopped" =>
        \A d \in Dirs \ (missed \cup dropped) : shot[d] = tree[d]

\* A change that was reported and not dropped gets into a snapshot in the end,
\* unless the watcher is stopped first.
ChangesGetSaved ==
    \A d \in Dirs :
        shot[d] # tree[d] ~>
            shot[d] = tree[d] \/ d \in missed \cup dropped \/ cancelled
=============================================================================
