----------------------------- MODULE WatchProofs -----------------------------
(* Theorems about the watcher, for every tree of directories and every     *)
(* length of the queue.                                                    *)
EXTENDS Watch, TLAPS

USE DEF walk, watches, debounce, unsaved

(***************************************************************************)
(* Covered says something of a quiet loop only.  At any other moment, a    *)
(* directory without a watch is either about to be visited, or is in one   *)
(* that is: Sought.  SettledSaved rests on it, since a change nobody heard *)
(* must be in a directory that is still sought, on addTree staying beneath *)
(* the directory it was called for, which says whether its end will count  *)
(* as a change, and on what a snapshot under way has seen so far.          *)
(***************************************************************************)

Uncovered(d) == Exists(d) /\ d \notin watched \cup deaf

Sought ==
    \A d \in Dirs : Uncovered(d) =>
        \/ d \in agenda
        \/ Reported(d)
        \/ d # Root /\ (Parent[d] \in listing \/ Uncovered(Parent[d]))

\* What exists is in what exists, and only that has a watch.
Rooted ==
    /\ Exists(Root)
    /\ \A d \in Dirs \ {Root} : Exists(d) => Exists(Parent[d])
    /\ \A d \in watched \cup deaf : Exists(d)

Stages ==
    /\ agenda # {} \/ listing # {} => loop \in {"boot", "adding"}
    /\ loop = "adding" => agenda \cup listing \subseteq Below[at]
    /\ loop = "boot" => ~dirty
    /\ dirty => timer # "stopped"

\* The walk has seen nothing of where it has not been.
Unseen ==
    \A d \in Dirs : loop # "snap" \/ d \in unvisited => seen[d] = Gone

\* Every change that was heard and not dropped is in the last snapshot, will
\* start another or will be in the one that is being taken.
Recorded ==
    \A d \in Dirs \ (missed \cup dropped) :
        \/ Due
        \/ loop # "snap" /\ shot[d] = tree[d]
        \/ loop = "snap" /\ (d \in unvisited \/ seen[d] = tree[d])

Inv ==
    /\ WTypeOK
    /\ Rooted
    /\ Sought
    /\ Stages
    /\ Unseen
    /\ Recorded

-----------------------------------------------------------------------------
(* Trees *)

LEMMA BelowItself ==
    ASSUME NEW d \in Dirs
    PROVE  d \in Below[d] /\ Below[d] \subseteq Dirs
BY DEF Below

LEMMA BelowClosed ==
    ASSUME NEW d \in Dirs, NEW e \in Dirs \ {Root}, Parent[e] \in Below[d]
    PROVE  e \in Below[d]
BY DEF Below

LEMMA BelowLeast ==
    ASSUME NEW d \in Dirs, NEW D \in SUBSET Dirs, d \in D,
           \A e \in Dirs \ {Root} : Parent[e] \in D => e \in D
    PROVE  Below[d] \subseteq D
BY DEF Below

\* What is beneath d and is not d is in a directory that is.
LEMMA BelowParent ==
    ASSUME NEW d \in Dirs, NEW e \in Below[d], e # d, e # Root
    PROVE  Parent[e] \in Below[d]
<1> SUFFICES ASSUME Parent[e] \notin Below[d] PROVE FALSE
  OBVIOUS
<1> DEFINE D == Below[d] \ {e}
<1>1. D \in SUBSET Dirs /\ d \in D
  BY BelowItself
<1>2. \A x \in Dirs \ {Root} : Parent[x] \in D => x \in D
  BY BelowClosed
<1>3. Below[d] \subseteq D
  <2> HIDE DEF D
  <2> QED BY <1>1, <1>2, BelowLeast
<1> QED BY <1>3

\* The root is beneath no other directory.
LEMMA RootAbove ==
    ASSUME NEW d \in Dirs \ {Root}
    PROVE  Root \notin Below[d]
<1> DEFINE D == Dirs \ {Root}
<1>1. D \in SUBSET Dirs /\ d \in D
  OBVIOUS
<1>2. \A x \in Dirs \ {Root} : Parent[x] \in D => x \in D
  OBVIOUS
<1>3. Below[d] \subseteq D
  <2> HIDE DEF D
  <2> QED BY <1>1, <1>2, BelowLeast
<1> QED BY <1>3

\* Nothing exists beneath what does not exist.
LEMMA GoneBelow ==
    ASSUME WTypeOK, Rooted, NEW d \in Dirs, ~Exists(d), NEW e \in Below[d]
    PROVE  ~Exists(e)
<1> DEFINE D == {x \in Dirs : ~Exists(x)}
<1>1. D \in SUBSET Dirs /\ d \in D
  OBVIOUS
<1>2. \A x \in Dirs \ {Root} : Parent[x] \in D => x \in D
  BY WatchAssumption DEF Rooted
<1>3. Below[d] \subseteq D
  <2> HIDE DEF D
  <2> QED BY <1>1, <1>2, BelowLeast
<1> QED BY <1>3

\* When nothing is to be visited and no creation is waiting in the queue,
\* every directory is covered.
LEMMA AllCovered ==
    ASSUME Inv, agenda = {}, listing = {}, \A d \in Dirs : ~Reported(d),
           NEW d \in Dirs
    PROVE  ~Uncovered(d)
<1> DEFINE D == {x \in Dirs : ~Uncovered(x)}
<1>1. D \in SUBSET Dirs /\ Root \in D
  BY WatchAssumption DEF Inv, Sought
<1>2. \A x \in Dirs \ {Root} : Parent[x] \in D => x \in D
  BY DEF Inv, Sought
<1>3. D = Dirs
  <2> HIDE DEF D
  <2> QED BY <1>1, <1>2, WatchAssumption
<1> QED BY <1>3

\* A change in a directory that is not covered comes while something is due,
\* before addTree has been there the first time, or beneath a muted directory
\* that is still to be dealt with.
LEMMA UncoveredDue ==
    ASSUME Inv, NEW d \in Dirs, Uncovered(d)
    PROVE  Due \/ loop = "boot" \/ Arriving(d)
<1> DEFINE Excused(x) == Due \/ loop = "boot" \/ Arriving(x)
           D == {x \in Dirs : Uncovered(x) => Excused(x)}
<1>1. /\ WTypeOK /\ Sought /\ Stages
      /\ agenda \subseteq Dirs /\ listing \subseteq Dirs /\ at \in Dirs
  BY DEF Inv, WTypeOK
<1>2. ASSUME NEW x \in Dirs, Reported(x) PROVE Excused(x)
  <2>1. CASE x \in Muted
    BY <1>2, <2>1, BelowItself DEF Arriving
  <2>2. CASE x \notin Muted
    BY <1>2, <2>2 DEF Reported, Due, Counts, New
  <2> QED BY <2>1, <2>2
<1>3. ASSUME NEW x \in Dirs, loop = "adding", x \in Below[at] PROVE Excused(x)
  BY <1>1, <1>3 DEF Due, Arriving
<1>4. ASSUME NEW x \in agenda PROVE Excused(x)
  BY <1>1, <1>3, <1>4 DEF Stages
<1>5. Root \in D
  <2>1. Root \in Dirs
    BY WatchAssumption
  <2>2. Uncovered(Root) => Root \in agenda \/ Reported(Root)
    BY <1>1, <2>1 DEF Sought
  <2> HIDE DEF Excused
  <2> QED BY <1>2, <1>4, <2>1, <2>2
<1>6. ASSUME NEW x \in Dirs \ {Root}, Parent[x] \in D PROVE x \in D
  <2> SUFFICES ASSUME Uncovered(x) PROVE Excused(x)
    OBVIOUS
  <2>1. x \in agenda \/ Reported(x) \/ Parent[x] \in listing
        \/ Uncovered(Parent[x])
    BY <1>1 DEF Sought
  <2>2. CASE Parent[x] \in listing
    <3>1. loop = "boot" \/ (loop = "adding" /\ Parent[x] \in Below[at])
      BY <1>1, <2>2 DEF Stages
    <3>2. Parent[x] \in Below[at] => x \in Below[at]
      BY <1>1, BelowClosed
    <3> QED BY <1>3, <3>1, <3>2
  <2>3. CASE Uncovered(Parent[x])
    <3>1. Excused(Parent[x])
      BY <1>6, <2>3
    <3>2. \A m \in Muted : Parent[x] \in Below[m] => x \in Below[m]
      BY BelowClosed, WatchAssumption
    <3> QED BY <3>1, <3>2 DEF Arriving
  <2> HIDE DEF Excused
  <2> QED BY <1>2, <1>4, <2>1, <2>2, <2>3
<1>7. D \in SUBSET Dirs
  OBVIOUS
<1>8. D = Dirs
  <2> HIDE DEF D
  <2> QED BY <1>5, <1>6, <1>7, WatchAssumption
<1> QED BY <1>8

-----------------------------------------------------------------------------
LEMMA InvInit == WInit => Inv
<1> SUFFICES ASSUME WInit PROVE Inv
  OBVIOUS
<1>1. WTypeOK
  <2>1. queue \in Seq(Event) /\ Len(queue) <= QueueLimit
    BY WatchAssumption DEF WInit
  <2>2. tree \in [Dirs -> Content \cup {Gone}]
    BY DEF WInit
  <2> QED BY <2>1, <2>2, WatchAssumption DEF WInit, WTypeOK
<1>2. Rooted
  BY WatchAssumption DEF WInit, Rooted, Exists
<1>3. Sought
  <2> SUFFICES ASSUME NEW d \in Dirs, Uncovered(d), d # Root
               PROVE  Uncovered(Parent[d])
    BY WatchAssumption DEF WInit, Sought
  <2> QED BY WatchAssumption, <1>2 DEF WInit, Uncovered, Rooted
<1>4. Stages
  BY DEF WInit, Stages
<1>5. Unseen
  BY DEF WInit, Unseen
<1>6. Recorded
  BY DEF WInit, Recorded
<1> QED BY <1>1, <1>2, <1>3, <1>4, <1>5, <1>6 DEF Inv

-----------------------------------------------------------------------------
(* Types *)

LEMMA ReportType ==
    ASSUME WTypeOK, NEW e \in Event, NEW R, Report(e, R)
    PROVE  queue' \in Seq(Event) /\ Len(queue') <= QueueLimit
<1>1. queue \in Seq(Event) /\ Len(queue) \in Nat /\ QueueLimit \in Nat
      /\ Len(queue) <= QueueLimit
  BY WatchAssumption DEF WTypeOK
<1>2. CASE queue' = queue
  BY <1>1, <1>2
<1>3. CASE queue' = Append(queue, e) /\ Room
  BY <1>1, <1>3 DEF Room
<1> QED BY <1>2, <1>3 DEF Report

LEMMA FolderType ==
    ASSUME WTypeOK, NEW D \in SUBSET Dirs, NEW e \in Event, NEW R,
           Folder(D, e, R)
    PROVE  /\ queue' \in Seq(Event) /\ Len(queue') <= QueueLimit
           /\ changes' \in Nat
           /\ missed' \subseteq Dirs /\ dropped' \subseteq Dirs
<1>1. changes' \in Nat /\ missed' \subseteq Dirs /\ dropped' \subseteq Dirs
  BY DEF Folder, WTypeOK
<1> QED BY <1>1, ReportType DEF Folder

LEMMA Events ==
    Change \in Event /\ Noise \in Event /\ \A d \in Dirs : New(d) \in Event
BY DEF Event, Change, Noise, New

LEMMA TypeFolder ==
    ASSUME WTypeOK, NEW d \in Dirs, NEW c \in Content, NEW whole \in BOOLEAN,
           NEW event \in {Noise, Change},
           \/ Write(d, c) \/ Make(d, c, whole)
           \/ Destroy(d) \/ MoveAway(d) \/ Ignored(event)
    PROVE  WTypeOK'
<1>1. Below[d] \subseteq Dirs
  BY BelowItself
<1>2. ASSUME NEW D \in SUBSET Dirs, NEW e \in Event, NEW R, Folder(D, e, R)
      PROVE  /\ queue' \in Seq(Event) /\ Len(queue') <= QueueLimit
             /\ changes' \in Nat
             /\ missed' \subseteq Dirs /\ dropped' \subseteq Dirs
  BY <1>2, FolderType
<1>3. CASE Write(d, c)
  <2>1. Folder({d}, Change, {d})
    BY <1>3 DEF Write
  <2>2. /\ queue' \in Seq(Event) /\ Len(queue') <= QueueLimit
        /\ changes' \in Nat
        /\ missed' \subseteq Dirs /\ dropped' \subseteq Dirs
    BY <1>2, <2>1, Events
  <2> QED BY <1>3, <2>2 DEF Write, WTypeOK
<1>4. CASE Make(d, c, whole)
  <2>1. PICK D \in SUBSET Dirs : Folder(D, New(d), {Parent[d]})
    BY <1>1, <1>4 DEF Make
  <2>2. /\ queue' \in Seq(Event) /\ Len(queue') <= QueueLimit
        /\ changes' \in Nat
        /\ missed' \subseteq Dirs /\ dropped' \subseteq Dirs
    BY <1>2, <2>1, Events
  <2> QED BY <1>1, <1>4, <2>2 DEF Make, WTypeOK
<1>5. CASE Destroy(d) \/ MoveAway(d)
  <2>1. /\ Leave(d)
        /\ \E e \in Event, R \in SUBSET (Dirs \cup {Parent[d]}) :
              Folder(Below[d], e, R)
    BY <1>1, <1>5, Events DEF Destroy, MoveAway
  <2>2. /\ queue' \in Seq(Event) /\ Len(queue') <= QueueLimit
        /\ changes' \in Nat
        /\ missed' \subseteq Dirs /\ dropped' \subseteq Dirs
    BY <1>1, <1>2, <2>1
  <2> QED BY <2>1, <2>2 DEF Leave, WTypeOK
<1>6. CASE Ignored(event)
  <2>1. Folder({}, event, {Root}) /\ event \in Event
    BY <1>6, Events DEF Ignored
  <2>2. /\ queue' \in Seq(Event) /\ Len(queue') <= QueueLimit
        /\ changes' \in Nat
        /\ missed' \subseteq Dirs /\ dropped' \subseteq Dirs
    BY <1>2, <2>1
  <2> QED BY <1>6, <2>2 DEF Ignored, WTypeOK
<1> QED BY <1>3, <1>4, <1>5, <1>6

LEMMA TypeVisited ==
    ASSUME WTypeOK, NEW d \in Dirs,
           AddWatch(d) \/ AddRefused(d) \/ ReadEntries \/ EnterLoop \/ Added
    PROVE  WTypeOK'
<1>1. CASE AddWatch(d)
  BY <1>1 DEF AddWatch, Visited, WTypeOK
<1>2. CASE AddRefused(d)
  BY <1>2 DEF AddRefused, Visited, WTypeOK
<1>3. CASE ReadEntries
  BY <1>3 DEF ReadEntries, WTypeOK
<1>4. CASE EnterLoop
  BY <1>4 DEF EnterLoop, WTypeOK
<1>5. CASE Added
  BY <1>5, WatchAssumption DEF Added, Touch, WTypeOK
<1> QED BY <1>1, <1>2, <1>3, <1>4, <1>5

LEMMA TypeReceive ==
    ASSUME WTypeOK, Receive
    PROVE  WTypeOK'
<1>1. /\ queue \in Seq(Event) /\ queue # <<>> /\ Len(queue) <= QueueLimit
      /\ QueueLimit \in Nat /\ queue' = Tail(queue)
  BY WatchAssumption DEF Receive, WTypeOK
<1>2. queue' \in Seq(Event) /\ Len(queue') <= QueueLimit
  BY <1>1
<1>3. Head(queue) \in Event
  BY <1>1
<1>4. agenda' \subseteq Dirs /\ at' \in Dirs
  <2>1. CASE agenda' = agenda /\ at' = at
    BY <2>1 DEF WTypeOK
  <2>2. CASE /\ agenda' = {Head(queue).dir} /\ at' = Head(queue).dir
             /\ Head(queue).kind = "new"
    BY <1>3, <2>2 DEF Event
  <2> QED BY <2>1, <2>2 DEF Receive
<1>5. loop' \in {loop, "adding"} /\ dirty' \in {dirty, TRUE}
      /\ timer' \in {timer, "armed"}
  BY DEF Receive, Touch
<1>6. UNCHANGED <<tree, watched, listing, walk, shot, cancelled, changes,
                  faults, unsaved, deaf>>
  BY DEF Receive
<1> QED BY <1>2, <1>4, <1>5, <1>6 DEF WTypeOK

LEMMA TypeSnapshot ==
    ASSUME WTypeOK, NEW d \in Dirs,
           \/ Expire \/ Settled \/ Look(d) \/ SnapshotTaken \/ SnapshotFails
           \/ Exit \/ Cancel
    PROVE  WTypeOK'
<1>1. CASE Expire
  BY <1>1 DEF Expire, WTypeOK
<1>2. CASE Settled
  BY <1>2 DEF Settled, WTypeOK
<1>3. CASE Look(d)
  BY <1>3 DEF Look, WTypeOK
<1>4. CASE SnapshotTaken
  BY <1>4 DEF SnapshotTaken, WTypeOK
<1>5. CASE SnapshotFails
  BY <1>5 DEF SnapshotFails, WTypeOK
<1>6. CASE Exit
  BY <1>6 DEF Exit, WTypeOK
<1>7. CASE Cancel
  BY <1>7 DEF Cancel, WTypeOK
<1> QED BY <1>1, <1>2, <1>3, <1>4, <1>5, <1>6, <1>7

\* A step is one of these, of a directory.
LEMMA Steps ==
    ASSUME WTypeOK, WNext
    PROVE  \E d \in Dirs :
              \/ \E c \in Content, whole \in BOOLEAN :
                    Write(d, c) \/ Make(d, c, whole)
              \/ Destroy(d) \/ MoveAway(d)
              \/ \E event \in {Noise, Change} : Ignored(event)
              \/ AddWatch(d) \/ AddRefused(d) \/ ReadEntries \/ EnterLoop
              \/ Receive \/ Added
              \/ Expire \/ Settled \/ Look(d) \/ SnapshotTaken
              \/ SnapshotFails \/ Exit \/ Cancel
<1>1. CASE Run
  BY <1>1, WatchAssumption DEF Run, WTypeOK
<1>2. CASE Environment
  BY <1>2, WatchAssumption DEF Environment, WTypeOK
<1> QED BY <1>1, <1>2 DEF WNext

-----------------------------------------------------------------------------
(* The folder changes *)

LEMMA QueueGrows ==
    ASSUME WTypeOK, NEW e \in Event, NEW R, Report(e, R)
    PROVE  /\ \A i \in DOMAIN queue : i \in DOMAIN queue' /\ queue'[i] = queue[i]
           /\ R \cap watched # {} /\ Room =>
                \E i \in DOMAIN queue' : queue'[i] = e
<1>1. queue \in Seq(Event)
  BY DEF WTypeOK
<1>2. CASE queue' = queue /\ ~(R \cap watched # {} /\ Room)
  BY <1>2
<1>3. CASE queue' = Append(queue, e)
  <2>1. Len(queue) + 1 \in DOMAIN queue' /\ queue'[Len(queue) + 1] = e
    BY <1>1, <1>3
  <2>2. \A i \in DOMAIN queue : i \in DOMAIN queue' /\ queue'[i] = queue[i]
    BY <1>1, <1>3
  <2> QED BY <2>1, <2>2
<1> QED BY <1>2, <1>3 DEF Report

LEMMA StaysReported ==
    ASSUME WTypeOK, NEW e \in Event, NEW R, Report(e, R), NEW d \in Dirs
    PROVE  /\ Reported(d) => Reported(d)'
           /\ R \cap watched # {} /\ Room /\ e = New(d) => Reported(d)'
BY QueueGrows DEF Reported

LEMMA FolderRecorded ==
    ASSUME Inv, NEW D \in SUBSET Dirs, NEW e \in Event,
           NEW R \in SUBSET Dirs, NEW r \in R, Exists(r),
           Folder(D, e, R),
           \A d \in Dirs \ D : tree'[d] = tree[d],
           UNCHANGED <<loop, at, dirty, unvisited, seen, shot>>
    PROVE  Recorded'
<1>1. Due => Due'
  <2>1. \A i \in DOMAIN queue : i \in DOMAIN queue' /\ queue'[i] = queue[i]
    BY QueueGrows DEF Folder, Inv
  <2> QED BY <2>1 DEF Due
<1>2. R \cap watched # {} /\ Room /\ Counts(e) => Due'
  <2>1. R \cap watched # {} /\ Room => \E i \in DOMAIN queue' : queue'[i] = e
    BY QueueGrows DEF Folder, Inv
  <2> QED BY <2>1 DEF Due
<1>3. R \cap watched = {} =>
          Due \/ loop = "boot" \/ R \cap deaf # {} \/ Arriving(r)
  BY UncoveredDue DEF Uncovered
<1>4. Due' \/ D \subseteq missed' \cup dropped'
  BY <1>1, <1>2, <1>3 DEF Folder
<1>5. missed \subseteq missed' /\ dropped \subseteq dropped'
  BY DEF Folder
<1> SUFFICES ASSUME NEW d \in Dirs \ (missed' \cup dropped'), ~Due'
             PROVE  \/ loop # "snap" /\ shot[d] = tree'[d]
                    \/ loop = "snap" /\ (d \in unvisited \/ seen[d] = tree'[d])
  BY DEF Recorded
<1>6. tree'[d] = tree[d] /\ d \notin missed \cup dropped /\ ~Due
  BY <1>1, <1>4, <1>5
<1> QED BY <1>6 DEF Inv, Recorded

LEMMA StepWrite ==
    ASSUME Inv, NEW d \in Dirs, NEW c \in Content, Write(d, c)
    PROVE  Rooted' /\ Sought' /\ Stages' /\ Unseen' /\ Recorded'
<1>1. /\ Folder({d}, Change, {d})
      /\ tree' = [tree EXCEPT ![d] = c]
      /\ Exists(d)
      /\ UNCHANGED <<watches, loop, debounce, walk, shot, cancelled, faults, deaf>>
  BY DEF Write
<1>2. \A e \in Dirs : tree'[e] = IF e = d THEN c ELSE tree[e]
  BY <1>1 DEF Inv, WTypeOK
<1>3. \A e \in Dirs : Exists(e)' <=> Exists(e)
  BY <1>1, <1>2, WatchAssumption DEF Exists
<1>4. \A e \in Dirs : Reported(e) => Reported(e)'
  BY <1>1, StaysReported, Events DEF Folder, Inv
<1>5. Rooted'
  BY <1>1, <1>3, WatchAssumption DEF Inv, WTypeOK, Rooted
<1>6. Sought'
  BY <1>1, <1>3, <1>4, WatchAssumption DEF Inv, Sought, Uncovered
<1>7. Stages' /\ Unseen'
  BY <1>1 DEF Inv, Stages, Unseen
<1>8. Recorded'
  BY <1>1, <1>2, FolderRecorded, Events
<1> QED BY <1>5, <1>6, <1>7, <1>8

LEMMA StepIgnored ==
    ASSUME Inv, NEW event \in {Noise, Change}, Ignored(event)
    PROVE  Rooted' /\ Sought' /\ Stages' /\ Unseen' /\ Recorded'
<1>1. /\ Folder({}, event, {Root}) /\ event \in Event
      /\ UNCHANGED <<tree, watches, loop, debounce, walk, shot, cancelled,
                     faults, deaf>>
  BY Events DEF Ignored
<1>2. /\ \A i \in DOMAIN queue : i \in DOMAIN queue' /\ queue'[i] = queue[i]
      /\ missed' = missed /\ dropped' = dropped
  BY <1>1, QueueGrows DEF Folder, Inv
<1>3. (Due => Due') /\ \A e \in Dirs : Reported(e) => Reported(e)'
  BY <1>1, <1>2 DEF Due, Reported
<1> QED BY <1>1, <1>2, <1>3 DEF Inv, Rooted, Sought, Uncovered, Exists, Stages,
                                Unseen, Recorded

LEMMA StepMake ==
    ASSUME Inv, NEW d \in Dirs, NEW c \in Content, NEW whole \in BOOLEAN,
           Make(d, c, whole)
    PROVE  Rooted' /\ Sought' /\ Stages' /\ Unseen' /\ Recorded'
<1> DEFINE D == IF whole THEN Below[d] ELSE {d}
<1>1. /\ d # Root /\ ~Exists(d) /\ Exists(Parent[d])
      /\ tree' = [e \in Dirs |-> IF e \in D THEN c ELSE tree[e]]
      /\ Folder(D, New(d), {Parent[d]})
      /\ deaf' = IF \/ Parent[d] \in watched /\ ~Room
                    \/ Parent[d] \in deaf
                 THEN deaf \cup D ELSE deaf
      /\ UNCHANGED <<watches, loop, debounce, walk, shot, cancelled, faults>>
  BY DEF Make
<1>2. D \in SUBSET Dirs /\ d \in D /\ D \subseteq Below[d] /\ Parent[d] \in Dirs
      /\ New(d) \in Event
  BY <1>1, BelowItself, Events, WatchAssumption
<1>3. /\ \A e \in D : e = d \/ (e # Root /\ Parent[e] \in D)
      /\ \A e \in D : e # Root /\ ~Exists(e)
  BY <1>1, BelowParent, RootAbove, BelowItself, GoneBelow DEF Inv
<1> HIDE DEF D
<1>4. /\ \A e \in Dirs : Exists(e)' <=> Exists(e) \/ e \in D
      /\ \A e \in Dirs \ D : tree'[e] = tree[e]
  BY <1>1, WatchAssumption DEF Exists
<1>5. Rooted'
  BY <1>1, <1>2, <1>3, <1>4, WatchAssumption DEF Inv, WTypeOK, Rooted
<1>6. \A e \in Dirs : Reported(e) => Reported(e)'
  BY <1>1, <1>2, StaysReported DEF Folder, Inv
<1>7. Sought'
  <2> SUFFICES ASSUME NEW e \in Dirs, Uncovered(e)'
               PROVE  \/ e \in agenda
                      \/ Reported(e)'
                      \/ e # Root /\ (Parent[e] \in listing
                                      \/ Uncovered(Parent[e])')
    BY <1>1 DEF Sought
  <2>1. CASE e \notin D
    <3>1. Uncovered(e)
      BY <1>1, <1>4, <2>1 DEF Uncovered
    <3>2. CASE e # Root /\ Uncovered(Parent[e])
      <4>1. Parent[e] \in Dirs /\ Exists(Parent[e])'
        BY <1>4, <3>2, WatchAssumption DEF Uncovered
      <4>2. Parent[e] \notin deaf'
        BY <1>1, <1>3, <3>2 DEF Uncovered
      <4> QED BY <1>1, <3>2, <4>1, <4>2 DEF Uncovered
    <3> QED BY <1>6, <3>1, <3>2 DEF Inv, Sought
  <2>2. CASE e \in D /\ e # d
    <3>1. Parent[e] \in D /\ e # Root /\ Parent[e] \in Dirs
      BY <1>2, <1>3, <2>2
    <3>2. ~Exists(Parent[e])
      BY <1>3, <3>1
    <3>3. Parent[e] \notin watched \cup deaf
      BY <3>2 DEF Inv, Rooted
    <3>4. deaf' = deaf
      BY <1>1, <2>2 DEF Uncovered
    <3> QED BY <1>1, <1>4, <3>1, <3>3, <3>4 DEF Uncovered
  <2>3. CASE e = d
    <3>1. d \in D
      BY <1>2
    <3>2. deaf' = deaf /\ Parent[d] \notin deaf
          /\ ~(Parent[d] \in watched /\ ~Room)
      BY <1>1, <2>3, <3>1 DEF Uncovered
    <3>3. CASE Parent[d] \in watched
      BY <1>1, <1>2, <2>3, <3>2, <3>3, StaysReported DEF Folder, Inv
    <3>4. CASE Parent[d] \notin watched
      BY <1>1, <1>2, <1>4, <2>3, <3>2, <3>4 DEF Uncovered
    <3> QED BY <3>3, <3>4
  <2> QED BY <2>1, <2>2, <2>3
<1>8. Stages' /\ Unseen'
  BY <1>1 DEF Inv, Stages, Unseen
<1>9. Recorded'
  <2>1. {Parent[d]} \in SUBSET Dirs /\ Parent[d] \in {Parent[d]}
    BY <1>2
  <2> QED BY <1>1, <1>2, <1>4, <2>1, FolderRecorded
<1> QED BY <1>5, <1>7, <1>8, <1>9

LEMMA StepLeave ==
    ASSUME Inv, NEW d \in Dirs, Leave(d),
           NEW event \in Event, NEW R \in SUBSET Dirs, d \in R,
           Folder(Below[d], event, R)
    PROVE  Rooted' /\ Sought' /\ Stages' /\ Unseen' /\ Recorded'
<1>1. /\ d # Root /\ Exists(d)
      /\ tree' = [e \in Dirs |-> IF e \in Below[d] THEN Gone ELSE tree[e]]
      /\ watched' = watched \ Below[d] /\ deaf' = deaf \ Below[d]
      /\ UNCHANGED <<agenda, listing, at, loop, debounce, walk, shot>>
  BY DEF Leave
<1>2. \A e \in Dirs : Exists(e)' <=> Exists(e) /\ e \notin Below[d]
  BY <1>1 DEF Exists
<1>3. \A e \in Dirs \ {Root} :
          Parent[e] \in Dirs /\ (Parent[e] \in Below[d] => e \in Below[d])
  BY BelowClosed, WatchAssumption
<1>4. \A e \in Dirs : Reported(e) => Reported(e)'
  BY <1>1, StaysReported, Events DEF Folder, Inv
<1>5. \A e \in Dirs : Uncovered(e)' <=> Uncovered(e) /\ e \notin Below[d]
  BY <1>1, <1>2 DEF Uncovered
<1>6. Rooted'
  <2>1. Root \notin Below[d] /\ Root \in Dirs
    BY <1>1, RootAbove, WatchAssumption
  <2>2. watched \cup deaf \subseteq Dirs
    BY DEF Inv, WTypeOK
  <2> QED BY <1>1, <1>2, <1>3, <2>1, <2>2 DEF Inv, Rooted
<1>7. Sought'
  BY <1>1, <1>3, <1>4, <1>5 DEF Inv, Sought
<1>8. Stages' /\ Unseen'
  BY <1>1 DEF Inv, Stages, Unseen
<1>9. Recorded'
  <2>1. /\ Below[d] \in SUBSET Dirs
        /\ \A e \in Dirs \ Below[d] : tree'[e] = tree[e]
    BY <1>1, BelowItself
  <2> QED BY <1>1, <2>1, FolderRecorded
<1> QED BY <1>6, <1>7, <1>8, <1>9

LEMMA StepDestroy ==
    ASSUME Inv, NEW d \in Dirs, Destroy(d) \/ MoveAway(d)
    PROVE  Rooted' /\ Sought' /\ Stages' /\ Unseen' /\ Recorded'
<1>1. Leave(d) /\ d # Root
  BY DEF Destroy, MoveAway, Leave
<1>2. Parent[d] \in Dirs /\ d \in Below[d] /\ Below[d] \subseteq Dirs
  BY <1>1, BelowItself, WatchAssumption
<1>3. PICK event \in Event, R \in SUBSET Dirs :
          d \in R /\ Folder(Below[d], event, R)
  BY <1>2, Events DEF Destroy, MoveAway
<1> QED BY <1>1, <1>3, StepLeave

-----------------------------------------------------------------------------
(* addTree *)

LEMMA StepVisited ==
    ASSUME Inv, NEW d \in Dirs, AddWatch(d) \/ AddRefused(d)
    PROVE  Rooted' /\ Sought' /\ Stages' /\ Unseen' /\ Recorded'
<1>1. /\ loop \in {"boot", "adding"} /\ listing = {} /\ listing' = {d}
      /\ agenda' = agenda \ {d}
      /\ UNCHANGED <<at, tree, queue, loop, debounce, walk, shot, unsaved>>
      /\ watched \subseteq watched'
      /\ Exists(d) => d \in watched' \cup deaf'
      /\ \A e \in Dirs \ {d} : (e \in watched' <=> e \in watched)
                               /\ (e \in deaf' <=> e \in deaf)
      /\ \A e \in watched' \cup deaf' : Exists(e) \/ e \in watched \cup deaf
  BY DEF AddWatch, AddRefused, Visited
<1>2. Rooted'
  BY <1>1 DEF Inv, Rooted, Exists
<1>3. Sought'
  <2> SUFFICES ASSUME NEW e \in Dirs, Uncovered(e)'
               PROVE  \/ e \in agenda'
                      \/ Reported(e)'
                      \/ e # Root /\ (Parent[e] \in listing'
                                      \/ Uncovered(Parent[e])')
    BY DEF Sought
  <2>1. e # d /\ Uncovered(e)
    BY <1>1 DEF Uncovered, Exists
  <2>2. CASE e # Root /\ Uncovered(Parent[e]) /\ Parent[e] # d
    <3>1. Parent[e] \in Dirs \ {d}
      BY <2>2, WatchAssumption
    <3> QED BY <1>1, <2>2, <3>1 DEF Uncovered, Exists
  <2> QED BY <1>1, <2>1, <2>2 DEF Inv, Sought, Reported
<1>4. Stages'
  <2>1. d \in agenda
    BY DEF AddWatch, AddRefused, Visited
  <2> QED BY <1>1, <2>1 DEF Inv, Stages
<1>5. Unseen' /\ Recorded'
  BY <1>1 DEF Inv, Unseen, Recorded, Due
<1> QED BY <1>2, <1>3, <1>4, <1>5

LEMMA StepReadEntries ==
    ASSUME Inv, ReadEntries
    PROVE  Rooted' /\ Sought' /\ Stages' /\ Unseen' /\ Recorded'
<1>1. /\ listing # {} /\ listing' = {}
      /\ agenda' = agenda \cup
            {e \in Dirs \ {Root} : Parent[e] \in listing /\ Exists(e)}
      /\ UNCHANGED <<at, tree, watched, deaf, queue, loop, debounce, walk, shot,
                     unsaved>>
  BY DEF ReadEntries
<1>2. Rooted'
  BY <1>1 DEF Inv, Rooted, Exists
<1>3. Sought'
  BY <1>1 DEF Inv, Sought, Uncovered, Exists, Reported
<1>4. Stages'
  <2>1. listing \subseteq Below[at] => agenda' \subseteq agenda \cup Below[at]
    BY <1>1, BelowClosed DEF Inv, WTypeOK
  <2> QED BY <1>1, <2>1 DEF Inv, Stages
<1>5. Unseen' /\ Recorded'
  BY <1>1 DEF Inv, Unseen, Recorded, Due
<1> QED BY <1>2, <1>3, <1>4, <1>5

\* A step that leaves the folder, the watches and the queue alone and does not
\* wait for addTree.
LEMMA StepBeside ==
    ASSUME Inv, UNCHANGED <<tree, watched, agenda, listing, queue, deaf>>
    PROVE  Rooted' /\ Sought'
BY DEF Inv, Rooted, Sought, Uncovered, Exists, Reported

LEMMA StepAdded ==
    ASSUME Inv, EnterLoop \/ Added
    PROVE  Rooted' /\ Sought' /\ Stages' /\ Unseen' /\ Recorded'
<1>1. /\ UNCHANGED <<tree, watched, agenda, listing, queue, walk, shot, unsaved,
                     deaf>>
      /\ loop \in {"boot", "adding"} /\ loop' = "idle"
      /\ agenda = {} /\ listing = {}
      /\ \/ loop = "boot" /\ UNCHANGED debounce
         \/ loop = "adding" /\ at \in Muted /\ UNCHANGED debounce
         \/ dirty' = TRUE /\ timer' = "armed"
  BY DEF EnterLoop, Added, Touch, AddTreeDone
<1>2. Rooted' /\ Sought'
  BY <1>1, StepBeside
<1> QED BY <1>1, <1>2 DEF Inv, Stages, Unseen, Recorded, Due

-----------------------------------------------------------------------------
(* The select loop *)

LEMMA TailKeeps ==
    ASSUME WTypeOK, Receive, NEW i \in DOMAIN queue, queue[i] # Head(queue)
    PROVE  \E j \in DOMAIN queue' : queue'[j] = queue[i]
<1>1. queue \in Seq(Event) /\ queue # <<>> /\ queue' = Tail(queue)
  BY DEF WTypeOK, Receive
<1>2. i \in 1 .. Len(queue) /\ i # 1 /\ Len(queue) \in Nat
  BY <1>1
<1>3. i - 1 \in DOMAIN queue' /\ queue'[i - 1] = queue[i]
  BY <1>1, <1>2
<1> QED BY <1>3

LEMMA StepReceive ==
    ASSUME Inv, Receive
    PROVE  Rooted' /\ Sought' /\ Stages' /\ Unseen' /\ Recorded'
<1>1. /\ loop = "idle" /\ agenda = {} /\ listing = {}
      /\ UNCHANGED <<tree, watched, listing, walk, shot, unsaved, deaf>>
  BY DEF Receive, Inv, Stages
<1>2. \/ /\ Head(queue).kind = "new" /\ loop' = "adding"
         /\ agenda' = {Head(queue).dir} /\ at' = Head(queue).dir
         /\ UNCHANGED debounce
      \/ /\ Head(queue).kind # "new" \/ ~Exists(Head(queue).dir)
         /\ UNCHANGED <<loop, agenda, at>>
         /\ \/ ~Counts(Head(queue)) /\ UNCHANGED debounce
            \/ dirty' = TRUE /\ timer' = "armed"
  BY DEF Receive, Touch
<1>3. Rooted'
  BY <1>1 DEF Inv, Rooted, Exists
<1>4. Sought'
  <2> SUFFICES ASSUME NEW e \in Dirs, Uncovered(e)'
               PROVE  \/ e \in agenda'
                      \/ Reported(e)'
                      \/ e # Root /\ (Parent[e] \in listing'
                                      \/ Uncovered(Parent[e])')
    BY DEF Sought
  <2>1. Uncovered(e) /\ Exists(e)
    BY <1>1 DEF Uncovered, Exists
  <2>2. CASE Reported(e)
    <3>1. PICK i \in DOMAIN queue : queue[i] = New(e)
      BY <2>2 DEF Reported
    <3>2. CASE Head(queue) = New(e)
      <4>1. Head(queue).kind = "new" /\ Head(queue).dir = e
        BY <3>2 DEF New
      <4> QED BY <1>2, <2>1, <4>1
    <3>3. CASE Head(queue) # New(e)
      BY <3>1, <3>3, TailKeeps DEF Inv, Reported
    <3> QED BY <3>2, <3>3
  <2>3. CASE ~Reported(e)
    BY <1>1, <2>1, <2>3 DEF Inv, Sought, Uncovered, Exists
  <2> QED BY <2>2, <2>3
<1>5. Stages' /\ Unseen'
  <2>1. loop' = "adding" => agenda' \subseteq Below[at']
    <3>1. at' \in Dirs
      BY TypeReceive DEF Inv, WTypeOK
    <3> QED BY <1>1, <1>2, <3>1, BelowItself
  <2> QED BY <1>1, <1>2, <2>1 DEF Inv, Stages, Unseen
<1>6. Recorded'
  <2>1. CASE Counts(Head(queue))
    BY <1>2, <2>1 DEF Counts, Due, Recorded
  <2>2. CASE ~Counts(Head(queue))
    <3>1. (\E i \in DOMAIN queue : Counts(queue[i])) =>
              \E j \in DOMAIN queue' : Counts(queue'[j])
      BY <2>2, TailKeeps DEF Inv
    <3>2. Due => Due'
      BY <1>1, <1>2, <3>1 DEF Due
    <3> QED BY <1>1, <1>2, <3>2 DEF Inv, Recorded, Due
  <2> QED BY <2>1, <2>2
<1> QED BY <1>3, <1>4, <1>5, <1>6

LEMMA StepTimer ==
    ASSUME Inv, Expire \/ Exit \/ Cancel
    PROVE  Rooted' /\ Sought' /\ Stages' /\ Unseen' /\ Recorded'
<1>1. UNCHANGED <<tree, watches, queue, deaf>>
  BY DEF Expire, Exit, Cancel
<1>2. Rooted' /\ Sought'
  BY <1>1, StepBeside
<1>3. CASE Expire
  BY <1>2, <1>3 DEF Expire, Inv, Stages, Unseen, Recorded, Due
<1>4. CASE Exit
  BY <1>2, <1>4 DEF Exit, Inv, Stages, Unseen, Recorded, Due
<1>5. CASE Cancel
  BY <1>2, <1>5 DEF Cancel, Inv, Stages, Unseen, Recorded, Due
<1> QED BY <1>3, <1>4, <1>5

LEMMA StepSettled ==
    ASSUME Inv, Settled
    PROVE  Rooted' /\ Sought' /\ Stages' /\ Unseen' /\ Recorded'
<1>1. /\ UNCHANGED <<tree, watches, queue, deaf, seen, shot, unsaved>>
      /\ loop = "idle" /\ timer' = "stopped" /\ dirty' = FALSE
      /\ \/ dirty /\ loop' = "snap" /\ unvisited' = Dirs
         \/ ~dirty /\ UNCHANGED <<loop, unvisited>>
  BY DEF Settled
<1>2. Rooted' /\ Sought'
  BY <1>1, StepBeside
<1>3. Stages' /\ Unseen'
  BY <1>1 DEF Inv, Stages, Unseen
<1>4. Recorded'
  BY <1>1 DEF Inv, WTypeOK, Recorded, Due
<1> QED BY <1>2, <1>3, <1>4

LEMMA StepLook ==
    ASSUME Inv, NEW d \in Dirs, Look(d)
    PROVE  Rooted' /\ Sought' /\ Stages' /\ Unseen' /\ Recorded'
<1> DEFINE absent == UNION {Below[e] : e \in {x \in Children(d) : ~Exists(x)}}
<1>1. /\ UNCHANGED <<tree, watches, queue, loop, debounce, deaf, shot, unsaved>>
      /\ loop = "snap" /\ d \in unvisited
      /\ seen' = [seen EXCEPT ![d] = tree[d]]
      /\ unvisited' = unvisited \ ({d} \cup absent)
  BY DEF Look
<1>2. \A e \in absent : tree[e] = Gone
  BY GoneBelow DEF Children, Exists, Inv
<1> HIDE DEF absent
<1>3. Rooted' /\ Sought'
  BY <1>1, StepBeside
<1>4. \A e \in Dirs : seen'[e] = IF e = d THEN tree[d] ELSE seen[e]
  BY <1>1 DEF Inv, WTypeOK
<1>5. Stages' /\ Unseen'
  BY <1>1, <1>4 DEF Inv, Stages, Unseen
<1>6. Recorded'
  <2> SUFFICES ASSUME NEW e \in Dirs \ (missed \cup dropped), ~Due
               PROVE  e \in unvisited' \/ seen'[e] = tree[e]
    BY <1>1 DEF Recorded, Due
  <2>1. e \in unvisited \/ seen[e] = tree[e]
    BY <1>1 DEF Inv, Recorded
  <2>2. CASE e \in absent /\ e \in unvisited
    BY <1>2, <1>4, <2>2 DEF Inv, Unseen
  <2> QED BY <1>1, <1>4, <2>1, <2>2
<1> QED BY <1>3, <1>5, <1>6

LEMMA StepSnapshot ==
    ASSUME Inv, SnapshotTaken \/ SnapshotFails
    PROVE  Rooted' /\ Sought' /\ Stages' /\ Unseen' /\ Recorded'
<1>1. /\ UNCHANGED <<tree, watches, queue, debounce, deaf>>
      /\ loop = "snap" /\ loop' = "idle"
      /\ seen' = [d \in Dirs |-> Gone]
  BY DEF SnapshotTaken, SnapshotFails
<1>2. Rooted' /\ Sought'
  BY <1>1, StepBeside
<1>3. Stages' /\ Unseen'
  BY <1>1 DEF Inv, Stages, Unseen
<1>4. Due' <=> Due
  BY <1>1 DEF Due
<1>5. Recorded'
  <2> SUFFICES ASSUME NEW d \in Dirs \ (missed' \cup dropped'), ~Due
               PROVE  shot'[d] = tree[d]
    BY <1>1, <1>4 DEF Recorded
  <2>1. CASE SnapshotTaken
    <3>1. /\ shot' = seen /\ unvisited = {}
          /\ missed' = {e \in missed : seen[e] # tree[e]}
          /\ dropped' = {e \in dropped : seen[e] # tree[e]}
      BY <2>1 DEF SnapshotTaken
    <3> QED BY <1>1, <3>1 DEF Inv, Recorded
  <2>2. CASE SnapshotFails
    <3>1. /\ shot' = shot
          /\ missed' = missed \cup {e \in Dirs : shot[e] # tree[e]}
      BY <2>2 DEF SnapshotFails
    <3> QED BY <3>1
  <2> QED BY <2>1, <2>2
<1> QED BY <1>2, <1>3, <1>5

-----------------------------------------------------------------------------
LEMMA InvStep == Inv /\ [WNext]_wvars => Inv'
<1> SUFFICES ASSUME Inv, [WNext]_wvars PROVE Inv'
  OBVIOUS
<1>1. CASE UNCHANGED wvars
  BY <1>1 DEF wvars, Inv, WTypeOK, Rooted, Sought, Uncovered, Exists, Reported,
              Stages, Unseen, Recorded, Due
<1>2. CASE WNext
  <2>1. PICK d \in Dirs :
              \/ \E c \in Content, whole \in BOOLEAN :
                    Write(d, c) \/ Make(d, c, whole)
              \/ Destroy(d) \/ MoveAway(d)
              \/ \E event \in {Noise, Change} : Ignored(event)
              \/ AddWatch(d) \/ AddRefused(d) \/ ReadEntries \/ EnterLoop
              \/ Receive \/ Added
              \/ Expire \/ Settled \/ Look(d) \/ SnapshotTaken
              \/ SnapshotFails \/ Exit \/ Cancel
    BY <1>2, Steps DEF Inv
  <2>2. WTypeOK'
    <3>1. WTypeOK
      BY DEF Inv
    <3>2. CASE Content # {}
      BY <2>1, <3>1, <3>2, TypeFolder, TypeVisited, TypeReceive, TypeSnapshot
    <3>3. CASE Content = {}
      <4>1. tree \in [Dirs -> {Gone}] /\ Root \in Dirs /\ Exists(Root)
        BY <3>1, <3>3, WatchAssumption DEF WTypeOK, Inv, Rooted
      <4> QED BY <4>1 DEF Exists
    <3> QED BY <3>2, <3>3
  <2>3. Rooted' /\ Sought' /\ Stages' /\ Unseen' /\ Recorded'
    BY <2>1, StepWrite, StepMake, StepDestroy, StepIgnored, StepVisited,
       StepReadEntries, StepAdded, StepReceive, StepTimer, StepSettled,
       StepLook, StepSnapshot
  <2> QED BY <2>2, <2>3 DEF Inv
<1> QED BY <1>1, <1>2

-----------------------------------------------------------------------------
\* Every variable of the watcher keeps its type, and its queue its length.
THEOREM TypeCorrect == WSpec => []WTypeOK
<1>1. Inv => WTypeOK
  BY DEF Inv
<1> QED BY InvInit, InvStep, <1>1, PTL DEF WSpec

\* In any tree of directories, when the loop has caught up each directory is
\* watched, but those whose watch was refused or whose creation an overflow
\* swallowed (watch.go: addTree).
THEOREM EveryDirectoryIsWatched == WSpec => []Covered
<1>1. ASSUME Inv, Quiet, NEW d \in Dirs, Exists(d) PROVE d \in watched \cup deaf
  <2>1. /\ agenda = {} /\ listing = {}
        /\ \A e \in Dirs : ~Reported(e)
    BY <1>1 DEF Quiet, Inv, Stages, Reported
  <2> QED BY <1>1, <2>1, AllCovered DEF Uncovered
<1>2. Inv => Covered
  BY <1>1 DEF Covered
<1> QED BY InvInit, InvStep, <1>2, PTL DEF WSpec

\* In any tree of directories and with any length of the queue, when everything
\* has settled the last snapshot is the folder as it is, but for what nothing
\* reported and what came or went with a muted directory (watch.go: Run).
THEOREM SettledIsSaved == WSpec => []SettledSaved
<1>1. ASSUME Inv, Quiet, timer = "stopped",
             NEW d \in Dirs \ (missed \cup dropped)
      PROVE  shot[d] = tree[d]
  <2>1. ~Due /\ loop = "idle"
    BY <1>1 DEF Quiet, Inv, Stages, Due
  <2> QED BY <1>1, <2>1 DEF Inv, Recorded
<1>2. Inv => SettledSaved
  BY <1>1 DEF SettledSaved
<1> QED BY InvInit, InvStep, <1>2, PTL DEF WSpec
=============================================================================
