---------------------------- MODULE TimelineProofs ----------------------------
(* Theorems about the timeline browser, for every value of the constants. *)
EXTENDS Timeline, TLAPS

USE DEF shared, list, restoring

-----------------------------------------------------------------------------
(* Diff *)

LEMMA HashType ==
    ASSUME NEW t \in Tree, NEW p \in Path
    PROVE  /\ HashAt(t, p) \in Content \cup {Absent}
           /\ HashAt(t, p) = Absent <=> p \notin FilesOf(t)
BY DiffAssumption DEF HashAt, Tree, File, FilesOf

LEMMA NoFilesIsTree == NoFiles \in Tree
BY DEF NoFiles, Tree

\* The changes at one path.
LEMMA DiffAt ==
    ASSUME NEW from \in Tree, NEW to \in Tree, NEW p \in Path
    PROVE  LET here == {c \in Diff(from, to) : c.path = p}
               Is(kind) == here = {[path |-> p, kind |-> kind,
                                    old |-> HashAt(from, p),
                                    new |-> HashAt(to, p)]}
           IN  /\ HashAt(from, p) = HashAt(to, p) => here = {}
               /\ HashAt(from, p) # HashAt(to, p) =>
                    \/ Is("added") /\ HashAt(from, p) = Absent
                    \/ Is("removed") /\ HashAt(to, p) = Absent
                    \/ /\ Is("modified")
                       /\ Absent \notin {HashAt(from, p), HashAt(to, p)}
<1>1. /\ p \in FilesOf(from) <=> HashAt(from, p) # Absent
      /\ p \in FilesOf(to) <=> HashAt(to, p) # Absent
  BY HashType
<1>2. FilesOf(from) \subseteq Path /\ FilesOf(to) \subseteq Path
  BY DEF FilesOf
<1> QED BY <1>1, <1>2 DEF Diff

\* The changes between two trees turn the one into the other.
THEOREM DiffIsRight ==
    ASSUME NEW from \in Tree, NEW to \in Tree
    PROVE  Turns(Diff(from, to), from, to)
<1> SUFFICES ASSUME NEW p \in Path
             PROVE  LET here == {c \in Diff(from, to) : c.path = p}
                    IN  IF HashAt(from, p) = HashAt(to, p)
                        THEN here = {}
                        ELSE \E c \in here : /\ here = {c}
                                             /\ c.old = HashAt(from, p)
                                             /\ c.new = HashAt(to, p)
                                             /\ Fits(c, c.old)
  BY DEF Turns
<1>1. /\ HashAt(from, p) \in Content \cup {Absent}
      /\ HashAt(to, p) \in Content \cup {Absent}
  BY HashType
<1>2. CASE HashAt(from, p) = HashAt(to, p)
  BY <1>2, DiffAt
<1>3. ASSUME HashAt(from, p) # HashAt(to, p)
      PROVE  \E c \in {d \in Diff(from, to) : d.path = p} :
                /\ {d \in Diff(from, to) : d.path = p} = {c}
                /\ c.old = HashAt(from, p)
                /\ c.new = HashAt(to, p)
                /\ Fits(c, c.old)
  <2> DEFINE here == {d \in Diff(from, to) : d.path = p}
             The(kind) == [path |-> p, kind |-> kind, old |-> HashAt(from, p),
                           new |-> HashAt(to, p)]
  <2>1. \/ here = {The("added")} /\ HashAt(from, p) = Absent
        \/ here = {The("removed")} /\ HashAt(to, p) = Absent
        \/ /\ here = {The("modified")}
           /\ Absent \notin {HashAt(from, p), HashAt(to, p)}
    BY <1>3, DiffAt
  <2>2. CASE here = {The("added")} /\ HashAt(from, p) = Absent
    <3>1. Fits(The("added"), HashAt(from, p))
      BY <1>1, <1>3, <2>2 DEF Fits
    <3> QED BY <2>2, <3>1
  <2>3. CASE here = {The("removed")} /\ HashAt(to, p) = Absent
    <3>1. Fits(The("removed"), HashAt(from, p))
      BY <1>1, <1>3, <2>3 DEF Fits
    <3> QED BY <2>3, <3>1
  <2>4. CASE /\ here = {The("modified")}
             /\ Absent \notin {HashAt(from, p), HashAt(to, p)}
    <3>1. Fits(The("modified"), HashAt(from, p))
      BY <1>1, <1>3, <2>4 DEF Fits
    <3> QED BY <2>4, <3>1
  <2> QED BY <2>1, <2>2, <2>3, <2>4
<1> QED BY <1>2, <1>3

LEMMA DiffType ==
    ASSUME NEW from \in Tree, NEW to \in Tree
    PROVE  Diff(from, to) \subseteq Change
<1>1. \A p \in Path : /\ HashAt(from, p) \in Content \cup {Absent}
                      /\ HashAt(to, p) \in Content \cup {Absent}
  BY HashType
<1>2. FilesOf(from) \subseteq Path /\ FilesOf(to) \subseteq Path
  BY DEF FilesOf
<1> QED BY <1>1, <1>2 DEF Diff, Change, Kinds

-----------------------------------------------------------------------------
(* What the steps are made of *)

LEMMA EntryType == \A seq \in Seq(Tree) : \A i \in DOMAIN seq : seq[i] \in Tree
OBVIOUS

LEMMA LenType ==
    \A seq \in Seq(Tree) : /\ Len(seq) \in Nat /\ DOMAIN seq = 1..Len(seq)
                           /\ seq # <<>> => Len(seq) # 0
OBVIOUS

LEMMA ListingType ==
    ASSUME log \in Seq(Line)
    PROVE  /\ Listing \in Seq(Tree)
           /\ Len(Listing) = Len(log)
           /\ ToSet(Listing) = Ids(log)
<1> DEFINE n == Len(log)
           ids == [i \in DOMAIN log |-> log[i].id]
<1>1. n \in Nat /\ DOMAIN log = 1..n
  OBVIOUS
<1>2. \A i \in 1..n : log[i] \in Line
  OBVIOUS
<1>3. \A i \in 1..n : log[i].id \in Tree
  BY <1>2 DEF Line
<1>4. \A i \in 1..n : /\ n - i + 1 \in 1..n
                      /\ n - (n - i + 1) + 1 = i
  BY <1>1
<1>5. ids \in [1..n -> Tree] /\ Len(ids) = n
  BY <1>1, <1>3
<1>6. Listing = [i \in 1..n |-> log[n - i + 1].id]
  BY <1>1, <1>4, <1>5 DEF Listing, Reverse
<1> HIDE DEF n, ids
<1>7. Listing \in Seq(Tree) /\ Len(Listing) = n /\ DOMAIN Listing = 1..n
  BY <1>1, <1>3, <1>4, <1>6
<1>8. ASSUME NEW id PROVE id \in ToSet(Listing) <=> id \in Ids(log)
  <2>1. id \in ToSet(Listing) <=> \E i \in 1..n : id = log[n - i + 1].id
    BY <1>6, <1>7 DEF ToSet
  <2>2. id \in Ids(log) <=> \E i \in 1..n : id = log[i].id
    BY <1>1 DEF Ids
  <2>3. ASSUME NEW i \in 1..n, id = log[i].id
        PROVE  \E j \in 1..n : id = log[n - j + 1].id
    <3>1. log[i] = log[n - (n - i + 1) + 1]
      BY <1>4
    <3> QED BY <1>4, <2>3, <3>1
  <2> QED BY <1>4, <2>1, <2>2, <2>3
<1> QED BY <1>7, <1>8 DEF n

\* The line of a snapshot that can be read.
LEMMA ParentIsListed ==
    ASSUME log \in Seq(Line), NEW id, CanRead(id)
    PROVE  /\ id \in Tree /\ ParentOf(id) \in Tree \cup {None}
           /\ \E l \in ToSet(log) : l.id = id /\ l.parent = ParentOf(id)
<1>1. \E l \in ToSet(log) : l.id = id
  BY DEF CanRead, Ids, ToSet
<1>2. PICK l \in ToSet(log) :
        l = (CHOOSE k \in ToSet(log) : k.id = id) /\ l.id = id
  BY <1>1
<1>3. ToSet(log) \subseteq Line
  BY DEF ToSet
<1> QED BY <1>2, <1>3 DEF ParentOf, Line

LEMMA DescribeType ==
    ASSUME log \in Seq(Line), NEW id \in Tree
    PROVE  /\ Describe(id) \in [id : Tree, read : BOOLEAN,
                                changes : SUBSET Change]
           /\ Describe(id).id = id
<1>1. CASE CanRead(id)
  <2> DEFINE parent == ParentOf(id)
             from == IF parent # None /\ CanRead(parent) THEN parent ELSE NoFiles
  <2>1. from \in Tree
    BY <1>1, ParentIsListed, NoFilesIsTree
  <2>2. Diff(from, id) \subseteq Change
    BY <2>1, DiffType
  <2> HIDE DEF from
  <2> QED BY <1>1, <2>2 DEF Describe, from
<1>2. CASE ~CanRead(id)
  BY <1>2 DEF Describe
<1> QED BY <1>1, <1>2

LEMMA HeightType == \A h \in Heights \cup {0} : h \in Nat
BY TimelineAssumption

LEMMA EnsureVisibleIsRight ==
    ASSUME NEW o \in Nat, NEW c \in Nat, NEW h \in Nat
    PROVE  /\ EnsureVisible(o, c, ListHeight(h)) \in Nat
           /\ EnsureVisible(o, c, ListHeight(h)) <= c
           /\ c < EnsureVisible(o, c, ListHeight(h)) + ListHeight(h)
<1>1. ListHeight(h) \in Nat \ {0}
  BY TimelineAssumption DEF ListHeight
<1> QED BY <1>1 DEF EnsureVisible

\* The message has changed the list or the cursor, and the pane and the offset
\* follow.
LEMMA RefreshEffect ==
    ASSUME log \in Seq(Line), offset \in Nat, entries' \in Seq(Tree),
           height' \in Nat, ready' \in BOOLEAN,
           cursor' \in Nat \/ (cursor' = -1 /\ entries' = <<>>),
           Refresh
    PROVE  /\ pc' \in {"keys", "panic"} /\ offset' \in Nat
           /\ pc' = "panic" => cursor' + 1 \notin DOMAIN entries'
                               /\ entries' # <<>>
           /\ pc' = "keys" /\ ready' /\ entries' # <<>> =>
                /\ cursor' + 1 \in DOMAIN entries'
                /\ detail' = Describe(entries'[cursor' + 1])
                /\ offset' <= cursor'
                /\ cursor' < offset' + ListHeight(height')
           /\ detail' \in {detail} \cup [id : Tree, read : BOOLEAN,
                                         changes : SUBSET Change]
<1>1. CASE ~ready' \/ entries' = <<>>
  BY <1>1 DEF Refresh, View
<1>2. CASE /\ ready' /\ entries' # <<>>
           /\ cursor' + 1 \in DOMAIN entries'
  <2>1. entries'[cursor' + 1] \in Tree /\ cursor' \in Nat
    BY <1>2
  <2>2. offset' = EnsureVisible(offset, cursor', ListHeight(height'))
    BY <1>2 DEF Refresh, View
  <2>3. offset' \in Nat /\ offset' <= cursor'
           /\ cursor' < offset' + ListHeight(height')
    BY <2>1, <2>2, EnsureVisibleIsRight
  <2> QED BY <1>2, <2>1, <2>3, DescribeType DEF Refresh
<1>3. CASE /\ ready' /\ entries' # <<>>
           /\ cursor' + 1 \notin DOMAIN entries'
  BY <1>3 DEF Refresh
<1> QED BY <1>1, <1>2, <1>3

-----------------------------------------------------------------------------
(***************************************************************************)
(* RestoresWhatItNamed, PanicOnlyAfterPrune and CursorVisible are not      *)
(* inductive.  The first needs that a prompt names the snapshot under the  *)
(* cursor for as long as it waits, the second that the list on the screen  *)
(* is never longer than a timeline that is only added to, and the third    *)
(* that offset and pane were brought up to date with the last message that *)
(* moved the cursor, also while a restore is under way.                    *)
(***************************************************************************)

Restoring == pc \in {"safety", "write", "reload"}

Closed ==
    pc = "closed" => /\ entries = <<>> /\ cursor = 0
                     /\ ~ready /\ ~confirming

Asked ==
    /\ Restoring => confirming /\ entries # <<>>
    /\ confirming /\ pc = "keys" =>
        /\ cursor + 1 \in DOMAIN entries
        /\ status = Says("confirm", entries[cursor + 1])

Shorter == ~pruned => Len(entries) <= Len(log)

InList == ~pruned /\ entries # <<>> => cursor + 1 \in DOMAIN entries

UpToDate ==
    pc # "panic" /\ ready /\ entries # <<>> =>
        /\ offset <= cursor /\ cursor < offset + ListHeight(height)
        /\ cursor + 1 \in DOMAIN entries
        /\ detail.id = entries[cursor + 1]

IInv ==
    /\ TTypeOK
    /\ Closed
    /\ Asked
    /\ RestoresWhatItNamed
    /\ Shorter
    /\ PanicOnlyAfterPrune
    /\ UpToDate

LEMMA InvInit == TInit => IInv
<1> SUFFICES ASSUME TInit PROVE IInv
  OBVIOUS
<1>1. TTypeOK
  <2>1. log \in Seq(Line) /\ entries \in Seq(Tree)
    BY DEF TInit
  <2> QED BY <2>1 DEF TInit, TTypeOK, Says, Silent
<1>2. Closed /\ Asked /\ RestoresWhatItNamed /\ UpToDate
  BY DEF TInit, Closed, Asked, Restoring, RestoresWhatItNamed, UpToDate
<1>3. Shorter /\ PanicOnlyAfterPrune
  BY DEF TInit, Shorter, PanicOnlyAfterPrune
<1> QED BY <1>1, <1>2, <1>3 DEF IInv

\* No other process touches what the browser holds.
LEMMA OtherStep ==
    ASSUME IInv, log' \in Seq(Line), torn' \in BOOLEAN,
           UNCHANGED <<pc, list, confirming, status, detail, restoring>>,
           pruned' \in BOOLEAN, ~pruned' => ~pruned, Shorter'
    PROVE  IInv'
<1> USE DEF IInv
<1>0. /\ UNCHANGED <<pc, entries, cursor, offset, ready, height>>
      /\ UNCHANGED <<confirming, status, detail, target, safety>>
  OBVIOUS
<1>1. TTypeOK'
  <2>1. /\ (/\ pc \in {"closed", "keys", "safety", "write", "reload", "quit",
                     "panic"}
           /\ entries \in Seq(Tree)
           /\ (cursor \in Nat \/ (cursor = -1 /\ entries = <<>>))
           /\ offset \in Nat /\ ready \in BOOLEAN)'
    BY <1>0 DEF TTypeOK
  <2> QED BY <1>0, <2>1 DEF TTypeOK
<1>2. Closed' /\ Asked' /\ RestoresWhatItNamed' /\ UpToDate'
  BY DEF Closed, Asked, Restoring, RestoresWhatItNamed, UpToDate
<1>3. PanicOnlyAfterPrune'
  BY DEF TTypeOK, PanicOnlyAfterPrune
<1> QED BY <1>1, <1>2, <1>3

LEMMA CaptureEffect ==
    ASSUME log \in Seq(Line), NEW tree \in Tree, Capture(tree)
    PROVE  log' \in Seq(Line) /\ Len(log) <= Len(log')
<1>1. NewestId(log) \in Tree \cup {None}
  <2>1. CASE log = <<>>
    BY <2>1 DEF NewestId
  <2>2. CASE log # <<>>
    <3>1. log[Len(log)] \in Line
      BY <2>2
    <3> QED BY <2>2, <3>1 DEF NewestId, Last, Line
  <2> QED BY <2>1, <2>2
<1>2. [id |-> tree, parent |-> NewestId(log)] \in Line
  BY <1>1 DEF Line
<1> QED BY <1>2 DEF Capture

LEMMA PruneEffect ==
    ASSUME log \in Seq(Line), NEW keep \in Selections,
           log' = [i \in DOMAIN keep |-> log[keep[i]]]
    PROVE  log' \in Seq(Line)
<1>1. PICK n \in 1..(Len(log) - 1) : keep \in [1..n -> DOMAIN log]
  BY DEF Selections
<1>2. n \in Nat /\ \A i \in 1..n : log[keep[i]] \in Line
  BY <1>1
<1> QED BY <1>1, <1>2

\* The steps that end in a drawing.
LEMMA DrawingStep ==
    ASSUME IInv, entries' \in Seq(Tree), height' \in Heights \cup {0},
           ready' \in BOOLEAN,
           cursor' \in Nat \/ (cursor' = -1 /\ entries' = <<>>),
           Refresh,
           UNCHANGED shared, pc \in {"keys", "reload"},
           confirming' \in BOOLEAN,
           confirming' => /\ pc = "keys"
                          /\ UNCHANGED <<confirming, status, entries, cursor>>,
           status' \in [kind : {"", "confirm", "error", "failed", "restored"},
                        id : Tree \cup {None}],
           target' \in Tree \cup {None}, safety' \in Tree \cup {None},
           Shorter', InList'
    PROVE  IInv'
<1>1. log \in Seq(Line) /\ offset \in Nat /\ height' \in Nat
  <2>1. height' \in Nat
    BY HeightType
  <2> QED BY <2>1 DEF IInv, TTypeOK
<1>2. /\ pc' \in {"keys", "panic"} /\ offset' \in Nat
      /\ pc' = "panic" => cursor' + 1 \notin DOMAIN entries'
                          /\ entries' # <<>>
      /\ pc' = "keys" /\ ready' /\ entries' # <<>> =>
           /\ cursor' + 1 \in DOMAIN entries'
           /\ detail' = Describe(entries'[cursor' + 1])
           /\ offset' <= cursor'
           /\ cursor' < offset' + ListHeight(height')
      /\ detail' \in {detail} \cup [id : Tree, read : BOOLEAN,
                                    changes : SUBSET Change]
  BY <1>1, RefreshEffect
<1>3. TTypeOK'
  BY <1>2 DEF IInv, TTypeOK
<1>4. Closed' /\ Asked' /\ RestoresWhatItNamed'
  BY <1>2 DEF IInv, Closed, Asked, Restoring, RestoresWhatItNamed
<1>5. PanicOnlyAfterPrune'
  BY <1>2 DEF InList, PanicOnlyAfterPrune
<1>6. UpToDate'
  <2> SUFFICES ASSUME pc' = "keys", ready', entries' # <<>>
               PROVE  detail'.id = entries'[cursor' + 1]
    BY <1>2 DEF UpToDate
  <2>1. cursor' + 1 \in DOMAIN entries'
    BY <1>2
  <2>2. entries'[cursor' + 1] \in Tree
    BY <2>1, EntryType
  <2> QED BY <1>1, <1>2, <2>2, DescribeType
<1> QED BY <1>3, <1>4, <1>5, <1>6 DEF IInv

-----------------------------------------------------------------------------
(* IInv is inductive *)

LEMMA SnapshotStep ==
    ASSUME IInv, NEW tree \in Tree, Snapshot(tree)
    PROVE  IInv'
<1>1. log \in Seq(Line) /\ pruned \in BOOLEAN /\ torn \in BOOLEAN
      /\ entries \in Seq(Tree)
  BY DEF IInv, TTypeOK
<1>2. log' \in Seq(Line) /\ Len(log) <= Len(log')
  BY <1>1, CaptureEffect DEF Snapshot
<1>3. UNCHANGED <<pc, list, confirming, status, detail, restoring>>
  BY DEF Snapshot, Other
<1>4. pruned' = pruned /\ torn' = torn
  BY DEF Snapshot
<1>5. Shorter'
  BY <1>1, <1>2, <1>3, <1>4 DEF IInv, Shorter
<1> QED BY <1>1, <1>2, <1>3, <1>4, <1>5, OtherStep

LEMMA PruneStep ==
    ASSUME IInv, NEW keep \in Selections, Prune(keep)
    PROVE  IInv'
<1>1. log \in Seq(Line) /\ pruned \in BOOLEAN /\ torn \in BOOLEAN
      /\ entries \in Seq(Tree)
  BY DEF IInv, TTypeOK
<1>2. log' \in Seq(Line)
  BY <1>1, PruneEffect DEF Prune
<1>3. UNCHANGED <<pc, list, confirming, status, detail, restoring>>
  BY DEF Prune, Other
<1>4. pruned' = (pruned \/ pc # "closed") /\ torn' = torn
  BY DEF Prune
<1>5. Shorter'
  <2>1. pc # "closed" => pruned'
    BY <1>4
  <2>2. pc = "closed" => entries' = <<>>
    BY <1>3 DEF IInv, Closed
  <2>3. Len(log') \in Nat
    BY <1>2
  <2> QED BY <2>1, <2>2, <2>3 DEF Shorter
<1> QED BY <1>1, <1>2, <1>3, <1>4, <1>5, OtherStep

LEMMA TearStep == IInv /\ Tear => IInv'
<1> SUFFICES ASSUME IInv, Tear PROVE IInv'
  OBVIOUS
<1>1. log \in Seq(Line) /\ pruned \in BOOLEAN
  BY DEF IInv, TTypeOK
<1>2. UNCHANGED <<log, pruned, pc, list, confirming, status, detail, restoring>>
      /\ torn' = TRUE
  BY DEF Tear
<1>3. Shorter'
  BY <1>2 DEF IInv, Shorter
<1> QED BY <1>1, <1>2, <1>3, OtherStep

LEMMA OpenStep == IInv /\ Open => IInv'
<1> SUFFICES ASSUME IInv, Open PROVE IInv'
  OBVIOUS
<1>1. log \in Seq(Line) /\ cursor = 0 /\ ~ready /\ ~confirming
  BY DEF IInv, TTypeOK, Closed, Open
<1>2. entries' \in Seq(Tree) /\ Len(entries') = Len(log)
  BY <1>1, ListingType DEF Open
<1>3. TTypeOK'
  BY <1>1, <1>2 DEF IInv, TTypeOK, Open
<1>4. Closed' /\ Asked' /\ RestoresWhatItNamed' /\ UpToDate'
  BY <1>1 DEF Open, Closed, Asked, Restoring, RestoresWhatItNamed, UpToDate
<1>5. Shorter' /\ PanicOnlyAfterPrune'
  BY <1>1, <1>2 DEF Open, Shorter, PanicOnlyAfterPrune
<1> QED BY <1>3, <1>4, <1>5 DEF IInv

\* A key that moves the cursor, to where the list has an entry.
LEMMA JumpStep ==
    ASSUME IInv, NEW c \in Int, Jump(c),
           entries # <<>> => c \in 0..(Len(entries) - 1),
           entries = <<>> => c \in {-1, 0}
    PROVE  IInv'
<1>1. /\ entries \in Seq(Tree) /\ height \in Heights \cup {0}
      /\ ready \in BOOLEAN /\ confirming = FALSE
      /\ status \in [kind : {"", "confirm", "error", "failed", "restored"},
                     id : Tree \cup {None}]
      /\ target \in Tree \cup {None} /\ safety \in Tree \cup {None}
  BY DEF IInv, TTypeOK, Jump
<1>2. /\ pc = "keys" /\ cursor' = c /\ Refresh
      /\ UNCHANGED <<entries, ready, height, shared, confirming, status>>
      /\ UNCHANGED <<target, safety>>
  BY DEF Jump
<1>3. entries' = entries /\ pruned' = pruned /\ log' = log
  BY <1>2
<1>4. CASE entries = <<>>
  <2>1. cursor' \in Nat \/ (cursor' = -1 /\ entries' = <<>>)
    BY <1>2, <1>3, <1>4
  <2>2. Shorter' /\ InList'
    BY <1>3, <1>4 DEF IInv, Shorter, InList
  <2> QED BY <1>1, <1>2, <2>1, <2>2, DrawingStep
<1>5. CASE entries # <<>>
  <2>1. Len(entries) \in Nat \ {0} /\ DOMAIN entries = 1..Len(entries)
    BY <1>1, <1>5, LenType
  <2>2. cursor' \in Nat /\ cursor' + 1 \in DOMAIN entries
    BY <1>2, <1>5, <2>1
  <2>3. Shorter' /\ InList'
    BY <1>3, <2>2 DEF IInv, Shorter, InList
  <2> QED BY <1>1, <1>2, <2>2, <2>3, DrawingStep
<1> QED BY <1>4, <1>5

LEMMA MoveStep ==
    ASSUME IInv, NEW delta \in {-1, 1}, Move(delta)
    PROVE  IInv'
<1> DEFINE c == cursor + delta
           to == IF c < 0 THEN 0
                 ELSE IF c >= Len(entries) THEN Len(entries) - 1 ELSE c
<1>1. Jump(to) /\ entries # <<>>
  BY DEF Move
<1>2. entries \in Seq(Tree) /\ cursor \in Nat
  BY <1>1 DEF IInv, TTypeOK
<1>4. Len(entries) \in Nat \ {0}
  BY <1>1, <1>2, LenType
<1>3. to \in 0..(Len(entries) - 1)
  BY <1>2, <1>4
<1> HIDE DEF to
<1> QED BY <1>1, <1>2, <1>3, JumpStep

LEMMA ResizeStep ==
    ASSUME IInv, NEW h \in Heights, Resize(h)
    PROVE  IInv'
<1>1. /\ entries \in Seq(Tree) /\ confirming \in BOOLEAN
      /\ cursor \in Nat \/ (cursor = -1 /\ entries = <<>>)
      /\ status \in [kind : {"", "confirm", "error", "failed", "restored"},
                     id : Tree \cup {None}]
      /\ target \in Tree \cup {None} /\ safety \in Tree \cup {None}
  BY DEF IInv, TTypeOK
<1>2. /\ pc = "keys" /\ height' = h /\ ready' = TRUE /\ Refresh
      /\ UNCHANGED <<entries, cursor, shared, confirming, status>>
      /\ UNCHANGED <<target, safety>>
  BY DEF Resize
<1>3. Shorter' /\ InList'
  BY <1>1, <1>2 DEF IInv, Shorter, InList, PanicOnlyAfterPrune
<1> QED BY <1>1, <1>2, <1>3, DrawingStep

\* The keys that leave list, pane and history alone.
LEMMA PromptStep == IInv /\ (Quit \/ Ask \/ Refuse) => IInv'
<1> SUFFICES ASSUME IInv PROVE Quit \/ Ask \/ Refuse => IInv'
  OBVIOUS
<1>1. CASE Quit
  <2>1. TTypeOK'
    <3>1. /\ pc' = "quit"
          /\ UNCHANGED <<log, torn, pruned, entries, cursor, offset, ready>>
          /\ UNCHANGED <<height, confirming, status, detail, target, safety>>
      BY <1>1 DEF Quit
    <3>2. entries' \in Seq(Tree) /\ log' \in Seq(Line)
          /\ (cursor \in Nat \/ (cursor = -1 /\ entries = <<>>))'
      BY <3>1 DEF IInv, TTypeOK
    <3>3. (status \in [kind : {"", "confirm", "error", "failed", "restored"},
                       id : Tree \cup {None}])'
      BY <3>1 DEF IInv, TTypeOK
    <3>4. (detail \in [id : Tree, read : BOOLEAN, changes : SUBSET Change]
                        \cup {None})'
      BY <3>1 DEF IInv, TTypeOK
    <3> QED BY <3>1, <3>2, <3>3, <3>4 DEF IInv, TTypeOK
  <2> QED BY <1>1, <2>1 DEF IInv, Quit, Closed, Asked, Restoring,
             RestoresWhatItNamed, Shorter, PanicOnlyAfterPrune, UpToDate
<1>2. CASE Ask
  <2>1. /\ pc = "keys" /\ UNCHANGED <<shared, list, detail, restoring>>
        /\ entries # <<>>
    BY <1>2 DEF Ask
  <2>2. CASE cursor + 1 \in DOMAIN entries
    <3>1. /\ confirming' = TRUE /\ status' = Says("confirm", entries[cursor + 1])
          /\ pc' = "keys"
      BY <1>2, <2>2 DEF Ask
    <3>2. entries[cursor + 1] \in Tree
      BY <2>2, EntryType DEF IInv, TTypeOK
    <3>3. TTypeOK'
      BY <2>1, <3>1, <3>2 DEF IInv, TTypeOK, Says
    <3> QED BY <2>1, <2>2, <3>1, <3>3 DEF IInv, Closed, Asked, Restoring,
               RestoresWhatItNamed, Shorter, PanicOnlyAfterPrune, UpToDate
  <2>3. CASE cursor + 1 \notin DOMAIN entries
    <3>1. pc' = "panic" /\ UNCHANGED <<confirming, status>>
      BY <1>2, <2>3 DEF Ask
    <3>2. TTypeOK'
      <4>1. /\ UNCHANGED <<log, torn, pruned, entries, cursor, offset, ready>>
            /\ UNCHANGED <<height, detail, target, safety>>
        BY <2>1
      <4>2. entries' \in Seq(Tree) /\ log' \in Seq(Line)
            /\ (cursor \in Nat \/ (cursor = -1 /\ entries = <<>>))'
        BY <4>1 DEF IInv, TTypeOK
      <4>3. (status \in [kind : {"", "confirm", "error", "failed", "restored"},
                         id : Tree \cup {None}])'
        BY <3>1 DEF IInv, TTypeOK
      <4>4. (detail \in [id : Tree, read : BOOLEAN, changes : SUBSET Change]
                          \cup {None})'
        BY <4>1 DEF IInv, TTypeOK
      <4> QED BY <3>1, <4>1, <4>2, <4>3, <4>4 DEF IInv, TTypeOK
    <3>3. pruned
      BY <2>1, <2>3 DEF IInv, PanicOnlyAfterPrune
    <3> QED BY <2>1, <3>1, <3>2, <3>3 DEF IInv, Closed, Asked, Restoring,
               RestoresWhatItNamed, Shorter, PanicOnlyAfterPrune, UpToDate
  <2> QED BY <2>2, <2>3
<1>3. CASE Refuse
  <2>1. TTypeOK'
    BY <1>3 DEF IInv, TTypeOK, Refuse, Silent, Says
  <2> QED BY <1>3, <2>1 DEF IInv, Refuse, Closed, Asked, Restoring,
             RestoresWhatItNamed, Shorter, PanicOnlyAfterPrune, UpToDate
<1> QED BY <1>1, <1>2, <1>3

LEMMA AcceptStep == IInv /\ Accept => IInv'
<1> SUFFICES ASSUME IInv, Accept PROVE IInv'
  OBVIOUS
<1>1. /\ pc = "keys" /\ confirming /\ UNCHANGED <<shared, list, detail>>
      /\ cursor + 1 \in DOMAIN entries
      /\ status = Says("confirm", entries[cursor + 1])
  BY DEF Accept, IInv, Asked
<1>2. entries[cursor + 1] \in Tree
  BY <1>1, EntryType DEF IInv, TTypeOK
<1>3. entries # <<>>
  BY <1>1
<1>4. CASE CanRead(entries[cursor + 1])
  <2>1. /\ pc' = "safety" /\ target' = entries[cursor + 1]
        /\ UNCHANGED <<confirming, status, safety>>
    BY <1>4 DEF Accept
  <2>2. TTypeOK'
    BY <1>1, <1>2, <2>1 DEF IInv, TTypeOK
  <2> QED BY <1>1, <1>3, <2>1, <2>2 DEF IInv, Closed, Asked, Restoring, Says,
             RestoresWhatItNamed, Shorter, PanicOnlyAfterPrune, UpToDate
<1>5. CASE ~CanRead(entries[cursor + 1])
  <2>1. Leave("error") /\ pc' = pc
    BY <1>5 DEF Accept
  <2>2. TTypeOK'
    BY <1>1, <2>1 DEF IInv, TTypeOK, Leave, Says
  <2> QED BY <1>1, <2>1, <2>2 DEF IInv, Closed, Asked, Restoring, Leave,
             RestoresWhatItNamed, Shorter, PanicOnlyAfterPrune, UpToDate
<1> QED BY <1>4, <1>5

LEMMA SafetyStep ==
    ASSUME IInv, NEW tree \in Tree, TakeSafety(tree)
    PROVE  IInv'
<1>1. /\ pc = "safety" /\ pc' = "write" /\ safety' = tree
      /\ UNCHANGED <<torn, pruned, list, confirming, status, detail, target>>
  BY DEF TakeSafety
<1>2. log \in Seq(Line) /\ entries \in Seq(Tree)
  BY DEF IInv, TTypeOK
<1>3. log' \in Seq(Line) /\ Len(log) <= Len(log')
  BY <1>2, CaptureEffect DEF TakeSafety
<1>4. TTypeOK'
  <2>1. /\ UNCHANGED <<torn, pruned, entries, cursor, offset, ready>>
        /\ UNCHANGED <<height, confirming, status, detail, target>>
    BY <1>1
  <2>2. entries' \in Seq(Tree)
        /\ (cursor \in Nat \/ (cursor = -1 /\ entries = <<>>))'
    BY <2>1 DEF IInv, TTypeOK
  <2> QED BY <1>1, <1>3, <2>1, <2>2 DEF IInv, TTypeOK
<1>5. Shorter'
  BY <1>1, <1>2, <1>3 DEF IInv, Shorter
<1> QED BY <1>1, <1>4, <1>5 DEF IInv, Closed, Asked, Restoring,
           RestoresWhatItNamed, PanicOnlyAfterPrune, UpToDate

LEMMA WriteStep == IInv /\ (Write \/ RestoreFails) => IInv'
<1> SUFFICES ASSUME IInv PROVE Write \/ RestoreFails => IInv'
  OBVIOUS
<1>1. CASE Write
  <2>1. TTypeOK'
    BY <1>1 DEF IInv, TTypeOK, Write, Says
  <2> QED BY <1>1, <2>1 DEF IInv, Write, Closed, Asked, Restoring,
             RestoresWhatItNamed, Shorter, PanicOnlyAfterPrune, UpToDate
<1>2. CASE RestoreFails
  <2>1. TTypeOK'
    BY <1>2 DEF IInv, TTypeOK, RestoreFails, Leave, Says
  <2> QED BY <1>2, <2>1 DEF IInv, RestoreFails, Leave, Closed, Asked, Restoring,
             RestoresWhatItNamed, Shorter, PanicOnlyAfterPrune, UpToDate
<1> QED BY <1>1, <1>2

LEMMA ReloadStep == IInv /\ Reload => IInv'
<1> SUFFICES ASSUME IInv, Reload PROVE IInv'
  OBVIOUS
<1>1. /\ pc = "reload" /\ Refresh /\ Leave("restored")
      /\ UNCHANGED <<cursor, ready, height, shared>>
      /\ entries' = IF torn THEN entries ELSE Listing
  BY DEF Reload
<1>2. /\ log \in Seq(Line) /\ entries \in Seq(Tree) /\ entries # <<>>
      /\ cursor \in Nat /\ height \in Heights \cup {0} /\ ready \in BOOLEAN
  BY <1>1 DEF IInv, TTypeOK, Asked, Restoring
<1>3. /\ entries' \in Seq(Tree)
      /\ Len(entries') = Len(entries) \/ Len(entries') = Len(log)
      /\ Len(entries') = Len(entries) => torn \/ Len(entries) = Len(log)
  BY <1>1, <1>2, ListingType
<1>4. Shorter'
  BY <1>1, <1>2, <1>3, LenType DEF IInv, Shorter
<1>5. InList'
  <2> SUFFICES ASSUME ~pruned, entries' # <<>>
               PROVE  cursor + 1 \in DOMAIN entries'
    BY <1>1 DEF InList
  <2>1. cursor + 1 \in DOMAIN entries
    BY <1>2 DEF IInv, PanicOnlyAfterPrune
  <2>2. Len(entries) <= Len(entries')
    <3>1. CASE torn
      BY <1>1, <1>2, <3>1, LenType
    <3>2. CASE ~torn
      BY <1>1, <1>2, <3>2, ListingType DEF IInv, Shorter
    <3> QED BY <3>1, <3>2
  <2>3. cursor + 1 \in 1..Len(entries)
    BY <1>2, <2>1, LenType
  <2>4. Len(entries) \in Nat /\ Len(entries') \in Nat
        /\ DOMAIN entries' = 1..Len(entries')
    BY <1>2, <1>3, LenType
  <2> QED BY <2>2, <2>3, <2>4
<1>6. /\ confirming' = FALSE /\ target' = None /\ safety' = None
      /\ status' \in [kind : {"", "confirm", "error", "failed", "restored"},
                      id : Tree \cup {None}]
  BY <1>1 DEF Leave, Says
<1> QED BY <1>1, <1>2, <1>3, <1>4, <1>5, <1>6, DrawingStep

LEMMA EndsStep == IInv /\ (Home \/ End) => IInv'
<1> SUFFICES ASSUME IInv PROVE Home \/ End => IInv'
  OBVIOUS
<1>1. entries \in Seq(Tree)
  BY DEF IInv, TTypeOK
<1>2. CASE Home
  <2>1. entries # <<>> => 0 \in 0..(Len(entries) - 1)
    BY <1>1, LenType
  <2> QED BY <1>2, <2>1, JumpStep DEF Home
<1>3. CASE End
  <2> DEFINE c == Len(entries) - 1
  <2>1. /\ c \in Int
        /\ entries # <<>> => c \in 0..(Len(entries) - 1)
        /\ entries = <<>> => c \in {-1, 0}
    BY <1>1, LenType
  <2>2. Jump(c)
    BY <1>3 DEF End
  <2> HIDE DEF c
  <2> QED BY <2>1, <2>2, JumpStep DEF c
<1> QED BY <1>2, <1>3

LEMMA InvStep == IInv /\ [TNext]_tvars => IInv'
<1> SUFFICES ASSUME IInv, [TNext]_tvars PROVE IInv'
  OBVIOUS
<1>1. CASE \E tree \in Tree : Snapshot(tree) BY <1>1, SnapshotStep
<1>2. CASE \E keep \in Selections : Prune(keep) BY <1>2, PruneStep
<1>3. CASE Tear BY <1>3, TearStep
<1>4. CASE Open BY <1>4, OpenStep
<1>5. CASE \E h \in Heights : Resize(h) BY <1>5, ResizeStep
<1>6. CASE \E delta \in {-1, 1} : Move(delta) BY <1>6, MoveStep
<1>7. CASE Home \/ End BY <1>7, EndsStep
<1>8. CASE Quit \/ Ask \/ Refuse BY <1>8, PromptStep
<1>9. CASE Accept BY <1>9, AcceptStep
<1>10. CASE \E tree \in Tree : TakeSafety(tree) BY <1>10, SafetyStep
<1>11. CASE Write \/ RestoreFails BY <1>11, WriteStep
<1>12. CASE Reload BY <1>12, ReloadStep
<1>13. CASE UNCHANGED tvars
  <2>1. UNCHANGED <<pc, list, confirming, status, detail, restoring>>
        /\ UNCHANGED <<log, torn, pruned>>
    BY <1>13 DEF tvars
  <2>2. log \in Seq(Line) /\ torn \in BOOLEAN /\ pruned \in BOOLEAN
    BY DEF IInv, TTypeOK
  <2>3. Shorter'
    BY <2>1 DEF IInv, Shorter
  <2> QED BY <2>1, <2>2, <2>3, OtherStep
<1> QED BY <1>1, <1>2, <1>3, <1>4, <1>5, <1>6, <1>7, <1>8, <1>9, <1>10, <1>11,
           <1>12, <1>13 DEF TNext

LEMMA InvCorrect == TSpec => []IInv
BY InvInit, InvStep, PTL DEF TSpec

-----------------------------------------------------------------------------
\* Every variable of the browser keeps its type, the cursor with its one
\* exception: -1, where the end of an empty list was asked for.
THEOREM TypeCorrect == TSpec => []TTypeOK
<1>1. IInv => TTypeOK
  BY DEF IInv
<1> QED BY <1>1, InvCorrect, PTL

\* However many snapshots there are, however others add to them and prune them:
\* a restore writes the snapshot the prompt has named.
THEOREM NamedIsRestored == TSpec => []RestoresWhatItNamed
<1>1. IInv => RestoresWhatItNamed
  BY DEF IInv
<1> QED BY <1>1, InvCorrect, PTL

\* Without a prune beside it the browser never indexes past its list.
THEOREM OnlyPrunePanics == TSpec => []PanicOnlyAfterPrune
<1>1. IInv => PanicOnlyAfterPrune
  BY DEF IInv
<1> QED BY <1>1, InvCorrect, PTL

\* The entry under the cursor is among those that are drawn, whatever the heights
\* of the terminal are, and on the screen where all entries have room.
THEOREM CursorIsVisible == TSpec => []CursorVisible
<1>1. ASSUME IInv, Drawn
      PROVE  /\ offset <= cursor /\ cursor < Bottom
             /\ HasRoom(Len(entries)) => OnScreen(cursor)
  <2>1. /\ offset \in Nat /\ cursor \in Nat /\ Len(entries) \in Nat
        /\ height \in Nat /\ ListHeight(height) \in Nat
        /\ offset <= cursor /\ cursor < offset + ListHeight(height)
        /\ cursor < Len(entries)
    <3>1. /\ entries \in Seq(Tree) /\ entries # <<>>
          /\ offset \in Nat /\ cursor \in Nat
      BY <1>1 DEF IInv, TTypeOK, Drawn
    <3>2. /\ offset <= cursor /\ cursor < offset + ListHeight(height)
          /\ cursor + 1 \in DOMAIN entries
      BY <1>1 DEF IInv, UpToDate, Drawn
    <3>3. height \in Heights \cup {0}
      BY <1>1 DEF IInv, TTypeOK
    <3>4. height \in Nat
      BY <3>3, TimelineAssumption
    <3>5. ListHeight(height) \in Nat
      BY <3>4, TimelineAssumption DEF ListHeight
    <3>6. cursor < Len(entries) /\ Len(entries) \in Nat
      BY <3>1, <3>2
    <3> QED BY <3>1, <3>2, <3>4, <3>5, <3>6
  <2>2. offset <= cursor /\ cursor < Bottom /\ Bottom \in Nat
        /\ Bottom <= Len(entries)
    BY <2>1 DEF Bottom
  <2>3. ASSUME HasRoom(Len(entries)) PROVE OnScreen(cursor)
    <3>1. BoxLines(Bottom - offset) <= BoxLines(Len(entries))
          /\ BoxLines(Bottom - offset) \in Nat /\ BoxLines(Len(entries)) \in Nat
      BY <2>1, <2>2 DEF BoxLines
    <3>2. LinesCut = 0
      BY <2>1, <2>3, <3>1 DEF LinesCut, HasRoom
    <3> QED BY <2>1, <2>2, <3>2 DEF OnScreen
  <2> QED BY <2>2, <2>3
<1>2. IInv => CursorVisible
  BY <1>1 DEF CursorVisible
<1> QED BY <1>2, InvCorrect, PTL

-----------------------------------------------------------------------------
(* What the pane says *)

\* What is shown of a snapshot that can be read explains it.
LEMMA DescribeExplains ==
    ASSUME log \in Seq(Line), NEW id \in Tree
    PROVE  LET d == Describe(id)
           IN  IF d.read
               THEN \E l \in ToSet(log) :
                      /\ l.id = id
                      /\ Turns(d.changes,
                               IF l.parent \in Ids(log) THEN l.parent
                                                        ELSE NoFiles,
                               id)
               ELSE torn \/ id \notin Ids(log)
<1>1. CASE CanRead(id)
  <2> DEFINE parent == ParentOf(id)
             from == IF parent # None /\ CanRead(parent) THEN parent ELSE NoFiles
  <2>1. PICK l \in ToSet(log) : l.id = id /\ l.parent = parent
    BY <1>1, ParentIsListed
  <2>2. ~torn
    BY <1>1 DEF CanRead
  <2>3. None \notin Ids(log)
    <3>1. \A i \in DOMAIN log : log[i] \in Line
      OBVIOUS
    <3> QED BY <3>1, TimelineAssumption DEF Ids, Line
  <2>4. from = IF l.parent \in Ids(log) THEN l.parent ELSE NoFiles
    BY <2>1, <2>2, <2>3 DEF CanRead
  <2>5. from \in Tree
    BY <1>1, ParentIsListed, NoFilesIsTree
  <2>6. /\ Describe(id).read
        /\ Describe(id).changes = Diff(from, id)
    BY <1>1 DEF Describe
  <2>7. Turns(Diff(from, id), from, id)
    BY <2>5, DiffIsRight
  <2> HIDE DEF from
  <2> QED BY <2>1, <2>4, <2>6, <2>7
<1>2. CASE ~CanRead(id)
  BY <1>2 DEF Describe, CanRead
<1> QED BY <1>1, <1>2

\* The pane changes only where it is drawn anew.
LEMMA PaneChanges ==
    ASSUME TNext, detail' # detail
    PROVE  Refresh
<1>1. ASSUME NEW tree \in Tree, Snapshot(tree) PROVE FALSE
  BY <1>1 DEF Snapshot, Other
<1>2. ASSUME NEW keep \in Selections, Prune(keep) PROVE FALSE
  BY <1>2 DEF Prune, Other
<1>3. ASSUME NEW tree \in Tree, TakeSafety(tree) PROVE FALSE
  BY <1>3 DEF TakeSafety
<1>4. ~(Tear \/ Open \/ Quit \/ Ask \/ Refuse \/ Accept \/ Write \/ RestoreFails)
  BY DEF Tear, Open, Quit, Ask, Refuse, Accept, Write, RestoreFails
<1>5. ASSUME NEW h \in Heights, Resize(h) PROVE Refresh
  BY <1>5 DEF Resize
<1>6. ASSUME NEW delta \in {-1, 1}, Move(delta) PROVE Refresh
  BY <1>6 DEF Move, Jump
<1>7. Home \/ End \/ Reload => Refresh
  BY DEF Home, End, Jump, Reload
<1> QED BY <1>1, <1>2, <1>3, <1>4, <1>5, <1>6, <1>7 DEF TNext

\* Whatever the pane says of the snapshot under the cursor is so, for any two
\* trees and any history behind them.
THEOREM PaneIsRight == TSpec => PaneExplains
<1> DEFINE Explains ==
      Drawn' =>
        /\ detail'.id = entries'[cursor' + 1]
        /\ detail' # detail =>
             IF detail'.read
             THEN \E l \in ToSet(log) :
                    /\ l.id = detail'.id
                    /\ Turns(detail'.changes,
                             IF l.parent \in Ids(log) THEN l.parent ELSE NoFiles,
                             l.id)
             ELSE torn \/ detail'.id \notin Ids(log)
<1>1. IInv /\ IInv' /\ [TNext]_tvars => [Explains]_tvars
  <2> SUFFICES ASSUME IInv, IInv', TNext, Drawn' PROVE Explains
    BY DEF Explains
  <2>1. detail'.id = entries'[cursor' + 1]
    BY DEF IInv, UpToDate, Drawn
  <2>2. ASSUME detail' # detail
        PROVE  IF detail'.read
               THEN \E l \in ToSet(log) :
                      /\ l.id = detail'.id
                      /\ Turns(detail'.changes,
                               IF l.parent \in Ids(log) THEN l.parent
                                                        ELSE NoFiles,
                               l.id)
               ELSE torn \/ detail'.id \notin Ids(log)
    <3> DEFINE id == entries'[cursor' + 1]
    <3>1. detail' = Describe(id)
      BY <2>2, PaneChanges DEF Refresh
    <3>2. log \in Seq(Line)
      BY DEF IInv, TTypeOK
    <3>3. id \in Tree
      <4>1. cursor' + 1 \in DOMAIN entries' /\ entries' \in Seq(Tree)
        BY DEF IInv, UpToDate, Drawn, TTypeOK
      <4> QED BY <4>1, EntryType
    <3>4. detail'.id = id
      BY <2>1
    <3> HIDE DEF id
    <3> QED BY <3>1, <3>2, <3>3, <3>4, DescribeExplains
  <2> QED BY <2>1, <2>2
<1> QED BY <1>1, InvCorrect, PTL DEF TSpec, PaneExplains

\* The snapshot that undoes a restore is in the list after it.
THEOREM SafetyIsShown == TSpec => SafetyIsListed
<1> DEFINE Listed ==
      pc = "reload" /\ pc' = "keys" /\ CanRead(safety) =>
        safety \in ToSet(entries')
<1>1. IInv /\ [TNext]_tvars => [Listed]_tvars
  <2> SUFFICES ASSUME IInv, TNext, pc = "reload", pc' = "keys", CanRead(safety)
               PROVE  safety \in ToSet(entries')
    BY DEF Listed
  <2>1. Reload
    BY DEF TNext, Snapshot, Prune, Other, Tear, Open, Resize, Move, Home, End,
           Jump, Quit, Ask, Refuse, Accept, TakeSafety, Write, RestoreFails
  <2>2. entries' = Listing
    BY <2>1 DEF Reload, CanRead
  <2>3. log \in Seq(Line)
    BY DEF IInv, TTypeOK
  <2> QED BY <2>2, <2>3, ListingType DEF CanRead
<1> QED BY <1>1, InvCorrect, PTL DEF TSpec, SafetyIsListed

=============================================================================
