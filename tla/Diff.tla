--------------------------------- MODULE Diff ---------------------------------
(***************************************************************************)
(* What changed between two snapshots (internal/snapshot/diff.go), which   *)
(* `ua diff`, `ua show` and the timeline browser print.                    *)
(*                                                                         *)
(* A snapshot is the tree it holds: at each path a file or none.  The      *)
(* order of the changes and their sizes are left out.                      *)
(***************************************************************************)
CONSTANTS
    Path,
    Content,    \* what a file may hold: its hash
    Mode,       \* permission bits: part of a snapshot's id, and not of a diff
    Absent      \* no file at a path

ASSUME DiffAssumption == Absent \notin Content \cup (Content \X Mode)

File == Content \X Mode                 \* store.FileEntry without its path
Tree == [Path -> File \cup {Absent}]
NoFiles == [p \in Path |-> Absent]      \* a nil snapshot: "the empty tree"

Kinds == {"added", "removed", "modified"}
Change == [path : Path, kind : Kinds, old : Content \cup {Absent},
           new : Content \cup {Absent}]

FilesOf(tree) == {p \in Path : tree[p] # Absent}
HashAt(tree, p) == IF tree[p] = Absent THEN Absent ELSE tree[p][1]

\* Wrong variant: the second loop is missing.
Diff_growing(from, to) ==
    {[path |-> p, kind |-> IF p \in FilesOf(from) THEN "modified" ELSE "added",
      old |-> HashAt(from, p), new |-> HashAt(to, p)] :
        p \in {q \in FilesOf(to) : HashAt(from, q) # HashAt(to, q)}}

\* First the files of the new tree, then those only the old one has.
Diff(from, to) ==
    LET Changed(p, kind) == [path |-> p, kind |-> kind,
                             old |-> HashAt(from, p), new |-> HashAt(to, p)]
        both == FilesOf(from) \cap FilesOf(to)
    IN  {Changed(p, "added") : p \in FilesOf(to) \ FilesOf(from)}
        \cup {Changed(p, "modified") :
                p \in {q \in both : HashAt(from, q) # HashAt(to, q)}}
        \cup {Changed(p, "removed") : p \in FilesOf(from) \ FilesOf(to)}

-----------------------------------------------------------------------------
(* What a list of changes means. *)

Fits(change, hash) ==
    CASE change.kind = "added" -> hash = Absent /\ change.new \in Content
      [] change.kind = "removed" -> hash # Absent /\ change.new = Absent
      [] change.kind = "modified" -> /\ hash # Absent
                                     /\ change.new \in Content \ {hash}

\* Made one after the other, in any order, the changes turn the contents of one
\* tree into those of the other, and none of them is void.
Turns(changes, from, to) ==
    \A p \in Path :
        LET here == {c \in changes : c.path = p}
        IN  IF HashAt(from, p) = HashAt(to, p)
            THEN here = {}
            ELSE \E c \in here : /\ here = {c}
                                 /\ c.old = HashAt(from, p)
                                 /\ c.new = HashAt(to, p)
                                 /\ Fits(c, c.old)
=============================================================================
