-------------------------------- MODULE Ignore --------------------------------
(***************************************************************************)
(* The ignore matcher (internal/ignore): which paths a list of             *)
(* gitignore-style lines excludes.  Snapshots, the watcher and the         *)
(* clean-up of a restore all ask it, and nothing else keeps them out of    *)
(* the .undo directory.                                                    *)
(*                                                                         *)
(* Texts are sequences of characters.  A path is the sequence of the names *)
(* of its segments, which hold no `*`: one that does can defeat a `*` of   *)
(* the pattern (ignore.go:221).                                            *)
(***************************************************************************)
EXTENDS Naturals, SequencesExt

CONSTANTS
    Alphabet,   \* characters that stand for themselves
    Star, One,  \* `*` and `?`
    Slash, Bang, Hash, Blank,   \* `/`, `!`, `#`, and a blank or tab
    Undo,       \* the name .undo
    Names,      \* names of files and directories
    Lines,      \* lines a user may write
    MaxDepth,   \* bound: segments of a path
    MaxRules,   \* bound: rules of a matcher
    MaxText     \* bound: characters of a pattern and of a name

Wild == {Star, One}
Character == Alphabet \cup Wild \cup {Slash, Bang, Hash, Blank}
Pattern == [raw : Seq(Character), negate : BOOLEAN, dirOnly : BOOLEAN,
            anchored : BOOLEAN, segs : Seq(Seq(Character))]

Special == <<Star, One, Slash, Bang, Hash, Blank>>

ASSUME IgnoreAssumption ==
    /\ \A i, j \in 1..6 : Special[i] = Special[j] => i = j
    /\ \A i \in 1..6 : Special[i] \notin Alphabet
    /\ Names \subseteq Seq(Alphabet) \ {<<>>} /\ Undo \in Names
    /\ Lines \subseteq Seq(Character)
    /\ MaxDepth \in Nat /\ MaxRules \in Nat \ {0} /\ MaxText \in Nat

VARIABLE rules      \* Matcher.patterns, in the order of the lines

Paths == UNION {[1..n -> Names] : n \in 1..MaxDepth}

-----------------------------------------------------------------------------
(* parse *)

Deep == <<Star, Star>>
Begins(text, c) == text # <<>> /\ Head(text) = c
Ends(text, c) == text # <<>> /\ Last(text) = c

TrimRight(line) ==
    SubSeq(line, 1, Max({0} \cup {i \in DOMAIN line : line[i] # Blank}))

\* strings.Split(text, "/")
Split(text) ==
    FoldLeft(LAMBDA segs, c :
                IF c = Slash THEN Append(segs, <<>>)
                ELSE [segs EXCEPT ![Len(segs)] = Append(@, c)],
             <<<<>>>>, text)

\* Wrong variant: the slash at the end is looked for before the blanks go.
Parse_blank(line) ==
    LET trimmed == TrimRight(line)
        negate == Begins(trimmed, Bang)
        body == IF negate THEN Tail(trimmed) ELSE trimmed
        dirOnly == Ends(line, Slash)
        stem == IF dirOnly THEN Front(body) ELSE body
        rest == IF Begins(stem, Slash) THEN Tail(stem) ELSE stem
    IN  IF Begins(trimmed, Hash) \/ rest = <<>>
        THEN <<>>
        ELSE <<[raw |-> line, negate |-> negate, dirOnly |-> dirOnly,
                anchored |-> Slash \in ToSet(stem), segs |-> Split(rest)]>>

\* The pattern of a line: none if it is blank, a comment, or nothing but marks.
Parse(line) ==
    LET trimmed == TrimRight(line)
        negate == Begins(trimmed, Bang)
        body == IF negate THEN Tail(trimmed) ELSE trimmed
        dirOnly == Ends(body, Slash)
        stem == IF dirOnly THEN Front(body) ELSE body
        rest == IF Begins(stem, Slash) THEN Tail(stem) ELSE stem
    IN  IF Begins(trimmed, Hash) \/ rest = <<>>
        THEN <<>>
        ELSE <<[raw |-> line, negate |-> negate, dirOnly |-> dirOnly,
                anchored |-> Slash \in ToSet(stem), segs |-> Split(rest)]>>

-----------------------------------------------------------------------------
(* Match *)

\* Wrong variant: a `*` takes what it took at first.
MatchSegment_once(pat, name) ==
    LET run[p \in 1..(Len(pat) + 1), n \in 1..(Len(name) + 1)] ==
          IF n > Len(name)
          THEN \A i \in p..Len(pat) : pat[i] = Star
          ELSE IF p <= Len(pat) /\ pat[p] \in {name[n], One}
          THEN run[p + 1, n + 1]
          ELSE IF p <= Len(pat) /\ pat[p] = Star
          THEN run[p + 1, n]
          ELSE IF p > 1 /\ pat[p - 1] = Star
          THEN run[p, n + 1]
          ELSE FALSE
    IN  run[1, 1]

\* Where the loop of matchSegment can be: at p and n in the two texts, behind
\* star, the last `*` met, 0 if none, and behind from, where what it takes ends.
Positions(pat, name) ==
    {at \in [p : 1..(Len(pat) + 1), n : 1..(Len(name) + 1),
             star : 0..Len(pat), from : 1..(Len(name) + 1)] :
        at.star < at.p /\ at.from <= at.n}

\* The loop of matchSegment.
MatchSegment(pat, name) ==
    LET loop[at \in Positions(pat, name)] ==
          IF at.n > Len(name)
          THEN \A i \in at.p..Len(pat) : pat[i] = Star
          ELSE IF at.p <= Len(pat) /\ pat[at.p] \in {name[at.n], One}
          THEN loop[[at EXCEPT !.p = @ + 1, !.n = @ + 1]]
          ELSE IF at.p <= Len(pat) /\ pat[at.p] = Star
          THEN loop[[at EXCEPT !.p = @ + 1, !.star = at.p, !.from = at.n]]
          ELSE /\ at.star # 0
               /\ loop[[p |-> at.star + 1, n |-> at.from + 1,
                        star |-> at.star, from |-> at.from + 1]]
    IN  loop[[p |-> 1, n |-> 1, star |-> 0, from |-> 1]]

\* Wrong variant: `**` takes the longest run of segments it can.
MatchSegs_greedy(pat, name) ==
    LET match[i \in 1..(Len(pat) + 1)] == [j \in 1..(Len(name) + 1) |->
          IF i > Len(pat)
          THEN [matched |-> TRUE, exact |-> j > Len(name)]
          ELSE IF pat[i] = Deep
          THEN LET ends == {k \in j..(Len(name) + 1) : match[i + 1][k].matched}
               IN  IF ends = {} THEN [matched |-> FALSE, exact |-> FALSE]
                   ELSE match[i + 1][Max(ends)]
          ELSE IF j <= Len(name) /\ MatchSegment(pat[i], name[j])
          THEN match[i + 1][j + 1]
          ELSE [matched |-> FALSE, exact |-> FALSE]]
    IN  match[1][1]

\* `**` stops at the first split that works.
MatchSegs(pat, name) ==
    LET match[i \in 1..(Len(pat) + 1)] == [j \in 1..(Len(name) + 1) |->
          IF i > Len(pat)
          THEN [matched |-> TRUE, exact |-> j > Len(name)]
          ELSE IF pat[i] = Deep
          THEN LET ends == {k \in j..(Len(name) + 1) : match[i + 1][k].matched}
               IN  IF ends = {} THEN [matched |-> FALSE, exact |-> FALSE]
                   ELSE match[i + 1][Min(ends)]
          ELSE IF j <= Len(name) /\ MatchSegment(pat[i], name[j])
          THEN match[i + 1][j + 1]
          ELSE [matched |-> FALSE, exact |-> FALSE]]
    IN  match[1][1]

\* Wrong variant: a directory-only line does not reach beneath the directory.
Matches_flat(p, path, isDir) ==
    LET starts == IF p.anchored THEN {1} ELSE DOMAIN path
        results == {MatchSegs(p.segs, SubSeq(path, i, Len(path))) :
                        i \in starts}
    IN  \E r \in results : r.matched /\ (p.dirOnly => isDir)

\* A line without a slash is tried from every segment on.  A directory-only
\* line needs a directory when the path itself is what it matches.
Matches(p, path, isDir) ==
    LET starts == IF p.anchored THEN {1} ELSE DOMAIN path
        results == {MatchSegs(p.segs, SubSeq(path, i, Len(path))) :
                        i \in starts}
    IN  \E r \in results : r.matched /\ (p.dirOnly /\ r.exact => isDir)

\* The last line that matches decides.
Match(path, isDir) ==
    FoldLeft(LAMBDA ignored, p :
                IF Matches(p, path, isDir) THEN ~p.negate ELSE ignored,
             FALSE, rules)

-----------------------------------------------------------------------------
\* ".undo/", the first of the default patterns.
StoreLine == Undo \o <<Slash>>

IInit == rules = Parse(StoreLine)

\* Wrong variant: the user's lines come before the defaults.
AddLine_first(line) ==
    /\ Len(rules) < MaxRules
    /\ rules' = Parse(line) \o rules

\* The lines of config.toml, .uaignore and .gitignore follow the defaults.
AddLine(line) ==
    /\ Len(rules) < MaxRules
    /\ rules' = rules \o Parse(line)

INext == \E line \in Lines : AddLine(line)

ISpec == IInit /\ [][INext]_rules

-----------------------------------------------------------------------------
\* The rules are patterns of one segment or more, the default one first.
ITypeOK ==
    /\ rules \in Seq(Pattern) /\ Len(rules) <= MaxRules
    /\ rules[1].raw = StoreLine
    /\ \A i \in DOMAIN rules : rules[i].segs # <<>>

(* What a text means, without an algorithm. *)

\* `?` stands for one character, `*` for any number of them: cut[i] is where
\* what the i-th character of the pattern stands for ends.
Globs(pat, name) ==
    \E cut \in [0..Len(pat) -> 0..Len(name)] :
        /\ cut[0] = 0 /\ cut[Len(pat)] = Len(name)
        /\ \A i \in DOMAIN pat :
             IF pat[i] = Star
             THEN cut[i - 1] <= cut[i]
             ELSE cut[i] = cut[i - 1] + 1 /\ pat[i] \in {One, name[cut[i]]}

\* The line a pattern is written as, but for blanks at its end: segments with
\* slashes between them, and marks.  A `!` in front or a slash at either end is
\* always a mark.
Joined(segs) ==
    FoldLeft(LAMBDA text, seg : text \o <<Slash>> \o seg, Head(segs), Tail(segs))

Says(p, line) ==
    \E lead \in BOOLEAN :
        /\ \A seg \in ToSet(p.segs) : Slash \notin ToSet(seg)
        /\ Head(p.segs) = <<>> => lead
        /\ Last(p.segs) = <<>> => p.dirOnly
        /\ ~p.negate => ~Begins(TrimRight(line), Bang)
        /\ lead \/ Len(p.segs) > 1 <=> p.anchored
        /\ TrimRight(line) = (IF p.negate THEN <<Bang>> ELSE <<>>)
                            \o (IF lead THEN <<Slash>> ELSE <<>>)
                            \o Joined(p.segs)
                            \o (IF p.dirOnly THEN <<Slash>> ELSE <<>>)

\* The segments of pat cover path from some point on to its end: cut[i] is
\* where the i-th begins.
Covers(pat, path, from) ==
    \E cut \in [1..(Len(pat) + 1) -> 0..Len(path)] :
        /\ cut[1] \in from
        /\ cut[Len(pat) + 1] = Len(path)
        /\ \A i \in DOMAIN pat :
             IF pat[i] = Deep
             THEN cut[i] <= cut[i + 1]
             ELSE /\ cut[i + 1] = cut[i] + 1
                  /\ MatchSegment(pat[i], path[cut[i + 1]])

\* The line excludes the path, or a directory the path is in.
Excludes(p, path, isDir) ==
    \E n \in 0..Len(path) :
        /\ Covers(p.segs, SubSeq(path, 1, n),
                  IF p.anchored THEN {0} ELSE 0..n)
        /\ p.dirOnly => n < Len(path) \/ isDir

\* The loop of matchSegment, which goes back to the last `*` only, finds a match
\* whenever there is one (ignore.go:216-240), for every pattern and name of up
\* to MaxText characters.  Rules have no part in it, so it is asked once.
SegmentIsReference ==
    Len(rules) = 1 =>
        \A m, n \in 1..MaxText :
            \A pat \in [1..m -> Alphabet \cup Wild], name \in [1..n -> Alphabet] :
                MatchSegment(pat, name) <=> Globs(pat, name)

\* Every rule says what its line says: marks and blanks, in whatever
\* combination, are told from the segments (ignore.go:94-123).
LinesAreRead == \A i \in DOMAIN rules : Says(rules[i], rules[i].raw)

\* The recursive matcher with its two kinds of match decides as the meaning of
\* the lines does, for every list of rules (ignore.go:143-212: exactness of the
\* first split is enough to tell a directory from what is in it).
MatchIsReference ==
    \A path \in Paths, isDir \in BOOLEAN :
        Match(path, isDir) <=>
            \E i \in DOMAIN rules :
                /\ Excludes(rules[i], path, isDir)
                /\ ~rules[i].negate
                /\ \A j \in (i + 1)..Len(rules) :
                     ~Excludes(rules[j], path, isDir)

\* The store stays out of the snapshots, whatever lines a user adds: only a
\* re-inclusion that covers the very path lets anything of it in (ignore.go:66:
\* "user rules can override the defaults").
StoreStaysOut ==
    \A path \in Paths, isDir \in BOOLEAN :
        (\E n \in DOMAIN path : path[n] = Undo /\ (n < Len(path) \/ isDir)) =>
            \/ Match(path, isDir)
            \/ \E i \in DOMAIN rules :
                   rules[i].negate /\ Excludes(rules[i], path, isDir)

\* Without re-inclusions, what lies in an ignored directory is ignored when it
\* is asked for by itself, as the watcher does with the path of an event: the
\* walks, which do not enter the directory, and the watcher agree.
BeneathIgnored ==
    (\A i \in DOMAIN rules : ~rules[i].negate) =>
        \A path \in Paths : \A n \in 1..(Len(path) - 1) :
            Match(SubSeq(path, 1, n), TRUE) =>
                \A isDir \in BOOLEAN : Match(path, isDir)

\* The walks ask about a directory as a directory, the watcher about its path as
\* a file's (watch.go:97, 102, 132).  That the walks enter it and the watcher
\* drops its events takes a re-inclusion for directories only, of that directory
\* and not of one it is in (ignore.go:152-169): module Watch has those directories.
MutedByReinclusion ==
    \A path \in Paths :
        Match(path, FALSE) /\ ~Match(path, TRUE) =>
            \E i \in DOMAIN rules :
                /\ rules[i].negate /\ rules[i].dirOnly
                /\ Excludes(rules[i], path, TRUE)
                /\ ~Excludes(rules[i], path, FALSE)
=============================================================================
