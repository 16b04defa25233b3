----------------------------- MODULE PruneProofs -----------------------------
(***************************************************************************)
(* Theorems about the retention policy and `ua prune`, for any retention,  *)
(* any hours and any number of snapshots.                                  *)
(*                                                                         *)
(* The loops of prune.go and gc.go are folds.  What a fold returns is the  *)
(* last of a run of intermediate results (CappedRun and its like), and     *)
(* what such a run computes is shown by induction on its length            *)
(* (ThinnedIsPicked, CappedIsNewest, SurvivorsSelect).  The invariant PInv *)
(* then follows action by action.                                          *)
(***************************************************************************)
EXTENDS Prune, InductionTheorems

-----------------------------------------------------------------------------
(* The loops of the policy. *)

Line == [id : Snapshots, time : Int]

\* One after the other, the lines whose id is kept.
RunsSurvivors(run, lines, keep) ==
    /\ run[0] = <<>>
    /\ \A n \in 1..Len(lines) :
         run[n] = IF lines[n].id \in keep THEN Append(run[n - 1], lines[n])
                           ELSE run[n - 1]
    /\ Survivors(lines, keep) = run[Len(lines)]

LEMMA SurvivorsRun ==
    ASSUME NEW E, NEW lines \in Seq(E), NEW keep
    PROVE  \E run : RunsSurvivors(run, lines, keep)
<1> DEFINE N == Len(lines)
           A == Seq(E)
           b == <<>>
           Next(x, i) == IF lines[i].id \in keep THEN Append(x, lines[i]) ELSE x
           step == [x \in A \X (1..N) |-> Next(x[1], x[2])]
           Good(iter) == iter = [S \in SUBSET (1..N) |->
                                   IF S = {} THEN b
                                   ELSE Next(iter[S \ {Max(S)}], Max(S))]
           iter == CHOOSE iter : Good(iter)
           run == [n \in 0..N |-> iter[1..n]]
<1>1. N \in Nat /\ DOMAIN lines = 1..N
  OBVIOUS
<1>2. Survivors(lines, keep) = iter[1..N]
  BY <1>1 DEF Survivors, FoldLeft, MapThenFoldSet
<1>3. b \in A
  OBVIOUS
<1>4. step \in [A \X (1..N) -> A]
  OBVIOUS
<1> HIDE DEF N, A, b, Next
<1>5. \E f : Good(f)
  <2>1. PICK f \in [SUBSET (1..N) -> A] : IsFold(f, N, b, step)
    <3> HIDE DEF step
    <3> QED BY <1>1, <1>3, <1>4, FoldExists, Zenon
  <2>2. ASSUME NEW S \in SUBSET (1..N), S # {}
        PROVE  step[<<f[S \ {Max(S)}], Max(S)>>] = Next(f[S \ {Max(S)}], Max(S))
    <3>1. Max(S) \in 1..N /\ S \ {Max(S)} \in SUBSET (1..N)
      <4>1. S \in SUBSET (0..N)
        BY <1>1
      <4> QED BY <1>1, <2>2, <4>1, MaxIsLast
    <3>2. \A x \in A, i \in 1..N : step[<<x, i>>] = Next(x, i)
      OBVIOUS
    <3>3. f[S \ {Max(S)}] \in A
      BY <3>1
    <3> QED BY <3>1, <3>2, <3>3, Zenon
  <2>3. Good(f)
    <3> HIDE DEF step
    <3> QED BY <2>1, <2>2 DEF IsFold
  <2> QED BY <2>3
<1>6. Good(iter)
  <2> HIDE DEF Good
  <2> QED BY <1>5
<1> HIDE DEF iter
<1>7. run[0] = b
  <2>1. 1..0 = {} /\ {} \in SUBSET (1..N) /\ 0 \in 0..N
    BY <1>1
  <2>2. iter[{}] = b
    BY <1>6, <2>1, Zenon
  <2> QED BY <2>1, <2>2
<1>8. ASSUME NEW n \in 1..N
      PROVE  run[n] = Next(run[n - 1], n)
  <2>1. /\ Max(1..n) = n /\ (1..n) \ {n} = 1..(n - 1)
        /\ 1..n \in SUBSET (1..N) /\ 1..n # {}
    BY <1>1, Segments, Zenon
  <2>2. iter[1..n] = Next(iter[(1..n) \ {Max(1..n)}], Max(1..n))
    BY <1>6, <2>1, Zenon
  <2>3. iter[1..n] = Next(iter[1..(n - 1)], n)
    BY <2>1, <2>2, Zenon
  <2> QED BY <1>1, <2>3
<1>9. Survivors(lines, keep) = run[N]
  BY <1>1, <1>2
<1> HIDE DEF run
<1> QED BY <1>7, <1>8, <1>9 DEF RunsSurvivors, N, b, Next

\* One after the other, as long as there is room.
RunsCapped(run, lines, keep, max) ==
    /\ run[0] = {}
    /\ \A n \in 1..Len(lines) :
         run[n] = IF lines[n].id \in keep \ run[n - 1] /\ Cardinality(run[n - 1]) < max
                           THEN run[n - 1] \cup {lines[n].id} ELSE run[n - 1]
    /\ Capped(lines, keep, max) = run[Len(lines)] \cup {lines[1].id}

LEMMA CappedRun ==
    ASSUME NEW lines \in Seq(Line), NEW keep, NEW max
    PROVE  \E run : RunsCapped(run, lines, keep, max)
<1> DEFINE N == Len(lines)
           A == SUBSET Ids(lines)
           b == {}
           Next(x, i) ==
             IF lines[i].id \in keep \ x /\ Cardinality(x) < max
             THEN x \cup {lines[i].id} ELSE x
           step == [x \in A \X (1..N) |-> Next(x[1], x[2])]
           Good(iter) == iter = [S \in SUBSET (1..N) |->
                                   IF S = {} THEN b
                                   ELSE Next(iter[S \ {Max(S)}], Max(S))]
           iter == CHOOSE iter : Good(iter)
           run == [n \in 0..N |-> iter[1..n]]
<1>1. N \in Nat /\ DOMAIN lines = 1..N
  OBVIOUS
<1>2. Capped(lines, keep, max) = iter[1..N] \cup {lines[1].id}
  BY <1>1 DEF Capped, FoldLeft, MapThenFoldSet
<1>3. b \in A
  OBVIOUS
<1>4. step \in [A \X (1..N) -> A]
  BY <1>1 DEF Ids
<1> HIDE DEF N, A, b, Next
<1>5. \E f : Good(f)
  <2>1. PICK f \in [SUBSET (1..N) -> A] : IsFold(f, N, b, step)
    <3> HIDE DEF step
    <3> QED BY <1>1, <1>3, <1>4, FoldExists, Zenon
  <2>2. ASSUME NEW S \in SUBSET (1..N), S # {}
        PROVE  step[<<f[S \ {Max(S)}], Max(S)>>] = Next(f[S \ {Max(S)}], Max(S))
    <3>1. Max(S) \in 1..N /\ S \ {Max(S)} \in SUBSET (1..N)
      <4>1. S \in SUBSET (0..N)
        BY <1>1
      <4> QED BY <1>1, <2>2, <4>1, MaxIsLast
    <3>2. \A x \in A, i \in 1..N : step[<<x, i>>] = Next(x, i)
      OBVIOUS
    <3>3. f[S \ {Max(S)}] \in A
      BY <3>1
    <3> QED BY <3>1, <3>2, <3>3, Zenon
  <2>3. Good(f)
    <3> HIDE DEF step
    <3> QED BY <2>1, <2>2 DEF IsFold
  <2> QED BY <2>3
<1>6. Good(iter)
  <2> HIDE DEF Good
  <2> QED BY <1>5
<1> HIDE DEF iter
<1>7. run[0] = b
  <2>1. 1..0 = {} /\ {} \in SUBSET (1..N) /\ 0 \in 0..N
    BY <1>1
  <2>2. iter[{}] = b
    BY <1>6, <2>1, Zenon
  <2> QED BY <2>1, <2>2
<1>8. ASSUME NEW n \in 1..N
      PROVE  run[n] = Next(run[n - 1], n)
  <2>1. /\ Max(1..n) = n /\ (1..n) \ {n} = 1..(n - 1)
        /\ 1..n \in SUBSET (1..N) /\ 1..n # {}
    BY <1>1, Segments, Zenon
  <2>2. iter[1..n] = Next(iter[(1..n) \ {Max(1..n)}], Max(1..n))
    BY <1>6, <2>1, Zenon
  <2>3. iter[1..n] = Next(iter[1..(n - 1)], n)
    BY <2>1, <2>2, Zenon
  <2> QED BY <1>1, <2>3
<1>9. Capped(lines, keep, max) = run[N] \cup {lines[1].id}
  BY <1>1, <1>2
<1> HIDE DEF run
<1> QED BY <1>7, <1>8, <1>9 DEF RunsCapped, N, b, Next

\* One after the other, the lines of the window and the first of each day.
RunsThinned(run, lines, p, t) ==
    /\ run[0] = [keep |-> {lines[1].id}, days |-> {}]
    /\ \A n \in 1..Len(lines) :
         run[n] = 
                    IF lines[n].time >= RecentCutoff(p, t)
                    THEN [run[n - 1] EXCEPT !.keep = @ \cup {lines[n].id}]
                    ELSE IF /\ p.keepDaily > 0
                            /\ lines[n].time >= DailyCutoff(p, t)
                            /\ Day(lines[n].time) \notin run[n - 1].days
                         THEN [keep |-> run[n - 1].keep \cup {lines[n].id},
                               days |-> run[n - 1].days \cup {Day(lines[n].time)}]
                         ELSE run[n - 1]
    /\ Thinned(lines, p, t) = run[Len(lines)].keep

LEMMA ThinnedRun ==
    ASSUME NEW lines \in Seq(Line), lines # <<>>, NEW p, NEW t
    PROVE  \E run : RunsThinned(run, lines, p, t)
<1> DEFINE N == Len(lines)
           A == [keep : SUBSET Ids(lines), days : SUBSET {Day(lines[i].time) : i \in 1..N}]
           b == [keep |-> {lines[1].id}, days |-> {}]
           Next(x, i) ==
             IF lines[i].time >= RecentCutoff(p, t)
             THEN [x EXCEPT !.keep = @ \cup {lines[i].id}]
             ELSE IF /\ p.keepDaily > 0
                     /\ lines[i].time >= DailyCutoff(p, t)
                     /\ Day(lines[i].time) \notin x.days
                  THEN [keep |-> x.keep \cup {lines[i].id},
                        days |-> x.days \cup {Day(lines[i].time)}]
                  ELSE x
           step == [x \in A \X (1..N) |-> Next(x[1], x[2])]
           Good(iter) == iter = [S \in SUBSET (1..N) |->
                                   IF S = {} THEN b
                                   ELSE Next(iter[S \ {Max(S)}], Max(S))]
           iter == CHOOSE iter : Good(iter)
           run == [n \in 0..N |-> iter[1..n]]
<1>1. N \in Nat /\ DOMAIN lines = 1..N
  OBVIOUS
<1>2. Thinned(lines, p, t) = iter[1..N].keep
  BY <1>1 DEF Thinned, FoldLeft, MapThenFoldSet
<1>3. b \in A
  BY <1>1 DEF Ids
<1>4. step \in [A \X (1..N) -> A]
  BY <1>1 DEF Ids
<1> HIDE DEF N, A, b, Next
<1>5. \E f : Good(f)
  <2>1. PICK f \in [SUBSET (1..N) -> A] : IsFold(f, N, b, step)
    <3> HIDE DEF step
    <3> QED BY <1>1, <1>3, <1>4, FoldExists, Zenon
  <2>2. ASSUME NEW S \in SUBSET (1..N), S # {}
        PROVE  step[<<f[S \ {Max(S)}], Max(S)>>] = Next(f[S \ {Max(S)}], Max(S))
    <3>1. Max(S) \in 1..N /\ S \ {Max(S)} \in SUBSET (1..N)
      <4>1. S \in SUBSET (0..N)
        BY <1>1
      <4> QED BY <1>1, <2>2, <4>1, MaxIsLast
    <3>2. \A x \in A, i \in 1..N : step[<<x, i>>] = Next(x, i)
      OBVIOUS
    <3>3. f[S \ {Max(S)}] \in A
      BY <3>1
    <3> QED BY <3>1, <3>2, <3>3, Zenon
  <2>3. Good(f)
    <3> HIDE DEF step
    <3> QED BY <2>1, <2>2 DEF IsFold
  <2> QED BY <2>3
<1>6. Good(iter)
  <2> HIDE DEF Good
  <2> QED BY <1>5
<1> HIDE DEF iter
<1>7. run[0] = b
  <2>1. 1..0 = {} /\ {} \in SUBSET (1..N) /\ 0 \in 0..N
    BY <1>1
  <2>2. iter[{}] = b
    BY <1>6, <2>1, Zenon
  <2> QED BY <2>1, <2>2
<1>8. ASSUME NEW n \in 1..N
      PROVE  run[n] = Next(run[n - 1], n)
  <2>1. /\ Max(1..n) = n /\ (1..n) \ {n} = 1..(n - 1)
        /\ 1..n \in SUBSET (1..N) /\ 1..n # {}
    BY <1>1, Segments, Zenon
  <2>2. iter[1..n] = Next(iter[(1..n) \ {Max(1..n)}], Max(1..n))
    BY <1>6, <2>1, Zenon
  <2>3. iter[1..n] = Next(iter[1..(n - 1)], n)
    BY <2>1, <2>2, Zenon
  <2> QED BY <1>1, <2>3
<1>9. Thinned(lines, p, t) = run[N].keep
  BY <1>1, <1>2
<1> HIDE DEF run
<1> QED BY <1>7, <1>8, <1>9 DEF RunsThinned, N, b, Next

-----------------------------------------------------------------------------
(* What the loops compute. *)

\* What survives is what has an id to keep, in the order it had.
LEMMA SurvivorsSelect ==
    ASSUME NEW E, NEW lines \in Seq(E), NEW keep
    PROVE  LET rest == Survivors(lines, keep)
           IN  /\ rest \in Seq(E)
               /\ \E pos \in [1..Len(rest) -> 1..Len(lines)] :
                    /\ \A k \in 1..Len(rest) : rest[k] = lines[pos[k]]
                    /\ \A j, k \in 1..Len(rest) : j < k => pos[j] < pos[k]
                    /\ \A i \in 1..Len(lines) :
                         lines[i].id \in keep <=> \E k \in 1..Len(rest) : pos[k] = i
<1> DEFINE N == Len(lines)
           Placed(n, rest, pos) ==
             /\ \A k \in 1..Len(rest) : rest[k] = lines[pos[k]]
             /\ \A j, k \in 1..Len(rest) : j < k => pos[j] < pos[k]
             /\ \A i \in 1..n :
                  lines[i].id \in keep <=> \E k \in 1..Len(rest) : pos[k] = i
           Selects(n, rest) ==
             /\ rest \in Seq(E)
             /\ \E pos \in [1..Len(rest) -> 1..n] : Placed(n, rest, pos)
<1>1. PICK run : RunsSurvivors(run, lines, keep)
  BY SurvivorsRun
<1> USE DEF RunsSurvivors
<1>2. Selects(0, run[0])
  <2> DEFINE pos == [k \in 1..0 |-> 0]
  <2>1. Placed(0, <<>>, pos)
    OBVIOUS
  <2>2. pos \in [1..Len(<<>>) -> 1..0] /\ <<>> \in Seq(E)
    OBVIOUS
  <2> HIDE DEF pos, Placed
  <2> QED BY <1>1, <2>1, <2>2
<1>3. ASSUME NEW n \in 1..N, Selects(n - 1, run[n - 1])
      PROVE  Selects(n, run[n])
  <2> DEFINE rest == run[n - 1]
  <2>1. rest \in Seq(E)
    BY <1>3
  <2>2. PICK pos \in [1..Len(rest) -> 1..(n - 1)] : Placed(n - 1, rest, pos)
    <3> HIDE DEF Placed
    <3> QED BY <1>3
  <2> HIDE DEF rest
  <2>3. n \in Nat /\ n - 1 \in Nat /\ lines[n] \in E /\ Len(rest) \in Nat
    BY <2>1
  <2>4. CASE lines[n].id \in keep
    <3> DEFINE new == Append(rest, lines[n])
               L == Len(rest)
               npos == [k \in 1..(L + 1) |-> IF k = L + 1 THEN n ELSE pos[k]]
    <3>1. /\ new \in Seq(E) /\ Len(new) = L + 1 /\ new[L + 1] = lines[n]
          /\ \A k \in 1..L : new[k] = rest[k]
      BY <2>1, <2>3
    <3>2. npos \in [1..Len(new) -> 1..n]
      BY <2>3, <3>1
    <3>3. Placed(n, new, npos)
      <4> HIDE DEF new
      <4>1. \A k \in 1..L : npos[k] = pos[k] /\ pos[k] \in 1..(n - 1)
        BY <2>3
      <4>2. npos[L + 1] = n
        BY <2>3
      <4> HIDE DEF npos
      <4>3. \A k \in 1..(L + 1) : new[k] = lines[npos[k]]
        BY <2>2, <2>3, <3>1, <4>1, <4>2
      <4>4. ASSUME NEW j \in 1..(L + 1), NEW k \in 1..(L + 1), j < k
            PROVE  npos[j] < npos[k]
        <5>1. j \in 1..L /\ npos[j] = pos[j] /\ pos[j] \in 1..(n - 1)
          BY <2>3, <4>1, <4>4
        <5>2. CASE k = L + 1
          BY <2>3, <4>2, <5>1, <5>2
        <5>3. CASE k \in 1..L
          BY <2>2, <4>1, <4>4, <5>1, <5>3
        <5> QED BY <2>3, <5>2, <5>3
      <4>5. ASSUME NEW i \in 1..n
            PROVE  lines[i].id \in keep <=> \E k \in 1..(L + 1) : npos[k] = i
        <5>1. CASE i = n
          BY <2>3, <2>4, <4>2, <5>1
        <5>2. CASE i # n
          <6>1. i \in 1..(n - 1)
            BY <5>2, <2>3
          <6>2. lines[i].id \in keep <=> \E k \in 1..L : pos[k] = i
            BY <2>2, <6>1
          <6> QED BY <2>3, <4>1, <4>2, <5>2, <6>2
        <5> QED BY <5>1, <5>2
      <4> QED BY <3>1, <4>3, <4>4, <4>5
    <3>4. run[n] = new
      BY <1>1, <2>4 DEF rest
    <3> HIDE DEF new, npos, Placed
    <3> QED BY <3>1, <3>2, <3>3, <3>4
  <2>5. CASE lines[n].id \notin keep
    <3>1. run[n] = rest
      BY <1>1, <2>5 DEF rest
    <3>2. pos \in [1..Len(rest) -> 1..n]
      BY <2>3
    <3>3. Placed(n, rest, pos)
      BY <2>2, <2>3, <2>5
    <3> HIDE DEF Placed
    <3> QED BY <2>1, <3>1, <3>2, <3>3
  <2> QED BY <2>4, <2>5
<1> DEFINE T == {n \in 0..N : Selects(n, run[n])}
<1>4. N \in Nat
  OBVIOUS
<1> HIDE DEF N, Selects
<1>5. 0..N \subseteq T
  <2>1. 0 \in T
    BY <1>2, <1>4
  <2>2. \A n \in 1..N : n - 1 \in T => n \in T
    BY <1>3, <1>4
  <2> HIDE DEF T
  <2> QED BY <1>4, <2>1, <2>2, InductionUpTo
<1>6. Selects(N, run[N])
  BY <1>4, <1>5
<1> QED BY <1>1, <1>6 DEF Selects, N

LEMMA Reversed ==
    ASSUME NEW E, NEW lines \in Seq(E)
    PROVE  /\ Reverse(lines) \in Seq(E)
           /\ Len(Reverse(lines)) = Len(lines)
           /\ \A n \in 1..Len(lines) : Reverse(lines)[n] = lines[Len(lines) + 1 - n]
<1> DEFINE N == Len(lines)
           ordered == Reverse(lines)
<1>1. N \in Nat /\ DOMAIN lines = 1..N /\ \A i \in 1..N : lines[i] \in E
  OBVIOUS
<1>2. ordered = [n \in 1..N |-> lines[N - n + 1]]
  BY DEF Reverse
<1>3. \A n \in 1..N : N - n + 1 \in 1..N /\ N - n + 1 = N + 1 - n
  BY <1>1
<1> HIDE DEF N, ordered
<1>4. ordered \in [1..N -> E]
  BY <1>1, <1>2, <1>3
<1>5. ordered \in Seq(E) /\ Len(ordered) = N
  BY <1>1, <1>4
<1>6. \A n \in 1..N : ordered[n] = lines[N + 1 - n]
  BY <1>2, <1>3
<1> QED BY <1>5, <1>6 DEF N, ordered

\* The lines the first loop takes, by what they are among the others.
Picked(lines, p, t) ==
    {i \in DOMAIN lines :
        \/ i = Len(lines)
        \/ lines[i].time >= RecentCutoff(p, t)
        \/ /\ p.keepDaily > 0
           /\ lines[i].time >= DailyCutoff(p, t)
           /\ \A j \in Newer(lines, i) :
                \/ lines[j].time >= RecentCutoff(p, t)
                \/ Day(lines[j].time) # Day(lines[i].time)}

\* The days the first loop has seen are those of lines outside the window.
LEMMA ThinnedIsPicked ==
    ASSUME NEW lines \in Seq(Line), lines # <<>>, Chronological(lines),
           NEW p, NEW t, RecentCutoff(p, t) \in Int, DailyCutoff(p, t) \in Int
    PROVE  Thinned(Reverse(lines), p, t) = {lines[i].id : i \in Picked(lines, p, t)}
<1> DEFINE N == Len(lines)
           ordered == Reverse(lines)
           In(i) == lines[i].time >= RecentCutoff(p, t)
           Old(i) == /\ ~In(i) /\ p.keepDaily > 0
                     /\ lines[i].time >= DailyCutoff(p, t)
           D(i) == Day(lines[i].time)
           Seen(n) == (N + 1 - n)..N
           Picks == Picked(lines, p, t)
           Keep(n) == {lines[i].id : i \in Picks \cap Seen(n)} \cup {lines[N].id}
           Days(n) == {D(i) : i \in {j \in Seen(n) : Old(j)}}
           Taken(n, acc) == acc = [keep |-> Keep(n), days |-> Days(n)]
<1>1. /\ N \in Nat \ {0} /\ DOMAIN lines = 1..N
      /\ \A i \in 1..N : lines[i] \in Line /\ lines[i].time \in Int
  <2>1. N # 0
    OBVIOUS
  <2>2. \A i \in 1..N : lines[i] \in Line
    OBVIOUS
  <2>3. \A i \in 1..N : lines[i].time \in Int
    BY <2>2 DEF Line
  <2> QED BY <2>1, <2>2, <2>3
<1>2. /\ ordered \in Seq(Line) /\ Len(ordered) = N
      /\ \A n \in 1..N : ordered[n] = lines[N + 1 - n]
  BY Reversed
<1>3. PICK run : RunsThinned(run, ordered, p, t)
  <2>1. ordered # <<>>
    BY <1>1, <1>2
  <2> HIDE DEF N, ordered
  <2> QED BY <1>2, <2>1, ThinnedRun
<1> USE DEF RunsThinned
<1> HIDE DEF ordered
<1>4. Taken(0, run[0])
  <2>1. Seen(0) = {}
    BY <1>1
  <2>2. ordered[1].id = lines[N].id
    BY <1>1, <1>2
  <2> QED BY <1>3, <2>1, <2>2
<1>5. ASSUME NEW n \in 1..N, Taken(n - 1, run[n - 1])
      PROVE  Taken(n, run[n])
  <2> DEFINE k == N + 1 - n
             acc == run[n - 1]
  <2>1. /\ k \in 1..N /\ Seen(n) = Seen(n - 1) \cup {k}
        /\ ordered[n] = lines[k] /\ k \notin Seen(n - 1)
        /\ Newer(lines, k) = Seen(n - 1)
    BY <1>1, <1>2 DEF Newer
  <2>2. acc = [keep |-> Keep(n - 1), days |-> Days(n - 1)]
    BY <1>5
  <2>3. run[n] = IF In(k) THEN [acc EXCEPT !.keep = @ \cup {lines[k].id}]
                 ELSE IF Old(k) /\ D(k) \notin acc.days
                      THEN [keep |-> acc.keep \cup {lines[k].id},
                            days |-> acc.days \cup {D(k)}]
                      ELSE acc
    BY <1>2, <1>3, <2>1
  <2>4. \A j \in Seen(n - 1) : j \in 1..N /\ lines[k].time <= lines[j].time
    BY <1>1, <2>1 DEF Chronological, Newer
  <2>5. /\ Keep(n) = IF k \in Picks THEN Keep(n - 1) \cup {lines[k].id} ELSE Keep(n - 1)
        /\ Days(n) = IF Old(k) THEN Days(n - 1) \cup {D(k)} ELSE Days(n - 1)
    <3> HIDE DEF Picks, Old, D, k, Seen
    <3> QED BY <2>1
  <2>6. k \in Picks <=> \/ k = N \/ In(k)
                        \/ Old(k) /\ D(k) \notin Days(n - 1)
    <3>1. Old(k) => \A j \in Seen(n - 1) : In(j) \/ Old(j)
      BY <1>1, <2>1, <2>4
    <3>2. Old(k) => (D(k) \notin Days(n - 1)
                       <=> \A j \in Seen(n - 1) : In(j) \/ D(j) # D(k))
      <4> HIDE DEF D, Seen
      <4> QED BY <3>1
    <3>3. k \in Picks <=>
            \/ k = N \/ In(k)
            \/ /\ p.keepDaily > 0 /\ lines[k].time >= DailyCutoff(p, t)
               /\ \A j \in Seen(n - 1) : In(j) \/ D(j) # D(k)
      BY <1>1, <2>1 DEF Picked
    <3> HIDE DEF Picks, D, Seen, Days
    <3> QED BY <3>2, <3>3
  <2>7. k = N => lines[k].id \in Keep(n - 1)
    OBVIOUS
  <2> HIDE DEF Keep, Days, Picks, D, In, k, acc
  <2>8. Old(k) => ~In(k)
    OBVIOUS
  <2> HIDE DEF Old
  <2>9. CASE In(k)
    BY <2>2, <2>3, <2>5, <2>6, <2>8, <2>9
  <2>10. CASE ~In(k) /\ Old(k) /\ D(k) \notin Days(n - 1)
    BY <2>2, <2>3, <2>5, <2>6, <2>10
  <2>11. CASE ~In(k) /\ Old(k) /\ D(k) \in Days(n - 1)
    <3>1. Days(n) = Days(n - 1)
      BY <2>5, <2>11
    <3>2. Keep(n) = Keep(n - 1)
      BY <2>5, <2>6, <2>7, <2>11
    <3> QED BY <2>2, <2>3, <2>11, <3>1, <3>2
  <2>12. CASE ~In(k) /\ ~Old(k)
    <3>1. Keep(n) = Keep(n - 1)
      BY <2>5, <2>6, <2>7, <2>12
    <3> QED BY <2>2, <2>3, <2>5, <2>12, <3>1
  <2> QED BY <2>9, <2>10, <2>11, <2>12
<1> DEFINE T == {n \in 0..N : Taken(n, run[n])}
<1>6. N \in T
  <2> HIDE DEF Taken, N
  <2>1. 0 \in T
    BY <1>1, <1>4
  <2>2. \A n \in 1..N : n - 1 \in T => n \in T
    BY <1>1, <1>5
  <2> HIDE DEF T
  <2>3. 0..N \subseteq T
    BY <1>1, <2>1, <2>2, InductionUpTo
  <2> QED BY <1>1, <2>3
<1>7. run[N].keep = Keep(N)
  BY <1>6
<1>8. Seen(N) = 1..N /\ N \in Picks /\ Picks \subseteq 1..N
  BY <1>1 DEF Picked
<1>9. Keep(N) = {lines[i].id : i \in Picks}
  <2> HIDE DEF Picks, Seen
  <2> QED BY <1>8
<1> QED BY <1>2, <1>3, <1>7, <1>9 DEF ordered

LEMMA IdsFinite ==
    ASSUME NEW lines \in Seq(Line)
    PROVE  IsFiniteSet(Ids(lines))
<1> DEFINE f == [i \in 1..Len(lines) |-> lines[i].id]
<1>1. f \in Surjection(1..Len(lines), Ids(lines))
  BY DEF Surjection, Ids
<1>2. IsFiniteSet(1..Len(lines))
  BY FS_Interval
<1> QED BY <1>1, <1>2, FS_Surjection

\* The cap takes the ids that have fewer than max others ahead of them.  As long
\* as there is room, it has taken all it met.
LEMMA CappedIsNewest ==
    ASSUME NEW lines \in Seq(Line), lines # <<>>,
           NEW keep \in SUBSET Ids(lines), lines[Len(lines)].id \in keep,
           NEW max \in Nat \ {0}
    PROVE  Capped(Reverse(lines), keep, max) =
             {id \in keep : Cardinality(Ahead(lines, keep, id)) < max}
<1> DEFINE N == Len(lines)
           ordered == Reverse(lines)
           Seen(n) == (N + 1 - n)..N
           Met(n) == {lines[i].id : i \in Seen(n)} \cap keep
           Fits(id) == Cardinality(Ahead(lines, keep, id)) < max
           Taken(n, ids) == /\ ids = {id \in Met(n) : Fits(id)}
                            /\ Cardinality(ids) < max => ids = Met(n)
<1>1. N \in Nat \ {0} /\ DOMAIN lines = 1..N
  <2>1. N # 0
    OBVIOUS
  <2> QED BY <2>1
<1>2. /\ ordered \in Seq(Line) /\ Len(ordered) = N
      /\ \A n \in 1..N : ordered[n] = lines[N + 1 - n]
  BY Reversed
<1>3. PICK run : RunsCapped(run, ordered, keep, max)
  <2> HIDE DEF N, ordered
  <2> QED BY <1>2, CappedRun
<1> USE DEF RunsCapped
<1> HIDE DEF ordered
<1>4. ASSUME NEW S, S \subseteq keep
      PROVE  IsFiniteSet(S) /\ Cardinality(S) \in Nat
  BY <1>4, IdsFinite, FS_Subset, FS_CardinalityType
<1>5. Taken(0, run[0])
  <2>1. Seen(0) = {}
    BY <1>1
  <2>2. Met(0) = {}
    BY <2>1
  <2> HIDE DEF Met
  <2> QED BY <1>3, <2>2
<1>6. ASSUME NEW n \in 1..N, Taken(n - 1, run[n - 1])
      PROVE  Taken(n, run[n])
  <2> DEFINE k == N + 1 - n
             id == lines[k].id
             ids == run[n - 1]
  <2>1. /\ k \in 1..N /\ Seen(n) = Seen(n - 1) \cup {k}
        /\ ordered[n] = lines[k] /\ k \notin Seen(n - 1)
    BY <1>1, <1>2
  <2>2. run[n] = IF id \in keep \ ids /\ Cardinality(ids) < max
                 THEN ids \cup {id} ELSE ids
    BY <1>2, <1>3, <2>1
  <2>3. Met(n) = IF id \in keep THEN Met(n - 1) \cup {id} ELSE Met(n - 1)
    <3> HIDE DEF k, Seen
    <3> QED BY <2>1
  <2>4. Met(n - 1) \subseteq keep
    OBVIOUS
  <2>5. id \in keep \ Met(n - 1) => Ahead(lines, keep, id) = Met(n - 1)
    <3> SUFFICES ASSUME id \in keep, id \notin Met(n - 1)
                 PROVE  Ahead(lines, keep, id) = Met(n - 1)
      OBVIOUS
    <3>1. \A i \in Seen(n - 1) : i \in 1..N /\ i > k /\ lines[i].id # id
      BY <1>1, <2>1
    <3>2. \A i \in 1..N : i \in Seen(n - 1) <=> i > k
      BY <1>1
    <3>3. ASSUME NEW x \in Ahead(lines, keep, id)
          PROVE  x \in Met(n - 1)
      <4>1. PICK i \in 1..N : /\ lines[i].id = x /\ x \in keep /\ x # id
                              /\ \A j \in Newer(lines, i) : lines[j].id # id
        BY <1>1 DEF Ahead
      <4>2. i > k
        BY <1>1, <2>1, <4>1 DEF Newer
      <4> HIDE DEF k, Seen
      <4> QED BY <3>2, <4>1, <4>2
    <3>4. ASSUME NEW x \in Met(n - 1)
          PROVE  x \in Ahead(lines, keep, id)
      <4>1. PICK i \in Seen(n - 1) : lines[i].id = x
        OBVIOUS
      <4>2. \A j \in Newer(lines, i) : j \in Seen(n - 1)
        BY <1>1, <3>1, <3>2 DEF Newer
      <4> HIDE DEF k, Seen, id
      <4> QED BY <1>1, <2>4, <3>1, <4>1, <4>2 DEF Ahead
    <3> QED BY <3>3, <3>4
  <2> HIDE DEF Met, Fits, ids, id, Seen, k
  <2>6. /\ ids = {x \in Met(n - 1) : Fits(x)}
        /\ Cardinality(ids) < max => ids = Met(n - 1)
        /\ IsFiniteSet(ids) /\ Cardinality(ids) \in Nat
        /\ IsFiniteSet(Met(n - 1))
    BY <1>4, <1>6, <2>4 DEF ids
  <2>7. CASE id \in keep \ Met(n - 1) /\ Cardinality(ids) < max
    <3>1. Fits(id)
      BY <2>5, <2>6, <2>7 DEF Fits
    <3>2. run[n] = Met(n) /\ run[n] = {x \in Met(n) : Fits(x)}
      BY <2>2, <2>3, <2>6, <2>7, <3>1
    <3> QED BY <3>2
  <2>8. CASE id \in keep \ Met(n - 1) /\ ~ (Cardinality(ids) < max)
    <3>1. Cardinality(ids) <= Cardinality(Met(n - 1)) /\ Cardinality(Met(n - 1)) \in Nat
      BY <1>4, <2>4, <2>6, FS_Subset
    <3>2. ~Fits(id)
      BY <2>5, <2>6, <2>8, <3>1 DEF Fits
    <3>3. run[n] = ids /\ ids = {x \in Met(n) : Fits(x)}
      BY <2>2, <2>3, <2>6, <2>8, <3>2
    <3> QED BY <2>8, <3>3
  <2>9. CASE id \notin keep \ Met(n - 1)
    <3>1. Met(n) = Met(n - 1)
      BY <2>3, <2>9
    <3>2. run[n] = ids
      BY <2>2, <2>6, <2>9
    <3> QED BY <2>6, <3>1, <3>2
  <2> QED BY <2>7, <2>8, <2>9
<1> DEFINE T == {n \in 0..N : Taken(n, run[n])}
<1>7. N \in T
  <2> HIDE DEF Taken, N
  <2>1. 0 \in T
    BY <1>1, <1>5
  <2>2. \A n \in 1..N : n - 1 \in T => n \in T
    BY <1>1, <1>6
  <2> HIDE DEF T
  <2>3. 0..N \subseteq T
    BY <1>1, <2>1, <2>2, InductionUpTo
  <2> QED BY <1>1, <2>3
<1>8. Met(N) = keep
  <2>1. Seen(N) = 1..N
    BY <1>1
  <2> QED BY <1>1, <2>1 DEF Ids
<1>9. ordered[1].id \in keep /\ Fits(ordered[1].id)
  <2>1. ordered[1] = lines[N]
    BY <1>1, <1>2
  <2>2. Ahead(lines, keep, lines[N].id) = {}
    <3>1. ASSUME NEW i \in DOMAIN lines, lines[i].id # lines[N].id
          PROVE  N \in Newer(lines, i)
      BY <1>1, <3>1 DEF Newer
    <3> QED BY <1>1, <3>1 DEF Ahead
  <2>3. Cardinality({}) = 0
    BY FS_EmptySet
  <2> QED BY <2>1, <2>2, <2>3
<1> HIDE DEF Met, Fits
<1>10. run[N] = {id \in keep : Fits(id)}
  BY <1>7, <1>8
<1>11. Capped(ordered, keep, max) = {id \in keep : Fits(id)}
  BY <1>2, <1>3, <1>9, <1>10
<1> QED BY <1>11 DEF ordered, Fits

-----------------------------------------------------------------------------
(* The plan. *)

\* The window of the policy, unless its hours wrap around.
LEMMA Unwrapped ==
    ASSUME NEW p \in Policy, p.keepHours < DurationLimit, NEW t \in Int
    PROVE  RecentCutoff(p, t) = t - MaxInt0(p.keepHours)
<1> DEFINE h == MaxInt0(p.keepHours)
<1>1. h \in Nat /\ h < DurationLimit
  BY PruneAssumption DEF MaxInt0, Policy
<1> HIDE DEF h
<1>2. (h + DurationLimit) % (2 * DurationLimit) = h + DurationLimit
  BY <1>1, PruneAssumption
<1>3. Duration(h) = h
  BY <1>1, <1>2, PruneAssumption DEF Duration
<1> QED BY <1>3 DEF RecentCutoff, h

LEMMA CutoffTypes ==
    ASSUME NEW p \in Policy, NEW t \in Int
    PROVE  /\ RecentCutoff(p, t) \in Int /\ RecentCutoff(p, t + 1) = RecentCutoff(p, t) + 1
           /\ DailyCutoff(p, t) \in Int /\ DailyCutoff(p, t + 1) = DailyCutoff(p, t) + 1
<1> DEFINE d == Duration(MaxInt0(p.keepHours))
           k == MaxInt0(p.keepDaily)
<1>1. d \in Int /\ k \in Int
  BY PruneAssumption DEF Duration, MaxInt0, Policy
<1>2. DayLength * k \in Int
  BY <1>1, PruneAssumption
<1> HIDE DEF d, k
<1>3. RecentCutoff(p, t) = t - d /\ RecentCutoff(p, t + 1) = (t + 1) - d
  BY DEF RecentCutoff, d
<1>4. DailyCutoff(p, t) = t - DayLength * k /\ DailyCutoff(p, t + 1) = (t + 1) - DayLength * k
  BY DEF DailyCutoff, k
<1> QED BY <1>1, <1>2, <1>3, <1>4

\* Plan keeps what the policy says, for any chronological timeline.
LEMMA PlanIsRetained ==
    ASSUME NEW lines \in Seq(Line), Chronological(lines), NEW p \in Policy, NEW t \in Int,
           p.keepHours < DurationLimit
    PROVE  Plan(lines, p, t) = Retained(lines, p, t)
<1>1. CASE lines = <<>>
  <2>1. DOMAIN lines = {}
    BY <1>1
  <2>2. Wanted(lines, p, t) = {}
    BY <2>1 DEF Wanted
  <2> QED BY <1>1, <2>2 DEF Plan, Retained
<1>2. CASE lines # <<>>
  <2> DEFINE keep == {lines[i].id : i \in Picked(lines, p, t)}
  <2>1. Thinned(Reverse(lines), p, t) = keep
    BY <1>2, CutoffTypes, ThinnedIsPicked
  <2>2. Picked(lines, p, t) = Wanted(lines, p, t)
    <3>1. p.keepDaily > 0 => DailyCutoff(p, t) = t - DayLength * p.keepDaily
      BY DEF DailyCutoff, MaxInt0
    <3>2. RecentCutoff(p, t) = t - MaxInt0(p.keepHours)
      BY Unwrapped
    <3> QED BY <3>1, <3>2 DEF Picked, Wanted, InWindow, InDays
  <2>3. keep \in SUBSET Ids(lines) /\ lines[Len(lines)].id \in keep
    BY <1>2 DEF Picked, Ids
  <2>4. p.max \in Int
    BY DEF Policy
  <2> HIDE DEF keep
  <2>5. CASE p.max > 0
    <3>1. Capped(Reverse(lines), keep, p.max) =
            {id \in keep : Cardinality(Ahead(lines, keep, id)) < p.max}
      BY <1>2, <2>3, <2>4, <2>5, CappedIsNewest
    <3> QED BY <1>2, <2>1, <2>2, <2>5, <3>1 DEF Plan, Retained, keep
  <2>6. CASE ~ (p.max > 0)
    BY <1>2, <2>1, <2>2, <2>6 DEF Plan, Retained, keep
  <2> QED BY <2>5, <2>6
<1> QED BY <1>1, <1>2

-----------------------------------------------------------------------------
(* The invariant. *)

\* What is owed is listed as the line it was recorded with.
OwedListed ==
    policy.max <= 0 /\ InRange(policy) =>
        \A e \in recorded : Owed(e) => \E i \in DOMAIN timeline : timeline[i] = e

\* What was announced is still listed, and the plan does not take it back.
AnnouncedDoomed ==
    asking /\ policy.max <= 0 =>
        \A id \in announced :
            /\ id \in Ids(timeline)
            /\ \A i \in Picked(timeline, policy, now) : timeline[i].id # id

PInv ==
    /\ PTypeOK
    /\ \A i \in DOMAIN timeline : timeline[i] \in recorded
    /\ OwedListed
    /\ AnnouncedDoomed

Moment(t) == [id : Snapshots, time : 0..t]

LEMMA MomentIsLine == \A t \in Nat : Moment(t) \subseteq Line
BY DEF Moment, Line

LEMMA Typed ==
    ASSUME PTypeOK
    PROVE  /\ timeline \in Seq(Line) /\ timeline \in Seq(Moment(now))
           /\ policy \in Policy /\ now \in Nat
           /\ IsFiniteSet(Ids(timeline)) /\ Ids(timeline) \subseteq Snapshots
<1>1. now \in Nat /\ timeline \in Seq(Moment(now)) /\ policy \in Policy
  BY PruneAssumption DEF PTypeOK, Moment
<1>2. timeline \in Seq(Line)
  BY <1>1, MomentIsLine
<1>3. Ids(timeline) \subseteq Snapshots
  <2>1. \A i \in DOMAIN timeline : timeline[i] \in Line
    BY <1>2
  <2>2. \A i \in DOMAIN timeline : timeline[i].id \in Snapshots
    BY <2>1 DEF Line
  <2> QED BY <2>2 DEF Ids
<1> QED BY <1>1, <1>2, <1>3, IdsFinite

\* A prune leaves lines of the timeline, in their order.
LEMMA ConfirmLeaves ==
    ASSUME PTypeOK, Confirm
    PROVE  /\ timeline' \in Seq(Moment(now)) /\ Chronological(timeline')
           /\ \A k \in DOMAIN timeline' : \E i \in DOMAIN timeline :
                /\ timeline'[k] = timeline[i]
                /\ timeline[i].id \in Plan(timeline, policy, now)
           /\ \A i \in DOMAIN timeline :
                timeline[i].id \in Plan(timeline, policy, now)
                  => \E k \in DOMAIN timeline' : timeline'[k] = timeline[i]
<1> DEFINE keep == Plan(timeline, policy, now)
           rest == Survivors(timeline, keep)
<1>1. timeline \in Seq(Moment(now)) /\ timeline' = rest
  BY Typed DEF Confirm
<1> HIDE DEF keep
<1>2. /\ rest \in Seq(Moment(now))
      /\ \E pos \in [1..Len(rest) -> 1..Len(timeline)] :
           /\ \A k \in 1..Len(rest) : rest[k] = timeline[pos[k]]
           /\ \A j, k \in 1..Len(rest) : j < k => pos[j] < pos[k]
           /\ \A i \in 1..Len(timeline) :
                timeline[i].id \in keep <=> \E k \in 1..Len(rest) : pos[k] = i
  BY <1>1, SurvivorsSelect
<1> HIDE DEF rest
<1>3. PICK pos \in [1..Len(rest) -> 1..Len(timeline)] :
           /\ \A k \in 1..Len(rest) : rest[k] = timeline[pos[k]]
           /\ \A j, k \in 1..Len(rest) : j < k => pos[j] < pos[k]
           /\ \A i \in 1..Len(timeline) :
                timeline[i].id \in keep <=> \E k \in 1..Len(rest) : pos[k] = i
  BY <1>2
<1>4. DOMAIN rest = 1..Len(rest) /\ DOMAIN timeline = 1..Len(timeline)
  BY <1>1, <1>2
<1>5. Chronological(rest)
  BY <1>3, <1>4 DEF PTypeOK, Chronological
<1>6. /\ \A k \in DOMAIN rest : \E i \in DOMAIN timeline :
           rest[k] = timeline[i] /\ timeline[i].id \in keep
      /\ \A i \in DOMAIN timeline :
           timeline[i].id \in keep => \E k \in DOMAIN rest : rest[k] = timeline[i]
  BY <1>3, <1>4
<1> QED BY <1>1, <1>2, <1>5, <1>6 DEF keep

\* A new line goes to the end, once or twice.
LEMMA CaptureAdds ==
    ASSUME PTypeOK, NEW id \in Snapshots, NEW lines \in {1, 2}, Capture(id, lines),
           id \notin Ids(timeline)
    PROVE  LET line == [id |-> id, time |-> now]
               N == Len(timeline)
           IN  /\ timeline' \in Seq(Moment(now)) /\ Len(timeline') = N + lines
               /\ recorded' = recorded \cup {line}
               /\ \A i \in 1..N : timeline'[i] = timeline[i]
               /\ \A i \in (N + 1)..(N + lines) : timeline'[i] = line
<1> DEFINE line == [id |-> id, time |-> now]
           more == [i \in 1..lines |-> line]
           N == Len(timeline)
<1>1. timeline \in Seq(Moment(now)) /\ now \in Nat /\ line \in Moment(now)
  BY Typed DEF Moment
<1>2. more \in Seq(Moment(now)) /\ Len(more) = lines
  <2> HIDE DEF line
  <2> QED BY <1>1
<1>3. timeline' = timeline \o more /\ recorded' = recorded \cup {line}
  BY DEF Capture
<1>4. \A i \in 1..lines : more[i] = line
  OBVIOUS
<1> HIDE DEF line, more
<1>5. /\ timeline \o more \in Seq(Moment(now))
      /\ Len(timeline \o more) = N + lines
      /\ \A i \in 1..(N + lines) :
           (timeline \o more)[i] = IF i <= N THEN timeline[i] ELSE more[i - N]
  BY <1>1, <1>2
<1>6. N \in Nat
  BY <1>1
<1>7. /\ \A i \in 1..N : i \in 1..(N + lines) /\ i <= N
      /\ \A i \in (N + 1)..(N + lines) :
           i \in 1..(N + lines) /\ ~ (i <= N) /\ i - N \in 1..lines
  BY <1>6
<1> HIDE DEF N
<1> QED BY <1>3, <1>4, <1>5, <1>7 DEF line, N

LEMMA InitTyped == PInit => PTypeOK
<1> SUFFICES ASSUME PInit
             PROVE  PTypeOK
  OBVIOUS
<1>1. timeline = <<>> /\ now = 0 /\ 0 \in 0..MaxTime
  BY PruneAssumption DEF PInit
<1>2. timeline \in Seq([id : Snapshots, time : 0..now]) /\ Chronological(timeline)
  BY <1>1 DEF Chronological
<1> QED BY <1>1, <1>2 DEF PInit, PTypeOK

LEMMA TypeStep == PTypeOK /\ [PNext]_pvars => PTypeOK'
<1> SUFFICES ASSUME PTypeOK, [PNext]_pvars
             PROVE  PTypeOK'
  OBVIOUS
<1>1. /\ now \in Nat /\ timeline \in Seq(Moment(now)) /\ recorded \subseteq Moment(now)
      /\ Ids(timeline) \subseteq Snapshots
  BY Typed DEF PTypeOK, Moment
<1>2. CASE UNCHANGED pvars
  BY <1>2 DEF PTypeOK, pvars, Chronological
<1>3. CASE Tick
  <2>1. now' \in 0..MaxTime /\ Moment(now) \subseteq Moment(now')
    BY <1>1, <1>3, PruneAssumption DEF Tick, Moment, PTypeOK
  <2>2. timeline \in Seq(Moment(now')) /\ recorded \subseteq Moment(now')
    BY <1>1, <2>1
  <2> QED BY <1>3, <2>1, <2>2 DEF PTypeOK, Tick, Moment, Chronological
<1>4. ASSUME NEW id \in Snapshots, NEW lines \in {1, 2}, Capture(id, lines)
      PROVE  PTypeOK'
  <2>1. CASE id \in Ids(timeline)
    BY <1>4, <2>1 DEF PTypeOK, Capture, Chronological
  <2>2. CASE id \notin Ids(timeline)
    <3> DEFINE line == [id |-> id, time |-> now]
               N == Len(timeline)
    <3>1. /\ timeline' \in Seq(Moment(now)) /\ Len(timeline') = N + lines
          /\ recorded' = recorded \cup {line}
          /\ \A i \in 1..N : timeline'[i] = timeline[i]
          /\ \A i \in (N + 1)..(N + lines) : timeline'[i] = line
      BY <1>4, <2>2, CaptureAdds
    <3>2. UNCHANGED <<now, policy, asking, announced>>
      BY <1>4 DEF Capture
    <3>3. line \in Moment(now) /\ line.time = now
      BY <1>1 DEF Moment
    <3> HIDE DEF line
    <3>4. Chronological(timeline')
      <4>1. N \in Nat /\ DOMAIN timeline = 1..N /\ DOMAIN timeline' = 1..(N + lines)
        BY <1>1, <3>1
      <4>2. \A i \in 1..N : timeline[i].time \in Nat /\ timeline[i].time <= now
        <5>1. \A i \in 1..N : timeline[i] \in Moment(now)
          BY <1>1
        <5> QED BY <1>1, <5>1 DEF Moment
      <4> SUFFICES ASSUME NEW i \in 1..(N + lines), NEW j \in 1..(N + lines), i < j
                   PROVE  timeline'[i].time <= timeline'[j].time
        BY <4>1 DEF Chronological
      <4> HIDE DEF N
      <4>3. CASE j <= N
        <5>1. i \in 1..N /\ j \in 1..N
          BY <4>1, <4>3
        <5>2. timeline[i].time <= timeline[j].time
          BY <4>1, <5>1 DEF PTypeOK, Chronological
        <5> QED BY <3>1, <5>1, <5>2
      <4>4. CASE j > N /\ i <= N
        BY <3>1, <3>3, <4>1, <4>2, <4>4
      <4>5. CASE j > N /\ i > N
        BY <1>1, <3>1, <3>3, <4>1, <4>5
      <4> QED BY <4>1, <4>3, <4>4, <4>5
    <3> QED BY <1>1, <3>1, <3>2, <3>3, <3>4 DEF PTypeOK, Moment, Chronological
  <2> QED BY <2>1, <2>2
<1>5. CASE Preview
  <2>1. announced' \subseteq Snapshots
    BY <1>1, <1>5 DEF Preview, Removed
  <2> QED BY <1>5, <2>1 DEF PTypeOK, Preview, Chronological
<1>6. CASE Decline
  BY <1>6 DEF PTypeOK, Decline, Chronological
<1>7. CASE Confirm
  <2>1. timeline' \in Seq(Moment(now)) /\ Chronological(timeline')
    BY <1>7, ConfirmLeaves
  <2> QED BY <1>7, <2>1 DEF PTypeOK, Confirm, Moment, Chronological
<1> QED BY <1>2, <1>3, <1>4, <1>5, <1>6, <1>7 DEF PNext

\* Every variable has its type, and however prunes, snapshots and the clock
\* follow one another, no line is from the future and none is older than one
\* before it: what the loops of prune.Plan take for granted.
THEOREM TypeCorrect == PSpec => []PTypeOK
BY InitTyped, TypeStep, PTL DEF PSpec

\* Plan keeps what the documented policy keeps, on every timeline there can be
\* (prune.go: the two loops).
THEOREM PlanKeepsWhatThePolicySays == PSpec => []PlanIsReference
<1>1. PTypeOK => PlanIsReference
  BY Typed, PlanIsRetained DEF PTypeOK, PlanIsReference, InRange
<1> QED BY <1>1, TypeCorrect, PTL

\* Without a cap the plan is what the first loop takes.
LEMMA PlanIsPicked ==
    ASSUME NEW lines \in Seq(Line), Chronological(lines), NEW p \in Policy, NEW t \in Int,
           p.max <= 0
    PROVE  Plan(lines, p, t) = {lines[i].id : i \in Picked(lines, p, t)}
<1>1. CASE lines = <<>>
  <2>1. DOMAIN lines = {}
    BY <1>1
  <2>2. Picked(lines, p, t) = {}
    BY <2>1 DEF Picked
  <2> QED BY <1>1, <2>2 DEF Plan
<1>2. CASE lines # <<>>
  <2>1. Thinned(Reverse(lines), p, t) = {lines[i].id : i \in Picked(lines, p, t)}
    BY <1>2, CutoffTypes, ThinnedIsPicked
  <2>2. ~ (p.max > 0)
    BY DEF Policy
  <2> QED BY <1>2, <2>1, <2>2 DEF Plan
<1> QED BY <1>1, <1>2

\* As time goes by the first loop takes less.
LEMMA PickedShrinks ==
    ASSUME NEW lines \in Seq(Line), NEW p \in Policy, NEW t \in Int
    PROVE  Picked(lines, p, t + 1) \subseteq Picked(lines, p, t)
<1>1. \A i \in DOMAIN lines : lines[i].time \in Int
  <2>1. \A i \in DOMAIN lines : lines[i] \in Line
    OBVIOUS
  <2> QED BY <2>1 DEF Line
<1>2. /\ RecentCutoff(p, t) \in Int /\ RecentCutoff(p, t + 1) = RecentCutoff(p, t) + 1
      /\ DailyCutoff(p, t) \in Int /\ DailyCutoff(p, t + 1) = DailyCutoff(p, t) + 1
  BY CutoffTypes
<1>3. \A i \in DOMAIN lines :
        /\ lines[i].time >= RecentCutoff(p, t + 1) => lines[i].time >= RecentCutoff(p, t)
        /\ lines[i].time >= DailyCutoff(p, t + 1) => lines[i].time >= DailyCutoff(p, t)
  BY <1>1, <1>2
<1> QED BY <1>3 DEF Picked, Newer

\* A line that was there is taken less often once there are newer ones.
LEMMA PickedBefore ==
    ASSUME NEW lines \in Seq(Line), NEW more \in Seq(Line), NEW p, NEW t,
           Len(lines) < Len(more), \A i \in 1..Len(lines) : more[i] = lines[i],
           NEW i \in 1..Len(lines), i \in Picked(more, p, t)
    PROVE  i \in Picked(lines, p, t)
<1> DEFINE N == Len(lines)
<1>1. /\ DOMAIN lines = 1..N /\ DOMAIN more = 1..Len(more) /\ 1..N \subseteq 1..Len(more)
      /\ i # Len(more)
  OBVIOUS
<1>2. \A j \in Newer(lines, i) : j \in Newer(more, i) /\ more[j] = lines[j]
  BY <1>1 DEF Newer
<1> QED BY <1>1, <1>2 DEF Picked

\* The initial states, and one step for each part of the invariant.
LEMMA InitInv == PInit => PInv
<1> SUFFICES ASSUME PInit
             PROVE  PInv
  OBVIOUS
<1>1. PTypeOK
  BY InitTyped
<1>2. timeline = <<>> /\ DOMAIN timeline = {} /\ recorded = {} /\ ~asking
  BY DEF PInit
<1> QED BY <1>1, <1>2 DEF PInv, OwedListed, AnnouncedDoomed

LEMMA RecordedStep ==
    ASSUME PInv, [PNext]_pvars
    PROVE  \A i \in DOMAIN timeline' : timeline'[i] \in recorded'
<1>1. PTypeOK /\ \A i \in DOMAIN timeline : timeline[i] \in recorded
  BY DEF PInv
<1>2. CASE UNCHANGED <<timeline, recorded>>
  BY <1>1, <1>2
<1>3. ASSUME NEW id \in Snapshots, NEW lines \in {1, 2}, Capture(id, lines)
      PROVE  \A i \in DOMAIN timeline' : timeline'[i] \in recorded'
  <2>1. CASE id \in Ids(timeline)
    BY <1>2, <1>3, <2>1 DEF Capture
  <2>2. CASE id \notin Ids(timeline)
    <3> DEFINE line == [id |-> id, time |-> now]
               N == Len(timeline)
    <3>1. /\ timeline' \in Seq(Moment(now)) /\ Len(timeline') = N + lines
          /\ recorded' = recorded \cup {line}
          /\ \A i \in 1..N : timeline'[i] = timeline[i]
          /\ \A i \in (N + 1)..(N + lines) : timeline'[i] = line
      BY <1>1, <1>3, <2>2, CaptureAdds
    <3> HIDE DEF line
    <3>2. N \in Nat /\ DOMAIN timeline = 1..N /\ DOMAIN timeline' = 1..(N + lines)
      BY <1>1, <3>1, Typed
    <3>3. \A i \in 1..(N + lines) : i \in 1..N \/ i \in (N + 1)..(N + lines)
      BY <3>2
    <3> HIDE DEF N
    <3> QED BY <1>1, <3>1, <3>2, <3>3
  <2> QED BY <2>1, <2>2
<1>4. CASE Confirm
  <2>1. recorded' = recorded
    BY <1>4 DEF Confirm
  <2>2. \A k \in DOMAIN timeline' : \E i \in DOMAIN timeline : timeline'[k] = timeline[i]
    BY <1>1, <1>4, ConfirmLeaves
  <2> QED BY <1>1, <2>1, <2>2
<1>5. UNCHANGED pvars \/ Tick \/ Preview \/ Decline => UNCHANGED <<timeline, recorded>>
  BY DEF pvars, Tick, Preview, Decline
<1> QED BY <1>2, <1>3, <1>4, <1>5 DEF PNext

\* With the same policy, what is owed later, or with more lines recorded, was
\* owed before.
LEMMA OwedShrinks ==
    ASSUME PTypeOK, policy' = policy, now' \in {now, now + 1}, recorded \subseteq recorded',
           NEW e \in recorded, Owed(e)'
    PROVE  Owed(e)
<1> DEFINE h == MaxInt0(policy.keepHours)
           d == DayLength * policy.keepDaily
<1>1. now \in Int /\ policy \in Policy /\ e.time \in Int
  BY Typed DEF PTypeOK
<1>2. h \in Int /\ d \in Int
  BY <1>1, PruneAssumption DEF MaxInt0, Policy
<1> HIDE DEF h, d
<1>3. /\ e.time >= now' - h => e.time >= now - h
      /\ e.time >= now' - d => e.time >= now - d
  BY <1>1, <1>2
<1>4. /\ InWindow(policy', now', e) => InWindow(policy, now, e)
      /\ InDays(policy', now', e) => InDays(policy, now, e)
  BY <1>3 DEF InWindow, InDays, h, d
<1> QED BY <1>4 DEF Owed

\* What is owed when a prune runs is wanted: no line of its day comes after its
\* last copy.
LEMMA OwedWanted ==
    ASSUME PTypeOK, \A i \in DOMAIN timeline : timeline[i] \in recorded,
           NEW e, Owed(e), \E i \in DOMAIN timeline : timeline[i] = e
    PROVE  \E i \in Wanted(timeline, policy, now) : timeline[i] = e
<1> DEFINE N == Len(timeline)
           At == {i \in 1..N : timeline[i] = e}
           i == Max(At)
<1>1. /\ N \in Nat /\ DOMAIN timeline = 1..N
      /\ \A j \in 1..N : timeline[j] \in Line /\ timeline[j].time \in Int
  <2>1. timeline \in Seq(Line)
    BY Typed
  <2>2. \A j \in 1..N : timeline[j] \in Line
    BY <2>1
  <2> QED BY <2>1, <2>2 DEF Line
<1>2. At \in SUBSET (0..N) /\ At # {}
  BY <1>1
<1>3. i \in At /\ \A j \in At : j <= i
  <2> HIDE DEF At, N
  <2> QED BY <1>1, <1>2, MaxIsLast
<1> HIDE DEF i
<1>4. i \in 1..N /\ timeline[i] = e
  BY <1>3
<1>5. CASE InWindow(policy, now, e)
  BY <1>1, <1>4, <1>5 DEF Wanted
<1>6. CASE /\ InDays(policy, now, e)
           /\ \A f \in recorded \ {e} : Day(f.time) = Day(e.time) => f.time < e.time
  <2>1. ASSUME NEW j \in Newer(timeline, i)
        PROVE  Day(timeline[j].time) # Day(e.time)
    <3>1. j \in 1..N /\ i < j /\ timeline[j] # e
      BY <1>1, <1>3, <1>4 DEF Newer
    <3>2. timeline[j] \in recorded \ {e} /\ e.time <= timeline[j].time
      BY <1>1, <1>4, <3>1 DEF PTypeOK, Chronological
    <3> QED BY <1>1, <1>4, <1>6, <3>1, <3>2
  <2> QED BY <1>1, <1>4, <1>6, <2>1 DEF Wanted
<1> QED BY <1>5, <1>6 DEF Owed

LEMMA OwedStep ==
    ASSUME PInv, [PNext]_pvars
    PROVE  OwedListed'
<1> SUFFICES ASSUME policy'.max <= 0, InRange(policy'),
                    NEW e \in recorded', Owed(e)'
             PROVE  \E i \in DOMAIN timeline' : timeline'[i] = e
  BY DEF OwedListed
<1>1. /\ PTypeOK /\ OwedListed
      /\ \A i \in DOMAIN timeline : timeline[i] \in recorded
  BY DEF PInv
<1>2. policy' = policy /\ now' \in {now, now + 1} /\ recorded \subseteq recorded'
  BY DEF PNext, pvars, Tick, Capture, Preview, Decline, Confirm
<1>3. e \in recorded => Owed(e) /\ \E i \in DOMAIN timeline : timeline[i] = e
  <2> SUFFICES ASSUME e \in recorded
               PROVE  Owed(e) /\ \E i \in DOMAIN timeline : timeline[i] = e
    OBVIOUS
  <2>1. Owed(e)
    BY <1>1, <1>2, OwedShrinks
  <2> QED BY <1>1, <1>2, <2>1 DEF OwedListed
<1>4. CASE UNCHANGED <<timeline, recorded>>
  BY <1>3, <1>4
<1>5. ASSUME NEW id \in Snapshots, NEW lines \in {1, 2}, Capture(id, lines)
      PROVE  \E i \in DOMAIN timeline' : timeline'[i] = e
  <2>1. CASE id \in Ids(timeline)
    BY <1>3, <1>5, <2>1 DEF Capture
  <2>2. CASE id \notin Ids(timeline)
    <3> DEFINE line == [id |-> id, time |-> now]
               N == Len(timeline)
    <3>1. /\ timeline' \in Seq(Moment(now)) /\ Len(timeline') = N + lines
          /\ recorded' = recorded \cup {line}
          /\ \A i \in 1..N : timeline'[i] = timeline[i]
          /\ \A i \in (N + 1)..(N + lines) : timeline'[i] = line
      BY <1>1, <1>5, <2>2, CaptureAdds
    <3> HIDE DEF line
    <3>2. N \in Nat /\ DOMAIN timeline = 1..N /\ DOMAIN timeline' = 1..(N + lines)
      BY <1>1, <3>1, Typed
    <3>3. 1..N \subseteq 1..(N + lines) /\ N + 1 \in 1..(N + lines)
          /\ N + 1 \in (N + 1)..(N + lines)
      BY <3>2
    <3> HIDE DEF N
    <3>4. CASE e \in recorded
      BY <1>3, <3>1, <3>2, <3>3, <3>4
    <3>5. CASE e = line
      BY <3>1, <3>2, <3>3, <3>5
    <3> QED BY <3>1, <3>4, <3>5
  <2> QED BY <2>1, <2>2
<1>6. CASE Confirm
  <2>1. e \in recorded /\ policy.max <= 0 /\ InRange(policy)
    BY <1>2, <1>6 DEF Confirm
  <2>2. PICK i \in Wanted(timeline, policy, now) : timeline[i] = e
    BY <1>1, <1>3, <2>1, OwedWanted
  <2>3. Plan(timeline, policy, now) = Retained(timeline, policy, now)
    BY <1>1, <2>1, Typed, PlanIsRetained DEF PTypeOK, InRange
  <2>4. ~ (policy.max > 0)
    BY <1>1, <2>1, Typed DEF Policy
  <2>5. i \in DOMAIN timeline /\ timeline[i].id \in Plan(timeline, policy, now)
    BY <2>2, <2>3, <2>4 DEF Retained, Wanted
  <2> QED BY <1>1, <1>6, <2>2, <2>5, ConfirmLeaves
<1>7. UNCHANGED pvars \/ Tick \/ Preview \/ Decline => UNCHANGED <<timeline, recorded>>
  BY DEF pvars, Tick, Preview, Decline
<1> QED BY <1>4, <1>5, <1>6, <1>7 DEF PNext

LEMMA DoomedStep ==
    ASSUME PInv, [PNext]_pvars
    PROVE  AnnouncedDoomed'
<1> SUFFICES ASSUME asking', policy'.max <= 0, NEW id \in announced'
             PROVE  /\ id \in Ids(timeline')
                    /\ \A i \in Picked(timeline', policy', now') : timeline'[i].id # id
  BY DEF AnnouncedDoomed
<1>1. /\ PTypeOK /\ AnnouncedDoomed /\ timeline \in Seq(Line) /\ policy \in Policy
      /\ now \in Int
  BY Typed DEF PInv
<1>2. asking /\ policy.max <= 0 /\ id \in announced =>
        /\ id \in Ids(timeline)
        /\ \A i \in Picked(timeline, policy, now) : timeline[i].id # id
  BY <1>1 DEF AnnouncedDoomed
<1>3. CASE UNCHANGED pvars
  BY <1>2, <1>3 DEF pvars
<1>4. CASE Tick
  <2>1. now' = now + 1 /\ UNCHANGED <<timeline, policy, asking, announced>>
    BY <1>4 DEF Tick
  <2>2. Picked(timeline, policy, now + 1) \subseteq Picked(timeline, policy, now)
    BY <1>1, PickedShrinks
  <2> QED BY <1>2, <2>1, <2>2
<1>5. ASSUME NEW new \in Snapshots, NEW lines \in {1, 2}, Capture(new, lines)
      PROVE  /\ id \in Ids(timeline')
             /\ \A i \in Picked(timeline', policy', now') : timeline'[i].id # id
  <2>1. UNCHANGED <<now, policy, asking, announced>>
    BY <1>5 DEF Capture
  <2>2. CASE new \in Ids(timeline)
    BY <1>2, <1>5, <2>1, <2>2 DEF Capture
  <2>3. CASE new \notin Ids(timeline)
    <3> DEFINE N == Len(timeline)
    <3>1. /\ timeline' \in Seq(Line) /\ Len(timeline') = N + lines
          /\ \A i \in 1..N : timeline'[i] = timeline[i]
          /\ \A i \in (N + 1)..(N + lines) : timeline'[i].id = new
      <4> DEFINE line == [id |-> new, time |-> now]
      <4>1. /\ timeline' \in Seq(Moment(now)) /\ Len(timeline') = N + lines
            /\ \A i \in 1..N : timeline'[i] = timeline[i]
            /\ \A i \in (N + 1)..(N + lines) : timeline'[i] = line
        BY <1>1, <1>5, <2>3, CaptureAdds
      <4>2. Moment(now) \subseteq Line
        BY <1>1, Typed, MomentIsLine
      <4>3. line.id = new
        OBVIOUS
      <4> HIDE DEF line
      <4> QED BY <4>1, <4>2, <4>3
    <3>2. /\ N \in Nat /\ DOMAIN timeline = 1..N /\ DOMAIN timeline' = 1..(N + lines)
          /\ N < Len(timeline')
      BY <1>1, <3>1
    <3>3. \A i \in 1..(N + lines) : i \in 1..N \/ i \in (N + 1)..(N + lines)
      BY <3>2
    <3>4. 1..N \subseteq 1..(N + lines)
      BY <3>2
    <3>5. id \in Ids(timeline) /\ \A i \in Picked(timeline, policy, now) : timeline[i].id # id
      BY <1>2, <2>1
    <3>6. id \in Ids(timeline')
      <4> HIDE DEF N
      <4> QED BY <3>1, <3>2, <3>4, <3>5 DEF Ids
    <3>7. ASSUME NEW i \in Picked(timeline', policy, now)
          PROVE  timeline'[i].id # id
      <4>1. i \in 1..(N + lines)
        BY <3>2 DEF Picked
      <4>2. CASE i \in 1..N
        <5>1. i \in Picked(timeline, policy, now)
          BY <1>1, <3>1, <3>2, <3>7, <4>2, PickedBefore
        <5> QED BY <3>1, <3>5, <4>2, <5>1
      <4>3. CASE i \in (N + 1)..(N + lines)
        BY <2>3, <3>1, <3>5, <4>3
      <4> QED BY <3>3, <4>1, <4>2, <4>3
    <3> QED BY <2>1, <3>6, <3>7
  <2> QED BY <2>2, <2>3
<1>6. CASE Preview
  <2>1. /\ UNCHANGED <<timeline, now, policy>>
        /\ id \in Ids(timeline) \ Plan(timeline, policy, now)
    BY <1>6 DEF Preview, Removed
  <2>2. Plan(timeline, policy, now) = {timeline[i].id : i \in Picked(timeline, policy, now)}
    BY <1>1, <2>1, PlanIsPicked DEF PTypeOK
  <2> QED BY <2>1, <2>2
<1>7. ~Decline /\ ~Confirm
  BY DEF Decline, Confirm
<1> QED BY <1>3, <1>4, <1>5, <1>6, <1>7 DEF PNext

LEMMA InvStep == PInv /\ [PNext]_pvars => PInv'
BY TypeStep, RecordedStep, OwedStep, DoomedStep DEF PInv

\* The invariant holds: every listed line was recorded, what is owed is listed as
\* it was recorded, and what was announced is still listed and still to go (the
\* preview and the second plan of cli/prune.go).
THEOREM Invariance == PSpec => []PInv
BY InitInv, InvStep, PTL DEF PSpec

\* However prunes and snapshots follow one another, without a cap what the
\* policy owes is listed: one prune does not spoil what a later one has to keep
\* (prune.go: "everything within the recent window").
THEOREM PromisesAreKept == PSpec => []PromiseKept
<1>1. PInv => PromiseKept
  <2> SUFFICES ASSUME PInv, policy.max <= 0, InRange(policy), NEW e \in recorded, Owed(e)
               PROVE  e.id \in Ids(timeline)
    BY DEF PromiseKept
  <2>1. \E i \in DOMAIN timeline : timeline[i] = e
    BY DEF PInv, OwedListed
  <2> QED BY <2>1 DEF Ids
<1> QED BY <1>1, Invariance, PTL

\* Without a cap, what the preview announced is gone when the user has agreed,
\* whatever was recorded and however much time went by in between, also when
\* the hours wrap around (cli/prune.go plans twice).
THEOREM AnnouncedIsGone == PSpec => AnnouncedGo
<1>1. ASSUME PInv, Confirm, policy.max <= 0
      PROVE  announced \cap Ids(timeline') = {}
  <2>1. PTypeOK /\ AnnouncedDoomed /\ asking
    BY <1>1 DEF PInv, Confirm
  <2>2. Plan(timeline, policy, now) = {timeline[i].id : i \in Picked(timeline, policy, now)}
    BY <1>1, <2>1, Typed, PlanIsPicked DEF PTypeOK
  <2>3. \A k \in DOMAIN timeline' : timeline'[k].id \in Plan(timeline, policy, now)
    BY <1>1, <2>1, ConfirmLeaves
  <2> QED BY <1>1, <2>1, <2>2, <2>3 DEF AnnouncedDoomed, Ids
<1>2. PInv /\ [PNext]_pvars =>
        [Confirm /\ policy.max <= 0 => announced \cap Ids(timeline') = {}]_pvars
  BY <1>1
<1> QED BY <1>2, Invariance, PTL DEF PSpec, AnnouncedGo

-----------------------------------------------------------------------------
(* What module Store takes for granted of a plan. *)

\* The cap holds: the newest is counted like the others.
LEMMA CapHolds ==
    ASSUME NEW lines \in Seq(Line), lines # <<>>, NEW keep, lines[1].id \in keep,
           NEW max \in Nat \ {0}
    PROVE  Cardinality(Capped(lines, keep, max)) <= max
<1> DEFINE N == Len(lines)
           Fits(n, ids) == /\ IsFiniteSet(ids) /\ Cardinality(ids) \in Nat
                           /\ Cardinality(ids) <= max
                           /\ n > 0 => lines[1].id \in ids
<1>1. PICK run : RunsCapped(run, lines, keep, max)
  BY CappedRun
<1>2. N \in Nat \ {0}
  OBVIOUS
<1>3. Fits(0, run[0])
  BY <1>1, FS_EmptySet DEF RunsCapped
<1>4. ASSUME NEW n \in 1..N, Fits(n - 1, run[n - 1])
      PROVE  Fits(n, run[n])
  <2> DEFINE ids == run[n - 1]
             id == lines[n].id
  <2>1. run[n] = IF id \in keep \ ids /\ Cardinality(ids) < max
                 THEN ids \cup {id} ELSE ids
    BY <1>1 DEF RunsCapped
  <2>2. /\ IsFiniteSet(ids) /\ Cardinality(ids) \in Nat /\ Cardinality(ids) <= max
        /\ n = 1 \/ lines[1].id \in ids
    BY <1>2, <1>4
  <2>3. n = 1 => ids = {} /\ Cardinality(ids) = 0
    <3>1. n = 1 => n - 1 = 0
      OBVIOUS
    <3>2. n = 1 => ids = {}
      BY <1>1, <3>1 DEF RunsCapped
    <3> QED BY <3>2, FS_EmptySet
  <2> HIDE DEF ids
  <2>4. IsFiniteSet(ids \cup {id}) /\ Cardinality(ids \cup {id})
          = IF id \in ids THEN Cardinality(ids) ELSE Cardinality(ids) + 1
    BY <2>2, FS_AddElement
  <2>5. CASE id \in keep \ ids /\ Cardinality(ids) < max
    BY <2>1, <2>2, <2>4, <2>5
  <2>6. CASE ~ (id \in keep \ ids /\ Cardinality(ids) < max)
    <3>1. run[n] = ids /\ lines[1].id \in ids
      BY <2>1, <2>2, <2>3, <2>6
    <3> QED BY <2>2, <3>1
  <2> QED BY <2>5, <2>6
<1> DEFINE T == {n \in 0..N : Fits(n, run[n])}
<1> HIDE DEF Fits, N
<1>5. 0..N \subseteq T
  <2>1. 0 \in T /\ \A n \in 1..N : n - 1 \in T => n \in T
    BY <1>2, <1>3, <1>4
  <2> HIDE DEF T
  <2> QED BY <1>2, <2>1, InductionUpTo
<1>6. Fits(N, run[N])
  BY <1>2, <1>5
<1>7. Cardinality(run[N]) <= max /\ lines[1].id \in run[N]
  BY <1>2, <1>6 DEF Fits
<1>8. Capped(lines, keep, max) = run[N] \cup {lines[1].id}
  BY <1>1 DEF RunsCapped, N
<1>9. Capped(lines, keep, max) = run[N]
  BY <1>7, <1>8
<1> QED BY <1>7, <1>9

\* The plan keeps ids that are listed, the newest among them, and no more than a
\* cap allows.
PlanFits ==
    timeline # <<>> =>
        /\ Plan(timeline, policy, now) \subseteq Ids(timeline)
        /\ timeline[Len(timeline)].id \in Plan(timeline, policy, now)
        /\ policy.max > 0 => Cardinality(Plan(timeline, policy, now)) <= policy.max

LEMMA PlanFitsTypes == PTypeOK => PlanFits
<1> SUFFICES ASSUME PTypeOK, timeline # <<>>
             PROVE  /\ Plan(timeline, policy, now) \subseteq Ids(timeline)
                    /\ timeline[Len(timeline)].id \in Plan(timeline, policy, now)
                    /\ policy.max > 0 => Cardinality(Plan(timeline, policy, now)) <= policy.max
  BY DEF PlanFits
<1> DEFINE ordered == Reverse(timeline)
           keep == {timeline[i].id : i \in Picked(timeline, policy, now)}
<1>1. timeline \in Seq(Line) /\ Chronological(timeline) /\ policy \in Policy /\ now \in Int
  BY Typed DEF PTypeOK
<1>2. Len(timeline) \in DOMAIN timeline
  BY <1>1
<1>3. ordered \in Seq(Line) /\ ordered # <<>> /\ ordered[1] = timeline[Len(timeline)]
  BY <1>1, <1>2, Reversed
<1>4. Thinned(ordered, policy, now) = keep
  BY <1>1, CutoffTypes, ThinnedIsPicked
<1>5. keep \in SUBSET Ids(timeline) /\ timeline[Len(timeline)].id \in keep
  BY <1>2 DEF Picked, Ids
<1>6. policy.max \in Int
  BY <1>1 DEF Policy
<1>7. Plan(timeline, policy, now)
        = IF policy.max > 0 THEN Capped(ordered, keep, policy.max) ELSE keep
  BY <1>4 DEF Plan
<1> HIDE DEF ordered, keep
<1>8. CASE policy.max > 0
  <2>1. Cardinality(Capped(ordered, keep, policy.max)) <= policy.max
    BY <1>3, <1>5, <1>6, <1>8, CapHolds
  <2>2. PICK run : RunsCapped(run, ordered, keep, policy.max)
    BY <1>3, CappedRun
  <2>3. Capped(ordered, keep, policy.max)
          = {id \in keep : Cardinality(Ahead(timeline, keep, id)) < policy.max}
    BY <1>1, <1>5, <1>6, <1>8, CappedIsNewest DEF ordered
  <2>4. ordered[1].id \in Capped(ordered, keep, policy.max)
    BY <2>2 DEF RunsCapped
  <2> QED BY <1>3, <1>5, <1>7, <1>8, <2>1, <2>3, <2>4
<1>9. CASE ~ (policy.max > 0)
  BY <1>5, <1>7, <1>9
<1> QED BY <1>8, <1>9

\* Under every retention, also one whose hours wrap around, a prune has a plan
\* that PlanKeep of module Store allows, so that what is shown there of any such
\* plan holds of this one (prune.go: the newest is kept, the cap is hard).
THEOREM PlanFitsStore == PSpec => []PlanFits
BY TypeCorrect, PlanFitsTypes, PTL
=============================================================================
