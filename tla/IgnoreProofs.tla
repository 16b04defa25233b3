----------------------------- MODULE IgnoreProofs -----------------------------
(***************************************************************************)
(* Proofs about the ignore matcher, for lines, patterns and paths of every *)
(* length.  The meaning of a pattern is a cut of the text (Globs, Covers); *)
(* the loop of matchSegment and the recursion of matchSegs are shown to    *)
(* find one if there is one, by induction on the position, and the lists   *)
(* that Split, Joined and Match fold over are followed element by element. *)
(***************************************************************************)
EXTENDS Ignore, InductionTheorems, SequenceTheorems

-----------------------------------------------------------------------------
(* The loop over `*`. *)

\* The characters that mean something are six, and none stands for itself.
LEMMA Marks ==
    /\ Star # One /\ Slash # Blank /\ Slash # Bang /\ Slash # Hash
    /\ Star \notin Alphabet /\ One \notin Alphabet /\ Slash \notin Alphabet
    /\ Bang \notin Alphabet /\ Hash \notin Alphabet /\ Blank \notin Alphabet
<1>1. /\ Special[1] = Star /\ Special[2] = One /\ Special[3] = Slash
      /\ Special[4] = Bang /\ Special[5] = Hash /\ Special[6] = Blank
  BY DEF Special
<1>2. 1 \in 1..6 /\ 2 \in 1..6 /\ 3 \in 1..6 /\ 4 \in 1..6 /\ 5 \in 1..6 /\ 6 \in 1..6
  OBVIOUS
<1>3. /\ Star # One /\ Slash # Blank /\ Slash # Bang /\ Slash # Hash
  <2>1. 1 # 2 /\ 3 # 6 /\ 3 # 4 /\ 3 # 5
    OBVIOUS
  <2> QED BY ONLY <1>1, <1>2, <2>1, IgnoreAssumption, Zenon
<1> QED BY ONLY <1>1, <1>2, <1>3, IgnoreAssumption, Zenon

\* From its i-th character on, the pattern stands for the name from its j-th on.
Rest(pat, name, i, j) ==
    \E cut \in [0..Len(pat) -> 0..Len(name)] :
        /\ cut[i - 1] = j - 1 /\ cut[Len(pat)] = Len(name)
        /\ \A k \in i..Len(pat) :
             IF pat[k] = Star
             THEN cut[k - 1] <= cut[k]
             ELSE cut[k] = cut[k - 1] + 1 /\ pat[k] \in {One, name[cut[k]]}

Fits(pat, name, i, j) ==
    i <= Len(pat) /\ j <= Len(name) /\ pat[i] # Star /\ pat[i] \in {One, name[j]}

LEMMA RestEnds ==
    ASSUME NEW pat \in Seq(Character), NEW name \in Seq(Alphabet),
           NEW j \in 1..(Len(name) + 1)
    PROVE  Rest(pat, name, Len(pat) + 1, j) <=> j = Len(name) + 1
<1> DEFINE P == Len(pat)
           L == Len(name)
<1>1. P \in Nat /\ L \in Nat
  OBVIOUS
<1>2. ASSUME Rest(pat, name, P + 1, j)
      PROVE  j = L + 1
  <2>1. PICK cut \in [0..P -> 0..L] : cut[(P + 1) - 1] = j - 1 /\ cut[P] = L
    BY <1>2 DEF Rest
  <2> QED BY <1>1, <2>1
<1>3. ASSUME j = L + 1
      PROVE  Rest(pat, name, P + 1, j)
  <2> DEFINE cut == [k \in 0..P |-> L]
  <2>1. cut \in [0..P -> 0..L] /\ cut[(P + 1) - 1] = j - 1 /\ cut[P] = L
    BY <1>1, <1>3
  <2>2. (P + 1)..P = {}
    BY <1>1
  <2> HIDE DEF cut
  <2> QED BY <2>1, <2>2 DEF Rest
<1> QED BY <1>2, <1>3

LEMMA RestStep ==
    ASSUME NEW pat \in Seq(Character), NEW name \in Seq(Alphabet),
           NEW i \in 1..Len(pat), NEW j \in 1..(Len(name) + 1)
    PROVE  /\ pat[i] = Star =>
                (Rest(pat, name, i, j)
                   <=> \E k \in j..(Len(name) + 1) : Rest(pat, name, i + 1, k))
           /\ pat[i] # Star =>
                (Rest(pat, name, i, j)
                   <=> Fits(pat, name, i, j) /\ Rest(pat, name, i + 1, j + 1))
<1> DEFINE P == Len(pat)
           L == Len(name)
           Ok(cut, k) == IF pat[k] = Star
                         THEN cut[k - 1] <= cut[k]
                         ELSE cut[k] = cut[k - 1] + 1 /\ pat[k] \in {One, name[cut[k]]}
           Cut(cut, m, n) ==
             /\ cut[m - 1] = n - 1 /\ cut[P] = L
             /\ \A k \in m..P : Ok(cut, k)
<1>1. P \in Nat /\ L \in Nat
  OBVIOUS
<1>2. \A m, n : Rest(pat, name, m, n) <=> \E cut \in [0..P -> 0..L] : Cut(cut, m, n)
  BY DEF Rest
<1>3. ASSUME NEW cut \in [0..P -> 0..L], Cut(cut, i, j)
      PROVE  /\ cut[i] + 1 \in 1..(L + 1) /\ Cut(cut, i + 1, cut[i] + 1)
             /\ pat[i] = Star => cut[i] + 1 >= j
             /\ pat[i] # Star => cut[i] + 1 = j + 1 /\ Fits(pat, name, i, j)
  <2>1. cut[i - 1] = j - 1 /\ Ok(cut, i) /\ cut[i] \in 0..L
    <3>1. i \in i..P /\ i \in 0..P
      BY <1>1
    <3> HIDE DEF Ok
    <3> QED BY <1>3, <3>1
  <2>2. Cut(cut, i + 1, cut[i] + 1)
    <3>1. (i + 1) - 1 = i /\ (cut[i] + 1) - 1 = cut[i]
      BY <2>1
    <3>2. \A k \in (i + 1)..P : k \in i..P
      OBVIOUS
    <3> HIDE DEF Ok
    <3> QED BY <1>3, <3>1, <3>2
  <2> QED BY <1>1, <2>1, <2>2 DEF Fits
<1>4. ASSUME NEW k \in 1..(L + 1), NEW cut \in [0..P -> 0..L], Cut(cut, i + 1, k),
             IF pat[i] = Star THEN j <= k ELSE k = j + 1 /\ Fits(pat, name, i, j)
      PROVE  \E c \in [0..P -> 0..L] : Cut(c, i, j)
  <2> DEFINE c == [cut EXCEPT ![i - 1] = j - 1]
  <2>1. i - 1 \in 0..P /\ i \in 0..P /\ i - 1 # i /\ j - 1 \in 0..L
    BY <1>1
  <2>2. c \in [0..P -> 0..L]
    BY <2>1
  <2>3. c[i - 1] = j - 1 /\ c[P] = cut[P] /\ c[i] = cut[i] /\ cut[i] = k - 1
    <3>1. P # i - 1 /\ P \in 0..P /\ (i + 1) - 1 = i
      BY <1>1
    <3> QED BY <1>4, <2>1, <3>1
  <2>4. \A m \in (i + 1)..P : c[m] = cut[m] /\ c[m - 1] = cut[m - 1]
    <3>1. \A m \in (i + 1)..P : m \in 0..P /\ m - 1 \in 0..P /\ m # i - 1 /\ m - 1 # i - 1
      BY <1>1
    <3> QED BY <3>1
  <2> HIDE DEF c
  <2>5. Ok(c, i)
    BY <1>1, <1>4, <2>3 DEF Fits
  <2>6. \A m \in i..P : m = i \/ m \in (i + 1)..P
    BY <1>1
  <2>7. Cut(c, i, j)
    BY <1>4, <2>3, <2>4, <2>5, <2>6
  <2> HIDE DEF Cut
  <2> QED BY <2>2, <2>7
<1> HIDE DEF Cut, P, L
<1>5. \A k \in j..(L + 1) : k \in 1..(L + 1)
  BY <1>1
<1>6. CASE pat[i] = Star
  <2>1. ASSUME Rest(pat, name, i, j)
        PROVE  \E k \in j..(L + 1) : Rest(pat, name, i + 1, k)
    <3>1. PICK cut \in [0..P -> 0..L] : Cut(cut, i, j)
      BY <1>2, <2>1
    <3>2. cut[i] + 1 \in j..(L + 1)
      <4>1. cut[i] + 1 \in 1..(L + 1) /\ cut[i] + 1 >= j
        BY <1>3, <1>6, <3>1
      <4> QED BY <4>1, <1>1
    <3> QED BY <1>2, <1>3, <3>1, <3>2
  <2>2. ASSUME NEW k \in j..(L + 1), Rest(pat, name, i + 1, k)
        PROVE  Rest(pat, name, i, j)
    <3>1. PICK cut \in [0..P -> 0..L] : Cut(cut, i + 1, k)
      BY <1>2, <2>2
    <3>2. j <= k
      BY <1>1
    <3> QED BY <1>2, <1>4, <1>5, <1>6, <3>1, <3>2
  <2> QED BY <1>6, <2>1, <2>2 DEF L
<1>7. CASE pat[i] # Star
  <2>1. ASSUME Rest(pat, name, i, j)
        PROVE  Fits(pat, name, i, j) /\ Rest(pat, name, i + 1, j + 1)
    <3>1. PICK cut \in [0..P -> 0..L] : Cut(cut, i, j)
      BY <1>2, <2>1
    <3>2. cut[i] + 1 = j + 1 /\ Fits(pat, name, i, j) /\ Cut(cut, i + 1, cut[i] + 1)
      BY <1>3, <1>7, <3>1
    <3> QED BY <1>2, <3>2
  <2>2. ASSUME Fits(pat, name, i, j), Rest(pat, name, i + 1, j + 1)
        PROVE  Rest(pat, name, i, j)
    <3>1. PICK cut \in [0..P -> 0..L] : Cut(cut, i + 1, j + 1)
      BY <1>2, <2>2
    <3>2. j + 1 \in 1..(L + 1)
      BY <1>1, <2>2 DEF Fits, L
    <3> QED BY <1>2, <1>4, <1>7, <2>2, <3>1, <3>2
  <2> QED BY <1>7, <2>1, <2>2
<1> QED BY <1>6, <1>7

\* Behind the end of the name, only stars can stand.
LEMMA RestStars ==
    ASSUME NEW pat \in Seq(Character), NEW name \in Seq(Alphabet),
           NEW i \in 1..(Len(pat) + 1)
    PROVE  Rest(pat, name, i, Len(name) + 1) <=> \A k \in i..Len(pat) : pat[k] = Star
<1> DEFINE P == Len(pat)
           L == Len(name)
           Ok(m) == Rest(pat, name, m, L + 1) <=> \A k \in m..P : pat[k] = Star
           T == {n \in 0..P : Ok(P + 1 - n)}
<1>1. P \in Nat /\ L \in Nat /\ L + 1 \in 1..(L + 1)
  OBVIOUS
<1>2. Ok(P + 1)
  <2>1. (P + 1)..P = {}
    BY <1>1
  <2> QED BY <1>1, <2>1, RestEnds
<1>3. ASSUME NEW m \in 1..P, Ok(m + 1)
      PROVE  Ok(m)
  <2>1. /\ pat[m] = Star =>
             (Rest(pat, name, m, L + 1)
                <=> \E k \in (L + 1)..(L + 1) : Rest(pat, name, m + 1, k))
        /\ pat[m] # Star =>
             (Rest(pat, name, m, L + 1)
                <=> Fits(pat, name, m, L + 1) /\ Rest(pat, name, m + 1, L + 2))
    <3>1. (L + 1) + 1 = L + 2
      BY <1>1
    <3> QED BY <1>1, <3>1, RestStep
  <2>2. ~Fits(pat, name, m, L + 1)
    BY <1>1 DEF Fits
  <2>3. (L + 1)..(L + 1) = {L + 1}
    BY <1>1
  <2>4. \A k \in m..P : k = m \/ k \in (m + 1)..P
    BY <1>1
  <2>5. m \in m..P /\ \A k \in (m + 1)..P : k \in m..P
    BY <1>1
  <2> HIDE DEF L, P
  <2> QED BY <1>3, <2>1, <2>2, <2>3, <2>4, <2>5
<1> HIDE DEF Ok, P
<1>4. 0..P \subseteq T
  <2>1. 0 \in T
    BY <1>1, <1>2
  <2>2. ASSUME NEW n \in 1..P, n - 1 \in T
        PROVE  n \in T
    <3>1. P + 1 - n \in 1..P /\ (P + 1 - n) + 1 = P + 1 - (n - 1)
      BY <1>1
    <3> QED BY <1>3, <2>2, <3>1
  <2> HIDE DEF T
  <2> QED BY <1>1, <2>1, <2>2, InductionUpTo
<1>5. P + 1 - i \in 0..P /\ P + 1 - (P + 1 - i) = i
  BY <1>1 DEF P
<1> QED BY <1>4, <1>5 DEF Ok, P

\* From behind the i-th character to the one before the p-th, the pattern has no
\* star and stands for the name from its j-th on.
Literal(pat, name, i, p, j) ==
    \A k \in i..(p - 1) : Fits(pat, name, k, j + (k - i))

LEMMA LiteralStep ==
    ASSUME NEW pat \in Seq(Character), NEW name \in Seq(Alphabet),
           NEW i \in 1..(Len(pat) + 1), NEW p \in i..(Len(pat) + 1),
           NEW j \in 1..(Len(name) + 1), j + (p - i) <= Len(name) + 1,
           Literal(pat, name, i, p, j)
    PROVE  Rest(pat, name, i, j) <=> Rest(pat, name, p, j + (p - i))
<1> DEFINE P == Len(pat)
           L == Len(name)
           Ok(n) == Rest(pat, name, i, j) <=> Rest(pat, name, i + n, j + n)
           T == {n \in 0..(p - i) : Ok(n)}
<1>1. P \in Nat /\ L \in Nat /\ p - i \in Nat /\ i + (p - i) = p
  OBVIOUS
<1>2. Ok(0)
  <2>1. i + 0 = i /\ j + 0 = j
    OBVIOUS
  <2> QED BY <2>1
<1>3. ASSUME NEW n \in 1..(p - i), Ok(n - 1)
      PROVE  Ok(n)
  <2> DEFINE k == i + (n - 1)
             m == j + (n - 1)
  <2>1. /\ k \in 1..P /\ m \in 1..(L + 1) /\ k + 1 = i + n /\ m + 1 = j + n
        /\ k \in i..(p - 1) /\ m = j + (k - i)
    BY <1>1
  <2> HIDE DEF k, m
  <2>2. Fits(pat, name, k, m)
    BY <2>1 DEF Literal
  <2>3. pat[k] # Star
    BY <2>2 DEF Fits
  <2>4. Rest(pat, name, k, m) <=> Rest(pat, name, k + 1, m + 1)
    BY <2>1, <2>2, <2>3, RestStep
  <2>5. Rest(pat, name, i, j) <=> Rest(pat, name, k, m)
    BY <1>3 DEF k, m
  <2> QED BY <2>1, <2>4, <2>5
<1> HIDE DEF Ok
<1>4. 0..(p - i) \subseteq T
  <2>1. 0 \in T
    BY <1>1, <1>2
  <2>2. \A n \in 1..(p - i) : n - 1 \in T => n \in T
    BY <1>1, <1>3
  <2> HIDE DEF T
  <2> QED BY <1>1, <2>1, <2>2, InductionUpTo
<1>5. Ok(p - i)
  BY <1>1, <1>4
<1> QED BY <1>1, <1>5 DEF Ok

\* Without a star the pattern takes a character for each of its own.
LEMMA StarlessTakes ==
    ASSUME NEW pat \in Seq(Character), NEW name \in Seq(Alphabet),
           NEW i \in 1..(Len(pat) + 1), NEW p \in i..(Len(pat) + 1),
           NEW j \in 1..(Len(name) + 1),
           \A k \in i..(p - 1) : pat[k] # Star,
           Rest(pat, name, i, j)
    PROVE  j + (p - i) <= Len(name) + 1 /\ Rest(pat, name, p, j + (p - i))
<1> DEFINE P == Len(pat)
           L == Len(name)
           Ok(n) == j + n <= L + 1 /\ Rest(pat, name, i + n, j + n)
           T == {n \in 0..(p - i) : Ok(n)}
<1>1. P \in Nat /\ L \in Nat /\ p - i \in Nat /\ i + (p - i) = p
  OBVIOUS
<1>2. Ok(0)
  <2>1. i + 0 = i /\ j + 0 = j /\ j <= L + 1
    OBVIOUS
  <2> QED BY <2>1
<1>3. ASSUME NEW n \in 1..(p - i), Ok(n - 1)
      PROVE  Ok(n)
  <2> DEFINE k == i + (n - 1)
             m == j + (n - 1)
  <2>1. /\ k \in 1..P /\ m \in 1..(L + 1) /\ k + 1 = i + n /\ m + 1 = j + n
        /\ k \in i..(p - 1)
    BY <1>1, <1>3
  <2>2. Rest(pat, name, k, m)
    BY <1>3
  <2> HIDE DEF k, m
  <2>3. pat[k] # Star
    BY <2>1
  <2>4. Fits(pat, name, k, m) /\ Rest(pat, name, k + 1, m + 1)
    BY <2>1, <2>2, <2>3, RestStep
  <2>5. j + n <= L + 1
    BY <1>1, <2>1, <2>4 DEF Fits
  <2> QED BY <2>1, <2>4, <2>5
<1> HIDE DEF Ok
<1>4. 0..(p - i) \subseteq T
  <2>1. 0 \in T
    BY <1>1, <1>2
  <2>2. \A n \in 1..(p - i) : n - 1 \in T => n \in T
    BY <1>1, <1>3
  <2> HIDE DEF T
  <2> QED BY <1>1, <2>1, <2>2, InductionUpTo
<1>5. Ok(p - i)
  BY <1>1, <1>4
<1> QED BY <1>1, <1>5 DEF Ok

\* The loop, from each of its positions on.
Advance(pat, name, at) ==
    IF Fits(pat, name, at.p, at.n)
    THEN [at EXCEPT !.p = @ + 1, !.n = @ + 1]
    ELSE IF at.p <= Len(pat) /\ pat[at.p] = Star
    THEN [at EXCEPT !.p = @ + 1, !.star = at.p, !.from = at.n]
    ELSE [p |-> at.star + 1, n |-> at.from + 1, star |-> at.star, from |-> at.from + 1]

Stuck(pat, name, at) ==
    ~Fits(pat, name, at.p, at.n) /\ ~(at.p <= Len(pat) /\ pat[at.p] = Star)

Turn(loop, pat, name, at) ==
    IF at.n > Len(name)
    THEN \A i \in at.p..Len(pat) : pat[i] = Star
    ELSE IF Stuck(pat, name, at)
    THEN at.star # 0 /\ loop[Advance(pat, name, at)]
    ELSE loop[Advance(pat, name, at)]

Loops(loop, pat, name) ==
    \A at \in Positions(pat, name) : loop[at] = Turn(loop, pat, name, at)

LEMMA AdvanceStays ==
    ASSUME NEW pat \in Seq(Character), NEW name \in Seq(Alphabet),
           NEW at \in Positions(pat, name), at.n <= Len(name),
           ~(Stuck(pat, name, at) /\ at.star = 0)
    PROVE  Advance(pat, name, at) \in Positions(pat, name)
<1> DEFINE P == Len(pat)
           L == Len(name)
<1>1. /\ P \in Nat /\ L \in Nat
      /\ at \in [p : 1..(P + 1), n : 1..(L + 1), star : 0..P, from : 1..(L + 1)]
      /\ at.star < at.p /\ at.from <= at.n
  BY DEF Positions
<1>2. at.p \in 1..(P + 1) /\ at.n \in 1..(L + 1) /\ at.star \in 0..P /\ at.from \in 1..(L + 1)
  BY <1>1
<1>3. CASE Fits(pat, name, at.p, at.n)
  <2> DEFINE to == [at EXCEPT !.p = @ + 1, !.n = @ + 1]
  <2>1. to.p = at.p + 1 /\ to.n = at.n + 1 /\ to.star = at.star /\ to.from = at.from
    BY <1>1
  <2>2. at.p + 1 \in 1..(P + 1) /\ at.n + 1 \in 1..(L + 1)
    BY <1>1, <1>2, <1>3 DEF Fits
  <2>3. to \in [p : 1..(P + 1), n : 1..(L + 1), star : 0..P, from : 1..(L + 1)]
    BY <1>1, <2>2
  <2>4. to.star < to.p /\ to.from <= to.n
    BY <1>1, <1>2, <2>1
  <2> HIDE DEF to
  <2>5. to \in Positions(pat, name)
    BY <2>3, <2>4 DEF Positions
  <2> QED BY <1>3, <2>5 DEF Advance, to
<1>4. CASE ~Fits(pat, name, at.p, at.n) /\ at.p <= P /\ pat[at.p] = Star
  <2> DEFINE to == [at EXCEPT !.p = @ + 1, !.star = at.p, !.from = at.n]
  <2>1. to.p = at.p + 1 /\ to.n = at.n /\ to.star = at.p /\ to.from = at.n
    BY <1>1
  <2>2. at.p + 1 \in 1..(P + 1) /\ at.p \in 0..P
    BY <1>1, <1>2, <1>4
  <2>3. to \in [p : 1..(P + 1), n : 1..(L + 1), star : 0..P, from : 1..(L + 1)]
    BY <1>1, <1>2, <2>2
  <2>4. to.star < to.p /\ to.from <= to.n
    BY <1>1, <1>2, <2>1
  <2> HIDE DEF to
  <2>5. to \in Positions(pat, name)
    BY <2>3, <2>4 DEF Positions
  <2> QED BY <1>4, <2>5 DEF Advance, to
<1>5. CASE ~Fits(pat, name, at.p, at.n) /\ ~(at.p <= P /\ pat[at.p] = Star)
  <2> DEFINE to == [p |-> at.star + 1, n |-> at.from + 1, star |-> at.star,
                    from |-> at.from + 1]
  <2>1. at.star + 1 \in 1..(P + 1) /\ at.from + 1 \in 1..(L + 1)
    BY <1>1, <1>2
  <2>2. to \in Positions(pat, name)
    BY <1>1, <1>2, <2>1 DEF Positions
  <2> QED BY <1>5, <2>2 DEF Advance
<1> QED BY <1>3, <1>4, <1>5

\* MatchSegment is such a loop from its first position.
LEMMA MatchSegmentLoops ==
    ASSUME NEW pat \in Seq(Character), NEW name \in Seq(Alphabet)
    PROVE  \E loop : /\ Loops(loop, pat, name)
                     /\ MatchSegment(pat, name) =
                          loop[[p |-> 1, n |-> 1, star |-> 0, from |-> 1]]
<1> DEFINE D == Positions(pat, name)
           L == Len(name)
           Body(loop, at) ==
             IF at.n > Len(name)
             THEN \A i \in at.p..Len(pat) : pat[i] = Star
             ELSE IF at.p <= Len(pat) /\ pat[at.p] \in {name[at.n], One}
             THEN loop[[at EXCEPT !.p = @ + 1, !.n = @ + 1]]
             ELSE IF at.p <= Len(pat) /\ pat[at.p] = Star
             THEN loop[[at EXCEPT !.p = @ + 1, !.star = at.p, !.from = at.n]]
             ELSE /\ at.star # 0
                  /\ loop[[p |-> at.star + 1, n |-> at.from + 1,
                           star |-> at.star, from |-> at.from + 1]]
           Good(loop) == loop = [at \in D |-> Body(loop, at)]
           loop == CHOOSE loop : Good(loop)
           Fails(at) == Stuck(pat, name, at) /\ at.star = 0
           Equation(f, at) ==
             f[at] = IF at.n > Len(name)
                     THEN \A i \in at.p..Len(pat) : pat[i] = Star
                     ELSE ~Fails(at) /\ f[Advance(pat, name, at)]
<1>1. MatchSegment(pat, name) = loop[[p |-> 1, n |-> 1, star |-> 0, from |-> 1]]
  BY DEF MatchSegment
<1>2. ASSUME NEW at \in D, NEW f
      PROVE  Body(f, at) = Turn(f, pat, name, at)
  <2>1. CASE at.n > Len(name)
    BY <2>1 DEF Turn
  <2>2. CASE ~ (at.n > Len(name))
    <3>1. at.n \in 1..Len(name) /\ at.p \in Nat /\ at.n <= Len(name)
      BY <2>2 DEF Positions
    <3>2. name[at.n] # Star /\ One # Star
      BY <3>1, Marks
    <3>3. at.p <= Len(pat) /\ pat[at.p] \in {name[at.n], One} <=> Fits(pat, name, at.p, at.n)
      BY <3>1, <3>2 DEF Fits
    <3>4. CASE Fits(pat, name, at.p, at.n)
      BY <2>2, <3>3, <3>4 DEF Advance, Stuck, Turn
    <3>5. CASE ~Fits(pat, name, at.p, at.n) /\ at.p <= Len(pat) /\ pat[at.p] = Star
      BY <2>2, <3>3, <3>5 DEF Advance, Stuck, Turn
    <3>6. CASE ~Fits(pat, name, at.p, at.n) /\ ~(at.p <= Len(pat) /\ pat[at.p] = Star)
      BY <2>2, <3>3, <3>6 DEF Advance, Stuck, Turn
    <3> QED BY <3>4, <3>5, <3>6
  <2> QED BY <2>1, <2>2
<1>3. \E f \in [D -> BOOLEAN] : \A at \in D : Equation(f, at)
  <2> DEFINE stops == {at \in D : at.n > L \/ Fails(at)}
             good == {at \in D : at.n > L /\ \A i \in at.p..Len(pat) : pat[i] = Star}
             next == [at \in D |-> IF at \in stops THEN at ELSE Advance(pat, name, at)]
  <2>1. next \in [D -> D]
    <3> SUFFICES ASSUME NEW at \in D, at \notin stops
                 PROVE  Advance(pat, name, at) \in D
      OBVIOUS
    <3>1. at.n \in Nat /\ ~ (at.n > L)
      BY DEF Positions
    <3>2. at.n <= Len(name) /\ ~Fails(at)
      BY <3>1
    <3> QED BY <3>2, AdvanceStays
  <2> HIDE DEF next, D, good, stops
  <2>2. PICK f \in [D -> BOOLEAN] : IsLoop(f, D, next, stops, good)
    BY ONLY <2>1, LoopExists, Zenon
  <2>3. ASSUME NEW at \in D
        PROVE  Equation(f, at)
    <3>1. f[at] = IF at \in stops THEN at \in good ELSE f[next[at]]
      BY <2>2 DEF IsLoop
    <3>2. CASE at.n > L
      <4>1. at \in stops /\ (at \in good <=> \A i \in at.p..Len(pat) : pat[i] = Star)
        BY <3>2 DEF stops, good
      <4> QED BY <3>1, <3>2, <4>1, Zenon
    <3>3. CASE ~ (at.n > L) /\ Fails(at)
      <4>1. at \in stops /\ at \notin good
        BY <3>3 DEF stops, good
      <4> QED BY <3>1, <3>3, <4>1, Zenon
    <3>4. CASE ~ (at.n > L) /\ ~Fails(at)
      <4>1. at \notin stops /\ next[at] = Advance(pat, name, at)
        BY <3>4 DEF stops, next
      <4> QED BY <3>1, <3>4, <4>1, Zenon
    <3> QED BY <3>2, <3>3, <3>4
  <2> HIDE DEF Equation
  <2> QED BY <2>3
<1>4. ASSUME NEW f \in [D -> BOOLEAN], NEW at \in D, Equation(f, at)
      PROVE  f[at] = Turn(f, pat, name, at)
  <2>1. CASE at.n > L
    BY <1>4, <2>1 DEF Turn
  <2>2. CASE ~ (at.n > L) /\ ~Stuck(pat, name, at)
    <3>1. at.n \in Nat /\ L \in Nat
      BY DEF Positions
    <3>2. Advance(pat, name, at) \in D
      BY <2>2, <3>1, AdvanceStays
    <3>3. f[Advance(pat, name, at)] \in BOOLEAN
      <4> HIDE DEF D
      <4> QED BY <3>2
    <3>4. f[at] = (TRUE /\ f[Advance(pat, name, at)])
      BY <1>4, <2>2
    <3>5. f[at] = f[Advance(pat, name, at)]
      BY ONLY <3>3, <3>4
    <3> QED BY <2>2, <3>5 DEF Turn
  <2>3. CASE ~ (at.n > L) /\ Stuck(pat, name, at)
    BY <1>4, <2>3 DEF Turn
  <2> QED BY <2>1, <2>2, <2>3
<1> HIDE DEF Body, D, Equation
<1>5. \E f : Good(f)
  <2>1. PICK f \in [D -> BOOLEAN] : \A at \in D : Equation(f, at)
    BY <1>3
  <2>2. \A at \in D : f[at] = Body(f, at)
    BY <1>2, <1>4, <2>1, Zenon
  <2> QED BY <2>2
<1>6. Good(loop)
  <2> HIDE DEF Good
  <2> QED BY <1>5
<1> HIDE DEF loop
<1>7. \A at \in D : loop[at] = Turn(loop, pat, name, at)
  <2>1. \A at \in D : loop[at] = Body(loop, at)
    BY <1>6
  <2> QED BY <1>2, <2>1, Zenon
<1> QED BY <1>1, <1>7 DEF Loops, D

-----------------------------------------------------------------------------
(* What the loop finds from a position on. *)

\* The positions the loop comes to: since the last `*` the texts agreed.
Reach(pat, name, at) ==
    /\ at \in Positions(pat, name)
    /\ at.n = at.from + (at.p - (at.star + 1))
    /\ at.star = 0 => at.from = 1
    /\ Literal(pat, name, at.star + 1, at.p, at.from)

\* From there it looks for a later end of what the last `*` takes.
Meaning(pat, name, at) ==
    IF at.star = 0
    THEN Rest(pat, name, 1, 1)
    ELSE \E k \in at.from..(Len(name) + 1) : Rest(pat, name, at.star + 1, k)

\* A later `*`, a later end of what it takes, or a later character.
Before(at, to) ==
    \/ at.star < to.star
    \/ at.star = to.star /\ at.from < to.from
    \/ at.star = to.star /\ at.from = to.from /\ at.n < to.n

LEMMA PositionType ==
    ASSUME NEW pat \in Seq(Character), NEW name \in Seq(Alphabet),
           NEW at \in Positions(pat, name)
    PROVE  /\ Len(pat) \in Nat /\ Len(name) \in Nat
           /\ at.p \in 1..(Len(pat) + 1) /\ at.n \in 1..(Len(name) + 1)
           /\ at.star \in 0..Len(pat) /\ at.from \in 1..(Len(name) + 1)
           /\ at.star < at.p /\ at.from <= at.n
BY DEF Positions

\* Of some positions, one is not before another.
LEMMA LastPosition ==
    ASSUME NEW pat \in Seq(Character), NEW name \in Seq(Alphabet),
           NEW B \in SUBSET Positions(pat, name), B # {}
    PROVE  \E at \in B : \A to \in B : ~Before(at, to)
<1> DEFINE P == Len(pat)
           L == Len(name)
           Stars == {at.star : at \in B}
<1> HIDE DEF P, L
<1>1. /\ P \in Nat /\ L \in Nat /\ L + 1 \in Nat
      /\ \A at \in B : at.star \in 0..P /\ at.from \in 0..(L + 1) /\ at.n \in 0..(L + 1)
  <2>1. Len(pat) \in Nat /\ Len(name) \in Nat
    OBVIOUS
  <2>2. \A at \in B : /\ at.star \in 0..P /\ at.from \in 1..(L + 1)
                      /\ at.n \in 1..(L + 1)
    BY PositionType DEF P, L
  <2> QED BY <2>1, <2>2 DEF P, L
<1>2. PICK a \in Stars : \A s \in Stars : s <= a
  <2>1. Stars \in SUBSET (0..P) /\ Stars # {}
    BY <1>1
  <2> HIDE DEF Stars
  <2> QED BY <1>1, <2>1, MaxIsLast
<1> DEFINE B1 == {at \in B : at.star = a}
           Froms == {at.from : at \in B1}
<1>3. PICK b \in Froms : \A s \in Froms : s <= b
  <2>1. Froms \in SUBSET (0..(L + 1)) /\ Froms # {}
    BY <1>1, <1>2
  <2> HIDE DEF Froms
  <2> QED BY <1>1, <2>1, MaxIsLast
<1> DEFINE B2 == {at \in B1 : at.from = b}
           Ns == {at.n : at \in B2}
<1>4. PICK c \in Ns : \A s \in Ns : s <= c
  <2>1. Ns \in SUBSET (0..(L + 1)) /\ Ns # {}
    BY <1>1, <1>3
  <2> HIDE DEF Ns
  <2> QED BY <1>1, <2>1, MaxIsLast
<1>5. PICK at \in B2 : at.n = c
  BY <1>4
<1>6. at \in B /\ at.star = a /\ at.from = b
  BY <1>5
<1>7. ASSUME NEW to \in B
      PROVE  ~Before(at, to)
  <2>1. to.star <= a
    BY <1>2
  <2>2. to.star = a => to.from <= b
    BY <1>3
  <2>3. to.star = a /\ to.from = b => to.n <= c
    BY <1>4
  <2> QED BY <1>1, <1>5, <1>6, <2>1, <2>2, <2>3 DEF Before
<1> QED BY <1>6, <1>7

\* What is behind the last `*` and what is behind the position are one question.
LEMMA ReachRest ==
    ASSUME NEW pat \in Seq(Character), NEW name \in Seq(Alphabet), NEW at,
           Reach(pat, name, at)
    PROVE  /\ Rest(pat, name, at.star + 1, at.from) <=> Rest(pat, name, at.p, at.n)
           /\ \A k \in at.from..(Len(name) + 1) :
                Rest(pat, name, at.star + 1, k) =>
                  /\ k + (at.p - (at.star + 1)) \in at.n..(Len(name) + 1)
                  /\ Rest(pat, name, at.p, k + (at.p - (at.star + 1)))
<1> DEFINE i == at.star + 1
           p == at.p
           L == Len(name)
<1>1. /\ Len(pat) \in Nat /\ L \in Nat
      /\ i \in 1..(Len(pat) + 1) /\ p \in i..(Len(pat) + 1)
      /\ at.from \in 1..(L + 1) /\ at.n \in 1..(L + 1)
      /\ at.from + (p - i) = at.n
      /\ Literal(pat, name, i, p, at.from)
  <2>1. at \in Positions(pat, name)
    BY DEF Reach
  <2> QED BY <2>1, PositionType DEF Reach
<1> HIDE DEF i, p
<1>2. at.from + (p - i) <= Len(name) + 1
  BY <1>1
<1>3. Rest(pat, name, i, at.from) <=> Rest(pat, name, p, at.n)
  <2>1. Rest(pat, name, i, at.from) <=> Rest(pat, name, p, at.from + (p - i))
    BY <1>1, <1>2, LiteralStep
  <2> QED BY <1>1, <2>1
<1>4. \A k \in i..(p - 1) : pat[k] # Star
  BY <1>1 DEF Literal, Fits
<1>5. ASSUME NEW k \in at.from..(L + 1), Rest(pat, name, i, k)
      PROVE  k + (p - i) \in at.n..(L + 1) /\ Rest(pat, name, p, k + (p - i))
  <2>1. k \in 1..(L + 1)
    BY <1>1
  <2>2. k + (p - i) <= L + 1 /\ Rest(pat, name, p, k + (p - i))
    BY <1>1, <1>4, <1>5, <2>1, StarlessTakes
  <2> QED BY <1>1, <2>2
<1> QED BY <1>3, <1>5 DEF i, p

\* Where neither a character nor a `*` is next, nothing more matches.
LEMMA StuckFails ==
    ASSUME NEW pat \in Seq(Character), NEW name \in Seq(Alphabet), NEW at,
           Reach(pat, name, at), at.n <= Len(name), Stuck(pat, name, at)
    PROVE  ~Rest(pat, name, at.star + 1, at.from)
<1>1. at \in Positions(pat, name)
  BY DEF Reach
<1>2. /\ Len(pat) \in Nat /\ Len(name) \in Nat
      /\ at.p \in 1..(Len(pat) + 1) /\ at.n \in 1..(Len(name) + 1)
  BY <1>1, PositionType
<1>3. ~Rest(pat, name, at.p, at.n)
  <2>1. CASE at.p = Len(pat) + 1
    BY <1>2, <2>1, RestEnds
  <2>2. CASE at.p \in 1..Len(pat)
    <3>1. pat[at.p] # Star /\ ~Fits(pat, name, at.p, at.n)
      BY <1>2, <2>2 DEF Stuck
    <3> QED BY <1>2, <2>2, <3>1, RestStep
  <2> QED BY <1>2, <2>1, <2>2
<1> QED BY <1>3, ReachRest

\* A step of the loop keeps to the positions it may come to, goes on, and leaves
\* open what was open.
LEMMA AdvanceMeans ==
    ASSUME NEW pat \in Seq(Character), NEW name \in Seq(Alphabet), NEW at,
           Reach(pat, name, at), at.n <= Len(name),
           ~(Stuck(pat, name, at) /\ at.star = 0)
    PROVE  /\ Reach(pat, name, Advance(pat, name, at))
           /\ Before(at, Advance(pat, name, at))
           /\ Meaning(pat, name, Advance(pat, name, at)) <=> Meaning(pat, name, at)
<1> DEFINE to == Advance(pat, name, at)
           P == Len(pat)
           L == Len(name)
<1>1. at \in Positions(pat, name)
  BY DEF Reach
<1>2. to \in Positions(pat, name)
  BY <1>1, AdvanceStays
<1>3. /\ P \in Nat /\ L \in Nat /\ at.p \in 1..(P + 1) /\ at.n \in 1..(L + 1)
      /\ at.star \in 0..P /\ at.from \in 1..(L + 1)
      /\ at.star < at.p /\ at.from <= at.n
      /\ at.n = at.from + (at.p - (at.star + 1))
  BY <1>1, PositionType DEF Reach
<1>4. at \in [p : 1..(P + 1), n : 1..(L + 1), star : 0..P, from : 1..(L + 1)]
  BY <1>1 DEF Positions
<1>5. CASE Fits(pat, name, at.p, at.n)
  <2>1. to.p = at.p + 1 /\ to.n = at.n + 1 /\ to.star = at.star /\ to.from = at.from
    BY <1>4, <1>5 DEF Advance
  <2> HIDE DEF to
  <2>2. Literal(pat, name, to.star + 1, to.p, to.from)
    <3> SUFFICES ASSUME NEW k \in (at.star + 1)..at.p
                 PROVE  Fits(pat, name, k, at.from + (k - (at.star + 1)))
      BY <1>3, <2>1 DEF Literal
    <3>1. CASE k = at.p
      BY <1>3, <1>5, <3>1
    <3>2. CASE k # at.p
      <4>1. k \in (at.star + 1)..(at.p - 1)
        BY <1>3, <3>2
      <4> QED BY <4>1 DEF Reach, Literal
    <3> QED BY <3>1, <3>2
  <2>3. Reach(pat, name, to)
    <3>1. to.n = to.from + (to.p - (to.star + 1))
      <4>1. \A p, n, s, f \in Nat :
              n = f + (p - (s + 1)) => n + 1 = f + ((p + 1) - (s + 1))
        OBVIOUS
      <4>2. at.p \in Nat /\ at.n \in Nat /\ at.star \in Nat /\ at.from \in Nat
        BY <1>3
      <4>3. at.n + 1 = at.from + ((at.p + 1) - (at.star + 1))
        <5>1. at.n = at.from + (at.p - (at.star + 1))
          BY <1>3
        <5> QED BY ONLY <4>1, <4>2, <5>1
      <4> QED BY ONLY <2>1, <4>3, Zenon
    <3>2. to.star = 0 => to.from = 1
      BY <2>1 DEF Reach
    <3> QED BY <1>2, <2>2, <3>1, <3>2 DEF Reach
  <2>4. Before(at, to)
    BY <1>3, <2>1 DEF Before
  <2>5. Meaning(pat, name, to) <=> Meaning(pat, name, at)
    BY <2>1 DEF Meaning
  <2> QED BY <2>3, <2>4, <2>5 DEF to
<1>6. CASE ~Fits(pat, name, at.p, at.n) /\ at.p <= P /\ pat[at.p] = Star
  <2>1. to.p = at.p + 1 /\ to.n = at.n /\ to.star = at.p /\ to.from = at.n
    BY <1>4, <1>6 DEF Advance
  <2> HIDE DEF to
  <2>2. Literal(pat, name, to.star + 1, to.p, to.from)
    <3>1. (to.star + 1)..(to.p - 1) = {}
      BY <1>3, <2>1
    <3> QED BY <3>1 DEF Literal
  <2>3. Reach(pat, name, to)
    BY <1>2, <1>3, <2>1, <2>2 DEF Reach
  <2>4. Before(at, to)
    BY <1>3, <2>1 DEF Before
  <2>5. at.p \in 1..P
    BY <1>3, <1>6
  <2>6. Rest(pat, name, at.p, at.n) <=> Meaning(pat, name, to)
    <3>1. Rest(pat, name, at.p, at.n)
            <=> \E k \in at.n..(L + 1) : Rest(pat, name, at.p + 1, k)
      BY <1>3, <1>6, <2>5, RestStep
    <3>2. to.star # 0
      BY <2>1, <2>5
    <3> QED BY <2>1, <3>1, <3>2 DEF Meaning
  <2>7. CASE at.star = 0
    <3>1. at.from = 1 /\ at.star + 1 = 1
      BY <2>7 DEF Reach
    <3>2. Rest(pat, name, 1, 1) <=> Rest(pat, name, at.p, at.n)
      BY <3>1, ReachRest
    <3> QED BY <2>3, <2>4, <2>6, <2>7, <3>2 DEF Meaning, to
  <2>8. CASE at.star # 0
    <3>1. ASSUME NEW k \in at.from..(L + 1), Rest(pat, name, at.star + 1, k)
          PROVE  Rest(pat, name, at.p, at.n)
      <4> DEFINE m == k + (at.p - (at.star + 1))
      <4>1. m \in at.n..(L + 1) /\ Rest(pat, name, at.p, m)
        BY <3>1, ReachRest
      <4> HIDE DEF m
      <4>2. m \in 1..(L + 1)
        BY <1>3, <4>1
      <4>3. PICK h \in m..(L + 1) : Rest(pat, name, at.p + 1, h)
        BY <1>6, <2>5, <4>1, <4>2, RestStep
      <4>4. h \in at.n..(L + 1)
        BY <1>3, <4>1
      <4> QED BY <1>3, <1>6, <2>5, <4>3, <4>4, RestStep
    <3>2. ASSUME Rest(pat, name, at.p, at.n)
          PROVE  Rest(pat, name, at.star + 1, at.from) /\ at.from \in at.from..(L + 1)
      BY <1>3, <3>2, ReachRest
    <3>3. Meaning(pat, name, at) <=> Rest(pat, name, at.p, at.n)
      BY <2>8, <3>1, <3>2 DEF Meaning
    <3> QED BY <2>3, <2>4, <2>6, <3>3 DEF to
  <2> QED BY <2>7, <2>8
<1>7. CASE Stuck(pat, name, at)
  <2>1. /\ to = [p |-> at.star + 1, n |-> at.from + 1, star |-> at.star,
                 from |-> at.from + 1]
        /\ at.star # 0
    BY <1>7 DEF Advance, Stuck
  <2>2. to.p = at.star + 1 /\ to.n = at.from + 1 /\ to.star = at.star /\ to.from = at.from + 1
    BY <2>1
  <2> HIDE DEF to
  <2>3. Literal(pat, name, to.star + 1, to.p, to.from)
    <3>1. (to.star + 1)..(to.p - 1) = {}
      BY <1>3, <2>2
    <3> QED BY <3>1 DEF Literal
  <2>4. Reach(pat, name, to)
    BY <1>2, <1>3, <2>1, <2>2, <2>3 DEF Reach
  <2>5. Before(at, to)
    BY <1>3, <2>2 DEF Before
  <2>6. ~Rest(pat, name, at.star + 1, at.from)
    BY <1>7, StuckFails
  <2>7. \A k : k \in at.from..(L + 1) <=> k = at.from \/ k \in (at.from + 1)..(L + 1)
    BY <1>3
  <2>8. Meaning(pat, name, to) <=> Meaning(pat, name, at)
    BY <2>1, <2>2, <2>6, <2>7 DEF Meaning
  <2> QED BY <2>4, <2>5, <2>8 DEF to
<1> QED BY <1>5, <1>6, <1>7 DEF Stuck

\* The loop finds a match from a position on exactly when there is one.
LEMMA LoopMeans ==
    ASSUME NEW pat \in Seq(Character), NEW name \in Seq(Alphabet), NEW loop,
           Loops(loop, pat, name), NEW at0, Reach(pat, name, at0)
    PROVE  loop[at0] <=> Meaning(pat, name, at0)
<1> DEFINE L == Len(name)
           B == {at \in Positions(pat, name) :
                   Reach(pat, name, at) /\ ~(loop[at] <=> Meaning(pat, name, at))}
<1>1. ASSUME NEW at \in B, \A to \in B : ~Before(at, to)
      PROVE  FALSE
  <2>1. at \in Positions(pat, name) /\ Reach(pat, name, at)
    OBVIOUS
  <2>2. /\ Len(pat) \in Nat /\ L \in Nat
        /\ at.p \in 1..(Len(pat) + 1) /\ at.n \in 1..(L + 1)
        /\ at.from \in 1..(L + 1)
    BY <2>1, PositionType
  <2>3. loop[at] = Turn(loop, pat, name, at)
    BY <2>1 DEF Loops
  <2>4. CASE at.n > L
    <3>1. at.n = L + 1
      BY <2>2, <2>4
    <3>2. loop[at] <=> Rest(pat, name, at.p, at.n)
      <4>1. loop[at] = \A i \in at.p..Len(pat) : pat[i] = Star
        BY <2>3, <2>4 DEF Turn
      <4> QED BY <2>2, <3>1, <4>1, RestStars
    <3>3. Rest(pat, name, at.star + 1, at.from) <=> Rest(pat, name, at.p, at.n)
      BY <2>1, ReachRest
    <3>4. CASE at.star = 0
      <4>1. at.from = 1 /\ at.star + 1 = 1
        BY <2>1, <3>4 DEF Reach
      <4> QED BY <3>2, <3>3, <3>4, <4>1 DEF Meaning
    <3>5. CASE at.star # 0
      <4>1. ASSUME NEW k \in at.from..(L + 1), Rest(pat, name, at.star + 1, k)
            PROVE  k = at.from
        <5>1. k + (at.p - (at.star + 1)) \in at.n..(L + 1)
          BY <2>1, <4>1, ReachRest
        <5>2. at.n = at.from + (at.p - (at.star + 1)) /\ at.star \in Nat
          BY <2>1, PositionType DEF Reach
        <5> QED BY <2>2, <3>1, <5>1, <5>2
      <4>2. at.from \in at.from..(L + 1)
        BY <2>2
      <4>3. Meaning(pat, name, at) <=> Rest(pat, name, at.star + 1, at.from)
        BY <3>5, <4>1, <4>2 DEF Meaning
      <4> QED BY <3>2, <3>3, <4>3
    <3> QED BY <3>4, <3>5
  <2>5. CASE ~ (at.n > L) /\ Stuck(pat, name, at) /\ at.star = 0
    <3>1. loop[at] = FALSE
      BY <2>3, <2>5 DEF Turn
    <3>2. at.from = 1 /\ at.star + 1 = 1 /\ at.n <= Len(name)
      BY <2>1, <2>2, <2>5 DEF Reach
    <3>3. ~Rest(pat, name, 1, 1)
      BY <2>1, <2>5, <3>2, StuckFails
    <3> QED BY <2>5, <3>1, <3>3 DEF Meaning
  <2>6. CASE ~ (at.n > L) /\ ~(Stuck(pat, name, at) /\ at.star = 0)
    <3> DEFINE to == Advance(pat, name, at)
    <3>1. at.n <= Len(name)
      BY <2>2, <2>6
    <3>2. /\ Reach(pat, name, to) /\ Before(at, to)
          /\ Meaning(pat, name, to) <=> Meaning(pat, name, at)
      BY <2>1, <2>6, <3>1, AdvanceMeans
    <3>3. to \in Positions(pat, name)
      BY <3>2 DEF Reach
    <3> HIDE DEF to
    <3>4. loop[to] <=> Meaning(pat, name, to)
      BY <1>1, <3>2, <3>3
    <3>5. loop[at] <=> loop[to]
      BY <2>3, <2>6 DEF Turn, to
    <3> QED BY <3>2, <3>4, <3>5
  <2> QED BY <2>4, <2>5, <2>6
<1>2. B = {}
  <2> SUFFICES ASSUME B # {} PROVE FALSE
    OBVIOUS
  <2>1. B \in SUBSET Positions(pat, name)
    OBVIOUS
  <2> HIDE DEF B
  <2>2. \E at \in B : \A to \in B : ~Before(at, to)
    BY <2>1, LastPosition
  <2> QED BY <1>1, <2>2
<1>3. at0 \in Positions(pat, name)
  BY DEF Reach
<1> QED BY <1>2, <1>3

\* A pattern matches a name exactly when what its characters stand for, one
\* behind the other, is the name.
LEMMA SegmentMeans ==
    ASSUME NEW pat \in Seq(Character), NEW name \in Seq(Alphabet)
    PROVE  MatchSegment(pat, name) <=> Globs(pat, name)
<1> DEFINE at == [p |-> 1, n |-> 1, star |-> 0, from |-> 1]
<1>1. at.p = 1 /\ at.n = 1 /\ at.star = 0 /\ at.from = 1
  OBVIOUS
<1>2. at \in Positions(pat, name)
  <2>1. Len(pat) \in Nat /\ Len(name) \in Nat
    OBVIOUS
  <2> QED BY <2>1 DEF Positions
<1> HIDE DEF at
<1>3. Reach(pat, name, at)
  <2>1. (at.star + 1)..(at.p - 1) = {} /\ at.n = at.from + (at.p - (at.star + 1))
    BY <1>1
  <2> QED BY <1>1, <1>2, <2>1 DEF Reach, Literal
<1>4. PICK loop : Loops(loop, pat, name) /\ MatchSegment(pat, name) = loop[at]
  BY MatchSegmentLoops DEF at
<1>5. MatchSegment(pat, name) <=> Rest(pat, name, 1, 1)
  BY <1>1, <1>3, <1>4, LoopMeans DEF Meaning
<1>6. Globs(pat, name) <=> Rest(pat, name, 1, 1)
  <2>1. DOMAIN pat = 1..Len(pat) /\ 1 - 1 = 0
    OBVIOUS
  <2> QED BY <2>1 DEF Globs, Rest
<1> QED BY <1>5, <1>6

\* The loop of matchSegment, which goes back to the last `*` only, finds a match
\* whenever there is one: for texts of every length (ignore.go:216-240).
THEOREM SegmentMatches == ISpec => []SegmentIsReference
<1>1. SegmentIsReference
  <2> SUFFICES ASSUME NEW m \in 1..MaxText, NEW n \in 1..MaxText,
                      NEW pat \in [1..m -> Alphabet \cup Wild],
                      NEW name \in [1..n -> Alphabet]
               PROVE  MatchSegment(pat, name) <=> Globs(pat, name)
    BY DEF SegmentIsReference
  <2>1. m \in Nat /\ n \in Nat
    BY IgnoreAssumption
  <2>2. pat \in Seq(Character) /\ name \in Seq(Alphabet)
    BY <2>1 DEF Character
  <2> QED BY <2>2, SegmentMeans
<1> QED BY <1>1, PTL

-----------------------------------------------------------------------------
(* The recursion over `**`. *)

\* A segment of the pattern stands for some segments of the path: cut is where
\* it begins and where the next one does.
Link(pat, path, cut, k) ==
    IF pat[k] = Deep
    THEN cut[k] <= cut[k + 1]
    ELSE /\ cut[k + 1] = cut[k] + 1 /\ cut[k + 1] <= Len(path)
         /\ MatchSegment(pat[k], path[cut[k + 1]])

\* The pattern from its i-th segment on stands for the segments behind the j-th
\* up to the e-th.
Spans(pat, path, i, j, e) ==
    \E cut \in [1..(Len(pat) + 1) -> Nat] :
        /\ cut[i] = j /\ cut[Len(pat) + 1] = e
        /\ \A k \in i..Len(pat) : Link(pat, path, cut, k)

\* Cuts come in their order.
LEMMA LinksRise ==
    ASSUME NEW pat \in Seq(Seq(Character)), NEW path \in Seq(Seq(Alphabet)),
           NEW cut \in [1..(Len(pat) + 1) -> Nat], NEW i \in 1..(Len(pat) + 1),
           \A k \in i..Len(pat) : Link(pat, path, cut, k),
           NEW h \in i..(Len(pat) + 1)
    PROVE  cut[i] <= cut[h]
<1> DEFINE Ok(n) == cut[i] <= cut[i + n]
           T == {n \in 0..(h - i) : Ok(n)}
<1>1. Len(pat) \in Nat /\ h - i \in Nat /\ i + (h - i) = h
  OBVIOUS
<1>2. Ok(0)
  <2>1. i + 0 = i
    OBVIOUS
  <2>2. cut[i] \in Nat
    OBVIOUS
  <2> QED BY <2>1, <2>2
<1>3. ASSUME NEW n \in 1..(h - i), Ok(n - 1)
      PROVE  Ok(n)
  <2> DEFINE k == i + (n - 1)
             a == cut[k]
             b == cut[k + 1]
  <2>1. k \in i..Len(pat) /\ k + 1 = i + n /\ k \in 1..(Len(pat) + 1)
        /\ k + 1 \in 1..(Len(pat) + 1) /\ i \in 1..(Len(pat) + 1)
    BY <1>1
  <2>2. cut[i] <= a
    BY <1>3
  <2> HIDE DEF k
  <2>3. Link(pat, path, cut, k) /\ a \in Nat /\ b \in Nat /\ cut[i] \in Nat
    BY <2>1
  <2>4. a <= b \/ b = a + 1
    BY <2>3, Zenon DEF Link
  <2> HIDE DEF a, b
  <2>5. cut[i] <= b
    BY <2>2, <2>3, <2>4
  <2> QED BY <2>1, <2>5 DEF b
<1> HIDE DEF Ok
<1>4. 0..(h - i) \subseteq T
  <2>1. 0 \in T
    BY <1>1, <1>2
  <2>2. \A n \in 1..(h - i) : n - 1 \in T => n \in T
    BY <1>1, <1>3
  <2> HIDE DEF T
  <2> QED BY <1>1, <2>1, <2>2, InductionUpTo
<1>5. Ok(h - i)
  BY <1>1, <1>4
<1> QED BY <1>1, <1>5 DEF Ok

LEMMA SpansEnd ==
    ASSUME NEW pat \in Seq(Seq(Character)), NEW path \in Seq(Seq(Alphabet)),
           NEW j \in Nat, NEW e
    PROVE  Spans(pat, path, Len(pat) + 1, j, e) <=> j = e
<1> DEFINE cut == [k \in 1..(Len(pat) + 1) |-> j]
<1>1. Len(pat) \in Nat /\ Len(pat) + 1 \in 1..(Len(pat) + 1) /\ (Len(pat) + 1)..Len(pat) = {}
  OBVIOUS
<1>2. cut \in [1..(Len(pat) + 1) -> Nat] /\ cut[Len(pat) + 1] = j
  BY <1>1
<1> HIDE DEF cut
<1> QED BY <1>1, <1>2 DEF Spans

LEMMA SpansStep ==
    ASSUME NEW pat \in Seq(Seq(Character)), NEW path \in Seq(Seq(Alphabet)),
           NEW i \in 1..Len(pat), NEW j \in Nat, NEW e
    PROVE  /\ pat[i] = Deep =>
                (Spans(pat, path, i, j, e)
                   <=> \E k \in Nat : j <= k /\ Spans(pat, path, i + 1, k, e))
           /\ pat[i] # Deep =>
                (Spans(pat, path, i, j, e)
                   <=> /\ j + 1 <= Len(path) /\ MatchSegment(pat[i], path[j + 1])
                       /\ Spans(pat, path, i + 1, j + 1, e))
<1> DEFINE P == Len(pat)
           Cut(cut, m, n) ==
             /\ cut[m] = n /\ cut[P + 1] = e
             /\ \A k \in m..P : Link(pat, path, cut, k)
<1>1. P \in Nat /\ i \in 1..(P + 1) /\ i + 1 \in 1..(P + 1)
  OBVIOUS
<1>2. \A m, n : Spans(pat, path, m, n, e) <=> \E cut \in [1..(P + 1) -> Nat] : Cut(cut, m, n)
  BY DEF Spans
<1>3. ASSUME NEW cut \in [1..(P + 1) -> Nat], Cut(cut, i, j)
      PROVE  /\ cut[i + 1] \in Nat /\ Cut(cut, i + 1, cut[i + 1])
             /\ pat[i] = Deep => j <= cut[i + 1]
             /\ pat[i] # Deep => /\ cut[i + 1] = j + 1 /\ j + 1 <= Len(path)
                                 /\ MatchSegment(pat[i], path[j + 1])
  <2>1. i \in i..P /\ \A k \in (i + 1)..P : k \in i..P
    BY <1>1
  <2>2. Link(pat, path, cut, i)
    BY <1>3, <2>1
  <2>3. Cut(cut, i + 1, cut[i + 1])
    BY <1>3, <2>1
  <2> QED BY <1>1, <1>3, <2>2, <2>3 DEF Link
<1>4. ASSUME NEW k \in Nat, NEW cut \in [1..(P + 1) -> Nat], Cut(cut, i + 1, k),
             IF pat[i] = Deep
             THEN j <= k
             ELSE k = j + 1 /\ j + 1 <= Len(path) /\ MatchSegment(pat[i], path[j + 1])
      PROVE  \E c \in [1..(P + 1) -> Nat] : Cut(c, i, j)
  <2> DEFINE c == [cut EXCEPT ![i] = j]
  <2>1. c \in [1..(P + 1) -> Nat]
    BY <1>1
  <2>2. c[i] = j /\ c[P + 1] = cut[P + 1] /\ c[i + 1] = k
    <3>1. P + 1 # i /\ P + 1 \in 1..(P + 1) /\ i + 1 # i
      BY <1>1
    <3> QED BY <1>1, <1>4, <3>1
  <2>3. \A m \in (i + 1)..P : c[m] = cut[m] /\ c[m + 1] = cut[m + 1]
    <3>1. \A m \in (i + 1)..P : m \in 1..(P + 1) /\ m + 1 \in 1..(P + 1) /\ m # i /\ m + 1 # i
      BY <1>1
    <3> QED BY <3>1
  <2> HIDE DEF c
  <2>4. Link(pat, path, c, i)
    BY <1>4, <2>2 DEF Link
  <2>5. \A m \in i..P : m = i \/ m \in (i + 1)..P
    BY <1>1
  <2>6. \A m \in (i + 1)..P : Link(pat, path, c, m)
    BY <1>4, <2>3 DEF Link
  <2>7. Cut(c, i, j)
    BY <1>4, <2>2, <2>4, <2>5, <2>6
  <2> HIDE DEF Cut
  <2> QED BY <2>1, <2>7
<1> HIDE DEF Cut, P
<1>5. CASE pat[i] = Deep
  <2>1. ASSUME Spans(pat, path, i, j, e)
        PROVE  \E k \in Nat : j <= k /\ Spans(pat, path, i + 1, k, e)
    <3>1. PICK cut \in [1..(P + 1) -> Nat] : Cut(cut, i, j)
      BY <1>2, <2>1
    <3> QED BY <1>2, <1>3, <1>5, <3>1
  <2>2. ASSUME NEW k \in Nat, j <= k, Spans(pat, path, i + 1, k, e)
        PROVE  Spans(pat, path, i, j, e)
    <3>1. PICK cut \in [1..(P + 1) -> Nat] : Cut(cut, i + 1, k)
      BY <1>2, <2>2
    <3> QED BY <1>2, <1>4, <1>5, <2>2, <3>1
  <2> QED BY <1>5, <2>1, <2>2
<1>6. CASE pat[i] # Deep
  <2>1. ASSUME Spans(pat, path, i, j, e)
        PROVE  /\ j + 1 <= Len(path) /\ MatchSegment(pat[i], path[j + 1])
               /\ Spans(pat, path, i + 1, j + 1, e)
    <3>1. PICK cut \in [1..(P + 1) -> Nat] : Cut(cut, i, j)
      BY <1>2, <2>1
    <3> QED BY <1>2, <1>3, <1>6, <3>1
  <2>2. ASSUME j + 1 <= Len(path), MatchSegment(pat[i], path[j + 1]),
               Spans(pat, path, i + 1, j + 1, e)
        PROVE  Spans(pat, path, i, j, e)
    <3>1. PICK cut \in [1..(P + 1) -> Nat] : Cut(cut, i + 1, j + 1)
      BY <1>2, <2>2
    <3>2. j + 1 \in Nat
      OBVIOUS
    <3> QED BY <1>2, <1>4, <1>6, <2>2, <3>1, <3>2
  <2> QED BY <1>6, <2>1, <2>2
<1> QED BY <1>5, <1>6

LEMMA SpansRise ==
    ASSUME NEW pat \in Seq(Seq(Character)), NEW path \in Seq(Seq(Alphabet)),
           NEW i \in 1..(Len(pat) + 1), NEW j, NEW e, Spans(pat, path, i, j, e)
    PROVE  j <= e /\ j \in Nat /\ e \in Nat
<1>1. PICK cut \in [1..(Len(pat) + 1) -> Nat] :
        /\ cut[i] = j /\ cut[Len(pat) + 1] = e
        /\ \A k \in i..Len(pat) : Link(pat, path, cut, k)
  BY DEF Spans
<1>2. Len(pat) + 1 \in i..(Len(pat) + 1) /\ Len(pat) + 1 \in 1..(Len(pat) + 1)
  OBVIOUS
<1> QED BY <1>1, <1>2, LinksRise

\* Who begins earlier can end as early: if the pattern stands for something from
\* the j-th segment on, for no longer than from the k-th on.
LEMMA EarlyEnds ==
    ASSUME NEW pat \in Seq(Seq(Character)), NEW path \in Seq(Seq(Alphabet)),
           NEW i0 \in 1..(Len(pat) + 1), NEW j0 \in Nat, NEW k0 \in Nat, j0 <= k0,
           NEW d0, Spans(pat, path, i0, j0, d0), NEW e0, Spans(pat, path, i0, k0, e0)
    PROVE  \E e \in Nat : e <= e0 /\ Spans(pat, path, i0, j0, e)
<1> DEFINE P == Len(pat)
           Ok(i) == \A j, k \in Nat : \A d, e :
                      j <= k /\ Spans(pat, path, i, j, d) /\ Spans(pat, path, i, k, e) =>
                        \E f \in Nat : f <= e /\ Spans(pat, path, i, j, f)
           T == {n \in 0..P : Ok((P + 1) - n)}
<1>1. P \in Nat
  OBVIOUS
<1>2. Ok(P + 1)
  <2> SUFFICES ASSUME NEW j \in Nat, NEW k \in Nat, NEW d, NEW e, j <= k,
                      Spans(pat, path, P + 1, j, d), Spans(pat, path, P + 1, k, e)
               PROVE  j <= e /\ Spans(pat, path, P + 1, j, j)
    OBVIOUS
  <2> QED BY SpansEnd
<1>3. ASSUME NEW i \in 1..P, Ok(i + 1)
      PROVE  Ok(i)
  <2> SUFFICES ASSUME NEW j \in Nat, NEW k \in Nat, NEW d, NEW e, j <= k,
                      Spans(pat, path, i, j, d), Spans(pat, path, i, k, e)
               PROVE  \E f \in Nat : f <= e /\ Spans(pat, path, i, j, f)
    OBVIOUS
  <2>0. i \in 1..(Len(pat) + 1) /\ e \in Nat
    <3>1. i \in 1..(Len(pat) + 1)
      BY <1>1
    <3> QED BY <3>1, SpansRise
  <2>1. CASE pat[i] = Deep
    <3>1. PICK h \in Nat : k <= h /\ Spans(pat, path, i + 1, h, e)
      BY <2>1, SpansStep
    <3>2. j <= h
      BY <3>1
    <3>3. Spans(pat, path, i, j, e)
      BY <2>1, <3>1, <3>2, SpansStep
    <3> QED BY <2>0, <3>3
  <2>2. CASE pat[i] # Deep
    <3>1. Spans(pat, path, i + 1, j + 1, d) /\ Spans(pat, path, i + 1, k + 1, e)
          /\ j + 1 <= Len(path) /\ MatchSegment(pat[i], path[j + 1])
      BY <2>2, SpansStep
    <3>2. j + 1 \in Nat /\ k + 1 \in Nat /\ j + 1 <= k + 1
      OBVIOUS
    <3>3. PICK f \in Nat : f <= e /\ Spans(pat, path, i + 1, j + 1, f)
      BY <1>3, <3>1, <3>2
    <3>4. Spans(pat, path, i, j, f)
      BY <2>2, <3>1, <3>3, SpansStep
    <3> QED BY <3>3, <3>4
  <2> QED BY <2>1, <2>2
<1> HIDE DEF Ok
<1>4. 0..P \subseteq T
  <2>1. 0 \in T
    BY <1>1, <1>2
  <2>2. ASSUME NEW n \in 1..P, n - 1 \in T
        PROVE  n \in T
    <3>1. (P + 1) - n \in 1..P /\ ((P + 1) - n) + 1 = (P + 1) - (n - 1)
      BY <1>1
    <3> QED BY <1>3, <2>2, <3>1
  <2> HIDE DEF T
  <2> QED BY <1>1, <2>1, <2>2, InductionUpTo
<1>5. (P + 1) - i0 \in 0..P /\ (P + 1) - ((P + 1) - i0) = i0
  BY <1>1
<1>6. Ok(i0)
  BY <1>4, <1>5
<1> QED BY <1>6 DEF Ok

\* What the pattern can stand for from its i-th segment on, in the name from its
\* j-th on: the numbers of segments it can end behind.
Reaches(pat, name, i, j) ==
    {e \in 0..Len(name) : Spans(pat, name, i, j - 1, e)}

\* What matchSegs answers there: exact if the pattern can only end with the name.
Found(pat, name, i, j) ==
    [matched |-> Reaches(pat, name, i, j) # {},
     exact |-> Reaches(pat, name, i, j) = {Len(name)}]

LEMMA ReachesEnd ==
    ASSUME NEW pat \in Seq(Seq(Character)), NEW name \in Seq(Seq(Alphabet)),
           NEW j \in 1..(Len(name) + 1)
    PROVE  Reaches(pat, name, Len(pat) + 1, j) = {j - 1}
<1>1. j - 1 \in 0..Len(name) /\ j - 1 \in Nat
  OBVIOUS
<1>2. \A e : Spans(pat, name, Len(pat) + 1, j - 1, e) <=> j - 1 = e
  BY <1>1, SpansEnd
<1> QED BY <1>1, <1>2 DEF Reaches

LEMMA ReachesStep ==
    ASSUME NEW pat \in Seq(Seq(Character)), NEW name \in Seq(Seq(Alphabet)),
           NEW i \in 1..Len(pat), NEW j \in 1..(Len(name) + 1), pat[i] # Deep
    PROVE  Reaches(pat, name, i, j) =
             IF j <= Len(name) /\ MatchSegment(pat[i], name[j])
             THEN Reaches(pat, name, i + 1, j + 1) ELSE {}
<1>1. j - 1 \in Nat /\ (j - 1) + 1 = j /\ (j + 1) - 1 = j
  OBVIOUS
<1>2. \A e : Spans(pat, name, i, j - 1, e)
               <=> /\ j <= Len(name) /\ MatchSegment(pat[i], name[j])
                   /\ Spans(pat, name, i + 1, j, e)
  BY <1>1, SpansStep
<1> QED BY <1>1, <1>2 DEF Reaches

Splits(pat, name, i, j) ==
    {k \in j..(Len(name) + 1) : Reaches(pat, name, i + 1, k) # {}}

\* Of `**`, the first split that works ends early if any split does.
LEMMA ReachesDeep ==
    ASSUME NEW pat \in Seq(Seq(Character)), NEW name \in Seq(Seq(Alphabet)),
           NEW i \in 1..Len(pat), NEW j \in 1..(Len(name) + 1), pat[i] = Deep
    PROVE  LET ends == Splits(pat, name, i, j)
           IN  /\ ends = {} => Reaches(pat, name, i, j) = {}
               /\ ends # {} =>
                    /\ Min(ends) \in j..(Len(name) + 1)
                    /\ Reaches(pat, name, i + 1, Min(ends)) # {}
                    /\ Reaches(pat, name, i, j) # {}
                    /\ Reaches(pat, name, i, j) = {Len(name)}
                         <=> Reaches(pat, name, i + 1, Min(ends)) = {Len(name)}
<1> DEFINE ends == Splits(pat, name, i, j)
           L == Len(name)
           R(k) == Reaches(pat, name, i + 1, k)
<1>1. L \in Nat /\ i + 1 \in 1..(Len(pat) + 1)
  OBVIOUS
<1>2. \A k \in j..(L + 1) : k \in 1..(L + 1) /\ k - 1 \in Nat /\ j - 1 <= k - 1 /\ j - 1 \in Nat
  BY <1>1
<1>3. ASSUME NEW e \in Reaches(pat, name, i, j)
      PROVE  \E k \in ends : e \in R(k)
  <2>1. e \in 0..L /\ Spans(pat, name, i, j - 1, e) /\ j - 1 \in Nat
    BY DEF Reaches
  <2>2. PICK h \in Nat : j - 1 <= h /\ Spans(pat, name, i + 1, h, e)
    BY <2>1, SpansStep
  <2>3. h <= e
    BY <1>1, <2>2, SpansRise
  <2>4. h + 1 \in j..(L + 1) /\ (h + 1) - 1 = h
    BY <1>1, <2>1, <2>2, <2>3
  <2>5. e \in R(h + 1)
    BY <2>1, <2>2, <2>4 DEF Reaches
  <2> QED BY <2>4, <2>5 DEF Splits
<1>4. ASSUME NEW k \in j..(L + 1), NEW e \in R(k)
      PROVE  e \in Reaches(pat, name, i, j)
  <2>1. e \in 0..L /\ Spans(pat, name, i + 1, k - 1, e)
    BY DEF Reaches
  <2>2. Spans(pat, name, i, j - 1, e)
    BY <1>2, <2>1, SpansStep
  <2> QED BY <2>1, <2>2 DEF Reaches
<1>5. CASE ends = {}
  <2> HIDE DEF ends
  <2> QED BY <1>3, <1>5 DEF ends
<1>6. CASE ends # {}
  <2>1. Min(ends) \in ends /\ \A k \in ends : Min(ends) <= k
    <3>1. ends \subseteq Nat
      BY <1>2 DEF Splits
    <3>2. \E m \in ends : \A k \in ends : m <= k
      BY <1>6, <3>1, Least
    <3> QED BY <3>2 DEF Min
  <2> DEFINE m == Min(ends)
  <2> HIDE DEF m, R
  <2>2. m \in j..(L + 1) /\ R(m) # {}
    BY <2>1 DEF R, m, Splits
  <2>3. R(m) \subseteq Reaches(pat, name, i, j)
    BY <1>4, <2>2
  <2>4. ASSUME R(m) = {L}, NEW e0 \in Reaches(pat, name, i, j)
        PROVE  e0 = L
    <3>1. PICK k \in ends : e0 \in R(k)
      BY <1>3
    <3>2. k \in j..(L + 1) /\ m <= k
      BY <2>1, <3>1 DEF m, Splits
    <3>3. /\ e0 \in 0..L /\ Spans(pat, name, i + 1, k - 1, e0)
          /\ L \in R(m) /\ Spans(pat, name, i + 1, m - 1, L)
      BY <2>4, <3>1 DEF R, Reaches
    <3>4. m - 1 \in Nat /\ k - 1 \in Nat /\ m - 1 <= k - 1
      BY <1>2, <2>2, <3>2
    <3>5. PICK e \in Nat : e <= e0 /\ Spans(pat, name, i + 1, m - 1, e)
      BY <1>1, <3>3, <3>4, EarlyEnds
    <3>6. e \in 0..L
      BY <1>1, <3>3, <3>5
    <3>7. e \in R(m)
      BY <3>5, <3>6 DEF R, Reaches
    <3> QED BY <1>1, <2>4, <3>3, <3>5, <3>7
  <2>5. Reaches(pat, name, i, j) = {L} <=> R(m) = {L}
    BY <2>2, <2>3, <2>4
  <2> QED BY <1>6, <2>2, <2>3, <2>5 DEF R, m
<1> QED BY <1>5, <1>6

\* matchSegs answers so.
LEMMA MatchSegsFinds ==
    ASSUME NEW pat \in Seq(Seq(Character)), NEW name \in Seq(Seq(Alphabet))
    PROVE  MatchSegs(pat, name) = Found(pat, name, 1, 1)
<1> DEFINE P == Len(pat)
           L == Len(name)
           No == [matched |-> FALSE, exact |-> FALSE]
           Works(f, i, j) == {k \in j..(L + 1) : f[i + 1][k].matched}
           Body(f, i, j) ==
             IF i > P
             THEN [matched |-> TRUE, exact |-> j > L]
             ELSE IF pat[i] = Deep
             THEN IF Works(f, i, j) = {} THEN No ELSE f[i + 1][Min(Works(f, i, j))]
             ELSE IF j <= L /\ MatchSegment(pat[i], name[j])
             THEN f[i + 1][j + 1]
             ELSE No
           Good(f) == f = [i \in 1..(P + 1) |-> [j \in 1..(L + 1) |-> Body(f, i, j)]]
           match == CHOOSE f : Good(f)
           F(i, j) == Found(pat, name, i, j)
           found == [i \in 1..(P + 1) |-> [j \in 1..(L + 1) |-> F(i, j)]]
<1>1. MatchSegs(pat, name) = match[1][1]
  BY DEF MatchSegs
<1>2. P \in Nat /\ L \in Nat
  OBVIOUS
<1> HIDE DEF F
\* Whatever agrees on the rest of the pattern gives the answer.
<1>3. ASSUME NEW f, NEW i \in 1..(P + 1), NEW j \in 1..(L + 1),
             i <= P => \A k \in 1..(L + 1) : f[i + 1][k] = F(i + 1, k)
      PROVE  Body(f, i, j) = F(i, j)
  <2>1. CASE i = P + 1
    <3>1. Body(f, i, j) = [matched |-> TRUE, exact |-> j > L]
      BY <1>2, <2>1
    <3>2. Reaches(pat, name, i, j) = {j - 1}
      BY <2>1, ReachesEnd
    <3>3. (j > L) = ({j - 1} = {L})
      BY <1>2
    <3> QED BY <3>1, <3>2, <3>3, Zenon DEF F, Found
  <2>2. CASE i \in 1..P /\ pat[i] = Deep
    <3> DEFINE ends == Works(f, i, j)
    <3>0. ~ (i > P) /\ i <= P
      BY <1>2, <2>2
    <3>1. Body(f, i, j) = IF ends = {} THEN No ELSE f[i + 1][Min(ends)]
      BY <2>2, <3>0
    <3>2. ends = Splits(pat, name, i, j)
      <4>1. \A k \in j..(L + 1) : k \in 1..(L + 1)
        BY <1>2
      <4>2. \A k \in j..(L + 1) : f[i + 1][k] = Found(pat, name, i + 1, k)
        BY <1>3, <3>0, <4>1 DEF F
      <4>3. \A k \in j..(L + 1) : f[i + 1][k].matched <=> Reaches(pat, name, i + 1, k) # {}
        <5>1. \A k : Found(pat, name, i + 1, k).matched <=> Reaches(pat, name, i + 1, k) # {}
          BY Zenon DEF Found
        <5> QED BY <4>2, <5>1, Zenon
      <4> QED BY <4>3 DEF Splits
    <3> HIDE DEF ends, Works, Body
    <3>3. CASE ends = {}
      <4>1. Reaches(pat, name, i, j) = {}
        BY <2>2, <3>2, <3>3, ReachesDeep
      <4> QED BY <3>1, <3>3, <4>1 DEF F, Found
    <3>4. CASE ends # {}
      <4>1. /\ Min(ends) \in j..(L + 1)
            /\ Reaches(pat, name, i + 1, Min(ends)) # {}
            /\ Reaches(pat, name, i, j) # {}
            /\ Reaches(pat, name, i, j) = {L}
                 <=> Reaches(pat, name, i + 1, Min(ends)) = {L}
        BY <2>2, <3>2, <3>4, ReachesDeep, Zenon
      <4>2. Min(ends) \in 1..(L + 1)
        BY <1>2, <4>1
      <4>3. Body(f, i, j) = F(i + 1, Min(ends))
        BY <1>3, <3>0, <3>1, <3>4, <4>2
      <4> QED BY <4>1, <4>3 DEF F, Found
    <3> QED BY <3>3, <3>4
  <2>3. CASE i \in 1..P /\ pat[i] # Deep
    <3>0. ~ (i > P) /\ i <= P
      BY <1>2, <2>3
    <3>1. Reaches(pat, name, i, j) =
            IF j <= L /\ MatchSegment(pat[i], name[j])
            THEN Reaches(pat, name, i + 1, j + 1) ELSE {}
      BY <2>3, ReachesStep
    <3>2. CASE j <= L /\ MatchSegment(pat[i], name[j])
      <4>1. Body(f, i, j) = f[i + 1][j + 1] /\ j + 1 \in 1..(L + 1)
        BY <1>2, <2>3, <3>0, <3>2
      <4> QED BY <1>3, <3>0, <3>1, <3>2, <4>1 DEF F, Found
    <3>3. CASE ~(j <= L /\ MatchSegment(pat[i], name[j]))
      <4>1. Body(f, i, j) = No
        BY <2>3, <3>0, <3>3
      <4> QED BY <3>1, <3>3, <4>1 DEF F, Found
    <3> QED BY <3>2, <3>3
  <2> QED BY <1>2, <2>1, <2>2, <2>3
<1> HIDE DEF Body
<1>4. Good(found)
  <2>1. ASSUME NEW i \in 1..(P + 1), NEW j \in 1..(L + 1)
        PROVE  Body(found, i, j) = F(i, j)
    <3>1. i <= P => i + 1 \in 1..(P + 1)
      BY <1>2
    <3>2. i <= P => \A k \in 1..(L + 1) : found[i + 1][k] = F(i + 1, k)
      BY <3>1
    <3> HIDE DEF found
    <3> QED BY <1>3, <3>2
  <2>2. \A i \in 1..(P + 1), j \in 1..(L + 1) : Body(found, i, j) = F(i, j)
    BY <2>1
  <2> QED BY <2>2
<1>5. Good(match)
  <2> HIDE DEF Good, found
  <2> QED BY <1>4
<1> HIDE DEF match
<1>6. \A i \in 1..(P + 1), j \in 1..(L + 1) : match[i][j] = Body(match, i, j)
  <2>1. \A i \in 1..(P + 1) : match[i] = [j \in 1..(L + 1) |-> Body(match, i, j)]
    BY <1>5, Zenon
  <2> QED BY <2>1, Zenon
<1> DEFINE Agrees(i) == \A j \in 1..(L + 1) : match[i][j] = F(i, j)
           T == {n \in 0..P : Agrees((P + 1) - n)}
<1>7. ASSUME NEW i \in 1..(P + 1), i <= P => Agrees(i + 1)
      PROVE  Agrees(i)
  <2> SUFFICES ASSUME NEW j \in 1..(L + 1)
               PROVE  match[i][j] = F(i, j)
    OBVIOUS
  <2>1. Body(match, i, j) = F(i, j)
    BY <1>3, <1>7
  <2> QED BY <1>6, <2>1
<1> HIDE DEF Agrees
<1>8. 0..P \subseteq T
  <2>1. 0 \in T
    <3>1. (P + 1) - 0 \in 1..(P + 1) /\ ~ ((P + 1) - 0 <= P) /\ 0 \in 0..P
      BY <1>2
    <3> QED BY <1>7, <3>1
  <2>2. ASSUME NEW n \in 1..P, n - 1 \in T
        PROVE  n \in T
    <3>1. (P + 1) - n \in 1..(P + 1) /\ ((P + 1) - n) + 1 = (P + 1) - (n - 1) /\ n \in 0..P
      BY <1>2
    <3> QED BY <1>7, <2>2, <3>1
  <2> HIDE DEF T
  <2> QED BY <1>2, <2>1, <2>2, InductionUpTo
<1>9. P \in 0..P /\ (P + 1) - P = 1 /\ 1 \in 1..(L + 1)
  BY <1>2
<1>10. Agrees(1)
  BY <1>8, <1>9
<1> QED BY <1>1, <1>9, <1>10 DEF Agrees, F

\* What is matched in the end of a path is matched in the path.
LEMMA SpansShift ==
    ASSUME NEW pat \in Seq(Seq(Character)), NEW path \in Seq(Seq(Alphabet)),
           NEW s \in 1..Len(path), NEW e \in 0..((Len(path) - s) + 1)
    PROVE  Spans(pat, SubSeq(path, s, Len(path)), 1, 0, e)
             <=> Spans(pat, path, 1, s - 1, e + (s - 1))
<1> DEFINE P == Len(pat)
           L == Len(path)
           name == SubSeq(path, s, L)
           d == s - 1
<1>1. /\ P \in Nat /\ L \in Nat /\ d \in Nat /\ d <= L /\ s = d + 1
      /\ 1 \in 1..(P + 1) /\ P + 1 \in 1..(P + 1) /\ 0 + d = s - 1
      /\ \A k \in 1..P : k \in 1..(P + 1) /\ k + 1 \in 1..(P + 1)
  OBVIOUS
<1>2. Len(name) = L - d /\ \A k \in 1..(L - d) : name[k] = path[k + d]
  BY <1>1
<1>3. name \in Seq(Seq(Alphabet))
  OBVIOUS
<1> HIDE DEF name, d, P, L
<1>4. ASSUME NEW cut \in [1..(P + 1) -> Nat], cut[1] = 0, cut[P + 1] = e,
             \A k \in 1..P : Link(pat, name, cut, k)
      PROVE  Spans(pat, path, 1, s - 1, e + d)
  <2> DEFINE c == [k \in 1..(P + 1) |-> cut[k] + d]
  <2>1. c \in [1..(P + 1) -> Nat] /\ c[1] = s - 1 /\ c[P + 1] = e + d
    BY <1>1, <1>4
  <2>2. ASSUME NEW k \in 1..P
        PROVE  Link(pat, path, c, k)
    <3>1. c[k] = cut[k] + d /\ c[k + 1] = cut[k + 1] + d /\ cut[k] \in Nat /\ cut[k + 1] \in Nat
      BY <1>1
    <3> HIDE DEF c
    <3>2. Link(pat, name, cut, k)
      BY <1>4
    <3>3. CASE pat[k] = Deep
      <4>1. cut[k] <= cut[k + 1]
        BY <3>2, <3>3 DEF Link
      <4>2. c[k] <= c[k + 1]
        BY <1>1, <3>1, <4>1
      <4> QED BY <3>3, <4>2 DEF Link
    <3>4. CASE pat[k] # Deep
      <4>1. /\ cut[k + 1] = cut[k] + 1 /\ cut[k + 1] <= L - d
            /\ MatchSegment(pat[k], name[cut[k + 1]])
        BY <1>2, <3>2, <3>4 DEF Link
      <4>2. cut[k + 1] \in 1..(L - d)
        BY <1>1, <3>1, <4>1
      <4>3. name[cut[k + 1]] = path[c[k + 1]]
        BY <1>2, <3>1, <4>2
      <4>4. c[k + 1] = c[k] + 1 /\ c[k + 1] <= L
        <5> DEFINE a == cut[k]
                   b == cut[k + 1]
        <5>1. a \in Nat /\ b \in Nat /\ c[k] = a + d /\ c[k + 1] = b + d
              /\ b = a + 1 /\ b <= L - d
          BY <3>1, <4>1
        <5> HIDE DEF a, b
        <5> QED BY ONLY <1>1, <5>1
      <4> QED BY <3>4, <4>1, <4>3, <4>4 DEF Link, L
    <3> QED BY <3>3, <3>4
  <2> HIDE DEF c
  <2> QED BY <2>1, <2>2 DEF Spans, P
<1>5. ASSUME NEW cut \in [1..(P + 1) -> Nat], cut[1] = s - 1, cut[P + 1] = e + d,
             \A k \in 1..P : Link(pat, path, cut, k)
      PROVE  Spans(pat, name, 1, 0, e)
  <2> DEFINE c == [k \in 1..(P + 1) |-> cut[k] - d]
  <2>0. \A k \in 1..(P + 1) : cut[1] <= cut[k]
    BY <1>1, <1>5, LinksRise DEF P
  <2>1. c \in [1..(P + 1) -> Nat] /\ c[1] = 0 /\ c[P + 1] = e
    <3>1. \A k \in 1..(P + 1) : cut[k] \in Nat /\ d <= cut[k] /\ cut[k] - d \in Nat
      BY <1>1, <1>5, <2>0
    <3>2. (s - 1) - d = 0 /\ (e + d) - d = e
      BY <1>1
    <3> QED BY <1>1, <1>5, <3>1, <3>2
  <2>2. ASSUME NEW k \in 1..P
        PROVE  Link(pat, name, c, k)
    <3>1. c[k] = cut[k] - d /\ c[k + 1] = cut[k + 1] - d /\ c[k] \in Nat /\ c[k + 1] \in Nat
          /\ cut[k] \in Nat /\ cut[k + 1] \in Nat
      BY <1>1, <2>1
    <3> HIDE DEF c
    <3>2. Link(pat, path, cut, k)
      BY <1>5
    <3>3. CASE pat[k] = Deep
      <4>1. cut[k] <= cut[k + 1]
        BY <3>2, <3>3 DEF Link
      <4>2. c[k] <= c[k + 1]
        BY <1>1, <3>1, <4>1
      <4> QED BY <3>3, <4>2 DEF Link
    <3>4. CASE pat[k] # Deep
      <4>1. /\ cut[k + 1] = cut[k] + 1 /\ cut[k + 1] <= L
            /\ MatchSegment(pat[k], path[cut[k + 1]])
        BY <3>2, <3>4 DEF Link, L
      <4>2. c[k + 1] = c[k] + 1 /\ c[k + 1] <= L - d /\ c[k + 1] \in 1..(L - d)
            /\ c[k + 1] + d = cut[k + 1]
        <5> DEFINE a == cut[k]
                   b == cut[k + 1]
        <5>1. a \in Nat /\ b \in Nat /\ c[k] = a - d /\ c[k + 1] = b - d
              /\ b = a + 1 /\ b <= L /\ c[k] \in Nat
          BY <3>1, <4>1
        <5> HIDE DEF a, b
        <5>2. c[k + 1] = c[k] + 1 /\ c[k + 1] <= L - d /\ c[k + 1] \in 1..(L - d)
              /\ c[k + 1] + d = b
          BY ONLY <1>1, <5>1
        <5> QED BY <5>2 DEF b
      <4>3. name[c[k + 1]] = path[cut[k + 1]]
        BY <1>2, <4>2
      <4> QED BY <1>2, <3>4, <4>1, <4>2, <4>3 DEF Link
    <3> QED BY <3>3, <3>4
  <2> HIDE DEF c
  <2> QED BY <2>1, <2>2 DEF Spans, P
<1>6. Spans(pat, name, 1, 0, e) <=> Spans(pat, path, 1, s - 1, e + d)
  BY <1>4, <1>5 DEF Spans, P
<1> QED BY <1>6 DEF name, d, L

\* The meaning of a list of segments in the words of the recursion.
LEMMA CoversMeans ==
    ASSUME NEW pat \in Seq(Seq(Character)), NEW path \in Seq(Seq(Alphabet)),
           NEW n \in 0..Len(path), NEW from, from \subseteq Nat
    PROVE  Covers(pat, SubSeq(path, 1, n), from)
             <=> \E c \in from : Spans(pat, path, 1, c, n)
<1> DEFINE P == Len(pat)
           name == SubSeq(path, 1, n)
<1>1. /\ P \in Nat /\ Len(path) \in Nat /\ n \in Nat /\ n <= Len(path)
      /\ 1 \in 1..(P + 1) /\ P + 1 \in 1..(P + 1) /\ DOMAIN pat = 1..P
      /\ \A k \in 1..P : k \in 1..(P + 1) /\ k + 1 \in 1..(P + 1)
  OBVIOUS
<1>2. Len(name) = n /\ \A k \in 1..n : name[k] = path[k]
  BY <1>1
<1> DEFINE Step(cut, k) ==
             IF pat[k] = Deep
             THEN cut[k] <= cut[k + 1]
             ELSE cut[k + 1] = cut[k] + 1 /\ MatchSegment(pat[k], name[cut[k + 1]])
<1> HIDE DEF name, P
<1>3. ASSUME NEW cut \in [1..(P + 1) -> 0..n], NEW k \in 1..P
      PROVE  Step(cut, k) <=> Link(pat, path, cut, k)
  <2>1. cut[k] \in 0..n /\ cut[k + 1] \in 0..n
    BY <1>1
  <2>2. cut[k + 1] = cut[k] + 1 =>
          cut[k + 1] <= Len(path) /\ name[cut[k + 1]] = path[cut[k + 1]]
    <3>1. cut[k + 1] = cut[k] + 1 => cut[k + 1] \in 1..n /\ cut[k + 1] <= Len(path)
      BY <1>1, <2>1
    <3> QED BY <1>2, <3>1
  <2> QED BY <2>2, Zenon DEF Link
<1>4. Covers(pat, name, from) <=>
        \E cut \in [1..(P + 1) -> 0..n] :
            cut[1] \in from /\ cut[P + 1] = n /\ \A k \in 1..P : Step(cut, k)
  BY <1>1, <1>2 DEF Covers, P
<1> HIDE DEF Step
<1>5. ASSUME Covers(pat, name, from)
      PROVE  \E c \in from : Spans(pat, path, 1, c, n)
  <2>1. PICK cut \in [1..(P + 1) -> 0..n] :
            cut[1] \in from /\ cut[P + 1] = n /\ \A k \in 1..P : Step(cut, k)
    BY <1>4, <1>5
  <2>2. cut \in [1..(P + 1) -> Nat]
    BY <1>1
  <2>3. \A k \in 1..P : Link(pat, path, cut, k)
    BY <1>3, <2>1
  <2>4. Spans(pat, path, 1, cut[1], n)
    BY <2>1, <2>2, <2>3 DEF Spans, P
  <2> QED BY <2>1, <2>4
<1>6. ASSUME NEW c \in from, Spans(pat, path, 1, c, n)
      PROVE  Covers(pat, name, from)
  <2>1. PICK cut \in [1..(P + 1) -> Nat] :
            cut[1] = c /\ cut[P + 1] = n /\ \A k \in 1..P : Link(pat, path, cut, k)
    BY <1>6 DEF Spans, P
  <2>2. ASSUME NEW h \in 1..(P + 1)
        PROVE  cut[h] \in 0..n
    <3>1. \A k \in h..P : Link(pat, path, cut, k)
      <4>1. \A k \in h..P : k \in 1..P
        BY <1>1
      <4> QED BY <2>1, <4>1
    <3>2. P + 1 \in h..(P + 1)
      BY <1>1
    <3>3. cut[h] <= cut[P + 1]
      BY <3>1, <3>2, LinksRise DEF P
    <3>4. cut[h] \in Nat
      OBVIOUS
    <3> QED BY <1>1, <2>1, <3>3, <3>4
  <2>3. cut \in [1..(P + 1) -> 0..n]
    BY <2>2
  <2>4. \A k \in 1..P : Step(cut, k)
    BY <1>3, <2>1, <2>3
  <2> QED BY <1>4, <2>1, <2>3, <2>4
<1> QED BY <1>5, <1>6 DEF name

\* A pattern that stands for nothing at the end of a path stands for its last
\* segment too.
LEMMA SpansNothing ==
    ASSUME NEW pat \in Seq(Seq(Character)), NEW path \in Seq(Seq(Alphabet)),
           pat # <<>>, path # <<>>, Spans(pat, path, 1, Len(path), Len(path))
    PROVE  Spans(pat, path, 1, Len(path) - 1, Len(path))
<1> DEFINE L == Len(path)
<1>1. L \in Nat /\ L - 1 \in Nat /\ 1 \in 1..Len(pat) /\ L - 1 <= L /\ ~ (L + 1 <= L)
  OBVIOUS
<1> HIDE DEF L
<1>2. pat[1] = Deep
  BY <1>1, SpansStep DEF L
<1>3. PICK k \in Nat : L <= k /\ Spans(pat, path, 1 + 1, k, L)
  BY <1>1, <1>2, SpansStep DEF L
<1>4. L - 1 <= k
  BY <1>1, <1>3
<1> QED BY <1>1, <1>2, <1>3, <1>4, SpansStep DEF L

\* The rule excludes the path exactly when matches says so.
LEMMA MatchesMeans ==
    ASSUME NEW p \in Pattern, p.segs # <<>>,
           NEW path \in Seq(Seq(Alphabet)), path # <<>>, NEW isDir \in BOOLEAN
    PROVE  Matches(p, path, isDir) <=> Excludes(p, path, isDir)
<1> DEFINE L == Len(path)
           pat == p.segs
           starts == IF p.anchored THEN {1} ELSE DOMAIN path
           name(s) == SubSeq(path, s, L)
           Hit(c, n) == Spans(pat, path, 1, c, n) /\ (p.dirOnly => n < L \/ isDir)
<1>1. /\ L \in Nat \ {0} /\ pat \in Seq(Seq(Character)) /\ starts \subseteq 1..L
      /\ p.dirOnly \in BOOLEAN /\ p.anchored \in BOOLEAN
      /\ DOMAIN path = 1..L
  BY DEF Pattern
<1>2. \A s \in 1..L : name(s) \in Seq(Seq(Alphabet)) /\ Len(name(s)) = (L - s) + 1
  BY <1>1
<1>3. Matches(p, path, isDir) <=>
        \E s \in starts : LET r == MatchSegs(pat, name(s))
                          IN  r.matched /\ (p.dirOnly /\ r.exact => isDir)
  BY Zenon DEF Matches
<1> HIDE DEF pat, L, starts, name
<1>4. ASSUME NEW s \in starts
      PROVE  LET r == MatchSegs(pat, name(s))
             IN  r.matched /\ (p.dirOnly /\ r.exact => isDir)
                   <=> \E n \in 0..L : Hit(s - 1, n)
  <2> DEFINE N == Len(name(s))
             E == Reaches(pat, name(s), 1, 1)
             r == MatchSegs(pat, name(s))
  <2>1. s \in 1..L /\ N = (L - s) + 1 /\ N \in Nat
    BY <1>1, <1>2
  <2>2. (r.matched <=> E # {}) /\ (r.exact <=> E = {N})
    <3>1. r = Found(pat, name(s), 1, 1)
      BY <1>1, <1>2, <2>1, MatchSegsFinds
    <3>2. /\ Found(pat, name(s), 1, 1).matched <=> E # {}
          /\ Found(pat, name(s), 1, 1).exact <=> E = {N}
      BY Zenon DEF Found
    <3> QED BY <3>1, <3>2, Zenon
  <2>3. E = {e \in 0..N : Spans(pat, path, 1, s - 1, e + (s - 1))}
    <3>1. 1 - 1 = 0
      OBVIOUS
    <3>2. \A e \in 0..N : Spans(pat, name(s), 1, 0, e)
                            <=> Spans(pat, path, 1, s - 1, e + (s - 1))
      BY <1>1, <2>1, SpansShift DEF L, name
    <3> QED BY <3>1, <3>2 DEF Reaches
  <2> HIDE DEF r, E, N
  <2>4. r.matched /\ (p.dirOnly /\ r.exact => isDir)
          <=> \E e \in E : p.dirOnly => e < N \/ isDir
    <3>1. \A e \in E : e \in 0..N /\ (e # N => e < N) /\ ~(N < N)
      BY <2>1, <2>3
    <3> QED BY <2>2, <3>1
  <2>5. ASSUME NEW e \in E, p.dirOnly => e < N \/ isDir
        PROVE  \E n \in 0..L : Hit(s - 1, n)
    <3>1. e \in 0..N /\ Spans(pat, path, 1, s - 1, e + (s - 1))
      BY <2>3
    <3>2. e + (s - 1) \in 0..L /\ (e < N => e + (s - 1) < L)
      BY <1>1, <2>1, <3>1
    <3> QED BY <2>5, <3>1, <3>2
  <2>6. ASSUME NEW n \in 0..L, Hit(s - 1, n)
        PROVE  \E e \in E : p.dirOnly => e < N \/ isDir
    <3>1. s - 1 <= n
      <4>1. 1 \in 1..(Len(pat) + 1) /\ path \in Seq(Seq(Alphabet))
        BY <1>1
      <4> QED BY <1>1, <2>6, <4>1, SpansRise
    <3>2. n - (s - 1) \in 0..N /\ (n - (s - 1)) + (s - 1) = n
          /\ (n < L => n - (s - 1) < N)
      BY <1>1, <2>1, <3>1
    <3>3. n - (s - 1) \in E
      BY <2>3, <2>6, <3>2
    <3> QED BY <2>6, <3>2, <3>3
  <2> HIDE DEF Hit
  <2> QED BY <2>4, <2>5, <2>6 DEF r
<1>5. Matches(p, path, isDir) <=> \E s \in starts : \E n \in 0..L : Hit(s - 1, n)
  <2> HIDE DEF Hit
  <2> QED BY <1>3, <1>4, Zenon
<1>6. Excludes(p, path, isDir) <=>
        \E n \in 0..L : \E c \in (IF p.anchored THEN {0} ELSE 0..n) : Hit(c, n)
  <2>1. \A n \in 0..L : (IF p.anchored THEN {0} ELSE 0..n) \subseteq Nat
    OBVIOUS
  <2>2. ASSUME NEW n \in 0..L
        PROVE  Covers(pat, SubSeq(path, 1, n), IF p.anchored THEN {0} ELSE 0..n)
                 <=> \E c \in (IF p.anchored THEN {0} ELSE 0..n) : Spans(pat, path, 1, c, n)
    BY <1>1, <2>1, CoversMeans DEF L
  <2> QED BY <2>2 DEF Excludes, pat, L
<1>7. ASSUME NEW s \in starts, NEW n \in 0..L, Hit(s - 1, n)
      PROVE  s - 1 \in (IF p.anchored THEN {0} ELSE 0..n)
  <2>1. s \in 1..L /\ (p.anchored => s = 1)
    BY <1>1 DEF starts
  <2>2. s - 1 <= n
    <3>1. 1 \in 1..(Len(pat) + 1)
      BY <1>1
    <3> QED BY <1>1, <1>7, <3>1, SpansRise
  <2> QED BY <1>1, <2>1, <2>2
<1>8. ASSUME NEW n \in 0..L, NEW c \in (IF p.anchored THEN {0} ELSE 0..n), Hit(c, n)
      PROVE  \E s \in starts : Hit(s - 1, n)
  <2>1. CASE p.anchored
    <3>1. c = 1 - 1 /\ 1 \in starts
      BY <2>1 DEF starts
    <3> QED BY <1>8, <3>1
  <2>2. CASE ~p.anchored /\ c < L
    <3>1. c + 1 \in 1..L /\ (c + 1) - 1 = c
      BY <1>1, <2>2
    <3>2. c + 1 \in starts
      BY <1>1, <2>2, <3>1 DEF starts
    <3> QED BY <1>8, <3>1, <3>2
  <2>3. CASE ~p.anchored /\ ~(c < L)
    <3>1. c = L /\ n = L /\ L \in 1..L
      BY <1>1, <2>3
    <3>2. Spans(pat, path, 1, L - 1, n)
      BY <1>1, <1>8, <3>1, SpansNothing DEF pat, L
    <3>3. L \in starts
      BY <1>1, <2>3, <3>1 DEF starts
    <3> QED BY <1>8, <3>2, <3>3
  <2> QED BY <2>1, <2>2, <2>3
<1> HIDE DEF Hit
<1> QED BY <1>5, <1>6, <1>7, <1>8, Zenon

\* One rule after the other, as long as the last one that matched says.
RunsMatch(run, path, isDir) ==
    /\ run[0] = FALSE
    /\ \A n \in 1..Len(rules) :
         run[n] = IF Matches(rules[n], path, isDir) THEN ~rules[n].negate ELSE run[n - 1]
    /\ Match(path, isDir) = run[Len(rules)]

LEMMA MatchRun ==
    ASSUME rules \in Seq(Pattern), NEW path, NEW isDir
    PROVE  \E run : RunsMatch(run, path, isDir)
<1> DEFINE N == Len(rules)
           A == BOOLEAN
           b == FALSE
           Next(x, i) == IF Matches(rules[i], path, isDir) THEN ~rules[i].negate ELSE x
           step == [x \in A \X (1..N) |-> Next(x[1], x[2])]
           Good(iter) == iter = [S \in SUBSET (1..N) |->
                                   IF S = {} THEN b
                                   ELSE Next(iter[S \ {Max(S)}], Max(S))]
           iter == CHOOSE iter : Good(iter)
           run == [n \in 0..N |-> iter[1..n]]
<1>1. N \in Nat /\ DOMAIN rules = 1..N
  OBVIOUS
<1>2. Match(path, isDir) = iter[1..N]
  BY <1>1 DEF Match, FoldLeft, MapThenFoldSet
<1>3. b \in A
  OBVIOUS
<1>4. step \in [A \X (1..N) -> A]
  OBVIOUS
<1> HIDE DEF N, A, b, Next
<1>5. \E f : Good(f)
  <2>1. PICK f \in [SUBSET (1..N) -> A] : IsFold(f, N, b, step)
    <3> HIDE DEF step
    <3> QED BY <1>1, <1>3, <1>4, FoldExists, Zenon
  <2>2. ASSUME NEW S \in SUBSET (1..N), S # {}
        PROVE  step[<<f[S \ {Max(S)}], Max(S)>>] = Next(f[S \ {Max(S)}], Max(S))
    <3>1. Max(S) \in 1..N /\ S \ {Max(S)} \in SUBSET (1..N)
      <4>1. S \in SUBSET (0..N)
        BY <1>1
      <4> QED BY <1>1, <2>2, <4>1, MaxIsLast
    <3>2. \A x \in A, i \in 1..N : step[<<x, i>>] = Next(x, i)
      OBVIOUS
    <3>3. f[S \ {Max(S)}] \in A
      BY <3>1
    <3> QED BY <3>1, <3>2, <3>3, Zenon
  <2>3. Good(f)
    <3> HIDE DEF step
    <3> QED BY <2>1, <2>2 DEF IsFold
  <2> QED BY <2>3
<1>6. Good(iter)
  <2> HIDE DEF Good
  <2> QED BY <1>5
<1> HIDE DEF iter
<1>7. run[0] = b
  <2>1. 1..0 = {} /\ {} \in SUBSET (1..N) /\ 0 \in 0..N
    BY <1>1
  <2>2. iter[{}] = b
    BY <1>6, <2>1, Zenon
  <2> QED BY <2>1, <2>2
<1>8. ASSUME NEW n \in 1..N
      PROVE  run[n] = Next(run[n - 1], n)
  <2>1. /\ Max(1..n) = n /\ (1..n) \ {n} = 1..(n - 1)
        /\ 1..n \in SUBSET (1..N) /\ 1..n # {}
    BY <1>1, Segments, Zenon
  <2>2. iter[1..n] = Next(iter[(1..n) \ {Max(1..n)}], Max(1..n))
    BY <1>6, <2>1, Zenon
  <2>3. iter[1..n] = Next(iter[1..(n - 1)], n)
    BY <2>1, <2>2, Zenon
  <2> QED BY <1>1, <2>3
<1>9. Match(path, isDir) = run[N]
  BY <1>1, <1>2
<1> HIDE DEF run
<1> QED BY <1>7, <1>8, <1>9 DEF RunsMatch, N, b, Next

\* The last rule that excludes the path decides.
Decided(n, path, isDir) ==
    \E i \in 1..n :
        /\ Excludes(rules[i], path, isDir) /\ ~rules[i].negate
        /\ \A j \in (i + 1)..n : ~Excludes(rules[j], path, isDir)

LEMMA MatchMeans ==
    ASSUME rules \in Seq(Pattern), \A i \in DOMAIN rules : rules[i].segs # <<>>,
           NEW path \in Seq(Seq(Alphabet)), path # <<>>, NEW isDir \in BOOLEAN
    PROVE  Match(path, isDir) <=> Decided(Len(rules), path, isDir)
<1> DEFINE N == Len(rules)
           X(i) == Excludes(rules[i], path, isDir)
<1>1. N \in Nat /\ DOMAIN rules = 1..N /\ \A i \in 1..N : rules[i] \in Pattern
  OBVIOUS
<1>2. PICK run : RunsMatch(run, path, isDir)
  BY MatchRun
<1>3. \A n \in 1..N : run[n] = IF X(n) THEN ~rules[n].negate ELSE run[n - 1]
  <2>1. \A n \in 1..N : Matches(rules[n], path, isDir) <=> X(n)
    BY <1>1, MatchesMeans
  <2> QED BY <1>2, <2>1 DEF RunsMatch
<1> HIDE DEF X
<1> DEFINE D(n) == \E i \in 1..n : X(i) /\ ~rules[i].negate /\ \A j \in (i + 1)..n : ~X(j)
           Ok(n) == run[n] <=> D(n)
           T == {n \in 0..N : Ok(n)}
<1>4. Ok(0)
  <2>1. run[0] = FALSE /\ 1..0 = {}
    BY <1>2 DEF RunsMatch
  <2> QED BY <2>1
<1>5. ASSUME NEW n \in 1..N, Ok(n - 1)
      PROVE  Ok(n)
  <2>1. n \in 1..n /\ (n + 1)..n = {} /\ \A i \in 1..n : i = n \/ i \in 1..(n - 1)
    OBVIOUS
  <2>2. \A i \in 1..(n - 1) : /\ i \in 1..n /\ n \in (i + 1)..n
                              /\ \A j \in (i + 1)..n : j = n \/ j \in (i + 1)..(n - 1)
                              /\ \A j \in (i + 1)..(n - 1) : j \in (i + 1)..n
    OBVIOUS
  <2>3. CASE X(n)
    <3>1. D(n) <=> ~rules[n].negate
      BY <2>1, <2>2, <2>3
    <3>2. run[n] = ~rules[n].negate
      BY <1>3, <2>3
    <3> QED BY <3>1, <3>2
  <2>4. CASE ~X(n)
    <3>1. D(n) <=> D(n - 1)
      BY <2>1, <2>2, <2>4
    <3>2. run[n] = run[n - 1]
      BY <1>3, <2>4
    <3> HIDE DEF D
    <3> QED BY <1>5, <3>1, <3>2
  <2> QED BY <2>3, <2>4
<1> HIDE DEF Ok
<1>6. 0..N \subseteq T
  <2>1. 0 \in T
    BY <1>1, <1>4
  <2>2. \A n \in 1..N : n - 1 \in T => n \in T
    BY <1>1, <1>5
  <2> HIDE DEF T
  <2> QED BY <1>1, <2>1, <2>2, InductionUpTo
<1>7. Ok(N)
  BY <1>1, <1>6
<1>8. Match(path, isDir) = run[N]
  BY <1>2 DEF RunsMatch
<1> QED BY <1>7, <1>8 DEF Ok, X, Decided

\* One character after the other: a slash begins a segment.
RunsSplit(run, text) ==
    /\ run[0] = <<<<>>>>
    /\ \A n \in 1..Len(text) :
         run[n] = IF text[n] = Slash THEN Append(run[n - 1], <<>>)
                  ELSE [run[n - 1] EXCEPT ![Len(run[n - 1])] = Append(@, text[n])]
    /\ Split(text) = run[Len(text)]

LEMMA SplitRun ==
    ASSUME NEW text \in Seq(Character)
    PROVE  \E run : RunsSplit(run, text)
<1> DEFINE N == Len(text)
           A == {segs \in Seq(Seq(Character)) : segs # <<>>}
           b == <<<<>>>>
           Next(segs, i) ==
             IF text[i] = Slash THEN Append(segs, <<>>)
             ELSE [segs EXCEPT ![Len(segs)] = Append(@, text[i])]
           step == [x \in A \X (1..N) |-> Next(x[1], x[2])]
           Good(iter) == iter = [S \in SUBSET (1..N) |->
                                   IF S = {} THEN b
                                   ELSE Next(iter[S \ {Max(S)}], Max(S))]
           iter == CHOOSE iter : Good(iter)
           run == [n \in 0..N |-> iter[1..n]]
<1>1. N \in Nat /\ DOMAIN text = 1..N
  OBVIOUS
<1>2. Split(text) = iter[1..N]
  BY <1>1 DEF Split, FoldLeft, MapThenFoldSet
<1>3. b \in A
  OBVIOUS
<1>4. step \in [A \X (1..N) -> A]
  <2> SUFFICES ASSUME NEW segs \in A, NEW i \in 1..N
               PROVE  Next(segs, i) \in A
    OBVIOUS
  <2>1. segs \in Seq(Seq(Character)) /\ segs # <<>> /\ text[i] \in Character
    BY <1>1
  <2>2. CASE text[i] = Slash
    <3>1. <<>> \in Seq(Character)
      OBVIOUS
    <3>2. /\ Append(segs, <<>>) \in Seq(Seq(Character))
          /\ Append(segs, <<>>) # <<>>
      BY <2>1, <3>1, AppendProperties
    <3> QED BY <2>2, <3>2
  <2>3. CASE text[i] # Slash
    <3> DEFINE more == Append(segs[Len(segs)], text[i])
    <3>1. Len(segs) \in 1..Len(segs) /\ more \in Seq(Character)
      BY <2>1
    <3> HIDE DEF more
    <3>2. /\ [segs EXCEPT ![Len(segs)] = more] \in Seq(Seq(Character))
          /\ Len([segs EXCEPT ![Len(segs)] = more]) = Len(segs)
      BY <2>1, <3>1, ExceptSeq
    <3>3. [segs EXCEPT ![Len(segs)] = more] # <<>>
      BY <2>1, <3>2
    <3>4. Next(segs, i) = [segs EXCEPT ![Len(segs)] = more]
      BY <2>3 DEF more
    <3> QED BY <3>2, <3>3, <3>4
  <2> QED BY <2>2, <2>3
<1> HIDE DEF N, A, b, Next
<1>5. \E f : Good(f)
  <2>1. PICK f \in [SUBSET (1..N) -> A] : IsFold(f, N, b, step)
    <3> HIDE DEF step
    <3> QED BY <1>1, <1>3, <1>4, FoldExists, Zenon
  <2>2. ASSUME NEW S \in SUBSET (1..N), S # {}
        PROVE  step[<<f[S \ {Max(S)}], Max(S)>>] = Next(f[S \ {Max(S)}], Max(S))
    <3>1. Max(S) \in 1..N /\ S \ {Max(S)} \in SUBSET (1..N)
      <4>1. S \in SUBSET (0..N)
        BY <1>1
      <4> QED BY <1>1, <2>2, <4>1, MaxIsLast
    <3>2. \A x \in A, i \in 1..N : step[<<x, i>>] = Next(x, i)
      OBVIOUS
    <3>3. f[S \ {Max(S)}] \in A
      BY <3>1
    <3> QED BY <3>1, <3>2, <3>3, Zenon
  <2>3. Good(f)
    <3> HIDE DEF step
    <3> QED BY <2>1, <2>2 DEF IsFold
  <2> QED BY <2>3
<1>6. Good(iter)
  <2> HIDE DEF Good
  <2> QED BY <1>5
<1> HIDE DEF iter
<1>7. run[0] = b
  <2>1. 1..0 = {} /\ {} \in SUBSET (1..N) /\ 0 \in 0..N
    BY <1>1
  <2>2. iter[{}] = b
    BY <1>6, <2>1, Zenon
  <2> QED BY <2>1, <2>2
<1>8. ASSUME NEW n \in 1..N
      PROVE  run[n] = Next(run[n - 1], n)
  <2>1. /\ Max(1..n) = n /\ (1..n) \ {n} = 1..(n - 1)
        /\ 1..n \in SUBSET (1..N) /\ 1..n # {}
    BY <1>1, Segments, Zenon
  <2>2. iter[1..n] = Next(iter[(1..n) \ {Max(1..n)}], Max(1..n))
    BY <1>6, <2>1, Zenon
  <2>3. iter[1..n] = Next(iter[1..(n - 1)], n)
    BY <2>1, <2>2, Zenon
  <2> QED BY <1>1, <2>3
<1>9. Split(text) = run[N]
  BY <1>1, <1>2
<1> HIDE DEF run
<1> QED BY <1>7, <1>8, <1>9 DEF RunsSplit, N, b, Next

\* One segment after the other, behind a slash.
RunsJoin(run, segs) ==
    /\ run[0] = Head(segs)
    /\ \A n \in 1..Len(Tail(segs)) :
         run[n] = run[n - 1] \o <<Slash>> \o Tail(segs)[n]
    /\ Joined(segs) = run[Len(Tail(segs))]

LEMMA JoinRun ==
    ASSUME NEW segs \in Seq(Seq(Character)), segs # <<>>
    PROVE  \E run : RunsJoin(run, segs)
<1> DEFINE N == Len(Tail(segs))
           A == Seq(Character)
           b == Head(segs)
           Next(text, i) == text \o <<Slash>> \o Tail(segs)[i]
           step == [x \in A \X (1..N) |-> Next(x[1], x[2])]
           Good(iter) == iter = [S \in SUBSET (1..N) |->
                                   IF S = {} THEN b
                                   ELSE Next(iter[S \ {Max(S)}], Max(S))]
           iter == CHOOSE iter : Good(iter)
           run == [n \in 0..N |-> iter[1..n]]
<1>1. N \in Nat /\ DOMAIN Tail(segs) = 1..N
  OBVIOUS
<1>2. Joined(segs) = iter[1..N]
  BY <1>1 DEF Joined, FoldLeft, MapThenFoldSet
<1>3. b \in A
  OBVIOUS
<1>4. step \in [A \X (1..N) -> A]
  <2> SUFFICES ASSUME NEW text \in A, NEW i \in 1..N
               PROVE  Next(text, i) \in A
    OBVIOUS
  <2>1. Tail(segs)[i] \in Seq(Character) /\ <<Slash>> \in Seq(Character)
    BY <1>1 DEF Character
  <2>2. text \o <<Slash>> \in Seq(Character)
    BY <2>1
  <2> QED BY <2>1, <2>2
<1> HIDE DEF N, A, b, Next
<1>5. \E f : Good(f)
  <2>1. PICK f \in [SUBSET (1..N) -> A] : IsFold(f, N, b, step)
    <3> HIDE DEF step
    <3> QED BY <1>1, <1>3, <1>4, FoldExists, Zenon
  <2>2. ASSUME NEW S \in SUBSET (1..N), S # {}
        PROVE  step[<<f[S \ {Max(S)}], Max(S)>>] = Next(f[S \ {Max(S)}], Max(S))
    <3>1. Max(S) \in 1..N /\ S \ {Max(S)} \in SUBSET (1..N)
      <4>1. S \in SUBSET (0..N)
        BY <1>1
      <4> QED BY <1>1, <2>2, <4>1, MaxIsLast
    <3>2. \A x \in A, i \in 1..N : step[<<x, i>>] = Next(x, i)
      OBVIOUS
    <3>3. f[S \ {Max(S)}] \in A
      BY <3>1
    <3> QED BY <3>1, <3>2, <3>3, Zenon
  <2>3. Good(f)
    <3> HIDE DEF step
    <3> QED BY <2>1, <2>2 DEF IsFold
  <2> QED BY <2>3
<1>6. Good(iter)
  <2> HIDE DEF Good
  <2> QED BY <1>5
<1> HIDE DEF iter
<1>7. run[0] = b
  <2>1. 1..0 = {} /\ {} \in SUBSET (1..N) /\ 0 \in 0..N
    BY <1>1
  <2>2. iter[{}] = b
    BY <1>6, <2>1, Zenon
  <2> QED BY <2>1, <2>2
<1>8. ASSUME NEW n \in 1..N
      PROVE  run[n] = Next(run[n - 1], n)
  <2>1. /\ Max(1..n) = n /\ (1..n) \ {n} = 1..(n - 1)
        /\ 1..n \in SUBSET (1..N) /\ 1..n # {}
    BY <1>1, Segments, Zenon
  <2>2. iter[1..n] = Next(iter[(1..n) \ {Max(1..n)}], Max(1..n))
    BY <1>6, <2>1, Zenon
  <2>3. iter[1..n] = Next(iter[1..(n - 1)], n)
    BY <2>1, <2>2, Zenon
  <2> QED BY <1>1, <2>3
<1>9. Joined(segs) = run[N]
  BY <1>1, <1>2
<1> HIDE DEF run
<1> QED BY <1>7, <1>8, <1>9 DEF RunsJoin, N, b, Next

LEMMA MarksAreCharacters ==
    /\ Slash \in Character /\ Bang \in Character /\ Blank \in Character
    /\ Star \in Character /\ Seq(Alphabet) \subseteq Seq(Character)
BY DEF Character, Wild

LEMMA Associative ==
    \A a, b, c \in Seq(Character) : (a \o b) \o c = a \o (b \o c)
BY ConcatAssociative

\* Blanks at the end go, and nothing else.
LEMMA Trimmed ==
    ASSUME NEW line \in Seq(Character)
    PROVE  \E k \in 0..Len(line) :
             /\ TrimRight(line) = SubSeq(line, 1, k)
             /\ k > 0 => line[k] # Blank
             /\ \A i \in (k + 1)..Len(line) : line[i] = Blank
<1> DEFINE S == {0} \cup {i \in DOMAIN line : line[i] # Blank}
           k == Max(S)
<1>1. Len(line) \in Nat /\ DOMAIN line = 1..Len(line)
  OBVIOUS
<1>2. k \in S /\ \A i \in S : i <= k
  <2>1. S \in SUBSET (0..Len(line)) /\ S # {}
    BY <1>1
  <2> HIDE DEF S
  <2> QED BY <1>1, <2>1, MaxIsLast
<1>3. TrimRight(line) = SubSeq(line, 1, k)
  BY DEF TrimRight
<1> HIDE DEF k
<1>4. k \in 0..Len(line) /\ (k > 0 => line[k] # Blank)
  BY <1>1, <1>2
<1>5. \A i \in (k + 1)..Len(line) : line[i] = Blank
  BY <1>1, <1>2, <1>4
<1> QED BY <1>3, <1>4, <1>5

LEMMA TrimmedType ==
    ASSUME NEW line \in Seq(Character)
    PROVE  TrimRight(line) \in Seq(Character)
<1>1. PICK k \in 0..Len(line) : TrimRight(line) = SubSeq(line, 1, k)
  BY Trimmed
<1>2. k \in Nat /\ k <= Len(line) /\ Len(line) \in Nat
  OBVIOUS
<1> QED BY <1>1, <1>2

-----------------------------------------------------------------------------
(* Split and Joined. *)

LEMMA JoinedOne ==
    ASSUME NEW s \in Seq(Character)
    PROVE  Joined(<<s>>) = s
<1>1. PICK run : RunsJoin(run, <<s>>)
  <2>1. <<s>> \in Seq(Seq(Character)) /\ <<s>> # <<>>
    OBVIOUS
  <2> QED BY <2>1, JoinRun
<1>2. Len(Tail(<<s>>)) = 0 /\ Head(<<s>>) = s
  OBVIOUS
<1> QED BY <1>1, <1>2 DEF RunsJoin

LEMMA JoinedType ==
    ASSUME NEW segs \in Seq(Seq(Character)), segs # <<>>
    PROVE  Joined(segs) \in Seq(Character)
<1> DEFINE N == Len(Tail(segs))
<1>1. PICK run : RunsJoin(run, segs)
  BY JoinRun
<1>2. /\ N \in Nat /\ \A n \in 1..N : Tail(segs)[n] \in Seq(Character)
      /\ Head(segs) \in Seq(Character)
  BY HeadTailProperties
<1> HIDE DEF N
<1> DEFINE T == {n \in 0..N : run[n] \in Seq(Character)}
<1>3. 0 \in T
  BY <1>1, <1>2 DEF RunsJoin
<1>4. ASSUME NEW n \in 1..N, n - 1 \in T
      PROVE  n \in T
  <2>1. run[n - 1] \in Seq(Character) /\ <<Slash>> \in Seq(Character)
    BY <1>4, MarksAreCharacters
  <2>2. run[n - 1] \o <<Slash>> \in Seq(Character)
    BY <2>1, ConcatProperties
  <2>3. (run[n - 1] \o <<Slash>>) \o Tail(segs)[n] \in Seq(Character)
    BY <1>2, <2>2, ConcatProperties
  <2>4. run[n] = run[n - 1] \o <<Slash>> \o Tail(segs)[n]
    BY <1>1 DEF RunsJoin, N
  <2>5. n \in 0..N
    OBVIOUS
  <2> QED BY <2>3, <2>4, <2>5
<1> HIDE DEF T
<1>5. 0..N \subseteq T
  BY <1>2, <1>3, <1>4, InductionUpTo
<1>6. N \in 0..N
  BY <1>2
<1>7. run[N] \in Seq(Character)
  BY <1>5, <1>6 DEF T
<1> QED BY <1>1, <1>7 DEF RunsJoin, N

LEMMA JoinedMore ==
    ASSUME NEW segs \in Seq(Seq(Character)), segs # <<>>, NEW s \in Seq(Character)
    PROVE  Joined(Append(segs, s)) = Joined(segs) \o <<Slash>> \o s
<1> DEFINE more == Append(segs, s)
           N == Len(Tail(segs))
<1>1. more \in Seq(Seq(Character)) /\ more # <<>> /\ Len(more) = Len(segs) + 1
      /\ Len(segs) \in Nat \ {0}
  BY AppendProperties
<1>2. /\ N \in Nat /\ N = Len(segs) - 1 /\ Len(Tail(more)) = N + 1
      /\ \A n \in 1..N : Tail(segs)[n] = segs[n + 1]
      /\ \A n \in 1..(N + 1) : Tail(more)[n] = more[n + 1]
  <2>1. Len(Tail(segs)) = Len(segs) - 1 /\ \A n \in 1..N : Tail(segs)[n] = segs[n + 1]
    BY HeadTailProperties
  <2>2. /\ Len(Tail(more)) = Len(more) - 1
        /\ \A n \in 1..Len(Tail(more)) : Tail(more)[n] = more[n + 1]
    BY <1>1, HeadTailProperties
  <2> QED BY <1>1, <2>1, <2>2
<1>3. /\ \A n \in 1..Len(segs) : more[n] = segs[n]
      /\ more[Len(segs) + 1] = s
      /\ Head(more) = Head(segs)
  BY <1>1
<1> HIDE DEF more, N
<1>4. (\A n \in 1..N : Tail(more)[n] = Tail(segs)[n]) /\ Tail(more)[N + 1] = s
  <2>1. \A n \in 1..N : n \in 1..(N + 1) /\ n + 1 \in 1..Len(segs)
    BY <1>1, <1>2
  <2>2. N + 1 \in 1..(N + 1) /\ (N + 1) + 1 = Len(segs) + 1
    BY <1>1, <1>2
  <2>3. \A n \in 1..N : Tail(more)[n] = Tail(segs)[n]
    BY <1>2, <1>3, <2>1
  <2>4. Tail(more)[N + 1] = more[(N + 1) + 1]
    BY <1>2, <2>2
  <2> QED BY <1>3, <2>2, <2>3, <2>4
<1>5. PICK run : RunsJoin(run, segs)
  BY JoinRun
<1>6. PICK run2 : RunsJoin(run2, more)
  BY <1>1, JoinRun
<1> DEFINE T == {n \in 0..N : run2[n] = run[n]}
<1>7. 0 \in T
  BY <1>2, <1>3, <1>5, <1>6 DEF RunsJoin
<1>8. ASSUME NEW n \in 1..N, n - 1 \in T
      PROVE  n \in T
  <2>1. n \in 1..(N + 1) /\ n \in 0..N
    BY <1>2
  <2>2. run2[n] = run2[n - 1] \o <<Slash>> \o Tail(more)[n]
    BY <1>2, <1>6, <2>1 DEF RunsJoin
  <2>3. run[n] = run[n - 1] \o <<Slash>> \o Tail(segs)[n]
    BY <1>5 DEF RunsJoin, N
  <2> QED BY <1>4, <1>8, <2>1, <2>2, <2>3
<1> HIDE DEF T
<1>9. 0..N \subseteq T
  BY <1>2, <1>7, <1>8, InductionUpTo
<1>10. run2[N] = run[N]
  <2>1. N \in 0..N
    BY <1>2
  <2> QED BY <1>9, <2>1 DEF T
<1>11. run2[N + 1] = run2[N] \o <<Slash>> \o s
  <2>1. N + 1 \in 1..(N + 1) /\ (N + 1) - 1 = N
    BY <1>2
  <2> QED BY <1>2, <1>4, <1>6, <2>1 DEF RunsJoin
<1> QED BY <1>2, <1>5, <1>6, <1>10, <1>11 DEF RunsJoin, N, more

\* A character behind the last segment is one behind the text.
LEMMA JoinedLonger ==
    ASSUME NEW segs \in Seq(Seq(Character)), segs # <<>>, NEW c \in Character
    PROVE  Joined([segs EXCEPT ![Len(segs)] = Append(@, c)]) = Append(Joined(segs), c)
<1> DEFINE n == Len(segs)
           last == segs[n]
           long == Append(last, c)
           more == [segs EXCEPT ![n] = long]
           front == SubSeq(segs, 1, n - 1)
<1>1. n \in Nat \ {0} /\ n \in 1..n /\ last \in Seq(Character)
  OBVIOUS
<1>2. long \in Seq(Character)
  BY <1>1
<1> HIDE DEF long, last
<1>3. /\ more \in Seq(Seq(Character)) /\ Len(more) = n
      /\ \A j \in 1..n : more[j] = IF j = n THEN long ELSE segs[j]
  BY <1>1, <1>2, ExceptSeq
<1> HIDE DEF more
<1>4. CASE n = 1
  <2>1. segs = <<last>> /\ more = <<long>>
    BY <1>3, <1>4 DEF last
  <2> QED BY <1>1, <1>2, <2>1, JoinedOne DEF more, long, last
<1>5. CASE n # 1
  <2>1. front \in Seq(Seq(Character)) /\ Len(front) = n - 1
        /\ \A j \in 1..(n - 1) : front[j] = segs[j]
    <3>1. \A j \in 1..(n - 1) : segs[j] \in Seq(Character) /\ (1 + j) - 1 = j
      BY <1>1
    <3> HIDE DEF n
    <3>2. 1 \in Int /\ n - 1 \in Int /\ 1 <= n - 1 /\ ((n - 1) - 1) + 1 = n - 1
      BY <1>1, <1>5
    <3>3. /\ front \in Seq(Seq(Character))
          /\ Len(front) = IF 1 <= n - 1 THEN ((n - 1) - 1) + 1 ELSE 0
          /\ \A j \in 1..(((n - 1) - 1) + 1) : front[j] = segs[(1 + j) - 1]
      BY ONLY <3>1, <3>2, SubSeqProperties
    <3> QED BY <3>1, <3>2, <3>3
  <2>2. front # <<>>
    <3>1. n - 1 # 0
      BY <1>1, <1>5
    <3> HIDE DEF front, n
    <3> QED BY <2>1, <3>1
  <2> HIDE DEF front, n
  <2>3. segs = Append(front, last)
    <3>1. Len(Append(front, last)) = n /\ Append(front, last) \in Seq(Seq(Character))
          /\ \A j \in 1..n : Append(front, last)[j] = segs[j]
      BY <1>1, <2>1, AppendProperties DEF last
    <3> QED BY <3>1, SeqEqual DEF n
  <2>4. more = Append(front, long)
    <3>1. Len(Append(front, long)) = n /\ Append(front, long) \in Seq(Seq(Character))
          /\ \A j \in 1..n : Append(front, long)[j] = more[j]
      <4>1. (n - 1) + 1 = n /\ \A j \in 1..n : j = n \/ (j # n /\ j \in 1..(n - 1))
        BY <1>1
      <4>2. /\ Append(front, long) \in Seq(Seq(Character))
            /\ Len(Append(front, long)) = (n - 1) + 1
            /\ \A j \in 1..(n - 1) : Append(front, long)[j] = front[j]
            /\ Append(front, long)[(n - 1) + 1] = long
        BY <1>2, <2>1, AppendProperties
      <4> QED BY <1>3, <2>1, <4>1, <4>2
    <3> QED BY <1>3, <3>1, SeqEqual
  <2> DEFINE text == Joined(front) \o <<Slash>>
  <2>5. Joined(segs) = text \o last /\ Joined(more) = text \o long
    BY <1>1, <1>2, <2>1, <2>2, <2>3, <2>4, JoinedMore
  <2>6. text \in Seq(Character)
    <3>1. Joined(front) \in Seq(Character) /\ <<Slash>> \in Seq(Character)
      BY <2>1, <2>2, JoinedType, MarksAreCharacters
    <3> QED BY <3>1, ConcatProperties
  <2> HIDE DEF text
  <2>7. text \o long = Append(text \o last, c)
    <3>1. <<c>> \in Seq(Character)
      OBVIOUS
    <3>2. long = last \o <<c>>
      BY <1>1, AppendIsConcat DEF long
    <3>3. text \o last \in Seq(Character)
      BY <1>1, <2>6, ConcatProperties
    <3>4. Append(text \o last, c) = (text \o last) \o <<c>>
      BY <3>3, AppendIsConcat
    <3> QED BY <1>1, <2>6, <3>1, <3>2, <3>4, ConcatAssociative
  <2>8. Joined(more) = Append(Joined(segs), c)
    BY <2>5, <2>7
  <2> QED BY <2>8 DEF more, long, last, n
<1> QED BY <1>4, <1>5

\* What the segments of a text are: they hold no slash, there are more than one
\* if the text holds one, they are empty only beside one, and joined they are
\* the text.
LEMMA SplitMeans ==
    ASSUME NEW text \in Seq(Character), text # <<>>
    PROVE  LET segs == Split(text)
           IN  /\ segs \in Seq(Seq(Character)) /\ segs # <<>>
               /\ \A seg \in ToSet(segs) : Slash \notin ToSet(seg)
               /\ Len(segs) > 1 <=> Slash \in ToSet(text)
               /\ Head(segs) = <<>> => Head(text) = Slash
               /\ Last(segs) = <<>> => Last(text) = Slash
               /\ Joined(segs) = text
<1> DEFINE N == Len(text)
           Free(s) == \A k \in 1..Len(s) : \A m \in 1..Len(s[k]) : s[k][m] # Slash
           Ok(n, s) ==
             /\ s \in Seq(Seq(Character)) /\ s # <<>>
             /\ Free(s)
             /\ Len(s) > 1 <=> \E i \in 1..n : text[i] = Slash
             /\ s[1] = <<>> => n = 0 \/ text[1] = Slash
             /\ s[Len(s)] = <<>> => n = 0 \/ text[n] = Slash
             /\ Joined(s) = SubSeq(text, 1, n)
<1>1. N \in Nat \ {0} /\ DOMAIN text = 1..N /\ \A n \in 1..N : text[n] \in Character
  OBVIOUS
<1>2. PICK run : RunsSplit(run, text)
  BY SplitRun
<1>3. Ok(0, run[0])
  <2> DEFINE s == <<<<>>>>
  <2>1. run[0] = s
    BY <1>2 DEF RunsSplit
  <2>2. /\ <<>> \in Seq(Character) /\ s \in Seq(Seq(Character)) /\ s # <<>>
        /\ Len(s) = 1 /\ s[1] = <<>> /\ Len(s[1]) = 0 /\ 1..0 = {}
    OBVIOUS
  <2>3. Joined(s) = SubSeq(text, 1, 0)
    <3>1. Joined(s) = <<>>
      BY <2>2, JoinedOne
    <3>2. SubSeq(text, 1, 0) = <<>>
      BY SubSeqEmpty
    <3> QED BY <3>1, <3>2
  <2>4. Free(s)
    BY <2>2
  <2>5. Len(s) > 1 <=> \E i \in 1..0 : text[i] = Slash
    BY <2>2
  <2> HIDE DEF s, Free
  <2> QED BY <2>1, <2>2, <2>3, <2>4, <2>5
<1>4. ASSUME NEW n \in 1..N, Ok(n - 1, run[n - 1])
      PROVE  Ok(n, run[n])
  <2> DEFINE s == run[n - 1]
             L == Len(s)
             c == text[n]
             t == run[n]
             before == SubSeq(text, 1, n - 1)
  <2>0. t = IF c = Slash THEN Append(s, <<>>) ELSE [s EXCEPT ![L] = Append(@, c)]
    BY <1>2 DEF RunsSplit
  <2> HIDE DEF s, c, t
  <2>1. /\ s \in Seq(Seq(Character)) /\ s # <<>> /\ Free(s)
        /\ L > 1 <=> \E i \in 1..(n - 1) : text[i] = Slash
        /\ s[1] = <<>> => n - 1 = 0 \/ text[1] = Slash
        /\ Joined(s) = before
    BY <1>4 DEF s
  <2>2. L \in Nat \ {0} /\ 1 \in 1..L /\ L \in 1..L /\ c \in Character
        /\ \A k \in 1..L : s[k] \in Seq(Character)
    BY <1>1, <2>1 DEF c
  <2>3. before \in Seq(Character) /\ SubSeq(text, 1, n) = Append(before, c)
    <3>1. 1 \in 1..Len(text) /\ n \in 1..Len(text)
      BY <1>1
    <3>2. SubSeq(text, 1, n) = before \o <<text[n]>>
      BY <3>1, SubSeqRecursiveSecond
    <3>3. before \in Seq(Character)
      BY <1>1
    <3> QED BY <2>2, <3>2, <3>3, AppendIsConcat DEF c
  <2>4. \A i \in 1..n : i = n \/ i \in 1..(n - 1)
    OBVIOUS
  <2>5. \A i \in 1..(n - 1) : i \in 1..n
    OBVIOUS
  <2>6. n \in 1..n /\ n # 0
    OBVIOUS
  <2>7. CASE c = Slash
    <3>1. /\ t = Append(s, <<>>) /\ <<>> \in Seq(Character) /\ Len(<<>>) = 0
      BY <2>0, <2>7
    <3>2. /\ t \in Seq(Seq(Character)) /\ t # <<>> /\ Len(t) = L + 1
          /\ \A k \in 1..L : t[k] = s[k]
          /\ t[L + 1] = <<>>
      <4> DEFINE none == <<>>
      <4>1. none \in Seq(Character) /\ t = Append(s, none)
        BY <3>1
      <4> HIDE DEF none
      <4>2. /\ t \in Seq(Seq(Character)) /\ Len(t) = L + 1
            /\ \A k \in 1..L : t[k] = s[k]
            /\ t[L + 1] = none
        BY <2>1, <4>1, AppendProperties
      <4>3. t # <<>>
        BY <2>2, <4>2
      <4> QED BY <4>2, <4>3 DEF none
    <3>3. Free(t)
      <4> SUFFICES ASSUME NEW k \in 1..(L + 1), NEW m \in 1..Len(t[k])
                   PROVE  t[k][m] # Slash
        BY <3>2
      <4>1. CASE k = L + 1
        BY <3>1, <3>2, <4>1
      <4>2. CASE k \in 1..L
        BY <2>1, <3>2, <4>2
      <4> QED BY <2>2, <4>1, <4>2
    <3>4. Len(t) > 1 /\ text[n] = Slash
      BY <2>2, <2>7, <3>2 DEF c
    <3>5. t[1] = <<>> => text[1] = Slash
      <4>1. n - 1 = 0 => n = 1
        OBVIOUS
      <4> QED BY <2>1, <2>2, <3>2, <3>4, <4>1
    <3>6. Joined(t) = Append(before, c)
      <4>1. Joined(t) = before \o <<Slash>> \o <<>>
        BY <2>1, <3>1, JoinedMore
      <4>2. before \o <<Slash>> \in Seq(Character)
        BY <2>3, MarksAreCharacters
      <4>3. before \o <<Slash>> \o <<>> = before \o <<Slash>>
        BY <4>2, ConcatEmptySeq
      <4> QED BY <2>2, <2>3, <2>7, <4>1, <4>3, AppendIsConcat
    <3> HIDE DEF Free, before
    <3>7. Ok(n, t)
      BY <2>3, <2>6, <3>2, <3>3, <3>4, <3>5, <3>6
    <3> QED BY <3>7 DEF t
  <2>8. CASE c # Slash
    <3> DEFINE long == Append(s[L], c)
    <3>1. /\ t = [s EXCEPT ![L] = long] /\ long \in Seq(Character)
          /\ Len(long) = Len(s[L]) + 1 /\ long # <<>>
          /\ \A m \in 1..Len(s[L]) : long[m] = s[L][m]
          /\ long[Len(s[L]) + 1] = c
      <4>1. s[L] \in Seq(Character)
        BY <2>2
      <4>2. t = [s EXCEPT ![L] = long]
        BY <2>0, <2>8
      <4> QED BY <2>2, <4>1, <4>2, AppendProperties
    <3> HIDE DEF long
    <3>2. /\ t \in Seq(Seq(Character)) /\ Len(t) = L
          /\ \A k \in 1..L : t[k] = IF k = L THEN long ELSE s[k]
      BY <2>1, <2>2, <3>1, ExceptSeq
    <3>3. t # <<>>
      BY <2>2, <3>2
    <3>4. Free(t)
      <4> SUFFICES ASSUME NEW k \in 1..L, NEW m \in 1..Len(t[k])
                   PROVE  t[k][m] # Slash
        BY <3>2
      <4>1. CASE k = L
        <5>1. t[k] = long /\ Len(s[L]) \in Nat
          BY <2>2, <3>2, <4>1
        <5>2. m \in 1..Len(s[L]) \/ m = Len(s[L]) + 1
          BY <3>1, <5>1
        <5>3. m \in 1..Len(s[L]) => s[L][m] # Slash
          BY <2>1, <2>2
        <5> QED BY <2>8, <3>1, <5>1, <5>2, <5>3
      <4>2. CASE k # L
        BY <2>1, <3>2, <4>2
      <4> QED BY <4>1, <4>2
    <3>5. Len(t) > 1 <=> \E i \in 1..n : text[i] = Slash
      <4>1. text[n] # Slash
        BY <2>8 DEF c
      <4> QED BY <2>1, <2>4, <2>5, <3>2, <4>1
    <3>6. t[1] = <<>> => text[1] = Slash
      <4>1. CASE L = 1
        BY <2>2, <3>1, <3>2, <4>1
      <4>2. CASE L # 1
        <5>1. L > 1 /\ t[1] = s[1]
          BY <2>2, <3>2, <4>2
        <5>2. n - 1 = 0 => 1..(n - 1) = {}
          OBVIOUS
        <5> QED BY <2>1, <5>1, <5>2
      <4> QED BY <4>1, <4>2
    <3>7. t[Len(t)] # <<>>
      BY <2>2, <3>1, <3>2
    <3>8. Joined(t) = Append(before, c)
      <4>1. Joined([s EXCEPT ![L] = Append(@, c)]) = Append(Joined(s), c)
        BY <2>1, <2>2, JoinedLonger
      <4>2. t = [s EXCEPT ![L] = Append(@, c)]
        BY <2>0, <2>8
      <4> QED BY <2>1, <4>1, <4>2
    <3> HIDE DEF Free, before
    <3>9. Ok(n, t)
      BY <2>3, <2>6, <3>2, <3>3, <3>4, <3>5, <3>6, <3>7, <3>8
    <3> QED BY <3>9 DEF t
  <2> QED BY <2>7, <2>8
<1> DEFINE T == {n \in 0..N : Ok(n, run[n])}
<1> HIDE DEF Ok
<1>5. 0..N \subseteq T
  <2>1. 0 \in T
    BY <1>1, <1>3
  <2>2. \A n \in 1..N : n - 1 \in T => n \in T
    BY <1>1, <1>4
  <2> HIDE DEF T
  <2>3. N \in Nat
    BY <1>1
  <2> QED BY <2>1, <2>2, <2>3, InductionUpTo
<1>6. Ok(N, Split(text))
  <2>1. N \in 0..N
    BY <1>1
  <2>2. Split(text) = run[N]
    BY <1>2 DEF RunsSplit
  <2> QED BY <1>5, <2>1, <2>2
<1> DEFINE segs == Split(text)
<1> HIDE DEF segs
<1>7. /\ segs \in Seq(Seq(Character)) /\ segs # <<>> /\ Free(segs)
      /\ Len(segs) > 1 <=> \E i \in 1..N : text[i] = Slash
      /\ segs[1] = <<>> => N = 0 \/ text[1] = Slash
      /\ segs[Len(segs)] = <<>> => N = 0 \/ text[N] = Slash
      /\ Joined(segs) = SubSeq(text, 1, N)
  BY <1>6 DEF Ok, segs
<1>8. \A seg \in ToSet(segs) : Slash \notin ToSet(seg)
  <2> SUFFICES ASSUME NEW k \in DOMAIN segs, NEW m \in DOMAIN segs[k]
               PROVE  segs[k][m] # Slash
    BY DEF ToSet
  <2>1. k \in 1..Len(segs) /\ segs[k] \in Seq(Character)
    BY <1>7
  <2>2. m \in 1..Len(segs[k])
    BY <2>1
  <2> QED BY <1>7, <2>1, <2>2
<1>9. Slash \in ToSet(text) <=> \E i \in 1..N : text[i] = Slash
  BY <1>1 DEF ToSet
<1>10. Head(segs) = segs[1] /\ Head(text) = text[1] /\ N # 0
  BY <1>1, <1>7
<1>11. SubSeq(text, 1, N) = text
  BY SubSeqFull
<1> HIDE DEF Free
<1> QED BY <1>7, <1>8, <1>9, <1>10, <1>11 DEF segs, Last

-----------------------------------------------------------------------------
(* What parse makes of a line. *)

LEMMA BeginsWith ==
    ASSUME NEW c \in Character, NEW text \in Seq(Character), Begins(text, c)
    PROVE  text = <<c>> \o Tail(text) /\ Tail(text) \in Seq(Character)
<1>1. text # <<>> /\ Head(text) = c /\ Tail(text) \in Seq(Character) /\ Len(text) \in Nat \ {0}
  BY DEF Begins
<1>2. /\ Len(<<c>> \o Tail(text)) = Len(text) /\ <<c>> \o Tail(text) \in Seq(Character)
      /\ \A i \in 1..Len(text) : text[i] = (<<c>> \o Tail(text))[i]
  BY <1>1
<1> QED BY <1>1, <1>2, SeqEqual

LEMMA EndsWith ==
    ASSUME NEW c \in Character, NEW text \in Seq(Character), Ends(text, c)
    PROVE  text = Front(text) \o <<c>> /\ Front(text) \in Seq(Character)
<1>1. text # <<>> /\ text[Len(text)] = c /\ Len(text) \in Nat \ {0}
      /\ 1 \in 1..Len(text) /\ Len(text) \in 1..Len(text)
  BY DEF Ends, Last
<1>2. SubSeq(text, 1, Len(text)) = Front(text) \o <<c>>
  BY <1>1, SubSeqRecursiveSecond DEF Front
<1>3. Front(text) \in Seq(Character)
  BY <1>1 DEF Front
<1> QED BY <1>2, <1>3, SubSeqFull

Mark(on, c) == IF on THEN <<c>> ELSE <<>>

LEMMA ParseMeans ==
    ASSUME NEW line \in Seq(Character), Parse(line) # <<>>
    PROVE  \E p \in Pattern : /\ Parse(line) = <<p>>
                              /\ p.raw = line /\ p.segs # <<>> /\ Says(p, line)
<1> DEFINE trimmed == TrimRight(line)
           negate == Begins(trimmed, Bang)
           body == IF negate THEN Tail(trimmed) ELSE trimmed
           dirOnly == Ends(body, Slash)
           stem == IF dirOnly THEN Front(body) ELSE body
           lead == Begins(stem, Slash)
           rest == IF lead THEN Tail(stem) ELSE stem
           anchored == Slash \in ToSet(stem)
           segs == Split(rest)
           p == [raw |-> line, negate |-> negate, dirOnly |-> dirOnly,
                 anchored |-> anchored, segs |-> segs]
<1>1. rest # <<>> /\ Parse(line) = <<p>>
  BY DEF Parse
<1>2. trimmed \in Seq(Character)
  BY TrimmedType
<1> HIDE DEF trimmed
<1>3. body \in Seq(Character) /\ trimmed = Mark(negate, Bang) \o body
  <2>1. CASE negate
    BY <1>2, <2>1, BeginsWith, MarksAreCharacters DEF Mark
  <2>2. CASE ~negate
    BY <1>2, <2>2, ConcatEmptySeq DEF Mark
  <2> QED BY <2>1, <2>2
<1>4. negate \in BOOLEAN
  BY DEF Begins
<1>5. ~negate => ~Begins(trimmed, Bang)
  OBVIOUS
<1> HIDE DEF negate, body
<1>6. stem \in Seq(Character) /\ body = stem \o Mark(dirOnly, Slash)
  <2>1. CASE dirOnly
    BY <1>3, <2>1, EndsWith, MarksAreCharacters DEF Mark
  <2>2. CASE ~dirOnly
    BY <1>3, <2>2, ConcatEmptySeq DEF Mark
  <2> QED BY <2>1, <2>2
<1>7. dirOnly \in BOOLEAN /\ (~dirOnly => stem = body /\ ~Ends(body, Slash))
  BY DEF Ends
<1> HIDE DEF dirOnly, stem
<1>8. rest \in Seq(Character) /\ stem = Mark(lead, Slash) \o rest
  <2>1. CASE lead
    BY <1>6, <2>1, BeginsWith, MarksAreCharacters DEF Mark
  <2>2. CASE ~lead
    BY <1>6, <2>2, ConcatEmptySeq DEF Mark
  <2> QED BY <2>1, <2>2
<1>9. lead \in BOOLEAN /\ (~lead => rest = stem /\ ~Begins(stem, Slash))
      /\ (lead => stem # <<>> /\ Head(stem) = Slash /\ rest = Tail(stem))
  BY DEF Begins
<1> HIDE DEF lead, rest
<1>10. /\ segs \in Seq(Seq(Character)) /\ segs # <<>>
       /\ \A seg \in ToSet(segs) : Slash \notin ToSet(seg)
       /\ Len(segs) > 1 <=> Slash \in ToSet(rest)
       /\ Head(segs) = <<>> => Head(rest) = Slash
       /\ Last(segs) = <<>> => Last(rest) = Slash
       /\ Joined(segs) = rest
  BY <1>1, <1>8, SplitMeans
<1> HIDE DEF segs
<1>11. lead \/ Len(segs) > 1 <=> anchored
  <2>1. CASE lead
    <3>1. 1 \in DOMAIN stem /\ stem[1] = Slash
      BY <1>6, <1>9, <2>1
    <3> QED BY <2>1, <3>1 DEF ToSet
  <2>2. CASE ~lead
    BY <1>9, <1>10, <2>2
  <2> QED BY <2>1, <2>2
<1>12. Head(segs) = <<>> => lead
  BY <1>1, <1>9, <1>10 DEF Begins
<1>13. Last(segs) = <<>> => dirOnly
  <2> SUFFICES ASSUME Last(rest) = Slash, ~dirOnly PROVE FALSE
    BY <1>10, <1>7
  <2>1. Last(stem) = Last(rest) /\ stem # <<>>
    <3>1. CASE lead
      <4>1. stem # <<>> /\ Tail(stem) # <<>>
        BY <1>1, <1>9, <3>1
      <4>2. Len(Tail(stem)) = Len(stem) - 1 /\ Len(Tail(stem)) \in 1..Len(Tail(stem))
            /\ \A i \in 1..Len(Tail(stem)) : Tail(stem)[i] = stem[i + 1]
        <5>1. Tail(stem) \in Seq(Character)
          BY <1>6, <4>1
        <5> QED BY <1>6, <4>1, <5>1, HeadTailProperties
      <4>3. Len(Tail(stem)) + 1 = Len(stem)
        BY <1>6, <4>2
      <4>4. Tail(stem)[Len(Tail(stem))] = stem[Len(stem)]
        BY <4>2, <4>3
      <4> QED BY <1>9, <3>1, <4>1, <4>4 DEF Last
    <3>2. CASE ~lead
      BY <1>1, <1>9, <3>2
    <3> QED BY <1>9, <3>1, <3>2
  <2> QED BY <1>7, <2>1 DEF Ends
<1>14. trimmed = Mark(negate, Bang) \o Mark(lead, Slash) \o Joined(segs) \o Mark(dirOnly, Slash)
  <2> DEFINE A == Mark(negate, Bang)
             B == Mark(lead, Slash)
             D == Mark(dirOnly, Slash)
  <2>1. A \in Seq(Character) /\ B \in Seq(Character) /\ D \in Seq(Character)
    <3>1. <<Bang>> \in Seq(Character) /\ <<Slash>> \in Seq(Character) /\ <<>> \in Seq(Character)
      BY MarksAreCharacters
    <3> QED BY <3>1, Zenon DEF Mark
  <2>2. trimmed = A \o ((B \o rest) \o D)
    BY <1>3, <1>6, <1>8
  <2> HIDE DEF A, B, D
  <2>3. B \o rest \in Seq(Character)
    BY <1>8, <2>1, ConcatProperties
  <2>4. (A \o (B \o rest)) \o D = A \o ((B \o rest) \o D)
    BY ONLY <2>1, <2>3, Associative, Zenon
  <2>5. (A \o B) \o rest = A \o (B \o rest)
    BY ONLY <1>8, <2>1, Associative, Zenon
  <2>6. trimmed = ((A \o B) \o rest) \o D
    BY <2>2, <2>4, <2>5
  <2> QED BY <1>10, <2>6 DEF A, B, D
<1> HIDE DEF anchored
<1>15. anchored \in BOOLEAN
  BY DEF anchored
<1>16. p \in Pattern /\ p.raw = line /\ p.segs = segs
       /\ p.negate = negate /\ p.dirOnly = dirOnly /\ p.anchored = anchored
  BY <1>4, <1>7, <1>10, <1>15 DEF Pattern
<1> HIDE DEF p
<1>17. Says(p, line)
  <2>1. trimmed = (IF negate THEN <<Bang>> ELSE <<>>) \o (IF lead THEN <<Slash>> ELSE <<>>)
                  \o Joined(segs) \o (IF dirOnly THEN <<Slash>> ELSE <<>>)
    BY <1>14 DEF Mark
  <2> QED BY <1>5, <1>9, <1>10, <1>11, <1>12, <1>13, <1>16, <2>1 DEF Says, trimmed
<1> QED BY <1>1, <1>10, <1>16, <1>17

\* The first of the default patterns: a directory of the name .undo, anywhere.
Default(p) ==
    /\ p.raw = StoreLine /\ p.segs = <<Undo>>
    /\ p.dirOnly /\ ~p.anchored /\ ~p.negate

LEMMA ParseDefault == \E p : Parse(StoreLine) = <<p>> /\ Default(p)
<1> DEFINE L == Len(Undo)
<1>1. /\ Undo \in Seq(Alphabet) /\ Undo \in Seq(Character) /\ Undo # <<>>
      /\ L \in Nat \ {0} /\ \A i \in 1..L : Undo[i] \in Alphabet
  BY IgnoreAssumption, MarksAreCharacters
<1>2. /\ StoreLine \in Seq(Character) /\ Len(StoreLine) = L + 1
      /\ \A i \in 1..L : StoreLine[i] = Undo[i]
      /\ StoreLine[L + 1] = Slash
  BY <1>1, MarksAreCharacters DEF StoreLine
<1>3. TrimRight(StoreLine) = StoreLine
  <2>1. PICK k \in 0..(L + 1) : /\ TrimRight(StoreLine) = SubSeq(StoreLine, 1, k)
                                /\ \A i \in (k + 1)..(L + 1) : StoreLine[i] = Blank
    BY <1>2, Trimmed
  <2>2. k = L + 1
    <3>1. L + 1 \notin (k + 1)..(L + 1)
      BY <1>2, <2>1, Marks
    <3> QED BY <1>1, <3>1
  <2> QED BY <1>2, <2>1, <2>2, SubSeqFull
<1>4. Head(StoreLine) \in Alphabet /\ StoreLine # <<>> /\ Head(Undo) \in Alphabet
  BY <1>1, <1>2
<1>5. ~Begins(StoreLine, Bang) /\ ~Begins(StoreLine, Hash) /\ ~Begins(Undo, Slash)
  BY <1>4, Marks DEF Begins
<1>6. Ends(StoreLine, Slash)
  BY <1>2, <1>4 DEF Ends, Last
<1>7. Front(StoreLine) = Undo
  <2>1. /\ Front(StoreLine) \in Seq(Character) /\ Len(Front(StoreLine)) = L
        /\ \A i \in 1..L : Front(StoreLine)[i] = StoreLine[i]
    BY <1>1, <1>2 DEF Front
  <2> QED BY <1>1, <1>2, <2>1, SeqEqual
<1>8. Slash \notin ToSet(Undo)
  BY <1>1, Marks DEF ToSet
<1>9. Split(Undo) = <<Undo>>
  <2> DEFINE segs == Split(Undo)
  <2>1. /\ segs \in Seq(Seq(Character)) /\ segs # <<>> /\ ~(Len(segs) > 1)
        /\ Joined(segs) = Undo
    BY <1>1, <1>8, SplitMeans
  <2> HIDE DEF segs
  <2>2. segs = <<segs[1]>> /\ segs[1] \in Seq(Character)
    <3>1. Len(segs) = 1 /\ segs[1] \in Seq(Character)
      <4>1. Len(segs) \in Nat \ {0}
        BY <2>1, EmptySeq
      <4>2. Len(segs) = 1 /\ 1 \in 1..Len(segs)
        <5> DEFINE n == Len(segs)
        <5>1. n \in Nat \ {0} /\ ~ (n > 1)
          BY <2>1, <4>1, Zenon
        <5> HIDE DEF n
        <5>2. n = 1
          BY ONLY <5>1
        <5> QED BY <5>2 DEF n
      <4> QED BY <2>1, <4>2, ElementOfSeq
    <3>2. <<segs[1]>> \in Seq(Seq(Character)) /\ Len(<<segs[1]>>) = 1
          /\ \A i \in 1..1 : segs[i] = <<segs[1]>>[i]
      BY <3>1
    <3> QED BY <2>1, <3>1, <3>2, SeqEqual
  <2>3. segs[1] = Undo
    BY <2>1, <2>2, JoinedOne
  <2> QED BY <2>2, <2>3 DEF segs
<1> DEFINE p == [raw |-> StoreLine, negate |-> FALSE, dirOnly |-> TRUE,
                 anchored |-> FALSE, segs |-> <<Undo>>]
<1>10. Parse(StoreLine) = <<p>>
  <2> DEFINE trimmed == TrimRight(StoreLine)
             negate == Begins(trimmed, Bang)
             body == IF negate THEN Tail(trimmed) ELSE trimmed
             dirOnly == Ends(body, Slash)
             stem == IF dirOnly THEN Front(body) ELSE body
             rest == IF Begins(stem, Slash) THEN Tail(stem) ELSE stem
             anchored == Slash \in ToSet(stem)
  <2>1. Parse(StoreLine) =
          IF Begins(trimmed, Hash) \/ rest = <<>>
          THEN <<>>
          ELSE <<[raw |-> StoreLine, negate |-> negate, dirOnly |-> dirOnly,
                  anchored |-> anchored, segs |-> Split(rest)]>>
    BY DEF Parse
  <2>2. negate = FALSE /\ body = StoreLine
    <3>1. negate = FALSE
      BY <1>3, <1>5 DEF Begins
    <3> QED BY <1>3, <3>1
  <2> HIDE DEF body
  <2>3. dirOnly = TRUE /\ stem = Undo
    <3>1. dirOnly = TRUE
      BY <1>6, <2>2 DEF Ends
    <3> QED BY <1>7, <2>2, <3>1
  <2> HIDE DEF stem
  <2>4. rest = Undo /\ anchored = FALSE /\ rest # <<>>
    BY <1>1, <1>5, <1>8, <2>3
  <2>5. ~Begins(trimmed, Hash)
    BY <1>3, <1>5
  <2> HIDE DEF rest, anchored, negate, dirOnly, trimmed
  <2> QED BY <1>9, <2>1, <2>2, <2>3, <2>4, <2>5
<1>11. Default(p)
  BY DEF Default
<1> QED BY <1>10, <1>11

-----------------------------------------------------------------------------
(* The theorems. *)

\* What holds of the rules after every line: they are typed, say what their
\* lines say, and begin with the default.
IInv ==
    /\ ITypeOK
    /\ LinesAreRead
    /\ rules # <<>> /\ Default(rules[1])

LEMMA InvInit == IInit => IInv
<1> SUFFICES ASSUME IInit PROVE IInv
  OBVIOUS
<1>1. PICK d : Parse(StoreLine) = <<d>> /\ Default(d)
  BY ParseDefault
<1>2. StoreLine \in Seq(Character)
  BY IgnoreAssumption, MarksAreCharacters DEF StoreLine
<1>3. PICK p \in Pattern : /\ Parse(StoreLine) = <<p>>
                           /\ p.raw = StoreLine /\ p.segs # <<>> /\ Says(p, StoreLine)
  <2>1. Parse(StoreLine) # <<>>
    BY <1>1
  <2> QED BY <1>2, <2>1, ParseMeans
<1>4. p = d
  BY <1>1, <1>3
<1>5. rules = <<p>>
  BY <1>3 DEF IInit
<1>6. rules \in Seq(Pattern) /\ Len(rules) = 1 /\ rules[1] = p /\ DOMAIN rules = {1}
      /\ rules # <<>>
  BY <1>5
<1>7. Len(rules) <= MaxRules
  BY <1>6, IgnoreAssumption
<1> QED BY <1>1, <1>3, <1>4, <1>6, <1>7 DEF IInv, ITypeOK, LinesAreRead

LEMMA InvNext == IInv /\ [INext]_rules => IInv'
<1> SUFFICES ASSUME IInv, [INext]_rules PROVE IInv'
  OBVIOUS
<1> USE DEF IInv, ITypeOK, LinesAreRead
<1>1. CASE UNCHANGED rules
  BY <1>1 DEF Default
<1>2. ASSUME NEW line \in Lines, AddLine(line)
      PROVE  IInv'
  <2>1. line \in Seq(Character)
    BY IgnoreAssumption
  <2>2. CASE Parse(line) = <<>>
    <3>1. rules' = rules
      BY <1>2, <2>2, ConcatEmptySeq DEF AddLine
    <3> QED BY <3>1 DEF Default
  <2>3. CASE Parse(line) # <<>>
    <3>1. PICK p \in Pattern : /\ Parse(line) = <<p>>
                               /\ p.raw = line /\ p.segs # <<>> /\ Says(p, line)
      BY <2>1, <2>3, ParseMeans
    <3>2. rules' = Append(rules, p)
      BY <1>2, <3>1, AppendIsConcat DEF AddLine
    <3>3. /\ rules' \in Seq(Pattern) /\ Len(rules') = Len(rules) + 1
          /\ \A i \in 1..Len(rules) : rules'[i] = rules[i]
          /\ rules'[Len(rules) + 1] = p /\ rules' # <<>>
      BY <3>2, AppendProperties
    <3>4. Len(rules) \in Nat \ {0} /\ DOMAIN rules = 1..Len(rules)
          /\ DOMAIN rules' = 1..(Len(rules) + 1) /\ 1 \in 1..Len(rules)
      BY <3>3
    <3>5. Len(rules') <= MaxRules
      <4>1. Len(rules) < MaxRules
        BY <1>2 DEF AddLine
      <4>2. MaxRules \in Nat
        BY IgnoreAssumption
      <4> QED BY <3>3, <3>4, <4>1, <4>2
    <3>6. \A i \in 1..(Len(rules) + 1) : i \in 1..Len(rules) \/ i = Len(rules) + 1
      BY <3>4
    <3>7. \A i \in DOMAIN rules' : rules'[i].segs # <<>> /\ Says(rules'[i], rules'[i].raw)
      BY <3>1, <3>3, <3>4, <3>6
    <3>8. rules'[1] = rules[1]
      BY <3>3, <3>4
    <3>9. ITypeOK'
      BY <3>3, <3>5, <3>7, <3>8
    <3>10. LinesAreRead'
      BY <3>7
    <3> QED BY <3>3, <3>8, <3>9, <3>10 DEF Default
  <2> QED BY <2>2, <2>3
<1> QED BY <1>1, <1>2 DEF INext

LEMMA Invariance == ISpec => []IInv
BY InvInit, InvNext, PTL DEF ISpec

\* Every line becomes one rule or none, with segments, and nothing comes before
\* the default (ignore.go:54-69, 94-123).
THEOREM TypeCorrect == ISpec => []ITypeOK
<1>1. IInv => ITypeOK
  BY DEF IInv
<1> QED BY <1>1, Invariance, PTL

\* The segments and the marks of every rule are those of its line, for lines of
\* every length (ignore.go:94-123).
THEOREM LinesMean == ISpec => []LinesAreRead
<1>1. IInv => LinesAreRead
  BY DEF IInv
<1> QED BY <1>1, Invariance, PTL

LEMMA PathType ==
    ASSUME NEW path \in Paths
    PROVE  path \in Seq(Seq(Alphabet)) /\ path \in Seq(Names) /\ path # <<>>
           /\ Len(path) \in Nat \ {0} /\ DOMAIN path = 1..Len(path)
<1>1. PICK n \in 1..MaxDepth : path \in [1..n -> Names]
  BY DEF Paths
<1>2. n \in Nat \ {0} /\ Names \subseteq Seq(Alphabet)
  BY <1>1, IgnoreAssumption
<1> QED BY <1>1, <1>2

\* The last rule that excludes the path decides, in the words of MatchIsReference.
LEMMA InvDecides ==
    ASSUME IInv, NEW path \in Paths, NEW isDir \in BOOLEAN
    PROVE  /\ Match(path, isDir) <=> Decided(Len(rules), path, isDir)
           /\ Len(rules) \in Nat \ {0} /\ DOMAIN rules = 1..Len(rules)
           /\ \A i \in DOMAIN rules : rules[i] \in Pattern
<1>1. rules \in Seq(Pattern) /\ rules # <<>> /\ \A i \in DOMAIN rules : rules[i].segs # <<>>
  BY DEF IInv, ITypeOK
<1>2. Match(path, isDir) <=> Decided(Len(rules), path, isDir)
  BY <1>1, PathType, MatchMeans
<1> QED BY <1>1, <1>2

\* If a rule excludes the path, the last that does decides.
LEMMA SomeDecides ==
    ASSUME IInv, NEW path \in Paths, NEW isDir \in BOOLEAN,
           NEW m \in DOMAIN rules, Excludes(rules[m], path, isDir),
           \A i \in DOMAIN rules : Excludes(rules[i], path, isDir) => ~rules[i].negate
    PROVE  Match(path, isDir)
<1> DEFINE N == Len(rules)
           S == {i \in 1..N : Excludes(rules[i], path, isDir)}
<1>1. N \in Nat /\ DOMAIN rules = 1..N
  BY InvDecides
<1>2. PICK k \in S : \A i \in S : i <= k
  <2>1. S \in SUBSET (0..N) /\ S # {}
    BY <1>1
  <2> HIDE DEF S
  <2> QED BY <1>1, <2>1, MaxIsLast
<1>3. \A j \in (k + 1)..N : ~Excludes(rules[j], path, isDir)
  <2> SUFFICES ASSUME NEW j \in (k + 1)..N, Excludes(rules[j], path, isDir)
               PROVE  FALSE
    OBVIOUS
  <2>1. k \in 1..N /\ j \in 1..N /\ ~(j <= k)
    BY <1>1
  <2>2. j \in S
    BY <2>1
  <2> QED BY <1>2, <2>1, <2>2
<1>4. Decided(N, path, isDir)
  BY <1>1, <1>2, <1>3 DEF Decided
<1> QED BY <1>4, InvDecides

\* The recursive matcher decides as the meaning of the lines does, for paths and
\* lists of rules of every length (ignore.go:128-212): that the first split of a
\* `**` ends early if any split does (EarlyEnds) is what makes its exactness do.
THEOREM MatchesAsLinesMean == ISpec => []MatchIsReference
<1>1. IInv => MatchIsReference
  <2> SUFFICES ASSUME IInv, NEW path \in Paths, NEW isDir \in BOOLEAN
               PROVE  Match(path, isDir) <=>
                        \E i \in DOMAIN rules :
                            /\ Excludes(rules[i], path, isDir)
                            /\ ~rules[i].negate
                            /\ \A j \in (i + 1)..Len(rules) :
                                 ~Excludes(rules[j], path, isDir)
    BY DEF MatchIsReference
  <2>1. /\ Match(path, isDir) <=> Decided(Len(rules), path, isDir)
        /\ DOMAIN rules = 1..Len(rules)
    BY InvDecides
  <2> QED BY <2>1 DEF Decided
<1> QED BY <1>1, Invariance, PTL

LEMMA ExcludesBeneath ==
    ASSUME NEW p, NEW path \in Paths, NEW n \in 1..(Len(path) - 1),
           NEW isDir \in BOOLEAN, Excludes(p, SubSeq(path, 1, n), TRUE)
    PROVE  Excludes(p, path, isDir)
<1>1. Len(path) \in Nat /\ path \in Seq(Names) /\ n < Len(path) /\ n \in Nat
  BY PathType
<1>2. Len(SubSeq(path, 1, n)) = n
  BY <1>1
<1>3. PICK m \in 0..n : Covers(p.segs, SubSeq(SubSeq(path, 1, n), 1, m),
                               IF p.anchored THEN {0} ELSE 0..m)
  BY <1>2 DEF Excludes
<1>4. SubSeq(SubSeq(path, 1, n), 1, m) = SubSeq(path, 1, m)
  <2> DEFINE a == SubSeq(path, 1, n)
             b == SubSeq(a, 1, m)
             c == SubSeq(path, 1, m)
  <2>1. a \in Seq(Names) /\ Len(a) = n /\ \A i \in 1..n : a[i] = path[i]
    BY <1>1
  <2> HIDE DEF a
  <2>2. b \in Seq(Names) /\ Len(b) = m /\ \A i \in 1..m : b[i] = a[i]
    BY <1>1, <2>1
  <2>3. c \in Seq(Names) /\ Len(c) = m /\ \A i \in 1..m : c[i] = path[i]
    BY <1>1
  <2>4. \A i \in 1..m : i \in 1..n
    BY <1>1
  <2> HIDE DEF b, c
  <2>5. b = c
    BY <2>1, <2>2, <2>3, <2>4, SeqEqual
  <2> QED BY <2>5 DEF a, b, c
<1>5. m \in 0..Len(path) /\ m < Len(path)
  BY <1>1
<1> QED BY <1>3, <1>4, <1>5 DEF Excludes

\* Without re-inclusions what is in an ignored directory is ignored when it is
\* asked for by itself, at every depth (ignore.go:143-181).
THEOREM IgnoredBeneath == ISpec => []BeneathIgnored
<1>1. IInv => BeneathIgnored
  <2> SUFFICES ASSUME IInv, \A i \in DOMAIN rules : ~rules[i].negate,
                      NEW path \in Paths, NEW n \in 1..(Len(path) - 1),
                      Match(SubSeq(path, 1, n), TRUE), NEW isDir \in BOOLEAN
               PROVE  Match(path, isDir)
    BY DEF BeneathIgnored
  <2>1. SubSeq(path, 1, n) \in Paths
    <3>1. PICK d \in 1..MaxDepth : path \in [1..d -> Names]
      BY DEF Paths
    <3>2. d \in Nat /\ Len(path) = d /\ n \in 1..MaxDepth /\ n <= d
      BY <3>1, IgnoreAssumption
    <3>3. SubSeq(path, 1, n) \in [1..n -> Names]
      <4>1. SubSeq(path, 1, n) \in Seq(Names) /\ Len(SubSeq(path, 1, n)) = n
        BY <3>2, PathType
      <4> QED BY <4>1, LenProperties
    <3> QED BY <3>2, <3>3 DEF Paths
  <2>2. Decided(Len(rules), SubSeq(path, 1, n), TRUE) /\ DOMAIN rules = 1..Len(rules)
    BY <2>1, InvDecides
  <2>3. PICK i \in DOMAIN rules : Excludes(rules[i], SubSeq(path, 1, n), TRUE)
    BY <2>2 DEF Decided
  <2>4. Excludes(rules[i], path, isDir)
    BY <2>3, ExcludesBeneath
  <2> QED BY <2>4, SomeDecides
<1> QED BY <1>1, Invariance, PTL

\* The default excludes the directory .undo, wherever it is, and all it holds.
LEMMA DefaultExcludes ==
    ASSUME NEW p, Default(p), NEW path \in Paths, NEW isDir \in BOOLEAN,
           NEW n \in DOMAIN path, path[n] = Undo, n < Len(path) \/ isDir
    PROVE  Excludes(p, path, isDir)
<1>1. /\ path \in Seq(Seq(Alphabet)) /\ Len(path) \in Nat /\ n \in 1..Len(path)
      /\ Undo \in Seq(Alphabet) /\ Undo \in Seq(Character) /\ Len(Undo) \in Nat
      /\ \A i \in 1..Len(Undo) : Undo[i] \in Alphabet
  BY PathType, IgnoreAssumption, MarksAreCharacters
<1>2. Globs(Undo, Undo)
  <2> DEFINE cut == [i \in 0..Len(Undo) |-> i]
  <2>1. /\ cut \in [0..Len(Undo) -> 0..Len(Undo)] /\ cut[0] = 0
        /\ cut[Len(Undo)] = Len(Undo)
    BY <1>1
  <2>2. ASSUME NEW i \in DOMAIN Undo
        PROVE  /\ Undo[i] # Star /\ cut[i] = cut[i - 1] + 1
               /\ Undo[i] \in {One, Undo[cut[i]]}
    BY <1>1, Marks
  <2>3. \A i \in DOMAIN Undo :
           IF Undo[i] = Star
           THEN cut[i - 1] <= cut[i]
           ELSE cut[i] = cut[i - 1] + 1 /\ Undo[i] \in {One, Undo[cut[i]]}
    BY <2>2
  <2> HIDE DEF cut
  <2> QED BY <2>1, <2>3 DEF Globs
<1>3. MatchSegment(Undo, Undo)
  BY <1>1, <1>2, SegmentMeans
<1>4. Undo # Deep
  <2>1. Undo # <<>>
    BY IgnoreAssumption
  <2>2. Undo[1] # Star
    BY <1>1, <2>1, Marks
  <2> QED BY <2>2 DEF Deep
<1>5. Covers(<<Undo>>, SubSeq(path, 1, n), 0..n)
  <2> DEFINE name == SubSeq(path, 1, n)
             cut == [i \in 1..(Len(<<Undo>>) + 1) |-> IF i = 1 THEN n - 1 ELSE n]
  <2>1. Len(name) = n /\ name[n] = Undo
    BY <1>1
  <2>2. Len(<<Undo>>) = 1 /\ DOMAIN <<Undo>> = {1} /\ <<Undo>>[1] = Undo
    OBVIOUS
  <2>3. cut \in [1..(Len(<<Undo>>) + 1) -> 0..n] /\ cut[1] = n - 1 /\ cut[1 + 1] = n
    BY <1>1, <2>2
  <2>4. n - 1 \in 0..n /\ (n - 1) + 1 = n
    BY <1>1
  <2> HIDE DEF name, cut
  <2>5. Covers(<<Undo>>, name, 0..n)
    BY <1>3, <1>4, <2>1, <2>2, <2>3, <2>4 DEF Covers
  <2> QED BY <2>5 DEF name
<1>6. n \in 0..Len(path)
  BY <1>1
<1> QED BY <1>5, <1>6 DEF Excludes, Default

\* Nothing of the store gets into a snapshot but what a re-inclusion covers,
\* whatever lines a user adds (ignore.go:66).
THEOREM StoreIsOut == ISpec => []StoreStaysOut
<1>1. IInv => StoreStaysOut
  <2> SUFFICES ASSUME IInv, NEW path \in Paths, NEW isDir \in BOOLEAN,
                      NEW n \in DOMAIN path, path[n] = Undo, n < Len(path) \/ isDir,
                      ~ \E i \in DOMAIN rules :
                            rules[i].negate /\ Excludes(rules[i], path, isDir)
               PROVE  Match(path, isDir)
    BY DEF StoreStaysOut
  <2>1. 1 \in DOMAIN rules
    BY InvDecides
  <2>2. Excludes(rules[1], path, isDir)
    BY DefaultExcludes DEF IInv
  <2> QED BY <2>1, <2>2, SomeDecides
<1> QED BY <1>1, Invariance, PTL

\* Whatever the lines, it takes a re-inclusion for directories only to make the
\* watcher drop the events of a directory that the walks enter: the last rule
\* that decides for the directory comes after those that decide for its path
\* as a file's (ignore.go:128-169, watch.go:97-104).
THEOREM MutedIsReincluded == ISpec => []MutedByReinclusion
<1>1. IInv => MutedByReinclusion
  <2> SUFFICES ASSUME IInv, NEW path \in Paths,
                      Match(path, FALSE), ~Match(path, TRUE)
               PROVE  \E i \in DOMAIN rules :
                        /\ rules[i].negate /\ rules[i].dirOnly
                        /\ Excludes(rules[i], path, TRUE)
                        /\ ~Excludes(rules[i], path, FALSE)
    BY DEF MutedByReinclusion
  <2> DEFINE N == Len(rules)
             S == {j \in 1..N : Excludes(rules[j], path, TRUE)}
  <2>1. /\ Decided(N, path, FALSE) /\ ~Decided(N, path, TRUE)
        /\ N \in Nat /\ DOMAIN rules = 1..N
    BY InvDecides
  <2>2. PICK i \in 1..N : /\ Excludes(rules[i], path, FALSE)
                          /\ ~rules[i].negate
                          /\ \A j \in (i + 1)..N :
                               ~Excludes(rules[j], path, FALSE)
    BY <2>1 DEF Decided
  <2>3. \A j \in 1..N : Excludes(rules[j], path, FALSE)
                       => Excludes(rules[j], path, TRUE)
    BY DEF Excludes
  <2>4. PICK k \in S : \A j \in S : j <= k
    <3>1. Excludes(rules[i], path, TRUE)
      BY <2>2, <2>3
    <3>2. S # {} /\ S \subseteq 1..N
      BY <3>1
    <3>3. \A n \in Nat : 1..n \in SUBSET (0..n)
      OBVIOUS
    <3> HIDE DEF S, N
    <3>4. S \in SUBSET (0..N)
      BY <2>1, <3>2, <3>3
    <3> QED BY <2>1, <3>2, <3>4, MaxIsLast
  <2>5. k \in 1..N /\ i <= k /\ Excludes(rules[k], path, TRUE)
    BY <2>2, <2>3, <2>4
  <2>6. \A j \in (k + 1)..N : ~Excludes(rules[j], path, TRUE)
    <3> SUFFICES ASSUME NEW j \in (k + 1)..N, Excludes(rules[j], path, TRUE)
                 PROVE  FALSE
      OBVIOUS
    <3>1. j \in 1..N /\ ~(j <= k)
      BY <2>1, <2>5
    <3>2. j \in S
      BY <3>1
    <3> QED BY <2>4, <3>1, <3>2
  <2>7. rules[k].negate
    BY <2>1, <2>5, <2>6 DEF Decided
  <2>8. k \in (i + 1)..N
    BY <2>1, <2>2, <2>5, <2>7
  <2>9. ~Excludes(rules[k], path, FALSE)
    BY <2>2, <2>8
  <2>10. rules[k].dirOnly
    BY <2>5, <2>9 DEF Excludes
  <2> QED BY <2>1, <2>5, <2>7, <2>9, <2>10
<1> QED BY <1>1, Invariance, PTL
===============================================================================
