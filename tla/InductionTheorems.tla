--------------------------- MODULE InductionTheorems ---------------------------
(***************************************************************************)
(* Induction over the naturals for a set instead of a predicate, and what  *)
(* it gives: a value for every fold over a sequence and for every function *)
(* that is defined by recursion on a number.  It follows from the order of *)
(* the finite sets of naturals being well-founded.                         *)
(***************************************************************************)
EXTENDS Integers, SequencesExt, FiniteSetTheorems, TLAPS

\* A set of naturals has a least one.
LEMMA Least ==
    ASSUME NEW T, T \subseteq Nat, T # {}
    PROVE  \E x \in T : \A y \in T : x <= y
<1> DEFINE Below == {0..x : x \in T}
<1>1. Below \subseteq FiniteSubsetsOf(Nat) /\ Below # {}
  <2>1. \A x \in T : 0..x \subseteq Nat /\ IsFiniteSet(0..x)
    BY FS_Interval
  <2> QED BY <2>1 DEF FiniteSubsetsOf
<1>2. PICK I \in Below : \A J \in Below : <<J, I>> \notin StrictSubsetOrdering(Nat)
  <2> HIDE DEF Below
  <2> QED BY <1>1, FS_StrictSubsetOrderingWellFounded, WFMin
<1>3. PICK x \in T : I = 0..x
  OBVIOUS
<1>4. ASSUME NEW y \in T, y < x
      PROVE  <<0..y, 0..x>> \in StrictSubsetOrdering(Nat)
  <2>1. 0..y \subseteq 0..x /\ x \in 0..x /\ x \notin 0..y
    BY <1>4
  <2> QED BY <1>4, <2>1 DEF StrictSubsetOrdering
<1>5. \A y \in T : ~ (y < x)
  BY <1>2, <1>3, <1>4
<1> QED BY <1>5

\* What has 0, and with every natural the next, has them all.
LEMMA Induction ==
    ASSUME NEW T, 0 \in T, \A n \in Nat \cap T : n + 1 \in T
    PROVE  Nat \subseteq T
<1> SUFFICES ASSUME Nat \ T # {} PROVE FALSE
  OBVIOUS
<1>1. PICK x \in Nat \ T : \A y \in Nat \ T : x <= y
  BY Least
<1>2. x # 0 /\ x - 1 \in Nat /\ x - 1 \notin T
  BY <1>1
<1> QED BY <1>1, <1>2

\* The same up to a bound.
LEMMA InductionUpTo ==
    ASSUME NEW N \in Nat, NEW T, 0 \in T, \A n \in 1..N : n - 1 \in T => n \in T
    PROVE  0..N \subseteq T
<1> DEFINE U == {n \in Nat : n <= N => n \in T}
<1>1. 0 \in U
  OBVIOUS
<1>2. \A n \in Nat \cap U : n + 1 \in U
  <2> SUFFICES ASSUME NEW n \in Nat, n <= N => n \in T, n + 1 <= N
               PROVE  n + 1 \in T
    OBVIOUS
  <2>1. n + 1 \in 1..N /\ (n + 1) - 1 = n /\ n \in T
    OBVIOUS
  <2> QED BY <2>1
<1> HIDE DEF U
<1>3. Nat \subseteq U
  BY <1>1, <1>2, Induction
<1> QED BY <1>3 DEF U

\* A bounded set of naturals has a last one.
LEMMA MaxIsLast ==
    ASSUME NEW N \in Nat, NEW S \in SUBSET (0..N), S # {}
    PROVE  Max(S) \in S /\ \A y \in S : y <= Max(S)
<1> DEFINE T == {N - x : x \in S}
<1>1. T \subseteq Nat /\ T # {}
  <2>1. \A x \in S : N - x \in Nat
    OBVIOUS
  <2> QED BY <2>1
<1>2. PICK d \in T : \A y \in T : d <= y
  <2> HIDE DEF T
  <2> QED BY <1>1, Least
<1>3. PICK x \in S : d = N - x
  OBVIOUS
<1>4. \A y \in S : x >= y
  <2> TAKE y \in S
  <2>1. d <= N - y
    BY <1>2
  <2> QED BY <1>3, <2>1
<1> QED BY <1>3, <1>4 DEF Max

\* The sets a fold comes by are the beginnings.
LEMMA Segments ==
    ASSUME NEW N \in Nat, NEW n \in 1..N
    PROVE  /\ Max(1..n) = n
           /\ (1..n) \ {n} = 1..(n - 1)
           /\ 1..n \in SUBSET (1..N)
           /\ 1..n # {}
<1>1. 1..n \in SUBSET (1..N) /\ n \in 1..n /\ (1..n) \ {n} = 1..(n - 1)
  OBVIOUS
<1>2. Max(1..n) \in 1..n /\ \A y \in 1..n : y <= Max(1..n)
  <2>1. 1..n \in SUBSET (0..N)
    BY <1>1
  <2> QED BY <1>1, <2>1, MaxIsLast, Zenon
<1>3. n <= Max(1..n)
  BY <1>1, <1>2, Zenon
<1>4. Max(1..n) = n
  BY <1>2, <1>3
<1> QED BY <1>1, <1>4

-----------------------------------------------------------------------------
(* A fold over a sequence is the last of a run of steps. *)

\* What FoldLeft chooses, for a step that is a function: it takes the value up
\* to the element before and the number of the element.
IsFold(iter, N, b, step) ==
    iter = [S \in SUBSET (1..N) |->
              IF S = {} THEN b ELSE step[<<iter[S \ {Max(S)}], Max(S)>>]]

\* There is such a function, with values in the set the steps stay in.
LEMMA FoldExists ==
    ASSUME NEW N \in Nat, NEW A, NEW b \in A, NEW step \in [A \X (1..N) -> A]
    PROVE  \E iter \in [SUBSET (1..N) -> A] : IsFold(iter, N, b, step)
<1> DEFINE Good(n, iter) ==
             iter = [S \in SUBSET (1..n) |->
                       IF S = {} THEN b
                       ELSE step[<<iter[S \ {Max(S)}], Max(S)>>]]
           Has(n) == n <= N => \E iter \in [SUBSET (1..n) -> A] : Good(n, iter)
           T == {n \in Nat : Has(n)}
<1>1. Has(0)
  <2> DEFINE iter == [S \in SUBSET (1..0) |-> b]
  <2>1. \A S \in SUBSET (1..0) : S = {}
    OBVIOUS
  <2>2. iter \in [SUBSET (1..0) -> A] /\ Good(0, iter)
    BY <2>1
  <2> HIDE DEF iter, Good
  <2> QED BY <2>2
<1>2. ASSUME NEW n \in Nat, Has(n)
      PROVE  Has(n + 1)
  <2> SUFFICES ASSUME n + 1 <= N
               PROVE  \E iter \in [SUBSET (1..(n + 1)) -> A] : Good(n + 1, iter)
    OBVIOUS
  <2>1. PICK iter \in [SUBSET (1..n) -> A] : Good(n, iter)
    <3>1. n <= N
      OBVIOUS
    <3> HIDE DEF Good
    <3> QED BY ONLY <1>2, <3>1, Zenon
  <2> DEFINE next == [S \in SUBSET (1..(n + 1)) |->
                        IF n + 1 \in S THEN step[<<iter[S \ {n + 1}], n + 1>>]
                        ELSE iter[S]]
  <2> HIDE DEF Has
  <2>2. \A S \in SUBSET (1..(n + 1)) :
          /\ S \ {n + 1} \in SUBSET (1..n)
          /\ n + 1 \notin S => S \in SUBSET (1..n)
    OBVIOUS
  <2>3. next \in [SUBSET (1..(n + 1)) -> A]
    <3> SUFFICES ASSUME NEW S \in SUBSET (1..(n + 1))
                 PROVE  next[S] \in A
      OBVIOUS
    <3>1. n + 1 \in 1..N
      OBVIOUS
    <3> QED BY <2>2, <3>1
  <2>4. ASSUME NEW S \in SUBSET (1..(n + 1))
        PROVE  next[S] = IF S = {} THEN b
                         ELSE step[<<next[S \ {Max(S)}], Max(S)>>]
    <3>0. S # {} => Max(S) \in S /\ \A y \in S : y <= Max(S)
      <4>1. n + 1 \in Nat /\ S \in SUBSET (0..(n + 1))
        OBVIOUS
      <4> QED BY ONLY <4>1, MaxIsLast
    <3>1. CASE n + 1 \in S
      <4>1. Max(S) = n + 1
        <5>1. Max(S) \in 1..(n + 1) /\ n + 1 <= Max(S)
          BY <3>0, <3>1, Zenon
        <5> QED BY ONLY <5>1, n \in Nat
      <4>2. next[S \ {n + 1}] = iter[S \ {n + 1}]
        BY <2>2
      <4> QED BY <3>1, <4>1, <4>2
    <3>2. CASE n + 1 \notin S
      <4>1. S \in SUBSET (1..n)
        BY <2>2, <3>2
      <4> DEFINE R == S \ {Max(S)}
      <4>2. R \in SUBSET (1..n) /\ R \in SUBSET (1..(n + 1)) /\ n + 1 \notin R
        <5>1. \A x : S \ {x} \in SUBSET (1..n)
          BY <4>1
        <5>2. \A U \in SUBSET (1..n) : U \in SUBSET (1..(n + 1)) /\ n + 1 \notin U
          OBVIOUS
        <5> QED BY ONLY <5>1, <5>2, Zenon
      <4> HIDE DEF R
      <4>3. next[R] = iter[R]
        BY <4>2
      <4>4. iter[S] = IF S = {} THEN b ELSE step[<<iter[R], Max(S)>>]
        BY <2>1, <4>1 DEF R
      <4> QED BY <3>2, <4>3, <4>4 DEF R
    <3> QED BY <3>1, <3>2
  <2>5. Good(n + 1, next)
    <3> HIDE DEF next
    <3>1. next = [S \in SUBSET (1..(n + 1)) |-> next[S]]
      BY <2>3
    <3> QED BY <2>4, <3>1
  <2> HIDE DEF Good
  <2> QED BY <2>3, <2>5
<1> HIDE DEF Has
<1>3. Has(N)
  <2>1. 0 \in T /\ \A n \in Nat \cap T : n + 1 \in T
    BY <1>1, <1>2
  <2> HIDE DEF T
  <2>2. N \in T
    BY <2>1, Induction
  <2> QED BY <2>2 DEF T
<1>4. N <= N
  OBVIOUS
<1> HIDE DEF Good
<1>5. \E iter \in [SUBSET (1..N) -> A] : Good(N, iter)
  BY ONLY <1>3, <1>4, Zenon DEF Has
<1> QED BY ONLY <1>5, Zenon DEF Good, IsFold

-----------------------------------------------------------------------------
(* A loop that goes from place to place until it stops is a function of the *)
(* place it begins at.                                                      *)

IsLoop(f, D, next, stops, good) ==
    \A d \in D : f[d] = IF d \in stops THEN d \in good ELSE f[next[d]]

LEMMA LoopExists ==
    ASSUME NEW D, NEW next \in [D -> D], NEW stops, NEW good
    PROVE  \E f \in [D -> BOOLEAN] : IsLoop(f, D, next, stops, good)
<1> DEFINE Run(d, k, run) ==
             /\ run[0] = d /\ run[k] \in stops \cap good
             /\ \A m \in 0..(k - 1) : run[m] \notin stops /\ run[m + 1] = next[run[m]]
           f == [d \in D |-> \E k \in Nat : \E run \in [0..k -> D] : Run(d, k, run)]
<1>1. f \in [D -> BOOLEAN]
  <2> HIDE DEF Run
  <2> QED OBVIOUS
<1> SUFFICES ASSUME NEW d \in D
             PROVE  f[d] = IF d \in stops THEN d \in good ELSE f[next[d]]
  <2> HIDE DEF f
  <2> QED BY <1>1 DEF IsLoop
<1>2. CASE d \in stops
  <2>1. ASSUME d \in good
        PROVE  f[d]
    <3> DEFINE run == [m \in 0..0 |-> d]
    <3>1. run \in [0..0 -> D] /\ Run(d, 0, run)
      BY <1>2, <2>1
    <3> HIDE DEF run, Run
    <3> QED BY <3>1
  <2>2. ASSUME f[d]
        PROVE  d \in good
    <3>1. PICK k \in Nat : \E run \in [0..k -> D] : Run(d, k, run)
      <4> HIDE DEF Run
      <4> QED BY <2>2
    <3>2. PICK run \in [0..k -> D] : Run(d, k, run)
      BY <3>1
    <3>3. k = 0
      BY <1>2, <3>2
    <3> QED BY <3>2, <3>3
  <2> HIDE DEF f
  <2> QED BY <1>1, <1>2, <2>1, <2>2
<1>3. CASE d \notin stops
  <2>1. ASSUME f[next[d]]
        PROVE  f[d]
    <3>1. PICK k \in Nat : \E run \in [0..k -> D] : Run(next[d], k, run)
      <4> HIDE DEF Run
      <4> QED BY <2>1
    <3>2. PICK run \in [0..k -> D] : Run(next[d], k, run)
      BY <3>1
    <3> DEFINE more == [m \in 0..(k + 1) |-> IF m = 0 THEN d ELSE run[m - 1]]
    <3>3. more \in [0..(k + 1) -> D]
      OBVIOUS
    <3>4. Run(d, k + 1, more)
      <4>1. more[0] = d /\ more[k + 1] = run[k]
        OBVIOUS
      <4>2. ASSUME NEW m \in 0..k
            PROVE  more[m] \notin stops /\ more[m + 1] = next[more[m]]
        <5>1. more[m + 1] = run[m]
          OBVIOUS
        <5>2. CASE m = 0
          BY <1>3, <3>2, <5>1, <5>2
        <5>3. CASE m # 0
          <6>1. m - 1 \in 0..(k - 1) /\ (m - 1) + 1 = m /\ more[m] = run[m - 1]
            BY <5>3
          <6> QED BY <3>2, <5>1, <6>1
        <5> QED BY <5>2, <5>3
      <4>3. (k + 1) - 1 = k
        OBVIOUS
      <4> QED BY <3>2, <4>1, <4>2, <4>3
    <3> HIDE DEF more, Run
    <3> QED BY <3>3, <3>4
  <2>2. ASSUME f[d]
        PROVE  f[next[d]]
    <3>1. PICK k \in Nat : \E run \in [0..k -> D] : Run(d, k, run)
      <4> HIDE DEF Run
      <4> QED BY <2>2
    <3>2. PICK run \in [0..k -> D] : Run(d, k, run)
      BY <3>1
    <3>3. k - 1 \in Nat
      BY <1>3, <3>2
    <3> DEFINE less == [m \in 0..(k - 1) |-> run[m + 1]]
    <3>4. less \in [0..(k - 1) -> D]
      BY <3>3
    <3>5. Run(next[d], k - 1, less)
      <4>1. less[0] = next[d] /\ less[k - 1] = run[k]
        BY <3>2, <3>3
      <4>2. \A m \in 0..((k - 1) - 1) : less[m] \notin stops /\ less[m + 1] = next[less[m]]
        BY <3>2, <3>3
      <4> QED BY <3>2, <4>1, <4>2
    <3>6. next[d] \in D
      OBVIOUS
    <3> HIDE DEF less, Run
    <3> QED BY <3>3, <3>4, <3>5, <3>6
  <2>3. next[d] \in D
    OBVIOUS
  <2> HIDE DEF f
  <2> QED BY <1>1, <1>3, <2>1, <2>2, <2>3
<1> QED BY <1>2, <1>3
================================================================================
