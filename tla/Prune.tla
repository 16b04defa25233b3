-------------------------------- MODULE Prune --------------------------------
(***************************************************************************)
(* The retention policy (internal/prune) over a timeline that grows while  *)
(* time goes by, and the `ua prune` command that applies it                *)
(* (internal/cli/prune.go): a preview, the question whether to go on, a    *)
(* second plan and the garbage collection.                                 *)
(*                                                                         *)
(* How a collection interleaves with other processes is the business of    *)
(* module Store, which takes any plan with the newest snapshot; here it is *)
(* one step.  The unit of time is the hour; lines carry UTC times, so a    *)
(* calendar day is a division.                                             *)
(***************************************************************************)
EXTENDS Integers, SequencesExt

CONSTANTS
    Snapshots,      \* snapshot ids, one for each tree
    Policies,       \* configured retentions
    DayLength,      \* hours of a day
    DurationLimit,  \* hours a time.Duration can hold: 2562047 in the code
    MaxTime,        \* bound: hours that go by
    MaxRecorded     \* bound: lines recorded, a doubled one counted once

Policy == [keepHours : Int, keepDaily : Int, max : Int]

ASSUME PruneAssumption ==
    /\ Policies \subseteq Policy
    /\ DayLength \in Nat \ {0}
    /\ DurationLimit \in Nat \ {0}
    /\ MaxTime \in Nat
    /\ MaxRecorded \in Nat

VARIABLES
    timeline,   \* <<[id, time], ...>>, oldest first: store.Index
    now,        \* the wall clock; it is not set back
    policy,     \* the retention of config.toml
    asking,     \* `ua prune` waits for an answer
    announced,  \* the ids its preview says will be removed
    \* What the properties compare with; the program has none of these.
    recorded    \* every line ever appended

pvars == <<timeline, now, policy, asking, announced, recorded>>

Ids(lines) == {lines[i].id : i \in DOMAIN lines}

-----------------------------------------------------------------------------
(* prune.Plan *)

MaxInt0(n) == IF n > 0 THEN n ELSE 0        \* maxInt(n, 0)

\* time.Duration(h) * time.Hour in 64 bits.
Duration(h) == ((h + DurationLimit) % (2 * DurationLimit)) - DurationLimit

RecentCutoff(p, t) == t - Duration(MaxInt0(p.keepHours))
DailyCutoff(p, t) == t - DayLength * MaxInt0(p.keepDaily)
Day(t) == t \div DayLength

\* Wrong variant: days are counted back from now.
Thinned_back(ordered, p, t) ==
    LET Keep(acc, e) ==
          IF e.time >= RecentCutoff(p, t)
          THEN [acc EXCEPT !.keep = @ \cup {e.id}]
          ELSE IF /\ p.keepDaily > 0
                  /\ e.time >= DailyCutoff(p, t)
                  /\ Day(t - e.time) \notin acc.days
               THEN [keep |-> acc.keep \cup {e.id},
                     days |-> acc.days \cup {Day(t - e.time)}]
               ELSE acc
    IN  FoldLeft(Keep, [keep |-> {ordered[1].id}, days |-> {}], ordered).keep

\* Wrong variant: a snapshot as old as the window is outside.
Thinned_strict(ordered, p, t) ==
    LET Keep(acc, e) ==
          IF e.time > RecentCutoff(p, t)
          THEN [acc EXCEPT !.keep = @ \cup {e.id}]
          ELSE IF /\ p.keepDaily > 0
                  /\ e.time >= DailyCutoff(p, t)
                  /\ Day(e.time) \notin acc.days
               THEN [keep |-> acc.keep \cup {e.id},
                     days |-> acc.days \cup {Day(e.time)}]
               ELSE acc
    IN  FoldLeft(Keep, [keep |-> {ordered[1].id}, days |-> {}], ordered).keep

\* The loop over the lines, newest first: everything in the window, then the
\* first of each day.
Thinned(ordered, p, t) ==
    LET Keep(acc, e) ==
          IF e.time >= RecentCutoff(p, t)
          THEN [acc EXCEPT !.keep = @ \cup {e.id}]
          ELSE IF /\ p.keepDaily > 0
                  /\ e.time >= DailyCutoff(p, t)
                  /\ Day(e.time) \notin acc.days
               THEN [keep |-> acc.keep \cup {e.id},
                     days |-> acc.days \cup {Day(e.time)}]
               ELSE acc
    IN  FoldLeft(Keep, [keep |-> {ordered[1].id}, days |-> {}], ordered).keep

\* Wrong variant: the cap counts lines, not snapshots.
Capped_lines(ordered, keep, max) ==
    LET Take(acc, e) ==
          IF e.id \in keep /\ acc.n < max
          THEN [ids |-> acc.ids \cup {e.id}, n |-> acc.n + 1]
          ELSE acc
    IN  FoldLeft(Take, [ids |-> {}, n |-> 0], ordered).ids \cup {ordered[1].id}

\* The loop of the hard cap.
Capped(ordered, keep, max) ==
    LET Take(ids, e) ==
          IF e.id \in keep \ ids /\ Cardinality(ids) < max
          THEN ids \cup {e.id} ELSE ids
    IN  FoldLeft(Take, {}, ordered) \cup {ordered[1].id}

\* The ids to keep.
Plan(lines, p, t) ==
    IF lines = <<>> THEN {}
    ELSE LET ordered == Reverse(lines)
             keep == Thinned(ordered, p, t)
         IN  IF p.max > 0 THEN Capped(ordered, keep, p.max) ELSE keep

Removed(lines, p, t) == Ids(lines) \ Plan(lines, p, t)

\* The loop of GC over the lines: those whose id is kept stay, in their order.
Survivors(lines, keep) ==
    FoldLeft(LAMBDA rest, e : IF e.id \in keep THEN Append(rest, e) ELSE rest,
             <<>>, lines)

-----------------------------------------------------------------------------
PInit ==
    /\ timeline = <<>>
    /\ now = 0
    /\ policy \in Policies
    /\ asking = FALSE
    /\ announced = {}
    /\ recorded = {}

Tick ==
    /\ now < MaxTime
    /\ now' = now + 1
    /\ UNCHANGED <<timeline, policy, asking, announced, recorded>>

\* snapshot.Create adds a line unless the id has a manifest; two processes that
\* record the same tree at once both add one.
Capture(id, lines) ==
    /\ IF id \in Ids(timeline)
       THEN UNCHANGED <<timeline, recorded>>
       ELSE LET line == [id |-> id, time |-> now]
            IN  /\ Cardinality(recorded) < MaxRecorded
                /\ timeline' = timeline \o [i \in 1..lines |-> line]
                /\ recorded' = recorded \cup {line}
    /\ UNCHANGED <<now, policy, asking, announced>>

\* The preview of `ua prune`, which ends there when there is nothing to remove.
Preview ==
    /\ ~asking
    /\ Removed(timeline, policy, now) # {}
    /\ asking' = TRUE
    /\ announced' = Removed(timeline, policy, now)
    /\ UNCHANGED <<timeline, now, policy, recorded>>

\* --dry-run, or the answer is no.
Decline ==
    /\ asking
    /\ asking' = FALSE
    /\ announced' = {}
    /\ UNCHANGED <<timeline, now, policy, recorded>>

\* Wrong variant: the lines are written back in the order of the plan.
Confirm_ordered ==
    /\ asking
    /\ asking' = FALSE
    /\ announced' = {}
    /\ timeline' = Survivors(Reverse(timeline), Plan(timeline, policy, now))
    /\ UNCHANGED <<now, policy, recorded>>

\* prune.Run reads the timeline and the clock again, and GC drops every line
\* whose id is not kept.
Confirm ==
    /\ asking
    /\ asking' = FALSE
    /\ announced' = {}
    /\ timeline' = Survivors(timeline, Plan(timeline, policy, now))
    /\ UNCHANGED <<now, policy, recorded>>

PNext ==
    \/ Tick
    \/ \E id \in Snapshots, lines \in {1, 2} : Capture(id, lines)
    \/ Preview
    \/ Decline
    \/ Confirm

PSpec == PInit /\ [][PNext]_pvars

-----------------------------------------------------------------------------
\* No line is older than one that comes before it.
Chronological(lines) ==
    \A i, j \in DOMAIN lines : i < j => lines[i].time <= lines[j].time

\* Every variable has its type, no line is from the future, and the timeline is
\* in chronological order.
PTypeOK ==
    /\ timeline \in Seq([id : Snapshots, time : 0..now])
    /\ now \in 0..MaxTime
    /\ policy \in Policies
    /\ asking \in BOOLEAN
    /\ announced \subseteq Snapshots
    /\ recorded \subseteq [id : Snapshots, time : 0..now]
    /\ Chronological(timeline)

(* The policy as the documentation puts it (architecture.md:111-117), for    *)
(* any timeline: by what a line is among the others, not by a loop.          *)

Newer(lines, i) == {j \in DOMAIN lines : j > i}
InWindow(p, t, e) == e.time >= t - MaxInt0(p.keepHours)
InDays(p, t, e) == p.keepDaily > 0 /\ e.time >= t - DayLength * p.keepDaily

\* Lines the window and the days keep.
Wanted(lines, p, t) ==
    {i \in DOMAIN lines :
        \/ i = Len(lines)
        \/ InWindow(p, t, lines[i])
        \/ /\ InDays(p, t, lines[i])
           /\ \A j \in Newer(lines, i) :
                \/ InWindow(p, t, lines[j])
                \/ Day(lines[j].time) # Day(lines[i].time)}

\* An id ranks by its newest line.
Ahead(lines, ids, id) ==
    {x \in ids \ {id} :
        \E i \in DOMAIN lines :
            /\ lines[i].id = x
            /\ \A j \in Newer(lines, i) : lines[j].id # id}

Retained(lines, p, t) ==
    LET ids == {lines[i].id : i \in Wanted(lines, p, t)}
    IN  IF p.max > 0
        THEN {id \in ids : Cardinality(Ahead(lines, ids, id)) < p.max}
        ELSE ids

\* The hours fit a time.Duration: nothing is documented for those that wrap
\* around.
InRange(p) == p.keepHours < DurationLimit

\* On every timeline that snapshots, prunes and time produce, Plan keeps what
\* the documented policy keeps: the window, the newest of each day outside it,
\* the newest of all, and of these at most the cap, newest first (prune.go:
\* the two loops, with duplicated ids).
PlanIsReference ==
    InRange(policy) => Plan(timeline, policy, now) = Retained(timeline, policy, now)

\* A line of the window, or the last that was recorded on one of the days.
Owed(e) ==
    \/ InWindow(policy, now, e)
    \/ /\ InDays(policy, now, e)
       /\ \A f \in recorded \ {e} : Day(f.time) = Day(e.time) => f.time < e.time

\* However prunes and snapshots follow one another, without a cap every line
\* recorded within keep_hours is listed, and the last line recorded on each day
\* is listed for keep_daily days: one prune does not spoil what a later one has
\* to keep (prune.go: "everything within the recent window").
PromiseKept ==
    policy.max <= 0 /\ InRange(policy) =>
        \A e \in recorded : Owed(e) => e.id \in Ids(timeline)

\* Without a cap, what the preview announced as going is gone when the user has
\* agreed, whatever was recorded and however much time went by in between, and
\* also when the hours wrap around (cli/prune.go plans twice).
AnnouncedGo ==
    [][Confirm /\ policy.max <= 0 => announced \cap Ids(timeline') = {}]_pvars

=============================================================================
