----------------------------- MODULE StoreProofs -----------------------------
(***************************************************************************)
(* Theorems about the store, for every value of the constants, in four     *)
(* parts: what a store used by one command after the other, or by          *)
(* overlapping snapshots, holds (ExclusiveSpec); what survives any overlap *)
(* with a prune (Spec); that it implements the abstract history; and       *)
(* restores beside other restores, snapshots and edits, for any number of  *)
(* each (RSpec).  What a prune takes from under a restore is the subject   *)
(* of the second.                                                          *)
(***************************************************************************)
EXTENDS Restore, StoreHistory, TLAPS

USE DEF disk, snapping, pruning, counters

\* Every variable keeps its type through every step of every command.
LEMMA TypeStep == TypeOK /\ [Next]_vars => TypeOK'
<1> SUFFICES ASSUME TypeOK, [Next]_vars PROVE TypeOK'
  OBVIOUS
<1> USE StoreAssumption DEF TypeOK, Processes, Path, Row, Id, Line
<1>1. ASSUME NEW s \in Snappers, SnapStep(s) PROVE TypeOK'
  <2> USE DEF EndSnap, Goto, At
  <2>1. CASE StartSnap(s) BY <2>1 DEF StartSnap
  <2>2. ASSUME NEW found \in Content \cup {Skipped}, Visit(s, found)
        PROVE TypeOK'
    BY <2>2 DEF Visit
  <2>3. CASE Compare(s) BY <2>3 DEF Compare
  <2>4. CASE StatManifest(s) BY <2>4 DEF StatManifest
  <2>5. CASE WriteManifest(s) BY <2>5 DEF WriteManifest
  <2>6. CASE OpenTimeline(s) BY <2>6 DEF OpenTimeline
  <2>7. CASE AppendLine(s) BY <2>7 DEF AppendLine
  <2>8. CASE TearLine(s) BY <2>8 DEF TearLine
  <2>9. CASE Return(s) BY <2>9 DEF Return
  <2>10. CASE AbortSnap(s) BY <2>10 DEF AbortSnap
  <2> QED BY <1>1, <2>1, <2>2, <2>3, <2>4, <2>5, <2>6, <2>7, <2>8, <2>9, <2>10
          DEF SnapStep
<1>2. ASSUME NEW g \in Pruners, PruneStep(g) PROVE TypeOK'
  <2> USE DEF EndPrune, Goto, Listed, IdsOf
  <2>1. CASE StartPrune(g) BY <2>1 DEF StartPrune
  <2>2. ASSUME NEW ids \in SUBSET Listed, PlanKeep(g, ids) PROVE TypeOK'
    BY <2>2 DEF PlanKeep
  <2>3. CASE PlanFails(g) BY <2>3 DEF PlanFails
  <2>4. CASE Collect(g) BY <2>4 DEF Collect
  <2>5. CASE GlobManifests(g) BY <2>5 DEF GlobManifests
  <2>6. ASSUME NEW id \in doomed[g], RemoveManifest(g, id) PROVE TypeOK'
    BY <2>6 DEF RemoveManifest
  <2>7. ASSUME NEW id \in doomed[g], LeaveManifest(g, id) PROVE TypeOK'
    BY <2>7 DEF LeaveManifest
  <2>8. CASE Rewrite(g)
    <3>1. pc' = [pc EXCEPT ![g] = "sweep"] /\ timeline' = kept[g]
      BY <2>8 DEF Rewrite
    <3>2. timeline' \subseteq Line
      BY <3>1
    <3>3. unswept' \in [Pruners -> SUBSET Content] /\ logFile' \in Nat
      BY <2>8 DEF Rewrite
    <3> QED BY <2>8, <3>1, <3>2, <3>3 DEF Rewrite
  <2>9. ASSUME NEW c \in unswept[g], Sweep(g, c) PROVE TypeOK'
    BY <2>9 DEF Sweep
  <2>10. ASSUME NEW c \in unswept[g], LeaveBlob(g, c) PROVE TypeOK'
    BY <2>10 DEF LeaveBlob
  <2>11. CASE FinishPrune(g) BY <2>11 DEF FinishPrune
  <2>12. CASE AbortPrune(g) BY <2>12 DEF AbortPrune
  <2> QED BY <1>2, <2>1, <2>2, <2>3, <2>4, <2>5, <2>6, <2>7, <2>8, <2>9,
             <2>10, <2>11, <2>12 DEF PruneStep
<1>3. CASE UNCHANGED vars BY <1>3 DEF vars
<1> QED BY <1>1, <1>2, <1>3 DEF Next

LEMMA TypeInit == Init => TypeOK
<1> SUFFICES ASSUME Init PROVE TypeOK
  OBVIOUS
<1>1. 1 \in 1..(NumPaths + 1)
  BY StoreAssumption
<1>2. cursor \in [Snappers -> 1..(NumPaths + 1)]
  BY <1>1 DEF Init
<1> QED BY <1>2 DEF Init, TypeOK, Id, Line

\* TypeOK holds in every state of every behaviour.
THEOREM TypeCorrect == Spec => []TypeOK
BY TypeInit, TypeStep, PTL DEF Spec

-----------------------------------------------------------------------------
(***************************************************************************)
(* While no command overlaps a prune.  Neither ListedIntact nor            *)
(* NewestStored is inductive: the first needs that a line is appended only *)
(* behind its blobs, the second that a prune keeps what is newest from its *)
(* plan to its rewrite, and both what each stage of a prune has done.      *)
(***************************************************************************)

\* A walk finds again every blob it has put, and a line follows its manifest.
SnapStages ==
    \A s \in Snappers :
        /\ pc[s] = "idle" => rows[s] = {}
        /\ Refs(rows[s]) \subseteq objects
        /\ At(s, {"open", "append"}) => rows[s] \in manifests

PruneStage(g) ==
    /\ At(g, {"collect", "glob", "unlink"}) =>
        keep[g] \subseteq Listed /\ NewestIds \subseteq keep[g]
    /\ At(g, {"glob", "unlink"}) =>
        kept[g] = {l \in timeline : l.id \in keep[g]}
    /\ At(g, {"glob", "unlink", "sweep"}) => IdsOf(kept[g]) \subseteq manifests
    /\ pc[g] = "unlink" =>
        /\ doomed[g] \cap keep[g] = {}
        /\ ioErrors = 0 => manifests \subseteq keep[g] \cup doomed[g]
    /\ pc[g] = "sweep" =>
        /\ timeline = kept[g] /\ keep[g] = Listed
        /\ ioErrors = 0 =>
            /\ manifests \subseteq Listed
            /\ \A c \in objects \ unswept[g] : \E id \in Listed : c \in Refs(id)

Numbered ==
    /\ \A l \in timeline : l.no <= appended
    /\ timeline # {} => Newest(timeline) # {}

Inv ==
    /\ TypeOK
    /\ Exclusive
    /\ SnapStages
    /\ \A g \in Pruners : PruneStage(g)
    /\ Numbered
    /\ ListedIntact
    /\ NewestIds \subseteq manifests

\* The line appended last is the newest.
LEMMA NewestAppended ==
    ASSUME NEW lines, lines \subseteq Line, NEW n \in Nat,
           \A l \in lines : l.no <= n,
           NEW new \in Line, new.no = n + 1
    PROVE  Newest(lines \cup {new}) = {new}
<1>1. \A l \in lines : l.no \in Nat /\ l.no < new.no
  BY DEF Line
<1>2. \A l \in lines : ~(new.no <= l.no)
  BY <1>1 DEF Line
<1>3. new.no <= new.no
  BY DEF Line
<1>4. \A l \in lines \cup {new} : l.no <= new.no
  BY <1>1, <1>3 DEF Line
<1> QED BY <1>2, <1>4 DEF Newest

\* A selection of lines with all the newest ones has the same newest ones.
LEMMA NewestSelected ==
    ASSUME NEW lines, lines \subseteq Line, NEW ids,
           lines # {} => Newest(lines) # {},
           IdsOf(Newest(lines)) \subseteq ids
    PROVE  Newest({l \in lines : l.id \in ids}) = Newest(lines)
<1> DEFINE sel == {l \in lines : l.id \in ids}
<1>1. Newest(lines) \subseteq sel
  BY DEF Newest, IdsOf
<1>2. Newest(lines) \subseteq Newest(sel)
  BY <1>1 DEF Newest
<1>3. ASSUME NEW l \in Newest(sel) PROVE l \in Newest(lines)
  <2>1. l \in lines
    BY <1>3 DEF Newest
  <2>2. PICK m \in Newest(lines) : TRUE
    BY <2>1
  <2>3. m \in sel /\ m.no <= l.no
    BY <1>1, <1>3, <2>2 DEF Newest
  <2>4. \A k \in lines : k.no <= m.no
    BY <2>2 DEF Newest
  <2>5. \A k \in lines : k.no \in Nat
    BY DEF Line
  <2>6. \A k \in lines : k.no <= l.no
    BY <2>1, <2>3, <2>4, <2>5
  <2> QED BY <2>1, <2>6 DEF Newest
<1> QED BY <1>2, <1>3

\* While a snapshot takes a step no prune runs, and the other way round.
LEMMA SnapAlone ==
    ASSUME TypeOK, Exclusive, Exclusive', NEW s \in Snappers, SnapStep(s)
    PROVE  \A g \in Pruners : pc[g] = "idle" /\ pc'[g] = "idle"
<1>1. /\ \A g \in Pruners : pc'[g] = pc[g]
      /\ pc[s] # "idle" \/ pc'[s] # "idle"
  BY StoreAssumption
     DEF SnapStep, TypeOK, Processes, StartSnap, Visit, Compare, StatManifest,
         WriteManifest, OpenTimeline, AppendLine, TearLine, Return, AbortSnap,
         EndSnap, Goto, Active, At
<1> QED BY <1>1, StoreAssumption DEF Exclusive, Active, Processes

LEMMA PruneAlone ==
    ASSUME TypeOK, Exclusive, Exclusive', NEW g \in Pruners, PruneStep(g)
    PROVE  \A p \in Processes \ {g} : pc[p] = "idle" /\ pc'[p] = "idle"
<1>1. /\ \A p \in Processes \ {g} : pc'[p] = pc[p]
      /\ pc[g] # "idle" \/ pc'[g] # "idle"
  BY DEF PruneStep, TypeOK, Processes, StartPrune, PlanKeep, PlanFails, Collect,
         GlobManifests, RemoveManifest, LeaveManifest, Rewrite, Sweep,
         LeaveBlob, FinishPrune, AbortPrune, EndPrune, Goto, Active
<1> QED BY <1>1 DEF Exclusive, Active, Processes

\* What the steps of a snapshot have to keep up themselves.
Core == SnapStages /\ Numbered /\ ListedIntact /\ NewestIds \subseteq manifests

LEMMA SnapCore ==
    ASSUME Inv, NEW s \in Snappers, SnapStep(s) PROVE Core'
<1> USE DEF Core
<1>0. Core /\ TypeOK
  BY DEF Inv
\* Steps that leave the directory alone and add nothing to the rows.
<1>1. ASSUME UNCHANGED <<objects, manifests, timeline, appended>>,
             \A q \in Snappers :
                \/ rows'[q] = rows[q]
                   /\ (pc'[q] = "idle" => pc[q] = "idle")
                   /\ (pc'[q] \in {"open", "append"} => pc[q] \in {"open", "append"})
                \/ rows'[q] = {} /\ pc'[q] = "idle"
      PROVE  Core'
  <2>1. SnapStages'
    BY <1>0, <1>1 DEF SnapStages, At, Refs
  <2> QED BY <1>0, <1>1, <2>1
          DEF Numbered, ListedIntact, NewestIds, Newest, Listed, IdsOf
<1>2. CASE \/ StartSnap(s) \/ Compare(s) \/ StatManifest(s) \/ OpenTimeline(s)
           \/ TearLine(s) \/ Return(s) \/ AbortSnap(s)
  BY <1>0, <1>1, <1>2
     DEF TypeOK, Processes, StartSnap, Compare, StatManifest, OpenTimeline,
         TearLine, Return, AbortSnap, EndSnap, Goto, At, Active
<1>3. ASSUME NEW found \in Content \cup {Skipped}, Visit(s, found) PROVE Core'
  <2>1. /\ objects \subseteq objects'
        /\ UNCHANGED <<pc, manifests, timeline, appended>>
        /\ \A q \in Snappers \ {s} : rows'[q] = rows[q]
        /\ pc[s] = "walk"
    BY <1>0, <1>3 DEF Visit, TypeOK
  <2>2. Refs(rows'[s]) \subseteq objects'
    BY <1>0, <1>3 DEF Visit, TypeOK, Refs, SnapStages
  <2>3. SnapStages'
    BY <1>0, <2>1, <2>2 DEF SnapStages, At
  <2> QED BY <1>0, <2>1, <2>3
          DEF Numbered, ListedIntact, NewestIds, Newest, Listed, IdsOf
<1>4. CASE WriteManifest(s)
  <2>1. /\ UNCHANGED <<objects, timeline, appended, rows>>
        /\ manifests' = manifests \cup {rows[s]}
        /\ pc' = [pc EXCEPT ![s] = "open"]
        /\ Refs(rows[s]) \subseteq objects
    BY <1>0, <1>4 DEF WriteManifest, Goto, SnapStages
  <2>2. SnapStages'
    BY <1>0, <2>1 DEF SnapStages, At, TypeOK, Processes
  <2>3. ListedIntact'
    BY <1>0, <2>1 DEF ListedIntact, Listed, IdsOf
  <2> QED BY <1>0, <2>1, <2>2, <2>3
          DEF Numbered, NewestIds, Newest, Listed, IdsOf
<1>5. CASE AppendLine(s)
  <2> DEFINE new == [no |-> appended + 1, id |-> rows[s], by |-> s]
  <2>1. /\ UNCHANGED <<objects, manifests, rows>>
        /\ pc' = [pc EXCEPT ![s] = "created"]
        /\ rows[s] \in manifests /\ Refs(rows[s]) \subseteq objects
    BY <1>0, <1>5 DEF AppendLine, Goto, SnapStages, At
  <2>2. SnapStages'
    BY <1>0, <2>1 DEF SnapStages, At, TypeOK, Processes
  <2>3. CASE UNCHANGED <<timeline, appended>>
    BY <1>0, <2>1, <2>2, <2>3
       DEF Numbered, ListedIntact, NewestIds, Newest, Listed, IdsOf
  <2>4. CASE timeline' = timeline \cup {new} /\ appended' = appended + 1
    <3>1. new \in Line /\ timeline \subseteq Line /\ appended \in Nat
      BY <1>0 DEF TypeOK, Line
    <3>2. Newest(timeline') = {new}
      BY <1>0, <2>4, <3>1, NewestAppended DEF Numbered
    <3>3. NewestIds' \subseteq manifests'
      BY <2>1, <3>2 DEF NewestIds, IdsOf
    <3>4. \A l \in timeline : l.no \in Nat /\ l.no <= appended
      BY <1>0, <3>1 DEF Numbered, Line
    <3>5. \A l \in timeline' : l.no <= appended'
      BY <2>4, <3>1, <3>4
    <3>6. ListedIntact'
      BY <1>0, <2>1, <2>4 DEF ListedIntact, Listed, IdsOf
    <3> QED BY <2>2, <3>2, <3>3, <3>5, <3>6 DEF Numbered
  <2> QED BY <1>5, <2>3, <2>4 DEF AppendLine
<1> QED BY <1>2, <1>3, <1>4, <1>5 DEF SnapStep

LEMMA SnapInv ==
    ASSUME Inv, Exclusive', NEW s \in Snappers, SnapStep(s) PROVE Inv'
<1>1. TypeOK'
  BY TypeStep DEF Inv, Next
<1>2. \A g \in Pruners : PruneStage(g)'
  BY SnapAlone DEF Inv, PruneStage, At
<1> QED BY <1>1, <1>2, SnapCore DEF Inv, Core

\* What the steps of a prune have to keep up, apart from the stage it is in.
LEMMA PruneCore ==
    ASSUME Inv, Exclusive', NEW g \in Pruners, PruneStep(g)
    PROVE  Core'
<1>0. Core /\ TypeOK /\ PruneStage(g)
  BY DEF Inv, Core
<1>1. \A s \in Snappers : pc[s] = "idle" /\ pc'[s] = "idle" /\ rows'[s] = {}
  <2>1. \A s \in Snappers : pc[s] = "idle" /\ pc'[s] = "idle"
    BY PruneAlone, StoreAssumption DEF Inv, Processes
  <2>2. \A s \in Snappers : rows[s] = {}
    BY <1>0, <2>1 DEF Core, SnapStages
  <2>3. UNCHANGED rows
    BY DEF PruneStep, StartPrune, PlanKeep, PlanFails, Collect, GlobManifests,
           RemoveManifest, LeaveManifest, Rewrite, Sweep, LeaveBlob,
           FinishPrune, AbortPrune
  <2> QED BY <2>1, <2>2, <2>3
<1>2. SnapStages'
  BY <1>1 DEF SnapStages, At, Refs
<1>3. CASE UNCHANGED <<objects, manifests, timeline, appended>>
  BY <1>0, <1>2, <1>3
     DEF Core, Numbered, ListedIntact, NewestIds, Newest, Listed, IdsOf
<1>4. ASSUME NEW id \in doomed[g], RemoveManifest(g, id) PROVE Core'
  <2>1. /\ UNCHANGED <<objects, timeline, appended>>
        /\ manifests' = manifests \ {id}
        /\ id \notin NewestIds
    BY <1>0, <1>4 DEF RemoveManifest, PruneStage, At
  <2> QED BY <1>0, <1>2, <2>1
          DEF Core, Numbered, ListedIntact, NewestIds, Newest, Listed, IdsOf
<1>5. CASE Rewrite(g)
  <2>1. /\ UNCHANGED <<objects, manifests, appended>>
        /\ timeline' = {l \in timeline : l.id \in keep[g]}
        /\ NewestIds \subseteq keep[g]
    BY <1>0, <1>5 DEF Rewrite, PruneStage, At
  <2>2. Newest(timeline') = Newest(timeline)
    BY <1>0, <2>1, NewestSelected DEF Core, Numbered, NewestIds, TypeOK
  <2> QED BY <1>0, <1>2, <2>1, <2>2
          DEF Core, Numbered, ListedIntact, NewestIds, Listed, IdsOf
<1>6. ASSUME NEW c \in unswept[g], Sweep(g, c) PROVE Core'
  <2>1. /\ UNCHANGED <<manifests, timeline, appended>>
        /\ \A id \in Listed : Refs(id) \cap objects \subseteq objects'
    BY <1>0, <1>6 DEF Sweep, PruneStage, Listed
  <2> QED BY <1>0, <1>2, <2>1
          DEF Core, Numbered, ListedIntact, NewestIds, Newest, Listed, IdsOf
<1> QED BY <1>3, <1>4, <1>5, <1>6
        DEF PruneStep, StartPrune, PlanKeep, PlanFails, Collect, GlobManifests,
            LeaveManifest, LeaveBlob, FinishPrune, AbortPrune

\* A prune is the only one to take steps, so each stage finds what the one
\* before has left.
LEMMA PruneStages ==
    ASSUME Inv, Exclusive', NEW g \in Pruners, PruneStep(g)
    PROVE  \A h \in Pruners : PruneStage(h)'
<1>0. TypeOK /\ PruneStage(g) /\ NewestIds \subseteq manifests
  BY DEF Inv
<1>1. \A h \in Pruners \ {g} : PruneStage(h)'
  BY PruneAlone DEF Inv, PruneStage, At, Processes
<1>2. g \in Processes
  BY DEF Processes
<1>3. ASSUME pc' = [pc EXCEPT ![g] = "plan"] \/ pc' = [pc EXCEPT ![g] = "idle"]
      PROVE  PruneStage(g)'
  BY <1>0, <1>2, <1>3 DEF PruneStage, At, TypeOK
<1>4. ASSUME StartPrune(g) \/ PlanFails(g) \/ FinishPrune(g) \/ AbortPrune(g)
      PROVE  PruneStage(g)'
  <2>1. pc' = [pc EXCEPT ![g] = "plan"] \/ pc' = [pc EXCEPT ![g] = "idle"]
    BY <1>4 DEF StartPrune, PlanFails, FinishPrune, AbortPrune, EndPrune, Goto
  <2> QED BY <1>3, <2>1
<1>5. ASSUME NEW ids \in SUBSET Listed, PlanKeep(g, ids) PROVE PruneStage(g)'
  <2>1. /\ UNCHANGED timeline
        /\ keep' = [keep EXCEPT ![g] = ids]
        /\ pc' = [pc EXCEPT ![g] = "collect"]
        /\ NewestIds \subseteq ids
    BY <1>5 DEF PlanKeep, Goto
  <2>2. Listed' = Listed /\ NewestIds' = NewestIds
    BY <2>1 DEF Listed, NewestIds, Newest, IdsOf
  <2>3. keep'[g] = ids /\ pc'[g] = "collect"
    BY <1>0, <1>2, <2>1 DEF TypeOK
  <2> QED BY <2>1, <2>2, <2>3 DEF PruneStage, At
<1>6. ASSUME Collect(g) PROVE PruneStage(g)'
  <2> DEFINE lines == {l \in timeline : l.id \in keep[g]}
  <2>1. CASE EndPrune(g) BY <1>3, <2>1 DEF EndPrune, Goto
  <2>2. CASE /\ IdsOf(lines) \subseteq manifests
             /\ kept' = [kept EXCEPT ![g] = lines]
             /\ pc' = [pc EXCEPT ![g] = "glob"]
             /\ UNCHANGED keep
    <3>1. UNCHANGED <<timeline, manifests>> /\ pc[g] = "collect"
      BY <1>6 DEF Collect
    <3>2. Listed' = Listed /\ NewestIds' = NewestIds
      BY <3>1 DEF Listed, NewestIds, Newest, IdsOf
    <3>3. kept'[g] = lines /\ pc'[g] = "glob"
      BY <1>0, <1>2, <2>2 DEF TypeOK
    <3>4. keep'[g] \subseteq Listed /\ NewestIds \subseteq keep'[g]
      BY <1>0, <2>2, <3>1 DEF PruneStage, At
    <3> QED BY <2>2, <3>1, <3>2, <3>3, <3>4 DEF PruneStage, At
  <2> QED BY <1>6, <2>1, <2>2 DEF Collect, Goto
<1>7. ASSUME GlobManifests(g) PROVE PruneStage(g)'
  <2>1. /\ UNCHANGED <<timeline, manifests, keep, kept>>
        /\ pc[g] = "glob" /\ pc'[g] = "unlink"
        /\ doomed'[g] = manifests \ keep[g]
    BY <1>0, <1>2, <1>7 DEF GlobManifests, Goto, TypeOK
  <2>2. Listed' = Listed /\ NewestIds' = NewestIds
    BY <2>1 DEF Listed, NewestIds, Newest, IdsOf
  <2> QED BY <1>0, <2>1, <2>2 DEF PruneStage, At
<1>8. ASSUME NEW id \in doomed[g], RemoveManifest(g, id) \/ LeaveManifest(g, id)
      PROVE  PruneStage(g)'
  <2>1. /\ UNCHANGED <<pc, timeline, keep, kept>>
        /\ pc[g] = "unlink"
        /\ doomed' = [doomed EXCEPT ![g] = @ \ {id}]
        /\ manifests \ {id} \subseteq manifests' /\ manifests' \subseteq manifests
    BY <1>8 DEF RemoveManifest, LeaveManifest
  <2>2. ioErrors' = 0 => ioErrors = 0 /\ manifests' = manifests \ {id}
    BY <1>0, <1>8 DEF RemoveManifest, LeaveManifest, TypeOK
  <2>3. id \notin IdsOf(kept[g])
    BY <1>0, <2>1 DEF PruneStage, At, IdsOf
  <2> QED BY <1>0, <2>1, <2>2, <2>3
          DEF PruneStage, At, TypeOK, Listed, NewestIds, Newest, IdsOf
<1>9. ASSUME Rewrite(g) PROVE PruneStage(g)'
  <2>1. /\ UNCHANGED <<keep, kept, doomed, manifests, objects, ioErrors>>
        /\ pc' = [pc EXCEPT ![g] = "sweep"]
        /\ timeline' = kept[g] /\ doomed[g] = {} /\ pc[g] = "unlink"
        /\ unswept' = [unswept EXCEPT ![g] = Content]
    BY <1>9 DEF Rewrite, Goto
  <2>2. Listed' = keep[g]
    BY <1>0, <2>1 DEF PruneStage, At, Listed, IdsOf
  <2>3. objects' \ unswept'[g] = {}
    BY <1>0, <2>1 DEF TypeOK
  <2> QED BY <1>0, <1>2, <2>1, <2>2, <2>3
          DEF PruneStage, At, TypeOK
<1>10. ASSUME NEW c \in unswept[g], Sweep(g, c) \/ LeaveBlob(g, c)
       PROVE  PruneStage(g)'
  <2>1. /\ UNCHANGED <<pc, timeline, keep, kept, manifests>>
        /\ pc[g] = "sweep" /\ pc'[g] = "sweep"
        /\ unswept' = [unswept EXCEPT ![g] = @ \ {c}]
        /\ timeline = kept[g]
    BY <1>0, <1>10 DEF Sweep, LeaveBlob, PruneStage
  <2>2. Listed' = Listed
    BY <2>1 DEF Listed, IdsOf
  <2>3. ioErrors' = 0 =>
            /\ ioErrors = 0
            /\ objects' \subseteq objects
            /\ (\A id \in Listed : c \notin Refs(id)) => c \notin objects'
    BY <1>0, <1>10, <2>1 DEF Sweep, LeaveBlob, TypeOK, Listed
  <2>4. objects' \ unswept'[g] \subseteq (objects' \ unswept[g]) \cup (objects' \cap {c})
    BY <1>0, <2>1 DEF TypeOK
  <2>5. ioErrors' = 0 =>
            \A d \in objects' \ unswept'[g] : \E id \in Listed : d \in Refs(id)
    BY <1>0, <2>1, <2>3, <2>4 DEF PruneStage
  <2>6. ioErrors' = 0 => manifests' \subseteq Listed'
    BY <1>0, <2>1, <2>2, <2>3 DEF PruneStage
  <2> QED BY <1>0, <2>1, <2>2, <2>5, <2>6 DEF PruneStage, At
<1> QED BY <1>1, <1>4, <1>5, <1>6, <1>7, <1>8, <1>9, <1>10 DEF PruneStep

LEMMA PruneInv ==
    ASSUME Inv, Exclusive', NEW g \in Pruners, PruneStep(g) PROVE Inv'
<1>1. TypeOK'
  BY TypeStep DEF Inv, Next
<1> QED BY <1>1, PruneCore, PruneStages DEF Inv, Core

LEMMA InvInit == Init => Inv
<1> SUFFICES ASSUME Init PROVE Inv
  OBVIOUS
<1>1. TypeOK
  BY TypeInit
<1>2. \A p \in Processes : pc[p] = "idle"
  BY DEF Init
<1>3. Exclusive
  BY <1>2 DEF Exclusive, Active, Processes
<1>4. \A g \in Pruners : PruneStage(g)
  BY <1>2 DEF PruneStage, At, Processes
<1> QED BY <1>1, <1>3, <1>4
        DEF Init, Inv, SnapStages, Refs, At, Processes, Numbered, ListedIntact,
            NewestIds, Newest, Listed, IdsOf

LEMMA InvStep == Inv /\ [Next /\ Exclusive']_vars => Inv'
<1> SUFFICES ASSUME Inv, [Next /\ Exclusive']_vars PROVE Inv'
  OBVIOUS
<1>1. CASE Next /\ Exclusive'
  BY <1>1, SnapInv, PruneInv DEF Next
<1>2. CASE UNCHANGED vars
  <2>1. TypeOK'
    BY <1>2, TypeStep DEF Inv
  <2>2. Exclusive' /\ SnapStages' /\ (\A g \in Pruners : PruneStage(g))'
    BY <1>2 DEF Inv, vars, Exclusive, Active, SnapStages, At, PruneStage,
                Listed, NewestIds, Newest, IdsOf
  <2> QED BY <1>2, <2>1, <2>2
          DEF Inv, vars, Numbered, ListedIntact, NewestIds, Newest, Listed, IdsOf
<1> QED BY <1>1, <1>2

\* What each stage of a snapshot and of a prune has established holds from the
\* first step on, while no command overlaps a prune (snapshot.go, gc.go).
THEOREM InvHolds == ExclusiveSpec => []Inv
BY InvInit, InvStep, PTL DEF ExclusiveSpec

\* No crash and no prune takes the contents from under a listed snapshot that
\* has its manifest, while no command overlaps a prune.
THEOREM ListedStayIntact == ExclusiveSpec => []ListedIntact
BY InvHolds, PTL DEF Inv

\* The newest snapshot keeps its manifest and its contents through every crash
\* and every prune, while no command overlaps a prune.
THEOREM NewestStaysStored == ExclusiveSpec => []NewestStored
<1>1. Inv => NewestStored
  BY DEF Inv, NewestStored, Stored, ListedIntact, NewestIds, Newest, Listed, IdsOf
<1> QED BY <1>1, InvHolds, PTL

\* A prune that comes to its end has dropped what its plan did not keep and
\* nothing else, leftovers of crashes included, while no command overlaps it.
THEOREM PruneIsExact == ExclusiveSpec => []PruneExact
<1>1. ASSUME Inv PROVE PruneExact
  <2> SUFFICES ASSUME NEW g \in Pruners, pc[g] = "sweep", unswept[g] = {}
               PROVE  /\ Listed = keep[g]
                      /\ Listed \subseteq manifests
                      /\ ioErrors = 0 =>
                          /\ manifests = Listed
                          /\ objects = UNION {Refs(id) : id \in Listed}
    BY DEF PruneExact
  <2>1. /\ timeline = kept[g] /\ keep[g] = Listed
        /\ IdsOf(kept[g]) \subseteq manifests
        /\ ioErrors = 0 =>
            /\ manifests \subseteq Listed
            /\ \A c \in objects : \E id \in Listed : c \in Refs(id)
    BY <1>1 DEF Inv, PruneStage, At
  <2>2. Listed \subseteq manifests
    BY <2>1 DEF Listed
  <2>3. UNION {Refs(id) : id \in Listed} \subseteq objects
    BY <1>1, <2>2 DEF Inv, ListedIntact
  <2> QED BY <2>1, <2>2, <2>3
<1> QED BY <1>1, InvHolds, PTL

-----------------------------------------------------------------------------
(***************************************************************************)
(* ReturnMeansSaved needs more: as long as nothing has failed, a manifest  *)
(* is listed or some command is about to list it, and a line goes to the   *)
(* file that has the name.                                                 *)
(***************************************************************************)

Clean == aborts = 0 /\ ioErrors = 0

Recording(id) == \E q \in Snappers : At(q, {"open", "append"}) /\ rows[q] = id

SnapTidy ==
    \A s \in Snappers :
        /\ pc[s] = "append" => opened[s] = logFile
        /\ pc[s] = "created" => rows[s] \in Listed
        /\ pc[s] = "exists" => rows[s] \in Listed \/ Recording(rows[s])

DiskTidy ==
    /\ ~torn
    /\ \A id \in manifests : id \in Listed \/ Recording(id)
    /\ Listed \subseteq manifests \/ \E g \in Pruners : pc[g] = "unlink"

Tidy == Clean => SnapTidy /\ DiskTidy

LEMMA TidyInit == Init => Tidy
BY DEF Init, Tidy, SnapTidy, DiskTidy, Processes, Listed, IdsOf

LEMMA TidySnap ==
    ASSUME Inv, Tidy, Exclusive', NEW s \in Snappers, SnapStep(s)
    PROVE  Tidy'
<1> SUFFICES ASSUME Clean' PROVE SnapTidy' /\ DiskTidy'
  BY DEF Tidy
<1>0. TypeOK /\ s \in Processes /\ s \in Snappers /\ SnapStages
      /\ \A g \in Pruners : pc[g] = "idle" /\ pc'[g] = "idle"
  BY SnapAlone DEF Inv, Processes
<1>1. ~TearLine(s) /\ ~AbortSnap(s) /\ Clean
  BY <1>0 DEF SnapStep, Clean, TypeOK, TearLine, AbortSnap, StartSnap, Visit,
              Compare, StatManifest, WriteManifest, OpenTimeline, AppendLine,
              Return, counters
<1>2. SnapTidy /\ DiskTidy /\ Listed \subseteq manifests
  BY <1>0, <1>1 DEF Tidy, DiskTidy
<1>3. \A q \in Snappers \ {s} : pc'[q] = pc[q] /\ rows'[q] = rows[q]
                               /\ opened'[q] = opened[q]
  <2> USE <1>0 DEF TypeOK, Goto, Processes
  <2>1. ASSUME NEW found \in Content \cup {Skipped}, Visit(s, found)
        PROVE  \A q \in Snappers \ {s} :
                   pc'[q] = pc[q] /\ rows'[q] = rows[q] /\ opened'[q] = opened[q]
    BY <2>1 DEF Visit
  <2>2. CASE StartSnap(s) \/ Compare(s) \/ StatManifest(s) \/ WriteManifest(s)
    BY <2>2 DEF StartSnap, Compare, StatManifest, WriteManifest, snapping
  <2>3. CASE OpenTimeline(s) \/ AppendLine(s) \/ Return(s)
    BY <2>3 DEF OpenTimeline, AppendLine, Return, EndSnap, snapping
  <2> QED BY <1>1, <2>1, <2>2, <2>3 DEF SnapStep
\* A step that leaves the directory alone, of a command that is not recording.
<1>4. ASSUME UNCHANGED <<manifests, timeline, torn, logFile>>,
             ~At(s, {"open", "append"}),
             pc'[s] # "append", pc'[s] # "created",
             pc'[s] = "exists" => rows'[s] \in Listed \/ Recording(rows'[s])
      PROVE  SnapTidy' /\ DiskTidy'
  <2>1. Listed' = Listed
    BY <1>4 DEF Listed, IdsOf
  <2>2. \A id : Recording(id) => Recording(id)'
    BY <1>3, <1>4 DEF Recording, At
  <2>3. SnapTidy'
    BY <1>2, <1>3, <1>4, <2>1, <2>2 DEF SnapTidy
  <2>4. DiskTidy'
    BY <1>2, <1>4, <2>1, <2>2 DEF DiskTidy
  <2> QED BY <2>3, <2>4
<1>5. CASE StartSnap(s) \/ Return(s) \/ \E found \in Content \cup {Skipped} : Visit(s, found)
  <2>1. /\ UNCHANGED <<manifests, timeline, torn, logFile>>
        /\ pc[s] \in {"idle", "created", "exists", "walk"}
        /\ pc'[s] \in {"idle", "walk"}
    BY <1>0, <1>5 DEF StartSnap, Return, Visit, EndSnap, Goto, At, TypeOK
  <2> QED BY <1>4, <2>1 DEF At
<1>6. CASE Compare(s)
  <2>1. /\ UNCHANGED <<manifests, timeline, torn, logFile, rows>>
        /\ pc[s] = "walk"
        /\ pc'[s] = IF Readable /\ rows[s] \in NewestIds THEN "exists" ELSE "stat"
    BY <1>0, <1>6 DEF Compare, Goto, TypeOK
  <2>2. NewestIds \subseteq Listed
    BY DEF NewestIds, Newest, Listed, IdsOf
  <2> QED BY <1>4, <2>1, <2>2 DEF At
<1>7. CASE StatManifest(s)
  <2>1. /\ UNCHANGED <<manifests, timeline, torn, logFile, rows>>
        /\ pc[s] = "stat"
        /\ pc'[s] = IF rows[s] \in manifests THEN "exists" ELSE "manifest"
    BY <1>0, <1>7 DEF StatManifest, Goto, TypeOK
  <2> QED BY <1>2, <1>4, <2>1 DEF At, DiskTidy
<1>8. CASE WriteManifest(s)
  <2>1. /\ UNCHANGED <<timeline, torn, logFile, rows, opened>>
        /\ manifests' = manifests \cup {rows[s]}
        /\ pc[s] = "manifest" /\ pc'[s] = "open"
    BY <1>0, <1>8 DEF WriteManifest, Goto, TypeOK
  <2>2. Listed' = Listed
    BY <2>1 DEF Listed, IdsOf
  <2>3. Recording(rows[s])' /\ \A id : Recording(id) => Recording(id)'
    BY <1>0, <1>3, <2>1 DEF Recording, At
  <2>4. SnapTidy'
    BY <1>2, <1>3, <2>1, <2>2, <2>3 DEF SnapTidy
  <2>5. DiskTidy'
    BY <1>2, <2>1, <2>2, <2>3 DEF DiskTidy
  <2> QED BY <2>4, <2>5
<1>9. CASE OpenTimeline(s)
  <2>1. /\ UNCHANGED <<manifests, timeline, torn, logFile, rows>>
        /\ pc[s] = "open" /\ pc'[s] = "append" /\ opened'[s] = logFile
    BY <1>0, <1>9 DEF OpenTimeline, Goto, TypeOK
  <2>2. Listed' = Listed
    BY <2>1 DEF Listed, IdsOf
  <2>3. \A id : Recording(id) => Recording(id)'
    BY <1>0, <1>3, <2>1 DEF Recording, At
  <2>4. SnapTidy'
    BY <1>2, <1>3, <2>1, <2>2, <2>3 DEF SnapTidy
  <2>5. DiskTidy'
    BY <1>2, <2>1, <2>2, <2>3 DEF DiskTidy
  <2> QED BY <2>4, <2>5
<1>10. CASE AppendLine(s)
  <2>1. /\ UNCHANGED <<manifests, torn, logFile, rows, opened>>
        /\ pc[s] = "append" /\ pc'[s] = "created"
        /\ timeline' = timeline \cup
                {[no |-> appended + 1, id |-> rows[s], by |-> s]}
    <3>1. pc[s] = "append" /\ opened[s] = logFile /\ Readable
      BY <1>0, <1>2, <1>10 DEF AppendLine, SnapTidy, DiskTidy, Readable
    <3> QED BY <1>0, <1>10, <3>1 DEF AppendLine, Goto, TypeOK, snapping
  <2>2. Listed' = Listed \cup {rows[s]}
    <3> DEFINE new == [no |-> appended + 1, id |-> rows[s], by |-> s]
    <3>1. new.id = rows[s] /\ timeline' = timeline \cup {new}
      BY <2>1
    <3> HIDE DEF new
    <3> QED BY <3>1 DEF Listed, IdsOf
  <2>3. \A id : Recording(id) => Recording(id)' \/ id \in Listed'
    BY <1>0, <1>3, <2>1, <2>2 DEF Recording, At
  <2>4. SnapTidy'
    BY <1>2, <1>3, <2>1, <2>2, <2>3 DEF SnapTidy
  <2>5. rows[s] \in manifests
    BY <1>0, <2>1 DEF SnapStages, At
  <2>6. DiskTidy'
    BY <1>2, <2>1, <2>2, <2>3, <2>5 DEF DiskTidy
  <2> QED BY <2>4, <2>6
<1> QED BY <1>1, <1>5, <1>6, <1>7, <1>8, <1>9, <1>10 DEF SnapStep

LEMMA TidyPrune ==
    ASSUME Inv, Tidy, Exclusive', NEW g \in Pruners, PruneStep(g)
    PROVE  Tidy'
<1> SUFFICES ASSUME Clean' PROVE SnapTidy' /\ DiskTidy'
  BY DEF Tidy
<1>0. TypeOK /\ g \in Processes /\ PruneStage(g)
  BY DEF Inv, Processes
<1>1. \A s \in Snappers : pc[s] = "idle" /\ pc'[s] = "idle"
  BY PruneAlone, StoreAssumption DEF Inv, Processes
<1>2. /\ Clean /\ ~AbortPrune(g)
      /\ \A id \in doomed[g] : ~LeaveManifest(g, id)
      /\ \A c \in unswept[g] : ~LeaveBlob(g, c)
  BY <1>0 DEF PruneStep, Clean, TypeOK, StartPrune, PlanKeep, PlanFails,
              Collect, GlobManifests, RemoveManifest, LeaveManifest, Rewrite,
              Sweep, LeaveBlob, FinishPrune, AbortPrune, counters
<1>3. DiskTidy /\ \A id : ~Recording(id) /\ ~Recording(id)'
  BY <1>1, <1>2 DEF Tidy, Recording, At
<1>4. SnapTidy'
  BY <1>1 DEF SnapTidy
<1>5. ~(\E h \in Pruners \ {g} : pc[h] = "unlink")
  BY PruneAlone DEF Inv, Processes
\* A step that leaves the directory alone and the removals to come.
<1>6. ASSUME UNCHANGED <<manifests, timeline, torn>>, pc[g] # "unlink"
      PROVE  DiskTidy'
  <2>1. Listed' = Listed
    BY <1>6 DEF Listed, IdsOf
  <2> QED BY <1>3, <1>5, <1>6, <2>1 DEF DiskTidy
<1>7. ASSUME NEW id \in doomed[g], RemoveManifest(g, id) PROVE DiskTidy'
  <2>1. /\ UNCHANGED <<timeline, torn, pc>> /\ manifests' \subseteq manifests
        /\ pc[g] = "unlink"
    BY <1>7 DEF RemoveManifest
  <2>2. Listed' = Listed
    BY <2>1 DEF Listed, IdsOf
  <2> QED BY <1>3, <2>1, <2>2 DEF DiskTidy
<1>8. CASE Rewrite(g)
  <2>1. /\ UNCHANGED <<manifests, ioErrors>> /\ torn' = FALSE
        /\ timeline' = kept[g] /\ pc[g] = "unlink" /\ doomed[g] = {}
    BY <1>8 DEF Rewrite
  <2>2. Listed' = IdsOf(kept[g]) /\ IdsOf(kept[g]) \subseteq manifests
    BY <1>0, <2>1 DEF Listed, PruneStage, At
  <2>3. keep[g] \subseteq Listed'
    BY <1>0, <2>1, <2>2 DEF PruneStage, At, Listed, IdsOf
  <2>4. manifests \subseteq keep[g]
    BY <1>0, <1>2, <2>1 DEF PruneStage, Clean
  <2>5. Listed' \subseteq manifests' /\ \A id \in manifests' : id \in Listed'
    BY <2>1, <2>2, <2>3, <2>4
  <2>6. ~torn'
    BY <2>1
  <2> QED BY <1>4, <2>5, <2>6 DEF DiskTidy
<1>9. ASSUME NEW c \in unswept[g], Sweep(g, c) PROVE DiskTidy'
  BY <1>6, <1>9 DEF Sweep
<1>10. CASE \/ StartPrune(g) \/ PlanFails(g) \/ Collect(g) \/ GlobManifests(g)
            \/ FinishPrune(g) \/ \E ids \in SUBSET Listed : PlanKeep(g, ids)
  <2>1. UNCHANGED <<manifests, timeline, torn>>
    BY <1>10 DEF StartPrune, PlanFails, Collect, GlobManifests, FinishPrune,
                 PlanKeep, disk
  <2>2. pc[g] # "unlink"
    BY <1>10 DEF StartPrune, PlanFails, Collect, GlobManifests, FinishPrune,
                 PlanKeep
  <2> QED BY <1>4, <1>6, <2>1, <2>2
<1>11. \/ StartPrune(g) \/ PlanFails(g) \/ Collect(g) \/ GlobManifests(g)
       \/ FinishPrune(g) \/ Rewrite(g)
       \/ \E ids \in SUBSET Listed : PlanKeep(g, ids)
       \/ \E id \in doomed[g] : RemoveManifest(g, id)
       \/ \E c \in unswept[g] : Sweep(g, c)
  BY <1>2 DEF PruneStep
<1> QED BY <1>4, <1>7, <1>8, <1>9, <1>10, <1>11

LEMMA TidyStep == Inv /\ Tidy /\ [Next /\ Exclusive']_vars => Tidy'
<1> SUFFICES ASSUME Inv, Tidy, [Next /\ Exclusive']_vars PROVE Tidy'
  OBVIOUS
<1>1. CASE UNCHANGED vars
  BY <1>1 DEF vars, Tidy, Clean, SnapTidy, DiskTidy, Recording, At, Listed, IdsOf
<1> QED BY <1>1, TidySnap, TidyPrune DEF Next

\* While no command overlaps a prune and nothing has failed, the id a command
\* returns can be restored, now or when the command that records the same tree
\* has added its line (snapshot.go: Create; index.go: WriteSnapshot).
THEOREM ReturnedIsSaved == ExclusiveSpec => []ReturnMeansSaved
<1>1. ASSUME Inv, Tidy, Clean, NEW s \in Snappers, At(s, {"created", "exists"})
      PROVE  \/ Restorable(rows[s])
             \/ Stored(rows[s]) /\ Recording(rows[s])
  <2>1. SnapTidy /\ DiskTidy /\ SnapStages /\ Exclusive
    BY <1>1 DEF Inv, Tidy
  <2>2. \A g \in Pruners : pc[g] # "unlink"
    BY <1>1, <2>1, StoreAssumption DEF Exclusive, Active, Processes, At
  <2>3. Listed \subseteq manifests /\ ~torn
    BY <2>1, <2>2 DEF DiskTidy
  <2>4. Recording(rows[s]) => rows[s] \in manifests
    BY <2>1 DEF Recording, SnapStages
  <2>5. Refs(rows[s]) \subseteq objects
    BY <2>1 DEF SnapStages
  <2>6. rows[s] \in Listed \/ Recording(rows[s])
    BY <1>1, <2>1 DEF SnapTidy, At
  <2> QED BY <2>3, <2>4, <2>5, <2>6 DEF Restorable, Readable, Saved, Stored
<1>2. Inv /\ Tidy => ReturnMeansSaved
  BY <1>1 DEF ReturnMeansSaved, Clean, Recording
<1> QED BY TidyInit, InvInit, InvStep, TidyStep, <1>2, PTL DEF ExclusiveSpec

\* While no command overlaps a prune and nothing has failed, a prune that comes
\* to its collection finds the manifest of every line (gc.go:80).
THEOREM PrunesDoGoThrough == ExclusiveSpec => []PrunesGoThrough
<1>1. ASSUME Inv, Tidy, Clean, NEW g \in Pruners, pc[g] = "collect"
      PROVE  Readable /\ Listed \subseteq manifests
  <2>1. \A h \in Pruners : pc[h] # "unlink"
    BY <1>1 DEF Inv, Exclusive, Active, Processes
  <2> QED BY <1>1, <2>1 DEF Tidy, DiskTidy, Readable
<1>2. Inv /\ Tidy => PrunesGoThrough
  BY <1>1 DEF PrunesGoThrough, Clean
<1> QED BY TidyInit, InvInit, InvStep, TidyStep, <1>2, PTL DEF ExclusiveSpec

-----------------------------------------------------------------------------
(***************************************************************************)
(* Whatever overlaps, as long as there is one prune at a time: what the    *)
(* plan keeps is among the lines that GC writes back, because only GC      *)
(* takes lines off the timeline.                                           *)
(***************************************************************************)
PruneKeeps ==
    \A g \in Pruners :
        /\ pc[g] = "collect" => keep[g] \subseteq Listed
        /\ At(g, {"glob", "unlink", "sweep"}) => keep[g] \subseteq IdsOf(kept[g])
        /\ pc[g] = "unlink" => doomed[g] \cap keep[g] = {}

LEMMA PruneKeepsStep ==
    ASSUME \A g, h \in Pruners : g = h, TypeOK, PruneKeeps, [Next]_vars
    PROVE  PruneKeeps'
<1>1. ASSUME NEW s \in Snappers, SnapStep(s) PROVE PruneKeeps'
  <2>1. /\ UNCHANGED <<keep, kept, doomed>>
        /\ timeline \subseteq timeline'
        /\ \A g \in Pruners : pc'[g] = pc[g]
    BY <1>1, StoreAssumption
       DEF SnapStep, TypeOK, Processes, StartSnap, Visit, Compare, StatManifest,
           WriteManifest, OpenTimeline, AppendLine, TearLine, Return, AbortSnap,
           EndSnap, Goto
  <2>2. Listed \subseteq Listed'
    BY <2>1 DEF Listed, IdsOf
  <2> QED BY <2>1, <2>2 DEF PruneKeeps, At
<1>2. ASSUME NEW g \in Pruners, PruneStep(g) PROVE PruneKeeps'
  <2> DEFINE K == /\ pc[g] = "collect" => keep[g] \subseteq Listed
                  /\ At(g, {"glob", "unlink", "sweep"}) =>
                        keep[g] \subseteq IdsOf(kept[g])
                  /\ pc[g] = "unlink" => doomed[g] \cap keep[g] = {}
  <2>0. g \in Processes /\ K
    BY DEF Processes, PruneKeeps
  <2> SUFFICES K'
    BY DEF PruneKeeps
  <2>1. ASSUME pc'[g] \in {"plan", "idle"} PROVE K'
    BY <2>1 DEF At
  <2>2. ASSUME StartPrune(g) \/ PlanFails(g) \/ FinishPrune(g) \/ AbortPrune(g)
        PROVE  K'
    <3>1. pc'[g] \in {"plan", "idle"}
      BY <2>0, <2>2
         DEF TypeOK, StartPrune, PlanFails, FinishPrune, AbortPrune, EndPrune, Goto
    <3> QED BY <2>1, <3>1
  <2>3. ASSUME NEW ids \in SUBSET Listed, PlanKeep(g, ids) PROVE K'
    <3>1. pc'[g] = "collect" /\ keep'[g] = ids /\ UNCHANGED timeline
      BY <2>0, <2>3 DEF PlanKeep, Goto, TypeOK
    <3> QED BY <3>1 DEF At, Listed
  <2>4. ASSUME Collect(g) PROVE K'
    <3>1. CASE EndPrune(g)
      BY <2>0, <2>1, <3>1 DEF EndPrune, Goto, TypeOK
    <3>2. CASE /\ kept'[g] = {l \in timeline : l.id \in keep[g]}
               /\ keep' = keep /\ pc'[g] = "glob"
      <4>1. keep[g] \subseteq Listed
        BY <2>0, <2>4 DEF Collect
      <4> QED BY <3>2, <4>1 DEF At, Listed, IdsOf
    <3> QED BY <2>0, <2>4, <3>1, <3>2 DEF Collect, Goto, TypeOK
  <2>5. ASSUME GlobManifests(g) PROVE K'
    <3>1. /\ pc[g] = "glob" /\ pc'[g] = "unlink" /\ UNCHANGED <<keep, kept>>
          /\ doomed'[g] = manifests \ keep[g]
      BY <2>0, <2>5 DEF GlobManifests, Goto, TypeOK
    <3> QED BY <2>0, <3>1 DEF At
  <2>6. ASSUME NEW id \in doomed[g], RemoveManifest(g, id) \/ LeaveManifest(g, id)
        PROVE  K'
    <3>1. /\ UNCHANGED <<pc, keep, kept>> /\ pc[g] = "unlink"
          /\ doomed'[g] = doomed[g] \ {id}
      BY <2>6 DEF RemoveManifest, LeaveManifest, TypeOK
    <3> QED BY <2>0, <3>1 DEF At
  <2>7. ASSUME Rewrite(g) PROVE K'
    <3>1. UNCHANGED <<keep, kept>> /\ pc[g] = "unlink" /\ pc'[g] = "sweep"
      BY <2>0, <2>7 DEF Rewrite, Goto, TypeOK
    <3> QED BY <2>0, <3>1 DEF At
  <2>8. ASSUME NEW c \in unswept[g], Sweep(g, c) \/ LeaveBlob(g, c) PROVE K'
    <3>1. UNCHANGED <<pc, keep, kept>> /\ pc[g] = "sweep"
      BY <2>8 DEF Sweep, LeaveBlob
    <3> QED BY <2>0, <3>1 DEF At
  <2> QED BY <1>2, <2>2, <2>3, <2>4, <2>5, <2>6, <2>7, <2>8 DEF PruneStep
<1>3. CASE UNCHANGED vars
  BY <1>3 DEF vars, PruneKeeps, At, Listed
<1> QED BY <1>1, <1>2, <1>3 DEF Next

\* A saved snapshot that every running prune keeps is saved after the step.
LEMMA KeptSurviveStep ==
    ASSUME \A g, h \in Pruners : g = h, TypeOK, PruneKeeps, [Next]_vars,
           NEW id \in Id, Saved(id),
           \A g \in Pruners : Decided(g) => id \in keep[g]
    PROVE  Saved(id)'
<1> USE DEF Saved, Stored
<1>1. ASSUME NEW s \in Snappers, SnapStep(s) PROVE Saved(id)'
  <2>1. /\ objects \subseteq objects'
        /\ manifests \subseteq manifests'
        /\ timeline \subseteq timeline'
    BY <1>1 DEF SnapStep, StartSnap, Visit, Compare, StatManifest,
           WriteManifest, OpenTimeline, AppendLine, TearLine, Return, AbortSnap
  <2> QED BY <2>1 DEF Listed, IdsOf
<1>2. ASSUME NEW g \in Pruners, PruneStep(g) PROVE Saved(id)'
  <2>1. CASE UNCHANGED <<objects, manifests, timeline>>
    BY <2>1 DEF Listed
  <2>2. ASSUME NEW x \in doomed[g], RemoveManifest(g, x) PROVE Saved(id)'
    <3>1. /\ pc[g] = "unlink" /\ UNCHANGED <<objects, timeline>>
          /\ manifests' = manifests \ {x}
      BY <2>2 DEF RemoveManifest
    <3>2. id \in keep[g]
      BY <3>1 DEF Decided
    <3>3. x # id
      BY <3>1, <3>2 DEF PruneKeeps
    <3> QED BY <3>1, <3>3 DEF Listed
  <2>3. ASSUME Rewrite(g) PROVE Saved(id)'
    <3>1. /\ pc[g] = "unlink" /\ UNCHANGED <<objects, manifests>>
          /\ timeline' = kept[g]
      BY <2>3 DEF Rewrite
    <3>2. id \in keep[g] /\ keep[g] \subseteq IdsOf(kept[g])
      BY <3>1 DEF Decided, PruneKeeps, At
    <3> QED BY <3>1, <3>2 DEF Listed
  <2>4. ASSUME NEW c \in unswept[g], Sweep(g, c) PROVE Saved(id)'
    <3>1. pc[g] = "sweep" /\ UNCHANGED <<manifests, timeline>>
      BY <2>4 DEF Sweep
    <3>2. id \in keep[g] /\ keep[g] \subseteq IdsOf(kept[g])
      BY <3>1 DEF Decided, PruneKeeps, At
    <3>3. Refs(id) \subseteq objects'
      BY <2>4, <3>2 DEF Sweep
    <3> QED BY <3>1, <3>3 DEF Listed
  <2> QED BY <1>2, <2>1, <2>2, <2>3, <2>4
          DEF PruneStep, StartPrune, PlanKeep, PlanFails, Collect,
              GlobManifests, LeaveManifest, LeaveBlob, FinishPrune, AbortPrune
<1>3. CASE UNCHANGED vars
  BY <1>3 DEF vars, Listed
<1> QED BY <1>1, <1>2, <1>3 DEF Next

\* Under any overlap of snapshots with one prune at a time, no step takes a
\* saved snapshot away that the prune has not decided to drop.
THEOREM KeptAlwaysSurvive ==
    (\A g, h \in Pruners : g = h) /\ Spec => KeptSurvive
<1> SUFFICES ASSUME \A g, h \in Pruners : g = h PROVE Spec => KeptSurvive
  OBVIOUS
<1> DEFINE Keeps == \A id \in Id :
            Saved(id) /\ (\A g \in Pruners : Decided(g) => id \in keep[g])
                => Saved(id)'
<1>1. Init => TypeOK /\ PruneKeeps
  BY TypeInit DEF Init, PruneKeeps, At, Processes
<1>2. TypeOK /\ PruneKeeps /\ [Next]_vars => (TypeOK /\ PruneKeeps)' /\ Keeps
  BY TypeStep, PruneKeepsStep, KeptSurviveStep
<1>3. Spec => [][Keeps]_vars
  BY <1>1, <1>2, PTL DEF Spec
<1> QED BY <1>3 DEF KeptSurvive

-----------------------------------------------------------------------------
(* The store implements the history of module History. *)

SavedIds == {id \in Listed : Stored(id)}
NoChange == UNCHANGED <<SavedIds, NewestIds>>

\* With Inv, what is saved is what is listed and has its manifest: of a
\* snapshot's steps the manifest and the line can change it, one at a time.
LEMMA SnapRefines ==
    ASSUME Inv, Inv', NEW s \in Snappers, SnapStep(s)
    PROVE  H!Next \/ NoChange
<1>1. /\ SavedIds = Listed \cap manifests
      /\ SavedIds' = Listed' \cap manifests'
  BY DEF Inv, ListedIntact, SavedIds, Stored
<1>2. rows[s] \in Id
  BY DEF Inv, TypeOK
<1>3. CASE UNCHANGED <<manifests, timeline>>
  BY <1>1, <1>3 DEF NoChange, Listed, NewestIds, Newest, IdsOf
<1>4. CASE WriteManifest(s)
  <2>1. UNCHANGED <<Listed, NewestIds>> /\ manifests' = manifests \cup {rows[s]}
    BY <1>4 DEF WriteManifest, Listed, NewestIds, Newest, IdsOf
  <2>2. CASE rows[s] \in Listed
    <3>1. H!Recover(rows[s])
      BY <1>1, <2>1, <2>2 DEF H!Recover, SavedIds
    <3> QED BY <1>2, <3>1 DEF H!Next
  <2>3. CASE rows[s] \notin Listed
    BY <1>1, <2>1, <2>3 DEF NoChange
  <2> QED BY <2>2, <2>3
<1>5. CASE AppendLine(s) /\ timeline' # timeline
  <2> DEFINE new == [no |-> appended + 1, id |-> rows[s], by |-> s]
  <2>1. UNCHANGED manifests /\ rows[s] \in manifests /\ timeline' = timeline \cup {new}
    BY <1>5 DEF AppendLine, Inv, SnapStages, At
  <2>2. Newest(timeline') = {new}
    <3>1. timeline \subseteq Line /\ appended \in Nat /\ new \in Line
      BY <1>2 DEF Inv, TypeOK, Line
    <3>2. \A l \in timeline : l.no <= appended
      BY DEF Inv, Numbered
    <3> QED BY <2>1, <3>1, <3>2, NewestAppended
  <2>3. NewestIds' = {rows[s]} /\ Listed' = Listed \cup {rows[s]}
    <3>1. new.id = rows[s]
      OBVIOUS
    <3> HIDE DEF new
    <3>2. NewestIds' = {new.id}
      BY <2>2 DEF NewestIds, IdsOf
    <3>3. Listed' = Listed \cup {new.id}
      BY <2>1 DEF Listed, IdsOf
    <3> QED BY <3>1, <3>2, <3>3
  <2>4. H!Record(rows[s])
    BY <1>1, <2>1, <2>3 DEF H!Record, SavedIds
  <2> QED BY <1>2, <2>4 DEF H!Next
<1> QED BY <1>3, <1>4, <1>5
        DEF SnapStep, StartSnap, Visit, Compare, StatManifest, OpenTimeline,
            AppendLine, TearLine, Return, AbortSnap

\* Of a prune's steps, the removal of a manifest and the rewrite can change it.
LEMMA PruneRefines ==
    ASSUME Inv, Inv', NEW g \in Pruners, PruneStep(g)
    PROVE  H!Next \/ NoChange
<1>1. /\ SavedIds = Listed \cap manifests
      /\ SavedIds' = Listed' \cap manifests'
  BY DEF Inv, ListedIntact, SavedIds, Stored
<1>2. PruneStage(g)
  BY DEF Inv
<1>3. CASE UNCHANGED <<manifests, timeline>>
  BY <1>1, <1>3 DEF NoChange, Listed, NewestIds, Newest, IdsOf
<1>4. ASSUME NEW id \in doomed[g], RemoveManifest(g, id)
      PROVE  H!Next \/ NoChange
  <2> DEFINE S == SavedIds \cap {id}
  <2>1. /\ UNCHANGED <<Listed, NewestIds>> /\ manifests' = manifests \ {id}
        /\ id \notin NewestIds
    BY <1>2, <1>4 DEF RemoveManifest, PruneStage, At, Listed, NewestIds, Newest, IdsOf
  <2>2. H!Forget(S)
    BY <1>1, <2>1 DEF H!Forget, SavedIds
  <2> QED BY <2>2 DEF H!Next, SavedIds
<1>5. CASE Rewrite(g)
  <2> DEFINE S == SavedIds \ keep[g]
  <2>1. /\ UNCHANGED manifests
        /\ timeline' = {l \in timeline : l.id \in keep[g]}
        /\ NewestIds \subseteq keep[g]
    BY <1>2, <1>5 DEF Rewrite, PruneStage, At
  <2>2. Newest(timeline') = Newest(timeline)
    BY <2>1, NewestSelected DEF Inv, TypeOK, Numbered, NewestIds
  <2>3. NewestIds' = NewestIds /\ Listed' = Listed \cap keep[g]
    BY <2>1, <2>2 DEF NewestIds, Listed, IdsOf
  <2>4. H!Forget(S)
    BY <1>1, <2>1, <2>3 DEF H!Forget, SavedIds
  <2> QED BY <2>4 DEF H!Next, SavedIds
<1> QED BY <1>3, <1>4, <1>5
        DEF PruneStep, StartPrune, PlanKeep, PlanFails, Collect, GlobManifests,
            LeaveManifest, Sweep, LeaveBlob, FinishPrune, AbortPrune

\* While no command overlaps a prune, every behaviour of the store is one of
\* the abstract history, crashes and failing removals included.
THEOREM StoreImplementsHistory == ExclusiveSpec => ImplementsHistory
<1>1. Init => H!Init
  BY DEF Init, H!Init, NewestIds, Newest, Listed, IdsOf
<1>2. Inv /\ Inv' /\ [Next /\ Exclusive']_vars
        => [H!Next]_<<{id \in Listed : Stored(id)}, NewestIds>>
  <2> SUFFICES ASSUME Inv, Inv', [Next /\ Exclusive']_vars
               PROVE  H!Next \/ NoChange
    BY DEF NoChange, SavedIds
  <2>1. CASE Next
    BY <2>1, SnapRefines, PruneRefines DEF Next
  <2>2. CASE UNCHANGED vars
    BY <2>2 DEF vars, NoChange, SavedIds, Stored, Listed, NewestIds, Newest, IdsOf
  <2> QED BY <2>1, <2>2
<1> QED BY <1>1, <1>2, InvHolds, PTL DEF ExclusiveSpec, ImplementsHistory, H!Spec

-----------------------------------------------------------------------------
(* Restores. *)

USE DEF restoring, history

(***************************************************************************)
(* A walk comes to each path once, so a snapshot has one row for a path:   *)
(* that is what makes the order of the writes irrelevant.                  *)
(***************************************************************************)

Functional(id) == \A x, y \in id : x[1] = y[1] => x = y

Walked ==
    /\ \A s \in Snappers :
        /\ Functional(rows[s])
        /\ \A x \in rows[s] : x[1] < cursor[s]
        /\ pc[s] = "idle" => cursor[s] = 1
        /\ pc[s] \notin {"idle", "walk"} => cursor[s] \notin Path
    /\ \A id \in Listed : Functional(id)

\* The safety snapshots that succeeded can be found, or are about to be.
Safe(id) == Stored(id) /\ (id \in Listed \/ Recording(id))

\* No prune is there to run.
Quiet == \A g \in Pruners : pc[g] = "idle"

StoreInv == Inv /\ Tidy /\ Walked /\ Quiet

LEMMA SnapWalked ==
    ASSUME Inv, Walked, NEW s \in Snappers, SnapStep(s)
    PROVE  Walked'
<1>0. TypeOK
  BY DEF Inv
<1>1. CASE \E found \in Content \cup {Skipped} : Visit(s, found)
  <2>1. PICK found \in Content \cup {Skipped} : Visit(s, found)
    BY <1>1
  <2> DEFINE row == <<cursor[s], found>>
  <2>2. /\ pc[s] = "walk" /\ cursor[s] \in Path /\ cursor[s] \in Nat
        /\ UNCHANGED <<pc, timeline>>
        /\ cursor'[s] = cursor[s] + 1
        /\ rows'[s] = rows[s] \/ rows'[s] = rows[s] \cup {row}
        /\ \A q \in Snappers \ {s} : rows'[q] = rows[q] /\ cursor'[q] = cursor[q]
    BY <1>0, <2>1, StoreAssumption DEF Visit, TypeOK, Path
  <2>3. \A x \in rows[s] : x[1] \in Nat
    BY <1>0 DEF TypeOK, Id, Row, Path
  <2>4. Functional(rows'[s]) /\ \A x \in rows'[s] : x[1] < cursor'[s]
    BY <2>2, <2>3 DEF Walked, Functional
  <2>5. Listed' = Listed
    BY <2>2 DEF Listed, IdsOf
  <2> QED BY <2>2, <2>4, <2>5 DEF Walked
<1>2. ASSUME \A q \in Snappers : rows'[q] = rows[q] /\ cursor'[q] = cursor[q],
             \A q \in Snappers : pc'[q] = "idle" => pc[q] = "idle",
             \A q \in Snappers : pc'[q] \notin {"idle", "walk"} =>
                pc[q] \notin {"idle", "walk"} \/ cursor[q] \notin Path,
             \A id \in Listed' : id \in Listed \/ \E q \in Snappers : id = rows[q]
      PROVE  Walked'
  BY <1>2 DEF Walked
<1>3. CASE StartSnap(s)
  <2>1. UNCHANGED <<rows, cursor, timeline>> /\ pc' = [pc EXCEPT ![s] = "walk"]
    BY <1>3 DEF StartSnap, Goto
  <2>2. Listed' = Listed
    BY <2>1 DEF Listed, IdsOf
  <2> QED BY <1>0, <1>2, <2>1, <2>2 DEF TypeOK, Processes
<1>4. CASE Compare(s) \/ StatManifest(s) \/ WriteManifest(s) \/ OpenTimeline(s)
  <2>1. /\ UNCHANGED <<rows, cursor, timeline>>
        /\ \A q \in Snappers \ {s} : pc'[q] = pc[q]
        /\ pc'[s] \notin {"idle", "walk"}
        /\ pc[s] = "walk" => cursor[s] \notin Path
        /\ pc[s] # "idle"
    BY <1>0, <1>4 DEF Compare, StatManifest, WriteManifest, OpenTimeline, Goto,
                      TypeOK, Processes
  <2>2. Listed' = Listed
    BY <2>1 DEF Listed, IdsOf
  <2> QED BY <1>2, <2>1, <2>2
<1>5. CASE AppendLine(s)
  <2>1. /\ UNCHANGED <<rows, cursor>>
        /\ \A q \in Snappers \ {s} : pc'[q] = pc[q]
        /\ pc[s] = "append" /\ pc'[s] = "created"
    BY <1>0, <1>5 DEF AppendLine, Goto, TypeOK, Processes
  <2>2. \A id \in Listed' : id \in Listed \/ id = rows[s]
    BY <1>5 DEF AppendLine, Listed, IdsOf
  <2> QED BY <1>2, <2>1, <2>2
<1>6. CASE TearLine(s) \/ Return(s) \/ AbortSnap(s)
  <2>1. UNCHANGED timeline /\ EndSnap(s)
    BY <1>6 DEF TearLine, Return, AbortSnap
  <2>2. /\ \A q \in Snappers \ {s} : /\ pc'[q] = pc[q] /\ rows'[q] = rows[q]
                                    /\ cursor'[q] = cursor[q]
        /\ pc'[s] = "idle" /\ rows'[s] = {} /\ cursor'[s] = 1
    BY <1>0, <2>1 DEF EndSnap, Goto, TypeOK, Processes
  <2>3. Listed' = Listed
    BY <2>1 DEF Listed, IdsOf
  <2> QED BY <2>2, <2>3 DEF Walked, Functional
<1> QED BY <1>1, <1>3, <1>4, <1>5, <1>6 DEF SnapStep

\* What the store gains by the step of a snapshot it does not lose again.
LEMMA SnapGrows ==
    ASSUME Inv, Tidy, Clean', NEW s \in Snappers, SnapStep(s), NEW id, Safe(id)
    PROVE  Safe(id)'
<1>0. TypeOK /\ s \in Processes
  BY DEF Inv, Processes
<1>1. CASE ~AppendLine(s)
  <2>1. /\ objects \subseteq objects' /\ manifests \subseteq manifests'
        /\ UNCHANGED timeline
    BY <1>1 DEF SnapStep, StartSnap, Visit, Compare, StatManifest,
                WriteManifest, OpenTimeline, TearLine, Return, AbortSnap
  <2>2. Listed' = Listed
    BY <2>1 DEF Listed, IdsOf
  <2>3. ~TearLine(s) /\ ~AbortSnap(s)
    BY <1>0 DEF Clean, TypeOK, TearLine, AbortSnap
  <2>4. At(s, {"open", "append"}) => At(s, {"open", "append"})' /\ rows'[s] = rows[s]
    BY <1>0, <1>1, <2>3
       DEF SnapStep, StartSnap, Visit, Compare, StatManifest, WriteManifest,
           OpenTimeline, Return, Goto, At, TypeOK
  <2>5. \A q \in Snappers \ {s} : pc'[q] = pc[q] /\ rows'[q] = rows[q]
    <3> USE <1>0 DEF TypeOK, Goto, Processes
    <3>1. ASSUME NEW found \in Content \cup {Skipped}, Visit(s, found)
          PROVE  \A q \in Snappers \ {s} : pc'[q] = pc[q] /\ rows'[q] = rows[q]
      BY <3>1 DEF Visit
    <3>2. CASE StartSnap(s) \/ Compare(s) \/ StatManifest(s) \/ WriteManifest(s)
      BY <3>2 DEF StartSnap, Compare, StatManifest, WriteManifest
    <3>3. CASE OpenTimeline(s) \/ Return(s)
      BY <3>3 DEF OpenTimeline, Return, EndSnap
    <3> QED BY <1>1, <2>3, <3>1, <3>2, <3>3 DEF SnapStep
  <2>6. Recording(id) => Recording(id)'
    BY <2>4, <2>5 DEF Recording, At
  <2> QED BY <2>1, <2>2, <2>6 DEF Safe, Stored
<1>2. CASE AppendLine(s)
  <2>1. Clean
    BY <1>2 DEF AppendLine, Clean
  <2>2. pc[s] = "append" /\ opened[s] = logFile /\ Readable
    BY <1>2, <2>1 DEF Tidy, SnapTidy, DiskTidy, AppendLine, Readable
  <2> DEFINE new == [no |-> appended + 1, id |-> rows[s], by |-> s]
  <2>3. /\ UNCHANGED <<objects, manifests, rows>>
        /\ pc' = [pc EXCEPT ![s] = "created"]
        /\ timeline' = timeline \cup {new} /\ new.id = rows[s]
    BY <1>2, <2>2 DEF AppendLine, Goto
  <2> HIDE DEF new
  <2>4. Listed' = Listed \cup {rows[s]}
    BY <2>3 DEF Listed, IdsOf
  <2>5. Recording(id) => Recording(id)' \/ id = rows[s]
    BY <1>0, <2>3 DEF Recording, At, TypeOK, Processes
  <2> QED BY <2>3, <2>4, <2>5 DEF Safe, Stored
<1> QED BY <1>1, <1>2

-----------------------------------------------------------------------------
(***************************************************************************)
(* The restores.  TreeMatches needs what has been written so far, and      *)
(* OverwrittenIsSaved that what has not been written yet is what the walk  *)
(* of the safety snapshot saw.                                             *)
(***************************************************************************)

Under(r) == rpc[r] \in {"safety", "write", "clean", "done"}

Staged(r) ==
    /\ Active(r) => rpc[r] = "safety"
    /\ Functional(target[r]) /\ left[r] \subseteq target[r]
    /\ rpc[r] = "safety" =>
        safety[r] = {} /\ (mode[r] = "tree" => left[r] = target[r])
    /\ rpc[r] \in {"clean", "done"} => left[r] = {}
    /\ rpc[r] = "done" => unclean[r] = {}

Written(r) ==
    Under(r) /\ mode[r] = "tree" =>
        \A x \in target[r] \ left[r] : x[1] \in touched[r] \/ tree[x[1]] = x[2]

Cleaned(r) ==
    rpc[r] \in {"clean", "done"} /\ cleaning[r] /\ ioErrors = 0 =>
        \A p \in Path \ (touched[r] \cup unclean[r]) :
            Tracks(r, p) /\ (\A x \in target[r] : x[1] # p) => tree[p] = Absent

\* What a walk has to have of the path p that it has found c at.
Takes(r, p, c, id) == c \in Content \ Oversize /\ Tracks(r, p) => <<p, c>> \in id

Seen(r) ==
    rpc[r] = "safety" =>
        /\ \A x \in rows[r] : x[2] = origin[r][x[1]]
        /\ \A p \in Path : p < cursor[r] =>
            /\ Takes(r, p, origin[r][p], rows[r])
            /\ p \in touched[r] \/ tree[p] = origin[r][p]

Kept(r) ==
    \A id \in safety[r] :
        /\ Clean => Safe(id)
        /\ \A x \in id : x[2] = origin[r][x[1]]
        /\ \A p \in Path : Takes(r, p, origin[r][p], id)

\* The restore has not come to p.
Unhandled(r, p) ==
    /\ \A x \in target[r] : x[1] = p => x \in left[r]
    /\ rpc[r] = "clean" => p \in unclean[r]

Same(r) ==
    rpc[r] \in {"write", "clean"} /\ safety[r] # {} =>
        \A p \in Path \ touched[r] : Unhandled(r, p) => tree[p] = origin[r][p]

Goals(r) ==
    \A x \in goal[r] :
        /\ x[1] \notin touched[r]
        /\ x[2] \in Content => x \in target[r]
        /\ x[2] = Absent => \A y \in target[r] : y[1] # x[1]

Fine(r) ==
    /\ Staged(r) /\ Written(r) /\ Cleaned(r)
    /\ Seen(r) /\ Kept(r) /\ Same(r) /\ Goals(r)

RInv ==
    /\ RTypeOK
    /\ StoreInv
    /\ \A r \in Restorers : Fine(r)

LEMMA RInvInit == RInit => RInv
<1> SUFFICES ASSUME RInit PROVE RInv
  OBVIOUS
<1>1. TypeOK /\ Inv /\ Tidy
  BY TypeInit, InvInit, TidyInit DEF RInit
<1>2. Restorers \subseteq Processes /\ Restorers \subseteq Snappers
  BY RestoreAssumption DEF Processes
<1>3. Walked
  BY DEF RInit, Init, Walked, Functional, Listed, IdsOf, Processes
<1>4. RTypeOK
  BY <1>1, <1>2, RestoreAssumption DEF RInit, RTypeOK, Id
<1>5. \A r \in Restorers : Fine(r)
  BY <1>2 DEF RInit, Init, Fine, Staged, Active, Functional, Written, Under,
              Cleaned, Seen, Kept, Same, Goals
<1>6. Quiet
  BY DEF RInit, Init, Quiet, Processes
<1> QED BY <1>1, <1>3, <1>4, <1>5, <1>6 DEF RInv, StoreInv

-----------------------------------------------------------------------------
(* What a step does to the store *)

\* The commands' counters move, and nothing else.
LEMMA CountersOnly ==
    ASSUME StoreInv, UNCHANGED <<disk, pc, snapping, pruning>>,
           commands' \in Nat, aborts' \in Nat, ioErrors' \in Nat,
           Clean' => Clean
    PROVE  StoreInv'
<1>1. TypeOK'
  BY DEF StoreInv, Inv, TypeOK
<1>2. Inv'
  <2>1. Exclusive' /\ (\A g \in Pruners : PruneStage(g))'
    BY DEF StoreInv, Quiet, Exclusive, Active, PruneStage, At
  <2> QED BY <1>1, <2>1
          DEF StoreInv, Inv, SnapStages, At, Refs, Numbered, ListedIntact,
              NewestIds, Newest, Listed, IdsOf
<1>3. Tidy'
  BY DEF StoreInv, Tidy, SnapTidy, DiskTidy, Recording, At, Listed, IdsOf
<1>4. Walked'
  BY DEF StoreInv, Walked, Listed, IdsOf
<1>5. Quiet'
  BY DEF StoreInv, Quiet
<1> QED BY <1>2, <1>3, <1>4, <1>5 DEF StoreInv

\* A step of a snapshot is no step of a prune.
LEMMA SnapQuiet ==
    ASSUME TypeOK, Quiet, NEW s \in Snappers, SnapStep(s)
    PROVE  Quiet' /\ Exclusive'
<1> USE StoreAssumption DEF TypeOK, Goto, Processes
<1>1. ASSUME NEW found \in Content \cup {Skipped}, Visit(s, found)
      PROVE  Quiet'
  BY <1>1 DEF Visit, Quiet
<1>2. CASE StartSnap(s) \/ Compare(s) \/ StatManifest(s) \/ WriteManifest(s)
  <2>1. Quiet'
    BY <1>2 DEF StartSnap, Compare, StatManifest, WriteManifest, Quiet
  <2> QED BY <2>1 DEF Quiet, Exclusive, Active
<1>3. CASE OpenTimeline(s) \/ AppendLine(s)
  <2>1. Quiet'
    BY <1>3 DEF OpenTimeline, AppendLine, Quiet
  <2> QED BY <2>1 DEF Quiet, Exclusive, Active
<1>4. CASE TearLine(s) \/ Return(s) \/ AbortSnap(s)
  <2>1. Quiet'
    BY <1>4 DEF TearLine, Return, AbortSnap, EndSnap, Quiet
  <2> QED BY <2>1 DEF Quiet, Exclusive, Active
<1>5. Quiet' => Exclusive'
  BY DEF Quiet, Exclusive, Active
<1> QED BY <1>1, <1>2, <1>3, <1>4, <1>5 DEF SnapStep

LEMMA SnapStoreInv ==
    ASSUME StoreInv, NEW s \in Snappers, SnapStep(s)
    PROVE  StoreInv'
<1>1. Quiet' /\ Exclusive'
  BY SnapQuiet DEF StoreInv, Inv
<1>2. Inv'
  BY <1>1, SnapInv DEF StoreInv
<1>3. Tidy'
  BY <1>1, TidySnap DEF StoreInv
<1>4. Walked'
  BY SnapWalked DEF StoreInv
<1> QED BY <1>1, <1>2, <1>3, <1>4 DEF StoreInv

\* No step gives a failed command back.
StoreMoves ==
    /\ Clean' => Clean
    /\ ioErrors' = 0 => ioErrors = 0
    /\ \A id \in Id : Clean' /\ Safe(id) => Safe(id)'

LEMMA SnapMoves ==
    ASSUME StoreInv, NEW s \in Snappers, SnapStep(s)
    PROVE  StoreMoves
<1>1. (Clean' => Clean) /\ (ioErrors' = 0 => ioErrors = 0)
  BY DEF StoreInv, Inv, TypeOK, Clean, SnapStep, StartSnap, Visit, Compare,
         StatManifest, WriteManifest, OpenTimeline, AppendLine, TearLine,
         Return, AbortSnap
<1> QED BY <1>1, SnapGrows DEF StoreInv, StoreMoves

LEMMA CountersMove ==
    ASSUME UNCHANGED <<disk, pc, snapping>>, Clean' => Clean,
           ioErrors' = 0 => ioErrors = 0
    PROVE  StoreMoves
BY DEF StoreMoves, Safe, Stored, Recording, At, Listed, IdsOf

-----------------------------------------------------------------------------
(* Types *)

LEMMA PutTypes ==
    ASSUME RTypeOK, NEW p \in Path, NEW c \in Content \cup {Absent}, NEW by,
           Put(p, c, by)
    PROVE  /\ tree' \in [Path -> Content \cup {Absent}]
           /\ touched' \in [Restorers -> SUBSET Path]
           /\ goal' \in [Restorers -> SUBSET (Path \X (Content \cup {Absent}))]
BY DEF Put, RTypeOK

\* What a step must leave as it is once it has been seen to the rest.
RestTypes ==
    /\ ignored \in [Snappers -> SUBSET Path]
    /\ rpc \in [Restorers -> {"idle", "safety", "write", "clean", "done"}]
    /\ target \in [Restorers -> Id]
    /\ left \in [Restorers -> Id]
    /\ cleaning \in [Restorers -> BOOLEAN]
    /\ mode \in [Restorers -> {"tree", "files"}]
    /\ unclean \in [Restorers -> SUBSET Path]
    /\ safety \in [Restorers -> SUBSET Id]
    /\ edits \in Nat
    /\ origin \in [Restorers -> [Path -> Content \cup {Absent}]]

TreeTypes ==
    /\ tree \in [Path -> Content \cup {Absent}]
    /\ touched \in [Restorers -> SUBSET Path]
    /\ goal \in [Restorers -> SUBSET (Path \X (Content \cup {Absent}))]

LEMMA RTypeParts == RTypeOK <=> TypeOK /\ TreeTypes /\ RestTypes
BY DEF RTypeOK, TreeTypes, RestTypes

LEMMA BeginTypes ==
    ASSUME RTypeOK, NEW r \in Restorers, NEW id \in Listed \cap manifests,
           NEW rows0 \in SUBSET id, NEW clean \in BOOLEAN,
           NEW how \in {"tree", "files"}, NEW rule \in IgnoreRules,
           NEW safe \in BOOLEAN, Begin(r, id, rows0, clean, how, rule, safe)
    PROVE  TreeTypes' /\ RestTypes'
<1>1. id \in Id /\ rows0 \in Id /\ rule \in SUBSET Path /\ r \in Snappers
  BY RestoreAssumption DEF RTypeOK, TypeOK, Id
<1>2. rpc' = [rpc EXCEPT ![r] = IF safe THEN "safety" ELSE "write"]
  BY DEF Begin
<1>3. ignored' = [ignored EXCEPT ![r] = rule]
  BY DEF Begin, BeginSnap
<1> DEFINE back == {<<p, origin[r][p]>> : p \in
                    {q \in Path \ touched[r] :
                        Tracks(r, q) /\ origin[r][q] \notin Oversize}}
<1>4. back \subseteq Path \X (Content \cup {Absent})
  BY DEF RTypeOK
<1>5. goal' = [goal EXCEPT ![r] = IF id \in safety[r] THEN back ELSE {}]
  BY DEF Begin
<1> HIDE DEF back
<1>6. goal' \in [Restorers -> SUBSET (Path \X (Content \cup {Absent}))]
  BY <1>4, <1>5 DEF RTypeOK
<1>7. UNCHANGED <<tree, unclean, edits, origin>>
  BY DEF Begin
<1>8. /\ target' = [target EXCEPT ![r] = id]
      /\ left' = [left EXCEPT ![r] = rows0]
      /\ cleaning' = [cleaning EXCEPT ![r] = clean]
      /\ mode' = [mode EXCEPT ![r] = how]
      /\ safety' = [safety EXCEPT ![r] = {}]
      /\ touched' = [touched EXCEPT ![r] = {}]
  BY DEF Begin
<1>9. TreeTypes'
  BY <1>6, <1>7, <1>8 DEF RTypeOK, TreeTypes
<1>10. RestTypes'
  BY <1>1, <1>2, <1>3, <1>7, <1>8 DEF RTypeOK, RestTypes
<1> QED BY <1>9, <1>10

LEMMA RTypeStep == RTypeOK /\ TypeOK' /\ RNext => RTypeOK'
<1> SUFFICES ASSUME RTypeOK, TypeOK', RNext PROVE TreeTypes' /\ RestTypes'
  BY RTypeParts DEF RTypeOK, TreeTypes, RestTypes
<1>0. TreeTypes /\ RestTypes /\ Restorers \subseteq Snappers
  BY RTypeParts, RestoreAssumption
<1>1. ASSUME NEW p \in Path, NEW c \in Content \cup {Absent}, Edit(p, c)
      PROVE  TreeTypes' /\ RestTypes'
  BY <1>0, <1>1, PutTypes DEF Edit, TreeTypes, RestTypes
<1>2. ASSUME NEW s \in Snappers, See(s) PROVE TreeTypes' /\ RestTypes'
  <2>1. cursor[s] \in Path /\ tree[cursor[s]] \in Content \cup {Absent}
    BY <1>2 DEF See, RTypeOK
  <2>2. UNCHANGED <<tree, ignored, restoring, edits, goal>>
    BY <1>2 DEF See
  <2>3. /\ origin' = origin \/ (s \in Restorers /\
                origin' = [origin EXCEPT ![s][cursor[s]] = tree[cursor[s]]])
        /\ touched' = touched \/
                touched' = [touched EXCEPT ![s] = @ \ {cursor[s]}]
    BY <1>2 DEF See
  <2>4. origin' \in [Restorers -> [Path -> Content \cup {Absent}]]
    <3>1. CASE origin' = origin
      BY <1>0, <3>1 DEF RestTypes
    <3>2. CASE s \in Restorers /\
               origin' = [origin EXCEPT ![s][cursor[s]] = tree[cursor[s]]]
      <4> DEFINE o == [origin[s] EXCEPT ![cursor[s]] = tree[cursor[s]]]
      <4>1. o \in [Path -> Content \cup {Absent}]
        BY <1>0, <2>1, <3>2 DEF RestTypes
      <4>2. origin' = [origin EXCEPT ![s] = o]
        BY <3>2
      <4> HIDE DEF o
      <4> QED BY <1>0, <4>1, <4>2 DEF RestTypes
    <3> QED BY <2>3, <3>1, <3>2
  <2>5. touched' \in [Restorers -> SUBSET Path]
    BY <1>0, <2>3 DEF TreeTypes
  <2> QED BY <1>0, <2>2, <2>4, <2>5 DEF TreeTypes, RestTypes
<1>3. ASSUME NEW s \in Snappers, Record(s) PROVE TreeTypes' /\ RestTypes'
  BY <1>0, <1>3 DEF Record, TreeTypes, RestTypes
<1>4. ASSUME NEW s \in Snappers, SnapshotStep(s) PROVE TreeTypes' /\ RestTypes'
  <2>1. UNCHANGED <<tree, restoring, edits, history>>
    BY <1>4 DEF SnapshotStep
  <2>2. ignored' = ignored
        \/ \E rule \in IgnoreRules : ignored' = [ignored EXCEPT ![s] = rule]
    BY <1>4 DEF SnapshotStep, BeginSnap
  <2>3. ignored' \in [Snappers -> SUBSET Path]
    BY <1>0, <2>2, RestoreAssumption DEF RestTypes
  <2> QED BY <1>0, <2>1, <2>3 DEF TreeTypes, RestTypes
<1>5. ASSUME NEW r \in Restorers, RestoreStep(r) PROVE TreeTypes' /\ RestTypes'
  <2>1. ASSUME NEW id \in Listed \cap manifests, NEW rule \in IgnoreRules,
               NEW safe \in BOOLEAN,
               \/ \E clean \in BOOLEAN : RestoreTree(r, id, clean, rule, safe)
               \/ \E files \in SUBSET id : RestoreFiles(r, id, files, rule, safe)
        PROVE  TreeTypes' /\ RestTypes'
    BY <2>1, BeginTypes DEF RestoreTree, RestoreFiles
  <2>2. CASE SafetyDone(r)
    <3>1. rows[r] \in Id
      BY <1>0 DEF RTypeOK, TypeOK
    <3> QED BY <1>0, <2>2, <3>1 DEF SafetyDone, TreeTypes, RestTypes
  <2>3. CASE SafetyFails(r) \/ Report(r) \/ AbortRestore(r)
    BY <1>0, <2>3 DEF SafetyFails, Report, AbortRestore, EndRestore, TreeTypes,
                      RestTypes, Id
  <2>4. ASSUME NEW row \in left[r], WriteFile(r, row) PROVE TreeTypes' /\ RestTypes'
    <3>1. row[1] \in Path /\ row[2] \in Content
      BY DEF RTypeOK, Id, Row
    <3>2. TreeTypes'
      BY <2>4, <3>1, PutTypes DEF WriteFile, TreeTypes
    <3>3. UNCHANGED <<ignored, rpc, target, cleaning, mode, unclean, safety,
                      edits, origin>>
      BY <2>4 DEF WriteFile
    <3>4. left' \in [Restorers -> Id]
      <4>1. left' = [left EXCEPT ![r] = @ \ {row}]
        BY <2>4 DEF WriteFile
      <4>2. left[r] \ {row} \in Id
        BY <1>0 DEF RestTypes, Id
      <4> QED BY <1>0, <4>1, <4>2 DEF RestTypes
    <3> QED BY <1>0, <3>2, <3>3, <3>4 DEF RestTypes
  <2>5. CASE WritesDone(r) \/ CleanDone(r)
    <3>1. UNCHANGED <<tree, ignored, target, left, cleaning, mode, safety,
                      edits, history>>
      BY <2>5 DEF WritesDone, CleanDone
    <3>2. rpc' \in [Restorers -> {"idle", "safety", "write", "clean", "done"}]
      BY <1>0, <2>5 DEF WritesDone, CleanDone, RestTypes
    <3>3. unclean' \in [Restorers -> SUBSET Path]
      BY <1>0, <2>5 DEF WritesDone, CleanDone, RestTypes
    <3> QED BY <1>0, <3>1, <3>2, <3>3 DEF TreeTypes, RestTypes
  <2>6. ASSUME NEW p \in unclean[r], CleanUp(r, p) \/ LeaveFile(r, p)
        PROVE  TreeTypes' /\ RestTypes'
    <3>1. p \in Path
      BY DEF RTypeOK
    <3>2. TreeTypes'
      BY <1>0, <2>6, <3>1, PutTypes DEF CleanUp, LeaveFile, TreeTypes
    <3> QED BY <1>0, <2>6, <3>2 DEF CleanUp, LeaveFile, RestTypes
  <2> QED BY <1>5, <2>1, <2>2, <2>3, <2>4, <2>5, <2>6 DEF RestoreStep
<1> QED BY <1>1, <1>2, <1>3, <1>4, <1>5 DEF RNext

-----------------------------------------------------------------------------
(* What the steps do to the restores *)

\* A restore is not disturbed by what others do: it loses the paths they
\* change, and its files the rest.
LEMMA Elsewhere ==
    ASSUME RInv, StoreMoves, NEW r \in Restorers,
           rpc'[r] = rpc[r], target'[r] = target[r], left'[r] = left[r],
           cleaning'[r] = cleaning[r], mode'[r] = mode[r],
           unclean'[r] = unclean[r], safety'[r] = safety[r],
           origin'[r] = origin[r], ignored'[r] = ignored[r],
           rows'[r] = rows[r], cursor'[r] = cursor[r],
           Active(r)' => Active(r),
           touched[r] \subseteq touched'[r],
           \A p \in Path \ touched'[r] : tree'[p] = tree[p],
           goal'[r] \subseteq goal[r],
           \A x \in goal'[r] : x[1] \notin touched'[r]
    PROVE  Fine(r)'
<1>0. /\ RTypeOK /\ Fine(r) /\ safety[r] \subseteq Id
      /\ \A x \in target[r] : x[1] \in Path
  BY DEF RInv, RTypeOK, Id, Row
<1>1. Staged(r)'
  BY <1>0 DEF Fine, Staged
<1>2. Written(r)'
  BY <1>0 DEF Fine, Written, Under
<1>3. Cleaned(r)'
  BY <1>0 DEF Fine, Cleaned, StoreMoves, Tracks
<1>4. Seen(r)'
  BY <1>0 DEF Fine, Seen, Takes, Tracks
<1>5. Kept(r)'
  BY <1>0 DEF Fine, Kept, Takes, Tracks, StoreMoves
<1>6. Same(r)'
  BY <1>0 DEF Fine, Same, Unhandled
<1>7. Goals(r)'
  BY <1>0 DEF Fine, Goals
<1> QED BY <1>1, <1>2, <1>3, <1>4, <1>5, <1>6, <1>7 DEF Fine

\* A restore that is over, finished or not.
LEMMA Ended ==
    ASSUME RInv, StoreMoves, NEW r \in Restorers, rpc[r] # "idle",
           EndRestore(r), ~Active(r)'
    PROVE  Fine(r)'
<1>0. RTypeOK /\ Fine(r) /\ safety[r] \subseteq Id
  BY DEF RInv, RTypeOK
<1>1. /\ rpc'[r] = "idle" /\ left'[r] = {}
      /\ UNCHANGED <<target, safety, origin, ignored, touched, goal>>
  BY <1>0 DEF EndRestore, RTypeOK
<1>2. Staged(r)' /\ Written(r)' /\ Cleaned(r)' /\ Seen(r)' /\ Same(r)'
  BY <1>0, <1>1 DEF Fine, Staged, Written, Under, Cleaned, Seen, Same
<1>3. Kept(r)' /\ Goals(r)'
  BY <1>0, <1>1 DEF Fine, Kept, Takes, Tracks, StoreMoves, Goals
<1> QED BY <1>2, <1>3 DEF Fine

\* What a step of the snapshot of process s leaves to the others.
LEMMA SnapOthers ==
    ASSUME TypeOK, NEW s \in Snappers, SnapStep(s), NEW q \in Snappers \ {s}
    PROVE  pc'[q] = pc[q] /\ rows'[q] = rows[q] /\ cursor'[q] = cursor[q]
<1> USE DEF TypeOK, Goto, Processes
<1>1. ASSUME NEW found \in Content \cup {Skipped}, Visit(s, found)
      PROVE  pc'[q] = pc[q] /\ rows'[q] = rows[q] /\ cursor'[q] = cursor[q]
  BY <1>1 DEF Visit
<1>2. CASE StartSnap(s) \/ Compare(s) \/ StatManifest(s) \/ WriteManifest(s)
  BY <1>2 DEF StartSnap, Compare, StatManifest, WriteManifest
<1>3. CASE OpenTimeline(s) \/ AppendLine(s)
  BY <1>3 DEF OpenTimeline, AppendLine
<1>4. CASE TearLine(s) \/ Return(s) \/ AbortSnap(s)
  BY <1>4 DEF TearLine, Return, AbortSnap, EndSnap
<1> QED BY <1>1, <1>2, <1>3, <1>4 DEF SnapStep

Done == StoreInv' /\ \A q \in Restorers : Fine(q)'

LEMMA StepEdit ==
    ASSUME RInv,
           NEW p \in Path, NEW c \in Content \cup {Absent}, Edit(p, c)
    PROVE  Done
<1>0. RTypeOK /\ StoreInv /\ \A q \in Restorers : Fine(q)
  BY DEF RInv
<1>1. UNCHANGED <<vars, ignored, restoring, origin>>
  BY DEF Edit
<1>2. StoreInv' /\ StoreMoves
  <2>1. commands' \in Nat /\ aborts' \in Nat /\ ioErrors' \in Nat
    BY <1>0, <1>1 DEF RTypeOK, TypeOK, vars
  <2>2. (Clean' => Clean) /\ (ioErrors' = 0 => ioErrors = 0)
    BY <1>1 DEF Clean, vars
  <2> QED BY <1>0, <1>1, <2>1, <2>2, CountersOnly, CountersMove DEF vars
<1>3. ASSUME NEW q \in Restorers PROVE Fine(q)'
  <2>1. /\ tree' = [tree EXCEPT ![p] = c]
        /\ touched'[q] = touched[q] \cup {p}
        /\ goal'[q] = {x \in goal[q] : x[1] # p}
    BY DEF Edit, Put
  <2>2. \A x \in goal'[q] : x[1] \notin touched'[q]
    BY <1>0, <2>1 DEF Fine, Goals
  <2>3. \A o \in Path \ touched'[q] : tree'[o] = tree[o]
    BY <1>0, <2>1 DEF RTypeOK
  <2>4. UNCHANGED <<rows, cursor>> /\ (Active(q)' => Active(q))
    BY <1>1 DEF vars, Active
  <2> QED BY <1>1, <1>2, <2>1, <2>2, <2>3, <2>4, Elsewhere DEF vars
<1> QED BY <1>2, <1>3 DEF Done

\* A step of a snapshot that shows the restores nothing.
LEMMA StepSnap ==
    ASSUME RInv, NEW s \in Snappers, SnapStep(s),
           UNCHANGED <<tree, restoring, history>>,
           \A q \in Restorers \ {s} : ignored'[q] = ignored[q],
           s \in Restorers => UNCHANGED <<rows, cursor, ignored>> /\ Active(s)
    PROVE  Done
<1>0. RTypeOK /\ TypeOK /\ StoreInv /\ \A q \in Restorers : Fine(q)
  BY DEF RInv, RTypeOK
<1>1. StoreInv' /\ StoreMoves
  BY <1>0, SnapStoreInv, SnapMoves
<1>2. ASSUME NEW q \in Restorers PROVE Fine(q)'
  <2>1. /\ rows'[q] = rows[q] /\ cursor'[q] = cursor[q]
        /\ ignored'[q] = ignored[q] /\ (Active(q)' => Active(q))
    BY <1>0, SnapOthers, RestoreAssumption DEF Active
  <2>2. \A x \in goal[q] : x[1] \notin touched[q]
    BY <1>0 DEF Fine, Goals
  <2> QED BY <1>1, <2>1, <2>2, Elsewhere
<1> QED BY <1>1, <1>2 DEF Done

LEMMA StepRecord ==
    ASSUME RInv, NEW s \in Snappers, Record(s) \/ SnapshotStep(s)
    PROVE  Done
<1>1. CASE Record(s)
  <2>1. SnapStep(s) /\ Active(s) /\ UNCHANGED <<rows, cursor>>
    BY <1>1 DEF Record, SnapStep, Active, Compare, StatManifest, WriteManifest,
                OpenTimeline, AppendLine
  <2> QED BY <1>1, <2>1, StepSnap DEF Record
<1>2. CASE SnapshotStep(s)
  <2>1. SnapStep(s) /\ s \notin Restorers /\ UNCHANGED <<tree, restoring, history>>
    BY <1>2 DEF SnapshotStep, SnapStep, BeginSnap
  <2>2. \A q \in Restorers \ {s} : ignored'[q] = ignored[q]
    BY <1>2, RestoreAssumption DEF SnapshotStep, BeginSnap, RInv, RTypeOK
  <2> QED BY <2>1, <2>2, StepSnap
<1> QED BY <1>1, <1>2

LEMMA StepSee ==
    ASSUME RInv, NEW s \in Snappers, See(s)
    PROVE  Done
<1>0. RTypeOK /\ TypeOK /\ StoreInv /\ \A q \in Restorers : Fine(q)
  BY DEF RInv, RTypeOK
<1> DEFINE p == cursor[s]
           found == Found(s, p)
<1>1. /\ p \in Path /\ Visit(s, found) /\ found \in Content \cup {Skipped}
      /\ UNCHANGED <<tree, ignored, restoring, edits, goal>>
      /\ s \in Restorers =>
            /\ origin' = [origin EXCEPT ![s][p] = tree[p]]
            /\ touched' = [touched EXCEPT ![s] = @ \ {p}]
      /\ s \notin Restorers => UNCHANGED <<origin, touched>>
  BY DEF See, Found
<1>2. SnapStep(s)
  BY <1>1 DEF SnapStep
<1>3. StoreInv' /\ StoreMoves
  BY <1>0, <1>2, SnapStoreInv, SnapMoves
<1>4. ASSUME NEW q \in Restorers \ {s} PROVE Fine(q)'
  <2>1. rows'[q] = rows[q] /\ cursor'[q] = cursor[q] /\ pc'[q] = pc[q]
    BY <1>0, <1>2, SnapOthers, RestoreAssumption
  <2>2. touched'[q] = touched[q] /\ origin'[q] = origin[q]
    BY <1>0, <1>1 DEF RTypeOK
  <2>3. \A x \in goal[q] : x[1] \notin touched[q]
    BY <1>0 DEF Fine, Goals
  <2> QED BY <1>1, <1>3, <2>1, <2>2, <2>3, Elsewhere DEF Active
<1>5. ASSUME s \in Restorers PROVE Fine(s)'
  <2>1. pc[s] = "walk" /\ UNCHANGED pc /\ Active(s)
    BY <1>1 DEF Visit, Active
  <2>2. Staged(s) /\ rpc[s] = "safety" /\ safety[s] = {}
    BY <1>0, <1>5, <2>1 DEF Fine, Staged
  <2>3. /\ origin'[s] = [origin[s] EXCEPT ![p] = tree[p]]
        /\ touched'[s] = touched[s] \ {p}
        /\ origin[s] \in [Path -> Content \cup {Absent}]
    BY <1>0, <1>1, <1>5 DEF RTypeOK
  <2>4. /\ cursor'[s] = p + 1 /\ p \in Nat
        /\ rows'[s] = IF found \in Content THEN rows[s] \cup {<<p, found>>}
                      ELSE rows[s]
    <3>1. p \in Nat /\ cursor \in [Snappers -> 1..(NumPaths + 1)]
          /\ rows \in [Snappers -> Id]
      BY <1>0, <1>1 DEF TypeOK, Path
    <3> HIDE DEF found
    <3>2. /\ cursor' = [cursor EXCEPT ![s] = @ + 1]
          /\ rows' = IF found \in Content
                     THEN [rows EXCEPT ![s] = @ \cup {<<p, found>>}] ELSE rows
      BY <1>1 DEF Visit
    <3> QED BY <3>1, <3>2
  <2>5. \A x \in rows[s] : x[1] < p /\ x[1] \in Path
    BY <1>0 DEF StoreInv, Walked, TypeOK, Id, Row
  <2>6. Staged(s)' /\ Written(s)' /\ Cleaned(s)' /\ Kept(s)' /\ Same(s)'
    BY <1>1, <2>1, <2>2
       DEF Staged, Written, Cleaned, Kept, Same, Active
  <2>7. Goals(s)'
    BY <1>0, <1>1, <1>5, <2>3 DEF Fine, Goals
  <2>8. Seen(s)'
    <3>1. \A x \in rows[s] : x[2] = origin[s][x[1]]
      BY <1>0, <1>5, <2>2 DEF Fine, Seen
    <3>2. found \in Content => found = tree[p]
      BY StoreAssumption DEF Found
    <3>3. \A x \in rows'[s] : x[2] = origin'[s][x[1]]
      <4>1. \A x \in rows[s] : x[1] # p /\ x[1] \in Path
        BY <2>4, <2>5 DEF Path
      <4>2. \A x \in rows[s] : x[2] = origin'[s][x[1]]
        BY <2>3, <3>1, <4>1
      <4>3. found \in Content => found = origin'[s][p]
        BY <1>1, <2>3, <3>2
      <4> HIDE DEF p, found
      <4> QED BY <2>4, <4>2, <4>3
    <3>4. Takes(s, p, tree[p], rows'[s])
      BY <2>4 DEF Takes, Found
    <3>5. ASSUME NEW o \in Path, o < cursor'[s]
          PROVE  /\ Takes(s, o, origin'[s][o], rows'[s])
                 /\ o \in touched'[s] \/ tree[o] = origin'[s][o]
      <4>1. CASE o = p
        BY <1>1, <2>3, <3>4, <4>1
      <4>2. CASE o # p
        <5>1. o < p
          BY <2>4, <3>5, <4>2 DEF Path
        <5>2. Takes(s, o, origin[s][o], rows[s]) /\ (o \in touched[s] \/ tree[o] = origin[s][o])
          BY <1>0, <1>5, <2>2, <5>1 DEF Fine, Seen
        <5> QED BY <2>3, <2>4, <4>2, <5>2 DEF Takes
      <4> QED BY <4>1, <4>2
    <3> QED BY <1>1, <3>3, <3>5 DEF Seen, Takes, Tracks
  <2> QED BY <2>6, <2>7, <2>8 DEF Fine
<1> QED BY <1>3, <1>4, <1>5 DEF Done

\* Restores and walks that are not this one's.
LEMMA Bystanders ==
    ASSUME RInv, StoreMoves, NEW r \in Restorers,
           NEW q \in Restorers \ {r},
           rpc'[q] = rpc[q], target'[q] = target[q], left'[q] = left[q],
           cleaning'[q] = cleaning[q], mode'[q] = mode[q],
           unclean'[q] = unclean[q], safety'[q] = safety[q],
           origin'[q] = origin[q], ignored'[q] = ignored[q],
           \/ SnapStep(r)
           \/ UNCHANGED <<pc, rows, cursor>>,
           \/ UNCHANGED <<tree, touched, goal>>
           \/ tree' = tree /\ touched'[q] = touched[q] /\ goal'[q] = goal[q]
           \/ \E p \in Path, c \in Content \cup {Absent} : Put(p, c, {r})
    PROVE  Fine(q)'
<1>0. RTypeOK /\ TypeOK /\ Fine(q) /\ r \in Snappers /\ q \in Snappers
  BY RestoreAssumption DEF RInv, RTypeOK
<1>1. rows'[q] = rows[q] /\ cursor'[q] = cursor[q] /\ pc'[q] = pc[q]
  BY <1>0, SnapOthers
<1>2. CASE tree' = tree /\ touched'[q] = touched[q] /\ goal'[q] = goal[q]
  <2>1. \A x \in goal[q] : x[1] \notin touched[q]
    BY <1>0 DEF Fine, Goals
  <2> QED BY <1>1, <1>2, <2>1, Elsewhere DEF Active
<1>3. ASSUME NEW p \in Path, NEW c \in Content \cup {Absent}, Put(p, c, {r})
      PROVE  Fine(q)'
  <2>1. /\ tree' = [tree EXCEPT ![p] = c]
        /\ touched'[q] = touched[q] \cup {p}
        /\ goal'[q] = {x \in goal[q] : x[1] # p}
    BY <1>3 DEF Put
  <2>2. \A x \in goal'[q] : x[1] \notin touched'[q]
    BY <1>0, <2>1 DEF Fine, Goals
  <2>3. \A o \in Path \ touched'[q] : tree'[o] = tree[o]
    BY <1>0, <2>1 DEF RTypeOK
  <2> QED BY <1>1, <2>1, <2>2, <2>3, Elsewhere DEF Active
<1> QED BY <1>2, <1>3

LEMMA StepBegin ==
    ASSUME RInv, NEW r \in Restorers,
           NEW id \in Listed \cap manifests,
           NEW rows0 \in SUBSET id, NEW clean \in BOOLEAN,
           NEW how \in {"tree", "files"}, NEW rule \in IgnoreRules,
           NEW safe \in BOOLEAN, how = "tree" => rows0 = id,
           Begin(r, id, rows0, clean, how, rule, safe)
    PROVE  Done
<1>0. /\ RTypeOK /\ TypeOK /\ StoreInv /\ r \in Snappers
      /\ \A q \in Restorers : Fine(q)
  BY RestoreAssumption DEF RInv, RTypeOK
<1>1. StoreInv' /\ StoreMoves
  <2>1. CASE safe
    <3>1. SnapStep(r)
      BY <2>1 DEF Begin, BeginSnap, SnapStep
    <3> QED BY <1>0, <3>1, SnapStoreInv, SnapMoves
  <2>2. CASE ~safe
    <3>1. UNCHANGED <<disk, pc, snapping, pruning, aborts, ioErrors>>
          /\ commands' = commands + 1
      BY <2>2 DEF Begin
    <3>2. commands' \in Nat /\ aborts' \in Nat /\ ioErrors' \in Nat
      BY <1>0, <3>1 DEF TypeOK
    <3>3. (Clean' => Clean) /\ (ioErrors' = 0 => ioErrors = 0)
      BY <3>1 DEF Clean
    <3> QED BY <1>0, <3>1, <3>2, <3>3, CountersOnly, CountersMove
  <2> QED BY <2>1, <2>2
<1>2. /\ rpc[r] = "idle"
      /\ rpc' = [rpc EXCEPT ![r] = IF safe THEN "safety" ELSE "write"]
      /\ ignored' = [ignored EXCEPT ![r] = rule]
      /\ target' = [target EXCEPT ![r] = id]
      /\ left' = [left EXCEPT ![r] = rows0]
      /\ cleaning' = [cleaning EXCEPT ![r] = clean]
      /\ mode' = [mode EXCEPT ![r] = how]
      /\ safety' = [safety EXCEPT ![r] = {}]
      /\ touched' = [touched EXCEPT ![r] = {}]
      /\ UNCHANGED <<tree, unclean, edits, origin>>
  BY DEF Begin, BeginSnap
<1> DEFINE back == {<<p, origin[r][p]>> : p \in
                    {q \in Path \ touched[r] :
                        Tracks(r, q) /\ origin[r][q] \notin Oversize}}
<1>3. goal' = [goal EXCEPT ![r] = IF id \in safety[r] THEN back ELSE {}]
  BY DEF Begin
<1> HIDE DEF back
<1>4. SnapStep(r) \/ UNCHANGED <<pc, rows, cursor>>
  BY DEF Begin, BeginSnap, SnapStep
<1>5. ASSUME NEW q \in Restorers \ {r} PROVE Fine(q)'
  <2>1. q \in Snappers
    BY RestoreAssumption
  <2>2. /\ rpc'[q] = rpc[q] /\ target'[q] = target[q] /\ left'[q] = left[q]
        /\ cleaning'[q] = cleaning[q] /\ mode'[q] = mode[q]
        /\ unclean'[q] = unclean[q] /\ safety'[q] = safety[q]
        /\ origin'[q] = origin[q] /\ ignored'[q] = ignored[q]
        /\ touched'[q] = touched[q] /\ goal'[q] = goal[q] /\ tree' = tree
    BY <1>0, <1>2, <1>3, <2>1 DEF RTypeOK
  <2> QED BY <1>0, <1>1, <1>4, <2>2, Bystanders DEF RInv
<1>6. Fine(r)'
  <2>1. /\ rpc'[r] = IF safe THEN "safety" ELSE "write"
        /\ target'[r] = id /\ left'[r] = rows0 /\ mode'[r] = how
        /\ safety'[r] = {} /\ touched'[r] = {}
        /\ goal'[r] = IF id \in safety[r] THEN back ELSE {}
    BY <1>0, <1>2, <1>3 DEF RTypeOK
  <2>2. ~Active(r) /\ pc[r] = "idle"
    BY <1>0, <1>2 DEF Fine, Staged, Active
  <2>3. ~safe => ~Active(r)'
    BY <2>2 DEF Begin, Active
  <2>4. Functional(id)
    BY <1>0 DEF StoreInv, Walked
  <2>5. Staged(r)'
    BY <2>1, <2>3, <2>4 DEF Staged
  <2>6. Written(r)' /\ Cleaned(r)' /\ Kept(r)' /\ Same(r)'
    BY <2>1 DEF Written, Cleaned, Kept, Same
  <2>7. Seen(r)'
    <3>1. SUFFICES ASSUME safe PROVE Seen(r)'
      BY <2>1 DEF Seen
    <3>2. UNCHANGED <<rows, cursor>>
      BY <3>1 DEF Begin, BeginSnap, StartSnap
    <3>3. rows[r] = {} /\ cursor[r] = 1
      BY <1>0, <2>2 DEF StoreInv, Inv, SnapStages, Walked
    <3> QED BY <3>2, <3>3 DEF Seen, Path
  <2>8. Goals(r)'
    <3>1. SUFFICES ASSUME id \in safety[r], NEW x \in back
                   PROVE  /\ x[2] \in Content => x \in id
                          /\ x[2] = Absent => \A y \in id : y[1] # x[1]
      BY <2>1 DEF Goals
    <3>2. PICK p \in Path : x = <<p, origin[r][p]>> /\ Tracks(r, p)
                            /\ origin[r][p] \notin Oversize
      BY DEF back
    <3>3. /\ Takes(r, p, origin[r][p], id)
          /\ \A y \in id : y[2] = origin[r][y[1]]
      BY <1>0, <3>1 DEF Fine, Kept
    <3>4. \A y \in id : y[2] \in Content
      BY <1>0 DEF TypeOK, Id, Row
    <3> QED BY <3>2, <3>3, <3>4, RestoreAssumption DEF Takes
  <2> QED BY <2>5, <2>6, <2>7, <2>8 DEF Fine
<1> QED BY <1>1, <1>5, <1>6 DEF Done

LEMMA StepSafety ==
    ASSUME RInv, NEW r \in Restorers,
           SafetyDone(r) \/ SafetyFails(r)
    PROVE  Done
<1>0. /\ RTypeOK /\ TypeOK /\ StoreInv /\ r \in Snappers
      /\ r \in Processes /\ \A q \in Restorers : Fine(q)
  BY RestoreAssumption DEF RInv, RTypeOK, Processes
<1>1. SnapStep(r) /\ rpc[r] = "safety" /\ ~Active(r)' /\ UNCHANGED <<tree, ignored, history>>
  BY <1>0 DEF SafetyDone, SafetyFails, SnapStep, EndRestore, Return, AbortSnap,
              TearLine, EndSnap, Goto, Active, TypeOK
<1>2. StoreInv' /\ StoreMoves
  BY <1>0, <1>1, SnapStoreInv, SnapMoves
<1>3. ASSUME NEW q \in Restorers \ {r} PROVE Fine(q)'
  <2>1. /\ rpc'[q] = rpc[q] /\ target'[q] = target[q] /\ left'[q] = left[q]
        /\ cleaning'[q] = cleaning[q] /\ mode'[q] = mode[q]
        /\ unclean'[q] = unclean[q] /\ safety'[q] = safety[q]
    BY <1>0 DEF SafetyDone, SafetyFails, EndRestore, RTypeOK
  <2> QED BY <1>1, <1>2, <2>1, Bystanders
<1>4. ASSUME SafetyFails(r) PROVE Fine(r)'
  <2>1. EndRestore(r) /\ rpc[r] # "idle"
    BY <1>1, <1>4 DEF SafetyFails
  <2> QED BY <1>1, <1>2, <2>1, Ended
<1>5. ASSUME SafetyDone(r) PROVE Fine(r)'
  <2>1. /\ Return(r) /\ UNCHANGED <<counters, target, left, cleaning, mode, unclean>>
        /\ safety' = [safety EXCEPT ![r] = {rows[r]}]
        /\ rpc' = [rpc EXCEPT ![r] = "write"]
    BY <1>5 DEF SafetyDone, Return
  <2>2. safety'[r] = {rows[r]} /\ rpc'[r] = "write" /\ rows[r] \in Id
    BY <1>0, <2>1 DEF RTypeOK, TypeOK
  <2>3. Fine(r) /\ Staged(r) /\ Seen(r)
    BY <1>0 DEF Fine
  <2>4. \A p \in Path : p < cursor[r]
    <3>1. cursor[r] \in 1..(NumPaths + 1) /\ cursor[r] \notin Path
      BY <1>0, <2>1 DEF TypeOK, Return, At, StoreInv, Walked
    <3> QED BY <3>1, StoreAssumption DEF Path
  <2>5. Clean => Safe(rows[r])
    <3> SUFFICES ASSUME Clean PROVE Safe(rows[r])
      OBVIOUS
    <3>1. SnapTidy /\ DiskTidy /\ SnapStages /\ ListedIntact
      BY <1>0 DEF StoreInv, Tidy, Inv
    <3>2. rows[r] \in Listed \/ Recording(rows[r])
      BY <1>0, <2>1, <3>1 DEF Return, At, SnapTidy
    <3>3. Listed \subseteq manifests
      BY <1>0, <3>1 DEF DiskTidy, StoreInv, Quiet
    <3>4. Recording(rows[r]) => rows[r] \in manifests
      BY <3>1 DEF Recording, SnapStages
    <3>5. Refs(rows[r]) \subseteq objects
      BY <1>0, <3>1 DEF SnapStages
    <3> QED BY <3>2, <3>3, <3>4, <3>5 DEF Safe, Stored
  <2>6. \A id : id = rows[r] /\ Clean' => Safe(id)'
    BY <1>2, <2>2, <2>5 DEF StoreMoves
  <2>7. Staged(r)' /\ Written(r)' /\ Cleaned(r)' /\ Seen(r)'
    BY <1>1, <2>1, <2>2, <2>3 DEF Staged, Written, Cleaned, Seen
  <2>8. Kept(r)'
    <3>1. \A x \in rows[r] : x[2] = origin[r][x[1]]
      BY <1>1, <2>3 DEF Seen
    <3>2. \A p \in Path : Takes(r, p, origin[r][p], rows[r])
      BY <1>1, <2>3, <2>4 DEF Seen
    <3>3. UNCHANGED <<origin, ignored>>
      BY <1>1
    <3>4. ASSUME NEW id \in safety'[r]
          PROVE  /\ Clean' => Safe(id)'
                 /\ \A x \in id : x[2] = origin'[r][x[1]]
                 /\ \A p \in Path : Takes(r, p, origin[r][p], id)'
      <4>1. id = rows[r]
        BY <2>2
      <4>2. \A p \in Path : Takes(r, p, origin[r][p], id)'
        BY <3>2, <3>3, <4>1 DEF Takes, Tracks
      <4> QED BY <2>6, <3>1, <3>3, <4>1, <4>2
    <3> QED BY <3>4 DEF Kept
  <2>9. Same(r)'
    BY <1>1, <2>3, <2>4 DEF Same, Seen
  <2>10. Goals(r)'
    <3>1. goal' = goal /\ touched' = touched /\ target' = target
      BY <1>1, <2>1
    <3> QED BY <2>3, <3>1 DEF Fine, Goals
  <2> QED BY <2>7, <2>8, <2>9, <2>10 DEF Fine
<1> QED BY <1>2, <1>3, <1>4, <1>5 DEF Done

\* A step of the restore itself that leaves the store alone, but for failures.
LEMMA Aside ==
    ASSUME RInv, NEW r \in Restorers,
           \/ UNCHANGED vars
           \/ /\ UNCHANGED <<disk, pc, snapping, pruning, commands, aborts>>
              /\ ioErrors' = ioErrors + 1
           \/ /\ UNCHANGED <<disk, pc, snapping, pruning, commands, ioErrors>>
              /\ aborts' = aborts + 1
    PROVE  StoreInv' /\ StoreMoves /\ UNCHANGED <<pc, rows, cursor>>
<1>0. StoreInv /\ TypeOK
  BY DEF RInv, RTypeOK
<1>1. UNCHANGED <<disk, pc, snapping, pruning>>
  BY DEF vars
<1>2. commands' \in Nat /\ aborts' \in Nat /\ ioErrors' \in Nat
  BY <1>0 DEF vars, TypeOK
<1>3. (Clean' => Clean) /\ (ioErrors' = 0 => ioErrors = 0)
  BY <1>0 DEF vars, TypeOK, Clean
<1> QED BY <1>0, <1>1, <1>2, <1>3, CountersOnly, CountersMove

LEMMA StepWrite ==
    ASSUME RInv, NEW r \in Restorers, NEW row \in left[r],
           WriteFile(r, row)
    PROVE  Done
<1>0. RTypeOK /\ TypeOK /\ \A q \in Restorers : Fine(q)
  BY DEF RInv, RTypeOK
<1>1. /\ rpc[r] = "write" /\ Put(row[1], row[2], {r})
      /\ left' = [left EXCEPT ![r] = @ \ {row}]
      /\ UNCHANGED <<vars, ignored, rpc, target, cleaning, mode, unclean, safety,
                     edits, origin>>
  BY DEF WriteFile
<1>2. StoreInv' /\ StoreMoves /\ UNCHANGED <<pc, rows, cursor>>
  BY <1>1, Aside
<1>3. row[1] \in Path /\ row[2] \in Content
  BY <1>0 DEF RTypeOK, Id, Row
<1>4. ASSUME NEW q \in Restorers \ {r} PROVE Fine(q)'
  <2>1. left'[q] = left[q]
    BY <1>0, <1>1 DEF RTypeOK
  <2> QED BY <1>1, <1>2, <1>3, <2>1, Bystanders
<1>5. Fine(r)'
  <2>1. /\ tree' = [tree EXCEPT ![row[1]] = row[2]]
        /\ touched'[r] = touched[r] /\ goal'[r] = goal[r]
        /\ left'[r] = left[r] \ {row}
    BY <1>0, <1>1 DEF Put, RTypeOK
  <2>2. /\ Staged(r) /\ Written(r) /\ Kept(r) /\ Same(r) /\ Goals(r)
        /\ row \in target[r]
        /\ \A x \in target[r] : x[1] = row[1] => x = row
    BY <1>0 DEF Fine, Staged, Functional
  <2>3. /\ tree'[row[1]] = row[2]
        /\ \A p \in Path : p # row[1] => tree'[p] = tree[p]
        /\ \A x \in target[r] : x[1] \in Path
    BY <1>0, <1>3, <2>1 DEF RTypeOK, Id, Row
  <2>4. Staged(r)'
    BY <1>1, <1>2, <2>1, <2>2 DEF Staged, Active
  <2>5. Written(r)'
    BY <1>1, <2>1, <2>2, <2>3 DEF Written, Under
  <2>6. Cleaned(r)' /\ Seen(r)'
    BY <1>1 DEF Cleaned, Seen
  <2>7. Kept(r)'
    BY <1>0, <1>1, <1>2, <2>2 DEF Kept, Takes, Tracks, StoreMoves, RTypeOK
  <2>8. Same(r)'
    <3>1. ASSUME NEW p \in Path, Unhandled(r, p)'
          PROVE  Unhandled(r, p) /\ p # row[1]
      BY <1>1, <2>1, <2>2, <3>1 DEF Unhandled
    <3> QED BY <1>1, <2>1, <2>2, <2>3, <3>1 DEF Same
  <2>9. Goals(r)'
    BY <1>1, <2>1, <2>2 DEF Goals
  <2> QED BY <2>4, <2>5, <2>6, <2>7, <2>8, <2>9 DEF Fine
<1> QED BY <1>2, <1>4, <1>5 DEF Done

LEMMA StepClean ==
    ASSUME RInv, NEW r \in Restorers, NEW p \in unclean[r],
           CleanUp(r, p) \/ LeaveFile(r, p)
    PROVE  Done
<1>0. RTypeOK /\ TypeOK /\ p \in Path /\ \A q \in Restorers : Fine(q)
  BY DEF RInv, RTypeOK
<1>1. /\ rpc[r] = "clean"
      /\ unclean' = [unclean EXCEPT ![r] = @ \ {p}]
      /\ UNCHANGED <<ignored, rpc, target, left, cleaning, mode, safety,
                     edits, origin>>
  BY DEF CleanUp, LeaveFile
<1>2. StoreInv' /\ StoreMoves /\ UNCHANGED <<pc, rows, cursor>>
  BY Aside DEF CleanUp, LeaveFile
<1>3. \/ Extraneous(r, p) /\ Put(p, Absent, {r})
      \/ ~Extraneous(r, p) /\ UNCHANGED <<tree, touched, goal>>
      \/ ioErrors' # 0 /\ UNCHANGED <<tree, touched, goal>>
  BY <1>0 DEF CleanUp, LeaveFile, TypeOK
<1>4. ASSUME NEW q \in Restorers \ {r} PROVE Fine(q)'
  <2>1. unclean'[q] = unclean[q]
    BY <1>0, <1>1 DEF RTypeOK
  <2> QED BY <1>0, <1>1, <1>2, <1>3, <2>1, Bystanders
<1>5. Fine(r)'
  <2>1. /\ touched'[r] = touched[r] /\ goal'[r] = goal[r]
        /\ unclean'[r] = unclean[r] \ {p}
        /\ \A o \in Path \ {p} : tree'[o] = tree[o]
        /\ Extraneous(r, p) => ioErrors' # 0 \/ tree'[p] = Absent
        /\ ~Extraneous(r, p) => tree'[p] = tree[p]
        /\ tree'[p] # tree[p] => Extraneous(r, p)
    BY <1>0, <1>1, <1>3 DEF Put, RTypeOK
  <2>2. /\ Staged(r) /\ Written(r) /\ Cleaned(r) /\ Kept(r) /\ Same(r)
        /\ Goals(r) /\ \A x \in target[r] : x[1] \in Path
    BY <1>0 DEF Fine, RTypeOK, Id, Row
  <2>3. Staged(r)'
    BY <1>1, <1>2, <2>1, <2>2 DEF Staged, Active
  <2>4. Written(r)'
    BY <1>1, <2>1, <2>2 DEF Written, Under, Extraneous
  <2>5. Cleaned(r)'
    <3>1. \/ ioErrors' # 0 \/ tree'[p] = Absent \/ ~Tracks(r, p)
          \/ \E x \in target[r] : x[1] = p
      BY <1>0, <2>1 DEF Extraneous, RTypeOK
    <3> QED BY <1>1, <1>2, <2>1, <2>2, <3>1 DEF Cleaned, StoreMoves, Tracks
  <2>6. Seen(r)'
    BY <1>1 DEF Seen
  <2>7. Kept(r)'
    BY <1>0, <1>1, <1>2, <2>2 DEF Kept, Takes, Tracks, StoreMoves, RTypeOK
  <2>8. Same(r)'
    BY <1>1, <2>1, <2>2 DEF Same, Unhandled
  <2>9. Goals(r)'
    BY <1>1, <2>1, <2>2 DEF Goals
  <2> QED BY <2>3, <2>4, <2>5, <2>6, <2>7, <2>8, <2>9 DEF Fine
<1> QED BY <1>2, <1>4, <1>5 DEF Done

LEMMA StepOn ==
    ASSUME RInv, NEW r \in Restorers,
           \/ WritesDone(r) \/ CleanDone(r) \/ Report(r) \/ AbortRestore(r)
    PROVE  Done
<1>0. RTypeOK /\ TypeOK /\ \A q \in Restorers : Fine(q)
  BY DEF RInv, RTypeOK
<1>1. StoreInv' /\ StoreMoves /\ UNCHANGED <<pc, rows, cursor>>
  BY Aside DEF WritesDone, CleanDone, Report, AbortRestore
<1>2. UNCHANGED <<tree, ignored, target, cleaning, mode, safety, edits, history>>
  BY DEF WritesDone, CleanDone, Report, AbortRestore, EndRestore
<1>3. ASSUME NEW q \in Restorers \ {r} PROVE Fine(q)'
  <2>1. rpc'[q] = rpc[q] /\ left'[q] = left[q] /\ unclean'[q] = unclean[q]
    BY <1>0 DEF WritesDone, CleanDone, Report, AbortRestore, EndRestore, RTypeOK
  <2> QED BY <1>1, <1>2, <2>1, Bystanders
<1>4. ASSUME Report(r) \/ AbortRestore(r) PROVE Fine(r)'
  <2>1. EndRestore(r) /\ rpc[r] \in {"write", "clean", "done"}
    BY <1>4 DEF Report, AbortRestore
  <2>2. ~Active(r)'
    BY <1>0, <1>1, <2>1 DEF Fine, Staged, Active
  <2> QED BY <1>1, <2>1, <2>2, Ended
<1>5. ASSUME WritesDone(r) \/ CleanDone(r) PROVE Fine(r)'
  <2>1. /\ Staged(r) /\ Written(r) /\ Cleaned(r) /\ Kept(r) /\ Same(r)
        /\ Goals(r) /\ left'[r] = left[r] /\ left[r] = {}
    BY <1>0, <1>5 DEF Fine, WritesDone, CleanDone, Staged
  <2>2. \/ /\ rpc[r] = "write" /\ cleaning[r] /\ rpc'[r] = "clean"
           /\ unclean'[r] = Path
        \/ /\ rpc[r] = "write" /\ ~cleaning[r] /\ rpc'[r] = "done"
           /\ unclean'[r] = {}
        \/ /\ rpc[r] = "clean" /\ rpc'[r] = "done"
           /\ unclean'[r] = unclean[r] /\ unclean[r] = {}
    BY <1>0, <1>5 DEF WritesDone, CleanDone, RTypeOK
  <2>3. Staged(r)'
    BY <1>1, <1>2, <2>1, <2>2 DEF Staged, Active
  <2>4. Written(r)' /\ Cleaned(r)'
    BY <1>1, <1>2, <2>1, <2>2 DEF Written, Under, Cleaned, StoreMoves, Tracks
  <2>5. Seen(r)' /\ Goals(r)'
    BY <1>2, <2>1, <2>2 DEF Seen, Goals
  <2>6. Kept(r)'
    BY <1>0, <1>1, <1>2, <2>1 DEF Kept, Takes, Tracks, StoreMoves, RTypeOK
  <2>7. Same(r)'
    BY <1>2, <2>1, <2>2 DEF Same, Unhandled
  <2> QED BY <2>3, <2>4, <2>5, <2>6, <2>7 DEF Fine
<1> QED BY <1>1, <1>3, <1>4, <1>5 DEF Done

LEMMA RInvStep == RInv /\ [RNext]_rvars => RInv'
<1> SUFFICES ASSUME RInv, [RNext]_rvars PROVE RInv'
  OBVIOUS
<1>1. ASSUME RNext PROVE Done
  <2>1. ASSUME NEW r \in Restorers, RestoreStep(r) PROVE Done
    <3>1. ASSUME NEW id \in Listed \cap manifests, NEW rule \in IgnoreRules,
                 NEW safe \in BOOLEAN,
                 \/ \E clean \in BOOLEAN : RestoreTree(r, id, clean, rule, safe)
                 \/ \E files \in SUBSET id : RestoreFiles(r, id, files, rule, safe)
          PROVE  Done
      <4>1. ASSUME NEW clean \in BOOLEAN, RestoreTree(r, id, clean, rule, safe)
            PROVE  Done
        BY <4>1, StepBegin DEF RestoreTree
      <4>2. ASSUME NEW files \in SUBSET id, RestoreFiles(r, id, files, rule, safe)
            PROVE  Done
        BY <4>2, StepBegin DEF RestoreFiles
      <4> QED BY <3>1, <4>1, <4>2
    <3> QED BY <2>1, <3>1, StepSafety, StepWrite, StepClean, StepOn DEF RestoreStep
  <2> QED BY <1>1, <2>1, StepEdit, StepSee, StepRecord DEF RNext
<1>2. CASE RNext
  <2>1. Done /\ TypeOK'
    BY <1>1, <1>2 DEF Done, StoreInv, Inv
  <2> QED BY <1>2, <2>1, RTypeStep DEF RInv, Done
<1>3. CASE UNCHANGED rvars
  <2>1. UNCHANGED vars
    BY <1>3 DEF rvars
  <2>2. StoreInv' /\ StoreMoves
    <3>1. commands' \in Nat /\ aborts' \in Nat /\ ioErrors' \in Nat
      BY <2>1 DEF RInv, RTypeOK, TypeOK, vars
    <3>2. (Clean' => Clean) /\ (ioErrors' = 0 => ioErrors = 0)
      BY <2>1 DEF Clean, vars
    <3>3. UNCHANGED <<disk, pc, snapping, pruning>>
      BY <2>1 DEF vars
    <3> QED BY <3>1, <3>2, <3>3, CountersOnly, CountersMove DEF RInv
  <2>3. RTypeOK'
    BY <1>3, <2>2 DEF RInv, RTypeOK, rvars, StoreInv, Inv
  <2>4. ASSUME NEW q \in Restorers PROVE Fine(q)'
    <3>1. \A x \in goal[q] : x[1] \notin touched[q]
      BY DEF RInv, Fine, Goals
    <3> QED BY <1>3, <2>2, <3>1, Elsewhere DEF rvars, vars, Active
  <2> QED BY <2>2, <2>3, <2>4 DEF RInv
<1> QED BY <1>2, <1>3

-----------------------------------------------------------------------------
THEOREM RInvHolds == RSpec => []RInv
BY RInvInit, RInvStep, PTL DEF RSpec

\* RTypeOK holds in every state of every behaviour of the restores.
THEOREM RTypesCorrect == RSpec => []RTypeOK
<1>1. RInv => RTypeOK
  BY DEF RInv
<1> QED BY <1>1, RInvHolds, PTL

\* A restore that comes to its end has made every path it tracks what the
\* snapshot says, but for what somebody else changed while it ran.
THEOREM TreeIsRestored == RSpec => []TreeMatches
<1>1. ASSUME RInv PROVE TreeMatches
  <2> SUFFICES ASSUME NEW r \in Restorers, rpc[r] = "done", mode[r] = "tree",
                      ioErrors = 0, NEW p \in Path \ touched[r]
               PROVE  /\ \A c \in Content : <<p, c>> \in target[r] => tree[p] = c
                      /\ cleaning[r] /\ Tracks(r, p)
                          /\ (\A c \in Content : <<p, c>> \notin target[r])
                         => tree[p] = Absent
    BY DEF TreeMatches
  <2>1. Staged(r) /\ Written(r) /\ Cleaned(r)
    BY <1>1 DEF RInv, Fine
  <2>2. left[r] = {} /\ unclean[r] = {}
    BY <2>1 DEF Staged
  <2>3. \A c \in Content : <<p, c>> \in target[r] => tree[p] = c
    BY <2>1, <2>2 DEF Written, Under
  <2>4. \A x \in target[r] : x = <<x[1], x[2]>> /\ x[2] \in Content
    BY <1>1 DEF RInv, RTypeOK, Id, Row
  <2>5. (\A c \in Content : <<p, c>> \notin target[r]) => \A x \in target[r] : x[1] # p
    BY <2>4
  <2> QED BY <2>1, <2>2, <2>3, <2>5 DEF Cleaned
<1> QED BY <1>1, RInvHolds, PTL

\* A restore, finished or cut short, is undone by a restore of its safety id
\* with --clean, but for what nothing tracks and what somebody changed since.
THEOREM UndoIsComplete == RSpec => []CleanUndoReturns
<1>1. ASSUME RInv PROVE CleanUndoReturns
  <2> SUFFICES ASSUME NEW r \in Restorers, rpc[r] = "done", mode[r] = "tree",
                      cleaning[r], ioErrors = 0, NEW x \in goal[r]
               PROVE  \/ tree[x[1]] = x[2]
                      \/ x[2] = Absent /\ ~Tracks(r, x[1])
    BY DEF CleanUndoReturns, Undone
  <2>1. Staged(r) /\ Written(r) /\ Cleaned(r) /\ Goals(r)
    BY <1>1 DEF RInv, Fine
  <2>2. left[r] = {} /\ unclean[r] = {}
    BY <2>1 DEF Staged
  <2>3. x[1] \in Path /\ x[2] \in Content \cup {Absent} /\ x[1] \notin touched[r]
    BY <1>1, <2>1 DEF RInv, RTypeOK, Goals
  <2>4. CASE x[2] \in Content
    BY <2>1, <2>2, <2>3, <2>4 DEF Goals, Written, Under
  <2>5. CASE x[2] = Absent
    BY <2>1, <2>2, <2>3, <2>5 DEF Goals, Cleaned
  <2> QED BY <2>3, <2>4, <2>5
<1> QED BY <1>1, RInvHolds, PTL

\* What a restore is about to write over or remove is as the walk of its
\* safety snapshot saw it.
LEMMA OverwritesKnown ==
    ASSUME RInv, RNext, NEW r \in Restorers, NEW p \in Path, Overwrites(r, p),
           safety[r] # {}, p \notin touched[r]
    PROVE  tree[p] = origin[r][p]
<1>0. RTypeOK /\ Fine(r) /\ Staged(r) /\ Same(r)
  BY DEF RInv, Fine
<1>1. tree'[p] # tree[p] /\ (left'[r] # left[r] \/ unclean'[r] # unclean[r])
  BY DEF Overwrites
<1>2. PICK q \in Restorers : RestoreStep(q)
  BY <1>1 DEF RNext, Edit, See, Record, SnapshotStep
<1>3. \/ \E row \in left[q] : WriteFile(q, row)
      \/ \E o \in unclean[q] : CleanUp(q, o)
  BY <1>1, <1>2 DEF RestoreStep, RestoreTree, RestoreFiles, Begin, SafetyDone,
                    SafetyFails, EndRestore, WritesDone, LeaveFile, CleanDone,
                    Report, AbortRestore
<1>4. q = r
  BY <1>0, <1>1, <1>3 DEF WriteFile, CleanUp, RTypeOK
<1>5. ASSUME NEW row \in left[r], WriteFile(r, row) PROVE tree[p] = origin[r][p]
  <2>1. tree' = [tree EXCEPT ![row[1]] = row[2]] /\ rpc[r] = "write"
    BY <1>5 DEF WriteFile, Put
  <2>2. p = row[1]
    BY <1>0, <1>1, <2>1 DEF RTypeOK
  <2>3. Unhandled(r, p)
    BY <1>0, <2>1, <2>2 DEF Unhandled, Staged, Functional
  <2> QED BY <1>0, <2>1, <2>3 DEF Same
<1>6. ASSUME NEW o \in unclean[r], CleanUp(r, o) PROVE tree[p] = origin[r][p]
  <2>1. /\ Extraneous(r, o) /\ tree' = [tree EXCEPT ![o] = Absent]
        /\ rpc[r] = "clean"
    BY <1>1, <1>6 DEF CleanUp, Put
  <2>2. p = o
    BY <1>0, <1>1, <2>1 DEF RTypeOK
  <2>3. Unhandled(r, p)
    BY <2>1, <2>2 DEF Unhandled, Extraneous
  <2> QED BY <1>0, <2>1, <2>3 DEF Same
<1> QED BY <1>3, <1>4, <1>5, <1>6

\* What a restore with a safety snapshot writes over or removes, and the walk of
\* that snapshot tracks, is in the snapshot, and the snapshot is complete on
\* disk and listed or about to be, as long as nothing fails.
THEOREM OverwrittenStaysSaved == RSpec => OverwrittenIsSaved
<1> DEFINE Saves ==
        \A r \in Restorers : \A id \in safety[r], p \in Path :
          /\ Overwrites(r, p)
          /\ aborts = 0 /\ ioErrors = 0
          /\ p \notin touched[r] /\ Tracks(r, p)
          /\ tree[p] \in Content \ Oversize
          => /\ <<p, tree[p]>> \in id
             /\ Stored(id)
             /\ \/ id \in Listed
                \/ \E q \in Snappers : At(q, {"open", "append"}) /\ rows[q] = id
<1>1. ASSUME RInv, RNext PROVE Saves
  <2> SUFFICES ASSUME NEW r \in Restorers, NEW id \in safety[r], NEW p \in Path,
                      Overwrites(r, p), aborts = 0, ioErrors = 0,
                      p \notin touched[r], Tracks(r, p),
                      tree[p] \in Content \ Oversize
               PROVE  <<p, tree[p]>> \in id /\ Safe(id)
    BY DEF Safe, Recording
  <2>1. tree[p] = origin[r][p]
    BY <1>1, OverwritesKnown
  <2>2. Kept(r)
    BY <1>1 DEF RInv, Fine
  <2> QED BY <2>1, <2>2 DEF Kept, Takes, Clean
<1>2. RInv /\ [RNext]_rvars => [Saves]_rvars
  BY <1>1
<1> QED BY <1>2, RInvHolds, PTL DEF OverwrittenIsSaved, RSpec

=============================================================================
