------------------------------ MODULE SetupProofs ------------------------------
(* Theorems about the creation of a store and its configuration, for every   *)
(* value of the constants.                                                    *)
EXTENDS Setup, TLAPS

USE DEF disk, locals, counters, beginnings

(***************************************************************************)
(* The invariant.  What an init has found out stays true until it acts on  *)
(* it, or is remembered in noLog and noConfig; what has a manifest has its *)
(* line, or the line is on its way, or lost in a way the property allows.  *)
(***************************************************************************)

Setting == Settings \cup Beginnings \cup {Default}

InLog(id) == log # Missing /\ \E i \in DOMAIN log : log[i] = id
OnItsWay(id) == \E p \in Process : pc[p] = "append" /\ found[p] = id

\* An init has made every directory when it comes to the timeline, and one that
\* makes the timeline began without.
Making(p) ==
    /\ pc[p] \in {"stat log", "make log"} => Made \subseteq made
    /\ pc[p] \in {"dirs", "stat log"} => p \in noLog \/ log # Missing
    /\ pc[p] = "make log" => p \in noLog

Configuring(p) ==
    /\ pc[p] \in {"dirs", "stat log", "make log", "stat config"} =>
            p \in noConfig \/ config # Missing
    /\ pc[p] = "open config" => p \in noConfig

\* The limit of a command is one that was in force, and what is in force counts.
Limited(p) ==
    /\ pc[p] # "idle" => InForce(config) \subseteq meant[p]
    /\ pc[p] \in {"walk", "record", "append", "wait"} =>
            \E mb \in meant[p] : limit[p] = MaxFileSizeBytes(mb)

Recorded ==
    /\ log # Missing => \A i \in DOMAIN log : log[i] \in manifests
    /\ returned \subseteq manifests
    /\ \A p \in Process : pc[p] = "append" => found[p] \in manifests
    /\ \A id \in manifests : InLog(id) \/ OnItsWay(id) \/ id \in spoilt

IInv ==
    /\ SuTypeOK
    /\ \A p \in Process : Making(p) /\ Configuring(p) /\ Limited(p)
    /\ Recorded
    /\ CompleteAfterInit

-----------------------------------------------------------------------------
LEMMA InForceType ==
    ASSUME NEW text \in Texts
    PROVE  /\ InForce(text) \subseteq Setting
           /\ text \in {Missing, Blank} => InForce(text) = {Default}
           /\ text \notin {Missing, Blank, Broken} => InForce(text) = {text}
BY SetupAssumption DEF InForce, Texts, Setting

LEMMA SettingIsInt == Setting \subseteq Int /\ Default \in Setting
BY SetupAssumption DEF Setting

LEMMA IdsOfLog ==
    ASSUME NEW lines \in Seq(Id)
    PROVE  /\ \A i \in DOMAIN lines : lines[i] \in Id
           /\ lines # Missing
BY SetupAssumption

LEMMA LogGrows ==
    /\ <<>> \in Seq(Id)
    /\ \A lines \in Seq(Id) : \A id \in Id : Append(lines, id) \in Seq(Id)
OBVIOUS

LEMMA EmptyDomain == DOMAIN <<>> = {}
OBVIOUS

LEMMA MadeIs == Made = {".undo", "objects", "snapshots", "tmp"}
<1>1. DOMAIN Dirs = 1..4 /\ 1..4 = {1, 2, 3, 4}
  BY DEF Dirs
<1> QED BY <1>1 DEF Made, Dirs

LEMMA BytesType ==
    ASSUME NEW mb \in Int
    PROVE  MaxFileSizeBytes(mb) \in Int
<1>1. 2 * (MaxInt + 1) \in Nat \ {0} /\ MaxInt \in Int
  BY SetupAssumption
<1>2. mb * Megabyte + MaxInt + 1 \in Int
  BY SetupAssumption
<1>3. (mb * Megabyte + MaxInt + 1) % (2 * (MaxInt + 1)) \in Int
  BY <1>1, <1>2
<1> QED BY <1>1, <1>3 DEF MaxFileSizeBytes, Wrapped

\* A number whose bytes fit is the limit it asks for.
LEMMA BytesAreRight ==
    ASSUME NEW mb \in Int, mb * Megabyte <= MaxInt
    PROVE  MaxSize(MaxFileSizeBytes(mb)) =
             (IF mb > 0 THEN mb ELSE Default) * Megabyte
<1>1. CASE mb <= 0
  BY <1>1 DEF MaxSize, MaxFileSizeBytes
<1>2. CASE mb > 0
  <2> DEFINE bytes == mb * Megabyte
             half == MaxInt + 1
  <2>1. bytes \in Nat \ {0} /\ half \in Nat \ {0} /\ bytes < half
    BY <1>2, SetupAssumption
  <2>2. bytes + MaxInt + 1 = bytes + half
    BY SetupAssumption, <2>1
  <2> HIDE DEF bytes, half
  <2>3. (bytes + half) % (2 * half) = bytes + half
    BY <2>1
  <2>4. Wrapped(bytes) = bytes
    BY <2>1, <2>2, <2>3 DEF Wrapped, half
  <2>5. MaxFileSizeBytes(mb) = bytes
    BY <1>2, <2>4 DEF MaxFileSizeBytes, bytes
  <2> QED BY <1>2, <2>1, <2>5 DEF MaxSize, bytes
<1> QED BY <1>1, <1>2

-----------------------------------------------------------------------------
(* Types *)

LEMMA ConfigureEffect ==
    ASSUME NEW text \in Texts, Configure(text),
           meant \in [Process -> SUBSET Setting]
    PROVE  /\ config' = text
           /\ meant' \in [Process -> SUBSET Setting]
           /\ \A p \in Process :
                pc[p] # "idle" => /\ meant'[p] = meant[p] \cup InForce(text)
BY InForceType DEF Configure

LEMMA EndEffect ==
    ASSUME SuTypeOK, NEW p \in Process, End(p)
    PROVE  /\ pc' \in [Process -> Stages] /\ command' \in [Process -> Commands]
           /\ limit' \in [Process -> Int] /\ found' \in [Process -> Id]
           /\ meant' \in [Process -> SUBSET Setting]
<1>1. pc' \in [Process -> Stages] /\ command' \in [Process -> Commands]
  BY DEF End, Go, SuTypeOK, Stages, Commands
<1>2. limit' \in [Process -> Int]
  <2>1. limit \in [Process -> Int] /\ limit' = [limit EXCEPT ![p] = 0]
    BY DEF End, SuTypeOK
  <2> QED BY <2>1
<1>3. found' \in [Process -> Id]
  BY DEF End, SuTypeOK, Id
<1>4. meant' \in [Process -> SUBSET Setting]
  BY DEF End, SuTypeOK, Setting
<1> QED BY <1>1, <1>2, <1>3, <1>4

\* The first directory that is missing.
LEMMA NextDirectory ==
    ASSUME ~(Made \subseteq made)
    PROVE  \E i \in DOMAIN Dirs :
             /\ i = (CHOOSE k \in DOMAIN Dirs :
                        /\ Dirs[k] \notin made
                        /\ \A j \in 1..(k - 1) : Dirs[j] \in made)
             /\ Dirs[i] \in Made
<1>1. DOMAIN Dirs = 1..4
  BY DEF Dirs
<1>2. PICK d \in 1..4 : Dirs[d] \notin made
  BY <1>1 DEF Made
<1> DEFINE First(i) == /\ Dirs[i] \notin made
                       /\ \A j \in 1..(i - 1) : Dirs[j] \in made
<1>3. \E i \in 1..4 : First(i)
  <2>1. CASE Dirs[1] \notin made
    BY <2>1
  <2>2. CASE Dirs[1] \in made /\ Dirs[2] \notin made
    BY <2>2
  <2>3. CASE Dirs[1] \in made /\ Dirs[2] \in made /\ Dirs[3] \notin made
    <3>1. \A j \in 1..(3 - 1) : j = 1 \/ j = 2
      OBVIOUS
    <3> QED BY <2>3, <3>1
  <2>4. CASE /\ Dirs[1] \in made /\ Dirs[2] \in made /\ Dirs[3] \in made
             /\ Dirs[4] \notin made
    <3>1. \A j \in 1..(4 - 1) : j = 1 \/ j = 2 \/ j = 3
      OBVIOUS
    <3> QED BY <2>4, <3>1
  <2>5. d = 1 \/ d = 2 \/ d = 3 \/ d = 4
    OBVIOUS
  <2> QED BY <1>2, <2>1, <2>2, <2>3, <2>4, <2>5
<1> QED BY <1>1, <1>3 DEF Made

\* The variables a step changes keep their types.
LEMMA TypeStep == SuTypeOK /\ [SuNext]_suvars => SuTypeOK'
<1> SUFFICES ASSUME SuTypeOK, [SuNext]_suvars PROVE SuTypeOK'
  OBVIOUS
<1> USE DEF SuTypeOK
<1>1. ASSUME NEW p \in Process, NEW c \in Commands, Start(p, c)
      PROVE  /\ command' \in [Process -> Commands]
             /\ meant' \in [Process -> SUBSET Setting]
  BY <1>1, InForceType DEF Start, Setting
<1>2. ASSUME NEW p \in Process, NEW c \in {"init", "bare init"}, StartInit(p, c)
      PROVE  SuTypeOK'
  <2>1. /\ command' \in [Process -> Commands]
        /\ meant' \in [Process -> SUBSET Setting]
    BY <1>1, <1>2 DEF StartInit, Commands
  <2> QED BY <1>2, <2>1 DEF StartInit, Start, Go, Stages, Setting
<1>3. ASSUME NEW p \in Process, NEW c \in {"snapshot", "watch"}, StartOther(p, c)
      PROVE  SuTypeOK'
  <2>1. /\ command' \in [Process -> Commands]
        /\ meant' \in [Process -> SUBSET Setting]
    BY <1>1, <1>3 DEF StartOther, Commands
  <2> QED BY <1>3, <2>1 DEF StartOther, Start, Go, Stages, Setting
<1>4. ASSUME NEW p \in Process, MakeDirs(p) PROVE SuTypeOK'
  <2>1. CASE Made \subseteq made
    BY <1>4, <2>1 DEF MakeDirs, Go, Stages
  <2>2. CASE ~(Made \subseteq made)
    <3>1. \E i \in DOMAIN Dirs : made' = made \cup {Dirs[i]} /\ Dirs[i] \in Made
      BY <1>4, <2>2, NextDirectory DEF MakeDirs
    <3> QED BY <1>4, <2>2, <3>1 DEF MakeDirs
  <2> QED BY <2>1, <2>2
<1>5. ASSUME NEW p \in Process, StatLog(p) PROVE SuTypeOK'
  BY <1>5 DEF StatLog, Go, Stages
<1>6. ASSUME NEW p \in Process, MakeLog(p) PROVE SuTypeOK'
  <2>1. log' \in Seq(Id) /\ pc' \in [Process -> Stages]
    <3>1. log' = <<>> /\ pc' = [pc EXCEPT ![p] = "stat config"]
      BY <1>6 DEF MakeLog, Go
    <3>2. log' \in Seq(Id)
      BY <3>1, LogGrows
    <3>3. pc' \in [Process -> Stages]
      BY <3>1 DEF Stages
    <3> QED BY <3>2, <3>3
  <2>2. spoilt' \subseteq Id
    <3>1. log # Missing => \A i \in DOMAIN log : log[i] \in Id
      BY IdsOfLog
    <3> QED BY <1>6, <3>1 DEF MakeLog
  <2>3. writing' \subseteq {q \in Process : pc'[q] = "save config"}
    BY <1>6 DEF MakeLog, Go
  <2> QED BY <1>6, <2>1, <2>2, <2>3 DEF MakeLog
<1>7. ASSUME NEW p \in Process, StatConfig(p) PROVE SuTypeOK'
  BY <1>7 DEF StatConfig, Go, Stages
<1>8. ASSUME NEW p \in Process, OpenConfig(p) PROVE SuTypeOK'
  BY <1>8, ConfigureEffect DEF OpenConfig, Go, Stages, Texts, Setting
<1>9. ASSUME NEW p \in Process, SaveConfig(p) PROVE SuTypeOK'
  BY <1>9, ConfigureEffect DEF SaveConfig, Go, Stages, Texts, Setting
<1>10. ASSUME NEW p \in Process, NEW text \in Beginnings \cup {Broken},
              TearConfig(p, text)
       PROVE  SuTypeOK'
  <2> DEFINE left == IF config = Blank THEN text ELSE config
  <2>1. left \in Texts /\ Configure(left)
    BY <1>10 DEF TearConfig, Texts
  <2> HIDE DEF left
  <2>2. config' \in Texts /\ meant' \in [Process -> SUBSET Setting]
    BY <2>1, ConfigureEffect DEF Setting
  <2> QED BY <1>10, <2>2 DEF TearConfig, Go, Stages, Setting
<1>11. ASSUME NEW p \in Process, Load(p) PROVE SuTypeOK'
  <2>1. CASE command[p] = "bare init"
    <3>1. End(p)
      BY <1>11, <2>1 DEF Load
    <3> QED BY <1>11, <3>1, EndEffect DEF Load, End, Go, Setting
  <2>2. CASE command[p] # "bare init"
    <3> DEFINE mb == IF config \in {Missing, Blank} THEN Default ELSE config
    <3>1. mb \in Int
      BY <1>11, SettingIsInt, SetupAssumption DEF Load, Texts, Setting
    <3>2. limit' = [limit EXCEPT ![p] = MaxFileSizeBytes(mb)]
      BY <1>11, <2>2 DEF Load
    <3>3. limit' \in [Process -> Int]
      BY <3>1, <3>2, BytesType
    <3> QED BY <1>11, <2>2, <3>3 DEF Load, Go, Stages
  <2> QED BY <2>1, <2>2
<1>12. ASSUME NEW p \in Process, LoadFails(p) \/ Stop(p) PROVE SuTypeOK'
  <2>1. End(p) /\ pc[p] # "save config"
    BY <1>12 DEF LoadFails, Stop
  <2> QED BY <1>12, <2>1, EndEffect DEF LoadFails, Stop, End, Go, Setting
<1>13. ASSUME NEW p \in Process, Walk(p) PROVE SuTypeOK'
  <2>1. made' \subseteq Made
    BY <1>13, MadeIs DEF Walk
  <2>2. found' \in [Process -> Id]
    BY <1>13 DEF Walk, Id
  <2> QED BY <1>13, <2>1, <2>2 DEF Walk, Go, Stages
<1>14. ASSUME NEW p \in Process, Report(p)
       PROVE  /\ returned' \subseteq Id
              /\ pc' \in [Process -> Stages] /\ command' \in [Process -> Commands]
              /\ limit' \in [Process -> Int] /\ found' \in [Process -> Id]
              /\ meant' \in [Process -> SUBSET Setting]
              /\ \A q \in Process : pc'[q] = "save config" <=>
                                     q # p /\ pc[q] = "save config"
  <2>1. returned' \subseteq Id
    BY <1>14 DEF Report
  <2>2. CASE command[p] = "watch"
    BY <1>14, <2>1, <2>2 DEF Report, Go, Stages, Setting
  <2>3. CASE command[p] # "watch"
    <3>1. End(p)
      BY <1>14, <2>3 DEF Report
    <3>2. \A q \in Process : pc'[q] = "save config" <=>
                              q # p /\ pc[q] = "save config"
      BY <3>1 DEF End, Go
    <3> QED BY <2>1, <3>1, <3>2, EndEffect
  <2> QED BY <2>2, <2>3
<1>15. ASSUME NEW p \in Process, Record(p) PROVE SuTypeOK'
  <2>1. CASE Known(found[p])
    BY <1>14, <1>15, <2>1 DEF Record, Setting
  <2>2. CASE ~Known(found[p])
    <3>1. made' \subseteq Made
      BY <1>15, <2>2, MadeIs DEF Record
    <3>2. manifests' \subseteq Id
      <4>1. manifests' = manifests \cup {found[p]} /\ found[p] \in Id
        BY <1>15, <2>2 DEF Record
      <4> QED BY <4>1
    <3> QED BY <1>15, <2>2, <3>1, <3>2 DEF Record, Go, Stages
  <2> QED BY <2>1, <2>2
<1>16. ASSUME NEW p \in Process, AppendLine(p) PROVE SuTypeOK'
  <2>1. log' \in Seq(Id)
    <3>1. log' = Append(IF log = Missing THEN <<>> ELSE log, found[p])
          /\ found[p] \in Id
      BY <1>16 DEF AppendLine
    <3>2. (IF log = Missing THEN <<>> ELSE log) \in Seq(Id)
      BY LogGrows
    <3> QED BY <3>1, <3>2, LogGrows
  <2> QED BY <1>14, <1>16, <2>1 DEF AppendLine, Setting
<1>17. ASSUME NEW p \in Process, Again(p) PROVE SuTypeOK'
  BY <1>17 DEF Again, Go, Stages
<1>18. ASSUME NEW p \in Process, Kill(p) PROVE SuTypeOK'
  <2>1. End(p)
    BY <1>18 DEF Kill
  <2>2. spoilt' \subseteq Id
    BY <1>18 DEF Kill
  <2>3. writing' \subseteq {q \in Process : pc'[q] = "save config"}
    BY <1>18 DEF Kill, End, Go
  <2> QED BY <1>18, <2>1, <2>2, <2>3, EndEffect DEF Kill, Setting
<1>19. ASSUME NEW text \in Settings \cup {Broken}, EditConfig(text)
       PROVE  SuTypeOK'
  <2>1. config' \in Texts /\ meant' \in [Process -> SUBSET Setting]
    <3>1. Configure(text) /\ text \in Texts
      BY <1>19 DEF EditConfig, Texts
    <3>2. meant \in [Process -> SUBSET Setting]
      BY DEF Setting
    <3> QED BY <3>1, <3>2, ConfigureEffect
  <2> QED BY <1>19, <2>1 DEF EditConfig, Edit, Setting
<1>20. CASE RemoveConfig
  BY <1>20, ConfigureEffect DEF RemoveConfig, Edit, Texts, Setting
<1>21. CASE UNCHANGED suvars
  BY <1>21 DEF suvars
<1> QED BY <1>2, <1>3, <1>4, <1>5, <1>6, <1>7, <1>8, <1>9, <1>10, <1>11, <1>12,
           <1>13, <1>15, <1>16, <1>17, <1>18, <1>19, <1>20, <1>21 DEF SuNext

-----------------------------------------------------------------------------
(* The stages of the processes *)

LEMMA MakingStep ==
    ASSUME SuTypeOK, \A p \in Process : Making(p), SuNext
    PROVE  /\ \A p \in Process : Making(p)'
           /\ made \subseteq made' /\ (log # Missing => log' # Missing)
<1>0. CASE Process = {}
  BY <1>0 DEF SuNext, EditConfig, RemoveConfig, Edit
<1> SUFFICES ASSUME NEW q \in Process
             PROVE  Making(q)' /\ made \subseteq made'
                    /\ (log # Missing => log' # Missing)
  BY <1>0
<1> USE DEF Making
<1>a. Missing \notin Seq(Id)
  BY SetupAssumption
<1>b. ASSUME NEW p \in Process, End(p)
      PROVE  pc' = [pc EXCEPT ![p] = "idle"]
  BY <1>b DEF End, Go
<1>c. ASSUME NEW p \in Process, Report(p)
      PROVE  pc' = [pc EXCEPT ![p] = IF command[p] = "watch" THEN "wait"
                                                             ELSE "idle"]
  BY <1>c DEF Report, End, Go
<1>d. pc \in [Process -> Stages]
  BY DEF SuTypeOK
<1>2. ASSUME NEW p \in Process, NEW c \in {"init", "bare init"}, StartInit(p, c)
      PROVE  Making(q)' /\ made' = made /\ log' = log
  BY <1>2, <1>d DEF StartInit, Go
<1>3. ASSUME NEW p \in Process, NEW c \in {"snapshot", "watch"}, StartOther(p, c)
      PROVE  Making(q)' /\ made' = made /\ log' = log
  BY <1>3, <1>d DEF StartOther, Go
<1>4. ASSUME NEW p \in Process, MakeDirs(p)
      PROVE  Making(q)' /\ made \subseteq made' /\ log' = log
  BY <1>4, <1>d DEF MakeDirs, Go
<1>5. ASSUME NEW p \in Process, StatLog(p)
      PROVE  Making(q)' /\ made' = made /\ log' = log
  BY <1>5, <1>d DEF StatLog, Go
<1>6. ASSUME NEW p \in Process, MakeLog(p)
      PROVE  Making(q)' /\ made' = made /\ log' # Missing
  <2>1. log' # Missing
    BY <1>6, <1>a, LogGrows DEF MakeLog
  <2> QED BY <1>6, <1>d, <2>1 DEF MakeLog, Go
<1>7. ASSUME NEW p \in Process, StatConfig(p)
      PROVE  Making(q)' /\ made' = made /\ log' = log
  BY <1>7, <1>d DEF StatConfig, Go
<1>8. ASSUME NEW p \in Process, OpenConfig(p)
      PROVE  Making(q)' /\ made' = made /\ log' = log
  BY <1>8, <1>d DEF OpenConfig, Go
<1>9. ASSUME NEW p \in Process, SaveConfig(p)
      PROVE  Making(q)' /\ made' = made /\ log' = log
  BY <1>9, <1>d DEF SaveConfig, Go
<1>10. ASSUME NEW p \in Process, NEW text \in Beginnings \cup {Broken},
              TearConfig(p, text)
       PROVE  Making(q)' /\ made' = made /\ log' = log
  BY <1>10, <1>d DEF TearConfig, Go
<1>11. ASSUME NEW p \in Process, Load(p) \/ LoadFails(p) \/ Stop(p) \/ Kill(p)
       PROVE  Making(q)' /\ made' = made /\ log' = log
  <2>1. pc' = [pc EXCEPT ![p] = "idle"] \/ pc' = [pc EXCEPT ![p] = "walk"]
    BY <1>11, <1>b DEF Load, LoadFails, Stop, Kill, Go
  <2>2. UNCHANGED <<made, log, noLog>>
    BY <1>11 DEF Load, LoadFails, Stop, Kill
  <2> QED BY <1>d, <2>1, <2>2
<1>13. ASSUME NEW p \in Process, Walk(p)
       PROVE  Making(q)' /\ made \subseteq made' /\ log' = log
  BY <1>13, <1>d DEF Walk, Go
<1>15. ASSUME NEW p \in Process, Record(p)
       PROVE  Making(q)' /\ made \subseteq made' /\ log' = log
  <2>1. \E stage \in {"append", "wait", "idle"} :
          pc' = [pc EXCEPT ![p] = stage]
    BY <1>15, <1>c DEF Record, Go
  <2>2. made \subseteq made' /\ UNCHANGED <<log, noLog>>
    BY <1>15 DEF Record
  <2> QED BY <1>d, <2>1, <2>2
<1>16. ASSUME NEW p \in Process, AppendLine(p)
       PROVE  Making(q)' /\ made' = made /\ log' # Missing
  <2>1. log' # Missing
    <3>1. log' = Append(IF log = Missing THEN <<>> ELSE log, found[p])
          /\ found[p] \in Id
      BY <1>16 DEF AppendLine, SuTypeOK
    <3>2. (IF log = Missing THEN <<>> ELSE log) \in Seq(Id)
      BY LogGrows DEF SuTypeOK
    <3> QED BY <1>a, <3>1, <3>2, LogGrows
  <2>2. \E stage \in {"wait", "idle"} : pc' = [pc EXCEPT ![p] = stage]
    BY <1>16, <1>c DEF AppendLine
  <2>3. UNCHANGED <<made, noLog>>
    BY <1>16 DEF AppendLine
  <2> QED BY <1>d, <2>1, <2>2, <2>3
<1>17. ASSUME NEW p \in Process, Again(p)
       PROVE  Making(q)' /\ made' = made /\ log' = log
  BY <1>17, <1>d DEF Again, Go
<1>19. ASSUME NEW text, EditConfig(text)
       PROVE  Making(q)' /\ made' = made /\ log' = log
  BY <1>19 DEF EditConfig, Edit
<1>20. CASE RemoveConfig
  BY <1>20 DEF RemoveConfig, Edit
<1> QED BY <1>2, <1>3, <1>4, <1>5, <1>6, <1>7, <1>8, <1>9, <1>10, <1>11,
           <1>13, <1>15, <1>16, <1>17, <1>19, <1>20 DEF SuNext

\* How a command that ends, or has recorded its snapshot, leaves the stages.
LEMMA EndStage ==
    ASSUME NEW p \in Process, End(p) \/ Report(p)
    PROVE  \E stage \in {"wait", "idle"} : pc' = [pc EXCEPT ![p] = stage]
BY DEF Report, End, Go

LEMMA ConfiguringStep ==
    ASSUME SuTypeOK, NEW q \in Process, Configuring(q), SuNext
    PROVE  Configuring(q)'
<1> USE DEF Configuring
<1>d. pc \in [Process -> Stages]
  BY DEF SuTypeOK
<1>e. /\ Blank # Missing /\ Broken # Missing /\ Default # Missing
      /\ \A text \in Settings \cup Beginnings \cup {Broken} : text # Missing
  <2>1. Setting \subseteq Int /\ Missing \notin Int
    BY SettingIsInt, SetupAssumption
  <2> QED BY <2>1, SetupAssumption DEF Setting
<1>2. ASSUME NEW p \in Process, NEW c \in {"init", "bare init"}, StartInit(p, c)
      PROVE  Configuring(q)'
  BY <1>2, <1>d DEF StartInit, Go
<1>3. ASSUME NEW p \in Process, NEW c \in {"snapshot", "watch"}, StartOther(p, c)
      PROVE  Configuring(q)'
  BY <1>3, <1>d DEF StartOther, Go
<1>4. ASSUME NEW p \in Process, MakeDirs(p) \/ StatLog(p) \/ MakeLog(p)
      PROVE  Configuring(q)'
  <2>1. /\ pc[p] \in {"dirs", "stat log", "make log"}
        /\ UNCHANGED <<config, noConfig>>
        /\ \/ pc' = pc
           \/ \E stage \in {"stat log", "make log", "stat config"} :
                pc' = [pc EXCEPT ![p] = stage]
    BY <1>4 DEF MakeDirs, StatLog, MakeLog, Go
  <2> QED BY <1>d, <2>1
<1>7. ASSUME NEW p \in Process, StatConfig(p) PROVE Configuring(q)'
  BY <1>7, <1>d DEF StatConfig, Go
<1>8. ASSUME NEW p \in Process, OpenConfig(p) PROVE Configuring(q)'
  BY <1>8, <1>d, <1>e DEF OpenConfig, Configure, Go
<1>9. ASSUME NEW p \in Process, SaveConfig(p) PROVE Configuring(q)'
  BY <1>9, <1>d, <1>e DEF SaveConfig, Configure, Go
<1>10. ASSUME NEW p \in Process, NEW text \in Beginnings \cup {Broken},
              TearConfig(p, text)
       PROVE  Configuring(q)'
  <2>1. /\ pc' = [pc EXCEPT ![p] = "idle"] /\ noConfig' = noConfig
        /\ config' = IF config = Blank THEN text ELSE config
    BY <1>10 DEF TearConfig, Configure, Go
  <2>2. config # Missing => config' # Missing
    BY <1>e, <2>1
  <2> QED BY <1>d, <2>1, <2>2
<1>11. ASSUME NEW p \in Process,
              \/ Load(p) \/ LoadFails(p) \/ Stop(p) \/ Kill(p) \/ Walk(p)
              \/ Record(p) \/ AppendLine(p) \/ Again(p)
       PROVE  Configuring(q)'
  <2>1. \E stage \in {"wait", "idle", "walk", "record", "append"} :
          pc' = [pc EXCEPT ![p] = stage]
    BY <1>11, EndStage DEF Load, LoadFails, Stop, Kill, Walk, Record, AppendLine,
       Again, Go
  <2>2. UNCHANGED <<config, noConfig>>
    BY <1>11 DEF Load, LoadFails, Stop, Kill, Walk, Record, AppendLine, Again
  <2> QED BY <1>d, <2>1, <2>2
<1>19. ASSUME NEW text \in Settings \cup {Broken}, EditConfig(text)
       PROVE  Configuring(q)'
  BY <1>19, <1>e DEF EditConfig, Configure, Edit
<1>20. CASE RemoveConfig
  BY <1>20 DEF RemoveConfig, Edit
<1> QED BY <1>2, <1>3, <1>4, <1>7, <1>8, <1>9, <1>10, <1>11, <1>19, <1>20
        DEF SuNext

\* config.toml has changed, and this process has not moved to another stage, or
\* to one that has not loaded it.
LEMMA LimitedAfterConfigure ==
    ASSUME SuTypeOK, NEW q \in Process, Limited(q), NEW text \in Texts,
           Configure(text),
           pc'[q] = pc[q] \/ (pc[q] # "idle" /\ pc'[q] \in {"idle", "load", "save config"}),
           limit' = limit
    PROVE  Limited(q)'
<1>1. /\ config' = text
      /\ pc[q] # "idle" => meant'[q] = meant[q] \cup InForce(text)
  BY ConfigureEffect DEF SuTypeOK, Setting
<1>2. CASE pc[q] = "idle"
  BY <1>2 DEF Limited
<1>3. CASE pc[q] # "idle"
  <2>1. InForce(config') = InForce(text)
    BY <1>1
  <2> QED BY <1>1, <1>3, <2>1 DEF Limited
<1> QED BY <1>2, <1>3

LEMMA LimitedStep ==
    ASSUME SuTypeOK, NEW q \in Process, Limited(q), SuNext
    PROVE  Limited(q)'
<1>d. /\ pc \in [Process -> Stages] /\ limit \in [Process -> Int]
      /\ meant \in [Process -> SUBSET Setting] /\ config \in Texts
  BY DEF SuTypeOK, Setting
<1>2. ASSUME NEW p \in Process, NEW c, Start(p, c), config' = config,
             pc' = [pc EXCEPT ![p] = "dirs"] \/ pc' = [pc EXCEPT ![p] = "load"]
      PROVE  Limited(q)'
  <2>1. InForce(config') = InForce(config)
    BY <1>2
  <2> QED BY <1>2, <1>d, <2>1 DEF Start, Limited
<1>3. ASSUME NEW p \in Process,
             \/ \E c \in {"init", "bare init"} : StartInit(p, c)
             \/ \E c \in {"snapshot", "watch"} : StartOther(p, c)
      PROVE  Limited(q)'
  BY <1>2, <1>3 DEF StartInit, StartOther, Go
<1>4. ASSUME NEW p \in Process,
             \/ MakeDirs(p) \/ StatLog(p) \/ MakeLog(p) \/ StatConfig(p)
             \/ Walk(p) \/ Again(p)
      PROVE  Limited(q)'
  <2>1. /\ UNCHANGED <<config, limit, meant>>
        /\ \/ pc' = pc
           \/ /\ pc[p] \in {"dirs", "stat log", "make log", "stat config"}
              /\ \E stage \in {"stat log", "make log", "stat config",
                               "open config", "load"} :
                    pc' = [pc EXCEPT ![p] = stage]
           \/ /\ pc[p] \in {"walk", "wait"}
              /\ \E stage \in {"walk", "record"} : pc' = [pc EXCEPT ![p] = stage]
    BY <1>4 DEF MakeDirs, StatLog, MakeLog, StatConfig, Walk, Again, Go
  <2>2. InForce(config') = InForce(config)
    BY <2>1
  <2> QED BY <1>d, <2>1, <2>2 DEF Limited
<1>5. ASSUME NEW p \in Process, OpenConfig(p) PROVE Limited(q)'
  <2>1. /\ Configure(Blank) /\ limit' = limit /\ pc[p] = "open config"
        /\ pc' = [pc EXCEPT ![p] = "save config"]
    BY <1>5 DEF OpenConfig, Go
  <2> QED BY <1>d, <2>1, LimitedAfterConfigure DEF Texts
<1>6. ASSUME NEW p \in Process, SaveConfig(p) PROVE Limited(q)'
  <2>1. /\ limit' = limit /\ pc[p] = "save config"
        /\ pc' = [pc EXCEPT ![p] = "load"]
    BY <1>6 DEF SaveConfig, Go
  <2>2. CASE Configure(Default)
    BY <1>d, <2>1, <2>2, LimitedAfterConfigure DEF Texts
  <2>3. CASE UNCHANGED <<config, meant>>
    <3>1. InForce(config') = InForce(config)
      BY <2>3
    <3> QED BY <1>d, <2>1, <2>3, <3>1 DEF Limited
  <2> QED BY <1>6, <2>2, <2>3 DEF SaveConfig
<1>7. ASSUME NEW p \in Process, NEW text \in Beginnings \cup {Broken},
             TearConfig(p, text)
      PROVE  Limited(q)'
  <2> DEFINE left == IF config = Blank THEN text ELSE config
  <2>1. /\ limit' = limit /\ pc[p] = "save config"
        /\ pc' = [pc EXCEPT ![p] = "idle"] /\ Configure(left)
    BY <1>7 DEF TearConfig, Go
  <2>2. left \in Texts
    BY <1>d DEF Texts
  <2> HIDE DEF left
  <2> QED BY <1>d, <2>1, <2>2, LimitedAfterConfigure
<1>8. ASSUME NEW p \in Process, End(p), config' = config PROVE Limited(q)'
  <2>1. InForce(config') = InForce(config)
    BY <1>8
  <2> QED BY <1>d, <1>8, <2>1 DEF End, Go, Limited
<1>9. ASSUME NEW p \in Process, LoadFails(p) \/ Stop(p) \/ Kill(p)
      PROVE  Limited(q)'
  BY <1>8, <1>9 DEF LoadFails, Stop, Kill
<1>10. ASSUME NEW p \in Process, Load(p) PROVE Limited(q)'
  <2>1. CASE command[p] = "bare init"
    BY <1>8, <1>10, <2>1 DEF Load
  <2>2. CASE command[p] # "bare init"
    <3> DEFINE mb == IF config \in {Missing, Blank} THEN Default ELSE config
    <3>1. /\ limit' = [limit EXCEPT ![p] = MaxFileSizeBytes(mb)]
          /\ pc[p] = "load" /\ pc' = [pc EXCEPT ![p] = "walk"]
          /\ UNCHANGED <<config, meant>> /\ config # Broken
      BY <1>10, <2>2 DEF Load, Go
    <3>2. mb \in InForce(config)
      BY <1>d, <3>1, InForceType
    <3>3. InForce(config') = InForce(config)
      BY <3>1
    <3> HIDE DEF mb
    <3>4. CASE q = p
      <4>1. mb \in meant'[q]
        BY <3>1, <3>2, <3>4 DEF Limited
      <4>2. limit'[q] = MaxFileSizeBytes(mb)
        BY <1>d, <3>1, <3>4
      <4>3. InForce(config') \subseteq meant'[q]
        BY <3>1, <3>3, <3>4 DEF Limited
      <4> QED BY <4>1, <4>2, <4>3 DEF Limited
    <3>5. CASE q # p
      BY <1>d, <3>1, <3>3, <3>5 DEF Limited
    <3> QED BY <3>4, <3>5
  <2> QED BY <2>1, <2>2
<1>11. ASSUME NEW p \in Process, Record(p) \/ AppendLine(p) PROVE Limited(q)'
  <2>1. pc[p] \in {"record", "append"} /\ config' = config
    BY <1>11 DEF Record, AppendLine
  <2>2. \/ End(p)
        \/ /\ UNCHANGED <<limit, meant>>
           /\ \E stage \in {"append", "wait"} : pc' = [pc EXCEPT ![p] = stage]
    BY <1>11 DEF Record, AppendLine, Report, Go
  <2>3. InForce(config') = InForce(config)
    BY <2>1
  <2> QED BY <1>8, <1>d, <2>1, <2>2, <2>3 DEF Limited
<1>12. ASSUME NEW text \in Settings \cup {Broken}, EditConfig(text)
       PROVE  Limited(q)'
  <2>1. Configure(text) /\ limit' = limit /\ pc' = pc /\ text \in Texts
    BY <1>12 DEF EditConfig, Edit, Texts
  <2> QED BY <2>1, LimitedAfterConfigure
<1>13. CASE RemoveConfig
  <2>1. Configure(Missing) /\ limit' = limit /\ pc' = pc /\ Missing \in Texts
    BY <1>13 DEF RemoveConfig, Edit, Texts
  <2> QED BY <2>1, LimitedAfterConfigure
<1> QED BY <1>3, <1>4, <1>5, <1>6, <1>7, <1>9, <1>10, <1>11, <1>12, <1>13
        DEF SuNext

-----------------------------------------------------------------------------
(* Lines and manifests *)

\* The timeline and the manifests are as they were, and no process that was
\* about to append its line has stopped.
LEMMA RecordedStays ==
    ASSUME Recorded, UNCHANGED <<log, manifests, returned>>,
           spoilt \subseteq spoilt',
           \A p \in Process :
              /\ pc'[p] = "append" => pc[p] = "append"
              /\ pc[p] = "append" =>
                    \/ pc'[p] = "append" /\ found'[p] = found[p]
                    \/ found[p] \in spoilt'
              /\ pc'[p] = "append" => found'[p] = found[p]
    PROVE  Recorded'
BY DEF Recorded, InLog, OnItsWay

LEMMA RecordedStep ==
    ASSUME SuTypeOK, Recorded, \A p \in Process : Making(p), SuNext
    PROVE  Recorded'
<1>d. /\ pc \in [Process -> Stages] /\ found \in [Process -> Id]
      /\ returned \subseteq Id /\ manifests \subseteq Id
  BY DEF SuTypeOK
<1>1. ASSUME NEW p \in Process,
             \/ \E c \in {"init", "bare init"} : StartInit(p, c)
             \/ \E c \in {"snapshot", "watch"} : StartOther(p, c)
      PROVE  Recorded'
  <2>1. /\ UNCHANGED <<log, manifests, returned, spoilt, found>>
        /\ pc[p] = "idle"
        /\ \E stage \in {"dirs", "load"} : pc' = [pc EXCEPT ![p] = stage]
    BY <1>1 DEF StartInit, StartOther, Start, Go
  <2> QED BY <1>d, <2>1, RecordedStays
<1>2. ASSUME NEW p \in Process,
             \/ MakeDirs(p) \/ StatLog(p) \/ StatConfig(p) \/ OpenConfig(p)
             \/ SaveConfig(p) \/ \E text \in Beginnings \cup {Broken} :
                                 TearConfig(p, text)
             \/ Again(p)
      PROVE  Recorded'
  <2>1. /\ UNCHANGED <<log, manifests, returned, spoilt, found>>
        /\ pc[p] # "append"
        /\ \/ pc' = pc
           \/ \E stage \in Stages \ {"append"} : pc' = [pc EXCEPT ![p] = stage]
    BY <1>2 DEF MakeDirs, StatLog, StatConfig, OpenConfig, SaveConfig, TearConfig,
       Again, Go, Stages
  <2> QED BY <1>d, <2>1, RecordedStays
<1>3. ASSUME NEW p \in Process, MakeLog(p) PROVE Recorded'
  <2>1. /\ UNCHANGED <<manifests, returned, found>> /\ log' = <<>>
        /\ pc[p] = "make log" /\ pc' = [pc EXCEPT ![p] = "stat config"]
        /\ p \in noLog
        /\ log # Missing => spoilt' = spoilt \cup {log[i] : i \in DOMAIN log}
        /\ spoilt \subseteq spoilt'
    BY <1>3 DEF MakeLog, Go, Making
  <2>2. \A i \in DOMAIN log' : log'[i] \in manifests'
    BY <2>1, EmptyDomain
  <2>3. ASSUME NEW id \in manifests
        PROVE  OnItsWay(id)' \/ id \in spoilt'
    <3>1. CASE InLog(id)
      BY <2>1, <3>1 DEF InLog
    <3>2. CASE OnItsWay(id)
      BY <1>d, <2>1, <3>2 DEF OnItsWay
    <3>3. CASE id \in spoilt
      BY <2>1, <3>3
    <3> QED BY <3>1, <3>2, <3>3 DEF Recorded
  <2>4. \A q \in Process : pc'[q] = "append" => found'[q] \in manifests'
    BY <1>d, <2>1 DEF Recorded
  <2> QED BY <2>1, <2>2, <2>3, <2>4 DEF Recorded
<1>4. ASSUME NEW p \in Process,
             Load(p) \/ LoadFails(p) \/ Stop(p) \/ Kill(p) \/ Walk(p)
      PROVE  Recorded'
  <2>1. /\ UNCHANGED <<log, manifests, returned>> /\ spoilt \subseteq spoilt'
        /\ pc[p] = "append" => found[p] \in spoilt'
        /\ \E stage \in {"idle", "walk", "record"} :
             pc' = [pc EXCEPT ![p] = stage]
        /\ \A q \in Process \ {p} : found'[q] = found[q]
    BY <1>4, <1>d DEF Load, LoadFails, Stop, Kill, Walk, End, Go
  <2> QED BY <1>d, <2>1, RecordedStays
<1>5. ASSUME NEW p \in Process, Report(p)
      PROVE  /\ returned' = returned \cup {found[p]}
             /\ \E stage \in {"wait", "idle"} : pc' = [pc EXCEPT ![p] = stage]
             /\ \A q \in Process \ {p} : found'[q] = found[q]
  BY <1>5, <1>d, EndStage DEF Report, End
<1>6. ASSUME NEW p \in Process, Record(p), Known(found[p]) PROVE Recorded'
  <2>1. /\ UNCHANGED <<log, manifests, spoilt>> /\ pc[p] = "record"
        /\ Report(p)
    BY <1>6 DEF Record
  <2>2. found[p] \in manifests
    <3>1. CASE found[p] \in manifests
      BY <3>1
    <3>2. CASE log \notin {Missing, <<>>} /\ log[Len(log)] = found[p]
      <4>1. log \in Seq(Id)
        BY <3>2 DEF SuTypeOK
      <4>2. Len(log) \in DOMAIN log
        BY <3>2, <4>1
      <4> QED BY <3>2, <4>2 DEF Recorded
    <3> QED BY <1>6, <3>1, <3>2 DEF Known
  <2>3. \A id : OnItsWay(id) => OnItsWay(id)'
    BY <1>5, <1>d, <2>1 DEF OnItsWay
  <2>4. \A q \in Process : pc'[q] = "append" => found'[q] \in manifests'
    BY <1>5, <1>d, <2>1 DEF Recorded
  <2> QED BY <1>5, <2>1, <2>2, <2>3, <2>4 DEF Recorded, InLog
<1>7. ASSUME NEW p \in Process, Record(p), ~Known(found[p]) PROVE Recorded'
  <2>1. /\ UNCHANGED <<log, found, returned, spoilt>> /\ pc[p] = "record"
        /\ pc' = [pc EXCEPT ![p] = "append"]
        /\ manifests' = manifests \cup {found[p]}
    BY <1>7 DEF Record, Go
  <2>2. \A id : OnItsWay(id) => OnItsWay(id)'
    BY <1>d, <2>1 DEF OnItsWay
  <2>3. OnItsWay(found[p])'
    BY <1>d, <2>1 DEF OnItsWay
  <2>4. \A q \in Process : pc'[q] = "append" => found'[q] \in manifests'
    BY <1>d, <2>1 DEF Recorded
  <2> QED BY <2>1, <2>2, <2>3, <2>4 DEF Recorded, InLog
<1>8. ASSUME NEW p \in Process, AppendLine(p) PROVE Recorded'
  <2> DEFINE before == IF log = Missing THEN <<>> ELSE log
  <2>1. /\ UNCHANGED <<manifests, spoilt>> /\ pc[p] = "append"
        /\ log' = Append(before, found[p])
        /\ Report(p)
    BY <1>8 DEF AppendLine
  <2>2. before \in Seq(Id) /\ found[p] \in Id /\ found[p] \in manifests
    BY <1>d, <2>1, LogGrows DEF SuTypeOK, Recorded
  <2>3. \A i \in DOMAIN before : before[i] \in manifests /\ before = log
    BY DEF Recorded
  <2>4. /\ DOMAIN log' = 1..(Len(before) + 1) /\ Len(before) \in Nat
        /\ DOMAIN before = 1..Len(before)
        /\ log'[Len(before) + 1] = found[p]
        /\ \A i \in DOMAIN before : log'[i] = before[i] /\ i \in DOMAIN log'
        /\ log' # Missing
    <3>1. Append(before, found[p]) \in Seq(Id)
      BY <2>2, LogGrows
    <3>2. log' # Missing
      BY <2>1, <3>1, IdsOfLog
    <3> HIDE DEF before
    <3> QED BY <2>1, <2>2, <3>2
  <2>5. \A i \in DOMAIN log' : log'[i] \in manifests
    BY <2>2, <2>3, <2>4
  <2>6. \A id : id = found[p] => InLog(id)'
    BY <2>4 DEF InLog
  <2>7. \A id : InLog(id) => InLog(id)'
    <3>1. log # Missing => before = log
      OBVIOUS
    <3> HIDE DEF before
    <3> QED BY <2>4, <3>1 DEF InLog
  <2>8. \A id : OnItsWay(id) => id = found[p] \/ OnItsWay(id)'
    BY <1>5, <1>d, <2>1 DEF OnItsWay
  <2>9. \A q \in Process : pc'[q] = "append" => found'[q] \in manifests'
    BY <1>5, <1>d, <2>1 DEF Recorded
  <2> HIDE DEF before
  <2> QED BY <1>5, <2>1, <2>2, <2>5, <2>6, <2>7, <2>8, <2>9 DEF Recorded
<1>9. ASSUME NEW text, EditConfig(text) PROVE Recorded'
  BY <1>9, RecordedStays DEF EditConfig, Edit
<1>10. CASE RemoveConfig
  BY <1>10, RecordedStays DEF RemoveConfig, Edit
<1> QED BY <1>1, <1>2, <1>3, <1>4, <1>6, <1>7, <1>8, <1>9, <1>10 DEF SuNext

-----------------------------------------------------------------------------
(* IInv is inductive *)

LEMMA InvInit == SuInit => IInv
<1> SUFFICES ASSUME SuInit PROVE IInv
  OBVIOUS
<1> USE DEF SuInit
<1>1. SuTypeOK
  <2>1. /\ pc \in [Process -> Stages] /\ command \in [Process -> Commands]
        /\ limit \in [Process -> Int]
    BY DEF Stages, Commands
  <2>2. /\ found \in [Process -> Id]
        /\ meant \in [Process -> SUBSET (Settings \cup Beginnings \cup {Default})]
    BY DEF Id
  <2>3. config \in Texts /\ log \in Seq(Id) \cup {Missing}
    BY DEF Texts
  <2> QED BY <2>1, <2>2, <2>3 DEF SuTypeOK
<1>2. \A p \in Process : Making(p) /\ Configuring(p) /\ Limited(p)
  BY DEF Making, Configuring, Limited
<1>3. Recorded /\ CompleteAfterInit
  BY DEF Recorded, CompleteAfterInit
<1> QED BY <1>1, <1>2, <1>3 DEF IInv

LEMMA CompleteStep ==
    ASSUME SuTypeOK, \A p \in Process : Making(p), CompleteAfterInit, SuNext
    PROVE  CompleteAfterInit'
<1>1. /\ made \subseteq made' /\ (log # Missing => log' # Missing)
      /\ SuTypeOK'
  BY MakingStep, TypeStep
<1>2. made' \subseteq Made
  BY <1>1 DEF SuTypeOK
<1>3. CASE initialised
  BY <1>1, <1>2, <1>3 DEF CompleteAfterInit
<1>4. CASE initialised' /\ ~initialised
  <2>1. PICK p \in Process : StatLog(p) \/ MakeLog(p)
    BY <1>4 DEF SuNext, StartInit, StartOther, MakeDirs, StatConfig, OpenConfig,
       SaveConfig, TearConfig, Load, LoadFails, Walk, Record, AppendLine, Again,
       Stop, Kill, EditConfig, RemoveConfig, Edit
  <2>2. Made \subseteq made
    BY <2>1 DEF Making, StatLog, MakeLog
  <2>3. log' # Missing
    <3>1. CASE StatLog(p)
      BY <1>1, <1>4, <3>1 DEF StatLog
    <3>2. CASE MakeLog(p)
      BY <3>2, LogGrows, IdsOfLog DEF MakeLog
    <3> QED BY <2>1, <3>1, <3>2
  <2> QED BY <1>1, <1>2, <2>2, <2>3 DEF CompleteAfterInit
<1>5. CASE ~initialised'
  BY <1>5 DEF CompleteAfterInit
<1> QED BY <1>3, <1>4, <1>5

LEMMA InvStep == IInv /\ [SuNext]_suvars => IInv'
<1> SUFFICES ASSUME IInv, [SuNext]_suvars PROVE IInv'
  OBVIOUS
<1>1. CASE SuNext
  <2>1. SuTypeOK' /\ Recorded' /\ CompleteAfterInit'
    BY <1>1, TypeStep, RecordedStep, CompleteStep DEF IInv
  <2>2. \A p \in Process : Making(p)' /\ Configuring(p)' /\ Limited(p)'
    BY <1>1, MakingStep, ConfiguringStep, LimitedStep DEF IInv
  <2> QED BY <2>1, <2>2 DEF IInv
<1>2. CASE UNCHANGED suvars
  <2>1. UNCHANGED <<made, log, manifests, config, pc, limit, found, meant>>
        /\ UNCHANGED <<noLog, noConfig, initialised, returned, spoilt>>
    BY <1>2 DEF suvars
  <2>2. SuTypeOK'
    BY <1>2, TypeStep DEF IInv
  <2>3. \A p \in Process : Making(p)' /\ Configuring(p)'
    BY <2>1 DEF IInv, Making, Configuring
  <2>4. \A p \in Process : Limited(p)'
    <3>1. InForce(config') = InForce(config)
      BY <2>1
    <3> QED BY <2>1, <3>1 DEF IInv, Limited
  <2>5. Recorded' /\ CompleteAfterInit'
    BY <2>1 DEF IInv, Recorded, InLog, OnItsWay, CompleteAfterInit
  <2> QED BY <2>2, <2>3, <2>4, <2>5 DEF IInv
<1> QED BY <1>1, <1>2

LEMMA InvCorrect == SuSpec => []IInv
BY InvInit, InvStep, PTL DEF SuSpec

-----------------------------------------------------------------------------
\* Every variable keeps its type, the limits that overflow included.
THEOREM TypeCorrect == SuSpec => []SuTypeOK
<1>1. IInv => SuTypeOK
  BY DEF IInv
<1> QED BY <1>1, InvCorrect, PTL

\* One init that has come past store.Init is enough for the store to be complete
\* from then on, with any number of processes and kills.
THEOREM InitCompletes == SuSpec => []CompleteAfterInit
<1>1. IInv => CompleteAfterInit
  BY DEF IInv
<1> QED BY <1>1, InvCorrect, PTL

\* What has been reported is listed, but for the ways that ReportedIsListed names.
THEOREM ReportedStaysListed == SuSpec => []ReportedIsListed
<1>1. IInv => ReportedIsListed
  BY DEF IInv, Recorded, InLog, OnItsWay, ReportedIsListed
<1> QED BY <1>1, InvCorrect, PTL

\* No init overwrites a configuration of the user's that was there before it.
THEOREM EditsAreKept == SuSpec => EditsStay
<1> DEFINE Kept == own /\ ~own' => \/ config' = Missing
                                   \/ \E p \in noConfig : pc[p] = "open config"
<1>1. IInv /\ [SuNext]_suvars => [Kept]_suvars
  <2> SUFFICES ASSUME IInv, SuNext, own, ~own'
               PROVE  \/ config' = Missing
                      \/ \E p \in noConfig : pc[p] = "open config"
    OBVIOUS
  <2>1. RemoveConfig \/ \E p \in Process : OpenConfig(p)
    BY DEF SuNext, StartInit, StartOther, MakeDirs, StatLog, MakeLog, StatConfig,
       SaveConfig, TearConfig, Load, LoadFails, Walk, Record, AppendLine, Again,
       Stop, Kill, EditConfig, Edit, beginnings
  <2>2. CASE RemoveConfig
    BY <2>2 DEF RemoveConfig, Configure
  <2>3. ASSUME NEW p \in Process, OpenConfig(p)
        PROVE  \E q \in noConfig : pc[q] = "open config"
    BY <2>3 DEF IInv, Configuring, OpenConfig
  <2> QED BY <2>1, <2>2, <2>3
<1> QED BY <1>1, InvCorrect, PTL DEF SuSpec, EditsStay

\* A snapshot goes by a number that config.toml has had since the command began,
\* whatever the numbers, the files and the widths of integers are.
THEOREM LimitIsMeant == SuSpec => TakesWhatFits
<1> DEFINE Fits ==
      \A p \in Process :
         pc[p] = "walk" /\ pc'[p] = "record" =>
            \E mb \in meant[p] :
                \/ mb * Megabyte > MaxInt
                \/ LET most == IF mb > 0 THEN mb ELSE Default
                   IN  found'[p] = {f \in File : Size[f] <= most * Megabyte}
<1>1. IInv /\ [SuNext]_suvars => [Fits]_suvars
  <2> SUFFICES ASSUME IInv, SuNext, NEW p \in Process, pc[p] = "walk",
                      pc'[p] = "record"
               PROVE  \E mb \in meant[p] :
                        \/ mb * Megabyte > MaxInt
                        \/ LET most == IF mb > 0 THEN mb ELSE Default
                           IN  found'[p] = {f \in File :
                                              Size[f] <= most * Megabyte}
    BY DEF Fits
  <2>1. Walk(p)
    <3>1. pc \in [Process -> Stages]
      BY DEF IInv, SuTypeOK
    <3>2. ASSUME NEW q \in Process,
                 \/ \E c \in {"init", "bare init"} : StartInit(q, c)
                 \/ \E c \in {"snapshot", "watch"} : StartOther(q, c)
                 \/ MakeDirs(q) \/ StatLog(q) \/ MakeLog(q) \/ StatConfig(q)
                 \/ OpenConfig(q) \/ SaveConfig(q)
                 \/ \E text \in Beginnings \cup {Broken} : TearConfig(q, text)
                 \/ Load(q) \/ LoadFails(q) \/ Record(q) \/ AppendLine(q)
                 \/ Again(q) \/ Stop(q) \/ Kill(q)
          PROVE  FALSE
      <4>1. pc' = pc \/ \E stage \in Stages \ {"record"} :
                          pc' = [pc EXCEPT ![q] = stage]
        BY <3>2, EndStage DEF StartInit, StartOther, MakeDirs, StatLog, MakeLog,
           StatConfig, OpenConfig, SaveConfig, TearConfig, Load, LoadFails,
           Record, AppendLine, Again, Stop, Kill, Go, Stages
      <4> QED BY <3>1, <4>1
    <3>3. ASSUME NEW q \in Process, Walk(q) PROVE Walk(p)
      BY <3>1, <3>3 DEF Walk, Go
    <3>4. ~RemoveConfig /\ \A text : ~EditConfig(text)
      BY DEF RemoveConfig, EditConfig, Edit
    <3> QED BY <3>2, <3>3, <3>4 DEF SuNext
  <2>2. found'[p] = {f \in File : Size[f] <= MaxSize(limit[p])}
    BY <2>1 DEF Walk, IInv, SuTypeOK
  <2>3. PICK mb \in meant[p] : limit[p] = MaxFileSizeBytes(mb)
    BY DEF IInv, Limited
  <2>4. mb \in Int
    BY <2>3, SettingIsInt DEF IInv, SuTypeOK, Setting
  <2>5. CASE mb * Megabyte <= MaxInt
    BY <2>2, <2>3, <2>4, <2>5, BytesAreRight
  <2>6. CASE mb * Megabyte > MaxInt
    BY <2>3, <2>6
  <2>7. mb * Megabyte \in Int /\ MaxInt \in Int
    BY <2>4, SetupAssumption
  <2> QED BY <2>5, <2>6, <2>7
<1> QED BY <1>1, InvCorrect, PTL DEF SuSpec, TakesWhatFits

=============================================================================
