----------------------------- MODULE DaemonProofs -----------------------------
(* Theorems about the pidfile protocol, for every value of the constants. *)
EXTENDS Daemon, TLAPS

USE DEF disk, locals, counters, marks

(***************************************************************************)
(* OneWatcherNamed is not inductive: it needs what the running commands    *)
(* know.  A command that overlaps no other is the only one that runs; and  *)
(* beside a watcher that the pidfile names, no command is past the probe   *)
(* but a stop of that very watcher.                                        *)
(***************************************************************************)

Alone == \A c \in Running \ crowded : Running = {c}

\* Where a command may be while the pidfile names the live watcher p.
Behind(c, p) ==
    step[c] = "read" \/ (step[c] \in {"probe", "terminate"} /\ pid[c] = p)

Named ==
    \A p \in Proper : ~Starting(p) =>
        /\ pidfile = p
        /\ \A c \in Running : Behind(c, p)

Opened ==
    \A c \in Commands \ crowded : step[c] = "write" =>
        pidfile = Blank /\ opened[c] = file

Started == \A c \in Commands : step[c] \in {"open", "write"} => pid[c] \in Pids

Inv ==
    /\ DTypeOK
    /\ Started
    /\ Alone
    /\ Opened
    /\ Named

LEMMA InvInit == DInit => Inv
BY DEF DInit, Inv, DTypeOK, Started, Alone, Opened, Named, Proper, Running

LEMMA InvImplies == Inv => OneWatcherNamed
<1> SUFFICES ASSUME Inv, NEW p \in Proper
             PROVE  (pidfile = p \/ Starting(p)) /\ Proper = {p}
  BY DEF OneWatcherNamed
<1>1. pidfile = p \/ Starting(p)
  BY DEF Inv, Named
<1>2. ASSUME NEW q \in Proper PROVE q = p
  <2>1. CASE Starting(p)
    <3>1. PICK c \in Commands : step[c] \in {"open", "write"} /\ pid[c] = p
      BY <2>1 DEF Starting
    <3>2. c \notin crowded
      BY <3>1 DEF Proper, Hurried
    <3>3. Running = {c}
      BY <3>1, <3>2 DEF Inv, Alone, Running
    <3>4. Starting(q)
      BY <3>1, <3>3 DEF Inv, Named, Behind
    <3> QED BY <3>1, <3>3, <3>4 DEF Starting, Running
  <2>2. CASE Starting(q)
    <3>1. PICK c \in Commands : step[c] \in {"open", "write"} /\ pid[c] = q
      BY <2>2 DEF Starting
    <3>2. c \notin crowded
      BY <3>1 DEF Proper, Hurried
    <3>3. Running = {c}
      BY <3>1, <3>2 DEF Inv, Alone, Running
    <3>4. Starting(p)
      BY <3>1, <3>3 DEF Inv, Named, Behind
    <3> QED BY <3>1, <3>3, <3>4 DEF Starting, Running
  <2>3. CASE ~Starting(p) /\ ~Starting(q)
    BY <2>3 DEF Inv, Named
  <2> QED BY <2>1, <2>2, <2>3
<1> QED BY <1>1, <1>2

LEMMA TypeStep == DTypeOK /\ Started /\ [DNext]_dvars => DTypeOK' /\ Started'
<1> SUFFICES ASSUME DTypeOK, Started, [DNext]_dvars PROVE DTypeOK' /\ Started'
  OBVIOUS
<1> USE DEF DTypeOK, Started
<1>1. ASSUME NEW c \in Commands, NEW j \in {"start", "stop", "status"},
             Invoke(c, j)
      PROVE  DTypeOK' /\ Started'
  BY <1>1 DEF Invoke, Goto, Running
<1>2. ASSUME NEW c \in Commands, ReadPid(c) PROVE DTypeOK' /\ Started'
  BY <1>2 DEF ReadPid, NotOk, End, Goto
<1>3. ASSUME NEW c \in Commands, Probe(c) PROVE DTypeOK' /\ Started'
  BY <1>3 DEF Probe, End, Goto
<1>4. ASSUME NEW c \in Commands, RemoveStale(c) \/ LeaveStale(c)
      PROVE  DTypeOK' /\ Started'
  BY <1>4 DEF RemoveStale, LeaveStale, Fault, NotOk, End, Goto
<1>5. ASSUME NEW c \in Commands, NEW p \in Pids, Spawn(c, p)
      PROVE  DTypeOK' /\ Started'
  BY <1>5 DEF Spawn, Goto
<1>6. ASSUME NEW c \in Commands, OpenPidfile(c) PROVE DTypeOK' /\ Started'
  BY <1>6 DEF OpenPidfile, Goto
<1>7. ASSUME NEW c \in Commands, WritePid(c) PROVE DTypeOK' /\ Started'
  BY <1>7 DEF WritePid, End, Goto
<1>8. ASSUME NEW c \in Commands, WriteFails(c) PROVE DTypeOK' /\ Started'
  BY <1>8 DEF WriteFails, Fault, End, Goto
<1>9. ASSUME NEW c \in Commands, Terminate(c) PROVE DTypeOK' /\ Started'
  BY <1>9 DEF Terminate, End, Goto
<1>10. ASSUME NEW c \in Commands, Forget(c) PROVE DTypeOK' /\ Started'
  BY <1>10 DEF Forget, End, Goto
<1>11. ASSUME NEW c \in Commands, AbortCommand(c) PROVE DTypeOK' /\ Started'
  BY <1>11 DEF AbortCommand, Fault, End, Goto
<1>12. ASSUME NEW p \in Pids, Leave(p) \/ Crash(p) \/ Stranger(p)
       PROVE  DTypeOK' /\ Started'
  BY <1>12 DEF Leave, Crash, Stranger, Fault
<1>13. CASE UNCHANGED dvars
  BY <1>13 DEF dvars
<1> QED BY <1>1, <1>2, <1>3, <1>4, <1>5, <1>6, <1>7, <1>8, <1>9, <1>10, <1>11,
           <1>12, <1>13 DEF DNext

-----------------------------------------------------------------------------
\* A command that is past the probe and is no stop: no proper watcher runs but
\* those whose start is under way.
LEMMA PastProbe ==
    ASSUME Inv, NEW c \in Commands,
           step[c] \in {"remove", "spawn", "open", "write", "forget"},
           NEW p \in Proper
    PROVE  Starting(p)
BY DEF Inv, Named, Behind, Running

LEMMA NotHurried ==
    ASSUME Inv, NEW p, ~Starting(p)
    PROVE  ~Hurried(p)
BY DEF Starting, Hurried, Inv, DTypeOK

\* The parts of the invariant about the commands themselves, which a step of
\* one that only moves on keeps.
LEMMA OthersAlone ==
    ASSUME Inv, NEW c \in Commands, step[c] # "idle",
           \A d \in Commands \ {c} : step'[d] = step[d],
           crowded' = crowded
    PROVE  Alone'
<1> SUFFICES ASSUME NEW d \in Running' \ crowded' PROVE Running' = {d}
  BY DEF Alone
<1>1. Running' \subseteq Running
  BY DEF Running
<1>2. Running = {d}
  BY <1>1 DEF Inv, Alone
<1> QED BY <1>1, <1>2

LEMMA StepInvoke ==
    ASSUME Inv, NEW c \in Commands, NEW j \in {"start", "stop", "status"},
           Invoke(c, j)
    PROVE  Alone' /\ Opened' /\ Named'
<1> USE DEF Inv, Invoke, Goto, DTypeOK
<1>1. Running' = Running \cup {c} /\ c \notin Running
  BY DEF Running
<1>2. Alone'
  BY <1>1 DEF Alone
<1>3. Opened'
  <2> SUFFICES ASSUME NEW d \in Commands \ crowded', step'[d] = "write"
               PROVE  pidfile = Blank /\ opened[d] = file
    BY DEF Opened
  <2>1. d # c /\ step[d] = "write"
    OBVIOUS
  <2>2. d \in Running
    BY <2>1 DEF Running
  <2> QED BY <2>1, <2>2
<1>4. Named'
  <2> SUFFICES ASSUME NEW p \in Proper', ~Starting(p)'
               PROVE  pidfile = p /\ \A d \in Running' : Behind(d, p)'
    BY DEF Named
  <2>1. ~Starting(p)
    BY DEF Starting
  <2>2. p \in Proper
    BY <2>1, NotHurried DEF Proper
  <2> QED BY <1>1, <2>1, <2>2 DEF Named, Behind, Running
<1> QED BY <1>2, <1>3, <1>4

\* A step that changes no process and marks nothing, of a command that is not
\* at the file.
LEMMA StepAside ==
    ASSUME Inv, NEW c \in Commands, step[c] \in {"read", "probe"},
           \A d \in Commands \ {c} : step'[d] = step[d] /\ pid'[d] = pid[d]
                                     /\ opened'[d] = opened[d],
           UNCHANGED <<process, pidfile, file, crowded, orphaned>>,
           step'[c] \notin {"open", "write"},
           \A p \in Proper : ~Starting(p) =>
               step'[c] = "idle" \/ Behind(c, p)'
    PROVE  Alone' /\ Opened' /\ Named'
<1>1. Alone'
  BY OthersAlone
<1>2. Opened'
  BY DEF Inv, Opened
<1>3. Named'
  <2> SUFFICES ASSUME NEW p \in Proper', ~Starting(p)'
               PROVE  pidfile = p /\ \A d \in Running' : Behind(d, p)'
    BY DEF Named
  <2>1. ~Starting(p)
    BY DEF Starting
  <2>2. p \in Proper
    BY <2>1, NotHurried DEF Proper
  <2> QED BY <2>1, <2>2 DEF Inv, Named, Behind, Running
<1> QED BY <1>1, <1>2, <1>3

LEMMA StepReadPid ==
    ASSUME Inv, NEW c \in Commands, ReadPid(c)
    PROVE  Alone' /\ Opened' /\ Named'
<1>1. ASSUME NEW p \in Proper, ~Starting(p)
      PROVE  step'[c] = "idle" \/ Behind(c, p)'
  <2>1. pidfile = p /\ p \in Pids
    BY <1>1 DEF Inv, Named, Proper
  <2> QED BY <2>1 DEF ReadPid, Goto, Behind, Inv, DTypeOK
<1>2. step'[c] \in {"probe", "spawn", "idle"}
  BY DEF ReadPid, NotOk, End, Goto, Inv, DTypeOK
<1>3. /\ step[c] \in {"read", "probe"}
      /\ \A d \in Commands \ {c} : step'[d] = step[d] /\ pid'[d] = pid[d]
                                   /\ opened'[d] = opened[d]
      /\ UNCHANGED <<process, pidfile, file, crowded, orphaned>>
  BY DEF ReadPid, NotOk, End, Goto, Inv, DTypeOK
<1> QED BY <1>1, <1>2, <1>3, StepAside

LEMMA StepProbe ==
    ASSUME Inv, NEW c \in Commands, Probe(c)
    PROVE  Alone' /\ Opened' /\ Named'
<1>1. ASSUME NEW p \in Proper, ~Starting(p)
      PROVE  step'[c] = "idle" \/ Behind(c, p)'
  <2>1. pid[c] = p /\ process[p] = "watching"
    BY <1>1 DEF Inv, Named, Behind, Proper, Running, Probe
  <2> QED BY <2>1 DEF Probe, Alive, Goto, End, Behind, Inv, DTypeOK
<1>2. step'[c] \in {"remove", "terminate", "idle"}
  BY DEF Probe, End, Goto, Inv, DTypeOK
<1>3. /\ step[c] \in {"read", "probe"}
      /\ \A d \in Commands \ {c} : step'[d] = step[d] /\ pid'[d] = pid[d]
                                   /\ opened'[d] = opened[d]
      /\ UNCHANGED <<process, pidfile, file, crowded, orphaned>>
  BY DEF Probe, End, Goto, Inv, DTypeOK
<1> QED BY <1>1, <1>2, <1>3, StepAside

\* The pidfile is removed, or not, by a command that is past the probe.
LEMMA StepRemove ==
    ASSUME Inv, NEW c \in Commands,
           RemoveStale(c) \/ LeaveStale(c) \/ Forget(c)
    PROVE  Alone' /\ Opened' /\ Named'
<1>1. /\ step[c] \in {"remove", "forget"}
      /\ step'[c] \in {"spawn", "idle"}
      /\ \A d \in Commands \ {c} : step'[d] = step[d] /\ pid'[d] = pid[d]
                                   /\ opened'[d] = opened[d]
      /\ UNCHANGED <<process, crowded, orphaned>>
  BY DEF RemoveStale, LeaveStale, Forget, Fault, NotOk, End, Goto, Inv, DTypeOK
<1>2. Alone'
  BY <1>1, OthersAlone
<1>3. Opened'
  <2> SUFFICES ASSUME NEW d \in Commands \ crowded', step'[d] = "write"
               PROVE  FALSE
    BY DEF Opened
  <2>1. d # c /\ d \in Running /\ c \in Running /\ d \notin crowded
    BY <1>1 DEF Running
  <2> QED BY <2>1 DEF Inv, Alone
<1>4. Named'
  <2> SUFFICES ASSUME NEW p \in Proper', ~Starting(p)' PROVE FALSE
    BY DEF Named
  <2>1. ~Starting(p)
    BY <1>1 DEF Starting
  <2>2. p \in Proper
    BY <1>1, <2>1, NotHurried DEF Proper
  <2> QED BY <1>1, <2>1, <2>2, PastProbe
<1> QED BY <1>2, <1>3, <1>4

LEMMA StepSpawn ==
    ASSUME Inv, NEW c \in Commands, NEW q \in Pids, Spawn(c, q)
    PROVE  Alone' /\ Opened' /\ Named'
<1>1. /\ step[c] = "spawn" /\ step'[c] = "open" /\ pid'[c] = q
      /\ \A d \in Commands \ {c} : step'[d] = step[d] /\ pid'[d] = pid[d]
      /\ \A p \in Pids \ {q} : process'[p] = process[p]
      /\ orphaned' = orphaned \ {q}
      /\ UNCHANGED <<opened, pidfile, file, crowded>>
  BY DEF Spawn, Goto, Inv, DTypeOK
<1>2. Alone'
  BY <1>1, OthersAlone
<1>3. Opened'
  BY <1>1 DEF Inv, Opened
<1>4. Named'
  <2> SUFFICES ASSUME NEW p \in Proper', ~Starting(p)' PROVE FALSE
    BY DEF Named
  <2>1. p # q
    BY <1>1 DEF Starting
  <2>2. ~Starting(p)
    BY <1>1, <2>1 DEF Starting
  <2>3. p \in Proper
    BY <1>1, <2>1, <2>2, NotHurried DEF Proper
  <2> QED BY <1>1, <2>2, <2>3, PastProbe
<1> QED BY <1>2, <1>3, <1>4

LEMMA StepOpen ==
    ASSUME Inv, NEW c \in Commands, OpenPidfile(c)
    PROVE  Alone' /\ Opened' /\ Named'
<1>1. /\ step[c] = "open" /\ step'[c] = "write"
      /\ \A d \in Commands \ {c} : step'[d] = step[d]
      /\ pidfile' = Blank /\ opened'[c] = file'
      /\ UNCHANGED <<process, pid, crowded, orphaned>>
  BY DEF OpenPidfile, Goto, Inv, DTypeOK
<1>2. Alone'
  BY <1>1, OthersAlone
<1>3. Opened'
  <2> SUFFICES ASSUME NEW d \in Commands \ crowded', step'[d] = "write"
               PROVE  opened'[d] = file'
    BY <1>1 DEF Opened
  <2>1. CASE d = c
    BY <1>1, <2>1
  <2>2. CASE d # c
    BY <1>1, <2>2 DEF Inv, Alone, Running
  <2> QED BY <2>1, <2>2
<1>4. Named'
  <2> SUFFICES ASSUME NEW p \in Proper', ~Starting(p)' PROVE FALSE
    BY DEF Named
  <2>1. ~Starting(p)
    BY <1>1 DEF Starting
  <2>2. p \in Proper
    BY <1>1, <2>1, NotHurried DEF Proper
  <2> QED BY <1>1, <2>1, <2>2, PastProbe
<1> QED BY <1>2, <1>3, <1>4

LEMMA StepWrite ==
    ASSUME Inv, NEW c \in Commands, WritePid(c)
    PROVE  Alone' /\ Opened' /\ Named'
<1>1. /\ step[c] = "write" /\ step'[c] = "idle"
      /\ \A d \in Commands \ {c} : step'[d] = step[d] /\ pid'[d] = pid[d]
                                   /\ opened'[d] = opened[d]
      /\ orphaned' = IF c \in crowded THEN orphaned \cup {pid[c]} ELSE orphaned
      /\ UNCHANGED <<process, file, crowded>>
  BY DEF WritePid, End, Goto, Inv, DTypeOK
<1>2. Alone'
  BY <1>1, OthersAlone
<1>3. Opened'
  <2> SUFFICES ASSUME NEW d \in Commands \ crowded', step'[d] = "write"
               PROVE  FALSE
    BY DEF Opened
  <2> QED BY <1>1 DEF Inv, Alone, Running
<1>4. Named'
  <2> SUFFICES ASSUME NEW p \in Proper', ~Starting(p)'
               PROVE  pidfile' = p /\ Running' = {}
    BY DEF Named
  <2>1. Starting(p)
    <3> SUFFICES ASSUME ~Starting(p) PROVE FALSE
      OBVIOUS
    <3>1. p \in Proper
      BY <1>1, NotHurried DEF Proper
    <3> QED BY <1>1, <3>1, PastProbe
  <2>2. pid[c] = p
    BY <1>1, <2>1 DEF Starting
  <2>3. c \notin crowded
    BY <1>1, <2>2 DEF Proper
  <2>4. Running = {c} /\ pidfile = Blank /\ opened[c] = file
    BY <1>1, <2>3 DEF Inv, Alone, Opened, Running
  <2>5. pidfile' = p
    BY <2>2, <2>4, DaemonAssumption DEF WritePid
  <2>6. Running' = {}
    BY <1>1, <2>4 DEF Running
  <2> QED BY <2>5, <2>6
<1> QED BY <1>2, <1>3, <1>4

LEMMA StepWriteFails ==
    ASSUME Inv, NEW c \in Commands, WriteFails(c)
    PROVE  Alone' /\ Opened' /\ Named'
<1>1. /\ step[c] \in {"open", "write"} /\ step'[c] = "idle"
      /\ \A d \in Commands \ {c} : step'[d] = step[d] /\ pid'[d] = pid[d]
                                   /\ opened'[d] = opened[d]
      /\ \A p \in Pids \ {pid[c]} : process'[p] = process[p]
      /\ process'[pid[c]] = "gone"
      /\ UNCHANGED <<pidfile, file, crowded, orphaned>>
  BY DEF WriteFails, End, Goto, Inv, DTypeOK, Started
<1>2. Alone'
  BY <1>1, OthersAlone
<1>3. Opened'
  BY <1>1 DEF Inv, Opened
<1>4. Named'
  <2> SUFFICES ASSUME NEW p \in Proper', ~Starting(p)' PROVE FALSE
    BY DEF Named
  <2>1. p # pid[c]
    BY <1>1 DEF Proper
  <2>2. ~Starting(p)
    BY <1>1, <2>1 DEF Starting
  <2>3. p \in Proper
    BY <1>1, <2>1, <2>2, NotHurried DEF Proper
  <2> QED BY <1>1, <2>2, <2>3, PastProbe
<1> QED BY <1>2, <1>3, <1>4

LEMMA StepTerminate ==
    ASSUME Inv, NEW c \in Commands, Terminate(c)
    PROVE  Alone' /\ Opened' /\ Named'
<1>1. /\ step[c] = "terminate" /\ step'[c] \in {"forget", "idle"}
      /\ \A d \in Commands \ {c} : step'[d] = step[d] /\ pid'[d] = pid[d]
                                   /\ opened'[d] = opened[d]
      /\ UNCHANGED <<pidfile, file, crowded, orphaned>>
  BY DEF Terminate, End, Goto, Inv, DTypeOK
<1>2. Alone'
  BY <1>1, OthersAlone
<1>3. Opened'
  BY <1>1 DEF Inv, Opened
<1>4. Named'
  <2> SUFFICES ASSUME NEW p \in Proper', ~Starting(p)' PROVE FALSE
    BY DEF Named
  <2>1. ~Starting(p)
    BY <1>1 DEF Starting
  <2>2. process[p] = "watching" /\ process'[p] = "watching" /\ p \in Pids
    BY DEF Terminate, Proper, Inv, DTypeOK
  <2>3. p \in Proper
    BY <1>1, <2>1, <2>2, NotHurried DEF Proper
  <2>4. pid[c] = p
    BY <1>1, <2>1, <2>3 DEF Inv, Named, Behind, Running
  <2> QED BY <2>2, <2>4 DEF Terminate, Alive, Inv, DTypeOK
<1> QED BY <1>2, <1>3, <1>4

LEMMA StepAbort ==
    ASSUME Inv, NEW c \in Commands, AbortCommand(c)
    PROVE  Alone' /\ Opened' /\ Named'
<1>1. /\ step[c] # "idle" /\ step'[c] = "idle"
      /\ \A d \in Commands \ {c} : step'[d] = step[d] /\ pid'[d] = pid[d]
                                   /\ opened'[d] = opened[d]
      /\ orphaned' = IF step[c] \in {"open", "write"}
                     THEN orphaned \cup {pid[c]} ELSE orphaned
      /\ UNCHANGED <<process, pidfile, file, crowded>>
  BY DEF AbortCommand, End, Goto, Inv, DTypeOK
<1>2. Alone'
  BY <1>1, OthersAlone
<1>3. Opened'
  BY <1>1 DEF Inv, Opened
<1>4. Named'
  <2> SUFFICES ASSUME NEW p \in Proper', ~Starting(p)'
               PROVE  pidfile = p /\ \A d \in Running' : Behind(d, p)'
    BY <1>1 DEF Named
  <2>1. ~Starting(p)
    BY <1>1 DEF Starting, Proper
  <2>2. p \in Proper
    BY <1>1, <2>1, NotHurried DEF Proper
  <2> QED BY <1>1, <2>1, <2>2 DEF Inv, Named, Behind, Running
<1> QED BY <1>2, <1>3, <1>4

LEMMA StepProcess ==
    ASSUME Inv, NEW q \in Pids, Leave(q) \/ Crash(q) \/ Stranger(q)
    PROVE  Alone' /\ Opened' /\ Named'
<1>1. /\ UNCHANGED <<pidfile, file, step, pid, opened, crowded, orphaned>>
      /\ \A p \in Pids : process'[p] = "watching" => process[p] = "watching"
  BY DEF Leave, Crash, Stranger, Fault, Inv, DTypeOK
<1>2. Alone' /\ Opened'
  BY <1>1 DEF Inv, Alone, Opened, Running
<1>3. Named'
  BY <1>1 DEF Inv, Named, Proper, Hurried, Starting, Behind, Running
<1> QED BY <1>2, <1>3

LEMMA InvStep == Inv /\ [DNext]_dvars => Inv'
<1> SUFFICES ASSUME Inv, [DNext]_dvars PROVE Inv'
  OBVIOUS
<1>1. DTypeOK' /\ Started'
  BY TypeStep DEF Inv
<1>2. Alone' /\ Opened' /\ Named'
  <2>1. CASE UNCHANGED dvars
    BY <2>1 DEF dvars, Inv, Alone, Opened, Named, Proper, Hurried, Starting,
                Behind, Running
  <2> QED BY <2>1, StepInvoke, StepReadPid, StepProbe, StepRemove, StepSpawn,
             StepOpen, StepWrite, StepWriteFails, StepTerminate, StepAbort,
             StepProcess DEF DNext
<1> QED BY <1>1, <1>2 DEF Inv

-----------------------------------------------------------------------------
\* Every variable of the protocol keeps its type, and a start never comes to
\* its pidfile without the pid of a child (daemon.go: Start).
THEOREM TypeCorrect == DSpec => []DTypeOK
<1>1. Inv => DTypeOK
  BY DEF Inv
<1> QED BY InvInit, InvStep, <1>1, PTL DEF DSpec

\* However commands overlap and whatever crashes, a watcher whose start was
\* neither killed nor overlapped is the only such one, and the pidfile names it
\* once its start has returned (daemon.go: Start, Stop, GetStatus).
THEOREM OneWatcherIsNamed == DSpec => []OneWatcherNamed
BY InvInit, InvStep, InvImplies, PTL DEF DSpec
=============================================================================
