-------------------------------- MODULE Daemon --------------------------------
(***************************************************************************)
(* The pidfile protocol of the background watcher (internal/daemon): the   *)
(* commands `ua daemon start`, `stop` and `status`, and `ua status` and    *)
(* `ua doctor`, which ask for the status too.  Each is a process that      *)
(* reads, probes, signals and writes without a lock; watchers die and pids *)
(* may be taken again.                                                     *)
(*                                                                         *)
(* A watcher started by the OS service has no pidfile and is not here.     *)
(***************************************************************************)
EXTENDS Naturals

CONSTANTS
    Pids,
    None,         \* no pidfile; no pid
    Blank,        \* a pidfile without a number in it
    Commands,     \* processes that run one command after the other
    MaxCommands,  \* bound: commands run
    MaxFaults     \* bound: watchers that crash, commands that fail or crash

ASSUME DaemonAssumption ==
    /\ None \notin Pids /\ Blank \notin Pids /\ None # Blank
    /\ MaxCommands \in Nat /\ MaxFaults \in Nat

VARIABLES
    process,    \* what runs under a pid
    pidfile,    \* what daemon.pid holds
    file,       \* which file is named daemon.pid, if one is
    job, step,  \* what each command is, and where it is
    pid,        \* the pid a command has read or started
    opened,     \* the file a start writes its pid to
    commands, faults,   \* counters of the bounds
    \* What the properties except; the program has none of these.
    orphaned,   \* watchers whose start was killed or overlapped another command
    crowded     \* commands that have overlapped another one

disk == <<pidfile, file>>
locals == <<job, step, pid, opened>>
counters == <<commands, faults>>
marks == <<orphaned, crowded>>
dvars == <<process, disk, locals, counters, marks>>

DInit ==
    /\ process = [p \in Pids |-> "unused"]
    /\ pidfile = None /\ file = 0
    /\ job = [c \in Commands |-> "status"]
    /\ step = [c \in Commands |-> "idle"]
    /\ pid = [c \in Commands |-> None]
    /\ opened = [c \in Commands |-> 0]
    /\ commands = 0 /\ faults = 0
    /\ orphaned = {} /\ crowded = {}

\* Signal 0 finds a process, whosoever it is.  A watcher that has been asked
\* to stop is there until its snapshot is done.
Alive(p) == process[p] \in {"watching", "leaving", "stranger"}

\* Pids a new process may get.
Fresh == {p \in Pids : process[p] \in {"unused", "gone"}}

Goto(c, s) == step' = [step EXCEPT ![c] = s]

\* The command ends and forgets its locals.
End(c) ==
    /\ Goto(c, "idle")
    /\ job' = [job EXCEPT ![c] = "status"]
    /\ pid' = [pid EXCEPT ![c] = None]
    /\ opened' = [opened EXCEPT ![c] = 0]

Fault == faults < MaxFaults /\ faults' = faults + 1

-----------------------------------------------------------------------------
(* Status, the first thing that every command does *)

Running == {c \in Commands : step[c] # "idle"}

Invoke(c, j) ==
    /\ step[c] = "idle"
    /\ commands < MaxCommands
    /\ commands' = commands + 1
    /\ job' = [job EXCEPT ![c] = j]
    /\ Goto(c, "read")
    /\ crowded' = (crowded \ {c}) \cup IF Running = {} THEN {}
                                      ELSE Running \cup {c}
    /\ UNCHANGED <<process, disk, pid, opened, faults, orphaned>>

\* No daemon: start goes on, the others say so.
NotOk(c) ==
    IF job[c] = "start"
    THEN Goto(c, "spawn") /\ UNCHANGED <<job, pid, opened>>
    ELSE End(c)

\* Wrong variant: the text is taken for a pid unseen.
ReadPid_raw(c) ==
    /\ step[c] = "read"
    /\ IF pidfile # None
       THEN /\ pid' = [pid EXCEPT ![c] = pidfile]
            /\ Goto(c, "probe")
            /\ UNCHANGED <<job, opened>>
       ELSE NotOk(c)
    /\ UNCHANGED <<process, disk, counters, marks>>

ReadPid(c) ==
    /\ step[c] = "read"
    /\ IF pidfile \in Pids
       THEN /\ pid' = [pid EXCEPT ![c] = pidfile]
            /\ Goto(c, "probe")
            /\ UNCHANGED <<job, opened>>
       ELSE NotOk(c)
    /\ UNCHANGED <<process, disk, counters, marks>>

\* Start answers that a watcher is running, status with its pid.
Probe(c) ==
    /\ step[c] = "probe"
    /\ IF ~Alive(pid[c])
       THEN Goto(c, "remove") /\ UNCHANGED <<job, pid, opened>>
       ELSE IF job[c] = "stop"
       THEN Goto(c, "terminate") /\ UNCHANGED <<job, pid, opened>>
       ELSE End(c)
    /\ UNCHANGED <<process, disk, counters, marks>>

\* The pidfile goes, whatever it holds by now.
RemoveStale(c) ==
    /\ step[c] = "remove"
    /\ pidfile' = None
    /\ NotOk(c)
    /\ UNCHANGED <<process, file, counters, marks>>

\* os.Remove fails and nobody looks.
LeaveStale(c) ==
    /\ step[c] = "remove"
    /\ Fault
    /\ NotOk(c)
    /\ UNCHANGED <<process, disk, commands, marks>>

-----------------------------------------------------------------------------
(* Start *)

Spawn(c, p) ==
    /\ step[c] = "spawn"
    /\ p \in Fresh
    /\ process' = [process EXCEPT ![p] = "watching"]
    /\ pid' = [pid EXCEPT ![c] = p]
    /\ Goto(c, "open")
    /\ orphaned' = orphaned \ {p}
    /\ UNCHANGED <<disk, job, opened, counters, crowded>>

\* os.WriteFile creates the file, or empties the one that is there.
OpenPidfile(c) ==
    /\ step[c] = "open"
    /\ file' = IF pidfile = None THEN file + 1 ELSE file
    /\ opened' = [opened EXCEPT ![c] = file']
    /\ pidfile' = Blank
    /\ Goto(c, "write")
    /\ UNCHANGED <<process, job, pid, counters, marks>>

\* What is written to a file that has been removed is lost.  A shorter number
\* over a longer one of another start leaves the end of that: no number.
WritePid(c) ==
    /\ step[c] = "write"
    /\ IF pidfile # None /\ opened[c] = file
       THEN \/ pidfile' = pid[c]
            \/ pidfile \in Pids /\ pidfile' = Blank
       ELSE UNCHANGED pidfile
    /\ End(c)
    /\ orphaned' = IF c \in crowded THEN orphaned \cup {pid[c]} ELSE orphaned
    /\ UNCHANGED <<process, file, counters, crowded>>

\* Wrong variant: the child is left running.
WriteFails_spare(c) ==
    /\ step[c] \in {"open", "write"}
    /\ Fault
    /\ End(c)
    /\ UNCHANGED <<process, disk, commands, marks>>

\* writePID fails, and Start kills its child.
WriteFails(c) ==
    /\ step[c] \in {"open", "write"}
    /\ Fault
    /\ process' = [process EXCEPT ![pid[c]] = "gone"]
    /\ End(c)
    /\ UNCHANGED <<disk, commands, marks>>

-----------------------------------------------------------------------------
(* Stop *)

\* FindProcess and SIGTERM; an error when the process is gone by now.
Terminate(c) ==
    /\ step[c] = "terminate"
    /\ IF Alive(pid[c])
       THEN /\ process' = [process EXCEPT ![pid[c]] =
                              IF @ = "stranger" THEN "gone" ELSE "leaving"]
            /\ Goto(c, "forget")
            /\ UNCHANGED <<job, pid, opened>>
       ELSE End(c) /\ UNCHANGED process
    /\ UNCHANGED <<disk, counters, marks>>

Forget(c) ==
    /\ step[c] = "forget"
    /\ pidfile' = None
    /\ End(c)
    /\ UNCHANGED <<process, file, counters, marks>>

-----------------------------------------------------------------------------
\* A command is killed, or a step of it fails with an error that ends it.  The
\* child has a session of its own and goes on.
AbortCommand(c) ==
    /\ step[c] # "idle"
    /\ Fault
    /\ orphaned' = IF step[c] \in {"open", "write"}
                   THEN orphaned \cup {pid[c]} ELSE orphaned
    /\ End(c)
    /\ UNCHANGED <<process, disk, commands, crowded>>

Leave(p) ==
    /\ process[p] = "leaving"
    /\ process' = [process EXCEPT ![p] = "gone"]
    /\ UNCHANGED <<disk, locals, counters, marks>>

Crash(p) ==
    /\ process[p] = "watching"
    /\ Fault
    /\ process' = [process EXCEPT ![p] = "gone"]
    /\ UNCHANGED <<disk, locals, commands, marks>>

\* Another program gets the pid.
Stranger(p) ==
    /\ process[p] = "gone"
    /\ process' = [process EXCEPT ![p] = "stranger"]
    /\ UNCHANGED <<disk, locals, counters, marks>>

DNext ==
    \/ \E c \in Commands :
        \/ \E j \in {"start", "stop", "status"} : Invoke(c, j)
        \/ ReadPid(c) \/ Probe(c) \/ RemoveStale(c) \/ LeaveStale(c)
        \/ \E p \in Pids : Spawn(c, p)
        \/ OpenPidfile(c) \/ WritePid(c) \/ WriteFails(c)
        \/ Terminate(c) \/ Forget(c)
        \/ AbortCommand(c)
    \/ \E p \in Pids : Leave(p) \/ Crash(p) \/ Stranger(p)

DSpec == DInit /\ [][DNext]_dvars

-----------------------------------------------------------------------------
\* Every variable has its type.
DTypeOK ==
    /\ process \in [Pids -> {"unused", "watching", "leaving", "gone",
                             "stranger"}]
    /\ pidfile \in Pids \cup {None, Blank}
    /\ file \in Nat
    /\ job \in [Commands -> {"start", "stop", "status"}]
    /\ step \in [Commands -> {"idle", "read", "probe", "remove", "spawn",
                              "open", "write", "terminate", "forget"}]
    /\ pid \in [Commands -> Pids \cup {None}]
    /\ opened \in [Commands -> Nat]
    /\ commands \in Nat /\ faults \in Nat
    /\ orphaned \subseteq Pids /\ crowded \subseteq Commands

Starting(p) == \E c \in Commands : step[c] \in {"open", "write"} /\ pid[c] = p
Hurried(p) ==
    \E c \in crowded : step[c] \in {"open", "write"} /\ pid[c] = p

\* Watchers that have a claim to the pidfile.
Proper == {p \in Pids \ orphaned : process[p] = "watching" /\ ~Hurried(p)}

\* Of watchers that have not been asked to stop there is at most one, and the
\* pidfile names it, so that stop and status find it, whatever crashed and
\* failed before, whose pids came back, and however other commands overlap
\* (daemon.go: ErrAlreadyRunning "when a live daemon already exists").
\* Excepted are one whose start has not written its pid yet, one whose start was
\* killed before it could, and those whose start overlapped another command,
\* which may take the pidfile from it: nothing in the code sees to that.
OneWatcherNamed ==
    \A p \in Proper :
        /\ pidfile = p \/ Starting(p)
        /\ Proper = {p}
=============================================================================
