-------------------------------- MODULE Setup --------------------------------
(***************************************************************************)
(* The creation of a store and its configuration: `ua init`                *)
(* (internal/cli/init.go, store.Init), config.toml (internal/config) and   *)
(* the commands that find and load both, while the user edits the file,    *)
(* commands overlap, and any of them may be killed between two calls.      *)
(*                                                                         *)
(* A step is one call that touches the disk.  The walk of a snapshot is    *)
(* one step here and the blobs are left out: module Store has them.  Of    *)
(* config.toml one key is kept, max_file_size_mb; the number it has is     *)
(* what the file says.  The folder does not change: the trees the          *)
(* snapshots find differ by the limit on sizes they go by.                 *)
(***************************************************************************)
EXTENDS Integers, Sequences

CONSTANTS
    Process,
    File,       \* files of the folder
    Size,       \* bytes of each file
    Settings,   \* numbers a user may write
    Default,    \* max_file_size_mb as written by default, 50 in the code
    Beginnings, \* numbers the text of Default begins with: 5
    Megabyte,   \* bytes: 2^20 in the code
    MaxInt,     \* the greatest int64: 2^63 - 1
    Missing,    \* no such file
    Blank,      \* a config.toml that parses and does not mention the key
    Broken,     \* one that does not parse
    MaxCommands, MaxEdits, MaxFaults    \* bounds

Id == SUBSET File       \* a snapshot is what it holds

ASSUME SetupAssumption ==
    /\ Size \in [File -> Nat]
    /\ MaxInt \in Nat /\ Megabyte \in Nat \ {0}
    /\ Settings \subseteq Int /\ Beginnings \subseteq Nat
    /\ Default \in Nat \ {0} /\ Default * Megabyte <= MaxInt
    /\ Missing # Blank /\ Blank # Broken /\ Broken # Missing
    /\ {Missing, Blank, Broken} \cap Int = {} /\ Missing \notin Seq(Id)
    /\ MaxCommands \in Nat /\ MaxEdits \in Nat /\ MaxFaults \in Nat

\* What store.Init makes, in this order; .undo itself is the first.
Dirs == <<".undo", "objects", "snapshots", "tmp">>
Made == {Dirs[i] : i \in DOMAIN Dirs}

Texts == Settings \cup Beginnings \cup {Default, Missing, Blank, Broken}
Commands == {"init", "bare init", "snapshot", "watch"}
Stages == {"idle", "dirs", "stat log", "make log", "stat config",
           "open config", "save config", "load", "walk", "record", "append",
           "wait"}

VARIABLES
    made,       \* directories there are
    log,        \* ids in timeline.log, or Missing
    manifests,  \* ids with a manifest
    config,     \* what config.toml says
    pc,         \* what each process does next
    command,    \* its command
    writing,    \* processes whose open file is the one named config.toml
    limit,      \* bytes: what the process has loaded
    found,      \* files its walk has taken
    commands, edits, faults,    \* counters of the bounds
    \* What the properties compare with; the program has none of these.
    returned,   \* ids that commands have reported
    spoilt,     \* ids whose line a kill has prevented or an init has removed
    noLog,      \* inits that began before there was a timeline.log
    noConfig,   \* inits that ran while there was no config.toml
    initialised,        \* some store.Init has come to its end
    own,        \* config.toml is as the user wrote it
    meant       \* settings that were in force while the process ran

disk == <<made, log, manifests>>
locals == <<command, limit, found, meant>>
counters == <<commands, edits, faults>>
beginnings == <<noLog, noConfig, initialised>>
suvars == <<disk, config, pc, locals, writing, counters, returned, spoilt,
            beginnings, own>>

SuInit ==
    /\ made = {} /\ log = Missing /\ manifests = {}
    /\ config = Missing
    /\ pc = [p \in Process |-> "idle"]
    /\ command = [p \in Process |-> "init"]
    /\ writing = {}
    /\ limit = [p \in Process |-> 0] /\ found = [p \in Process |-> {}]
    /\ commands = 0 /\ edits = 0 /\ faults = 0
    /\ returned = {} /\ spoilt = {}
    /\ noLog = {} /\ noConfig = {} /\ initialised = FALSE
    /\ own = FALSE
    /\ meant = [p \in Process |-> {}]

-----------------------------------------------------------------------------
(* config.toml *)

\* What the file asks for: the default if it does not say.
InForce(text) ==
    CASE text \in {Missing, Blank} -> {Default}
      [] text = Broken -> {}
      [] OTHER -> {text}

\* config.toml changes; whoever runs may see it.
Configure(text) ==
    /\ config' = text
    /\ meant' = [p \in Process |-> IF pc[p] = "idle" THEN {}
                                   ELSE meant[p] \cup InForce(text)]

\* int64
Wrapped(n) == ((n + MaxInt + 1) % (2 * (MaxInt + 1))) - (MaxInt + 1)

MaxFileSizeBytes(mb) == IF mb <= 0 THEN 0 ELSE Wrapped(mb * Megabyte)

\* Wrong variant: zero is no limit of its own.
MaxSize_zero(option) == IF option < 0 THEN Default * Megabyte ELSE option

\* What snapshot.Create makes of Options.MaxFileSize.
MaxSize(option) == IF option <= 0 THEN Default * Megabyte ELSE option

-----------------------------------------------------------------------------
Go(p, stage) == pc' = [pc EXCEPT ![p] = stage]

Start(p, c) ==
    /\ pc[p] = "idle"
    /\ commands < MaxCommands
    /\ commands' = commands + 1
    /\ command' = [command EXCEPT ![p] = c]
    /\ meant' = [meant EXCEPT ![p] = InForce(config)]
    /\ UNCHANGED <<limit, found>>

\* The command has ended.
End(p) ==
    /\ Go(p, "idle")
    /\ command' = [command EXCEPT ![p] = "init"]
    /\ meant' = [meant EXCEPT ![p] = {}]
    /\ limit' = [limit EXCEPT ![p] = 0]
    /\ found' = [found EXCEPT ![p] = {}]

StartInit(p, c) ==
    /\ Start(p, c)
    /\ Go(p, "dirs")
    /\ noLog' = IF log = Missing THEN noLog \cup {p} ELSE noLog \ {p}
    /\ noConfig' = IF config = Missing THEN noConfig \cup {p}
                                       ELSE noConfig \ {p}
    /\ UNCHANGED <<disk, config, writing, edits, faults, returned, spoilt,
                   initialised, own>>

\* store.Find: any .undo directory is a store.
StartOther(p, c) ==
    /\ Dirs[1] \in made
    /\ Start(p, c)
    /\ Go(p, "load")
    /\ UNCHANGED <<disk, config, writing, edits, faults, returned, spoilt,
                   beginnings, own>>

-----------------------------------------------------------------------------
(* store.Init *)

\* Wrong variant: a store that is there is taken for a complete one.
MakeDirs_once(p) ==
    /\ pc[p] = "dirs"
    /\ IF Dirs[1] \in made
       THEN Go(p, "stat config") /\ initialised' = TRUE /\ UNCHANGED made
       ELSE /\ made' = made \cup {Dirs[1]}
            /\ UNCHANGED <<pc, initialised>>
    /\ UNCHANGED <<log, manifests, config, command, writing, limit, found,
                   counters, returned, spoilt, noLog, noConfig, own, meant>>

\* MkdirAll of the first directory that is missing; those that are there cost
\* nothing.
MakeDirs(p) ==
    /\ pc[p] = "dirs"
    /\ IF Made \subseteq made
       THEN Go(p, "stat log") /\ UNCHANGED made
       ELSE /\ LET next == CHOOSE i \in DOMAIN Dirs :
                             /\ Dirs[i] \notin made
                             /\ \A j \in 1..(i - 1) : Dirs[j] \in made
               IN  made' = made \cup {Dirs[next]}
            /\ UNCHANGED pc
    /\ UNCHANGED <<log, manifests, config, command, writing, limit, found,
                   counters, returned, spoilt, beginnings, own, meant>>

\* Wrong variant: the timeline is made anew.
StatLog_always(p) ==
    /\ pc[p] = "stat log"
    /\ Go(p, "make log")
    /\ UNCHANGED <<disk, config, locals, writing, counters, returned, spoilt,
                   beginnings, own>>

StatLog(p) ==
    /\ pc[p] = "stat log"
    /\ IF log = Missing
       THEN Go(p, "make log") /\ UNCHANGED initialised
       ELSE Go(p, "stat config") /\ initialised' = TRUE
    /\ UNCHANGED <<disk, config, command, writing, limit, found, counters,
                   returned, spoilt, noLog, noConfig, own, meant>>

\* os.WriteFile empties a file that has come to be there since.
MakeLog(p) ==
    /\ pc[p] = "make log"
    /\ log' = <<>>
    /\ initialised' = TRUE
    /\ spoilt' = IF p \in noLog /\ log # Missing
                 THEN spoilt \cup {log[i] : i \in DOMAIN log} ELSE spoilt
    /\ Go(p, "stat config")
    /\ UNCHANGED <<made, manifests, config, command, writing, limit, found,
                   counters, returned, noLog, noConfig, own, meant>>

-----------------------------------------------------------------------------
(* The rest of `ua init`, and what other commands begin with *)

\* Wrong variant: the default configuration is written every time.
StatConfig_always(p) ==
    /\ pc[p] = "stat config"
    /\ Go(p, "open config")
    /\ UNCHANGED <<disk, config, locals, writing, counters, returned, spoilt,
                   beginnings, own>>

StatConfig(p) ==
    /\ pc[p] = "stat config"
    /\ Go(p, IF config = Missing THEN "open config" ELSE "load")
    /\ UNCHANGED <<disk, config, locals, writing, counters, returned, spoilt,
                   beginnings, own>>

\* config.Save: the open, which empties the file.
OpenConfig(p) ==
    /\ pc[p] = "open config"
    /\ Configure(Blank)
    /\ own' = FALSE
    /\ writing' = writing \cup {p}
    /\ Go(p, "save config")
    /\ UNCHANGED <<disk, command, limit, found, counters, returned, spoilt,
                   beginnings>>

\* Wrong variant: the file stays open.
SaveConfig_open(p) ==
    /\ pc[p] = "save config"
    /\ IF p \in writing THEN Configure(Default) ELSE UNCHANGED <<config, meant>>
    /\ Go(p, "load")
    /\ UNCHANGED <<disk, command, writing, limit, found, counters, returned,
                   spoilt, beginnings, own>>

\* config.Save: the write, to the file that was opened.
SaveConfig(p) ==
    /\ pc[p] = "save config"
    /\ IF p \in writing THEN Configure(Default) ELSE UNCHANGED <<config, meant>>
    /\ writing' = writing \ {p}
    /\ Go(p, "load")
    /\ UNCHANGED <<disk, command, limit, found, counters, returned, spoilt,
                   beginnings, own>>

\* The write is cut short, by a full disk or a kill, and the command ends.  What
\* another init has already written there has the same beginning.
TearConfig(p, text) ==
    /\ pc[p] = "save config"
    /\ p \in writing
    /\ faults < MaxFaults
    /\ faults' = faults + 1
    /\ Configure(IF config = Blank THEN text ELSE config)
    /\ writing' = writing \ {p}
    /\ Go(p, "idle")
    /\ UNCHANGED <<disk, command, limit, found, commands, edits, returned,
                   spoilt, beginnings, own>>

\* config.Load, which decodes the file over the defaults, and what a snapshot's
\* options take from it.
Load(p) ==
    /\ pc[p] = "load"
    /\ config # Broken
    /\ IF command[p] = "bare init"
       THEN End(p)
       ELSE /\ limit' = [limit EXCEPT ![p] =
                            MaxFileSizeBytes(IF config \in {Missing, Blank}
                                             THEN Default ELSE config)]
            /\ Go(p, "walk")
            /\ UNCHANGED <<command, found, meant>>
    /\ UNCHANGED <<disk, config, writing, counters, returned, spoilt, beginnings,
                   own>>

\* A file that does not parse ends every command.
LoadFails(p) ==
    /\ pc[p] = "load"
    /\ config = Broken
    /\ End(p)
    /\ UNCHANGED <<disk, config, writing, counters, returned, spoilt, beginnings,
                   own>>

-----------------------------------------------------------------------------
(* snapshot.Create *)

\* PutBlob makes the directories it needs.
Walk(p) ==
    /\ pc[p] = "walk"
    /\ LET taken == {f \in File : Size[f] <= MaxSize(limit[p])}
       IN  /\ found' = [found EXCEPT ![p] = taken]
           /\ made' = IF taken = {} THEN made ELSE made \cup {"objects", "tmp"}
    /\ Go(p, "record")
    /\ UNCHANGED <<log, manifests, config, command, writing, limit, counters,
                   returned, spoilt, beginnings, own, meant>>

\* The command says that the snapshot is there: a watcher goes on.
Report(p) ==
    /\ returned' = returned \cup {found[p]}
    /\ IF command[p] = "watch" THEN Go(p, "wait") /\ UNCHANGED locals
                              ELSE End(p)

Known(id) ==
    \/ log \notin {Missing, <<>>} /\ log[Len(log)] = id
    \/ id \in manifests

\* Nothing to do for the newest tree or one with a manifest; otherwise its
\* manifest is written.
Record(p) ==
    /\ pc[p] = "record"
    /\ IF Known(found[p])
       THEN Report(p) /\ UNCHANGED <<made, manifests>>
       ELSE /\ manifests' = manifests \cup {found[p]}
            /\ made' = made \cup {"snapshots", "tmp"}
            /\ Go(p, "append")
            /\ UNCHANGED <<locals, returned>>
    /\ UNCHANGED <<log, config, writing, counters, spoilt, beginnings, own>>

\* The line is appended, to a new file if there is none.
AppendLine(p) ==
    /\ pc[p] = "append"
    /\ log' = Append(IF log = Missing THEN <<>> ELSE log, found[p])
    /\ Report(p)
    /\ UNCHANGED <<made, manifests, config, writing, counters, spoilt, beginnings,
                   own>>

\* The next snapshot of a watcher, with the limit it loaded when it started.
Again(p) ==
    /\ pc[p] = "wait"
    /\ commands < MaxCommands
    /\ commands' = commands + 1
    /\ Go(p, "walk")
    /\ UNCHANGED <<disk, config, command, writing, limit, found, edits,
                   faults, returned, spoilt, beginnings, own, meant>>

\* SIGTERM to a watcher that is waiting.
Stop(p) ==
    /\ pc[p] = "wait"
    /\ End(p)
    /\ UNCHANGED <<disk, config, writing, counters, returned, spoilt, beginnings,
                   own>>

Kill(p) ==
    /\ pc[p] \notin {"idle", "wait"}
    /\ faults < MaxFaults
    /\ faults' = faults + 1
    /\ End(p)
    /\ writing' = writing \ {p}
    /\ spoilt' = IF pc[p] = "append" THEN spoilt \cup {found[p]} ELSE spoilt
    /\ UNCHANGED <<disk, config, commands, edits, returned, beginnings, own>>

-----------------------------------------------------------------------------
(* The user *)

Edit ==
    /\ edits < MaxEdits
    /\ edits' = edits + 1
    /\ UNCHANGED <<disk, pc, command, limit, found, commands, faults, returned,
                   spoilt, noLog, initialised>>

\* An editor saves config.toml by renaming a new file over it.
EditConfig(text) ==
    /\ Dirs[1] \in made
    /\ Edit
    /\ Configure(text)
    /\ own' = TRUE
    /\ writing' = {}
    /\ UNCHANGED noConfig

RemoveConfig ==
    /\ config # Missing
    /\ Edit
    /\ Configure(Missing)
    /\ noConfig' = {p \in Process : pc[p] # "idle"}
    /\ own' = FALSE
    /\ writing' = {}

SuNext ==
    \/ \E p \in Process, c \in {"init", "bare init"} : StartInit(p, c)
    \/ \E p \in Process, c \in {"snapshot", "watch"} : StartOther(p, c)
    \/ \E p \in Process : MakeDirs(p)
    \/ \E p \in Process : StatLog(p)
    \/ \E p \in Process : MakeLog(p)
    \/ \E p \in Process : StatConfig(p)
    \/ \E p \in Process : OpenConfig(p)
    \/ \E p \in Process : SaveConfig(p)
    \/ \E p \in Process, text \in Beginnings \cup {Broken} : TearConfig(p, text)
    \/ \E p \in Process : Load(p)
    \/ \E p \in Process : LoadFails(p)
    \/ \E p \in Process : Walk(p)
    \/ \E p \in Process : Record(p)
    \/ \E p \in Process : AppendLine(p)
    \/ \E p \in Process : Again(p)
    \/ \E p \in Process : Stop(p)
    \/ \E p \in Process : Kill(p)
    \/ \E text \in Settings \cup {Broken} : EditConfig(text)
    \/ RemoveConfig

SuSpec == SuInit /\ [][SuNext]_suvars

-----------------------------------------------------------------------------
\* Every variable has its type.
SuTypeOK ==
    /\ made \subseteq Made
    /\ log \in Seq(Id) \cup {Missing} /\ manifests \subseteq Id
    /\ config \in Texts
    /\ pc \in [Process -> Stages] /\ command \in [Process -> Commands]
    /\ writing \subseteq {p \in Process : pc[p] = "save config"}
    /\ limit \in [Process -> Int] /\ found \in [Process -> Id]
    /\ returned \subseteq Id /\ spoilt \subseteq Id
    /\ noLog \subseteq Process /\ noConfig \subseteq Process
    /\ initialised \in BOOLEAN /\ own \in BOOLEAN
    /\ meant \in [Process -> SUBSET (Settings \cup Beginnings \cup {Default})]

\* An id that init, snapshot or the watcher has reported is in the timeline and
\* has its manifest, however complete the store was and however often it was
\* initialised: except for a tree whose recording by another process has yet to
\* add the line, or was killed before it, and for lines that an init empties
\* which began before there was a timeline (store.go:63, index.go:34).
ReportedIsListed ==
    \A id \in returned :
        /\ id \in manifests
        /\ \/ log # Missing /\ \E i \in DOMAIN log : log[i] = id
           \/ \E p \in Process : pc[p] = "append" /\ found[p] = id
           \/ id \in spoilt

\* Once an init has come past store.Init, the store is complete and stays so,
\* whatever earlier ones left half made and wherever later ones are killed
\* (store.go:55-67: every directory is made by itself).
CompleteAfterInit == initialised => made = Made /\ log # Missing

\* No init writes over a config.toml of the user's that was there all the time
\* the init has run, one that does not parse included (init.go:33).
EditsStay ==
    [][own /\ ~own' => \/ config' = Missing
                        \/ \E p \in noConfig : pc[p] = "open config"]_suvars

\* A snapshot takes the files up to the size that config.toml, at some moment
\* since its command began, has set: the default for a number that is not
\* positive, for a file that is missing, empty or silent about it.  A number
\* whose bytes do not fit into an integer is excepted; one that a write cut
\* short has left counts as set (config.go:77-109, snapshot.go:35-38).
TakesWhatFits ==
    [][\A p \in Process :
         pc[p] = "walk" /\ pc'[p] = "record" =>
            \E mb \in meant[p] :
                \/ mb * Megabyte > MaxInt
                \/ LET most == IF mb > 0 THEN mb ELSE Default
                   IN  found'[p] = {f \in File : Size[f] <= most * Megabyte}
       ]_suvars
=============================================================================
