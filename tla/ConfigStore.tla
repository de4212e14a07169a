----------------------------- MODULE ConfigStore -----------------------------
(***************************************************************************)
(* The live configuration of switchyardd and the files that carry it: the  *)
(* PUT and rollback handlers of the admin API, each a sequence of renames  *)
(* under write_lock, the in-memory configuration they then apply, and what *)
(* a restart finds on disk.  File 0 is the configuration path, file n its  *)
(* n-th previous revision, Tmp the scratch name of both handlers.          *)
(***************************************************************************)
EXTENDS Naturals, FiniteSets

CONSTANTS
    Configs,     \* configuration documents
    Clients,     \* concurrent admin requests
    History,     \* CONFIG_HISTORY
    Boot,        \* Boot[c]: the part of c that only a process start reads
    Pinned,      \* Pinned[c]: plugin commands and secret references of c
    DataDir,     \* DataDir[c]: node.data_dir of c
    None, Torn,  \* no file; a file whose write did not finish
    IoFaults,    \* whether a file operation may fail
    CrashBound   \* how many times the process may stop

ASSUME ConfigAssumption ==
    /\ History \in Nat \ {0}
    /\ CrashBound \in Nat
    /\ IoFaults \in BOOLEAN
    /\ None \notin Configs /\ Torn \notin Configs /\ None # Torn

VARIABLES
    files,    \* the content of every file
    lock,     \* write_lock: the set of clients holding it
    call,     \* each client's request: where it is, the document it applies
    cfg,      \* Daemon::cfg
    limiter,  \* the configuration whose numbers the limiters were built with
    running,  \* the start-time settings the processes run with
    valid,    \* the documents load_from_str accepts in today's environment
    up,       \* whether the daemon runs
    faulted,  \* whether a file operation has failed since the last start
    crashes,
    base,     \* history: the files when write_lock was last taken
    lived,    \* history: revisions that were live and not dropped by rotation
    placed,   \* history: pinned settings written to disk by the operator
    reported  \* history: whether a reply has named a restart since the last one

vars == <<files, lock, call, cfg, limiter, running, valid, up, crashes,
          faulted, base, lived, placed, reported>>

Live == 0
Prev == 1
Tmp == History + 1
File == Live..Tmp

Idle == [pc |-> "idle", new |-> None, slot |-> 0]

Put == {"admitted", "write", "rotate", "replace", "install"}
Swap == {"swap1", "swap2", "swap3"}
Apply == {"chmod", "limits"}
Pc == {"idle"} \cup Put \cup Swap \cup Apply

Call == [pc : Pc, new : Configs \cup {None}, slot : 0..(History - 1)]

Move(f, from, to) == [f EXCEPT ![to] = f[from], ![from] = None]

(***************************************************************************)
(* A request and its steps.                                                *)
(***************************************************************************)
daemon == <<cfg, limiter, running, valid, up, crashes, faulted>>
history == <<lived, placed, reported>>

Goto(c, pc) == call' = [call EXCEPT ![c].pc = pc]

AdmissibleParsed(new) == new \in valid

\* config_put up to write_lock: the document parses, and against the
\* configuration in force now it introduces no command and no reference
\* and keeps the data directory.  A refusal (422) changes nothing.
Admissible(new) ==
    /\ new \in valid
    /\ Pinned[new] \subseteq Pinned[cfg]
    /\ DataDir[new] = DataDir[cfg]

ConfigPut(c) ==
    /\ up /\ call[c] = Idle
    /\ \E new \in Configs :
          /\ Admissible(new)
          /\ call' = [call EXCEPT ![c] = [pc |-> "admitted", new |-> new, slot |-> 0]]
    /\ UNCHANGED <<files, lock, base, daemon, history>>

LockWrite(c) ==
    /\ call[c].pc = "admitted" /\ lock = {}
    /\ lock' = {c}
    /\ base' = files
    /\ Goto(c, "write")
    /\ UNCHANGED <<files, daemon, history>>

\* write_config_replacing_current: the scratch file is written whole, the
\* oldest revision removed, then the others move down from the oldest.
WriteInPlace(c) ==
    /\ call[c].pc = "write"
    /\ files' = [files EXCEPT ![Tmp] = call[c].new, ![Live] = Torn, ![History] = None]
    /\ call' = [call EXCEPT ![c] = [@ EXCEPT !.pc = "rotate", !.slot = History - 1]]
    /\ lived' = lived \ ({files[History]} \ {files[n] : n \in File \ {History, Tmp}})
    /\ UNCHANGED <<lock, base, daemon, placed, reported>>

WriteTmp(c) ==
    /\ call[c].pc = "write"
    /\ files' = [files EXCEPT ![Tmp] = call[c].new, ![History] = None]
    /\ call' = [call EXCEPT ![c] = [@ EXCEPT !.pc = "rotate", !.slot = History - 1]]
    /\ lived' = lived \ ({files[History]} \ {files[n] : n \in File \ {History, Tmp}})
    /\ UNCHANGED <<lock, base, daemon, placed, reported>>

RotateSkipsNewest(c) ==
    /\ call[c].pc = "rotate"
    /\ LET n == call[c].slot IN
          IF n <= 1
          THEN Goto(c, "replace") /\ UNCHANGED files
          ELSE /\ files' = IF files[n] = None THEN files ELSE Move(files, n, n + 1)
               /\ call' = [call EXCEPT ![c].slot = n - 1]
    /\ UNCHANGED <<lock, base, daemon, history>>

Rotate(c) ==
    /\ call[c].pc = "rotate"
    /\ LET n == call[c].slot IN
          IF n = 0
          THEN Goto(c, "replace") /\ UNCHANGED files
          ELSE /\ files' = IF files[n] = None THEN files ELSE Move(files, n, n + 1)
               /\ call' = [call EXCEPT ![c].slot = n - 1]
    /\ UNCHANGED <<lock, base, daemon, history>>

Replace(c) ==
    /\ call[c].pc = "replace"
    /\ files' = IF files[Live] = None THEN files ELSE Move(files, Live, Prev)
    /\ Goto(c, "install")
    /\ UNCHANGED <<lock, base, daemon, history>>

InstallUnlocks(c) ==
    /\ call[c].pc = "install"
    /\ files' = Move(files, Tmp, Live)
    /\ Goto(c, "chmod")
    /\ lock' = lock \ {c}
    /\ UNCHANGED <<base, daemon, history>>

Install(c) ==
    /\ call[c].pc = "install"
    /\ files' = Move(files, Tmp, Live)
    /\ Goto(c, "chmod")
    /\ UNCHANGED <<lock, base, daemon, history>>

\* config_rollback: under write_lock from the start, revision 1 must exist
\* (else 404) and still parse (else 409); neither refusal changes anything.
ConfigRollback(c) ==
    /\ up /\ call[c] = Idle /\ lock = {}
    /\ files[Prev] \in valid
    /\ lock' = {c}
    /\ base' = files
    /\ call' = [call EXCEPT ![c] = [pc |-> "swap1", new |-> files[Prev], slot |-> 0]]
    /\ UNCHANGED <<files, daemon, history>>

\* swap_with_prev: path to scratch, revision 1 to path, scratch to revision 1.
SwapWithPrev(c) ==
    /\ \/ /\ call[c].pc = "swap1" /\ files[Live] # None
          /\ files' = Move(files, Live, Tmp) /\ Goto(c, "swap2")
       \/ /\ call[c].pc = "swap2"
          /\ files' = Move(files, Prev, Live) /\ Goto(c, "swap3")
       \/ /\ call[c].pc = "swap3"
          /\ files' = Move(files, Tmp, Prev) /\ Goto(c, "chmod")
    /\ UNCHANGED <<lock, base, daemon, history>>

\* apply_config: the restart diff against the configuration being replaced,
\* the swap, and then outside the cfg lock the limiters.
ApplyConfig(c) ==
    /\ call[c].pc = "chmod"
    /\ reported' = (reported \/ Boot[call[c].new] # Boot[cfg])
    /\ cfg' = call[c].new
    /\ lived' = lived \cup {call[c].new}
    /\ Goto(c, "limits")
    /\ UNCHANGED <<files, lock, base, limiter, running, valid, up, crashes, faulted, placed>>

RebuildLimiters(c) ==
    /\ call[c].pc = "limits"
    /\ limiter' = call[c].new
    /\ lock' = lock \ {c}
    /\ call' = [call EXCEPT ![c] = Idle]
    /\ UNCHANGED <<files, base, cfg, running, valid, up, crashes, faulted, history>>

\* An I/O error ends the request with a 500 and releases the lock; a failed
\* write leaves a partial scratch file.  "chmod" stands for the mode changes
\* after the last rename, which fail with every file in its final place.
Fails(c) ==
    /\ IoFaults \/ (call[c].pc = "swap1" /\ files[Live] = None)
    /\ call[c].pc \in {"write", "rotate", "replace", "install", "chmod"} \cup Swap
    /\ files' = IF call[c].pc = "write" THEN [files EXCEPT ![Tmp] = Torn] ELSE files
    /\ lock' = lock \ {c}
    /\ call' = [call EXCEPT ![c] = Idle]
    /\ faulted' = TRUE
    /\ UNCHANGED <<base, cfg, limiter, running, valid, up, crashes, history>>

(***************************************************************************)
(* Outside the handlers.                                                   *)
(***************************************************************************)
\* A referenced secret disappears or comes back (load_from_str resolves it).
EnvDrift ==
    /\ \E c \in Configs :
          valid' = IF c \in valid THEN valid \ {c} ELSE valid \cup {c}
    /\ UNCHANGED <<files, lock, call, base, cfg, limiter, running, up, crashes,
                   faulted, history>>

\* supervise respawns a plugin process with the configuration now in force.
RespawnPlugin ==
    /\ up /\ running # Boot[cfg]
    /\ running' = Boot[cfg] /\ reported' = FALSE
    /\ UNCHANGED <<files, lock, call, base, cfg, limiter, valid, up, crashes,
                   faulted, lived, placed>>

Crash ==
    /\ up /\ crashes < CrashBound
    /\ crashes' = crashes + 1
    /\ up' = FALSE
    /\ lock' = {}
    /\ files' \in {files} \cup
          {[files EXCEPT ![Tmp] = Torn] : c \in {d \in Clients : call[d].pc = "write"}}
    /\ call' = [c \in Clients |-> Idle]
    /\ UNCHANGED <<base, cfg, limiter, running, valid, faulted, history>>

\* The operator writes the configuration file of a stopped daemon.
Edit(c) ==
    /\ ~up
    /\ files' = [files EXCEPT ![Live] = c]
    /\ placed' = placed \cup Pinned[c]
    /\ UNCHANGED <<lock, call, base, daemon, lived, reported>>

\* main: a start needs a configuration file that load_from_str accepts.
Start ==
    /\ ~up /\ files[Live] \in valid
    /\ up' = TRUE /\ faulted' = FALSE /\ reported' = FALSE
    /\ cfg' = files[Live] /\ limiter' = files[Live] /\ running' = Boot[files[Live]]
    /\ lived' = lived \cup {files[Live]}
    /\ base' = files
    /\ UNCHANGED <<files, lock, call, valid, crashes, placed>>

Init ==
    /\ cfg \in Configs
    /\ files = [f \in File |-> IF f = Live THEN cfg ELSE None]
    /\ lock = {} /\ call = [c \in Clients |-> Idle]
    /\ limiter = cfg /\ running = Boot[cfg] /\ valid = Configs
    /\ up = TRUE /\ crashes = 0 /\ faulted = FALSE
    /\ base = files /\ lived = {cfg} /\ placed = Pinned[cfg] /\ reported = FALSE

Handler(c) ==
    \/ ConfigPut(c) \/ LockWrite(c) \/ WriteTmp(c) \/ Rotate(c) \/ Replace(c)
    \/ Install(c) \/ ConfigRollback(c) \/ SwapWithPrev(c) \/ ApplyConfig(c)
    \/ RebuildLimiters(c) \/ Fails(c)

Next ==
    \/ \E c \in Clients : Handler(c)
    \/ EnvDrift \/ RespawnPlugin \/ Crash \/ Start
    \/ \E c \in Configs : Edit(c)

Spec == Init /\ [][Next]_vars

(***************************************************************************)
(* Properties.                                                             *)
(***************************************************************************)
\* Every variable has its type.
TypeOK ==
    /\ files \in [File -> Configs \cup {None, Torn}]
    /\ lock \subseteq Clients /\ call \in [Clients -> Call]
    /\ cfg \in Configs /\ limiter \in Configs
    /\ valid \subseteq Configs /\ up \in BOOLEAN /\ faulted \in BOOLEAN
    /\ crashes \in 0..CrashBound
    /\ base \in [File -> Configs \cup {None, Torn}]
    /\ lived \subseteq Configs /\ reported \in BOOLEAN

\* Between requests the file a restart would load, the configuration in
\* force and the numbers in the limiters are one document, whatever PUTs and
\* rollbacks raced before (write_lock and apply_lock), until a file operation
\* fails.
DiskIsMemory ==
    up /\ ~faulted /\ lock = {} => files[Live] = cfg /\ limiter = cfg

Serving == up /\ ~faulted

\* The files implement the promised history: seen at the moments write_lock
\* is free, each PUT pushes exactly one revision and drops only the oldest,
\* and each rollback swaps exactly the newest (write_config_replacing_current
\* and swap_with_prev together), between any two interruptions.
Promise == INSTANCE ConfigHistory WITH
    serving <- Serving,
    current <- IF ~Serving THEN None ELSE IF lock = {} THEN files[Live] ELSE base[Live],
    revision <- [n \in 1..History |->
                    IF ~Serving THEN None ELSE IF lock = {} THEN files[n] ELSE base[n]]

ImplementsHistory == Promise!Spec

\* A crash or an I/O error at any step leaves a whole document, the old or
\* the new one, at the configuration path, except in the gaps between two
\* renames; no partial write is ever under a name a reader uses.
LiveIsWhole ==
    /\ \A f \in File \ {Tmp} : files[f] # Torn
    /\ \A c \in lock :
          /\ files[Live] = None =>
                call[c].pc \in {"install", "swap2"} \/ base[Live] = None
          /\ files[Live] \in {base[Live], call[c].new, None}

\* The pinned settings (plugin commands, secret references) of the
\* configuration in force and of every file all come from a configuration
\* file the operator wrote: no sequence of PUTs, rollbacks and restarts
\* introduces one (rejected_command_changes, rejected_secret_ref_changes).
PinnedFromDisk ==
    /\ Pinned[cfg] \subseteq placed
    /\ \A f \in File : files[f] \in Configs => Pinned[files[f]] \subseteq placed

\* Contradicted: "a stray .tmp is harmless -- the next attempt overwrites
\* it".  Overwriting the scratch file never loses a revision that was live
\* and that rotation has not dropped.
StrayTmpHarmless ==
    [][\A c \in lived' :
          files[Tmp] = c /\ files'[Tmp] # c =>
             \E f \in File \ {Tmp} : files'[f] = c]_vars

\* A process that runs with start-time settings other than those of the
\* configuration in force has been named in a restart_required reply since it
\* started, whatever sequence of PUTs and rollbacks came between (the diff of
\* apply_config is against the configuration it replaces, not against what
\* the processes run with).
StaleWasReported == running # Boot[cfg] => reported
=============================================================================
