------------------------------ MODULE MCFiles ------------------------------
(***************************************************************************)
(* A behaviour is that of the attachments or of the configuration files.   *)
(* Two messages have one blob that they share and one of their own each.   *)
(* Two documents have different start-time settings, one of them pinned; a *)
(* third, for larger instances, pins one setting more.                     *)
(***************************************************************************)
EXTENDS Backup, ConfigStore, TLC

CONSTANTS m1, m2, b1, b2, b3, c1, c2, c3

Shared == [m \in {m1, m2} |-> IF m = m1 THEN {b1, b3} ELSE {b1, b2}]
Sizes == [b \in {b1, b2, b3} |-> 1]

MCBoot == [c \in Configs |-> IF c = c2 THEN "b" ELSE "a"]
MCPinned == [c \in Configs |-> IF c = c2 THEN {} ELSE IF c = c1 THEN {"cmd"} ELSE {"cmd", "ref"}]
MCDataDir == [c \in Configs |-> "dir"]
\* The clients are alike, and so are the messages with the blobs of their own.
MCSymmetry ==
  {g @@ h : g \in Permutations(Clients),
            h \in {<<>>, (m1 :> m2) @@ (m2 :> m1) @@ (b2 :> b3) @@ (b3 :> b2)}}

VARIABLE part
all == <<part, bvars, vars>>

\* All but two history variables, which no step reads and only properties outside
\* Files.cfg are about: lived (StrayTmpHarmless) and reported (StaleWasReported).
Relevant == <<part, bvars, files, lock, call, cfg, limiter, running, valid, up,
              crashes, faulted, base, placed>>

\* A behaviour of the attachments has one initial configuration, which it never uses.
MCInit ==
  /\ part \in {"attachments", "config"} /\ BackupInit /\ Init
  /\ part = "attachments" => cfg = c1
AttachmentsNext == part = "attachments" /\ BackupNext /\ UNCHANGED <<part, vars>>
ConfigNext == part = "config" /\ Next /\ UNCHANGED <<part, bvars>>
MCSpec == MCInit /\ [][AttachmentsNext \/ ConfigNext]_all
=============================================================================
