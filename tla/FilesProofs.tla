----------------------------- MODULE FilesProofs -----------------------------
(***************************************************************************)
(* What a node keeps in files.  A purge spares every blob a message owns,  *)
(* and a backup misses only what a purge unlinked, for any messages, blobs *)
(* and attachments, any number of writers, and with failing stores,        *)
(* restarts and restores.  The configuration files are whole at every      *)
(* point of a handler: the inductive invariant gives them in terms of      *)
(* those the handler found when it took write_lock, and the lemmas are the *)
(* file steps of a PUT.                                                    *)
(***************************************************************************)
EXTENDS Backup, ConfigStore, TLAPS

\* The prover of a step that names none, and its seconds.
USE ZenonT(60)

-----------------------------------------------------------------------------
(* What a purge unlinks *)

PurgeType ==
  [pc : {"idle", "unlink", "free"}, orphans : SUBSET Blobs, freed : SUBSET Blobs]

\* The inductive form: without the store lock nothing waits to be unlinked, so
\* the rows Persist adds, which need the lock, cannot name a waiting blob.
PurgeInv ==
  /\ purge \in PurgeType
  /\ LockFree => purge.orphans = {}
  /\ PurgeSparesOwned

LEMMA PruneKeeps ==
  ASSUME NEW S, PruneOrphans(S)
  PROVE  PurgeInv'
<1> DEFINE live == {m \in Messages : message[m] \in {"live", "old", "dead"}} \ S
<1> live \subseteq Messages
  OBVIOUS
<1>1. /\ refs' = {r \in refs : r[1] \in live}
      /\ purge' = [pc |-> "unlink", freed |-> {},
                   orphans |-> Referenced(Messages) \ Referenced(live)]
  BY DEF PruneOrphans
<1>2. purge' \in PurgeType /\ purge'.pc = "unlink"
  BY <1>1 DEF PurgeType, Referenced
<1>3. purge'.orphans = Referenced(Messages) \ Referenced(live)
  BY <1>1
<1>4. ASSUME NEW b \in Blobs, NEW m \in Messages, <<m, b>> \in refs'
      PROVE  b \in Referenced(live)
  BY <1>1, <1>4 DEF Referenced
<1> QED
  BY <1>2, <1>3, <1>4 DEF PurgeInv, PurgeSparesOwned, Owned, LockFree

LEMMA PurgeStep ==
  ASSUME PurgeInv, [StoreNext]_storeVars
  PROVE  PurgeInv'
<1> USE DEF PurgeInv
<1>1. ASSUME UNCHANGED <<purge, refs>>
      PROVE  PurgeInv'
  BY <1>1 DEF PurgeSparesOwned, Owned, LockFree
<1>2. ASSUME NEW m \in Messages, Persist(m)
      PROVE  PurgeInv'
  BY <1>2 DEF Persist, PurgeSparesOwned, LockFree
<1>3. ASSUME NEW b \in Blobs, Unlink(b)
      PROVE  PurgeInv'
  <2>1. purge' \in PurgeType /\ purge'.orphans \subseteq purge.orphans
    BY <1>3 DEF Unlink, PurgeType
  <2>2. purge'.pc # "idle"
    BY <1>3 DEF Unlink, PurgeType
  <2> QED
    BY <1>3, <2>1, <2>2 DEF Unlink, PurgeSparesOwned, Owned, LockFree
<1>4. CASE Free
  <2>1. purge' \in PurgeType /\ purge'.orphans = purge.orphans /\ purge'.pc = "unlink"
    BY <1>4 DEF Free, PurgeType
  <2> QED
    BY <1>4, <2>1 DEF Free, PurgeSparesOwned, Owned, LockFree
<1>5. CASE PurgeEnds \/ CrashRestart
  <2>1. purge' = NoPurge
    BY <1>5 DEF PurgeEnds, CrashRestart
  <2> QED
    BY <2>1 DEF NoPurge, PurgeType, PurgeSparesOwned, LockFree
<1>6. CASE PurgeTerminal \/ QueuePurge
  BY <1>6, PruneKeeps DEF PurgeTerminal, QueuePurge
<1>7. CASE UNCHANGED storeVars
  BY <1>7, <1>1 DEF storeVars
<1>8. ASSUME NEW m \in Messages,
             \/ Begin(m) \/ PutFails(m) \/ PutRename(m) \/ PutAdd(m)
             \/ PersistFails(m) \/ Settle(m)
             \/ \E b \in Blobs : PutExisting(m, b) \/ PutRefused(m, b) \/ PutStart(m, b)
      PROVE  PurgeInv'
  BY <1>8, <1>1 DEF Begin, PutFails, PutRename, PutAdd, PersistFails, Settle,
                    PutExisting, PutRefused, PutStart
<1> QED
  BY <1>2, <1>3, <1>4, <1>5, <1>6, <1>7, <1>8 DEF StoreNext

LEMMA BackupPurgeStep ==
  ASSUME PurgeInv, [BackupNext]_bvars
  PROVE  PurgeInv'
<1>1. CASE StoreNext \/ UNCHANGED storeVars
  BY <1>1, PurgeStep
<1>2. CASE Restore
  <2>1. purge' = NoPurge
    BY <1>2 DEF Restore
  <2> QED
    BY <2>1 DEF NoPurge, PurgeInv, PurgeType, PurgeSparesOwned, LockFree
<1> QED
  BY <1>1, <1>2 DEF BackupNext, bvars, Vacuum, ListBlobs, WriteManifest, CopyBlob, CopyFails

\* No purge ever unlinks a blob that a message on file owns: prune_orphans
\* reports only shas without an owner, and the store lock held across the
\* unlinks keeps new owners out (the retention purge of pump, and queue_purge).
\* Backups, restores and restarts of the daemon change nothing about it.
THEOREM PurgeIsSafe == BackupSpec => []PurgeSparesOwned
<1>1. BackupInit => PurgeInv
  BY SMTT(30) DEF BackupInit, StoreInit, NoPurge, PurgeInv, PurgeType, PurgeSparesOwned, LockFree
<1>2. PurgeInv /\ [BackupNext]_bvars => PurgeInv'
  BY BackupPurgeStep
<1>3. PurgeInv => PurgeSparesOwned
  BY DEF PurgeInv
<1> QED
  BY <1>1, <1>2, <1>3, PTL DEF BackupSpec

-----------------------------------------------------------------------------
(* What a backup misses *)

\* The inductive form: between the VACUUM and the listing the blobs the copied
\* database names are on disk, and from the listing on they are listed or copied,
\* but for what a purge unlinked.
BackupInv ==
  /\ DOMAIN backup = {"pc", "message", "refs", "todo", "blobs"}
  /\ backup.pc = "list" => BackupOwned \subseteq disk \cup unlinked
  /\ backup.pc = "copy" => BackupOwned \subseteq backup.todo \cup backup.blobs \cup unlinked
  /\ OnlyUnlinkedMissing

\* A step of the daemon, seen from the backup.
LEMMA StoreKeepsBackup ==
  ASSUME BackupInv, UNCHANGED backup, unlinked' = unlinked \cup (disk \ disk')
  PROVE  BackupInv'
<1>1. /\ backup' = backup /\ BackupOwned' = BackupOwned
      /\ unlinked \subseteq unlinked' /\ disk \cup unlinked \subseteq disk' \cup unlinked'
  BY DEF BackupOwned
<1>2. /\ backup.pc = "list" => BackupOwned' \subseteq disk' \cup unlinked'
      /\ backup.pc = "copy" => BackupOwned' \subseteq backup.todo \cup backup.blobs \cup unlinked'
  BY <1>1 DEF BackupInv
<1>3. OnlyUnlinkedMissing'
  BY <1>1 DEF BackupInv, OnlyUnlinkedMissing
<1> QED
  BY <1>1, <1>2, <1>3 DEF BackupInv

LEMMA BackupStep ==
  ASSUME BackupInv, [BackupNext]_bvars
  PROVE  BackupInv'
<1> USE DEF BackupInv, BackupOwned, OnlyUnlinkedMissing
<1>1. CASE UNCHANGED backup /\ unlinked' = unlinked \cup (disk \ disk')
  BY <1>1, StoreKeepsBackup
<1>2. CASE UNCHANGED bvars
  BY <1>2 DEF bvars, storeVars
<1>3. CASE Vacuum
  BY <1>3 DEF Vacuum, Owned, storeVars
<1>4. CASE ListBlobs
  BY <1>4 DEF ListBlobs
<1>5. CASE WriteManifest
  BY <1>5 DEF WriteManifest
<1>6. ASSUME NEW b \in Blobs, CopyBlob(b) \/ CopyFails(b)
      PROVE  BackupInv'
  BY <1>6 DEF CopyBlob, CopyFails
<1>7. CASE Restore
  BY <1>7 DEF Restore
<1> QED
  BY <1>1, <1>2, <1>3, <1>4, <1>5, <1>6, <1>7 DEF BackupNext

\* A backup taken beside the running daemon and finished has every blob its
\* database names, but for those a purge unlinked meanwhile, however writers,
\* purges and restarts interleave with its listing and copying.
THEOREM BackupMissesOnlyUnlinked == BackupSpec => []OnlyUnlinkedMissing
<1>1. BackupInit => BackupInv
  BY SMTT(30) DEF BackupInit, NoBackup, BackupInv, OnlyUnlinkedMissing
<1>2. BackupInv /\ [BackupNext]_bvars => BackupInv'
  BY BackupStep
<1>3. BackupInv => OnlyUnlinkedMissing
  BY DEF BackupInv
<1> QED
  BY <1>1, <1>2, <1>3, PTL DEF BackupSpec

-----------------------------------------------------------------------------
(* The configuration files *)

ShapeType ==
    /\ files \in [File -> Configs \cup {None, Torn}]
    /\ base \in [File -> Configs \cup {None, Torn}]
    /\ call \in [Clients -> Call]
    /\ cfg \in Configs /\ valid \subseteq Configs

\* Only the scratch file is ever partial.
Whole == \A f \in 0..History : files[f] # Torn /\ base[f] # Torn

\* At most one request is past write_lock: its holder.
Exclusive ==
    \/ lock = {} /\ \A c \in Clients : call[c].pc \in {"idle", "admitted"}
    \/ \E h \in Clients :
          /\ lock = {h} /\ call[h].pc \notin {"idle", "admitted"}
          /\ \A c \in Clients \ {h} : call[c].pc \in {"idle", "admitted"}

\* The files of a PUT whose rotation still has slots 1..n to move.
Rotated(f, b, n, new) ==
    /\ f[Live] = b[Live] /\ f[Tmp] = new
    /\ \A k \in 1..n : f[k] = b[k]
    /\ f[n + 1] = None
    /\ \A k \in (n + 2)..History : f[k] = b[k - 1]

PutDone(f, b, live, tmp) ==
    /\ f[Live] = live /\ f[Tmp] = tmp
    /\ f[Prev] = b[Live]
    /\ \A k \in 2..History : f[k] = b[k - 1]

Swapped(f, b, live, prev, tmp) ==
    /\ f[Live] = live /\ f[Prev] = prev /\ f[Tmp] = tmp
    /\ \A k \in 2..History : f[k] = b[k]

\* What the holder of write_lock has done to the files so far.
Progress(c) ==
    LET pc == call[c].pc
        new == call[c].new
    IN  /\ pc # "idle" => new \in Configs
        /\ pc = "write" => files = base
        /\ pc = "rotate" => Rotated(files, base, call[c].slot, new)
        /\ pc = "replace" => Rotated(files, base, 0, new)
        /\ pc = "install" => PutDone(files, base, None, new)
        /\ pc = "swap1" => files = base /\ new = base[Prev]
        /\ pc = "swap2" => Swapped(files, base, None, base[Prev], base[Live]) /\ new = base[Prev]
        /\ pc = "swap3" => Swapped(files, base, base[Prev], None, base[Live]) /\ new = base[Prev]
        /\ pc \in Apply =>
              \/ PutDone(files, base, new, None)
              \/ Swapped(files, base, new, base[Live], None) /\ new = base[Prev]
        /\ pc = "limits" => cfg = new

Settled ==
    /\ ~up => lock = {} /\ \A c \in Clients : call[c].pc = "idle"
    /\ up /\ ~faulted /\ lock = {} => files[Live] = cfg /\ limiter = cfg
    /\ up /\ ~faulted /\ lock # {} => base[Live] \in Configs

Shape == ShapeType /\ Whole /\ Exclusive /\ Settled /\ \A c \in Clients : Progress(c)

LEMMA FileFacts ==
    /\ File = 0..(History + 1) /\ Live = 0 /\ Prev = 1 /\ Tmp = History + 1
    /\ History \in Nat /\ History >= 1
    /\ None \notin Configs /\ Torn \notin Configs /\ None # Torn
BY ConfigAssumption, SMTT(30) DEF File, Live, Prev, Tmp

\* Initially no request is in flight and the files are as main found them.
LEMMA ShapeInit == Init => Shape
<1> SUFFICES ASSUME Init PROVE Shape
  OBVIOUS
<1> USE DEF Init
<1>1. ShapeType
  <2>1. call \in [Clients -> Call]
    BY FileFacts, SMTT(30) DEF Call, Idle, Pc
  <2> QED BY <2>1, FileFacts DEF ShapeType
<1>2. Exclusive
  BY DEF Exclusive, Idle
<1>3. Settled
  BY FileFacts, SMTT(30) DEF Settled
<1>4. \A c \in Clients : Progress(c)
  BY DEF Progress, Idle, Apply
<1>5. Whole
  BY FileFacts, SMTT(30) DEF Whole
<1> QED BY <1>1, <1>2, <1>3, <1>4, <1>5 DEF Shape

\* The request past write_lock is its only holder, and the others wait.
LEMMA HolderAlone ==
    ASSUME Exclusive, NEW h \in Clients, call[h].pc \notin {"idle", "admitted"}
    PROVE  /\ lock = {h}
           /\ \A c \in Clients \ {h} : call[c].pc \in {"idle", "admitted"}
BY DEF Exclusive

\* A step of the holder of write_lock that keeps the lock preserves the
\* invariant when it preserves the types and the holder's own progress:
\* Progress only types the documents the other requests carry.
LEMMA HolderStep ==
    ASSUME Shape, NEW h \in Clients,
           call[h].pc \notin {"idle", "admitted"},
           call'[h].pc \notin {"idle", "admitted"},
           \A c \in Clients \ {h} : call'[c] = call[c],
           lock' = lock, base' = base, UNCHANGED <<up, faulted>>,
           ShapeType', Whole', Progress(h)'
    PROVE  Shape'
<1>1. /\ lock = {h}
      /\ \A c \in Clients \ {h} : call[c].pc \in {"idle", "admitted"}
  BY HolderAlone DEF Shape
<1>2. Exclusive'
  BY <1>1 DEF Exclusive
<1>3. Settled'
  <2>1. up
    BY DEF Settled, Shape
  <2> QED BY <1>1, <2>1 DEF Settled, Shape
<1>4. ASSUME NEW c \in Clients, c # h PROVE Progress(c)'
  <2>1. call'[c] = call[c] /\ call[c].pc \in {"idle", "admitted"}
    BY <1>1, <1>4
  <2>2. call[c].pc # "idle" => call[c].new \in Configs
    BY DEF Shape, Progress
  <2> QED BY <2>1, <2>2 DEF Progress, Apply
<1> QED BY <1>2, <1>3, <1>4 DEF Shape

\* WriteTmp (write_config_replacing_current, before the rotation loop).
LEMMA WriteTmpStep ==
    ASSUME Shape, NEW h \in Clients, WriteTmp(h) PROVE Shape'
<1> DEFINE new == call[h].new
<1>0. ShapeType /\ Progress(h) /\ call[h].pc = "write"
  BY DEF Shape, WriteTmp
<1>1. files = base /\ new \in Configs
  BY <1>0 DEF Progress
<1>2. /\ call[h] \in Call /\ History - 1 \in 0..(History - 1)
      /\ call'[h] = [call[h] EXCEPT !.pc = "rotate", !.slot = History - 1]
      /\ \A c \in Clients \ {h} : call'[c] = call[c]
  BY <1>0, FileFacts, SMTT(30) DEF WriteTmp, ShapeType
<1>3. /\ call'[h].pc = "rotate" /\ call'[h].slot = History - 1
      /\ call'[h].new = new /\ call'[h] \in Call
  BY <1>2 DEF Call, Pc, Put
<1>4. ShapeType'
  <2>1. call' \in [Clients -> Call]
    BY <1>0, <1>2, <1>3 DEF WriteTmp, ShapeType
  <2>2. files' \in [File -> Configs \cup {None, Torn}]
    BY <1>0, <1>1, FileFacts DEF WriteTmp, ShapeType
  <2> QED BY <2>1, <2>2, <1>0 DEF WriteTmp, ShapeType, daemon
<1>5. Rotated(files', base', call'[h].slot, call'[h].new)
  <2>1. Rotated(files', base', History - 1, new)
    BY <1>0, <1>1, FileFacts, SMTT(30) DEF WriteTmp, Rotated, ShapeType
  <2> QED BY <2>1, <1>3
<1>6. Progress(h)'
  BY <1>1, <1>3, <1>5 DEF Progress, Apply
<1>7. Whole'
  BY <1>0, <1>1, FileFacts, SMTT(30) DEF WriteTmp, Whole, Shape, ShapeType
<1> QED BY <1>0, <1>2, <1>3, <1>4, <1>6, <1>7, HolderStep DEF WriteTmp, daemon

\* Goto moves one request and leaves its document and slot alone.
LEMMA GotoFacts ==
    ASSUME ShapeType, NEW h \in Clients, NEW pc \in Pc, Goto(h, pc)
    PROVE  /\ call'[h].pc = pc /\ call'[h].new = call[h].new
           /\ call'[h].slot = call[h].slot /\ call' \in [Clients -> Call]
           /\ \A c \in Clients \ {h} : call'[c] = call[c]
<1>1. /\ call[h] \in Call /\ call'[h] = [call[h] EXCEPT !.pc = pc]
      /\ \A c \in Clients \ {h} : call'[c] = call[c]
  BY DEF Goto, ShapeType
<1>2. /\ call'[h].pc = pc /\ call'[h].new = call[h].new
      /\ call'[h].slot = call[h].slot /\ call'[h] \in Call
  BY <1>1 DEF Call
<1> QED BY <1>1, <1>2 DEF Goto, ShapeType

\* One turn of the rotation loop.
LEMMA RotateStep ==
    ASSUME Shape, NEW h \in Clients, Rotate(h) PROVE Shape'
<1> DEFINE n == call[h].slot
           new == call[h].new
<1>0. ShapeType /\ Progress(h) /\ call[h].pc = "rotate"
  BY DEF Shape, Rotate
<1>1. Rotated(files, base, n, new) /\ new \in Configs /\ n \in 0..(History - 1)
  BY <1>0 DEF Progress, ShapeType, Call
<1>2. CASE n = 0
  <2>1. /\ call'[h].pc = "replace" /\ call'[h].new = new
        /\ call' \in [Clients -> Call]
        /\ \A c \in Clients \ {h} : call'[c] = call[c]
    BY <1>0, <1>2, GotoFacts DEF Rotate, Pc, Put
  <2>2. files' = files /\ base' = base
    BY <1>2 DEF Rotate
  <2>3. Progress(h)'
    BY <1>1, <1>2, <2>1, <2>2 DEF Progress, Rotated, Apply
  <2>4. ShapeType'
    BY <1>0, <2>1, <2>2 DEF Rotate, ShapeType, daemon
  <2>5. Whole'
    BY <2>2 DEF Whole, Shape
  <2> QED BY <1>0, <2>1, <2>3, <2>4, <2>5, HolderStep DEF Rotate, daemon
<1>3. CASE n # 0
  <2>1. /\ call[h] \in Call /\ n - 1 \in 0..(History - 1)
        /\ call'[h] = [call[h] EXCEPT !.slot = n - 1]
        /\ \A c \in Clients \ {h} : call'[c] = call[c]
    BY <1>0, <1>1, <1>3, FileFacts, SMTT(30) DEF Rotate, ShapeType
  <2>2. /\ call'[h].pc = "rotate" /\ call'[h].new = new
        /\ call'[h].slot = n - 1 /\ call'[h] \in Call
    BY <1>0, <2>1 DEF Call
  <2>3. call' \in [Clients -> Call]
    BY <1>0, <1>3, <2>1, <2>2 DEF Rotate, ShapeType
  <2>4. files' = [files EXCEPT ![n + 1] = files[n], ![n] = None]
    BY <1>0, <1>1, <1>3, FileFacts DEF Rotate, Move, Rotated, ShapeType
  <2>5. ShapeType'
    <3>1. files' \in [File -> Configs \cup {None, Torn}]
      BY <1>0, <1>1, <1>3, <2>4, FileFacts, SMTT(30) DEF ShapeType
    <3> QED BY <1>0, <2>3, <3>1 DEF Rotate, ShapeType, daemon
  <2>6. Rotated(files', base', n - 1, new)
    <3> HIDE DEF n, new
    <3>1. base' = base /\ n \in 1..(History - 1)
      BY <1>1, <1>3, FileFacts, SMTT(30) DEF Rotate
    <3>2. \A k \in 0..(History + 1) :
             files'[k] = IF k = n THEN None ELSE IF k = n + 1 THEN files[n] ELSE files[k]
      BY <1>0, <2>4, <3>1, FileFacts DEF ShapeType
    <3>3. files'[0] = base[0] /\ files'[History + 1] = new /\ files'[(n - 1) + 1] = None
      BY <1>1, <3>1, <3>2, FileFacts, SMTT(30) DEF Rotated
    <3>4. \A k \in 1..(n - 1) : files'[k] = base[k]
      BY <1>1, <3>1, <3>2, FileFacts, SMTT(30) DEF Rotated
    <3>5. \A k \in ((n - 1) + 2)..History : files'[k] = base[k - 1]
      BY <1>1, <3>1, <3>2, FileFacts, SMTT(30) DEF Rotated
    <3> QED BY <3>1, <3>3, <3>4, <3>5, FileFacts DEF Rotated
  <2>7. Progress(h)'
    <3>1. Rotated(files', base', call'[h].slot, call'[h].new)
      BY <2>2, <2>6
    <3> QED BY <1>1, <2>2, <3>1 DEF Progress, Apply
  <2>8. Whole'
    BY <1>0, <1>1, <1>3, <2>4, FileFacts, SMTT(30) DEF Rotate, Whole, Shape, ShapeType
  <2> QED BY <1>0, <2>1, <2>2, <2>5, <2>7, <2>8, HolderStep DEF Rotate, daemon
<1> QED BY <1>2, <1>3

\* The two renames that make the new document live.
LEMMA ReplaceStep ==
    ASSUME Shape, NEW h \in Clients, Replace(h) PROVE Shape'
<1> DEFINE new == call[h].new
<1>0. ShapeType /\ Progress(h) /\ call[h].pc = "replace"
  BY DEF Shape, Replace
<1>1. Rotated(files, base, 0, new) /\ new \in Configs
  BY <1>0 DEF Progress
<1>2. /\ call'[h].pc = "install" /\ call'[h].new = new
      /\ call' \in [Clients -> Call]
      /\ \A c \in Clients \ {h} : call'[c] = call[c]
  BY <1>0, GotoFacts DEF Replace, Pc, Put
<1>3. files' = [files EXCEPT ![1] = files[0], ![0] = None]
  <2>1. CASE files[0] = None
    <3>1. files' = files /\ files[1] = None
      BY <1>1, <2>1, FileFacts, SMTT(30) DEF Replace, Rotated
    <3> QED BY <1>0, <2>1, <3>1, FileFacts DEF ShapeType
  <2>2. CASE files[0] # None
    BY <2>2, FileFacts DEF Replace, Move
  <2> QED BY <2>1, <2>2
<1>4. PutDone(files', base', None, new)
  <2>1. base' = base
    BY DEF Replace
  <2>2. \A k \in 0..(History + 1) :
           files'[k] = IF k = 0 THEN None ELSE IF k = 1 THEN files[0] ELSE files[k]
    BY <1>0, <1>3, FileFacts DEF ShapeType
  <2>3. \A k \in 2..History : files'[k] = base[k - 1]
    BY <1>1, <2>2, FileFacts, SMTT(30) DEF Rotated
  <2> QED BY <1>1, <2>1, <2>2, <2>3, FileFacts, SMTT(30) DEF PutDone, Rotated
<1>5. Progress(h)'
  BY <1>1, <1>2, <1>4 DEF Progress, Apply, PutDone
<1>6. ShapeType'
  <2>1. files' \in [File -> Configs \cup {None, Torn}]
    BY <1>0, <1>3, FileFacts, SMTT(30) DEF ShapeType
  <2> QED BY <1>0, <1>2, <2>1 DEF Replace, ShapeType, daemon
<1>7. Whole'
  BY <1>0, <1>3, FileFacts, SMTT(30) DEF Replace, Whole, Shape, ShapeType
<1> QED BY <1>0, <1>2, <1>5, <1>6, <1>7, HolderStep DEF Replace, daemon

LEMMA InstallStep ==
    ASSUME Shape, NEW h \in Clients, Install(h) PROVE Shape'
<1> DEFINE new == call[h].new
<1>0. ShapeType /\ Progress(h) /\ call[h].pc = "install"
  BY DEF Shape, Install
<1>1. PutDone(files, base, None, new) /\ new \in Configs
  BY <1>0 DEF Progress
<1>2. /\ call'[h].pc = "chmod" /\ call'[h].new = new
      /\ call' \in [Clients -> Call]
      /\ \A c \in Clients \ {h} : call'[c] = call[c]
  BY <1>0, GotoFacts DEF Install, Pc, Apply
<1>3. PutDone(files', base', new, None)
  BY <1>0, <1>1, FileFacts, SMTT(30) DEF Install, Move, PutDone, ShapeType
<1>4. Progress(h)'
  BY <1>1, <1>2, <1>3 DEF Progress, Apply, PutDone
<1>5. ShapeType'
  <2>1. files' \in [File -> Configs \cup {None, Torn}]
    BY <1>0, FileFacts, SMTT(30) DEF ShapeType, Install, Move
  <2> QED BY <1>0, <1>2, <2>1 DEF Install, ShapeType, daemon
<1>6. Whole'
  BY <1>0, <1>1, FileFacts, SMTT(30) DEF Install, Move, PutDone, Whole, Shape, ShapeType
<1> QED BY <1>0, <1>2, <1>4, <1>5, <1>6, HolderStep DEF Install, daemon

-----------------------------------------------------------------------------
(***************************************************************************)
(* The invariant holds at every step: the renames of a rollback, the       *)
(* other handler steps, failed operations, stops, edits and starts.  It    *)
(* gives that disk and memory agree and that a stop or a failed operation  *)
(* leaves a whole document.                                                *)
(***************************************************************************)

\* A rename moves one content and empties the name it had.
LEMMA MoveFacts ==
    ASSUME ShapeType, NEW from \in File, NEW to \in File, from # to,
           files' = Move(files, from, to)
    PROVE  \A k \in File :
              files'[k] = IF k = from THEN None ELSE IF k = to THEN files[from] ELSE files[k]
BY DEF Move, ShapeType

\* No file is partial at a point of a rollback where neither name is.
LEMMA SwappedWhole ==
    ASSUME NEW f, NEW b, NEW live, NEW prev, NEW tmp, live # Torn, prev # Torn,
           Swapped(f, b, live, prev, tmp), \A k \in 0..History : b[k] # Torn
    PROVE  \A k \in 0..History : f[k] # Torn
<1> SUFFICES ASSUME NEW k \in 0..History PROVE f[k] # Torn
  OBVIOUS
<1>1. CASE k \in {0, 1}
  BY <1>1, FileFacts DEF Swapped
<1>2. CASE k \notin {0, 1}
  <2>1. k \in 2..History
    BY <1>2, FileFacts, SMTT(30)
  <2> QED BY <2>1 DEF Swapped
<1> QED BY <1>1, <1>2

\* The three renames of a rollback.
LEMMA SwapStep ==
    ASSUME Shape, NEW h \in Clients, SwapWithPrev(h) PROVE Shape'
<1> DEFINE new == call[h].new
<1>0. /\ ShapeType /\ Progress(h) /\ call[h].pc \in Swap
      /\ base' = base /\ lock' = lock /\ UNCHANGED daemon
  BY DEF Shape, SwapWithPrev, Swap
<1>1. new \in Configs /\ new = base[Prev]
  BY <1>0 DEF Progress, Swap
<1>2. SUFFICES ASSUME NEW pc \in (Swap \cup Apply) \ {"swap1"}, Goto(h, pc),
                      NEW from \in File, NEW to \in File, files' = Move(files, from, to),
                      Whole', call'[h].pc = pc /\ call'[h].new = new => Progress(h)'
               PROVE  Shape'
  <2>1. CASE call[h].pc = "swap1"
    <3>1. files = base /\ files' = Move(files, Live, Tmp) /\ Goto(h, "swap2")
      BY <2>1, <1>0 DEF SwapWithPrev, Progress
    <3>2. Swapped(files', base', None, base'[Prev], base'[Live])
      BY <1>0, <3>1, FileFacts, SMTT(30) DEF Move, Swapped, ShapeType
    <3>3. call'[h].pc = "swap2" /\ call'[h].new = new => Progress(h)'
      BY <1>0, <1>1, <3>2 DEF Progress, Apply
    <3>4. Whole'
      <4>1. \A k \in 0..History : base'[k] # Torn
        BY <1>0 DEF Whole, Shape
      <4>2. None # Torn /\ new # Torn /\ base'[Live] # Torn /\ base'[Prev] # Torn
        BY <1>1, <4>1, FileFacts, SMTT(30)
      <4> QED BY <3>2, <4>1, <4>2, SwappedWhole DEF Whole
    <3> QED BY <1>2, <3>1, <3>3, <3>4, FileFacts, SMTT(30) DEF Swap
  <2>2. CASE call[h].pc = "swap2"
    <3>1. /\ Swapped(files, base, None, base[Prev], base[Live])
          /\ files' = Move(files, Prev, Live) /\ Goto(h, "swap3")
      BY <2>2, <1>0 DEF SwapWithPrev, Progress
    <3>2. Swapped(files', base', base'[Prev], None, base'[Live])
      <4>1. \A k \in File :
               files'[k] = IF k = 1 THEN None ELSE IF k = 0 THEN files[1] ELSE files[k]
        BY <1>0, <3>1, MoveFacts, FileFacts, SMTT(30)
      <4> QED BY <1>0, <3>1, <4>1, FileFacts, SMTT(30) DEF Swapped
    <3>3. call'[h].pc = "swap3" /\ call'[h].new = new => Progress(h)'
      BY <1>0, <1>1, <3>2 DEF Progress, Apply
    <3>4. Whole'
      <4>1. \A k \in 0..History : base'[k] # Torn
        BY <1>0 DEF Whole, Shape
      <4>2. None # Torn /\ new # Torn /\ base'[Live] # Torn /\ base'[Prev] # Torn
        BY <1>1, <4>1, FileFacts, SMTT(30)
      <4> QED BY <3>2, <4>1, <4>2, SwappedWhole DEF Whole
    <3> QED BY <1>2, <3>1, <3>3, <3>4, FileFacts, SMTT(30) DEF Swap
  <2>3. CASE call[h].pc = "swap3"
    <3>1. /\ Swapped(files, base, base[Prev], None, base[Live])
          /\ files' = Move(files, Tmp, Prev) /\ Goto(h, "chmod")
      BY <2>3, <1>0 DEF SwapWithPrev, Progress
    <3>2. Swapped(files', base', new, base'[Live], None)
      <4>1. \A k \in File :
               files'[k] = IF k = History + 1 THEN None
                           ELSE IF k = 1 THEN files[History + 1] ELSE files[k]
        BY <1>0, <3>1, MoveFacts, FileFacts, SMTT(30)
      <4> QED BY <1>0, <1>1, <3>1, <4>1, FileFacts, SMTT(30) DEF Swapped
    <3>3. call'[h].pc = "chmod" /\ call'[h].new = new => Progress(h)'
      BY <1>0, <1>1, <3>2 DEF Progress, Apply
    <3>4. Whole'
      <4>1. \A k \in 0..History : base'[k] # Torn
        BY <1>0 DEF Whole, Shape
      <4>2. None # Torn /\ new # Torn /\ base'[Live] # Torn /\ base'[Prev] # Torn
        BY <1>1, <4>1, FileFacts, SMTT(30)
      <4> QED BY <3>2, <4>1, <4>2, SwappedWhole DEF Whole
    <3> QED BY <1>2, <3>1, <3>3, <3>4, FileFacts, SMTT(30) DEF Apply
  <2> QED BY <1>0, <2>1, <2>2, <2>3 DEF Swap
<1>3. /\ call'[h].pc = pc /\ call'[h].new = new /\ call' \in [Clients -> Call]
      /\ \A c \in Clients \ {h} : call'[c] = call[c]
  BY <1>0, <1>2, GotoFacts DEF Pc
<1>4. ShapeType'
  <2>1. files' \in [File -> Configs \cup {None, Torn}]
    BY <1>0, <1>2 DEF Move, ShapeType
  <2> QED BY <1>0, <1>3, <2>1 DEF ShapeType, daemon
<1> QED BY <1>0, <1>2, <1>3, <1>4, HolderStep DEF Swap, Apply, daemon

\* The two halves of apply_config.
LEMMA ApplyStep ==
    ASSUME Shape, NEW h \in Clients, ApplyConfig(h) PROVE Shape'
<1> DEFINE new == call[h].new
<1>0. /\ ShapeType /\ Progress(h) /\ call[h].pc = "chmod"
      /\ base' = base /\ files' = files /\ cfg' = new
  BY DEF Shape, ApplyConfig
<1>1. new \in Configs
  BY <1>0 DEF Progress
<1>2. /\ call'[h].pc = "limits" /\ call'[h].new = new /\ call' \in [Clients -> Call]
      /\ \A c \in Clients \ {h} : call'[c] = call[c]
  BY <1>0, GotoFacts DEF ApplyConfig, Pc, Apply
<1>3. \/ PutDone(files, base, new, None)
      \/ Swapped(files, base, new, base[Live], None) /\ new = base[Prev]
  BY <1>0 DEF Progress, Apply
<1>4. Progress(h)'
  BY <1>0, <1>1, <1>2, <1>3 DEF Progress, Apply
<1>5. ShapeType'
  BY <1>0, <1>1, <1>2 DEF ApplyConfig, ShapeType
<1>6. Whole'
  BY <1>0 DEF Whole, Shape
<1> QED BY <1>0, <1>2, <1>4, <1>5, <1>6, HolderStep DEF ApplyConfig

LEMMA RebuildStep ==
    ASSUME Shape, NEW h \in Clients, RebuildLimiters(h) PROVE Shape'
<1>0. /\ ShapeType /\ Progress(h) /\ call[h].pc = "limits"
      /\ base' = base /\ files' = files /\ cfg' = cfg
      /\ limiter' = call[h].new
  BY DEF Shape, RebuildLimiters
<1>1. /\ lock = {h} /\ lock' = {}
      /\ \A c \in Clients \ {h} : call[c].pc \in {"idle", "admitted"}
  BY <1>0, HolderAlone DEF Shape, RebuildLimiters
<1>2. /\ call'[h] = Idle /\ \A c \in Clients \ {h} : call'[c] = call[c]
  BY <1>0 DEF RebuildLimiters, ShapeType
<1>3. call' \in [Clients -> Call]
  <2>1. Idle \in Call
    BY FileFacts, SMTT(30) DEF Idle, Call, Pc
  <2> QED BY <2>1, <1>0 DEF RebuildLimiters, ShapeType
<1>4. ShapeType'
  BY <1>0, <1>3 DEF RebuildLimiters, ShapeType
<1>5. Exclusive'
  BY <1>1, <1>2, SMTT(30) DEF Exclusive, Idle
<1>6. Settled'
  <2>1. up'
    BY <1>0 DEF Settled, Shape, RebuildLimiters
  <2> QED BY <1>0, <1>1, <2>1, FileFacts DEF Settled, Progress, Apply, PutDone, Swapped
<1>7. ASSUME NEW c \in Clients PROVE Progress(c)'
  <2>1. CASE c = h
    BY <2>1, <1>2, SMTT(30) DEF Progress, Idle, Apply
  <2>2. CASE c # h
    <3>1. call'[c] = call[c] /\ call[c].pc \in {"idle", "admitted"}
      BY <1>1, <1>2, <2>2
    <3>2. call[c].pc # "idle" => call[c].new \in Configs
      BY DEF Shape, Progress
    <3> QED BY <3>1, <3>2 DEF Progress, Apply
  <2> QED BY <2>1, <2>2
<1>8. Whole'
  BY <1>0 DEF Whole, Shape
<1> QED BY <1>4, <1>5, <1>6, <1>7, <1>8 DEF Shape

\* A step of a request that is not past write_lock, or of no request.
LEMMA OuterStep ==
    ASSUME Shape, ShapeType', lock' = lock, up,
           UNCHANGED <<files, base, cfg, limiter, up, faulted>>,
           NEW h, \A c \in Clients \ {h} : call'[c] = call[c],
           h \in Clients =>
              /\ call[h].pc \in {"idle", "admitted"}
              /\ call'[h].pc \in {"idle", "admitted"}
              /\ call'[h].pc # "idle" => call'[h].new \in Configs
    PROVE  Shape'
<1>1. Exclusive'
  BY DEF Shape, Exclusive
<1>2. Settled'
  BY DEF Shape, Settled
<1>3. ASSUME NEW c \in Clients PROVE Progress(c)'
  <2>1. CASE c = h
    BY <2>1 DEF Progress, Apply
  <2>2. CASE c # h
    <3>1. call'[c] = call[c] /\ Progress(c)
      BY <2>2 DEF Shape
    <3> QED BY <3>1 DEF Progress
  <2> QED BY <2>1, <2>2
<1>4. Whole'
  BY DEF Whole, Shape
<1> QED BY <1>1, <1>2, <1>3, <1>4 DEF Shape

LEMMA ConfigPutStep ==
    ASSUME Shape, NEW h \in Clients, ConfigPut(h) PROVE Shape'
<1>0. ShapeType /\ call[h] = Idle
  BY DEF Shape, ConfigPut
<1>1. PICK new \in Configs :
         call' = [call EXCEPT ![h] = [pc |-> "admitted", new |-> new, slot |-> 0]]
  BY DEF ConfigPut
<1>2. [pc |-> "admitted", new |-> new, slot |-> 0] \in Call
  BY FileFacts, SMTT(30) DEF Call, Pc, Put
<1>3. /\ call' \in [Clients -> Call] /\ \A c \in Clients \ {h} : call'[c] = call[c]
      /\ call'[h].pc = "admitted" /\ call'[h].new = new
  BY <1>0, <1>1, <1>2 DEF ShapeType
<1>4. ShapeType'
  BY <1>0, <1>3 DEF ConfigPut, ShapeType, daemon
<1>5. call[h].pc = "idle"
  BY <1>0, SMTT(30) DEF Idle
<1> QED BY <1>3, <1>4, <1>5, OuterStep DEF ConfigPut, daemon

\* Taking write_lock: the request becomes its only holder.
LEMMA LockStep ==
    ASSUME Shape, NEW h \in Clients, up, lock = {}, lock' = {h}, base' = files,
           UNCHANGED <<files, daemon>>, ShapeType', Progress(h)',
           call'[h].pc \notin {"idle", "admitted"},
           \A c \in Clients \ {h} : call'[c] = call[c]
    PROVE  Shape'
<1>1. \A c \in Clients : call[c].pc \in {"idle", "admitted"}
  BY DEF Shape, Exclusive
<1>2. Exclusive'
  BY <1>1 DEF Exclusive
<1>3. Settled'
  BY DEF Shape, Settled, ShapeType, daemon
<1>4. ASSUME NEW c \in Clients, c # h PROVE Progress(c)'
  <2>1. call'[c] = call[c] /\ Progress(c)
    BY <1>4 DEF Shape
  <2> QED BY <1>1, <2>1 DEF Progress, Apply
<1>5. Whole'
  BY DEF Whole, Shape
<1> QED BY <1>2, <1>3, <1>4, <1>5 DEF Shape

LEMMA LockWriteStep ==
    ASSUME Shape, NEW h \in Clients, LockWrite(h) PROVE Shape'
<1>0. ShapeType /\ Progress(h) /\ call[h].pc = "admitted"
  BY DEF Shape, LockWrite
<1>1. /\ call'[h].pc = "write" /\ call'[h].new = call[h].new
      /\ call' \in [Clients -> Call]
      /\ \A c \in Clients \ {h} : call'[c] = call[c]
  BY <1>0, GotoFacts DEF LockWrite, Pc, Put
<1>2. ShapeType'
  BY <1>0, <1>1 DEF LockWrite, ShapeType, daemon
<1>3. Progress(h)'
  BY <1>0, <1>1 DEF LockWrite, Progress, Apply
<1>4. up
  BY <1>0 DEF Shape, Settled
<1> QED BY <1>1, <1>2, <1>3, <1>4, LockStep DEF LockWrite

LEMMA RollbackStep ==
    ASSUME Shape, NEW h \in Clients, ConfigRollback(h) PROVE Shape'
<1> DEFINE rec == [pc |-> "swap1", new |-> files[Prev], slot |-> 0]
<1>0. ShapeType /\ files[Prev] \in Configs
  BY DEF Shape, ShapeType, ConfigRollback
<1>1. rec \in Call
  BY <1>0, FileFacts, SMTT(30) DEF Call, Pc, Swap
<1>2. /\ call' \in [Clients -> Call] /\ \A c \in Clients \ {h} : call'[c] = call[c]
      /\ call'[h] = rec
  BY <1>0, <1>1 DEF ShapeType, ConfigRollback
<1>3. call'[h].pc = "swap1" /\ call'[h].new = files[Prev]
  BY <1>2, SMTT(30)
<1>4. ShapeType'
  BY <1>0, <1>2 DEF ConfigRollback, ShapeType, daemon
<1>5. Progress(h)'
  BY <1>0, <1>3 DEF ConfigRollback, Progress, Apply
<1> QED BY <1>2, <1>3, <1>4, <1>5, LockStep DEF ConfigRollback

\* A failed operation releases the lock with the files as they are.
LEMMA FailsStep ==
    ASSUME Shape, NEW h \in Clients, Fails(h) PROVE Shape'
<1>0. /\ ShapeType /\ call[h].pc \notin {"idle", "admitted"}
      /\ base' = base /\ cfg' = cfg /\ valid' = valid /\ up' = up /\ faulted'
  BY DEF Shape, Fails, Swap
<1>1. /\ lock = {h} /\ lock' = {} /\ up
      /\ \A c \in Clients \ {h} : call[c].pc \in {"idle", "admitted"}
  BY <1>0, HolderAlone DEF Shape, Settled, Fails
<1>2. call'[h] = Idle /\ \A c \in Clients \ {h} : call'[c] = call[c]
  BY <1>0 DEF Fails, ShapeType
<1>3. ShapeType' /\ Whole'
  <2>1. Idle \in Call
    BY FileFacts, SMTT(30) DEF Idle, Call, Pc
  <2>2. call' \in [Clients -> Call]
    BY <2>1, <1>0 DEF Fails, ShapeType
  <2>3. files' = files \/ files' = [files EXCEPT ![Tmp] = Torn]
    BY DEF Fails
  <2>4. files' \in [File -> Configs \cup {None, Torn}] /\ Whole'
    BY <1>0, <2>3, FileFacts, SMTT(30) DEF ShapeType, Whole, Shape
  <2> QED BY <1>0, <2>2, <2>4 DEF ShapeType
<1>4. Exclusive' /\ Settled'
  <2>1. \A c \in Clients : call'[c].pc \in {"idle", "admitted"}
    BY <1>1, <1>2, SMTT(30) DEF Idle
  <2>2. Exclusive'
    BY <1>1, <2>1 DEF Exclusive
  <2> QED BY <1>0, <1>1, <2>2 DEF Settled
<1>5. ASSUME NEW c \in Clients PROVE Progress(c)'
  <2>1. CASE c = h
    BY <2>1, <1>2, SMTT(30) DEF Progress, Idle, Apply
  <2>2. CASE c # h
    <3>1. call'[c] = call[c] /\ call[c].pc \in {"idle", "admitted"}
      BY <1>1, <1>2, <2>2
    <3>2. call[c].pc # "idle" => call[c].new \in Configs
      BY DEF Shape, Progress
    <3> QED BY <3>1, <3>2 DEF Progress, Apply
  <2> QED BY <2>1, <2>2
<1> QED BY <1>3, <1>4, <1>5 DEF Shape

\* With no request in flight the invariant says little: the types, that no
\* file but the scratch one is partial, and what Settled says of a running
\* daemon.
LEMMA QuietStep ==
    ASSUME ShapeType', Whole', Settled', lock' = {},
           \A c \in Clients : call'[c].pc = "idle"
    PROVE  Shape'
BY DEF Shape, Exclusive, Progress, Apply

LEMMA StopStep ==
    ASSUME Shape, Crash \/ Start \/ \E c \in Configs : Edit(c) PROVE Shape'
<1>0. ShapeType /\ Whole
  BY DEF Shape
<1>1. CASE Crash
  <2>1. Idle \in Call /\ Idle.pc = "idle"
    BY FileFacts, SMTT(30) DEF Idle, Call, Pc
  <2>2. /\ call' = [c \in Clients |-> Idle] /\ base' = base /\ cfg' = cfg
        /\ valid' = valid /\ up' = FALSE /\ lock' = {}
        /\ files' = files \/ files' = [files EXCEPT ![Tmp] = Torn]
    BY <1>1 DEF Crash
  <2>3. ShapeType' /\ Whole'
    BY <1>0, <2>1, <2>2, FileFacts, SMTT(30) DEF ShapeType, Whole
  <2> QED BY <2>1, <2>2, <2>3, QuietStep DEF Settled
<1>2. ASSUME ~up PROVE lock = {} /\ \A c \in Clients : call[c].pc = "idle"
  BY <1>2 DEF Shape, Settled
<1>3. CASE Start
  <2>1. /\ UNCHANGED <<files, lock, call, valid>> /\ ~up /\ base' = files
        /\ cfg' = files[Live] /\ limiter' = files[Live] /\ files[Live] \in Configs
    BY <1>0, <1>3 DEF Start, ShapeType
  <2>2. ShapeType' /\ Whole' /\ Settled'
    BY <1>0, <1>2, <2>1, FileFacts DEF ShapeType, Whole, Settled
  <2> QED BY <1>2, <2>1, <2>2, QuietStep
<1>4. ASSUME NEW c \in Configs, Edit(c) PROVE Shape'
  <2>1. /\ UNCHANGED <<lock, call, base, cfg, valid, up>> /\ ~up
        /\ files' = [files EXCEPT ![Live] = c]
    BY <1>4 DEF Edit, daemon
  <2>2. ShapeType' /\ Whole' /\ Settled'
    BY <1>0, <1>2, <2>1, FileFacts, SMTT(30) DEF ShapeType, Whole, Settled
  <2> QED BY <1>2, <2>1, <2>2, QuietStep
<1> QED BY <1>1, <1>3, <1>4

\* Every step preserves the invariant.
LEMMA ShapeNext == Shape /\ [Next]_vars => Shape'
<1> SUFFICES ASSUME Shape, [Next]_vars PROVE Shape'
  OBVIOUS
<1>1. ASSUME NEW h \in Clients, Handler(h) PROVE Shape'
  <2>1. CASE ConfigPut(h) \/ LockWrite(h) \/ WriteTmp(h) \/ Rotate(h) \/ Replace(h)
             \/ Install(h)
    BY <2>1, ConfigPutStep, LockWriteStep, WriteTmpStep, RotateStep, ReplaceStep,
       InstallStep
  <2>2. CASE ConfigRollback(h) \/ SwapWithPrev(h) \/ ApplyConfig(h)
             \/ RebuildLimiters(h) \/ Fails(h)
    BY <2>2, RollbackStep, SwapStep, ApplyStep, RebuildStep, FailsStep
  <2> QED BY <1>1, <2>1, <2>2 DEF Handler
<1>2. CASE EnvDrift \/ RespawnPlugin \/ UNCHANGED vars
  <2>1. /\ UNCHANGED <<files, base, lock, call, cfg, limiter, up, faulted>>
        /\ valid' \subseteq Configs
    BY <1>2 DEF EnvDrift, RespawnPlugin, vars, ShapeType, Shape
  <2>2. ShapeType'
    BY <2>1 DEF ShapeType, Shape
  <2> QED BY <2>1, <2>2 DEF Shape, Whole, Exclusive, Settled, Progress
<1> QED BY <1>1, <1>2, StopStep DEF Next

LEMMA ShapeHolds == Spec => []Shape
BY ShapeInit, ShapeNext, PTL DEF Spec

\* Between requests disk, memory and limiters agree, for any number of
\* concurrent PUTs and rollbacks (config_put, config_rollback,
\* apply_config), across restarts and until a file operation fails.
THEOREM DiskMatchesMemory == Spec => []DiskIsMemory
<1>1. Shape => DiskIsMemory
  BY DEF Shape, Settled, DiskIsMemory
<1> QED BY <1>1, ShapeHolds, PTL

\* Whatever step a stop or a failed operation hits, the configuration path
\* has the old or the new document whole, or is missing in one of the two
\* gaps between renames.
THEOREM LiveStaysWhole == Spec => []LiveIsWhole
<1>1. Shape => LiveIsWhole
  <2> SUFFICES ASSUME Shape PROVE LiveIsWhole
    OBVIOUS
  <2>1. \A f \in File \ {Tmp} : files[f] # Torn
    BY FileFacts, SMTT(30) DEF Shape, Whole
  <2>2. ASSUME NEW c \in lock
        PROVE  /\ files[Live] = None =>
                     call[c].pc \in {"install", "swap2"} \/ base[Live] = None
               /\ files[Live] \in {base[Live], call[c].new, None}
    <3>1. c \in Clients /\ call[c].pc \in Pc \ {"idle", "admitted"} /\ Progress(c)
      BY <2>2, SMTT(30) DEF Shape, Exclusive, ShapeType, Call
    <3> QED BY <3>1, FileFacts DEF Progress, Rotated, PutDone, Swapped, Pc, Put, Swap, Apply
  <2> QED BY <2>1, <2>2 DEF LiveIsWhole
<1> QED BY <1>1, ShapeHolds, PTL

\* The parts of the type invariant that Shape does not mention.
DaemonType ==
    /\ limiter \in Configs /\ up \in BOOLEAN /\ faulted \in BOOLEAN
    /\ crashes \in 0..CrashBound /\ lived \subseteq Configs /\ reported \in BOOLEAN

\* A document is in force or in the limiters only if the request that put it
\* there had read it as a configuration.
LEMMA DaemonTypeStep == Shape /\ DaemonType /\ [Next]_vars => DaemonType'
<1> SUFFICES ASSUME Shape, DaemonType, [Next]_vars PROVE DaemonType'
  OBVIOUS
<1> USE DEF DaemonType
<1>0. ShapeType
  BY DEF Shape
<1>1. ASSUME NEW h \in Clients, ApplyConfig(h) \/ RebuildLimiters(h)
      PROVE  DaemonType'
  <2>1. call[h].new \in Configs
    BY <1>1 DEF Shape, Progress, ApplyConfig, RebuildLimiters, Apply
  <2> QED BY <1>1, <2>1 DEF ApplyConfig, RebuildLimiters, history
<1>2. ASSUME NEW h \in Clients, WriteTmp(h) PROVE DaemonType'
  BY <1>2 DEF WriteTmp, daemon
<1>3. ASSUME NEW h \in Clients, Fails(h) PROVE DaemonType'
  BY <1>3 DEF Fails, history
<1>4. ASSUME NEW h \in Clients,
             \/ ConfigPut(h) \/ LockWrite(h) \/ Rotate(h) \/ Replace(h) \/ Install(h)
             \/ ConfigRollback(h) \/ SwapWithPrev(h)
      PROVE  DaemonType'
  <2>1. UNCHANGED <<daemon, history>>
    BY <1>4 DEF ConfigPut, LockWrite, Rotate, Replace, Install, ConfigRollback,
       SwapWithPrev
  <2> QED BY <2>1 DEF daemon, history
<1>5. CASE Crash
  <2>1. crashes' \in 0..CrashBound
    BY <1>5, ConfigAssumption, SMTT(30) DEF Crash
  <2>2. UNCHANGED <<limiter, faulted, lived, reported>> /\ up' = FALSE
    BY <1>5 DEF Crash, history
  <2> QED BY <2>1, <2>2
<1>6. CASE Start
  BY <1>0, <1>6 DEF Start, ShapeType
<1>7. CASE EnvDrift \/ RespawnPlugin \/ UNCHANGED vars \/ \E c \in Configs : Edit(c)
  BY <1>7 DEF EnvDrift, RespawnPlugin, vars, Edit, daemon, history
<1> QED
  BY <1>1, <1>2, <1>3, <1>4, <1>5, <1>6, <1>7 DEF Next, Handler

\* The store's state keeps its shape: files hold documents, nothing or a
\* partial scratch file, and what is in force is always a configuration that
\* was accepted.
THEOREM StoreTypeCorrect == Spec => []TypeOK
<1>1. Init => DaemonType
  <2>1. 0 \in 0..CrashBound
    BY ConfigAssumption, SMTT(30)
  <2> QED BY <2>1 DEF Init, DaemonType
<1>2. Shape /\ DaemonType => TypeOK
  BY DEF Shape, ShapeType, DaemonType, Exclusive, TypeOK
<1> QED BY <1>1, <1>2, DaemonTypeStep, ShapeHolds, PTL DEF Spec

-----------------------------------------------------------------------------
(***************************************************************************)
(* From the inductive invariant above: the files implement ConfigHistory.  *)
(* And two results with invariants of their own, on pinned settings and on *)
(* restart_required.                                                       *)
(***************************************************************************)

\* The rename sequences of PUT and rollback implement the promised history
\* for every History: write_lock makes each handler one abstract step, taken
\* when it releases the lock, and all its other steps invisible.  A stop and
\* a failed operation are Suspend, a start is Resume.
THEOREM HistoryImplemented == Spec => ImplementsHistory
<1> DEFINE srv == Serving
           cur == IF ~Serving THEN None ELSE IF lock = {} THEN files[Live] ELSE base[Live]
           rev == [n \in 1..History |->
                     IF ~Serving THEN None ELSE IF lock = {} THEN files[n] ELSE base[n]]
<1>1. ASSUME Init PROVE Promise!Init
  <2>1. Serving = TRUE /\ lock = {}
    BY <1>1 DEF Init, Serving
  <2>2. files[Live] \in Configs /\ \A n \in 1..History : files[n] = None
    BY <1>1, FileFacts, SMTT(30) DEF Init
  <2> QED
    BY <2>1, <2>2 DEF Promise!Init, Promise!Slots
<1>2. ASSUME Shape, [Next]_vars, Serving, ~Serving' PROVE Promise!Suspend
  BY <1>2, SMTT(30) DEF Promise!Suspend, Promise!Slots
<1>3. ASSUME Shape, [Next]_vars, ~Serving, Serving' PROVE Promise!Resume
  <2>1. Start
    <3>1. ASSUME UNCHANGED <<up, faulted>> \/ ~up' \/ faulted' PROVE FALSE
      BY <1>3, <3>1 DEF Serving
    <3>2. ASSUME NEW h \in Clients, Handler(h) PROVE FALSE
      <4>1. CASE ConfigPut(h) \/ LockWrite(h) \/ WriteTmp(h) \/ Rotate(h) \/ Replace(h)
                 \/ Install(h) \/ ConfigRollback(h) \/ SwapWithPrev(h)
        BY <3>1, <4>1 DEF daemon, ConfigPut, LockWrite, WriteTmp, Rotate, Replace,
           Install, ConfigRollback, SwapWithPrev
      <4>2. CASE ApplyConfig(h) \/ RebuildLimiters(h) \/ Fails(h)
        BY <3>1, <4>2 DEF ApplyConfig, RebuildLimiters, Fails
      <4> QED BY <3>2, <4>1, <4>2 DEF Handler
    <3>3. CASE EnvDrift \/ RespawnPlugin \/ Crash \/ UNCHANGED vars
      BY <3>1, <3>3 DEF EnvDrift, RespawnPlugin, Crash, vars
    <3>4. ASSUME NEW c \in Configs, Edit(c) PROVE FALSE
      BY <3>1, <3>4 DEF Edit, daemon
    <3> QED BY <1>3, <3>2, <3>3, <3>4 DEF Next
  <2>2. /\ lock = {} /\ lock' = {} /\ files' = files /\ files[Live] \in Configs
    BY <1>3, <2>1 DEF Start, Shape, ShapeType, Settled
  <2>3. \A n \in 1..History : files[n] \in Configs \cup {None}
    BY <1>3, FileFacts, SMTT(30) DEF Shape, ShapeType, Whole
  <2>4. rev' = [n \in 1..History |-> files[n]] /\ cur' = files[Live]
    BY <1>3, <2>2
  <2>5. rev' \in [1..History -> Configs \cup {None}] /\ cur' \in Configs
    BY <2>2, <2>3, <2>4
  <2> QED BY <1>3, <2>5 DEF Promise!Resume, Promise!Slots
<1>4. ASSUME Shape, [Next]_vars, Serving, Serving', ~UNCHANGED <<cur, rev>>
      PROVE  Promise!Next
  <2>0. ShapeType /\ up /\ ~faulted /\ up' /\ ~faulted'
    BY <1>4 DEF Shape, Serving
  <2>1. ASSUME lock' = lock, base' = base, lock # {} \/ files' = files PROVE FALSE
    BY <1>4, <2>1
  <2>2. ASSUME lock = {}, lock' # {}, base' = files PROVE FALSE
    BY <1>4, <2>2
  <2>3. PICK h \in Clients : RebuildLimiters(h)
    <3>1. ASSUME NEW h \in Clients, Handler(h), ~RebuildLimiters(h) PROVE FALSE
      <4>1. CASE ConfigPut(h)
        BY <4>1, <2>1 DEF ConfigPut
      <4>2. CASE LockWrite(h) \/ ConfigRollback(h)
        BY <4>2, <2>2 DEF LockWrite, ConfigRollback
      <4>3. CASE WriteTmp(h) \/ Rotate(h) \/ Replace(h) \/ Install(h) \/ SwapWithPrev(h)
                 \/ ApplyConfig(h)
        <5>1. call[h].pc \notin {"idle", "admitted"} /\ lock' = lock /\ base' = base
          BY <4>3 DEF WriteTmp, Rotate, Replace, Install, SwapWithPrev, ApplyConfig
        <5> QED BY <5>1, <2>1, <1>4, HolderAlone DEF Shape
      <4>4. CASE Fails(h)
        BY <2>0, <4>4 DEF Fails
      <4> QED BY <3>1, <4>1, <4>2, <4>3, <4>4 DEF Handler
    <3>2. CASE EnvDrift \/ RespawnPlugin \/ UNCHANGED vars
      BY <3>2, <2>1 DEF EnvDrift, RespawnPlugin, vars
    <3>3. CASE Crash \/ Start \/ \E c \in Configs : Edit(c)
      BY <2>0, <3>3 DEF Crash, Start, Edit
    <3> QED BY <1>4, <3>1, <3>2, <3>3 DEF Next
  <2>4. /\ call[h].pc = "limits" /\ lock = {h} /\ lock' = {}
        /\ files' = files /\ Progress(h)
    BY <1>4, <2>3, HolderAlone DEF RebuildLimiters, Shape
  <2> DEFINE new == call[h].new
  <2>5. /\ cur = base[0] /\ cur' = files[0]
        /\ rev = [n \in 1..History |-> base[n]] /\ rev' = [n \in 1..History |-> files[n]]
    BY <1>4, <2>4, FileFacts
  <2>6. CASE PutDone(files, base, new, None)
    <3>1. cur' = new /\ new \in Configs
      BY <2>4, <2>5, <2>6, FileFacts DEF PutDone, Progress
    <3>2. \A n \in 1..History : files[n] = IF n = 1 THEN base[0] ELSE base[n - 1]
      BY <2>6, FileFacts, SMTT(30) DEF PutDone
    <3>3. rev' = [n \in 1..History |-> IF n = 1 THEN cur ELSE rev[n - 1]]
      <4>1. \A n \in 1..History : n # 1 => n - 1 \in 1..History
        BY FileFacts, SMTT(30)
      <4> HIDE DEF cur, rev
      <4>2. \A n \in 1..History : files[n] = IF n = 1 THEN cur ELSE rev[n - 1]
        BY <2>5, <3>2, <4>1
      <4> QED BY <2>5, <4>2
    <3>4. \E c \in Configs : Promise!Put(c)
      BY <1>4, <3>1, <3>3 DEF Promise!Put, Promise!Slots
    <3> QED BY <3>4 DEF Promise!Next
  <2>7. CASE Swapped(files, base, new, base[Live], None) /\ new = base[Prev]
    <3>1. cur' = base[1] /\ base[1] # None
      BY <2>4, <2>5, <2>7, FileFacts DEF Swapped, Progress
    <3>2. \A n \in 1..History : files[n] = IF n = 1 THEN base[0] ELSE base[n]
      <4> HIDE DEF new
      <4>1. files[1] = base[0] /\ \A n \in 2..History : files[n] = base[n]
        BY <2>7, FileFacts DEF Swapped
      <4> QED BY <4>1, FileFacts, SMTT(30)
    <3>3. rev' = [rev EXCEPT ![1] = cur] /\ rev[1] = base[1]
      <4> HIDE DEF cur, rev
      <4>1. 1 \in 1..History /\ rev[1] = base[1]
        BY <2>5, FileFacts, SMTT(30)
      <4>2. \A n \in 1..History : rev'[n] = [rev EXCEPT ![1] = cur][n]
        BY <2>5, <3>2, <4>1
      <4> QED BY <2>5, <4>1, <4>2
    <3>4. Promise!Rollback
      BY <1>4, <3>1, <3>3 DEF Promise!Rollback, Promise!Slots
    <3> QED BY <3>4 DEF Promise!Next
  <2> QED BY <2>4, <2>6, <2>7 DEF Progress, Apply
<1>5. Shape /\ [Next]_vars => [Promise!Next]_<<srv, cur, rev>>
  <2> SUFFICES ASSUME Shape, [Next]_vars, ~UNCHANGED <<srv, cur, rev>>
               PROVE  Promise!Next
    OBVIOUS
  <2>1. CASE ~Serving /\ ~Serving'
    <3>1. srv' = srv /\ cur' = cur
      BY <2>1 DEF Serving
    <3>2. rev' = rev
      BY <2>1
    <3> QED BY <3>1, <3>2
  <2>2. CASE Serving /\ Serving'
    <3>1. srv' = srv
      BY <2>2 DEF Serving
    <3> QED BY <1>4, <2>2, <3>1
  <2> QED BY <1>2, <1>3, <2>1, <2>2 DEF Promise!Next
<1> QED BY <1>1, <1>5, ShapeHolds, PTL DEF Spec, ImplementsHistory, Promise!Spec

(***************************************************************************)
(* Pinned settings, with faults, stops and operator edits.                 *)
(***************************************************************************)
PinType ==
    /\ files \in [File -> Configs \cup {None, Torn}]
    /\ call \in [Clients -> Call]
    /\ \A c \in Clients : call[c].pc # "idle" => call[c].new \in Configs
    /\ cfg \in Configs /\ valid \subseteq Configs

\* PinnedFromDisk, and the same for every document in flight.
PinInv ==
    /\ PinType
    /\ PinnedFromDisk
    /\ \A c \in Clients : call[c].new \in Configs => Pinned[call[c].new] \subseteq placed

\* Every file after a handler's step holds something that was in a file
\* before it, the document of the request, or nothing whole.
LEMMA FilesFrom ==
    ASSUME PinType, NEW h \in Clients, NEW from \in File, NEW to \in File, NEW x,
           x \in {call[h].new, None, Torn},
           \/ files' = files
           \/ files' = [files EXCEPT ![to] = x]
           \/ files' = [files EXCEPT ![to] = x, ![from] = None]
           \/ files' = Move(files, from, to)
    PROVE  /\ files' \in [File -> Configs \cup {None, Torn}]
           /\ \A f \in File : files'[f] \in Configs =>
                 files'[f] = call[h].new \/ \E g \in File : files'[f] = files[g]
<1>1. call[h].new \in Configs \cup {None}
  BY DEF PinType, Call
<1> QED BY <1>1, FileFacts DEF PinType, Move

\* The request record a handler step leaves: typed, and carrying the same
\* document, none, or one whose pinned settings were placed by the operator.
LEMMA CallFrom ==
    ASSUME PinInv, NEW h \in Clients, Handler(h)
    PROVE  /\ call' \in [Clients -> Call]
           /\ \A c \in Clients :
                 /\ call'[c].pc # "idle" => call'[c].new \in Configs
                 /\ call'[c].new \in Configs => Pinned[call'[c].new] \subseteq placed
<1>0. PinType /\ call[h] \in Call
  BY DEF PinInv, PinType
<1>1. ASSUME NEW pc \in Pc, Goto(h, pc)
      PROVE  \E rec \in Call : call' = [call EXCEPT ![h] = rec] /\ rec.new = call[h].new
  <2> DEFINE rec == [call[h] EXCEPT !.pc = pc]
  <2>1. rec \in Call /\ rec.new = call[h].new
    BY <1>0 DEF Call
  <2>2. call' = [call EXCEPT ![h] = rec]
    BY <1>1 DEF Goto
  <2> QED BY <2>1, <2>2
<1>2. \E rec \in Call :
         /\ call' = [call EXCEPT ![h] = rec]
         /\ rec.pc # "idle" => rec.new \in Configs
         /\ \/ rec.new \in {call[h].new, None}
            \/ rec.new \in Configs /\ Pinned[rec.new] \subseteq placed
  <2>1. CASE ConfigPut(h)
    <3>1. PICK new \in Configs : /\ Admissible(new)
             /\ call' = [call EXCEPT ![h] = [pc |-> "admitted", new |-> new, slot |-> 0]]
      BY <2>1 DEF ConfigPut
    <3>2. Pinned[new] \subseteq placed
      BY <3>1 DEF Admissible, PinInv, PinnedFromDisk
    <3>3. [pc |-> "admitted", new |-> new, slot |-> 0] \in Call
      BY FileFacts, SMTT(30) DEF Call, Pc, Put
    <3> QED BY <3>1, <3>2, <3>3
  <2>2. CASE ConfigRollback(h)
    <3>1. /\ call' = [call EXCEPT ![h] = [pc |-> "swap1", new |-> files[Prev], slot |-> 0]]
          /\ files[Prev] \in Configs /\ Prev \in File
      BY <2>2, <1>0, FileFacts, SMTT(30) DEF ConfigRollback, PinType
    <3>2. Pinned[files[Prev]] \subseteq placed
      BY <3>1 DEF PinInv, PinnedFromDisk
    <3>3. [pc |-> "swap1", new |-> files[Prev], slot |-> 0] \in Call
      BY <3>1, FileFacts, SMTT(30) DEF Call, Pc, Swap
    <3> QED BY <3>1, <3>2, <3>3
  <2>3. CASE WriteTmp(h)
    <3> DEFINE rec == [call[h] EXCEPT !.pc = "rotate", !.slot = History - 1]
    <3>1. "rotate" \in Pc /\ History - 1 \in 0..(History - 1)
      BY FileFacts, SMTT(30) DEF Pc, Put
    <3>2. rec \in Call /\ rec.new = call[h].new
      BY <1>0, <3>1 DEF Call
    <3>3. call[h].new \in Configs
      BY <1>0, <2>3 DEF WriteTmp, PinType
    <3> QED BY <2>3, <3>2, <3>3 DEF WriteTmp
  <2>4. CASE Rotate(h) /\ call[h].slot # 0
    <3> DEFINE rec == [call[h] EXCEPT !.slot = call[h].slot - 1]
    <3>1. rec \in Call /\ rec.new = call[h].new
      <4>1. call[h].slot - 1 \in 0..(History - 1)
        BY <1>0, <2>4, FileFacts, SMTT(30) DEF Call
      <4> QED BY <1>0, <4>1 DEF Call
    <3>2. call[h].new \in Configs
      BY <1>0, <2>4 DEF Rotate, PinType
    <3> QED BY <2>4, <3>1, <3>2 DEF Rotate
  <2>5. CASE Fails(h) \/ RebuildLimiters(h)
    <3>1. Idle \in Call /\ Idle.new = None /\ Idle.pc = "idle"
      BY FileFacts, SMTT(30) DEF Idle, Call, Pc
    <3> QED BY <2>5, <3>1 DEF Fails, RebuildLimiters
  <2>6. CASE LockWrite(h) \/ (Rotate(h) /\ call[h].slot = 0) \/ Replace(h) \/ Install(h)
             \/ SwapWithPrev(h) \/ ApplyConfig(h)
    <3>1. call[h].pc # "idle" /\ \E pc \in Pc : Goto(h, pc)
      BY <2>6 DEF LockWrite, Rotate, Replace, Install, SwapWithPrev, ApplyConfig,
                  Pc, Put, Swap, Apply
    <3> QED BY <1>0, <3>1, <1>1 DEF PinType
  <2> QED BY <2>1, <2>2, <2>3, <2>4, <2>5, <2>6 DEF Handler
<1>3. PICK rec \in Call :
         /\ call' = [call EXCEPT ![h] = rec]
         /\ rec.pc # "idle" => rec.new \in Configs
         /\ \/ rec.new \in {call[h].new, None}
            \/ rec.new \in Configs /\ Pinned[rec.new] \subseteq placed
  BY <1>2
<1>4. call' \in [Clients -> Call] /\ \A c \in Clients : call'[c] = IF c = h THEN rec ELSE call[c]
  BY <1>0, <1>3 DEF PinType
<1> QED BY <1>0, <1>3, <1>4, FileFacts DEF PinInv, PinType

\* No sequence of PUTs, rollbacks, failures, stops and restarts introduces a
\* pinned setting (rejected_command_changes, rejected_secret_ref_changes):
\* the admission check compares with the configuration in force, whose
\* settings were placed, and every later step moves whole documents around.
THEOREM PinnedOnlyByOperator == Spec => []PinnedFromDisk
<1>1. Init => PinInv
  <2> SUFFICES ASSUME Init PROVE PinInv
    OBVIOUS
  <2>1. Idle \in Call /\ Idle.new = None /\ Idle.pc = "idle"
    BY FileFacts, SMTT(30) DEF Idle, Call, Pc
  <2>2. PinType
    BY <2>1, FileFacts DEF Init, PinType
  <2>3. PinnedFromDisk
    BY FileFacts DEF Init, PinnedFromDisk
  <2> QED BY <2>1, <2>2, <2>3, FileFacts DEF Init, PinInv
<1>2. PinInv /\ [Next]_vars => PinInv'
  <2> SUFFICES ASSUME PinInv, [Next]_vars PROVE PinInv'
    OBVIOUS
  <2>0. PinType /\ PinnedFromDisk
    BY DEF PinInv
  <2>1. ASSUME NEW h \in Clients, Handler(h) PROVE PinInv'
    <3>1. placed' = placed /\ valid' = valid /\ cfg' \in {cfg, call[h].new}
      BY <2>1 DEF Handler, ConfigPut, LockWrite, WriteTmp, Rotate, Replace, Install,
                  ConfigRollback, SwapWithPrev, ApplyConfig, RebuildLimiters, Fails,
                  daemon, history
    <3>2. /\ files' \in [File -> Configs \cup {None, Torn}]
          /\ \A f \in File : files'[f] \in Configs =>
                files'[f] = call[h].new \/ \E g \in File : files'[f] = files[g]
      <4>1. call[h].new \in {call[h].new, None, Torn} /\ Torn \in {call[h].new, None, Torn}
            /\ Live \in File /\ Prev \in File /\ Tmp \in File /\ History \in File
        BY FileFacts, SMTT(30)
      <4>2. CASE ConfigPut(h) \/ LockWrite(h) \/ ConfigRollback(h) \/ ApplyConfig(h)
                 \/ RebuildLimiters(h)
        BY <2>0, <4>1, <4>2, FilesFrom
           DEF ConfigPut, LockWrite, ConfigRollback, ApplyConfig, RebuildLimiters
      <4>3. CASE WriteTmp(h)
        BY <2>0, <4>1, <4>3, FilesFrom DEF WriteTmp
      <4>4. CASE Rotate(h)
        <5>1. call[h].slot \in File /\ call[h].slot + 1 \in File
          BY <2>0, FileFacts, SMTT(30) DEF PinType, Call
        <5> QED BY <2>0, <4>1, <4>4, <5>1, FilesFrom DEF Rotate
      <4>5. CASE Replace(h) \/ Install(h) \/ SwapWithPrev(h)
        BY <2>0, <4>1, <4>5, FilesFrom DEF Replace, Install, SwapWithPrev
      <4>6. CASE Fails(h)
        BY <2>0, <4>1, <4>6, FilesFrom DEF Fails
      <4> QED BY <2>1, <4>2, <4>3, <4>4, <4>5, <4>6 DEF Handler
    <3>3. cfg' \in Configs /\ Pinned[cfg'] \subseteq placed
      <4>1. CASE cfg' = cfg
        BY <2>0, <4>1 DEF PinType, PinnedFromDisk
      <4>2. CASE ApplyConfig(h)
        <5>1. cfg' = call[h].new /\ call[h].new \in Configs
          BY <2>0, <4>2 DEF ApplyConfig, PinType
        <5> QED BY <5>1 DEF PinInv
      <4>3. cfg' = cfg \/ ApplyConfig(h)
        BY <2>1 DEF Handler, ConfigPut, LockWrite, WriteTmp, Rotate, Replace, Install,
                    ConfigRollback, SwapWithPrev, RebuildLimiters, Fails, daemon
      <4> QED BY <4>1, <4>2, <4>3
    <3>4. PinnedFromDisk'
      BY <3>1, <3>2, <3>3 DEF PinInv, PinnedFromDisk
    <3>5. PinType'
      BY <2>0, <2>1, <3>1, <3>2, <3>3, CallFrom DEF PinType
    <3> QED BY <2>1, <3>1, <3>4, <3>5, CallFrom DEF PinInv
  <2>2. CASE EnvDrift \/ RespawnPlugin \/ UNCHANGED vars
    <3>1. UNCHANGED <<files, call, cfg, placed>> /\ valid' \subseteq Configs
      BY <2>0, <2>2 DEF EnvDrift, RespawnPlugin, vars, PinType, history
    <3> QED BY <3>1 DEF PinInv, PinType, PinnedFromDisk
  <2>3. CASE Crash
    <3>1. Idle \in Call /\ Idle.new = None
          /\ Idle.pc = "idle"
      BY FileFacts, SMTT(30) DEF Idle, Call, Pc
    <3>2. /\ call' = [c \in Clients |-> Idle] /\ UNCHANGED <<cfg, valid, placed>>
          /\ files' = files \/ files' = [files EXCEPT ![Tmp] = Torn]
      BY <2>3 DEF Crash, history
    <3>3. PinType'
      BY <2>0, <3>1, <3>2, FileFacts DEF PinType
    <3>4. PinnedFromDisk'
      BY <2>0, <3>2, FileFacts DEF PinType, PinnedFromDisk
    <3> QED BY <3>1, <3>2, <3>3, <3>4, FileFacts DEF PinInv
  <2>4. CASE Start
    <3>1. /\ UNCHANGED <<files, call, valid, placed>> /\ cfg' = files[Live]
          /\ files[Live] \in Configs /\ Live \in File
      BY <2>0, <2>4, FileFacts, SMTT(30) DEF Start, PinType
    <3> QED BY <3>1 DEF PinInv, PinType, PinnedFromDisk
  <2>5. ASSUME NEW c \in Configs, Edit(c) PROVE PinInv'
    <3>1. /\ UNCHANGED <<call, cfg, valid>> /\ files' = [files EXCEPT ![Live] = c]
          /\ placed' = placed \cup Pinned[c]
      BY <2>5 DEF Edit, daemon
    <3>2. PinType'
      BY <2>0, <3>1 DEF PinType
    <3>3. PinnedFromDisk'
      BY <2>0, <3>1, FileFacts DEF PinType, PinnedFromDisk
    <3> QED BY <3>1, <3>2, <3>3 DEF PinInv
  <2> QED BY <2>1, <2>2, <2>3, <2>4, <2>5 DEF Next
<1>3. PinInv => PinnedFromDisk
  BY DEF PinInv
<1> QED BY <1>1, <1>2, <1>3, PTL DEF Spec

\* A process with stale start-time settings was named in a reply since it
\* started: apply_config compares consecutive documents, and any chain of
\* changes away from what the process runs with has a first one.
THEOREM StaleIsReported == Spec => []StaleWasReported
<1>1. Init => StaleWasReported
  BY DEF Init, StaleWasReported
<1>2. StaleWasReported /\ [Next]_vars => StaleWasReported'
  <2> SUFFICES ASSUME StaleWasReported, [Next]_vars PROVE StaleWasReported'
    OBVIOUS
  <2>1. ASSUME UNCHANGED <<cfg, running, reported>> PROVE StaleWasReported'
    BY <2>1 DEF StaleWasReported
  <2>2. ASSUME NEW h \in Clients, Handler(h) PROVE StaleWasReported'
    <3>1. CASE ConfigPut(h) \/ LockWrite(h) \/ WriteTmp(h) \/ Rotate(h) \/ Replace(h)
               \/ Install(h) \/ ConfigRollback(h) \/ SwapWithPrev(h)
      BY <2>1, <3>1 DEF daemon, history, ConfigPut, LockWrite, WriteTmp, Rotate, Replace,
         Install, ConfigRollback, SwapWithPrev
    <3>2. CASE RebuildLimiters(h) \/ Fails(h)
      BY <2>1, <3>2 DEF history, RebuildLimiters, Fails
    <3>3. CASE ApplyConfig(h)
      BY <3>3 DEF ApplyConfig, StaleWasReported
    <3> QED BY <2>2, <3>1, <3>2, <3>3 DEF Handler
  <2>3. CASE EnvDrift \/ Crash \/ UNCHANGED vars
    BY <2>1, <2>3 DEF EnvDrift, Crash, history, vars
  <2>4. CASE RespawnPlugin \/ Start
    BY <2>4 DEF RespawnPlugin, Start, StaleWasReported
  <2>5. ASSUME NEW c \in Configs, Edit(c) PROVE StaleWasReported'
    BY <2>1, <2>5 DEF Edit, daemon
  <2> QED BY <2>2, <2>3, <2>4, <2>5 DEF Next
<1> QED BY <1>1, <1>2, PTL DEF Spec
=============================================================================
