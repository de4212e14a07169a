------------------------------- MODULE Backup -------------------------------
(***************************************************************************)
(* switchyardd backup and restore (backup.rs) beside a running daemon.     *)
(*                                                                         *)
(* A backup is a process of its own: it takes no lock of the daemon's.  It *)
(* copies the database with VACUUM INTO, which is consistent by itself,    *)
(* and only then walks the data directory and copies the files it lists,   *)
(* one by one.                                                             *)
(***************************************************************************)
EXTENDS AttachmentStore

VARIABLES backup,    \* the backup directory and the process that fills it
          unlinked   \* owned blobs a purge had unlinked by the VACUUM, or has since

bvars == <<storeVars, backup, unlinked>>

NoBackup == [pc |-> "none", message |-> message, refs |-> {}, todo |-> {}, blobs |-> {}]

BackupInit == StoreInit /\ backup = NoBackup /\ unlinked = {}

\* The snapshot of the database.
Vacuum ==
  /\ backup.pc = "none"
  /\ backup' = [backup EXCEPT !.pc = "list", !.message = message, !.refs = refs]
  /\ unlinked' = Owned \ disk
  /\ UNCHANGED storeVars

\* copy_tree reads the directory of the blobs.
ListBlobs ==
  /\ backup.pc = "list"
  /\ backup' = [backup EXCEPT !.pc = "copy", !.todo = disk]
  /\ UNCHANGED <<storeVars, unlinked>>

CopyBlob(b) ==
  /\ backup.pc = "copy" /\ b \in backup.todo
  /\ b \in disk
  /\ backup' = [backup EXCEPT !.todo = @ \ {b}, !.blobs = @ \cup {b}]
  /\ UNCHANGED <<storeVars, unlinked>>

\* A file listed is gone when it is opened: the error ends the backup, and no
\* manifest is written.
CopyFails(b) ==
  /\ backup.pc = "copy" /\ b \in backup.todo
  /\ b \notin disk
  /\ backup' = [backup EXCEPT !.pc = "failed"]
  /\ UNCHANGED <<storeVars, unlinked>>

\* Variant: the database is copied last, with the manifest.
WriteManifestLast ==
  /\ backup.pc = "copy" /\ backup.todo = {}
  /\ backup' = [backup EXCEPT !.pc = "done", !.message = message, !.refs = refs]
  /\ UNCHANGED <<storeVars, unlinked>>

WriteManifest ==
  /\ backup.pc = "copy" /\ backup.todo = {}
  /\ backup' = [backup EXCEPT !.pc = "done"]
  /\ UNCHANGED <<storeVars, unlinked>>

\* The daemon is stopped, the backup is copied over the data directory, and
\* the daemon starts again.  Files the backup does not have stay.
Restore ==
  /\ backup.pc = "done"
  /\ stops < StopBound
  /\ stops' = stops + 1
  /\ message' = backup.message
  /\ refs' = backup.refs
  /\ disk' = disk \cup backup.blobs
  /\ stray' = stray + Bytes({b \in Blobs : \E m \in Messages :
                               job[m].pc = "write" /\ b \in job[m].cur})
  /\ total' = Bytes(disk') + stray'
  /\ job' = [m \in Messages |->
               IF m \in Active THEN [job[m] EXCEPT !.pc = "done", !.cur = {}]
               ELSE job[m]]
  /\ purge' = NoPurge
  /\ UNCHANGED <<backup, unlinked>>

BackupNext ==
  \/ StoreNext /\ unlinked' = unlinked \cup (disk \ disk') /\ UNCHANGED backup
  \/ Vacuum \/ ListBlobs \/ WriteManifest \/ Restore
  \/ \E b \in Blobs : CopyBlob(b) \/ CopyFails(b)

BackupSpec == BackupInit /\ [][BackupNext]_bvars

-----------------------------------------------------------------------------
(* Properties *)

BackupOwned == {b \in Blobs : \E m \in Messages : <<m, b>> \in backup.refs}

\* A finished backup holds every blob its database names, but for those a
\* purge has unlinked: messages that arrive while it runs cost it nothing,
\* since the database is copied first.
OnlyUnlinkedMissing ==
  backup.pc = "done" => BackupOwned \subseteq backup.blobs \cup unlinked

\* What the module comment of backup.rs says of a backup of a running daemon:
\* the plain copy of the blobs is safe, so the backup has what it names.
BackupComplete ==
  backup.pc = "done" => BackupOwned \subseteq backup.blobs
=============================================================================
