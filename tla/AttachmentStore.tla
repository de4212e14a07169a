-------------------------- MODULE AttachmentStore --------------------------
(***************************************************************************)
(* The content-addressed store of attachment bytes (cas.rs), the calls of  *)
(* handle_inbound that fill it, the message_attachments table that says    *)
(* which message owns which blob, and the two purges that unlink what no   *)
(* message owns any more (the pump's retention purge and the operator's    *)
(* purge of the dead letters).                                             *)
(*                                                                         *)
(* One call of handle_inbound brings each message in; calls for messages   *)
(* of different plugins run at the same time and touch the CAS without any *)
(* lock.  Only the database is under the store lock, which the purges hold *)
(* until the last unlink.                                                  *)
(***************************************************************************)
EXTENDS Naturals, FiniteSets, Functions

CONSTANTS Messages,    \* messages that may arrive, one handle_inbound each
          Blobs,       \* contents, named by their sha256
          Atts,        \* the attachments of a message that are not oversize
          Size,        \* bytes of a blob
          Budget,      \* limits.global.cas_max_bytes, 0 for no limit
          Writers,     \* plugin connections that can be in a put at once
          StoreFaults, \* whether the insert of a message may fail
          StopBound    \* restarts explored

ASSUME AttachmentAssumption ==
  /\ Atts \in [Messages -> SUBSET Blobs]
  /\ Size \in [Blobs -> Nat \ {0}]
  /\ Budget \in Nat
  /\ Writers \in Nat \ {0}
  /\ StoreFaults \in BOOLEAN
  /\ StopBound \in Nat

VARIABLES disk,     \* the blobs that are files under their own name
          stray,    \* bytes of .tmp files nothing will ever rename
          total,    \* Cas.total_bytes
          job,      \* the handle_inbound of each message
          message,  \* the message's rows, by what a purge tells apart
          refs,     \* the table message_attachments
          purge,    \* the purge that holds the store lock, if any
          stops     \* restarts so far

storeVars == <<disk, stray, total, job, message, refs, purge, stops>>

\* A call that has not begun, one looking at its next attachment, one writing
\* the temporary file, one that has renamed it, and one that has returned.
PutPc == {"new", "put", "write", "add", "done"}

\* A message with a delivery that is not terminal, one whose deliveries are
\* all terminal and older than the retention, one whose deliveries are all
\* dead letters, and one deleted.
MessageState == {"none", "live", "old", "dead", "gone"}

NoPurge == [pc |-> "idle", orphans |-> {}, freed |-> {}]

StoreTypeOK ==
  /\ disk \subseteq Blobs
  /\ stray \in Nat
  /\ total \in Nat
  /\ job \in [Messages -> [pc : PutPc, todo : SUBSET Blobs, kept : SUBSET Blobs,
                            cur : SUBSET Blobs]]
  /\ message \in [Messages -> MessageState]
  /\ refs \subseteq Messages \X Blobs
  /\ purge \in [pc : {"idle", "unlink", "free"}, orphans : SUBSET Blobs,
                freed : SUBSET Blobs]
  /\ stops \in 0..StopBound

StoreInit ==
  /\ disk = {} /\ stray = 0 /\ total = 0
  /\ job = [m \in Messages |->
              [pc |-> "new", todo |-> Atts[m], kept |-> {}, cur |-> {}]]
  /\ message = [m \in Messages |-> "none"]
  /\ refs = {}
  /\ purge = NoPurge
  /\ stops = 0

Bytes(S) == SumFunctionOnSet(Size, S)

Active == {m \in Messages : job[m].pc \in {"put", "write", "add"}}

LockFree == purge.pc = "idle"

-----------------------------------------------------------------------------
(* handle_inbound: put each attachment, then insert the rows *)

\* The message has passed the duplicate, rate and route checks.
Begin(m) ==
  /\ job[m].pc = "new"
  /\ Cardinality(Active) < Writers
  /\ job' = [job EXCEPT ![m].pc = "put"]
  /\ UNCHANGED <<disk, stray, total, message, refs, purge, stops>>

\* Variant: the blob's own size is left out of the check.
OverBudgetBefore(b) == Budget > 0 /\ total > Budget

OverBudget(b) == Budget > 0 /\ total + Size[b] > Budget

\* put returns at once for a blob that exists; the blob is the message's.
PutExisting(m, b) ==
  /\ job[m].pc = "put" /\ b \in job[m].todo
  /\ b \in disk
  /\ job' = [job EXCEPT ![m].todo = @ \ {b}, ![m].kept = @ \cup {b}]
  /\ UNCHANGED <<disk, stray, total, message, refs, purge, stops>>

\* A new blob over the budget is refused and noted in the body.
PutRefused(m, b) ==
  /\ job[m].pc = "put" /\ b \in job[m].todo
  /\ b \notin disk
  /\ OverBudget(b)
  /\ job' = [job EXCEPT ![m].todo = @ \ {b}]
  /\ UNCHANGED <<disk, stray, total, message, refs, purge, stops>>

PutStart(m, b) ==
  /\ job[m].pc = "put" /\ b \in job[m].todo
  /\ b \notin disk
  /\ ~OverBudget(b)
  /\ job' = [job EXCEPT ![m].pc = "write", ![m].todo = @ \ {b}, ![m].cur = {b}]
  /\ UNCHANGED <<disk, stray, total, message, refs, purge, stops>>

\* The write or the rename fails: the attachment is noted as unavailable, and
\* the temporary file stays behind.
PutFails(m) ==
  /\ job[m].pc = "write"
  /\ stray' = stray + Bytes(job[m].cur)
  /\ job' = [job EXCEPT ![m].pc = "put", ![m].cur = {}]
  /\ UNCHANGED <<disk, total, message, refs, purge, stops>>

PutRename(m) ==
  /\ job[m].pc = "write"
  /\ disk' = disk \cup job[m].cur
  /\ job' = [job EXCEPT ![m].pc = "add"]
  /\ UNCHANGED <<stray, total, message, refs, purge, stops>>

PutAdd(m) ==
  /\ job[m].pc = "add"
  /\ total' = total + Bytes(job[m].cur)
  /\ job' = [job EXCEPT ![m].pc = "put", ![m].kept = @ \cup job[m].cur,
                          ![m].cur = {}]
  /\ UNCHANGED <<disk, stray, message, refs, purge, stops>>

\* insert_message, insert_attachment_refs and the fan-out, under the store
\* lock.
Persist(m) ==
  /\ job[m].pc = "put" /\ job[m].todo = {}
  /\ LockFree
  /\ message' = [message EXCEPT ![m] = "live"]
  /\ refs' = refs \cup ({m} \X job[m].kept)
  /\ job' = [job EXCEPT ![m].pc = "done"]
  /\ UNCHANGED <<disk, stray, total, purge, stops>>

\* insert_message fails: the call returns before any row is written.
PersistFails(m) ==
  /\ StoreFaults
  /\ job[m].pc = "put" /\ job[m].todo = {}
  /\ LockFree
  /\ job' = [job EXCEPT ![m].pc = "done"]
  /\ UNCHANGED <<disk, stray, total, message, refs, purge, stops>>

-----------------------------------------------------------------------------
(* The rows of a message, and the purges *)

\* What the queue does to the deliveries of a message, as far as a purge sees.
Settle(m) ==
  /\ \E s \in {"live", "old", "dead"} :
       /\ <<message[m], s>> \in {<<"live", "old">>, <<"live", "dead">>,
                                 <<"dead", "old">>, <<"dead", "live">>}
       /\ message' = [message EXCEPT ![m] = s]
  /\ LockFree
  /\ UNCHANGED <<disk, stray, total, job, refs, purge, stops>>

Referenced(live) == {b \in Blobs : \E m \in live : <<m, b>> \in refs}

\* Variant: a sha is an orphan as soon as one of its messages is deleted.
PruneOrphansPerRow(S) ==
  LET live == {m \in Messages : message[m] \in {"live", "old", "dead"}} \ S
  IN  /\ message' = [m \in Messages |-> IF m \in S THEN "gone" ELSE message[m]]
      /\ refs' = {r \in refs : r[1] \in live}
      /\ purge' = [pc |-> "unlink", freed |-> {}, orphans |-> Referenced(S)]

\* The messages of S lose their last delivery and are deleted; the blobs that
\* had an owner and have none now are to be unlinked; the rows that dangle go.
PruneOrphans(S) ==
  LET live == {m \in Messages : message[m] \in {"live", "old", "dead"}} \ S
  IN  /\ message' = [m \in Messages |-> IF m \in S THEN "gone" ELSE message[m]]
      /\ refs' = {r \in refs : r[1] \in live}
      /\ purge' = [pc |-> "unlink", freed |-> {},
                   orphans |-> Referenced(Messages) \ Referenced(live)]

\* The pump's hourly retention purge.
PurgeTerminal ==
  /\ LockFree
  /\ PruneOrphans({m \in Messages : message[m] = "old"})
  /\ UNCHANGED <<disk, stray, total, job, stops>>

\* The operator's purge of the dead letters, of whatever age.
QueuePurge ==
  /\ LockFree
  /\ \E S \in SUBSET {m \in Messages : message[m] = "old"} :
       PruneOrphans(S \cup {m \in Messages : message[m] = "dead"})
  /\ UNCHANGED <<disk, stray, total, job, stops>>

\* Variant: the bytes are owed whether or not the file was there.
UnlinkOwes(b) ==
  /\ purge.pc = "unlink" /\ b \in purge.orphans
  /\ disk' = disk \ {b}
  /\ purge' = [purge EXCEPT !.orphans = @ \ {b}, !.freed = {b}, !.pc = "free"]
  /\ UNCHANGED <<stray, total, job, message, refs, stops>>

\* Cas::remove deletes the file, and owes its bytes to the budget only when
\* there was one.
Unlink(b) ==
  /\ purge.pc = "unlink" /\ b \in purge.orphans
  /\ disk' = disk \ {b}
  /\ purge' = [purge EXCEPT !.orphans = @ \ {b}, !.freed = {b} \cap disk,
                            !.pc = IF b \in disk THEN "free" ELSE "unlink"]
  /\ UNCHANGED <<stray, total, job, message, refs, stops>>

\* The saturating subtraction.
Free ==
  /\ purge.pc = "free"
  /\ total' = IF Bytes(purge.freed) > total THEN 0 ELSE total - Bytes(purge.freed)
  /\ purge' = [purge EXCEPT !.pc = "unlink", !.freed = {}]
  /\ UNCHANGED <<disk, stray, job, message, refs, stops>>

PurgeEnds ==
  /\ purge.pc = "unlink" /\ purge.orphans = {}
  /\ purge' = NoPurge
  /\ UNCHANGED <<disk, stray, total, job, message, refs, stops>>

\* A restart: calls and a purge are cut off, a half-written temporary file
\* stays, and Cas::new adds up every regular file of the directory.
CrashRestart ==
  /\ stops < StopBound
  /\ stops' = stops + 1
  /\ LET cut == {m \in Messages : job[m].pc = "write"}
         tmp == FoldFunctionOnSet(+, 0, [m \in Messages |-> Bytes(job[m].cur)], cut)
     IN  /\ stray' = stray + tmp
         /\ total' = Bytes(disk) + stray + tmp
  /\ job' = [m \in Messages |->
               IF m \in Active THEN [job[m] EXCEPT !.pc = "done", !.cur = {}]
               ELSE job[m]]
  /\ purge' = NoPurge
  /\ UNCHANGED <<disk, message, refs>>

StoreNext ==
  \/ \E m \in Messages :
       \/ Begin(m) \/ PutFails(m) \/ PutRename(m) \/ PutAdd(m)
       \/ Persist(m) \/ PersistFails(m) \/ Settle(m)
       \/ \E b \in Blobs : PutExisting(m, b) \/ PutRefused(m, b) \/ PutStart(m, b)
  \/ \E b \in Blobs : Unlink(b)
  \/ PurgeTerminal \/ QueuePurge \/ Free \/ PurgeEnds \/ CrashRestart

StoreSpec == StoreInit /\ [][StoreNext]_storeVars

-----------------------------------------------------------------------------
(* Properties *)

Owned == {b \in Blobs : \E m \in Messages : <<m, b>> \in refs}

\* A purge never holds a blob for unlinking that a message on file owns, even
\* one that arrived after the purge had computed its orphans, or one that
\* shares the blob with a message just deleted: prune_orphans groups by sha,
\* and the store lock keeps insert_attachment_refs out until the last unlink.
PurgeSparesOwned ==
  purge.orphans \cap Owned = {}

\* The state has its types, and
\* the running total never falls below what is on disk, counting the bytes a
\* put has renamed and is about to add: so the budget errs on the side of
\* refusing, whatever puts, purges and restarts do at once.
TotalCoversDisk ==
  /\ StoreTypeOK
  /\ total + FoldFunctionOnSet(+, 0, [m \in Messages |-> Bytes(job[m].cur)],
                               {m \in Messages : job[m].pc = "add"})
       >= Bytes(disk)

LargestBlob == CHOOSE n \in {Size[b] : b \in Blobs} : \A b \in Blobs : Size[b] <= n

\* The load-then-add of put lets puts that run at once overshoot the budget,
\* by no more than one blob for each other writer, also when the store starts
\* above its budget (after a restore, or with a smaller cas_max_bytes).
OvershootBounded ==
  [][Budget > 0 /\ stops' = stops /\ ~(disk' \subseteq disk) =>
       Bytes(disk') <= Budget + (Writers - 1) * LargestBlob]_storeVars

\* What the comment on the retention purge promises: no blob is missing that
\* a message on file owns.
OwnedOnDisk ==
  Owned \subseteq disk
=============================================================================
