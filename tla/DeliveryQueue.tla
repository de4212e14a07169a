--------------------------- MODULE DeliveryQueue ---------------------------
(***************************************************************************)
(* Store-and-forward of deliveries to the daemon's plugins: the fan-out    *)
(* that inserts rows, the single pump task that sends them, the plugin     *)
(* connections that carry them, the results plugins report, the operator's *)
(* queue commands, and the crash and restart of the daemon.                *)
(*                                                                         *)
(* Every SQLite statement commits on its own under the store mutex, so one *)
(* statement (or one critical section) is one step.  The pump does not     *)
(* hold the mutex between the steps it takes for one delivery: results,    *)
(* commands, disconnections and the clock interleave with it.              *)
(***************************************************************************)
EXTENDS DeliveryStore, FiniteSets, Functions

CONSTANTS
  Delivery,      \* row ids
  Plugin,        \* plugin names
  Owner,         \* Owner[d]: the row's dest_protocol
  Route,         \* Route[d]: the row's route
  Priority,      \* Priority[d]: the envelope's priority rank
  RouteMax,      \* limits.per_route.queue_max (0: no limit)
  GlobalMax,     \* limits.global.queue_max (0: no limit)
  ChannelCap,    \* capacity of a connection's outbound channel (256)
  BatchLimit,    \* rows the pump takes per tick (32)
  OfflineDelay,  \* nudge when the plugin is away or its channel full (5 s)
  BudgetDelay,   \* nudge when the transport budget is spent (10 s)
  MaxLag,        \* bound: time that may pass while one batch is processed
  StoreFaults    \* whether SQLite reads and writes may fail

ASSUME QueueAssumption ==
  /\ Owner \in [Delivery -> Plugin]
  /\ Priority \in [Delivery -> Nat]
  /\ RouteMax \in Nat /\ GlobalMax \in Nat
  /\ ChannelCap \in Nat /\ BatchLimit \in Nat \ {0}
  /\ OfflineDelay \in Nat /\ BudgetDelay \in Nat
  /\ MaxLag \in Nat /\ Horizon > Retention + MaxLag
  /\ StoreFaults \in BOOLEAN

VARIABLES
  row,      \* the deliveries table
  pump,     \* the pump task: what it has read and not yet acted on
  link,     \* the plugin's current connection: "down", "up", or "deaf" (the
            \* writer task has ended on a write error, the reader lives on)
  channel,  \* frames queued for the plugin's current connection
  taken,    \* deliveries whose frame has left for the owning plugin, which
            \* may report a result for them at any later time, and again
  sends     \* history: frames queued for a row since its insert or requeue

vars == <<row, pump, link, channel, taken, sends>>

\* Bound: the count that `sends` stops at.
SendCap == MaxAttempts + 2

Snap == [id: Delivery, attempts: Nat, prio: Nat, next: Int, expired: BOOLEAN]

Verdicts == {"failed", "expired", "exhausted", "refused", "offline",
             "budget", "send"}

PumpState == [pc: {"idle", "batch", "decided", "sending", "unsent"},
              batch: SUBSET Snap, cur: SUBSET Snap, verdict: Verdicts,
              tx: {"current", "displaced", "closed"}, lag: Nat]

\* `tx` is the sender the pump has cloned out of the plugin table: of the
\* current connection, of one that another has displaced, or of a closed one.
Idle == [pc |-> "idle", batch |-> {}, cur |-> {}, verdict |-> "send",
         tx |-> "closed", lag |-> 0]

TypeOK ==
  /\ row \in [Delivery -> Row]
  /\ pump \in PumpState
  /\ link \in [Plugin -> {"down", "up", "deaf"}]
  /\ channel \in [Plugin -> Seq(Delivery)]
  /\ taken \in SUBSET Delivery
  /\ sends \in [Delivery -> Nat]

Init ==
  /\ row = [d \in Delivery |-> NoRow]
  /\ pump = Idle
  /\ link = [p \in Plugin |-> "down"]
  /\ channel = [p \in Plugin |-> <<>>]
  /\ taken = {}
  /\ sends = [d \in Delivery |-> 0]
-----------------------------------------------------------------------------
\* What a write leaves behind: a failed one is logged and otherwise ignored
\* (warn_if_mark_failed), so the row stays as it was.
Written(old, new) == IF StoreFaults THEN {old, new} ELSE {new}

PendingCount(S) == Cardinality({d \in S : row[d].state \in Live})

OverRoute(d) ==
  RouteMax > 0 /\ PendingCount({e \in Delivery : Route[e] = Route[d]}) >= RouteMax

\* Variant: one more than the cap.
OverGlobalLoose == GlobalMax > 0 /\ PendingCount(Delivery) > GlobalMax

OverGlobal == GlobalMax > 0 /\ PendingCount(Delivery) >= GlobalMax

\* One target of fan_out_deliveries.  The caller holds the store mutex across
\* all its targets; taking them one at a time only allows more.
FanOut(d) ==
  /\ row[d].state = "unused"
  /\ row' = [row EXCEPT ![d] =
       IF OverRoute(d) \/ OverGlobal THEN InsertDeadDelivery("QUEUE_FULL")
       ELSE InsertDelivery(Priority[d])]
  /\ UNCHANGED <<pump, link, channel, taken, sends>>

Tick ==
  /\ pump.pc # "idle" => pump.lag < MaxLag
  /\ row' = [d \in Delivery |-> Elapse(row[d])]
  /\ pump' = IF pump.pc = "idle" THEN pump ELSE [pump EXCEPT !.lag = @ + 1]
  /\ UNCHANGED <<link, channel, taken, sends>>
-----------------------------------------------------------------------------
\* ORDER BY priority, next_attempt: ties in any order.
Precedes(a, b) == a.prio < b.prio \/ (a.prio = b.prio /\ a.next < b.next)

SnapOf(d, r) == [id |-> d, attempts |-> r.attempts, prio |-> r.prio,
                 next |-> r.next, expired |-> r.ttl <= 0]

\* due_deliveries(now, limit): every set the LIMIT may leave.
DueDeliveries(rows) ==
  LET due == {SnapOf(d, rows[d]) : d \in {e \in Delivery : Due(rows[e])}}
      want == IF Cardinality(due) < BatchLimit THEN Cardinality(due)
              ELSE BatchLimit
  IN {S \in SUBSET due : /\ Cardinality(S) = want
                         /\ \A a \in S, b \in due \ S : ~Precedes(b, a)}

\* The head of pump's loop: one clock reading, reclaim_stale and the query.
\* A failed reclaim is ignored and a failed query reads as no rows.
PumpTick ==
  /\ pump.pc = "idle"
  /\ \E rows \in Written(row, [d \in Delivery |-> ReclaimStale(row[d])]) :
       /\ row' = rows
       /\ \E due \in DueDeliveries(rows) :
            \E batch \in Written({}, due) :
              pump' = [Idle EXCEPT !.pc = "batch", !.batch = batch]
  /\ UNCHANGED <<link, channel, taken, sends>>

\* Variant: without the expiry check.
OutcomesUnexpired(s) ==
  IF s.attempts >= MaxAttempts THEN {"exhausted"}
  ELSE IF link[Owner[s.id]] = "down" THEN {"offline"} ELSE {"send"}

\* What process_due and process_due_identity can conclude about a snapshot
\* before they write anything.  The message of a row that still exists is
\* still there, unless reading it fails.
Outcomes(s) ==
  (IF StoreFaults \/ row[s.id].state \in Gone THEN {"failed"} ELSE {})
  \cup (IF s.expired THEN {"expired"}
        ELSE IF s.attempts >= MaxAttempts THEN {"exhausted"}
        ELSE {"refused"} \cup
          (IF link[Owner[s.id]] = "down" THEN {"offline"}
           ELSE {"send"} \cup (IF s.prio > 0 THEN {"budget"} ELSE {})))

\* Variant: the delivery in hand is not taken off the batch.
DecideAgain ==
  /\ pump.pc = "batch"
  /\ \E s \in pump.batch : \E v \in Outcomes(s) :
       pump' = [pump EXCEPT !.pc = "decided", !.cur = {s}, !.verdict = v,
                  !.tx = IF v = "send" THEN "current" ELSE "closed"]
  /\ UNCHANGED <<row, link, channel, taken, sends>>

\* process_due up to its first write: reads the message, the policies, the
\* plugin table and the budget, each under a lock of its own.
Decide ==
  /\ pump.pc = "batch"
  /\ \E s \in pump.batch :
       /\ \A o \in pump.batch \ {s} : ~Precedes(o, s)
       /\ \E v \in Outcomes(s) :
            pump' = [pump EXCEPT !.pc = "decided", !.batch = @ \ {s},
                       !.cur = {s}, !.verdict = v,
                       !.tx = IF v = "send" THEN "current" ELSE "closed"]
  /\ UNCHANGED <<row, link, channel, taken, sends>>

\* The write a verdict leads to, as the row it leaves.
Effect(v, r, lag) ==
  CASE v = "failed"    -> MarkTerminal(r, "failed", "DESTINATION_UNKNOWN")
    [] v = "expired"   -> MarkTerminal(r, "expired", "TTL_EXPIRED")
    [] v = "exhausted" -> MarkTerminal(r, "dead_letter", "RETRY_EXHAUSTED")
    [] v = "refused"   -> MarkTerminal(r, "dead_letter", "REFUSED")
    [] v = "offline"   -> MarkRetry(r, OfflineDelay - lag)
    [] v = "budget"    -> MarkRetry(r, BudgetDelay - lag)
    [] v = "send"      -> MarkAttempting(r)

\* Variant: a frame that was queued is queued again.
NextDueResends ==
  IF pump.pc = "sending" THEN pump
  ELSE [pump EXCEPT !.pc = "batch", !.cur = {}, !.verdict = "send", !.tx = "closed"]

\* The pump is done with the snapshot in hand.
NextDue == [pump EXCEPT !.pc = "batch", !.cur = {}, !.verdict = "send",
                        !.tx = "closed"]

ApplyVerdict ==
  /\ pump.pc = "decided"
  /\ \E s \in pump.cur :
       \E r \in Written(row[s.id], Effect(pump.verdict, row[s.id], pump.lag)) :
         row' = [row EXCEPT ![s.id] = r]
  /\ pump' = IF pump.verdict = "send" THEN [pump EXCEPT !.pc = "sending"]
             ELSE NextDue
  /\ UNCHANGED <<link, channel, taken, sends>>

\* tx.try_send succeeds.  A displaced connection's writer still runs, and
\* what it is given reaches the displaced process.
TrySendOk ==
  /\ pump.pc = "sending"
  /\ \E s \in pump.cur :
       LET p == Owner[s.id] IN
       /\ \/ /\ pump.tx = "current" /\ link[p] = "up"
             /\ Len(channel[p]) < ChannelCap
             /\ channel' = [channel EXCEPT ![p] = Append(@, s.id)]
             /\ UNCHANGED taken
          \/ /\ pump.tx = "displaced"
             /\ taken' = taken \cup {s.id}
             /\ UNCHANGED channel
       /\ sends' = [sends EXCEPT ![s.id] = IF @ < SendCap THEN @ + 1 ELSE @]
  /\ pump' = NextDue
  /\ UNCHANGED <<row, link>>

\* tx.try_send returns Full or Closed.
TrySendErr ==
  /\ pump.pc = "sending"
  /\ \E s \in pump.cur :
       \/ pump.tx # "current"
       \/ link[Owner[s.id]] # "up"
       \/ Len(channel[Owner[s.id]]) >= ChannelCap
  /\ pump' = [pump EXCEPT !.pc = "unsent"]
  /\ UNCHANGED <<row, link, channel, taken, sends>>

\* ... and the row is nudged; its attempt_count stays bumped.
RetryUnsent ==
  /\ pump.pc = "unsent"
  /\ \E s \in pump.cur :
       \E r \in Written(row[s.id], MarkRetry(row[s.id], OfflineDelay - pump.lag)) :
         row' = [row EXCEPT ![s.id] = r]
  /\ pump' = NextDue
  /\ UNCHANGED <<link, channel, taken, sends>>

EndBatch ==
  /\ pump.pc = "batch" /\ pump.batch = {}
  /\ pump' = Idle
  /\ UNCHANGED <<row, link, channel, taken, sends>>

\* The same, in a tick in which PURGE_INTERVAL has passed since the last
\* purge: the cutoff is taken from the clock read at the head of the loop.
EndBatchPurge ==
  /\ pump.pc = "batch" /\ pump.batch = {}
  /\ \E rows \in Written(row, [d \in Delivery |-> PurgeTerminal(row[d], pump.lag)]) :
       /\ row' = rows
       /\ sends' = [d \in Delivery |-> IF rows[d] = row[d] THEN sends[d] ELSE 0]
  /\ pump' = Idle
  /\ UNCHANGED <<link, channel, taken>>

\* The pump task panics; supervise starts it again.
PumpPanic ==
  /\ pump.pc # "idle"
  /\ pump' = Idle
  /\ UNCHANGED <<row, link, channel, taken, sends>>
-----------------------------------------------------------------------------
\* A plugin says hello.  A connection that is still installed is displaced:
\* its writer goes on delivering what it holds to the old process.
Connect(p) ==
  /\ link' = [link EXCEPT ![p] = "up"]
  /\ taken' = taken \cup Range(channel[p])
  /\ channel' = [channel EXCEPT ![p] = <<>>]
  /\ pump' = IF pump.tx = "current" /\ \E s \in pump.cur : Owner[s.id] = p
             THEN [pump EXCEPT !.tx = IF link[p] = "up" THEN "displaced"
                                      ELSE "closed"]
             ELSE pump
  /\ UNCHANGED <<row, sends>>

\* The writer task passes a frame to the socket.
PluginTake(p) ==
  /\ link[p] = "up" /\ channel[p] # <<>>
  /\ taken' = taken \cup {Head(channel[p])}
  /\ channel' = [channel EXCEPT ![p] = Tail(@)]
  /\ UNCHANGED <<row, pump, link, sends>>

\* The writer task drops a frame that encodes past MAX_FRAME.
DropOversize(p) ==
  /\ link[p] = "up" /\ channel[p] # <<>>
  /\ channel' = [channel EXCEPT ![p] = Tail(@)]
  /\ UNCHANGED <<row, pump, link, taken, sends>>

\* The writer task ends on a write error and its receiver goes with it.
WriterEnds(p) ==
  /\ link[p] = "up"
  /\ link' = [link EXCEPT ![p] = "deaf"]
  /\ channel' = [channel EXCEPT ![p] = <<>>]
  /\ UNCHANGED <<row, pump, taken, sends>>

\* The read loop ends: an error, or silence past LIVENESS_TIMEOUT.
Disconnect(p) ==
  /\ link[p] # "down"
  /\ link' = [link EXCEPT ![p] = "down"]
  /\ channel' = [channel EXCEPT ![p] = <<>>]
  /\ pump' = IF pump.tx = "current" /\ \E s \in pump.cur : Owner[s.id] = p
             THEN [pump EXCEPT !.tx = "closed"] ELSE pump
  /\ UNCHANGED <<row, taken, sends>>

\* handle_result on a row the reporting plugin owns.
ResultEffect(r, delivered) ==
  IF delivered THEN MarkDelivered(r)
  ELSE IF r.attempts >= MaxAttempts
  THEN MarkTerminal(r, "dead_letter", "RETRY_EXHAUSTED")
  ELSE MarkRetry(r, Backoff(r.attempts))

\* Variant: any plugin may report on any delivery.
HandleResultAnyPlugin(p, d, delivered) ==
  IF row[d].state \in Gone THEN {row[d]}
  ELSE Written(row[d], ResultEffect(row[d], delivered))

HandleResult(p, d, delivered) ==
  IF row[d].state \in Gone \/ Owner[d] # p THEN {row[d]}
  ELSE Written(row[d], ResultEffect(row[d], delivered))

\* A plugin reports on a frame it has had, however late and however often,
\* or names a delivery that belongs to another plugin.
Report(p, d, delivered) ==
  /\ link[p] # "down"
  /\ d \in taken \/ Owner[d] # p
  /\ \E r \in HandleResult(p, d, delivered) : row' = [row EXCEPT ![d] = r]
  /\ UNCHANGED <<pump, link, channel, taken, sends>>
-----------------------------------------------------------------------------
\* POST /v1/queue/{id}/requeue
QueueRequeue(d) ==
  /\ row[d].state \in Requeuable
  /\ row' = [row EXCEPT ![d] = Requeue(@)]
  /\ sends' = [sends EXCEPT ![d] = 0]
  /\ UNCHANGED <<pump, link, channel, taken>>

\* POST /v1/queue/purge
QueuePurge ==
  /\ \E d \in Delivery : row[d].state = "dead_letter"
  /\ row' = [d \in Delivery |-> PurgeDeadLetter(row[d])]
  /\ sends' = [d \in Delivery |-> IF row'[d] = row[d] THEN sends[d] ELSE 0]
  /\ UNCHANGED <<pump, link, channel, taken>>

\* The daemon stops at any point and starts again: Daemon::new recovers the
\* rows left attempting.  A plugin that outlives it may reconnect and report.
CrashRestart ==
  /\ row' = [d \in Delivery |-> Recover(row[d])]
  /\ pump' = Idle
  /\ link' = [p \in Plugin |-> "down"]
  /\ channel' = [p \in Plugin |-> <<>>]
  /\ UNCHANGED <<taken, sends>>

PumpStep == \/ PumpTick \/ Decide \/ ApplyVerdict \/ TrySendOk \/ TrySendErr
            \/ RetryUnsent \/ EndBatch \/ EndBatchPurge

\* The daemon at work, with plugins that come and go.
Work ==
  \/ \E d \in Delivery : FanOut(d)
  \/ Tick
  \/ PumpStep
  \/ \E p \in Plugin : \/ Connect(p) \/ PluginTake(p) \/ DropOversize(p)
                       \/ WriterEnds(p) \/ Disconnect(p)
  \/ QueuePurge

\* ... with what plugins report and operators requeue.
Calm ==
  \/ Work
  \/ \E p \in Plugin, d \in Delivery, ok \in BOOLEAN : Report(p, d, ok)
  \/ \E d \in Delivery : QueueRequeue(d)

Next == Calm \/ PumpPanic \/ CrashRestart

Spec == Init /\ [][Next]_vars
-----------------------------------------------------------------------------
\* The guards of storage.rs's mark_* statements keep a terminal row as it is;
\* mark_attempting has none, and relies on the pump never reaching it with a
\* row that has become terminal since the pump read it.  A terminal row is
\* only ever requeued by the operator (with its count reset) or deleted.
TerminalSticky ==
  [][\A d \in Delivery : row[d].state \in Terminal =>
       \/ row'[d].state = row[d].state
          /\ row'[d].attempts = row[d].attempts /\ row'[d].reason = row[d].reason
       \/ row'[d].state = "purged"
       \/ row[d].state # "delivered" /\ row'[d] = Requeue(row[d])]_vars

\* A row is marked attempting at most MAX_ATTEMPTS times between its insert
\* or requeue and its end: the two caps (on a nack in handle_result, on a
\* reclaimed row in process_due) leave no third path that bumps the count.
AttemptsBounded == \A d \in Delivery : row[d].attempts <= MaxAttempts

\* No more frames are queued for a row than it has counted attempts, but for
\* one: a frame the pump had marked and not yet queued when a late nack
\* dead-lettered the row and the operator requeued it.
SendsCounted == \A d \in Delivery : sends[d] <= row[d].attempts + 1

\* An expired delivery is never sent: a frame is queued only for a row whose
\* message had not expired when the pump read the clock for this batch.
NeverSentExpired ==
  [][\A d \in Delivery :
       sends'[d] > sends[d] /\ row[d].state \notin Gone =>
         row[d].ttl + pump.lag > 0]_vars

\* A row is delivered only if its frame has reached the plugin that owns it:
\* neither a report by another plugin nor a stale one marks it delivered.
DeliveredWasTaken ==
  \A d \in Delivery : row[d].state = "delivered" => d \in taken

\* What the pump has read and not yet acted on.
Held == pump.batch \cup (IF pump.pc = "decided" THEN pump.cur ELSE {})

\* What the pump has read of a row it may still send is what the table says:
\* nothing but the pump moves such a row, so acting on the snapshot later is
\* as good as acting on the row.  No row it holds is in flight.
SnapshotsFresh ==
  \A s \in Held :
    /\ row[s.id].state # "attempting"
    /\ s.attempts < MaxAttempts =>
         row[s.id].state = "pending" /\ row[s.id].attempts = s.attempts

\* ... which takes that it holds one snapshot of a row at most, and decides to
\* send no row that has used its attempts.  (With TypeOK, inductive.)
PumpInv ==
  /\ SnapshotsFresh
  /\ \A s, t \in pump.batch : s.id = t.id => s = t
  /\ \A s \in pump.cur, t \in pump.batch : s.id # t.id
  /\ \A s, t \in pump.cur : s = t
  /\ pump.pc = "decided" /\ pump.verdict = "send" =>
       \A s \in pump.cur : s.attempts < MaxAttempts
  /\ \A d \in Delivery : row[d].state = "unused" => row[d].attempts = 0

\* Admission: a new row is accepted only within both queue caps.
CapsHonoured ==
  [][\A d \in Delivery :
       row[d].state = "unused" /\ row'[d].state = "pending" =>
         /\ GlobalMax > 0 => PendingCount(Delivery)' <= GlobalMax
         /\ RouteMax > 0 =>
              PendingCount({e \in Delivery : Route[e] = Route[d]})' <= RouteMax]_vars

\* The queue implements the life of a delivery that the documentation draws:
\* whatever interleaves with the pump, a row moves along its edges only.
Lifecycle == INSTANCE DeliveryLifecycle WITH
  life <- [d \in Delivery |-> [state |-> row[d].state, attempts |-> row[d].attempts]]

ImplementsLifecycle == Lifecycle!Spec
-----------------------------------------------------------------------------
\* The pump loop always takes its next step and the clock always advances.
\* Crashes, panics, operator requeues and reports about a row that is not
\* awaiting one do stop in the end: each of them can put a row off again.
FairSpec ==
  /\ Spec
  /\ WF_vars(Tick) /\ WF_vars(PumpStep)
  /\ <>[][\/ Work
         \/ \E p \in Plugin, d \in Delivery, ok \in BOOLEAN :
              row[d].state = "attempting" /\ Report(p, d, ok)]_vars

\* Nothing stays queued for ever: with plugins that are away, deaf or silent,
\* spent budgets and full channels, every queued row is settled.
Settles ==
  \A d \in Delivery : row[d].state \in Live ~> row[d].state \notin Live
-----------------------------------------------------------------------------
\* docs/routing.md of RETRY_EXHAUSTED: "`attempt_count` reached
\* `MAX_ATTEMPTS` without a successful delivery".
ExhaustedUsedAttempts ==
  \A d \in Delivery :
    row[d].reason = "RETRY_EXHAUSTED" => row[d].attempts >= MaxAttempts

\* storage.rs of purge_terminal: it deletes terminal deliveries "that reached
\* their terminal state before `older_than`".
PurgedWhenOld ==
  [][\A d \in Delivery :
       EndBatchPurge /\ row[d].state \in Terminal /\ row'[d].state = "purged"
         => row[d].age > Retention]_vars

\* engine.rs of the transport budget: priority 0 "bypasses this check
\* entirely ... life-safety traffic must never wait behind a transport's
\* throughput cap".
EmergencyNotBudgeted ==
  \A s \in pump.cur : pump.verdict = "budget" => Priority[s.id] > 0

=============================================================================
