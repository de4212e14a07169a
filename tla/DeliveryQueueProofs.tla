------------------------- MODULE DeliveryQueueProofs -------------------------
(***************************************************************************)
(* Proofs about DeliveryQueue for every set of deliveries and plugins and  *)
(* every value of the limits and delays.                                   *)
(***************************************************************************)
EXTENDS DeliveryQueue, TLAPS

\* The prover of a step that names none, and its seconds.
USE ZenonT(60)

LEMMA StateNames ==
  /\ {"pending", "attempting", "unused", "purged"} \subseteq State
  /\ {"delivered", "failed", "expired", "dead_letter"} \subseteq State
  /\ Terminal \subseteq State
  /\ {"none", "REFUSED", "QUEUE_FULL", "TTL_EXPIRED", "RETRY_EXHAUSTED",
      "DESTINATION_UNKNOWN"} \subseteq Reason
  BY DEF State, Live, Terminal, Gone, Reason

LEMMA RowFields ==
  ASSUME NEW r \in Row
  PROVE  /\ r.state \in State /\ r.attempts \in Nat /\ r.next \in Int
         /\ r.age \in Nat /\ r.ttl \in Nat /\ r.reason \in Reason
         /\ r.prio \in Nat
  BY DEF Row

\* queue::backoff is total: every attempt count has a delay.
LEMMA BackoffType ==
  ASSUME NEW n \in Nat
  PROVE  Backoff(n) \in Nat
  BY StoreAssumption, SMTT(30) DEF Backoff

\* The statements of storage.rs map rows to rows.
LEMMA RowsToRows ==
  ASSUME NEW r \in Row
  PROVE  /\ MarkAttempting(r) \in Row
         /\ MarkDelivered(r) \in Row
         /\ \A w \in Int : MarkRetry(r, w) \in Row
         /\ \A s \in Terminal, why \in Reason : MarkTerminal(r, s, why) \in Row
         /\ Requeue(r) \in Row
         /\ Delete(r) \in Row
         /\ Recover(r) \in Row
         /\ ReclaimStale(r) \in Row
<1>1. MarkAttempting(r) \in Row
  <2>1. r.attempts + 1 \in Nat
    BY RowFields, SMTT(30)
  <2>2. [r EXCEPT !.state = "attempting", !.attempts = r.attempts + 1,
                  !.age = 0] \in Row
    BY <2>1, StateNames DEF Row
  <2> QED BY <2>2 DEF MarkAttempting
<1>2. MarkDelivered(r) \in Row
  BY StateNames DEF Row, MarkDelivered
<1>3. \A w \in Int : MarkRetry(r, w) \in Row
  BY StateNames DEF Row, MarkRetry
<1>4. \A s \in Terminal, why \in Reason : MarkTerminal(r, s, why) \in Row
  BY StateNames DEF Row, MarkTerminal
<1>5. Requeue(r) \in Row
  <2>1. ASSUME NEW n \in Int, NEW a \in Nat, NEW g \in Nat
        PROVE  [r EXCEPT !.state = "pending", !.next = n, !.attempts = a,
                         !.reason = "none", !.age = g] \in Row
    BY StateNames DEF Row
  <2>2. 0 \in Int /\ 0 \in Nat
    BY SMTT(30)
  <2> QED BY <2>1, <2>2 DEF Requeue
<1>6. Delete(r) \in Row
  BY StateNames, SMTT(30) DEF Row, Delete, NoRow, Normal
<1>7. Recover(r) \in Row /\ ReclaimStale(r) \in Row
  BY StateNames DEF Row, Recover, ReclaimStale
<1> QED BY <1>1, <1>2, <1>3, <1>4, <1>5, <1>6, <1>7

LEMMA ElapseType ==
  ASSUME NEW r \in Row
  PROVE  Elapse(r) \in Row
<1> DEFINE n == IF r.next > -Horizon THEN r.next - 1 ELSE r.next
           t == IF r.ttl > 0 THEN r.ttl - 1 ELSE 0
           a == IF r.state = "pending" THEN 0
                ELSE IF r.age < AgeCap THEN r.age + 1 ELSE r.age
<1>1. n \in Int /\ t \in Nat /\ a \in Nat
  BY RowFields, StoreAssumption, SMTT(30) DEF AgeCap
<1> HIDE DEF n, t, a
<1>2. [r EXCEPT !.next = n, !.ttl = t, !.age = a] \in Row
  BY <1>1 DEF Row
<1> QED BY <1>2 DEF Elapse, n, t, a

LEMMA InsertType ==
  /\ NoRow \in Row
  /\ \A p \in Nat : InsertDelivery(p) \in Row
  /\ \A why \in Reason : InsertDeadDelivery(why) \in Row
<1>1. NoRow \in Row
  BY StateNames, SMTT(30) DEF NoRow, Row, Normal
<1>2. \A p \in Nat : InsertDelivery(p) \in Row
  BY <1>1, StateNames, StoreAssumption DEF Row, InsertDelivery
<1>3. \A why \in Reason : InsertDeadDelivery(why) \in Row
  BY <1>1, StateNames, StoreAssumption DEF Row, InsertDeadDelivery
<1> QED BY <1>1, <1>2, <1>3

\* Whatever a verdict or a report writes is a row.
LEMMA EffectType ==
  ASSUME NEW r \in Row, NEW v \in Verdicts, NEW lag \in Nat, NEW ok \in BOOLEAN
  PROVE  Effect(v, r, lag) \in Row /\ ResultEffect(r, ok) \in Row
<1>1. OfflineDelay - lag \in Int /\ BudgetDelay - lag \in Int
  BY QueueAssumption, SMTT(30)
<1>2. \A s \in Terminal, why \in Reason : MarkTerminal(r, s, why) \in Row
  BY RowsToRows
<1>3. Effect(v, r, lag) \in Row
  BY <1>1, <1>2, RowsToRows DEF Effect, Verdicts, Terminal, Reason
<1>4. Backoff(r.attempts) \in Int
  BY BackoffType, RowFields, SMTT(30)
<1>5. ResultEffect(r, ok) \in Row
  BY <1>2, <1>4, RowsToRows DEF ResultEffect, Terminal, Reason
<1> QED BY <1>3, <1>5
-----------------------------------------------------------------------------
LEMMA WrittenType ==
  ASSUME NEW old, NEW new, NEW w \in Written(old, new)
  PROVE  w = old \/ w = new
  BY DEF Written

\* The pump's record keeps its shape.
LEMMA PumpTypes ==
  ASSUME pump \in PumpState
  PROVE  /\ Idle \in PumpState
         /\ NextDue \in PumpState
         /\ \A c \in {"idle", "batch", "decided", "sending", "unsent"} :
              [pump EXCEPT !.pc = c] \in PumpState
         /\ \A x \in {"current", "displaced", "closed"} :
              [pump EXCEPT !.tx = x] \in PumpState
         /\ [pump EXCEPT !.lag = @ + 1] \in PumpState
         /\ \A b \in SUBSET Snap : [Idle EXCEPT !.pc = "batch", !.batch = b] \in PumpState
         /\ \A s \in pump.cur : s.id \in Delivery
         /\ \A s \in pump.batch : s.id \in Delivery
         /\ pump.verdict \in Verdicts /\ pump.lag \in Nat
<1>1. Idle \in PumpState
  BY DEF Idle, PumpState, Verdicts
<1>2. NextDue \in PumpState
  BY DEF NextDue, PumpState, Verdicts
<1>3. \A c \in {"idle", "batch", "decided", "sending", "unsent"} :
        [pump EXCEPT !.pc = c] \in PumpState
  BY DEF PumpState
<1>4. \A x \in {"current", "displaced", "closed"} :
        [pump EXCEPT !.tx = x] \in PumpState
  BY DEF PumpState
<1>5. [pump EXCEPT !.lag = @ + 1] \in PumpState
  <2>1. pump.lag + 1 \in Nat
    BY SMTT(30) DEF PumpState
  <2> QED BY <2>1 DEF PumpState
<1>6. \A b \in SUBSET Snap :
        [Idle EXCEPT !.pc = "batch", !.batch = b] \in PumpState
  BY DEF Idle, PumpState, Verdicts
<1>7. /\ \A s \in pump.cur : s.id \in Delivery
      /\ \A s \in pump.batch : s.id \in Delivery
      /\ pump.verdict \in Verdicts /\ pump.lag \in Nat
  BY DEF PumpState, Snap
<1> QED BY <1>1, <1>2, <1>3, <1>4, <1>5, <1>6, <1>7

LEMMA SnapType ==
  ASSUME NEW rows \in [Delivery -> Row], NEW S \in DueDeliveries(rows)
  PROVE  S \in SUBSET Snap
<1>1. \A d \in Delivery : SnapOf(d, rows[d]) \in Snap
  BY RowFields, SMTT(30) DEF SnapOf, Snap
<1> QED BY <1>1 DEF DueDeliveries

\* Type correctness, of every action.
LEMMA TypeStep == TypeOK /\ [Next]_vars => TypeOK'
<1> SUFFICES ASSUME TypeOK, [Next]_vars PROVE TypeOK'
  OBVIOUS
<1> USE DEF TypeOK
<1>1. ASSUME NEW d \in Delivery, FanOut(d) PROVE TypeOK'
  <2>1. InsertDeadDelivery("QUEUE_FULL") \in Row /\ InsertDelivery(Priority[d]) \in Row
    BY InsertType, StateNames, QueueAssumption
  <2> QED BY <1>1, <2>1 DEF FanOut
<1>2. CASE Tick
  <2>1. row' \in [Delivery -> Row]
    BY <1>2, ElapseType DEF Tick
  <2> QED BY <1>2, <2>1, PumpTypes DEF Tick
<1>3. CASE PumpTick
  <2>1. PICK rows \in Written(row, [d \in Delivery |-> ReclaimStale(row[d])]) :
          /\ row' = rows
          /\ \E due \in DueDeliveries(rows) : \E batch \in Written({}, due) :
               pump' = [Idle EXCEPT !.pc = "batch", !.batch = batch]
    BY <1>3 DEF PumpTick
  <2>2. rows \in [Delivery -> Row]
    BY WrittenType, RowsToRows, SMTT(30)
  <2>3. \A due \in DueDeliveries(rows) : \A batch \in Written({}, due) :
          batch \in SUBSET Snap
    BY <2>2, SnapType, WrittenType
  <2>4. \A b \in SUBSET Snap : [Idle EXCEPT !.pc = "batch", !.batch = b] \in PumpState
    BY PumpTypes
  <2>5. pump' \in PumpState
    BY <2>1, <2>3, <2>4
  <2> QED BY <1>3, <2>1, <2>2, <2>5 DEF PumpTick
<1>4. CASE Decide
  <2>1. PICK s \in pump.batch : \E v \in Outcomes(s) :
          pump' = [pump EXCEPT !.pc = "decided", !.batch = @ \ {s},
                     !.cur = {s}, !.verdict = v,
                     !.tx = IF v = "send" THEN "current" ELSE "closed"]
    BY <1>4 DEF Decide
  <2>2. Outcomes(s) \subseteq Verdicts
    BY DEF Outcomes, Verdicts
  <2>3. s \in Snap
    BY DEF PumpState
  <2>4. pump.batch \ {s} \in SUBSET Snap /\ {s} \in SUBSET Snap
    BY <2>3 DEF PumpState
  <2>5. ASSUME NEW b \in SUBSET Snap, NEW c \in SUBSET Snap, NEW v \in Verdicts,
               NEW x \in {"current", "closed"}
        PROVE  [pump EXCEPT !.pc = "decided", !.batch = b, !.cur = c,
                            !.verdict = v, !.tx = x] \in PumpState
    BY DEF PumpState
  <2>6. PICK v \in Outcomes(s) :
          pump' = [pump EXCEPT !.pc = "decided", !.batch = @ \ {s},
                     !.cur = {s}, !.verdict = v,
                     !.tx = IF v = "send" THEN "current" ELSE "closed"]
    BY <2>1
  <2> DEFINE x == IF v = "send" THEN "current" ELSE "closed"
             b == pump.batch \ {s}
  <2>7. v \in Verdicts /\ x \in {"current", "closed"} /\ b \in SUBSET Snap
    BY <2>2, <2>4
  <2>8. pump' = [pump EXCEPT !.pc = "decided", !.batch = b, !.cur = {s},
                             !.verdict = v, !.tx = x]
    BY <2>6
  <2> HIDE DEF x, b
  <2>9. pump' \in PumpState
    BY <2>4, <2>5, <2>7, <2>8
  <2> QED BY <1>4, <2>9 DEF Decide
<1>5. CASE ApplyVerdict
  <2>1. PICK s \in pump.cur :
          \E r \in Written(row[s.id], Effect(pump.verdict, row[s.id], pump.lag)) :
             row' = [row EXCEPT ![s.id] = r]
    BY <1>5 DEF ApplyVerdict
  <2>2. s.id \in Delivery /\ row[s.id] \in Row
    BY PumpTypes
  <2>3. Effect(pump.verdict, row[s.id], pump.lag) \in Row
    BY <2>2, EffectType, PumpTypes
  <2>4. row' \in [Delivery -> Row]
    BY <2>1, <2>2, <2>3, WrittenType, SMTT(30)
  <2> QED BY <1>5, <2>4, PumpTypes DEF ApplyVerdict
<1>6. CASE TrySendOk
  <2>1. \A s \in pump.cur : s.id \in Delivery /\ Owner[s.id] \in Plugin
    BY QueueAssumption, PumpTypes
  <2>2. sends' \in [Delivery -> Nat]
    BY <1>6, <2>1, SMTT(30) DEF TrySendOk
  <2>3. \A s \in pump.cur :
          Append(channel[Owner[s.id]], s.id) \in Seq(Delivery)
    BY <2>1, SMTT(30)
  <2>4. channel' \in [Plugin -> Seq(Delivery)]
    <3>1. \/ UNCHANGED channel
          \/ \E s \in pump.cur : channel' =
               [channel EXCEPT ![Owner[s.id]] = Append(channel[Owner[s.id]], s.id)]
      BY <1>6 DEF TrySendOk
    <3> QED BY <2>1, <2>3, <3>1
  <2>5. taken' \in SUBSET Delivery
    BY <1>6, <2>1 DEF TrySendOk
  <2> QED BY <1>6, <2>2, <2>4, <2>5, PumpTypes DEF TrySendOk
<1>7. CASE TrySendErr
  BY <1>7, PumpTypes DEF TrySendErr
<1>8. CASE RetryUnsent
  <2>1. PICK s \in pump.cur :
          \E r \in Written(row[s.id], MarkRetry(row[s.id], OfflineDelay - pump.lag)) :
             row' = [row EXCEPT ![s.id] = r]
    BY <1>8 DEF RetryUnsent
  <2>2. s.id \in Delivery /\ row[s.id] \in Row
    BY PumpTypes
  <2>3. OfflineDelay - pump.lag \in Int
    BY QueueAssumption, SMTT(30) DEF PumpState
  <2>4. MarkRetry(row[s.id], OfflineDelay - pump.lag) \in Row
    BY <2>2, <2>3, RowsToRows
  <2>5. row' \in [Delivery -> Row]
    BY <2>1, <2>2, <2>4, WrittenType, SMTT(30)
  <2> QED BY <1>8, <2>5, PumpTypes DEF RetryUnsent
<1>9. CASE EndBatch \/ PumpPanic
  BY <1>9, PumpTypes DEF EndBatch, PumpPanic
<1>10. CASE EndBatchPurge
  <2>1. [d \in Delivery |-> PurgeTerminal(row[d], pump.lag)] \in [Delivery -> Row]
    BY RowsToRows DEF PurgeTerminal
  <2>2. row' \in [Delivery -> Row] /\ sends' \in [Delivery -> Nat]
    BY <1>10, <2>1, WrittenType, SMTT(30) DEF EndBatchPurge
  <2> QED BY <1>10, <2>2, PumpTypes DEF EndBatchPurge
<1>11. ASSUME NEW p \in Plugin,
              Connect(p) \/ PluginTake(p) \/ DropOversize(p) \/ WriterEnds(p)
                \/ Disconnect(p)
       PROVE  TypeOK'
  <2>1. CASE Connect(p)
    <3>1. Range(channel[p]) \subseteq Delivery
      BY SMTT(30) DEF Range
    <3>2. pump' \in PumpState
      BY <2>1, PumpTypes DEF Connect
    <3> QED BY <2>1, <3>1, <3>2, SMTT(30) DEF Connect
  <2>2. CASE PluginTake(p) \/ DropOversize(p)
    <3>1. channel[p] \in Seq(Delivery) /\ channel[p] # <<>>
      BY <2>2 DEF PluginTake, DropOversize
    <3>2. Head(channel[p]) \in Delivery /\ Tail(channel[p]) \in Seq(Delivery)
      BY <3>1, SMTT(30)
    <3> QED BY <2>2, <3>2 DEF PluginTake, DropOversize
  <2>3. CASE WriterEnds(p) \/ Disconnect(p)
    <3>1. <<>> \in Seq(Delivery)
      BY SMTT(30)
    <3> QED BY <2>3, <3>1, PumpTypes DEF WriterEnds, Disconnect
  <2> QED BY <1>11, <2>1, <2>2, <2>3
<1>12. ASSUME NEW p \in Plugin, NEW d \in Delivery, NEW ok \in BOOLEAN,
              Report(p, d, ok)
       PROVE  TypeOK'
  <2>1. row[d] \in Row /\ ResultEffect(row[d], ok) \in Row
    BY EffectType DEF Verdicts
  <2>2. \A r \in HandleResult(p, d, ok) : r \in Row
    BY <2>1, WrittenType DEF HandleResult
  <2> QED BY <1>12, <2>2 DEF Report
<1>13. ASSUME NEW d \in Delivery, QueueRequeue(d) PROVE TypeOK'
  BY <1>13, RowsToRows DEF QueueRequeue
<1>14. CASE QueuePurge
  <2>1. row' \in [Delivery -> Row]
    BY <1>14, RowsToRows DEF QueuePurge, PurgeDeadLetter
  <2> QED BY <1>14, <2>1 DEF QueuePurge
<1>15. CASE CrashRestart
  <2>1. row' \in [Delivery -> Row]
    BY <1>15, RowsToRows DEF CrashRestart
  <2>2. channel' \in [Plugin -> Seq(Delivery)]
    BY <1>15, SMTT(30) DEF CrashRestart
  <2>3. Idle \in PumpState
    BY PumpTypes
  <2> QED BY <1>15, <2>1, <2>2, <2>3 DEF CrashRestart
<1>16. CASE UNCHANGED vars
  BY <1>16 DEF vars
<1> QED
  BY <1>1, <1>2, <1>3, <1>4, <1>5, <1>6, <1>7, <1>8, <1>9, <1>10, <1>11,
     <1>12, <1>13, <1>14, <1>15, <1>16
  DEF Next, Calm, Work, PumpStep

\* The state always has its type: every row, snapshot, channel and count.
THEOREM TypeCorrect == Spec => []TypeOK
<1>1. Init => TypeOK
  BY InsertType, SMTT(30) DEF Init, TypeOK, Idle, PumpState, Verdicts
<1> QED BY <1>1, TypeStep, PTL DEF Spec

-----------------------------------------------------------------------------
(***************************************************************************)
(* The delivery queue's safety, for every value of the constants: the      *)
(* inductive invariant of the pump, terminal rows, the attempt limit, and  *)
(* that the queue implements the life of a delivery.                       *)
(***************************************************************************)

\* How one step may change a row: the edges of its life.
Moved(r, q) ==
  \/ q.state = r.state /\ q.attempts = r.attempts /\ q.reason = r.reason
  \/ r.state = "unused" /\ q.state \in {"pending", "dead_letter"} /\ q.attempts = 0
  \/ /\ r.state = "pending" /\ r.attempts < MaxAttempts
     /\ q.state = "attempting" /\ q.attempts = r.attempts + 1
  \/ /\ r.state = "attempting"
     /\ q.state \in {"pending", "delivered", "dead_letter"}
     /\ q.attempts = r.attempts
  \/ /\ r.state = "pending" /\ q.state \in {"failed", "expired", "dead_letter"}
     /\ q.attempts = r.attempts
  \/ r.state \in Requeuable /\ q = Requeue(r)
  \/ r.state \in Terminal /\ q = Delete(r)

\* What each statement of storage.rs does to the columns that matter here.
LEMMA MarkMoves ==
  ASSUME NEW r \in Row
  PROVE  /\ Moved(r, MarkDelivered(r))
         /\ \A w : Moved(r, MarkRetry(r, w))
         /\ \A why : Moved(r, MarkTerminal(r, "dead_letter", why))
         /\ r.state # "attempting" =>
              \A s \in {"failed", "expired"} : \A why : Moved(r, MarkTerminal(r, s, why))
         /\ r.state = "pending" /\ r.attempts < MaxAttempts =>
              Moved(r, MarkAttempting(r))
<1>1. Moved(r, MarkDelivered(r))
  BY DEF Moved, MarkDelivered, Row
<1>2. \A w : Moved(r, MarkRetry(r, w))
  BY DEF Moved, MarkRetry, Row, Live
<1>3. \A why : Moved(r, MarkTerminal(r, "dead_letter", why))
  BY DEF Moved, MarkTerminal, Row, Live
<1>4. ASSUME r.state # "attempting", NEW s \in {"failed", "expired"}, NEW why
      PROVE  Moved(r, MarkTerminal(r, s, why))
  BY <1>4 DEF Moved, MarkTerminal, Row, Live
<1>5. ASSUME r.state = "pending", r.attempts < MaxAttempts
      PROVE  Moved(r, MarkAttempting(r))
  BY <1>5 DEF Moved, MarkAttempting, Row, Gone
<1> QED BY <1>1, <1>2, <1>3, <1>4, <1>5

LEMMA SweepMoves ==
  ASSUME NEW r \in Row
  PROVE  /\ Moved(r, Elapse(r)) /\ Moved(r, Recover(r))
         /\ Moved(r, ReclaimStale(r)) /\ Moved(r, PurgeDeadLetter(r))
         /\ \A lag : Moved(r, PurgeTerminal(r, lag))
         /\ \A ok \in BOOLEAN : Moved(r, ResultEffect(r, ok))
<1>1. Moved(r, Elapse(r))
  BY DEF Moved, Elapse, Row
<1>2. Moved(r, Recover(r)) /\ Moved(r, ReclaimStale(r))
  BY DEF Moved, Recover, ReclaimStale, Row
<1>3. Moved(r, PurgeDeadLetter(r)) /\ \A lag : Moved(r, PurgeTerminal(r, lag))
  BY DEF Moved, PurgeDeadLetter, PurgeTerminal, Terminal
<1>4. \A ok \in BOOLEAN : Moved(r, ResultEffect(r, ok))
  BY MarkMoves DEF ResultEffect
<1> QED BY <1>1, <1>2, <1>3, <1>4

\* A row that a snapshot may still be sent for is left pending, with its
\* count, by everything that can happen to it outside the pump.
LEMMA PendingStays ==
  ASSUME NEW r \in Row, r.state = "pending", r.attempts < MaxAttempts
  PROVE  /\ Elapse(r).state = "pending" /\ Elapse(r).attempts = r.attempts
         /\ PurgeDeadLetter(r) = r
         /\ \A ok \in BOOLEAN : /\ ResultEffect(r, ok).state = "pending"
                                /\ ResultEffect(r, ok).attempts = r.attempts
<1>1. Elapse(r).state = "pending" /\ Elapse(r).attempts = r.attempts
  BY DEF Elapse, Row, Gone
<1>2. PurgeDeadLetter(r) = r
  BY DEF PurgeDeadLetter
<1>3. ASSUME NEW ok \in BOOLEAN
      PROVE  /\ ResultEffect(r, ok).state = "pending"
             /\ ResultEffect(r, ok).attempts = r.attempts
  <2>1. ~(r.attempts >= MaxAttempts)
    BY RowFields, StoreAssumption, SMTT(30)
  <2> QED BY <2>1 DEF ResultEffect, MarkDelivered, MarkRetry, Row, Live
<1> QED BY <1>1, <1>2, <1>3

\* Only the pump puts a row in flight.
LEMMA NotInFlight ==
  ASSUME NEW r \in Row, r.state # "attempting"
  PROVE  /\ Elapse(r).state # "attempting"
         /\ PurgeDeadLetter(r).state # "attempting"
         /\ Requeue(r).state # "attempting"
         /\ \A ok \in BOOLEAN : ResultEffect(r, ok).state # "attempting"
<1>1. Elapse(r).state # "attempting"
  BY DEF Elapse, Row
<1>2. PurgeDeadLetter(r).state # "attempting" /\ Requeue(r).state # "attempting"
  BY DEF PurgeDeadLetter, Delete, NoRow, Requeue, Row
<1>3. \A ok \in BOOLEAN : ResultEffect(r, ok).state # "attempting"
  BY DEF ResultEffect, MarkDelivered, MarkRetry, MarkTerminal, Row, Live
<1> QED BY <1>1, <1>2, <1>3

\* Applying a verdict moves the row the pump decided about along an edge.
LEMMA VerdictMoves ==
  ASSUME TypeOK, PumpInv, pump.pc = "decided", NEW s \in pump.cur
  PROVE  Moved(row[s.id], Effect(pump.verdict, row[s.id], pump.lag))
<1>1. s.id \in Delivery /\ row[s.id] \in Row
  BY PumpTypes DEF TypeOK
<1>2. s \in Held
  BY DEF Held
<1>3. row[s.id].state # "attempting"
  BY <1>2 DEF PumpInv, SnapshotsFresh
<1>4. CASE pump.verdict = "send"
  <2>1. s.attempts < MaxAttempts
    BY <1>4 DEF PumpInv
  <2>2. row[s.id].state = "pending" /\ row[s.id].attempts < MaxAttempts
    BY <1>2, <2>1 DEF PumpInv, SnapshotsFresh
  <2>3. Effect(pump.verdict, row[s.id], pump.lag) = MarkAttempting(row[s.id])
    BY <1>4 DEF Effect
  <2> QED BY <1>1, <2>2, <2>3, MarkMoves
<1>5. CASE pump.verdict # "send"
  <2>1. pump.verdict \in Verdicts \ {"send"}
    BY <1>5, PumpTypes DEF TypeOK
  <2> QED BY <1>1, <1>3, <2>1, MarkMoves DEF Effect, Verdicts
<1> QED BY <1>4, <1>5

LEMMA Unmoved == \A r : Moved(r, r)
  BY DEF Moved

\* Every step moves every row along an edge of its life, or not at all.
LEMMA RowsMove ==
  TypeOK /\ PumpInv /\ [Next]_vars => \A d \in Delivery : Moved(row[d], row'[d])
<1> SUFFICES ASSUME TypeOK, PumpInv, [Next]_vars, NEW d \in Delivery
             PROVE  Moved(row[d], row'[d])
  OBVIOUS
<1>0. row[d] \in Row /\ row \in [Delivery -> Row]
  BY DEF TypeOK
<1>1. ASSUME NEW e \in Delivery, FanOut(e) PROVE Moved(row[d], row'[d])
  BY <1>0, <1>1, Unmoved
  DEF FanOut, Moved, InsertDelivery, InsertDeadDelivery, NoRow
<1>2. CASE Tick
  BY <1>0, <1>2, SweepMoves DEF Tick
<1>3. CASE PumpTick
  <2>1. row' = row \/ row' = [e \in Delivery |-> ReclaimStale(row[e])]
    BY <1>3, WrittenType DEF PumpTick
  <2> QED BY <1>0, <2>1, SweepMoves, Unmoved
<1>4. CASE ApplyVerdict
  <2>1. PICK s \in pump.cur :
          \E r \in Written(row[s.id], Effect(pump.verdict, row[s.id], pump.lag)) :
             row' = [row EXCEPT ![s.id] = r]
    BY <1>4 DEF ApplyVerdict
  <2>2. Moved(row[s.id], Effect(pump.verdict, row[s.id], pump.lag))
    BY <1>4, VerdictMoves DEF ApplyVerdict
  <2> QED BY <1>0, <2>1, <2>2, WrittenType, Unmoved
<1>5. CASE RetryUnsent
  <2>1. PICK s \in pump.cur :
          \E r \in Written(row[s.id], MarkRetry(row[s.id], OfflineDelay - pump.lag)) :
             row' = [row EXCEPT ![s.id] = r]
    BY <1>5 DEF RetryUnsent
  <2>2. s.id \in Delivery
    BY PumpTypes DEF TypeOK
  <2>3. Moved(row[s.id], MarkRetry(row[s.id], OfflineDelay - pump.lag))
    BY <1>0, <2>2, MarkMoves
  <2> QED BY <1>0, <2>1, <2>3, WrittenType, Unmoved
<1>6. CASE EndBatchPurge
  <2>1. row' = row \/ row' = [e \in Delivery |-> PurgeTerminal(row[e], pump.lag)]
    BY <1>6, WrittenType DEF EndBatchPurge
  <2> QED BY <1>0, <2>1, SweepMoves, Unmoved
<1>7. ASSUME NEW p \in Plugin, NEW e \in Delivery, NEW ok \in BOOLEAN,
             Report(p, e, ok)
      PROVE  Moved(row[d], row'[d])
  <2>1. PICK r \in HandleResult(p, e, ok) : row' = [row EXCEPT ![e] = r]
    BY <1>7 DEF Report
  <2>2. r = row[e] \/ r = ResultEffect(row[e], ok)
    BY WrittenType DEF HandleResult
  <2> QED BY <1>0, <2>1, <2>2, SweepMoves, Unmoved
<1>8. ASSUME NEW e \in Delivery, QueueRequeue(e) PROVE Moved(row[d], row'[d])
  BY <1>0, <1>8, Unmoved DEF QueueRequeue, Moved
<1>9. CASE QueuePurge \/ CrashRestart
  BY <1>0, <1>9, SweepMoves DEF QueuePurge, CrashRestart
<1>10. CASE \/ Decide \/ TrySendOk \/ TrySendErr \/ EndBatch \/ PumpPanic
            \/ UNCHANGED vars
            \/ \E p \in Plugin : \/ Connect(p) \/ PluginTake(p) \/ DropOversize(p)
                                 \/ WriterEnds(p) \/ Disconnect(p)
  <2>1. row' = row
    BY <1>10 DEF Decide, TrySendOk, TrySendErr, EndBatch, PumpPanic, vars, Connect,
       PluginTake, DropOversize, WriterEnds, Disconnect
  <2> QED BY <2>1, Unmoved
<1> QED
  BY <1>1, <1>2, <1>3, <1>4, <1>5, <1>6, <1>7, <1>8, <1>9, <1>10
  DEF Next, Calm, Work, PumpStep
-----------------------------------------------------------------------------
\* What a snapshot of a row relies on.
Kept(r, q) ==
  /\ r.state # "attempting" => q.state # "attempting"
  /\ r.state = "pending" /\ r.attempts < MaxAttempts =>
       q.state = "pending" /\ q.attempts = r.attempts

\* A step that adds no snapshot and keeps the rows of those held preserves
\* the pump's invariant.
LEMMA HeldKept ==
  ASSUME TypeOK, PumpInv, [Next]_vars,
         pump'.batch \subseteq pump.batch,
         pump'.cur \subseteq pump.cur,
         pump'.pc = "decided" =>
           pump.pc = "decided" /\ pump'.verdict = pump.verdict,
         \A s \in pump'.batch \cup (IF pump'.pc = "decided" THEN pump'.cur ELSE {}) :
           Kept(row[s.id], row'[s.id])
  PROVE  PumpInv'
<1>1. \A d \in Delivery : Moved(row[d], row'[d])
  BY RowsMove
<1>2. \A d \in Delivery : row'[d].state = "unused" => row'[d].attempts = 0
  <2> SUFFICES ASSUME NEW d \in Delivery, row'[d].state = "unused"
               PROVE  row'[d].attempts = 0
    OBVIOUS
  <2>1. row[d] \in Row /\ Moved(row[d], row'[d])
    BY <1>1 DEF TypeOK
  <2>2. Requeue(row[d]).state = "pending" /\ Delete(row[d]).state = "purged"
    BY <2>1 DEF Requeue, Delete, NoRow, Row
  <2> QED BY <2>1, <2>2 DEF Moved, PumpInv
<1>3. Held' \subseteq Held
  BY DEF Held
<1>4. SnapshotsFresh'
  <2> SUFFICES ASSUME NEW s \in Held'
               PROVE  /\ row'[s.id].state # "attempting"
                      /\ s.attempts < MaxAttempts =>
                           row'[s.id].state = "pending" /\ row'[s.id].attempts = s.attempts
    BY DEF SnapshotsFresh
  <2>1. s \in Held /\ Kept(row[s.id], row'[s.id])
    BY <1>3 DEF Held
  <2> QED BY <2>1 DEF Kept, PumpInv, SnapshotsFresh
<1>5. /\ \A s, t \in pump'.batch : s.id = t.id => s = t
      /\ \A s \in pump'.cur, t \in pump'.batch : s.id # t.id
      /\ \A s, t \in pump'.cur : s = t
      /\ pump'.pc = "decided" /\ pump'.verdict = "send" =>
           \A s \in pump'.cur : s.attempts < MaxAttempts
  BY DEF PumpInv
<1> QED BY <1>2, <1>4, <1>5 DEF PumpInv

\* The step of the inductive invariant, action by action.
LEMMA PumpInvStep == TypeOK /\ PumpInv /\ [Next]_vars => PumpInv'
<1> SUFFICES ASSUME TypeOK, PumpInv, [Next]_vars PROVE PumpInv'
  OBVIOUS
<1>0. row \in [Delivery -> Row] /\ pump \in PumpState
  BY DEF TypeOK
<1>01. \A s \in pump.batch \cup pump.cur : s.id \in Delivery
  BY <1>0, PumpTypes
<1>02. NextDue.pc = "batch" /\ NextDue.batch = pump.batch /\ NextDue.cur = {}
  BY <1>0 DEF NextDue, PumpState
<1>1. ASSUME NEW e \in Delivery, FanOut(e) PROVE PumpInv'
  <2>1. \A d \in Delivery : Kept(row[d], row'[d])
    BY <1>0, <1>1 DEF FanOut, Kept, InsertDelivery, InsertDeadDelivery, NoRow
  <2> QED BY <1>1, <1>01, <2>1, HeldKept DEF FanOut
<1>2. CASE Tick
  <2>1. \A d \in Delivery : Kept(row[d], row'[d])
    BY <1>0, <1>2, PendingStays, NotInFlight DEF Tick, Kept
  <2>2. /\ pump'.batch = pump.batch /\ pump'.cur = pump.cur
        /\ pump'.pc = pump.pc /\ pump'.verdict = pump.verdict
    BY <1>0, <1>2 DEF Tick, PumpState
  <2> QED BY <1>01, <2>1, <2>2, HeldKept
<1>3. CASE PumpTick
  <2>1. PICK rows \in Written(row, [d \in Delivery |-> ReclaimStale(row[d])]) :
          /\ row' = rows
          /\ \E due \in DueDeliveries(rows) : \E batch \in Written({}, due) :
               pump' = [Idle EXCEPT !.pc = "batch", !.batch = batch]
    BY <1>3 DEF PumpTick
  <2>2. PICK due \in DueDeliveries(rows) :
          \E batch \in Written({}, due) :
            pump' = [Idle EXCEPT !.pc = "batch", !.batch = batch]
    BY <2>1
  <2>3. pump'.pc = "batch" /\ pump'.cur = {} /\ pump'.batch \subseteq due
    BY <2>2, WrittenType DEF Idle
  <2>4. \A s \in due : \E d \in Delivery : Due(rows[d]) /\ s = SnapOf(d, rows[d])
    BY DEF DueDeliveries
  <2>5. SnapshotsFresh'
    BY <2>1, <2>3, <2>4, SMTT(30) DEF SnapshotsFresh, Held, Due, SnapOf
  <2>6. \A s, t \in pump'.batch : s.id = t.id => s = t
    BY <2>3, <2>4, SMTT(30) DEF SnapOf
  <2>7. \A d \in Delivery : row'[d].state = "unused" => row'[d].attempts = 0
    <3>1. row' = row \/ row' = [d \in Delivery |-> ReclaimStale(row[d])]
      BY <2>1, WrittenType
    <3>2. \A d \in Delivery : ReclaimStale(row[d]).state = "unused" =>
            row[d].state = "unused" /\ ReclaimStale(row[d]).attempts = row[d].attempts
      BY <1>0 DEF ReclaimStale, Row
    <3> QED BY <3>1, <3>2 DEF PumpInv
  <2> QED BY <2>3, <2>5, <2>6, <2>7 DEF PumpInv
<1>4. CASE Decide
  <2>1. PICK s \in pump.batch : \E v \in Outcomes(s) :
          pump' = [pump EXCEPT !.pc = "decided", !.batch = @ \ {s},
                     !.cur = {s}, !.verdict = v,
                     !.tx = IF v = "send" THEN "current" ELSE "closed"]
    BY <1>4 DEF Decide
  <2>2. /\ pump'.pc = "decided" /\ pump'.batch = pump.batch \ {s}
        /\ pump'.cur = {s} /\ pump'.verdict \in Outcomes(s)
    BY <1>0, <2>1 DEF PumpState
  <2>3. row' = row
    BY <1>4 DEF Decide
  <2>4. Held' \subseteq Held
    BY <2>2 DEF Held
  <2>5. SnapshotsFresh'
    BY <2>3, <2>4 DEF PumpInv, SnapshotsFresh
  <2>6. \A t \in pump'.batch : s.id # t.id
    BY <2>2 DEF PumpInv
  <2>7. pump'.verdict = "send" => s.attempts < MaxAttempts
    <3>1. s.attempts \in Nat /\ MaxAttempts \in Nat
      BY <1>0, StoreAssumption DEF PumpState, Snap
    <3> QED BY <2>2, <3>1, SMTT(30) DEF Outcomes
  <2> QED BY <2>2, <2>3, <2>5, <2>6, <2>7 DEF PumpInv
<1>5. CASE ApplyVerdict \/ RetryUnsent
  <2>1. PICK s \in pump.cur : \E r : row' = [row EXCEPT ![s.id] = r]
    BY <1>5 DEF ApplyVerdict, RetryUnsent
  <2>2. /\ pump'.batch = pump.batch /\ pump'.cur \subseteq pump.cur
        /\ pump'.pc # "decided"
    BY <1>0, <1>02, <1>5 DEF ApplyVerdict, RetryUnsent, PumpState
  <2>3. \A t \in pump.batch : row'[t.id] = row[t.id]
    BY <1>0, <1>01, <2>1 DEF PumpInv
  <2> QED BY <2>2, <2>3, HeldKept DEF Kept
<1>6. CASE TrySendOk \/ TrySendErr
  <2>1. /\ pump'.batch = pump.batch /\ pump'.cur \subseteq pump.cur
        /\ pump'.pc # "decided" /\ row' = row
    BY <1>0, <1>02, <1>6 DEF TrySendOk, TrySendErr, PumpState
  <2> QED BY <2>1, HeldKept DEF Kept
<1>7. CASE EndBatch \/ EndBatchPurge \/ PumpPanic \/ CrashRestart
  <2>1. pump'.batch = {} /\ pump'.cur = {} /\ pump'.pc # "decided"
    BY <1>7, SMTT(30) DEF EndBatch, EndBatchPurge, PumpPanic, CrashRestart, Idle
  <2> QED BY <2>1, HeldKept
<1>8. ASSUME NEW p \in Plugin,
             Connect(p) \/ PluginTake(p) \/ DropOversize(p) \/ WriterEnds(p)
               \/ Disconnect(p)
      PROVE  PumpInv'
  <2>1. /\ pump'.batch = pump.batch /\ pump'.cur = pump.cur
        /\ pump'.pc = pump.pc /\ pump'.verdict = pump.verdict /\ row' = row
    BY <1>0, <1>8 DEF Connect, PluginTake, DropOversize, WriterEnds, Disconnect,
       PumpState
  <2> QED BY <2>1, HeldKept DEF Kept
<1>9. ASSUME NEW p \in Plugin, NEW e \in Delivery, NEW ok \in BOOLEAN,
             Report(p, e, ok)
      PROVE  PumpInv'
  <2>1. PICK r \in HandleResult(p, e, ok) : row' = [row EXCEPT ![e] = r]
    BY <1>9 DEF Report
  <2>2. r = row[e] \/ r = ResultEffect(row[e], ok)
    BY WrittenType DEF HandleResult
  <2>3. Kept(row[e], r)
    BY <1>0, <2>2, PendingStays, NotInFlight DEF Kept
  <2>4. \A d \in Delivery : Kept(row[d], row'[d])
    BY <1>0, <2>1, <2>3 DEF Kept
  <2> QED BY <1>9, <1>01, <2>4, HeldKept DEF Report
<1>10. CASE QueuePurge \/ \E e \in Delivery : QueueRequeue(e)
  <2>1. \A d \in Delivery : Kept(row[d], row'[d])
    BY <1>0, <1>10, PendingStays, NotInFlight, SMTT(30)
    DEF QueuePurge, QueueRequeue, Kept, Requeuable
  <2> QED BY <1>10, <1>01, <2>1, HeldKept DEF QueuePurge, QueueRequeue
<1>11. CASE UNCHANGED vars
  BY <1>11, HeldKept DEF vars, Kept
<1> QED
  BY <1>1, <1>2, <1>3, <1>4, <1>5, <1>6, <1>7, <1>8, <1>9, <1>10, <1>11
  DEF Next, Calm, Work, PumpStep

\* No snapshot the pump may still act on goes stale: PumpInv is invariant.
THEOREM PumpInvariant == Spec => []PumpInv
<1>1. Init => PumpInv
  BY SMTT(30) DEF Init, PumpInv, SnapshotsFresh, Held, Idle, NoRow
<1> QED BY <1>1, PumpInvStep, TypeCorrect, PTL DEF Spec

\* A terminal row is never changed but by a requeue or a deletion, although
\* mark_attempting does not look at the state it overwrites.
THEOREM TerminalIsSticky == Spec => TerminalSticky
<1>1. TypeOK /\ PumpInv /\ [Next]_vars =>
        [\A d \in Delivery : row[d].state \in Terminal =>
           \/ row'[d].state = row[d].state
              /\ row'[d].attempts = row[d].attempts /\ row'[d].reason = row[d].reason
           \/ row'[d].state = "purged"
           \/ row[d].state # "delivered" /\ row'[d] = Requeue(row[d])]_vars
  <2> SUFFICES ASSUME TypeOK, PumpInv, [Next]_vars,
                      NEW d \in Delivery, row[d].state \in Terminal
               PROVE  \/ /\ row'[d].state = row[d].state
                         /\ row'[d].attempts = row[d].attempts
                         /\ row'[d].reason = row[d].reason
                      \/ row'[d].state = "purged"
                      \/ row[d].state # "delivered" /\ row'[d] = Requeue(row[d])
    OBVIOUS
  <2>1. Moved(row[d], row'[d])
    BY RowsMove
  <2>2. Delete(row[d]).state = "purged"
    BY DEF Delete, NoRow
  <2> QED BY <2>1, <2>2 DEF Moved, Terminal, Requeuable
<1> QED BY <1>1, TypeCorrect, PumpInvariant, PTL DEF Spec, TerminalSticky

\* No row is attempted more often than MAX_ATTEMPTS.
THEOREM AttemptsAreBounded == Spec => []AttemptsBounded
<1>1. Init => AttemptsBounded
  BY StoreAssumption, SMTT(30) DEF Init, AttemptsBounded, NoRow
<1>2. TypeOK /\ PumpInv /\ AttemptsBounded /\ [Next]_vars => AttemptsBounded'
  <2> SUFFICES ASSUME TypeOK, PumpInv, AttemptsBounded, [Next]_vars,
                      NEW d \in Delivery
               PROVE  row'[d].attempts <= MaxAttempts
    BY DEF AttemptsBounded
  <2>1. Moved(row[d], row'[d])
    BY RowsMove
  <2>2. row[d] \in Row /\ row[d].attempts \in Nat /\ row[d].attempts <= MaxAttempts
    BY RowFields DEF TypeOK, AttemptsBounded
  <2>3. Requeue(row[d]).attempts = 0 /\ Delete(row[d]).attempts = 0
    BY <2>2 DEF Requeue, Delete, NoRow, Row
  <2> QED BY <2>1, <2>2, <2>3, StoreAssumption, SMTT(30) DEF Moved
<1> QED BY <1>1, <1>2, TypeCorrect, PumpInvariant, PTL DEF Spec

\* The queue, with its pump, plugins, clock, faults and crashes, implements
\* the life of a delivery.
THEOREM QueueImplementsLifecycle == Spec => ImplementsLifecycle
<1> DEFINE life == [d \in Delivery |->
                      [state |-> row[d].state, attempts |-> row[d].attempts]]
<1>1. Init => Lifecycle!Init
  BY SMTT(30) DEF Init, Lifecycle!Init, Lifecycle!Fresh, NoRow
<1>2. TypeOK /\ PumpInv /\ [Next]_vars => [Lifecycle!Next]_life
  <2> SUFFICES ASSUME TypeOK, PumpInv, [Next]_vars, NEW d \in Delivery
               PROVE  life'[d] = life[d] \/ Lifecycle!Step(life[d], life'[d])
    BY DEF Lifecycle!Next
  <2>1. Moved(row[d], row'[d])
    BY RowsMove
  <2>2. row[d] \in Row
    BY DEF TypeOK
  <2>3. /\ life[d] = [state |-> row[d].state, attempts |-> row[d].attempts]
        /\ life'[d] = [state |-> row'[d].state, attempts |-> row'[d].attempts]
    OBVIOUS
  <2>4. row[d].state = "unused" => row[d].attempts = 0
    BY DEF PumpInv
  <2>5. Requeue(row[d]).state = "pending" /\ Requeue(row[d]).attempts = 0
    BY <2>2 DEF Requeue, Row
  <2>6. Delete(row[d]).state = "purged" /\ Delete(row[d]).attempts = 0
    BY DEF Delete, NoRow
  <2> QED
    BY <2>1, <2>2, <2>3, <2>4, <2>5, <2>6, SMTT(30)
    DEF Moved, Requeuable, Terminal, Lifecycle!Step, Lifecycle!Admit,
        Lifecycle!Fresh, Lifecycle!Attempt, Lifecycle!Retry, Lifecycle!Deliver,
        Lifecycle!GiveUp, Lifecycle!Replay, Lifecycle!Purge
<1> QED
  BY <1>1, <1>2, TypeCorrect, PumpInvariant, PTL
  DEF Spec, ImplementsLifecycle, Lifecycle!Spec

\* Apart from a plugin's report, no statement marks a row delivered.
LEMMA OnlyReportsDeliver ==
  ASSUME NEW r \in Row, r.state # "delivered"
  PROVE  /\ Elapse(r).state # "delivered" /\ Recover(r).state # "delivered"
         /\ ReclaimStale(r).state # "delivered"
         /\ PurgeDeadLetter(r).state # "delivered" /\ Requeue(r).state # "delivered"
         /\ \A lag : PurgeTerminal(r, lag).state # "delivered"
         /\ \A w : MarkRetry(r, w).state # "delivered"
         /\ \A v \in Verdicts, lag \in Nat : Effect(v, r, lag).state # "delivered"
<1>1. Elapse(r).state # "delivered"
  BY DEF Elapse, Row
<1>2. /\ Recover(r).state # "delivered" /\ ReclaimStale(r).state # "delivered"
      /\ Requeue(r).state # "delivered"
  BY DEF Recover, ReclaimStale, Requeue, Row
<1>3. /\ PurgeDeadLetter(r).state # "delivered"
      /\ \A lag : PurgeTerminal(r, lag).state # "delivered"
  BY DEF PurgeDeadLetter, PurgeTerminal, Delete, NoRow
<1>4. \A w : MarkRetry(r, w).state # "delivered"
  BY DEF MarkRetry, Row
<1>5. /\ \A s \in {"failed", "expired", "dead_letter"} : \A why :
           MarkTerminal(r, s, why).state # "delivered"
      /\ MarkAttempting(r).state # "delivered"
  BY DEF MarkTerminal, MarkAttempting, Row
<1>6. \A v \in Verdicts, lag \in Nat : Effect(v, r, lag).state # "delivered"
  BY <1>4, <1>5 DEF Effect, Verdicts
<1> QED BY <1>1, <1>2, <1>3, <1>4, <1>6

\* A row becomes delivered only by a report of its owner on a frame it took.
LEMMA DeliveredByOwner ==
  ASSUME TypeOK, PumpInv, [Next]_vars, NEW d \in Delivery,
         row[d].state # "delivered", row'[d].state = "delivered"
  PROVE  d \in taken
<1>0. row[d] \in Row /\ row \in [Delivery -> Row]
  BY DEF TypeOK
<1>1. ASSUME NEW e \in Delivery, FanOut(e) PROVE FALSE
  BY <1>0, <1>1 DEF FanOut, InsertDelivery, InsertDeadDelivery, NoRow
<1>2. CASE Tick \/ QueuePurge \/ CrashRestart
  BY <1>0, <1>2, OnlyReportsDeliver DEF Tick, QueuePurge, CrashRestart
<1>3. CASE PumpTick \/ EndBatchPurge
  <2>1. \/ row' = row \/ row' = [e \in Delivery |-> ReclaimStale(row[e])]
        \/ row' = [e \in Delivery |-> PurgeTerminal(row[e], pump.lag)]
    BY <1>3, WrittenType DEF PumpTick, EndBatchPurge
  <2> QED BY <1>0, <2>1, OnlyReportsDeliver
<1>4. CASE ApplyVerdict \/ RetryUnsent
  <2>1. PICK s \in pump.cur : \E r :
          /\ \/ r = row[s.id] \/ r = Effect(pump.verdict, row[s.id], pump.lag)
             \/ r = MarkRetry(row[s.id], OfflineDelay - pump.lag)
          /\ row' = [row EXCEPT ![s.id] = r]
    BY <1>4, WrittenType DEF ApplyVerdict, RetryUnsent
  <2>2. pump.verdict \in Verdicts /\ pump.lag \in Nat
    BY DEF TypeOK, PumpState
  <2> QED BY <1>0, <2>1, <2>2, OnlyReportsDeliver, SMTT(30)
<1>5. ASSUME NEW p \in Plugin, NEW e \in Delivery, NEW ok \in BOOLEAN,
             Report(p, e, ok)
      PROVE  d \in taken
  <2>1. PICK r \in HandleResult(p, e, ok) : row' = [row EXCEPT ![e] = r]
    BY <1>5 DEF Report
  <2>2. d = e /\ r # row[e]
    BY <1>0, <2>1
  <2>3. Owner[d] = p
    BY <2>1, <2>2 DEF HandleResult
  <2> QED BY <1>5, <2>2, <2>3 DEF Report
<1>6. ASSUME NEW e \in Delivery, QueueRequeue(e) PROVE FALSE
  BY <1>0, <1>6, OnlyReportsDeliver DEF QueueRequeue
<1>7. CASE \/ Decide \/ TrySendOk \/ TrySendErr \/ EndBatch \/ PumpPanic
           \/ UNCHANGED vars
           \/ \E p \in Plugin : \/ Connect(p) \/ PluginTake(p) \/ DropOversize(p)
                                \/ WriterEnds(p) \/ Disconnect(p)
  <2>1. row' = row
    BY <1>7 DEF Decide, TrySendOk, TrySendErr, EndBatch, PumpPanic, vars, Connect,
       PluginTake, DropOversize, WriterEnds, Disconnect
  <2> QED BY <2>1
<1> QED
  BY <1>1, <1>2, <1>3, <1>4, <1>5, <1>6, <1>7 DEF Next, Calm, Work, PumpStep

\* What a plugin process has been handed is never forgotten.
LEMMA TakenGrows == [Next]_vars => taken \subseteq taken'
  BY DEF Next, Calm, Work, PumpStep, FanOut, Tick, PumpTick, Decide, ApplyVerdict,
     TrySendOk, TrySendErr, RetryUnsent, EndBatch, EndBatchPurge, Connect, PluginTake,
     DropOversize, WriterEnds, Disconnect, QueuePurge, Report, QueueRequeue, PumpPanic,
     CrashRestart, vars

\* A delivered row's frame has reached the plugin that owns the row.
THEOREM DeliveredOnlyIfTaken == Spec => []DeliveredWasTaken
<1>1. Init => DeliveredWasTaken
  BY SMTT(30) DEF Init, DeliveredWasTaken, NoRow
<1>2. TypeOK /\ PumpInv /\ DeliveredWasTaken /\ [Next]_vars => DeliveredWasTaken'
  <2> SUFFICES ASSUME TypeOK, PumpInv, DeliveredWasTaken, [Next]_vars,
                      NEW d \in Delivery, row'[d].state = "delivered"
               PROVE  d \in taken'
    BY DEF DeliveredWasTaken
  <2>1. d \in taken
    BY DeliveredByOwner DEF DeliveredWasTaken
  <2> QED BY <2>1, TakenGrows
<1> QED BY <1>1, <1>2, TypeCorrect, PumpInvariant, PTL DEF Spec
-----------------------------------------------------------------------------
\* What the pump read of a message's expiry still holds, reckoned from the
\* clock reading of its batch, and it is about to send nothing expired.
ExpiryInv ==
  /\ \A s \in pump.batch \cup pump.cur :
       /\ row[s.id].state # "unused"
       /\ row[s.id].state = "purged" \/ s.expired \/ row[s.id].ttl + pump.lag > 0
  /\ pump.pc \in {"decided", "sending"} /\ pump.verdict = "send" =>
       \A s \in pump.cur : ~s.expired
  /\ pump.pc = "sending" => pump.verdict = "send"
  /\ pump.pc = "idle" => pump.batch = {} /\ pump.cur = {}

\* A row in use keeps its expiry until it is deleted.
Timed(r, q) ==
  r.state # "unused" =>
    /\ q.state # "unused"
    /\ q.state = "purged" \/ (r.state # "purged" /\ q.ttl = r.ttl)

LEMMA StatementsTimed ==
  ASSUME NEW r \in Row
  PROVE  /\ Timed(r, r) /\ Timed(r, Recover(r)) /\ Timed(r, ReclaimStale(r))
         /\ Timed(r, PurgeDeadLetter(r))
         /\ r.state \in Requeuable => Timed(r, Requeue(r))
         /\ \A lag : Timed(r, PurgeTerminal(r, lag))
         /\ \A w : Timed(r, MarkRetry(r, w))
         /\ \A v \in Verdicts, lag \in Nat : Timed(r, Effect(v, r, lag))
         /\ \A ok \in BOOLEAN : Timed(r, ResultEffect(r, ok))
<1>1. /\ Timed(r, r) /\ Timed(r, Recover(r)) /\ Timed(r, ReclaimStale(r))
      /\ r.state \in Requeuable => Timed(r, Requeue(r))
  BY DEF Timed, Recover, ReclaimStale, Requeue, Requeuable, Row
<1>2. /\ Timed(r, PurgeDeadLetter(r)) /\ \A lag : Timed(r, PurgeTerminal(r, lag))
  BY <1>1 DEF Timed, PurgeDeadLetter, PurgeTerminal, Delete, NoRow
<1>3. \A w : Timed(r, MarkRetry(r, w))
  BY DEF Timed, MarkRetry, Live, Row
<1>4. \A s \in {"failed", "expired", "dead_letter"} : \A why :
        Timed(r, MarkTerminal(r, s, why))
  BY DEF Timed, MarkTerminal, Live, Row
<1>5. Timed(r, MarkAttempting(r)) /\ Timed(r, MarkDelivered(r))
  BY DEF Timed, MarkAttempting, MarkDelivered, Gone, Row
<1>6. \A v \in Verdicts, lag \in Nat : Timed(r, Effect(v, r, lag))
  BY <1>3, <1>4, <1>5 DEF Effect, Verdicts
<1>7. \A ok \in BOOLEAN : Timed(r, ResultEffect(r, ok))
  BY <1>3, <1>4, <1>5 DEF ResultEffect
<1> QED BY <1>1, <1>2, <1>3, <1>6, <1>7

\* No step but the clock's changes what is left of a row's time.
LEMMA RowsTimed ==
  ASSUME TypeOK, [Next]_vars, ~Tick, NEW d \in Delivery
  PROVE  Timed(row[d], row'[d])
<1>0. row[d] \in Row /\ row \in [Delivery -> Row]
  BY DEF TypeOK
<1>1. ASSUME NEW e \in Delivery, FanOut(e) PROVE Timed(row[d], row'[d])
  BY <1>0, <1>1, StatementsTimed DEF FanOut, Timed
<1>2. CASE QueuePurge \/ CrashRestart
  BY <1>0, <1>2, StatementsTimed DEF QueuePurge, CrashRestart
<1>3. CASE PumpTick \/ EndBatchPurge
  <2>1. \/ row' = row \/ row' = [e \in Delivery |-> ReclaimStale(row[e])]
        \/ row' = [e \in Delivery |-> PurgeTerminal(row[e], pump.lag)]
    BY <1>3, WrittenType DEF PumpTick, EndBatchPurge
  <2> QED BY <1>0, <2>1, StatementsTimed
<1>4. CASE ApplyVerdict \/ RetryUnsent
  <2>1. PICK s \in pump.cur : \E r :
          /\ \/ r = row[s.id] \/ r = Effect(pump.verdict, row[s.id], pump.lag)
             \/ r = MarkRetry(row[s.id], OfflineDelay - pump.lag)
          /\ row' = [row EXCEPT ![s.id] = r]
    BY <1>4, WrittenType DEF ApplyVerdict, RetryUnsent
  <2>2. pump.verdict \in Verdicts /\ pump.lag \in Nat
    BY DEF TypeOK, PumpState
  <2> QED BY <1>0, <2>1, <2>2, StatementsTimed, SMTT(30)
<1>5. ASSUME NEW p \in Plugin, NEW e \in Delivery, NEW ok \in BOOLEAN,
             Report(p, e, ok)
      PROVE  Timed(row[d], row'[d])
  <2>1. PICK r \in HandleResult(p, e, ok) : row' = [row EXCEPT ![e] = r]
    BY <1>5 DEF Report
  <2>2. r = row[e] \/ r = ResultEffect(row[e], ok)
    BY WrittenType DEF HandleResult
  <2> QED BY <1>0, <2>1, <2>2, StatementsTimed
<1>6. ASSUME NEW e \in Delivery, QueueRequeue(e) PROVE Timed(row[d], row'[d])
  BY <1>0, <1>6, StatementsTimed DEF QueueRequeue
<1>7. CASE \/ Decide \/ TrySendOk \/ TrySendErr \/ EndBatch \/ PumpPanic
           \/ UNCHANGED vars
           \/ \E p \in Plugin : \/ Connect(p) \/ PluginTake(p) \/ DropOversize(p)
                                \/ WriterEnds(p) \/ Disconnect(p)
  <2>1. row' = row
    BY <1>7 DEF Decide, TrySendOk, TrySendErr, EndBatch, PumpPanic, vars, Connect,
       PluginTake, DropOversize, WriterEnds, Disconnect
  <2> QED BY <1>0, <2>1, StatementsTimed
<1> QED
  BY <1>1, <1>2, <1>3, <1>4, <1>5, <1>6, <1>7 DEF Next, Calm, Work, PumpStep

\* A step that adds no snapshot and leaves the clock alone keeps ExpiryInv's
\* first conjunct.
LEMMA TimesKept ==
  ASSUME TypeOK, ExpiryInv, [Next]_vars, ~Tick, NEW s \in pump.batch \cup pump.cur
  PROVE  /\ row'[s.id].state # "unused"
         /\ row'[s.id].state = "purged" \/ s.expired \/ row'[s.id].ttl + pump.lag > 0
<1>1. s.id \in Delivery
  BY PumpTypes DEF TypeOK
<1>2. Timed(row[s.id], row'[s.id])
  BY <1>1, RowsTimed
<1> QED BY <1>2 DEF ExpiryInv, Timed

LEMMA ExpiryStep == TypeOK /\ ExpiryInv /\ [Next]_vars => ExpiryInv'
<1> SUFFICES ASSUME TypeOK, ExpiryInv, [Next]_vars PROVE ExpiryInv'
  OBVIOUS
<1>0. row \in [Delivery -> Row] /\ pump \in PumpState
  BY DEF TypeOK
<1>01. \A s \in pump.batch \cup pump.cur : s.id \in Delivery
  BY <1>0, PumpTypes
<1>1. CASE Tick
  <2>1. CASE pump.pc = "idle"
    BY <1>1, <2>1 DEF Tick, ExpiryInv
  <2>2. CASE pump.pc # "idle"
    <3>1. /\ pump'.batch = pump.batch /\ pump'.cur = pump.cur /\ pump'.pc = pump.pc
          /\ pump'.verdict = pump.verdict /\ pump'.lag = pump.lag + 1
      BY <1>0, <1>1, <2>2 DEF Tick, PumpState
    <3>2. ASSUME NEW s \in pump.batch \cup pump.cur
          PROVE  /\ row'[s.id].state = row[s.id].state
                 /\ row'[s.id].state = "purged" \/ s.expired
                      \/ row'[s.id].ttl + pump'.lag > 0
      <4>1. row[s.id] \in Row /\ row'[s.id] = Elapse(row[s.id])
        BY <1>0, <1>01, <1>1 DEF Tick
      <4>2. Elapse(row[s.id]).state = row[s.id].state
        BY <4>1 DEF Elapse, Row
      <4>3. row[s.id].state \notin Gone =>
              Elapse(row[s.id]).ttl = IF row[s.id].ttl > 0 THEN row[s.id].ttl - 1 ELSE 0
        BY <4>1 DEF Elapse, Row
      <4>4. /\ row[s.id].state # "unused"
            /\ row[s.id].state = "purged" \/ s.expired
                 \/ row[s.id].ttl + pump.lag > 0
        BY DEF ExpiryInv
      <4>5. row[s.id].ttl \in Nat /\ pump.lag \in Nat
        BY <1>0, <4>1, RowFields, PumpTypes
      <4> QED BY <3>1, <4>1, <4>2, <4>3, <4>4, <4>5, SMTT(30) DEF Gone
    <3> QED BY <3>1, <3>2 DEF ExpiryInv
  <2> QED BY <2>1, <2>2
<1> SUFFICES ASSUME ~Tick PROVE ExpiryInv'
  BY <1>1
<1>2. CASE PumpTick
  <2>1. PICK rows \in Written(row, [d \in Delivery |-> ReclaimStale(row[d])]) :
          /\ row' = rows
          /\ \E due \in DueDeliveries(rows) : \E batch \in Written({}, due) :
               pump' = [Idle EXCEPT !.pc = "batch", !.batch = batch]
    BY <1>2 DEF PumpTick
  <2>2. PICK due \in DueDeliveries(rows) :
          \E batch \in Written({}, due) :
            pump' = [Idle EXCEPT !.pc = "batch", !.batch = batch]
    BY <2>1
  <2>3. /\ pump'.pc = "batch" /\ pump'.cur = {} /\ pump'.batch \subseteq due
        /\ pump'.lag = 0
    BY <2>2, WrittenType DEF Idle
  <2>4. \A s \in due : \E d \in Delivery : Due(rows[d]) /\ s = SnapOf(d, rows[d])
    BY DEF DueDeliveries
  <2>5. rows \in [Delivery -> Row]
    BY <1>0, WrittenType, RowsToRows
  <2>6. ASSUME NEW s \in pump'.batch
        PROVE  row'[s.id].state = "pending" /\ (s.expired \/ row'[s.id].ttl > 0)
    <3>1. PICK d \in Delivery : Due(rows[d]) /\ s = SnapOf(d, rows[d])
      BY <2>3, <2>4
    <3>2. rows[d].ttl \in Nat
      BY <2>5, RowFields
    <3>3. s.id = d /\ s.expired = (rows[d].ttl <= 0)
      BY <3>1 DEF SnapOf
    <3>4. CASE rows[d].ttl <= 0
      BY <2>1, <3>1, <3>3, <3>4 DEF Due
    <3>5. CASE rows[d].ttl > 0
      BY <2>1, <3>1, <3>3, <3>5 DEF Due
    <3> QED BY <3>2, <3>4, <3>5, SMTT(30)
  <2>7. \A s \in pump'.batch : row'[s.id].ttl \in Nat
    BY <2>1, <2>3, <2>4, <2>5, RowFields, SMTT(30) DEF SnapOf
  <2> QED BY <2>3, <2>6, <2>7, SMTT(30) DEF ExpiryInv
<1>3. CASE Decide
  <2>1. PICK s \in pump.batch : \E v \in Outcomes(s) :
          pump' = [pump EXCEPT !.pc = "decided", !.batch = @ \ {s},
                     !.cur = {s}, !.verdict = v,
                     !.tx = IF v = "send" THEN "current" ELSE "closed"]
    BY <1>3 DEF Decide
  <2>2. /\ pump'.pc = "decided" /\ pump'.batch = pump.batch \ {s}
        /\ pump'.cur = {s} /\ pump'.verdict \in Outcomes(s) /\ pump'.lag = pump.lag
    BY <1>0, <2>1 DEF PumpState
  <2>3. pump'.verdict = "send" => ~s.expired
    BY <2>2 DEF Outcomes
  <2> QED BY <2>2, <2>3, TimesKept DEF ExpiryInv
<1>4. CASE \/ ApplyVerdict \/ RetryUnsent \/ TrySendOk \/ TrySendErr
           \/ \E p \in Plugin : \/ Connect(p) \/ PluginTake(p) \/ DropOversize(p)
                                \/ WriterEnds(p) \/ Disconnect(p)
  <2>1. /\ pump'.batch = pump.batch /\ pump'.cur \subseteq pump.cur
        /\ pump'.lag = pump.lag
        /\ \/ pump'.pc \in {"batch", "unsent"}
           \/ pump'.pc = pump.pc /\ pump'.verdict = pump.verdict /\ pump'.cur = pump.cur
           \/ /\ pump.pc = "decided" /\ pump'.pc = "sending"
              /\ pump'.verdict = pump.verdict /\ pump.verdict = "send"
    BY <1>0, <1>4 DEF ApplyVerdict, RetryUnsent, TrySendOk, TrySendErr, NextDue, Connect,
       PluginTake, DropOversize, WriterEnds, Disconnect, PumpState
  <2> QED BY <2>1, TimesKept DEF ExpiryInv
<1>5. CASE EndBatch \/ EndBatchPurge \/ PumpPanic \/ CrashRestart
  BY <1>5, SMTT(30) DEF EndBatch, EndBatchPurge, PumpPanic, CrashRestart, Idle, ExpiryInv
<1>6. CASE \/ QueuePurge \/ UNCHANGED vars
           \/ \E e \in Delivery : FanOut(e) \/ QueueRequeue(e)
           \/ \E p \in Plugin, e \in Delivery, ok \in BOOLEAN : Report(p, e, ok)
  <2>1. pump' = pump
    BY <1>6 DEF QueuePurge, vars, FanOut, QueueRequeue, Report
  <2> QED BY <2>1, TimesKept DEF ExpiryInv
<1> QED
  BY <1>2, <1>3, <1>4, <1>5, <1>6 DEF Next, Calm, Work, PumpStep

\* An expired delivery is never sent, whatever time passes while the pump
\* works through a batch and whatever happens to its rows meanwhile.
THEOREM ExpiredNotSent == Spec => NeverSentExpired
<1>1. Init => ExpiryInv
  BY SMTT(30) DEF Init, ExpiryInv, Idle
<1>2. TypeOK /\ ExpiryInv /\ [Next]_vars =>
        [\A d \in Delivery :
           sends'[d] > sends[d] /\ row[d].state \notin Gone =>
             row[d].ttl + pump.lag > 0]_vars
  <2> SUFFICES ASSUME TypeOK, ExpiryInv, [Next]_vars, NEW d \in Delivery,
                      sends'[d] > sends[d], row[d].state \notin Gone
               PROVE  row[d].ttl + pump.lag > 0
    OBVIOUS
  <2>0. sends \in [Delivery -> Nat]
    BY DEF TypeOK
  <2>1. CASE TrySendOk
    <3>1. PICK s \in pump.cur :
            sends' = [sends EXCEPT ![s.id] = IF @ < SendCap THEN @ + 1 ELSE @]
      BY <2>1 DEF TrySendOk
    <3>2. d = s.id
      <4>1. d # s.id => sends'[d] = sends[d]
        BY <2>0, <3>1
      <4> QED BY <2>0, <4>1, SMTT(30)
    <3>3. ~s.expired
      BY <2>1 DEF TrySendOk, ExpiryInv
    <3> QED BY <3>2, <3>3 DEF ExpiryInv, Gone
  <2>2. CASE EndBatchPurge \/ QueuePurge \/ \E e \in Delivery : QueueRequeue(e)
    <3>1. sends'[d] = sends[d] \/ sends'[d] = 0
      BY <2>0, <2>2 DEF EndBatchPurge, QueuePurge, QueueRequeue
    <3> QED BY <2>0, <3>1, SMTT(30)
  <2>3. CASE ~(TrySendOk \/ EndBatchPurge \/ QueuePurge \/ \E e \in Delivery : QueueRequeue(e))
    <3>1. sends' = sends
      BY <2>3 DEF Next, Calm, Work, PumpStep, FanOut, Tick, PumpTick, Decide,
         ApplyVerdict, TrySendErr, RetryUnsent, EndBatch, Connect, PluginTake,
         DropOversize, WriterEnds, Disconnect, Report, PumpPanic, CrashRestart, vars
    <3> QED BY <2>0, <3>1, SMTT(30)
  <2> QED BY <2>1, <2>2, <2>3
<1> QED BY <1>1, <1>2, ExpiryStep, TypeCorrect, PTL DEF Spec, NeverSentExpired
-----------------------------------------------------------------------------
(***************************************************************************)
(* How often a row is sent, while the statements of the store succeed.     *)
(***************************************************************************)

\* A row that is marked and whose frame is not yet queued has an attempt to
\* its credit; any other may be one frame ahead of its count, for the frame
\* that was on its way when the operator reset the count.
CountInv ==
  \A d \in Delivery :
    /\ sends[d] <= row[d].attempts + 1
    /\ pump.pc = "sending" /\ (\E s \in pump.cur : s.id = d) => sends[d] <= row[d].attempts

\* No statement but a requeue and a deletion lowers the count.
LEMMA CountsKept ==
  ASSUME NEW r \in Row
  PROVE  /\ Elapse(r).attempts = r.attempts /\ Recover(r).attempts = r.attempts
         /\ ReclaimStale(r).attempts = r.attempts /\ MarkDelivered(r).attempts = r.attempts
         /\ \A w : MarkRetry(r, w).attempts = r.attempts
         /\ \A s, why : MarkTerminal(r, s, why).attempts = r.attempts
         /\ \A ok : ResultEffect(r, ok).attempts = r.attempts
<1>1. Elapse(r).attempts = r.attempts
  BY DEF Elapse, Row
<1>2. Recover(r).attempts = r.attempts /\ ReclaimStale(r).attempts = r.attempts
  BY DEF Recover, ReclaimStale, Row
<1>3. MarkDelivered(r).attempts = r.attempts
  BY DEF MarkDelivered, Row
<1>4. \A w : MarkRetry(r, w).attempts = r.attempts
  BY DEF MarkRetry, Row
<1>5. \A s, why : MarkTerminal(r, s, why).attempts = r.attempts
  BY DEF MarkTerminal, Row
<1> QED BY <1>1, <1>2, <1>3, <1>4, <1>5 DEF ResultEffect

\* What the steps other than a mark and a send do to the two counts of a row.
LEMMA CountsMove ==
  ASSUME TypeOK, [Next]_vars, ~ApplyVerdict, ~TrySendOk, NEW d \in Delivery
  PROVE  \/ sends'[d] = 0
         \/ sends'[d] = sends[d] /\ (row'[d].attempts = row[d].attempts \/ row[d].state = "unused")
<1>0. row[d] \in Row /\ row \in [Delivery -> Row] /\ sends \in [Delivery -> Nat]
  BY DEF TypeOK
<1>1. CASE \E e \in Delivery : FanOut(e)
  BY <1>0, <1>1 DEF FanOut
<1>2. CASE Tick \/ CrashRestart
  BY <1>0, <1>2, CountsKept DEF Tick, CrashRestart
<1>3. CASE PumpTick
  <2>1. /\ row' = row \/ row' = [e \in Delivery |-> ReclaimStale(row[e])]
        /\ sends' = sends
    BY <1>3, WrittenType DEF PumpTick
  <2> QED BY <1>0, <2>1, CountsKept
<1>4. CASE RetryUnsent
  <2>1. PICK s \in pump.cur :
          \E r \in Written(row[s.id], MarkRetry(row[s.id], OfflineDelay - pump.lag)) :
             row' = [row EXCEPT ![s.id] = r]
    BY <1>4 DEF RetryUnsent
  <2>2. sends' = sends
    BY <1>4 DEF RetryUnsent
  <2>3. PICK r \in Written(row[s.id], MarkRetry(row[s.id], OfflineDelay - pump.lag)) :
          row' = [row EXCEPT ![s.id] = r]
    BY <2>1
  <2>4. r = row[s.id] \/ r = MarkRetry(row[s.id], OfflineDelay - pump.lag)
    BY DEF Written
  <2>5. d = s.id => row'[d].attempts = row[d].attempts
    <3> SUFFICES ASSUME d = s.id PROVE row'[d].attempts = row[d].attempts
      OBVIOUS
    <3>1. \A w : MarkRetry(row[d], w).attempts = row[d].attempts
      BY <1>0, CountsKept
    <3>2. r.attempts = row[d].attempts
      BY <2>4, <3>1
    <3> QED BY <1>0, <2>3, <3>2
  <2>6. d # s.id => row'[d] = row[d]
    BY <1>0, <2>3
  <2> QED BY <2>2, <2>5, <2>6
<1>5. CASE EndBatchPurge \/ QueuePurge \/ \E e \in Delivery : QueueRequeue(e)
  BY <1>0, <1>5 DEF EndBatchPurge, QueuePurge, QueueRequeue
<1>6. ASSUME NEW p \in Plugin, NEW e \in Delivery, NEW ok \in BOOLEAN, Report(p, e, ok)
      PROVE  sends'[d] = sends[d] /\ row'[d].attempts = row[d].attempts
  <2>1. PICK r \in HandleResult(p, e, ok) : row' = [row EXCEPT ![e] = r]
    BY <1>6 DEF Report
  <2>2. r = row[e] \/ r = ResultEffect(row[e], ok)
    BY WrittenType DEF HandleResult
  <2>3. sends' = sends
    BY <1>6 DEF Report
  <2>4. ResultEffect(row[e], ok).attempts = row[e].attempts
    <3>1. row[e] \in Row
      BY <1>0
    <3> QED BY <3>1, CountsKept
  <2>5. r.attempts = row[e].attempts
    BY <2>2, <2>4
  <2>6. d = e => row'[d].attempts = row[d].attempts
    BY <1>0, <2>1, <2>5
  <2>7. d # e => row'[d] = row[d]
    BY <1>0, <2>1
  <2> QED BY <2>3, <2>6, <2>7
<1>7. CASE \/ Decide \/ TrySendErr \/ EndBatch \/ PumpPanic \/ UNCHANGED vars
           \/ \E p \in Plugin : \/ Connect(p) \/ PluginTake(p) \/ DropOversize(p)
                                \/ WriterEnds(p) \/ Disconnect(p)
  BY <1>7 DEF Decide, TrySendErr, EndBatch, PumpPanic, vars, Connect, PluginTake,
     DropOversize, WriterEnds, Disconnect
<1> QED
  BY <1>1, <1>2, <1>3, <1>4, <1>5, <1>6, <1>7 DEF Next, Calm, Work, PumpStep

\* The pump comes to send a row only by marking it.
LEMMA SendingKept ==
  ASSUME TypeOK, [Next]_vars, ~ApplyVerdict, pump'.pc = "sending"
  PROVE  pump.pc = "sending" /\ pump'.cur = pump.cur
<1>0. pump \in PumpState
  BY DEF TypeOK
<1>1. NextDue.pc = "batch" /\ Idle.pc = "idle"
  BY <1>0 DEF NextDue, Idle, PumpState
<1>2. CASE Tick
  BY <1>0, <1>2 DEF Tick, PumpState
<1>3. CASE \E p \in Plugin : Connect(p) \/ Disconnect(p)
  BY <1>0, <1>3 DEF Connect, Disconnect, PumpState
<1>4. CASE PumpTick
  BY <1>4 DEF PumpTick, Idle
<1>5. CASE Decide \/ TrySendErr
  BY <1>0, <1>5 DEF Decide, TrySendErr, PumpState
<1>6. CASE TrySendOk \/ RetryUnsent \/ EndBatch \/ EndBatchPurge \/ PumpPanic \/ CrashRestart
  BY <1>1, <1>6 DEF TrySendOk, RetryUnsent, EndBatch, EndBatchPurge, PumpPanic, CrashRestart
<1>7. CASE UNCHANGED pump
  BY <1>7
<1> QED
  BY <1>2, <1>3, <1>4, <1>5, <1>6, <1>7
  DEF Next, Calm, Work, PumpStep, FanOut, PluginTake, DropOversize, WriterEnds, Report,
      QueueRequeue, QueuePurge, vars

LEMMA CountStep ==
  ASSUME StoreFaults = FALSE, TypeOK, PumpInv, CountInv, [Next]_vars
  PROVE  CountInv'
<1>0. /\ row \in [Delivery -> Row] /\ sends \in [Delivery -> Nat] /\ pump \in PumpState
      /\ \A s \in pump.cur : s.id \in Delivery
      /\ \A d \in Delivery : row[d].attempts \in Nat /\ sends[d] \in Nat
  BY PumpTypes, RowFields DEF TypeOK
<1>1. CASE ApplyVerdict
  <2>1. PICK s \in pump.cur :
          \E r \in Written(row[s.id], Effect(pump.verdict, row[s.id], pump.lag)) :
             row' = [row EXCEPT ![s.id] = r]
    BY <1>1 DEF ApplyVerdict
  <2>2. row' = [row EXCEPT ![s.id] = Effect(pump.verdict, row[s.id], pump.lag)]
    BY <2>1 DEF Written
  <2>3. sends' = sends /\ pump.pc = "decided" /\ s \in Held /\ s.id \in Delivery
    BY <1>0, <1>1 DEF ApplyVerdict, Held
  <2>4. CASE pump.verdict = "send"
    <3>1. row[s.id].state = "pending"
      BY <2>3, <2>4 DEF PumpInv, SnapshotsFresh
    <3>2. Effect(pump.verdict, row[s.id], pump.lag) = MarkAttempting(row[s.id])
      BY <2>4 DEF Effect
    <3>3. row'[s.id].attempts = row[s.id].attempts + 1
      BY <1>0, <2>2, <2>3, <3>1, <3>2 DEF MarkAttempting, Gone, Row
    <3>4. \A d \in Delivery : d # s.id => row'[d] = row[d]
      BY <1>0, <2>2
    <3>5. pump'.cur = pump.cur
      BY <1>0, <1>1, <2>4 DEF ApplyVerdict, PumpState
    <3>6. \A t \in pump'.cur : t.id = s.id
      BY <3>5 DEF PumpInv
    <3>7. sends[s.id] <= row'[s.id].attempts /\ sends[s.id] <= row'[s.id].attempts + 1
      <4>1. sends[s.id] <= row[s.id].attempts + 1
        BY <2>3 DEF CountInv
      <4> QED BY <1>0, <2>3, <3>3, <4>1, SMTT(30)
    <3> QED BY <2>3, <3>4, <3>6, <3>7 DEF CountInv
  <2>5. CASE pump.verdict # "send"
    <3>1. pump'.pc = "batch"
      BY <1>0, <1>1, <2>5 DEF ApplyVerdict, NextDue, PumpState
    <3>2. Effect(pump.verdict, row[s.id], pump.lag).attempts = row[s.id].attempts
      <4>1. pump.verdict \in Verdicts \ {"send"}
        BY <2>5, PumpTypes DEF TypeOK
      <4>2. row[s.id] \in Row
        BY <1>0, <2>3
      <4>3. pump.verdict \in {"failed", "expired", "exhausted", "refused"} =>
              \E st, why : Effect(pump.verdict, row[s.id], pump.lag) = MarkTerminal(row[s.id], st, why)
        BY DEF Effect
      <4>4. pump.verdict \in {"offline", "budget"} =>
              \E w : Effect(pump.verdict, row[s.id], pump.lag) = MarkRetry(row[s.id], w)
        BY DEF Effect
      <4>5. (\A st, why : MarkTerminal(row[s.id], st, why).attempts = row[s.id].attempts) /\
            (\A w : MarkRetry(row[s.id], w).attempts = row[s.id].attempts)
        BY <4>2, CountsKept
      <4>6. \/ pump.verdict \in {"failed", "expired", "exhausted", "refused"}
            \/ pump.verdict \in {"offline", "budget"}
        BY <4>1 DEF Verdicts
      <4> QED BY <4>3, <4>4, <4>5, <4>6
    <3>3. \A d \in Delivery : row'[d].attempts = row[d].attempts
      BY <1>0, <2>2, <3>2
    <3> QED BY <2>3, <3>1, <3>3 DEF CountInv
  <2> QED BY <2>4, <2>5
<1>2. CASE TrySendOk
  <2>1. PICK s \in pump.cur : sends' = [sends EXCEPT ![s.id] = IF @ < SendCap THEN @ + 1 ELSE @]
    BY <1>2 DEF TrySendOk
  <2>2. row' = row /\ pump.pc = "sending" /\ pump'.pc = "batch"
    BY <1>0, <1>2 DEF TrySendOk, NextDue, PumpState
  <2>3. sends[s.id] <= row[s.id].attempts
    BY <1>0, <2>2 DEF CountInv
  <2>4. sends'[s.id] <= row[s.id].attempts + 1
    <3>1. sends'[s.id] = sends[s.id] \/ sends'[s.id] = sends[s.id] + 1
      BY <1>0, <2>1
    <3> QED BY <1>0, <2>3, <3>1, SMTT(30)
  <2>5. \A d \in Delivery : d # s.id => sends'[d] = sends[d]
    BY <1>0, <2>1
  <2> QED BY <2>2, <2>4, <2>5 DEF CountInv
<1>3. CASE ~ApplyVerdict /\ ~TrySendOk
  <2> SUFFICES ASSUME NEW d \in Delivery
               PROVE  /\ sends'[d] <= row'[d].attempts + 1
                      /\ pump'.pc = "sending" /\ (\E s \in pump'.cur : s.id = d) =>
                           sends'[d] <= row'[d].attempts
    BY DEF CountInv
  <2>1. row'[d].attempts \in Nat
    BY TypeStep, RowFields DEF TypeOK
  <2>2. CASE sends'[d] = 0
    BY <2>1, <2>2, SMTT(30)
  <2>3. CASE sends'[d] = sends[d] /\ row'[d].attempts = row[d].attempts
    BY <1>3, <2>3, SendingKept DEF CountInv
  <2>4. CASE sends'[d] = sends[d] /\ row[d].state = "unused"
    <3>1. row[d].attempts = 0
      BY <2>4 DEF PumpInv
    <3>2. row'[d].attempts >= row[d].attempts
      BY <2>1, <3>1, SMTT(30)
    <3>3. \A x, y, z \in Nat : y >= x =>
            (z <= x + 1 => z <= y + 1) /\ (z <= x => z <= y)
      BY SMTT(30)
    <3> QED BY <1>0, <1>3, <2>1, <2>4, <3>2, <3>3, SendingKept DEF CountInv
  <2> QED BY <1>3, <2>2, <2>3, <2>4, CountsMove
<1> QED BY <1>1, <1>2, <1>3

\* While no statement fails, no more frames are queued for a row than attempts
\* were counted, but for one that was on its way when the count was reset.
THEOREM SendsAreCounted ==
  ASSUME StoreFaults = FALSE
  PROVE  Spec => []SendsCounted
<1>1. Init => CountInv
  BY SMTT(30) DEF Init, CountInv, Idle, NoRow
<1>2. TypeOK /\ PumpInv /\ CountInv /\ [Next]_vars => CountInv'
  BY CountStep
<1>3. CountInv => SendsCounted
  BY DEF CountInv, SendsCounted
<1> QED BY <1>1, <1>2, <1>3, TypeCorrect, PumpInvariant, PTL DEF Spec
=============================================================================
