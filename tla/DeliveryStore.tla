--------------------------- MODULE DeliveryStore ---------------------------
(***************************************************************************)
(* One row of the SQLite `deliveries` table (switchyardd/src/storage.rs)   *)
(* and the statements that rewrite it, as operators from a row to a row.   *)
(*                                                                         *)
(* Timestamps are kept relative to the wall clock: `next` is               *)
(* next_attempt - now, `ttl` is the envelope's expires_at - now, `age` is  *)
(* now - attempted_at of an attempting row, now - updated_at of a terminal *)
(* one, and 0 of any other, of which neither column is read.  Elapse       *)
(* shifts them when the clock advances.  Only comparisons with the clock   *)
(* are ever made, so nothing is lost, and the values stay in a finite      *)
(* range without a bound on the clock.                                     *)
(***************************************************************************)
EXTENDS Integers, Sequences

CONSTANTS
  MaxAttempts,   \* queue::MAX_ATTEMPTS (8)
  Ladder,        \* the steps of queue::backoff (<<5, 30, 120, 600, 3600>> s)
  ReclaimAfter,  \* age at which an attempting row is reclaimed (60 s)
  Retention,     \* retention_secs
  Ttl,           \* ttl_default_secs
  Horizon        \* how far in the past `next` is still distinguished

ASSUME StoreAssumption ==
  /\ MaxAttempts \in Nat \ {0}
  /\ Ladder \in Seq(Nat) /\ Ladder # <<>>
  /\ ReclaimAfter \in Nat /\ Retention \in Nat
  /\ Ttl \in Nat /\ Horizon \in Nat

Live     == {"pending", "attempting"}
Terminal == {"delivered", "failed", "expired", "dead_letter"}

\* "unused": AUTOINCREMENT has not handed the id out yet; "purged": the row
\* was deleted, and its id is never handed out again.
Gone == {"unused", "purged"}

\* "REFUSED" stands for every reason decided before a send is tried other
\* than expiry and exhaustion: POLICY_DENIED, FRAME_OVERSIZE,
\* NOT_DIRECT_CAPABLE, ROUTE_CONFIG_MISSING, NO_SEALED_KEY.
Reason == {"none", "REFUSED", "QUEUE_FULL", "TTL_EXPIRED",
           "RETRY_EXHAUSTED", "DESTINATION_UNKNOWN"}

\* relay_core::priority_rank: 0 is emergency, 2 is normal, 4 is background.
Normal == 2

State == Live \cup Terminal \cup Gone

Row == [state: State, attempts: Nat, next: Int,
        age: Nat, ttl: Nat, reason: Reason, prio: Nat]

NoRow == [state |-> "unused", attempts |-> 0, next |-> 0, age |-> 0,
          ttl |-> 0, reason |-> "none", prio |-> Normal]

InsertDelivery(p) ==
  [NoRow EXCEPT !.state = "pending", !.ttl = Ttl, !.prio = p]

\* The INSERT names no priority column, so the schema's DEFAULT 2 applies.
InsertDeadDelivery(why) ==
  [NoRow EXCEPT !.state = "dead_letter", !.reason = why, !.ttl = Ttl]

Due(r) == r.state = "pending" /\ r.next <= 0

\* WHERE id = ? and nothing else: whatever the state, a row that exists.
MarkAttempting(r) ==
  IF r.state \in Gone THEN r
  ELSE [r EXCEPT !.state = "attempting", !.attempts = @ + 1, !.age = 0]

\* Variant: a late ack is taken whatever the row's state.
MarkDeliveredUnguarded(r) ==
  IF r.state \in Gone THEN r ELSE [r EXCEPT !.state = "delivered", !.age = 0]

MarkDelivered(r) ==
  IF r.state = "attempting"
  THEN [r EXCEPT !.state = "delivered", !.age = 0] ELSE r

MarkRetry(r, wait) ==
  IF r.state \in Live
  THEN [r EXCEPT !.state = "pending", !.next = wait, !.age = 0] ELSE r

MarkTerminal(r, s, why) ==
  IF r.state \in Live
  THEN [r EXCEPT !.state = s, !.reason = why, !.age = 0] ELSE r

Requeuable == {"dead_letter", "failed", "expired"}

Requeue(r) ==
  [r EXCEPT !.state = "pending", !.next = 0, !.attempts = 0,
            !.reason = "none", !.age = 0]

\* Deletion keeps no column.
Delete(r) == [NoRow EXCEPT !.state = "purged"]

\* purge_terminal(cutoff): `lag` is how long ago the pump read its clock.
PurgeTerminal(r, lag) ==
  IF r.state \in Terminal /\ r.next + lag < -Retention THEN Delete(r) ELSE r

PurgeDeadLetter(r) == IF r.state = "dead_letter" THEN Delete(r) ELSE r

Recover(r) ==
  IF r.state = "attempting"
  THEN [r EXCEPT !.state = "pending", !.age = 0] ELSE r

\* Variant: no reclaim.
ReclaimStaleNever(r) == r

ReclaimStale(r) ==
  IF r.state = "attempting" /\ r.age > ReclaimAfter
  THEN [r EXCEPT !.state = "pending", !.age = 0] ELSE r

Backoff(n) ==
  Ladder[IF n = 0 THEN 1 ELSE IF n > Len(Ladder) THEN Len(Ladder) ELSE n]

\* One unit of wall-clock time passes.  Past AgeCap, Horizon and expiry
\* nothing is told apart.
AgeCap == 1 + IF ReclaimAfter > Retention THEN ReclaimAfter ELSE Retention

Elapse(r) ==
  IF r.state \in Gone THEN r
  ELSE [r EXCEPT
         !.next = IF @ > -Horizon THEN @ - 1 ELSE @,
         !.ttl  = IF @ > 0 THEN @ - 1 ELSE 0,
         !.age  = IF r.state = "pending" THEN 0
                  ELSE IF @ < AgeCap THEN @ + 1 ELSE @]
=============================================================================
