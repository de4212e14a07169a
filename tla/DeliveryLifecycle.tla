------------------------- MODULE DeliveryLifecycle -------------------------
(***************************************************************************)
(* What the delivery queue promises of each delivery, as docs/routing.md   *)
(* draws it (States, Retry and backoff, Dead-letter queue) and storage.rs  *)
(* comments it: the life of one row, with the attempts it has used.  No    *)
(* pump, plugin, clock or failure is visible here.                         *)
(***************************************************************************)
EXTENDS Naturals

CONSTANTS Delivery, MaxAttempts

VARIABLE life

Fresh == [state |-> "unused", attempts |-> 0]

Init == life = [d \in Delivery |-> Fresh]

\* A fan-out target is queued, or recorded as refused by a full queue.
Admit(l, m) == /\ l = Fresh
               /\ m.state \in {"pending", "dead_letter"} /\ m.attempts = 0

\* The only step that counts an attempt, and only up to the limit.
Attempt(l, m) == /\ l.state = "pending" /\ l.attempts < MaxAttempts
                 /\ m = [state |-> "attempting", attempts |-> l.attempts + 1]

\* A nack, a full channel, a reclaim or a restart: to be tried again.
Retry(l, m) == l.state = "attempting" /\ m = [l EXCEPT !.state = "pending"]

Deliver(l, m) == l.state = "attempting" /\ m = [l EXCEPT !.state = "delivered"]

GiveUp(l, m) ==
  \/ l.state = "pending" /\ m.state \in {"failed", "expired", "dead_letter"}
     /\ m.attempts = l.attempts
  \/ l.state = "attempting" /\ m = [l EXCEPT !.state = "dead_letter"]

\* The operator's requeue: the count starts again.  Not for a delivered row.
Replay(l, m) == /\ l.state \in {"failed", "expired", "dead_letter"}
                /\ m = [state |-> "pending", attempts |-> 0]

Purge(l, m) == /\ l.state \in {"delivered", "failed", "expired", "dead_letter"}
               /\ m = [state |-> "purged", attempts |-> 0]

Step(l, m) == \/ Admit(l, m) \/ Attempt(l, m) \/ Retry(l, m) \/ Deliver(l, m)
              \/ GiveUp(l, m) \/ Replay(l, m) \/ Purge(l, m)

\* Reclaims, purges and restarts move several rows at once.
Next == \A d \in Delivery : life'[d] = life[d] \/ Step(life[d], life'[d])

Spec == Init /\ [][Next]_life
=============================================================================
