------------------------------- MODULE Limits -------------------------------
(***************************************************************************)
(* The in-memory gates of a daemon as operators on their state:            *)
(* SenderLimiter and BudgetLimiter (limits.rs) keep, for each key, the     *)
(* times of what they let through; Dedup (dedup.rs) keeps, for each key,   *)
(* when it was recorded and the ttl that was in force then.                *)
(***************************************************************************)
EXTENDS Naturals, Sequences, FiniteSetsExt

CONSTANTS Minute, Hour   \* the two window lengths, in ticks of the clock

(* --------------------------- SenderLimiter ---------------------------- *)

\* Entries [at, bytes] of every key younger than the horizon.
HorizonAlwaysMinute(bytes_per_hour) == Minute
Horizon(bytes_per_hour) == IF bytes_per_hour > 0 THEN Hour ELSE Minute

PruneWindows(windows, horizon, now) ==
  [k \in DOMAIN windows |-> SelectSeq(windows[k], LAMBDA e : now - e.at < horizon)]

Bytes(entries) == MapThenSumSet(LAMBDA i : entries[i].bytes, DOMAIN entries)

\* SenderLimiter::allow; mpm and bph are messages_per_minute and bytes_per_hour,
\* and 0 is no limit.  The second component is the state it leaves.
SenderAllow(windows, mpm, bph, k, bytes, now) ==
  LET pruned == PruneWindows(windows, Horizon(bph), now)
      minute == SelectSeq(pruned[k], LAMBDA e : now - e.at < Minute)
  IN  IF mpm = 0 /\ bph = 0 THEN <<TRUE, windows>>
      ELSE IF \/ mpm > 0 /\ Len(minute) >= mpm
              \/ bph > 0 /\ Bytes(pruned[k]) + bytes > bph
      THEN <<FALSE, pruned>>
      ELSE <<TRUE, [pruned EXCEPT ![k] = Append(@, [at |-> now, bytes |-> bytes])]>>

(* ------------------------------- Dedup -------------------------------- *)

\* is_duplicate prunes; a pruned Dedup holds exactly the keys seen.
PruneSeen(seen, now) ==
  [k \in {x \in DOMAIN seen : now - seen[x].at < seen[x].ttl} |-> seen[k]]

Record(seen, k, ttl, now) ==
  [x \in DOMAIN seen \cup {k} |-> IF x = k THEN [at |-> now, ttl |-> ttl] ELSE seen[x]]
=============================================================================
