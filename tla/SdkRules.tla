------------------------------ MODULE SdkRules ------------------------------
(***************************************************************************)
(* The Python SDK's SentCache (sdk/python/relayfabric_sdk/cache.py), which *)
(* keeps a plugin from relaying the echo of what it has itself sent: the   *)
(* entries as a function from what was sent to when.                       *)
(***************************************************************************)
EXTENDS Given, Naturals, Sequences, SequencesExt, Functions

CONSTANT ttl_secs

\* An operation on the cache: record or match of a key, at a time of the wall clock.
Operation(op, key, now) == [op |-> op, key |-> key, now |-> now]

prune(entries, now) == Restrict(entries, {k \in DOMAIN entries : now - entries[k] <= ttl_secs})
record_sent(entries, key, now) ==
  LET kept == prune(entries, now)
  IN  [k \in DOMAIN kept \cup {key} |-> IF k = key THEN now ELSE kept[k]]
match_keeping(entries, key, now) ==
  LET kept == prune(entries, now) IN [entries |-> kept, found |-> key \in DOMAIN kept]
match(entries, key, now) ==
  LET kept == prune(entries, now)
  IN  [entries |-> Restrict(kept, DOMAIN kept \ {key}), found |-> key \in DOMAIN kept]

\* The entries and the answers after a sequence of operations.
SentCache == [entries |-> <<>>, answers |-> <<>>]
Operate(cache, o) ==
  IF o.op = "record" THEN [entries |-> record_sent(cache.entries, o.key, o.now), answers |-> Append(cache.answers, FALSE)]
  ELSE LET found == match(cache.entries, o.key, o.now)
       IN  [entries |-> found.entries, answers |-> Append(cache.answers, found.found)]
Answers(ops) == FoldLeft(Operate, SentCache, ops).answers

(* ----------------------------- properties ----------------------------- *)

\* SentCache answers for an echo exactly when the latest send of the same text to the same
\* place has not been answered for yet and has never looked older than ttl_secs since:
\* one send swallows one message, whatever else is sent and however the clock moves.
EchoSwallowedOnce ==
  \A ops \in Case("sent_cache") :
    LET answers == Answers(ops)
        Of(i) == {j \in 1..(i - 1) : ops[j].key = ops[i].key}
    IN  \A i \in DOMAIN ops : ops[i].op = "match" =>
          answers[i] = \E j \in Of(i) :
            /\ ops[j].op = "record"
            /\ \A k \in Of(i) : k > j => ops[k].op = "match" /\ ~answers[k]
            /\ \A k \in (j + 1)..i : ops[k].now <= ops[j].now + ttl_secs
=============================================================================
