---------------------------- MODULE ConfigHistory ----------------------------
(***************************************************************************)
(* What the admin API promises of the daemon's configuration: one live     *)
(* configuration and History retained revisions, newest first.  A PUT      *)
(* makes the live one revision 1 and drops the oldest; a rollback swaps    *)
(* the live one with revision 1.  Each is one atomic step.  A stop of the  *)
(* daemon, or a failed file operation, suspends the promise until the next *)
(* start.                                                                  *)
(***************************************************************************)
EXTENDS Naturals

CONSTANTS Configs, History, None

VARIABLES serving,   \* whether the promise is in force
          current,   \* the live configuration
          revision   \* revision[n]: the n-th previous one, or None

Slots == 1..History

Init ==
    /\ serving = TRUE
    /\ current \in Configs
    /\ revision = [n \in Slots |-> None]

Put(new) ==
    /\ serving /\ serving' = serving
    /\ current' = new
    /\ revision' = [n \in Slots |-> IF n = 1 THEN current ELSE revision[n - 1]]

Rollback ==
    /\ serving /\ serving' = serving
    /\ revision[1] # None
    /\ current' = revision[1]
    /\ revision' = [revision EXCEPT ![1] = current]

Suspend ==
    /\ serving /\ serving' = FALSE
    /\ current' = None
    /\ revision' = [n \in Slots |-> None]

Resume ==
    /\ ~serving /\ serving' = TRUE
    /\ current' \in Configs
    /\ revision' \in [Slots -> Configs \cup {None}]

Next == Rollback \/ Suspend \/ Resume \/ \E new \in Configs : Put(new)

Spec == Init /\ [][Next]_<<serving, current, revision>>
=============================================================================
