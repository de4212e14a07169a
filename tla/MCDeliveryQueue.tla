-------------------------- MODULE MCDeliveryQueue --------------------------
(* Small instances of DeliveryQueue for TLC. *)
EXTENDS DeliveryQueue

CONSTANTS d1, d2, p1, p2

OneOwner  == [d \in Delivery |-> p1]
OneRoute  == [d \in Delivery |-> "r"]
Emergency == [d \in Delivery |-> 0]
AllNormal == [d \in Delivery |-> Normal]
ShortLadder == <<1, 2>>

\* The daemon does not crash and its pump does not panic.
CalmSpec == Init /\ [][Calm]_vars
=============================================================================
