---------------------------- MODULE MCFederation ----------------------------
(* Three nodes in a cycle: a sends to b and to c, b relays to c sealed, and *)
(* c serves a plugin on one route and sends back to a on the other.         *)
EXTENDS Federation, TLC

CONSTANTS a, b, c, r, s

MCDestinations ==
  [n \in Node |-> [x \in Route |->
    CASE n = a /\ x = r -> <<<<b, r>>, <<c, s>>>>
      [] n = b /\ x = r -> <<<<c, r>>>>
      [] n = c /\ x = r -> <<<<a, r>>>>
      [] n = c /\ x = s -> <<Local>>
      [] OTHER -> <<>>]]
MCIngressRoutes == [n \in Node |-> IF n = c THEN {r, s} ELSE {r}]
MCSealed == {<<b, r>>}
MCDecrypts == {<<c, r>>}
MCAcceptChoices == [n \in Node |-> IF n = b THEN {{a, c}, {c}} ELSE {Node \ {n}}]
MCMaxHops == [n \in Node |-> 3]
MCMaxTtl == [n \in Node |-> 1]
MCRetention == [n \in Node |-> 1]
=============================================================================
