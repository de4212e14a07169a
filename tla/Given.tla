-------------------------------- MODULE Given --------------------------------
(***************************************************************************)
(* The rules that have no state of their own are checked one case at a     *)
(* time: the only variable is the case under examination, an input of some *)
(* kind, and a property of the inputs of a kind is a state predicate.      *)
(***************************************************************************)
VARIABLE given    \* [of |-> kind, x |-> input]

Nothing == [of |-> "nothing"]
Case(kind) == IF given.of = kind THEN {given.x} ELSE {}
Pick(kind, Inputs) == given = Nothing /\ \E x \in Inputs : given' = [of |-> kind, x |-> x]
=============================================================================
