------------------------------ MODULE MCIngress ------------------------------
(* A user whom two others may ask to link; two codes; one route and one       *)
(* endpoint that no route names.                                             *)
EXTENDS Ingress, TLC

CONSTANTS a, b, r, x, y, in, out, dark

Msg(s, t, from, n) == [sender |-> s, body |-> t, from |-> from, nr |-> n]
MCMessage == {Msg(a, x, in, 1), Msg(a, Chat, in, 1), Msg(b, x, dark, 1)}
MCSize == [m \in Message |-> 1]
MCRoutes == <<[name |-> "r", sources |-> {in, out}, destinations |-> {in, out}]>>
MCRequests == {<<a, r>>, <<a, b>>}
MCSettings == {[mpm |-> 2, bph |-> 2, ttl |-> 2], [mpm |-> 1, bph |-> 2, ttl |-> 1]}
MCSymmetry == Permutations(Conn)

\* The wider settings come first; ApplyConfig leads to the others.
MCInit == Init /\ cfg.mpm = 2
MCSpec == MCInit /\ [][Next]_vars
=============================================================================
