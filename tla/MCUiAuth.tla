------------------------------ MODULE MCUiAuth ------------------------------
(* Two passkeys and two requests in flight; a fresh store, or one with an     *)
(* administrator and a viewer.                                              *)
EXTENDS UiAuth

CONSTANTS a, b

MCStores == {Empty, (a :> [role |-> "administrator", counter |-> 0]) @@
                    (b :> [role |-> "viewer", counter |-> 1])}
MCSymmetry == Permutations(Client)
=============================================================================
