---------------------------- MODULE MCPluginHost ----------------------------
(* A plugin with a child, and one that an earlier daemon has left.           *)
EXTENDS PluginHost, TLC
MCBackoffs == <<0, 1>>
MCSymmetry == Permutations(Proc) \cup Permutations(Conn)
=============================================================================
