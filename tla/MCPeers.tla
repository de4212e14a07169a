------------------------------ MODULE MCPeers ------------------------------
(***************************************************************************)
(* A behaviour is that of the connections or of the tables of one node.    *)
(* The connections are those of two daemons that peer with each other, and *)
(* of a third that knows one of them but is not known to it.  The tables   *)
(* are about a peer, and a node that only public discovery admits.         *)
(***************************************************************************)
EXTENDS FedLink, Discovery, TLC

CONSTANTS a, b, s, p, q

MCPeers == [n \in Node |-> IF n = a THEN {b} ELSE {a}]
MCReaches == [n \in Node |-> IF n = b THEN {b, s} \cap Node ELSE {n}]
MCTrust == [n \in Node |-> [m \in Node |-> IF m = s THEN "seen" ELSE "verified"]]

Cfg(peers, blocked, mode) ==
  [peers |-> peers, trusted |-> {}, blocked |-> blocked, mode |-> mode, accept_from |-> "verified"]
MCConfigs == {Cfg(p :> "verified", {}, "federation"), Cfg(p :> "trusted", {q}, "public"),
              Cfg([n \in {} |-> Nil], {}, "public")}

VARIABLE part
all == <<part, vars, tableVars>>

\* A behaviour of the connections has the tables of one configuration, which it never uses.
MCInit ==
  /\ part \in {"links", "tables"} /\ Init /\ TablesInit
  /\ part = "links" => cfg.mode = "federation"
LinksNext == part = "links" /\ Next /\ UNCHANGED <<part, tableVars>>
MCTablesNext == part = "tables" /\ TablesNext /\ UNCHANGED <<part, vars>>
MCSpec == MCInit /\ [][LinksNext \/ MCTablesNext]_all
=============================================================================
