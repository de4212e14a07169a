------------------------------- MODULE FedLink -------------------------------
(***************************************************************************)
(* The connections between federated daemons (fed/conn.rs over fed/noise.rs*)
(* ): dialers, the listener with its permits, the Noise handshake, the     *)
(* admission of a peer, the registry FedState.conns with its gauge, and    *)
(* the frame loop with its keepalive, its silence limit and its bounded    *)
(* sends.  Both ends of every connection run this code.  A TCP connection  *)
(* is the two ends <<c, 1>> (the dialer's) and <<c, 2>> (the listener's);  *)
(* a daemon that crashes leaves the other end open until it notices.       *)
(* Time is counted by every end for itself, in steps of TICK.              *)
(***************************************************************************)
EXTENDS Naturals, Sequences, FiniteSets

CONSTANTS
  Node,
  Peers,       \* federation.peers: [Node -> SUBSET Node]
  Listens,     \* the nodes with a federation.listen
  Reaches,     \* the nodes that may answer at the address of a peer
  Trust,       \* [Node -> [Node -> level]], as seeded at boot
  Public,      \* the nodes whose discovery is public
  MAX_INBOUND_CONNS, DEAD_AFTER, SEND_TIMEOUT,
  MaxConns, MaxCrashes   \* bounds: connections made; crashes of a daemon

ASSUME FedLinkAssumption ==
  /\ Peers \in [Node -> SUBSET Node] /\ Reaches \in [Node -> SUBSET Node]
  /\ {MAX_INBOUND_CONNS, DEAD_AFTER, SEND_TIMEOUT} \subseteq Nat \ {0}
  /\ MaxConns \in Nat /\ MaxCrashes \in Nat

VARIABLES
  conn,     \* connections so far: a sequence of [from, expect, to, sent]; sent: message 3 is out
  at,       \* where the task of an end stands
  silent,   \* of an end: since its last_activity
  stuck,    \* of an end: since its send_fed began
  orphan,   \* history, of an end: since the other end is gone
  conns,    \* FedState.conns: [Node -> [Node -> the connection, or 0]]
  gauge,    \* relayfabric_federation_peer_up
  refused,  \* history: <<end, connection that held its key>> of every crossed dial
  crashes

vars == <<conn, at, silent, stuck, orphan, conns, gauge, refused, crashes>>
ages == <<silent, stuck, orphan>>

End == (1..MaxConns) \X {1, 2}
Other(e) == <<e[1], 3 - e[2]>>
Owner(e) == IF e[2] = 1 THEN conn[e[1]].from ELSE conn[e[1]].to
\* The identity that the handshake proved to an end: the dialer asked for it by name.
PeerOf(e) == IF e[2] = 1 THEN conn[e[1]].expect ELSE conn[e[1]].from

Running == {"run", "send"}
Active == {"hs", "admit", "up", "run", "send", "down"}
Open(n) == {e \in End : e[1] \in DOMAIN conn /\ at[e] \in Active /\ Owner(e) = n}
Goto(e, s) == at' = [at EXCEPT ![e] = s]

Init ==
  /\ conn = <<>> /\ at = [e \in End |-> "none"]
  /\ silent = [e \in End |-> 0] /\ stuck = [e \in End |-> 0] /\ orphan = [e \in End |-> 0]
  /\ conns = [n \in Node |-> [m \in Node |-> 0]]
  /\ gauge = [n \in Node |-> [m \in Node |-> FALSE]]
  /\ refused = {} /\ crashes = 0

(* ----------------------------- connecting ----------------------------- *)

\* spawn_outbound: one dial of a peer at a time, and none while its key is held.
Dial(n, m, to) ==
  LET c == Len(conn) + 1 IN
  /\ m \in Peers[n] /\ c <= MaxConns
  /\ conns[n][m] = 0
  /\ \A e \in Open(n) : ~(e[2] = 1 /\ conn[e[1]].expect = m)
  /\ conn' = Append(conn, [from |-> n, expect |-> m, to |-> to, sent |-> FALSE])
  /\ Goto(<<c, 1>>, "hs")
  /\ UNCHANGED <<ages, conns, gauge, refused, crashes>>

\* A permit is held for the whole life of the task, not just its handshake.
HandshakesOf(n) == {e \in Open(n) : e[2] = 2 /\ at[e] = "hs"}
PermitsOf(n) == {e \in Open(n) : e[2] = 2}

\* accept_loop_with_cap: without a permit the socket is dropped before the handshake.
Accept(c) ==
  LET e == <<c, 2>>
      n == conn[c].to
  IN
  /\ at[e] = "none" /\ n \in Listens
  /\ Goto(e, IF Cardinality(PermitsOf(n)) < MAX_INBOUND_CONNS THEN "hs" ELSE "gone")
  /\ UNCHANGED <<conn, ages, conns, gauge, refused, crashes>>

\* handshake_initiator ends with message 2, if that proves the identity expected.
ExpectAnyone(c) == TRUE
Expected(c) == conn[c].to = conn[c].expect
InitiatorDone(c) ==
  /\ at[<<c, 1>>] = "hs" /\ at[<<c, 2>>] = "hs"
  /\ IF Expected(c)
     THEN conn' = [conn EXCEPT ![c].sent = TRUE] /\ Goto(<<c, 1>>, "admit")
     ELSE UNCHANGED conn /\ Goto(<<c, 1>>, "gone")
  /\ UNCHANGED <<ages, conns, gauge, refused, crashes>>

\* handshake_responder ends with message 3.
ResponderDone(c) ==
  /\ at[<<c, 2>>] = "hs" /\ conn[c].sent
  /\ Goto(<<c, 2>>, "admit")
  /\ UNCHANGED <<conn, ages, conns, gauge, refused, crashes>>

\* A handshake that fails, or that HANDSHAKE_TIMEOUT ends; a connection nobody accepts.
HandshakeFails(e) ==
  /\ at[e] = "hs"
  /\ Goto(e, "gone")
  /\ UNCHANGED <<conn, ages, conns, gauge, refused, crashes>>

(* ------------------------ admission and registry ---------------------- *)

\* admit_and_run: a blocked peer is dropped, and so is one that no configuration
\* vouches for unless discovery is public.
AdmitsUnvouched(n, m) == Trust[n][m] # "blocked"
Admits(n, m) ==
  /\ Trust[n][m] # "blocked"
  /\ Trust[n][m] \in {"verified", "trusted"} \/ n \in Public

\* register_up under the lock of conns: the first connection of a key wins.
KeyFreeAlways(n, m) == TRUE
KeyFree(n, m) == conns[n][m] = 0
RegisterUp(e) ==
  LET n == Owner(e)  m == PeerOf(e) IN
  /\ at[e] = "admit"
  /\ IF Admits(n, m) /\ KeyFree(n, m)
     THEN /\ conns' = [conns EXCEPT ![n][m] = e[1]]
          /\ Goto(e, "up")
          /\ UNCHANGED refused
     ELSE /\ Goto(e, "gone")
          /\ refused' = IF Admits(n, m) THEN refused \cup {<<e, conns[n][m]>>} ELSE refused
          /\ UNCHANGED conns
  /\ UNCHANGED <<conn, ages, gauge, crashes>>

\* The gauge and the event follow after the lock; then run_conn starts its timers.
AnnounceUp(e) ==
  /\ at[e] = "up"
  /\ Goto(e, "run")
  /\ gauge' = [gauge EXCEPT ![Owner(e)][PeerOf(e)] = TRUE]
  /\ UNCHANGED <<conn, ages, conns, refused, crashes>>

\* register_down under the lock: only the caller's own entry goes.
RegisterDown(e) ==
  LET n == Owner(e)  m == PeerOf(e) IN
  IF conns[n][m] = e[1]
  THEN conns' = [conns EXCEPT ![n][m] = 0] /\ Goto(e, "down")
  ELSE UNCHANGED conns /\ Goto(e, "gone")

AnnounceDownQuietly(e) ==
  /\ at[e] = "down"
  /\ Goto(e, "gone")
  /\ UNCHANGED <<conn, ages, conns, gauge, refused, crashes>>
AnnounceDown(e) ==
  /\ at[e] = "down"
  /\ Goto(e, "gone")
  /\ gauge' = [gauge EXCEPT ![Owner(e)][PeerOf(e)] = FALSE]
  /\ UNCHANGED <<conn, ages, conns, refused, crashes>>

(* ------------------------------ run_conn ------------------------------ *)

\* A frame arrives, of whatever type: pings keep it coming from a live peer.
Hear(e) ==
  /\ at[e] = "run" /\ at[Other(e)] \in Running /\ silent[e] > 0
  /\ silent' = [silent EXCEPT ![e] = 0]
  /\ UNCHANGED <<conn, at, stuck, orphan, conns, gauge, refused, crashes>>

\* send_fed of a frame that does not fit the socket's buffers: the task, which is the
\* only reader of this end too, waits until the peer reads.
BeginSend(e) ==
  /\ at[e] = "run"
  /\ Goto(e, "send")
  /\ UNCHANGED <<conn, ages, conns, gauge, refused, crashes>>

EndSend(e) ==
  /\ at[e] = "send" /\ at[Other(e)] = "run"
  /\ Goto(e, "run") /\ stuck' = [stuck EXCEPT ![e] = 0]
  /\ UNCHANGED <<conn, silent, orphan, conns, gauge, refused, crashes>>

\* A timer that every turn of the loop builds anew never fires, and neither does one
\* that waits for the send.
SilentNever(e) == FALSE
Silent(e) == at[e] = "run" /\ silent[e] >= DEAD_AFTER
TimedOutNever(e) == FALSE
TimedOut(e) == at[e] = "send" /\ stuck[e] >= SEND_TIMEOUT

\* The loop breaks: the stream ends or errs, the rekey interval is over, the peer has
\* been silent for DEAD_AFTER, or a send has taken SEND_TIMEOUT.
Break(e) ==
  /\ \/ at[e] = "run"
     \/ at[e] = "send" /\ (TimedOut(e) \/ at[Other(e)] = "gone")
  /\ RegisterDown(e)
  /\ silent' = [silent EXCEPT ![e] = 0] /\ stuck' = [stuck EXCEPT ![e] = 0]
  /\ orphan' = [orphan EXCEPT ![e] = 0]
  /\ UNCHANGED <<conn, gauge, refused, crashes>>

\* A TICK passes; whoever's limit is reached has broken its loop before that.
Tick ==
  /\ \A e \in End : ~Silent(e) /\ ~TimedOut(e)
  /\ \E e \in End : at[e] \in Running
  /\ silent' = [e \in End |-> IF at[e] \in Running /\ silent[e] < DEAD_AFTER
                              THEN silent[e] + 1 ELSE silent[e]]
  /\ stuck' = [e \in End |-> IF at[e] = "send" THEN stuck[e] + 1 ELSE stuck[e]]
  /\ orphan' = [e \in End |->
       IF at[e] \in Running /\ at[Other(e)] = "gone" /\ orphan[e] <= DEAD_AFTER + SEND_TIMEOUT
       THEN orphan[e] + 1 ELSE orphan[e]]
  /\ UNCHANGED <<conn, at, conns, gauge, refused, crashes>>

\* A daemon stops without closing anything, and starts again with nothing.
Crash(n) ==
  /\ crashes < MaxCrashes /\ crashes' = crashes + 1
  /\ at' = [e \in End |-> IF e \in Open(n) THEN "gone" ELSE at[e]]
  /\ conns' = [conns EXCEPT ![n] = [m \in Node |-> 0]]
  /\ gauge' = [gauge EXCEPT ![n] = [m \in Node |-> FALSE]]
  /\ silent' = [e \in End |-> IF e \in Open(n) THEN 0 ELSE silent[e]]
  /\ stuck' = [e \in End |-> IF e \in Open(n) THEN 0 ELSE stuck[e]]
  /\ orphan' = [e \in End |-> IF e \in Open(n) THEN 0 ELSE orphan[e]]
  /\ UNCHANGED <<conn, refused>>

Next ==
  \/ \E n \in Node : \E m \in Peers[n] : \E to \in Reaches[m] : Dial(n, m, to)
  \/ \E c \in DOMAIN conn : Accept(c) \/ InitiatorDone(c) \/ ResponderDone(c)
  \/ \E e \in (DOMAIN conn) \X {1, 2} :
       \/ HandshakeFails(e) \/ RegisterUp(e) \/ AnnounceUp(e) \/ AnnounceDown(e)
       \/ Hear(e) \/ BeginSend(e) \/ EndSend(e) \/ Break(e)
  \/ Tick
  \/ \E n \in Node : Crash(n)

Spec == Init /\ [][Next]_vars

(* ----------------------------- properties ----------------------------- *)

\* The types of the connections, their ends and the registries; a send is given up at
\* SEND_TIMEOUT.
TypeOK ==
  /\ conn \in Seq([from : Node, expect : Node, to : Node, sent : BOOLEAN]) /\ Len(conn) <= MaxConns
  /\ at \in [End -> Active \cup {"none", "gone"}]
  /\ silent \in [End -> Nat] /\ stuck \in [End -> 0..SEND_TIMEOUT] /\ orphan \in [End -> Nat]
  /\ conns \in [Node -> [Node -> 0..MaxConns]]
  /\ gauge \in [Node -> [Node -> BOOLEAN]]
  /\ crashes \in 0..MaxCrashes

\* The registry names exactly the tasks that run: an entry belongs to one admitted
\* end of its daemon, and an end that runs holds the entry of its peer, whatever dials
\* cross and in whichever order ends are torn down.
RegistryIsLive ==
  /\ \A n, m \in Node : conns[n][m] # 0 =>
       \E e \in Open(n) : e[1] = conns[n][m] /\ PeerOf(e) = m /\ at[e] \in {"up", "run", "send"}
  /\ \A e \in End : at[e] \in {"up", "run", "send"} => conns[Owner(e)][PeerOf(e)] = e[1]

\* A connection is registered under the identity of the node at its other end, and
\* frames go to nobody else, though the address of a peer may lead elsewhere.
KeyIsIdentity ==
  \A e \in End : at[e] \in {"up", "run", "send"} => PeerOf(e) = Owner(Other(e))

\* Only a peer that the configuration vouches for holds a connection, but where
\* discovery is public; a blocked one never does.
AdmittedOnly ==
  \A n, m \in Node : conns[n][m] # 0 =>
    /\ Trust[n][m] # "blocked"
    /\ n \in Public \/ Trust[n][m] \in {"verified", "trusted"}

\* The listener never runs more tasks than its permits, in handshakes or out of them.
InboundBounded ==
  \A n \in Node : Cardinality({e \in Open(n) : e[2] = 2}) <= MAX_INBOUND_CONNS

\* An end whose peer is gone without a word is closed within DEAD_AFTER and one
\* SEND_TIMEOUT: neither the pings it sends nor a send that nobody reads keep it open.
OrphansClosed == \A e \in End : at[e] \in Running => orphan[e] <= DEAD_AFTER + SEND_TIMEOUT

\* relayfabric_federation_peer_up shows no peer up for good that is not: while it does,
\* a connection to the peer is open or its end is still to be announced.
UpMeansOpen ==
  \A n, m \in Node : gauge[n][m] =>
    \E e \in Open(n) : PeerOf(e) = m /\ at[e] \in {"up", "run", "send", "down"}

\* "Keep the existing one, drop this one": of two dials that cross, one survives.
CrossedDialKeepsOne ==
  \A x, y \in refused :
    ~(x[1][1] = y[2] /\ y[1][1] = x[2])

\* The registry can be relied on: it names exactly the connections that run, each under
\* the identity at its other end and only for a peer that is admitted, within the permits
\* of the listener, whatever dials cross and in whichever order ends are torn down.
RegistrySound == TypeOK /\ RegistryIsLive /\ KeyIsIdentity /\ AdmittedOnly /\ InboundBounded

\* That a peer is gone is noticed: its end is closed in time, and the gauge shows no peer
\* up for good that is not.
GoneIsNoticed == OrphansClosed /\ UpMeansOpen
=============================================================================
