----------------------------- MODULE Federation -----------------------------
(***************************************************************************)
(* The life of one message in a network of daemons: the federation half of *)
(* the pump (process_due_fed, process_due_fed_sealed), the connections     *)
(* that carry its frames, the ingress gates (fed_ingress,                  *)
(* fed_sealed_ingress) and the acks (handle_fed_ack).  Messages meet only  *)
(* in the limiters and the queue caps, so one is enough: a limiter's answer*)
(* is a free choice here and the caps are in DeliveryQueue.                *)
(*                                                                         *)
(* An ingress handler is two steps, because each gate takes its lock for   *)
(* itself: TakeEnvelope ends with the dedup peek and Commit starts with the*)
(* record, and the handler of another connection may run in between.       *)
(***************************************************************************)
EXTENDS Naturals, Sequences, FiniteSets

CONSTANTS
  Node, Route, Nil,
  Source, SourceRoute,   \* the node a plugin gave the message to, and the route it matched
  Destinations,          \* of a route of a node: a sequence of <<peer, route>> or Local
  Local,                 \* a destination served by a plugin
  Short,                 \* the synthetic destination fed:<node_short> of a rejection
  IngressRoutes,         \* federation.ingress_routes of each node
  Sealed,                \* the <<node, route>> with security_mode sealed
  Decrypts,              \* the <<node, route>> with allow_gateway_decryption
  Pseudonymous,          \* the nodes with identity_exposure pseudonymous
  AcceptChoices,         \* the sets of accepted peers a configuration may name
  MaxHops, MaxTtl, Retention,  \* of each node
  Ttl,                   \* when the message expires at its source; it was created at 0
  MaxAttempts,
  Cap,                   \* mpsc::channel(64) of a connection
  Clock, TroubleBound    \* bounds: the values the clock takes, and the disturbances

ASSUME FederationAssumption ==
  /\ Source \in Node /\ SourceRoute \in Route
  /\ Local \notin Node \X Route /\ Short \notin (Node \X Route) \cup {Local}
  /\ \A n \in Node : Destinations[n] \in [Route -> Seq(((Node \ {n}) \X Route) \cup {Local})]
  /\ AcceptChoices \in [Node -> SUBSET SUBSET Node]
  /\ {MaxHops, MaxTtl, Retention} \subseteq [Node -> Nat]
  /\ {Ttl, MaxAttempts, Cap, TroubleBound} \subseteq Nat /\ 0 \in Clock /\ Clock \subseteq Nat

VARIABLES
  now,
  stored,   \* of each node: its messages row, or Nil
  rows,     \* of each node: its deliveries rows, in the order of their ids
  seen,     \* the nodes whose in-memory Dedup holds the id
  trusted,  \* of each node: the peers at or above accept_from
  link,     \* of <<n, p>>: the frames from n to p, PeerConn.tx and the wire
  job,      \* of <<n, p>>: what n's handler of p's frame has let through, or Nil
  accepts,  \* history, of each node: the [peer, route] it has accepted from
  wiped,    \* history: the nodes whose dead letters an operator purged
  trouble   \* bound: the disturbances so far

vars == <<now, stored, rows, seen, trusted, link, job, accepts, wiped, trouble>>

Pairs == {l \in Node \X Node : l[1] # l[2]}
Dest == (Node \X Route) \cup {Local, Short}
Terminal == {"delivered", "failed", "expired", "dead_letter"}

(* ------------------------- the envelope ------------------------------- *)

\* What a copy of the envelope carries besides its constant content: who the
\* sender field names, the origin signature and the attestations, each with the
\* sender field it was computed over.
Signature == [node : Node, over : (Node \X Dest) \cup {Nil}]
Copy == [sender : (Node \X Dest) \cup {Nil}, origin : Signature \cup {Nil},
         chain : Seq(Signature), hops : Nat, expires : Nat]

ASSUME NilAssumption == Nil \notin Signature /\ Nil \notin Copy

\* As handle_inbound stores it: the raw sender, unsigned.
LocalCopy == [sender |-> Nil, origin |-> Nil, chain |-> <<>>, hops |-> 0, expires |-> Ttl]

\* sign_origin for a message of this node, after the sender is replaced by its
\* alias in the scope of the destination; relayed traffic is left as it is.
SignOriginAliasingRelays(n, d, c) ==
  LET ref == IF n \in Pseudonymous THEN <<n, d>> ELSE c.sender
  IN  [c EXCEPT !.sender = ref,
                !.origin = IF @ # Nil THEN @ ELSE [node |-> n, over |-> ref]]
SignOrigin(n, d, c) ==
  IF c.origin # Nil THEN c
  ELSE LET ref == IF n \in Pseudonymous THEN <<n, d>> ELSE c.sender
       IN  [c EXCEPT !.sender = ref, !.origin = [node |-> n, over |-> ref]]

\* append_attestation and hops += 1.
Attest(n, c) ==
  [c EXCEPT !.chain = Append(c.chain, [node |-> n, over |-> c.sender]), !.hops = c.hops + 1]

\* verify_chain.
VerifyChain(c) ==
  /\ c.origin # Nil /\ c.origin.over = c.sender
  /\ \A i \in 1..Len(c.chain) : c.chain[i].over = c.sender

\* The last link of check_chain_shape, for a signed copy.
LastLink(c) == IF c.chain = <<>> THEN c.origin.node ELSE c.chain[Len(c.chain)].node

\* The clamp of bound_replay_and_clamp_ttl.
Clamp(n, c) ==
  [c EXCEPT !.expires = IF @ > now + MaxTtl[n] THEN now + MaxTtl[n] ELSE @]

(* --------------------------- the frames ------------------------------- *)

Frame == [kind : {"envelope", "sealed"}, copy : Copy, route : Route]
         \cup [kind : {"ack"}, copy : {Nil}, route : {Nil}]
Ack == [kind |-> "ack", copy |-> Nil, route |-> Nil]

\* What a handler keeps between its two steps (open: the connection is still
\* the one the frame came from), and what is noted of one it ended well.
Job == [copy : Copy, route : Route, open : BOOLEAN]
Accept == [peer : Node, route : Route]

(* --------------------------- the rows --------------------------------- *)

Row == [route : Route, dest : Dest, state : Terminal \cup {"pending", "attempting", "purged"},
        attempts : 0..MaxAttempts, due : Nat]

Fresh(r, d, s) == [route |-> r, dest |-> d, state |-> s, attempts |-> 0, due |-> now]

\* fan_out_deliveries of one route.
FanOut(n, r) ==
  [i \in 1..Len(Destinations[n][r]) |-> Fresh(r, Destinations[n][r][i], "pending")]

\* A disturbance that is bounded: a failure, a refusal by a limiter, a restart.
Trouble == trouble < TroubleBound /\ trouble' = trouble + 1

SetRow(n, i, row) == rows' = [rows EXCEPT ![n][i] = row]

Init ==
  /\ now = 0
  /\ stored = [n \in Node |-> IF n = Source THEN LocalCopy ELSE Nil]
  /\ rows = [n \in Node |-> IF n = Source THEN FanOut(n, SourceRoute) ELSE <<>>]
  /\ seen = {}
  /\ trusted \in [Node -> SUBSET Node]
  /\ \A n \in Node : trusted[n] \in AcceptChoices[n]
  /\ link = [l \in Pairs |-> <<>>]
  /\ job = [l \in Pairs |-> Nil]
  /\ accepts = [n \in Node |-> <<>>]
  /\ wiped = {}
  /\ trouble = 0

(* ------------------------ the pump, outbound -------------------------- *)

\* A row that process_due passes on to process_due_fed.
Due(n, row) ==
  /\ row.state = "pending" /\ row.dest \in Node \X Route
  /\ stored[n] # Nil /\ now < stored[n].expires /\ row.attempts < MaxAttempts

\* What process_due_fed makes of the stored envelope for a row's destination: signed
\* here if it started here, attested, and sealed if the route says so.
FrameOf(n, row) ==
  [kind |-> IF <<n, row.route>> \in Sealed THEN "sealed" ELSE "envelope",
   copy |-> Attest(n, SignOrigin(n, row.dest, stored[n])), route |-> row.dest[2]]

\* process_due_fed: the frame is handed to the connection, or its channel is full
\* and the attempt is spent.
Send(n, i) ==
  LET row == rows[n][i]
      p == row.dest[1]
      tried == [row EXCEPT !.attempts = @ + 1]
  IN
  /\ Due(n, row)
  /\ IF Len(link[<<n, p>>]) < Cap
     THEN /\ SetRow(n, i, [tried EXCEPT !.state = "attempting"])
          /\ link' = [link EXCEPT ![<<n, p>>] = Append(@, FrameOf(n, row))]
     ELSE SetRow(n, i, [tried EXCEPT !.due = now]) /\ UNCHANGED link
  /\ UNCHANGED <<now, stored, seen, trusted, job, accepts, wiped, trouble>>

\* The peer is not connected, or its messages_per_minute are used up.
Defer(n, i) ==
  /\ Due(n, rows[n][i]) /\ rows[n][i].due # now
  /\ SetRow(n, i, [rows[n][i] EXCEPT !.due = now])
  /\ UNCHANGED <<now, stored, seen, trusted, link, job, accepts, wiped, trouble>>

\* A row to a peer may be dead-lettered before its attempts are used up: a policy denies
\* it, or its route is sealed and the peer has no key or the envelope is too large.
Refused(n, row) == row.dest \in Node \X Route

\* The early returns of process_due, by the state the row ends in.
Ending(n, row) ==
  {s \in {"failed", "expired", "dead_letter"} :
     /\ s = "failed" <=> stored[n] = Nil
     /\ s = "expired" <=> stored[n] # Nil /\ now >= stored[n].expires
     /\ s = "dead_letter" => row.attempts >= MaxAttempts \/ Refused(n, row)}

GiveUp(n, i) ==
  /\ rows[n][i].state = "pending"
  /\ \E s \in Ending(n, rows[n][i]) : SetRow(n, i, [rows[n][i] EXCEPT !.state = s])
  /\ UNCHANGED <<now, stored, seen, trusted, link, job, accepts, wiped, trouble>>

\* A row of a plugin comes to its end (DeliveryQueue has the way there).
SettleLocal(n, i) ==
  /\ rows[n][i].state = "pending" /\ rows[n][i].dest = Local
  /\ \E s \in {"delivered", "dead_letter"} : SetRow(n, i, [rows[n][i] EXCEPT !.state = s])
  /\ UNCHANGED <<now, stored, seen, trusted, link, job, accepts, wiped, trouble>>

\* The frame of a row, its handler or the ack is still under way.
UnderWay(n, p) == \/ link[<<n, p>>] # <<>> \/ job[<<p, n>>] # Nil \/ link[<<p, n>>] # <<>>

\* reclaim_stale: the attempting rows that have waited for an ack too long.  That
\* the answer is only late, and not lost, counts as a disturbance.
Reclaim(n) ==
  /\ \E S \in SUBSET {i \in DOMAIN rows[n] : rows[n][i].state = "attempting"} :
       /\ S # {}
       /\ rows' = [rows EXCEPT ![n] =
                    [i \in DOMAIN @ |-> IF i \in S THEN [@[i] EXCEPT !.state = "pending"] ELSE @[i]]]
       /\ IF \E i \in S : UnderWay(n, rows[n][i].dest[1]) THEN Trouble ELSE UNCHANGED trouble
  /\ UNCHANGED <<now, stored, seen, trusted, link, job, accepts, wiped>>

(* ---------------------- the connections, inbound ---------------------- *)

\* deliveries_for_fed_ack: every attempting row to this peer, whatever its route.
AckedByAnyone(row, p) == row.state = "attempting" /\ row.dest \in Node \X Route
AckedBy(row, p) == row.state = "attempting" /\ row.dest \in Node \X Route /\ row.dest[1] = p

\* handle_fed_ack.
TakeAck(n, p) ==
  /\ job[<<n, p>>] = Nil /\ link[<<p, n>>] # <<>> /\ Head(link[<<p, n>>]).kind = "ack"
  /\ link' = [link EXCEPT ![<<p, n>>] = Tail(@)]
  /\ rows' = [rows EXCEPT ![n] =
       [i \in DOMAIN @ |-> IF AckedBy(@[i], p) THEN [@[i] EXCEPT !.state = "delivered"] ELSE @[i]]]
  /\ UNCHANGED <<now, stored, seen, trusted, job, accepts, wiped, trouble>>

\* The gates that fed_ingress and fed_sealed_ingress share.
Genuine(n, p, c) == /\ p \in trusted[n]
                    /\ Len(c.chain) <= MaxHops[n] /\ LastLink(c) = p
                    /\ VerifyChain(c)
KnownRelayed(n) == n \in seen \/ (stored[n] # Nil /\ stored[n].chain # <<>>)
Known(n) == n \in seen \/ stored[n] # Nil

\* fed_ingress up to the dedup peek.  A peer that passed the trust gate has its
\* rejected envelope kept, with a dead letter; nothing else is.
Verdict(n, p, f) ==
  IF ~Genuine(n, p, f.copy) THEN "drop"
  ELSE IF now > MaxTtl[n] \/ f.copy.hops >= MaxHops[n] \/ f.route \notin IngressRoutes[n]
  THEN "dead_letter"
  ELSE IF Known(n) THEN "drop" ELSE "pass"

\* fed_sealed_ingress up to the limiter: the header's expiry is the sender's, no
\* rejection is kept, and the hop count is bounded by the chain alone.
SealedVerdictUnpeeked(n, p, f) ==
  IF /\ now < MaxTtl[p] /\ now <= MaxTtl[n] /\ Genuine(n, p, f.copy)
     /\ f.route \in IngressRoutes[n] /\ <<n, f.route>> \in Decrypts
  THEN "pass" ELSE "drop"
SealedVerdict(n, p, f) ==
  IF /\ now < MaxTtl[p] /\ now <= MaxTtl[n]
     /\ Genuine(n, p, f.copy) /\ ~Known(n)
     /\ f.route \in IngressRoutes[n] /\ <<n, f.route>> \in Decrypts
  THEN "pass" ELSE "drop"

TakeEnvelope(n, p) ==
  LET f == Head(link[<<p, n>>])
      verdict == IF f.kind = "sealed" THEN SealedVerdict(n, p, f) ELSE Verdict(n, p, f)
  IN
  /\ job[<<n, p>>] = Nil /\ link[<<p, n>>] # <<>> /\ f.kind # "ack"
  /\ link' = [link EXCEPT ![<<p, n>>] = Tail(@)]
  /\ \/ /\ verdict = "drop"
        /\ UNCHANGED <<stored, rows, job, trouble>>
     \/ /\ verdict = "dead_letter"
        /\ stored' = [stored EXCEPT ![n] =
                       IF @ # Nil THEN @ ELSE IF now > MaxTtl[n] THEN f.copy ELSE Clamp(n, f.copy)]
        /\ rows' = [rows EXCEPT ![n] = Append(@, Fresh(f.route, Short, "dead_letter"))]
        /\ UNCHANGED <<job, trouble>>
     \/ /\ verdict = "pass"
        /\ \/ Trouble /\ UNCHANGED job  \* RATE_LIMITED
           \/ /\ job' = [job EXCEPT ![<<n, p>>] =
                       [copy |-> Clamp(n, f.copy), route |-> f.route, open |-> TRUE]]
              /\ UNCHANGED trouble
        /\ UNCHANGED <<stored, rows>>
  /\ UNCHANGED <<now, seen, trusted, accepts, wiped>>

\* The record and persist_and_fan_out: the row is inserted unless one is there,
\* and the ack goes out on the connection the frame came from.
Commit(n, p) ==
  LET j == job[<<n, p>>] IN
  /\ j # Nil
  /\ job' = [job EXCEPT ![<<n, p>>] = Nil]
  /\ seen' = seen \cup {n}
  /\ \/ Trouble /\ UNCHANGED <<stored, rows, link, accepts>>  \* STORAGE_ERROR
     \/ /\ stored' = [stored EXCEPT ![n] = IF @ = Nil THEN j.copy ELSE @]
        /\ rows' = [rows EXCEPT ![n] = @ \o FanOut(n, j.route)]
        /\ accepts' = [accepts EXCEPT ![n] = Append(@, [peer |-> p, route |-> j.route])]
        /\ link' = IF j.open THEN [link EXCEPT ![<<n, p>>] = Append(@, Ack)] ELSE link
        /\ UNCHANGED trouble
  /\ UNCHANGED <<now, trusted, wiped>>

(* --------------------- links, purges and restarts --------------------- *)

\* What the connection of a handler that is under way has become.
Cut(j) == IF j = Nil THEN Nil ELSE [j EXCEPT !.open = FALSE]

\* A stream error, a dead peer or the rekey deadline: the frames under way are
\* lost and so is the ack of a handler that has started.  spawn_outbound connects
\* again; until then the pump defers the rows, which is to say takes no Send.
Drop(n, p) ==
  /\ UnderWay(n, p) \/ UnderWay(p, n)
  /\ Trouble
  /\ link' = [link EXCEPT ![<<n, p>>] = <<>>, ![<<p, n>>] = <<>>]
  /\ job' = [job EXCEPT ![<<n, p>>] = Cut(@), ![<<p, n>>] = Cut(@)]
  /\ UNCHANGED <<now, stored, rows, seen, trusted, accepts, wiped>>

\* The id leaves the in-memory Dedup: its ttl has passed, or the map was full.
Forget(n) ==
  /\ n \in seen /\ Trouble
  /\ seen' = seen \ {n}
  /\ UNCHANGED <<now, stored, rows, trusted, link, job, accepts, wiped>>

\* Deletes rows, and with the last of them the message (prune_orphans).
DeleteRows(n, S) ==
  LET rest == [i \in DOMAIN rows[n] |->
                IF i \in S THEN [rows[n][i] EXCEPT !.state = "purged"] ELSE rows[n][i]]
  IN  /\ rows' = [rows EXCEPT ![n] = rest]
      /\ stored' = [stored EXCEPT ![n] =
                     IF \A i \in DOMAIN rest : rest[i].state = "purged" THEN Nil ELSE @]

\* purge_terminal with the cutoff now - retention_secs.
PurgeTerminal(n) ==
  LET old == {i \in DOMAIN rows[n] : /\ rows[n][i].state \in Terminal
                                     /\ rows[n][i].due + Retention[n] < now}
  IN  /\ old # {}
      /\ DeleteRows(n, old)
      /\ UNCHANGED <<now, seen, trusted, link, job, accepts, wiped, trouble>>

\* purge_dead_letters: the operator empties the dead-letter queue.
PurgeDeadLetters(n) ==
  LET dead == {i \in DOMAIN rows[n] : rows[n][i].state = "dead_letter"}
  IN  /\ dead # {} /\ Trouble
      /\ DeleteRows(n, dead)
      /\ wiped' = wiped \cup {n}
      /\ UNCHANGED <<now, seen, trusted, link, job, accepts>>

\* The daemon stops and starts: Store::recover, an empty Dedup, no connection,
\* no handler, and seed_federation_trust from the configuration.
Restart(n) ==
  /\ Trouble
  /\ rows' = [rows EXCEPT ![n] = [i \in DOMAIN @ |->
                IF @[i].state = "attempting" THEN [@[i] EXCEPT !.state = "pending"] ELSE @[i]]]
  /\ seen' = seen \ {n}
  /\ \E S \in AcceptChoices[n] : trusted' = [trusted EXCEPT ![n] = S]
  /\ link' = [l \in Pairs |-> IF n = l[1] \/ n = l[2] THEN <<>> ELSE link[l]]
  /\ job' = [l \in Pairs |-> IF n = l[1] THEN Nil ELSE IF n = l[2] THEN Cut(job[l]) ELSE job[l]]
  /\ UNCHANGED <<now, stored, accepts, wiped>>

\* The clock counts in units of the replay window, next to which a handler takes
\* no time.
Tick ==
  /\ \A l \in Pairs : job[l] = Nil
  /\ now' \in {t \in Clock : t > now} /\ Trouble
  /\ UNCHANGED <<stored, rows, seen, trusted, link, job, accepts, wiped>>

Pump(n) == \E i \in DOMAIN rows[n] :
             Send(n, i) \/ Defer(n, i) \/ GiveUp(n, i) \/ SettleLocal(n, i)

Next ==
  \/ \E n \in Node : Pump(n) \/ Reclaim(n) \/ Forget(n) \/ PurgeTerminal(n)
                     \/ PurgeDeadLetters(n) \/ Restart(n)
  \/ \E l \in Pairs : \/ TakeAck(l[1], l[2]) \/ TakeEnvelope(l[1], l[2]) \/ Commit(l[1], l[2])
                      \/ Drop(l[1], l[2])
  \/ Tick

Spec == Init /\ [][Next]_vars

(* --------------------------- properties ------------------------------- *)

\* The types of the stores, rows, channels and jobs: a row has been tried at most
\* MAX_ATTEMPTS times and what travels is a signed copy or an ack.
TypeOK ==
  /\ now \in Clock /\ trouble \in 0..TroubleBound
  /\ stored \in [Node -> Copy \cup {Nil}]
  /\ rows \in [Node -> Seq(Row)]
  /\ seen \subseteq Node /\ wiped \subseteq Node
  /\ trusted \in [Node -> SUBSET Node]
  /\ link \in [Pairs -> Seq(Frame)]
  /\ job \in [Pairs -> Job \cup {Nil}]
  /\ accepts \in [Node -> Seq(Accept)]

\* The envelopes on their way from n to p.
Sent(l) == {link[l][i] : i \in {j \in DOMAIN link[l] : link[l][j].kind # "ack"}}

\* An honest node's envelope never fails a signature, a chain-peer or a hop-count
\* check, however often it was relayed, sealed or retried: what process_due_fed
\* signs is what verify_chain and check_chain_shape look at.
HonestChains ==
  \A l \in Pairs : \A f \in Sent(l) :
    /\ VerifyChain(f.copy) /\ LastLink(f.copy) = l[1]
    /\ f.copy.hops = Len(f.copy.chain)

\* The persistent half of dedup lasts as long as the replay window, unless the
\* retention is shorter or an operator has purged the node's dead letters.
Durable(n) == Retention[n] >= MaxTtl[n] /\ n \notin wiped

\* No node lets in a message that has passed through it, over any cycle of peers,
\* across restarts, expired dedup entries and purges: dedup by id is "the primary
\* loop-killer, hop cap being only the backstop".
LoopFree ==
  \A l \in Pairs : job[l] # Nil /\ Durable(l[1]) =>
    \A i \in DOMAIN job[l].copy.chain : job[l].copy.chain[i].node # l[1]

\* A node fans a message out at most once for each peer, whatever is retried: two
\* handlers that race between the peek and the record belong to different peers.
OncePerPeer ==
  \A n \in Node : Durable(n) =>
    \A i, j \in DOMAIN accepts[n] : accepts[n][i].peer = accepts[n][j].peer => i = j

\* A row that is marked delivered names a peer that took the message from this
\* node: only an accepted envelope is acked, and only to the peer that sent it.
DeliveredWasAccepted ==
  \A n \in Node : \A i \in DOMAIN rows[n] :
    rows[n][i].state = "delivered" /\ rows[n][i].dest # Local =>
      \E k \in DOMAIN accepts[rows[n][i].dest[1]] : accepts[rows[n][i].dest[1]][k].peer = n

\* Nothing is fanned out for a peer that is below accept_from at that moment,
\* though the gate was passed some steps before.
TrustedOnly ==
  [][\A n \in Node : accepts'[n] # accepts[n] =>
       accepts'[n][Len(accepts'[n])].peer \in trusted[n]]_vars

=============================================================================
