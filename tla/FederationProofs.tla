-------------------------- MODULE FederationProofs --------------------------
(* The federation's safety properties, for any network of nodes, any routes,  *)
(* hop limits, windows and retentions, and any number of disturbances.        *)
EXTENDS Federation, TLAPS

\* The prover of a step that names none, and its seconds.
USE ZenonT(60)

\* What the fan-out and the rejections make of a row: it names another node, and
\* the synthetic destination of a rejection is never tried.
RowOf(n) ==
  {row \in Row : /\ row.dest \in Node \X Route => row.dest[1] # n
                 /\ row.dest = Short => row.state \in {"dead_letter", "purged"}}

TypeInv == TypeOK /\ \A n \in Node : rows[n] \in Seq(RowOf(n))

(* ------------------------- type correctness --------------------------- *)

LEMMA Numbers ==
  /\ MaxTtl \in [Node -> Nat] /\ Retention \in [Node -> Nat]
  /\ Ttl \in Nat /\ MaxAttempts \in Nat /\ TroubleBound \in Nat
  /\ Clock \subseteq Nat
  /\ Local \notin Node \X Route /\ Short \notin Node \X Route /\ Short # Local
<1>1. MaxTtl \in [Node -> Nat] /\ Retention \in [Node -> Nat]
  BY FederationAssumption
<1>2. Ttl \in Nat /\ MaxAttempts \in Nat /\ TroubleBound \in Nat
  BY FederationAssumption
<1> QED
  BY <1>1, <1>2, FederationAssumption

LEMMA CopyTypes ==
  ASSUME NEW n \in Node, NEW d \in Dest, NEW c \in Copy, TypeOK
  PROVE  /\ SignOrigin(n, d, c) \in Copy /\ Attest(n, c) \in Copy
         /\ Clamp(n, c) \in Copy
<1> DEFINE ref == IF n \in Pseudonymous THEN <<n, d>> ELSE c.sender
<1>0. /\ ref \in (Node \X Dest) \cup {Nil} /\ c.sender \in (Node \X Dest) \cup {Nil}
      /\ c.chain \in Seq(Signature) /\ c.hops \in Nat
  BY DEF Copy
<1>1. SignOrigin(n, d, c) \in Copy
  <2> HIDE DEF ref
  <2>1. [node |-> n, over |-> ref] \in Signature
    BY <1>0 DEF Signature
  <2>2. [c EXCEPT !.sender = ref, !.origin = [node |-> n, over |-> ref]] \in Copy
    BY <1>0, <2>1 DEF Copy
  <2> QED
    BY <2>2 DEF SignOrigin, ref
<1>2. Attest(n, c) \in Copy
  <2> DEFINE s == [node |-> n, over |-> c.sender]
  <2>1. s \in Signature
    BY <1>0 DEF Signature
  <2> HIDE DEF s
  <2>2. Append(c.chain, s) \in Seq(Signature) /\ c.hops + 1 \in Nat
    BY <1>0, <2>1, SMTT(30)
  <2>3. [c EXCEPT !.chain = Append(c.chain, s), !.hops = c.hops + 1] \in Copy
    BY <2>2 DEF Copy
  <2> QED
    BY <2>3 DEF Attest, s
<1>3. now \in Nat /\ MaxTtl[n] \in Nat /\ now + MaxTtl[n] \in Nat
  BY Numbers, SMTT(30) DEF TypeOK
<1>4. Clamp(n, c) \in Copy
  BY <1>3 DEF Clamp, Copy
<1> QED
  BY <1>1, <1>2, <1>4

LEMMA FanOutType ==
  ASSUME NEW n \in Node, NEW r \in Route, now \in Nat
  PROVE  FanOut(n, r) \in Seq(RowOf(n))
<1> DEFINE ds == Destinations[n][r]
<1>1. ds \in Seq(((Node \ {n}) \X Route) \cup {Local})
  BY FederationAssumption
<1>2. Len(ds) \in Nat /\ \A i \in 1..Len(ds) : ds[i] \in ((Node \ {n}) \X Route) \cup {Local}
  BY <1>1, SMTT(30)
<1>4. ASSUME NEW d \in ((Node \ {n}) \X Route) \cup {Local}
      PROVE  Fresh(r, d, "pending") \in RowOf(n)
  BY Numbers, SMTT(30) DEF Fresh, RowOf, Row, Dest
<1> HIDE DEF ds
<1>5. [i \in 1..Len(ds) |-> Fresh(r, ds[i], "pending")] \in Seq(RowOf(n))
  BY <1>2, <1>4, SMTT(30)
<1> QED
  BY <1>5 DEF FanOut, ds

\* The rows of one node are replaced.
LEMMA RowsOfNode ==
  ASSUME TypeInv, NEW n \in Node, NEW new \in Seq(RowOf(n)), rows' = [rows EXCEPT ![n] = new]
  PROVE  /\ rows' \in [Node -> Seq(Row)]
         /\ \A m \in Node : rows'[m] \in Seq(RowOf(m))
<1>1. \A m \in Node : rows'[m] \in Seq(RowOf(m))
  BY DEF TypeInv, TypeOK
<1>2. \A m \in Node : RowOf(m) \subseteq Row
  BY DEF RowOf
<1>3. \A m \in Node : rows'[m] \in Seq(Row)
  BY <1>1, <1>2, SMTT(30)
<1> QED
  BY <1>1, <1>3 DEF TypeInv, TypeOK

LEMMA SetRowType ==
  ASSUME TypeInv, NEW n \in Node, NEW i \in DOMAIN rows[n], NEW row \in RowOf(n),
         SetRow(n, i, row)
  PROVE  /\ rows' \in [Node -> Seq(Row)]
         /\ \A m \in Node : rows'[m] \in Seq(RowOf(m))
<1>1. rows' = [rows EXCEPT ![n] = [rows[n] EXCEPT ![i] = row]]
  BY DEF SetRow, TypeInv, TypeOK
<1>2. [rows[n] EXCEPT ![i] = row] \in Seq(RowOf(n))
  BY SMTT(30) DEF TypeInv
<1> QED
  BY <1>1, <1>2, RowsOfNode

\* The rows of a node change state, none comes or goes.
LEMMA RestateType ==
  ASSUME TypeInv, NEW n \in Node, NEW rest,
         rest \in [DOMAIN rows[n] -> RowOf(n)], rows' = [rows EXCEPT ![n] = rest]
  PROVE  /\ rows' \in [Node -> Seq(Row)]
         /\ \A m \in Node : rows'[m] \in Seq(RowOf(m))
<1>1. rest \in Seq(RowOf(n))
  BY SMTT(30) DEF TypeInv
<1> QED
  BY <1>1, RowsOfNode

LEMMA TypeInit == Init => TypeInv
<1> SUFFICES ASSUME Init PROVE TypeInv
  OBVIOUS
<1>1. LocalCopy \in Copy
  BY Numbers, SMTT(30) DEF LocalCopy, Copy, Signature
<1>2. stored \in [Node -> Copy \cup {Nil}]
  BY <1>1 DEF Init
<1>3. now \in Clock /\ now \in Nat /\ trouble \in 0..TroubleBound
  BY Numbers, FederationAssumption, SMTT(30) DEF Init
<1>4. \A n \in Node : rows[n] \in Seq(RowOf(n))
  BY <1>3, FanOutType, FederationAssumption, SMTT(30) DEF Init
<1>5. \A n \in Node : RowOf(n) \subseteq Row
  BY DEF RowOf
<1>6. rows \in [Node -> Seq(Row)]
  <2>1. \A n \in Node : rows[n] \in Seq(Row)
    BY <1>4, <1>5, SMTT(30)
  <2> QED
    BY <2>1 DEF Init
<1>7. /\ link \in [Pairs -> Seq(Frame)] /\ job \in [Pairs -> Job \cup {Nil}]
      /\ accepts \in [Node -> Seq(Accept)]
      /\ seen \subseteq Node /\ wiped \subseteq Node /\ trusted \in [Node -> SUBSET Node]
  BY SMTT(30) DEF Init
<1> QED
  BY <1>2, <1>3, <1>4, <1>6, <1>7 DEF TypeInv, TypeOK

LEMMA PumpType ==
  ASSUME TypeInv, NEW n \in Node, Pump(n)
  PROVE  TypeInv'
<1> PICK i \in DOMAIN rows[n] : Send(n, i) \/ Defer(n, i) \/ GiveUp(n, i) \/ SettleLocal(n, i)
  BY DEF Pump
<1> DEFINE row == rows[n][i]
<1>0. rows[n] \in Seq(RowOf(n)) /\ now \in Nat
  BY Numbers DEF TypeInv, TypeOK
<1>1. row \in RowOf(n) /\ row \in Row /\ now \in Nat
  BY <1>0, SMTT(30) DEF RowOf
<1>2. ASSUME NEW new \in RowOf(n), SetRow(n, i, new), UNCHANGED <<now, stored, seen, trusted, job, accepts, wiped, trouble>>,
             link' \in [Pairs -> Seq(Frame)]
      PROVE  TypeInv'
  <2>1. rows' \in [Node -> Seq(Row)] /\ \A m \in Node : rows'[m] \in Seq(RowOf(m))
    BY <1>2, SetRowType
  <2> QED
    BY <2>1, <1>2 DEF TypeInv, TypeOK
<1>3. CASE Send(n, i)
  <2> DEFINE p == row.dest[1]
             c == Attest(n, SignOrigin(n, row.dest, stored[n]))
             frame == FrameOf(n, row)
             tried == [row EXCEPT !.attempts = @ + 1]
  <2>1. Due(n, row)
    BY <1>3 DEF Send
  <2>2. row.dest \in Node \X Route /\ row.dest \in Dest /\ p # n /\ <<n, p>> \in Pairs
    BY <1>1, <2>1 DEF Due, RowOf, Dest, Pairs
  <2>3. stored[n] \in Copy
    BY <2>1 DEF Due, TypeInv, TypeOK
  <2>4. c \in Copy
    BY <2>2, <2>3, CopyTypes DEF TypeInv
  <2>5. frame \in Frame
    BY <2>2, <2>4 DEF Frame, FrameOf
  <2>6. [tried EXCEPT !.state = "attempting"] \in RowOf(n) /\ [tried EXCEPT !.due = now] \in RowOf(n)
    <3>1. row.attempts + 1 \in 0..MaxAttempts /\ row.dest # Short
      BY <1>1, <2>1, <2>2, Numbers, SMTT(30) DEF Due, Row
    <3>2. tried \in Row /\ tried.dest = row.dest
      BY <1>1, <3>1 DEF Row
    <3> HIDE DEF tried
    <3>3. /\ [tried EXCEPT !.state = "attempting"] \in Row /\ [tried EXCEPT !.due = now] \in Row
          /\ [tried EXCEPT !.state = "attempting"].dest = row.dest
          /\ [tried EXCEPT !.due = now].dest = row.dest
      BY <1>1, <3>2 DEF Row
    <3> QED
      BY <3>1, <3>3, <2>2 DEF RowOf
  <2>7. link \in [Pairs -> Seq(Frame)]
    BY DEF TypeInv, TypeOK
  <2>8. CASE Len(link[<<n, p>>]) < Cap
    <3>1. SetRow(n, i, [tried EXCEPT !.state = "attempting"])
          /\ link' = [link EXCEPT ![<<n, p>>] = Append(@, frame)]
      BY <1>3, <2>8 DEF Send
    <3> HIDE DEF frame, p, tried
    <3>2. link' \in [Pairs -> Seq(Frame)]
      BY <3>1, <2>2, <2>5, <2>7, SMTT(30)
    <3> QED
      BY <1>2, <1>3, <2>6, <3>1, <3>2 DEF Send
  <2>9. CASE ~(Len(link[<<n, p>>]) < Cap)
    <3>1. SetRow(n, i, [tried EXCEPT !.due = now]) /\ UNCHANGED link
      BY <1>3, <2>9 DEF Send
    <3> HIDE DEF tried
    <3> QED
      BY <1>2, <1>3, <2>6, <2>7, <3>1 DEF Send
  <2> QED
    BY <2>8, <2>9
<1>4. CASE Defer(n, i)
  <2>1. [row EXCEPT !.due = now] \in RowOf(n)
    BY <1>1 DEF RowOf, Row
  <2>2. SetRow(n, i, [row EXCEPT !.due = now]) /\ link' \in [Pairs -> Seq(Frame)]
    BY <1>4 DEF Defer, TypeInv, TypeOK
  <2> QED
    BY <1>2, <1>4, <2>1, <2>2 DEF Defer
<1>5. CASE GiveUp(n, i)
  <2> PICK s \in Ending(n, row) : SetRow(n, i, [row EXCEPT !.state = s])
    BY <1>5 DEF GiveUp
  <2>1. s \in Terminal /\ row.dest # Short
    BY <1>1, <1>5 DEF Ending, GiveUp, RowOf, Terminal
  <2>2. [row EXCEPT !.state = s] \in RowOf(n)
    BY <1>1, <2>1 DEF RowOf, Row
  <2>3. link' \in [Pairs -> Seq(Frame)]
    BY <1>5 DEF GiveUp, TypeInv, TypeOK
  <2> QED
    BY <1>2, <1>5, <2>2, <2>3 DEF GiveUp
<1>6. CASE SettleLocal(n, i)
  <2> PICK s \in {"delivered", "dead_letter"} : SetRow(n, i, [row EXCEPT !.state = s])
    BY <1>6 DEF SettleLocal
  <2>1. row.dest # Short /\ s \in Terminal
    BY <1>6, Numbers DEF SettleLocal, Terminal
  <2>2. [row EXCEPT !.state = s] \in RowOf(n)
    BY <1>1, <2>1 DEF RowOf, Row
  <2>3. link' \in [Pairs -> Seq(Frame)]
    BY <1>6 DEF SettleLocal, TypeInv, TypeOK
  <2> QED
    BY <1>2, <1>6, <2>2, <2>3 DEF SettleLocal
<1> QED
  BY <1>3, <1>4, <1>5, <1>6

LEMMA RowsType ==
  ASSUME TypeInv, NEW n \in Node,
         \/ Reclaim(n) \/ PurgeTerminal(n) \/ PurgeDeadLetters(n) \/ Restart(n)
         \/ \E p \in Node : TakeAck(n, p)
  PROVE  /\ rows' \in [Node -> Seq(Row)]
         /\ \A m \in Node : rows'[m] \in Seq(RowOf(m))
<1>1. ASSUME NEW i \in DOMAIN rows[n]
      PROVE  rows[n][i] \in RowOf(n)
  BY SMTT(30) DEF TypeInv
<1>2. ASSUME NEW i \in DOMAIN rows[n], NEW s \in Terminal \cup {"pending", "purged"},
             rows[n][i].state = "attempting" \/ s = "purged"
      PROVE  [rows[n][i] EXCEPT !.state = s] \in RowOf(n)
  BY <1>1, <1>2 DEF RowOf, Row
<1>3. CASE Reclaim(n)
  <2> PICK S \in SUBSET {i \in DOMAIN rows[n] : rows[n][i].state = "attempting"} :
        rows' = [rows EXCEPT ![n] =
                  [i \in DOMAIN @ |-> IF i \in S THEN [@[i] EXCEPT !.state = "pending"] ELSE @[i]]]
    BY <1>3 DEF Reclaim
  <2> DEFINE rest == [i \in DOMAIN rows[n] |->
                       IF i \in S THEN [rows[n][i] EXCEPT !.state = "pending"] ELSE rows[n][i]]
  <2>1. rest \in [DOMAIN rows[n] -> RowOf(n)]
    BY <1>1, <1>2
  <2> QED
    BY <2>1, RestateType
<1>4. ASSUME NEW S, DeleteRows(n, S)
      PROVE  /\ rows' \in [Node -> Seq(Row)]
             /\ \A m \in Node : rows'[m] \in Seq(RowOf(m))
  <2> DEFINE rest == [i \in DOMAIN rows[n] |->
                       IF i \in S THEN [rows[n][i] EXCEPT !.state = "purged"] ELSE rows[n][i]]
  <2>1. rest \in [DOMAIN rows[n] -> RowOf(n)]
    BY <1>1, <1>2
  <2>2. rows' = [rows EXCEPT ![n] = rest]
    BY <1>4 DEF DeleteRows
  <2> QED
    BY <2>1, <2>2, RestateType
<1>5. CASE Restart(n)
  <2> DEFINE rest == [i \in DOMAIN rows[n] |->
                       IF rows[n][i].state = "attempting"
                       THEN [rows[n][i] EXCEPT !.state = "pending"] ELSE rows[n][i]]
  <2>1. rest \in [DOMAIN rows[n] -> RowOf(n)]
    BY <1>1, <1>2
  <2>2. rows' = [rows EXCEPT ![n] = rest]
    BY <1>5 DEF Restart
  <2> QED
    BY <2>1, <2>2, RestateType
<1>6. ASSUME NEW p \in Node, TakeAck(n, p)
      PROVE  /\ rows' \in [Node -> Seq(Row)]
             /\ \A m \in Node : rows'[m] \in Seq(RowOf(m))
  <2> DEFINE rest == [i \in DOMAIN rows[n] |->
                       IF AckedBy(rows[n][i], p)
                       THEN [rows[n][i] EXCEPT !.state = "delivered"] ELSE rows[n][i]]
  <2>1. rest \in [DOMAIN rows[n] -> RowOf(n)]
    BY <1>1, <1>2 DEF AckedBy, Terminal
  <2>2. rows' = [rows EXCEPT ![n] = rest]
    BY <1>6 DEF TakeAck
  <2> QED
    BY <2>1, <2>2, RestateType
<1> QED
  BY <1>3, <1>4, <1>5, <1>6 DEF PurgeTerminal, PurgeDeadLetters

LEMMA IngressType ==
  ASSUME TypeInv, NEW n \in Node, NEW p \in Node, <<n, p>> \in Pairs, TakeEnvelope(n, p)
  PROVE  TypeInv'
<1> DEFINE f == Head(link[<<p, n>>])
<1>1. <<p, n>> \in Pairs /\ link[<<p, n>>] \in Seq(Frame) /\ link[<<p, n>>] # <<>>
  BY DEF Pairs, TypeInv, TypeOK, TakeEnvelope
<1>2. f \in Frame /\ f.kind # "ack" /\ Tail(link[<<p, n>>]) \in Seq(Frame)
  BY <1>1, SMTT(30) DEF TakeEnvelope
<1>3. f.copy \in Copy /\ f.route \in Route /\ Clamp(n, f.copy) \in Copy
  BY <1>2, CopyTypes, FederationAssumption DEF Frame, TypeInv, Dest
<1>4. now \in Nat
  BY Numbers DEF TypeInv, TypeOK
<1>5. link' = [link EXCEPT ![<<p, n>>] = Tail(@)] /\ UNCHANGED <<now, seen, trusted, accepts, wiped>>
  BY DEF TakeEnvelope
<1>6. link' \in [Pairs -> Seq(Frame)]
  BY <1>1, <1>2, <1>5 DEF TypeInv, TypeOK
<1> HIDE DEF f
<1>7. \/ UNCHANGED rows
      \/ rows' = [rows EXCEPT ![n] = Append(@, Fresh(f.route, Short, "dead_letter"))]
  BY DEF TakeEnvelope, f
<1>8. rows' \in [Node -> Seq(Row)] /\ \A m \in Node : rows'[m] \in Seq(RowOf(m))
  <2>1. Fresh(f.route, Short, "dead_letter") \in RowOf(n)
    BY <1>3, <1>4, Numbers, SMTT(30) DEF Fresh, RowOf, Row, Dest, Terminal
  <2>2. Append(rows[n], Fresh(f.route, Short, "dead_letter")) \in Seq(RowOf(n))
    BY <2>1, SMTT(30) DEF TypeInv
  <2> QED
    BY <1>7, <2>2, RowsOfNode DEF TypeInv, TypeOK
<1>9. \/ UNCHANGED stored
      \/ \E c \in {stored[n], f.copy, Clamp(n, f.copy)} : stored' = [stored EXCEPT ![n] = c]
  BY DEF TakeEnvelope, f
<1>10. stored' \in [Node -> Copy \cup {Nil}]
  BY <1>3, <1>9 DEF TypeInv, TypeOK
<1>11. \/ UNCHANGED job
       \/ job' = [job EXCEPT ![<<n, p>>] = [copy |-> Clamp(n, f.copy), route |-> f.route, open |-> TRUE]]
  BY DEF TakeEnvelope, f
<1>12. job' \in [Pairs -> Job \cup {Nil}]
  <2>1. [copy |-> Clamp(n, f.copy), route |-> f.route, open |-> TRUE] \in Job
    BY <1>3 DEF Job
  <2> QED
    BY <1>11, <2>1 DEF TypeInv, TypeOK
<1>13. UNCHANGED trouble \/ Trouble
  BY DEF TakeEnvelope
<1>14. trouble' \in 0..TroubleBound
  BY <1>13, Numbers, SMTT(30) DEF Trouble, TypeInv, TypeOK
<1> QED
  BY <1>5, <1>6, <1>8, <1>10, <1>12, <1>14 DEF TypeInv, TypeOK

LEMMA CommitType ==
  ASSUME TypeInv, NEW n \in Node, NEW p \in Node, <<n, p>> \in Pairs, Commit(n, p)
  PROVE  TypeInv'
<1> DEFINE j == job[<<n, p>>]
<1>1. j \in Job
  BY DEF Commit, TypeInv, TypeOK
<1>2. j.copy \in Copy /\ j.route \in Route
  BY <1>1 DEF Job
<1> HIDE DEF j
<1>3. /\ job' = [job EXCEPT ![<<n, p>>] = Nil] /\ seen' = seen \cup {n}
      /\ UNCHANGED <<now, trusted, wiped>>
  BY DEF Commit
<1>4. CASE Trouble /\ UNCHANGED <<stored, rows, link, accepts>>
  <2>1. trouble' \in 0..TroubleBound
    BY <1>4, Numbers, SMTT(30) DEF Trouble, TypeInv, TypeOK
  <2>2. job' \in [Pairs -> Job \cup {Nil}] /\ seen' \subseteq Node
    BY <1>3 DEF TypeInv, TypeOK
  <2> QED
    BY <1>3, <1>4, <2>1, <2>2 DEF TypeInv, TypeOK
<1>5. CASE /\ stored' = [stored EXCEPT ![n] = IF @ = Nil THEN j.copy ELSE @]
           /\ rows' = [rows EXCEPT ![n] = @ \o FanOut(n, j.route)]
           /\ accepts' = [accepts EXCEPT ![n] = Append(@, [peer |-> p, route |-> j.route])]
           /\ link' = IF j.open THEN [link EXCEPT ![<<n, p>>] = Append(@, Ack)] ELSE link
           /\ UNCHANGED trouble
  <2>1. stored' \in [Node -> Copy \cup {Nil}]
    BY <1>2, <1>5 DEF TypeInv, TypeOK
  <2>2. now \in Nat
    BY Numbers DEF TypeInv, TypeOK
  <2>3. rows[n] \o FanOut(n, j.route) \in Seq(RowOf(n))
    BY <1>2, <2>2, FanOutType, SMTT(30) DEF TypeInv
  <2>4. rows' \in [Node -> Seq(Row)] /\ \A m \in Node : rows'[m] \in Seq(RowOf(m))
    BY <1>5, <2>3, RowsOfNode
  <2>5. accepts' \in [Node -> Seq(Accept)]
    <3>1. [peer |-> p, route |-> j.route] \in Accept
      BY <1>2 DEF Accept
    <3> QED
      BY <1>5, <3>1, SMTT(30) DEF TypeInv, TypeOK
  <2>6. link' \in [Pairs -> Seq(Frame)]
    <3>1. Ack \in Frame
      BY DEF Ack, Frame
    <3> QED
      BY <1>5, <3>1, SMTT(30) DEF TypeInv, TypeOK
  <2>7. job' \in [Pairs -> Job \cup {Nil}] /\ seen' \subseteq Node
    BY <1>3 DEF TypeInv, TypeOK
  <2> QED
    BY <1>3, <1>5, <2>1, <2>4, <2>5, <2>6, <2>7 DEF TypeInv, TypeOK
<1> QED
  BY <1>4, <1>5 DEF Commit, j

LEMMA CutType == ASSUME NEW j \in Job \cup {Nil} PROVE Cut(j) \in Job \cup {Nil}
BY DEF Cut, Job

LEMMA TypeStep ==
  ASSUME TypeInv, [Next]_vars
  PROVE  TypeInv'
<1> USE DEF TypeInv
<1>1. ASSUME Trouble PROVE trouble' \in 0..TroubleBound
  BY <1>1, Numbers, SMTT(30) DEF Trouble, TypeOK
<1>2. ASSUME NEW n \in Node, Reclaim(n)
      PROVE  TypeInv'
  <2>1. trouble' \in 0..TroubleBound
    BY <1>1, <1>2 DEF Reclaim, TypeOK
  <2>2. UNCHANGED <<now, stored, seen, trusted, link, job, accepts, wiped>>
    BY <1>2 DEF Reclaim
  <2> QED
    BY <1>2, <2>1, <2>2, RowsType DEF TypeOK
<1>3. ASSUME NEW n \in Node, Forget(n)
      PROVE  TypeInv'
  BY <1>1, <1>3 DEF Forget, TypeOK
<1>4. ASSUME NEW n \in Node, PurgeTerminal(n) \/ PurgeDeadLetters(n)
      PROVE  TypeInv'
  <2>1. trouble' \in 0..TroubleBound
    BY <1>1, <1>4 DEF PurgeTerminal, PurgeDeadLetters, TypeOK
  <2>2. stored' \in [Node -> Copy \cup {Nil}]
    BY <1>4 DEF PurgeTerminal, PurgeDeadLetters, DeleteRows, TypeOK
  <2>3. UNCHANGED <<now, seen, trusted, link, job, accepts>> /\ wiped' \subseteq Node
    BY <1>4 DEF PurgeTerminal, PurgeDeadLetters, TypeOK
  <2> QED
    BY <1>4, <2>1, <2>2, <2>3, RowsType DEF TypeOK
<1>5. ASSUME NEW n \in Node, Restart(n)
      PROVE  TypeInv'
  <2>1. trouble' \in 0..TroubleBound /\ seen' \subseteq Node /\ UNCHANGED <<now, stored, accepts, wiped>>
    BY <1>1, <1>5 DEF Restart, TypeOK
  <2>2. trusted' \in [Node -> SUBSET Node]
    BY <1>5, FederationAssumption DEF Restart, TypeOK
  <2>3. link' \in [Pairs -> Seq(Frame)]
    BY <1>5, SMTT(30) DEF Restart, TypeOK
  <2>4. job' \in [Pairs -> Job \cup {Nil}]
    <3>1. \A l \in Pairs : job[l] \in Job \cup {Nil} /\ Cut(job[l]) \in Job \cup {Nil}
      BY CutType DEF TypeOK
    <3> QED
      BY <1>5, <3>1 DEF Restart
  <2> QED
    BY <1>5, <2>1, <2>2, <2>3, <2>4, RowsType DEF TypeOK
<1>6. ASSUME NEW n \in Node, NEW p \in Node, <<n, p>> \in Pairs, TakeAck(n, p)
      PROVE  TypeInv'
  <2>1. link' \in [Pairs -> Seq(Frame)]
    BY <1>6, SMTT(30) DEF TakeAck, Pairs, TypeOK
  <2>2. UNCHANGED <<now, stored, seen, trusted, job, accepts, wiped, trouble>>
    BY <1>6 DEF TakeAck
  <2> QED
    BY <1>6, <2>1, <2>2, RowsType DEF TypeOK
<1>7. ASSUME NEW n \in Node, NEW p \in Node, <<n, p>> \in Pairs, Drop(n, p)
      PROVE  TypeInv'
  <2>1. trouble' \in 0..TroubleBound /\ UNCHANGED <<now, stored, rows, seen, trusted, accepts, wiped>>
    BY <1>1, <1>7 DEF Drop
  <2>2. link' \in [Pairs -> Seq(Frame)]
    <3>1. <<>> \in Seq(Frame) /\ \A l \in Pairs : link[l] \in Seq(Frame)
      BY SMTT(30) DEF TypeOK
    <3> QED
      BY <1>7, <3>1 DEF Drop, TypeOK
  <2>3. job' \in [Pairs -> Job \cup {Nil}]
    <3>1. \A l \in Pairs : job[l] \in Job \cup {Nil} /\ Cut(job[l]) \in Job \cup {Nil}
      BY CutType DEF TypeOK
    <3>2. <<p, n>> \in Pairs /\ <<n, p>> # <<p, n>>
      BY <1>7 DEF Pairs
    <3> QED
      BY <1>7, <3>1, <3>2 DEF Drop, TypeOK
  <2> QED
    BY <2>1, <2>2, <2>3 DEF TypeOK
<1>8. CASE Tick
  BY <1>1, <1>8 DEF Tick, TypeOK
<1>9. CASE UNCHANGED vars
  BY <1>9 DEF vars, TypeOK
<1>10. \A l \in Pairs : l[1] \in Node /\ l[2] \in Node /\ l = <<l[1], l[2]>>
  BY SMTT(30) DEF Pairs
<1> QED
  BY <1>2, <1>3, <1>4, <1>5, <1>6, <1>7, <1>8, <1>9, <1>10, PumpType, IngressType, CommitType
     DEF Next

\* Every variable keeps to its type through all the handlers of the federation;
\* above all no row is tried more than queue.max_attempts times (process_due).
THEOREM TypeCorrect == Spec => []TypeOK
<1>1. TypeInv => TypeOK
  BY DEF TypeInv
<1> QED
  BY <1>1, TypeInit, TypeStep, PTL DEF Spec

(* ----------------------- what one step changes ------------------------ *)

\* A frame under way was there before, or acks a message that was accepted, or was
\* made by the pump of the message on file.
LEMMA FrameStep ==
  ASSUME TypeInv, [Next]_vars, NEW l \in Pairs, NEW i \in DOMAIN link'[l]
  PROVE  \/ \E j \in DOMAIN link[l] : link'[l][i] = link[l][j]
         \/ /\ link'[l][i].kind = "ack"
            /\ \E k \in DOMAIN accepts'[l[1]] : accepts'[l[1]][k].peer = l[2]
         \/ /\ stored[l[1]] # Nil /\ link'[l][i].kind # "ack"
            /\ \E d \in Dest : link'[l][i].copy = Attest(l[1], SignOrigin(l[1], d, stored[l[1]]))
<1> USE DEF TypeInv
<1>0. link[l] \in Seq(Frame) /\ l[1] \in Node /\ l[2] \in Node /\ l = <<l[1], l[2]>>
  BY SMTT(30) DEF TypeOK, Pairs
<1>1. ASSUME link'[l] = link[l] \/ link'[l] = <<>> \/ (link[l] # <<>> /\ link'[l] = Tail(link[l]))
      PROVE  \E j \in DOMAIN link[l] : link'[l][i] = link[l][j]
  <2>1. CASE link[l] # <<>> /\ link'[l] = Tail(link[l])
    <3>1. i + 1 \in DOMAIN link[l] /\ link'[l][i] = link[l][i + 1]
      BY <1>0, <2>1, SMTT(30)
    <3> QED
      BY <3>1
  <2> QED
    BY <1>0, <1>1, <2>1, SMTT(30)
<1>2. ASSUME NEW n \in Node, NEW k \in DOMAIN rows[n], Send(n, k)
      PROVE  \/ \E j \in DOMAIN link[l] : link'[l][i] = link[l][j]
             \/ /\ stored[l[1]] # Nil /\ link'[l][i].kind # "ack"
                /\ \E d \in Dest :
                     link'[l][i].copy = Attest(l[1], SignOrigin(l[1], d, stored[l[1]]))
  <2> DEFINE row == rows[n][k]
             p == row.dest[1]
             c == Attest(n, SignOrigin(n, row.dest, stored[n]))
             frame == FrameOf(n, row)
  <2>1. UNCHANGED link \/ link' = [link EXCEPT ![<<n, p>>] = Append(@, frame)]
    BY <1>2 DEF Send
  <2>2. stored[n] # Nil /\ row.dest \in Dest
    BY <1>2 DEF Send, Due, Dest
  <2>3. frame.copy = c /\ frame.kind # "ack"
    BY DEF FrameOf
  <2> HIDE DEF frame, c, p
  <2>4. link'[l] = link[l] \/ (l = <<n, p>> /\ link'[l] = Append(link[l], frame))
    BY <2>1 DEF TypeOK
  <2>5. CASE link'[l] = link[l]
    BY <1>1, <2>5
  <2>6. CASE l = <<n, p>> /\ link'[l] = Append(link[l], frame)
    <3>1. (i \in DOMAIN link[l] /\ link'[l][i] = link[l][i]) \/ link'[l][i] = frame
      BY <1>0, <2>6, SMTT(30)
    <3>2. l[1] = n
      BY <2>6
    <3> QED
      BY <2>2, <2>3, <3>1, <3>2 DEF c
  <2> QED
    BY <2>4, <2>5, <2>6
<1>3. ASSUME NEW n \in Node, NEW p \in Node, <<n, p>> \in Pairs, Commit(n, p)
      PROVE  \/ \E j \in DOMAIN link[l] : link'[l][i] = link[l][j]
             \/ /\ link'[l][i].kind = "ack"
                /\ \E k \in DOMAIN accepts'[l[1]] : accepts'[l[1]][k].peer = l[2]
  <2> DEFINE a == [peer |-> p, route |-> job[<<n, p>>].route]
  <2>1. \/ UNCHANGED link
        \/ /\ link' = [link EXCEPT ![<<n, p>>] = Append(@, Ack)]
           /\ accepts' = [accepts EXCEPT ![n] = Append(@, a)]
    BY <1>3 DEF Commit
  <2>2. CASE UNCHANGED link \/ l # <<n, p>>
    BY <1>1, <2>1, <2>2 DEF TypeOK
  <2>3. CASE /\ l = <<n, p>>
             /\ link' = [link EXCEPT ![<<n, p>>] = Append(@, Ack)]
             /\ accepts' = [accepts EXCEPT ![n] = Append(@, a)]
    <3>1. a.peer = p
      OBVIOUS
    <3> HIDE DEF a
    <3>2. accepts[n] \in Seq(Accept) /\ accepts'[n] = Append(accepts[n], a) /\ l[1] = n /\ l[2] = p
      BY <2>3 DEF TypeOK
    <3>3. \E k \in DOMAIN accepts'[n] : accepts'[n][k] = a
      <4>1. Len(accepts[n]) + 1 \in DOMAIN accepts'[n] /\ accepts'[n][Len(accepts[n]) + 1] = a
        BY <3>2, SMTT(30)
      <4> QED
        BY <4>1
    <3>4. link'[l] = Append(link[l], Ack)
      BY <2>3 DEF TypeOK
    <3>5. (i \in DOMAIN link[l] /\ link'[l][i] = link[l][i]) \/ link'[l][i] = Ack
      BY <1>0, <3>4, SMTT(30)
    <3> QED
      BY <3>1, <3>2, <3>3, <3>5, SMTT(30) DEF Ack
  <2> QED
    BY <2>1, <2>2, <2>3
<1>4. ASSUME NEW n \in Node, NEW p \in Node, TakeAck(n, p) \/ TakeEnvelope(n, p) \/ Drop(n, p)
      PROVE  \E j \in DOMAIN link[l] : link'[l][i] = link[l][j]
  <2>1. link'[l] = link[l] \/ link'[l] = <<>> \/ (link[l] # <<>> /\ link'[l] = Tail(link[l]))
    BY <1>4 DEF TakeAck, TakeEnvelope, Drop, TypeOK
  <2> QED
    BY <1>1, <2>1
<1>5. ASSUME \E n \in Node : Restart(n)
      PROVE  \E j \in DOMAIN link[l] : link'[l][i] = link[l][j]
  BY <1>1, <1>5 DEF Restart
<1>6. ASSUME UNCHANGED link
      PROVE  \E j \in DOMAIN link[l] : link'[l][i] = link[l][j]
  BY <1>1, <1>6
<1>7. \/ UNCHANGED link
      \/ \E n \in Node : (\E k \in DOMAIN rows[n] : Send(n, k)) \/ Restart(n)
      \/ \E m \in Pairs : \/ TakeAck(m[1], m[2]) \/ TakeEnvelope(m[1], m[2])
                          \/ Drop(m[1], m[2]) \/ Commit(m[1], m[2])
  BY DEF Next, vars, Pump, Defer, GiveUp, SettleLocal, Reclaim, Forget, PurgeTerminal,
         PurgeDeadLetters, Tick
<1>8. \A m \in Pairs : m[1] \in Node /\ m[2] \in Node /\ m = <<m[1], m[2]>>
  BY SMTT(30) DEF Pairs
<1> QED
  BY <1>2, <1>3, <1>4, <1>5, <1>6, <1>7, <1>8

\* What a copy that a node has taken in comes from: a frame of the peer.
Received(n, p, c) ==
  \E i \in DOMAIN link[<<p, n>>] :
    link[<<p, n>>][i].kind # "ack" /\ c \in {link[<<p, n>>][i].copy, Clamp(n, link[<<p, n>>][i].copy)}

LEMMA IngressStep ==
  ASSUME TypeInv, NEW n \in Node, NEW p \in Node, <<n, p>> \in Pairs, TakeEnvelope(n, p)
  PROVE  /\ UNCHANGED <<accepts, trusted, wiped, now>>
         /\ \A m \in Node : \/ stored'[m] = stored[m]
                            \/ m = n /\ Received(n, p, stored'[m])
         /\ stored'[n] = stored[n] \/ stored[n] = Nil
         /\ \/ UNCHANGED job
            \/ /\ Received(n, p, job'[<<n, p>>].copy)
               /\ \A l \in Pairs : l # <<n, p>> => job'[l] = job[l]
               /\ UNCHANGED stored /\ stored[n] = Nil /\ p \in trusted[n] /\ ~(now > MaxTtl[n])
<1> DEFINE f == Head(link[<<p, n>>])
           new == [copy |-> Clamp(n, f.copy), route |-> f.route, open |-> TRUE]
           verdict == IF f.kind = "sealed" THEN SealedVerdict(n, p, f) ELSE Verdict(n, p, f)
<1>1. <<p, n>> \in Pairs /\ link[<<p, n>>] \in Seq(Frame) /\ link[<<p, n>>] # <<>> /\ f.kind # "ack"
  BY DEF Pairs, TypeInv, TypeOK, TakeEnvelope
<1>2. 1 \in DOMAIN link[<<p, n>>] /\ link[<<p, n>>][1] = f
  BY <1>1, SMTT(30)
<1> HIDE DEF f
<1>3. Received(n, p, f.copy) /\ Received(n, p, Clamp(n, f.copy))
  BY <1>1, <1>2 DEF Received
<1>4. UNCHANGED <<accepts, trusted, wiped, now>>
  BY DEF TakeEnvelope
<1>5. new.copy = Clamp(n, f.copy)
  OBVIOUS
<1>6. ASSUME verdict = "pass"
      PROVE  stored[n] = Nil /\ p \in trusted[n] /\ ~(now > MaxTtl[n])
  <2>1. CASE f.kind = "sealed"
    <3>1. stored[n] = Nil /\ p \in trusted[n] /\ now <= MaxTtl[n]
      BY <1>6, <2>1 DEF SealedVerdict, Genuine, Known
    <3> QED
      BY <3>1, Numbers, SMTT(30) DEF TypeInv, TypeOK
  <2>2. CASE f.kind # "sealed"
    BY <1>6, <2>2 DEF Verdict, Genuine, Known
  <2> QED
    BY <2>1, <2>2
<1> HIDE DEF verdict, new
<1>7. \/ UNCHANGED <<stored, job>>
      \/ /\ UNCHANGED job
         /\ stored' = [stored EXCEPT ![n] = IF @ # Nil THEN @ ELSE
                                            IF now > MaxTtl[n] THEN f.copy ELSE Clamp(n, f.copy)]
      \/ /\ verdict = "pass" /\ UNCHANGED stored
         /\ job' = [job EXCEPT ![<<n, p>>] = new]
  BY DEF TakeEnvelope, f, verdict, new
<1>8. stored \in [Node -> Copy \cup {Nil}] /\ job \in [Pairs -> Job \cup {Nil}]
  BY DEF TypeInv, TypeOK
<1> QED
  BY <1>3, <1>4, <1>5, <1>6, <1>7, <1>8

LEMMA CommitStep ==
  ASSUME TypeInv, NEW n \in Node, NEW p \in Node, <<n, p>> \in Pairs, Commit(n, p)
  PROVE  /\ UNCHANGED <<trusted, wiped, now>>
         /\ job[<<n, p>>] # Nil /\ job'[<<n, p>>] = Nil
         /\ \A l \in Pairs : l # <<n, p>> => job'[l] = job[l]
         /\ \A m \in Node : stored'[m] = stored[m] \/ (m = n /\ stored'[m] = job[<<n, p>>].copy)
         /\ stored'[n] = stored[n] \/ stored[n] = Nil
         /\ \/ UNCHANGED accepts
            \/ /\ stored'[n] # Nil
               /\ \E r \in Route : accepts' = [accepts EXCEPT ![n] = Append(@, [peer |-> p, route |-> r])]
<1>1. stored \in [Node -> Copy \cup {Nil}] /\ job \in [Pairs -> Job \cup {Nil}]
  BY DEF TypeInv, TypeOK
<1>2. job[<<n, p>>] # Nil /\ job' = [job EXCEPT ![<<n, p>>] = Nil] /\ UNCHANGED <<trusted, wiped, now>>
  BY DEF Commit
<1>3. job[<<n, p>>].copy \in Copy /\ job[<<n, p>>].route \in Route
  BY <1>1, <1>2 DEF Job
<1>4. \/ UNCHANGED <<stored, accepts>>
      \/ /\ stored' = [stored EXCEPT ![n] = IF @ = Nil THEN job[<<n, p>>].copy ELSE @]
         /\ accepts' = [accepts EXCEPT ![n] = Append(@, [peer |-> p, route |-> job[<<n, p>>].route])]
  BY DEF Commit
<1>5. job[<<n, p>>].copy # Nil
  BY <1>3, NilAssumption
<1>6. stored'[n] = stored[n] \/ (stored[n] = Nil /\ stored'[n] = job[<<n, p>>].copy)
  BY <1>1, <1>4
<1>7. \A m \in Node : stored'[m] = stored[m] \/ (m = n /\ stored'[m] = job[<<n, p>>].copy)
  BY <1>1, <1>4, <1>6
<1>8. UNCHANGED accepts \/ stored'[n] # Nil
  BY <1>1, <1>4, <1>5
<1>9. job'[<<n, p>>] = Nil /\ \A l \in Pairs : l # <<n, p>> => job'[l] = job[l]
  BY <1>1, <1>2
<1> QED
  BY <1>2, <1>3, <1>4, <1>6, <1>7, <1>8, <1>9

\* The rest: no step but these two takes anything in, and a message leaves the
\* file in a purge of old rows or of dead letters.
LEMMA OtherStep ==
  ASSUME TypeInv, [Next]_vars,
         \A l \in Pairs : ~TakeEnvelope(l[1], l[2]) /\ ~Commit(l[1], l[2])
  PROVE  /\ UNCHANGED accepts /\ wiped \subseteq wiped' /\ now <= now'
         /\ \A l \in Pairs : job'[l] # Nil => job[l] # Nil /\ job'[l].copy = job[l].copy
         /\ \A n \in Node : \/ stored'[n] = stored[n]
                            \/ stored'[n] = Nil /\ (now > Retention[n] \/ n \in wiped')
         /\ \A l \in Pairs : job'[l] # Nil => trusted'[l[1]] = trusted[l[1]]
<1> USE DEF TypeInv
<1>0. /\ now \in Nat /\ stored \in [Node -> Copy \cup {Nil}] /\ job \in [Pairs -> Job \cup {Nil}]
      /\ trusted \in [Node -> SUBSET Node]
  BY Numbers DEF TypeOK
<1>1. ASSUME NEW j \in Job \cup {Nil}, Cut(j) # Nil
      PROVE  j # Nil /\ Cut(j).copy = j.copy
  BY <1>1 DEF Cut, Job
<1>2. ASSUME NEW n \in Node, PurgeTerminal(n)
      PROVE  now > Retention[n] /\ UNCHANGED <<now, trusted, job, accepts, wiped>>
  <2> PICK i \in DOMAIN rows[n] : rows[n][i].due + Retention[n] < now
    BY <1>2 DEF PurgeTerminal
  <2>1. rows[n][i] \in Row
    BY SMTT(30) DEF TypeOK
  <2>2. rows[n][i].due \in Nat /\ Retention[n] \in Nat
    BY <2>1, Numbers DEF Row
  <2> QED
    BY <1>0, <1>2, <2>2, SMTT(30) DEF PurgeTerminal
<1>3. ASSUME NEW n \in Node, PurgeDeadLetters(n)
      PROVE  wiped' = wiped \cup {n} /\ UNCHANGED <<now, trusted, job, accepts>>
  BY <1>3 DEF PurgeDeadLetters
<1>4. ASSUME NEW n \in Node, NEW S, DeleteRows(n, S)
      PROVE  \A m \in Node : stored'[m] = stored[m] \/ (m = n /\ stored'[m] = Nil)
  <2>1. \E x \in {Nil, stored[n]} : stored' = [stored EXCEPT ![n] = x]
    BY <1>4 DEF DeleteRows
  <2> QED
    BY <1>0, <2>1
<1>5. ASSUME NEW n \in Node, Restart(n)
      PROVE  /\ \A l \in Pairs : job'[l] # Nil => l[1] # n /\ job[l] # Nil /\ job'[l].copy = job[l].copy
             /\ \A m \in Node : m # n => trusted'[m] = trusted[m]
             /\ UNCHANGED <<now, stored, accepts, wiped>>
  BY <1>0, <1>1, <1>5 DEF Restart
<1>6. ASSUME NEW n \in Node, NEW p \in Node, <<n, p>> \in Pairs, Drop(n, p)
      PROVE  /\ \A l \in Pairs : job'[l] # Nil => job[l] # Nil /\ job'[l].copy = job[l].copy
             /\ UNCHANGED <<now, stored, trusted, accepts, wiped>>
  <2>1. \A l \in Pairs : job'[l] = job[l] \/ job'[l] = Cut(job[l])
    BY <1>0, <1>6 DEF Drop, Pairs
  <2>2. \A l \in Pairs : job[l] \in Job \cup {Nil}
    BY <1>0
  <2>3. UNCHANGED <<now, stored, trusted, accepts, wiped>>
    BY <1>6 DEF Drop
  <2> QED
    BY <1>1, <2>1, <2>2, <2>3
<1>7. CASE Tick
  <2>1. now' \in Nat /\ now' > now /\ UNCHANGED <<stored, trusted, job, accepts, wiped>>
    BY <1>7, Numbers DEF Tick
  <2> QED
    BY <1>0, <2>1, SMTT(30)
<1>8. \/ UNCHANGED <<now, stored, trusted, job, accepts, wiped>>
      \/ \E n \in Node : PurgeTerminal(n) \/ PurgeDeadLetters(n) \/ Restart(n)
      \/ \E l \in Pairs : Drop(l[1], l[2])
      \/ Tick
  <2>1. ASSUME \E n \in Node : Pump(n) \/ Reclaim(n) \/ Forget(n)
        PROVE  UNCHANGED <<now, stored, trusted, job, accepts, wiped>>
    <3>1. ASSUME NEW n \in Node, NEW i, Send(n, i) \/ Defer(n, i) \/ GiveUp(n, i) \/ SettleLocal(n, i)
          PROVE  UNCHANGED <<now, stored, trusted, job, accepts, wiped>>
      BY <3>1 DEF Send, Defer, GiveUp, SettleLocal
    <3>2. ASSUME NEW n \in Node, Reclaim(n) \/ Forget(n)
          PROVE  UNCHANGED <<now, stored, trusted, job, accepts, wiped>>
      BY <3>2 DEF Reclaim, Forget
    <3> QED
      BY <2>1, <3>1, <3>2 DEF Pump
  <2>2. ASSUME \E l \in Pairs : TakeAck(l[1], l[2])
        PROVE  UNCHANGED <<now, stored, trusted, job, accepts, wiped>>
    BY <2>2 DEF TakeAck
  <2>3. ASSUME UNCHANGED vars
        PROVE  UNCHANGED <<now, stored, trusted, job, accepts, wiped>>
    BY <2>3 DEF vars
  <2> QED
    BY <2>1, <2>2, <2>3 DEF Next
<1>9. ASSUME NEW n \in Node, PurgeTerminal(n) \/ PurgeDeadLetters(n)
      PROVE  \A m \in Node : stored'[m] = stored[m] \/ (m = n /\ stored'[m] = Nil)
  BY <1>4, <1>9 DEF PurgeTerminal, PurgeDeadLetters
<1>10. \A l \in Pairs : l[1] \in Node /\ l[2] \in Node /\ l = <<l[1], l[2]>>
  BY SMTT(30) DEF Pairs
<1>11. now <= now
  BY <1>0, SMTT(30)
<1> QED
  BY <1>2, <1>3, <1>5, <1>6, <1>7, <1>8, <1>9, <1>10, <1>11

\* A row becomes delivered by an ack of its peer, unless a plugin serves it.
LEMMA RowStep ==
  ASSUME TypeInv, [Next]_vars, NEW m \in Node, NEW i \in DOMAIN rows'[m],
         rows'[m][i].state = "delivered", rows'[m][i].dest # Local
  PROVE  LET p == rows'[m][i].dest[1] IN
         \/ /\ i \in DOMAIN rows[m] /\ rows[m][i].state = "delivered"
            /\ rows[m][i].dest = rows'[m][i].dest
         \/ <<p, m>> \in Pairs /\ \E j \in DOMAIN link[<<p, m>>] : link[<<p, m>>][j].kind = "ack"
<1> DEFINE p == rows'[m][i].dest[1]
           Kept == /\ i \in DOMAIN rows[m] /\ rows[m][i].state = "delivered"
                   /\ rows[m][i].dest = rows'[m][i].dest
           Told == <<p, m>> \in Pairs /\ \E j \in DOMAIN link[<<p, m>>] : link[<<p, m>>][j].kind = "ack"
<1>0. /\ rows \in [Node -> Seq(Row)] /\ rows[m] \in Seq(Row)
      /\ \A n \in Node : \A k \in DOMAIN rows[n] : rows[n][k] \in Row
  BY SMTT(30) DEF TypeInv, TypeOK
<1>1. ASSUME rows'[m] = rows[m] PROVE Kept
  BY <1>1
<1>2. ASSUME NEW n \in Node, NEW k \in DOMAIN rows[n],
             Send(n, k) \/ Defer(n, k) \/ GiveUp(n, k) \/ SettleLocal(n, k)
      PROVE  Kept
  <2>1. ASSUME NEW new, SetRow(n, k, new),
               new.state = "delivered" => new.dest = Local
        PROVE  Kept
    <3>1. rows' = [rows EXCEPT ![n] = [rows[n] EXCEPT ![k] = new]]
      BY <1>0, <2>1 DEF SetRow
    <3>2. CASE n = m /\ i = k
      BY <1>0, <2>1, <3>1, <3>2
    <3>3. CASE ~(n = m /\ i = k)
      BY <1>0, <3>1, <3>3
    <3> QED
      BY <3>2, <3>3
  <2> DEFINE row == rows[n][k]
             tried == [row EXCEPT !.attempts = @ + 1]
  <2>2. row \in Row
    BY <1>0
  <2>3. CASE Send(n, k)
    <3>1. row.state = "pending" /\ (SetRow(n, k, [tried EXCEPT !.state = "attempting"])
                                    \/ SetRow(n, k, [tried EXCEPT !.due = now]))
      BY <2>3 DEF Send, Due
    <3>2. [tried EXCEPT !.state = "attempting"].state = "attempting"
          /\ [tried EXCEPT !.due = now].state = row.state
      BY <2>2 DEF Row
    <3> HIDE DEF tried, row
    <3> QED
      BY <2>1, <3>1, <3>2
  <2>4. CASE Defer(n, k)
    <3>1. row.state = "pending" /\ SetRow(n, k, [row EXCEPT !.due = now])
      BY <2>4 DEF Defer, Due
    <3>2. [row EXCEPT !.due = now].state = row.state
      BY <2>2 DEF Row
    <3> HIDE DEF row
    <3> QED
      BY <2>1, <3>1, <3>2
  <2>5. CASE GiveUp(n, k)
    <3> PICK s \in Ending(n, row) : SetRow(n, k, [row EXCEPT !.state = s])
      BY <2>5 DEF GiveUp
    <3>1. s # "delivered" /\ [row EXCEPT !.state = s].state = s
      BY <2>2 DEF Ending, Row
    <3> HIDE DEF row
    <3> QED
      BY <2>1, <3>1
  <2>6. CASE SettleLocal(n, k)
    <3> PICK s \in {"delivered", "dead_letter"} : SetRow(n, k, [row EXCEPT !.state = s])
      BY <2>6 DEF SettleLocal
    <3>1. row.dest = Local /\ [row EXCEPT !.state = s].dest = row.dest
      BY <2>2, <2>6 DEF Row, SettleLocal
    <3> HIDE DEF row
    <3> QED
      BY <2>1, <3>1
  <2> QED
    BY <1>2, <2>3, <2>4, <2>5, <2>6
<1>3. ASSUME NEW n \in Node, NEW all, rows' = [rows EXCEPT ![n] = all],
             \A k \in DOMAIN all : \/ k \in DOMAIN rows[n] /\ all[k] = rows[n][k]
                                   \/ all[k].state # "delivered"
      PROVE  Kept
  BY <1>0, <1>3
<1>4. ASSUME NEW n \in Node, Reclaim(n) \/ PurgeTerminal(n) \/ PurgeDeadLetters(n) \/ Restart(n)
      PROVE  Kept
  <2>1. ASSUME Reclaim(n) PROVE Kept
    <3> PICK S : rows' = [rows EXCEPT ![n] =
          [k \in DOMAIN @ |-> IF k \in S THEN [@[k] EXCEPT !.state = "pending"] ELSE @[k]]]
      BY <2>1 DEF Reclaim
    <3> DEFINE rest == [k \in DOMAIN rows[n] |->
                         IF k \in S THEN [rows[n][k] EXCEPT !.state = "pending"] ELSE rows[n][k]]
    <3>1. rows' = [rows EXCEPT ![n] = rest] /\ DOMAIN rest = DOMAIN rows[n]
      OBVIOUS
    <3>2. \A k \in DOMAIN rest : rest[k] = rows[n][k] \/ rest[k].state # "delivered"
      BY <1>0, SMTT(30) DEF Row
    <3> HIDE DEF rest
    <3> QED
      BY <1>3, <3>1, <3>2, SMTT(30)
  <2>2. ASSUME NEW S, DeleteRows(n, S) PROVE Kept
    <3> DEFINE rest == [k \in DOMAIN rows[n] |->
                         IF k \in S THEN [rows[n][k] EXCEPT !.state = "purged"] ELSE rows[n][k]]
    <3>1. rows' = [rows EXCEPT ![n] = rest] /\ DOMAIN rest = DOMAIN rows[n]
      BY <2>2 DEF DeleteRows
    <3>2. \A k \in DOMAIN rest : rest[k] = rows[n][k] \/ rest[k].state # "delivered"
      BY <1>0, SMTT(30) DEF Row
    <3> HIDE DEF rest
    <3> QED
      BY <1>3, <3>1, <3>2
  <2>3. ASSUME Restart(n) PROVE Kept
    <3> DEFINE rest == [k \in DOMAIN rows[n] |->
                         IF rows[n][k].state = "attempting"
                         THEN [rows[n][k] EXCEPT !.state = "pending"] ELSE rows[n][k]]
    <3>1. rows' = [rows EXCEPT ![n] = rest] /\ DOMAIN rest = DOMAIN rows[n]
      BY <2>3 DEF Restart
    <3>2. \A k \in DOMAIN rest : rest[k] = rows[n][k] \/ rest[k].state # "delivered"
      BY <1>0 DEF Row
    <3> HIDE DEF rest
    <3> QED
      BY <1>3, <3>1, <3>2
  <2> QED
    BY <1>4, <2>1, <2>2, <2>3 DEF PurgeTerminal, PurgeDeadLetters
<1>5. ASSUME NEW n \in Node, NEW q \in Node, <<n, q>> \in Pairs, TakeAck(n, q)
      PROVE  Kept \/ Told
  <2> DEFINE rest == [k \in DOMAIN rows[n] |->
                       IF AckedBy(rows[n][k], q)
                       THEN [rows[n][k] EXCEPT !.state = "delivered"] ELSE rows[n][k]]
  <2>1. rows' = [rows EXCEPT ![n] = rest]
    BY <1>5 DEF TakeAck
  <2>2. CASE n # m
    BY <1>0, <2>1, <2>2
  <2>3. CASE n = m
    <3>1. rows'[m] = rest /\ i \in DOMAIN rows[m]
      BY <1>0, <2>1, <2>3
    <3>2. CASE ~AckedBy(rows[m][i], q)
      BY <2>3, <3>1, <3>2
    <3>3. CASE AckedBy(rows[m][i], q)
      <4>1. rows'[m][i].dest = rows[m][i].dest
        BY <1>0, <2>3, <3>1, <3>3, SMTT(30) DEF Row
      <4>2. p = q
        BY <3>3, <4>1 DEF AckedBy
      <4>3. link[<<q, m>>] \in Seq(Frame) /\ link[<<q, m>>] # <<>> /\ Head(link[<<q, m>>]).kind = "ack"
            /\ <<q, m>> \in Pairs
        BY <1>5, <2>3 DEF TakeAck, TypeInv, TypeOK, Pairs
      <4>4. 1 \in DOMAIN link[<<q, m>>] /\ link[<<q, m>>][1].kind = "ack"
        BY <4>3, SMTT(30)
      <4> QED
        BY <4>2, <4>3, <4>4
    <3> QED
      BY <3>2, <3>3
  <2> QED
    BY <2>2, <2>3
<1>6. ASSUME NEW n \in Node, NEW q \in Node, <<n, q>> \in Pairs, TakeEnvelope(n, q)
      PROVE  Kept
  <2> DEFINE f == Head(link[<<q, n>>])
             new == Fresh(f.route, Short, "dead_letter")
  <2>1. UNCHANGED rows \/ rows' = [rows EXCEPT ![n] = Append(rows[n], new)]
    BY <1>6 DEF TakeEnvelope
  <2>2. new.state # "delivered"
    BY DEF Fresh
  <2> HIDE DEF new
  <2>3. rows[n] \in Seq(Row)
    BY <1>0
  <2> DEFINE all == Append(rows[n], new)
  <2>4. \A k \in DOMAIN all : (k \in DOMAIN rows[n] /\ all[k] = rows[n][k]) \/ all[k] = new
    BY <2>3, SMTT(30)
  <2>5. CASE UNCHANGED rows
    BY <1>1, <2>5
  <2>6. CASE rows' = [rows EXCEPT ![n] = all]
    <3> HIDE DEF all
    <3> QED
      BY <1>3, <2>2, <2>4, <2>6, SMTT(30)
  <2> QED
    BY <2>1, <2>5, <2>6
<1>7. ASSUME NEW n \in Node, NEW q \in Node, <<n, q>> \in Pairs, Commit(n, q)
      PROVE  Kept
  <2> DEFINE r == job[<<n, q>>].route
  <2>1. UNCHANGED rows \/ rows' = [rows EXCEPT ![n] = rows[n] \o FanOut(n, r)]
    BY <1>7 DEF Commit
  <2>2. job[<<n, q>>] \in Job
    BY <1>7 DEF Commit, TypeInv, TypeOK
  <2>3. r \in Route /\ now \in Nat
    BY <2>2, Numbers DEF Job, TypeInv, TypeOK
  <2> HIDE DEF r
  <2>4. FanOut(n, r) \in Seq(RowOf(n)) /\ rows[n] \in Seq(RowOf(n))
    BY <2>3, FanOutType DEF TypeInv
  <2>5. \A k \in DOMAIN FanOut(n, r) : FanOut(n, r)[k].state # "delivered"
    BY DEF FanOut, Fresh
  <2> DEFINE new == FanOut(n, r)
             all == rows[n] \o new
  <2> HIDE DEF new
  <2>6. \A k \in DOMAIN all : \/ k \in DOMAIN rows[n] /\ all[k] = rows[n][k]
                              \/ k - Len(rows[n]) \in DOMAIN new /\ all[k] = new[k - Len(rows[n])]
    BY <2>4, SMTT(30) DEF new
  <2>7. \A k \in DOMAIN all : \/ k \in DOMAIN rows[n] /\ all[k] = rows[n][k]
                              \/ all[k].state # "delivered"
    BY <2>5, <2>6 DEF new
  <2>8. CASE UNCHANGED rows
    BY <1>1, <2>8
  <2>9. CASE rows' = [rows EXCEPT ![n] = all]
    <3> HIDE DEF all
    <3> QED
      BY <1>3, <2>7, <2>9
  <2> QED
    BY <2>1, <2>8, <2>9 DEF new
<1>8. \/ UNCHANGED rows
      \/ \E n \in Node :
           \/ \E k \in DOMAIN rows[n] : Send(n, k) \/ Defer(n, k) \/ GiveUp(n, k) \/ SettleLocal(n, k)
           \/ Reclaim(n) \/ PurgeTerminal(n) \/ PurgeDeadLetters(n) \/ Restart(n)
      \/ \E l \in Pairs : TakeAck(l[1], l[2]) \/ TakeEnvelope(l[1], l[2]) \/ Commit(l[1], l[2])
  BY DEF Next, vars, Pump, Forget, Drop, Tick
<1>9. \A l \in Pairs : l[1] \in Node /\ l[2] \in Node /\ l = <<l[1], l[2]>>
  BY SMTT(30) DEF Pairs
<1>10. Kept \/ Told
  <2> HIDE DEF Kept, Told
  <2>1. CASE UNCHANGED rows
    BY <1>1, <2>1
  <2> QED
    BY <1>2, <1>4, <1>5, <1>6, <1>7, <1>8, <1>9, <2>1
<1> QED
  BY <1>10

-----------------------------------------------------------------------------
(* Chains, loops, acks and trust, for any network and any disturbances.  The   *)
(* inductive invariant says of every copy under way, on file or in a handler   *)
(* that it verifies and that each node of its chain still remembers it.        *)

\* Unsigned as a plugin gave it, or signed and whole.
Honest(c) ==
  /\ c.hops = Len(c.chain)
  /\ IF c.origin = Nil THEN c.chain = <<>> ELSE VerifyChain(c)

\* The node would know the message again, or take no copy of it any more.
Remembers(n) == stored[n] # Nil \/ now > MaxTtl[n] \/ ~Durable(n)

Memory == {n \in Node : Remembers(n)}

\* The nodes a copy has passed are all in M.
Passed(c, M) == \A i \in DOMAIN c.chain : c.chain[i].node \in M

AcceptedFrom(n, p) == \E k \in DOMAIN accepts[n] : accepts[n][k].peer = p

FramesInv ==
  \A l \in Pairs : \A i \in DOMAIN link[l] :
    IF link[l][i].kind = "ack" THEN AcceptedFrom(l[1], l[2])
    ELSE LET c == link[l][i].copy
         IN  c.origin # Nil /\ LastLink(c) = l[1] /\ Honest(c) /\ Passed(c, Memory)

StoredInv == \A n \in Node : stored[n] # Nil => Honest(stored[n]) /\ Passed(stored[n], Memory)

JobsInv ==
  \A l \in Pairs : job[l] # Nil =>
    /\ Honest(job[l].copy) /\ Passed(job[l].copy, Memory)
    /\ l[2] \in trusted[l[1]]
    /\ Durable(l[1]) => ~AcceptedFrom(l[1], l[2])

AcceptsInv == \A n \in Node : accepts[n] # <<>> => Remembers(n)

FedInv ==
  /\ TypeInv /\ FramesInv /\ StoredInv /\ JobsInv /\ AcceptsInv
  /\ LoopFree /\ OncePerPeer /\ DeliveredWasAccepted

(* -------------------------- lemmas on copies -------------------------- *)

LEMMA ClampKeeps ==
  ASSUME NEW n \in Node, NEW c \in Copy
  PROVE  /\ Clamp(n, c).chain = c.chain /\ Clamp(n, c).origin = c.origin
         /\ Clamp(n, c).sender = c.sender /\ Clamp(n, c).hops = c.hops
BY DEF Clamp, Copy

LEMMA SignedHonest ==
  ASSUME NEW n \in Node, NEW d \in Dest, NEW c \in Copy, TypeOK, Honest(c)
  PROVE  LET e == SignOrigin(n, d, c)
         IN  e \in Copy /\ e.origin # Nil /\ Honest(e) /\ e.chain = c.chain
<1> DEFINE e == SignOrigin(n, d, c)
           ref == IF n \in Pseudonymous THEN <<n, d>> ELSE c.sender
           sig == [node |-> n, over |-> ref]
<1>1. e \in Copy
  BY CopyTypes
<1>2. CASE c.origin # Nil
  BY <1>1, <1>2 DEF SignOrigin
<1>3. CASE c.origin = Nil
  <2>1. ref \in (Node \X Dest) \cup {Nil}
    BY DEF Copy
  <2>2. sig \in Signature /\ sig.over = ref
    BY <2>1 DEF Signature
  <2>3. e = [c EXCEPT !.sender = ref, !.origin = sig]
    BY <1>3 DEF SignOrigin
  <2> HIDE DEF e, ref, sig
  <2>4. e.origin = sig /\ e.sender = ref /\ e.chain = c.chain /\ e.hops = c.hops
    BY <2>3 DEF Copy
  <2>5. sig # Nil
    BY <2>2, NilAssumption
  <2>6. e.chain = <<>>
    BY <1>3, <2>4 DEF Honest
  <2> QED
    BY <1>1, <2>2, <2>4, <2>5, <2>6, SMTT(30) DEF Honest, VerifyChain, e
<1> QED
  BY <1>2, <1>3

LEMMA AttestedHonest ==
  ASSUME NEW n \in Node, NEW c \in Copy, c.origin # Nil, Honest(c)
  PROVE  LET e == Attest(n, c)
         IN  /\ e.origin # Nil /\ LastLink(e) = n /\ Honest(e)
             /\ \A i \in DOMAIN e.chain :
                  e.chain[i].node = n \/ (i \in DOMAIN c.chain /\ e.chain[i] = c.chain[i])
<1> DEFINE e == Attest(n, c)
           sig == [node |-> n, over |-> c.sender]
<1>1. c.chain \in Seq(Signature) /\ c.hops \in Nat /\ c.hops = Len(c.chain) /\ VerifyChain(c)
  BY DEF Copy, Honest
<1>2. sig \in Signature /\ sig.node = n /\ sig.over = c.sender
  BY DEF Signature, Copy
<1>3. e = [c EXCEPT !.chain = Append(c.chain, sig), !.hops = c.hops + 1]
  BY DEF Attest
<1> HIDE DEF e, sig
<1>4. /\ e.chain = Append(c.chain, sig) /\ e.hops = c.hops + 1
      /\ e.origin = c.origin /\ e.sender = c.sender
  BY <1>3 DEF Copy
<1>5. /\ Len(e.chain) = Len(c.chain) + 1 /\ e.chain # <<>> /\ e.chain[Len(e.chain)] = sig
      /\ DOMAIN e.chain = 1..Len(e.chain) /\ DOMAIN c.chain = 1..Len(c.chain)
      /\ \A i \in 1..Len(e.chain) : e.chain[i] = sig \/ (i \in 1..Len(c.chain) /\ e.chain[i] = c.chain[i])
  BY <1>1, <1>2, <1>4, SMTT(30)
<1>6. LastLink(e) = n
  BY <1>2, <1>5 DEF LastLink
<1>7. VerifyChain(e)
  BY <1>1, <1>2, <1>4, <1>5 DEF VerifyChain
<1>8. e.hops = Len(e.chain)
  BY <1>1, <1>4, <1>5
<1> QED
  BY <1>2, <1>4, <1>5, <1>6, <1>7, <1>8 DEF Honest, e

(* -------------------------- lemmas on steps --------------------------- *)

LEMMA DurableStep ==
  ASSUME TypeInv, [Next]_vars, NEW n \in Node, Durable(n)'
  PROVE  Durable(n)
<1>1. CASE \A l \in Pairs : ~TakeEnvelope(l[1], l[2]) /\ ~Commit(l[1], l[2])
  BY <1>1, OtherStep DEF Durable
<1>2. ASSUME NEW l \in Pairs, TakeEnvelope(l[1], l[2]) \/ Commit(l[1], l[2])
      PROVE  UNCHANGED wiped
  BY <1>2 DEF TakeEnvelope, Commit
<1> QED
  BY <1>1, <1>2 DEF Durable

\* A node forgets the message only when the window has passed, by the retention,
\* or when an operator has it forget.
LEMMA RememberStep ==
  ASSUME TypeInv, [Next]_vars, NEW n \in Node, Remembers(n)
  PROVE  Remembers(n)'
<1>0. /\ \A l \in Pairs : l[1] \in Node /\ l[2] \in Node /\ l = <<l[1], l[2]>>
      /\ now \in Nat /\ now' \in Nat /\ MaxTtl[n] \in Nat /\ Retention[n] \in Nat
  <2>1. \A l \in Pairs : l[1] \in Node /\ l[2] \in Node /\ l = <<l[1], l[2]>>
    BY SMTT(30) DEF Pairs
  <2>2. TypeInv'
    BY TypeStep
  <2>3. now \in Clock /\ now' \in Clock
    BY <2>2 DEF TypeInv, TypeOK
  <2> QED
    BY <2>1, <2>3, Numbers
<1>1. Durable(n)' => Durable(n)
  BY DurableStep
<1>2. ASSUME NEW l \in Pairs, TakeEnvelope(l[1], l[2]) \/ Commit(l[1], l[2])
      PROVE  Remembers(n)'
  <2>1. UNCHANGED now
    BY <1>2 DEF TakeEnvelope, Commit
  <2>2. stored[n] # Nil => stored'[n] # Nil
    BY <1>0, <1>2, IngressStep, CommitStep
  <2> QED
    BY <1>1, <2>1, <2>2 DEF Remembers
<1>3. CASE \A l \in Pairs : ~TakeEnvelope(l[1], l[2]) /\ ~Commit(l[1], l[2])
  <2>1. now <= now' /\ (stored'[n] = stored[n] \/ now > Retention[n] \/ n \in wiped')
    BY <1>3, OtherStep
  <2>2. now > Retention[n] => now' > MaxTtl[n] \/ ~Durable(n)'
    BY <1>0, <2>1, SMTT(30) DEF Durable
  <2>3. now > MaxTtl[n] => now' > MaxTtl[n]
    BY <1>0, <2>1, SMTT(30)
  <2>4. n \in wiped' => ~Durable(n)'
    BY DEF Durable
  <2> QED
    BY <1>1, <2>1, <2>2, <2>3, <2>4 DEF Remembers
<1> QED
  BY <1>2, <1>3

LEMMA MemoryStep ==
  ASSUME TypeInv, [Next]_vars
  PROVE  Memory \subseteq Memory'
BY RememberStep DEF Memory

LEMMA AcceptsStep ==
  ASSUME TypeInv, [Next]_vars, NEW n \in Node
  PROVE  \/ accepts'[n] = accepts[n]
         \/ \E p \in Node :
              /\ <<n, p>> \in Pairs /\ job[<<n, p>>] # Nil /\ job'[<<n, p>>] = Nil
              /\ stored'[n] # Nil /\ UNCHANGED <<trusted, wiped>>
              /\ \E r \in Route : accepts'[n] = Append(accepts[n], [peer |-> p, route |-> r])
<1>0. \A l \in Pairs : l[1] \in Node /\ l[2] \in Node /\ l = <<l[1], l[2]>>
  BY SMTT(30) DEF Pairs
<1>1. CASE \A l \in Pairs : ~TakeEnvelope(l[1], l[2]) /\ ~Commit(l[1], l[2])
  BY <1>1, OtherStep
<1>2. ASSUME NEW l \in Pairs, TakeEnvelope(l[1], l[2])
      PROVE  accepts'[n] = accepts[n]
  BY <1>2 DEF TakeEnvelope
<1>3. ASSUME NEW m \in Node, NEW p \in Node, <<m, p>> \in Pairs, Commit(m, p)
      PROVE  \/ accepts'[n] = accepts[n]
             \/ /\ m = n /\ job[<<n, p>>] # Nil /\ job'[<<n, p>>] = Nil
                /\ stored'[n] # Nil /\ UNCHANGED <<trusted, wiped>>
                /\ \E r \in Route : accepts'[n] = Append(accepts[n], [peer |-> p, route |-> r])
  <2>1. \/ UNCHANGED accepts
        \/ /\ stored'[m] # Nil
           /\ \E r \in Route : accepts' = [accepts EXCEPT ![m] = Append(@, [peer |-> p, route |-> r])]
    BY <1>3, CommitStep
  <2>2. job[<<m, p>>] # Nil /\ job'[<<m, p>>] = Nil /\ UNCHANGED <<trusted, wiped>>
    BY <1>3, CommitStep
  <2>3. accepts \in [Node -> Seq(Accept)]
    BY DEF TypeInv, TypeOK
  <2>4. CASE UNCHANGED accepts \/ m # n
    BY <2>1, <2>3, <2>4
  <2>5. CASE ~UNCHANGED accepts /\ m = n
    <3> PICK r \in Route : accepts' = [accepts EXCEPT ![m] = Append(@, [peer |-> p, route |-> r])]
      BY <2>1, <2>5
    <3>1. accepts'[n] = Append(accepts[n], [peer |-> p, route |-> r])
      BY <2>3, <2>5
    <3> QED
      BY <2>1, <2>2, <2>5, <3>1
  <2> QED
    BY <2>4, <2>5
<1> QED
  BY <1>0, <1>1, <1>2, <1>3

LEMMA AcceptedStays ==
  ASSUME TypeInv, [Next]_vars, NEW n \in Node, NEW p
  PROVE  AcceptedFrom(n, p) => AcceptedFrom(n, p)'
<1>1. accepts[n] \in Seq(Accept)
  BY DEF TypeInv, TypeOK
<1>2. accepts'[n] = accepts[n] \/ \E a : accepts'[n] = Append(accepts[n], a)
  BY AcceptsStep
<1>3. \A k \in DOMAIN accepts[n] : k \in DOMAIN accepts'[n] /\ accepts'[n][k] = accepts[n][k]
  BY <1>1, <1>2, SMTT(30)
<1> QED
  BY <1>3 DEF AcceptedFrom

LEMMA FramesStep ==
  ASSUME FedInv, [Next]_vars
  PROVE  FramesInv'
<1> SUFFICES ASSUME NEW l \in Pairs, NEW i \in DOMAIN link'[l]
             PROVE  IF link'[l][i].kind = "ack" THEN AcceptedFrom(l[1], l[2])'
                    ELSE LET c == link'[l][i].copy
                         IN  c.origin # Nil /\ LastLink(c) = l[1] /\ Honest(c) /\ Passed(c, Memory')
  BY DEF FramesInv
<1>0. l[1] \in Node /\ l[2] \in Node /\ TypeInv /\ TypeInv' /\ TypeOK
  BY TypeStep DEF Pairs, FedInv, TypeInv
<1>1. ASSUME NEW j \in DOMAIN link[l], link'[l][i] = link[l][j]
      PROVE  IF link'[l][i].kind = "ack" THEN AcceptedFrom(l[1], l[2])'
             ELSE LET c == link'[l][i].copy
                  IN  c.origin # Nil /\ LastLink(c) = l[1] /\ Honest(c) /\ Passed(c, Memory')
  <2>1. CASE link[l][j].kind = "ack"
    BY <1>0, <1>1, <2>1, AcceptedStays DEF FedInv, FramesInv
  <2>2. CASE link[l][j].kind # "ack"
    BY <1>0, <1>1, <2>2, MemoryStep DEF FedInv, FramesInv, Passed
  <2> QED
    BY <2>1, <2>2
<1>2. ASSUME NEW d \in Dest, stored[l[1]] # Nil,
             link'[l][i].copy = Attest(l[1], SignOrigin(l[1], d, stored[l[1]]))
      PROVE  LET c == link'[l][i].copy
             IN  c.origin # Nil /\ LastLink(c) = l[1] /\ Honest(c) /\ Passed(c, Memory')
  <2> DEFINE n == l[1]
             e == SignOrigin(n, d, stored[n])
             c == Attest(n, e)
  <2>1. stored[n] \in Copy /\ Honest(stored[n]) /\ Passed(stored[n], Memory)
    BY <1>0, <1>2 DEF FedInv, StoredInv, TypeInv, TypeOK
  <2>2. e \in Copy /\ e.origin # Nil /\ Honest(e) /\ e.chain = stored[n].chain
    BY <1>0, <2>1, SignedHonest
  <2> HIDE DEF e
  <2>3. /\ c.origin # Nil /\ LastLink(c) = n /\ Honest(c)
        /\ \A k \in DOMAIN c.chain : c.chain[k].node = n \/ (k \in DOMAIN e.chain /\ c.chain[k] = e.chain[k])
    BY <1>0, <2>2, AttestedHonest
  <2> HIDE DEF c
  <2>4. n \in Memory
    BY <1>0, <1>2 DEF Remembers, Memory
  <2>5. Passed(c, Memory)
    BY <2>1, <2>2, <2>3, <2>4 DEF Passed
  <2>6. Passed(c, Memory')
    BY <1>0, <2>5, MemoryStep DEF Passed
  <2> QED
    BY <1>2, <2>3, <2>6 DEF c, e
<1>3. \/ \E j \in DOMAIN link[l] : link'[l][i] = link[l][j]
      \/ link'[l][i].kind = "ack" /\ AcceptedFrom(l[1], l[2])'
      \/ /\ stored[l[1]] # Nil /\ link'[l][i].kind # "ack"
         /\ \E d \in Dest : link'[l][i].copy = Attest(l[1], SignOrigin(l[1], d, stored[l[1]]))
  BY <1>0, FrameStep DEF AcceptedFrom
<1>4. CASE link'[l][i].kind = "ack" /\ AcceptedFrom(l[1], l[2])'
  BY <1>4
<1>5. CASE /\ stored[l[1]] # Nil /\ link'[l][i].kind # "ack"
           /\ \E d \in Dest : link'[l][i].copy = Attest(l[1], SignOrigin(l[1], d, stored[l[1]]))
  BY <1>2, <1>5
<1> QED
  BY <1>1, <1>3, <1>4, <1>5

\* A copy that came in is as good as the frame it was in.
LEMMA ReceivedGood ==
  ASSUME FedInv, NEW n \in Node, NEW p \in Node, <<n, p>> \in Pairs, NEW c, Received(n, p, c)
  PROVE  Honest(c) /\ Passed(c, Memory)
<1> PICK i \in DOMAIN link[<<p, n>>] :
      link[<<p, n>>][i].kind # "ack" /\ c \in {link[<<p, n>>][i].copy, Clamp(n, link[<<p, n>>][i].copy)}
  BY DEF Received
<1> DEFINE f == link[<<p, n>>][i]
<1>0. <<p, n>> \in Pairs /\ link[<<p, n>>] \in Seq(Frame)
  BY DEF Pairs, FedInv, TypeInv, TypeOK
<1>1. <<p, n>> \in Pairs /\ f \in Frame /\ f.kind # "ack"
  <2>1. \A q \in Seq(Frame) : \A k \in DOMAIN q : q[k] \in Frame
    BY SMTT(30)
  <2> QED
    BY <1>0, <2>1
<1>2. f.copy \in Copy /\ Honest(f.copy) /\ Passed(f.copy, Memory)
  BY <1>1 DEF Frame, FedInv, FramesInv
<1> HIDE DEF f
<1>3. /\ Clamp(n, f.copy).chain = f.copy.chain /\ Clamp(n, f.copy).origin = f.copy.origin
      /\ Clamp(n, f.copy).sender = f.copy.sender /\ Clamp(n, f.copy).hops = f.copy.hops
  BY <1>2, ClampKeeps
<1>4. c = f.copy \/ c = Clamp(n, f.copy)
  BY DEF f
<1>5. CASE c = f.copy
  BY <1>2, <1>5
<1>6. CASE c = Clamp(n, f.copy)
  <2>1. Honest(c)
    BY <1>2, <1>3, <1>6 DEF Honest, VerifyChain
  <2>2. Passed(c, Memory)
    BY <1>2, <1>3, <1>6 DEF Passed
  <2> QED
    BY <2>1, <2>2
<1> QED
  BY <1>4, <1>5, <1>6

LEMMA StoredStep ==
  ASSUME FedInv, [Next]_vars
  PROVE  StoredInv'
<1> SUFFICES ASSUME NEW m \in Node, stored'[m] # Nil
             PROVE  Honest(stored'[m]) /\ Passed(stored'[m], Memory')
  BY DEF StoredInv
<1>0. TypeInv /\ Memory \subseteq Memory' /\ \A l \in Pairs : l[1] \in Node /\ l[2] \in Node /\ l = <<l[1], l[2]>>
  BY MemoryStep, SMTT(30) DEF FedInv, Pairs
<1>1. ASSUME NEW c, Honest(c) /\ Passed(c, Memory), stored'[m] = c
      PROVE  Honest(stored'[m]) /\ Passed(stored'[m], Memory')
  BY <1>0, <1>1 DEF Passed
<1>2. CASE stored'[m] = stored[m]
  BY <1>1, <1>2 DEF FedInv, StoredInv
<1>3. ASSUME NEW l \in Pairs, TakeEnvelope(l[1], l[2]), stored'[m] # stored[m]
      PROVE  Honest(stored'[m]) /\ Passed(stored'[m], Memory')
  <2>1. Received(l[1], l[2], stored'[m])
    BY <1>0, <1>3, IngressStep
  <2> QED
    BY <1>0, <1>1, <2>1, ReceivedGood
<1>4. ASSUME NEW l \in Pairs, Commit(l[1], l[2]), stored'[m] # stored[m]
      PROVE  Honest(stored'[m]) /\ Passed(stored'[m], Memory')
  <2>1. job[l] # Nil /\ stored'[m] = job[l].copy
    BY <1>0, <1>4, CommitStep, SMTT(30)
  <2> QED
    BY <1>1, <2>1 DEF FedInv, JobsInv
<1>5. CASE \A l \in Pairs : ~TakeEnvelope(l[1], l[2]) /\ ~Commit(l[1], l[2])
  BY <1>0, <1>2, <1>5, OtherStep
<1> QED
  BY <1>2, <1>3, <1>4, <1>5

\* A handler is begun with a message the node does not have, and nothing that its
\* own gates have looked at changes before it ends.
LEMMA JobsStep ==
  ASSUME FedInv, [Next]_vars
  PROVE  JobsInv' /\ LoopFree'
<1> DEFINE Clean(l) == \A i \in DOMAIN job[l].copy.chain : job[l].copy.chain[i].node # l[1]
           Ok(l) == /\ Honest(job[l].copy) /\ Passed(job[l].copy, Memory)
                    /\ l[2] \in trusted[l[1]]
                    /\ Durable(l[1]) => ~AcceptedFrom(l[1], l[2]) /\ Clean(l)
<1> SUFFICES ASSUME NEW l \in Pairs, job'[l] # Nil
             PROVE  Ok(l)'
  BY DEF JobsInv, LoopFree
<1>0. TypeInv /\ Memory \subseteq Memory' /\ l[1] \in Node /\ l[2] \in Node /\ l = <<l[1], l[2]>>
      /\ \A k \in Pairs : k[1] \in Node /\ k[2] \in Node /\ k = <<k[1], k[2]>>
  BY MemoryStep, SMTT(30) DEF FedInv, Pairs
<1>1. Durable(l[1])' => Durable(l[1])
  BY <1>0, DurableStep
<1>2. ASSUME job[l] # Nil, job'[l].copy = job[l].copy, trusted'[l[1]] = trusted[l[1]],
             AcceptedFrom(l[1], l[2])' => AcceptedFrom(l[1], l[2])
      PROVE  Ok(l)'
  <2>1. Ok(l)
    BY <1>2 DEF FedInv, JobsInv, LoopFree
  <2>2. Passed(job'[l].copy, Memory')
    BY <1>0, <1>2, <2>1 DEF Passed
  <2> QED
    BY <1>1, <1>2, <2>1, <2>2
<1>3. AcceptedFrom(l[1], l[2])' => AcceptedFrom(l[1], l[2])
  <2>1. CASE accepts'[l[1]] = accepts[l[1]]
    BY <2>1 DEF AcceptedFrom
  <2>2. ASSUME NEW p \in Node, NEW r \in Route, job'[<<l[1], p>>] = Nil,
               accepts'[l[1]] = Append(accepts[l[1]], [peer |-> p, route |-> r])
        PROVE  AcceptedFrom(l[1], l[2])' => AcceptedFrom(l[1], l[2])
    <3> DEFINE a == [peer |-> p, route |-> r]
    <3>1. a.peer # l[2]
      BY <1>0, <2>2
    <3>2. accepts[l[1]] \in Seq(Accept)
      BY <1>0 DEF TypeInv, TypeOK
    <3> HIDE DEF a
    <3>3. \A k \in DOMAIN accepts'[l[1]] :
            accepts'[l[1]][k] = a \/ (k \in DOMAIN accepts[l[1]] /\ accepts'[l[1]][k] = accepts[l[1]][k])
      BY <2>2, <3>2, SMTT(30) DEF a
    <3> QED
      BY <3>1, <3>3 DEF AcceptedFrom
  <2> QED
    BY <1>0, <2>1, <2>2, AcceptsStep
<1>4. CASE \A k \in Pairs : ~TakeEnvelope(k[1], k[2]) /\ ~Commit(k[1], k[2])
  BY <1>0, <1>2, <1>3, <1>4, OtherStep
<1>5. ASSUME NEW k \in Pairs, Commit(k[1], k[2])
      PROVE  Ok(l)'
  <2>1. job'[l] = job[l] /\ UNCHANGED trusted
    BY <1>0, <1>5, CommitStep
  <2> QED
    BY <1>2, <1>3, <2>1
<1>6. ASSUME NEW k \in Pairs, TakeEnvelope(k[1], k[2])
      PROVE  Ok(l)'
  <2>1. CASE job'[l] = job[l]
    <3>1. UNCHANGED trusted
      BY <1>0, <1>6, IngressStep
    <3> QED
      BY <1>2, <1>3, <2>1, <3>1
  <2>2. CASE job'[l] # job[l]
    <3>1. /\ k = l /\ Received(l[1], l[2], job'[l].copy)
          /\ stored[l[1]] = Nil /\ l[2] \in trusted'[l[1]] /\ ~(now > MaxTtl[l[1]])
      BY <1>0, <1>6, <2>2, IngressStep, SMTT(30)
    <3>2. Honest(job'[l].copy) /\ Passed(job'[l].copy, Memory)
      BY <1>0, <3>1, ReceivedGood
    <3>3. Passed(job'[l].copy, Memory')
      BY <1>0, <3>2 DEF Passed
    <3>4. Durable(l[1]) => l[1] \notin Memory
      BY <3>1 DEF Memory, Remembers
    <3>5. Durable(l[1])' => Clean(l)'
      BY <1>1, <3>2, <3>4 DEF Passed
    <3>6. Durable(l[1])' => ~AcceptedFrom(l[1], l[2])
      <4>1. AcceptedFrom(l[1], l[2]) => accepts[l[1]] # <<>>
        BY SMTT(30) DEF AcceptedFrom
      <4> QED
        BY <1>0, <1>1, <3>4, <4>1 DEF FedInv, AcceptsInv, Memory
    <3> QED
      BY <1>3, <3>1, <3>2, <3>3, <3>5, <3>6
  <2> QED
    BY <2>1, <2>2
<1> QED
  BY <1>4, <1>5, <1>6

LEMMA AcceptsKept ==
  ASSUME FedInv, [Next]_vars
  PROVE  AcceptsInv' /\ OncePerPeer'
<1>0. TypeInv /\ \A n \in Node : accepts[n] \in Seq(Accept)
  BY DEF FedInv, TypeInv, TypeOK
<1>1. ASSUME NEW n \in Node, accepts'[n] # <<>>
      PROVE  Remembers(n)'
  <2>1. CASE accepts'[n] = accepts[n]
    BY <1>0, <1>1, <2>1, RememberStep DEF FedInv, AcceptsInv
  <2>2. CASE stored'[n] # Nil
    BY <2>2 DEF Remembers
  <2> QED
    BY <1>0, <2>1, <2>2, AcceptsStep
<1>2. ASSUME NEW n \in Node, Durable(n)',
             NEW i \in DOMAIN accepts'[n], NEW j \in DOMAIN accepts'[n],
             accepts'[n][i].peer = accepts'[n][j].peer
      PROVE  i = j
  <2>0. Durable(n)
    BY <1>0, <1>2, DurableStep
  <2>1. CASE accepts'[n] = accepts[n]
    BY <1>2, <2>0, <2>1 DEF FedInv, OncePerPeer
  <2>2. ASSUME NEW p \in Node, NEW r \in Route, <<n, p>> \in Pairs, job[<<n, p>>] # Nil,
               accepts'[n] = Append(accepts[n], [peer |-> p, route |-> r])
        PROVE  i = j
    <3> DEFINE a == [peer |-> p, route |-> r]
    <3>1. a.peer = p
      OBVIOUS
    <3> HIDE DEF a
    <3>2. accepts'[n] = Append(accepts[n], a) /\ accepts[n] \in Seq(Accept)
      BY <1>0, <2>2 DEF a
    <3>3. \A k \in DOMAIN accepts'[n] :
            \/ k = Len(accepts[n]) + 1 /\ accepts'[n][k] = a
            \/ k \in DOMAIN accepts[n] /\ accepts'[n][k] = accepts[n][k]
      BY <3>2, SMTT(30)
    <3>4. \A k \in DOMAIN accepts[n] : accepts[n][k].peer # p
      BY <2>0, <2>2 DEF FedInv, JobsInv, AcceptedFrom
    <3> QED
      BY <1>2, <2>0, <3>1, <3>3, <3>4 DEF FedInv, OncePerPeer
  <2> QED
    BY <1>0, <2>1, <2>2, AcceptsStep
<1> QED
  BY <1>1, <1>2 DEF AcceptsInv, OncePerPeer

LEMMA DeliveredStep ==
  ASSUME FedInv, [Next]_vars
  PROVE  DeliveredWasAccepted'
<1> SUFFICES ASSUME NEW m \in Node, NEW i \in DOMAIN rows'[m],
                    rows'[m][i].state = "delivered", rows'[m][i].dest # Local
             PROVE  \E k \in DOMAIN accepts'[rows'[m][i].dest[1]] :
                      accepts'[rows'[m][i].dest[1]][k].peer = m
  BY DEF DeliveredWasAccepted
<1> DEFINE p == rows'[m][i].dest[1]
<1>0. TypeInv /\ TypeInv'
  BY TypeStep DEF FedInv
<1>1. p \in Node
  <2>1. rows'[m][i] \in RowOf(m)
    BY <1>0, SMTT(30) DEF TypeInv
  <2>2. rows'[m][i].dest \in Dest /\ rows'[m][i].dest # Short
    BY <2>1 DEF RowOf, Row
  <2> QED
    BY <2>2 DEF Dest
<1>2. AcceptedFrom(p, m)
  <2>1. CASE i \in DOMAIN rows[m] /\ rows[m][i].state = "delivered" /\ rows[m][i].dest = rows'[m][i].dest
    BY <2>1 DEF FedInv, DeliveredWasAccepted, AcceptedFrom
  <2>2. CASE <<p, m>> \in Pairs /\ \E j \in DOMAIN link[<<p, m>>] : link[<<p, m>>][j].kind = "ack"
    BY <2>2 DEF FedInv, FramesInv
  <2> QED
    BY <1>0, <2>1, <2>2, RowStep
<1>3. \A x \in Node : AcceptedFrom(x, m) => \E k \in DOMAIN accepts'[x] : accepts'[x][k].peer = m
  BY <1>0, AcceptedStays DEF AcceptedFrom
<1> QED
  BY <1>1, <1>2, <1>3

(* ---------------------------- the theorems ---------------------------- *)

LEMMA FedInvInit == Init => FedInv
<1> SUFFICES ASSUME Init PROVE FedInv
  OBVIOUS
<1>1. TypeInv
  BY TypeInit
<1>2. FramesInv /\ JobsInv /\ AcceptsInv /\ LoopFree /\ OncePerPeer
  <2>1. \A l \in Pairs : link[l] = <<>> /\ job[l] = Nil
    BY DEF Init
  <2>2. \A n \in Node : accepts[n] = <<>>
    BY DEF Init
  <2>3. \A q : q = <<>> => DOMAIN q = {}
    BY SMTT(30)
  <2>4. FramesInv
    BY <2>1, <2>3 DEF FramesInv
  <2>5. JobsInv /\ LoopFree
    BY <2>1 DEF JobsInv, LoopFree
  <2>6. AcceptsInv /\ OncePerPeer
    BY <2>2, <2>3 DEF AcceptsInv, OncePerPeer
  <2> QED
    BY <2>4, <2>5, <2>6
<1>3. StoredInv
  BY SMTT(30) DEF Init, StoredInv, LocalCopy, Honest, Passed
<1>4. DeliveredWasAccepted
  <2>1. \A n \in Node : \A i \in DOMAIN rows[n] : rows[n][i].state = "pending"
    <3>1. \A n \in Node : rows[n] = FanOut(n, SourceRoute) \/ rows[n] = <<>>
      BY DEF Init
    <3>2. \A n : \A i \in DOMAIN FanOut(n, SourceRoute) : FanOut(n, SourceRoute)[i].state = "pending"
      BY DEF FanOut, Fresh
    <3>3. \A q : q = <<>> => DOMAIN q = {}
      BY SMTT(30)
    <3> QED
      BY <3>1, <3>2, <3>3
  <2> QED
    BY <2>1 DEF DeliveredWasAccepted
<1> QED
  BY <1>1, <1>2, <1>3, <1>4 DEF FedInv

LEMMA FedInvStep ==
  ASSUME FedInv, [Next]_vars
  PROVE  FedInv'
<1>1. TypeInv'
  BY TypeStep DEF FedInv
<1> QED
  BY <1>1, FramesStep, StoredStep, JobsStep, AcceptsKept, DeliveredStep DEF FedInv

LEMMA Invariance == Spec => []FedInv
BY FedInvInit, FedInvStep, PTL DEF Spec

\* What one honest daemon signs, relays and seals, another one verifies:
\* process_due_fed never sends an envelope that the signature, chain-peer or
\* hop-count checks of fed_ingress and fed_sealed_ingress would refuse.
THEOREM ChainsAreHonest == Spec => []HonestChains
<1>1. FedInv => HonestChains
  <2> SUFFICES ASSUME FedInv, NEW l \in Pairs, NEW f \in Sent(l)
               PROVE  VerifyChain(f.copy) /\ LastLink(f.copy) = l[1] /\ f.copy.hops = Len(f.copy.chain)
    BY DEF HonestChains
  <2> PICK i \in DOMAIN link[l] : link[l][i].kind # "ack" /\ f = link[l][i]
    BY DEF Sent
  <2> QED
    BY DEF FedInv, FramesInv, Honest
<1> QED
  BY <1>1, Invariance, PTL

\* No daemon lets in a message that has passed through it (the dedup peek of
\* fed_ingress and fed_sealed_ingress), in any network, across any number of
\* restarts, expired dedup entries and retention purges.
THEOREM NoLoops == Spec => []LoopFree
<1>1. FedInv => LoopFree
  BY DEF FedInv
<1> QED
  BY <1>1, Invariance, PTL

\* Retries never make a daemon fan a message out twice for the same peer
\* (message_exists behind the in-memory Dedup).
THEOREM FannedOutOncePerPeer == Spec => []OncePerPeer
<1>1. FedInv => OncePerPeer
  BY DEF FedInv
<1> QED
  BY <1>1, Invariance, PTL

\* A federated row is marked delivered only when its peer has accepted the message
\* from this node (handle_frame acks nothing else, handle_fed_ack looks at the peer).
THEOREM DeliveredMeansAccepted == Spec => []DeliveredWasAccepted
<1>1. FedInv => DeliveredWasAccepted
  BY DEF FedInv
<1> QED
  BY <1>1, Invariance, PTL

\* A handler's trust check still holds when it fans the message out
\* (fed_trust_denied is asked once, at its start).
THEOREM OnlyTrustedPeers == Spec => TrustedOnly
<1>1. ASSUME FedInv, [Next]_vars, NEW n \in Node, accepts'[n] # accepts[n]
      PROVE  accepts'[n][Len(accepts'[n])].peer \in trusted[n]
  <2>0. TypeInv /\ accepts[n] \in Seq(Accept)
    BY <1>1 DEF FedInv, TypeInv, TypeOK
  <2> PICK p \in Node : /\ <<n, p>> \in Pairs /\ job[<<n, p>>] # Nil
                        /\ \E r \in Route : accepts'[n] = Append(accepts[n], [peer |-> p, route |-> r])
    BY <1>1, <2>0, AcceptsStep
  <2> PICK r \in Route : accepts'[n] = Append(accepts[n], [peer |-> p, route |-> r])
    OBVIOUS
  <2>1. p \in trusted[n]
    BY <1>1 DEF FedInv, JobsInv
  <2> DEFINE a == [peer |-> p, route |-> r]
  <2>2. a.peer = p
    OBVIOUS
  <2> HIDE DEF a
  <2>3. accepts'[n] = Append(accepts[n], a)
    BY DEF a
  <2>4. accepts'[n][Len(accepts'[n])] = a
    BY <2>0, <2>3, SMTT(30)
  <2> QED
    BY <2>1, <2>2, <2>4
<1>2. FedInv /\ [Next]_vars =>
        [\A n \in Node : accepts'[n] # accepts[n] =>
           accepts'[n][Len(accepts'[n])].peer \in trusted[n]]_vars
  BY <1>1
<1> QED
  BY <1>2, Invariance, PTL DEF Spec, TrustedOnly
=============================================================================
