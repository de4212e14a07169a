---------------------------- MODULE PeersProofs ----------------------------
(***************************************************************************)
(* The connections between daemons and the tables about other nodes, for   *)
(* any network, any permits and limits, and any number of connections,     *)
(* crashes, boots and keys.                                                *)
(***************************************************************************)
EXTENDS FedLink, Discovery, FiniteSetTheorems, TLAPS

\* The prover of a step that names none, and its seconds.
USE ZenonT(60)

Up == {"up", "run", "send"}

Dialed == [from : Node, expect : Node, to : Node, sent : BOOLEAN]

LinkType ==
  /\ conn \in Seq(Dialed) /\ Len(conn) <= MaxConns
  /\ at \in [End -> Active \cup {"none", "gone"}]
  /\ conns \in [Node -> [Node -> 0..MaxConns]]
  /\ gauge \in [Node -> [Node -> BOOLEAN]]
  /\ crashes \in 0..MaxCrashes

\* An end is past its handshake only after message 3, which the dialer sends to the
\* node it asked for and to no other.
Proved ==
  /\ \A e \in End : at[e] # "none" => e[1] \in DOMAIN conn
  /\ \A c \in DOMAIN conn : conn[c].sent => conn[c].to = conn[c].expect
  /\ \A e \in End : at[e] \in Up \cup {"admit", "down"} => conn[e[1]].sent

\* Two ends that run for one key of one daemon are the same end: not even the two ends
\* of a connection of a daemon with itself share an entry.
OneEnd ==
  \A e, f \in End :
    at[e] \in Up /\ at[f] \in Up /\ Owner(e) = Owner(f) /\ PeerOf(e) = PeerOf(f) => e = f

Registry == LinkType /\ Proved /\ OneEnd /\ RegistryIsLive /\ AdmittedOnly /\ UpMeansOpen

\* The clocks of an end: while its peer is gone nothing resets them, and every tick
\* that an orphan waits is one of silence or one of a stuck send.
Clocks ==
  /\ silent \in [End -> 0..DEAD_AFTER] /\ stuck \in [End -> 0..SEND_TIMEOUT]
  /\ orphan \in [End -> Nat]
  /\ \A e \in End : /\ orphan[e] > 0 => at[Other(e)] = "gone"
                    /\ orphan[e] <= silent[e] + stuck[e]

(* ------------------------------- the ends ------------------------------ *)

LEMMA Limits ==
  /\ MAX_INBOUND_CONNS \in Nat \ {0} /\ DEAD_AFTER \in Nat \ {0} /\ SEND_TIMEOUT \in Nat \ {0}
  /\ MaxConns \in Nat /\ MaxCrashes \in Nat
BY FedLinkAssumption

LEMMA Update ==
  ASSUME NEW S, NEW T, NEW f \in [T -> [T -> S]], NEW a \in T, NEW b \in T, NEW x \in S
  PROVE  /\ [f EXCEPT ![a][b] = x] \in [T -> [T -> S]]
         /\ \A c, d \in T : [f EXCEPT ![a][b] = x][c][d] = IF c = a /\ d = b THEN x ELSE f[c][d]
OBVIOUS

LEMMA EndFacts ==
  ASSUME NEW e \in End
  PROVE  /\ e[1] \in 1..MaxConns /\ e[2] \in {1, 2} /\ e = <<e[1], e[2]>>
         /\ Other(e) \in End /\ Other(e)[1] = e[1] /\ Other(e)[2] = 3 - e[2]
         /\ Other(e) # e /\ Other(Other(e)) = e
BY SMTT(30) DEF End, Other

LEMMA EndsFinite == IsFiniteSet(End)
<1>1. IsFiniteSet(1..MaxConns)
  BY FS_Interval, Limits, SMTT(30)
<1>2. IsFiniteSet({1, 2})
  <2>1. IsFiniteSet({1}) /\ {1, 2} = {1} \cup {2}
    BY FS_Singleton
  <2> QED
    BY <2>1, FS_AddElement
<1> QED
  BY <1>1, <1>2, FS_Product DEF End

\* The two ends of a connection that exists.
LEMMA EndsOf ==
  ASSUME LinkType, NEW c \in DOMAIN conn
  PROVE  /\ c \in 1..MaxConns /\ conn[c] \in Dialed
         /\ \A i \in {1, 2} : <<c, i>> \in End /\ <<c, i>>[1] = c /\ <<c, i>>[2] = i
<1>1. c \in 1..Len(conn) /\ Len(conn) \in Nat /\ Len(conn) <= MaxConns
  BY SMTT(30) DEF LinkType
<1>2. c \in 1..MaxConns
  BY <1>1, Limits, SMTT(30)
<1> QED
  BY <1>1, <1>2, SMTT(30) DEF LinkType, End

(* -------------------------- types and handshakes ------------------------ *)

\* Connections are only added, and keep their nodes.
Kept ==
  \A c \in DOMAIN conn :
    /\ c \in DOMAIN conn'
    /\ conn[c].sent => conn'[c].sent
    /\ conn'[c].from = conn[c].from /\ conn'[c].expect = conn[c].expect /\ conn'[c].to = conn[c].to

LEMMA DialStep ==
  ASSUME LinkType, Proved, NEW n \in Node, NEW m \in Peers[n], NEW to \in Reaches[m], Dial(n, m, to)
  PROVE  LinkType' /\ Proved' /\ Kept
<1> DEFINE c == Len(conn) + 1
           new == [from |-> n, expect |-> m, to |-> to, sent |-> FALSE]
<1>1. m \in Node /\ to \in Node
  BY FedLinkAssumption
<1>2. /\ Len(conn) \in Nat /\ c \in 1..MaxConns /\ <<c, 1>> \in End /\ new \in Dialed
      /\ DOMAIN conn = 1..Len(conn)
  BY <1>1, Limits, SMTT(30) DEF Dial, LinkType, Dialed, End
<1>3. /\ conn' \in Seq(Dialed) /\ Len(conn') = c /\ DOMAIN conn' = 1..c
      /\ conn'[c] = new /\ \A k \in 1..Len(conn) : conn'[k] = conn[k]
  BY <1>2, SMTT(30) DEF Dial, LinkType
<1>4. at' = [at EXCEPT ![<<c, 1>>] = "hs"]
  BY DEF Dial, Goto
<1>5. LinkType'
  BY <1>2, <1>3, <1>4, Limits DEF Dial, LinkType, Active
<1>6. Proved'
  <2>1. ASSUME NEW e \in End, at'[e] # "none" PROVE e[1] \in DOMAIN conn'
    BY <1>2, <1>3, <1>4, <2>1, SMTT(30) DEF Proved, LinkType
  <2>2. ASSUME NEW k \in DOMAIN conn', conn'[k].sent PROVE conn'[k].to = conn'[k].expect
    BY <1>2, <1>3, <2>2, SMTT(30) DEF Proved
  <2>3. ASSUME NEW e \in End, at'[e] \in Up \cup {"admit", "down"} PROVE conn'[e[1]].sent
    <3>1. at[e] = at'[e]
      BY <1>2, <1>4, <2>3 DEF LinkType, Up
    <3>2. e[1] \in 1..Len(conn) /\ conn[e[1]].sent
      BY <3>1, <2>3, <1>2 DEF Proved, Up
    <3> QED
      BY <3>2, <1>3
  <2> QED
    BY <2>1, <2>2, <2>3 DEF Proved
<1> QED
  BY <1>2, <1>3, <1>5, <1>6, SMTT(30) DEF Kept

\* A step of one end that leaves the connections as they are.
LEMMA GotoStep ==
  ASSUME LinkType, Proved, NEW e \in End, e[1] \in DOMAIN conn, UNCHANGED conn,
         NEW s \in Active \cup {"gone"}, Goto(e, s),
         s \in Up \cup {"admit", "down"} => conn[e[1]].sent
  PROVE  at' \in [End -> Active \cup {"none", "gone"}] /\ Proved' /\ Kept
<1>1. at' \in [End -> Active \cup {"none", "gone"}]
  BY DEF Goto, LinkType
<1>2. /\ \A f \in End : f # e => at'[f] = at[f]
      /\ at'[e] = s
  BY DEF Goto, LinkType
<1> QED
  BY <1>1, <1>2 DEF Proved, Kept

LEMMA ConnStep ==
  ASSUME LinkType, Proved, NEW c \in DOMAIN conn, Accept(c) \/ InitiatorDone(c) \/ ResponderDone(c)
  PROVE  LinkType' /\ Proved' /\ Kept
<1>0. /\ c \in 1..MaxConns /\ conn[c] \in Dialed
      /\ <<c, 1>> \in End /\ <<c, 1>>[1] = c /\ <<c, 2>> \in End /\ <<c, 2>>[1] = c
  BY EndsOf
<1>1. CASE Accept(c)
  <2>1. PICK s \in {"hs", "gone"} : Goto(<<c, 2>>, s)
    BY <1>1 DEF Accept
  <2>2. at' \in [End -> Active \cup {"none", "gone"}] /\ Proved' /\ Kept
    BY <1>0, <1>1, <2>1, GotoStep DEF Accept, Up, Active
  <2> QED
    BY <1>1, <2>2 DEF Accept, LinkType
<1>2. CASE ResponderDone(c)
  <2>2. at' \in [End -> Active \cup {"none", "gone"}] /\ Proved' /\ Kept
    BY <1>0, <1>2, GotoStep DEF ResponderDone, Up, Active
  <2> QED
    BY <1>2, <2>2 DEF ResponderDone, LinkType
<1>3. CASE InitiatorDone(c) /\ ~Expected(c)
  <2>2. at' \in [End -> Active \cup {"none", "gone"}] /\ Proved' /\ Kept
    BY <1>0, <1>3, GotoStep DEF InitiatorDone, Up, Active
  <2> QED
    BY <1>3, <2>2 DEF InitiatorDone, LinkType
<1>4. CASE InitiatorDone(c) /\ Expected(c)
  <2>1. /\ conn' \in Seq(Dialed) /\ Len(conn') = Len(conn) /\ DOMAIN conn' = DOMAIN conn
        /\ conn'[c] = [conn[c] EXCEPT !.sent = TRUE]
        /\ \A k \in DOMAIN conn : k # c => conn'[k] = conn[k]
    <3> DEFINE row == [conn[c] EXCEPT !.sent = TRUE]
    <3>1. row \in Dialed /\ conn' = [conn EXCEPT ![c] = row]
      BY <1>0, <1>4 DEF InitiatorDone, Dialed
    <3> HIDE DEF row
    <3>2. conn \in Seq(Dialed)
      BY DEF LinkType
    <3>3. conn' \in Seq(Dialed) /\ Len(conn') = Len(conn) /\ DOMAIN conn' = DOMAIN conn
      BY <3>1, <3>2, SMTT(30)
    <3> QED
      BY <3>1, <3>2, <3>3 DEF row
  <2>2. /\ at' \in [End -> Active \cup {"none", "gone"}]
        /\ \A f \in End : f # <<c, 1>> => at'[f] = at[f]
    BY <1>0, <1>4 DEF InitiatorDone, Goto, LinkType, Active
  <2>3. LinkType'
    BY <1>4, <2>1, <2>2 DEF InitiatorDone, LinkType
  <2>4. Kept /\ conn'[c].sent /\ conn'[c].to = conn'[c].expect
    BY <1>0, <1>4, <2>1 DEF Kept, Dialed, Expected
  <2>5. \A k \in DOMAIN conn' : conn'[k].sent => conn'[k].to = conn'[k].expect
    BY <2>1, <2>4 DEF Proved
  <2>6. ASSUME NEW f \in End, at'[f] \in Up \cup {"admit", "down"} PROVE conn'[f[1]].sent
    <3>1. CASE f = <<c, 1>>
      BY <3>1, <2>4
    <3>2. CASE f # <<c, 1>>
      <4>1. f[1] \in DOMAIN conn /\ conn[f[1]].sent
        BY <2>2, <2>6, <3>2 DEF Proved, Up
      <4> QED
        BY <4>1, <2>4 DEF Kept
    <3> QED
      BY <3>1, <3>2
  <2>7. \A f \in End : at'[f] # "none" => f[1] \in DOMAIN conn'
    BY <1>0, <2>1, <2>2 DEF Proved
  <2> QED
    BY <2>3, <2>4, <2>5, <2>6, <2>7 DEF Proved
<1> QED
  BY <1>1, <1>2, <1>3, <1>4

LEMMA EndStep ==
  ASSUME LinkType, Proved, NEW e \in (DOMAIN conn) \X {1, 2},
         \/ HandshakeFails(e) \/ RegisterUp(e) \/ AnnounceUp(e) \/ AnnounceDown(e)
         \/ Hear(e) \/ BeginSend(e) \/ EndSend(e) \/ Break(e)
  PROVE  LinkType' /\ Proved' /\ Kept
<1>0. e \in End /\ e[1] \in DOMAIN conn /\ e[1] \in 1..MaxConns /\ conn[e[1]] \in Dialed
  <2>1. PICK c \in DOMAIN conn, i \in {1, 2} : e = <<c, i>>
    BY SMTT(30)
  <2>2. /\ c \in 1..MaxConns /\ conn[c] \in Dialed
        /\ <<c, i>> \in End /\ <<c, i>>[1] = c
    BY EndsOf
  <2> QED
    BY <2>1, <2>2
<1>1. Owner(e) \in Node /\ PeerOf(e) \in Node
  BY <1>0 DEF Owner, PeerOf, Dialed
<1>2. at[e] \in Up \cup {"admit", "down"} => conn[e[1]].sent
  BY <1>0 DEF Proved
<1>3. CASE HandshakeFails(e)
  <2>1. at' \in [End -> Active \cup {"none", "gone"}] /\ Proved' /\ Kept
    BY <1>0, <1>3, GotoStep DEF HandshakeFails, Up
  <2> QED
    BY <1>3, <2>1 DEF HandshakeFails, LinkType
<1>4. CASE RegisterUp(e)
  <2>1. PICK s \in {"up", "gone"} : Goto(e, s)
    BY <1>4 DEF RegisterUp
  <2>2. at' \in [End -> Active \cup {"none", "gone"}] /\ Proved' /\ Kept
    BY <1>0, <1>2, <1>4, <2>1, GotoStep DEF RegisterUp, Up, Active
  <2>3. conns' \in [Node -> [Node -> 0..MaxConns]]
    <3>1. e[1] \in 0..MaxConns
      BY <1>0, Limits, SMTT(30)
    <3>2. UNCHANGED conns \/ conns' = [conns EXCEPT ![Owner(e)][PeerOf(e)] = e[1]]
      BY <1>4 DEF RegisterUp
    <3>3. conns \in [Node -> [Node -> 0..MaxConns]]
      BY DEF LinkType
    <3>4. [conns EXCEPT ![Owner(e)][PeerOf(e)] = e[1]] \in [Node -> [Node -> 0..MaxConns]]
      BY <1>1, <3>1, <3>3, Update
    <3> QED
      BY <3>2, <3>3, <3>4
  <2> QED
    BY <1>4, <2>2, <2>3 DEF RegisterUp, LinkType
<1>5. CASE AnnounceUp(e)
  <2>2. at' \in [End -> Active \cup {"none", "gone"}] /\ Proved' /\ Kept
    BY <1>0, <1>2, <1>5, GotoStep DEF AnnounceUp, Up, Active
  <2>3. gauge' \in [Node -> [Node -> BOOLEAN]]
    BY <1>1, <1>5 DEF AnnounceUp, LinkType
  <2> QED
    BY <1>5, <2>2, <2>3 DEF AnnounceUp, LinkType
<1>6. CASE AnnounceDown(e)
  <2>2. at' \in [End -> Active \cup {"none", "gone"}] /\ Proved' /\ Kept
    BY <1>0, <1>6, GotoStep DEF AnnounceDown, Up
  <2>3. gauge' \in [Node -> [Node -> BOOLEAN]]
    BY <1>1, <1>6 DEF AnnounceDown, LinkType
  <2> QED
    BY <1>6, <2>2, <2>3 DEF AnnounceDown, LinkType
<1>7. CASE Hear(e)
  BY <1>7 DEF Hear, LinkType, Proved, Kept
<1>8. CASE BeginSend(e)
  <2>2. at' \in [End -> Active \cup {"none", "gone"}] /\ Proved' /\ Kept
    BY <1>0, <1>2, <1>8, GotoStep DEF BeginSend, Up, Active
  <2> QED
    BY <1>8, <2>2 DEF BeginSend, LinkType
<1>9. CASE EndSend(e)
  <2>2. at' \in [End -> Active \cup {"none", "gone"}] /\ Proved' /\ Kept
    BY <1>0, <1>2, <1>9, GotoStep DEF EndSend, Up, Active
  <2> QED
    BY <1>9, <2>2 DEF EndSend, LinkType
<1>10. CASE Break(e)
  <2>1. PICK s \in {"down", "gone"} : Goto(e, s)
    BY <1>10 DEF Break, RegisterDown
  <2>2. at' \in [End -> Active \cup {"none", "gone"}] /\ Proved' /\ Kept
    BY <1>0, <1>2, <1>10, <2>1, GotoStep DEF Break, Up, Active
  <2>3. conns' \in [Node -> [Node -> 0..MaxConns]]
    <3>1. 0 \in 0..MaxConns
      BY Limits, SMTT(30)
    <3>2. UNCHANGED conns \/ conns' = [conns EXCEPT ![Owner(e)][PeerOf(e)] = 0]
      BY <1>10 DEF Break, RegisterDown
    <3>3. conns \in [Node -> [Node -> 0..MaxConns]]
      BY DEF LinkType
    <3>4. [conns EXCEPT ![Owner(e)][PeerOf(e)] = 0] \in [Node -> [Node -> 0..MaxConns]]
      BY <1>1, <3>1, <3>3, Update
    <3> QED
      BY <3>2, <3>3, <3>4
  <2> QED
    BY <1>10, <2>2, <2>3 DEF Break, LinkType
<1> QED
  BY <1>3, <1>4, <1>5, <1>6, <1>7, <1>8, <1>9, <1>10

\* Types, handshakes and what connections keep, over a step of the system.
LEMMA ShapeStep ==
  ASSUME LinkType, Proved, [Next]_vars
  PROVE  LinkType' /\ Proved' /\ Kept
<1>1. CASE UNCHANGED vars \/ Tick
  BY <1>1 DEF vars, Tick, LinkType, Proved, Kept
<1>2. ASSUME NEW n \in Node, Crash(n) PROVE LinkType' /\ Proved' /\ Kept
  <2>1. /\ at' \in [End -> Active \cup {"none", "gone"}]
        /\ \A e \in End : at'[e] = at[e] \/ (e[1] \in DOMAIN conn /\ at'[e] = "gone")
    BY <1>2 DEF Crash, LinkType, Open
  <2>2. conns' \in [Node -> [Node -> 0..MaxConns]] /\ gauge' \in [Node -> [Node -> BOOLEAN]]
    BY <1>2, Limits, SMTT(30) DEF Crash, LinkType
  <2>3. crashes' \in 0..MaxCrashes
    BY <1>2, Limits, SMTT(30) DEF Crash, LinkType
  <2>4. LinkType' /\ Kept
    BY <1>2, <2>1, <2>2, <2>3 DEF Crash, LinkType, Kept
  <2> QED
    BY <1>2, <2>1, <2>4 DEF Crash, Proved, Up
<1>3. CASE Next
  BY <1>1, <1>2, <1>3, DialStep, ConnStep, EndStep DEF Next
<1> QED
  BY <1>1, <1>3

(* ------------------------------ the registry ---------------------------- *)

Links == OneEnd /\ RegistryIsLive /\ AdmittedOnly /\ UpMeansOpen

\* An end keeps its owner and its peer.
LEMMA SameEnds ==
  ASSUME LinkType, Proved, Kept, NEW e \in End, at[e] # "none"
  PROVE  /\ e[1] \in DOMAIN conn /\ e[1] \in DOMAIN conn' /\ e[1] # 0
         /\ Owner(e)' = Owner(e) /\ PeerOf(e)' = PeerOf(e)
         /\ Owner(e) \in Node /\ PeerOf(e) \in Node
<1>1. e[1] \in DOMAIN conn
  BY DEF Proved
<1>2. e[1] # 0 /\ conn[e[1]] \in Dialed
  <2>1. e[1] \in 1..MaxConns /\ conn[e[1]] \in Dialed
    BY <1>1, EndsOf
  <2> QED
    BY <2>1, Limits, SMTT(30)
<1>3. Owner(e) \in Node /\ PeerOf(e) \in Node
  BY <1>2 DEF Owner, PeerOf, Dialed
<1>4. /\ e[1] \in DOMAIN conn' /\ conn'[e[1]].from = conn[e[1]].from
      /\ conn'[e[1]].expect = conn[e[1]].expect /\ conn'[e[1]].to = conn[e[1]].to
  BY <1>1 DEF Kept
<1>5. Owner(e)' = Owner(e) /\ PeerOf(e)' = PeerOf(e)
  BY <1>4 DEF Owner, PeerOf
<1> QED
  BY <1>1, <1>2, <1>3, <1>4, <1>5

\* What keeps an end that runs, or that is to be announced, where a search finds it.
LEMMA StaysOpen ==
  ASSUME LinkType, Proved, Kept, NEW n \in Node, NEW e \in Open(n), at'[e] \in Active
  PROVE  e \in Open(n)' /\ PeerOf(e)' = PeerOf(e)
BY SameEnds DEF Open, Active

\* A step that neither starts nor ends a run, and leaves the registry and the gauge.
LEMMA QuietStep ==
  ASSUME LinkType, Proved, Kept, LinkType', Proved', Links, UNCHANGED <<conns, gauge>>,
         \A e \in End : /\ at'[e] \in Up <=> at[e] \in Up
                        /\ at'[e] = "down" <=> at[e] = "down"
  PROVE  Links'
<1> USE DEF Links
<1>1. ASSUME NEW e \in End, at'[e] \in Up
      PROVE  /\ at[e] \in Up /\ Owner(e)' = Owner(e) /\ PeerOf(e)' = PeerOf(e)
             /\ Owner(e) \in Node /\ PeerOf(e) \in Node
  BY <1>1, SameEnds DEF Up
<1>2. OneEnd'
  BY <1>1 DEF OneEnd
<1>3. ASSUME NEW n \in Node, NEW m \in Node, conns'[n][m] # 0
      PROVE  \E e \in Open(n)' : e[1] = conns'[n][m] /\ PeerOf(e)' = m /\ at'[e] \in Up
  <2>1. PICK e \in Open(n) : e[1] = conns[n][m] /\ PeerOf(e) = m /\ at[e] \in Up
    BY <1>3, SMTT(30) DEF RegistryIsLive, Up
  <2>2. at'[e] \in Up /\ at'[e] \in Active
    BY <2>1 DEF Open, Up, Active
  <2> QED
    BY <2>1, <2>2, StaysOpen
<1>4. \A e \in End : at'[e] \in Up => conns'[Owner(e)'][PeerOf(e)'] = e[1]
  BY <1>1 DEF RegistryIsLive, Up
<1>5. RegistryIsLive'
  BY <1>3, <1>4 DEF RegistryIsLive, Up
<1>6. ASSUME NEW n \in Node, NEW m \in Node, gauge'[n][m]
      PROVE  \E e \in Open(n)' : PeerOf(e)' = m /\ at'[e] \in Up \cup {"down"}
  <2>1. PICK e \in Open(n) : PeerOf(e) = m /\ at[e] \in Up \cup {"down"}
    BY <1>6 DEF UpMeansOpen, Up
  <2>2. at'[e] \in Up \cup {"down"} /\ at'[e] \in Active
    BY <2>1 DEF Open, Up, Active
  <2> QED
    BY <2>1, <2>2, StaysOpen
<1>7. UpMeansOpen'
  BY <1>6 DEF UpMeansOpen, Up
<1> QED
  BY <1>2, <1>5, <1>7 DEF AdmittedOnly

LEMMA RegisterUpStep ==
  ASSUME LinkType, Proved, Kept, LinkType', Proved', Links,
         NEW e \in End, e[1] \in DOMAIN conn, RegisterUp(e)
  PROVE  Links'
<1> DEFINE n == Owner(e)
           m == PeerOf(e)
<1>0. at[e] = "admit" /\ \A f \in End : f # e => at'[f] = at[f]
  BY DEF RegisterUp, Goto, LinkType
<1>1. CASE ~(Admits(n, m) /\ KeyFree(n, m))
  <2>1. at'[e] = "gone" /\ UNCHANGED <<conns, gauge>>
    BY <1>1 DEF RegisterUp, Goto, LinkType
  <2>2. \A f \in End : /\ at'[f] \in Up <=> at[f] \in Up
                       /\ at'[f] = "down" <=> at[f] = "down"
    BY <1>0, <2>1 DEF Up
  <2> QED
    BY <2>1, <2>2, QuietStep
<1>2. CASE Admits(n, m) /\ KeyFree(n, m)
  <2>1. /\ at'[e] = "up" /\ UNCHANGED gauge
        /\ conns' = [conns EXCEPT ![n][m] = e[1]] /\ conns[n][m] = 0
    BY <1>2 DEF RegisterUp, Goto, LinkType, KeyFree
  <2>2. n \in Node /\ m \in Node /\ Owner(e)' = n /\ PeerOf(e)' = m /\ e[1] # 0
    BY <1>0, SameEnds
  <2>3. \A k, l \in Node : conns'[k][l] = IF k = n /\ l = m THEN e[1] ELSE conns[k][l]
    BY <2>1, <2>2 DEF LinkType
  <2> HIDE DEF n, m
  <2>4. ASSUME NEW f \in End, at'[f] \in Up, f # e
        PROVE  /\ at[f] \in Up /\ Owner(f)' = Owner(f) /\ PeerOf(f)' = PeerOf(f)
               /\ Owner(f) \in Node /\ PeerOf(f) \in Node
               /\ conns[Owner(f)][PeerOf(f)] = f[1] /\ f[1] # 0
               /\ ~(Owner(f) = n /\ PeerOf(f) = m)
    <3>1. at[f] \in Up
      BY <1>0, <2>4
    <3>2. conns[Owner(f)][PeerOf(f)] = f[1]
      BY <3>1 DEF Links, RegistryIsLive, Up
    <3>3. at[f] # "none"
      BY <3>1 DEF Up
    <3> QED
      BY <2>1, <3>1, <3>2, <3>3, SameEnds
  <2>5. OneEnd'
    BY <2>2, <2>4 DEF OneEnd, Links
  <2>6. ASSUME NEW k \in Node, NEW l \in Node, conns'[k][l] # 0
        PROVE  \E f \in Open(k)' : f[1] = conns'[k][l] /\ PeerOf(f)' = l /\ at'[f] \in Up
    <3>1. CASE k = n /\ l = m
      <4>1. e \in Open(k)'
        BY <2>1, <2>2, <3>1, <1>0, SameEnds DEF Open, Active
      <4> QED
        BY <4>1, <2>1, <2>2, <2>3, <3>1, SMTT(30) DEF Up
    <3>2. CASE ~(k = n /\ l = m)
      <4>1. PICK f \in Open(k) : f[1] = conns[k][l] /\ PeerOf(f) = l /\ at[f] \in Up
        BY <2>3, <2>6, <3>2, SMTT(30) DEF Links, RegistryIsLive, Up
      <4>2. f \in End /\ f # e
        BY <1>0, <4>1 DEF Open, Up
      <4>3. at'[f] \in Up /\ at'[f] \in Active
        BY <1>0, <4>1, <4>2 DEF Up, Active
      <4> QED
        BY <2>3, <3>2, <4>1, <4>3, StaysOpen
    <3> QED
      BY <3>1, <3>2
  <2>7. ASSUME NEW f \in End, at'[f] \in Up PROVE conns'[Owner(f)'][PeerOf(f)'] = f[1]
    BY <2>2, <2>3, <2>4, <2>7, SMTT(30)
  <2>8. RegistryIsLive'
    BY <2>6, <2>7 DEF RegistryIsLive, Up
  <2>9. AdmittedOnly'
    BY <1>2, <2>3 DEF AdmittedOnly, Links, Admits
  <2>10. ASSUME NEW k \in Node, NEW l \in Node, gauge'[k][l]
         PROVE  \E f \in Open(k)' : PeerOf(f)' = l /\ at'[f] \in Up \cup {"down"}
    <3>1. PICK f \in Open(k) : PeerOf(f) = l /\ at[f] \in Up \cup {"down"}
      BY <2>1, <2>10 DEF UpMeansOpen, Links, Up
    <3>2. f \in End /\ f # e
      BY <1>0, <3>1 DEF Open, Up
    <3>3. at'[f] \in Up \cup {"down"} /\ at'[f] \in Active
      BY <1>0, <3>1, <3>2 DEF Up, Active
    <3> QED
      BY <3>1, <3>3, StaysOpen
  <2>11. UpMeansOpen'
    BY <2>10 DEF UpMeansOpen, Up
  <2> QED
    BY <2>5, <2>8, <2>9, <2>11 DEF Links
<1> QED
  BY <1>1, <1>2

\* An end that runs or is to be announced elsewhere keeps doing so.
LEMMA GaugeKeeps ==
  ASSUME LinkType, Proved, Kept, Links, NEW e \in End,
         \A f \in End : f # e => at'[f] = at[f],
         NEW k \in Node, NEW l \in Node, gauge[k][l], ~(Owner(e) = k /\ PeerOf(e) = l)
  PROVE  \E f \in Open(k)' : PeerOf(f)' = l /\ at'[f] \in Up \cup {"down"}
<1>1. PICK f \in Open(k) : PeerOf(f) = l /\ at[f] \in Up \cup {"down"}
  BY DEF UpMeansOpen, Links, Up
<1>2. f \in End /\ f # e
  BY <1>1 DEF Open
<1>3. at'[f] \in Up \cup {"down"} /\ at'[f] \in Active
  BY <1>1, <1>2 DEF Up, Active
<1> QED
  BY <1>1, <1>3, StaysOpen

LEMMA AnnounceStep ==
  ASSUME LinkType, Proved, Kept, LinkType', Proved', Links,
         NEW e \in End, e[1] \in DOMAIN conn, AnnounceUp(e) \/ AnnounceDown(e)
  PROVE  Links'
<1> DEFINE n == Owner(e)
           m == PeerOf(e)
<1>0. /\ at[e] \in {"up", "down"} /\ at[e] # "none" /\ UNCHANGED conns
      /\ \A f \in End : f # e => at'[f] = at[f]
      /\ at[e] = "up" => at'[e] = "run" /\ gauge' = [gauge EXCEPT ![n][m] = TRUE]
      /\ at[e] = "down" => at'[e] = "gone" /\ gauge' = [gauge EXCEPT ![n][m] = FALSE]
  BY DEF AnnounceUp, AnnounceDown, Goto, LinkType
<1>1. /\ n \in Node /\ m \in Node /\ Owner(e)' = n /\ PeerOf(e)' = m
      /\ e[1] \in DOMAIN conn'
  BY <1>0, SameEnds
<1> HIDE DEF n, m
<1>2. /\ \A k, l \in Node : ~(k = n /\ l = m) => gauge'[k][l] = gauge[k][l]
      /\ at[e] = "down" => gauge'[n][m] = FALSE
  <2>1. PICK b \in BOOLEAN : /\ gauge' = [gauge EXCEPT ![n][m] = b]
                             /\ at[e] = "down" => b = FALSE
    BY <1>0
  <2>2. /\ gauge \in [Node -> [Node -> BOOLEAN]] /\ gauge[n] \in [Node -> BOOLEAN]
        /\ gauge' = [gauge EXCEPT ![n] = [gauge[n] EXCEPT ![m] = b]]
    BY <1>1, <2>1 DEF LinkType
  <2>3. gauge'[n] = [gauge[n] EXCEPT ![m] = b] /\ \A k \in Node : k # n => gauge'[k] = gauge[k]
    BY <1>1, <2>2
  <2>4. gauge'[n][m] = b /\ \A l \in Node : l # m => gauge'[n][l] = gauge[n][l]
    BY <1>1, <2>2, <2>3
  <2> QED
    BY <2>1, <2>3, <2>4
<1>3. \A f \in End : at'[f] \in Up <=> at[f] \in Up
  BY <1>0 DEF Up
<1>4. OneEnd' /\ RegistryIsLive' /\ AdmittedOnly'
  <2>1. ASSUME NEW f \in End, at'[f] \in Up
        PROVE  /\ at[f] \in Up /\ Owner(f)' = Owner(f) /\ PeerOf(f)' = PeerOf(f)
               /\ Owner(f) \in Node /\ PeerOf(f) \in Node
    BY <1>3, <2>1, SameEnds DEF Up
  <2>2. OneEnd'
    BY <2>1 DEF OneEnd, Links
  <2>3. ASSUME NEW k \in Node, NEW l \in Node, conns'[k][l] # 0
        PROVE  \E f \in Open(k)' : f[1] = conns'[k][l] /\ PeerOf(f)' = l /\ at'[f] \in Up
    <3>1. PICK f \in Open(k) : f[1] = conns[k][l] /\ PeerOf(f) = l /\ at[f] \in Up
      BY <1>0, <2>3 DEF Links, RegistryIsLive, Up
    <3>2. at'[f] \in Up /\ at'[f] \in Active
      BY <1>3, <3>1 DEF Open, Up, Active
    <3> QED
      BY <1>0, <3>1, <3>2, StaysOpen
  <2>4. \A f \in End : at'[f] \in Up => conns'[Owner(f)'][PeerOf(f)'] = f[1]
    BY <1>0, <2>1 DEF Links, RegistryIsLive, Up
  <2>5. RegistryIsLive'
    BY <2>3, <2>4 DEF RegistryIsLive, Up
  <2> QED
    BY <1>0, <2>2, <2>5 DEF AdmittedOnly, Links
<1>5. ASSUME NEW k \in Node, NEW l \in Node, gauge'[k][l]
      PROVE  \E f \in Open(k)' : PeerOf(f)' = l /\ at'[f] \in Up \cup {"down"}
  <2>1. CASE k = n /\ l = m
    <3>1. at'[e] = "run"
      BY <1>0, <1>2, <1>5, <2>1
    <3> QED
      BY <1>1, <2>1, <3>1 DEF Open, Active, Up
  <2>2. CASE ~(k = n /\ l = m)
    BY <1>0, <1>2, <1>5, <2>2, GaugeKeeps, SMTT(30) DEF n, m
  <2> QED
    BY <2>1, <2>2
<1>6. UpMeansOpen'
  BY <1>5 DEF UpMeansOpen, Up
<1> QED
  BY <1>4, <1>6 DEF Links

LEMMA BreakStep ==
  ASSUME LinkType, Proved, Kept, LinkType', Proved', Links,
         NEW e \in End, e[1] \in DOMAIN conn, Break(e)
  PROVE  Links'
<1> DEFINE n == Owner(e)
           m == PeerOf(e)
<1>0. at[e] \in {"run", "send"} /\ at[e] \in Up /\ at[e] # "none"
  BY DEF Break, Up
<1>1. conns[n][m] = e[1]
  BY <1>0 DEF Links, RegistryIsLive, Up
<1>2. /\ \A f \in End : f # e => at'[f] = at[f]
      /\ at'[e] = "down" /\ UNCHANGED gauge
      /\ conns' = [conns EXCEPT ![n][m] = 0]
  BY <1>1 DEF Break, RegisterDown, Goto, LinkType
<1>3. /\ n \in Node /\ m \in Node /\ Owner(e)' = n /\ PeerOf(e)' = m
      /\ e[1] \in DOMAIN conn'
  BY <1>0, SameEnds
<1>4. \A k, l \in Node : conns'[k][l] = IF k = n /\ l = m THEN 0 ELSE conns[k][l]
  BY <1>2, <1>3 DEF LinkType
<1> HIDE DEF n, m
<1>5. ASSUME NEW f \in End, at'[f] \in Up
      PROVE  /\ f # e /\ at[f] \in Up /\ Owner(f)' = Owner(f) /\ PeerOf(f)' = PeerOf(f)
             /\ Owner(f) \in Node /\ PeerOf(f) \in Node
             /\ ~(Owner(f) = n /\ PeerOf(f) = m)
  <2>1. f # e /\ at[f] \in Up /\ at[f] # "none"
    BY <1>2, <1>5 DEF Up
  <2>2. ~(Owner(f) = n /\ PeerOf(f) = m)
    BY <1>0, <2>1 DEF Links, OneEnd, n, m
  <2> QED
    BY <2>1, <2>2, SameEnds
<1>6. OneEnd'
  BY <1>5 DEF OneEnd, Links
<1>7. ASSUME NEW k \in Node, NEW l \in Node, conns'[k][l] # 0
      PROVE  \E f \in Open(k)' : f[1] = conns'[k][l] /\ PeerOf(f)' = l /\ at'[f] \in Up
  <2>1. ~(k = n /\ l = m) /\ conns'[k][l] = conns[k][l]
    BY <1>4, <1>7
  <2>2. PICK f \in Open(k) : f[1] = conns[k][l] /\ PeerOf(f) = l /\ at[f] \in Up
    BY <1>7, <2>1 DEF Links, RegistryIsLive, Up
  <2>3. f \in End /\ f # e
    BY <2>1, <2>2 DEF Open, n, m
  <2>4. at'[f] \in Up /\ at'[f] \in Active
    BY <1>2, <2>2, <2>3 DEF Up, Active
  <2> QED
    BY <2>1, <2>2, <2>4, StaysOpen
<1>8. \A f \in End : at'[f] \in Up => conns'[Owner(f)'][PeerOf(f)'] = f[1]
  BY <1>4, <1>5, SMTT(30) DEF Links, RegistryIsLive, Up
<1>9. RegistryIsLive'
  BY <1>7, <1>8 DEF RegistryIsLive, Up
<1>10. AdmittedOnly'
  BY <1>4 DEF AdmittedOnly, Links
<1>11. ASSUME NEW k \in Node, NEW l \in Node, gauge'[k][l]
       PROVE  \E f \in Open(k)' : PeerOf(f)' = l /\ at'[f] \in Up \cup {"down"}
  <2>1. CASE k = n /\ l = m
    BY <1>2, <1>3, <2>1 DEF Open, Active, Up
  <2>2. CASE ~(k = n /\ l = m)
    BY <1>2, <1>11, <2>2, GaugeKeeps DEF n, m
  <2> QED
    BY <2>1, <2>2
<1>12. UpMeansOpen'
  BY <1>11 DEF UpMeansOpen, Up
<1> QED
  BY <1>6, <1>9, <1>10, <1>12 DEF Links

LEMMA CrashStep ==
  ASSUME LinkType, Proved, Kept, LinkType', Proved', Links, NEW n \in Node, Crash(n)
  PROVE  Links'
<1>1. /\ \A e \in End : at'[e] = IF e \in Open(n) THEN "gone" ELSE at[e]
      /\ \A k, l \in Node : conns'[k][l] = IF k = n THEN 0 ELSE conns[k][l]
      /\ \A k, l \in Node : gauge'[k][l] => k # n /\ gauge[k][l]
  BY DEF Crash, LinkType
<1>2. ASSUME NEW k \in Node, NEW f \in Open(k), k # n
      PROVE  at'[f] = at[f] /\ f \in Open(k)' /\ PeerOf(f)' = PeerOf(f)
  <2>1. at'[f] = at[f] /\ at[f] \in Active
    BY <1>1, <1>2 DEF Open
  <2> QED
    BY <2>1, StaysOpen
<1>3. ASSUME NEW f \in End, at'[f] \in Up
      PROVE  /\ at[f] \in Up /\ Owner(f)' = Owner(f) /\ PeerOf(f)' = PeerOf(f)
             /\ Owner(f) \in Node /\ PeerOf(f) \in Node /\ Owner(f) # n
  <2>1. at[f] \in Up /\ f \notin Open(n)
    BY <1>1, <1>3 DEF Up
  <2>2. at[f] # "none" /\ at[f] \in Active
    BY <2>1 DEF Up, Active
  <2> QED
    BY <2>1, <2>2, SameEnds DEF Open
<1>4. OneEnd'
  BY <1>3 DEF OneEnd, Links
<1>5. ASSUME NEW k \in Node, NEW l \in Node, conns'[k][l] # 0
      PROVE  \E f \in Open(k)' : f[1] = conns'[k][l] /\ PeerOf(f)' = l /\ at'[f] \in Up
  <2>1. k # n /\ conns'[k][l] = conns[k][l]
    BY <1>1, <1>5
  <2>2. PICK f \in Open(k) : f[1] = conns[k][l] /\ PeerOf(f) = l /\ at[f] \in Up
    BY <1>5, <2>1 DEF Links, RegistryIsLive, Up
  <2> QED
    BY <1>2, <2>1, <2>2
<1>6. \A f \in End : at'[f] \in Up => conns'[Owner(f)'][PeerOf(f)'] = f[1]
  BY <1>1, <1>3, SMTT(30) DEF Links, RegistryIsLive, Up
<1>7. RegistryIsLive'
  BY <1>5, <1>6 DEF RegistryIsLive, Up
<1>8. AdmittedOnly'
  BY <1>1, SMTT(30) DEF AdmittedOnly, Links
<1>9. ASSUME NEW k \in Node, NEW l \in Node, gauge'[k][l]
      PROVE  \E f \in Open(k)' : PeerOf(f)' = l /\ at'[f] \in Up \cup {"down"}
  <2>1. PICK f \in Open(k) : PeerOf(f) = l /\ at[f] \in Up \cup {"down"}
    BY <1>1, <1>9, SMTT(30) DEF UpMeansOpen, Links, Up
  <2> QED
    BY <1>1, <1>2, <1>9, <2>1
<1>10. UpMeansOpen'
  BY <1>9 DEF UpMeansOpen, Up
<1> QED
  BY <1>4, <1>7, <1>8, <1>10 DEF Links

LEMMA LinksStep ==
  ASSUME LinkType, Proved, Links, [Next]_vars
  PROVE  Links'
<1>0. LinkType' /\ Proved' /\ Kept
  BY ShapeStep
<1> DEFINE Quiet == /\ UNCHANGED <<conns, gauge>>
                    /\ \A e \in End : /\ at'[e] \in Up <=> at[e] \in Up
                                      /\ at'[e] = "down" <=> at[e] = "down"
<1>1. CASE Quiet
  BY <1>0, <1>1, QuietStep
<1>2. CASE UNCHANGED vars \/ Tick
  <2>1. Quiet
    BY <1>2 DEF vars, Tick
  <2> QED
    BY <1>1, <2>1
<1>3. ASSUME NEW n \in Node, NEW m \in Peers[n], NEW to \in Reaches[m], Dial(n, m, to) PROVE Links'
  <2> DEFINE c == <<Len(conn) + 1, 1>>
  <2>1. at' = [at EXCEPT ![c] = "hs"] /\ UNCHANGED <<conns, gauge>>
    BY <1>3 DEF Dial, Goto
  <2>2. c \in End => at[c] = "none"
    BY <1>3, SMTT(30) DEF Proved, LinkType
  <2>3. Quiet
    BY <2>1, <2>2 DEF LinkType, Up
  <2> QED
    BY <1>1, <2>3
<1>4. ASSUME NEW c \in DOMAIN conn, Accept(c) \/ InitiatorDone(c) \/ ResponderDone(c) PROVE Links'
  <2>1. PICK i \in {1, 2}, s \in {"hs", "gone", "admit"} :
          /\ at[<<c, i>>] \in {"none", "hs"} /\ at' = [at EXCEPT ![<<c, i>>] = s]
          /\ UNCHANGED <<conns, gauge>>
    BY <1>4 DEF Accept, InitiatorDone, ResponderDone, Goto
  <2>2. Quiet
    BY <2>1 DEF LinkType, Up
  <2> QED
    BY <1>1, <2>2
<1>5. ASSUME NEW e \in (DOMAIN conn) \X {1, 2},
             \/ HandshakeFails(e) \/ RegisterUp(e) \/ AnnounceUp(e) \/ AnnounceDown(e)
             \/ Hear(e) \/ BeginSend(e) \/ EndSend(e) \/ Break(e)
      PROVE  Links'
  <2>1. e \in End /\ e[1] \in DOMAIN conn
    <3>1. PICK c \in DOMAIN conn, i \in {1, 2} : e = <<c, i>>
      BY SMTT(30)
    <3>2. <<c, i>> \in End /\ <<c, i>>[1] = c
      BY EndsOf
    <3> QED
      BY <3>1, <3>2
  <2>2. CASE HandshakeFails(e) \/ Hear(e) \/ BeginSend(e) \/ EndSend(e)
    <3>1. Quiet
      BY <2>1, <2>2 DEF HandshakeFails, Hear, BeginSend, EndSend, Goto, LinkType, Up
    <3> QED
      BY <1>1, <3>1
  <2> QED
    BY <1>0, <1>5, <2>1, <2>2, RegisterUpStep, AnnounceStep, BreakStep
<1>6. ASSUME NEW n \in Node, Crash(n) PROVE Links'
  BY <1>0, <1>6, CrashStep
<1> QED
  BY <1>2, <1>3, <1>4, <1>5, <1>6 DEF Next

(* ------------------------------- the permits ---------------------------- *)

Inbound(n) == {e \in Open(n) : e[2] = 2}

LEMMA InboundFinite == \A n \in Node : IsFiniteSet(Inbound(n)) /\ Cardinality(Inbound(n)) \in Nat
<1>1. ASSUME NEW n \in Node PROVE IsFiniteSet(Inbound(n))
  <2>1. Inbound(n) \subseteq End
    BY DEF Inbound, Open
  <2> QED
    BY <2>1, EndsFinite, FS_Subset
<1> QED
  BY <1>1, FS_CardinalityType

\* Nobody new is let in.
LEMMA NoneLetIn ==
  ASSUME LinkType, Proved, Kept, InboundBounded,
         \A e \in End : e[2] = 2 /\ at'[e] \in Active => at[e] \in Active
  PROVE  InboundBounded'
<1>1. ASSUME NEW n \in Node PROVE Cardinality(Inbound(n)') <= MAX_INBOUND_CONNS
  <2>1. ASSUME NEW e \in Inbound(n)' PROVE e \in Inbound(n)
    <3>1. e \in End /\ at[e] \in Active /\ Owner(e)' = n /\ e[2] = 2
      BY DEF Inbound, Open
    <3>2. at[e] # "none"
      BY <3>1 DEF Active
    <3> QED
      BY <3>1, <3>2, SameEnds DEF Inbound, Open
  <2>2. Cardinality(Inbound(n)') <= Cardinality(Inbound(n)) /\ IsFiniteSet(Inbound(n)')
    BY <2>1, InboundFinite, FS_Subset
  <2>3. Cardinality(Inbound(n)') \in Nat /\ Cardinality(Inbound(n)) \in Nat
    BY <2>2, InboundFinite, FS_CardinalityType
  <2> QED
    BY <2>2, <2>3, Limits, SMTT(30) DEF InboundBounded, Inbound
<1> QED
  BY <1>1 DEF InboundBounded, Inbound

LEMMA AcceptBounded ==
  ASSUME LinkType, Proved, Kept, InboundBounded, NEW c \in DOMAIN conn, Accept(c)
  PROVE  InboundBounded'
<1> DEFINE e == <<c, 2>>
           n == conn[c].to
<1>0. e \in End /\ e[1] = c /\ e[2] = 2 /\ conn[c] \in Dialed /\ n \in Node
  BY EndsOf DEF Dialed
<1>1. /\ at[e] = "none" /\ UNCHANGED conn
      /\ \A f \in End : f # e => at'[f] = at[f]
      /\ at'[e] = "gone" \/ Cardinality(PermitsOf(n)) < MAX_INBOUND_CONNS
  BY <1>0 DEF Accept, Goto, LinkType
<1>2. CASE at'[e] = "gone"
  BY <1>0, <1>1, <1>2, NoneLetIn DEF Active
<1>3. CASE Cardinality(PermitsOf(n)) < MAX_INBOUND_CONNS
  <2>1. ASSUME NEW k \in Node PROVE Cardinality(Inbound(k)') <= MAX_INBOUND_CONNS
    <3>1. Inbound(k)' \subseteq Inbound(k) \cup {e} /\ (e \in Inbound(k)' => k = n)
      BY <1>0, <1>1, SMTT(30) DEF Inbound, Open, Owner
    <3> HIDE DEF e
    <3>2. IsFiniteSet(Inbound(k)) /\ Cardinality(Inbound(k)) \in Nat
      BY InboundFinite
    <3>3. CASE e \in Inbound(k)'
      <4>1. Cardinality(Inbound(k)) < MAX_INBOUND_CONNS
        BY <1>3, <3>1, <3>3 DEF PermitsOf, Inbound
      <4>2. /\ IsFiniteSet(Inbound(k) \cup {e})
            /\ Cardinality(Inbound(k) \cup {e}) =
                 IF e \in Inbound(k) THEN Cardinality(Inbound(k)) ELSE Cardinality(Inbound(k)) + 1
        BY <3>2, FS_AddElement
      <4>3. IsFiniteSet(Inbound(k)') /\ Cardinality(Inbound(k)') <= Cardinality(Inbound(k) \cup {e})
        BY <3>1, <4>2, FS_Subset
      <4>4. Cardinality(Inbound(k)') \in Nat
        BY <4>3, FS_CardinalityType
      <4> QED
        BY <3>2, <4>1, <4>2, <4>3, <4>4, Limits, SMTT(30)
    <3>4. CASE e \notin Inbound(k)'
      <4>1. Inbound(k)' \subseteq Inbound(k)
        BY <3>1, <3>4
      <4>2. IsFiniteSet(Inbound(k)') /\ Cardinality(Inbound(k)') <= Cardinality(Inbound(k))
        BY <3>2, <4>1, FS_Subset
      <4>3. Cardinality(Inbound(k)') \in Nat
        BY <4>2, FS_CardinalityType
      <4> QED
        BY <3>2, <4>2, <4>3, Limits, SMTT(30) DEF InboundBounded, Inbound
    <3> QED
      BY <3>3, <3>4
  <2> QED
    BY <2>1 DEF InboundBounded, Inbound
<1> QED
  BY <1>1, <1>2, <1>3

LEMMA InboundStep ==
  ASSUME LinkType, Proved, InboundBounded, [Next]_vars
  PROVE  InboundBounded'
<1>0. LinkType' /\ Proved' /\ Kept
  BY ShapeStep
<1>1. ASSUME NEW c \in DOMAIN conn, Accept(c) PROVE InboundBounded'
  BY <1>0, <1>1, AcceptBounded
<1>2. CASE \A e \in End : e[2] = 2 /\ at'[e] \in Active => at[e] \in Active
  BY <1>0, <1>2, NoneLetIn
<1>3. CASE UNCHANGED vars \/ Tick \/ \E n \in Node : Crash(n)
  <2>1. \A e \in End : at'[e] \in Active => at[e] \in Active
    BY <1>3 DEF vars, Tick, Crash, Active
  <2> QED
    BY <1>2, <2>1
<1>4. ASSUME NEW n \in Node, NEW m \in Peers[n], NEW to \in Reaches[m], Dial(n, m, to) PROVE InboundBounded'
  <2>1. \A e \in End : e[2] = 2 => at'[e] = at[e]
    BY <1>4, SMTT(30) DEF Dial, Goto, LinkType
  <2> QED
    BY <1>2, <2>1
<1>5. ASSUME NEW c \in DOMAIN conn, InitiatorDone(c) \/ ResponderDone(c) PROVE InboundBounded'
  <2>1. PICK i \in {1, 2}, s \in {"gone", "admit"} :
          at[<<c, i>>] = "hs" /\ at' = [at EXCEPT ![<<c, i>>] = s]
    BY <1>5 DEF InitiatorDone, ResponderDone, Goto
  <2>2. \A e \in End : at'[e] \in Active => at[e] \in Active
    BY <2>1 DEF LinkType, Active
  <2> QED
    BY <1>2, <2>2
<1>6. ASSUME NEW e \in (DOMAIN conn) \X {1, 2},
             \/ HandshakeFails(e) \/ RegisterUp(e) \/ AnnounceUp(e) \/ AnnounceDown(e)
             \/ Hear(e) \/ BeginSend(e) \/ EndSend(e) \/ Break(e)
      PROVE  InboundBounded'
  <2>1. at[e] \in Active /\ (UNCHANGED at \/ \E s : Goto(e, s))
    BY <1>6 DEF HandshakeFails, RegisterUp, AnnounceUp, AnnounceDown, Hear, BeginSend, EndSend,
                Break, RegisterDown, Active
  <2>2. \A f \in End : at'[f] \in Active => at[f] \in Active
    BY <2>1 DEF Goto, LinkType
  <2> QED
    BY <1>2, <2>2
<1> QED
  BY <1>1, <1>3, <1>4, <1>5, <1>6 DEF Next

(* ------------------------------- the clocks ----------------------------- *)

\* An end that is gone stays so.
LEMMA GoneStays ==
  ASSUME LinkType, Proved, [Next]_vars, NEW e \in End, at[e] = "gone"
  PROVE  at'[e] = "gone"
<1>1. CASE UNCHANGED vars \/ Tick \/ \E n \in Node : Crash(n)
  BY <1>1 DEF vars, Tick, Crash
<1>2. ASSUME NEW n \in Node, NEW m \in Peers[n], NEW to \in Reaches[m], Dial(n, m, to)
      PROVE  at'[e] = "gone"
  <2>1. e[1] # Len(conn) + 1
    <3>1. e[1] \in DOMAIN conn
      BY DEF Proved
    <3> QED
      BY <3>1, SMTT(30) DEF LinkType
  <2> QED
    BY <1>2, <2>1, SMTT(30) DEF Dial, Goto, LinkType
<1>3. ASSUME NEW c \in DOMAIN conn, Accept(c) \/ InitiatorDone(c) \/ ResponderDone(c)
      PROVE  at'[e] = "gone"
  BY <1>3 DEF Accept, InitiatorDone, ResponderDone, Goto, LinkType
<1>4. ASSUME NEW f \in (DOMAIN conn) \X {1, 2},
             \/ HandshakeFails(f) \/ RegisterUp(f) \/ AnnounceUp(f) \/ AnnounceDown(f)
             \/ Hear(f) \/ BeginSend(f) \/ EndSend(f) \/ Break(f)
      PROVE  at'[e] = "gone"
  <2>1. at[f] # "gone" /\ (UNCHANGED at \/ \E s : Goto(f, s))
    BY <1>4 DEF HandshakeFails, RegisterUp, AnnounceUp, AnnounceDown, Hear, BeginSend, EndSend,
                Break, RegisterDown
  <2> QED
    BY <2>1 DEF Goto, LinkType
<1> QED
  BY <1>1, <1>2, <1>3, <1>4 DEF Next

LEMMA ClocksStep ==
  ASSUME LinkType, Proved, Clocks, [Next]_vars
  PROVE  Clocks'
<1>0. \A e \in End : Other(e) \in End
  BY EndFacts
<1>1. \A e \in End : at[Other(e)] = "gone" => at'[Other(e)] = "gone"
  BY <1>0, GoneStays
<1>2. CASE UNCHANGED ages
  BY <1>1, <1>2 DEF ages, Clocks
<1>3. CASE Tick
  <2>1. ASSUME NEW e \in End
        PROVE  /\ silent'[e] \in 0..DEAD_AFTER /\ stuck'[e] \in 0..SEND_TIMEOUT /\ orphan'[e] \in Nat
               /\ orphan'[e] > 0 => at[Other(e)] = "gone"
               /\ orphan'[e] <= silent'[e] + stuck'[e]
    <3>1. /\ silent[e] \in Nat /\ silent[e] <= DEAD_AFTER /\ stuck[e] \in Nat /\ stuck[e] <= SEND_TIMEOUT
          /\ orphan[e] \in Nat /\ orphan[e] <= silent[e] + stuck[e]
          /\ orphan[e] > 0 => at[Other(e)] = "gone"
      BY Limits, SMTT(30) DEF Clocks
    <3>2. /\ at[e] = "run" => silent[e] < DEAD_AFTER
          /\ at[e] = "send" => stuck[e] < SEND_TIMEOUT
      BY <1>3, <3>1, Limits, SMTT(30) DEF Tick, Silent, TimedOut
    <3>3. /\ silent'[e] = IF at[e] \in Running /\ silent[e] < DEAD_AFTER THEN silent[e] + 1 ELSE silent[e]
          /\ stuck'[e] = IF at[e] = "send" THEN stuck[e] + 1 ELSE stuck[e]
          /\ \/ orphan'[e] = orphan[e]
             \/ at[e] \in Running /\ at[Other(e)] = "gone" /\ orphan'[e] = orphan[e] + 1
      BY <1>3 DEF Tick
    <3> QED
      BY <3>1, <3>2, <3>3, Limits, SMTT(30) DEF Running
  <2>2. /\ silent' = [e \in End |-> silent'[e]] /\ stuck' = [e \in End |-> stuck'[e]]
        /\ orphan' = [e \in End |-> orphan'[e]]
    BY <1>3 DEF Tick
  <2>3. /\ silent' \in [End -> 0..DEAD_AFTER] /\ stuck' \in [End -> 0..SEND_TIMEOUT]
        /\ orphan' \in [End -> Nat]
    BY <2>1, <2>2
  <2> QED
    BY <1>1, <2>1, <2>3 DEF Clocks
<1>4. ASSUME NEW n \in Node, Crash(n) PROVE Clocks'
  <2>1. \A e \in End : \/ silent'[e] = silent[e] /\ stuck'[e] = stuck[e] /\ orphan'[e] = orphan[e]
                       \/ silent'[e] = 0 /\ stuck'[e] = 0 /\ orphan'[e] = 0
    BY <1>4 DEF Crash
  <2>2. /\ silent' \in [End -> 0..DEAD_AFTER] /\ stuck' \in [End -> 0..SEND_TIMEOUT]
        /\ orphan' \in [End -> Nat]
    BY <1>4, Limits, SMTT(30) DEF Crash, Clocks
  <2> QED
    BY <1>1, <2>1, <2>2, SMTT(30) DEF Clocks
<1>5. ASSUME NEW e \in (DOMAIN conn) \X {1, 2}, Hear(e) \/ EndSend(e) \/ Break(e) PROVE Clocks'
  <2>0. e \in End
    <3>1. PICK c \in DOMAIN conn, i \in {1, 2} : e = <<c, i>>
      BY SMTT(30)
    <3>2. <<c, i>> \in End
      BY EndsOf
    <3> QED
      BY <3>1, <3>2
  <2>1. orphan'[e] = 0
    <3>1. CASE Break(e)
      BY <2>0, <3>1 DEF Break, Clocks
    <3>2. CASE Hear(e) \/ EndSend(e)
      <4>1. at[Other(e)] # "gone" /\ UNCHANGED orphan
        BY <3>2 DEF Hear, EndSend, Running
      <4>2. orphan[e] \in Nat /\ ~(orphan[e] > 0)
        BY <2>0, <4>1 DEF Clocks
      <4> QED
        BY <4>1, <4>2, SMTT(30)
    <3> QED
      BY <1>5, <3>1, <3>2
  <2>2. /\ silent' \in [End -> 0..DEAD_AFTER] /\ stuck' \in [End -> 0..SEND_TIMEOUT]
        /\ orphan' \in [End -> Nat]
    BY <1>5, <2>0, Limits, SMTT(30) DEF Hear, EndSend, Break, Clocks
  <2>3. \A f \in End : f # e => silent'[f] = silent[f] /\ stuck'[f] = stuck[f] /\ orphan'[f] = orphan[f]
    BY <1>5, <2>0 DEF Hear, EndSend, Break, Clocks
  <2>4. 0 <= silent'[e] + stuck'[e]
    <3>1. silent'[e] \in 0..DEAD_AFTER /\ stuck'[e] \in 0..SEND_TIMEOUT
      BY <2>0, <2>2
    <3> QED
      BY <3>1, Limits, SMTT(30)
  <2> QED
    BY <1>1, <2>0, <2>1, <2>2, <2>3, <2>4, SMTT(30) DEF Clocks
<1>6. CASE UNCHANGED vars
  BY <1>2, <1>6 DEF vars, ages
<1> QED
  BY <1>2, <1>3, <1>4, <1>5, <1>6
     DEF Next, Dial, Accept, InitiatorDone, ResponderDone, HandshakeFails, RegisterUp, AnnounceUp,
         AnnounceDown, BeginSend

(* ------------------------------- theorems ------------------------------- *)

LinkInv == LinkType /\ Proved /\ Links /\ InboundBounded /\ Clocks

LEMMA LinkInvInit == Init => LinkInv
<1> SUFFICES ASSUME Init PROVE LinkInv
  OBVIOUS
<1>1. LinkType
  BY Limits, SMTT(30) DEF Init, LinkType
<1>2. Proved /\ Links
  BY SMTT(30) DEF Init, Proved, Links, OneEnd, RegistryIsLive, AdmittedOnly, UpMeansOpen, Up
<1>3. InboundBounded
  <2>1. \A n \in Node : Inbound(n) = {}
    BY SMTT(30) DEF Init, Inbound, Open
  <2> QED
    BY <2>1, FS_EmptySet, Limits, SMTT(30) DEF InboundBounded, Inbound
<1>4. Clocks
  BY Limits, SMTT(30) DEF Init, Clocks
<1> QED
  BY <1>1, <1>2, <1>3, <1>4 DEF LinkInv

LEMMA LinkInvStep == LinkInv /\ [Next]_vars => LinkInv'
BY ShapeStep, LinksStep, InboundStep, ClocksStep DEF LinkInv

\* For any network, permits, limits, crossing dials and crashes: conns names exactly
\* the connections that run, each under the identity at its other end (register_up,
\* register_down and the handshakes of noise.rs), only for peers that admit_and_run
\* admits, and a listener has no more tasks than permits (accept_loop_with_cap).
THEOREM RegistryIsSound == Spec => []RegistrySound
<1>1. LinkInv => RegistrySound
  <2> SUFFICES ASSUME LinkInv PROVE RegistrySound
    OBVIOUS
  <2>1. TypeOK
    <3>1. silent \in [End -> Nat]
      BY Limits, SMTT(30) DEF LinkInv, Clocks
    <3> QED
      BY <3>1 DEF LinkInv, LinkType, Clocks, TypeOK, Dialed
  <2>2. KeyIsIdentity
    <3>1. ASSUME NEW e \in End, at[e] \in Up PROVE PeerOf(e) = Owner(Other(e))
      <4>1. e[1] \in DOMAIN conn /\ conn[e[1]].to = conn[e[1]].expect
        BY <3>1 DEF LinkInv, Proved, Up
      <4>2. Other(e)[1] = e[1] /\ Other(e)[2] = 3 - e[2] /\ e[2] \in {1, 2}
        BY EndFacts
      <4> QED
        BY <4>1, <4>2, SMTT(30) DEF PeerOf, Owner
    <3> QED
      BY <3>1 DEF KeyIsIdentity, Up
  <2> QED
    BY <2>1, <2>2 DEF LinkInv, Links, RegistrySound
<1> QED
  BY <1>1, LinkInvInit, LinkInvStep, PTL DEF Spec

\* For the same systems: an end whose peer is gone without a word is closed within
\* DEAD_AFTER and one SEND_TIMEOUT (the select loop of run_conn and send_fed), and the
\* gauge shows a peer up only while an end of it is open or still to be announced.
THEOREM PeersGoneAreNoticed == Spec => []GoneIsNoticed
<1>1. LinkInv => GoneIsNoticed
  <2> SUFFICES ASSUME LinkInv PROVE GoneIsNoticed
    OBVIOUS
  <2>1. ASSUME NEW e \in End PROVE orphan[e] <= DEAD_AFTER + SEND_TIMEOUT
    <3>1. /\ silent[e] \in 0..DEAD_AFTER /\ stuck[e] \in 0..SEND_TIMEOUT /\ orphan[e] \in Nat
          /\ orphan[e] <= silent[e] + stuck[e]
      BY DEF LinkInv, Clocks
    <3> QED
      BY <3>1, Limits, SMTT(30)
  <2> QED
    BY <2>1 DEF LinkInv, Links, GoneIsNoticed, OrphansClosed
<1> QED
  BY <1>1, LinkInvInit, LinkInvStep, PTL DEF Spec

-----------------------------------------------------------------------------
(* The trust store and the adverts *)

TrustRow == [level : Levels, first : Nat]
AdvertRow == [node : Remote, signer : Remote, key : Nat, expires : Nat, received : Nat, via : Remote]

\* A stored advert: the node's own, clamped when it came, and with the key the node
\* has now unless it came before the node last took a new one.
StoredAdvert(n, a) ==
  /\ a.node = n /\ a.signer = n /\ a.via = n
  /\ a.received <= now /\ a.expires <= a.received + ADVERT_MAX_FUTURE
  /\ a.key = key[n] \/ a.received <= rotated[n]

TrustType ==
  /\ now \in 0..MaxClock /\ cfg \in Configs /\ boots \in 0..MaxBoots /\ linked \subseteq Remote
  /\ trust \in [Remote -> TrustRow \cup {Nil}]
  /\ \A n \in Remote : trust[n] # Nil => trust[n].first <= now

AdvertInv ==
  /\ adverts \in [Remote -> AdvertRow \cup {Nil}]
  /\ key \in [Remote -> 1..MaxKeys] /\ rotated \in [Remote -> Nat]
  /\ \A n \in Remote : rotated[n] <= now /\ (adverts[n] # Nil => StoredAdvert(n, adverts[n]))
  /\ Cardinality({n \in Remote : adverts[n] # Nil}) <= MAX_PEER_ADVERTS

\* While discovery is not public, only nodes that the configuration vouches for are
\* connected.
Vouched == cfg.mode # "public" => \A n \in linked : Level(n) \in {"verified", "trusted"}

TableInv == TrustType /\ TrustFromConfig /\ Vouched /\ AdvertInv

LEMMA TableFacts ==
  /\ MaxClock \in Nat /\ MaxKeys \in Nat \ {0} /\ MaxBoots \in Nat /\ Ttls \subseteq Nat
  /\ ADVERT_MAX_FUTURE \in Nat \ {0} /\ MAX_SEEN_TRUST_ROWS \in Nat \ {0}
  /\ MAX_PEER_ADVERTS \in Nat \ {0} /\ IsFiniteSet(Remote)
  /\ Nil \notin TrustRow /\ Nil \notin AdvertRow
  /\ \A c \in Configs : /\ DOMAIN c.peers \subseteq Remote
                        /\ c.trusted \subseteq Remote /\ c.blocked \subseteq Remote
                        /\ \A n \in DOMAIN c.peers : c.peers[n] \in {"verified", "trusted"}
BY DiscoveryAssumption DEF TrustRow, AdvertRow

LEMMA MinTwo ==
  ASSUME NEW a \in Nat, NEW b \in Nat
  PROVE  Min({a, b}) \in Nat /\ Min({a, b}) <= a /\ Min({a, b}) <= b
<1>1. \E x \in {a, b} : \A y \in {a, b} : x <= y
  BY SMTT(30)
<1>2. Min({a, b}) \in {a, b} /\ \A y \in {a, b} : Min({a, b}) <= y
  BY <1>1 DEF Min
<1> QED
  BY <1>2

\* What a cap leaves of a set is within the cap.
LEMMA CapLeaves ==
  ASSUME NEW S \in SUBSET Remote, NEW max \in Nat, NEW K \in kSubset(Min({max, Cardinality(S)}), S)
  PROVE  K \subseteq S /\ Cardinality(K) <= max
<1>1. Cardinality(S) \in Nat
  BY TableFacts, FS_Subset, FS_CardinalityType
<1>2. Min({max, Cardinality(S)}) <= max
  BY <1>1, MinTwo
<1> QED
  BY <1>2 DEF kSubset

\* record_seen and prune_seen_trust: at most the row of the node is added, only rows
\* that are merely seen go, and as many as the cap allows are left.
LEMMA RecordSeenFacts ==
  ASSUME TrustType, NEW n \in Remote, NEW t \in RecordSeen(n)
  PROVE  /\ t \in [Remote -> TrustRow \cup {Nil}]
         /\ \A m \in Remote : m # n \/ trust[n] # Nil =>
              \/ t[m] = trust[m]
              \/ t[m] = Nil /\ trust[m] # Nil /\ trust[m].level = "seen"
         /\ trust[n] = Nil => t[n] \in {Nil, [level |-> "seen", first |-> now]}
         /\ Cardinality({m \in Remote : LevelIn(t, m) = "seen"}) <= MAX_SEEN_TRUST_ROWS
<1> DEFINE u == [trust EXCEPT ![n] = IF @ = Nil THEN [level |-> "seen", first |-> now] ELSE @]
           seenRows == {m \in Remote : u[m] # Nil /\ u[m].level = "seen"}
<1>1. PICK K \in kSubset(Min({MAX_SEEN_TRUST_ROWS, Cardinality(seenRows)}), seenRows) :
        t = [m \in Remote |-> IF m \in seenRows \ K THEN Nil ELSE u[m]]
  BY DEF RecordSeen, Newest
<1>2. K \subseteq seenRows /\ Cardinality(K) <= MAX_SEEN_TRUST_ROWS
  BY CapLeaves, TableFacts
<1>3. /\ u \in [Remote -> TrustRow \cup {Nil}]
      /\ \A m \in Remote : m # n \/ trust[n] # Nil => u[m] = trust[m]
      /\ trust[n] = Nil => u[n] = [level |-> "seen", first |-> now]
  <2>1. now \in Nat /\ [level |-> "seen", first |-> now] \in TrustRow
    BY TableFacts, SMTT(30) DEF TrustType, TrustRow, Levels
  <2> QED
    BY <2>1 DEF TrustType
<1> HIDE DEF u
<1>4. {m \in Remote : LevelIn(t, m) = "seen"} = K
  <2>1. ASSUME NEW m \in Remote PROVE LevelIn(t, m) = "seen" <=> m \in K
    BY <1>1, <1>2 DEF LevelIn
  <2> QED
    BY <1>2, <2>1
<1> QED
  BY <1>1, <1>2, <1>3, <1>4

\* seed_federation_trust: the levels a configuration grants and no others, whatever the
\* store held.
LEMMA SeedFacts ==
  ASSUME now \in Nat, NEW t \in [Remote -> TrustRow \cup {Nil}],
         \A n \in Remote : t[n] # Nil => t[n].first <= now, NEW c \in Configs
  PROVE  /\ Seed(t, c) \in [Remote -> TrustRow \cup {Nil}]
         /\ \A n \in Remote : Seed(t, c)[n] # Nil => Seed(t, c)[n].first <= now
         /\ \A n \in Remote :
              /\ LevelIn(Seed(t, c), n) \in {"verified", "trusted"} => n \in Authorized(c) \ c.blocked
              /\ n \in c.blocked => LevelIn(Seed(t, c), n) = "blocked"
              /\ LevelIn(t, n) = "blocked" =>
                   LevelIn(Seed(t, c), n) = "blocked" \/ n \in Authorized(c) \ c.blocked
<1>0. \A n \in DOMAIN c.peers : c.peers[n] \in Levels /\ c.peers[n] \in {"verified", "trusted"}
  BY TableFacts DEF Levels
<1>1. ASSUME NEW n \in Remote, NEW level \in Levels
      PROVE  /\ Written(t, n, level) \in TrustRow /\ Written(t, n, level).first <= now
             /\ Written(t, n, level).level = level
  BY SMTT(30) DEF Written, TrustRow
<1>2. ASSUME NEW n \in Remote
      PROVE  /\ Demoted(t, c, n) \in TrustRow \cup {Nil}
             /\ Demoted(t, c, n) # Nil => Demoted(t, c, n).first <= now
             /\ Demoted(t, c, n) # Nil /\ n \notin Authorized(c) =>
                  Demoted(t, c, n).level \notin {"verified", "trusted"}
             /\ LevelIn(t, n) = "blocked" => Demoted(t, c, n) = t[n]
  <2>1. t[n] = Nil \/ t[n] \in TrustRow
    OBVIOUS
  <2> QED
    BY <2>1, TableFacts DEF Demoted, TrustRow, Levels, LevelIn
<1>3. ASSUME NEW n \in Remote
      PROVE  LET v == Seed(t, c)[n] IN
             /\ n \in c.blocked => v = Written(t, n, "blocked")
             /\ n \in c.trusted \ c.blocked => v = Written(t, n, "trusted")
             /\ n \in DOMAIN c.peers \ (c.trusted \cup c.blocked) => v = Written(t, n, c.peers[n])
             /\ n \notin c.blocked \cup c.trusted \cup DOMAIN c.peers => v = Demoted(t, c, n)
  BY DEF Seed
<1>4. {"blocked", "trusted"} \subseteq Levels
  BY DEF Levels
<1>5. ASSUME NEW n \in Remote
      PROVE  LET v == Seed(t, c)[n] IN
             /\ v \in TrustRow \cup {Nil} /\ (v # Nil => v.first <= now)
             /\ v # Nil /\ v.level \in {"verified", "trusted"} => n \in Authorized(c) \ c.blocked
             /\ n \in c.blocked => v # Nil /\ v.level = "blocked"
             /\ LevelIn(t, n) = "blocked" => v = t[n] \/ n \in Authorized(c) \ c.blocked
                                               \/ (v # Nil /\ v.level = "blocked")
  <2>1. CASE n \in c.blocked
    BY <1>1, <1>3, <1>4, <2>1, TableFacts, SMTT(30)
  <2>2. CASE n \in c.trusted \ c.blocked
    BY <1>1, <1>3, <1>4, <2>2, TableFacts DEF Authorized
  <2>3. CASE n \in DOMAIN c.peers \ (c.trusted \cup c.blocked)
    BY <1>0, <1>1, <1>3, <2>3, TableFacts, SMTT(30) DEF Authorized
  <2>4. CASE n \notin c.blocked \cup c.trusted \cup DOMAIN c.peers
    BY <1>2, <1>3, <2>4 DEF Authorized
  <2> QED
    BY <2>1, <2>2, <2>3, <2>4
<1>6. Seed(t, c) \in [Remote -> TrustRow \cup {Nil}]
  <2>1. Seed(t, c) = [n \in Remote |-> Seed(t, c)[n]]
    BY DEF Seed
  <2> QED
    BY <1>5, <2>1
<1> QED
  BY <1>5, <1>6 DEF LevelIn

\* receive_advert of what a connected node may send: the row it leaves is the node's own
\* with its present key, no other node gets a row, and the cap holds.
LEMMA UpsertFacts ==
  ASSUME TrustType, AdvertInv, NEW n \in Remote, NEW a \in Sendable(n), Bound(a, n),
         a.expires > now, NEW r \in Upsert(a, n)
  PROVE  /\ r \in [Remote -> AdvertRow \cup {Nil}]
         /\ \A m \in Remote : r[m] # Nil => StoredAdvert(m, r[m])
         /\ Cardinality({m \in Remote : r[m] # Nil}) <= MAX_PEER_ADVERTS
         /\ \A m \in Remote : m # n /\ adverts[m] = Nil => r[m] = Nil
<1>0. now \in Nat /\ ADVERT_MAX_FUTURE \in Nat /\ key[n] \in Nat
  BY TableFacts, SMTT(30) DEF TrustType, AdvertInv
<1>1. a.node = n /\ a.signer = n /\ a.key = key[n] /\ a.expires \in Nat
  <2>1. PICK m \in Remote, sg \in Remote, k \in Nat, ttl \in Ttls :
          /\ a = Advert(m, sg, k, ttl) /\ (m = n => k = key[n])
    BY <1>0, SMTT(30) DEF Sendable
  <2>2. m = n /\ sg = n /\ a.node = n /\ a.signer = n /\ a.key = k /\ a.expires = now + ttl
    BY <2>1 DEF Advert, Bound
  <2> QED
    BY <1>0, <2>1, <2>2, TableFacts, SMTT(30)
<1> DEFINE row == [node |-> a.node, signer |-> a.signer, key |-> a.key,
                   expires |-> Clamp(a.expires), received |-> now, via |-> n]
           rows == IF adverts[a.node] # Nil /\ adverts[a.node].expires >= row.expires
                   THEN adverts ELSE [adverts EXCEPT ![a.node] = row]
           held == {m \in Remote : rows[m] # Nil}
<1>2. Clamp(a.expires) \in Nat /\ Clamp(a.expires) <= now + ADVERT_MAX_FUTURE
  BY <1>0, <1>1, MinTwo, SMTT(30) DEF Clamp
<1>3. row \in AdvertRow /\ StoredAdvert(n, row)
  BY <1>0, <1>1, <1>2, SMTT(30) DEF AdvertRow, StoredAdvert
<1>4. PICK K \in kSubset(Min({MAX_PEER_ADVERTS, Cardinality(held)}), held) :
        r = [m \in Remote |-> IF m \in held \ K THEN Nil ELSE rows[m]]
  BY DEF Upsert, Newest
<1>5. K \subseteq held /\ Cardinality(K) <= MAX_PEER_ADVERTS
  BY CapLeaves, TableFacts
<1> HIDE DEF row
<1>6. /\ rows \in [Remote -> AdvertRow \cup {Nil}]
      /\ \A m \in Remote : rows[m] = adverts[m] \/ (m = n /\ rows[m] = row)
  BY <1>1, <1>3 DEF AdvertInv
<1>7. \A m \in Remote : rows[m] # Nil => StoredAdvert(m, rows[m])
  BY <1>3, <1>6 DEF AdvertInv
<1> HIDE DEF rows
<1>8. {m \in Remote : r[m] # Nil} = K
  BY <1>4, <1>5
<1>9. \A m \in Remote : r[m] = Nil \/ r[m] = rows[m]
  BY <1>4
<1>10. r \in [Remote -> AdvertRow \cup {Nil}]
  BY <1>4, <1>6
<1> QED
  BY <1>5, <1>6, <1>7, <1>8, <1>9, <1>10

\* One configuration to the next, and one handshake: the trust store.
LEMMA TrustStep ==
  ASSUME TableInv, [TablesNext]_tableVars
  PROVE  TrustType' /\ TrustFromConfig' /\ Vouched'
<1> USE DEF TableInv
<1>0. now \in Nat /\ MaxClock \in Nat /\ MaxBoots \in Nat
  BY TableFacts, SMTT(30) DEF TrustType
<1>1. ASSUME NEW c \in Configs, Boot(c) PROVE TrustType' /\ TrustFromConfig' /\ Vouched'
  <2>1. /\ trust' = Seed(trust, c) /\ cfg' = c /\ linked' = {} /\ now' = now /\ boots' \in 0..MaxBoots
    BY <1>0, <1>1, SMTT(30) DEF Boot, TrustType
  <2> QED
    BY <1>0, <2>1, SeedFacts DEF TrustType, TrustFromConfig, Vouched, Level
<1>2. ASSUME NEW n \in Remote, Connect(n) PROVE TrustType' /\ TrustFromConfig' /\ Vouched'
  <2>1. /\ trust' \in RecordSeen(n) /\ Admitted(n) /\ linked' = linked \cup {n}
        /\ UNCHANGED <<now, cfg, boots>>
    BY <1>2 DEF Connect
  <2>2. /\ trust' \in [Remote -> TrustRow \cup {Nil}]
        /\ \A m \in Remote : m # n \/ trust[n] # Nil =>
             \/ trust'[m] = trust[m]
             \/ trust'[m] = Nil /\ trust[m] # Nil /\ trust[m].level = "seen"
        /\ trust[n] = Nil => trust'[n] \in {Nil, [level |-> "seen", first |-> now]}
    BY <2>1, RecordSeenFacts
  <2>3. \A m \in Remote : \/ LevelIn(trust', m) = Level(m)
                          \/ /\ Level(m) \in {"unknown", "seen"}
                             /\ LevelIn(trust', m) \in {"unknown", "seen"}
    BY <2>2, SMTT(30) DEF LevelIn, Level
  <2>4. TrustType'
    BY <1>0, <2>1, <2>2, SMTT(30) DEF TrustType
  <2>5. TrustFromConfig'
    BY <2>1, <2>3 DEF TrustFromConfig, Level
  <2>6. cfg.mode # "public" => Level(n) \in {"verified", "trusted"}
    BY <2>1, SMTT(30) DEF Admitted, Rank
  <2>7. Vouched'
    BY <2>1, <2>3, <2>6 DEF Vouched, Level, TrustType
  <2> QED
    BY <2>4, <2>5, <2>7
<1>3. CASE UNCHANGED <<cfg, trust, boots>> /\ linked' \subseteq linked /\ now' \in {now, now + 1} /\ now' <= MaxClock
  <2>1. TrustType'
    BY <1>0, <1>3, SMTT(30) DEF TrustType, TrustRow
  <2> QED
    BY <1>3, <2>1 DEF TrustFromConfig, Vouched, Level, LevelIn
<1>4. ASSUME NEW n \in Remote, Disconnect(n) \/ Rotate(n) \/ \E a \in Sendable(n) : ReceiveAdvert(n, a)
      PROVE  TrustType' /\ TrustFromConfig' /\ Vouched'
  BY <1>0, <1>3, <1>4, SMTT(30) DEF Disconnect, Rotate, ReceiveAdvert, TrustType
<1>5. CASE PurgeExpiredAdverts \/ TablesTick \/ UNCHANGED tableVars
  BY <1>0, <1>3, <1>5, SMTT(30) DEF PurgeExpiredAdverts, TablesTick, tableVars, TrustType
<1> QED
  BY <1>1, <1>2, <1>4, <1>5 DEF TablesNext

LEMMA AdvertStep ==
  ASSUME TableInv, [TablesNext]_tableVars
  PROVE  AdvertInv'
<1> USE DEF TableInv
<1>0. now \in Nat
  BY TableFacts, SMTT(30) DEF TrustType
<1>1. CASE UNCHANGED <<adverts, others>> /\ now' \in {now, now + 1}
  <2>1. ASSUME NEW n \in Remote
        PROVE  rotated'[n] <= now' /\ (adverts'[n] # Nil => StoredAdvert(n, adverts[n])')
    <3>1. rotated[n] \in Nat /\ rotated[n] <= now /\ (adverts[n] # Nil => StoredAdvert(n, adverts[n]))
      BY DEF AdvertInv
    <3>2. adverts[n] # Nil => adverts[n].received \in Nat
      BY DEF AdvertInv, AdvertRow
    <3> QED
      BY <1>0, <1>1, <3>1, <3>2, SMTT(30) DEF StoredAdvert, others
  <2> QED
    BY <1>1, <2>1 DEF AdvertInv, others
<1>2. ASSUME NEW n \in Remote, NEW a \in Sendable(n), ReceiveAdvert(n, a) PROVE AdvertInv'
  <2>1. CASE UNCHANGED adverts
    BY <1>1, <1>2, <2>1 DEF ReceiveAdvert
  <2>2. CASE Bound(a, n) /\ a.expires > now /\ adverts' \in Upsert(a, n)
    <3>1. /\ adverts' \in [Remote -> AdvertRow \cup {Nil}]
          /\ \A m \in Remote : adverts'[m] # Nil => StoredAdvert(m, adverts'[m])
          /\ Cardinality({m \in Remote : adverts'[m] # Nil}) <= MAX_PEER_ADVERTS
      BY <2>2, UpsertFacts
    <3>2. UNCHANGED <<now, key, rotated>>
      BY <1>2 DEF ReceiveAdvert, others
    <3> QED
      BY <3>1, <3>2 DEF AdvertInv, StoredAdvert
  <2> QED
    BY <1>2, <2>1, <2>2 DEF ReceiveAdvert
<1>3. CASE PurgeExpiredAdverts
  <2>1. /\ adverts' \in [Remote -> AdvertRow \cup {Nil}]
        /\ \A m \in Remote : adverts'[m] = Nil \/ adverts'[m] = adverts[m]
        /\ UNCHANGED <<now, key, rotated>>
    BY <1>3 DEF PurgeExpiredAdverts, AdvertInv, others
  <2> DEFINE held == {m \in Remote : adverts[m] # Nil}
             left == {m \in Remote : adverts'[m] # Nil}
  <2>2. IsFiniteSet(held) /\ Cardinality(held) \in Nat /\ left \subseteq held
    BY <2>1, TableFacts, FS_Subset, FS_CardinalityType
  <2>3. IsFiniteSet(left) /\ Cardinality(left) <= Cardinality(held)
    BY <2>2, FS_Subset
  <2>4. Cardinality(left) \in Nat
    BY <2>3, FS_CardinalityType
  <2>5. Cardinality(left) <= MAX_PEER_ADVERTS
    BY <2>2, <2>3, <2>4, TableFacts, SMTT(30) DEF AdvertInv
  <2> QED
    BY <2>1, <2>5 DEF AdvertInv, StoredAdvert
<1>4. ASSUME NEW n \in Remote, Rotate(n) PROVE AdvertInv'
  <2>1. /\ key' = [key EXCEPT ![n] = @ + 1] /\ rotated' = [rotated EXCEPT ![n] = now]
        /\ UNCHANGED <<now, adverts>> /\ key[n] < MaxKeys
    BY <1>4 DEF Rotate
  <2>2. key' \in [Remote -> 1..MaxKeys] /\ rotated' \in [Remote -> Nat]
    <3>1. key[n] + 1 \in 1..MaxKeys
      BY <2>1, TableFacts, SMTT(30) DEF AdvertInv
    <3> QED
      BY <1>0, <2>1, <3>1 DEF AdvertInv
  <2>3. ASSUME NEW m \in Remote
        PROVE  rotated'[m] <= now' /\ (adverts'[m] # Nil => StoredAdvert(m, adverts[m])')
    <3>1. rotated[m] <= now /\ (adverts[m] # Nil => StoredAdvert(m, adverts[m]))
      BY DEF AdvertInv
    <3>2. /\ m # n => rotated'[m] = rotated[m] /\ key'[m] = key[m]
          /\ m = n => rotated'[m] = now
      BY <2>1 DEF AdvertInv
    <3> QED
      BY <1>0, <2>1, <3>1, <3>2, SMTT(30) DEF StoredAdvert
  <2> QED
    BY <2>1, <2>2, <2>3 DEF AdvertInv
<1>5. ASSUME \/ \E c \in Configs : Boot(c)
             \/ \E n \in Remote : Connect(n) \/ Disconnect(n)
             \/ TablesTick \/ UNCHANGED tableVars
      PROVE  AdvertInv'
  BY <1>0, <1>1, <1>5 DEF Boot, Connect, Disconnect, TablesTick, tableVars, others
<1> QED
  BY <1>2, <1>3, <1>4, <1>5 DEF TablesNext

LEMMA TableInvInit == TablesInit => TableInv
<1> SUFFICES ASSUME TablesInit PROVE TableInv
  OBVIOUS
<1>1. /\ now = 0 /\ cfg \in Configs /\ linked = {} /\ boots = 0
      /\ trust = Seed([n \in Remote |-> Nil], cfg)
  BY DEF TablesInit
<1>2. TrustType /\ TrustFromConfig /\ Vouched
  BY <1>1, SeedFacts, TableFacts, SMTT(30) DEF TrustType, TrustFromConfig, Vouched, Level
<1>3. AdvertInv
  <2>1. {n \in Remote : adverts[n] # Nil} = {}
    BY DEF TablesInit
  <2>2. key \in [Remote -> 1..MaxKeys] /\ rotated \in [Remote -> Nat] /\ \A n \in Remote : rotated[n] <= now
    BY TableFacts, SMTT(30) DEF TablesInit
  <2> QED
    BY <2>1, <2>2, FS_EmptySet, TableFacts, SMTT(30) DEF AdvertInv, TablesInit
<1> QED
  BY <1>2, <1>3 DEF TableInv

LEMMA TableInvStep == TableInv /\ [TablesNext]_tableVars => TableInv'
BY TrustStep, AdvertStep DEF TableInv

\* For any nodes, configurations, clocks, caps and adverts: a node is verified or trusted
\* only as the configuration of this boot says (seed_federation_trust, record_seen), a
\* stored advert is the node's own (receive_advert), the table keeps its cap, and the
\* key a message is sealed with is stale for less than ADVERT_MAX_FUTURE.
THEOREM TablesAreSound == TablesSpec => []TablesSound
<1>1. TableInv => TablesSound
  <2> SUFFICES ASSUME TableInv PROVE TablesSound
    OBVIOUS
  <2>0. now \in Nat /\ ADVERT_MAX_FUTURE \in Nat
    BY TableFacts, SMTT(30) DEF TableInv, TrustType
  <2>1. ASSUME NEW n \in Remote, trust[n] # Nil PROVE trust[n].level \in Levels /\ trust[n].first \in 0..now
    BY <2>0, <2>1, SMTT(30) DEF TableInv, TrustType, TrustRow
  <2>2. ASSUME NEW n \in Remote, adverts[n] # Nil
        PROVE  adverts[n] \in AdvertRow /\ StoredAdvert(n, adverts[n]) /\ adverts[n].received \in 0..now
    <3>1. adverts[n] \in AdvertRow /\ StoredAdvert(n, adverts[n])
      BY <2>2 DEF TableInv, AdvertInv
    <3> QED
      BY <2>0, <3>1, SMTT(30) DEF AdvertRow, StoredAdvert
  <2>3. TablesTypeOK
    BY <2>1, <2>2 DEF TablesTypeOK, TableInv, TrustType, AdvertInv
  <2>4. AdvertsFirstHand
    BY <2>2 DEF AdvertsFirstHand, StoredAdvert
  <2>5. KeyNotStale
    <3>1. ASSUME NEW n \in Remote, SealedKey(n) # Nil, SealedKey(n) # key[n]
          PROVE  now - rotated[n] < ADVERT_MAX_FUTURE
      <4>1. adverts[n] # Nil /\ adverts[n].expires > now /\ adverts[n].key # key[n]
        BY <3>1 DEF SealedKey, Listed
      <4>2. /\ adverts[n].expires \in Nat /\ adverts[n].received \in Nat /\ rotated[n] \in Nat
            /\ adverts[n].expires <= adverts[n].received + ADVERT_MAX_FUTURE
            /\ adverts[n].received <= rotated[n]
        BY <2>2, <4>1 DEF AdvertRow, StoredAdvert, TableInv, AdvertInv
      <4> QED
        BY <2>0, <4>1, <4>2, SMTT(30)
    <3> QED
      BY <3>1 DEF KeyNotStale
  <2> QED
    BY <2>3, <2>4, <2>5 DEF TablesSound, TableInv
<1> QED
  BY <1>1, TableInvInit, TableInvStep, PTL DEF TablesSpec

\* What strangers can do to the tables, in any step: blocked nodes stay blocked, nobody
\* whom no configuration vouches for gets a row while discovery is not public (the
\* refusals of admit_and_run and of receive_advert come before any write), and a
\* handshake leaves no more seen rows than their cap (prune_seen_trust).
THEOREM StrangersAreBounded == TablesSpec => StrangersBounded
<1>1. TableInv /\ [TablesNext]_tableVars => [BlockedSticks /\ NothingPersisted /\ SeenCapped]_tableVars
  <2> SUFFICES ASSUME TableInv, TablesNext PROVE BlockedSticks /\ NothingPersisted /\ SeenCapped
    OBVIOUS
  <2>0. now \in Nat
    BY TableFacts, SMTT(30) DEF TableInv, TrustType
  <2>1. ASSUME NEW c \in Configs, Boot(c) PROVE BlockedSticks /\ NothingPersisted /\ SeenCapped
    <3>1. trust' = Seed(trust, c) /\ cfg' = c /\ linked' = {} /\ boots' = boots + 1 /\ boots \in Nat
      BY <2>1, TableFacts, SMTT(30) DEF Boot, TableInv, TrustType
    <3>2. BlockedSticks
      BY <2>0, <3>1, SeedFacts DEF TableInv, TrustType, BlockedSticks, Level
    <3>3. NothingPersisted /\ SeenCapped
      BY <3>1, SMTT(30) DEF NothingPersisted, SeenCapped
    <3> QED
      BY <3>2, <3>3
  <2>2. ASSUME NEW n \in Remote, Connect(n) PROVE BlockedSticks /\ NothingPersisted /\ SeenCapped
    <3>1. trust' \in RecordSeen(n) /\ Admitted(n) /\ UNCHANGED adverts
      BY <2>2 DEF Connect
    <3>2. /\ \A m \in Remote : m # n \/ trust[n] # Nil =>
               \/ trust'[m] = trust[m]
               \/ trust'[m] = Nil /\ trust[m] # Nil /\ trust[m].level = "seen"
          /\ trust[n] = Nil => trust'[n] \in {Nil, [level |-> "seen", first |-> now]}
          /\ Cardinality({m \in Remote : LevelIn(trust', m) = "seen"}) <= MAX_SEEN_TRUST_ROWS
      BY <3>1, RecordSeenFacts DEF TableInv
    <3>3. BlockedSticks
      BY <3>2 DEF BlockedSticks, Level, LevelIn
    <3>4. cfg.mode # "public" => trust[n] # Nil
      BY <3>1, SMTT(30) DEF Admitted, Rank, Level, LevelIn
    <3>5. NothingPersisted
      BY <3>1, <3>2, <3>4 DEF NothingPersisted
    <3> QED
      BY <3>2, <3>3, <3>5 DEF SeenCapped
  <2>3. ASSUME NEW n \in Remote, NEW a \in Sendable(n), ReceiveAdvert(n, a)
        PROVE  BlockedSticks /\ NothingPersisted /\ SeenCapped
    <3>1. n \in linked /\ UNCHANGED <<cfg, trust, linked>>
      BY <2>3 DEF ReceiveAdvert
    <3>2. cfg.mode # "public" => Rank(Level(n)) >= Rank("verified")
      BY <3>1, SMTT(30) DEF TableInv, Vouched, Rank
    <3>3. \A m \in Remote : m # n /\ adverts[m] = Nil => adverts'[m] = Nil
      BY <2>3, UpsertFacts DEF ReceiveAdvert, TableInv
    <3>4. \A m \in Remote : Rank(Level(m)) \in Nat
      BY DEF Rank
    <3>5. NothingPersisted
      BY <3>1, <3>2, <3>3, <3>4, SMTT(30) DEF NothingPersisted, Rank
    <3> QED
      BY <3>1, <3>5 DEF BlockedSticks, SeenCapped, Level, LevelIn
  <2>4. ASSUME NEW n \in Remote, Disconnect(n) \/ Rotate(n)
        PROVE  BlockedSticks /\ NothingPersisted /\ SeenCapped
    BY <2>4 DEF Disconnect, Rotate, BlockedSticks, NothingPersisted, SeenCapped, Level, LevelIn
  <2>5. CASE PurgeExpiredAdverts \/ TablesTick
    BY <2>5 DEF PurgeExpiredAdverts, TablesTick, BlockedSticks, NothingPersisted, SeenCapped, Level, LevelIn
  <2> QED
    BY <2>1, <2>2, <2>3, <2>4, <2>5 DEF TablesNext
<1> QED
  BY <1>1, TableInvInit, TableInvStep, PTL DEF TablesSpec, StrangersBounded
=============================================================================
