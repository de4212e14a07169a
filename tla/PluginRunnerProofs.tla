------------------------- MODULE PluginRunnerProofs -------------------------
(***************************************************************************)
(* An SDK plugin, for any number of deliveries, any capacities of the      *)
(* send queue and of the two directions of the socket, and any number of   *)
(* messages of the backend.                                                *)
(***************************************************************************)
EXTENDS PluginRunner, TLAPS

\* The prover of a step that names none, and its seconds.
USE ZenonT(60)

Jobs == Job \cup {None}
Kind == {"pong", "result", "inbound"}

RunnerType ==
  /\ inbox \in Seq({"send", "ping", "shutdown"} \X Jobs)
  /\ \A i \in 1..Len(inbox) : inbox[i][1] = "send" => inbox[i][2] \in Job
  /\ reader \in [at : {"read", "pong", "refuse", "close", "join", "gone"}, job : Jobs]
  /\ reader.at = "refuse" => reader.job \in Job
  /\ sendq \in Seq(Job \cup {Stop}) /\ pending \subseteq Job
  /\ worker \in [at : {"get", "publish", "result", "release", "gone"}, job : Jobs]
  /\ worker.at \in Busy => worker.job \in Job
  /\ holder \in {None, "reader", "worker", "backend"}
  /\ wire \in Seq(Kind \X Jobs \X {"prefix", "body"})
  /\ waiting \subseteq Job

\* The sentinel is the last in the queue, and nothing follows it: by then the read loop
\* reads no more.
Ending ==
  /\ \A i \in 1..Len(sendq) : sendq[i] = Stop => i = Len(sendq) /\ reader.at \in {"join", "gone"}
  /\ worker.at = "gone" => sendq = <<>> /\ reader.at \in {"join", "gone"}

\* A wire of whole frames, but for the body of the last.
Whole(w) ==
  \A i \in 1..Len(w) :
    /\ w[i][3] = (IF i % 2 = 1 THEN "prefix" ELSE "body")
    /\ i % 2 = 0 => w[i][1] = w[i - 1][1] /\ w[i][2] = w[i - 1][2]

\* The lock is held exactly while a frame is half written, and what is on the wire of it
\* is what its writer still stands at.
Locked ==
  /\ Whole(wire)
  /\ holder # None <=> Len(wire) % 2 = 1
  /\ holder = "reader" =>
       /\ reader.at \in {"pong", "refuse"}
       /\ wire[Len(wire)] = <<IF reader.at = "pong" THEN "pong" ELSE "result", reader.job, "prefix">>
  /\ holder = "worker" => worker.at = "result" /\ wire[Len(wire)] = <<"result", worker.job, "prefix">>
  /\ holder = "backend" => wire[Len(wire)] = <<"inbound", None, "prefix">>

Has(s, x) == \E i \in 1..Len(s) : s[i] = x
ResultOf(w, j) == \E i \in 1..Len(w) : w[i][1] = "result" /\ w[i][2] = j

\* Where the answer to a delivery that is waited for is.
Answered(j) ==
  \/ Has(inbox, <<"send", j>>) \/ Has(sendq, j)
  \/ worker.at \in {"publish", "result"} /\ worker.job = j
  \/ reader.at = "refuse" /\ reader.job = j
  \/ ResultOf(wire, j)

\* Every delivery that is waited for is answered; the worker that is about to forget one
\* that the daemon waits for has its result on the wire.
Answers ==
  reader.at # "gone" =>
    /\ \A j \in waiting : Answered(j)
    /\ worker.at = "release" /\ worker.job \in waiting => ResultOf(wire, worker.job)

RunnerInv == RunnerType /\ Ending /\ DedupExact /\ Locked /\ Answers

LEMMA Bounds ==
  /\ SEND_QUEUE_MAX \in Nat \ {0} /\ InboxCap \in Nat \ {0} /\ WireCap \in Nat \ {0}
  /\ "none" \notin Job /\ "stop" \notin Job
BY RunnerAssumption DEF None, Stop

(* ------------------------------ the wire ------------------------------ *)

LEMMA Parity ==
  ASSUME NEW n \in Nat
  PROVE  /\ n % 2 \in {0, 1}
         /\ n % 2 = 0 => (n + 1) % 2 = 1
         /\ n % 2 = 1 => (n + 1) % 2 = 0
         /\ (n + 2) % 2 = n % 2
BY SMTT(30)

LEMMA OddNotEven == 0 # 1
BY SMTT(30)

\* A prefix after whole frames.
LEMMA PrefixWhole ==
  ASSUME NEW S, NEW w \in Seq(S), Whole(w), Len(w) % 2 = 0, NEW k, NEW j,
         <<k, j, "prefix">> \in S, NEW v, v = Append(w, <<k, j, "prefix">>)
  PROVE  Whole(v) /\ Len(v) % 2 = 1
<1>1. Len(w) \in Nat /\ Len(v) = Len(w) + 1 /\ (Len(w) + 1) % 2 = 1
  BY Parity, SMTT(30)
<1>2. v[Len(w) + 1] = <<k, j, "prefix">> /\ \A i \in 1..Len(w) : v[i] = w[i]
  BY SMTT(30)
<1>3. ASSUME NEW i \in 1..Len(v)
      PROVE  /\ v[i][3] = (IF i % 2 = 1 THEN "prefix" ELSE "body")
             /\ i % 2 = 0 => v[i][1] = v[i - 1][1] /\ v[i][2] = v[i - 1][2]
  <2>1. CASE i = Len(w) + 1
    BY <1>1, <1>2, <2>1, SMTT(30)
  <2>2. CASE i # Len(w) + 1
    <3>1. i \in 1..Len(w) /\ v[i] = w[i]
      <4>1. \A n \in Nat : \A m \in 1..(n + 1) : m # n + 1 => m \in 1..n
        BY SMTT(30)
      <4>. QED
        BY <1>1, <1>2, <2>2, <4>1
    <3>2. CASE i % 2 = 0
      <4>1. i # 1
        BY <3>2, SMTT(30)
      <4>2. i - 1 \in 1..Len(w) /\ v[i - 1] = w[i - 1]
        BY <1>1, <1>2, <3>1, <4>1, SMTT(30)
      <4>. QED
        BY <3>1, <3>2, <4>2 DEF Whole
    <3>3. CASE i % 2 # 0
      BY <3>1, <3>3 DEF Whole
    <3>. QED
      BY <3>2, <3>3
  <2>. QED
    BY <2>1, <2>2
<1>4. Whole(v)
  BY <1>3 DEF Whole
<1>. QED
  BY <1>1, <1>4

\* The body that belongs to the last prefix.
LEMMA BodyWhole ==
  ASSUME NEW S, NEW w \in Seq(S), Whole(w), Len(w) % 2 = 1, NEW k, NEW j,
         <<k, j, "body">> \in S, w[Len(w)] = <<k, j, "prefix">>, NEW v, v = Append(w, <<k, j, "body">>)
  PROVE  Whole(v) /\ Len(v) % 2 = 0
<1>1. Len(w) \in Nat /\ Len(v) = Len(w) + 1 /\ (Len(w) + 1) % 2 = 0 /\ Len(w) # 0
  BY Parity, SMTT(30)
<1>2. v[Len(w) + 1] = <<k, j, "body">> /\ \A i \in 1..Len(w) : v[i] = w[i]
  BY SMTT(30)
<1>3. ASSUME NEW i \in 1..Len(v)
      PROVE  /\ v[i][3] = (IF i % 2 = 1 THEN "prefix" ELSE "body")
             /\ i % 2 = 0 => v[i][1] = v[i - 1][1] /\ v[i][2] = v[i - 1][2]
  <2>1. CASE i = Len(w) + 1
    <3>1. i - 1 = Len(w) /\ v[i - 1] = <<k, j, "prefix">> /\ i % 2 = 0
      BY <1>1, <1>2, <2>1, SMTT(30)
    <3>2. v[i] = <<k, j, "body">>
      BY <1>2, <2>1
    <3>3. i % 2 # 1
      BY <3>1, SMTT(30)
    <3>4. \A x, y : x = <<k, j, "body">> /\ y = <<k, j, "prefix">> =>
            x[3] = "body" /\ x[1] = y[1] /\ x[2] = y[2]
      BY SMTT(30)
    <3>. QED
      BY <3>1, <3>2, <3>3, <3>4
  <2>2. CASE i # Len(w) + 1
    <3>1. i \in 1..Len(w) /\ v[i] = w[i]
      <4>1. \A n \in Nat : \A m \in 1..(n + 1) : m # n + 1 => m \in 1..n
        BY SMTT(30)
      <4>. QED
        BY <1>1, <1>2, <2>2, <4>1
    <3>2. CASE i % 2 = 0
      <4>1. i # 1
        BY <3>2, SMTT(30)
      <4>2. i - 1 \in 1..Len(w) /\ v[i - 1] = w[i - 1]
        BY <1>1, <1>2, <3>1, <4>1, SMTT(30)
      <4>. QED
        BY <3>1, <3>2, <4>2 DEF Whole
    <3>3. CASE i % 2 # 0
      BY <3>1, <3>3 DEF Whole
    <3>. QED
      BY <3>2, <3>3
  <2>. QED
    BY <2>1, <2>2
<1>4. Whole(v)
  BY <1>3 DEF Whole
<1>. QED
  BY <1>1, <1>2, <1>4

\* What is left when one frame has been read.
LEMMA RestWhole ==
  ASSUME NEW S, NEW w \in Seq(S), Len(w) > 1
  PROVE  LET v == Tail(Tail(w)) IN
         /\ v \in Seq(S) /\ Len(v) = Len(w) - 2
         /\ \A i \in 1..Len(v) : v[i] = w[i + 2]
         /\ Whole(w) => Whole(v) /\ Len(v) % 2 = Len(w) % 2
<1>. DEFINE v == Tail(Tail(w))
<1>. DEFINE u == Tail(w)
<1>1. v \in Seq(S) /\ Len(v) = Len(w) - 2 /\ \A i \in 1..Len(v) : v[i] = w[i + 2]
  <2>1. u \in Seq(S) /\ Len(u) = Len(w) - 1 /\ \A i \in 1..Len(u) : u[i] = w[i + 1]
    BY SMTT(30)
  <2>2. v = Tail(u)
    OBVIOUS
  <2>. HIDE DEF u, v
  <2>3. v \in Seq(S) /\ Len(v) = Len(u) - 1 /\ \A i \in 1..Len(v) : v[i] = u[i + 1]
    BY <2>1, <2>2, SMTT(30)
  <2>. QED
    BY <2>1, <2>3, SMTT(30)
<1>2. Len(v) % 2 = Len(w) % 2
  <2>. HIDE DEF v
  <2>1. Len(v) \in Nat /\ Len(w) = Len(v) + 2
    BY <1>1, SMTT(30)
  <2>. QED
    BY <2>1, Parity
<1>3. Whole(w) => Whole(v)
  <2>. HIDE DEF v
  <2>. SUFFICES ASSUME Whole(w), NEW i \in 1..Len(v)
                PROVE  /\ v[i][3] = (IF i % 2 = 1 THEN "prefix" ELSE "body")
                       /\ i % 2 = 0 => v[i][1] = v[i - 1][1] /\ v[i][2] = v[i - 1][2]
    BY DEF Whole
  <2>1. i \in Nat /\ i + 2 \in 1..Len(w) /\ v[i] = w[i + 2] /\ (i + 2) % 2 = i % 2
    BY <1>1, Parity, SMTT(30)
  <2>2. CASE i % 2 = 0
    <3>1. i # 1
      BY <2>2, SMTT(30)
    <3>2. i - 1 \in 1..Len(v) /\ v[i - 1] = w[(i - 1) + 2] /\ (i - 1) + 2 = (i + 2) - 1
      BY <1>1, <2>1, <3>1, SMTT(30)
    <3>. QED
      BY <2>1, <2>2, <3>2 DEF Whole
  <2>3. CASE i % 2 # 0
    BY <2>1, <2>3 DEF Whole
  <2>. QED
    BY <2>2, <2>3
<1>. HIDE DEF v
<1>. QED
  BY <1>1, <1>2, <1>3 DEF v

(* ------------------------------ the steps ----------------------------- *)

\* One thread, or the daemon, takes a step.
LEMMA RunnerActions ==
  ASSUME RunnerNext
  PROVE  \/ reader.at # "gone" /\ (ReadFrame \/ ReaderWrites \/ Close \/ Join)
         \/ reader.at # "gone" /\ (Take \/ WorkerWrites \/ Release)
         \/ DaemonReads \/ Restarted
         \/ reader.at # "gone" /\ (Lost \/ Publish \/ EventBegins \/ EventEnds \/ Ping \/ Shutdown)
         \/ reader.at # "gone" /\ \E j \in Job : Dispatch(j)
BY DEF RunnerNext, ReaderStep, WorkerStep, Alive

\* The read loop gets a ping, a send or a shutdown.
LEMMA Reads ==
  ASSUME RunnerType, ReadFrame
  PROVE  /\ reader.at = "read" /\ inbox # <<>> /\ inbox' = Tail(inbox)
         /\ UNCHANGED <<worker, holder, wire, events, waiting, pinged>>
         /\ \/ /\ inbox[1][1] # "send" /\ UNCHANGED <<sendq, pending>>
               /\ reader' = At("pong", None) \/ reader' = At("close", None)
            \/ \E j \in Job : inbox[1] = <<"send", j>> /\ Offer(j)
<1>1. 1 \in 1..Len(inbox) /\ inbox[1] = Head(inbox)
  BY SMTT(30) DEF RunnerType, ReadFrame
<1>2. /\ inbox[1] \in {"send", "ping", "shutdown"} \X Jobs
      /\ inbox[1][1] = "send" => inbox[1][2] \in Job
  BY <1>1, SMTT(30) DEF RunnerType
<1>3. inbox[1] = <<inbox[1][1], inbox[1][2]>> /\ inbox[1][1] \in {"send", "ping", "shutdown"}
  BY <1>2, SMTT(30)
<1>4. CASE inbox[1][1] = "send"
  BY <1>1, <1>2, <1>3, <1>4 DEF ReadFrame
<1>5. CASE inbox[1][1] = "ping"
  BY <1>1, <1>5 DEF ReadFrame, OnPing
<1>6. CASE inbox[1][1] = "shutdown"
  BY <1>1, <1>6 DEF ReadFrame
<1>. QED
  BY <1>3, <1>4, <1>5, <1>6

\* Where a thread stands.
LEMMA AtFacts ==
  ASSUME NEW place, NEW job
  PROVE  At(place, job).at = place /\ At(place, job).job = job
BY DEF At

LEMMA InboxStep ==
  ASSUME RunnerType, RunnerNext
  PROVE  /\ inbox' \in Seq({"send", "ping", "shutdown"} \X Jobs)
         /\ \A i \in 1..Len(inbox') : inbox'[i][1] = "send" => inbox'[i][2] \in Job
<1>. DEFINE F == {"send", "ping", "shutdown"} \X Jobs
<1>0. inbox \in Seq(F) /\ \A i \in 1..Len(inbox) : inbox[i][1] = "send" => inbox[i][2] \in Job
  BY DEF RunnerType
<1>1. CASE UNCHANGED inbox
  BY <1>0, <1>1
<1>2. CASE inbox' = <<>>
  BY <1>2, SMTT(30)
<1>3. CASE inbox # <<>> /\ inbox' = Tail(inbox)
  <2>. HIDE DEF F
  <2>1. inbox' \in Seq(F) /\ Len(inbox') = Len(inbox) - 1
        /\ \A i \in 1..Len(inbox') : inbox'[i] = inbox[i + 1]
    BY <1>0, <1>3, SMTT(30)
  <2>. QED
    BY <1>0, <2>1, SMTT(30) DEF F
<1>4. ASSUME NEW f \in F, f[1] = "send" => f[2] \in Job, inbox' = Append(inbox, f)
      PROVE  /\ inbox' \in Seq(F)
             /\ \A i \in 1..Len(inbox') : inbox'[i][1] = "send" => inbox'[i][2] \in Job
  <2>. HIDE DEF F
  <2>1. inbox' \in Seq(F) /\ Len(inbox') = Len(inbox) + 1 /\ inbox'[Len(inbox) + 1] = f
        /\ \A i \in 1..Len(inbox) : inbox'[i] = inbox[i]
    BY <1>0, <1>4, SMTT(30)
  <2>. QED
    BY <1>0, <1>4, <2>1, SMTT(30)
<1>5. CASE \E j \in Job : Dispatch(j)
  <2>. PICK j \in Job : Dispatch(j)
    BY <1>5
  <2>1. inbox' = Append(inbox, <<"send", j>>) /\ <<"send", j>> \in F
    BY DEF Dispatch, Deliver, Jobs
  <2>. QED
    BY <1>4, <2>1
<1>6. CASE Ping \/ Shutdown
  <2>1. /\ inbox' = Append(inbox, <<"ping", None>>) \/ inbox' = Append(inbox, <<"shutdown", None>>)
        /\ <<"ping", None>> \in F /\ <<"shutdown", None>> \in F
    BY <1>6 DEF Ping, Shutdown, Deliver, Jobs
  <2>. QED
    BY <1>4, <2>1
<1>7. CASE ReadFrame
  BY <1>3, <1>7, Reads
<1>. QED
  BY RunnerActions, <1>1, <1>2, <1>5, <1>6, <1>7
  DEF ReaderWrites, Close, Join, Take, WorkerWrites, Release, DaemonReads, Restarted, Lost, Publish,
      EventBegins, EventEnds

LEMMA ThreadStep ==
  ASSUME RunnerType, Ending, RunnerNext
  PROVE  /\ reader' \in [at : {"read", "pong", "refuse", "close", "join", "gone"}, job : Jobs]
         /\ reader'.at = "refuse" => reader'.job \in Job
         /\ worker' \in [at : {"get", "publish", "result", "release", "gone"}, job : Jobs]
         /\ worker'.at \in Busy => worker'.job \in Job
<1>. USE DEF RunnerType, Jobs, At, Busy
<1>1. CASE UNCHANGED <<reader, worker>>
  BY <1>1
<1>2. CASE UNCHANGED worker /\ reader' \in {At("pong", None), At("close", None), At("read", None),
                                            At("join", None), At("gone", None)}
  BY <1>2, SMTT(30)
<1>3. CASE ReadFrame
  <2>1. CASE \E j \in Job : Offer(j)
    BY <1>1, <1>3, <2>1, Reads, SMTT(30) DEF Offer
  <2>. QED
    BY <1>2, <1>3, <2>1, Reads
<1>4. CASE Take
  <2>1. UNCHANGED reader /\ Head(sendq) \in Job \cup {Stop}
    BY <1>4, SMTT(30) DEF Take
  <2>2. worker' = At("gone", None) \/ (Head(sendq) # Stop /\ worker' = At("publish", Head(sendq)))
    BY <1>4 DEF Take
  <2>. QED
    BY <2>1, <2>2, SMTT(30)
<1>5. CASE Publish
  BY <1>5 DEF Publish
<1>6. CASE WorkerWrites
  BY <1>1, <1>6, SMTT(30) DEF WorkerWrites
<1>7. CASE Release
  BY <1>7 DEF Release
<1>8. CASE Restarted
  BY <1>8 DEF Restarted
<1>9. CASE ReaderWrites \/ Close \/ Join \/ Lost
  BY <1>1, <1>2, <1>9 DEF ReaderWrites, Close, Join, Lost
<1>. QED
  BY RunnerActions, <1>1, <1>3, <1>4, <1>5, <1>6, <1>7, <1>8, <1>9
  DEF DaemonReads, EventBegins, EventEnds, Ping, Shutdown, Dispatch

(* ---------------------------- the send queue --------------------------- *)

\* DedupExact, of any queue, set of corrs and set of jobs in hand.
Held(q) == {i \in 1..Len(q) : q[i] # Stop}
Exact(q, p, hand) ==
  /\ Len(q) <= SEND_QUEUE_MAX
  /\ p = {q[i] : i \in Held(q)} \cup hand
  /\ \A i, j \in Held(q) : q[i] = q[j] => i = j
  /\ \A i \in Held(q) : q[i] \notin hand
InHand == IF worker.at \in Busy THEN {worker.job} ELSE {}

LEMMA ExactIsDedup ==
  ASSUME sendq \in Seq(Job \cup {Stop})
  PROVE  DedupExact <=> Exact(sendq, pending, InHand)
<1>1. DOMAIN sendq = 1..Len(sendq)
  BY SMTT(30)
<1>. QED
  BY <1>1 DEF DedupExact, Exact, Held, InHand

\* offer, of a job that is not pending.
LEMMA OfferedExact ==
  ASSUME NEW q \in Seq(Job \cup {Stop}), NEW p, NEW hand, Exact(q, p, hand),
         NEW j \in Job, j \notin p, Len(q) < SEND_QUEUE_MAX
  PROVE  Exact(Append(q, j), p \cup {j}, hand)
<1>. DEFINE r == Append(q, j)
<1>1. Len(q) \in Nat /\ Len(r) = Len(q) + 1 /\ r[Len(q) + 1] = j /\ \A i \in 1..Len(q) : r[i] = q[i]
  BY SMTT(30)
<1>2. j # Stop
  BY Bounds DEF Stop
<1>. HIDE DEF r
<1>3. /\ Held(r) = Held(q) \cup {Len(q) + 1}
      /\ \A i \in Held(q) : i \in 1..Len(q) /\ r[i] = q[i] /\ q[i] \in p
  BY <1>1, <1>2, SMTT(30) DEF Held, Exact
<1>4. \A i \in Held(q) : q[i] # j
  BY <1>3
<1>5. Len(r) <= SEND_QUEUE_MAX
  BY <1>1, Bounds, SMTT(30)
<1>6. p \cup {j} = {r[i] : i \in Held(r)} \cup hand
  BY <1>1, <1>3, SMTT(30) DEF Exact
<1>7. ASSUME NEW i \in Held(r), NEW k \in Held(r), r[i] = r[k]
      PROVE  i = k
  BY <1>1, <1>3, <1>4, <1>7 DEF Exact
<1>8. \A i \in Held(r) : r[i] \notin hand
  BY <1>1, <1>3 DEF Exact
<1>9. Exact(r, p \cup {j}, hand)
  BY <1>5, <1>6, <1>7, <1>8 DEF Exact
<1>. QED
  BY <1>9 DEF r

\* close, while there is room.
LEMMA ClosedExact ==
  ASSUME NEW q \in Seq(Job \cup {Stop}), NEW p, NEW hand, Exact(q, p, hand),
         Len(q) < SEND_QUEUE_MAX
  PROVE  Exact(Append(q, Stop), p, hand)
<1>. DEFINE r == Append(q, Stop)
<1>1. Len(q) \in Nat /\ Len(r) = Len(q) + 1 /\ r[Len(q) + 1] = Stop /\ \A i \in 1..Len(q) : r[i] = q[i]
  BY SMTT(30)
<1>. HIDE DEF r
<1>2. Held(r) = Held(q) /\ \A i \in Held(q) : r[i] = q[i]
  BY <1>1, SMTT(30) DEF Held
<1>3. Len(r) <= SEND_QUEUE_MAX
  BY <1>1, Bounds, SMTT(30)
<1>4. Exact(r, p, hand)
  BY <1>2, <1>3 DEF Exact
<1>. QED
  BY <1>4 DEF r

\* The worker takes the head.
LEMMA TakenExact ==
  ASSUME NEW q \in Seq(Job \cup {Stop}), NEW p, Exact(q, p, {}), q # <<>>, q[1] # Stop
  PROVE  Exact(Tail(q), p, {q[1]})
<1>. DEFINE r == Tail(q)
<1>1. Len(q) \in Nat /\ Len(q) > 0 /\ Len(r) = Len(q) - 1 /\ \A i \in 1..Len(r) : r[i] = q[i + 1]
  BY SMTT(30)
<1>. HIDE DEF r
<1>2. 1 \in Held(q)
  BY <1>1, SMTT(30) DEF Held
<1>3. \A i \in Held(r) : i \in Nat /\ i > 0 /\ i + 1 \in Held(q) /\ r[i] = q[i + 1]
  BY <1>1, SMTT(30) DEF Held
<1>4. \A i \in Held(q) : i = 1 \/ (i - 1 \in Held(r) /\ r[i - 1] = q[i])
  BY <1>1, SMTT(30) DEF Held
<1>5. Len(r) <= SEND_QUEUE_MAX
  BY <1>1, Bounds, SMTT(30) DEF Exact
<1>6. p = {r[i] : i \in Held(r)} \cup {q[1]}
  <2>1. p = {q[i] : i \in Held(q)}
    BY DEF Exact
  <2>2. ASSUME NEW x \in p
        PROVE  x \in {r[i] : i \in Held(r)} \cup {q[1]}
    BY <1>4, <2>1, SMTT(30)
  <2>3. ASSUME NEW x \in {r[i] : i \in Held(r)} \cup {q[1]}
        PROVE  x \in p
    BY <1>2, <1>3, <2>1
  <2>. QED
    BY <2>2, <2>3
<1>7. ASSUME NEW i \in Held(r), NEW k \in Held(r), r[i] = r[k]
      PROVE  i = k
  <2>1. i + 1 = k + 1
    BY <1>3, <1>7 DEF Exact
  <2>. QED
    BY <1>3, <2>1, SMTT(30)
<1>8. \A i \in Held(r) : r[i] # q[1]
  <2>1. \A i \in Held(r) : i + 1 # 1
    BY <1>3, SMTT(30)
  <2>. QED
    BY <1>2, <1>3, <2>1 DEF Exact
<1>9. Exact(r, p, {q[1]})
  BY <1>5, <1>6, <1>7, <1>8 DEF Exact
<1>. QED
  BY <1>9 DEF r

LEMMA QueueStep ==
  ASSUME RunnerType, Ending, DedupExact, RunnerNext
  PROVE  /\ sendq' \in Seq(Job \cup {Stop}) /\ pending' \subseteq Job
         /\ Ending' /\ Exact(sendq', pending', InHand')
<1>0. /\ sendq \in Seq(Job \cup {Stop}) /\ pending \subseteq Job /\ Exact(sendq, pending, InHand)
      /\ "none" \notin Job /\ "stop" \notin Job
  BY ExactIsDedup, Bounds DEF RunnerType
<1>1. CASE UNCHANGED <<sendq, pending, InHand>> /\ Ending'
  BY <1>0, <1>1
<1>2. ASSUME UNCHANGED <<sendq, pending, worker>>,
             reader' = reader \/ reader.at \notin {"join", "gone"} \/ reader'.at \in {"join", "gone"}
      PROVE  Ending' /\ InHand' = InHand
  BY <1>2 DEF Ending, InHand
<1>3. CASE ReadFrame
  <2>1. reader.at = "read" /\ UNCHANGED worker /\ InHand' = InHand
    BY <1>3, Reads DEF InHand
  <2>2. worker.at # "gone" /\ \A i \in 1..Len(sendq) : sendq[i] # Stop
    BY <2>1 DEF Ending
  <2>3. CASE UNCHANGED <<sendq, pending>>
    BY <1>1, <1>2, <2>1, <2>3
  <2>4. ASSUME NEW j \in Job, j \notin pending, Len(sendq) < SEND_QUEUE_MAX,
               sendq' = Append(sendq, j), pending' = pending \cup {j}
        PROVE  /\ sendq' \in Seq(Job \cup {Stop}) /\ pending' \subseteq Job
               /\ Ending' /\ Exact(sendq', pending', InHand')
    <3>1. Exact(sendq', pending', InHand')
      BY <1>0, <2>1, <2>4, OfferedExact
    <3>2. /\ sendq' \in Seq(Job \cup {Stop}) /\ Len(sendq') = Len(sendq) + 1
          /\ sendq'[Len(sendq) + 1] = j /\ \A i \in 1..Len(sendq) : sendq'[i] = sendq[i]
      BY <1>0, <2>4, SMTT(30)
    <3>3. \A i \in 1..Len(sendq') : sendq'[i] # Stop
      BY <1>0, <2>2, <3>2, SMTT(30) DEF Stop
    <3>. QED
      BY <1>0, <2>1, <2>2, <2>4, <3>1, <3>2, <3>3 DEF Ending
  <2>5. ASSUME NEW j \in Job, Offer(j)
        PROVE  \/ UNCHANGED <<sendq, pending>>
               \/ /\ j \notin pending /\ Len(sendq) < SEND_QUEUE_MAX
                  /\ sendq' = Append(sendq, j) /\ pending' = pending \cup {j}
    BY <1>0, <2>5, Bounds, SMTT(30) DEF Offer
  <2>. QED
    BY <1>3, <2>3, <2>4, <2>5, Reads
<1>4. CASE Close
  <2>1. /\ reader.at = "close" /\ Len(sendq) < SEND_QUEUE_MAX /\ sendq' = Append(sendq, Stop)
        /\ reader' = At("join", None) /\ UNCHANGED <<pending, worker>> /\ InHand' = InHand
    BY <1>4 DEF Close, Sentinel, InHand
  <2>2. worker.at # "gone" /\ \A i \in 1..Len(sendq) : sendq[i] # Stop
    BY <2>1 DEF Ending
  <2>3. Exact(sendq', pending', InHand')
    BY <1>0, <2>1, ClosedExact
  <2>4. /\ sendq' \in Seq(Job \cup {Stop}) /\ Len(sendq') = Len(sendq) + 1
        /\ \A i \in 1..Len(sendq) : sendq'[i] = sendq[i]
    BY <1>0, <2>1, SMTT(30)
  <2>5. Ending'
    BY <1>0, <2>1, <2>2, <2>4, AtFacts, SMTT(30) DEF Ending
  <2>. QED
    BY <1>0, <2>1, <2>3, <2>4, <2>5
<1>5. CASE Take
  <2>1. /\ worker.at = "get" /\ sendq # <<>> /\ sendq' = Tail(sendq) /\ sendq[1] = Head(sendq)
        /\ UNCHANGED <<reader, pending>> /\ InHand = {} /\ Exact(sendq, pending, {})
    BY <1>0, <1>5, SMTT(30) DEF Take, InHand, Busy
  <2>2. /\ Len(sendq) \in Nat /\ Len(sendq) > 0 /\ Len(sendq') = Len(sendq) - 1
        /\ sendq' \in Seq(Job \cup {Stop}) /\ \A i \in 1..Len(sendq') : sendq'[i] = sendq[i + 1]
    BY <1>0, <2>1, SMTT(30)
  <2>3. \A i \in 1..Len(sendq') : sendq'[i] = Stop => i = Len(sendq') /\ reader'.at \in {"join", "gone"}
    <3>. SUFFICES ASSUME NEW i \in 1..Len(sendq'), sendq'[i] = Stop
                  PROVE  i = Len(sendq') /\ reader'.at \in {"join", "gone"}
      OBVIOUS
    <3>1. i + 1 \in 1..Len(sendq) /\ sendq[i + 1] = Stop
      BY <2>2, SMTT(30)
    <3>2. i + 1 = Len(sendq) /\ reader.at \in {"join", "gone"}
      BY <3>1 DEF Ending
    <3>3. i = Len(sendq')
      BY <2>2, <3>2, SMTT(30)
    <3>. QED
      BY <2>1, <3>2, <3>3
  <2>4. CASE sendq[1] # Stop
    <3>1. worker' = At("publish", sendq[1])
      BY <1>5, <2>1, <2>4 DEF Take
    <3>2. InHand' = {sendq[1]} /\ worker'.at # "gone"
      BY <3>1, AtFacts, SMTT(30) DEF InHand, Busy
    <3>3. Exact(sendq', pending', InHand')
      BY <1>0, <2>1, <2>4, <3>2, TakenExact
    <3>. QED
      BY <1>0, <2>1, <2>2, <2>3, <3>2, <3>3 DEF Ending
  <2>5. CASE sendq[1] = Stop
    <3>1. worker' = At("gone", None) /\ Len(sendq) = 1 /\ reader.at \in {"join", "gone"}
      <4>1. worker' = At("gone", None)
        BY <1>5, <2>1, <2>5 DEF Take
      <4>2. 1 \in 1..Len(sendq)
        BY <2>2, SMTT(30)
      <4>. QED
        BY <2>5, <4>1, <4>2 DEF Ending
    <3>2. InHand' = {} /\ worker'.at = "gone" /\ sendq' = <<>>
      BY <2>2, <3>1, AtFacts, SMTT(30) DEF InHand, Busy
    <3>3. Held(sendq) = {} /\ Held(sendq') = {}
      BY <2>2, <2>5, <3>1, SMTT(30) DEF Held
    <3>4. Exact(sendq', pending', InHand')
      BY <2>1, <2>2, <3>2, <3>3, Bounds, SMTT(30) DEF Exact
    <3>. QED
      BY <1>0, <2>1, <2>2, <2>3, <3>1, <3>2, <3>4 DEF Ending
  <2>. QED
    BY <2>4, <2>5
<1>6. CASE Publish
  <2>1. /\ worker.at = "publish" /\ worker' = At("result", worker.job)
        /\ UNCHANGED <<reader, sendq, pending>>
    BY <1>6 DEF Publish, Released
  <2>2. InHand' = InHand /\ worker'.at # "gone"
    BY <2>1, AtFacts, SMTT(30) DEF InHand, Busy
  <2>. QED
    BY <1>1, <2>1, <2>2 DEF Ending
<1>7. CASE WorkerWrites
  <2>1. /\ worker.at = "result" /\ UNCHANGED <<reader, sendq, pending>>
        /\ worker' = worker \/ worker' = At("release", worker.job)
    BY <1>7 DEF WorkerWrites
  <2>2. InHand' = InHand /\ worker'.at # "gone"
    BY <2>1, AtFacts, SMTT(30) DEF InHand, Busy
  <2>. QED
    BY <1>1, <2>1, <2>2 DEF Ending
<1>8. CASE Release
  <2>1. /\ worker.at = "release" /\ worker' = At("get", None) /\ UNCHANGED <<reader, sendq>>
        /\ pending' = pending \ {worker.job}
    BY <1>8 DEF Release
  <2>2. InHand = {worker.job} /\ InHand' = {} /\ worker'.at # "gone"
    BY <2>1, AtFacts, SMTT(30) DEF InHand, Busy
  <2>3. Exact(sendq', pending', InHand')
    BY <1>0, <2>1, <2>2 DEF Exact
  <2>. QED
    BY <1>0, <2>1, <2>2, <2>3 DEF Ending
<1>9. CASE Restarted
  <2>1. sendq' = <<>> /\ pending' = {} /\ worker' = At("get", None)
    BY <1>9 DEF Restarted
  <2>2. InHand' = {} /\ worker'.at # "gone" /\ Held(sendq') = {} /\ Len(sendq') = 0
    BY <2>1, AtFacts, SMTT(30) DEF InHand, Busy, Held
  <2>. QED
    BY <2>1, <2>2, Bounds, SMTT(30) DEF Ending, Exact
<1>10. CASE ReaderWrites \/ Join \/ Lost
  <2>1. /\ UNCHANGED <<sendq, pending, worker>>
        /\ reader' = reader \/ reader.at \notin {"join", "gone"} \/ reader'.at \in {"join", "gone"}
    BY <1>10, AtFacts, SMTT(30) DEF ReaderWrites, Join, Lost
  <2>. QED
    BY <1>1, <1>2, <2>1
<1>. QED
  BY RunnerActions, <1>1, <1>2, <1>3, <1>4, <1>5, <1>6, <1>7, <1>8, <1>9, <1>10
  DEF DaemonReads, EventBegins, EventEnds, Ping, Shutdown, Dispatch

(* ----------------------------- the write lock -------------------------- *)

Frame == Kind \X Jobs \X {"prefix", "body"}

\* A thread takes the lock and writes a prefix.
LEMMA BeginStep ==
  ASSUME wire \in Seq(Frame), Locked, NEW me \in {"reader", "worker", "backend"},
         NEW k \in Kind, NEW j \in Jobs, Begin(me, k, j)
  PROVE  /\ wire' \in Seq(Frame) /\ holder' = me /\ Whole(wire') /\ Len(wire') % 2 = 1
         /\ wire'[Len(wire')] = <<k, j, "prefix">>
<1>1. Len(wire) % 2 = 0 /\ Whole(wire)
  <2>1. Len(wire) \in Nat
    BY SMTT(30)
  <2>2. Len(wire) % 2 \in {0, 1}
    BY <2>1, Parity
  <2>3. Len(wire) % 2 # 1 /\ Whole(wire)
    BY DEF Locked, Begin, MayWrite
  <2>. QED
    BY <2>2, <2>3
<1>2. <<k, j, "prefix">> \in Frame
  BY DEF Frame
<1>3. wire' = Append(wire, <<k, j, "prefix">>) /\ holder' = me
  BY DEF Begin
<1>4. wire' \in Seq(Frame)
  BY <1>2, <1>3, SMTT(30)
<1>5. Whole(wire') /\ Len(wire') % 2 = 1
  BY <1>1, <1>2, <1>3, PrefixWhole
<1>6. wire'[Len(wire')] = <<k, j, "prefix">>
  <2>1. \A w \in Seq(Frame) : \A f \in Frame : Append(w, f)[Len(Append(w, f))] = f
    BY SMTT(30)
  <2>. QED
    BY <1>2, <1>3, <2>1
<1>. QED
  BY <1>3, <1>4, <1>5, <1>6

\* It writes the body of what it began, and gives the lock back.
LEMMA EndStep ==
  ASSUME wire \in Seq(Frame), Locked, NEW me \in {"reader", "worker", "backend"},
         NEW k \in Kind, NEW j \in Jobs, End(me, k, j), wire[Len(wire)] = <<k, j, "prefix">>
  PROVE  /\ wire' \in Seq(Frame) /\ holder' = None /\ Whole(wire') /\ Len(wire') % 2 = 0
         /\ wire' = Append(wire, <<k, j, "body">>)
<1>1. Len(wire) % 2 = 1 /\ Whole(wire)
  <2>1. holder # None
    BY DEF End, None
  <2>. QED
    BY <2>1 DEF Locked
<1>2. <<k, j, "body">> \in Frame
  BY DEF Frame
<1>3. wire' = Append(wire, <<k, j, "body">>) /\ holder' = None
  BY DEF End
<1>4. wire' \in Seq(Frame)
  BY <1>2, <1>3, SMTT(30)
<1>5. Whole(wire') /\ Len(wire') % 2 = 0
  BY <1>1, <1>2, <1>3, BodyWhole
<1>. QED
  BY <1>3, <1>4, <1>5

\* The daemon reads a frame; one that is half written stays.
LEMMA DaemonReadsStep ==
  ASSUME wire \in Seq(Frame), Locked, DaemonReads
  PROVE  wire' \in Seq(Frame) /\ Locked'
<1>1. /\ Len(wire) \in Nat /\ Len(wire) > 1 /\ wire' = Tail(Tail(wire))
      /\ UNCHANGED <<holder, reader, worker>>
  BY SMTT(30) DEF DaemonReads
<1>2. /\ wire' \in Seq(Frame) /\ Len(wire') = Len(wire) - 2 /\ \A i \in 1..Len(wire') : wire'[i] = wire[i + 2]
      /\ Whole(wire') /\ Len(wire') % 2 = Len(wire) % 2
  BY <1>1, RestWhole DEF Locked
<1>3. ASSUME holder # None PROVE wire'[Len(wire')] = wire[Len(wire)]
  <2>1. Len(wire) % 2 = 1
    BY <1>3 DEF Locked
  <2>2. 2 % 2 # 1
    BY SMTT(30)
  <2>3. Len(wire) # 2 /\ Len(wire') = Len(wire) - 2
    BY <1>2, <2>1, <2>2
  <2>4. Len(wire') \in 1..Len(wire') /\ Len(wire') + 2 = Len(wire)
    <3>1. \A m, n \in Nat : m > 1 /\ m # 2 /\ n = m - 2 => n \in 1..n /\ n + 2 = m
      BY SMTT(30)
    <3>2. Len(wire') \in Nat
      BY <1>2, SMTT(30)
    <3>. QED
      BY <1>1, <2>3, <3>1, <3>2
  <2>. QED
    BY <1>2, <2>4
<1>4. None \notin {"reader", "worker", "backend"}
  BY DEF None
<1>. QED
  BY <1>1, <1>2, <1>3, <1>4 DEF Locked

\* No two threads write at once.
LEMMA WireStep ==
  ASSUME RunnerType, Locked, RunnerNext
  PROVE  wire' \in Seq(Frame) /\ holder' \in {None, "reader", "worker", "backend"} /\ Locked'
<1>0. /\ wire \in Seq(Frame) /\ holder \in {None, "reader", "worker", "backend"}
      /\ {"pong", "result", "inbound"} \subseteq Kind /\ None \in Jobs /\ reader.job \in Jobs /\ worker.job \in Jobs
      /\ None \notin {"reader", "worker", "backend"}
  <2>1. reader.job \in Jobs /\ worker.job \in Jobs
    BY SMTT(30) DEF RunnerType
  <2>. QED
    BY <2>1 DEF RunnerType, Frame, Kind, Jobs, None
<1>1. ASSUME UNCHANGED <<wire, holder>>, holder = "reader" => UNCHANGED reader,
             holder = "worker" => UNCHANGED worker
      PROVE  wire' \in Seq(Frame) /\ holder' \in {None, "reader", "worker", "backend"} /\ Locked'
  BY <1>0, <1>1 DEF Locked
<1>2. CASE DaemonReads
  BY <1>0, <1>2, DaemonReadsStep DEF DaemonReads
<1>3. CASE Restarted
  <2>1. wire' = <<>> /\ holder' = None
    BY <1>3 DEF Restarted
  <2>2. wire' \in Seq(Frame) /\ Len(wire') % 2 # 1 /\ 1..Len(wire') = {}
    BY <2>1, SMTT(30)
  <2>. QED
    BY <1>0, <2>1, <2>2 DEF Locked, Whole
<1>4. CASE ReaderWrites
  <2>. DEFINE kind == IF reader.at = "pong" THEN "pong" ELSE "result"
  <2>1. reader.at \in {"pong", "refuse"} /\ UNCHANGED worker /\ kind \in Kind
    BY <1>0, <1>4 DEF ReaderWrites
  <2>2. CASE Begin("reader", kind, reader.job) /\ UNCHANGED reader
    <3>1. /\ wire' \in Seq(Frame) /\ holder' = "reader" /\ Whole(wire') /\ Len(wire') % 2 = 1
          /\ wire'[Len(wire')] = <<kind, reader.job, "prefix">>
      BY <1>0, <2>1, <2>2, BeginStep
    <3>. QED
      BY <1>0, <2>1, <2>2, <3>1 DEF Locked
  <2>3. CASE End("reader", kind, reader.job)
    <3>1. wire[Len(wire)] = <<kind, reader.job, "prefix">>
      BY <2>3 DEF Locked, End
    <3>2. wire' \in Seq(Frame) /\ holder' = None /\ Whole(wire') /\ Len(wire') % 2 = 0
      BY <1>0, <2>1, <2>3, <3>1, EndStep
    <3>. QED
      BY <1>0, <3>2, OddNotEven DEF Locked
  <2>. QED
    BY <1>4, <2>2, <2>3 DEF ReaderWrites
<1>5. CASE WorkerWrites
  <2>1. worker.at = "result" /\ UNCHANGED reader /\ "result" \in Kind
    BY <1>0, <1>5 DEF WorkerWrites
  <2>2. CASE Begin("worker", "result", worker.job) /\ UNCHANGED worker
    <3>1. /\ wire' \in Seq(Frame) /\ holder' = "worker" /\ Whole(wire') /\ Len(wire') % 2 = 1
          /\ wire'[Len(wire')] = <<"result", worker.job, "prefix">>
      BY <1>0, <2>1, <2>2, BeginStep
    <3>. QED
      BY <1>0, <2>1, <2>2, <3>1 DEF Locked
  <2>3. CASE End("worker", "result", worker.job)
    <3>1. wire[Len(wire)] = <<"result", worker.job, "prefix">>
      BY <2>3 DEF Locked, End
    <3>2. wire' \in Seq(Frame) /\ holder' = None /\ Whole(wire') /\ Len(wire') % 2 = 0
      BY <1>0, <2>1, <2>3, <3>1, EndStep
    <3>. QED
      BY <1>0, <3>2, OddNotEven DEF Locked
  <2>. QED
    BY <1>5, <2>2, <2>3 DEF WorkerWrites
<1>6. CASE EventBegins
  <2>1. Begin("backend", "inbound", None)
    BY <1>6 DEF EventBegins
  <2>2. /\ wire' \in Seq(Frame) /\ holder' = "backend" /\ Whole(wire') /\ Len(wire') % 2 = 1
        /\ wire'[Len(wire')] = <<"inbound", None, "prefix">>
    BY <1>0, <2>1, BeginStep
  <2>. QED
    BY <1>0, <2>2 DEF Locked
<1>7. CASE EventEnds
  <2>1. End("backend", "inbound", None)
    BY <1>7 DEF EventEnds
  <2>2. wire[Len(wire)] = <<"inbound", None, "prefix">>
    BY <2>1 DEF Locked, End
  <2>3. wire' \in Seq(Frame) /\ holder' = None /\ Whole(wire') /\ Len(wire') % 2 = 0
    BY <1>0, <2>1, <2>2, EndStep
  <2>. QED
    BY <1>0, <2>3, OddNotEven DEF Locked
<1>8. CASE ReadFrame
  BY <1>1, <1>8, Reads DEF Locked
<1>9. CASE Close \/ Join \/ Lost
  <2>1. reader.at \in {"close", "join", "read"} /\ UNCHANGED <<wire, holder, worker>>
    BY <1>9 DEF Close, Join, Lost
  <2>2. holder # "reader"
    BY <2>1 DEF Locked
  <2>. QED
    BY <1>1, <2>1, <2>2
<1>10. CASE Take \/ Publish \/ Release
  <2>1. worker.at \in {"get", "publish", "release"} /\ UNCHANGED <<wire, holder, reader>>
    BY <1>10 DEF Take, Publish, Release
  <2>2. holder # "worker"
    BY <2>1 DEF Locked
  <2>. QED
    BY <1>1, <2>1, <2>2
<1>. QED
  BY RunnerActions, <1>1, <1>2, <1>3, <1>4, <1>5, <1>6, <1>7, <1>8, <1>9, <1>10 DEF Ping, Shutdown, Dispatch
(* ----------------------------- the answers ---------------------------- *)

LEMMA AppendHas ==
  ASSUME NEW S, NEW s \in Seq(S), NEW f \in S, NEW v, v = Append(s, f)
  PROVE  Has(v, f) /\ \A x : Has(s, x) => Has(v, x)
<1>1. Len(v) \in 1..Len(v) /\ v[Len(v)] = f /\ \A i \in 1..Len(s) : i \in 1..Len(v) /\ v[i] = s[i]
  BY SMTT(30)
<1>. QED
  BY <1>1 DEF Has

LEMMA TailHas ==
  ASSUME NEW S, NEW s \in Seq(S), s # <<>>, NEW v, v = Tail(s)
  PROVE  \A x : Has(s, x) => x = s[1] \/ Has(v, x)
<1>1. \A i \in 1..Len(s) : i = 1 \/ (i - 1 \in 1..Len(v) /\ v[i - 1] = s[i])
  BY SMTT(30)
<1>. QED
  BY <1>1 DEF Has

\* Writing takes no result off the wire; the second half of a result is one.
LEMMA AppendResult ==
  ASSUME NEW w \in Seq(Frame), NEW k \in Kind, NEW j \in Jobs, NEW v,
         v = Append(w, <<k, j, "prefix">>) \/ v = Append(w, <<k, j, "body">>)
  PROVE  (k = "result" => ResultOf(v, j)) /\ \A x : ResultOf(w, x) => ResultOf(v, x)
<1>. PICK h \in {"prefix", "body"} : v = Append(w, <<k, j, h>>)
  OBVIOUS
<1>. DEFINE g == <<k, j, h>>
<1>1. g \in Frame /\ g[1] = k /\ g[2] = j /\ v = Append(w, g)
  BY DEF Frame
<1>. HIDE DEF g
<1>2. Has(v, g) /\ \A x : Has(w, x) => Has(v, x)
  BY <1>1, AppendHas
<1>3. \A x : ResultOf(w, x) => \E f : Has(w, f) /\ f[1] = "result" /\ f[2] = x
  BY DEF ResultOf, Has
<1>4. \A x : (\E f : Has(v, f) /\ f[1] = "result" /\ f[2] = x) => ResultOf(v, x)
  BY DEF ResultOf, Has
<1>. QED
  BY <1>1, <1>2, <1>3, <1>4

\* The daemon reads one frame; the results of the others stay.
LEMMA RestResult ==
  ASSUME NEW w \in Seq(Frame), Whole(w), Len(w) > 1, NEW v, v = Tail(Tail(w)),
         NEW x, ResultOf(w, x), ~(w[1][1] = "result" /\ w[1][2] = x)
  PROVE  ResultOf(v, x)
<1>1. PICK i \in 1..Len(w) : w[i][1] = "result" /\ w[i][2] = x
  BY DEF ResultOf
<1>2. 2 \in 1..Len(w) /\ 2 % 2 = 0 /\ 2 - 1 = 1
  BY SMTT(30)
<1>3. w[2][1] = w[1][1] /\ w[2][2] = w[1][2]
  BY <1>2 DEF Whole
<1>4. i # 1 /\ i # 2
  BY <1>1, <1>3
<1>5. i - 2 \in 1..Len(v) /\ v[i - 2] = w[i]
  BY <1>1, <1>4, SMTT(30)
<1>. QED
  BY <1>1, <1>5 DEF ResultOf
LEMMA AnswerStep ==
  ASSUME RunnerType, DedupExact, Locked, Answers, RunnerNext
  PROVE  waiting' \subseteq Job /\ Answers'
<1>. DEFINE Req == {"send", "ping", "shutdown"} \X Jobs
<1>0. /\ inbox \in Seq(Req) /\ sendq \in Seq(Job \cup {Stop}) /\ wire \in Seq(Frame) /\ waiting \subseteq Job
      /\ Stop \notin Job /\ None \in Jobs /\ {"pong", "result", "inbound"} \subseteq Kind
      /\ Exact(sendq, pending, InHand)
  BY Bounds, ExactIsDedup DEF RunnerType, Frame, Jobs, Kind, Stop
<1>. HIDE DEF Req
<1>1. ASSUME UNCHANGED <<waiting, worker>>, reader.at # "gone", reader' = reader \/ reader.at # "refuse",
             \A x : Has(inbox, x) => Has(inbox', x), \A x : Has(sendq, x) => Has(sendq', x),
             \A x : ResultOf(wire, x) => ResultOf(wire', x)
      PROVE  waiting' \subseteq Job /\ Answers'
  BY <1>0, <1>1 DEF Answers, Answered
<1>2. ASSUME NEW j \in Job, Dispatch(j), reader.at # "gone" PROVE waiting' \subseteq Job /\ Answers'
  <2>1. /\ inbox' = Append(inbox, <<"send", j>>) /\ waiting' = waiting \cup {j}
        /\ UNCHANGED <<reader, sendq, worker, wire>> /\ (j \in waiting \/ worker # At("release", j))
    BY <1>2 DEF Dispatch, Deliver
  <2>2. <<"send", j>> \in Req
    BY DEF Req, Jobs
  <2>3. Has(inbox', <<"send", j>>) /\ \A x : Has(inbox, x) => Has(inbox', x)
    <3>. DEFINE f == <<"send", j>>
    <3>1. f \in Req /\ inbox' = Append(inbox, f)
      BY <2>1, <2>2
    <3>. HIDE DEF f
    <3>2. Has(inbox', f) /\ \A x : Has(inbox, x) => Has(inbox', x)
      BY <1>0, <3>1, AppendHas
    <3>. QED
      BY <3>2 DEF f
  <2>4. \A x \in waiting' : Answered(x)'
    BY <1>2, <2>1, <2>3 DEF Answers, Answered
  <2>5. worker.at = "release" /\ worker.job = j => worker = At("release", j)
    BY SMTT(30) DEF RunnerType, At
  <2>6. worker'.at = "release" /\ worker'.job \in waiting' => ResultOf(wire', worker'.job)
    BY <1>2, <2>1, <2>5 DEF Answers
  <2>. QED
    BY <1>0, <2>1, <2>4, <2>6 DEF Answers
<1>3. ASSUME Ping \/ Shutdown, reader.at # "gone" PROVE waiting' \subseteq Job /\ Answers'
  <2>. PICK f \in Req : inbox' = Append(inbox, f)
    <3>1. <<"ping", None>> \in Req /\ <<"shutdown", None>> \in Req
      BY <1>0 DEF Req
    <3>. QED
      BY <1>3, <3>1 DEF Ping, Shutdown, Deliver
  <2>1. \A x : Has(inbox, x) => Has(inbox', x)
    BY <1>0, AppendHas
  <2>2. UNCHANGED <<reader, sendq, worker, wire, waiting>>
    BY <1>3 DEF Ping, Shutdown
  <2>. QED
    BY <1>1, <1>3, <2>1, <2>2
<1>4. ASSUME DaemonReads PROVE waiting' \subseteq Job /\ Answers'
  <2>1. /\ Len(wire) > 1 /\ wire' = Tail(Tail(wire)) /\ UNCHANGED <<inbox, reader, sendq, worker>>
        /\ waiting' = IF wire[1][1] = "result" THEN waiting \ {wire[1][2]} ELSE waiting
    BY <1>4 DEF DaemonReads
  <2>2. waiting' \subseteq waiting
        /\ \A x \in waiting' : ~(wire[1][1] = "result" /\ wire[1][2] = x)
    BY <2>1
  <2>3. \A x \in waiting' : ResultOf(wire, x) => ResultOf(wire', x)
    BY <1>0, <2>1, <2>2, RestResult DEF Locked
  <2>. QED
    BY <1>0, <2>1, <2>2, <2>3 DEF Answers, Answered
<1>5. ASSUME Restarted PROVE waiting' \subseteq Job /\ Answers'
  BY <1>5 DEF Restarted, Answers
<1>6. ASSUME ReadFrame, reader.at # "gone" PROVE waiting' \subseteq Job /\ Answers'
  <2>1. /\ reader.at = "read" /\ inbox # <<>> /\ inbox' = Tail(inbox) /\ UNCHANGED <<worker, wire, waiting>>
    BY <1>6, Reads
  <2>2. \A x : Has(inbox, x) => x = inbox[1] \/ Has(inbox', x)
    BY <1>0, <2>1, TailHas
  <2>3. worker'.at = "release" /\ worker'.job \in waiting' => ResultOf(wire', worker'.job)
    BY <1>6, <2>1 DEF Answers
  <2>4. ASSUME inbox[1][1] # "send", UNCHANGED sendq
        PROVE  \A x \in waiting' : Answered(x)'
    <3>1. \A x : <<"send", x>> # inbox[1]
      BY <2>4, SMTT(30)
    <3>. QED
      BY <1>6, <2>1, <2>2, <2>4, <3>1 DEF Answers, Answered
  <2>5. ASSUME NEW j \in Job, inbox[1] = <<"send", j>>, Offer(j)
        PROVE  \A x \in waiting' : Answered(x)'
    <3>1. ASSUME \A x : Has(sendq, x) => Has(sendq', x), j \in waiting => Answered(j)'
          PROVE  \A x \in waiting' : Answered(x)'
      <4>1. \A x : x # j => <<"send", x>> # inbox[1]
        BY <2>5, SMTT(30)
      <4>. QED
        BY <1>6, <2>1, <2>2, <3>1, <4>1 DEF Answers, Answered
    <3>2. CASE j \in pending
      <4>1. UNCHANGED <<reader, sendq>>
        BY <2>5, <3>2 DEF Offer
      <4>2. Has(sendq, j) \/ j \in InHand
        BY <1>0, <3>2 DEF Exact, Held, Has
      <4>3. j \in InHand => worker.at \in {"publish", "result", "release"} /\ worker.job = j
        BY DEF InHand, Busy
      <4>. QED
        BY <1>6, <2>1, <2>3, <3>1, <4>1, <4>2, <4>3 DEF Answered
    <3>3. CASE j \notin pending /\ reader' = At("refuse", j) /\ UNCHANGED sendq
      BY <3>1, <3>3, AtFacts DEF Answered
    <3>4. CASE j \notin pending /\ sendq' = Append(sendq, j)
      <4>1. Has(sendq', j) /\ \A x : Has(sendq, x) => Has(sendq', x)
        <5>1. j \in Job \cup {Stop}
          OBVIOUS
        <5>. QED
          BY <1>0, <3>4, <5>1, AppendHas
      <4>. QED
        BY <3>1, <4>1 DEF Answered
    <3>. QED
      BY <2>5, <3>2, <3>3, <3>4 DEF Offer
  <2>. QED
    BY <1>0, <1>6, <2>1, <2>3, <2>4, <2>5, Reads DEF Answers
<1>15. ASSUME NEW k \in Kind, NEW j \in Jobs,
             wire' = Append(wire, <<k, j, "prefix">>) \/ wire' = Append(wire, <<k, j, "body">>)
      PROVE  (k = "result" => ResultOf(wire', j)) /\ \A x : ResultOf(wire, x) => ResultOf(wire', x)
  <2>1. wire \in Seq(Frame)
    BY <1>0
  <2>. QED
    BY <1>15, <2>1, AppendResult
<1>7. ASSUME ReaderWrites, reader.at # "gone" PROVE waiting' \subseteq Job /\ Answers'
  <2>. DEFINE kind == IF reader.at = "pong" THEN "pong" ELSE "result"
  <2>1. reader.at \in {"pong", "refuse"} /\ UNCHANGED <<inbox, sendq, worker, waiting>> /\ kind \in Kind
    BY <1>0, <1>7 DEF ReaderWrites
  <2>2. reader.job \in Jobs
    BY SMTT(30) DEF RunnerType
  <2>3. CASE Begin("reader", kind, reader.job) /\ UNCHANGED reader
    <3>1. wire' = Append(wire, <<kind, reader.job, "prefix">>)
      BY <2>3 DEF Begin
    <3>. HIDE DEF kind
    <3>2. \A x : ResultOf(wire, x) => ResultOf(wire', x)
      BY <1>15, <2>1, <2>2, <3>1
    <3>. QED
      BY <1>1, <1>7, <2>1, <2>3, <3>2
  <2>4. CASE End("reader", kind, reader.job) /\ reader' = At("read", None)
    <3>1. wire' = Append(wire, <<kind, reader.job, "body">>)
      BY <2>4 DEF End
    <3>2. (kind = "result" => ResultOf(wire', reader.job)) /\ \A x : ResultOf(wire, x) => ResultOf(wire', x)
      <4>. HIDE DEF kind
      <4>. QED
        BY <1>15, <2>1, <2>2, <3>1
    <3>3. reader'.at = "read"
      BY <2>4, AtFacts
    <3>. QED
      BY <1>0, <1>7, <2>1, <3>2, <3>3 DEF Answers, Answered
  <2>. QED
    BY <1>7, <2>3, <2>4 DEF ReaderWrites
<1>8. ASSUME Close, reader.at # "gone" PROVE waiting' \subseteq Job /\ Answers'
  <2>1. /\ sendq' = Append(sendq, Stop) /\ reader.at = "close" /\ Stop \in Job \cup {Stop}
        /\ UNCHANGED <<inbox, worker, wire, waiting>>
    BY <1>8 DEF Close, Sentinel
  <2>2. \A x : Has(sendq, x) => Has(sendq', x)
    BY <1>0, <2>1, AppendHas
  <2>. QED
    BY <1>1, <1>8, <2>1, <2>2
<1>9. ASSUME Join \/ Lost PROVE waiting' \subseteq Job /\ Answers'
  BY <1>0, <1>9, AtFacts DEF Join, Lost, Answers
<1>10. ASSUME Take, reader.at # "gone" PROVE waiting' \subseteq Job /\ Answers'
  <2>1. /\ worker.at = "get" /\ sendq # <<>> /\ sendq' = Tail(sendq)
        /\ worker' = IF Head(sendq) = Stop THEN At("gone", None) ELSE At("publish", Head(sendq))
        /\ UNCHANGED <<inbox, reader, wire, waiting>>
    BY <1>10 DEF Take
  <2>2. sendq[1] = Head(sendq)
    BY <1>0, <2>1, SMTT(30)
  <2>3. \A x : Has(sendq, x) => x = sendq[1] \/ Has(sendq', x)
    BY <1>0, <2>1, TailHas
  <2>4. \A x \in waiting : x = sendq[1] => worker'.at = "publish" /\ worker'.job = x
    <3>. SUFFICES ASSUME sendq[1] \in waiting PROVE worker'.at = "publish" /\ worker'.job = sendq[1]
      OBVIOUS
    <3>1. sendq[1] # Stop
      BY <1>0
    <3>2. worker' = At("publish", sendq[1])
      BY <2>1, <2>2, <3>1
    <3>. QED
      BY <3>2, AtFacts
  <2>5. \A x \in waiting' : Answered(x)'
    BY <1>10, <2>1, <2>3, <2>4 DEF Answers, Answered
  <2>6. worker'.at # "release"
    BY <2>1, AtFacts
  <2>. QED
    BY <1>0, <2>1, <2>5, <2>6 DEF Answers
<1>11. ASSUME Publish, reader.at # "gone" PROVE waiting' \subseteq Job /\ Answers'
  <2>1. /\ worker.at = "publish" /\ worker' = At("result", worker.job)
        /\ UNCHANGED <<inbox, reader, sendq, wire, waiting>>
    BY <1>11 DEF Publish
  <2>2. worker'.at = "result" /\ worker'.job = worker.job
    BY <2>1, AtFacts
  <2>. QED
    BY <1>0, <1>11, <2>1, <2>2 DEF Answers, Answered
<1>12. ASSUME WorkerWrites, reader.at # "gone" PROVE waiting' \subseteq Job /\ Answers'
  <2>1. worker.at = "result" /\ UNCHANGED <<inbox, reader, sendq, waiting>>
    BY <1>12 DEF WorkerWrites
  <2>2. /\ worker.job \in Jobs /\ "result" \in Kind
       
    BY <1>0, SMTT(30) DEF RunnerType
  <2>3. CASE Begin("worker", "result", worker.job) /\ UNCHANGED worker
    <3>1. wire' = Append(wire, <<"result", worker.job, "prefix">>)
      BY <2>3 DEF Begin
    <3>2. \A x : ResultOf(wire, x) => ResultOf(wire', x)
      BY <1>15, <2>2, <3>1
    <3>. QED
      BY <1>1, <1>12, <2>1, <2>3, <3>2
  <2>4. CASE End("worker", "result", worker.job) /\ worker' = At("release", worker.job)
    <3>1. wire' = Append(wire, <<"result", worker.job, "body">>)
      BY <2>4 DEF End
    <3>2. ResultOf(wire', worker.job) /\ \A x : ResultOf(wire, x) => ResultOf(wire', x)
      BY <1>15, <2>2, <3>1
    <3>3. worker'.at = "release" /\ worker'.job = worker.job
      BY <2>4, AtFacts
    <3>. QED
      BY <1>0, <1>12, <2>1, <3>2, <3>3 DEF Answers, Answered
  <2>. QED
    BY <1>12, <2>3, <2>4 DEF WorkerWrites
<1>13. ASSUME Release, reader.at # "gone" PROVE waiting' \subseteq Job /\ Answers'
  <2>1. worker.at = "release" /\ worker' = At("get", None) /\ UNCHANGED <<inbox, reader, sendq, wire, waiting>>
    BY <1>13 DEF Release
  <2>2. worker'.at = "get"
    BY <2>1, AtFacts
  <2>. QED
    BY <1>0, <1>13, <2>1, <2>2 DEF Answers, Answered
<1>14. ASSUME EventBegins \/ EventEnds, reader.at # "gone" PROVE waiting' \subseteq Job /\ Answers'
  <2>1. /\ UNCHANGED <<inbox, reader, sendq, worker, waiting>> /\ "inbound" \in Kind
        /\ \/ wire' = Append(wire, <<"inbound", None, "prefix">>)
           \/ wire' = Append(wire, <<"inbound", None, "body">>)
    BY <1>0, <1>14 DEF EventBegins, EventEnds, Begin, End
  <2>2. \A x : ResultOf(wire, x) => ResultOf(wire', x)
    BY <1>0, <1>15, <2>1
  <2>. QED
    BY <1>1, <1>14, <2>1, <2>2
<1>. QED
  BY RunnerActions, <1>2, <1>3, <1>4, <1>5, <1>6, <1>7, <1>8, <1>9, <1>10, <1>11, <1>12, <1>13, <1>14

(* --------------------------- the theorem ------------------------------ *)

LEMMA RunnerInvStep ==
  ASSUME RunnerInv, [RunnerNext]_runner
  PROVE  RunnerInv'
<1>1. CASE RunnerNext
  <2>1. RunnerType'
    BY <1>1, InboxStep, ThreadStep, QueueStep, WireStep, AnswerStep DEF RunnerInv, RunnerType, Frame
  <2>2. Ending' /\ Locked' /\ Answers'
    BY <1>1, QueueStep, WireStep, AnswerStep DEF RunnerInv
  <2>3. DedupExact'
    <3>1. sendq' \in Seq(Job \cup {Stop}) /\ Exact(sendq', pending', InHand')
      BY <1>1, QueueStep DEF RunnerInv
    <3>2. DOMAIN sendq' = 1..Len(sendq')
      BY <3>1, SMTT(30)
    <3>. QED
      BY <3>1, <3>2 DEF DedupExact, Exact, Held, InHand
  <2>. QED
    BY <2>1, <2>2, <2>3 DEF RunnerInv
<1>2. CASE UNCHANGED runner
  <2>. USE <1>2 DEF runner, RunnerInv
  <2>1. RunnerType'
    BY DEF RunnerType
  <2>2. Ending' /\ Locked'
    BY DEF Ending, Locked
  <2>3. DedupExact'
    BY DEF DedupExact
  <2>4. Answers'
    BY DEF Answers, Answered
  <2>. QED
    BY <2>1, <2>2, <2>3, <2>4
<1>. QED
  BY <1>1, <1>2

LEMMA RunnerInvInit ==
  ASSUME RunnerInit
  PROVE  RunnerInv
<1>1. /\ inbox = <<>> /\ sendq = <<>> /\ wire = <<>> /\ pending = {} /\ waiting = {} /\ holder = None
      /\ reader = At("read", None) /\ worker = At("get", None)
  BY DEF RunnerInit
<1>2. /\ Len(sendq) = 0 /\ 1..Len(inbox) = {} /\ 1..Len(sendq) = {} /\ 1..Len(wire) = {} /\ Len(wire) % 2 # 1
      /\ DOMAIN sendq = {} /\ 0 <= SEND_QUEUE_MAX
  BY <1>1, Bounds, SMTT(30)
<1>3. reader.at = "read" /\ worker.at = "get" /\ reader.job = None /\ worker.job = None
  BY <1>1, AtFacts
<1>4. RunnerType
  BY <1>1, <1>2, <1>3, SMTT(30) DEF RunnerType, At, Jobs, Busy, Kind, None
<1>5. Ending /\ Answers
  BY <1>1, <1>2, <1>3 DEF Ending, Answers
<1>6. DedupExact
  BY <1>1, <1>2, <1>3, SMTT(30) DEF DedupExact, Busy
<1>7. Locked
  BY <1>1, <1>2, SMTT(30) DEF Locked, Whole, None
<1>. QED
  BY <1>4, <1>5, <1>6, <1>7 DEF RunnerInv

LEMMA RunnerInvSound ==
  ASSUME RunnerInv
  PROVE  RunnerSound
<1>1. /\ DOMAIN inbox = 1..Len(inbox) /\ DOMAIN sendq = 1..Len(sendq) /\ DOMAIN wire = 1..Len(wire)
  BY SMTT(30) DEF RunnerInv, RunnerType
<1>2. EverySendAnswered
  <2>. SUFFICES ASSUME reader.at # "gone", NEW j \in waiting
                PROVE  \/ (\E i \in DOMAIN inbox : inbox[i] = <<"send", j>>)
                       \/ (\E i \in DOMAIN sendq : sendq[i] = j)
                       \/ worker \in {At("publish", j), At("result", j)} \/ reader = At("refuse", j)
                       \/ \E i \in DOMAIN wire : wire[i][1] = "result" /\ wire[i][2] = j
    BY DEF EverySendAnswered, Alive
  <2>1. Answered(j)
    BY DEF RunnerInv, Answers
  <2>2. /\ worker.at = "publish" /\ worker.job = j => worker = At("publish", j)
        /\ worker.at = "result" /\ worker.job = j => worker = At("result", j)
        /\ reader.at = "refuse" /\ reader.job = j => reader = At("refuse", j)
    BY SMTT(30) DEF RunnerInv, RunnerType, At
  <2>. QED
    BY <1>1, <2>1, <2>2 DEF Answered, Has, ResultOf
<1>3. FramesWhole
  BY <1>1 DEF FramesWhole, RunnerInv, Locked, Whole
<1>4. WorkerDrains
  <2>. SUFFICES ASSUME worker.at = "gone" PROVE sendq = <<>> /\ pending = {}
    BY DEF WorkerDrains
  <2>1. sendq = <<>> /\ worker.at \notin Busy /\ DedupExact
    BY DEF RunnerInv, Ending, Busy
  <2>2. DOMAIN sendq = {}
    BY <2>1, SMTT(30)
  <2>. QED
    BY <2>1, <2>2 DEF DedupExact
<1>. QED
  BY <1>2, <1>3, <1>4 DEF RunnerSound, RunnerInv

\* An SDK plugin answers each send once and in whole frames, through a full queue, jobs
\* that are dispatched again, three threads that write, and a shutdown.
THEOREM RunnerIsSound == RunnerSpec => []RunnerSound
<1>1. RunnerInit => RunnerInv
  BY RunnerInvInit
<1>2. RunnerInv /\ [RunnerNext]_runner => RunnerInv'
  BY RunnerInvStep
<1>3. RunnerInv => RunnerSound
  BY RunnerInvSound
<1>. QED
  BY <1>1, <1>2, <1>3, PTL DEF RunnerSpec
=============================================================================
