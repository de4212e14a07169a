---------------------------- MODULE PluginRunner ----------------------------
(***************************************************************************)
(* The Python SDK's run_plugin (sdk/python/relayfabric_sdk/runner.py) after *)
(* the handshake: the read loop, which must keep answering pings, the one  *)
(* worker that performs sends, the bounded queue between them, and the     *)
(* lock under which they and the bridge's own reader thread write frames   *)
(* to the daemon's socket (bridge.py, ipc.py).                             *)
(*                                                                         *)
(* The daemon sends a delivery again when its lease runs out.  A send      *)
(* blocks in the backend for as long as it likes.  Writing a frame is two  *)
(* steps, its prefix and its body, either of which may have to wait for    *)
(* room in the socket.                                                     *)
(***************************************************************************)
EXTENDS Naturals, Sequences, FiniteSets

CONSTANTS
  Job,              \* deliveries of the daemon, by corr
  SEND_QUEUE_MAX,   \* sends that are queued and not started (256)
  InboxCap,         \* bound: frames on their way to the plugin
  WireCap,          \* bound: half frames on their way to the daemon
  MaxEvents         \* bound: messages the backend brings in per process

None == "none"
Stop == "stop"

ASSUME RunnerAssumption ==
  /\ {SEND_QUEUE_MAX, InboxCap, WireCap} \subseteq Nat \ {0} /\ MaxEvents \in Nat
  /\ None \notin Job /\ Stop \notin Job

VARIABLES
  inbox,       \* frames for the plugin: <<kind, job>>
  reader,      \* the read loop: [at, job]
  sendq,       \* _SendQueue: jobs, and Stop, the sentinel of close
  pending,     \* its set of corrs
  worker,      \* _sender_loop: [at, job]
  holder,      \* who holds write_lock
  wire,        \* half frames for the daemon: <<kind, job, half>>
  events,      \* messages the backend has brought in
  waiting,     \* jobs the daemon waits for
  pinged       \* the daemon waits for a pong

runner == <<inbox, reader, sendq, pending, worker, holder, wire, events, waiting, pinged>>

At(place, job) == [at |-> place, job |-> job]

RunnerInit ==
  /\ inbox = <<>> /\ reader = At("read", None) /\ sendq = <<>> /\ pending = {}
  /\ worker = At("get", None) /\ holder = None /\ wire = <<>> /\ events = 0
  /\ waiting = {} /\ pinged = FALSE

(* ----------------------------- the daemon ----------------------------- *)

Deliver(f) == reader.at # "gone" /\ Len(inbox) < InboxCap /\ inbox' = Append(inbox, f)

\* A delivery is dispatched, or again when its lease runs out.  The backoff after a
\* result outlasts the few instructions from the result to release.
Dispatch(j) ==
  /\ j \in waiting \/ worker # At("release", j)
  /\ Deliver(<<"send", j>>) /\ waiting' = waiting \cup {j}
  /\ UNCHANGED <<reader, sendq, pending, worker, holder, wire, events, pinged>>
Ping ==
  /\ ~pinged /\ Deliver(<<"ping", None>>) /\ pinged' = TRUE
  /\ UNCHANGED <<reader, sendq, pending, worker, holder, wire, events, waiting>>
Shutdown ==
  /\ Deliver(<<"shutdown", None>>)
  /\ UNCHANGED <<reader, sendq, pending, worker, holder, wire, events, waiting, pinged>>

DaemonReads ==
  /\ Len(wire) > 1 /\ wire' = Tail(Tail(wire))
  /\ waiting' = IF wire[1][1] = "result" THEN waiting \ {wire[1][2]} ELSE waiting
  /\ pinged' = (pinged /\ wire[1][1] # "pong")
  /\ UNCHANGED <<inbox, reader, sendq, pending, worker, holder, events>>

\* The supervisor starts another process; the daemon takes its deliveries back.
Restarted ==
  /\ reader.at = "gone"
  /\ inbox' = <<>> /\ reader' = At("read", None) /\ sendq' = <<>> /\ pending' = {}
  /\ worker' = At("get", None) /\ holder' = None /\ wire' = <<>> /\ events' = 0
  /\ waiting' = {} /\ pinged' = FALSE

(* --------------------------- writing a frame -------------------------- *)

\* FrameWriter._send_frame takes the lock and writes the prefix, then the body.
MayWriteUnlocked(me) == holder # me
MayWrite(me) == holder = None
Begin(me, kind, job) ==
  /\ MayWrite(me) /\ Len(wire) < WireCap
  /\ wire' = Append(wire, <<kind, job, "prefix">>) /\ holder' = me
End(me, kind, job) ==
  /\ holder = me /\ Len(wire) < WireCap
  /\ wire' = Append(wire, <<kind, job, "body">>) /\ holder' = None

(* ----------------------------- the read loop -------------------------- *)

\* _SendQueue.offer and what _enqueue does of its outcome.
OfferSilent(j) ==
  IF j \in pending \/ Len(sendq) >= SEND_QUEUE_MAX THEN UNCHANGED <<reader, sendq, pending>>
  ELSE sendq' = Append(sendq, j) /\ pending' = pending \cup {j} /\ UNCHANGED reader
Offer(j) ==
  IF j \in pending THEN UNCHANGED <<reader, sendq, pending>>
  ELSE IF Len(sendq) >= SEND_QUEUE_MAX THEN reader' = At("refuse", j) /\ UNCHANGED <<sendq, pending>>
  ELSE sendq' = Append(sendq, j) /\ pending' = pending \cup {j} /\ UNCHANGED reader

OnPingQueued == worker.at = "get" /\ reader' = At("pong", None) /\ UNCHANGED <<sendq, pending>>
OnPing == reader' = At("pong", None) /\ UNCHANGED <<sendq, pending>>

ReadFrame ==
  /\ reader.at = "read" /\ inbox # <<>> /\ inbox' = Tail(inbox)
  /\ LET f == Head(inbox) IN
     CASE f[1] = "ping"     -> OnPing
       [] f[1] = "send"     -> Offer(f[2])
       [] f[1] = "shutdown" -> reader' = At("close", None) /\ UNCHANGED <<sendq, pending>>
  /\ UNCHANGED <<worker, holder, wire, events, waiting, pinged>>

\* The pong, or "plugin busy" for a job that found the queue full.
ReaderWrites ==
  /\ reader.at \in {"pong", "refuse"}
  /\ LET kind == IF reader.at = "pong" THEN "pong" ELSE "result" IN
     \/ Begin("reader", kind, reader.job) /\ UNCHANGED reader
     \/ End("reader", kind, reader.job) /\ reader' = At("read", None)
  /\ UNCHANGED <<inbox, sendq, pending, worker, events, waiting, pinged>>

\* close is Queue.put, which waits for room; then a join with a timeout, stop and exit.
ToHead(q) == <<Stop>> \o q
Sentinel(q) == Append(q, Stop)
Close ==
  /\ reader.at = "close" /\ Len(sendq) < SEND_QUEUE_MAX
  /\ sendq' = Sentinel(sendq) /\ reader' = At("join", None)
  /\ UNCHANGED <<inbox, pending, worker, holder, wire, events, waiting, pinged>>
Join ==
  /\ reader.at = "join" /\ reader' = At("gone", None)
  /\ UNCHANGED <<inbox, sendq, pending, worker, holder, wire, events, waiting, pinged>>

\* The daemon connection is lost, or a frame cannot be read: exit.
Lost ==
  /\ reader.at = "read" /\ reader' = At("gone", None)
  /\ UNCHANGED <<inbox, sendq, pending, worker, holder, wire, events, waiting, pinged>>

(* ------------------------------ the worker ---------------------------- *)

Take ==
  /\ worker.at = "get" /\ sendq # <<>> /\ sendq' = Tail(sendq)
  /\ worker' = IF Head(sendq) = Stop THEN At("gone", None) ELSE At("publish", Head(sendq))
  /\ UNCHANGED <<inbox, reader, pending, holder, wire, events, waiting, pinged>>

\* capped_text_send: an unknown endpoint, too long a body, a failed publish and a good
\* one each end in one delivery_result.
ReleasedEarly(j) == {j}
Released(j) == {}
Publish ==
  /\ worker.at = "publish" /\ worker' = At("result", worker.job)
  /\ pending' = pending \ Released(worker.job)
  /\ UNCHANGED <<inbox, reader, sendq, holder, wire, events, waiting, pinged>>

WorkerWrites ==
  /\ worker.at = "result"
  /\ \/ Begin("worker", "result", worker.job) /\ UNCHANGED worker
     \/ End("worker", "result", worker.job) /\ worker' = At("release", worker.job)
  /\ UNCHANGED <<inbox, reader, sendq, pending, events, waiting, pinged>>

Release ==
  /\ worker.at = "release" /\ worker' = At("get", None) /\ pending' = pending \ {worker.job}
  /\ UNCHANGED <<inbox, reader, sendq, holder, wire, events, waiting, pinged>>

(* ------------------------ the bridge's own thread --------------------- *)

EventBegins ==
  /\ events < MaxEvents /\ events' = events + 1 /\ Begin("backend", "inbound", None)
  /\ UNCHANGED <<inbox, reader, sendq, pending, worker, waiting, pinged>>
EventEnds ==
  /\ End("backend", "inbound", None)
  /\ UNCHANGED <<inbox, reader, sendq, pending, worker, events, waiting, pinged>>

Alive == reader.at # "gone"
ReaderStep == Alive /\ (ReadFrame \/ ReaderWrites \/ Close \/ Join)
WorkerStep == Alive /\ (Take \/ WorkerWrites \/ Release)

RunnerNext ==
  \/ ReaderStep \/ WorkerStep \/ DaemonReads \/ Restarted
  \/ Alive /\ (Lost \/ Publish \/ EventBegins \/ EventEnds \/ Ping \/ Shutdown \/ \E j \in Job : Dispatch(j))

\* The threads run and the daemon reads its socket; nothing is said of the backend, in
\* which a publish may block for ever.
RunnerFairness ==
  WF_runner(ReaderStep) /\ WF_runner(WorkerStep) /\ WF_runner(Alive /\ EventEnds) /\ WF_runner(DaemonReads)

RunnerSpec == RunnerInit /\ [][RunnerNext]_runner /\ RunnerFairness

(* ----------------------------- properties ----------------------------- *)

Busy == {"publish", "result", "release"}

\* The queue stays within SEND_QUEUE_MAX, the sentinel included, and its corrs are
\* exactly the jobs that are queued or in the worker's hands, each of them once: a
\* delivery that is dispatched again meanwhile is not sent twice.
DedupExact ==
  LET queued == {i \in DOMAIN sendq : sendq[i] # Stop}
      inHand == IF worker.at \in Busy THEN {worker.job} ELSE {}
  IN  /\ Len(sendq) <= SEND_QUEUE_MAX
      /\ pending = {sendq[i] : i \in queued} \cup inHand
      /\ \A i, j \in queued : sendq[i] = sendq[j] => i = j
      /\ \A i \in queued : sendq[i] \notin inHand

\* Every send is answered: a job that the daemon waits for is on its way to the plugin,
\* queued, at work, being refused, or its result is on the way back.  (A plugin that has
\* been told to stop answers what it has read before.)
EverySendAnswered ==
  Alive => \A j \in waiting :
    \/ (\E i \in DOMAIN inbox : inbox[i] = <<"send", j>>) \/ (\E i \in DOMAIN sendq : sendq[i] = j)
    \/ worker \in {At("publish", j), At("result", j)} \/ reader = At("refuse", j)
    \/ \E i \in DOMAIN wire : wire[i][1] = "result" /\ wire[i][2] = j

\* "never interleave with a frame its reader thread is writing": what the daemon reads
\* is whole frames, whichever of three threads wrote them.
FramesWhole ==
  \A i \in DOMAIN wire :
    /\ wire[i][3] = (IF i % 2 = 1 THEN "prefix" ELSE "body")
    /\ i % 2 = 0 => wire[i][1] = wire[i - 1][1] /\ wire[i][2] = wire[i - 1][2]

\* "Let already-queued sends drain": the worker that a shutdown ends has answered every
\* send that was accepted.
WorkerDrains == worker.at = "gone" => sendq = <<>> /\ pending = {}

\* "ping/pong liveness ... must keep flowing": a ping is answered even while a publish
\* blocks, unless the plugin is stopping.
PingAnswered == pinged ~> (~pinged \/ reader.at \in {"close", "join", "gone"})

\* _SendQueue.close: "bypasses the bound so shutdown can never block".
ShutdownNeverBlocks == reader.at = "close" => Len(sendq) < SEND_QUEUE_MAX

\* An SDK plugin answers each send once and in whole frames: through a full queue, jobs
\* that are dispatched again, three threads that write, and a shutdown.
RunnerSound == DedupExact /\ EverySendAnswered /\ FramesWhole /\ WorkerDrains
=============================================================================
