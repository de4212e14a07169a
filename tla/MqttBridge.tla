----------------------------- MODULE MqttBridge -----------------------------
(***************************************************************************)
(* The MQTT plugin (plugins/mqtt/src/main.rs): a main loop between the     *)
(* daemon's frames and the events of rumqttc's event loop, which a task of *)
(* its own polls, and the tracker that pairs the publishes it has queued   *)
(* with the packet ids and acknowledgements that come back.                *)
(*                                                                         *)
(* rumqttc and the broker are external; what they do here is what main.rs  *)
(* says of them: requests leave a bounded channel in order, each publish   *)
(* is announced with its packet id, a connection that drops takes what is  *)
(* in flight or in the channel with it, and a clean session forgets        *)
(* subscriptions.                                                          *)
(***************************************************************************)
EXTENDS Naturals, Sequences, Functions, FiniteSets

CONSTANTS
  Corr,        \* deliveries of the daemon
  ReqCap,      \* capacity of the request channel (64)
  EventCap,    \* capacity of the event channel (256)
  AckCap,      \* entries of awaiting_ack (1024)
  Pkid,        \* packet ids
  Resumed,     \* values of CONNACK's session_present; {FALSE} with clean_start
  Nil

ASSUME BridgeAssumption ==
  /\ {ReqCap, EventCap, AckCap} \subseteq Nat \ {0} /\ Resumed \subseteq BOOLEAN
  /\ IsFiniteSet(Pkid) /\ Nil \notin Corr /\ "sub" \notin Corr

VARIABLES
  net,         \* rumqttc has a connection
  req,         \* its request channel: deliveries and "sub"
  drained,     \* what the last connection took with it
  inflight,    \* of a packet id: the delivery published under it, or Nil
  subscribed,  \* the broker's session has the subscriptions
  acked,       \* history: deliveries that the broker has acknowledged
  evq,         \* events for the main loop
  tracker,     \* DeliveryTracker: [pending, awaiting, connected, replay, skip], and of history [evicted]
  main,        \* the main loop: "run", or "sub": in subscribe_many
  result       \* of a delivery: "idle", "open", "failed" or "delivered" for its last Send

vars == <<net, req, drained, inflight, subscribed, acked, evq, tracker, main, result>>
lib == <<net, req, drained, inflight, subscribed, acked>>

NoAck == [k \in Pkid |-> Nil]
NoTracker == [pending |-> <<>>, awaiting |-> NoAck, connected |-> FALSE, replay |-> 0, skip |-> 0,
              evicted |-> {}]
Init ==
  /\ net = FALSE /\ req = <<>> /\ drained = <<>> /\ inflight = NoAck /\ subscribed = FALSE
  /\ acked = {} /\ evq = <<>> /\ main = "run"
  /\ tracker = NoTracker
  /\ result = [c \in Corr |-> "idle"]

(* ------------------------- rumqttc and the broker --------------------- *)

\* The polling task, through classify: it waits for room in the event channel.
Poll(e) == Len(evq) < EventCap /\ evq' = Append(evq, e)

ConnAck(resumed) ==
  /\ ~net /\ net' = TRUE
  /\ req' = IF resumed THEN drained \o req ELSE req
  /\ drained' = <<>> /\ Poll(<<"connected", resumed>>)
  /\ UNCHANGED <<inflight, subscribed, acked, tracker, main, result>>

ConnectFails == ~net /\ Poll(<<"error">>) /\ UNCHANGED <<lib, tracker, main, result>>

Outgoing ==
  /\ net /\ req # <<>> /\ req' = Tail(req)
  /\ IF Head(req) = "sub"
     THEN subscribed' = TRUE /\ UNCHANGED <<inflight, evq>>
     ELSE \E k \in Pkid :
            /\ inflight[k] = Nil
            /\ inflight' = [inflight EXCEPT ![k] = Head(req)]
            /\ Poll(<<"out", k>>) /\ UNCHANGED subscribed
  /\ UNCHANGED <<net, drained, acked, tracker, main, result>>

PubAck(k) ==
  /\ net /\ inflight[k] # Nil
  /\ inflight' = [inflight EXCEPT ![k] = Nil] /\ acked' = acked \cup {inflight[k]}
  /\ Poll(<<"ack", k>>)
  /\ UNCHANGED <<net, req, drained, subscribed, tracker, main, result>>

\* The connection drops.  The broker may have had any of what was in flight.
Drop ==
  /\ net /\ net' = FALSE
  /\ LET sent == {inflight[k] : k \in {j \in Pkid : inflight[j] # Nil}} IN
     \E order \in Bijection(1..Cardinality(sent), sent) :
       drained' = order \o SelectSeq(req, LAMBDA r : r # "sub")
  /\ req' = <<>> /\ inflight' = NoAck /\ subscribed' = FALSE /\ Poll(<<"error">>)
  /\ UNCHANGED <<acked, tracker, main, result>>

(* ---------------------------- the main loop --------------------------- *)

\* DeliveryTracker::on_connect and Bridge::on_mqtt: subscriptions are issued on every
\* CONNACK, where subscribe_many waits for room in the request channel.
SubscribesFirst == acked = {}
Subscribes == TRUE
OnConnect(resumed) ==
  /\ tracker' = [tracker EXCEPT !.connected = TRUE, !.replay = 0,
                   !.skip = IF resumed THEN tracker.replay ELSE 0]
  /\ main' = IF Subscribes THEN "sub" ELSE "run"
  /\ UNCHANGED result

Subscribed ==
  /\ main = "sub" /\ Len(req) < ReqCap
  /\ req' = Append(req, "sub") /\ main' = "run"
  /\ UNCHANGED <<net, drained, inflight, subscribed, acked, evq, tracker, result>>

\* on_outgoing_publish; past the cap any entry may be evicted.
Awaiting(t) == {k \in Pkid : t.awaiting[k] # Nil}
OnOutgoingPublishUncapped(k) ==
  /\ IF ~tracker.connected \/ tracker.pending = <<>> THEN UNCHANGED tracker
     ELSE tracker' = [tracker EXCEPT !.pending = Tail(@), !.awaiting[k] = Head(tracker.pending)]
  /\ UNCHANGED <<main, result>>
OnOutgoingPublish(k) ==
  /\ IF ~tracker.connected THEN UNCHANGED tracker
     ELSE IF tracker.skip > 0 THEN tracker' = [tracker EXCEPT !.skip = @ - 1]
     ELSE IF tracker.pending = <<>> THEN UNCHANGED tracker
     ELSE LET t == [tracker EXCEPT !.pending = Tail(@), !.awaiting[k] = Head(tracker.pending)] IN
          IF Cardinality(Awaiting(t)) <= AckCap THEN tracker' = t
          ELSE \E stale \in Awaiting(t) :
                 tracker' = [t EXCEPT !.awaiting[stale] = Nil, !.evicted = @ \cup {t.awaiting[stale]}]
  /\ UNCHANGED <<main, result>>

\* on_puback.
OnPuback(k) ==
  /\ tracker' = [tracker EXCEPT !.awaiting[k] = Nil]
  /\ result' = IF tracker.awaiting[k] = Nil THEN result
               ELSE [result EXCEPT ![tracker.awaiting[k]] = "delivered"]
  /\ UNCHANGED main

\* on_disconnect: everything that is tracked fails, once per connection.
Tracked == Range(tracker.pending) \cup {tracker.awaiting[k] : k \in Awaiting(tracker)}
OnDisconnectPending ==
  /\ IF ~tracker.connected THEN UNCHANGED <<tracker, result>>
     ELSE /\ tracker' = [tracker EXCEPT !.connected = FALSE, !.pending = <<>>]
          /\ result' = [c \in Corr |-> IF c \in Range(tracker.pending) THEN "failed" ELSE result[c]]
  /\ UNCHANGED main
OnDisconnect ==
  /\ IF ~tracker.connected THEN UNCHANGED <<tracker, result>>
     ELSE /\ tracker' = [tracker EXCEPT !.connected = FALSE, !.pending = <<>>, !.awaiting = NoAck,
                           !.replay = Len(tracker.pending) + Cardinality(Awaiting(tracker))]
          /\ result' = [c \in Corr |-> IF c \in Tracked THEN "failed" ELSE result[c]]
  /\ UNCHANGED main

OnMqtt ==
  /\ main = "run" /\ evq # <<>> /\ evq' = Tail(evq)
  /\ LET e == Head(evq) IN
     CASE e[1] = "connected" -> OnConnect(e[2])
       [] e[1] = "out"       -> OnOutgoingPublish(e[2])
       [] e[1] = "ack"       -> OnPuback(e[2])
       [] e[1] = "error"     -> OnDisconnect
  /\ UNCHANGED lib

\* A Send, of a delivery that the daemon does not wait for, or no longer does: try_publish, or a failure
\* at once if the channel is full or the broker would not take so large a packet.
Send(c) ==
  /\ main = "run" /\ (result[c] \in {"idle", "failed"} \/ c \in tracker.evicted)
  /\ \/ /\ Len(req) < ReqCap /\ req' = Append(req, c)
        /\ tracker' = [tracker EXCEPT !.pending = Append(@, c), !.evicted = @ \ {c}]
        /\ result' = [result EXCEPT ![c] = "open"]
     \/ result' = [result EXCEPT ![c] = "failed"] /\ UNCHANGED <<req, tracker>>
  /\ UNCHANGED <<net, drained, inflight, subscribed, acked, evq, main>>

\* The daemon replaces the process (PluginHost): one that waits in subscribe_many on a
\* full channel answers no ping.  The daemon takes its deliveries back.
Replaced ==
  /\ main = "sub" /\ Len(req) >= ReqCap
  /\ net' = FALSE /\ req' = <<>> /\ drained' = <<>> /\ inflight' = NoAck /\ subscribed' = FALSE
  /\ evq' = <<>> /\ main' = "run" /\ UNCHANGED acked
  /\ tracker' = NoTracker
  /\ result' = [c \in Corr |-> IF result[c] = "open" THEN "failed" ELSE result[c]]

Next ==
  \/ \E r \in Resumed : ConnAck(r)
  \/ ConnectFails \/ Outgoing \/ Drop \/ Subscribed \/ OnMqtt \/ Replaced
  \/ \E k \in Pkid : PubAck(k)
  \/ \E c \in Corr : Send(c)

Spec == Init /\ [][Next]_vars

(* ----------------------------- properties ----------------------------- *)

\* The types of the channels and the tracker; all of them stay within their capacities.
TypeOK ==
  /\ net \in BOOLEAN /\ Len(req) <= ReqCap /\ Len(evq) <= EventCap
  /\ inflight \in [Pkid -> Corr \cup {Nil}] /\ acked \subseteq Corr
  /\ tracker.awaiting \in [Pkid -> Corr \cup {Nil}] /\ Cardinality(Awaiting(tracker)) <= AckCap
  /\ main \in {"run", "sub"} /\ result \in [Corr -> {"idle", "open", "failed", "delivered"}]

Queued(k) == {i \in DOMAIN evq : evq[i][1] = k}
Published == {i \in DOMAIN req : req[i] # "sub"}

\* Every publish is answered: a delivery that is waited for is in the tracker, and
\* what would settle it is on its way: the packet it is paired with is in flight or
\* its acknowledgement is queued, or the error is that fails everything.  (An entry
\* that the cap evicts is given up, and the daemon's own retry takes over.)
EveryPublishAnswered ==
  /\ \A c \in Corr : result[c] = "open" => c \in Tracked \cup tracker.evicted
  /\ \A k \in Awaiting(tracker) :
       inflight[k] # Nil \/ Queued("error") # {} \/ \E i \in Queued("ack") : evq[i][2] = k
  /\ tracker.connected /\ Queued("error") = {} =>
       Len(tracker.pending) <= Cardinality(Published) + Cardinality(Queued("out"))

\* "Without this a reconnect leaves the plugin alive, answering Ping, and deaf": on
\* every connection the plugin is subscribed, or about to be.
NeverDeaf ==
  net => subscribed \/ main = "sub" \/ "sub" \in Range(req) \/ Queued("connected") # {}

\* DeliveryTracker: "DeliveryResult reflects broker acknowledgment rather than merely
\* local eventloop-channel enqueue".
DeliveredWasAcked == \A c \in Corr : result[c] = "delivered" => c \in acked

\* The bridge neither loses a publish nor stops to hear: whatever order the event loop,
\* the tracker and the main loop run in, and whenever the connection drops.
BridgeSound == TypeOK /\ EveryPublishAnswered /\ NeverDeaf
=============================================================================
