----------------------------- MODULE PluginHost -----------------------------
(***************************************************************************)
(* The daemon as the host of a plugin process: the supervisor that starts  *)
(* it, watches over it and restarts it, the socket it connects to, the     *)
(* table of current connections, the plugin events and the operator alerts *)
(* made of them (plugins.rs, main.rs, alerts.rs).  One plugin is modelled; *)
(* plugins share nothing.  Process and connection slots are used again,    *)
(* so a behaviour may go on for ever.  A tick is LIVENESS_POLL; time is    *)
(* kept as ages.                                                           *)
(***************************************************************************)
EXTENDS Naturals, Sequences, FiniteSetsExt

CONSTANTS
  Proc,          \* slots for processes of the plugin
  Conn,          \* slots for connections to its socket
  LIVENESS_TIMEOUT, CONNECT_TIMEOUT, HELLO_TIMEOUT, HEALTHY_RUN, ALERT_THROTTLE,
  Backoffs,      \* the ladder of delays between restarts
  EventCap,      \* capacity of the event broadcast
  RunLimit,      \* the age of a run counts up to here: no limit on it is higher
  Nil

\* PluginHandle, with the process that made the connection.
Handle == [conn : Conn \cup {Nil}, proc : Proc, connected : BOOLEAN, seen : Nat]

ASSUME HostAssumption ==
  /\ {LIVENESS_TIMEOUT, CONNECT_TIMEOUT, HELLO_TIMEOUT, HEALTHY_RUN, ALERT_THROTTLE, EventCap,
      RunLimit} \subseteq Nat \ {0}
  /\ Backoffs \in Seq(Nat) /\ Len(Backoffs) > 0
  /\ CONNECT_TIMEOUT <= LIVENESS_TIMEOUT
  /\ CONNECT_TIMEOUT <= RunLimit /\ HEALTHY_RUN <= RunLimit
  /\ \A i \in DOMAIN Backoffs : Backoffs[i] <= RunLimit
  /\ Nil \notin Proc \cup Conn \cup Handle

VARIABLES
  daemon,    \* "up" or "down"
  enabled,   \* the plugin's `enabled` in the configuration in force
  sup,       \* the supervise task: [pc, child, since, strikes]
  proc,      \* of a process: [sh, worker, wedged]: its shell lives; its plugin; a child's time wedged
  conn,      \* of a connection: [pc, proc, seen]
  handle,    \* the entry in Daemon.plugins: [conn, proc, connected, seen] or Nil
  events,    \* plugin events that the alerter has not read
  alert      \* of the subject's alerts: [sent, age]: any was sent; since the last

vars == <<daemon, enabled, sup, proc, conn, handle, events, alert>>

\* An age counts up to the first value that no limit tells from later ones.
Older(a, limit) == IF a <= limit THEN a + 1 ELSE a
WedgeLimit == LIVENESS_TIMEOUT + 1

NoProc == [sh |-> FALSE, worker |-> "gone", wedged |-> 0]
NoConn == [pc |-> "closed", proc |-> Nil, seen |-> 0]
Ready(strikes) == [pc |-> "ready", child |-> Nil, since |-> 0, strikes |-> strikes]
NoTask == [Ready(0) EXCEPT !.pc = "none"]
\* main gives only the plugins that are enabled at start-up a socket and a task.
Task == IF enabled THEN Ready(0) ELSE NoTask
Alive(p) == proc[p].sh \/ proc[p].worker # "gone"
OpenOf(p) == {c \in Conn : conn[c].pc # "closed" /\ conn[c].proc = p}

Init ==
  /\ daemon = "up" /\ enabled \in BOOLEAN
  /\ sup = Task /\ proc = [p \in Proc |-> NoProc] /\ conn = [c \in Conn |-> NoConn]
  /\ handle = Nil /\ events = <<>> /\ alert = [sent |-> FALSE, age |-> 0]

(* ------------------------------ supervise ----------------------------- *)

\* apply_config: a plugin that is disabled or enabled live.
SetEnabled == enabled' = ~enabled /\ UNCHANGED <<daemon, sup, proc, conn, handle, events, alert>>

\* After a run of some length: a healthy one resets the ladder.
RestUnbounded(since, strikes) ==
  LET s == IF since > HEALTHY_RUN THEN 0 ELSE strikes
  IN  [pc |-> "rest", child |-> Nil, since |-> 0, strikes |-> s + 1]
Rest(since, strikes) ==
  LET s == IF since > HEALTHY_RUN THEN 0 ELSE strikes
  IN  [pc |-> "rest", child |-> Nil, since |-> 0,
       strikes |-> Min({s + 1, Len(Backoffs)})]

\* A turn of the loop: spawn_config says what to start, if anything.
Spawn ==
  /\ daemon = "up" /\ sup.pc = "ready" /\ enabled
  /\ \/ \E p \in Proc :
          /\ ~Alive(p) /\ OpenOf(p) = {}
          /\ proc' = [proc EXCEPT ![p] = [sh |-> TRUE, worker |-> "ok", wedged |-> 0]]
          /\ sup' = [sup EXCEPT !.pc = "watch", !.child = p]
     \/ sup' = Rest(0, sup.strikes) /\ UNCHANGED proc   \* the spawn fails
  /\ UNCHANGED <<daemon, enabled, conn, handle, events, alert>>

\* is_wedged on the entry in the table, which may be of an earlier process.
IsWedgedConnectedOnly == handle # Nil /\ handle.connected /\ handle.seen > LIVENESS_TIMEOUT
IsWedgedHasty ==
  IF handle = Nil THEN sup.since > CONNECT_TIMEOUT
  ELSE sup.since > CONNECT_TIMEOUT /\ handle.seen > CONNECT_TIMEOUT
IsWedged ==
  IF handle = Nil THEN sup.since > CONNECT_TIMEOUT
  ELSE IF handle.connected THEN handle.seen > LIVENESS_TIMEOUT
  ELSE sup.since > CONNECT_TIMEOUT /\ handle.seen > CONNECT_TIMEOUT

\* kill_group and GroupKillOnDrop: the shell and all that it started.
Kill(p) == [proc EXCEPT ![p] = NoProc]
KillShell(p) == [proc EXCEPT ![p].sh = FALSE]

\* monitor_child: the child exits by itself ...
ChildExit ==
  /\ daemon = "up" /\ sup.pc = "watch" /\ ~proc[sup.child].sh
  /\ sup' = Rest(sup.since, sup.strikes)
  /\ UNCHANGED <<daemon, enabled, proc, conn, handle, events, alert>>

\* ... or the poll finds it wedged.
MonitorKillShell ==
  /\ daemon = "up" /\ sup.pc = "watch" /\ proc[sup.child].sh /\ IsWedged
  /\ proc' = KillShell(sup.child)
  /\ sup' = Rest(sup.since, sup.strikes)
  /\ UNCHANGED <<daemon, enabled, conn, handle, events, alert>>
MonitorKill ==
  /\ daemon = "up" /\ sup.pc = "watch" /\ proc[sup.child].sh /\ IsWedged
  /\ proc' = Kill(sup.child)
  /\ sup' = Rest(sup.since, sup.strikes)
  /\ UNCHANGED <<daemon, enabled, conn, handle, events, alert>>

RestOver ==
  /\ daemon = "up" /\ sup.pc = "rest" /\ sup.since >= Backoffs[sup.strikes]
  /\ sup' = Ready(sup.strikes)
  /\ UNCHANGED <<daemon, enabled, proc, conn, handle, events, alert>>

(* ---------------------------- the processes --------------------------- *)

\* The plugin ends, and with it the shell that waits for it, if it still does.
Exit(p) ==
  /\ proc[p].worker # "gone"
  /\ proc' = Kill(p)
  /\ UNCHANGED <<daemon, enabled, sup, conn, handle, events, alert>>

\* The shell ends alone: the plugin lives on.
ShellDies(p) ==
  /\ proc[p].sh
  /\ proc' = KillShell(p)
  /\ UNCHANGED <<daemon, enabled, sup, conn, handle, events, alert>>

Wedge(p) ==
  /\ proc[p].worker = "ok"
  /\ proc' = [proc EXCEPT ![p].worker = "wedged"]
  /\ UNCHANGED <<daemon, enabled, sup, conn, handle, events, alert>>

(* ----------------------------- handle_conn ---------------------------- *)

\* A connection is accepted; a peer of the wrong uid is refused before any frame.
Connect(p, c) ==
  /\ sup # NoTask /\ proc[p].worker = "ok" /\ OpenOf(p) = {} /\ conn[c].pc = "closed"
  /\ conn' = [conn EXCEPT ![c] = [pc |-> "hello", proc |-> p, seen |-> 0]]
  /\ handle' = IF handle # Nil /\ handle.conn = c THEN [handle EXCEPT !.conn = Nil] ELSE handle
  /\ UNCHANGED <<daemon, enabled, sup, proc, events, alert>>

\* Hello of the right name and version, of a plugin that is enabled: the connection
\* becomes the current one, whatever was before.
Hello(c) ==
  /\ conn[c].pc = "hello" /\ proc[conn[c].proc].worker = "ok" /\ enabled
  /\ conn' = [conn EXCEPT ![c].pc = "up", ![c].seen = 0]
  /\ handle' = [conn |-> c, proc |-> conn[c].proc, connected |-> TRUE, seen |-> 0]
  /\ UNCHANGED <<daemon, enabled, sup, proc, events, alert>>

\* A refused or unreadable Hello, or none within HELLO_TIMEOUT.
NoHello(c) ==
  /\ conn[c].pc = "hello"
  /\ conn' = [conn EXCEPT ![c] = NoConn]
  /\ UNCHANGED <<daemon, enabled, sup, proc, handle, events, alert>>

\* emit_event: the broadcast drops its oldest event when it is full.
Emit(up) == events' = IF Len(events) < EventCap THEN Append(events, up) ELSE Append(Tail(events), up)

AnnounceUp(c) ==
  /\ conn[c].pc = "up"
  /\ conn' = [conn EXCEPT ![c].pc = "live"] /\ Emit(TRUE)
  /\ UNCHANGED <<daemon, enabled, sup, proc, handle, alert>>

\* The read loop gets a frame; the answer to a ping is one.  It refreshes last_seen,
\* which the table shares while the connection is the current one.
Frame(c) ==
  /\ conn[c].pc = "live" /\ proc[conn[c].proc].worker = "ok" /\ conn[c].seen > 0
  /\ conn' = [conn EXCEPT ![c].seen = 0]
  /\ handle' = IF handle # Nil /\ handle.conn = c THEN [handle EXCEPT !.seen = 0] ELSE handle
  /\ UNCHANGED <<daemon, enabled, sup, proc, events, alert>>

\* The read loop ends: the peer is gone, sends rubbish, or was silent too long.  Only
\* the current connection clears the entry.
StillCurrentAlways(c) == handle # Nil
StillCurrent(c) == handle # Nil /\ handle.conn = c
ReadEnds(c) ==
  /\ conn[c].pc = "live"
  /\ proc[conn[c].proc].worker # "wedged" \/ conn[c].seen >= LIVENESS_TIMEOUT
  /\ IF StillCurrent(c)
     THEN handle' = [handle EXCEPT !.connected = FALSE] /\ conn' = [conn EXCEPT ![c].pc = "down"]
     ELSE UNCHANGED handle /\ conn' = [conn EXCEPT ![c] = NoConn]
  /\ UNCHANGED <<daemon, enabled, sup, proc, events, alert>>

AnnounceDown(c) ==
  /\ conn[c].pc = "down"
  /\ conn' = [conn EXCEPT ![c] = NoConn] /\ Emit(FALSE)
  /\ UNCHANGED <<daemon, enabled, sup, proc, handle, alert>>

(* ------------------------------- alerter ------------------------------ *)

\* handle_event with warn_throttle_due, for an `alerts` block that names another plugin.
DueAlways == TRUE
Due == ~alert.sent \/ alert.age >= ALERT_THROTTLE
HandleEvent ==
  /\ daemon = "up" /\ events # <<>>
  /\ events' = Tail(events)
  /\ alert' = IF Due THEN [sent |-> TRUE, age |-> 0] ELSE alert
  /\ UNCHANGED <<daemon, enabled, sup, proc, conn, handle>>

(* ----------------------------- the daemon ----------------------------- *)

Down ==
  /\ daemon' = "down" /\ sup' = NoTask /\ conn' = [c \in Conn |-> NoConn] /\ handle' = Nil
  /\ events' = <<>> /\ alert' = [sent |-> FALSE, age |-> 0]
  /\ UNCHANGED enabled

\* SIGTERM or SIGINT: request_plugin_shutdown, a short wait, in which a plugin may end,
\* and then the runtime drops the supervise tasks with their children.
Shutdown ==
  /\ daemon = "up" /\ Down
  /\ LET dropped == IF sup.pc = "watch" THEN {sup.child} ELSE {}
         asked == IF handle # Nil /\ handle.connected /\ proc[handle.proc].worker = "ok"
                  THEN {handle.proc} ELSE {}
     IN  \E ended \in SUBSET asked :
           proc' = [p \in Proc |-> IF p \in dropped \cup ended THEN NoProc ELSE proc[p]]

\* The daemon is killed: nothing of the above happens.
Crash == daemon = "up" /\ Down /\ UNCHANGED proc

\* main: sockets, supervisor and alerter start afresh.
Start ==
  /\ daemon = "down" /\ daemon' = "up" /\ sup' = Task
  /\ UNCHANGED <<enabled, proc, conn, handle, events, alert>>

\* What a poll of monitor_child would act on.
PollActs == sup.pc = "watch" /\ (~proc[sup.child].sh \/ IsWedged)

\* Time passes.  A poll acts at once on what it finds, a deadline is kept, and a plugin
\* that is not wedged connects in time and answers its pings.
Tick ==
  /\ daemon = "up" /\ events = <<>> /\ ~PollActs
  /\ \A c \in Conn :
       /\ conn[c].pc \notin {"up", "down"}
       /\ conn[c].pc = "hello" => conn[c].seen < HELLO_TIMEOUT
       /\ conn[c].pc = "live" => conn[c].seen < LIVENESS_TIMEOUT
  /\ sup' = IF sup.pc \in {"none", "ready"} THEN sup ELSE [sup EXCEPT !.since = Older(@, RunLimit)]
  /\ proc' = [p \in Proc |-> IF proc[p].worker = "wedged" /\ sup.child = p
                             THEN [proc[p] EXCEPT !.wedged = Older(@, WedgeLimit)] ELSE proc[p]]
  /\ conn' = [c \in Conn |-> IF conn[c].pc \in {"hello", "live"}
                             THEN [conn[c] EXCEPT !.seen = Older(@, LIVENESS_TIMEOUT)] ELSE conn[c]]
  /\ handle' = IF handle = Nil THEN Nil ELSE [handle EXCEPT !.seen = Older(@, LIVENESS_TIMEOUT)]
  /\ alert' = IF alert.sent THEN [alert EXCEPT !.age = Older(@, ALERT_THROTTLE - 1)] ELSE alert
  /\ UNCHANGED <<daemon, enabled, events>>

Next ==
  \/ SetEnabled \/ Spawn \/ ChildExit \/ MonitorKill \/ RestOver
  \/ \E p \in Proc : Exit(p) \/ ShellDies(p) \/ Wedge(p)
  \/ \E p \in Proc, c \in Conn : Connect(p, c)
  \/ \E c \in Conn : \/ Hello(c) \/ NoHello(c) \/ AnnounceUp(c) \/ Frame(c)
                     \/ ReadEnds(c) \/ AnnounceDown(c)
  \/ HandleEvent
  \/ Shutdown \/ Crash \/ Start
  \/ Tick

Spec == Init /\ [][Next]_vars

(* ----------------------------- properties ----------------------------- *)

\* The types of the supervisor, the processes, the connections and the event broadcast;
\* a child is watched exactly while there is one, and the ladder of delays has an end.
TypeOK ==
  /\ daemon \in {"up", "down"} /\ enabled \in BOOLEAN
  /\ sup.pc \in {"none", "ready", "watch", "rest"} /\ sup.strikes \in 0..Len(Backoffs)
  /\ sup.since \in 0..(RunLimit + 1) /\ (sup.pc = "watch") = (sup.child \in Proc)
  /\ \A p \in Proc : proc[p].worker \in {"ok", "wedged", "gone"}
  /\ \A c \in Conn : conn[c].pc \in {"hello", "up", "live", "down", "closed"}
  /\ Len(events) <= EventCap

\* No live connection is black-holed: the table shows the plugin connected exactly
\* while the connection that said Hello last is open, though the teardown of an older
\* one may come at any time.
CurrentIsLive ==
  handle # Nil =>
    handle.connected = (handle.conn \in Conn /\ conn[handle.conn].pc \in {"up", "live"})

\* A restart after a liveness kill, or after a daemon that was shut down, never runs
\* beside what it replaces: the whole group of the child is gone, not only its shell.
NoDuplicateAfterKill ==
  sup.pc = "watch" /\ sup'.pc # "watch" /\ proc[sup.child].sh /\ (daemon' = "up" \/ proc' # proc)
    => proc'[sup.child] = NoProc

\* "A slow-but-healthy plugin is never falsely killed": one that holds the current
\* connection and answers is not.
HealthyNotKilled ==
  sup.pc = "watch" /\ proc[sup.child].sh /\ sup'.pc = "rest" =>
    ~(/\ proc[sup.child].worker = "ok"
      /\ handle # Nil /\ handle.proc = sup.child /\ handle.connected)

\* A child that hangs, connected or not, is killed: within LIVENESS_TIMEOUT and a poll,
\* unless another process has taken its place in the table.
WedgedIsReplaced ==
  sup.pc = "watch" /\ (handle = Nil \/ handle.proc = sup.child) =>
    proc[sup.child].wedged <= WedgeLimit

\* However a plugin flaps, two alerts about it are ALERT_THROTTLE apart.
AlertsThrottled ==
  alert'.age = 0 /\ alert' # alert /\ alert.sent /\ daemon' = "up" => alert.age >= ALERT_THROTTLE

\* The supervisor watches the right connection and acts on it: the table shows the
\* current connection as it is, and a child that hangs is replaced in time.
SupervisionSound == TypeOK /\ CurrentIsLive /\ WedgedIsReplaced

\* The supervisor kills what hangs and nothing else, all of it, and says so no more often
\* than the throttle allows.
KillsSound == [][NoDuplicateAfterKill /\ HealthyNotKilled /\ AlertsThrottled]_vars
=============================================================================
