-------------------------- MODULE PluginHostProofs --------------------------
(***************************************************************************)
(* The host of a plugin, for any number of processes and connections, any  *)
(* timeouts and any ladder of delays.  The table agrees with the newest    *)
(* connection (Current), and the time a child has been wedged is bounded   *)
(* by ages that the poll can see (Wedging).                                *)
(***************************************************************************)
EXTENDS PluginHost, TLAPS

\* The prover of a step that names none, and its seconds.
USE ZenonT(60)

SupType ==
  /\ sup \in [pc : {"none", "ready", "watch", "rest"}, child : Proc \cup {Nil},
              since : 0..(RunLimit + 1), strikes : 0..Len(Backoffs)]
  /\ sup.pc = "watch" <=> sup.child \in Proc

ProcType ==
  proc \in [Proc -> [sh : BOOLEAN, worker : {"ok", "wedged", "gone"}, wedged : Nat]]

ConnType ==
  /\ conn \in [Conn -> [pc : {"hello", "up", "live", "down", "closed"},
                        proc : Proc \cup {Nil}, seen : Nat]]
  /\ \A c \in Conn : conn[c].pc # "closed" => conn[c].proc \in Proc

HandleType == handle \in Handle \cup {Nil}

EventType ==
  /\ daemon \in {"up", "down"} /\ enabled \in BOOLEAN
  /\ events \in Seq(BOOLEAN) /\ Len(events) <= EventCap
  /\ alert \in [sent : BOOLEAN, age : Nat]

HostType == SupType /\ ProcType /\ ConnType /\ HandleType /\ EventType

\* The entry in the table is of its connection as long as that is open, and shares its
\* last_seen, which the deadline of the read loop keeps within LIVENESS_TIMEOUT.
Current ==
  handle # Nil =>
    /\ handle.connected <=> (handle.conn \in Conn /\ conn[handle.conn].pc \in {"up", "live"})
    /\ handle.conn \in Conn /\ conn[handle.conn].pc # "closed" =>
         conn[handle.conn].pc # "hello" /\ conn[handle.conn].proc = handle.proc
    /\ handle.connected =>
         handle.seen = conn[handle.conn].seen /\ handle.seen <= LIVENESS_TIMEOUT

\* A child has not been wedged for longer than it has run, nor for longer than since its
\* last frame, where those ages are still counted; so it is not wedged for long.
Wedging ==
  /\ \A p \in Proc : proc[p].worker # "wedged" => proc[p].wedged = 0
  /\ sup.pc = "watch" =>
       /\ proc[sup.child].wedged <= sup.since \/ sup.since > CONNECT_TIMEOUT
       /\ handle # Nil /\ handle.proc = sup.child =>
            proc[sup.child].wedged <= handle.seen \/ handle.seen > LIVENESS_TIMEOUT
       /\ handle = Nil \/ handle.proc = sup.child =>
            proc[sup.child].wedged <= LIVENESS_TIMEOUT + 1

\* A daemon that is down supervises nothing.
Unsupervised == daemon = "down" => sup.pc = "none"

HostInv == HostType /\ Unsupervised /\ Current /\ Wedging

\* Every constant is a natural number, and no limit on the age of a run is above RunLimit.
LEMMA Constants ==
  /\ LIVENESS_TIMEOUT \in Nat /\ CONNECT_TIMEOUT \in Nat /\ HEALTHY_RUN \in Nat
  /\ ALERT_THROTTLE \in Nat \ {0} /\ EventCap \in Nat \ {0} /\ RunLimit \in Nat
  /\ Len(Backoffs) \in Nat \ {0}
  /\ CONNECT_TIMEOUT <= LIVENESS_TIMEOUT /\ CONNECT_TIMEOUT <= RunLimit
  /\ Nil \notin Proc /\ Nil \notin Conn /\ Nil \notin Handle
BY HostAssumption, SMTT(30)

\* The lower of two numbers.
LEMMA MinOfTwo ==
  ASSUME NEW a \in Nat, NEW b \in Nat
  PROVE  Min({a, b}) \in {a, b} /\ Min({a, b}) <= b
<1>1. \E x \in {a, b} : \A y \in {a, b} : x <= y
  <2>1. CASE a <= b
    BY <2>1, SMTT(30)
  <2>2. CASE b <= a
    BY <2>2, SMTT(30)
  <2>. QED
    BY <2>1, <2>2, SMTT(30)
<1>. QED
  BY <1>1 DEF Min

\* The supervisor rests after a run on some rung of the ladder.
LEMMA RestFacts ==
  ASSUME NEW since \in Nat, NEW strikes \in 0..Len(Backoffs)
  PROVE  /\ Rest(since, strikes) \in
              [pc : {"rest"}, child : {Nil}, since : {0}, strikes : 0..Len(Backoffs)]
         /\ Rest(since, strikes).pc = "rest" /\ Rest(since, strikes).child = Nil
<1>. DEFINE s == IF since > HEALTHY_RUN THEN 0 ELSE strikes
<1>1. s \in Nat /\ s + 1 \in Nat /\ Len(Backoffs) \in Nat
  BY Constants, SMTT(30)
<1>2. Min({s + 1, Len(Backoffs)}) \in 0..Len(Backoffs)
  <2>. HIDE DEF s
  <2>. QED
    BY <1>1, MinOfTwo, SMTT(30)
<1>. QED
  BY <1>2 DEF Rest

\* The broadcast stays within its capacity.
LEMMA EmitFacts ==
  ASSUME events \in Seq(BOOLEAN), Len(events) <= EventCap, NEW up \in BOOLEAN, Emit(up)
  PROVE  events' \in Seq(BOOLEAN) /\ Len(events') <= EventCap
<1>1. CASE Len(events) < EventCap
  BY <1>1, Constants, SMTT(30) DEF Emit
<1>2. CASE ~(Len(events) < EventCap)
  <2>1. events # <<>>
    BY <1>2, Constants, SMTT(30)
  <2>2. Tail(events) \in Seq(BOOLEAN) /\ Len(Tail(events)) = Len(events) - 1
    BY <2>1, SMTT(30)
  <2>3. events' = Append(Tail(events), up)
    BY <1>2 DEF Emit
  <2>. QED
    BY <2>2, <2>3, Constants, SMTT(30)
<1>. QED
  BY <1>1, <1>2
\* An age goes up by one, or is past its limit already.
LEMMA OlderFacts ==
  ASSUME NEW a \in Nat, NEW limit \in Nat
  PROVE  /\ Older(a, limit) \in Nat
         /\ a <= limit => Older(a, limit) = a + 1
         /\ a > limit => Older(a, limit) = a
         /\ a <= limit + 1 => Older(a, limit) <= limit + 1
BY SMTT(30) DEF Older

\* One action is taken in every step.
LEMMA Actions ==
  ASSUME Next
  PROVE  \/ SetEnabled \/ Spawn \/ ChildExit \/ MonitorKill \/ RestOver
         \/ \E p \in Proc : Exit(p)
         \/ \E p \in Proc : ShellDies(p)
         \/ \E p \in Proc : Wedge(p)
         \/ \E p \in Proc, c \in Conn : Connect(p, c)
         \/ \E c \in Conn : Hello(c)
         \/ \E c \in Conn : NoHello(c)
         \/ \E c \in Conn : AnnounceUp(c)
         \/ \E c \in Conn : Frame(c)
         \/ \E c \in Conn : ReadEnds(c)
         \/ \E c \in Conn : AnnounceDown(c)
         \/ HandleEvent \/ Shutdown \/ Crash \/ Start \/ Tick
BY DEF Next

\* The task of a start-up is none, or ready.
LEMMA TaskFacts ==
  /\ NoTask \in [pc : {"none"}, child : {Nil}, since : {0}, strikes : {0}]
  /\ NoTask.pc = "none" /\ NoTask.child = Nil
  /\ \A s \in 0..Len(Backoffs) :
       /\ Ready(s) \in [pc : {"ready"}, child : {Nil}, since : {0}, strikes : 0..Len(Backoffs)]
       /\ Ready(s).pc = "ready" /\ Ready(s).child = Nil
  /\ Task.pc \in {"none", "ready"} /\ Task.child = Nil
  /\ Task \in [pc : {"none", "ready"}, child : {Nil}, since : {0}, strikes : {0}]
<1>1. Task = NoTask \/ Task = Ready(0)
  BY DEF Task
<1>2. 0 \in 0..Len(Backoffs)
  BY Constants, SMTT(30)
<1>3. NoTask = [pc |-> "none", child |-> Nil, since |-> 0, strikes |-> 0]
  BY SMTT(30) DEF NoTask, Ready
<1>4. \A s : Ready(s) = [pc |-> "ready", child |-> Nil, since |-> 0, strikes |-> s]
  BY DEF Ready
<1>. QED
  BY <1>1, <1>2, <1>3, <1>4, SMTT(30)

\* Every field of the state has its type after every step.
LEMMA SupStep ==
  ASSUME HostType, Next
  PROVE  SupType'
<1>1. /\ sup.since \in Nat /\ sup.strikes \in 0..Len(Backoffs) /\ sup.child \in Proc \cup {Nil}
      /\ 0 \in 0..Len(Backoffs) /\ 0 \in 0..(RunLimit + 1)
  BY Constants, SMTT(30) DEF HostType, SupType
<1>2. CASE sup' = sup
  BY <1>2 DEF HostType, SupType
<1>3. CASE sup' = Rest(sup.since, sup.strikes) \/ sup' = Rest(0, sup.strikes)
  <2>1. /\ sup' \in [pc : {"rest"}, child : {Nil}, since : {0}, strikes : 0..Len(Backoffs)]
        /\ sup'.pc = "rest" /\ sup'.child = Nil
    <3>1. CASE sup' = Rest(sup.since, sup.strikes)
      BY <1>1, <3>1, RestFacts
    <3>2. CASE sup' = Rest(0, sup.strikes)
      <4>1. 0 \in Nat
        OBVIOUS
      <4>. QED
        BY <1>1, <3>2, <4>1, RestFacts
    <3>. QED
      BY <1>3, <3>1, <3>2
  <2>. QED
    BY <1>1, <2>1, Constants DEF SupType
<1>4. CASE sup' \in {NoTask, Task, Ready(sup.strikes)}
  <2>1. /\ sup' \in [pc : {"none", "ready"}, child : {Nil}, since : {0}, strikes : 0..Len(Backoffs)]
        /\ sup'.pc # "watch" /\ sup'.child = Nil
    <3>1. CASE sup' = NoTask
      BY <1>1, <3>1, TaskFacts
    <3>2. CASE sup' = Task
      BY <1>1, <3>2, TaskFacts
    <3>3. CASE sup' = Ready(sup.strikes)
      BY <1>1, <3>3, TaskFacts
    <3>. QED
      BY <1>4, <3>1, <3>2, <3>3
  <2>. QED
    BY <1>1, <2>1, Constants DEF SupType
<1>5. CASE \E p \in Proc : sup' = [sup EXCEPT !.pc = "watch", !.child = p]
  <2>. PICK p \in Proc : sup' = [sup EXCEPT !.pc = "watch", !.child = p]
    BY <1>5
  <2>1. sup' = [pc |-> "watch", child |-> p, since |-> sup.since, strikes |-> sup.strikes]
    BY DEF HostType, SupType
  <2>2. sup.since \in 0..(RunLimit + 1)
    BY DEF HostType, SupType
  <2>. QED
    BY <1>1, <2>1, <2>2 DEF SupType
<1>6. CASE /\ sup.pc \notin {"none", "ready"}
           /\ sup' = [sup EXCEPT !.since = Older(@, RunLimit)]
  <2>1. Older(sup.since, RunLimit) \in 0..(RunLimit + 1)
    <3>1. sup.since \in 0..(RunLimit + 1)
      BY DEF HostType, SupType
    <3>. QED
      BY <3>1, Constants, SMTT(30) DEF Older
  <2>2. sup' = [pc |-> sup.pc, child |-> sup.child, since |-> Older(sup.since, RunLimit),
                strikes |-> sup.strikes]
    BY <1>6 DEF HostType, SupType
  <2>3. /\ sup.pc \in {"none", "ready", "watch", "rest"}
        /\ sup.pc = "watch" <=> sup.child \in Proc
    BY DEF HostType, SupType
  <2>. QED
    BY <1>1, <2>1, <2>2, <2>3 DEF SupType
<1>7. CASE Spawn
  BY <1>7, <1>3, <1>5 DEF Spawn
<1>8. CASE ChildExit \/ MonitorKill \/ RestOver
  BY <1>8, <1>3, <1>4 DEF ChildExit, MonitorKill, RestOver
<1>9. CASE Shutdown \/ Crash \/ Start
  BY <1>9, <1>4 DEF Shutdown, Crash, Start, Down
<1>10. CASE Tick
  BY <1>10, <1>2, <1>6 DEF Tick
<1>. QED
  BY Actions, <1>2, <1>7, <1>8, <1>9, <1>10
  DEF SetEnabled, Exit, ShellDies, Wedge, Connect, Hello, NoHello, AnnounceUp, Frame, ReadEnds,
      AnnounceDown, HandleEvent

LEMMA ProcStep ==
  ASSUME HostType, Next
  PROVE  ProcType'
<1>. USE DEF HostType, ProcType
<1>. DEFINE R == [sh : BOOLEAN, worker : {"ok", "wedged", "gone"}, wedged : Nat]
<1>1. NoProc \in [sh : BOOLEAN, worker : {"ok", "wedged", "gone"}, wedged : Nat]
  BY DEF NoProc
<1>2. CASE UNCHANGED proc
  BY <1>2
<1>3. CASE \E p \in Proc \cup {Nil} : proc' = Kill(p) \/ proc' = KillShell(p)
  <2>. PICK p \in Proc \cup {Nil} : proc' = Kill(p) \/ proc' = KillShell(p)
    BY <1>3
  <2>1. CASE proc' = Kill(p)
    BY <1>1, <2>1 DEF Kill
  <2>2. CASE proc' = KillShell(p)
    <3>1. \A q \in Proc : [proc[q] EXCEPT !.sh = FALSE] \in R
      OBVIOUS
    <3>2. proc' = [q \in Proc |-> IF q = p THEN [proc[q] EXCEPT !.sh = FALSE] ELSE proc[q]]
      BY <2>2 DEF KillShell
    <3>. HIDE DEF R
    <3>3. proc \in [Proc -> R]
      BY DEF R
    <3>4. proc' \in [Proc -> R]
      BY <3>1, <3>2, <3>3
    <3>. QED
      BY <3>4 DEF R
  <2>. QED
    BY <2>1, <2>2
<1>4. CASE Spawn
  <2>1. CASE UNCHANGED proc
    BY <2>1
  <2>2. CASE \E p \in Proc :
               proc' = [proc EXCEPT ![p] = [sh |-> TRUE, worker |-> "ok", wedged |-> 0]]
    <3>1. [sh |-> TRUE, worker |-> "ok", wedged |-> 0] \in R
      OBVIOUS
    <3>. HIDE DEF R
    <3>. QED
      BY <2>2, <3>1 DEF R
  <2>. QED
    BY <1>4, <2>1, <2>2 DEF Spawn
<1>5. CASE \E p \in Proc : Wedge(p)
  <2>. PICK p \in Proc : Wedge(p)
    BY <1>5
  <2>1. proc' = [proc EXCEPT ![p] = [proc[p] EXCEPT !.worker = "wedged"]]
    BY DEF Wedge
  <2>2. [proc[p] EXCEPT !.worker = "wedged"] \in R
    OBVIOUS
  <2>. HIDE DEF R
  <2>. QED
    BY <2>1, <2>2 DEF R
<1>6. CASE Shutdown
  BY <1>1, <1>6 DEF Shutdown
<1>7. CASE Tick
  <2>1. \A p \in Proc : Older(proc[p].wedged, WedgeLimit) \in Nat
    BY Constants, SMTT(30) DEF WedgeLimit, Older
  <2>2. \A p \in Proc : proc'[p] \in R
    <3>. TAKE p \in Proc
    <3>1. CASE proc'[p] = proc[p]
      BY <3>1
    <3>2. CASE proc'[p] = [proc[p] EXCEPT !.wedged = Older(@, WedgeLimit)]
      <4>1. proc'[p] = [sh |-> proc[p].sh, worker |-> proc[p].worker,
                        wedged |-> Older(proc[p].wedged, WedgeLimit)]
        BY <3>2
      <4>. QED
        BY <2>1, <4>1, SMTT(30)
    <3>. QED
      BY <1>7, <3>1, <3>2 DEF Tick
  <2>3. proc' = [p \in Proc |-> proc'[p]]
    BY <1>7 DEF Tick
  <2>. QED
    BY <2>2, <2>3
<1>8. CASE MonitorKill \/ (\E p \in Proc : Exit(p)) \/ (\E p \in Proc : ShellDies(p))
  BY <1>8, <1>3 DEF MonitorKill, Exit, ShellDies, SupType
<1>. QED
  BY Actions, <1>2, <1>4, <1>5, <1>6, <1>7, <1>8
  DEF SetEnabled, ChildExit, RestOver, Connect, Hello, NoHello, AnnounceUp, Frame, ReadEnds,
      AnnounceDown, HandleEvent, Crash, Start
LEMMA ConnStep ==
  ASSUME HostType, Next
  PROVE  ConnType'
<1>. USE DEF HostType, ConnType
<1>. DEFINE R == [pc : {"hello", "up", "live", "down", "closed"}, proc : Proc \cup {Nil}, seen : Nat]
            Fit(r) == r \in R /\ (r.pc # "closed" => r.proc \in Proc)
<1>1. Fit(NoConn)
  BY DEF NoConn
<1>2. \A c \in Conn : Fit(conn[c])
  OBVIOUS
<1>3. ASSUME NEW c \in Conn, NEW r, Fit(r), conn' = [conn EXCEPT ![c] = r]
      PROVE  ConnType'
  BY <1>3
<1>4. CASE UNCHANGED conn
  BY <1>4
<1>5. CASE conn' = [c \in Conn |-> NoConn]
  BY <1>1, <1>5
<1>6. CASE \E c \in Conn : conn' = [conn EXCEPT ![c] = NoConn]
  BY <1>1, <1>3, <1>6
<1>7. CASE \E p \in Proc, c \in Conn : Connect(p, c)
  <2>. PICK p \in Proc, c \in Conn : Connect(p, c)
    BY <1>7
  <2>1. conn' = [conn EXCEPT ![c] = [pc |-> "hello", proc |-> p, seen |-> 0]]
    BY DEF Connect
  <2>2. Fit([pc |-> "hello", proc |-> p, seen |-> 0])
    OBVIOUS
  <2>. QED
    BY <1>3, <2>1, <2>2
<1>8. CASE \E c \in Conn : Hello(c)
  <2>. PICK c \in Conn : Hello(c)
    BY <1>8
  <2>1. conn' = [conn EXCEPT ![c] = [conn[c] EXCEPT !.pc = "up", !.seen = 0]]
    BY DEF Hello
  <2>2. Fit([conn[c] EXCEPT !.pc = "up", !.seen = 0])
    BY DEF Hello
  <2>. QED
    BY <1>3, <2>1, <2>2
<1>9. ASSUME NEW c \in Conn, NEW t \in {"live", "down"}, conn[c].pc # "closed",
             conn' = [conn EXCEPT ![c].pc = t]
      PROVE  ConnType'
  <2>1. Fit([conn[c] EXCEPT !.pc = t])
    BY <1>9
  <2>. QED
    BY <1>3, <1>9, <2>1
<1>10. CASE \E c \in Conn : AnnounceUp(c)
  BY <1>9, <1>10 DEF AnnounceUp
<1>11. CASE \E c \in Conn : Frame(c)
  <2>. PICK c \in Conn : Frame(c)
    BY <1>11
  <2>1. conn' = [conn EXCEPT ![c] = [conn[c] EXCEPT !.seen = 0]]
    BY DEF Frame
  <2>2. Fit([conn[c] EXCEPT !.seen = 0])
    BY DEF Frame
  <2>. QED
    BY <1>3, <2>1, <2>2
<1>12. CASE \E c \in Conn : ReadEnds(c)
  BY <1>6, <1>9, <1>12 DEF ReadEnds
<1>13. CASE Tick
  <2>1. \A c \in Conn : Fit(conn'[c])
    <3>. TAKE c \in Conn
    <3>1. CASE conn'[c] = conn[c]
      BY <3>1
    <3>2. CASE /\ conn'[c] = [conn[c] EXCEPT !.seen = Older(@, LIVENESS_TIMEOUT)]
               /\ conn[c].pc \in {"hello", "live"}
      <4>1. Older(conn[c].seen, LIVENESS_TIMEOUT) \in Nat
        BY Constants, SMTT(30) DEF Older
      <4>. QED
        BY <3>2, <4>1
    <3>. QED
      BY <1>13, <3>1, <3>2 DEF Tick
  <2>2. conn' = [c \in Conn |-> conn'[c]]
    BY <1>13 DEF Tick
  <2>. QED
    BY <2>1, <2>2
<1>. QED
  BY Actions, <1>4, <1>5, <1>6, <1>7, <1>8, <1>10, <1>11, <1>12, <1>13
  DEF SetEnabled, Spawn, ChildExit, MonitorKill, RestOver, Exit, ShellDies, Wedge, NoHello,
      AnnounceDown, HandleEvent, Shutdown, Crash, Start, Down

LEMMA HandleStep ==
  ASSUME HostType, Next
  PROVE  HandleType'
<1>. USE DEF HostType, HandleType
<1>1. CASE handle' = handle \/ handle' = Nil
  BY <1>1
<1>2. CASE handle # Nil /\ handle' = [handle EXCEPT !.conn = Nil]
  BY <1>2 DEF Handle
<1>3. CASE handle # Nil /\ handle' = [handle EXCEPT !.connected = FALSE]
  BY <1>3 DEF Handle
<1>4. CASE handle # Nil /\ handle' = [handle EXCEPT !.seen = 0]
  BY <1>4 DEF Handle
<1>5. CASE Tick
  <2>1. handle # Nil => Older(handle.seen, LIVENESS_TIMEOUT) \in Nat
    BY Constants, SMTT(30) DEF Older, Handle
  <2>. QED
    BY <1>1, <1>5, <2>1 DEF Tick, Handle
<1>6. CASE \E c \in Conn : Hello(c)
  BY <1>6, SMTT(30) DEF Hello, Handle, ConnType
<1>7. CASE (\E p \in Proc, c \in Conn : Connect(p, c)) \/ (\E c \in Conn : Frame(c))
  BY <1>7, <1>1, <1>2, <1>4 DEF Connect, Frame
<1>8. CASE \E c \in Conn : ReadEnds(c)
  BY <1>8, <1>1, <1>3 DEF ReadEnds, StillCurrent
<1>. QED
  BY Actions, <1>1, <1>5, <1>6, <1>7, <1>8
  DEF SetEnabled, Spawn, ChildExit, MonitorKill, RestOver, Exit, ShellDies, Wedge, NoHello,
      AnnounceUp, AnnounceDown, HandleEvent, Shutdown, Crash, Start, Down
LEMMA EventStep ==
  ASSUME HostType, Next
  PROVE  EventType'
<1>. USE DEF HostType, EventType
<1>1. daemon' \in {"up", "down"} /\ enabled' \in BOOLEAN
  BY Actions
  DEF SetEnabled, Spawn, ChildExit, MonitorKill, RestOver, Exit, ShellDies, Wedge, Connect, Hello,
      NoHello, AnnounceUp, Frame, ReadEnds, AnnounceDown, HandleEvent, Shutdown, Crash, Start,
      Down, Tick
<1>2. events' \in Seq(BOOLEAN) /\ Len(events') <= EventCap
  <2>1. CASE UNCHANGED events
    BY <2>1
  <2>2. CASE events' = <<>>
    BY <2>2, Constants, SMTT(30)
  <2>3. CASE Emit(TRUE) \/ Emit(FALSE)
    BY <2>3, EmitFacts
  <2>4. CASE HandleEvent
    <3>1. events # <<>> /\ events' = Tail(events)
      BY <2>4 DEF HandleEvent
    <3>. QED
      BY <3>1, Constants, SMTT(30)
  <2>. QED
    BY Actions, <2>1, <2>2, <2>3, <2>4
    DEF SetEnabled, Spawn, ChildExit, MonitorKill, RestOver, Exit, ShellDies, Wedge, Connect,
        Hello, NoHello, AnnounceUp, Frame, ReadEnds, AnnounceDown, Shutdown, Crash, Start, Down,
        Tick
<1>3. alert' \in [sent : BOOLEAN, age : Nat]
  <2>1. CASE UNCHANGED alert
    BY <2>1
  <2>2. CASE alert' \in {[sent |-> FALSE, age |-> 0], [sent |-> TRUE, age |-> 0]}
    <3>1. CASE alert' = [sent |-> FALSE, age |-> 0]
      BY <3>1
    <3>2. CASE alert' = [sent |-> TRUE, age |-> 0]
      BY <3>2
    <3>. QED
      BY <2>2, <3>1, <3>2
  <2>3. CASE Tick
    <3>1. Older(alert.age, ALERT_THROTTLE - 1) \in Nat
      BY Constants, SMTT(30) DEF Older
    <3>. QED
      BY <2>3, <3>1 DEF Tick
  <2>4. CASE HandleEvent
    BY <2>1, <2>2, <2>4 DEF HandleEvent
  <2>. QED
    BY Actions, <2>1, <2>2, <2>3, <2>4
    DEF SetEnabled, Spawn, ChildExit, MonitorKill, RestOver, Exit, ShellDies, Wedge, Connect,
        Hello, NoHello, AnnounceUp, Frame, ReadEnds, AnnounceDown, Shutdown, Crash, Start, Down
<1>. QED
  BY <1>1, <1>2, <1>3

\* The table follows the connections: a newcomer displaces the entry, and only the
\* teardown of the connection that the entry is of clears it.
LEMMA CurrentStep ==
  ASSUME HostType, Current, Next
  PROVE  Current'
<1>. USE DEF Current
<1>1. handle # Nil => handle \in Handle
  BY DEF HostType, HandleType
<1>2. CASE UNCHANGED <<conn, handle>>
  BY <1>2
<1>3. CASE handle' = Nil
  BY <1>3
<1>4. CASE \E p \in Proc, c \in Conn : Connect(p, c)
  <2>. PICK p \in Proc, c \in Conn : Connect(p, c)
    BY <1>4
  <2>1. /\ conn[c].pc = "closed"
        /\ conn'[c] = [pc |-> "hello", proc |-> p, seen |-> 0]
        /\ \A d \in Conn \ {c} : conn'[d] = conn[d]
    BY DEF Connect, HostType, ConnType
  <2>2. CASE handle # Nil /\ handle.conn = c
    <3>1. handle' = [handle EXCEPT !.conn = Nil] /\ ~handle.connected
      BY <2>1, <2>2 DEF Connect
    <3>2. handle'.conn = Nil /\ handle'.connected = handle.connected
      BY <1>1, <2>2, <3>1 DEF Handle
    <3>. QED
      BY <3>1, <3>2, Constants
  <2>3. CASE ~(handle # Nil /\ handle.conn = c)
    <3>1. handle' = handle
      BY <2>3 DEF Connect
    <3>. QED
      BY <2>1, <2>3, <3>1
  <2>. QED
    BY <2>2, <2>3
<1>5. CASE \E c \in Conn : Hello(c)
  <2>. PICK c \in Conn : Hello(c)
    BY <1>5
  <2>1. /\ conn'[c].pc = "up" /\ conn'[c].proc = conn[c].proc /\ conn'[c].seen = 0
        /\ handle' = [conn |-> c, proc |-> conn[c].proc, connected |-> TRUE, seen |-> 0]
    BY DEF Hello, HostType, ConnType
  <2>. QED
    BY <2>1, Constants, SMTT(30)
<1>6. ASSUME NEW c \in Conn, UNCHANGED handle, handle # Nil => handle.conn # c,
             \A d \in Conn \ {c} : conn'[d] = conn[d]
      PROVE  Current'
  BY <1>6
<1>7. CASE \E c \in Conn : NoHello(c)
  <2>. PICK c \in Conn : NoHello(c)
    BY <1>7
  <2>1. conn[c].pc = "hello" /\ UNCHANGED handle /\ \A d \in Conn \ {c} : conn'[d] = conn[d]
    BY DEF NoHello, HostType, ConnType
  <2>. QED
    BY <1>6, <2>1
<1>8. CASE \E c \in Conn : AnnounceUp(c)
  <2>. PICK c \in Conn : AnnounceUp(c)
    BY <1>8
  <2>1. /\ conn[c].pc = "up" /\ UNCHANGED handle /\ \A d \in Conn \ {c} : conn'[d] = conn[d]
        /\ conn'[c].pc = "live" /\ conn'[c].proc = conn[c].proc /\ conn'[c].seen = conn[c].seen
    BY DEF AnnounceUp, HostType, ConnType
  <2>. QED
    BY <2>1
<1>9. CASE \E c \in Conn : Frame(c)
  <2>. PICK c \in Conn : Frame(c)
    BY <1>9
  <2>1. /\ conn[c].pc = "live" /\ \A d \in Conn \ {c} : conn'[d] = conn[d]
        /\ conn'[c].pc = "live" /\ conn'[c].proc = conn[c].proc /\ conn'[c].seen = 0
    BY DEF Frame, HostType, ConnType
  <2>2. CASE handle # Nil /\ handle.conn = c
    <3>1. handle' = [handle EXCEPT !.seen = 0]
      BY <2>2 DEF Frame
    <3>2. /\ handle'.conn = c /\ handle'.proc = handle.proc
          /\ handle'.connected = handle.connected /\ handle'.seen = 0
      BY <1>1, <2>2, <3>1 DEF Handle
    <3>. QED
      BY <2>1, <2>2, <3>2, Constants, SMTT(30)
  <2>3. CASE ~(handle # Nil /\ handle.conn = c)
    BY <1>6, <2>1, <2>3 DEF Frame
  <2>. QED
    BY <2>2, <2>3
<1>10. CASE \E c \in Conn : ReadEnds(c)
  <2>. PICK c \in Conn : ReadEnds(c)
    BY <1>10
  <2>1. conn[c].pc = "live" /\ \A d \in Conn \ {c} : conn'[d] = conn[d]
    BY DEF ReadEnds, HostType, ConnType
  <2>2. CASE StillCurrent(c)
    <3>1. handle' = [handle EXCEPT !.connected = FALSE] /\ handle # Nil /\ handle.conn = c
      BY <2>2 DEF ReadEnds, StillCurrent
    <3>2. /\ handle'.conn = c /\ handle'.proc = handle.proc /\ handle'.connected = FALSE
      BY <1>1, <3>1 DEF Handle
    <3>3. conn'[c].pc = "down" /\ conn'[c].proc = conn[c].proc
      BY <2>2, SMTT(30) DEF ReadEnds, HostType, ConnType
    <3>. QED
      BY <2>1, <3>1, <3>2, <3>3
  <2>3. CASE ~StillCurrent(c)
    BY <1>6, <2>1, <2>3 DEF ReadEnds, StillCurrent
  <2>. QED
    BY <2>2, <2>3
<1>11. CASE \E c \in Conn : AnnounceDown(c)
  <2>. PICK c \in Conn : AnnounceDown(c)
    BY <1>11
  <2>1. /\ conn[c].pc = "down" /\ UNCHANGED handle /\ \A d \in Conn \ {c} : conn'[d] = conn[d]
        /\ conn'[c].pc = "closed"
    BY DEF AnnounceDown, NoConn, HostType, ConnType
  <2>. QED
    BY <2>1
<1>12. CASE Tick
  <2>. SUFFICES ASSUME handle # Nil
                PROVE  Current'
    BY <1>3, <1>12 DEF Tick
  <2>1. /\ handle' = [handle EXCEPT !.seen = Older(@, LIVENESS_TIMEOUT)]
        /\ \A c \in Conn : /\ conn[c].pc \notin {"up", "down"}
                           /\ conn[c].pc = "live" => conn[c].seen < LIVENESS_TIMEOUT
    BY <1>12 DEF Tick
  <2>2. /\ handle'.conn = handle.conn /\ handle'.proc = handle.proc
        /\ handle'.connected = handle.connected
        /\ handle'.seen = Older(handle.seen, LIVENESS_TIMEOUT)
    BY <1>1, <2>1 DEF Handle
  <2>3. \A c \in Conn : /\ conn'[c].pc = conn[c].pc /\ conn'[c].proc = conn[c].proc
                        /\ conn[c].pc = "live" =>
                             conn'[c].seen = Older(conn[c].seen, LIVENESS_TIMEOUT)
    BY <1>12 DEF Tick, HostType, ConnType
  <2>4. \A c \in Conn : conn[c].seen \in Nat
    BY DEF HostType, ConnType
  <2>5. handle.connected =>
          /\ handle'.seen = conn'[handle.conn].seen
          /\ handle'.seen <= LIVENESS_TIMEOUT
    <3>. HAVE handle.connected
    <3>1. handle.conn \in Conn /\ conn[handle.conn].pc = "live" /\ handle.seen = conn[handle.conn].seen
      BY <2>1
    <3>2. conn[handle.conn].seen < LIVENESS_TIMEOUT /\ conn[handle.conn].seen \in Nat
      BY <2>1, <2>4, <3>1
    <3>. QED
      BY <2>2, <2>3, <3>1, <3>2, Constants, SMTT(30) DEF Older
  <2>. QED
    BY <2>2, <2>3, <2>5
<1>. QED
  BY Actions, <1>2, <1>3, <1>4, <1>5, <1>7, <1>8, <1>9, <1>10, <1>11, <1>12
  DEF SetEnabled, Spawn, ChildExit, MonitorKill, RestOver, Exit, ShellDies, Wedge, HandleEvent,
      Shutdown, Crash, Start, Down
\* A frame shows that the process behind the entry is not wedged; a poll that finds
\* nothing to act on leaves one of the two ages below its limit.
LEMMA WedgingStep ==
  ASSUME HostInv, HostType', Next
  PROVE  Wedging'
<1>. USE DEF HostInv
<1>1. /\ handle # Nil => handle \in Handle
      /\ sup.pc = "watch" => sup.child \in Proc
      /\ \A p \in Proc : proc[p].wedged \in Nat /\ (proc[p].worker # "wedged" => proc[p].wedged = 0)
      /\ proc \in [Proc -> [sh : BOOLEAN, worker : {"ok", "wedged", "gone"}, wedged : Nat]]
      /\ sup.since \in Nat
  BY Constants, SMTT(30) DEF HostType, SupType, ProcType, HandleType, Wedging
<1>2. CASE UNCHANGED <<sup, proc, handle>>
  BY <1>2 DEF Wedging
<1>3. ASSUME sup'.pc # "watch", \A p \in Proc : proc'[p] = proc[p] \/ proc'[p].wedged = 0
      PROVE  Wedging'
  BY <1>3 DEF Wedging
<1>4. ASSUME UNCHANGED <<sup, handle>>,
             \A p \in Proc : /\ proc'[p].wedged \in {0, proc[p].wedged}
                             /\ proc'[p].worker # "wedged" => proc'[p].wedged = 0
      PROVE  Wedging'
  <2>1. sup.pc = "watch" => proc'[sup.child].wedged <= proc[sup.child].wedged
    BY <1>1, <1>4, SMTT(30)
  <2>2. sup.pc = "watch" => proc'[sup.child].wedged \in Nat /\ proc[sup.child].wedged \in Nat
    BY <1>1, <1>4, SMTT(30)
  <2>3. handle # Nil => handle.seen \in Nat
    BY <1>1 DEF Handle
  <2>. QED
    BY <1>1, <1>4, <2>1, <2>2, <2>3, Constants, SMTT(30) DEF Wedging
<1>5. CASE Spawn
  <2>1. CASE sup' = Rest(0, sup.strikes) /\ UNCHANGED proc
    <3>1. sup.strikes \in 0..Len(Backoffs) /\ 0 \in Nat
      BY DEF HostType, SupType
    <3>2. sup'.pc = "rest"
      BY <2>1, <3>1, RestFacts
    <3>. QED
      BY <1>3, <2>1, <3>2
  <2>2. CASE \E p \in Proc :
               /\ proc' = [proc EXCEPT ![p] = [sh |-> TRUE, worker |-> "ok", wedged |-> 0]]
               /\ sup' = [sup EXCEPT !.pc = "watch", !.child = p]
    <3>. PICK p \in Proc :
               /\ proc' = [proc EXCEPT ![p] = [sh |-> TRUE, worker |-> "ok", wedged |-> 0]]
               /\ sup' = [sup EXCEPT !.pc = "watch", !.child = p]
      BY <2>2
    <3>1. /\ proc'[p].wedged = 0 /\ \A q \in Proc \ {p} : proc'[q] = proc[q]
          /\ sup'.child = p
      BY <1>1 DEF HostType, SupType
    <3>2. sup'.since \in Nat /\ (handle' # Nil => handle'.seen \in Nat)
      BY SMTT(30) DEF HostType, SupType, HandleType, Handle
    <3>. QED
      BY <1>1, <3>1, <3>2, Constants, SMTT(30) DEF Wedging
  <2>. QED
    BY <1>5, <2>1, <2>2 DEF Spawn
<1>6. CASE ChildExit \/ MonitorKill
  <2>1. sup'.pc = "rest"
    <3>1. sup.strikes \in 0..Len(Backoffs) /\ sup' = Rest(sup.since, sup.strikes)
      BY <1>6 DEF HostType, SupType, ChildExit, MonitorKill
    <3>. QED
      BY <1>1, <3>1, RestFacts
  <2>2. \A p \in Proc : proc'[p] = proc[p] \/ proc'[p] = NoProc
    BY <1>1, <1>6 DEF ChildExit, MonitorKill, Kill
  <2>. QED
    BY <1>3, <2>1, <2>2, SMTT(30) DEF NoProc
<1>7. CASE RestOver
  <2>1. sup'.pc = "ready"
    BY <1>7 DEF RestOver, Ready
  <2>. QED
    BY <1>3, <1>7, <2>1 DEF RestOver
<1>8. CASE \E p \in Proc : Exit(p)
  <2>1. \A p \in Proc : proc'[p] = proc[p] \/ proc'[p] = NoProc
    BY <1>1, <1>8 DEF Exit, Kill
  <2>. QED
    BY <1>1, <1>4, <1>8, <2>1, SMTT(30) DEF Exit, NoProc
<1>9. CASE \E p \in Proc : ShellDies(p)
  <2>1. \A p \in Proc : proc'[p].worker = proc[p].worker /\ proc'[p].wedged = proc[p].wedged
    BY <1>1, <1>9, SMTT(30) DEF ShellDies, KillShell
  <2>. QED
    BY <1>1, <1>4, <1>9, <2>1 DEF ShellDies
<1>10. CASE \E p \in Proc : Wedge(p)
  <2>1. \A p \in Proc : /\ proc'[p].wedged = proc[p].wedged
                        /\ proc'[p].worker \in {"wedged", proc[p].worker}
    BY <1>1, <1>10 DEF Wedge
  <2>. QED
    BY <1>1, <1>4, <1>10, <2>1 DEF Wedge
<1>11. CASE Shutdown \/ Crash
  <2>1. sup'.pc = "none"
    BY <1>11, TaskFacts DEF Shutdown, Crash, Down
  <2>2. \A p \in Proc : proc'[p] = proc[p] \/ proc'[p] = NoProc
    BY <1>11 DEF Shutdown, Crash
  <2>. QED
    BY <1>3, <2>1, <2>2, SMTT(30) DEF NoProc
<1>12. CASE Start
  BY <1>3, <1>12, TaskFacts DEF Start
<1>13. ASSUME UNCHANGED <<sup, proc>>, handle # Nil, handle' # Nil, handle'.proc = handle.proc,
              handle'.seen = handle.seen
       PROVE  Wedging'
  BY <1>13 DEF Wedging
<1>14. ASSUME UNCHANGED <<sup, proc>>, handle' # Nil, proc[handle'.proc].worker = "ok",
              handle'.proc \in Proc, handle'.seen \in Nat
       PROVE  Wedging'
  <2>1. sup.pc = "watch" /\ handle'.proc = sup.child => proc[sup.child].wedged = 0
    BY <1>1, <1>14
  <2>. QED
    BY <1>1, <1>14, <2>1, Constants, SMTT(30) DEF Wedging
<1>15. CASE \E p \in Proc, c \in Conn : Connect(p, c)
  <2>1. \/ handle' = handle
        \/ handle # Nil /\ handle' = [handle EXCEPT !.conn = Nil]
    BY <1>15 DEF Connect
  <2>2. CASE handle # Nil /\ handle' = [handle EXCEPT !.conn = Nil]
    <3>1. handle'.proc = handle.proc /\ handle'.seen = handle.seen /\ handle' \in Handle
      BY <1>1, <2>2 DEF Handle
    <3>. QED
      BY <1>13, <1>15, <2>2, <3>1, Constants DEF Connect
  <2>. QED
    BY <1>2, <1>15, <2>1, <2>2 DEF Connect
<1>16. CASE \E c \in Conn : Hello(c)
  <2>. PICK c \in Conn : Hello(c)
    BY <1>16
  <2>1. /\ handle' = [conn |-> c, proc |-> conn[c].proc, connected |-> TRUE, seen |-> 0]
        /\ proc[conn[c].proc].worker = "ok" /\ conn[c].proc \in Proc /\ UNCHANGED <<sup, proc>>
    BY DEF Hello, HostType, ConnType
  <2>2. handle' \in Handle
    BY <2>1 DEF Handle
  <2>. QED
    BY <1>14, <2>1, <2>2, Constants
<1>17. CASE \E c \in Conn : Frame(c)
  <2>. PICK c \in Conn : Frame(c)
    BY <1>17
  <2>1. CASE handle # Nil /\ handle.conn = c
    <3>1. /\ handle' = [handle EXCEPT !.seen = 0]
          /\ proc[handle.proc].worker = "ok" /\ UNCHANGED <<sup, proc>>
      BY <2>1 DEF Frame, Current
    <3>2. /\ handle' \in Handle /\ handle'.proc = handle.proc /\ handle'.seen = 0
          /\ handle'.proc \in Proc
      BY <1>1, <2>1, <3>1 DEF Handle
    <3>. QED
      BY <1>14, <3>1, <3>2, Constants, SMTT(30)
  <2>2. CASE ~(handle # Nil /\ handle.conn = c)
    BY <1>2, <2>2 DEF Frame
  <2>. QED
    BY <2>1, <2>2
<1>18. CASE \E c \in Conn : ReadEnds(c)
  <2>1. \/ handle' = handle
        \/ handle # Nil /\ handle' = [handle EXCEPT !.connected = FALSE]
    BY <1>18 DEF ReadEnds, StillCurrent
  <2>2. CASE handle # Nil /\ handle' = [handle EXCEPT !.connected = FALSE]
    <3>1. handle'.proc = handle.proc /\ handle'.seen = handle.seen /\ handle' \in Handle
      BY <1>1, <2>2 DEF Handle
    <3>. QED
      BY <1>13, <1>18, <2>2, <3>1, Constants DEF ReadEnds
  <2>. QED
    BY <1>2, <1>18, <2>1, <2>2 DEF ReadEnds
<1>19. CASE Tick
  <2>1. \A p \in Proc : /\ proc'[p].worker = proc[p].worker
                        /\ proc'[p].wedged \in Nat
                        /\ proc'[p].wedged <= proc[p].wedged + 1
                        /\ proc[p].worker # "wedged" => proc'[p].wedged = 0
    <3>. TAKE p \in Proc
    <3>1. Older(proc[p].wedged, WedgeLimit) \in {proc[p].wedged, proc[p].wedged + 1}
      BY DEF Older
    <3>2. CASE proc[p].worker = "wedged" /\ sup.child = p
      <4>1. proc'[p] = [proc[p] EXCEPT !.wedged = Older(@, WedgeLimit)]
        BY <1>19, <3>2 DEF Tick
      <4>2. proc'[p].worker = proc[p].worker /\ proc'[p].wedged = Older(proc[p].wedged, WedgeLimit)
        BY <1>1, <4>1
      <4>. QED
        BY <1>1, <3>1, <3>2, <4>2, SMTT(30)
    <3>3. CASE ~(proc[p].worker = "wedged" /\ sup.child = p)
      <4>1. proc'[p] = proc[p]
        BY <1>19, <3>3 DEF Tick
      <4>. QED
        BY <1>1, <4>1, SMTT(30)
    <3>. QED
      BY <3>2, <3>3
  <2>2. CASE sup.pc # "watch"
    <3>1. sup'.pc = sup.pc
      BY <1>19 DEF Tick, HostType, SupType
    <3>. QED
      BY <2>1, <2>2, <3>1 DEF Wedging
  <2>3. CASE sup.pc = "watch"
    <3>. DEFINE w == proc[sup.child].wedged
                v == proc'[sup.child].wedged
    <3>1. /\ sup'.pc = "watch" /\ sup'.child = sup.child /\ sup.child \in Proc
          /\ sup'.since = Older(sup.since, RunLimit)
      BY <1>1, <1>19, <2>3 DEF Tick, HostType, SupType
    <3>2. w \in Nat /\ v \in Nat /\ v <= w + 1
      BY <1>1, <2>1, <3>1
    <3>3. ~IsWedged
      BY <1>19, <2>3 DEF Tick, PollActs
    <3>4. /\ w <= sup.since \/ sup.since > CONNECT_TIMEOUT
          /\ handle # Nil /\ handle.proc = sup.child =>
               w <= handle.seen \/ handle.seen > LIVENESS_TIMEOUT
      BY <2>3 DEF Wedging
    <3>5. v <= sup'.since \/ sup'.since > CONNECT_TIMEOUT
      <4>. HIDE DEF w, v
      <4>. QED
        BY <1>1, <3>1, <3>2, <3>4, Constants, SMTT(30) DEF Older
    <3>6. CASE handle = Nil
      <4>1. handle' = Nil /\ sup.since <= CONNECT_TIMEOUT
        BY <1>1, <1>19, <3>3, <3>6, Constants, SMTT(30) DEF Tick, IsWedged
      <4>2. v <= LIVENESS_TIMEOUT + 1
        <5>. HIDE DEF w, v
        <5>. QED
          BY <1>1, <3>2, <3>4, <4>1, Constants, SMTT(30)
      <4>. QED
        BY <2>1, <3>1, <3>5, <4>1, <4>2 DEF Wedging
    <3>7. CASE handle # Nil
      <4>1. handle' = [handle EXCEPT !.seen = Older(@, LIVENESS_TIMEOUT)]
        BY <1>19, <3>7 DEF Tick
      <4>2. /\ handle'.seen = Older(handle.seen, LIVENESS_TIMEOUT) /\ handle'.proc = handle.proc
            /\ handle.seen \in Nat /\ handle.connected \in BOOLEAN
        BY <1>1, <3>7, <4>1 DEF Handle
      <4>3. handle' # Nil
        <5>1. Older(handle.seen, LIVENESS_TIMEOUT) \in Nat
          BY <4>2, Constants, SMTT(30) DEF Older
        <5>2. handle' \in Handle
          BY <1>1, <3>7, <4>1, <5>1 DEF Handle
        <5>. QED
          BY <5>2, Constants
      <4>4. handle.proc = sup.child => v <= handle'.seen \/ handle'.seen > LIVENESS_TIMEOUT
        <5>. HIDE DEF w, v
        <5>. QED
          BY <3>2, <3>4, <3>7, <4>2, Constants, SMTT(30) DEF Older
      <4>5. handle.proc = sup.child => v <= LIVENESS_TIMEOUT + 1
        <5>. HAVE handle.proc = sup.child
        <5>1. \/ handle.seen <= LIVENESS_TIMEOUT /\ handle.connected
              \/ handle.seen <= CONNECT_TIMEOUT
              \/ sup.since <= CONNECT_TIMEOUT
          BY <1>1, <3>3, <3>7, <4>2, Constants, SMTT(30) DEF IsWedged
        <5>. HIDE DEF w, v
        <5>. QED
          BY <1>1, <3>2, <3>4, <3>7, <4>2, <5>1, Constants, SMTT(30)
      <4>. QED
        BY <2>1, <3>1, <3>5, <4>2, <4>3, <4>4, <4>5 DEF Wedging
    <3>. QED
      BY <3>6, <3>7
  <2>. QED
    BY <2>2, <2>3
<1>. QED
  BY Actions, <1>2, <1>5, <1>6, <1>7, <1>8, <1>9, <1>10, <1>11, <1>12, <1>15, <1>16, <1>17, <1>18,
     <1>19
  DEF SetEnabled, NoHello, AnnounceUp, AnnounceDown, HandleEvent
LEMMA DownStep ==
  ASSUME HostType, Unsupervised, Next
  PROVE  Unsupervised'
<1>1. CASE UNCHANGED <<daemon, sup>>
  BY <1>1 DEF Unsupervised
<1>2. CASE daemon' = "up"
  BY <1>2 DEF Unsupervised
<1>3. CASE Shutdown \/ Crash
  BY <1>3, TaskFacts DEF Shutdown, Crash, Down, Unsupervised
<1>. QED
  BY Actions, <1>1, <1>2, <1>3
  DEF SetEnabled, Spawn, ChildExit, MonitorKill, RestOver, Exit, ShellDies, Wedge, Connect, Hello,
      NoHello, AnnounceUp, Frame, ReadEnds, AnnounceDown, HandleEvent, Start, Tick

\* The types, the agreement of the table with the connections and the bounds on the time
\* a child is wedged are inductive.
LEMMA HostInvariant == Spec => []HostInv
<1>1. Init => HostInv
  <2>. SUFFICES ASSUME Init
                PROVE  HostInv
    OBVIOUS
  <2>1. SupType /\ sup.pc # "watch"
    <3>1. sup = Task
      BY DEF Init
    <3>2. sup \in [pc : {"none", "ready"}, child : {Nil}, since : {0}, strikes : {0}]
      BY <3>1, TaskFacts
    <3>. QED
      BY <3>2, Constants, SMTT(30) DEF SupType
  <2>2. ProcType /\ \A p \in Proc : proc[p].wedged = 0
    BY DEF Init, ProcType, NoProc
  <2>3. ConnType
    BY DEF Init, ConnType, NoConn
  <2>4. HandleType /\ Current
    BY DEF Init, HandleType, Current
  <2>5. EventType
    BY Constants, SMTT(30) DEF Init, EventType
  <2>. QED
    BY <2>1, <2>2, <2>3, <2>4, <2>5 DEF HostInv, HostType, Wedging, Unsupervised, Init
<1>2. HostInv /\ [Next]_vars => HostInv'
  <2>1. ASSUME HostInv, Next
        PROVE  HostInv'
    <3>1. HostType'
      BY <2>1, SupStep, ProcStep, ConnStep, HandleStep, EventStep DEF HostInv, HostType
    <3>. QED
      BY <2>1, <3>1, DownStep, CurrentStep, WedgingStep DEF HostInv
  <2>2. ASSUME HostInv, UNCHANGED vars
        PROVE  HostInv'
    BY <2>2 DEF HostInv, HostType, SupType, ProcType, ConnType, HandleType, EventType,
                Unsupervised, Current, Wedging, vars
  <2>. QED
    BY <2>1, <2>2
<1>. QED
  BY <1>1, <1>2, PTL DEF Spec

\* However connections of old and new processes of a plugin end and begin, the table shows
\* the newest one as it is (handle_conn), and monitor_child replaces a child that hangs in
\* time.
THEOREM SupervisionIsSound == Spec => []SupervisionSound
<1>1. HostInv => SupervisionSound
  <2>. SUFFICES ASSUME HostInv
                PROVE  SupervisionSound
    OBVIOUS
  <2>1. TypeOK
    <3>1. (sup.pc = "watch") = (sup.child \in Proc)
      BY SMTT(30) DEF HostInv, HostType, SupType
    <3>. QED
      BY <3>1 DEF TypeOK, HostInv, HostType, SupType, ProcType, ConnType, EventType
  <2>2. CurrentIsLive
    <3>. SUFFICES ASSUME handle # Nil
                  PROVE  handle.connected =
                           (handle.conn \in Conn /\ conn[handle.conn].pc \in {"up", "live"})
      BY DEF CurrentIsLive
    <3>1. handle.connected \in BOOLEAN
      BY DEF HostInv, HostType, HandleType, Handle
    <3>. QED
      BY <3>1 DEF HostInv, Current
  <2>3. WedgedIsReplaced
    <3>. SUFFICES ASSUME sup.pc = "watch", handle = Nil \/ handle.proc = sup.child
                  PROVE  proc[sup.child].wedged <= WedgeLimit
      BY DEF WedgedIsReplaced
    <3>1. proc[sup.child].wedged \in Nat
      BY DEF HostInv, HostType, SupType, ProcType
    <3>2. proc[sup.child].wedged <= LIVENESS_TIMEOUT + 1
      BY DEF HostInv, Wedging
    <3>. QED
      BY <3>1, <3>2, Constants DEF WedgeLimit
  <2>. QED
    BY <2>1, <2>2, <2>3 DEF SupervisionSound
<1>. QED
  BY <1>1, HostInvariant, PTL

\* monitor_child kills the whole group of a child that hangs and never a child whose
\* current connection answers, and warn_throttle_due keeps the alerts apart.
THEOREM KillsAreSound == Spec => KillsSound
<1>1. HostInv /\ [Next]_vars => [NoDuplicateAfterKill /\ HealthyNotKilled /\ AlertsThrottled]_vars
  <2>. SUFFICES ASSUME HostInv, Next
                PROVE  NoDuplicateAfterKill /\ HealthyNotKilled /\ AlertsThrottled
    OBVIOUS
  <2>1. sup.pc = "watch" /\ sup'.pc # "watch" =>
          ChildExit \/ MonitorKill \/ Shutdown \/ Crash
    <3>1. CASE UNCHANGED sup
      BY <3>1
    <3>2. CASE Spawn \/ RestOver
      BY <3>2 DEF Spawn, RestOver
    <3>3. CASE Start
      BY <3>3 DEF Start, HostInv, Unsupervised
    <3>4. CASE Tick
      BY <3>4 DEF Tick, HostInv, HostType, SupType
    <3>. QED
      BY Actions, <3>1, <3>2, <3>3, <3>4
      DEF SetEnabled, Exit, ShellDies, Wedge, Connect, Hello, NoHello, AnnounceUp, Frame,
          ReadEnds, AnnounceDown, HandleEvent
  <2>2. NoDuplicateAfterKill
    <3>. SUFFICES ASSUME sup.pc = "watch", sup'.pc # "watch", proc[sup.child].sh,
                         daemon' = "up" \/ proc' # proc
                  PROVE  proc'[sup.child] = NoProc
      BY DEF NoDuplicateAfterKill
    <3>1. sup.child \in Proc /\ proc \in [Proc -> [sh : BOOLEAN, worker : {"ok", "wedged", "gone"},
                                                  wedged : Nat]]
      BY DEF HostInv, HostType, SupType, ProcType
    <3>2. CASE MonitorKill
      BY <3>1, <3>2 DEF MonitorKill, Kill
    <3>3. CASE Shutdown
      BY <3>1, <3>3 DEF Shutdown
    <3>. QED
      BY <2>1, <3>2, <3>3 DEF ChildExit, Crash, Down
  <2>3. HealthyNotKilled
    <3>. SUFFICES ASSUME sup.pc = "watch", proc[sup.child].sh, sup'.pc = "rest", handle # Nil,
                         handle.connected
                  PROVE  FALSE
      BY DEF HealthyNotKilled
    <3>1. MonitorKill
      BY <2>1, TaskFacts DEF ChildExit, Shutdown, Crash, Down
    <3>2. handle.seen > LIVENESS_TIMEOUT
      BY <3>1 DEF MonitorKill, IsWedged
    <3>3. handle.seen <= LIVENESS_TIMEOUT /\ handle.seen \in Nat
      BY DEF HostInv, HostType, HandleType, Handle, Current
    <3>. QED
      BY <3>2, <3>3, Constants, SMTT(30)
  <2>4. AlertsThrottled
    <3>. SUFFICES ASSUME alert'.age = 0, alert' # alert, alert.sent, daemon' = "up"
                  PROVE  alert.age >= ALERT_THROTTLE
      BY DEF AlertsThrottled
    <3>1. CASE HandleEvent
      BY <3>1 DEF HandleEvent, Due
    <3>2. CASE Tick
      <4>1. alert' = [alert EXCEPT !.age = Older(@, ALERT_THROTTLE - 1)]
        BY <3>2 DEF Tick
      <4>2. alert.age \in Nat /\ alert'.age = Older(alert.age, ALERT_THROTTLE - 1)
        BY <4>1 DEF HostInv, HostType, EventType
      <4>. QED
        BY <4>2, Constants, SMTT(30) DEF Older
    <3>. QED
      BY Actions, <3>1, <3>2
      DEF SetEnabled, Spawn, ChildExit, MonitorKill, RestOver, Exit, ShellDies, Wedge, Connect,
          Hello, NoHello, AnnounceUp, Frame, ReadEnds, AnnounceDown, Shutdown, Crash, Start, Down
  <2>. QED
    BY <2>2, <2>3, <2>4
<1>. QED
  BY <1>1, HostInvariant, PTL DEF Spec, KillsSound
=============================================================================
