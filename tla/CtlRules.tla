------------------------------ MODULE CtlRules ------------------------------
(***************************************************************************)
(* switchyardctl: the request a command line stands for, the status it     *)
(* takes for success against what the daemon's handlers (AdminViews)       *)
(* answer, its reading of the event feed, and the conformance ladder that  *)
(* plays the daemon to a plugin under test (main.rs, conformance.rs).      *)
(*                                                                         *)
(* A command line is a sequence of words; a path is the handler's, with    *)
(* its id apart.  The exit code is 0, 1 (failed) or 2 (usage).             *)
(***************************************************************************)
EXTENDS AdminViews

CONSTANT STEP_TIMEOUT

(* ------------------------------- requests ----------------------------- *)

Request(method, path) == [method |-> method, path |-> path]
Fixed ==
  [status |-> Request("GET", "status"), plugins |-> Request("GET", "plugins"), routes |-> Request("GET", "routes"),
   queue |-> Request("GET", "queue"), identities |-> Request("GET", "identities"),
   federation |-> Request("GET", "federation"), discovery |-> Request("GET", "discovery"),
   openapi |-> Request("GET", "openapi"), health |-> Request("GET", "readyz")]
  @@ ("purge-dlq" :> Request("POST", "purge"))
WithId == [trace |-> Request("GET", "messages"), requeue |-> Request("POST", "requeue"), unlink |-> Request("DELETE", "link")]
ConfigWord == [show |-> Request("GET", "config"), rollback |-> Request("POST", "rollback")]
ConfigFile == [validate |-> Request("POST", "validate"), apply |-> Request("PUT", "config")]

\* readable: what read_config_file finds of a file.
read_config_file(file, readable) == file \in readable
request_for(args, readable) ==
  LET word == IF args = <<>> THEN "" ELSE args[1]
      sub == IF Len(args) < 2 THEN "" ELSE args[2]
  IN  IF word \in DOMAIN Fixed THEN {Fixed[word]}
      ELSE IF word \in DOMAIN WithId THEN (IF sub = "" THEN {} ELSE {WithId[word]})
      ELSE IF word = "link" THEN (IF Len(args) < 4 THEN {} ELSE {Request("POST", "link")})
      ELSE IF word # "config" THEN {}
      ELSE IF sub \in DOMAIN ConfigWord THEN {ConfigWord[sub]}
      ELSE IF sub \in DOMAIN ConfigFile /\ Len(args) > 2 /\ read_config_file(args[3], readable) THEN {ConfigFile[sub]}
      ELSE {}

expected_status_post(method, path) ==
  CASE method = "POST" /\ path = "link" -> 202
    [] method = "DELETE"                -> 204
    [] OTHER                            -> 200
expected_status(method, path) ==
  CASE method = "POST" /\ path = "link"    -> 202
    [] method = "POST" /\ path = "requeue" -> 204
    [] method = "DELETE"                   -> 204
    [] OTHER                               -> 200

\* The daemon's answer to a request; of the two that change the configuration, one of
\* the codes their handlers have.
Answer(d, r, x) ==
  CASE r.path = "readyz"      -> readyz(d).code
    [] r.path = "status"      -> status(d).code
    [] r.path = "plugins"     -> plugins(d).code
    [] r.path = "queue"       -> queue(d, {}, {}).code
    [] r.path = "messages"    -> trace(d, x.id).code
    [] r.path = "identities"  -> identities(d).code
    [] r.path = "federation"  -> federation([on |-> TRUE, store_ok |-> d.store_ok, peers |-> <<>>, trust |-> <<>>, conns |-> <<>>]).code
    [] r.path = "discovery"   -> discovery(d, {}).code
    [] r.path = "requeue"     -> queue_requeue(d, x.id).code
    [] r.path = "purge"       -> queue_purge(d).code
    [] r.method = "DELETE"    -> delete_link(d, x.id).code
    [] r.path = "link"        -> create_link(d, [ok |-> TRUE, display_name |-> <<65>>], x.applied).code
    [] r.path = "rollback"    -> IF x.applied THEN 200 ELSE 409
    [] r.path = "validate" \/ (r.path = "config" /\ r.method = "PUT") -> IF x.applied THEN 200 ELSE 422
    [] OTHER                  -> 200

\* The connection, the end of the headers, the status.
body_of(code, whole, expected) == whole /\ code = expected
fetch(d, r, x) == x.reached /\ body_of(Answer(d, r, x), x.whole, expected_status(r.method, r.path))

(* ------------------------------- the feed ----------------------------- *)

\* A line of the response: a header, a blank one, or a field of an event.
Line(is, v) == <<is, v>>
FeedHead == <<Line("status", "200"), Line("content-type", "text/event-stream"), Line("blank", "")>>
\* events_stream: each event is its name, its data and a blank line; a silent feed has
\* comments.
SseEvent(e) ==
  IF e = "quiet" THEN <<Line("comment", ""), Line("blank", "")>>
  ELSE <<Line("event", e), Line("data", e), Line("blank", "")>>
skip_http_headers(lines) ==
  LET blank == {i \in DOMAIN lines : lines[i][1] = "blank"}
  IN  IF blank = {} THEN <<>> ELSE SubSeq(lines, Min(blank) + 1, Len(lines))
emit_data_lines_event(lines) == SelectSeq(lines, LAMBDA l : l[1] \in {"event", "data"})
emit_data_lines(lines) == SelectSeq(lines, LAMBDA l : l[1] = "data")
stream_events(response) == emit_data_lines(skip_http_headers(response))

(* ------------------------------ conformance --------------------------- *)

\* The plugin under test: whether its command starts and connects in time, its first
\* frame if one arrives, whether it still reads, its further frames with the time since
\* the send, and how it ends ("never": only when killed).
HelloCheck(b) ==
  \E h \in b.hello : h.t = "hello" /\ h.plugin = "conformance" /\ h.protocol_version = 1 /\ h.capabilities
\* Each round of the loop looks at the clock, then waits for one frame; frames of other
\* kinds are skipped.
SendStep(acc, f) ==
  IF acc.verdict # "waiting" THEN acc
  ELSE IF acc.now > STEP_TIMEOUT \/ f.at - acc.now > STEP_TIMEOUT \/ f.t = "garbage" THEN [acc EXCEPT !.verdict = "fail"]
  ELSE IF f.t = "delivery_result" THEN [acc EXCEPT !.verdict = IF f.corr = "conformance-1" THEN "pass" ELSE "fail"]
  ELSE [acc EXCEPT !.now = f.at]
SendCheck(b) == FoldLeft(SendStep, [verdict |-> "waiting", now |-> 0], b.frames).verdict = "pass"
ShutdownCheck(b) == b.ends = "zero"
report(checks) == IF FALSE \in checks THEN 1 ELSE 0
\* left: the process is still there, neither ended nor killed.
Ended(b, code, killed) == [code |-> code, left |-> b.spawns /\ b.ends = "never" /\ ~killed]
run_unkilled(b) ==
  IF ~b.spawns THEN Ended(b, 1, FALSE)
  ELSE IF ~b.connects THEN Ended(b, 1, TRUE)
  ELSE IF ~HelloCheck(b) THEN Ended(b, report({FALSE}), FALSE)
  ELSE IF ~b.reads THEN Ended(b, 1, TRUE)
  ELSE Ended(b, report({SendCheck(b), ShutdownCheck(b)}), b.ends = "never")
run(b) ==
  IF ~b.spawns THEN Ended(b, 1, FALSE)
  ELSE IF ~b.connects THEN Ended(b, 1, TRUE)
  ELSE IF ~HelloCheck(b) THEN Ended(b, report({FALSE}), TRUE)
  ELSE IF ~b.reads THEN Ended(b, 1, TRUE)
  ELSE Ended(b, report({SendCheck(b), ShutdownCheck(b)}), b.ends = "never")

\* A leading --socket and its path come off first; three commands are no single request.
Command(args) == IF args = <<>> \/ args[1] # "--socket" THEN args ELSE SubSeq(args, 3, Len(args))
Special(args) == args # <<>> /\ (args[1] \in {"events", "docs"} \/ (args[1] = "plugin" /\ Len(args) > 1 /\ args[2] = "test"))
main(d, x) ==
  LET args == Command(x.args)
      rs == request_for(args, {"good.yaml"})
  IN  IF Special(args) /\ args[1] = "events" THEN (IF x.reached THEN 0 ELSE 1)
      ELSE IF Special(args) /\ args[1] = "plugin" THEN (IF Len(args) = 2 THEN 2 ELSE run(x.plugin).code)
      ELSE IF Special(args) THEN 0
      ELSE IF rs = {} THEN 2
      ELSE IF \A r \in rs : fetch(d, r, x) THEN 0 ELSE 1

(* ----------------------------- properties ----------------------------- *)

\* The exit code of a command that is one request tells the operator what happened at the
\* daemon: 0 exactly when it answered, in full, that it did what was asked, and 2 exactly
\* when nothing was sent; where the socket is changes none of it.
ExitTellsOutcome ==
  \A x \in Case("command") :
    LET rs == request_for(Command(x.args), {"good.yaml"})
        done == \E r \in rs : Answer(x.daemon, r, x) \in 200..299
    IN  /\ ~Special(Command(x.args)) =>
             /\ main(x.daemon, x) = 0 <=> x.reached /\ x.whole /\ done
             /\ main(x.daemon, x) = 2 <=> rs = {}
        /\ rs # {} => ~Special(Command(x.args))
        /\ main(x.daemon, [x EXCEPT !.args = <<"--socket", "s">> \o Command(x.args)]) = main(x.daemon, x)

\* switchyardctl events prints each event the daemon emits once, in order, and nothing
\* of the protocol around them, wherever the daemon closes the stream.
EventsPrintedOnce ==
  \A es \in Case("feed") :
    LET lines == FeedHead \o FlattenSeq([i \in DOMAIN es |-> SseEvent(es[i])])
        events == SelectSeq(es, LAMBDA e : e # "quiet")
    IN  \A n \in 0..Len(lines) :
          LET out == stream_events(SubSeq(lines, 1, n))
          IN  /\ Len(out) <= Len(events) /\ \A i \in DOMAIN out : out[i] = Line("data", events[i])
              /\ n = Len(lines) => Len(out) = Len(events)

\* The ladder passes a plugin that says hello as it was named, answers the send under its
\* corr in time, whatever other frames come first, and ends with 0; it passes none that
\* does not, and leaves no plugin running behind it.
LadderIsExact ==
  \A b \in Case("plugin_under_test") :
    LET results == {i \in DOMAIN b.frames : b.frames[i].t = "delivery_result"}
        before == {b.frames[i].t : i \in {j \in DOMAIN b.frames : \A k \in results : j < k}}
        first == {b.frames[i] : i \in {j \in results : \A k \in results : j <= k}}
        sound == b.spawns /\ b.connects /\ b.reads /\ HelloCheck(b) /\ b.ends = "zero" /\ "garbage" \notin before
                 /\ \E f \in first : f.corr = "conformance-1"
    IN  /\ run(b).code = 0 => sound /\ \A f \in first : f.at <= 2 * STEP_TIMEOUT
        /\ sound /\ (\A f \in first : f.at <= STEP_TIMEOUT) => run(b).code = 0
        /\ ~run(b).left

\* The operator is told what is so: by the views of the admin API, by the exit code of
\* switchyardctl, by the events it prints and by the verdict of its conformance ladder.
OperatorIsTold == ViewsAreHonest /\ ExitTellsOutcome /\ EventsPrintedOnce /\ LadderIsExact
=============================================================================
