----------------------------- MODULE EgressRules -----------------------------
(***************************************************************************)
(* What process_due makes of a message before it hands it to a plugin: the *)
(* policies, the limits of the plugin and of its transport, the sender's   *)
(* tag, the cut of the body, the attachments that go along, and whether    *)
(* the frame fits the plugin socket (policy.rs, transform.rs, alias.rs,    *)
(* relay-core's transport.rs, load_attachments, relay-ipc's frames).       *)
(*                                                                         *)
(* A text is a sequence of characters [k, w]: what it belongs to (tag,     *)
(* body, note, name of a file, ellipsis) and its width in bytes.  A value  *)
(* that may be missing is a set of at most one element.                    *)
(***************************************************************************)
EXTENDS Integers, Sequences, FiniteSets, FiniteSetsExt, SequencesExt, Given

CONSTANTS
  MAX_FRAME, FRAME_HEADROOM_BYTES,   \* of relay-ipc and of the engine
  Tags,                              \* bounded inputs: tags, or none
  ByteLimits, CharLimits             \* limits of a rendered body and of a message's

(* -------------------------- transport classes ------------------------- *)

Class == {"terrestrial_internet", "satellite_internet", "reticulum", "meshtastic", "mesh_core",
          "bluetooth", "local_network"}
TransportPolicy(max, media, compress, batch) ==
  [max_payload_bytes |-> max, allow_images |-> media, allow_video |-> media,
   compress |-> compress, batch_telemetry |-> batch]
for_class_tight(class) ==
  CASE class \in {"meshtastic", "mesh_core"} -> TransportPolicy(237, FALSE, TRUE, TRUE)
    [] class = "satellite_internet" -> TransportPolicy(32 * 1024, FALSE, TRUE, TRUE)
    [] class = "reticulum"          -> TransportPolicy(32 * 1024, TRUE, FALSE, TRUE)
    [] OTHER                        -> TransportPolicy(65536, TRUE, FALSE, TRUE)
for_class(class) ==
  CASE class \in {"meshtastic", "mesh_core"} -> TransportPolicy(237, FALSE, TRUE, TRUE)
    [] class = "satellite_internet" -> TransportPolicy(32 * 1024, FALSE, TRUE, TRUE)
    [] class = "reticulum"          -> TransportPolicy(32 * 1024, TRUE, FALSE, TRUE)
    [] class = "bluetooth"          -> TransportPolicy(65536, TRUE, FALSE, TRUE)
    [] class \in {"terrestrial_internet", "local_network"} -> TransportPolicy(16 * 1024 * 1024, TRUE, FALSE, FALSE)

default_transport_class_for(plugin) ==
  CASE plugin = "meshtastic" -> "meshtastic"
    [] plugin = "meshcore"   -> "mesh_core"
    [] plugin = "lxmf"       -> "reticulum"
    [] OTHER                 -> "terrestrial_internet"

\* Config::transport_policy: the entry of the plugin, if any, chooses the class and
\* overrides single fields.
Or(option, default) == IF option = {} THEN default ELSE CHOOSE v \in option : TRUE
transport_policy(entries, plugin) ==
  LET entry == {e \in entries : e.plugin = plugin}
      p == for_class(Or({e.class : e \in entry}, default_transport_class_for(plugin)))
      With(field) == Or(UNION {e[field] : e \in entry}, p[field])
  IN  [max_payload_bytes |-> With("max_payload_bytes"), allow_images |-> With("allow_images"),
       allow_video |-> With("allow_video"), compress |-> With("compress"),
       batch_telemetry |-> With("batch_telemetry")]

(* ------------------------------ policies ------------------------------ *)

Matching(ps, protocol) == SelectSeq(ps, LAMBDA p : p.protocols = {} \/ protocol \in p.protocols)
Least(options) == IF UNION options = {} THEN {} ELSE {Min(UNION options)}
evaluateLast(ps, kind, protocol) ==
  LET m == Matching(ps, protocol)
      S == {m[i] : i \in DOMAIN m}
  IN  IF m # <<>> /\ (Last(m).deny \/ kind \in Last(m).drop_kinds) THEN [allow |-> FALSE, max_payload |-> {}]
      ELSE [allow |-> TRUE, max_payload |-> Least({p.max_payload : p \in S}),
            attachments_allowed |-> \A p \in S : "reject" \notin p.attachments,
            max_attachment_bytes |-> Least({p.max_attachment_bytes : p \in S})]
\* The first policy that denies ends the evaluation; the limits of all that match combine.
evaluate(ps, kind, protocol) ==
  LET m == Matching(ps, protocol)
      S == {m[i] : i \in DOMAIN m}
  IN  IF \E p \in S : p.deny \/ kind \in p.drop_kinds THEN [allow |-> FALSE, max_payload |-> {}]
      ELSE [allow |-> TRUE, max_payload |-> Least({p.max_payload : p \in S}),
            attachments_allowed |-> \A p \in S : "reject" \notin p.attachments,
            max_attachment_bytes |-> Least({p.max_attachment_bytes : p \in S})]

(* ------------------------------- the body ----------------------------- *)

Char(k, w) == [k |-> k, w |-> w]
Ellipsis == Char("ellipsis", 3)
Bytes(text) == Cardinality(UNION {{i} \X (1..text[i].w) : i \in DOMAIN text})
Kinds(text) == {text[i].k : i \in DOMAIN text}

truncate_body(body, max_chars) ==
  IF Len(body) <= max_chars THEN body
  ELSE SubSeq(body, 1, max_chars - 1) \o <<Ellipsis>>

\* The cut goes back to a character boundary.
UpTo(text, budget) == SubSeq(text, 1, Max({n \in 0..Len(text) : Bytes(SubSeq(text, 1, n)) <= budget}))
UpToNext(text, budget) == SubSeq(text, 1, Min({n \in 0..Len(text) : Bytes(SubSeq(text, 1, n)) >= budget}))
Assembled(tag, body) == 
  (IF tag = {} THEN <<>> ELSE <<Char("mark", 1)>> \o Or(tag, <<>>) \o <<Char("mark", 2)>>) \o body
render_forward(tag, body, max_payload) ==
  LET full == Assembled(tag, body)
      limit == Or(max_payload, Bytes(full))
  IN  CASE Bytes(full) <= limit -> full
        [] limit < 3            -> UpToNext(full, limit)
        [] OTHER                -> UpToNext(full, limit - 3) \o <<Ellipsis>>
render(tag, body, max_payload) ==
  LET full == Assembled(tag, body)
      limit == Or(max_payload, Bytes(full))
  IN  CASE Bytes(full) <= limit -> full
        [] limit < 3            -> UpTo(full, limit)
        [] OTHER                -> UpTo(full, limit - 3) \o <<Ellipsis>>

\* alias: a prefix of the protocol and 16 bits of a keyed hash of sender and route.
alias(protocol, sender, route) == <<Char("alias", 4), Char("alias", 5)>>

\* The tag: of a route in linked mode a verified link's name, else the alias; render.tag
\* "none" leaves either out.
RenderTag(route, link, pseudonym) ==
  CASE route.tag = "none"                              -> {}
    [] route.identity_mode = "linked" /\ link # {}     -> link
    [] OTHER                                           -> {pseudonym}

\* The route's limit is for the body alone; the notes follow; the byte limit is for all.
RenderedAssembled(tag, body, notes, max_chars, limit) ==
  LET full == Assembled(tag, body \o notes)
  IN  render({}, IF max_chars = {} THEN full ELSE truncate_body(full, Or(max_chars, 0)), limit)
Rendered(tag, body, notes, max_chars, limit) ==
  render(tag, (IF max_chars = {} THEN body ELSE truncate_body(body, Or(max_chars, 0))) \o notes, limit)

(* ----------------------------- attachments ---------------------------- *)

\* attachment_notes: a strip of them all names none of them.
Omitted(metas) == [i \in 1..Len(metas) |-> Char("note", 5)]
Noted(meta) == <<Char("note", 5), Char("filename", 4)>>

\* load_attachments, one attachment after the other: media that the transport does not
\* carry, blobs that are not this message's or are gone, then the two byte limits, on
\* the size of what was read.
Demoted(m, tp) == (m.mime = "image" /\ ~tp.allow_images) \/ (m.mime = "video" /\ ~tp.allow_video)
TakeClaimed(acc, m, cap, budget, tp) ==
  IF Demoted(m, tp) \/ ~m.owned \/ ~m.stored \/ (\E c \in cap : m.claimed > c) \/ acc.bytes + m.claimed > budget
  THEN [acc EXCEPT !.notes = @ \o Noted(m)]
  ELSE [acc EXCEPT !.sent = Append(@, m), !.bytes = @ + m.claimed]
Take(acc, m, cap, budget, tp) ==
  IF Demoted(m, tp) \/ ~m.owned \/ ~m.stored \/ (\E c \in cap : m.size > c) \/ acc.bytes + m.size > budget
  THEN [acc EXCEPT !.notes = @ \o Noted(m)]
  ELSE [acc EXCEPT !.sent = Append(@, m), !.bytes = @ + m.size]
load_attachments(metas, cap, budget, tp) ==
  FoldLeft(LAMBDA acc, m : Take(acc, m, cap, budget, tp), [sent |-> <<>>, notes |-> <<>>, bytes |-> 0], metas)

AttachmentsAlways(metas, d, supported, budget, tp) == load_attachments(metas, d.max_attachment_bytes, budget, tp)
Attachments(metas, d, supported, budget, tp) ==
  IF d.attachments_allowed /\ supported THEN load_attachments(metas, d.max_attachment_bytes, budget, tp)
  ELSE [sent |-> <<>>, notes |-> Omitted(metas), bytes |-> 0]

(* -------------------------------- frame ------------------------------- *)

\* The limit of the rendered body: the plugin's, the transport's and the policies'.
LimitOfPlugin(plugin_max, tp, max_payload) == Least({plugin_max, max_payload})
Limit(plugin_max, tp, max_payload) == Least({plugin_max, {tp.max_payload_bytes}, max_payload})

\* A CBOR string of n bytes, as ciborium writes DaemonToPlugin::Send in write_frame.
CborHead(n) == CASE n < 24 -> 1 [] n < 256 -> 2 [] n < 65536 -> 3 [] OTHER -> 5
Str(n) == CborHead(n) + n
\* A map of t, corr, endpoint, kind, body and attachments, each of those a map of three.
Encoded(f) ==
  1 + (Str(1) + Str(4)) + (Str(4) + 9) + (Str(8) + Str(f.endpoint)) + (Str(4) + Str(f.kind)) + (Str(4) + Str(f.body))
    + Str(11) + CborHead(Len(f.attachments))
    + FoldLeft(LAMBDA sum, a : sum + 1 + (Str(8) + Str(a.filename)) + (Str(4) + Str(a.mime)) + (Str(4) + Str(a.data)),
               0, f.attachments)
frame_estimate_data(f) ==
  f.body + f.endpoint + f.kind + FoldLeft(LAMBDA sum, a : sum + a.data, 0, f.attachments) + 256
frame_estimate(f) ==
  f.body + f.endpoint + f.kind
    + FoldLeft(LAMBDA sum, a : sum + a.data + a.filename + a.mime + 64, 0, f.attachments) + 256
\* FRAME_OVERSIZE ends the delivery before it is marked attempting.
Sendable(f) == frame_estimate(f) <= MAX_FRAME

(* ----------------------------- properties ----------------------------- *)

\* Policies are a set: whatever their order, a message is denied when one that matches
\* denies it, and the limits are the same.
PolicyOrderIrrelevant ==
  \A ps \in Case("policies") : \A kind \in {"text", "poll"}, protocol \in {"lxmf", "mqtt"} :
    evaluate(ps, kind, protocol) = evaluate(Reverse(ps), kind, protocol)

\* A rendered body fits the byte limit, is never cut inside a character, and is whole
\* when it fits; the cut is as late as the limit and the mark of the cut allow.
RenderFits ==
  \A b \in Case("body"), t \in Tags, l \in ByteLimits :
    LET r == render(t, b, {l})
        full == Assembled(t, b)
    IN  /\ Bytes(r) <= l
        /\ Bytes(full) <= l <=> r = full
        /\ r # full => \E n \in 0..Len(full) - 1 :
             /\ r \in {SubSeq(full, 1, n), SubSeq(full, 1, n) \o <<Ellipsis>>}
             /\ Bytes(SubSeq(full, 1, n + 1)) > l - Bytes(r) + Bytes(SubSeq(full, 1, n))

\* The route's character limit is for the body only: the tag and every note reach a
\* destination without a byte limit whole, and the body keeps within the limit.
TagAndNotesWhole ==
  \A b \in Case("body"), t \in Tags, mc \in CharLimits, n \in 0..2 :
    LET notes == [i \in 1..n |-> Char("note", 5)]
        r == Rendered(t, b, notes, {mc}, {})
    IN  /\ Len(truncate_body(b, mc)) <= mc
        /\ r = Assembled(t, truncate_body(b, mc)) \o notes
        /\ SubSeq(r, 1, Len(Assembled(t, <<>>))) = Assembled(t, <<>>)

\* A transport that nobody configured does not constrain a plugin: under the classes that
\* default_transport_class_for gives to internet plugins, the limits are those there were
\* before there were classes, for every payload a plugin could announce.
UnclassifiedUnconstrained ==
  \A plugin \in Case("plugin") \ {"lxmf", "meshtastic"} : \A cap \in 0..3 :
    LET tp == transport_policy({}, plugin)
        max == {cap * (MAX_FRAME \div 3)}
    IN  Limit(max, tp, {}) = max /\ \A m \in {"image", "video", "file"} : ~Demoted([mime |-> m], tp)

\* No limit is lost where three of them meet: what is rendered fits the plugin's, the
\* policy's and the transport's, overrides included.
EveryLimitHolds ==
  \A plugin \in Case("plugin"), over \in {{}, {64}, {150}}, own \in {{}, {100}, {200}}, rule \in {{}, {80}} :
    LET entries == IF over = {} THEN {} ELSE {[plugin |-> plugin, class |-> "bluetooth", max_payload_bytes |-> over,
                     allow_images |-> {}, allow_video |-> {}, compress |-> {}, batch_telemetry |-> {}]}
        tp == transport_policy(entries, plugin)
        long == [i \in 1..62 |-> Char("body", 4)]
        sent == Bytes(render({}, long, Limit(own, tp, rule)))
    IN  \A l \in own \cup rule \cup over \cup (IF plugin = "meshtastic" /\ over = {} THEN {237} ELSE {}) : sent <= l

\* Every attachment is sent or noted, never both and never neither; those sent belong to
\* the message, fit the policy's limit and together the frame; and a strip of them all
\* does not say which files there were.
AttachmentsAccounted ==
  \A ms \in Case("attachments"), cap \in {{}, {2}}, class \in {"meshtastic", "reticulum"}, allowed, supported \in BOOLEAN :
    LET tp == for_class(class)
        budget == 4
        d == [attachments_allowed |-> allowed, max_attachment_bytes |-> cap]
        r == Attachments(ms, d, supported, budget, tp)
        notes == Len(SelectSeq(r.notes, LAMBDA c : c.k = "note"))
    IN  /\ Len(r.sent) + notes = Len(ms)
        /\ \A i \in DOMAIN r.sent : /\ r.sent[i].owned /\ r.sent[i].stored
                                    /\ \A c \in cap : r.sent[i].size <= c
                                    /\ r.sent[i].mime # "file" => class # "meshtastic"
        /\ FoldLeft(LAMBDA sum, m : sum + m.size, 0, r.sent) <= budget
        /\ ~(allowed /\ supported) => r.sent = <<>> /\ "filename" \notin Kinds(r.notes)

\* What the engine thinks it can send, the plugin's writer can write: the estimate is
\* never below what the frame takes in CBOR, at every size where its heads grow.
SendableIsWritable ==
  \A f \in Case("frame") : Sendable(f) => Encoded(f) <= MAX_FRAME

\* What goes out obeys every limit and accounts for all it had to leave out: in whatever
\* order policies come, bodies are cut between characters, tags and notes are whole,
\* attachments are sent or noted, and what the engine thinks it can send can be written.
SentIsAccounted ==
  /\ PolicyOrderIrrelevant /\ UnclassifiedUnconstrained /\ EveryLimitHolds
  /\ RenderFits /\ TagAndNotesWhole /\ AttachmentsAccounted /\ SendableIsWritable
=============================================================================
