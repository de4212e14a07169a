----------------------------- MODULE AdminViews -----------------------------
(***************************************************************************)
(* What the daemon shows: the read handlers of the admin API (admin.rs),   *)
(* the event feed (events.rs), the metrics and plugin gauges (metrics.rs)  *)
(* and the queries behind them (storage.rs), over a snapshot d of the      *)
(* daemon.  A handler answers [code, shows]; shows is the set of data in   *)
(* the answer, a datum <<is, v>> tagged with what it is: a native reference, *)
(* a link code, a message body, a resolved secret and a dial address are   *)
(* what no answer may hold.                                                *)
(***************************************************************************)
EXTENDS EgressRules, ConfigRules

CONSTANTS MAX_GAUGES_PER_PLUGIN, GAUGE_STALE_AFTER, CONFIG_HISTORY

Datum(is, v) == <<is, v>>
Sensitive == {"ref", "code", "body", "secret", "addr"}
Ok(shows) == [code |-> 200, shows |-> shows]
Code(n) == [code |-> n, shows |-> {}]

(* ------------------------------ masking ------------------------------- *)

mask_ref_long(s) ==
  IF Len(s) > 5 THEN SubSeq(s, 1, 2) \o <<"****">> \o SubSeq(s, Len(s) - 3, Len(s)) ELSE <<"****">>
mask_ref(s) ==
  IF Len(s) > 8 THEN SubSeq(s, 1, 2) \o <<"****">> \o SubSeq(s, Len(s) - 3, Len(s)) ELSE <<"****">>
Masked(endpoint) == Datum("masked", <<endpoint.protocol>> \o mask_ref(endpoint.ref))

(* ------------------------- the store's listings ----------------------- *)

\* An answer that needs the store, or storage_error.
StoreReadQuiet(d, answer) == answer
StoreRead(d, answer) == IF d.store_ok THEN answer ELSE Code(500)
queue_counts(d) == [s \in {d.deliveries[i].state : i \in DOMAIN d.deliveries} |->
                      Len(SelectSeq(d.deliveries, LAMBDA r : r.state = s))]
list_deliveries_oldest(rows, state, limit) ==
  LET in == SelectSeq(rows, LAMBDA r : r.state = state) IN SubSeq(in, 1, Min({limit, Len(in)}))
\* Rows are in the order of their ids.
list_deliveries(rows, state, limit) ==
  LET in == Reverse(SelectSeq(rows, LAMBDA r : r.state = state)) IN SubSeq(in, 1, Min({limit, Len(in)}))
deliveries_for(d, id) == SelectSeq(d.deliveries, LAMBDA r : r.message = id)
list_links(d) == d.links
list_challenges(d, now) == {c \in d.challenges : c.expires_at > now}

(* ------------------------------- handlers ----------------------------- *)

Names(S) == {Datum("name", n) : n \in S}
enabled_names(d) == {p \in DOMAIN d.plugins : d.plugins[p]}
plugin_state(d) == [p \in enabled_names(d) |-> p \in DOMAIN d.handles /\ d.handles[p].connected]
\* The counts of a store that cannot be read are those of an empty one.
queue_map(d) == IF d.store_ok THEN queue_counts(d) ELSE <<>>

healthz(d) == Ok({})
readyz(d) == IF d.store_ok THEN Ok({}) ELSE Code(503)
status(d) == Ok(Names({d.node} \cup DOMAIN plugin_state(d)) \cup {Datum("count", s) : s \in DOMAIN queue_map(d)})
public(d) == Ok(Names(UNION {s.ingress \cup s.egress : s \in d.services}))
limits(d) == Ok(Names(DOMAIN d.budgets))
plugins(d) == Ok(Names(enabled_names(d)) \cup {Datum("capabilities", p) : p \in enabled_names(d) \cap DOMAIN d.handles})
config_yaml(d) == Ok({Datum("yaml", d.raw_yaml)})
config_prev(d, n) ==
  LET slot == IF n = {} THEN 1 ELSE CHOOSE i \in n : TRUE
  IN  IF slot \in 1..CONFIG_HISTORY /\ slot \in DOMAIN d.prev THEN Ok({Datum("yaml", d.prev[slot])}) ELSE Code(404)

\* A delivery on the @identity route has a person's reference for its destination.
DestinationShown(row) == Datum("ref", <<row.dest.protocol>> \o row.dest.ref)
Destination(row) ==
  IF row.route = IDENTITY_ROUTE.txt THEN Masked(row.dest) ELSE Datum("channel", <<row.dest.protocol>> \o row.dest.ref)
QueueLimit(limit) == IF limit = {} THEN 100 ELSE Max({1, Min({1000, CHOOSE n \in limit : TRUE})})
queue(d, state, limit) ==
  IF state = {} THEN Ok({Datum("count", s) : s \in DOMAIN queue_map(d)})
  ELSE LET rows == list_deliveries(d.deliveries, CHOOSE s \in state : TRUE, QueueLimit(limit))
       IN  StoreRead(d, Ok({Destination(rows[i]) : i \in DOMAIN rows} \cup {Datum("row", rows[i].id) : i \in DOMAIN rows}))
trace(d, id) ==
  LET rows == deliveries_for(d, id)
      found == {m \in d.messages : m.id = id}
  IN  StoreRead(d, IF found = {} THEN Code(404)
                   ELSE Ok({Datum("channel", m.source) : m \in found} \cup {Datum("length", Len(m.body)) : m \in found}
                           \cup {Destination(rows[i]) : i \in DOMAIN rows}))
identities(d) == StoreRead(d, Ok(UNION {{Masked(l.a), Masked(l.b), Datum("name", l.display_name)} : l \in list_links(d)}))
challenges(d, now) == StoreRead(d, Ok({Masked(c.target) : c \in list_challenges(d, now)}))
\* metrics::render: the labels of the families; peers by FEDERATION_PEERS_UP's key.
metrics_render(d) ==
  {Datum("count", s) : s \in DOMAIN queue_map(d)} \cup Names(DOMAIN plugin_state(d) \cup DOMAIN d.peers_up \cup DOMAIN d.route_messages)
metrics_text(d) == Ok(metrics_render(d))

\* Operations that answer with a code only.
queue_requeue(d, id) ==
  StoreRead(d, Code(IF \E i \in DOMAIN d.deliveries : /\ d.deliveries[i].id = id
                                                       /\ d.deliveries[i].state \in {"dead_letter", "failed", "expired"}
                    THEN 204 ELSE 404))
queue_purge(d) == StoreRead(d, Code(200))
delete_link(d, id) == StoreRead(d, Code(IF \E l \in list_links(d) : l.id = id THEN 204 ELSE 404))

\* 1..64 characters that are not all blank, by node.name's rule.
BLANK == 32
validate_display_name_long(name) == Len(name) <= 64 /\ \E i \in DOMAIN name : name[i] # BLANK
validate_display_name(name) ==
  /\ Len(name) <= 64 /\ \E i \in DOMAIN name : name[i] # BLANK
  /\ \A i \in DOMAIN name : ~is_unsafe_advert_name_char(name[i])
\* request.ok: its JSON and both its endpoints parse; initiated: what initiate_link says.
create_link(d, request, initiated) ==
  Code(IF ~request.ok \/ ~validate_display_name(request.display_name) THEN 400 ELSE IF initiated THEN 202 ELSE 409)

\* Event's payloads, as the engine fills them.
Event(e) ==
  CASE e.event = "ingress"  -> Names({e.protocol} \cup e.routes) \cup {Masked(e.sender)}
    [] e.event = "delivery" -> Names({e.route, e.state})
    [] e.event \in {"plugin", "federation"} -> Names({e.name})
    [] e.event = "link_verified"  -> {Datum("row", e.link_id)}
    [] e.event = "config_applied" -> Names(e.restart_required)
    [] e.event = "advert" -> {Datum("text", sanitize_advert_name(e.advert_name))}
\* The feed of a receiver that lagged: what it missed is skipped.
events_stream_from(items) == Ok(UNION {Event(items[i].event) : i \in {j \in DOMAIN items : ~items[j].lagged}})

StoreViews(d) ==
  {queue(d, {"dead_letter"}, {}), trace(d, 1), trace(d, 2), identities(d), challenges(d, 1)}
Commands(d) == {queue_requeue(d, 1), queue_purge(d), delete_link(d, 1)}
QuietViews(d) ==
  {healthz(d), status(d), public(d), limits(d), plugins(d), config_yaml(d), config_prev(d, {}), config_prev(d, {2}),
   config_prev(d, {0}), queue(d, {}, {}), metrics_text(d), events_stream_from(d.events)}

(* ------------------------- routes and federation ---------------------- *)

policies_for_routeNamed(destinations, ps) ==
  SelectSeq(ps, LAMBDA p : p.protocols \cap destinations # {})
policies_for_route(destinations, ps) ==
  SelectSeq(ps, LAMBDA p : p.protocols = {} \/ p.protocols \cap destinations # {})
\* GET /v1/routes: each route as configured, with its policies.
routes(d) == [i \in DOMAIN d.routes |-> [name |-> d.routes[i].name,
                                         policies |-> policies_for_route(d.routes[i].destinations, d.policies)]]

federation_peer_item(name, id, trust, conn) ==
  LET row == {t \in Range(trust) : t.node_id = id}
  IN  [name |-> name, node_id |-> id, connected |-> conn # {},
       trust |-> IF row = {} THEN "unknown" ELSE (CHOOSE t \in row : TRUE).level,
       last_seen |-> IF conn # {} THEN {c.connected_at : c \in conn} ELSE {t.updated_at : t \in row}]
\* conns is keyed by a peer's name, or by the node id of a peer without one.
LiveByKey(f, id) == {f.conns[k] : k \in DOMAIN f.conns \cap {id}}
Live(f, id) == {c \in Range(f.conns) : c.node_id = id}
federation(f) ==
  LET named == {f.peers[i].node_id : i \in DOMAIN f.peers}
      seen == SelectSeq(f.trust, LAMBDA t : t.node_id \notin named)
      item(name, id) == federation_peer_item(name, id, f.trust, Live(f, id))
  IN  IF f.on THEN StoreRead(f, Ok([i \in DOMAIN f.peers |-> item({f.peers[i].name}, f.peers[i].node_id)]
                                  \o [i \in DOMAIN seen |-> item({}, seen[i].node_id)]))
      ELSE Ok(<<>>)

\* GET /v1/discovery: a stored advert is served when it verifies, for the row's own key.
VerifiedOnly(row) == row.decodes /\ row.signer = row.embedded
Verified(row) == row.decodes /\ row.signer = row.embedded /\ row.embedded = row.key
discovery(d, rows) ==
  StoreRead(d, Ok({[node_id |-> r.key, signer |-> r.signer, name |-> sanitize_advert_name(r.name)] :
                     r \in {q \in rows : Verified(q)}}))

(* -------------------------- gauges and metrics ------------------------ *)

sanitize_gauge_char(c) == IF c \in {"a", "b", "1", "_"} THEN c ELSE IF c = "A" THEN "a" ELSE "_"
sanitize_gauge_name(name) == [i \in DOMAIN name |-> sanitize_gauge_char(name[i])]
\* A frame's gauges in the order of their names; of two that sanitize to one, the last.
record(frame) ==
  LET finite == SelectSeq(frame, LAMBDA g : g.value # "inf")
      kept == SubSeq(finite, 1, Min({MAX_GAUGES_PER_PLUGIN, Len(finite)}))
      clean == [i \in DOMAIN kept |-> [name |-> sanitize_gauge_name(kept[i].name), value |-> kept[i].value]]
  IN  {clean[i] : i \in {j \in DOMAIN clean : \A k \in DOMAIN clean : k > j => clean[k].name # clean[j].name}}
Stale(age) == age > GAUGE_STALE_AFTER
gauges_render(frame, age) == IF Stale(age) THEN {} ELSE record(frame)
for_plugin_strict(frame, age) == IF age >= GAUGE_STALE_AFTER THEN {} ELSE record(frame)
for_plugin(frame, age) == IF Stale(age) THEN {} ELSE record(frame)

escape_quote(value) == FlattenSeq([i \in DOMAIN value |-> IF value[i] = "quote" THEN <<"backslash", "quote">>
                         ELSE IF value[i] = "newline" THEN <<"backslash", "n">> ELSE <<value[i]>>])
escape_label(value) ==
  FlattenSeq([i \in DOMAIN value |->
    CASE value[i] = "backslash" -> <<"backslash", "backslash">>
      [] value[i] = "quote"     -> <<"backslash", "quote">>
      [] value[i] = "newline"   -> <<"backslash", "n">>
      [] OTHER                  -> <<value[i]>>])
\* A reader of the exposition format: the text up to the first quote that is not escaped.
ReadChar(r, c) ==
  IF r.closed THEN [r EXCEPT !.rest = TRUE]
  ELSE IF r.escaped THEN [r EXCEPT !.escaped = FALSE, !.text = Append(@, IF c = "n" THEN "newline" ELSE c)]
  ELSE IF c = "backslash" THEN [r EXCEPT !.escaped = TRUE]
  ELSE IF c = "quote" THEN [r EXCEPT !.closed = TRUE]
  ELSE [r EXCEPT !.text = Append(@, c)]
ReadLabel(line) == FoldLeft(ReadChar, [text |-> <<>>, escaped |-> FALSE, closed |-> FALSE, rest |-> FALSE], line)

(* ----------------------------- properties ----------------------------- *)

\* No answer of the admin API, no event and no metric holds a person's reference, a link
\* code, a message's body, a secret or a peer's address, whatever is in the daemon.
NothingSensitiveShown ==
  \A d \in Case("daemon") : \A answer \in StoreViews(d) \cup QuietViews(d) \cup Commands(d) :
    \A x \in answer.shows :
      /\ x[1] \notin Sensitive
      /\ x[1] = "channel" => \A l \in d.links : x[2] \notin {<<l.a.protocol>> \o l.a.ref, <<l.b.protocol>> \o l.b.ref}
      /\ x[1] = "yaml" => x[2] \cap d.secrets = {}

\* A mask leaves open what was masked: at least three of a reference's characters, or all
\* of a short one's, could be others and the mask would be the same.
MaskLeavesOpen ==
  \A s \in Case("ref") :
    LET Other(i) == [s EXCEPT ![i] = IF @ = "x" THEN "y" ELSE "x"]
    IN  Cardinality({i \in DOMAIN s : mask_ref(Other(i)) = mask_ref(s)}) >= Min({3, Len(s)})

\* A store that cannot be read is reported: no listing and no command answers as if there
\* were nothing, and the node is not ready; while it can be read nothing reports a failure.
FailuresSurface ==
  /\ \A d \in Case("daemon") :
       /\ \A answer \in StoreViews(d) \cup Commands(d) \cup {readyz(d), discovery(d, {})} : answer.code >= 500 <=> ~d.store_ok
       /\ \A answer \in QuietViews(d) : answer.code < 500
  /\ \A f \in Case("federation") : federation(f).code >= 500 <=> f.on /\ ~f.store_ok

\* The listing by state is the newest rows of that state, at least one if there is any,
\* whatever limit is asked for.
ListingIsNewest ==
  \A d \in Case("daemon"), state \in {"pending", "dead_letter"}, limit \in {{}, {0}, {1}, {2}, {5000}} :
    LET in == {i \in DOMAIN d.deliveries : d.deliveries[i].state = state}
        out == list_deliveries(d.deliveries, state, QueueLimit(limit))
        shown == {out[i].id : i \in DOMAIN out}
    IN  /\ shown = {} => in = {}
        /\ \A i, j \in in : d.deliveries[i].id \in shown /\ j > i => d.deliveries[j].id \in shown

\* The policies shown with a route are those that a delivery on it is evaluated against:
\* each is consulted for some destination, and none that is consulted is left out.
PoliciesShownApply ==
  \A ps \in Case("policies"), dests \in (SUBSET {"lxmf", "mqtt"}) \ {{}} :
    LET shown == routes([routes |-> <<[name |-> "r", destinations |-> dests]>>, policies |-> ps])[1].policies
    IN  Range(shown) = UNION {Range(Matching(ps, e)) : e \in dests}

\* The federation view has each configured peer by its name and each other node of the
\* trust store once, also when two names have one node id, and shows it connected exactly
\* when a live connection is to that node, whatever key the connection is kept by.
FederationViewComplete ==
  \A f \in Case("federation") :
    LET items == federation(f).shows
        ids == {f.peers[i].node_id : i \in DOMAIN f.peers}
        others == {t.node_id : t \in Range(f.trust)} \ ids
    IN  f.store_ok =>
        IF f.on THEN /\ Len(items) = Len(f.peers) + Cardinality(others)
                     /\ {items[i].node_id : i \in DOMAIN items} = ids \cup others
                     /\ \A i \in DOMAIN items :
                          items[i].connected <=> \E k \in DOMAIN f.conns : f.conns[k].node_id = items[i].node_id
        ELSE items = <<>>

\* An advert is served under the node that signed it or not at all, and its name is safe
\* to display, also when the database was changed under the daemon.
AdvertsServedAsSigned ==
  \A row \in Case("advert") : \A a \in discovery([store_ok |-> TRUE], {row}).shows :
    /\ a.signer = a.node_id
    /\ \A i \in DOMAIN a.name : ~is_unsafe_advert_name_char(a.name[i])

\* The plugin page and the metrics never disagree on a gauge, up to the second where a
\* snapshot goes stale; no plugin has more than its share or one series twice.
GaugeViewsAgree ==
  \A frame \in Case("gauges"), age \in GAUGE_STALE_AFTER - 1..GAUGE_STALE_AFTER + 1 :
    LET shown == for_plugin(frame, age)
    IN  /\ gauges_render(frame, age) = shown
        /\ Cardinality(shown) <= MAX_GAUGES_PER_PLUGIN
        /\ \A g, h \in shown : g.name = h.name => g = h

\* Whatever is in a label's value, a reader of the metrics reads back that value, and the
\* sample ends where the value does.
LabelsRoundTrip ==
  \A value \in Case("label") :
    LET r == ReadLabel(escape_label(value) \o <<"quote">>)
    IN  r.text = value /\ r.closed /\ ~r.rest

\* A display name that is accepted stays on the tag's line and hides nothing: the
\* receiver's display rule would change nothing of it.
DisplayNamesArePlain ==
  \A name \in Case("name") :
    (create_link({}, [ok |-> TRUE, display_name |-> name], TRUE).code = 202)
      => name # <<>> /\ sanitize_advert_name(name) = name

\* The views of the admin API show the daemon as it is, and nothing of the people who use
\* it: rows, peers, policies, gauges and adverts are complete and agree with one another,
\* failures surface, and no reference, code, body or secret can be read back.
ViewsAreHonest ==
  /\ NothingSensitiveShown /\ MaskLeavesOpen /\ FailuresSurface /\ ListingIsNewest /\ PoliciesShownApply
  /\ FederationViewComplete /\ AdvertsServedAsSigned /\ GaugeViewsAgree /\ LabelsRoundTrip /\ DisplayNamesArePlain
=============================================================================
