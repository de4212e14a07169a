----------------------------- MODULE ConfigRules -----------------------------
(***************************************************************************)
(* What load_from_str makes of a configuration document: the parse with    *)
(* its defaults, every rule of validate, and the secret references (the    *)
(* whole of config.rs, with parse_ref and resolve of secrets.rs).          *)
(*                                                                         *)
(* A document is a record whose absent keys are absent from its domain.  A *)
(* value that may be missing (Option) is a set of at most one element.  A  *)
(* name is [txt, len, chars]: what tells it apart, its length and the      *)
(* classes of its characters.  Which rule fails first decides only the     *)
(* wording of the error, so validate is a conjunction.                     *)
(***************************************************************************)
EXTENDS Integers, Sequences, FiniteSets, FiniteSetsExt, TLC, Given

CONSTANTS
  World,     \* what secret references find: a reference's value, "" for none
  I64        \* 2^63, from which on a u64 of seconds turns negative

(* ------------------------------- parsing ------------------------------ *)

\* serde with deny_unknown_fields: the keys a block must have, and the value of
\* every other key when it is left out.
Struct(required, default) == [required |-> required, default |-> default]
Shaped(doc, s) == s.required \subseteq DOMAIN doc /\ DOMAIN doc \subseteq s.required \cup DOMAIN s.default
Filled(doc, s) == doc @@ s.default

NodeConfig   == Struct({"name", "data_dir"}, [public |-> FALSE])
Limits       == Struct({}, [per_minute |-> 0, per_hour |-> 0, route_max |-> 0, global_max |-> 0, cas_max |-> 0])
PluginConfig == Struct({"enabled"}, [command |-> {}, config |-> [t |-> "null"], peer_uid |-> {}])
TransportEntry == Struct({"class"}, [max_payload_bytes |-> {}, allow_images |-> {}, allow_video |-> {},
                                     compress |-> {}, batch_telemetry |-> {}])
AlertConfig  == Struct({"endpoint"}, [events |-> {}])
RenderConfig == Struct({}, [tag |-> "alias", max_chars |-> 0])
RouteConfig  == Struct({"name", "sources", "destinations"},
                       [identity_mode |-> "pseudonymous", render |-> <<>>, security_mode |-> "gateway",
                        allow_gateway_decryption |-> {}])
PeerConfig   == Struct({"name", "node_id", "addr"}, [trust |-> "verified", messages_per_minute |-> 0, sealed_key |-> {}])
FederationConfig == Struct({}, [listen |-> {}, accept_from |-> "verified", max_hops |-> 4, max_ttl_secs |-> 86400,
                                identity_exposure |-> "pseudonymous", ingress_routes |-> {}, peers |-> <<>>,
                                trusted |-> {}, blocked |-> {}])
DiscoveryConfig == Struct({}, [mode |-> "disabled", advert_ttl_secs |-> 3600])
PrivacyConfigSealed == Struct({}, [minimum_security |-> "sealed", allow_gateway_decryption |-> TRUE,
                                   allow_protocol_downgrade |-> TRUE])
PrivacyConfig == Struct({}, [minimum_security |-> "gateway", allow_gateway_decryption |-> TRUE,
                             allow_protocol_downgrade |-> TRUE])
PolicyRules  == Struct({}, [max_payload |-> {}, drop_kinds |-> {}, deny |-> FALSE, attachments |-> {},
                            max_attachment_bytes |-> {}])
Config == Struct({"node"},
  [plugins |-> <<>>, routes |-> <<>>, policies |-> <<>>, ttl_default_secs |-> 86400, dedup_ttl_secs |-> 86400,
   retention_secs |-> 86400, hop_limit |-> 8, max_attachment_bytes |-> 8 * 1024 * 1024, public_services |-> {},
   limits |-> <<>>, transport_budgets |-> <<>>, federation |-> {}, discovery |-> <<>>, privacy |-> <<>>,
   transports |-> <<>>, alerts |-> {}])

\* endpoints: "protocol:endpoint", both parts there.  Of an endpoint only the split at
\* a slash matters: its part before, and its part after if there is a slash.
Endpoint(e) == e.protocol.len > 0 /\ e.peer.len + Cardinality(e.remote) > 0
endpoints(es) == \A e \in es : Endpoint(e)

WellShaped(doc) ==
  /\ Shaped(doc, Config)
  /\ Shaped(doc.node, NodeConfig)
  /\ LET c == Filled(doc, Config) IN
     /\ \A p \in DOMAIN c.plugins : Shaped(c.plugins[p], PluginConfig)
     /\ \A i \in DOMAIN c.routes : /\ Shaped(c.routes[i], RouteConfig)
                                   /\ endpoints(c.routes[i].sources) /\ endpoints(c.routes[i].destinations)
                                   /\ Shaped(Filled(c.routes[i], RouteConfig).render, RenderConfig)
     /\ \A i \in DOMAIN c.policies : Shaped(c.policies[i].rules, PolicyRules)
     /\ \A p \in DOMAIN c.transports : Shaped(c.transports[p], TransportEntry)
     /\ \A f \in c.federation : /\ Shaped(f, FederationConfig)
                                /\ LET g == Filled(f, FederationConfig)
                                   IN  \A i \in DOMAIN g.peers : Shaped(g.peers[i], PeerConfig)
     /\ \A a \in c.alerts : Shaped(a, AlertConfig)
     /\ Shaped(c.limits, Limits) /\ Shaped(c.discovery, DiscoveryConfig) /\ Shaped(c.privacy, PrivacyConfig)

All(f, s) == [x \in DOMAIN f |-> Filled(f[x], s)]
Parsed(doc) ==
  [Filled(doc, Config) EXCEPT
     !.node = Filled(@, NodeConfig), !.limits = Filled(@, Limits),
     !.discovery = Filled(@, DiscoveryConfig), !.privacy = Filled(@, PrivacyConfig),
     !.plugins = All(@, PluginConfig), !.transports = All(@, TransportEntry),
     !.policies = [i \in DOMAIN @ |-> [@[i] EXCEPT !.rules = Filled(@, PolicyRules)]],
     !.routes = [i \in DOMAIN @ |-> [Filled(@[i], RouteConfig) EXCEPT !.render = Filled(@, RenderConfig)]],
     !.alerts = {Filled(a, AlertConfig) : a \in @},
     !.federation = {[Filled(f, FederationConfig) EXCEPT !.peers = All(@, PeerConfig)] : f \in @}]

(* -------------------------- strings and names ------------------------- *)

FED_PROTOCOL == [txt |-> "fed", len |-> 3, chars |-> {"lower"}]
IDENTITY_ROUTE == [txt |-> "@identity", len |-> 9, chars |-> {"lower", "other"}]
MAX_LIFECYCLE_SECS == 315360000
SOCKET_PATH_MAX == 103
TRANSPORT_MAX_PAYLOAD_BYTES_FLOOR == 64
SocketAddr == {"host:port"}

is_valid_component_name(n) == n.len \in 1..64 /\ n.chars \subseteq {"lower", "upper", "digit", "-", "_"}
is_valid_peer_name(n) == n.len \in 1..32 /\ n.chars \subseteq {"lower", "digit", "-"}

\* A node id is [key, prefix, len, chars]; two ids are compared as they are written.
is_valid_hex64(h) == h.len = 64 /\ h.chars \subseteq {"digit", "lower", "upper"}
is_valid_rf_node_id(i) == i.prefix = "rf:" /\ is_valid_hex64(i)
is_lowercase_always(i) == TRUE
is_lowercase_rf_node_id(i) == "upper" \notin i.chars

\* Characters are their code points.
is_control(c) == c \in 0..31 \/ c \in 127..159
is_unsafe_advert_name_char_bidi(c) ==
  is_control(c) \/ c \in {1564} \cup (8206..8207) \cup (8234..8238) \cup (8294..8297)
is_unsafe_advert_name_char(c) ==
  is_control(c) \/ c \in {1564} \cup (8206..8207) \cup (8234..8238) \cup (8294..8297)
                         \cup (8203..8205) \cup {65279, 8288}

\* The receiving end: is_display_spoofing and sanitize_advert_name of fed/conn.rs.
ADVERT_MAX_NAME_CHARS == 64
is_display_spoofing(c) ==
  \/ c = 1564 \/ c \in 8206..8207 \/ c \in 8234..8238 \/ c \in 8294..8297
  \/ c \in 8203..8205 \/ c = 65279 \/ c = 8288
sanitize_advert_name(name) ==
  LET Keep(c) == ~is_control(c) /\ ~is_display_spoofing(c)
      kept == SelectSeq(name, Keep)
  IN  SubSeq(kept, 1, Min({Len(kept), ADVERT_MAX_NAME_CHARS}))

(* ------------------------------ the rules ----------------------------- *)

Enabled(c) == {p \in DOMAIN c.plugins : c.plugins[p].enabled}
require_enabled_plugin(c, proto) == proto \in Enabled(c)

\* <data_dir>/admin.sock, and <data_dir>/plugins.d/<name>.sock of each enabled plugin.
bound_socket_paths(c) ==
  {c.node.data_dir.len + 11} \cup {c.node.data_dir.len + 11 + p.len + 5 : p \in Enabled(c)}
DataDirRule(c) == c.node.data_dir.absolute /\ \A len \in bound_socket_paths(c) : len <= SOCKET_PATH_MAX

PublicQuotaRule(c) ==
  c.node.public => \E k \in {"per_minute", "per_hour", "global_max", "cas_max"} : c.limits[k] > 0

PluginNameRule(c) == FED_PROTOCOL \notin DOMAIN c.plugins /\ \A p \in DOMAIN c.plugins : is_valid_component_name(p)

LifecycleRuleNoCeiling(c) == c.hop_limit > 0 /\ \A s \in {c.ttl_default_secs, c.dedup_ttl_secs, c.retention_secs} : s > 0
LifecycleRule(c) ==
  /\ c.hop_limit > 0
  /\ \A s \in {c.ttl_default_secs, c.dedup_ttl_secs, c.retention_secs} : s \in 1..MAX_LIFECYCLE_SECS

AlertRule(c) ==
  \A a \in c.alerts : /\ a.endpoint.protocol.len > 0 /\ a.endpoint.peer.len + Cardinality(a.endpoint.remote) > 0
                      /\ a.endpoint.protocol \in Enabled(c)
                      /\ a.events \subseteq {"plugin", "federation"}

NodeNameRule(c) == Len(c.node.name) <= 64 /\ \A i \in DOMAIN c.node.name : ~is_unsafe_advert_name_char(c.node.name[i])

security_rank(mode) == IF mode = "sealed" THEN 1 ELSE 0
Peers(c) == UNION {{f.peers[i] : i \in DOMAIN f.peers} : f \in c.federation}

validate_fed_destination_shape(c, e) == c.federation # {} /\ \E r \in e.remote : is_valid_peer_name(r)
validate_fed_destination(c, e) ==
  /\ c.federation # {}
  /\ \E r \in e.remote : is_valid_peer_name(r)
  /\ \E p \in Peers(c) : p.name = e.peer

\* A malformed destination or an unknown peer is validate_fed_destination's to refuse.
validate_sealed_route(c, r) ==
  \A e \in r.destinations :
    /\ e.protocol = FED_PROTOCOL
    /\ \A p \in Peers(c) : e.remote # {} /\ p.name = e.peer => p.sealed_key # {}

RouteRuleNoFloor(c, r) ==
  /\ r.name # IDENTITY_ROUTE /\ is_valid_component_name(r.name)
  /\ r.identity_mode \in {"pseudonymous", "linked"} /\ r.security_mode \in {"gateway", "sealed"}
  /\ r.render.tag \in {"alias", "none"} /\ (r.render.max_chars = 0 \/ r.render.max_chars >= 16)
  /\ \A e \in r.sources : e.protocol # FED_PROTOCOL
  /\ \A e \in r.sources \cup r.destinations : e.protocol # FED_PROTOCOL => require_enabled_plugin(c, e.protocol)
  /\ \A e \in r.destinations : e.protocol = FED_PROTOCOL => validate_fed_destination(c, e)
  /\ r.security_mode = "sealed" => validate_sealed_route(c, r)
RouteRule(c, r) ==
  /\ r.name # IDENTITY_ROUTE /\ is_valid_component_name(r.name)
  /\ r.identity_mode \in {"pseudonymous", "linked"} /\ r.security_mode \in {"gateway", "sealed"}
  /\ security_rank(r.security_mode) >= security_rank(c.privacy.minimum_security)
  /\ r.render.tag \in {"alias", "none"} /\ (r.render.max_chars = 0 \/ r.render.max_chars >= 16)
  /\ \A e \in r.sources : e.protocol # FED_PROTOCOL
  /\ \A e \in r.sources \cup r.destinations : e.protocol # FED_PROTOCOL => require_enabled_plugin(c, e.protocol)
  /\ \A e \in r.destinations : e.protocol = FED_PROTOCOL => validate_fed_destination(c, e)
  /\ r.security_mode = "sealed" => validate_sealed_route(c, r)
Distinct(f) == \A i, j \in DOMAIN f : f[i].name = f[j].name => i = j
RouteRules(c) == Distinct(c.routes) /\ \A i \in DOMAIN c.routes : RouteRule(c, c.routes[i])

PolicyRule(c) == \A i \in DOMAIN c.policies : c.policies[i].rules.attachments \subseteq {"allow", "reject"}

ServiceRule(c) == \A s \in c.public_services : \A p \in s.ingress \cup s.egress : require_enabled_plugin(c, p)
CoverageRuleLocal(c) ==
  c.node.public => \A i \in DOMAIN c.routes :
    /\ \A e \in c.routes[i].sources : \E s \in c.public_services : e.protocol \in s.ingress
    /\ \A e \in c.routes[i].destinations :
         e.protocol # FED_PROTOCOL => \E s \in c.public_services : e.protocol \in s.egress
CoverageRule(c) ==
  c.node.public => \A i \in DOMAIN c.routes :
    /\ \A e \in c.routes[i].sources : \E s \in c.public_services : e.protocol \in s.ingress
    /\ \A e \in c.routes[i].destinations : \E s \in c.public_services : e.protocol \in s.egress

BudgetRule(c) == \A p \in DOMAIN c.transport_budgets : c.transport_budgets[p] > 0 /\ require_enabled_plugin(c, p)
TransportRule(c) ==
  \A p \in DOMAIN c.transports :
    /\ require_enabled_plugin(c, p)
    /\ \A b \in c.transports[p].max_payload_bytes : b >= TRANSPORT_MAX_PAYLOAD_BYTES_FLOOR

PeerRule(p) ==
  /\ is_valid_peer_name(p.name) /\ is_valid_rf_node_id(p.node_id) /\ is_lowercase_rf_node_id(p.node_id)
  /\ p.addr \in SocketAddr /\ p.trust \in {"verified", "trusted"}
  /\ \A k \in p.sealed_key : is_valid_hex64(k) /\ "upper" \notin k.chars
validate_federation(c) ==
  \A f \in c.federation :
    /\ f.accept_from \in {"verified", "trusted"}
    /\ f.max_hops > 0 /\ f.max_ttl_secs \in 1..MAX_LIFECYCLE_SECS
    /\ f.identity_exposure \in {"pseudonymous", "full"}
    /\ f.listen \subseteq SocketAddr
    /\ f.ingress_routes \subseteq {c.routes[i].name : i \in DOMAIN c.routes}
    /\ Distinct(f.peers) /\ \A i \in DOMAIN f.peers : PeerRule(f.peers[i])
    /\ \A id \in f.trusted \cup f.blocked : is_valid_rf_node_id(id) /\ is_lowercase_rf_node_id(id)

validate_discovery(c) ==
  /\ c.discovery.mode \in {"disabled", "federation", "public"}
  /\ c.discovery.advert_ttl_secs \in 300..86400
  /\ c.discovery.mode = "public" => c.node.public

validate_privacy(c) == c.privacy.minimum_security \in {"gateway", "sealed"}

validate(c) ==
  /\ DataDirRule(c) /\ PublicQuotaRule(c) /\ PluginNameRule(c) /\ LifecycleRule(c) /\ AlertRule(c)
  /\ NodeNameRule(c) /\ RouteRules(c) /\ PolicyRule(c) /\ ServiceRule(c) /\ CoverageRule(c)
  /\ BudgetRule(c) /\ TransportRule(c)
  /\ validate_federation(c) /\ validate_discovery(c) /\ validate_privacy(c)

(* ------------------------------- secrets ------------------------------ *)

\* A string leaf is [open, close, inner]: whether it begins with "${" and ends with
\* "}", and of what is between, the scheme, the name and whether a brace is in it.
parse_ref(s) ==
  IF s.open /\ s.close /\ ~s.brace /\ s.scheme \in {"env", "file"} /\ s.name # ""
  THEN {<<s.scheme, s.name>>} ELSE {}
malformed_ref_warning(s) == s.open /\ s.close /\ parse_ref(s) = {}

\* secrets::resolve: unset, empty, relative and unreadable all give no value.
resolve(ref) == IF ref \in DOMAIN World THEN World[ref] ELSE ""

\* resolve_value gives the tree with its references replaced; a reference without a
\* value stays as it is, and its error is collected.
Leaf(v) == [t |-> "text", v |-> v]
RECURSIVE resolve_value(_), Refs(_), Texts(_)
resolve_value(v) ==
  CASE v.t = "str" -> IF \E r \in parse_ref(v.s) : resolve(r) # ""
                      THEN Leaf(resolve(CHOOSE r \in parse_ref(v.s) : TRUE)) ELSE v
    [] v.t = "seq" -> [v EXCEPT !.of = [i \in DOMAIN @ |-> resolve_value(@[i])]]
    [] OTHER       -> v
\* collect_secret_refs.
Refs(v) ==
  CASE v.t = "str" -> parse_ref(v.s)
    [] v.t = "seq" -> UNION {Refs(v.of[i]) : i \in DOMAIN v.of}
    [] OTHER       -> {}
\* The literal texts in a tree.
Texts(v) ==
  CASE v.t = "text" -> {v.v}
    [] v.t = "seq"  -> UNION {Texts(v.of[i]) : i \in DOMAIN v.of}
    [] OTHER        -> {}

resolve_secrets_late(c) ==
  LET done == [p \in DOMAIN c.plugins |-> [c.plugins[p] EXCEPT !.config = resolve_value(@)]]
  IN  [cfg |-> [plugins |-> done, raw |-> [p \in DOMAIN c.plugins |-> done[p].config]],
       errors |-> {r \in UNION {Refs(c.plugins[p].config) : p \in DOMAIN c.plugins} : resolve(r) = ""}]
resolve_secrets(c) ==
  [cfg |-> [plugins |-> [p \in DOMAIN c.plugins |-> [c.plugins[p] EXCEPT !.config = resolve_value(@)]],
            raw |-> [p \in DOMAIN c.plugins |-> c.plugins[p].config]],
   errors |-> {r \in UNION {Refs(c.plugins[p].config) : p \in DOMAIN c.plugins} : resolve(r) = ""}]
secret_refs(raw) == UNION {{<<p, r>> : r \in Refs(raw[p])} : p \in DOMAIN raw}

load_from_str(doc) == WellShaped(doc) /\ validate(Parsed(doc)) /\ resolve_secrets(Parsed(doc)).errors = {}

(* ---------------------- what the rest makes of it --------------------- *)

\* effective_allow_gateway_decryption.
effective_allow_gateway_decryption(c, r) ==
  IF r.allow_gateway_decryption = {} THEN c.privacy.allow_gateway_decryption
  ELSE TRUE \in r.allow_gateway_decryption

\* Why a delivery on route r to e can never leave, whatever connects later: process_due
\* and process_due_fed, with resolve_sealed_key of a peer that has sent no advert.
Unservable(c, r, e) ==
  CASE e.protocol # FED_PROTOCOL               -> e.protocol \notin Enabled(c)
    [] e.remote = {}                           -> TRUE
    [] ~\E p \in Peers(c) : p.name = e.peer    -> TRUE
    [] r.security_mode = "sealed"              -> \E p \in Peers(c) : p.name = e.peer /\ p.sealed_key = {}
    [] OTHER                                   -> FALSE

\* What the trust store holds for the id that a node with this key presents, after
\* seed_federation_trust; overlapping_federation_node_ids only warns.
Presented(key) == [key |-> key, prefix |-> "rf:", len |-> 64, chars |-> {"digit", "lower"}]
Seeded(f, id) ==
  CASE id \in f.blocked -> "blocked"
    [] id \in f.trusted -> "trusted"
    [] \E i \in DOMAIN f.peers : f.peers[i].node_id = id ->
         f.peers[CHOOSE i \in DOMAIN f.peers : f.peers[i].node_id = id].trust
    [] OTHER -> "unknown"
Keys(f) == {id.key : id \in f.trusted \cup f.blocked \cup {f.peers[i].node_id : i \in DOMAIN f.peers}}
overlapping_federation_node_ids(f) ==
  LET peers == {f.peers[i].node_id : i \in DOMAIN f.peers}
  IN  (peers \cap f.trusted) \cup (peers \cap f.blocked) \cup (f.trusted \cap f.blocked)

\* now + Duration::seconds(secs as i64).
Deadline(now, secs) == now + (IF secs < I64 THEN secs ELSE secs - 2 * I64)

(* ----------------------------- properties ----------------------------- *)

\* The document under examination, if it loads.
Loaded == {Parsed(d) : d \in {d \in Case("document") : load_from_str(d)}}

\* The engine's defensive ends for a destination that cannot be served (a malformed
\* fed: endpoint, a peer nobody configured, a sealed route without a key, a plugin that
\* is not enabled) are dead code: no document that loads has such a route.
DestinationsServable ==
  \A c \in Loaded : \A i \in DOMAIN c.routes :
    \A e \in c.routes[i].destinations : ~Unservable(c, c.routes[i], e)

\* The privacy floor is absolute: under a floor of sealed, nothing that loads can send
\* a message to a plugin or to a peer without a pinned key, whatever the route says.
FloorIsAbsolute ==
  \A c \in Loaded : c.privacy.minimum_security = "sealed" =>
    \A i \in DOMAIN c.routes : \A e \in c.routes[i].destinations :
      e.protocol = FED_PROTOCOL /\ \A p \in Peers(c) : p.name = e.peer => p.sealed_key # {}

\* A node that the document blocks, trusts or peers with is that to the trust store too,
\* which compares ids as they are written: no listed id is one that a node never presents.
ListedIdsBind ==
  \A c \in Loaded : \A f \in c.federation : \A k \in Keys(f) :
    /\ Seeded(f, Presented(k)) # "unknown"
    /\ (\E id \in f.blocked : id.key = k) => Seeded(f, Presented(k)) = "blocked"

\* Secrets are resolved in what plugins get and nowhere else: the display copy keeps
\* every reference that PUT compares, none of the values, and the plugins' copy keeps
\* no reference.  A document whose references do not all resolve does not load.
SecretsStayApart ==
  \A d \in {d \in Case("document") : WellShaped(d) /\ validate(Parsed(d))} :
    LET c == Parsed(d)
        r == resolve_secrets(c)
    IN  /\ secret_refs(r.cfg.raw) = UNION {{<<p, x>> : x \in Refs(c.plugins[p].config)} : p \in DOMAIN c.plugins}
        /\ \A p \in DOMAIN c.plugins :
             Texts(r.cfg.raw[p]) \cap {resolve(x) : x \in Refs(c.plugins[p].config)} = {}
        /\ load_from_str(d) <=> \A p \in DOMAIN c.plugins : Refs(r.cfg.plugins[p].config) = {}

\* No lifetime that loads makes a message expire on arrival: the deadline is after now
\* for the default ttl, the retention and a peer's clamped ttl.
DeadlinesAhead ==
  \A c \in Loaded : \A secs \in {c.ttl_default_secs, c.dedup_ttl_secs, c.retention_secs}
                                 \cup {f.max_ttl_secs : f \in c.federation} :
    \A now \in {0, 1} : Deadline(now, secs) > now

\* A node name that loads reaches every peer as it is: the receiver's sanitize changes
\* nothing of it, so the two copies of the character rule have not drifted apart.
NameSurvivesAdvert ==
  \A c \in Loaded : sanitize_advert_name(c.node.name) = c.node.name

\* A document from before a block existed still loads: leaving an optional block out of
\* a document that loads gives a document that loads.
OlderDocumentsLoad ==
  \A d \in {d \in Case("document") : load_from_str(d)} :
    \A b \in {"policies", "transport_budgets", "discovery", "privacy", "transports", "alerts"} \cap DOMAIN d :
      load_from_str([k \in DOMAIN d \ {b} |-> d[k]])

\* A public node has no route to a peer: its destinations must be in a public service,
\* whose protocols must be plugins, and fed is none.
PublicNodesStayLocal ==
  \A c \in Loaded : c.node.public =>
    \A i \in DOMAIN c.routes : \A e \in c.routes[i].destinations : e.protocol # FED_PROTOCOL

\* A document that loads keeps its word everywhere else: the routes, deadlines, names and
\* ids that the engine, the trust store and the peers get from it are ones they can serve,
\* its floor and its secrets hold, and documents from before a block existed still load.
LoadedIsServable ==
  /\ DestinationsServable /\ FloorIsAbsolute /\ PublicNodesStayLocal /\ ListedIdsBind
  /\ SecretsStayApart /\ DeadlinesAhead /\ NameSurvivesAdvert /\ OlderDocumentsLoad
=============================================================================
