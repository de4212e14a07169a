----------------------------- MODULE RuleCases -----------------------------
(***************************************************************************)
(* The inputs that the rules are checked over, by the module they are for. *)
(***************************************************************************)
EXTENDS ConfigRules, EgressRules, UiGuards, CtlRules, FedWire, SdkRules

(* ------------------------ ConfigRules ------------------------ *)

\* Documents for ConfigRules: a base document, a public one and a federated one, with two
\* of their blocks replaced.

Name(txt, len, chars) == [txt |-> txt, len |-> len, chars |-> chars]
Chat == Name("chat", 4, {"lower"})
Wide == Name("Wide_Name", 9, {"lower", "upper", "_"})
Long == Name("long", 40, {"lower"})
Void == Name("", 0, {})
Odd  == Name("a/b", 3, {"lower", "other"})
Lxmf == Name("lxmf", 4, {"lower"})
Mqtt == Name("mqtt", 4, {"lower"})
Peer == Name("phx", 3, {"lower"})
Stranger == Name("tus", 3, {"lower"})

Ep(protocol, peer) == [protocol |-> protocol, peer |-> peer, remote |-> {}]
FedEp(peer, remote) == [protocol |-> FED_PROTOCOL, peer |-> peer, remote |-> remote]
Id(key, chars) == [key |-> key, prefix |-> "rf:", len |-> 64, chars |-> chars]
Lower(key) == Id(key, {"digit", "lower"})
Key == [len |-> 64, chars |-> {"digit", "lower"}]
Ref(scheme, name) == [t |-> "str", s |-> [open |-> TRUE, close |-> TRUE, brace |-> FALSE, scheme |-> scheme, name |-> name]]
Typo == [t |-> "str", s |-> [open |-> TRUE, close |-> TRUE, brace |-> FALSE, scheme |-> "ENV", name |-> "TOKEN"]]
Tree(a, b) == [t |-> "seq", of |-> <<a, [t |-> "seq", of |-> <<b>>]>>]
MCWorld == << "env", "TOKEN" >> :> "s3cret" @@ << "file", "/run/key" >> :> "hunter2" @@ << "env", "EMPTY" >> :> ""

Node(name, dir, open) == [name |-> name, data_dir |-> dir, public |-> open]
Dir == [absolute |-> TRUE, len |-> 20]
Plugin(enabled, config) == [enabled |-> enabled, config |-> config]
Route(name, dests, more) == [name |-> name, sources |-> {Ep(Lxmf, Chat)}, destinations |-> dests] @@ more
PeerDoc(name, id, more) == [name |-> name, node_id |-> id, addr |-> "host:port"] @@ more
OnePeer == <<PeerDoc(Peer, Lower("k1"), <<>>)>>
Pinning == <<PeerDoc(Peer, Lower("k1"), [sealed_key |-> {Key}])>>

Service(ingress, egress) == [name |-> Wide, type |-> Chat, ingress |-> ingress, egress |-> egress]

\* The replacements of each block, the base document's among them.
Variants ==
  [node |-> {Node(<<65, 66>>, Dir, FALSE), Node(<<65>>, Dir, TRUE), Node([i \in 1..65 |-> 65], Dir, FALSE),
             Node(<<65, 8206>>, Dir, FALSE), Node(<<65, 8203, 66>>, Dir, FALSE), Node(<<65, 233>>, Dir, FALSE),
             Node(<<65>>, [absolute |-> FALSE, len |-> 5], FALSE), Node(<<65>>, [absolute |-> TRUE, len |-> 84], FALSE)},
   plugins |-> {Lxmf :> Plugin(TRUE, [t |-> "null"]) @@ Mqtt :> Plugin(TRUE, Typo),
                Lxmf :> Plugin(TRUE, Tree(Ref("env", "TOKEN"), Ref("file", "/run/key"))) @@ Mqtt :> Plugin(TRUE, Typo),
                Lxmf :> Plugin(TRUE, Tree(Typo, Ref("env", "EMPTY"))) @@ Mqtt :> Plugin(FALSE, Typo),
                Lxmf :> Plugin(TRUE, Typo) @@ FED_PROTOCOL :> Plugin(TRUE, Typo), Odd :> Plugin(TRUE, Typo)},
   routes |-> {<<Route(Chat, {Ep(Mqtt, Chat)}, <<>>)>>,
               <<Route(Chat, {FedEp(Peer, {Chat})}, <<>>)>>,
               <<Route(Chat, {FedEp(Peer, {Chat})}, [security_mode |-> "sealed"])>>,
               <<Route(Chat, {FedEp(Peer, {}), FedEp(Peer, {Wide})}, <<>>)>>,
               <<Route(Chat, {FedEp(Stranger, {Chat})}, <<>>)>>,
               <<Route(Wide, {Ep(Mqtt, Chat)}, [render |-> [max_chars |-> 16]]), Route(Chat, {Ep(Mqtt, Chat)}, <<>>)>>,
               <<Route(Chat, {Ep(Mqtt, Chat)}, <<>>), Route(Chat, {}, <<>>)>>,
               <<Route(Chat, {Ep(Mqtt, Chat)}, [security_mode |-> "native"])>>,
               <<Route(IDENTITY_ROUTE, {Ep(Mqtt, Chat)}, [render |-> [tag |-> "none", max_chars |-> 15]])>>},
   policies |-> {<<[rules |-> [deny |-> TRUE]]>>, <<[rules |-> [attachments |-> {"refuse"}]]>>},
   ttl_default_secs |-> {86400, 0, MAX_LIFECYCLE_SECS, MAX_LIFECYCLE_SECS + 1, I64 + 5},
   limits |-> {<<>>, [global_max |-> 10], [route_max |-> 10]},
   public_services |-> {{}, {Service({Lxmf}, {Mqtt})}, {Service({Lxmf}, {Mqtt, FED_PROTOCOL})}},
   transport_budgets |-> {<<>>, Mqtt :> 5, Mqtt :> 0},
   transports |-> {<<>>, Mqtt :> [class |-> "meshtastic"], Mqtt :> [class |-> "reticulum", max_payload_bytes |-> {63}]},
   federation |-> {{}, {[peers |-> OnePeer]}, {[peers |-> Pinning, blocked |-> {Lower("k1")}]},
                   {[peers |-> OnePeer, blocked |-> {Id("k2", {"digit", "upper"})}]},
                   {[peers |-> OnePeer \o Pinning]}, {[peers |-> Pinning, max_ttl_secs |-> 0]},
                   {[trusted |-> {Lower("k3")}, ingress_routes |-> {Chat}]}, {[peers |-> OnePeer, ingress_routes |-> {Long}]}},
   discovery |-> {<<>>, [mode |-> "public"], [mode |-> "federation"], [mode |-> "local"], [advert_ttl_secs |-> 86401]},
   privacy |-> {<<>>, [minimum_security |-> "gateway"], [minimum_security |-> "sealed"], [minimum_security |-> "Sealed"]},
   alerts |-> {{}, {[endpoint |-> Ep(Lxmf, Chat)]}, {[endpoint |-> Ep(Lxmf, Void), events |-> {"queue"}]},
               {[endpoint |-> Ep(Stranger, Chat)]}}]
Blocks == DOMAIN Variants
Base ==
  [node |-> Node(<<65, 66>>, Dir, FALSE),
   plugins |-> Lxmf :> Plugin(TRUE, [t |-> "null"]) @@ Mqtt :> Plugin(TRUE, Typo),
   routes |-> <<Route(Chat, {Ep(Mqtt, Chat)}, <<>>)>>]
PublicBase == [node |-> Node(<<65>>, Dir, TRUE), limits |-> [global_max |-> 10],
               public_services |-> {Service({Lxmf}, {Mqtt})}] @@ Base
PeerBase == [federation |-> {[peers |-> Pinning]}, routes |-> <<Route(Chat, {FedEp(Peer, {Chat})}, [security_mode |-> "sealed"])>>] @@ Base
Documents ==
  UNION {{x :> u @@ y :> v @@ doc : u \in Variants[x], v \in Variants[y], doc \in {Base, PublicBase, PeerBase}} :
         x, y \in Blocks}

(* ------------------------ EgressRules ------------------------ *)

\* Inputs for EgressRules: texts of one- to three-byte characters, pairs of policies,
\* lists of attachments, and frames at the sizes where heads grow.

Option(S) == {{}} \cup {{v} : v \in S}
Bodies == UNION {[1..n -> {Char("body", w) : w \in 1..3}] : n \in 0..4}
MCTags == {{}, {alias("p", "s", "r")}}

PolicyLists ==
  LET P == [protocols : {{}, {"lxmf"}}, deny : BOOLEAN, drop_kinds : {{}, {"poll"}}, max_payload : Option({1, 2}),
            attachments : Option({"reject"}), max_attachment_bytes : Option({1})]
  IN  P \X P

\* A blob of 1 or 3 bytes that its sender says is empty.
AttachmentLists ==
  LET M == {[mime |-> m, size |-> s, claimed |-> 0, owned |-> b[1], stored |-> b[2]] :
              m \in {"image", "file"}, s \in {1, 3}, b \in (BOOLEAN \X BOOLEAN) \ {<<FALSE, FALSE>>}}
  IN  UNION {[1..n -> M] : n \in 0..3}

\* Frames at the sizes where CBOR's heads grow, and at the limit of the estimate.
Frames ==
  LET Size == {0, 23, 24, 255, 256, 65535, 65536}
      Atts == UNION {[1..n -> [filename : {0, 255}, mime : {24}, data : {0, 65536}]] : n \in 0..2}
              \cup {[i \in 1..n |-> [filename |-> 255, mime |-> 24, data |-> 256]] : n \in {23, 24}}
      F(b, e, as) == [body |-> b, endpoint |-> e, kind |-> 4, attachments |-> as]
      Room(e, as) == MAX_FRAME - frame_estimate(F(0, e, as))
      Rest(e, as) == Room(e, as) + FoldLeft(LAMBDA sum, a : sum + a.filename + a.mime + 64, 0, as)
  IN  {F(b, e, as) : b \in Size, e \in Size, as \in Atts}
      \cup {F(Room(e, as), e, as) : e \in Size, as \in Atts} \cup {F(Rest(e, as), e, as) : e \in Size, as \in Atts}

(* ------------------------ UiGuards ------------------------ *)

\* Inputs for UiGuards: four ways to start the UI, requests from its pages, from other
\* ports and hosts and from outside a browser, and ceremonies.

Setup(host, port, hosts, origins, rp, noauth) ==
  [listen |-> [host |-> host, port |-> port], extra_hosts |-> hosts, extra_origins |-> origins,
   rp |-> rp, no_auth |-> noauth,
   sorted |-> <<"10.0.0.5", "127.0.0.1", "::1", "[::1]", "a.example", "localhost", "relay.example">>,
   lettered |-> {"a.example", "localhost", "relay.example"}]
MCSetups ==
  {Setup("127.0.0.1", "8087", {}, {}, {}, FALSE),
   Setup("127.0.0.1", "8087", {"relay.example"}, {Origin("https", "relay.example", "8443")}, {}, FALSE),
   Setup("10.0.0.5", "80", {"relay.example", "a.example"}, {Origin("http", "relay.example", "")}, {}, FALSE),
   Setup("127.0.0.1", "8087", {}, {}, {"relay.example"}, TRUE)}

Origins ==
  {Origin("http", "localhost", "8087"), Origin("http", "localhost", ""), Origin("http", "relay.example", ""),
   Origin("https", "relay.example", ""), Origin("https", "relay.example", "8443"),
   Origin("https", "other.example", ""), Origin("null", "", "")}
Cookies == {<<>>, <<[name |-> "theme", value |-> "t2"], [name |-> "rfui_session", value |-> "t1"]>>,
              <<[name |-> "rfui_session", value |-> "t2"]>>}
MCHeaders ==
  {[host |-> hh, origin |-> oo, site |-> ss, cookies |-> cc] :
     hh \in {{}, {[host |-> "localhost", port |-> "8087"]}, {[host |-> "other.example", port |-> ""]}},
     oo \in {{}} \cup {{o} : o \in Origins}, ss \in {{}, {"same-site"}}, cc \in Cookies}

MCFiles == {<<"web", "index.html">>, <<"web", "app.js">>, <<"store.json">>}
CoseKeys == [kty : {1, 2}, alg : {-7, -8}, crv : {1, 6, 7}, x : {31, 32}, y : {31, 32}, valid : BOOLEAN]
Clients == [type : {"webauthn.get", "webauthn.create"}, challenge : {"c1", "c2"},
              cross_origin : {{}, {TRUE}, {FALSE}}, origin : Origins]
AuthData == [len : {36, 37, 55, 71}, rp : {"rp", "localhost", "a.example", "relay.example"},
               flags : SUBSET {"up", "uv", "at"}, cred_len : {16}]
Ceremonies == {[client |-> cl, auth |-> ad] : cl \in Clients, ad \in {d \in AuthData : d.len \in {36, 37}}}
Registrations == {[key |-> k, auth |-> ad] : k \in CoseKeys, ad \in {d \in AuthData : d.rp = "rp"}}

(* ------------------------ AdminViews ------------------------ *)

\* Inputs for AdminViews: a daemon with a person's reference in its queue, its links and
\* its challenges, references and names around the lengths where the rules change, and
\* federation tables in which keys and node ids differ.

Person == [protocol |-> "signal", ref |-> <<"1", "2", "3", "4", "5", "6", "7", "8", "9">>]
Channel == [protocol |-> "mqtt", ref |-> <<"c", "h", "a", "t">>]
Delivery(id, state, route, dest) == [id |-> id, message |-> 1, state |-> state, route |-> route, dest |-> dest]
Links == {[id |-> 1, a |-> Person, b |-> [Person EXCEPT !.protocol = "lxmf"], display_name |-> "Ada"]}
Feed ==
  <<[lagged |-> FALSE, event |-> [event |-> "ingress", protocol |-> "signal", routes |-> {"r"}, sender |-> Person]],
    [lagged |-> TRUE, event |-> [event |-> "none"]],
    [lagged |-> FALSE, event |-> [event |-> "delivery", route |-> "@identity", state |-> "delivered"]],
    [lagged |-> FALSE, event |-> [event |-> "plugin", name |-> "mqtt"]],
    [lagged |-> FALSE, event |-> [event |-> "federation", name |-> "north"]],
    [lagged |-> FALSE, event |-> [event |-> "link_verified", link_id |-> 1]],
    [lagged |-> FALSE, event |-> [event |-> "config_applied", restart_required |-> {"node"}]],
    [lagged |-> FALSE, event |-> [event |-> "advert", advert_name |-> <<65, 10, 8238>>]]>>
Queues ==
  UNION {[1..n -> {<<"pending", "r">>, <<"dead_letter", "r">>, <<"dead_letter", "@identity">>}] : n \in 0..3}
Daemons ==
  {[store_ok |-> ok, node |-> "n", plugins |-> ("mqtt" :> TRUE @@ "signal" :> on),
    handles |-> ("signal" :> [connected |-> on]), services |-> {[ingress |-> {"mqtt"}, egress |-> {"signal"}]},
    budgets |-> ("mqtt" :> 1), raw_yaml |-> {"reference"}, prev |-> <<{"reference"}>>, secrets |-> {"token"},
    peers_up |-> ("north" :> TRUE), route_messages |-> ("r" :> 1),
    deliveries |-> [i \in DOMAIN q |-> Delivery(i, q[i][1], q[i][2], IF q[i][2] = "r" THEN Channel ELSE Person)],
    messages |-> {[id |-> 1, source |-> <<"mqtt", "c">>, body |-> <<"hello">>]},
    links |-> ls, challenges |-> {[target |-> Person, code |-> "000000", expires_at |-> e] : e \in {1, 2}},
    events |-> Feed] : ok \in BOOLEAN, on \in BOOLEAN, q \in Queues, ls \in {{}, Links}}

NativeRefs == UNION {[1..n -> {"x", "z"}] : n \in 0..10}

\* Peers by name, two of which may have one node id; conns by peer name or node id.
FedTables ==
  {[on |-> on, store_ok |-> ok, peers |-> ps, trust |-> ts, conns |-> cs] :
     on \in BOOLEAN, ok \in BOOLEAN,
     ps \in UNION {{f \in [1..n -> [name : {"north", "south"}, node_id : {"rf:a", "rf:b"}]] :
                      \A i, j \in 1..n : f[i].name = f[j].name => i = j} : n \in 0..2},
     ts \in {<<>>, <<[node_id |-> "rf:a", level |-> "verified", updated_at |-> 1]>>,
             <<[node_id |-> "rf:a", level |-> "blocked", updated_at |-> 1],
               [node_id |-> "rf:c", level |-> "seen", updated_at |-> 2]>>},
     cs \in {<<>>, "north" :> [node_id |-> "rf:a", connected_at |-> 3],
             ("north" :> [node_id |-> "rf:b", connected_at |-> 3]) @@ ("rf:c" :> [node_id |-> "rf:c", connected_at |-> 4])}}

Adverts == [key : {"rf:a", "rf:b"}, embedded : {"rf:a", "rf:b"}, signer : {"rf:a", "rf:b"}, decodes : BOOLEAN,
            name : {<<65>>, <<65, 8238, 66>>, [i \in 1..60 |-> 66]}]

\* At most four gauges, in the order of their names.
GaugeFrames ==
  LET Ordered == <<<<"A">>, <<"B", "1">>, <<"a">>, <<"b", "-">>>>
      Frame(f) == SelectSeq([i \in 1..4 |-> [name |-> Ordered[i], value |-> f[i]]], LAMBDA g : g.value # "none")
  IN  {Frame(f) : f \in [1..4 -> {"none", "inf", "1", "2"}]}

Labels == UNION {[1..n -> {"a", "n", "backslash", "quote", "newline"}] : n \in 0..4}
DisplayNames == UNION {[1..n -> {32, 65, 10, 8203, 8238}] : n \in 0..3} \cup {[i \in 1..n |-> 65] : n \in {63, 64, 65}}

(* ------------------------ CtlRules ------------------------ *)

\* Inputs for CtlRules: command lines over two daemons, feeds of up to four events, and
\* plugins under test with up to two frames after the send.

CommandLines ==
  {<<>>, <<"frobnicate">>, <<"link", "a", "b">>, <<"link", "a", "b", "Ada">>, <<"config">>, <<"config", "show">>,
   <<"config", "rollback">>, <<"--socket">>, <<"--socket", "s">>, <<"--socket", "s", "status">>, <<"events">>, <<"docs">>,
   <<"plugin">>, <<"plugin", "test">>, <<"plugin", "test", "cmd">>}
  \cup {<<w>> : w \in DOMAIN Fixed \cup DOMAIN WithId} \cup {<<w, "1">> : w \in DOMAIN WithId}
  \cup {<<"config", w, f>> : w \in DOMAIN ConfigFile, f \in {"good.yaml", "missing.yaml"}}
Feeds == UNION {[1..n -> {"ingress", "delivery", "quiet"}] : n \in 0..4}

Hellos == {{}} \cup {{h} : h \in [t : {"hello", "gauges"}, plugin : {"conformance", "mine"}, protocol_version : {1, 2}, capabilities : BOOLEAN]}
GoodHello == {[t |-> "hello", plugin |-> "conformance", protocol_version |-> 1, capabilities |-> TRUE]}
Frame(t, corr, at) == [t |-> t, corr |-> corr, at |-> at]
AfterSend ==
  LET F == {Frame("gauges", "", at) : at \in 0..4} \cup {Frame("garbage", "", 1)}
           \cup {Frame("delivery_result", c, at) : c \in {"conformance-1", "7"}, at \in 0..5}
  IN  {<<>>} \cup {<<f>> : f \in F} \cup {s \in F \X F : s[1].at <= s[2].at}
PluginsUnderTest ==
  {[spawns |-> TRUE, connects |-> TRUE, hello |-> GoodHello, reads |-> TRUE, frames |-> fs, ends |-> e] :
     fs \in AfterSend, e \in {"zero", "nonzero", "never"}}
  \cup {[spawns |-> s, connects |-> c, hello |-> h, reads |-> r, frames |-> <<Frame("delivery_result", "conformance-1", 1)>>, ends |-> e] :
     s, c, r \in BOOLEAN, h \in Hellos, e \in {"zero", "never"}}
GoodPlugin == [spawns |-> TRUE, connects |-> TRUE, hello |-> GoodHello, reads |-> TRUE,
               frames |-> <<Frame("delivery_result", "conformance-1", 1)>>, ends |-> "zero"]
CommandsGiven ==
  {[args |-> a, daemon |-> d, id |-> id, applied |-> ap, reached |-> re, whole |-> wh, plugin |-> GoodPlugin] :
     a \in CommandLines, id \in {1, 9}, ap, re, wh \in BOOLEAN,
     d \in {d \in Daemons : d.links = Links /\ Len(d.deliveries) = 1 /\ d.handles["signal"].connected}}

(* ------------------------ FedWire ------------------------ *)

\* Inputs for FedWire: streams of frames around the sizes where a chunk ends, frames
\* around the caps, splices of sealed messages, adverts that differ in one field.

Plain(n) == [i \in 1..n |-> i % BASE]
\* The future is dropped after the bytes whose number leaves one of at when divided by every.
Streams ==
  {[frames |-> fs, every |-> n, at |-> at] :
     fs \in UNION {{[i \in DOMAIN s |-> Plain(s[i])] : s \in {<<a>>, <<a, b>>}} : a \in 0..6, b \in {0, 1, 2, 6}},
     n \in {5}, at \in SUBSET (0..4)}

Receivers == [accept_from : {{}, {"verified"}, {"trusted"}}, mode : {"disabled", "federation", "public"},
              level : {"unknown", "seen", "verified", "trusted", "blocked"}]
Inbound ==
  {[node |-> n, frame |-> [t |-> t, bytes |-> b, fits |-> ok]] :
     n \in Receivers, ok \in BOOLEAN, t \in {{}, {"hello"}} \cup {{tag} : tag \in Fed},
     b \in {10, SMALL_FRAME_MAX_BYTES, SMALL_FRAME_MAX_BYTES + 1, ADVERT_MAX_BYTES + 17, ADVERT_MAX_BYTES + 33,
            ENVELOPE_FRAME_MAX_BYTES, ENVELOPE_FRAME_MAX_BYTES + 1, MAX_FRAME}}

\* Two messages that share the id (one sent again after the ttl was changed), and a third.
Message(env, id, exp, to, n) ==
  [env |-> env, recipient |-> to, sealed |-> seal(env, id, exp, to, <<"e", n>>, <<"n", n>>)]
Sent == {Message("a", 1, 10, "k1", 1), Message("a", 1, 20, "k1", 2), Message("b", 2, 10, "k2", 3)}
Splices ==
  {[of |-> Sent, s |-> [alg |-> alg, id |-> i.sealed.id, expires_at |-> e.sealed.expires_at,
                        epk |-> [p.sealed.epk EXCEPT !.len = len], nonce |-> q.sealed.nonce, ct |-> m.sealed.ct]] :
     alg \in {SEAL_ALG_V1, "v2"}, len \in {31, 32}, i \in Sent, e \in Sent, p \in Sent, q \in Sent, m \in Sent}

Presealed == [env : SEALED_MAX_BYTES - 2..SEALED_MAX_BYTES + 2, route : {1, 23, 24, 64}]

BaseAdvert ==
  [rf_version |-> 1, node_id |-> "rf:a", name |-> <<65>>, services |-> {FEDERATION}, protocols |-> <<>>,
   security |-> SecurityCaps("k"), expires |-> 1]
Signed ==
  {[adverts |-> {BaseAdvert, other}] :
     other \in {[BaseAdvert EXCEPT !.rf_version = 2], [BaseAdvert EXCEPT !.node_id = "rf:b"], [BaseAdvert EXCEPT !.name = <<66>>],
                [BaseAdvert EXCEPT !.services = {}], [BaseAdvert EXCEPT !.protocols = [p \in {FEDERATION} |-> ProtoCaps(TRUE, FALSE)]],
                [BaseAdvert EXCEPT !.expires = 2]}
       \cup {[BaseAdvert EXCEPT !.security[f] = FALSE] : f \in {"translate", "signed", "sealed"}}
       \cup {[BaseAdvert EXCEPT !.security.sealed_key = k] : k \in {{}, {"k2"}}}}
=============================================================================
