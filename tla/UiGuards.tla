------------------------------ MODULE UiGuards ------------------------------
(***************************************************************************)
(* The checks between a browser and the daemon's admin API, which has none *)
(* of its own: relayfabric-ui's Host and Origin guards, the canonical-path *)
(* check, the role gate, what is forwarded, the static files, and the      *)
(* verification of WebAuthn ceremonies (relayfabric-ui main.rs, auth.rs),  *)
(* against the routes of the admin API they front (admin.rs).              *)
(*                                                                         *)
(* A path is a sequence of segments; a segment with enc is s with some     *)
(* character percent-encoded.  An origin is [scheme, host, port], the port *)
(* "" when it is the scheme's own, the scheme "null" for an opaque one.  A *)
(* header that may be missing is a set of at most one value.               *)
(***************************************************************************)
EXTENDS Integers, Sequences, FiniteSets, SequencesExt, Given

CONSTANTS
  Setups,       \* the flags the UI is started with
  Headers,      \* Host, Origin, Sec-Fetch-Site and cookies of a request
  Files,        \* the files on the host, by absolute path
  Dotted        \* the segments of a path that have a dot in them

(* ---------------------------- the admin API --------------------------- *)

AdminPath(s) == <<"v1">> \o s
admin_routes ==
  [status |-> <<AdminPath(<<"status">>), {"GET"}>>, plugins |-> <<AdminPath(<<"plugins">>), {"GET"}>>,
   routes |-> <<AdminPath(<<"routes">>), {"GET"}>>, config |-> <<AdminPath(<<"config">>), {"GET", "PUT"}>>,
   config_prev |-> <<AdminPath(<<"config", "prev">>), {"GET"}>>,
   config_validate |-> <<AdminPath(<<"config", "validate">>), {"POST"}>>,
   config_rollback |-> <<AdminPath(<<"config", "rollback">>), {"POST"}>>,
   queue |-> <<AdminPath(<<"queue">>), {"GET"}>>, queue_purge |-> <<AdminPath(<<"queue", "purge">>), {"POST"}>>,
   queue_requeue |-> <<AdminPath(<<"queue", "1", "requeue">>), {"POST"}>>,
   trace |-> <<AdminPath(<<"messages", "1">>), {"GET"}>>, public |-> <<AdminPath(<<"public">>), {"GET"}>>,
   limits |-> <<AdminPath(<<"limits">>), {"GET"}>>, identities |-> <<AdminPath(<<"identities">>), {"GET"}>>,
   create_link |-> <<AdminPath(<<"identities", "link">>), {"POST"}>>,
   delete_link |-> <<AdminPath(<<"identities", "link", "1">>), {"DELETE"}>>,
   challenges |-> <<AdminPath(<<"identities", "challenges">>), {"GET"}>>,
   federation |-> <<AdminPath(<<"federation">>), {"GET"}>>, discovery |-> <<AdminPath(<<"discovery">>), {"GET"}>>,
   events_stream |-> <<AdminPath(<<"events">>), {"GET"}>>, healthz |-> <<<<"healthz">>, {"GET"}>>,
   readyz |-> <<<<"readyz">>, {"GET"}>>, metrics_text |-> <<<<"metrics">>, {"GET"}>>,
   openapi_json |-> <<AdminPath(<<"openapi.json">>), {"GET"}>>]
\* The Swagger UI is mounted beside them.
docs == {<<"docs">>, <<"docs", "">>, <<"docs", "swagger-ui.css">>}
router == {<<h, m>> \in (DOMAIN admin_routes) \X {"GET", "HEAD", "POST", "PUT", "DELETE"} :
             m \in admin_routes[h][2] \/ (m = "HEAD" /\ "GET" \in admin_routes[h][2])}

\* What a server makes of a path when it decodes it and resolves dots and empty segments.
Resolve(done, s) ==
  CASE s \in {".", ""} -> done
    [] s = ".."        -> IF done = <<>> THEN done ELSE Front(done)
    [] OTHER           -> Append(done, s)
Decoded(path) == FoldLeft(Resolve, <<>>, [i \in DOMAIN path |-> path[i].s])
Spelled(segments) == [i \in DOMAIN segments |-> [s |-> segments[i], enc |-> FALSE]]
Raw(path) == [i \in DOMAIN path |-> IF path[i].enc THEN "%" ELSE path[i].s]

(* -------------------------------- roles ------------------------------- *)

Role == {"viewer", "operator", "route-admin", "identity-admin", "security-admin", "administrator"}
\* No segment of the API continues another's name, so the code's prefixes are areas.
Under(path, area) == Len(path) >= 2 /\ path[1] = "v1" /\ path[2] \in area
read(method) == method \in {"GET", "HEAD"}
permitsReads(role, method, path) ==
  \/ role = "administrator" \/ read(method)
  \/ /\ ~read(method)
     /\ \/ role = "identity-admin" /\ Under(path, {"identities"})
        \/ role = "operator" /\ Under(path, {"queue", "messages"})
        \/ role = "route-admin" /\ Under(path, {"config"})
        \/ role = "security-admin" /\ Under(path, {"federation", "discovery"})
permits(role, method, path) ==
  \/ role = "administrator"
  \/ Under(path, {"identities"}) /\ role = "identity-admin"
  \/ /\ ~Under(path, {"identities"})
     /\ \/ read(method)
        \/ role = "operator" /\ Under(path, {"queue", "messages"})
        \/ role = "route-admin" /\ Under(path, {"config"})
        \/ role = "security-admin" /\ Under(path, {"federation", "discovery"})

(* --------------------------- hosts and origins ------------------------ *)

Loopback == {"localhost", "127.0.0.1", "[::1]"}
Origin(scheme, host, port) == [scheme |-> scheme, host |-> host, port |-> port]
\* A Host header or a --listen address without its port.
host_of(v) == IF v.port = "name" THEN "host:name" ELSE v.host
allowed_hosts(u) == Loopback \cup {"::1", host_of(u.listen)} \cup u.extra_hosts
HttpPort(u) == IF u.listen.port = "80" THEN "" ELSE u.listen.port
allowed_origins(u) ==
  {Origin("http", h, HttpPort(u)) : h \in Loopback} \cup {Origin("https", h, "") : h \in u.extra_hosts}
    \cup u.extra_origins
\* The WebAuthn relying party: --rp-id, else the first allowed host with a letter in it.
rp_idFirst(u) ==
  LET names == SelectSeq(u.sorted, LAMBDA h : h \in allowed_hosts(u) /\ h \in u.lettered)
  IN  IF u.rp # {} THEN CHOOSE r \in u.rp : TRUE ELSE IF names = <<>> THEN "localhost" ELSE names[1]
rp_id(u) ==
  LET names == SelectSeq(u.sorted, LAMBDA h : h \in allowed_hosts(u) /\ h \in u.lettered /\ h # "localhost")
  IN  IF u.rp # {} THEN CHOOSE r \in u.rp : TRUE ELSE IF names = <<>> THEN "localhost" ELSE names[1]

host_allowed(h, u) == \E v \in h.host : host_of(v) \in allowed_hosts(u)
origin_allowedHost(h, u) ==
  /\ h.site \subseteq {"same-origin", "none"}
  /\ \A o \in h.origin : \E a \in allowed_origins(u) : o.scheme # "null" /\ a.host = o.host
origin_allowed(h, u) ==
  /\ h.site \subseteq {"same-origin", "none"}
  /\ \A o \in h.origin : o.scheme # "null" /\ o \in allowed_origins(u)
is_state_changing(method) == method \in {"POST", "PUT", "DELETE", "PATCH"}
Guarded(h, method, u) == host_allowed(h, u) /\ (is_state_changing(method) => origin_allowed(h, u))
cookie_secure(h) == \A o \in h.origin : o.scheme # "http"

(* -------------------------------- proxy ------------------------------- *)

session_token(h) ==
  LET named == SelectSeq(h.cookies, LAMBDA c : c.name = "rfui_session")
  IN  IF named = <<>> THEN {} ELSE {named[1].value}

CanonicalAlways(path) == TRUE
Canonical(path) ==
  \A i \in DOMAIN path : ~path[i].enc /\ path[i].s \notin {"..", "."} /\ (path[i].s = "" => i = Len(path))

\* The UI's router.
Routed(path) ==
  CASE Len(path) > 1 /\ path[2] # "" /\ path[1] = "auth" -> "auth_endpoint"
    [] Len(path) > 1 /\ path[2] # "" /\ path[1] = "v1"   -> "proxy"
    [] Len(path) > 1 /\ path[1] = "docs"                 -> "proxy"
    [] path = <<"docs">>                                 -> "redirect"
    [] path = <<"metrics">>                              -> "proxy"
    [] OTHER                                             -> "static_file"

\* sessions: the role of each live token.
proxy(h, method, path, u, sessions) ==
  LET role == {sessions[t] : t \in session_token(h) \cap DOMAIN sessions}
  IN  IF ~Guarded(h, method, u) THEN 403
      ELSE IF ~Canonical(path) THEN 400
      ELSE IF u.no_auth \/ \E r \in role : permits(r, method, Raw(path)) THEN 200
      ELSE IF role = {} THEN 401
      ELSE 403

\* On every response; what the API answers is not to land in a disk cache.
security_headers(path) ==
  {"x-frame-options", "x-content-type-options", "referrer-policy"}
    \cup (IF (Len(path) > 1 /\ path[1] \in {"v1", "auth"}) \/ path = <<"metrics">> THEN {"no-store"} ELSE {})

(* ---------------------------- static files ---------------------------- *)

web_dir == <<"web">>
content_type(file) == IF file # <<>> /\ Last(file) = "index.html" THEN "html" ELSE "other"
InsideNonEmpty(rel) == \A i \in DOMAIN rel : rel[i] # ""
Inside(rel) == \A i \in DOMAIN rel : rel[i] \notin {"..", ""}
\* A path without an extension falls back to the application's page.
static_file(h, path, u) ==
  LET lead == {i \in DOMAIN path : \A j \in 1..i : path[j] = ""}
      rel == IF path = <<"">> THEN <<"index.html">>
             ELSE IF Cardinality(lead) = Len(path) THEN <<"">>
             ELSE SubSeq(path, Cardinality(lead) + 1, Len(path))
      page == web_dir \o <<"index.html">>
      full == FoldLeft(Resolve, web_dir, rel)
      Found(file) == [code |-> 200, file |-> {file}, csp |-> content_type(file) = "html"]
      Refused(code) == [code |-> code, file |-> {}, csp |-> FALSE]
  IN  IF ~host_allowed(h, u) THEN Refused(403)
      ELSE IF ~Inside(rel) THEN Refused(400)
      ELSE IF full \in Files THEN Found(full)
      ELSE IF (\A i \in DOMAIN rel : rel[i] \notin Dotted) /\ page \in Files THEN Found(page)
      ELSE Refused(404)

(* ------------------------------- WebAuthn ----------------------------- *)

split_origin(o) == <<o.scheme, o.host>>
verify_client_dataListed(cd, type, challenge, origins) ==
  cd.type = type /\ cd.challenge = challenge /\ cd.cross_origin # {TRUE} /\ cd.origin \in origins
verify_client_data(cd, type, challenge, origins) ==
  /\ cd.type = type /\ cd.challenge = challenge /\ cd.cross_origin # {TRUE}
  /\ cd.origin.scheme = "https" \/ (cd.origin.scheme = "http" /\ split_origin(cd.origin)[2] \in Loopback)
  /\ cd.origin \in origins

parse_auth_data_common(ad, rp, require_uv) ==
  ad.len >= 37 /\ ad.rp = rp /\ "up" \in ad.flags /\ (require_uv => "uv" \in ad.flags)

\* The key types the two signature schemes take, with the curve and a point on it.
parse_cose_key_lax(k) ==
  IF k.kty = 2 /\ k.alg = -7 /\ k.x = 32 /\ k.y = 32 THEN {[alg |-> -7, crv |-> k.crv, valid |-> k.valid, len |-> 65]}
  ELSE IF k.kty = 1 /\ k.alg = -8 /\ k.x = 32 THEN {[alg |-> -8, crv |-> k.crv, valid |-> k.valid, len |-> 32]}
  ELSE {}
parse_cose_key(k) ==
  IF k.kty = 2 /\ k.alg = -7 /\ k.crv = 1 /\ k.x = 32 /\ k.y = 32 /\ k.valid
  THEN {[alg |-> -7, crv |-> 1, valid |-> TRUE, len |-> 65]}
  ELSE IF k.kty = 1 /\ k.alg = -8 /\ k.crv = 6 /\ k.x = 32 /\ k.valid
  THEN {[alg |-> -8, crv |-> 6, valid |-> TRUE, len |-> 32]}
  ELSE {}
parse_attestation_object(ad, key, rp) ==
  IF parse_auth_data_common(ad, rp, TRUE) /\ "at" \in ad.flags /\ ad.len >= 55 + ad.cred_len
  THEN parse_cose_key(key) ELSE {}

\* What a stored key can verify: the curve its algorithm is for, and a point on it.
Usable(stored) == \/ stored.alg = -7 /\ stored.crv = 1 /\ stored.valid /\ stored.len = 65
                  \/ stored.alg = -8 /\ stored.crv = 6 /\ stored.valid /\ stored.len = 32
verify_assertion(ad, rp, stored, signed_by_owner) ==
  parse_auth_data_common(ad, rp, TRUE) /\ Usable(stored) /\ signed_by_owner

(* ----------------------------- properties ----------------------------- *)

\* Every operation of the admin API that changes something is open to the administrator
\* and to exactly one other role, and reading is open to all but for identity data.
WritesHaveOneOwner ==
  \A hm \in Case("operation") :
    LET path == admin_routes[hm[1]][1]
        may == {r \in Role : permits(r, hm[2], path)}
    IN  IF read(hm[2]) THEN may = IF Under(path, {"identities"}) THEN {"identity-admin", "administrator"} ELSE Role
        ELSE Cardinality(may) = 2 /\ "administrator" \in may /\ "viewer" \notin may

\* The ways to spell a path that come out the same when decoded and resolved.
Spellings(segments) ==
  LET p == Spelled(segments)
      Put(s, i) == InsertAt(p, i, [s |-> s, enc |-> FALSE])
  IN  {p, Append(p, [s |-> "", enc |-> FALSE])}
        \cup {[p EXCEPT ![i].enc = TRUE] : i \in DOMAIN p}
        \cup {Put(s, i) : s \in {".", ""}, i \in DOMAIN p}
        \cup {InsertAt(Put("..", i), i, [s |-> "queue", enc |-> FALSE]) : i \in DOMAIN p}

\* The gate and the server see the same path: whatever is forwarded, the session's role
\* permits the operation that a server which decodes and resolves the path would run,
\* and the answer is marked not to be stored.
GateSeesWhatIsServed ==
  \A u \in Setups, hm \in Case("operation") :
    LET path == admin_routes[hm[1]][1]
    IN  \A p \in Spellings(path), h \in Headers, r \in Role :
          (/\ ~u.no_auth
           /\ Routed(Raw(p)) = "proxy"
           /\ proxy(h, hm[2], p, u, [t \in {"t1"} |-> r]) = 200)
            => /\ session_token(h) = {"t1"}
               /\ permits(r, hm[2], path)
               /\ "no-store" \in security_headers(Raw(p))

\* The session cookie goes without Secure only where a plain-HTTP page is allowed to
\* post: a loopback name at the port we listen on, or an origin the operator spelled out.
InsecureCookieOnlyWhereListed ==
  \A u \in Setups, h \in Case("headers") :
    (Guarded(h, "POST", u) /\ ~cookie_secure(h)) =>
      \A o \in h.origin : \/ o.host \in Loopback /\ o.port = HttpPort(u)
                          \/ o \in u.extra_origins

\* A static path names a file under the web directory or none, however it is spelled,
\* the UI's page always comes with its content policy, and never to a foreign Host.
StaticStaysInside ==
  \A u \in Setups, h \in Case("headers"), p \in UNION {[1..n -> Dotted \cup {"", "x"}] : n \in 1..3} :
    LET served == static_file(h, p, u)
    IN  /\ \A f \in served.file : IsPrefix(web_dir, f) /\ (Last(f) = "index.html" => served.csp)
        /\ served.file # {} => host_allowed(h, u)

\* A key that registers can log in: no stored key fails every assertion.
RegisteredCanLogin ==
  \A kc \in Case("registration") :
    \A stored \in parse_attestation_object(kc.auth, kc.key, "rp") :
      verify_assertion(kc.auth, "rp", stored, TRUE)

\* A ceremony that passes ran on a page the UI accepts posts from, in the open browser
\* tab of a user who was present and verified, for the challenge that was issued.
CeremonyFromOurPage ==
  \A u \in Setups, c \in Case("ceremony") :
    (/\ verify_client_data(c.client, "webauthn.get", "c1", allowed_origins(u))
     /\ parse_auth_data_common(c.auth, rp_id(u), TRUE)) =>
      /\ origin_allowed([host |-> {}, site |-> {}, origin |-> {c.client.origin}, cookies |-> <<>>], u)
      /\ c.client.origin.scheme = "http" => c.client.origin.host \in Loopback
      /\ {"up", "uv"} \subseteq c.auth.flags

\* With no --rp-id and an IPv4 listen address, the relying party is one whose page can
\* run a ceremony: the public name's if the operator gave one, else localhost's.
RelyingPartyHasAPage ==
  \A u \in Case("setup") :
    u.rp = {} =>
      LET public == (u.extra_hosts \cap u.lettered) \ {"localhost"}
          page == IF public = {} THEN Origin("http", rp_id(u), HttpPort(u)) ELSE Origin("https", rp_id(u), "")
      IN  /\ rp_id(u) \in IF public = {} THEN {"localhost"} ELSE public
          /\ verify_client_data([type |-> "webauthn.get", challenge |-> "c1", cross_origin |-> {}, origin |-> page],
                                "webauthn.get", "c1", allowed_origins(u))

\* The console's guards agree with what they guard: the path that is gated is the one that
\* is served, the page that may post is the one a ceremony runs on, and what may be
\* registered may log in; each operation has its owner and a static path stays inside.
GuardsAgree ==
  /\ WritesHaveOneOwner /\ GateSeesWhatIsServed /\ InsecureCookieOnlyWhereListed /\ StaticStaysInside
  /\ RegisteredCanLogin /\ CeremonyFromOurPage /\ RelyingPartyHasAPage
=============================================================================
