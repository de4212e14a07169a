------------------------------ MODULE FedWire ------------------------------
(***************************************************************************)
(* What crosses a federation link: frames over the Noise channel and its   *)
(* cancelled reads (fed/noise.rs), the gate in front of the decoder        *)
(* (decode_inbound of fed/conn.rs, fed/wire.rs), sealed envelopes          *)
(* (fed/seal.rs, SEALED_MAX_BYTES of the engine) and a node's own advert   *)
(* (fed/advert.rs, fed/domains.rs).                                        *)
(*                                                                         *)
(* On the channel a byte is a number below BASE.  Cryptography is ideal: a *)
(* ciphertext opens under the keys and the nonce it was made with, and a   *)
(* signature is the triple of signer, domain and content.                  *)
(***************************************************************************)
EXTENDS EgressRules, ConfigRules

CONSTANTS
  BASE, MAX_NOISE_PAYLOAD, CHANNEL_FRAME,   \* of the channel, scaled down: its bytes, a
                                            \* message's payload, its own MAX_FRAME
  SMALL_FRAME_MAX_BYTES, ADVERT_MAX_BYTES, ADVERT_FRAME_WRAP_BYTES, ENVELOPE_FRAME_MAX_BYTES,
  SEALED_OVERHEAD_MARGIN, ADVERT_MAX_FUTURE_SECS

(* ------------------------------ the channel --------------------------- *)

\* A length on the wire, big end first; both prefixes take two bytes here.
to_be_bytes(n) == <<n \div BASE, n % BASE>>
from_be_bytes(b) == b[1] * BASE + b[2]

\* The n-th message of a direction is its plaintext and a tag that only the n-th opens.
Ciphertext(chunk, n) == Append(chunk, n % BASE)
write_noise_msg(msg) == to_be_bytes(Len(msg)) \o msg
chunks(s) == [i \in 1..(Len(s) + MAX_NOISE_PAYLOAD - 1) \div MAX_NOISE_PAYLOAD |->
                SubSeq(s, (i - 1) * MAX_NOISE_PAYLOAD + 1, Min({i * MAX_NOISE_PAYLOAD, Len(s)}))]
\* w is what was written and how many messages that was; a frame above the limit is
\* refused and nothing of it is written.
send_frame(w, plaintext) ==
  LET cs == chunks(to_be_bytes(Len(plaintext)) \o plaintext)
  IN  IF Len(plaintext) > CHANNEL_FRAME THEN w
      ELSE [sent |-> w.sent + Len(cs),
            stream |-> w.stream \o FlattenSeq([i \in DOMAIN cs |-> write_noise_msg(Ciphertext(cs[i], w.sent + i))])]

\* The reading end: PartialRead's header and body, the messages opened, the plaintext
\* not yet handed on and the frames that were.
FedChannel == [hdr |-> <<>>, body |-> <<>>, opened |-> 0, rx_buf |-> <<>>, frames |-> <<>>, err |-> FALSE]
\* recv_frame, once another chunk is in: a peer's chunk never holds parts of two frames.
recv_frame(r) ==
  LET total == from_be_bytes(r.rx_buf)
  IN  IF Len(r.rx_buf) < 2 THEN r
      ELSE IF total > CHANNEL_FRAME THEN [r EXCEPT !.err = TRUE]
      ELSE IF Len(r.rx_buf) < 2 + total THEN r
      ELSE [r EXCEPT !.frames = Append(@, SubSeq(r.rx_buf, 3, 2 + total)),
                     !.rx_buf = SubSeq(@, 3 + total, Len(@))]
pull_chunk(r, ct) ==
  IF ct = <<>> \/ Last(ct) # (r.opened + 1) % BASE THEN [r EXCEPT !.err = TRUE]
  ELSE recv_frame([r EXCEPT !.rx_buf = @ \o Front(ct), !.opened = @ + 1])
\* One byte arrives; the state is reset once a whole message is handed on.
read_noise_msg_resumable(r, byte) ==
  LET q == IF Len(r.hdr) < 2 THEN [r EXCEPT !.hdr = Append(@, byte)] ELSE [r EXCEPT !.body = Append(@, byte)]
  IN  IF r.err THEN r
      ELSE IF Len(q.hdr) = 2 /\ Len(q.body) = from_be_bytes(q.hdr)
           THEN pull_chunk([q EXCEPT !.hdr = <<>>, !.body = <<>>], q.body)
      ELSE q
\* run_conn's select! takes another arm: the future that reads is dropped, the channel,
\* which holds the progress, is not.
DroppedExact(r) == [r EXCEPT !.hdr = <<>>, !.body = <<>>]
Dropped(r) == r

Written(frames) == FoldLeft(send_frame, [sent |-> 0, stream |-> <<>>], frames).stream
\* The stream arrives byte by byte, and the future is dropped after each byte of cuts.
Received(stream, cuts) ==
  FoldLeft(LAMBDA r, i : LET q == read_noise_msg_resumable(r, stream[i]) IN IF i \in cuts THEN Dropped(q) ELSE q,
           FedChannel, [i \in DOMAIN stream |-> i])

(* ------------------------- the gate at the decoder -------------------- *)

trust_rank(level) == CASE level = "blocked" -> 0 [] level = "seen" -> 2 [] level = "verified" -> 3
                       [] level = "trusted" -> 4 [] OTHER -> 1
\* n is the receiving node [federation, mode, level]: accept_from if it federates, the
\* mode of its discovery, the peer's stored level.
trust_below_accept_from_eq(n) == \A from \in n.accept_from : trust_rank(n.level) <= trust_rank(from)
trust_below_accept_from(n) == \A from \in n.accept_from : trust_rank(n.level) < trust_rank(from)
advert_scope_allows(n) == n.mode = "public" \/ (n.mode = "federation" /\ ~trust_below_accept_from(n))

Small == {"ping", "pong", "ack", "advert_req"}
Fed == Small \cup {"advert", "envelope", "sealed"}
\* A frame is [t, bytes, fits]: its tag if it is a map with one, its size, and whether its
\* fields are those of the tag.
Cap(tag) ==
  CASE tag \in Small     -> SMALL_FRAME_MAX_BYTES
    [] tag = "advert"    -> ADVERT_MAX_BYTES + ADVERT_FRAME_WRAP_BYTES
    [] tag = "envelope"  -> ENVELOPE_FRAME_MAX_BYTES
    [] tag = "sealed"    -> MAX_FRAME
peek_tag(f) == f.t
decode_tagged(tag, f) == IF tag \in Fed /\ (f.fits \/ tag \in {"ping", "pong", "advert_req"}) THEN {tag} ELSE {}
Permitted(n, tag) ==
  CASE tag \in {"envelope", "sealed"}  -> ~trust_below_accept_from(n)
    [] tag \in {"advert", "advert_req"} -> advert_scope_allows(n)
    [] OTHER                            -> TRUE
\* What is handed on; a drop is counted as an advert's or as a frame's, but an unknown
\* tag and a frame without one count nowhere.
decode_inbound(n, f) ==
  UNION {IF tag \notin Fed \/ f.bytes > Cap(tag) \/ ~Permitted(n, tag) THEN {} ELSE decode_tagged(tag, f) : tag \in peek_tag(f)}
reject_frame(n, f) ==
  {IF tag = "advert" THEN "ADVERT_REJECTED" ELSE "FED_REJECTED" :
     tag \in {t \in peek_tag(f) \cap Fed : f.bytes > Cap(t) \/ ~Permitted(n, t)}}

\* The handlers' own conditions: fed_trust_denied of the engine, and those of receive_advert
\* and handle_frame; {t, advert} around a document of n bytes takes 17 more.
AdvertFrame(n) == 1 + (Str(1) + Str(6)) + Str(6) + n
Handled(n, f) ==
  \E tag \in f.t \cap Fed :
    /\ f.fits
    /\ tag \in {"envelope", "sealed"} => \E from \in n.accept_from : trust_rank(n.level) >= trust_rank(from)
    /\ tag \in {"advert", "advert_req"} =>
         n.mode = "public" \/ (n.mode = "federation" /\ \E from \in n.accept_from : trust_rank(n.level) >= trust_rank(from))
    /\ tag = "advert" => f.bytes <= AdvertFrame(ADVERT_MAX_BYTES)

(* ---------------------------- sealed envelopes ------------------------ *)

SEAL_ALG_V1 == "x25519-xchacha20poly1305-v1"
EPK_LEN == 32
NONCE_LEN == 24
Field(v, len) == [v |-> v, len |-> len]
\* Fresh ephemeral key and nonce for each message: eph and nonce are its own.
seal(env, id, expires_at, recipient, eph, nonce) ==
  [alg |-> SEAL_ALG_V1, id |-> id, expires_at |-> expires_at, epk |-> Field(eph, EPK_LEN),
   nonce |-> Field(nonce, NONCE_LEN),
   ct |-> [box |-> {recipient, eph}, nonce |-> nonce, plaintext |-> [env |-> env, id |-> id, expires_at |-> expires_at]]]
parse_epk(epk) == epk.len = EPK_LEN
parse_nonce(nonce) == nonce.len = NONCE_LEN
BindsId(s) == s.ct.plaintext.id = s.id
Binds(s) == s.ct.plaintext.id = s.id /\ s.ct.plaintext.expires_at = s.expires_at
unseal(s, own) ==
  IF s.alg # SEAL_ALG_V1 THEN [err |-> "UNSUPPORTED_SEAL_ALG"]
  ELSE IF ~parse_epk(s.epk) \/ ~parse_nonce(s.nonce) THEN [err |-> "BAD_SEAL"]
  ELSE IF s.ct.box # {own, s.epk.v} \/ s.ct.nonce # s.nonce.v THEN [err |-> "BAD_SEAL"]
  ELSE IF ~Binds(s) THEN [err |-> "BAD_BINDING"]
  ELSE [ok |-> s.ct.plaintext.env]

\* Sizes: an i64 takes at most nine bytes, an id is a UUID, the tag of the AEAD 16.
SEALED_MAX_BYTES == MAX_FRAME - SEALED_OVERHEAD_MARGIN
ID_LEN == 36
AEAD_TAG == 16
encode_plaintext_vec(env) == 1 + (CborHead(env) + 2 * env) + Str(ID_LEN) + 9
encode_plaintext(env) == 1 + Str(env) + Str(ID_LEN) + 9
SealedBytes(env) ==
  1 + (Str(3) + Str(27)) + (Str(2) + Str(ID_LEN)) + (Str(10) + 9) + (Str(3) + Str(EPK_LEN)) + (Str(5) + Str(NONCE_LEN))
    + (Str(2) + Str(encode_plaintext(env) + AEAD_TAG))
SealedFrame(env, route) == 1 + (Str(1) + Str(6)) + (Str(6) + SealedBytes(env)) + (Str(12) + Str(route))
\* process_due_fed_sealed: SEALED_OVERSIZE, or a frame for the channel.
SealedSendable(env) == env <= SEALED_MAX_BYTES

(* -------------------------------- adverts ----------------------------- *)

\* domains.rs: a prefix for each purpose of a signature.
Domains == {"noise-static", "envelope", "attest", "advert"}
Signature(node, domain, content) == [node |-> node, domain |-> domain, content |-> content]

canonical_bytes_v0(a) ==
  <<a.rf_version, a.node_id, a.name, a.services, a.protocols,
    <<a.security.translate, a.security.signed, a.security.sealed>>, a.expires>>
canonical_bytes(a) ==
  <<a.rf_version, a.node_id, a.name, a.services, a.protocols,
    <<a.security.translate, a.security.signed, a.security.sealed, a.security.sealed_key>>, a.expires>>
sign(a, node) == [sig |-> Signature(node, "advert", canonical_bytes(a))] @@ a
verify(a) == a.expires > 0 /\ a.sig = Signature(a.node_id, "advert", canonical_bytes(a))

ProtoCaps(rx, tx) == [rx |-> rx, tx |-> tx, text |-> TRUE, files |-> FALSE, max_payload |-> {}]
SecurityCaps(key) == [translate |-> TRUE, signed |-> TRUE, sealed |-> TRUE, sealed_key |-> {key}]
ServiceNames(c) == {s.name : s \in c.public_services}
ServiceTypes(c) == {s.type : s \in c.public_services}
FEDERATION == [txt |-> "federation", len |-> 10, chars |-> {"lower"}]
build_from_config(c, node, key, now) ==
  LET rx == UNION {s.ingress : s \in c.public_services}
      tx == UNION {s.egress : s \in c.public_services}
  IN  IF c.discovery.mode = "disabled" THEN {}
      ELSE {[rf_version |-> 1, node_id |-> node, name |-> c.node.name,
             services |-> {FEDERATION} \cup ServiceTypes(c),
             protocols |-> [p \in rx \cup tx |-> ProtoCaps(p \in rx, p \in tx)],
             security |-> SecurityCaps(key), expires |-> now + c.discovery.advert_ttl_secs]}

\* The receiver: a key is short and plain, or the whole advert is refused.
KeySane(k) == k.len \in 1..32 /\ k.chars \subseteq {"lower", "digit", "_", "-"}
advert_keys_sane(a) == \A k \in a.services \cup DOMAIN a.protocols : KeySane(k)
Accepted(a, now) == verify(a) /\ advert_keys_sane(a) /\ a.expires > now

(* ----------------------------- properties ----------------------------- *)

\* Wherever run_conn's select! drops the future that reads, between any two bytes, the
\* peer receives exactly the frames that were sent, in their order, those above the limit
\* left out whole, and nothing is left over.
FramesSurviveCancellation ==
  \A x \in Case("stream") :
    LET sent == SelectSeq(x.frames, LAMBDA f : Len(f) <= CHANNEL_FRAME)
        stream == Written(x.frames)
        r == Received(stream, {i \in DOMAIN stream : i % x.every \in x.at})
    IN  r = [FedChannel EXCEPT !.frames = sent, !.opened = r.opened]

\* The gate in front of the decoder is a copy of conditions that are checked again behind
\* it: it never drops a frame that its handler would take, it lets no peer below
\* accept_from have a message decoded, and every drop of a known frame is counted once.
GateAgreesWithHandlers ==
  \A x \in Case("inbound") :
    LET out == decode_inbound(x.node, x.frame)
        tags == x.frame.t
    IN  /\ Handled(x.node, x.frame) /\ (\A t \in tags : x.frame.bytes <= Cap(t)) => out = tags
        /\ Handled(x.node, x.frame) /\ tags = {"advert"} => out = tags
        /\ out \cap {"envelope", "sealed"} # {} => ~trust_below_accept_from(x.node)
        /\ out # {} => reject_frame(x.node, x.frame) = {}
        /\ out = {} /\ x.frame.fits /\ tags \subseteq Fed => Cardinality(reject_frame(x.node, x.frame)) = Cardinality(tags)

\* Whatever parts of whatever messages a sealed envelope is made of, it opens for the
\* node it was sealed for and as it was sealed, header included, or not at all.
OpenedAsSealed ==
  \A x \in Case("splice") : \A own \in {"k1", "k2"} :
    LET r == unseal(x.s, own)
        whole == {m \in x.of : m.sealed = x.s /\ m.recipient = own}
    IN  IF whole = {} THEN "err" \in DOMAIN r ELSE \A m \in whole : r = [ok |-> m.env]

\* A sealed message that the engine does not refuse as too large fits the channel once it
\* is sealed and framed, for a route name of any length a destination may have.
SealedFitsTheChannel ==
  \A x \in Case("presealed") : SealedSendable(x.env) => SealedFrame(x.env, x.route) <= MAX_FRAME

\* An advert that verifies is, field by field, what the node it names signed as an advert:
\* no other of its signatures and no other content passes for it.
AdvertSignatureBinds ==
  \A x \in Case("signed") : \A a \in x.adverts, b \in x.adverts, domain \in Domains, node \in {"rf:a", "rf:b"} :
    LET claim == [sig |-> Signature(node, domain, canonical_bytes(b))] @@ a
    IN  verify(claim) <=> node = a.node_id /\ domain = "advert" /\ a = b

\* The advert of a document that loads says which kinds of service and which protocols
\* the operator published and nothing else of the document (no route, peer or service
\* name); while its keys are plain every peer accepts it, and its lifetime as it stands.
AdvertPublishesServices ==
  \A c \in Loaded : \A a \in build_from_config(c, "rf:a", "k", 0) :
    LET published == UNION {{s.type} \cup s.ingress \cup s.egress : s \in c.public_services}
        plain == \A k \in published : KeySane(k)
    IN  /\ a.services \cup DOMAIN a.protocols \subseteq {FEDERATION} \cup published
        /\ \A p \in DOMAIN a.protocols : a.protocols[p].rx \/ a.protocols[p].tx
        /\ sanitize_advert_name(a.name) = a.name
        /\ plain => Accepted(sign(a, "rf:a"), 0)
        /\ a.expires <= ADVERT_MAX_FUTURE_SECS

\* What one node puts on the wire the other takes for exactly that: frames survive a read
\* that is cancelled, sealed messages and adverts open or verify as they were made or not
\* at all, what the sender lets go fits, and the gate drops only what a handler would.
WireIsFaithful ==
  /\ FramesSurviveCancellation /\ GateAgreesWithHandlers /\ OpenedAsSealed /\ SealedFitsTheChannel
  /\ AdvertSignatureBinds /\ AdvertPublishesServices
=============================================================================
