------------------------------ MODULE Discovery ------------------------------
(***************************************************************************)
(* What a daemon knows of other nodes: the trust store, which the          *)
(* configuration seeds at every boot and a handshake may add to, and the   *)
(* advertisements that peers send over their connections (fed/advert.rs,   *)
(* the receive path in fed/conn.rs, the tables in storage.rs), with the    *)
(* key for sealed messages that a peer's advertisement carries.            *)
(*                                                                         *)
(* The other nodes are the environment: they connect, restart with a new   *)
(* key, and send adverts of their own, of a third node, or badly signed.   *)
(***************************************************************************)
EXTENDS Naturals, FiniteSets, FiniteSetsExt, Functions

CONSTANTS
  Remote,        \* the other nodes
  Configs,       \* federation and discovery blocks: [peers, trusted, blocked, mode, accept_from]
  Ttls,          \* advert_ttl_secs of other nodes
  ADVERT_MAX_FUTURE, MAX_SEEN_TRUST_ROWS, MAX_PEER_ADVERTS,
  Nil,
  MaxClock, MaxKeys, MaxBoots   \* bounds: ticks; keys of a node; boots of the daemon

Levels == {"seen", "verified", "trusted", "blocked"}

\* What config.rs validates of a configuration; the tables are finite.
ASSUME DiscoveryAssumption ==
  /\ IsFiniteSet(Remote) /\ Ttls \subseteq Nat
  /\ {ADVERT_MAX_FUTURE, MAX_SEEN_TRUST_ROWS, MAX_PEER_ADVERTS} \subseteq Nat \ {0}
  /\ \A c \in Configs : /\ DOMAIN c.peers \subseteq Remote /\ c.trusted \cup c.blocked \subseteq Remote
                        /\ \A n \in DOMAIN c.peers : c.peers[n] \in {"verified", "trusted"}
  /\ Nil \notin [level : Levels, first : Nat]
  /\ Nil \notin [node : Remote, signer : Remote, key : Nat, expires : Nat, received : Nat, via : Remote]
  /\ MaxClock \in Nat /\ MaxKeys \in Nat \ {0} /\ MaxBoots \in Nat

VARIABLES
  now,
  cfg,       \* the configuration of this boot
  trust,     \* node_trust: of a node, [level, first] or Nil
  adverts,   \* peer_adverts: of a node, [node, signer, key, expires, received, via] or Nil
  linked,    \* nodes with an admitted connection
  key,       \* of a node: its sealed key
  rotated,   \* history, of a node: when it last took a new key
  boots

tableVars == <<now, cfg, trust, adverts, linked, key, rotated, boots>>
others == <<key, rotated>>

(* ----------------------------- trust store ---------------------------- *)

\* trust_rank.
Rank(level) ==
  CASE level = "trusted"  -> 3
    [] level = "verified" -> 2
    [] level = "seen"     -> 1
    [] OTHER              -> 0
LevelIn(t, n) == IF t[n] = Nil THEN "unknown" ELSE t[n].level
Level(n) == LevelIn(trust, n)

\* seed_federation_trust: levels that the configuration no longer grants go down to
\* seen, then peers[], trusted and blocked are written in this order.
Authorized(c) == DOMAIN c.peers \cup c.trusted
DemotedAny(t, c, n) ==
  IF t[n] # Nil /\ n \notin Authorized(c) THEN [t[n] EXCEPT !.level = "seen"] ELSE t[n]
Demoted(t, c, n) ==
  IF t[n] # Nil /\ t[n].level \in {"verified", "trusted"} /\ n \notin Authorized(c)
  THEN [t[n] EXCEPT !.level = "seen"] ELSE t[n]
Written(t, n, level) == [level |-> level, first |-> IF t[n] = Nil THEN now ELSE t[n].first]
SeedUpsertOnly(t, c) ==
  [n \in Remote |-> CASE n \in c.blocked      -> Written(t, n, "blocked")
                    [] n \in c.trusted      -> Written(t, n, "trusted")
                    [] n \in DOMAIN c.peers -> Written(t, n, c.peers[n])
                    [] OTHER                -> t[n]]
Seed(t, c) ==
  [n \in Remote |-> CASE n \in c.blocked      -> Written(t, n, "blocked")
                    [] n \in c.trusted \ c.blocked -> Written(t, n, "trusted")
                    [] n \in DOMAIN c.peers \ (c.trusted \cup c.blocked) -> Written(t, n, c.peers[n])
                    [] OTHER                -> Demoted(t, c, n)]

\* The rows that a cap of max leaves of S: the newest by age, ties by node id, of
\* which any may come first here.
Newest(S, age, max) ==
  {K \in kSubset(Min({max, Cardinality(S)}), S) : \A k \in K, l \in S \ K : age[k] >= age[l]}

\* record_seen, which leaves a row that is there, and prune_seen_trust.
RecordSeenUncapped(n) == {[trust EXCEPT ![n] = IF @ = Nil THEN [level |-> "seen", first |-> now] ELSE @]}
RecordSeen(n) ==
  LET t == [trust EXCEPT ![n] = IF @ = Nil THEN [level |-> "seen", first |-> now] ELSE @]
      seen == {m \in Remote : t[m] # Nil /\ t[m].level = "seen"}
      age == [m \in seen |-> t[m].first]
  IN  {[m \in Remote |-> IF m \in seen \ K THEN Nil ELSE t[m]] :
         K \in Newest(seen, age, MAX_SEEN_TRUST_ROWS)}

(* ------------------------------ adverts ------------------------------- *)

\* advert_scope_allows, and decode_inbound's gate for adverts, which is the same.
ScopeAllows(n) ==
  CASE cfg.mode = "disabled" -> FALSE
    [] cfg.mode = "public"   -> TRUE
    [] OTHER                 -> Rank(Level(n)) >= Rank(cfg.accept_from)

\* advert::verify with the binding of an advert to the connection it came over.
BoundAnywhere(a, from) == a.signer = a.node
Bound(a, from) == a.node = from /\ a.signer = a.node

\* A far-off expiry is honoured only so far.
ClampNever(expires) == expires
Clamp(expires) == Min({expires, now + ADVERT_MAX_FUTURE})

\* upsert_peer_advert, where the later expiry wins, and prune_peer_adverts.
UpsertUnpruned(a, from) ==
  {[adverts EXCEPT ![a.node] =
      [node |-> a.node, signer |-> a.signer, key |-> a.key,
       expires |-> Clamp(a.expires), received |-> now, via |-> from]]}
Upsert(a, from) ==
  LET row == [node |-> a.node, signer |-> a.signer, key |-> a.key,
              expires |-> Clamp(a.expires), received |-> now, via |-> from]
      rows == IF adverts[a.node] # Nil /\ adverts[a.node].expires >= row.expires
              THEN adverts ELSE [adverts EXCEPT ![a.node] = row]
      held == {n \in Remote : rows[n] # Nil}
      age == [n \in held |-> rows[n].received]
  IN  {[n \in Remote |-> IF n \in held \ K THEN Nil ELSE rows[n]] : K \in Newest(held, age, MAX_PEER_ADVERTS)}

\* What list_peer_adverts gives and GET /v1/discovery serves: rows that have not
\* expired and that verify for the node they are stored under.
Listed == {n \in Remote : /\ adverts[n] # Nil /\ adverts[n].expires > now
                        /\ adverts[n].signer = adverts[n].node /\ adverts[n].node = n}

\* resolve_sealed_key, for a peer without a pinned key.
SealedKey(n) == IF n \in Listed THEN adverts[n].key ELSE Nil

(* ------------------------------- actions ------------------------------ *)

\* Start-up: spawn_federation seeds the trust store.
Boot(c) ==
  /\ boots < MaxBoots /\ boots' = boots + 1
  /\ cfg' = c /\ trust' = Seed(trust, c)
  /\ linked' = {}
  /\ UNCHANGED <<now, adverts, others>>

\* admit_and_run of a node that has proved its identity.
AdmittedBlockedOnly(n) == Level(n) # "blocked"
Admitted(n) == Level(n) # "blocked" /\ (Rank(Level(n)) >= Rank("verified") \/ cfg.mode = "public")
Connect(n) ==
  /\ n \notin linked /\ Admitted(n)
  /\ trust' \in RecordSeen(n)
  /\ linked' = linked \cup {n}
  /\ UNCHANGED <<now, cfg, adverts, others, boots>>

Disconnect(n) ==
  /\ n \in linked
  /\ linked' = linked \ {n}
  /\ UNCHANGED <<now, cfg, trust, adverts, others, boots>>

\* A node starts anew with another sealed key.
Rotate(n) ==
  /\ key[n] < MaxKeys
  /\ key' = [key EXCEPT ![n] = @ + 1] /\ rotated' = [rotated EXCEPT ![n] = now]
  /\ linked' = linked \ {n}
  /\ UNCHANGED <<now, cfg, trust, adverts, boots>>

\* What a connected node may send, when it connects, is asked, or refreshes its advert:
\* its own, one that another node signed (now or earlier), or one that it signs itself
\* under another's name.
Advert(about, signer, k, ttl) == [node |-> about, signer |-> signer, key |-> k, expires |-> now + ttl]
Sendable(n) ==
  {Advert(n, n, key[n], ttl) : ttl \in Ttls}
    \cup {Advert(m, m, 1, ttl) : m \in Remote \ {n}, ttl \in Ttls}
    \cup {Advert(m, n, key[n], ttl) : m \in Remote \ {n}, ttl \in Ttls}

\* receive_advert; an advert takes no time on its connection next to a tick.
ReceiveAdvert(n, a) ==
  /\ n \in linked
  /\ IF Bound(a, n) /\ a.expires > now /\ ScopeAllows(n)
     THEN adverts' \in Upsert(a, n)
     ELSE UNCHANGED adverts
  /\ UNCHANGED <<now, cfg, trust, linked, others, boots>>

\* purge_expired_adverts, from the pump.
PurgeExpiredAdverts ==
  LET old == {n \in Remote : adverts[n] # Nil /\ adverts[n].expires < now} IN
  /\ old # {}
  /\ adverts' = [n \in Remote |-> IF n \in old THEN Nil ELSE adverts[n]]
  /\ UNCHANGED <<now, cfg, trust, linked, others, boots>>

TablesTick ==
  /\ now < MaxClock /\ now' = now + 1
  /\ UNCHANGED <<cfg, trust, adverts, linked, others, boots>>

TablesInit ==
  /\ now = 0 /\ cfg \in Configs
  /\ trust = Seed([n \in Remote |-> Nil], cfg)
  /\ adverts = [n \in Remote |-> Nil] /\ linked = {}
  /\ key = [n \in Remote |-> 1] /\ rotated = [n \in Remote |-> 0] /\ boots = 0

TablesNext ==
  \/ \E c \in Configs : Boot(c)
  \/ \E n \in Remote : \/ Connect(n) \/ Disconnect(n) \/ Rotate(n)
                     \/ \E a \in Sendable(n) : ReceiveAdvert(n, a)
  \/ PurgeExpiredAdverts
  \/ TablesTick

TablesSpec == TablesInit /\ [][TablesNext]_tableVars

(* ----------------------------- properties ----------------------------- *)

\* The types of the trust and advert tables: times lie in the past and the adverts of
\* peers stay within MAX_PEER_ADVERTS.
TablesTypeOK ==
  /\ now \in 0..MaxClock /\ cfg \in Configs /\ boots \in 0..MaxBoots /\ linked \subseteq Remote
  /\ \A n \in Remote : trust[n] # Nil => trust[n].level \in Levels /\ trust[n].first \in 0..now
  /\ \A n \in Remote : adverts[n] # Nil => adverts[n].received \in 0..now
  /\ Cardinality({n \in Remote : adverts[n] # Nil}) <= MAX_PEER_ADVERTS
  /\ key \in [Remote -> 1..MaxKeys]

\* A node is verified or trusted only while the configuration of this boot says so:
\* neither a handshake raises it nor does a row outlive its removal from the file;
\* and what the file blocks is blocked, whatever else it lists.
TrustFromConfig ==
  \A n \in Remote :
    /\ Level(n) \in {"verified", "trusted"} => n \in Authorized(cfg) \ cfg.blocked
    /\ n \in cfg.blocked => Level(n) = "blocked"

\* A blocked node stays blocked until a configuration names it as a peer or as trusted.
BlockedSticks ==
  \A n \in Remote : Level(n) = "blocked" =>
    \/ LevelIn(trust', n) = "blocked"
    \/ n \in Authorized(cfg') \ cfg'.blocked

\* "Refused before any of that, nothing persisted": while discovery is not public a
\* node that no configuration vouches for gets no row in either table; a row that it
\* has may only go.
NothingPersisted ==
  cfg' = cfg /\ boots' = boots /\ cfg.mode # "public" =>
    \A n \in Remote :
      Rank(Level(n)) < Rank("verified") =>
        /\ trust'[n] \in {Nil, trust[n]}
        /\ adverts[n] = Nil => adverts'[n] = Nil

\* A handshake leaves at most MAX_SEEN_TRUST_ROWS nodes that are merely seen, those
\* that a boot has demoted included.
SeenCapped ==
  linked' # linked /\ linked \subseteq linked' =>
    Cardinality({n \in Remote : LevelIn(trust', n) = "seen"}) <= MAX_SEEN_TRUST_ROWS

\* A stored advert is the node's own, and came over its own connection.
AdvertsFirstHand ==
  \A n \in Remote : adverts[n] # Nil => adverts[n].node = n /\ adverts[n].signer = n /\ adverts[n].via = n

\* The key that a message to a node is sealed with is the node's key, or was it less
\* than ADVERT_MAX_FUTURE ago, however long the node had said that its advert holds.
KeyNotStale ==
  \A n \in Remote : SealedKey(n) \in {Nil, key[n]} \/ now - rotated[n] < ADVERT_MAX_FUTURE

\* The tables say of a node what the configuration and the node itself say now: trust
\* comes from the file, an advert from its own node, and a key is not stale.
TablesSound == TablesTypeOK /\ TrustFromConfig /\ AdvertsFirstHand /\ KeyNotStale

\* What strangers do changes the tables only as far as the mode and the caps allow:
\* blocked nodes stay blocked, nothing is persisted while discovery is not public, and
\* nodes that are merely seen stay within their cap.
StrangersBounded == [][BlockedSticks /\ NothingPersisted /\ SeenCapped]_tableVars
=============================================================================
