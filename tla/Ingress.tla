------------------------------- MODULE Ingress -------------------------------
(***************************************************************************)
(* What a daemon does with a message from a plugin (engine::handle_inbound)*)
(* and the identity links that a reply to a verification code makes        *)
(* (initiate_link, confirm_link, note_failed_link_guess).                  *)
(*                                                                         *)
(* Every connection of a plugin runs its handler for itself, and a         *)
(* connection that was displaced by a newer one of the same plugin reads   *)
(* on, so two handlers may hold messages of one sender.  A handler takes   *)
(* the locks of the dedup, the limiter, the guesses and the store one      *)
(* after the other, never two at once: each step below is what happens     *)
(* under one lock, but for Admit, whose two locks nobody holds together.   *)
(* What the delivery queue does with the rows is in DeliveryQueue, and     *)
(* what the store of attachments does in AttachmentStore.                  *)
(***************************************************************************)
EXTENDS Limits, FiniteSets

CONSTANTS
  Conn,               \* the connections that may be open at once
  Identity,           \* a plugin and the native ref of one of its users
  Code,               \* generate_code
  Message,            \* [sender, body, from, nr]: nr tells equal texts apart (created_at)
  Chat,               \* a body that is not six digits
  Routes,             \* the configured routes: a sequence of [name, sources, destinations]
  Size,               \* bytes of a message with its attachments
  Nil,
  Requests,           \* the <<target, requester>> an operator may ask to link
  Settings,           \* the [mpm, bph, ttl] that a configuration may give
  LINK_CODE_MAX_GUESSES, LINK_CODE_WINDOW, LINK_CODE_MAP_MAX,
  ChallengeTtl,       \* the fifteen minutes of a challenge
  MaxClock, MaxSends, MaxOps   \* bounds: ticks; messages; commands, restarts and failures

ASSUME IngressAssumption ==
  /\ Chat \notin Code
  /\ {Minute, Hour, LINK_CODE_WINDOW, ChallengeTtl, LINK_CODE_MAX_GUESSES} \subseteq Nat \ {0}
  /\ Minute <= Hour /\ ChallengeTtl <= LINK_CODE_WINDOW /\ LINK_CODE_MAP_MAX \in Nat
  /\ Requests \subseteq Identity \X Identity /\ IsFiniteSet(Conn)
  /\ \A m \in Message : m.sender \in Identity /\ m.body \in Code \cup {Chat}
  /\ \A s \in Settings : s.ttl \in Nat

Challenge == [id : Nat, code : Code, target : Identity, requester : Identity, expires : Nat]

ASSUME NilAssumption == Nil \notin Challenge

VARIABLES
  now,
  cfg,        \* the settings in force
  seen,       \* Dedup
  windows,    \* SenderLimiter
  guesses,    \* LINK_CODE_GUESSES: [n, first] of an identity
  challenges, \* link_challenges, by target: [id, code, requester, expires], or Nil
  links,      \* identity_links: a set of [a, b, id]
  handler,    \* of a connection: [at, msg, found], where its handler stands
  command,    \* initiate_link: [at, target, requester]
  admitted,   \* history: [msg, conn, at, ttl, kept] of what passed both gates; kept once stored
  quota,      \* history: what the limiter let through since it was built
  noted,      \* history, by target: wrong replies counted since its challenge was made
  resets,     \* history, by target: how often its guesses were forgotten since then, and
              \* the revocations that a restart has cut off
  ids, sends, ops   \* the row ids given out; the bounded counters

vars == <<now, cfg, seen, windows, guesses, challenges, links, handler, command,
          admitted, quota, noted, resets, ids, sends, ops>>
gates == <<cfg, seen, windows, admitted, quota>>
tables == <<guesses, challenges, links, noted, resets, ids>>

Idle == [at |-> "idle", msg |-> Nil, found |-> Nil]
NoCommand == [at |-> "idle", target |-> Nil, requester |-> Nil]

Init ==
  /\ now = 0 /\ cfg \in Settings
  /\ seen = <<>>
  /\ windows = [i \in Identity |-> <<>>]
  /\ guesses = [i \in {} |-> Nil]
  /\ challenges = [i \in Identity |-> Nil]
  /\ links = {}
  /\ handler = [c \in Conn |-> Idle]
  /\ command = NoCommand
  /\ admitted = <<>> /\ quota = <<>>
  /\ noted = [i \in Identity |-> 0]
  /\ resets = [i \in Identity |-> 0] /\ ids = 0 /\ sends = 0 /\ ops = 0

Goto(c, at, m, found) == handler' = [handler EXCEPT ![c] = [at |-> at, msg |-> m, found |-> found]]
Done(c) == handler' = [handler EXCEPT ![c] = Idle]
Forgotten(S) == [i \in Identity |-> IF i \in S THEN resets[i] + 1 ELSE resets[i]]
Op == ops < MaxOps /\ ops' = ops + 1

(* ------------------------------ routing ------------------------------- *)

\* routes::route: deny by default, and never back to where the message came from.
RouteTargets(source) ==
  LET matching == {i \in DOMAIN Routes : source \in Routes[i].sources}
  IN  UNION {{<<Routes[i].name, d>> : d \in Routes[i].destinations \ {source}} : i \in matching}

\* The rest of handle_inbound: a message with a target has its attachments put and
\* its rows inserted; a failed insert of the message loses it.  No other step here
\* looks at those rows, so this belongs to the step before it.
RouteMessage(c, m, log) ==
  \/ /\ RouteTargets(m.from) # {}
     /\ admitted' = [log EXCEPT ![Max({i \in DOMAIN log : log[i].conn = c})].kept = TRUE]
     /\ UNCHANGED ops
  \/ RouteTargets(m.from) = {} /\ admitted' = log /\ UNCHANGED ops
  \/ RouteTargets(m.from) # {} /\ admitted' = log /\ Op

(* --------------------------- the two gates ---------------------------- *)

\* The peek at the dedup, on the body as received and on every attachment's hash.
PeekAndRecord(c, m) ==
  LET kept == PruneSeen(seen, now) IN
  /\ handler[c].at = "idle" /\ sends < MaxSends
  /\ sends' = sends + 1
  /\ seen' = IF m \in DOMAIN kept THEN kept ELSE Record(kept, m, cfg.ttl, now)
  /\ IF m \in DOMAIN kept THEN UNCHANGED handler ELSE Goto(c, "admit", m, Nil)
  /\ UNCHANGED <<now, cfg, windows, admitted, quota, tables, command, ops>>
Peek(c, m) ==
  LET kept == PruneSeen(seen, now) IN
  /\ handler[c].at = "idle" /\ sends < MaxSends
  /\ sends' = sends + 1
  /\ seen' = kept
  /\ IF m \in DOMAIN kept THEN UNCHANGED handler ELSE Goto(c, "admit", m, Nil)
  /\ UNCHANGED <<now, cfg, windows, admitted, quota, tables, command, ops>>

\* The sender's quota, and the record that follows when it has room.
Admit(c) ==
  LET m == handler[c].msg
      allow == SenderAllow(windows, cfg.mpm, cfg.bph, m.sender, Size[m], now)
      entry == [msg |-> m, conn |-> c, at |-> now, ttl |-> cfg.ttl, kept |-> FALSE]
  IN
  /\ handler[c].at = "admit"
  /\ windows' = allow[2]
  /\ IF allow[1]
     THEN /\ seen' = Record(seen, m, cfg.ttl, now)
          /\ quota' = Append(quota, [sender |-> m.sender, at |-> now, bytes |-> Size[m]])
          /\ IF m.body \in Code
             THEN Goto(c, "look", m, Nil) /\ admitted' = Append(admitted, entry) /\ UNCHANGED ops
             ELSE Done(c) /\ RouteMessage(c, m, Append(admitted, entry))
     ELSE Done(c) /\ UNCHANGED <<seen, admitted, quota, ops>>
  /\ UNCHANGED <<now, cfg, tables, command, sends>>

(* ------------------------ replies to a challenge ---------------------- *)

\* find_active_challenge.
ActiveUnexpiring(i, code) ==
  {challenges[t] : t \in {x \in {i} : challenges[x] # Nil /\ challenges[x].code = code}}
Active(i, code) ==
  {challenges[t] : t \in {x \in {i} : /\ challenges[x] # Nil
                                      /\ challenges[x].code = code
                                      /\ challenges[x].expires > now}}

\* A body of six digits is looked up; a lookup that fails counts as no match.
Look(c) ==
  LET m == handler[c].msg IN
  /\ handler[c].at = "look"
  /\ \/ \E ch \in Active(m.sender, m.body) : Goto(c, "confirm", m, ch) /\ UNCHANGED ops
     \/ Active(m.sender, m.body) = {} /\ Goto(c, "note", m, Nil) /\ UNCHANGED ops
     \/ Active(m.sender, m.body) # {} /\ Op /\ Goto(c, "note", m, Nil)
  /\ UNCHANGED <<now, gates, tables, command, sends>>

\* link_for_identity: the newest link of one side.
LinkOf(L, i) ==
  LET touching == {l \in L : i \in {l.a, l.b}}
  IN  {l \in touching : \A k \in touching : k.id <= l.id}

\* The links that a confirmation of ch leaves: those of either party are replaced.
ReplaceRequesterOnly(ch) == links \ LinkOf(links, ch.requester)
Replace(ch) ==
  LET rest == links \ LinkOf(links, ch.target)
  IN  rest \ LinkOf(rest, ch.requester)

\* confirm_link under the store's lock.  Two notices follow, which may be lost, and
\* the message goes no further.
Confirm(c) ==
  LET ch == handler[c].found IN
  /\ handler[c].at = "confirm"
  /\ challenges' = [i \in Identity |->
       IF challenges[i] # Nil /\ challenges[i].id = ch.id THEN Nil ELSE challenges[i]]
  /\ ids' = ids + 1
  /\ links' = Replace(ch) \cup {[a |-> ch.target, b |-> ch.requester, id |-> ids']}
  /\ Done(c)
  /\ UNCHANGED <<now, gates, guesses, noted, resets, command, sends, ops>>

\* note_failed_link_guess under the lock of the guesses: entries older than the
\* window go, and all of them when the map is full.
NoteLate(c) ==
  LET i == handler[c].msg.sender
      n == IF i \in DOMAIN guesses THEN guesses[i].n + 1 ELSE 1
  IN
  /\ handler[c].at = "note"
  /\ guesses' = [x \in DOMAIN guesses \cup {i} |-> IF x = i THEN [n |-> n, first |-> now] ELSE guesses[x]]
  /\ IF n > LINK_CODE_MAX_GUESSES
     THEN Goto(c, "revoke", handler[c].msg, Nil) /\ UNCHANGED <<admitted, ops>>
     ELSE Done(c) /\ RouteMessage(c, handler[c].msg, admitted)
  /\ noted' = [noted EXCEPT ![i] = @ + 1]
  /\ UNCHANGED <<now, cfg, seen, windows, quota, challenges, links, resets, ids, command, sends>>
Note(c) ==
  LET i == handler[c].msg.sender
      young == {x \in DOMAIN guesses : now - guesses[x].first < LINK_CODE_WINDOW}
      kept == IF Cardinality(young) >= LINK_CODE_MAP_MAX THEN {} ELSE young
      entry == IF i \in kept THEN [guesses[i] EXCEPT !.n = @ + 1] ELSE [n |-> 1, first |-> now]
      spent == entry.n >= LINK_CODE_MAX_GUESSES
  IN
  /\ handler[c].at = "note"
  /\ guesses' = [x \in (IF spent THEN kept \ {i} ELSE kept \cup {i}) |->
                   IF x = i THEN entry ELSE guesses[x]]
  /\ IF spent
     THEN Goto(c, "revoke", handler[c].msg, Nil) /\ UNCHANGED <<admitted, ops>>
     ELSE Done(c) /\ RouteMessage(c, handler[c].msg, admitted)
  /\ noted' = [noted EXCEPT ![i] = @ + 1]
  /\ resets' = IF kept = young THEN resets ELSE Forgotten(Identity)
  /\ UNCHANGED <<now, cfg, seen, windows, quota, challenges, links, ids, command, sends>>

\* delete_challenges_for_target.
RevokeByRequester(c) ==
  LET m == handler[c].msg IN
  /\ handler[c].at = "revoke"
  /\ challenges' = [i \in Identity |->
       IF challenges[i] # Nil /\ challenges[i].requester = m.sender THEN Nil ELSE challenges[i]]
  /\ Done(c) /\ RouteMessage(c, m, admitted)
  /\ UNCHANGED <<now, cfg, seen, windows, quota, guesses, links, noted, resets, ids, command, sends>>
Revoke(c) ==
  LET m == handler[c].msg IN
  /\ handler[c].at = "revoke"
  /\ challenges' = [challenges EXCEPT ![m.sender] = Nil]
  /\ Done(c) /\ RouteMessage(c, m, admitted)
  /\ UNCHANGED <<now, cfg, seen, windows, quota, guesses, links, noted, resets, ids, command, sends>>

(* ------------------- the operator, the clock, restarts ---------------- *)

\* create_link: initiate_link forgets the target's guesses, and goes on unless the
\* target's plugin is away or takes no direct messages.
InitiateLink(t, r) ==
  /\ command.at = "idle" /\ Op
  /\ guesses' = [i \in DOMAIN guesses \ {t} |-> guesses[i]]
  /\ command' \in {NoCommand, [at |-> "create", target |-> t, requester |-> r]}
  /\ resets' = Forgotten({t})
  /\ UNCHANGED <<now, gates, challenges, links, noted, ids, handler, sends>>

\* create_challenge, which takes the place of the target's last one.  The code is
\* then queued for the target, or the queue is full and the challenge stays.
CreateChallenge(code) ==
  /\ command.at = "create"
  /\ ids' = ids + 1
  /\ challenges' = [challenges EXCEPT ![command.target] =
       [id |-> ids', code |-> code, target |-> command.target,
        requester |-> command.requester, expires |-> now + ChallengeTtl]]
  /\ noted' = [noted EXCEPT ![command.target] = 0]
  /\ resets' = [resets EXCEPT ![command.target] = 0]
  /\ command' = NoCommand
  /\ UNCHANGED <<now, gates, guesses, links, handler, sends, ops>>

\* DELETE /v1/identities/link/{id}.
DeleteLink(l) ==
  /\ l \in links /\ Op
  /\ links' = links \ {l}
  /\ UNCHANGED <<now, gates, guesses, challenges, noted, resets, ids, handler, command, sends>>

\* purge_expired_challenges, from the pump.
PurgeExpiredChallenges ==
  LET old == {i \in Identity : challenges[i] # Nil /\ challenges[i].expires < now} IN
  /\ old # {}
  /\ challenges' = [i \in Identity |-> IF i \in old THEN Nil ELSE challenges[i]]
  /\ UNCHANGED <<now, gates, guesses, links, noted, resets, ids, handler, command, sends, ops>>

\* apply_config: a new limiter, and a ttl for what is recorded from now on.
ApplyConfigFreshDedup(s) ==
  /\ Op /\ cfg' = s
  /\ windows' = [i \in Identity |-> <<>>] /\ quota' = <<>> /\ seen' = <<>>
  /\ UNCHANGED <<now, admitted, tables, handler, command, sends>>
ApplyConfig(s) ==
  /\ Op /\ cfg' = s
  /\ windows' = [i \in Identity |-> <<>>] /\ quota' = <<>>
  /\ UNCHANGED <<now, seen, admitted, tables, handler, command, sends>>

\* A restart keeps the tables and nothing else; what it forgets starts anew, and a
\* revocation under way does not happen.
Revoking(i) == {c \in Conn : handler[c].at = "revoke" /\ handler[c].msg.sender = i}
Restart ==
  /\ Op
  /\ seen' = <<>> /\ windows' = [i \in Identity |-> <<>>]
  /\ guesses' = [i \in {} |-> Nil]
  /\ resets' = [i \in Identity |-> resets[i] + 1 + Cardinality(Revoking(i))]
  /\ handler' = [c \in Conn |-> Idle] /\ command' = NoCommand
  /\ admitted' = <<>> /\ quota' = <<>>
  /\ UNCHANGED <<now, cfg, challenges, links, noted, ids, sends>>

\* The clock counts in minutes, next to which a handler takes no time.
Tick ==
  /\ now < MaxClock /\ now' = now + 1
  /\ command.at = "idle" /\ \A c \in Conn : handler[c].at = "idle"
  /\ UNCHANGED <<gates, tables, handler, command, sends, ops>>

Next ==
  \/ \E c \in Conn :
       \/ \E m \in Message : Peek(c, m)
       \/ Admit(c) \/ Look(c) \/ Confirm(c) \/ Note(c) \/ Revoke(c)
  \/ \E q \in Requests : InitiateLink(q[1], q[2])
  \/ \E code \in Code : CreateChallenge(code)
  \/ \E l \in links : DeleteLink(l)
  \/ PurgeExpiredChallenges
  \/ \E s \in Settings : ApplyConfig(s)
  \/ Restart
  \/ Tick

Spec == Init /\ [][Next]_vars

(* ----------------------------- properties ----------------------------- *)

\* The types of the gates, the handlers and the tables: times lie in the past, the guess
\* counters are bounded in number and in value, a challenge is filed under its target.
TypeOK ==
  /\ now \in 0..MaxClock /\ cfg \in Settings
  /\ DOMAIN seen \subseteq Message /\ \A m \in DOMAIN seen : seen[m].at <= now
  /\ \A i \in Identity : \A k \in DOMAIN windows[i] : windows[i][k].at <= now
  /\ DOMAIN guesses \subseteq Identity /\ Cardinality(DOMAIN guesses) <= LINK_CODE_MAP_MAX
  /\ \A i \in DOMAIN guesses : guesses[i].n \in 1..(LINK_CODE_MAX_GUESSES - 1)
  /\ challenges \in [Identity -> Challenge \cup {Nil}]
  /\ \A i \in Identity : challenges[i] # Nil => challenges[i].target = i
  /\ links \subseteq [a : Identity, b : Identity, id : 1..ids]
  /\ handler \in [Conn -> [at : {"idle", "admit", "look", "confirm", "note", "revoke"},
                           msg : Message \cup {Nil}, found : Challenge \cup {Nil}]]
  /\ command \in [at : {"idle", "create"}, target : Identity \cup {Nil},
                  requester : Identity \cup {Nil}]

\* What the limiter has let through of a sender in the last minute, and its bytes in
\* the last hour, are within the quota, whatever it has pruned from its windows in
\* the meantime: the windows of limits.rs agree with a log that forgets nothing.
WithinQuota ==
  \A i \in Identity :
    LET log(span) == {k \in DOMAIN quota : quota[k].sender = i /\ now - quota[k].at < span}
    IN  /\ cfg.mpm > 0 => Cardinality(log(Minute)) <= cfg.mpm
        /\ cfg.bph > 0 => MapThenSumSet(LAMBDA k : quota[k].bytes, log(Hour)) <= cfg.bph

\* A copy that is dropped as a duplicate repeats one that passed both gates within
\* the ttl then in force: "a message that turns out to be rate-limited below must
\* not be recorded as seen", or its retransmission would be swallowed.
DuplicateWasAdmitted ==
  \A m \in Message : sends' # sends /\ handler' = handler /\ m \in DOMAIN seen' =>
    \E k \in DOMAIN admitted : admitted[k].msg = m /\ now - admitted[k].at < admitted[k].ttl

\* A connection does not store a message again before the ttl of its last record is
\* over, through changes of the configuration.  Handlers of two connections that
\* overlap may both store it, and the later record then counts.
StoredOnce ==
  \A j, k \in DOMAIN admitted :
    /\ j < k /\ admitted[j].kept /\ admitted[k].kept
    /\ admitted[j].msg = admitted[k].msg /\ admitted[j].conn = admitted[k].conn
    /\ \A i \in j+1..k-1 : admitted[i].msg # admitted[j].msg
    => admitted[k].at - admitted[j].at >= admitted[j].ttl

\* No identity is in two links: a confirmation replaces the links of both parties,
\* "replace, not stack", in whichever order links were made and removed.
OneLinkPerIdentity ==
  \A k, l \in links : {k.a, k.b} \cap {l.a, l.b} # {} => k = l

\* A link is made only by a reply of its target, with the code of a challenge that
\* had not expired when the reply was looked up.
ConfirmedByTarget ==
  \A l \in links' \ links :
    \E c \in Conn : /\ handler[c].at = "confirm" /\ handler'[c].at = "idle"
                    /\ handler[c].msg.sender = l.a
                    /\ handler[c].found.code = handler[c].msg.body
                    /\ handler[c].found.expires > now

\* A challenge does not outlive LINK_CODE_MAX_GUESSES wrong replies, and as many more
\* for each time the guesses are forgotten: by a restart, by a full map or by a request for a
\* new challenge that came to nothing; and for each revocation that a restart cut off.  A
\* handler that counted the last of them may have yet to revoke the challenge.
GuessesBounded ==
  \A i \in Identity :
    \/ challenges[i] = Nil \/ challenges[i].expires <= now
    \/ Revoking(i) # {}
    \/ noted[i] < LINK_CODE_MAX_GUESSES * (resets[i] + 1)

\* The limiter holds: within the quota, whatever it forgets.
GatesHold == TypeOK /\ WithinQuota

\* What ingress writes holds: a message is stored once per ttl, an identity has one link,
\* and no challenge can be guessed at for longer than its budget.
StoreHolds == StoredOnce /\ OneLinkPerIdentity /\ GuessesBounded

\* What a step of ingress takes effect by was earned: a copy is dropped only for one that
\* was admitted, and a link is made only by its target with a live code.
EffectsEarned == [][DuplicateWasAdmitted /\ ConfirmedByTarget]_vars
=============================================================================
