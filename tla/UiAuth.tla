------------------------------- MODULE UiAuth -------------------------------
(***************************************************************************)
(* The passkey gate of the admin console (relayfabric-ui, auth.rs and the  *)
(* handlers of main.rs that use it): stored credentials, sign-in           *)
(* challenges, sessions, the one-time set-up token and the event streams   *)
(* that a session opens.                                                   *)
(*                                                                         *)
(* Every request is a task.  auth_endpoint decides who is asking before it *)
(* awaits the body and acts on that afterwards, and login lets go of the   *)
(* credentials before it locks the sessions, so a request is two or three  *)
(* steps and those of other requests come in between.  What WebAuthn       *)
(* verifies (type, challenge, origin, user flags, signature) is one        *)
(* Boolean of the ceremony; the count that the authenticator reports is    *)
(* kept, and any count may be reported, as by a copy of a key.             *)
(***************************************************************************)
EXTENDS Naturals, Sequences, FiniteSets, FiniteSetsExt, Functions, TLC

CONSTANTS
  Cred,        \* credential ids
  Client,      \* requests that may be in flight at once
  Stores,      \* what an earlier run may have left in credentials.json
  Nil,
  MaxCount,    \* bound: the signCount an authenticator reports
  SESSION_TTL, CHALLENGE_TTL, SSE_MAX_LIFETIME, MAX_CHALLENGES, MAX_SESSIONS,
  MaxClock, MaxTokens, MaxStreams, MaxOps
               \* bounds: ticks; tokens given out; streams at once; restarts and failures

Roles == {"administrator", "viewer"}
Stored == [role : Roles, counter : 0..MaxCount]
Empty == [k \in {} |-> Nil]

\* An earlier run has left no store without an administrator, as NotLockedOut says of this one.
ASSUME UiAuthAssumption ==
  /\ {SESSION_TTL, CHALLENGE_TTL, SSE_MAX_LIFETIME, MAX_CHALLENGES, MAX_SESSIONS} \subseteq Nat \ {0}
  /\ CHALLENGE_TTL <= SESSION_TTL /\ {MaxCount, MaxClock, MaxTokens, MaxOps} \subseteq Nat
  /\ Nil \notin Cred
  /\ \A s \in Stores : /\ s \in [DOMAIN s -> Stored] /\ DOMAIN s \subseteq Cred
                       /\ s # Empty => \E i \in DOMAIN s : s[i].role = "administrator"

VARIABLES
  now,
  disk,        \* credentials.json
  creds,       \* the credentials in memory: id -> [role, counter]
  setup,       \* the setup-token file is there
  challenges,  \* token -> [purpose, expires]
  sessions,    \* token -> [cred, role, expires]
  request,     \* of a client: [at, token, admin, bootstrap, cred, role]
  streams,     \* proxied event streams: [token, opened, until]
  log,         \* history: [op, challenge, cred, count, by] of each ceremony that succeeded;
               \* cred is Nil once a restart has lost what it did
  unsaved,     \* history: ids whose last change did not reach the disk
  tokens, ops  \* tokens given out; bounded counter

vars == <<now, disk, creds, setup, challenges, sessions, request, streams, log, unsaved, tokens, ops>>
stored == <<disk, creds, setup, unsaved>>

NoRequest == [at |-> "idle", token |-> 0, admin |-> FALSE, bootstrap |-> FALSE, cred |-> Nil, role |-> Nil]
Op == ops < MaxOps /\ ops' = ops + 1
Reply(c) == request' = [request EXCEPT ![c] = NoRequest]
Live(t) == t \in DOMAIN sessions /\ sessions[t].expires > now

(* --------------------------- the two maps ----------------------------- *)

\* Both maps drop what has expired and, at their cap, what expires soonest.
InsertLate(map, cap, t, entry) ==
  LET kept == {k \in DOMAIN map : map[k].expires > now} IN
  {[k \in kept \cup {t} |-> IF k = t THEN entry ELSE map[k]]}
Insert(map, cap, t, entry) ==
  LET kept == {k \in DOMAIN map : map[k].expires > now}
      drop == IF Cardinality(kept) >= cap THEN Cardinality(kept) - cap + 1 ELSE 0
  IN  {[k \in (kept \ D) \cup {t} |-> IF k = t THEN entry ELSE map[k]] :
         D \in {X \in kSubset(drop, kept) :
                  \A k \in X, l \in kept \ X : map[k].expires <= map[l].expires}}

\* new_challenge: the options of a ceremony.
NewChallenge(c, purpose) ==
  /\ tokens < MaxTokens /\ tokens' = tokens + 1
  /\ challenges' \in Insert(challenges, MAX_CHALLENGES, tokens',
                            [purpose |-> purpose, expires |-> now + CHALLENGE_TTL])
  /\ Reply(c)
  /\ UNCHANGED <<now, stored, sessions, streams, log, ops>>

\* take_challenge removes the token, whatever its purpose and its age.
TakeKept(tok) == challenges
Take(tok) == Restrict(challenges, DOMAIN challenges \ {tok})
Taken(tok, purpose) ==
  tok \in DOMAIN challenges /\ challenges[tok].purpose = purpose /\ challenges[tok].expires > now

(* ------------------------- the stored credentials --------------------- *)

\* persist writes a file of its own and renames it, or fails and leaves the old one.
Persist(new, id) ==
  \/ disk' = new /\ unsaved' = {} /\ UNCHANGED ops
  \/ UNCHANGED disk /\ unsaved' = unsaved \cup {id} /\ Op

\* Auth::open.
Open ==
  /\ Op
  /\ creds' = disk
  /\ setup' = (disk = Empty)
  /\ challenges' = Empty /\ sessions' = Empty /\ streams' = {}
  /\ request' = [c \in Client |-> NoRequest]
  /\ log' = [k \in DOMAIN log |-> [log[k] EXCEPT !.cred = IF @ \in unsaved THEN Nil ELSE @]]
  /\ unsaved' = {}
  /\ UNCHANGED <<now, disk, tokens>>

(* ----------------------------- ceremonies ----------------------------- *)

\* auth_endpoint up to its await: who is asking is decided here.
Receive(c, t) ==
  /\ request[c].at = "idle"
  /\ request' = [request EXCEPT ![c] = [NoRequest EXCEPT !.at = "body", !.token = t,
       !.admin = Live(t) /\ sessions[t].role = "administrator"]]
  /\ sessions' = IF Live(t) THEN sessions ELSE Restrict(sessions, DOMAIN sessions \ {t})
  /\ UNCHANGED <<now, stored, challenges, streams, log, tokens, ops>>

\* POST /auth/login/options, for anybody.
LoginOptions(c) == request[c].at = "body" /\ NewChallenge(c, "login")

\* May this request register: an administrator's may, and while there is no credential one
\* with the setup token of this process.
Bootstrap == creds = Empty
RegisterOptions(c) ==
  /\ request[c].at = "body" /\ (request[c].admin \/ Bootstrap)
  /\ NewChallenge(c, "register")

\* The check of POST /auth/register, and what it decides of the new role.
RegisterGate(c, role) ==
  /\ request[c].at = "body" /\ (request[c].admin \/ Bootstrap)
  /\ request' = [request EXCEPT ![c] = [@ EXCEPT !.at = "register", !.bootstrap = Bootstrap,
                                          !.role = IF Bootstrap THEN "administrator" ELSE role]]
  /\ UNCHANGED <<now, stored, challenges, sessions, streams, log, tokens, ops>>

\* What register checks again under the lock of the credentials.
StorableUnchecked(r, id) == id \notin DOMAIN creds
Storable(r, id) == (r.bootstrap => creds = Empty) /\ id \notin DOMAIN creds

\* register, after the gate of its handler: a failed persist keeps the credential in memory.
Register(c, tok, id, count) ==
  LET r == request[c]
      new == [i \in DOMAIN creds \cup {id} |->
                IF i = id THEN [role |-> r.role, counter |-> count] ELSE creds[i]]
  IN
  /\ r.at = "register"
  /\ challenges' = Take(tok)
  /\ IF Taken(tok, "register") /\ Storable(r, id)
     THEN /\ creds' = new /\ Persist(new, id)
          /\ setup' = (setup /\ ~(disk' = new /\ Cardinality(DOMAIN new) = 1))
          /\ log' = Append(log, [op |-> "register", challenge |-> tok, cred |-> id, count |-> count,
                                 by |-> IF r.bootstrap THEN "setup" ELSE "administrator"])
     ELSE UNCHANGED <<stored, log, ops>>
  /\ Reply(c)
  /\ UNCHANGED <<now, sessions, streams, tokens>>

\* The count must grow, unless this authenticator has never counted.
RegressedWide(count, counter) == count # 0 /\ count <= counter
Regressed(count, counter) == (count # 0 \/ counter # 0) /\ count <= counter

\* login under the lock of the credentials; verified stands for the WebAuthn checks.
Login(c, tok, id, count, verified) ==
  LET new == [creds EXCEPT ![id].counter = count] IN
  /\ request[c].at = "body"
  /\ challenges' = Take(tok)
  /\ IF /\ Taken(tok, "login") /\ id \in DOMAIN creds /\ verified
        /\ ~Regressed(count, creds[id].counter)
     THEN /\ IF count > creds[id].counter
             THEN creds' = new /\ Persist(new, id)
             ELSE UNCHANGED <<creds, disk, unsaved, ops>>
          /\ log' = Append(log, [op |-> "login", challenge |-> tok, cred |-> id, count |-> count, by |-> "passkey"])
          /\ request' = [request EXCEPT ![c] = [NoRequest EXCEPT !.at = "session",
                           !.cred = id, !.role = creds[id].role]]
     ELSE Reply(c) /\ UNCHANGED <<creds, disk, unsaved, log, ops>>
  /\ UNCHANGED <<now, setup, sessions, streams, tokens>>

\* The rest of login, under the lock of the sessions.
OpenSession(c) ==
  /\ request[c].at = "session" /\ tokens < MaxTokens /\ tokens' = tokens + 1
  /\ sessions' \in Insert(sessions, MAX_SESSIONS, tokens',
       [cred |-> request[c].cred, role |-> request[c].role, expires |-> now + SESSION_TTL])
  /\ Reply(c)
  /\ UNCHANGED <<now, stored, challenges, streams, log, ops>>

\* A body that does not parse, a request that its gate refuses, GET /auth/session and
\* GET /auth/credentials: an answer and no more.
Answer(c) ==
  /\ request[c].at = "body" /\ Reply(c)
  /\ UNCHANGED <<now, stored, challenges, sessions, streams, log, tokens, ops>>

Logout(c) ==
  /\ request[c].at = "body"
  /\ sessions' = Restrict(sessions, DOMAIN sessions \ {request[c].token})
  /\ Reply(c)
  /\ UNCHANGED <<now, stored, challenges, streams, log, tokens, ops>>

\* DELETE /auth/credentials/{id}: remove_credential.  The sessions go with the
\* credential, and both stay gone in memory when the store cannot be written.
LastCredential(id) == DOMAIN creds = {id}
LastAdministrator(id) == {i \in DOMAIN creds : creds[i].role = "administrator"} = {id}

RevokedKept(id) == sessions
Revoked(id) == Restrict(sessions, {t \in DOMAIN sessions : sessions[t].cred # id})
RemoveCredential(c, id) ==
  LET new == Restrict(creds, DOMAIN creds \ {id}) IN
  /\ request[c].at = "body" /\ request[c].admin
  /\ IF id \in DOMAIN creds /\ ~LastAdministrator(id)
     THEN /\ creds' = new /\ Persist(new, id)
          /\ sessions' = Revoked(id)
     ELSE UNCHANGED <<creds, disk, unsaved, sessions, ops>>
  /\ Reply(c)
  /\ UNCHANGED <<now, setup, challenges, streams, log, tokens>>

(* --------------------------- the proxied API -------------------------- *)

\* forward of GET /v1/events: the session is checked once, so the stream is given an end.
SessionLifetime == SESSION_TTL
Lifetime == SSE_MAX_LIFETIME
Proxy(t) ==
  /\ Live(t) /\ Cardinality(streams) < MaxStreams
  /\ streams' = streams \cup {[token |-> t, opened |-> now, until |-> now + Lifetime]}
  /\ UNCHANGED <<now, stored, challenges, sessions, request, log, tokens, ops>>

\* The driver is aborted, or the browser goes away.
EndStream(s) ==
  /\ streams' = streams \ {s}
  /\ UNCHANGED <<now, stored, challenges, sessions, request, log, tokens, ops>>

\* Time passes; the timer of a stream that is over fires before that.
Tick ==
  /\ now < MaxClock /\ now' = now + 1
  /\ \A s \in streams : now < s.until
  /\ UNCHANGED <<stored, challenges, sessions, request, streams, log, tokens, ops>>

Init ==
  /\ now = 0 /\ disk \in Stores /\ creds = disk /\ setup = (disk = Empty)
  /\ challenges = Empty /\ sessions = Empty /\ streams = {}
  /\ request = [c \in Client |-> NoRequest]
  /\ log = <<>> /\ unsaved = {} /\ tokens = 0 /\ ops = 0

\* A token that the console does not know is 0.
Next ==
  \/ \E c \in Client :
       \/ \E t \in DOMAIN sessions \cup {0} : Receive(c, t)
       \/ LoginOptions(c) \/ RegisterOptions(c) \/ OpenSession(c) \/ Answer(c) \/ Logout(c)
       \/ \E role \in Roles : RegisterGate(c, role)
       \/ \E tok \in DOMAIN challenges \cup {0}, id \in Cred, count \in 0..MaxCount :
            \/ Register(c, tok, id, count)
            \/ \E verified \in BOOLEAN : Login(c, tok, id, count, verified)
       \/ \E id \in Cred : RemoveCredential(c, id)
  \/ \E t \in DOMAIN sessions : Proxy(t)
  \/ \E s \in streams : EndStream(s)
  \/ Open \/ Tick

Spec == Init /\ [][Next]_vars

(* ----------------------------- properties ----------------------------- *)

\* The types of the credential file, the memory and the clock; challenges and sessions
\* stay within their caps and never share a token.
TypeOK ==
  /\ now \in 0..MaxClock /\ tokens \in 0..MaxTokens /\ ops \in 0..MaxOps
  /\ \A s \in {disk, creds} : DOMAIN s \subseteq Cred /\ \A i \in DOMAIN s : s[i] \in Stored
  /\ setup \in BOOLEAN /\ unsaved \subseteq Cred
  /\ Cardinality(DOMAIN challenges) <= MAX_CHALLENGES
  /\ Cardinality(DOMAIN sessions) <= MAX_SESSIONS
  /\ DOMAIN challenges \cap DOMAIN sessions = {}
  /\ DOMAIN challenges \cup DOMAIN sessions \subseteq 1..tokens

\* Nobody is locked out of the console: while there is no credential the setup token is
\* on disk, and from then on an administrator's credential is stored, after any
\* order of registrations, removals, failed writes and restarts.
NotLockedOut ==
  /\ creds = Empty => setup
  /\ creds # Empty => \E i \in DOMAIN creds : creds[i].role = "administrator"

\* "One setup token yields exactly one administrator": of requests that race through
\* the check of an empty store only one registers; the others' credentials come from
\* a request that was an administrator's when it was received.
OneBootstrap ==
  Len(log') > Len(log) /\ log'[Len(log')].by = "setup" => creds = Empty

\* A challenge serves one ceremony of the kind it was made for.
ChallengeServesOnce ==
  \A j, k \in DOMAIN log : j # k => log[j].challenge # log[k].challenge

\* The counts of the logins that a credential was admitted with grow, but for
\* authenticators that never count, over restarts too, unless the store could not be
\* written: what a copy of the key reports later is refused.
CountsGrow ==
  \A j, k \in DOMAIN log :
    /\ j < k /\ log[j].cred = log[k].cred /\ log[k].cred # Nil /\ log[k].op = "login"
    /\ \A i \in j+1..k : log[i].cred = log[j].cred => log[i].op = "login"
    => log[k].count > log[j].count \/ (log[k].count = 0 /\ log[j].count = 0)

\* A session is one of a stored credential, and has its role: "removing a lost
\* passkey must not leave its sessions valid".  The one that can be left is the
\* session of a login that had let go of the credentials when the passkey was removed.
RevokedWithCredential ==
  \A t \in DOMAIN sessions' :
    LET kept(S, C) == S[t].cred \in DOMAIN C /\ S[t].role = C[S[t].cred].role IN
    \/ kept(sessions', creds')
    \/ t \in DOMAIN sessions /\ ~kept(sessions, creds)
    \/ t = tokens' /\ t \notin DOMAIN sessions

\* An event stream whose session is gone is over within SSE_MAX_LIFETIME of the check
\* that admitted it.
StreamsEnd ==
  \A s \in streams : s.token \notin DOMAIN sessions => now - s.opened <= SSE_MAX_LIFETIME

\* What a sign-in leaves behind cannot be used again or for longer: challenges serve
\* once, counts grow, and streams end with their sessions.
NothingReused == TypeOK /\ ChallengeServesOnce /\ CountsGrow /\ StreamsEnd

\* The stored credentials decide who has a session and who may register first, through
\* every overlap of requests: sessions go with their credential, and the set-up token
\* yields one administrator.
CredentialsDecide == [][OneBootstrap /\ RevokedWithCredential]_vars
=============================================================================
