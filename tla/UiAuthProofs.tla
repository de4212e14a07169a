---------------------------- MODULE UiAuthProofs ----------------------------
(***************************************************************************)
(* The passkey gate of the console, for any credentials, requests, stores, *)
(* caps and lifetimes, with failed writes and restarts: nobody is locked   *)
(* out, nothing that a sign-in leaves behind is used again, and the stored *)
(* credentials decide who has a session.                                   *)
(***************************************************************************)
EXTENDS UiAuth, FiniteSetTheorems, TLAPS

\* The prover of a step that names none, and its seconds.
USE ZenonT(60)

Fields == {"at", "token", "admin", "bootstrap", "cred", "role"}
LogEntry == [op : {"register", "login"}, challenge : Nat, cred : Cred \cup {Nil}, count : Nat,
             by : {"setup", "administrator", "passkey"}]

LEMMA Facts ==
  /\ SESSION_TTL \in Nat /\ CHALLENGE_TTL \in Nat /\ SSE_MAX_LIFETIME \in Nat
  /\ MAX_CHALLENGES \in Nat \ {0} /\ MAX_SESSIONS \in Nat \ {0}
  /\ MaxCount \in Nat /\ MaxClock \in Nat /\ MaxTokens \in Nat /\ MaxOps \in Nat
  /\ Nil \notin Cred
BY UiAuthAssumption

(* --------------------------- the credentials --------------------------- *)

\* A store of the right type with an administrator, if with anybody.
Good(s) ==
  /\ s \in [DOMAIN s -> Stored] /\ DOMAIN s \subseteq Cred
  /\ s # Empty => \E i \in DOMAIN s : s[i].role = "administrator"

\* The file and the memory agree but for the ids whose last change did not reach the file.
SameBut(s, u, ids) ==
  \A i \in Cred \ ids : (i \in DOMAIN s <=> i \in DOMAIN u) /\ (i \in DOMAIN s => s[i] = u[i])

StoreInv ==
  /\ Good(creds) /\ Good(disk) /\ SameBut(disk, creds, unsaved)
  /\ unsaved \subseteq Cred /\ setup \in BOOLEAN /\ ops \in 0..MaxOps
  /\ creds = Empty => setup

\* A registration past its gate has the role that the gate gave it, and one that was not
\* let in by the set-up token finds somebody registered.
RequestInv ==
  /\ DOMAIN request = Client
  /\ \A c \in Client : DOMAIN request[c] = Fields
  /\ \A c \in Client : request[c].at = "register" =>
       /\ request[c].role \in Roles
       /\ request[c].bootstrap => request[c].role = "administrator"
       /\ creds = Empty => request[c].bootstrap

LEMMA EmptyStore ==
  ASSUME NEW s, s \in [DOMAIN s -> Stored]
  PROVE  s = Empty <=> DOMAIN s = {}
BY DEF Empty

\* persist, or its failure.
LEMMA PersistFacts ==
  ASSUME StoreInv, NEW id \in Cred, NEW new, Good(new), SameBut(new, creds, {id}), Persist(new, id)
  PROVE  /\ Good(disk') /\ SameBut(disk', new, unsaved') /\ unsaved' \subseteq Cred /\ ops' \in 0..MaxOps
<1>1. CASE disk' = new /\ unsaved' = {} /\ UNCHANGED ops
  BY <1>1 DEF StoreInv, SameBut
<1>2. CASE UNCHANGED disk /\ unsaved' = unsaved \cup {id} /\ Op
  <2>1. ops' \in 0..MaxOps
    BY <1>2, Facts, SMTT(30) DEF Op, StoreInv
  <2>2. SameBut(disk', new, unsaved')
    BY <1>2 DEF StoreInv, SameBut
  <2> QED
    BY <1>2, <2>1, <2>2 DEF StoreInv
<1> QED
  BY <1>1, <1>2 DEF Persist

\* The three ways to change the credentials in memory.
LEMMA RegisteredGood ==
  ASSUME StoreInv, NEW id \in Cred, id \notin DOMAIN creds, NEW role \in Roles, NEW count \in 0..MaxCount,
         creds = Empty => role = "administrator", NEW new,
         new = [i \in DOMAIN creds \cup {id} |->
                  IF i = id THEN [role |-> role, counter |-> count] ELSE creds[i]]
  PROVE  Good(new) /\ SameBut(new, creds, {id}) /\ id \in DOMAIN new /\ new # Empty
<1> DEFINE e == [role |-> role, counter |-> count]
<1>1. e \in Stored /\ e.role = role
  BY DEF Stored
<1> HIDE DEF e
<1>2. /\ DOMAIN new = DOMAIN creds \cup {id} /\ new[id] = e
      /\ \A i \in DOMAIN creds : new[i] = creds[i]
  BY DEF e
<1>3. new \in [DOMAIN new -> Stored] /\ DOMAIN new \subseteq Cred /\ SameBut(new, creds, {id})
  BY <1>1, <1>2 DEF StoreInv, Good, SameBut, e
<1>4. \E i \in DOMAIN new : new[i].role = "administrator"
  BY <1>1, <1>2 DEF StoreInv, Good
<1>5. new # Empty
  BY <1>2, <1>3, EmptyStore
<1> QED
  BY <1>2, <1>3, <1>4, <1>5 DEF Good

LEMMA CountedGood ==
  ASSUME StoreInv, NEW id \in DOMAIN creds, NEW count \in 0..MaxCount, NEW new,
         new = [creds EXCEPT ![id].counter = count]
  PROVE  /\ Good(new) /\ SameBut(new, creds, {id}) /\ DOMAIN new = DOMAIN creds /\ new # Empty
         /\ new[id].counter = count /\ \A i \in DOMAIN creds : new[i].role = creds[i].role
<1> DEFINE e == [creds[id] EXCEPT !.counter = count]
<1>1. new = [creds EXCEPT ![id] = e] /\ creds[id] \in Stored
  BY DEF StoreInv, Good
<1>2. e \in Stored /\ e.role = creds[id].role /\ e.counter = count
  BY <1>1 DEF Stored
<1> HIDE DEF e
<1>3. /\ DOMAIN new = DOMAIN creds /\ new[id] = e
      /\ \A i \in DOMAIN creds : i # id => new[i] = creds[i]
  BY <1>1 DEF StoreInv, Good
<1>4. new \in [DOMAIN new -> Stored] /\ DOMAIN new \subseteq Cred /\ SameBut(new, creds, {id})
  BY <1>1, <1>2, <1>3 DEF StoreInv, Good, SameBut
<1>5. \A i \in DOMAIN creds : new[i].role = creds[i].role
  BY <1>2, <1>3
<1>6. new # Empty /\ creds # Empty
  BY <1>3, <1>4, EmptyStore DEF StoreInv, Good
<1>7. \E i \in DOMAIN new : new[i].role = "administrator"
  BY <1>3, <1>5, <1>6 DEF StoreInv, Good
<1> QED
  BY <1>2, <1>3, <1>4, <1>5, <1>6, <1>7 DEF Good

LEMMA RemovedGood ==
  ASSUME StoreInv, NEW id \in DOMAIN creds, ~LastAdministrator(id), NEW new,
         new = Restrict(creds, DOMAIN creds \ {id})
  PROVE  /\ Good(new) /\ SameBut(new, creds, {id}) /\ DOMAIN new = DOMAIN creds \ {id} /\ new # Empty
         /\ \A i \in DOMAIN new : new[i] = creds[i]
<1>1. DOMAIN new = DOMAIN creds \ {id} /\ \A i \in DOMAIN new : new[i] = creds[i]
  BY DEF Restrict
<1>2. new \in [DOMAIN new -> Stored] /\ DOMAIN new \subseteq Cred /\ SameBut(new, creds, {id})
  BY <1>1 DEF StoreInv, Good, SameBut, Restrict
<1>3. creds # Empty
  BY EmptyStore DEF StoreInv, Good
<1>4. \E i \in DOMAIN new : new[i].role = "administrator"
  BY <1>1, <1>3 DEF StoreInv, Good, LastAdministrator
<1>5. new # Empty
  BY <1>2, <1>4, EmptyStore
<1> QED
  BY <1>1, <1>2, <1>4, <1>5 DEF Good

\* A request that goes elsewhere than to register.
LEMMA ElsewhereRequest ==
  ASSUME RequestInv, NEW c \in Client, NEW r, DOMAIN r = Fields, r.at # "register",
         request' = [request EXCEPT ![c] = r], creds' = Empty => creds = Empty
  PROVE  RequestInv'
<1>1. /\ DOMAIN request' = Client /\ request'[c] = r
      /\ \A d \in Client : d # c => request'[d] = request[d]
  BY DEF RequestInv
<1> QED
  BY <1>1 DEF RequestInv

LEMMA ReplyRequest ==
  ASSUME RequestInv, NEW c \in Client, Reply(c), creds' = Empty => creds = Empty
  PROVE  RequestInv'
<1>1. DOMAIN NoRequest = Fields /\ NoRequest.at # "register"
  BY DEF NoRequest, Fields
<1> QED
  BY <1>1, ElsewhereRequest DEF Reply

StoreReq == StoreInv /\ RequestInv

LEMMA RegisterStore ==
  ASSUME StoreReq, NEW c \in Client, NEW tok, NEW id \in Cred, NEW count \in 0..MaxCount,
         Register(c, tok, id, count)
  PROVE  StoreReq'
<1> USE DEF StoreReq
<1> DEFINE r == request[c]
           new == [i \in DOMAIN creds \cup {id} |->
                     IF i = id THEN [role |-> r.role, counter |-> count] ELSE creds[i]]
<1>0. r.at = "register" /\ Reply(c)
  BY DEF Register
<1>1. CASE UNCHANGED <<stored, ops>>
  <2>1. UNCHANGED <<disk, creds, setup, unsaved, ops>>
    BY <1>1 DEF stored
  <2>2. StoreInv'
    BY <2>1 DEF StoreInv, Good, SameBut
  <2> QED
    BY <1>0, <2>1, <2>2, ReplyRequest
<1>2. CASE /\ Storable(r, id) /\ creds' = new /\ Persist(new, id)
           /\ setup' = (setup /\ ~(disk' = new /\ Cardinality(DOMAIN new) = 1))
  <2>1. r.role \in Roles /\ (creds = Empty => r.role = "administrator") /\ id \notin DOMAIN creds
    BY <1>0, <1>2 DEF RequestInv, Storable
  <2>2. Good(new) /\ SameBut(new, creds, {id}) /\ id \in DOMAIN new /\ new # Empty
    BY <2>1, RegisteredGood
  <2> HIDE DEF new
  <2>3. /\ Good(disk') /\ SameBut(disk', new, unsaved') /\ unsaved' \subseteq Cred /\ ops' \in 0..MaxOps
    BY <1>2, <2>2, PersistFacts
  <2>4. setup' \in BOOLEAN
    BY <1>2
  <2>5. StoreInv'
    BY <1>2, <2>2, <2>3, <2>4 DEF StoreInv
  <2> QED
    BY <1>0, <1>2, <2>2, <2>5, ReplyRequest
<1> QED
  BY <1>1, <1>2 DEF Register

LEMMA LoginStore ==
  ASSUME StoreReq, NEW c \in Client, NEW tok, NEW id \in Cred, NEW count \in 0..MaxCount,
         NEW verified \in BOOLEAN, Login(c, tok, id, count, verified)
  PROVE  StoreReq'
<1> USE DEF StoreReq
<1> DEFINE new == [creds EXCEPT ![id].counter = count]
           open == [NoRequest EXCEPT !.at = "session", !.cred = id, !.role = creds[id].role]
<1>0. /\ setup' = setup
      /\ \/ Reply(c) /\ UNCHANGED <<creds, disk, unsaved, ops>>
         \/ /\ id \in DOMAIN creds /\ request' = [request EXCEPT ![c] = open]
            /\ \/ creds' = new /\ Persist(new, id)
               \/ UNCHANGED <<creds, disk, unsaved, ops>>
  BY DEF Login
<1>1. DOMAIN open = Fields /\ open.at # "register"
  BY DEF NoRequest, Fields
<1> HIDE DEF open
<1>2. ASSUME creds' = Empty => creds = Empty PROVE RequestInv'
  BY <1>0, <1>1, <1>2, ElsewhereRequest, ReplyRequest
<1>3. CASE UNCHANGED <<creds, disk, unsaved, ops>>
  <2>1. StoreInv'
    BY <1>0, <1>3 DEF StoreInv, Good, SameBut
  <2> QED
    BY <1>2, <1>3, <2>1
<1>4. CASE id \in DOMAIN creds /\ creds' = new /\ Persist(new, id)
  <2>1. Good(new) /\ SameBut(new, creds, {id}) /\ new # Empty
    BY <1>4, CountedGood
  <2> HIDE DEF new
  <2>2. /\ Good(disk') /\ SameBut(disk', new, unsaved') /\ unsaved' \subseteq Cred /\ ops' \in 0..MaxOps
    BY <1>4, <2>1, PersistFacts
  <2>3. StoreInv'
    BY <1>0, <1>4, <2>1, <2>2 DEF StoreInv
  <2> QED
    BY <1>2, <1>4, <2>1, <2>3
<1> QED
  BY <1>0, <1>3, <1>4

LEMMA RemoveStore ==
  ASSUME StoreReq, NEW c \in Client, NEW id \in Cred, RemoveCredential(c, id)
  PROVE  StoreReq'
<1> USE DEF StoreReq
<1> DEFINE new == Restrict(creds, DOMAIN creds \ {id})
<1>0. setup' = setup /\ Reply(c)
  BY DEF RemoveCredential
<1>1. CASE UNCHANGED <<creds, disk, unsaved, ops>>
  <2>1. StoreInv'
    BY <1>0, <1>1 DEF StoreInv, Good, SameBut
  <2> QED
    BY <1>0, <1>1, <2>1, ReplyRequest
<1>2. CASE id \in DOMAIN creds /\ ~LastAdministrator(id) /\ creds' = new /\ Persist(new, id)
  <2>1. Good(new) /\ SameBut(new, creds, {id}) /\ new # Empty
    BY <1>2, RemovedGood
  <2> HIDE DEF new
  <2>2. /\ Good(disk') /\ SameBut(disk', new, unsaved') /\ unsaved' \subseteq Cred /\ ops' \in 0..MaxOps
    BY <1>2, <2>1, PersistFacts
  <2>3. StoreInv'
    BY <1>0, <1>2, <2>1, <2>2 DEF StoreInv
  <2> QED
    BY <1>0, <1>2, <2>1, <2>3, ReplyRequest
<1> QED
  BY <1>1, <1>2 DEF RemoveCredential

LEMMA StoreStep ==
  ASSUME StoreReq, [Next]_vars
  PROVE  StoreReq'
<1>0. ASSUME UNCHANGED <<stored, ops>> PROVE StoreInv' /\ (creds' = Empty => creds = Empty)
  BY <1>0 DEF StoreReq, StoreInv, Good, SameBut, stored
<1>1. ASSUME NEW c \in Client, NEW t, Receive(c, t) PROVE StoreReq'
  <2> DEFINE r == [NoRequest EXCEPT !.at = "body", !.token = t,
                     !.admin = Live(t) /\ sessions[t].role = "administrator"]
  <2>1. request' = [request EXCEPT ![c] = r] /\ UNCHANGED <<stored, ops>>
    BY <1>1 DEF Receive
  <2>2. DOMAIN r = Fields /\ r.at # "register"
    BY DEF NoRequest, Fields
  <2> HIDE DEF r
  <2> QED
    BY <1>0, <2>1, <2>2, ElsewhereRequest DEF StoreReq
<1>2. ASSUME NEW c \in Client,
             LoginOptions(c) \/ RegisterOptions(c) \/ OpenSession(c) \/ Answer(c) \/ Logout(c)
      PROVE  StoreReq'
  <2>1. Reply(c) /\ UNCHANGED <<stored, ops>>
    BY <1>2 DEF LoginOptions, RegisterOptions, OpenSession, Answer, Logout, NewChallenge
  <2> QED
    BY <1>0, <2>1, ReplyRequest DEF StoreReq
<1>3. ASSUME NEW c \in Client, NEW role \in Roles, RegisterGate(c, role) PROVE StoreReq'
  <2> DEFINE r == [request[c] EXCEPT !.at = "register", !.bootstrap = Bootstrap,
                     !.role = IF Bootstrap THEN "administrator" ELSE role]
  <2>1. request' = [request EXCEPT ![c] = r] /\ UNCHANGED <<stored, ops>> /\ creds' = creds
    BY <1>3 DEF RegisterGate, stored
  <2>2. DOMAIN r = Fields /\ r.role = IF Bootstrap THEN "administrator" ELSE role
    BY DEF StoreReq, RequestInv, Fields
  <2>3. r.bootstrap = Bootstrap
    BY DEF StoreReq, RequestInv, Fields
  <2> HIDE DEF r
  <2>4. /\ DOMAIN request' = Client /\ request'[c] = r
        /\ \A d \in Client : d # c => request'[d] = request[d]
    BY <2>1 DEF StoreReq, RequestInv
  <2>5. /\ r.role \in Roles /\ (r.bootstrap => r.role = "administrator")
        /\ (creds = Empty => r.bootstrap)
    BY <2>2, <2>3 DEF Roles, Bootstrap
  <2>6. RequestInv'
    BY <2>1, <2>2, <2>4, <2>5 DEF StoreReq, RequestInv
  <2> QED
    BY <1>0, <2>1, <2>6 DEF StoreReq
<1>4. CASE Open
  <2>1. /\ creds' = disk /\ disk' = disk /\ setup' = (disk = Empty) /\ unsaved' = {}
        /\ request' = [c \in Client |-> NoRequest] /\ Op
    BY <1>4 DEF Open
  <2>2. StoreInv'
    <3>1. ops' \in 0..MaxOps
      BY <2>1, Facts, SMTT(30) DEF Op, StoreReq, StoreInv
    <3>2. setup' \in BOOLEAN /\ (creds' = Empty => setup')
      BY <2>1
    <3> QED
      BY <2>1, <3>1, <3>2 DEF StoreReq, StoreInv, SameBut
  <2>3. DOMAIN NoRequest = Fields /\ NoRequest.at # "register"
    BY DEF NoRequest, Fields
  <2>4. RequestInv'
    BY <2>1, <2>3 DEF RequestInv
  <2> QED
    BY <2>2, <2>4 DEF StoreReq
<1>5. ASSUME (\E t \in DOMAIN sessions : Proxy(t)) \/ (\E s \in streams : EndStream(s)) \/ Tick \/ UNCHANGED vars
      PROVE  StoreReq'
  <2>1. UNCHANGED <<stored, ops>> /\ request' = request /\ creds' = creds
    BY <1>5 DEF Proxy, EndStream, Tick, vars, stored
  <2> QED
    BY <1>0, <2>1 DEF StoreReq, RequestInv
<1> QED
  BY <1>1, <1>2, <1>3, <1>4, <1>5, RegisterStore, LoginStore, RemoveStore DEF Next

(* ------------------ challenges, sessions and streams ------------------- *)

MapInv ==
  /\ now \in 0..MaxClock /\ tokens \in 0..MaxTokens
  /\ DOMAIN challenges \subseteq 1..tokens /\ DOMAIN sessions \subseteq 1..tokens
  /\ DOMAIN challenges \cap DOMAIN sessions = {}
  /\ Cardinality(DOMAIN challenges) <= MAX_CHALLENGES
  /\ Cardinality(DOMAIN sessions) <= MAX_SESSIONS
  /\ \A s \in streams : s.opened \in Nat /\ s.until = s.opened + SSE_MAX_LIFETIME /\ now <= s.until

LEMMA FiniteTokens ==
  ASSUME NEW n \in Nat, NEW S \in SUBSET (1..n), NEW R \in SUBSET S
  PROVE  IsFiniteSet(S) /\ Cardinality(S) \in Nat /\ Cardinality(R) \in Nat /\ Cardinality(R) <= Cardinality(S)
<1>1. IsFiniteSet(1..n)
  BY FS_Interval, SMTT(30)
<1>2. IsFiniteSet(S) /\ IsFiniteSet(R)
  BY <1>1, FS_Subset
<1> QED
  BY <1>2, FS_Subset, FS_CardinalityType

\* What expired goes, and at the cap enough of the rest for one more.
LEMMA InsertFacts ==
  ASSUME NEW n \in Nat, NEW map, DOMAIN map \subseteq 1..n, NEW cap \in Nat \ {0}, NEW entry,
         NEW new \in Insert(map, cap, n + 1, entry)
  PROVE  /\ DOMAIN new \subseteq DOMAIN map \cup {n + 1} /\ Cardinality(DOMAIN new) <= cap
         /\ \A k \in DOMAIN new : k # n + 1 => k \in DOMAIN map /\ new[k] = map[k]
<1> DEFINE kept == {k \in DOMAIN map : map[k].expires > now}
           drop == IF Cardinality(kept) >= cap THEN Cardinality(kept) - cap + 1 ELSE 0
<1>1. PICK D \in kSubset(drop, kept) :
        new = [k \in (kept \ D) \cup {n + 1} |-> IF k = n + 1 THEN entry ELSE map[k]]
  BY DEF Insert
<1>2. D \subseteq kept /\ Cardinality(D) = drop
  BY <1>1 DEF kSubset
<1>3. kept \subseteq DOMAIN map
  OBVIOUS
<1> HIDE DEF kept
<1>4. /\ DOMAIN new = (kept \ D) \cup {n + 1} /\ \A k \in DOMAIN new : k # n + 1 => new[k] = map[k]
  BY <1>1
<1>5. IsFiniteSet(kept) /\ Cardinality(kept) \in Nat
  BY <1>3, FiniteTokens
<1>6. IsFiniteSet(kept \ D) /\ Cardinality(kept \ D) = Cardinality(kept) - Cardinality(D)
  <2>1. kept \cap D = D
    BY <1>2
  <2> QED
    BY <1>5, <2>1, FS_Difference
<1>7. n + 1 \notin kept \ D
  BY <1>3, SMTT(30)
<1>8. Cardinality((kept \ D) \cup {n + 1}) = Cardinality(kept \ D) + 1
  BY <1>6, <1>7, FS_AddElement
<1>9. Cardinality(kept \ D) + 1 <= cap
  BY <1>2, <1>5, <1>6, SMTT(30)
<1> QED
  BY <1>3, <1>4, <1>8, <1>9

\* Steps that give out no token and do not move the clock.
LEMMA FewerTokens ==
  ASSUME MapInv, UNCHANGED <<now, tokens>>, DOMAIN challenges' \subseteq DOMAIN challenges,
         DOMAIN sessions' \subseteq DOMAIN sessions, streams' \subseteq streams
  PROVE  MapInv'
<1>1. tokens \in Nat
  BY Facts, SMTT(30) DEF MapInv
<1>2. /\ Cardinality(DOMAIN challenges') <= Cardinality(DOMAIN challenges)
      /\ Cardinality(DOMAIN sessions') <= Cardinality(DOMAIN sessions)
      /\ Cardinality(DOMAIN challenges') \in Nat /\ Cardinality(DOMAIN challenges) \in Nat
      /\ Cardinality(DOMAIN sessions') \in Nat /\ Cardinality(DOMAIN sessions) \in Nat
  BY <1>1, FiniteTokens DEF MapInv
<1>3. /\ Cardinality(DOMAIN challenges') <= MAX_CHALLENGES
      /\ Cardinality(DOMAIN sessions') <= MAX_SESSIONS
  BY <1>2, Facts, SMTT(30) DEF MapInv
<1> QED
  BY <1>3 DEF MapInv

LEMMA MapStep ==
  ASSUME MapInv, [Next]_vars
  PROVE  MapInv'
<1>0. tokens \in Nat /\ now \in Nat
  BY Facts, SMTT(30) DEF MapInv
<1>1. ASSUME NEW c \in Client, NEW purpose, NewChallenge(c, purpose) PROVE MapInv'
  <2>1. /\ tokens < MaxTokens /\ tokens' = tokens + 1 /\ UNCHANGED <<now, sessions, streams>>
        /\ challenges' \in Insert(challenges, MAX_CHALLENGES, tokens + 1,
                                  [purpose |-> purpose, expires |-> now + CHALLENGE_TTL])
    BY <1>1 DEF NewChallenge
  <2>2. /\ DOMAIN challenges' \subseteq DOMAIN challenges \cup {tokens + 1}
        /\ Cardinality(DOMAIN challenges') <= MAX_CHALLENGES
    BY <1>0, <2>1, Facts, InsertFacts, SMTT(30) DEF MapInv
  <2> QED
    BY <1>0, <2>1, <2>2, Facts, SMTT(30) DEF MapInv
<1>2. ASSUME NEW c \in Client, OpenSession(c) PROVE MapInv'
  <2>1. /\ tokens < MaxTokens /\ tokens' = tokens + 1 /\ UNCHANGED <<now, challenges, streams>>
        /\ sessions' \in Insert(sessions, MAX_SESSIONS, tokens + 1,
             [cred |-> request[c].cred, role |-> request[c].role, expires |-> now + SESSION_TTL])
    BY <1>2 DEF OpenSession
  <2>2. /\ DOMAIN sessions' \subseteq DOMAIN sessions \cup {tokens + 1}
        /\ Cardinality(DOMAIN sessions') <= MAX_SESSIONS
    BY <1>0, <2>1, Facts, InsertFacts, SMTT(30) DEF MapInv
  <2> QED
    BY <1>0, <2>1, <2>2, Facts, SMTT(30) DEF MapInv
<1>3. ASSUME NEW c \in Client,
             \/ \E t : Receive(c, t)
             \/ Answer(c) \/ Logout(c) \/ (\E role : RegisterGate(c, role))
             \/ \E tok, id, count : Register(c, tok, id, count)
             \/ \E tok, id, count, verified : Login(c, tok, id, count, verified)
             \/ \E id : RemoveCredential(c, id)
      PROVE  MapInv'
  <2>1. UNCHANGED <<now, tokens, streams>>
    BY <1>3 DEF Receive, Answer, Logout, RegisterGate, Register, Login, RemoveCredential
  <2>2. DOMAIN challenges' \subseteq DOMAIN challenges
    BY <1>3 DEF Receive, Answer, Logout, RegisterGate, Register, Login, RemoveCredential, Take, Restrict
  <2>3. DOMAIN sessions' \subseteq DOMAIN sessions
    BY <1>3 DEF Receive, Answer, Logout, RegisterGate, Register, Login, RemoveCredential, Revoked, Restrict
  <2> QED
    BY <2>1, <2>2, <2>3, FewerTokens
<1>4. CASE Open
  <2>1. UNCHANGED <<now, tokens>> /\ DOMAIN challenges' = {} /\ DOMAIN sessions' = {} /\ streams' = {}
    BY <1>4 DEF Open, Empty
  <2> QED
    BY <2>1, FewerTokens
<1>5. ASSUME NEW t \in DOMAIN sessions, Proxy(t) PROVE MapInv'
  <2> DEFINE new == [token |-> t, opened |-> now, until |-> now + Lifetime]
  <2>1. UNCHANGED <<now, tokens, challenges, sessions>> /\ streams' = streams \cup {new}
    BY <1>5 DEF Proxy
  <2>2. new.opened \in Nat /\ new.until = new.opened + SSE_MAX_LIFETIME /\ now <= new.until
    BY <1>0, Facts, SMTT(30) DEF Lifetime
  <2> HIDE DEF new
  <2> QED
    BY <2>1, <2>2 DEF MapInv
<1>6. ASSUME NEW s \in streams, EndStream(s) PROVE MapInv'
  BY <1>6, FewerTokens DEF EndStream
<1>7. CASE Tick
  <2>1. /\ UNCHANGED <<tokens, challenges, sessions, streams>> /\ now < MaxClock /\ now' = now + 1
        /\ \A s \in streams : now < s.until
    BY <1>7 DEF Tick
  <2>2. \A s \in streams : s.until \in Nat /\ now' <= s.until
    BY <1>0, <2>1, Facts, SMTT(30) DEF MapInv
  <2>3. now' \in 0..MaxClock
    BY <1>0, <2>1, Facts, SMTT(30)
  <2> QED
    BY <2>1, <2>2, <2>3 DEF MapInv
<1>8. CASE UNCHANGED vars
  BY <1>8, FewerTokens DEF vars
<1> QED
  BY <1>1, <1>2, <1>3, <1>4, <1>5, <1>6, <1>7, <1>8 DEF Next, LoginOptions, RegisterOptions

(* ------------------------ the log of ceremonies ------------------------ *)

\* No registration of its credential has followed an entry.
Current(lg, j) == \A i \in 1..Len(lg) : i > j /\ lg[i].cred = lg[j].cred => lg[i].op = "login"

\* Every challenge of the log is used up, and the counter of a credential is at least
\* every count that it was admitted with since it was registered.
LogGood(lg, cr, ch, tk) ==
  /\ lg \in Seq(LogEntry) /\ tk \in Nat
  /\ \A k \in 1..Len(lg) : lg[k].challenge \in 1..tk /\ lg[k].challenge \notin ch
  /\ \A j, k \in 1..Len(lg) : j # k => lg[j].challenge # lg[k].challenge
  /\ \A j \in 1..Len(lg) :
       Current(lg, j) /\ lg[j].cred \in DOMAIN cr => lg[j].count <= cr[lg[j].cred].counter
  /\ \A j, k \in 1..Len(lg) :
       /\ j < k /\ lg[j].cred = lg[k].cred /\ lg[k].cred # Nil /\ lg[k].op = "login"
       /\ \A i \in j+1..k : lg[i].cred = lg[j].cred => lg[i].op = "login"
       => lg[k].count > lg[j].count \/ (lg[k].count = 0 /\ lg[j].count = 0)

LogInv == LogGood(log, creds, DOMAIN challenges, tokens)

LEMMA EntryFields ==
  ASSUME NEW lg \in Seq(LogEntry), NEW k \in 1..Len(lg)
  PROVE  /\ lg[k] \in LogEntry /\ lg[k].challenge \in Nat /\ lg[k].count \in Nat
         /\ lg[k].op \in {"register", "login"} /\ lg[k].cred \in Cred \cup {Nil}
<1>1. lg[k] \in LogEntry
  BY SMTT(30)
<1> QED
  BY <1>1 DEF LogEntry

\* No ceremony: tokens are used up or newly given out, credentials go.
LEMMA NoCeremony ==
  ASSUME NEW lg, NEW cr, NEW ch, NEW tk, LogGood(lg, cr, ch, tk), NEW cr2, NEW ch2, NEW tk2 \in Nat,
         \A i \in DOMAIN cr2 : i \in DOMAIN cr /\ cr2[i] = cr[i],
         tk <= tk2, \A t \in ch2 : t \in ch \/ t > tk
  PROVE  LogGood(lg, cr2, ch2, tk2)
<1>1. \A k \in 1..Len(lg) : lg[k].challenge \in 1..tk2 /\ lg[k].challenge \notin ch2
  <2> SUFFICES ASSUME NEW k \in 1..Len(lg) PROVE lg[k].challenge \in 1..tk2 /\ lg[k].challenge \notin ch2
    OBVIOUS
  <2>1. lg[k].challenge \in 1..tk /\ lg[k].challenge \notin ch /\ tk \in Nat
    BY DEF LogGood
  <2> QED
    BY <2>1, SMTT(30)
<1>2. \A j \in 1..Len(lg) :
        Current(lg, j) /\ lg[j].cred \in DOMAIN cr2 => lg[j].count <= cr2[lg[j].cred].counter
  BY DEF LogGood
<1> QED
  BY <1>1, <1>2 DEF LogGood

\* A ceremony that succeeds: a registration, or a login whose count has not regressed.
LEMMA Ceremony ==
  ASSUME NEW lg, NEW cr, NEW ch, NEW tk, LogGood(lg, cr, ch, tk), NEW cr2, NEW e \in LogEntry,
         e.challenge \in ch, ch \subseteq 1..tk, e.cred \in Cred, e.count <= cr2[e.cred].counter,
         \A i \in DOMAIN cr2 : i # e.cred => i \in DOMAIN cr /\ cr2[i] = cr[i],
         e.op = "login" => /\ e.cred \in DOMAIN cr
                           /\ cr2[e.cred].counter \in Nat /\ cr[e.cred].counter \in Nat
                           /\ cr2[e.cred].counter >= cr[e.cred].counter
                           /\ \/ e.count > cr[e.cred].counter
                              \/ e.count = 0 /\ cr[e.cred].counter = 0
  PROVE  LogGood(Append(lg, e), cr2, ch \ {e.challenge}, tk)
<1> DEFINE n == Len(lg)
           new == Append(lg, e)
<1>0. /\ n \in Nat /\ lg \in Seq(LogEntry) /\ tk \in Nat /\ e.op \in {"register", "login"}
      /\ e.count \in Nat /\ e.challenge \in Nat
  BY SMTT(30) DEF LogGood, LogEntry
<1>1. new \in Seq(LogEntry) /\ Len(new) = n + 1 /\ new[n + 1] = e /\ \A k \in 1..n : new[k] = lg[k]
  BY <1>0, SMTT(30)
<1> HIDE DEF n, new
<1>2. \A k \in 1..(n + 1) : k = n + 1 \/ k \in 1..n
  BY <1>0, SMTT(30)
<1>3. \A k \in 1..n : /\ lg[k].challenge \in 1..tk /\ lg[k].challenge \notin ch /\ lg[k].count \in Nat
                      /\ lg[k].challenge # e.challenge
  BY <1>0, EntryFields DEF LogGood, n
<1>4. \A k \in 1..Len(new) : new[k].challenge \in 1..tk /\ new[k].challenge \notin ch \ {e.challenge}
  BY <1>1, <1>2, <1>3
<1>5. \A j, k \in 1..Len(new) : j # k => new[j].challenge # new[k].challenge
  <2> SUFFICES ASSUME NEW j \in 1..(n + 1), NEW k \in 1..(n + 1), j # k
               PROVE  new[j].challenge # new[k].challenge
    BY <1>1
  <2>1. CASE j \in 1..n /\ k \in 1..n
    BY <1>1, <2>1 DEF LogGood, n
  <2>2. CASE j = n + 1 \/ k = n + 1
    BY <1>1, <1>2, <1>3, <2>2
  <2> QED
    BY <1>2, <2>1, <2>2
<1>6. ASSUME NEW j \in 1..n, Current(new, j)
      PROVE  Current(lg, j) /\ (lg[j].cred = e.cred => e.op = "login")
  <2>1. n + 1 \in 1..Len(new) /\ n + 1 > j /\ \A i \in 1..n : i \in 1..Len(new)
    BY <1>0, <1>1, SMTT(30)
  <2> QED
    BY <1>1, <1>6, <2>1 DEF Current, n
\* The entries that count are below the counter of the credential before the login.
<1>7. ASSUME NEW j \in 1..n, Current(lg, j), lg[j].cred = e.cred, e.op = "login"
      PROVE  /\ lg[j].count <= cr2[e.cred].counter
             /\ e.count > lg[j].count \/ (e.count = 0 /\ lg[j].count = 0)
  <2>1. lg[j].count <= cr[e.cred].counter /\ lg[j].count \in Nat
    BY <1>3, <1>7 DEF LogGood, n
  <2> QED
    BY <1>0, <1>7, <2>1, SMTT(30)
<1>8. ASSUME NEW j \in 1..Len(new), Current(new, j), new[j].cred \in DOMAIN cr2
      PROVE  new[j].count <= cr2[new[j].cred].counter
  <2>1. CASE j = n + 1
    BY <1>1, <2>1
  <2>2. CASE j \in 1..n /\ lg[j].cred = e.cred
    BY <1>1, <1>6, <1>7, <1>8, <2>2
  <2>3. CASE j \in 1..n /\ lg[j].cred # e.cred
    <3>1. Current(lg, j) /\ new[j] = lg[j]
      BY <1>1, <1>6, <1>8, <2>3
    <3>2. lg[j].cred \in DOMAIN cr /\ cr2[lg[j].cred] = cr[lg[j].cred]
      BY <1>8, <2>3, <3>1
    <3> QED
      BY <2>3, <3>1, <3>2 DEF LogGood, n
  <2> QED
    BY <1>1, <1>2, <2>1, <2>2, <2>3
<1>9. ASSUME NEW j \in 1..Len(new), NEW k \in 1..Len(new),
             j < k, new[j].cred = new[k].cred, new[k].cred # Nil, new[k].op = "login",
             \A i \in j+1..k : new[i].cred = new[j].cred => new[i].op = "login"
      PROVE  new[k].count > new[j].count \/ (new[k].count = 0 /\ new[j].count = 0)
  <2>1. j \in 1..n /\ new[j] = lg[j] /\ \A i \in j+1..k : i \in 1..Len(new)
    BY <1>0, <1>1, <1>9, SMTT(30)
  <2>2. CASE k = n + 1
    <3>1. Current(lg, j)
      <4> SUFFICES ASSUME NEW i \in 1..n, i > j, lg[i].cred = lg[j].cred PROVE lg[i].op = "login"
        BY DEF Current, n
      <4>1. i \in j+1..k /\ new[i] = lg[i]
        BY <1>0, <1>1, <2>2, SMTT(30)
      <4> QED
        BY <1>9, <2>1, <4>1
    <3> QED
      BY <1>1, <1>7, <1>9, <2>1, <2>2, <3>1
  <2>3. CASE k \in 1..n
    <3>1. new[k] = lg[k] /\ \A i \in j+1..k : i \in 1..n /\ new[i] = lg[i]
      BY <1>0, <1>1, <2>1, <2>3, SMTT(30)
    <3>2. \A i \in j+1..k : lg[i].cred = lg[j].cred => lg[i].op = "login"
      BY <1>9, <2>1, <3>1
    <3> QED
      BY <1>9, <2>1, <2>3, <3>1, <3>2 DEF LogGood, n
  <2> QED
    BY <1>1, <1>2, <2>2, <2>3
<1>10. LogGood(new, cr2, ch \ {e.challenge}, tk)
  BY <1>0, <1>1, <1>4, <1>5, <1>8, <1>9 DEF LogGood
<1> QED
  BY <1>10 DEF new

\* A restart: what it has lost is forgotten, and the rest is on disk.
LEMMA OpenLog ==
  ASSUME StoreInv, LogInv, Open
  PROVE  LogInv'
<1> DEFINE n == Len(log)
           Now(c) == IF c \in unsaved THEN Nil ELSE c
<1>0. /\ n \in Nat /\ log \in Seq(LogEntry) /\ DOMAIN log = 1..n /\ tokens' = tokens /\ tokens \in Nat
      /\ creds' = disk /\ DOMAIN challenges' = {}
  BY SMTT(30) DEF LogInv, LogGood, Open, Empty
<1>1. log' = [k \in 1..n |-> [log[k] EXCEPT !.cred = Now(log[k].cred)]]
  BY <1>0 DEF Open
<1>2. \A k \in 1..n : LET e == [log[k] EXCEPT !.cred = Now(log[k].cred)] IN
        /\ e \in LogEntry /\ e.cred = Now(log[k].cred) /\ e.op = log[k].op
        /\ e.count = log[k].count /\ e.challenge = log[k].challenge
  <2> SUFFICES ASSUME NEW k \in 1..n
               PROVE  LET e == [log[k] EXCEPT !.cred = Now(log[k].cred)] IN
                        /\ e \in LogEntry /\ e.cred = Now(log[k].cred) /\ e.op = log[k].op
                        /\ e.count = log[k].count /\ e.challenge = log[k].challenge
    OBVIOUS
  <2>1. log[k] \in LogEntry
    BY <1>0, SMTT(30)
  <2> QED
    BY <2>1 DEF LogEntry
<1>3. \A k \in 1..n : /\ log'[k] \in LogEntry /\ log'[k].cred = Now(log[k].cred) /\ log'[k].op = log[k].op
                      /\ log'[k].count = log[k].count /\ log'[k].challenge = log[k].challenge
  BY <1>1, <1>2
<1>4. log' \in Seq(LogEntry) /\ Len(log') = n
  <2>1. log' \in [1..n -> LogEntry]
    BY <1>1, <1>3
  <2> QED
    BY <1>0, <2>1, SMTT(30)
<1> HIDE DEF n
<1>5. \A k \in 1..n : log'[k].cred # Nil => log[k].cred = log'[k].cred /\ log[k].cred \notin unsaved
  BY <1>3
<1>6. \A i, j \in 1..n : log'[j].cred # Nil /\ log[i].cred = log[j].cred => log'[i].cred = log'[j].cred
  BY <1>3, <1>5
<1> HIDE DEF Now
<1>7. ASSUME NEW j \in 1..n, Current(log', j), log'[j].cred \in DOMAIN disk
      PROVE  log'[j].count <= disk[log'[j].cred].counter
  <2>1. log'[j].cred # Nil /\ log'[j].cred \in Cred
    BY <1>7, Facts DEF StoreInv, Good
  <2>2. Current(log, j)
    <3> SUFFICES ASSUME NEW i \in 1..n, i > j, log[i].cred = log[j].cred PROVE log[i].op = "login"
      BY DEF Current, n
    <3>1. log'[i].cred = log'[j].cred
      BY <1>6, <2>1
    <3> QED
      BY <1>3, <1>4, <1>7, <3>1 DEF Current
  <2>3. log[j].cred = log'[j].cred /\ log[j].cred \in Cred \ unsaved
    BY <1>5, <2>1
  <2>4. log[j].cred \in DOMAIN creds /\ disk[log[j].cred] = creds[log[j].cred]
    BY <1>7, <2>3 DEF StoreInv, SameBut
  <2>5. log[j].count <= creds[log[j].cred].counter
    BY <2>2, <2>4 DEF LogInv, LogGood, n
  <2> QED
    BY <1>3, <2>3, <2>4, <2>5
<1>8. ASSUME NEW j \in 1..n, NEW k \in 1..n,
             j < k, log'[j].cred = log'[k].cred, log'[k].cred # Nil, log'[k].op = "login",
             \A i \in j+1..k : log'[i].cred = log'[j].cred => log'[i].op = "login"
      PROVE  log'[k].count > log'[j].count \/ (log'[k].count = 0 /\ log'[j].count = 0)
  <2>1. log[j].cred = log[k].cred /\ log[k].cred # Nil /\ log[k].op = "login"
    BY <1>3, <1>5, <1>8
  <2>2. ASSUME NEW i \in j+1..k, log[i].cred = log[j].cred PROVE log[i].op = "login"
    <3>1. i \in 1..n
      BY <1>0, <2>2, SMTT(30)
    <3>2. log'[i].cred = log'[j].cred
      BY <1>6, <1>8, <2>2, <3>1
    <3> QED
      BY <1>3, <1>8, <2>2, <3>1, <3>2
  <2>3. log[k].count > log[j].count \/ (log[k].count = 0 /\ log[j].count = 0)
    BY <1>8, <2>1, <2>2 DEF LogInv, LogGood, n
  <2> QED
    BY <1>3, <2>3
<1>9. /\ \A k \in 1..n : log'[k].challenge \in 1..tokens
      /\ \A j, k \in 1..n : j # k => log'[j].challenge # log'[k].challenge
  BY <1>3, SMTT(30) DEF LogInv, LogGood, n
<1> QED
  BY <1>0, <1>4, <1>7, <1>8, <1>9 DEF LogInv, LogGood

LEMMA LogStep ==
  ASSUME StoreReq, MapInv, LogInv, [Next]_vars
  PROVE  LogInv'
<1>0. /\ StoreInv /\ tokens \in Nat /\ DOMAIN challenges \subseteq 1..tokens
      /\ \A i \in DOMAIN creds : i \in Cred /\ creds[i].counter \in Nat
  BY Facts, SMTT(30) DEF StoreReq, StoreInv, Good, Stored, MapInv
<1>1. ASSUME log' = log, tokens' = tokens, DOMAIN challenges' \subseteq DOMAIN challenges,
             \A i \in DOMAIN creds' : i \in DOMAIN creds /\ creds'[i] = creds[i]
      PROVE  LogInv'
  BY <1>0, <1>1, NoCeremony, SMTT(30) DEF LogInv
<1>2. ASSUME NEW c \in Client, NEW tok, NEW id \in Cred, NEW count \in 0..MaxCount,
             Register(c, tok, id, count)
      PROVE  LogInv'
  <2> DEFINE by == IF request[c].bootstrap THEN "setup" ELSE "administrator"
             e == [op |-> "register", challenge |-> tok, cred |-> id, count |-> count, by |-> by]
             new == [i \in DOMAIN creds \cup {id} |->
                       IF i = id THEN [role |-> request[c].role, counter |-> count] ELSE creds[i]]
  <2>1. /\ tokens' = tokens /\ DOMAIN challenges' = DOMAIN challenges \ {tok}
        /\ \/ UNCHANGED <<stored, log>>
           \/ tok \in DOMAIN challenges /\ id \notin DOMAIN creds /\ creds' = new /\ log' = Append(log, e)
    BY <1>2 DEF Register, Take, Restrict, Taken, Storable
  <2>2. CASE UNCHANGED <<stored, log>>
    BY <1>1, <2>1, <2>2, SMTT(30) DEF stored
  <2>3. CASE tok \in DOMAIN challenges /\ id \notin DOMAIN creds /\ creds' = new /\ log' = Append(log, e)
    <3>1. /\ e \in LogEntry /\ e.op = "register" /\ e.challenge = tok /\ e.cred = id /\ e.count = count
          /\ count \in Nat
      BY <1>0, <2>3, Facts, SMTT(30) DEF LogEntry
    <3>2. /\ new[id].counter = count /\ \A i \in DOMAIN new : i # id => i \in DOMAIN creds /\ new[i] = creds[i]
      OBVIOUS
    <3> HIDE DEF e, new
    <3>3. LogGood(Append(log, e), new, DOMAIN challenges \ {tok}, tokens)
      BY <1>0, <2>3, <3>1, <3>2, Ceremony, SMTT(30) DEF LogInv
    <3> QED
      BY <2>1, <2>3, <3>3 DEF LogInv
  <2> QED
    BY <2>1, <2>2, <2>3
<1>3. ASSUME NEW c \in Client, NEW tok, NEW id \in Cred, NEW count \in 0..MaxCount,
             NEW verified \in BOOLEAN, Login(c, tok, id, count, verified)
      PROVE  LogInv'
  <2> DEFINE e == [op |-> "login", challenge |-> tok, cred |-> id, count |-> count, by |-> "passkey"]
             new == [creds EXCEPT ![id].counter = count]
  <2>1. /\ tokens' = tokens /\ DOMAIN challenges' = DOMAIN challenges \ {tok}
        /\ \/ UNCHANGED <<creds, log>>
           \/ /\ tok \in DOMAIN challenges /\ id \in DOMAIN creds /\ log' = Append(log, e)
              /\ ~Regressed(count, creds[id].counter)
              /\ IF count > creds[id].counter THEN creds' = new ELSE creds' = creds
    BY <1>3 DEF Login, Take, Restrict, Taken
  <2>2. CASE UNCHANGED <<creds, log>>
    BY <1>1, <2>1, <2>2
  <2>3. CASE /\ tok \in DOMAIN challenges /\ id \in DOMAIN creds /\ log' = Append(log, e)
             /\ ~Regressed(count, creds[id].counter)
             /\ IF count > creds[id].counter THEN creds' = new ELSE creds' = creds
    <3>1. /\ e \in LogEntry /\ e.op = "login" /\ e.challenge = tok /\ e.cred = id /\ e.count = count
          /\ count \in Nat
      BY <1>0, <2>3, Facts, SMTT(30) DEF LogEntry
    <3>2. /\ DOMAIN new = DOMAIN creds /\ new[id].counter = count
          /\ \A i \in DOMAIN creds : i # id => new[i] = creds[i]
      <4>1. /\ DOMAIN new = DOMAIN creds /\ new[id].counter = count /\ SameBut(new, creds, {id})
        <5>1. StoreInv /\ id \in DOMAIN creds
          BY <1>0, <2>3
        <5> QED
          BY <5>1, CountedGood, SMTT(30)
      <4> HIDE DEF new
      <4> QED
        BY <1>0, <4>1 DEF SameBut
    <3>3. count > creds[id].counter \/ (count = 0 /\ creds[id].counter = 0)
      BY <1>0, <2>3, <3>1, SMTT(30) DEF Regressed
    <3> HIDE DEF e, new
    <3>4. /\ DOMAIN creds' = DOMAIN creds /\ creds'[id].counter = count
          /\ \A i \in DOMAIN creds : i # id => creds'[i] = creds[i]
      BY <1>0, <2>3, <3>1, <3>2, <3>3
    <3>5. LogGood(Append(log, e), creds', DOMAIN challenges \ {tok}, tokens)
      BY <1>0, <2>3, <3>1, <3>3, <3>4, Ceremony, SMTT(30) DEF LogInv
    <3> QED
      BY <2>1, <2>3, <3>5 DEF LogInv
  <2> QED
    BY <2>1, <2>2, <2>3
<1>4. ASSUME NEW c \in Client, NEW id \in Cred, RemoveCredential(c, id) PROVE LogInv'
  <2>1. /\ UNCHANGED <<log, tokens, challenges>>
        /\ creds' = creds \/ creds' = Restrict(creds, DOMAIN creds \ {id})
    BY <1>4 DEF RemoveCredential
  <2> QED
    BY <1>1, <2>1 DEF Restrict
<1>5. ASSUME NEW c \in Client, NEW purpose, NewChallenge(c, purpose) PROVE LogInv'
  <2>1. /\ tokens' = tokens + 1 /\ UNCHANGED <<stored, log>>
        /\ challenges' \in Insert(challenges, MAX_CHALLENGES, tokens + 1,
                                  [purpose |-> purpose, expires |-> now + CHALLENGE_TTL])
    BY <1>5 DEF NewChallenge
  <2>2. \A t \in DOMAIN challenges' : t \in DOMAIN challenges \/ t > tokens
    <3>1. tokens \in Nat /\ DOMAIN challenges \subseteq 1..tokens
      BY <1>0
    <3>2. MAX_CHALLENGES \in Nat \ {0}
      BY Facts
    <3>3. DOMAIN challenges' \subseteq DOMAIN challenges \cup {tokens + 1}
      <4>. DEFINE entry == [purpose |-> purpose, expires |-> now + CHALLENGE_TTL]
      <4>1. challenges' \in Insert(challenges, MAX_CHALLENGES, tokens + 1, entry)
        BY <2>1
      <4>. HIDE DEF entry
      <4>. QED
        BY <3>1, <3>2, <4>1, InsertFacts
    <3>. QED
      BY <3>1, <3>3, SMTT(30)
  <2>3. creds' = creds /\ tokens' \in Nat /\ tokens <= tokens'
    <3>1. creds' = creds
      BY <2>1 DEF stored
    <3>2. tokens \in Nat /\ tokens' = tokens + 1
      BY <1>0, <2>1
    <3>. QED
      BY <3>1, <3>2, SMTT(30)
  <2> QED
    BY <2>1, <2>2, <2>3, NoCeremony DEF LogInv
<1>6. ASSUME NEW c \in Client, OpenSession(c) PROVE LogInv'
  <2>1. tokens' = tokens + 1 /\ UNCHANGED <<stored, log, challenges>>
    BY <1>6 DEF OpenSession
  <2>2. creds' = creds /\ tokens' \in Nat /\ tokens <= tokens'
    BY <1>0, <2>1, SMTT(30) DEF stored
  <2> QED
    BY <2>1, <2>2, NoCeremony DEF LogInv
<1>7. ASSUME \/ \E c \in Client : \/ \E t : Receive(c, t)
                                  \/ Answer(c) \/ Logout(c) \/ \E role : RegisterGate(c, role)
             \/ \E t \in DOMAIN sessions : Proxy(t)
             \/ (\E s \in streams : EndStream(s)) \/ Tick \/ UNCHANGED vars
      PROVE  LogInv'
  <2>1. UNCHANGED <<stored, log, challenges, tokens>>
    BY <1>7 DEF Receive, Answer, Logout, RegisterGate, Proxy, EndStream, Tick, vars, stored
  <2> QED
    BY <1>1, <2>1 DEF stored
<1> QED
  BY <1>0, <1>2, <1>3, <1>4, <1>5, <1>6, <1>7, OpenLog DEF Next, LoginOptions, RegisterOptions

(* ----------------------------- the theorems ---------------------------- *)

ConsoleInv == StoreReq /\ MapInv /\ LogInv

LEMMA ConsoleInvariant == Spec => []ConsoleInv
<1>1. Init => ConsoleInv
  <2> SUFFICES ASSUME Init PROVE ConsoleInv
    OBVIOUS
  <2> USE DEF Init
  <2>1. Good(disk)
    BY UiAuthAssumption DEF Good
  <2>2. StoreInv
    <3>1. setup \in BOOLEAN /\ (creds = Empty => setup)
      OBVIOUS
    <3>2. ops \in 0..MaxOps
      BY Facts, SMTT(30)
    <3>3. unsaved \subseteq Cred /\ SameBut(disk, creds, unsaved)
      BY DEF SameBut
    <3> QED
      BY <2>1, <3>1, <3>2, <3>3 DEF StoreInv
  <2>3. DOMAIN NoRequest = Fields /\ NoRequest.at # "register"
    BY DEF NoRequest, Fields
  <2>4. RequestInv
    BY <2>3 DEF RequestInv
  <2>5. DOMAIN challenges = {} /\ DOMAIN sessions = {} /\ Cardinality({}) = 0
    BY FS_EmptySet DEF Empty
  <2>6. MapInv
    BY <2>5, Facts, SMTT(30) DEF MapInv
  <2>7. LogInv
    BY SMTT(30) DEF LogInv, LogGood
  <2> QED
    BY <2>2, <2>4, <2>6, <2>7 DEF ConsoleInv, StoreReq
<1>2. ConsoleInv /\ [Next]_vars => ConsoleInv'
  BY StoreStep, MapStep, LogStep DEF ConsoleInv
<1> QED
  BY <1>1, <1>2, PTL DEF Spec

\* Nobody is locked out of the console: while nobody is registered the set-up token is on
\* disk, and from then on an administrator is stored, whatever fails and restarts.
THEOREM NobodyIsLockedOut == Spec => []NotLockedOut
<1>1. ConsoleInv => NotLockedOut
  BY DEF ConsoleInv, StoreReq, StoreInv, Good, NotLockedOut
<1> QED
  BY <1>1, ConsoleInvariant, PTL

\* What a sign-in leaves behind is used once: a challenge serves one ceremony, the counts
\* of a credential grow, streams end, and the two maps keep their caps.
THEOREM NothingIsReused == Spec => []NothingReused
<1>1. ConsoleInv => NothingReused
  <2> SUFFICES ASSUME ConsoleInv PROVE NothingReused
    OBVIOUS
  <2>1. \A s \in {disk, creds} : DOMAIN s \subseteq Cred /\ \A i \in DOMAIN s : s[i] \in Stored
    BY DEF ConsoleInv, StoreReq, StoreInv, Good
  <2>2. TypeOK
    BY <2>1 DEF ConsoleInv, StoreReq, StoreInv, MapInv, TypeOK
  <2>3. DOMAIN log = 1..Len(log)
    BY SMTT(30) DEF ConsoleInv, LogInv, LogGood
  <2>4. ChallengeServesOnce
    BY <2>3 DEF ConsoleInv, LogInv, LogGood, ChallengeServesOnce
  <2>5. CountsGrow
    BY <2>3 DEF ConsoleInv, LogInv, LogGood, CountsGrow
  <2>6. StreamsEnd
    BY Facts, SMTT(30) DEF ConsoleInv, MapInv, StreamsEnd
  <2> QED
    BY <2>2, <2>4, <2>5, <2>6 DEF NothingReused
<1> QED
  BY <1>1, ConsoleInvariant, PTL

\* The stored credentials decide: the set-up token registers somebody only while nobody is
\* registered, and a session goes with its credential, unless it is that of a login which
\* had let go of the credentials when the passkey was removed.
THEOREM StoredCredentialsDecide == Spec => CredentialsDecide
<1>1. ConsoleInv /\ [Next]_vars => [OneBootstrap /\ RevokedWithCredential]_vars
  <2> SUFFICES ASSUME ConsoleInv, Next PROVE OneBootstrap /\ RevokedWithCredential
    OBVIOUS
  <2>0. /\ log \in Seq(LogEntry) /\ Len(log) \in Nat /\ tokens \in Nat /\ DOMAIN sessions \subseteq 1..tokens
        /\ StoreInv
    BY Facts, SMTT(30) DEF ConsoleInv, LogInv, LogGood, MapInv, StoreReq
  <2>1. OneBootstrap
    <3> SUFFICES ASSUME Len(log') > Len(log), log'[Len(log')].by = "setup" PROVE creds = Empty
      BY DEF OneBootstrap
    <3>1. log' # log
      BY <2>0, SMTT(30)
    <3>2. CASE Open
      <4>1. /\ DOMAIN log' = DOMAIN log /\ DOMAIN log = 1..Len(log)
            /\ log' = [k \in 1..Len(log) |-> log'[k]]
        BY <2>0, <3>2, SMTT(30) DEF Open
      <4>2. Len(log') = Len(log)
        BY <2>0, <4>1, SMTT(30)
      <4> QED
        BY <2>0, <4>2, SMTT(30)
    <3>3. ASSUME NEW c \in Client, NEW tok, NEW id \in Cred, NEW count, NEW verified,
                 Login(c, tok, id, count, verified)
          PROVE  FALSE
      <4> DEFINE e == [op |-> "login", challenge |-> tok, cred |-> id, count |-> count, by |-> "passkey"]
      <4>1. log' = Append(log, e)
        BY <3>1, <3>3 DEF Login
      <4>2. log'[Len(log')] = e
        BY <2>0, <4>1, SMTT(30)
      <4> QED
        BY <4>2, SMTT(30)
    <3>4. ASSUME NEW c \in Client, NEW tok, NEW id \in Cred, NEW count, Register(c, tok, id, count)
          PROVE  creds = Empty
      <4> DEFINE by == IF request[c].bootstrap THEN "setup" ELSE "administrator"
                 e == [op |-> "register", challenge |-> tok, cred |-> id, count |-> count, by |-> by]
      <4>1. log' = Append(log, e) /\ Storable(request[c], id)
        BY <3>1, <3>4 DEF Register, stored
      <4>2. log'[Len(log')] = e
        BY <2>0, <4>1, SMTT(30)
      <4>3. by = "setup"
        BY <4>2, SMTT(30)
      <4>4. request[c].bootstrap
        BY <4>3
      <4> QED
        BY <4>1, <4>4 DEF Storable
    <3>5. Open \/ \E c \in Client, tok \in DOMAIN challenges \cup {0}, id \in Cred, count \in 0..MaxCount :
                    \/ Register(c, tok, id, count)
                    \/ \E verified \in BOOLEAN : Login(c, tok, id, count, verified)
      BY <3>1 DEF Next, Receive, LoginOptions, RegisterOptions, NewChallenge, OpenSession, Answer, Logout,
                  RegisterGate, RemoveCredential, Proxy, EndStream, Tick
    <3> QED
      BY <3>2, <3>3, <3>4, <3>5
  <2>2. RevokedWithCredential
    <3> DEFINE kept(S, C, t) == S[t].cred \in DOMAIN C /\ S[t].role = C[S[t].cred].role
    <3> SUFFICES ASSUME NEW t \in DOMAIN sessions', ~(t = tokens' /\ t \notin DOMAIN sessions)
                 PROVE  \/ kept(sessions', creds', t)
                        \/ t \in DOMAIN sessions /\ ~kept(sessions, creds, t)
      BY DEF RevokedWithCredential
    \* A session is an old one, or it has just been opened.
    <3>1. t \in DOMAIN sessions /\ sessions'[t] = sessions[t]
      <4>1. CASE \E c \in Client : OpenSession(c)
        <5>1. PICK c \in Client : OpenSession(c)
          BY <4>1
        <5>2. /\ tokens' = tokens + 1
              /\ sessions' \in Insert(sessions, MAX_SESSIONS, tokens + 1,
                   [cred |-> request[c].cred, role |-> request[c].role, expires |-> now + SESSION_TTL])
          BY <5>1 DEF OpenSession
        <5>3. t # tokens + 1 => t \in DOMAIN sessions /\ sessions'[t] = sessions[t]
          BY <2>0, <5>2, Facts, InsertFacts, SMTT(30)
        <5> QED
          BY <2>0, <5>2, <5>3, SMTT(30)
      <4>2. CASE Open
        BY <4>2 DEF Open, Empty
      <4>3. CASE ~Open /\ ~\E c \in Client : OpenSession(c)
        <5>1. CASE sessions' = sessions
          BY <5>1
        <5>2. ASSUME NEW S \in SUBSET DOMAIN sessions, sessions' = Restrict(sessions, S)
              PROVE  t \in DOMAIN sessions /\ sessions'[t] = sessions[t]
          BY <5>2 DEF Restrict
        <5>3. ASSUME NEW c \in Client, NEW x, Receive(c, x) \/ Logout(c) \/ RemoveCredential(c, x)
              PROVE  t \in DOMAIN sessions /\ sessions'[t] = sessions[t]
          <6>1. CASE Receive(c, x)
            BY <5>1, <5>2, <6>1 DEF Receive
          <6>2. CASE Logout(c)
            BY <5>2, <6>2 DEF Logout
          <6>3. CASE RemoveCredential(c, x)
            BY <5>1, <5>2, <6>3 DEF RemoveCredential, Revoked
          <6> QED
            BY <5>3, <6>1, <6>2, <6>3
        <5>4. CASE ~\E c \in Client : Logout(c) \/ \E x : Receive(c, x) \/ RemoveCredential(c, x)
          <6>1. sessions' = sessions
            <7>1. \/ \E c \in Client :
                       \/ LoginOptions(c) \/ RegisterOptions(c) \/ Answer(c)
                       \/ (\E role \in Roles : RegisterGate(c, role))
                       \/ \E tok, id, count : \/ Register(c, tok, id, count)
                                             \/ \E verified : Login(c, tok, id, count, verified)
                  \/ (\E x : Proxy(x)) \/ (\E s : EndStream(s)) \/ Tick
              BY <4>3, <5>4 DEF Next
            <7>2. ASSUME NEW c, NEW tok, NEW x, NEW count, Register(c, tok, x, count)
                  PROVE  sessions' = sessions
              BY <7>2 DEF Register
            <7>3. ASSUME NEW c, NEW tok, NEW x, NEW count, NEW verified, Login(c, tok, x, count, verified)
                  PROVE  sessions' = sessions
              BY <7>3 DEF Login
            <7>4. ASSUME NEW c, LoginOptions(c) \/ RegisterOptions(c) \/ Answer(c)
                  PROVE  sessions' = sessions
              BY <7>4 DEF LoginOptions, RegisterOptions, NewChallenge, Answer
            <7>5. ASSUME NEW c, NEW role, RegisterGate(c, role) PROVE sessions' = sessions
              BY <7>5 DEF RegisterGate
            <7>6. ASSUME Tick \/ \E x : Proxy(x) \/ EndStream(x) PROVE sessions' = sessions
              BY <7>6 DEF Tick, Proxy, EndStream
            <7> QED
              BY <7>1, <7>2, <7>3, <7>4, <7>5, <7>6
          <6> QED
            BY <5>1, <6>1
        <5> QED
          BY <5>3, <5>4
      <4> QED
        BY <4>1, <4>2, <4>3
    <3> SUFFICES ASSUME kept(sessions, creds, t) PROVE kept(sessions', creds', t)
      BY <3>1
    <3> DEFINE id == sessions[t].cred
    <3>2. id \in DOMAIN creds /\ sessions[t].role = creds[id].role
      OBVIOUS
    <3>3. id \in DOMAIN creds' /\ creds'[id].role = creds[id].role
      <4>1. CASE creds' = creds
        BY <3>2, <4>1
      <4>2. CASE Open
        BY <4>2 DEF Open, Empty
      <4>3. ASSUME NEW c \in Client, NEW tok, NEW x \in Cred, NEW count \in 0..MaxCount,
                   Register(c, tok, x, count)
            PROVE  id \in DOMAIN creds' /\ creds'[id].role = creds[id].role
        <5>1. \/ creds' = creds
              \/ /\ x \notin DOMAIN creds
                 /\ creds' = [i \in DOMAIN creds \cup {x} |->
                                IF i = x THEN [role |-> request[c].role, counter |-> count] ELSE creds[i]]
          BY <4>3 DEF Register, Storable, stored
        <5> HIDE DEF id
        <5> QED
          BY <3>2, <4>1, <5>1
      <4>4. ASSUME NEW c \in Client, NEW tok, NEW x \in Cred, NEW count \in 0..MaxCount,
                   NEW verified \in BOOLEAN, Login(c, tok, x, count, verified)
            PROVE  id \in DOMAIN creds' /\ creds'[id].role = creds[id].role
        <5>1. creds' = creds \/ (x \in DOMAIN creds /\ creds' = [creds EXCEPT ![x].counter = count])
          BY <4>4 DEF Login
        <5> HIDE DEF id
        <5>2. ASSUME x \in DOMAIN creds, creds' = [creds EXCEPT ![x].counter = count]
              PROVE  DOMAIN creds' = DOMAIN creds /\ \A i \in DOMAIN creds : creds'[i].role = creds[i].role
          BY <2>0, <5>2, CountedGood, SMTT(30)
        <5> QED
          BY <3>2, <4>1, <5>1, <5>2
      <4>5. ASSUME NEW c \in Client, NEW x \in Cred, RemoveCredential(c, x)
            PROVE  id \in DOMAIN creds' /\ creds'[id].role = creds[id].role
        <5>1. \/ creds' = creds
              \/ creds' = Restrict(creds, DOMAIN creds \ {x}) /\ sessions' = Revoked(x)
          BY <4>5 DEF RemoveCredential
        <5>2. CASE creds' = Restrict(creds, DOMAIN creds \ {x}) /\ sessions' = Revoked(x)
          <6>1. id # x
            BY <5>2 DEF Revoked, Restrict
          <6> QED
            BY <3>2, <5>2, <6>1 DEF Restrict
        <5> QED
          BY <4>1, <5>1, <5>2
      <4>6. \/ creds' = creds \/ Open
            \/ \E c \in Client, tok \in DOMAIN challenges \cup {0}, x \in Cred, count \in 0..MaxCount :
                 \/ Register(c, tok, x, count)
                 \/ \E verified \in BOOLEAN : Login(c, tok, x, count, verified)
            \/ \E c \in Client, x \in Cred : RemoveCredential(c, x)
        BY DEF Next, Receive, LoginOptions, RegisterOptions, NewChallenge, OpenSession, Answer, Logout,
               RegisterGate, Proxy, EndStream, Tick, stored
      <4> QED
        BY <4>1, <4>2, <4>3, <4>4, <4>5, <4>6
    <3> QED
      BY <3>1, <3>2, <3>3
  <2> QED
    BY <2>1, <2>2
<1> QED
  BY <1>1, ConsoleInvariant, PTL DEF Spec, CredentialsDecide
=============================================================================
