--------------------------- MODULE IngressProofs ---------------------------
(***************************************************************************)
(* The store behind ingress, for any connections, identities, codes,       *)
(* messages, settings, limits and times, with restarts and failing         *)
(* statements: what is stored once, who is linked, how often a code may be *)
(* guessed, and what a dropped copy and a new link rest on.                *)
(***************************************************************************)
EXTENDS Ingress, FiniteSetTheorems, TLAPS

\* The prover of a step that names none, and its seconds.
USE ZenonT(60)

At == {"idle", "admit", "look", "confirm", "note", "revoke"}
Guess == [n : 1..(LINK_CODE_MAX_GUESSES - 1), first : Nat]
Entry == [msg : Message, conn : Conn, at : Nat, ttl : Nat, kept : BOOLEAN]

(* ------------------------ handlers and challenges ----------------------- *)

HandlerType ==
  /\ handler \in [Conn -> [at : At, msg : Message \cup {Nil}, found : Challenge \cup {Nil}]]
  /\ \A c \in Conn : handler[c].at # "idle" => handler[c].msg \in Message
  /\ command \in [at : {"idle", "create"}, target : Identity \cup {Nil}, requester : Identity \cup {Nil}]
  /\ command.at = "create" => command.target \in Identity /\ command.requester \in Identity

\* What a reply was matched with is its own live challenge: no time passes while a
\* handler is at work.
MatchInv ==
  \A c \in Conn : handler[c].at = "confirm" =>
    /\ handler[c].found \in Challenge
    /\ handler[c].found.target = handler[c].msg.sender
    /\ handler[c].found.code = handler[c].msg.body
    /\ handler[c].found.expires > now

TableType ==
  /\ now \in Nat /\ cfg \in Settings /\ ids \in Nat
  /\ challenges \in [Identity -> Challenge \cup {Nil}]
  /\ \A i \in Identity : challenges[i] # Nil =>
       challenges[i].target = i /\ challenges[i].expires <= now + ChallengeTtl
  /\ links \subseteq [a : Identity, b : Identity, id : Nat]

CoreInv == HandlerType /\ TableType /\ MatchInv /\ OneLinkPerIdentity

LEMMA Facts ==
  /\ LINK_CODE_WINDOW \in Nat /\ ChallengeTtl \in Nat /\ ChallengeTtl <= LINK_CODE_WINDOW
  /\ LINK_CODE_MAX_GUESSES \in Nat \ {0} /\ LINK_CODE_MAP_MAX \in Nat
  /\ Requests \subseteq Identity \X Identity /\ IsFiniteSet(Conn)
  /\ \A m \in Message : m.sender \in Identity
  /\ \A s \in Settings : s.ttl \in Nat
BY IngressAssumption

\* A handler that moves on.
LEMMA GotoFacts ==
  ASSUME HandlerType, NEW c \in Conn, NEW p \in At, NEW m \in Message, NEW f \in Challenge \cup {Nil},
         Goto(c, p, m, f)
  PROVE  /\ handler' \in [Conn -> [at : At, msg : Message \cup {Nil}, found : Challenge \cup {Nil}]]
         /\ handler'[c] = [at |-> p, msg |-> m, found |-> f]
         /\ \A d \in Conn : d # c => handler'[d] = handler[d]
         /\ \A d \in Conn : handler'[d].at # "idle" => handler'[d].msg \in Message
BY DEF Goto, HandlerType

\* A handler that is done.
LEMMA DoneFacts ==
  ASSUME HandlerType, NEW c \in Conn, Done(c)
  PROVE  /\ handler' \in [Conn -> [at : At, msg : Message \cup {Nil}, found : Challenge \cup {Nil}]]
         /\ handler'[c] = Idle /\ handler'[c].at = "idle"
         /\ \A d \in Conn : d # c => handler'[d] = handler[d]
         /\ \A d \in Conn : handler'[d].at # "idle" => handler'[d].msg \in Message
BY DEF Done, HandlerType, Idle, At

\* link_for_identity of an identity in at most one link gives that link.
LEMMA LinkOfAll ==
  ASSUME NEW L \in SUBSET [a : Identity, b : Identity, id : Nat], NEW i,
         \A k, l \in L : {k.a, k.b} \cap {l.a, l.b} # {} => k = l
  PROVE  \A l \in L \ LinkOf(L, i) : i \notin {l.a, l.b}
<1> SUFFICES ASSUME NEW l \in L, i \in {l.a, l.b} PROVE l \in LinkOf(L, i)
  OBVIOUS
<1>1. \A k \in L : i \in {k.a, k.b} => k = l
  OBVIOUS
<1>2. l.id <= l.id
  BY SMTT(30)
<1> QED
  BY <1>1, <1>2 DEF LinkOf

\* confirm_link: the links of both parties go before theirs comes.
LEMMA ConfirmLinks ==
  ASSUME CoreInv, NEW ch \in Challenge, NEW k \in Nat,
         links' = Replace(ch) \cup {[a |-> ch.target, b |-> ch.requester, id |-> k]}
  PROVE  links' \subseteq [a : Identity, b : Identity, id : Nat] /\ OneLinkPerIdentity'
<1> DEFINE rest == links \ LinkOf(links, ch.target)
           left == rest \ LinkOf(rest, ch.requester)
           new == [a |-> ch.target, b |-> ch.requester, id |-> k]
<1>1. links \subseteq [a : Identity, b : Identity, id : Nat] /\ OneLinkPerIdentity
  BY DEF CoreInv, TableType
<1>2. \A l \in rest : ch.target \notin {l.a, l.b}
  BY <1>1, LinkOfAll DEF OneLinkPerIdentity
<1>3. /\ rest \subseteq [a : Identity, b : Identity, id : Nat] /\ rest \subseteq links
      /\ \A j, l \in rest : {j.a, j.b} \cap {l.a, l.b} # {} => j = l
  BY <1>1 DEF OneLinkPerIdentity
<1> HIDE DEF rest
<1>4. \A l \in left : ch.requester \notin {l.a, l.b}
  BY <1>3, LinkOfAll
<1>5. left \subseteq rest /\ links' = left \cup {new} /\ new \in [a : Identity, b : Identity, id : Nat]
  BY DEF Replace, rest, Challenge
<1>6. \A l \in left : {l.a, l.b} \cap {new.a, new.b} = {}
  BY <1>2, <1>4, <1>5
<1> HIDE DEF left, new
<1> QED
  BY <1>3, <1>5, <1>6 DEF OneLinkPerIdentity

\* The steps of a handler other than the confirmation of a link.
LEMMA HandlerStep ==
  ASSUME CoreInv, NEW c \in Conn,
         (\E m \in Message : Peek(c, m)) \/ Admit(c) \/ Look(c) \/ Note(c) \/ Revoke(c)
  PROVE  CoreInv'
<1> USE DEF CoreInv
<1>0. /\ now' = now /\ cfg' = cfg /\ ids' = ids /\ links' = links /\ command' = command
  BY DEF Peek, Admit, Look, Note, Revoke, tables, gates
<1>1. UNCHANGED challenges \/ \E i : challenges' = [challenges EXCEPT ![i] = Nil]
  BY DEF Peek, Admit, Look, Note, Revoke, tables
<1>2. /\ challenges' \in [Identity -> Challenge \cup {Nil}]
      /\ \A i \in Identity : challenges'[i] = challenges[i] \/ challenges'[i] = Nil
  <2>1. challenges \in [Identity -> Challenge \cup {Nil}]
    BY DEF TableType
  <2>2. ASSUME NEW i, challenges' = [challenges EXCEPT ![i] = Nil]
        PROVE  /\ challenges' \in [Identity -> Challenge \cup {Nil}]
               /\ \A j \in Identity : challenges'[j] = challenges[j] \/ challenges'[j] = Nil
    BY <2>1, <2>2
  <2> QED
    BY <1>1, <2>1, <2>2
<1>3. TableType' /\ OneLinkPerIdentity'
  BY <1>0, <1>2 DEF TableType, OneLinkPerIdentity
<1>4. CASE UNCHANGED handler
  BY <1>0, <1>3, <1>4 DEF HandlerType, MatchInv
<1>5. CASE Done(c)
  BY <1>0, <1>3, <1>5, DoneFacts DEF HandlerType, MatchInv
<1>6. ASSUME NEW p \in At, p # "confirm", NEW m \in Message, Goto(c, p, m, Nil)
      PROVE  CoreInv'
  <2>1. /\ handler' \in [Conn -> [at : At, msg : Message \cup {Nil}, found : Challenge \cup {Nil}]]
        /\ handler'[c] = [at |-> p, msg |-> m, found |-> Nil]
        /\ \A d \in Conn : d # c => handler'[d] = handler[d]
        /\ \A d \in Conn : handler'[d].at # "idle" => handler'[d].msg \in Message
    BY <1>6, GotoFacts
  <2>2. HandlerType'
    BY <1>0, <2>1 DEF HandlerType
  <2>3. handler'[c].at # "confirm"
    BY <1>6, <2>1, SMTT(30)
  <2>4. MatchInv'
    BY <1>0, <2>1, <2>3 DEF MatchInv
  <2> QED
    BY <1>3, <2>2, <2>4
<1>7. ASSUME NEW m \in Message, Peek(c, m) PROVE CoreInv'
  BY <1>4, <1>6, <1>7 DEF Peek, At
<1>8. CASE Admit(c)
  <2>1. handler[c].msg \in Message
    BY <1>8 DEF Admit, HandlerType
  <2> QED
    BY <1>5, <1>6, <1>8, <2>1 DEF Admit, At
<1>9. CASE Note(c)
  <2>1. handler[c].msg \in Message
    BY <1>9 DEF Note, HandlerType
  <2> QED
    BY <1>5, <1>6, <1>9, <2>1 DEF Note, At
<1>10. CASE Revoke(c)
  BY <1>5, <1>10 DEF Revoke
<1>11. CASE Look(c)
  <2> DEFINE m == handler[c].msg
  <2>1. m \in Message /\ m.sender \in Identity
    BY <1>11, Facts DEF Look, HandlerType
  <2>2. ASSUME Goto(c, "note", m, Nil) PROVE CoreInv'
    BY <1>6, <2>1, <2>2 DEF At
  <2>3. ASSUME NEW ch \in Active(m.sender, m.body), Goto(c, "confirm", m, ch) PROVE CoreInv'
    <3>1. /\ ch = challenges[m.sender] /\ challenges[m.sender] # Nil
          /\ ch.code = m.body /\ ch.expires > now
      BY DEF Active
    <3>2. ch \in Challenge /\ ch.target = m.sender
      BY <2>1, <3>1 DEF TableType
    <3>3. /\ handler' \in [Conn -> [at : At, msg : Message \cup {Nil}, found : Challenge \cup {Nil}]]
          /\ handler'[c] = [at |-> "confirm", msg |-> m, found |-> ch]
          /\ \A d \in Conn : d # c => handler'[d] = handler[d]
          /\ \A d \in Conn : handler'[d].at # "idle" => handler'[d].msg \in Message
      BY <2>1, <2>3, <3>2, GotoFacts DEF At
    <3>4. MatchInv'
      BY <1>0, <3>1, <3>2, <3>3, SMTT(30) DEF MatchInv
    <3> QED
      BY <1>0, <1>3, <3>3, <3>4 DEF HandlerType
  <2> QED
    BY <1>11, <2>2, <2>3 DEF Look
<1> QED
  BY <1>7, <1>8, <1>9, <1>10, <1>11

LEMMA ConfirmStep ==
  ASSUME CoreInv, NEW c \in Conn, Confirm(c)
  PROVE  CoreInv'
<1> USE DEF CoreInv
<1>0. /\ handler[c].at = "confirm" /\ handler[c].found \in Challenge /\ Done(c)
      /\ now' = now /\ cfg' = cfg /\ command' = command /\ ids' \in Nat
      /\ links' = Replace(handler[c].found)
           \cup {[a |-> handler[c].found.target, b |-> handler[c].found.requester, id |-> ids']}
  BY SMTT(30) DEF Confirm, MatchInv, TableType, gates
<1>1. links' \subseteq [a : Identity, b : Identity, id : Nat] /\ OneLinkPerIdentity'
  BY <1>0, ConfirmLinks
<1>2. /\ challenges' \in [Identity -> Challenge \cup {Nil}]
      /\ \A i \in Identity : challenges'[i] = challenges[i] \/ challenges'[i] = Nil
  BY DEF Confirm, TableType
<1>3. TableType'
  BY <1>0, <1>1, <1>2 DEF TableType
<1> QED
  BY <1>0, <1>1, <1>3, DoneFacts DEF HandlerType, MatchInv

LEMMA CoreStep ==
  ASSUME CoreInv, [Next]_vars
  PROVE  CoreInv'
<1> USE DEF CoreInv
<1>1. ASSUME NEW c \in Conn,
             \/ \E m \in Message : Peek(c, m)
             \/ Admit(c) \/ Look(c) \/ Confirm(c) \/ Note(c) \/ Revoke(c)
      PROVE  CoreInv'
  BY <1>1, HandlerStep, ConfirmStep
<1>2. ASSUME NEW q \in Requests, InitiateLink(q[1], q[2]) PROVE CoreInv'
  <2>1. q[1] \in Identity /\ q[2] \in Identity
    BY Facts
  <2>2. /\ UNCHANGED <<now, cfg, ids, links, challenges, handler>>
        /\ command' \in {NoCommand, [at |-> "create", target |-> q[1], requester |-> q[2]]}
    BY <1>2 DEF InitiateLink, gates
  <2>3. HandlerType'
    BY <2>1, <2>2, SMTT(30) DEF HandlerType, NoCommand
  <2> QED
    BY <2>2, <2>3 DEF TableType, MatchInv, OneLinkPerIdentity
<1>3. ASSUME NEW code \in Code, CreateChallenge(code) PROVE CoreInv'
  <2> DEFINE new == [id |-> ids', code |-> code, target |-> command.target,
                     requester |-> command.requester, expires |-> now + ChallengeTtl]
  <2>1. command.target \in Identity /\ command.requester \in Identity
    BY <1>3 DEF CreateChallenge, HandlerType
  <2>2. /\ UNCHANGED <<now, cfg, links, handler>> /\ ids' \in Nat /\ command' = NoCommand
        /\ challenges' = [challenges EXCEPT ![command.target] = new]
    BY <1>3, SMTT(30) DEF CreateChallenge, gates, TableType
  <2>3. new \in Challenge /\ new.target = command.target /\ new.expires = now + ChallengeTtl
        /\ now + ChallengeTtl <= now + ChallengeTtl
    BY <2>1, <2>2, Facts, SMTT(30) DEF Challenge, TableType
  <2> HIDE DEF new
  <2>4. TableType'
    BY <2>1, <2>2, <2>3 DEF TableType
  <2>5. HandlerType'
    BY <2>2 DEF HandlerType, NoCommand
  <2> QED
    BY <2>2, <2>4, <2>5 DEF MatchInv, OneLinkPerIdentity
<1>4. ASSUME NEW l \in links, DeleteLink(l) PROVE CoreInv'
  BY <1>4 DEF DeleteLink, gates, HandlerType, TableType, MatchInv, OneLinkPerIdentity
<1>5. CASE PurgeExpiredChallenges
  BY <1>5 DEF PurgeExpiredChallenges, gates, HandlerType, TableType, MatchInv, OneLinkPerIdentity
<1>6. ASSUME NEW s \in Settings, ApplyConfig(s) PROVE CoreInv'
  BY <1>6 DEF ApplyConfig, tables, HandlerType, TableType, MatchInv, OneLinkPerIdentity
<1>7. CASE Restart
  <2>1. /\ handler' = [c \in Conn |-> Idle] /\ command' = NoCommand
        /\ UNCHANGED <<now, cfg, ids, links, challenges>>
    BY <1>7 DEF Restart
  <2>2. HandlerType' /\ MatchInv'
    BY <2>1 DEF HandlerType, MatchInv, Idle, NoCommand, At
  <2> QED
    BY <2>1, <2>2 DEF TableType, OneLinkPerIdentity
<1>8. CASE Tick
  <2>1. /\ now' = now + 1 /\ \A c \in Conn : handler[c].at = "idle"
        /\ UNCHANGED <<cfg, ids, links, challenges, handler, command>>
    BY <1>8 DEF Tick, gates, tables
  <2>2. TableType'
    BY <2>1, Facts, SMTT(30) DEF TableType, Challenge
  <2> QED
    BY <2>1, <2>2 DEF HandlerType, MatchInv, OneLinkPerIdentity
<1>9. CASE UNCHANGED vars
  BY <1>9 DEF vars, HandlerType, TableType, MatchInv, OneLinkPerIdentity
<1> QED
  BY <1>1, <1>2, <1>3, <1>4, <1>5, <1>6, <1>7, <1>8, <1>9 DEF Next

(* --------------------------- the guess budget --------------------------- *)

Live(i) == challenges[i] # Nil /\ challenges[i].expires > now
Counted(i) == IF i \in DOMAIN guesses THEN guesses[i].n ELSE 0
Renewals(i) == resets[i] + Cardinality(Revoking(i))

\* The budget of a live challenge.  Its counter was started after the challenge was
\* made, so no window ends it early.  What was counted is in the counter, or in one that
\* was forgotten, or in one whose revocation is under way.
BudgetInv ==
  /\ DOMAIN guesses \subseteq Identity /\ \A i \in DOMAIN guesses : guesses[i] \in Guess
  /\ noted \in [Identity -> Nat] /\ resets \in [Identity -> Nat]
  /\ command.at = "create" /\ command.target \in DOMAIN guesses => guesses[command.target].first = now
  /\ \A i \in Identity : Live(i) =>
       /\ i \in DOMAIN guesses => guesses[i].first + ChallengeTtl >= challenges[i].expires
       /\ noted[i] <= LINK_CODE_MAX_GUESSES * Renewals(i) + Counted(i)

LEMMA Product ==
  ASSUME NEW M \in Nat, NEW k \in Nat, NEW l \in Nat, k < l
  PROVE  M * k \in Nat /\ M * k + M <= M * l
BY SMTT(30)

LEMMA RevokingFinite == \A i : IsFiniteSet(Revoking(i)) /\ Cardinality(Revoking(i)) \in Nat
<1>1. ASSUME NEW i PROVE IsFiniteSet(Revoking(i))
  <2>1. Revoking(i) \subseteq Conn
    BY DEF Revoking
  <2> QED
    BY <2>1, Facts, FS_Subset
<1> QED
  BY <1>1, FS_CardinalityType

LEMMA CountedBelow ==
  ASSUME BudgetInv, NEW i \in Identity
  PROVE  /\ Counted(i) \in Nat /\ Counted(i) + 1 <= LINK_CODE_MAX_GUESSES
         /\ noted[i] \in Nat /\ resets[i] \in Nat /\ Renewals(i) \in Nat
         /\ i \in DOMAIN guesses => guesses[i].n \in Nat /\ guesses[i].first \in Nat
<1>1. Cardinality(Revoking(i)) \in Nat
  BY RevokingFinite
<1>2. i \in DOMAIN guesses => guesses[i] \in Guess
  BY DEF BudgetInv
<1> QED
  BY <1>1, <1>2, Facts, SMTT(30) DEF BudgetInv, Counted, Renewals, Guess

\* Steps that count nothing and forget nothing.
LEMMA QuietBudget ==
  ASSUME BudgetInv, UNCHANGED <<guesses, noted, resets>>,
         command'.at = "create" => command' = command /\ now' = now,
         \A i \in Identity : Live(i)' => /\ Live(i) /\ challenges'[i] = challenges[i]
                                         /\ Revoking(i)' = Revoking(i)
  PROVE  BudgetInv'
<1>1. \A i \in Identity : Live(i)' => Renewals(i)' = Renewals(i) /\ Counted(i)' = Counted(i)
  BY DEF Renewals, Counted
<1> QED
  BY <1>1 DEF BudgetInv

\* What a handler that does not revoke leaves of the revocations.
LEMMA SameRevoking ==
  ASSUME NEW c \in Conn, handler[c].at # "revoke", handler'[c].at # "revoke",
         \A d \in Conn : d # c => handler'[d] = handler[d], NEW i
  PROVE  Revoking(i)' = Revoking(i)
BY DEF Revoking

\* note_failed_link_guess.
LEMMA NoteBudget ==
  ASSUME CoreInv, BudgetInv, NEW c \in Conn, Note(c)
  PROVE  BudgetInv'
<1> DEFINE i == handler[c].msg.sender
           young == {x \in DOMAIN guesses : now - guesses[x].first < LINK_CODE_WINDOW}
           kept == IF Cardinality(young) >= LINK_CODE_MAP_MAX THEN {} ELSE young
           entry == IF i \in kept THEN [guesses[i] EXCEPT !.n = @ + 1] ELSE [n |-> 1, first |-> now]
           spent == entry.n >= LINK_CODE_MAX_GUESSES
           M == LINK_CODE_MAX_GUESSES
<1>0. /\ handler[c].at = "note" /\ handler[c].msg \in Message /\ i \in Identity
      /\ UNCHANGED <<now, challenges, command>>
      /\ noted' = [noted EXCEPT ![i] = @ + 1]
      /\ resets' = IF kept = young THEN resets ELSE Forgotten(Identity)
      /\ guesses' = [x \in (IF spent THEN kept \ {i} ELSE kept \cup {i}) |->
                       IF x = i THEN entry ELSE guesses[x]]
      /\ IF spent THEN Goto(c, "revoke", handler[c].msg, Nil) ELSE Done(c)
  BY Facts DEF Note, CoreInv, HandlerType
<1>1. now \in Nat /\ DOMAIN guesses \subseteq Identity /\ \A x \in DOMAIN guesses : guesses[x] \in Guess
  BY DEF CoreInv, TableType, BudgetInv
<1>2. kept \subseteq young /\ young \subseteq DOMAIN guesses /\ (kept = young \/ kept = {})
  OBVIOUS
<1>3. /\ entry.n \in Nat \ {0} /\ entry.first \in Nat /\ (~spent => entry \in Guess)
      /\ entry.n = 1 + (IF i \in kept THEN guesses[i].n ELSE 0)
      /\ entry.first = (IF i \in kept THEN guesses[i].first ELSE now)
  <2>1. CASE i \in kept
    BY <1>1, <1>2, <2>1, Facts, SMTT(30) DEF Guess
  <2>2. CASE i \notin kept
    BY <1>1, <2>2, Facts, SMTT(30) DEF Guess
  <2> QED
    BY <2>1, <2>2
<1> HIDE DEF entry, kept, young, spent, i
<1>4. DOMAIN guesses' \subseteq Identity /\ \A x \in DOMAIN guesses' : guesses'[x] \in Guess
  BY <1>0, <1>1, <1>2, <1>3
<1>5. noted' \in [Identity -> Nat] /\ resets' \in [Identity -> Nat]
  BY <1>0, SMTT(30) DEF BudgetInv, Forgotten
<1>6. \A x \in Identity : /\ noted'[x] = IF x = i THEN noted[x] + 1 ELSE noted[x]
                          /\ resets'[x] = IF kept = young THEN resets[x] ELSE resets[x] + 1
  BY <1>0 DEF BudgetInv, Forgotten
<1>7. command'.at = "create" /\ command'.target \in DOMAIN guesses' => guesses'[command'.target].first = now'
  BY <1>0, <1>2, <1>3 DEF BudgetInv
<1>8. \A x \in Identity : Revoking(x)' = IF spent /\ x = i THEN Revoking(x) \cup {c} ELSE Revoking(x)
  <2>1. CASE spent
    <3>1. /\ handler'[c] = [at |-> "revoke", msg |-> handler[c].msg, found |-> Nil]
          /\ \A d \in Conn : d # c => handler'[d] = handler[d]
      BY <1>0, <2>1, GotoFacts, SMTT(30) DEF CoreInv, At
    <3> QED
      BY <1>0, <2>1, <3>1, SMTT(30) DEF Revoking, i
  <2>2. CASE ~spent
    <3>1. handler'[c].at = "idle" /\ \A d \in Conn : d # c => handler'[d] = handler[d]
      BY <1>0, <2>2, DoneFacts DEF CoreInv
    <3> QED
      BY <1>0, <2>2, <3>1, SameRevoking
  <2> QED
    BY <2>1, <2>2
<1>9. ASSUME NEW x \in Identity
      PROVE  /\ Renewals(x) \in Nat
             /\ Renewals(x)' = Renewals(x) + (IF kept = young THEN 0 ELSE 1)
                                           + (IF spent /\ x = i THEN 1 ELSE 0)
  <2>1. IsFiniteSet(Revoking(x)) /\ Cardinality(Revoking(x)) \in Nat
    BY RevokingFinite
  <2>2. c \notin Revoking(x)
    BY <1>0 DEF Revoking
  <2>3. Cardinality(Revoking(x) \cup {c}) = Cardinality(Revoking(x)) + 1
    BY <2>1, <2>2, FS_AddElement
  <2>4. Cardinality(Revoking(x)') = Cardinality(Revoking(x)) + (IF spent /\ x = i THEN 1 ELSE 0)
    <3>1. CASE spent /\ x = i
      <4>1. Revoking(x)' = Revoking(x) \cup {c}
        BY <1>8, <3>1
      <4> QED
        BY <2>1, <2>3, <3>1, <4>1
    <3>2. CASE ~(spent /\ x = i)
      <4>1. Revoking(x)' = Revoking(x)
        BY <1>8, <3>2
      <4> QED
        BY <2>1, <3>2, <4>1, SMTT(30)
    <3> QED
      BY <3>1, <3>2
  <2> QED
    BY <1>6, <2>1, <2>4, CountedBelow, SMTT(30) DEF Renewals
<1>10. ASSUME NEW x \in Identity, Live(x)'
       PROVE  /\ x \in DOMAIN guesses' => guesses'[x].first + ChallengeTtl >= challenges'[x].expires
              /\ noted'[x] <= M * Renewals(x)' + Counted(x)'
  <2>1. Live(x) /\ challenges'[x] = challenges[x] /\ challenges[x].expires \in Nat
        /\ challenges[x].expires <= now + ChallengeTtl /\ challenges[x].expires > now
    BY <1>0, <1>10 DEF Live, CoreInv, TableType, Challenge
  <2>2. /\ x \in DOMAIN guesses => guesses[x].first + ChallengeTtl >= challenges[x].expires
        /\ noted[x] <= M * Renewals(x) + Counted(x)
    BY <2>1 DEF BudgetInv
  <2>3. x \in DOMAIN guesses => x \in young
    BY <1>1, <2>1, <2>2, Facts, CountedBelow, SMTT(30) DEF young
  <2>4. x \in kept => guesses[x].first + ChallengeTtl >= challenges[x].expires
    BY <1>2, <2>2
  <2>5. x \in DOMAIN guesses' => guesses'[x].first + ChallengeTtl >= challenges'[x].expires
    BY <1>0, <1>1, <1>3, <2>1, <2>4, Facts
  <2>6. /\ Counted(x)' = IF x = i THEN (IF spent THEN 0 ELSE entry.n)
                                  ELSE (IF x \in kept THEN guesses[x].n ELSE 0)
    BY <1>0 DEF Counted
  <2>7. /\ Counted(x) \in Nat /\ Counted(x) + 1 <= M /\ noted[x] \in Nat /\ M \in Nat
        /\ Renewals(x) \in Nat
    BY CountedBelow, Facts
  <2>8. M * Renewals(x) \in Nat
    BY <2>7, Product, SMTT(30)
  <2>9. CASE kept = young
    <3>1. Counted(x) = IF x \in kept THEN guesses[x].n ELSE 0
      BY <1>2, <2>3, <2>9 DEF Counted
    <3>2. x = i => entry.n = Counted(x) + 1
      BY <1>3, <2>7, <3>1, SMTT(30)
    <3>3. CASE x # i
      <4>1. Counted(x)' = Counted(x) /\ Renewals(x)' = Renewals(x) /\ noted'[x] = noted[x]
        BY <1>6, <1>9, <2>6, <2>9, <3>1, <3>3, SMTT(30)
      <4> QED
        BY <2>2, <2>5, <4>1
    <3>4. CASE x = i /\ ~spent
      <4>1. Counted(x)' = Counted(x) + 1 /\ Renewals(x)' = Renewals(x) /\ noted'[x] = noted[x] + 1
        BY <1>6, <1>9, <2>6, <2>9, <3>2, <3>4, SMTT(30)
      <4> QED
        BY <2>2, <2>5, <2>7, <2>8, <4>1, SMTT(30)
    <3>5. CASE x = i /\ spent
      <4>1. Counted(x)' = 0 /\ Renewals(x)' = Renewals(x) + 1 /\ noted'[x] = noted[x] + 1
        BY <1>6, <1>9, <2>6, <2>9, <3>5, SMTT(30)
      <4>2. M * Renewals(x) + M <= M * (Renewals(x) + 1) /\ M * (Renewals(x) + 1) \in Int
        BY <2>7, Product, SMTT(30)
      <4> QED
        BY <2>2, <2>5, <2>7, <2>8, <4>1, <4>2, SMTT(30)
    <3> QED
      BY <3>3, <3>4, <3>5
  <2>10. CASE kept # young
    <3>1. Renewals(x)' \in Nat /\ Renewals(x) < Renewals(x)' /\ Counted(x)' \in Nat
      BY <1>2, <1>3, <1>9, <2>6, <2>7, <2>10, SMTT(30)
    <3>2. M * Renewals(x) + M <= M * Renewals(x)' /\ M * Renewals(x)' \in Int
      BY <2>7, <3>1, Product, SMTT(30)
    <3>3. noted'[x] <= noted[x] + 1 /\ noted'[x] \in Nat
      BY <1>6, <2>7, SMTT(30)
    <3> QED
      BY <2>2, <2>5, <2>7, <2>8, <3>1, <3>2, <3>3, SMTT(30)
  <2> QED
    BY <2>9, <2>10
<1> QED
  BY <1>4, <1>5, <1>7, <1>10 DEF BudgetInv

LEMMA BudgetStep ==
  ASSUME CoreInv, BudgetInv, [Next]_vars
  PROVE  BudgetInv'
<1>0. /\ challenges \in [Identity -> Challenge \cup {Nil}] /\ now \in Nat
      /\ \A i \in Identity : challenges[i] # Nil => challenges[i].expires \in Nat
      /\ \A c \in Conn : handler[c].at # "idle" => handler[c].msg \in Message /\ handler[c].msg.sender \in Identity
  BY Facts DEF CoreInv, TableType, Challenge, HandlerType
<1>1. ASSUME NEW c \in Conn, Note(c) PROVE BudgetInv'
  BY <1>1, NoteBudget
<1>2. ASSUME NEW c \in Conn, (\E m \in Message : Peek(c, m)) \/ Admit(c) \/ Look(c) \/ Confirm(c)
      PROVE  BudgetInv'
  <2>1. /\ UNCHANGED <<guesses, noted, resets, command, now>>
        /\ \A i \in Identity : challenges'[i] = challenges[i] \/ challenges'[i] = Nil
    BY <1>2 DEF Peek, Admit, Look, Confirm, tables
  <2>2. handler[c].at # "revoke"
    BY <1>2 DEF Peek, Admit, Look, Confirm
  <2>3. /\ handler'[c].at # "revoke" /\ \A d \in Conn : d # c => handler'[d] = handler[d]
    <3>1. CASE UNCHANGED handler
      BY <2>2, <3>1
    <3>2. CASE Done(c)
      BY <3>2, DoneFacts DEF CoreInv
    <3>3. ASSUME NEW p, p # "revoke", NEW m, NEW f, Goto(c, p, m, f)
          PROVE  handler'[c].at # "revoke" /\ \A d \in Conn : d # c => handler'[d] = handler[d]
      BY <3>3 DEF Goto, CoreInv, HandlerType
    <3>4. ASSUME NEW m \in Message, Peek(c, m) PROVE UNCHANGED handler \/ Goto(c, "admit", m, Nil)
      BY <3>4 DEF Peek
    <3>5. ASSUME Admit(c) PROVE Done(c) \/ Goto(c, "look", handler[c].msg, Nil)
      BY <3>5 DEF Admit
    <3>6. ASSUME Look(c)
          PROVE  Goto(c, "note", handler[c].msg, Nil) \/ \E ch : Goto(c, "confirm", handler[c].msg, ch)
      BY <3>6 DEF Look
    <3>7. ASSUME Confirm(c) PROVE Done(c)
      BY <3>7 DEF Confirm
    <3> QED
      BY <1>2, <3>1, <3>2, <3>3, <3>4, <3>5, <3>6, <3>7
  <2>4. \A i : Revoking(i)' = Revoking(i)
    BY <2>2, <2>3, SameRevoking
  <2> QED
    BY <2>1, <2>4, QuietBudget DEF Live
<1>3. ASSUME NEW c \in Conn, Revoke(c) PROVE BudgetInv'
  <2> DEFINE i == handler[c].msg.sender
  <2>1. /\ handler[c].at = "revoke" /\ i \in Identity /\ Done(c)
        /\ UNCHANGED <<guesses, noted, resets, command, now>>
        /\ challenges' = [challenges EXCEPT ![i] = Nil]
    BY <1>0, <1>3 DEF Revoke
  <2>2. handler'[c].at = "idle" /\ \A d \in Conn : d # c => handler'[d] = handler[d]
    BY <2>1, DoneFacts DEF CoreInv
  <2>3. \A j \in Identity : j # i => Revoking(j)' = Revoking(j)
    BY <2>1, <2>2 DEF Revoking
  <2>4. challenges'[i] = Nil /\ \A j \in Identity : j # i => challenges'[j] = challenges[j]
    BY <1>0, <2>1
  <2> QED
    BY <2>1, <2>3, <2>4, QuietBudget DEF Live
<1>4. ASSUME NEW q \in Requests, InitiateLink(q[1], q[2]) PROVE BudgetInv'
  <2> DEFINE t == q[1]
             M == LINK_CODE_MAX_GUESSES
  <2>1. /\ t \in Identity /\ UNCHANGED <<now, challenges, noted, handler>>
        /\ guesses' = [i \in DOMAIN guesses \ {t} |-> guesses[i]]
        /\ command' = NoCommand \/ command'.target = t
        /\ resets' = Forgotten({t})
    BY <1>4, Facts, SMTT(30) DEF InitiateLink
  <2>2. /\ DOMAIN guesses' \subseteq Identity /\ \A i \in DOMAIN guesses' : guesses'[i] \in Guess
        /\ resets' \in [Identity -> Nat] /\ noted' \in [Identity -> Nat]
        /\ \A i \in Identity : resets'[i] = IF i = t THEN resets[i] + 1 ELSE resets[i]
    BY <2>1, SMTT(30) DEF BudgetInv, Forgotten
  <2>3. command'.at = "create" => command'.target \notin DOMAIN guesses'
    BY <2>1, SMTT(30) DEF NoCommand
  <2>4. ASSUME NEW x \in Identity, Live(x)'
        PROVE  /\ x \in DOMAIN guesses' => guesses'[x].first + ChallengeTtl >= challenges'[x].expires
               /\ noted'[x] <= M * Renewals(x)' + Counted(x)'
    <3>1. /\ x \in DOMAIN guesses => guesses[x].first + ChallengeTtl >= challenges[x].expires
          /\ noted[x] <= M * Renewals(x) + Counted(x)
      BY <2>1, <2>4 DEF BudgetInv, Live
    <3>2. Revoking(x)' = Revoking(x) /\ Cardinality(Revoking(x)) \in Nat
      BY <2>1, RevokingFinite DEF Revoking
    <3>3. CASE x # t
      <4>1. Renewals(x)' = Renewals(x) /\ Counted(x)' = Counted(x)
        BY <2>1, <2>2, <3>2, <3>3 DEF Renewals, Counted
      <4> QED
        BY <2>1, <3>1, <4>1
    <3>4. CASE x = t
      <4>0. x \notin DOMAIN guesses' /\ resets'[x] = resets[x] + 1 /\ resets[x] \in Nat
        BY <2>1, <2>2, <3>4 DEF BudgetInv
      <4>1. Renewals(x)' = Renewals(x) + 1 /\ Counted(x)' = 0 /\ x \notin DOMAIN guesses'
        BY <3>2, <4>0, SMTT(30) DEF Renewals, Counted
      <4>2. /\ Counted(x) \in Nat /\ Counted(x) + 1 <= M /\ noted[x] \in Nat /\ M \in Nat
            /\ Renewals(x) \in Nat
        BY CountedBelow, Facts
      <4>3. /\ M * Renewals(x) \in Nat /\ M * (Renewals(x) + 1) \in Int
            /\ M * Renewals(x) + M <= M * (Renewals(x) + 1)
        BY <4>2, Product, SMTT(30)
      <4> QED
        BY <2>1, <3>1, <4>1, <4>2, <4>3, SMTT(30)
    <3> QED
      BY <3>3, <3>4
  <2> QED
    BY <2>2, <2>3, <2>4 DEF BudgetInv
<1>5. ASSUME NEW code \in Code, CreateChallenge(code) PROVE BudgetInv'
  <2> DEFINE t == command.target
             new == [id |-> ids', code |-> code, target |-> t,
                     requester |-> command.requester, expires |-> now + ChallengeTtl]
             M == LINK_CODE_MAX_GUESSES
  <2>1. /\ command.at = "create" /\ t \in Identity /\ UNCHANGED <<now, guesses, handler>>
        /\ challenges' = [challenges EXCEPT ![t] = new] /\ command' = NoCommand
        /\ noted' = [noted EXCEPT ![t] = 0] /\ resets' = [resets EXCEPT ![t] = 0]
    BY <1>5 DEF CreateChallenge, CoreInv, HandlerType
  <2>2. new.expires = now + ChallengeTtl
    OBVIOUS
  <2> HIDE DEF new, t
  <2>3. /\ noted' \in [Identity -> Nat] /\ resets' \in [Identity -> Nat] /\ noted'[t] = 0
        /\ \A x \in Identity : x # t => noted'[x] = noted[x] /\ resets'[x] = resets[x]
    BY <2>1 DEF BudgetInv
  <2>4. challenges'[t] = new /\ \A x \in Identity : x # t => challenges'[x] = challenges[x]
    BY <1>0, <2>1
  <2>5. t \in DOMAIN guesses => guesses[t].first = now
    BY <2>1 DEF BudgetInv, t
  <2>6. ASSUME NEW x \in Identity, Live(x)'
        PROVE  /\ x \in DOMAIN guesses' => guesses'[x].first + ChallengeTtl >= challenges'[x].expires
               /\ noted'[x] <= M * Renewals(x)' + Counted(x)'
    <3>1. Revoking(x)' = Revoking(x) /\ Counted(x)' = Counted(x) /\ Cardinality(Revoking(x)) \in Nat
      BY <2>1, RevokingFinite DEF Revoking, Counted
    <3>2. CASE x # t
      <4>1. Live(x) /\ Renewals(x)' = Renewals(x)
        BY <2>1, <2>3, <2>4, <2>6, <3>1, <3>2 DEF Live, Renewals
      <4> QED
        BY <2>1, <2>3, <2>4, <3>1, <3>2, <4>1 DEF BudgetInv
    <3>3. CASE x = t
      <4>1. x \in DOMAIN guesses' => guesses'[x].first + ChallengeTtl >= challenges'[x].expires
        BY <1>0, <2>1, <2>2, <2>4, <2>5, <3>3, Facts, SMTT(30)
      <4>2. Renewals(x)' \in Nat
        BY <2>3, <3>1, SMTT(30) DEF Renewals
      <4>3. M * Renewals(x)' \in Nat
        BY <4>2, Facts, Product, SMTT(30)
      <4> QED
        BY <2>3, <3>1, <3>3, <4>1, <4>3, CountedBelow, SMTT(30)
    <3> QED
      BY <3>2, <3>3
  <2> QED
    BY <2>1, <2>3, <2>6 DEF BudgetInv, NoCommand
<1>6. CASE Restart
  <2> DEFINE M == LINK_CODE_MAX_GUESSES
  <2>1. /\ UNCHANGED <<now, challenges, noted>> /\ DOMAIN guesses' = {} /\ command' = NoCommand
        /\ handler' = [c \in Conn |-> Idle]
        /\ resets' = [i \in Identity |-> resets[i] + 1 + Cardinality(Revoking(i))]
    BY <1>6 DEF Restart
  <2>2. resets' \in [Identity -> Nat] /\ \A i \in Identity : resets'[i] = Renewals(i) + 1
    BY <2>1, RevokingFinite, CountedBelow, SMTT(30) DEF Renewals
  <2>3. ASSUME NEW x \in Identity, Live(x)' PROVE noted'[x] <= M * Renewals(x)' + Counted(x)'
    <3>1. noted[x] <= M * Renewals(x) + Counted(x)
      BY <2>1, <2>3 DEF BudgetInv, Live
    <3>2. /\ Counted(x) \in Nat /\ Counted(x) + 1 <= M /\ noted[x] \in Nat /\ M \in Nat
          /\ Renewals(x) \in Nat
      BY CountedBelow, Facts
    <3>3. Revoking(x)' = {}
      BY <2>1 DEF Revoking, Idle
    <3>4. Cardinality(Revoking(x)') = 0
      BY <3>3, FS_EmptySet
    <3>5. Renewals(x)' = Renewals(x) + 1 /\ Counted(x)' = 0
      BY <2>1, <2>2, <3>2, <3>4, SMTT(30) DEF Renewals, Counted
    <3>6. /\ M * Renewals(x) \in Nat /\ M * (Renewals(x) + 1) \in Int
          /\ M * Renewals(x) + M <= M * (Renewals(x) + 1)
      BY <3>2, Product, SMTT(30)
    <3> QED
      BY <2>1, <3>1, <3>2, <3>5, <3>6, SMTT(30)
  <2> QED
    BY <2>1, <2>2, <2>3 DEF BudgetInv, NoCommand
<1>7. ASSUME (\E l \in links : DeleteLink(l)) \/ (\E s \in Settings : ApplyConfig(s)) \/ UNCHANGED vars
      PROVE  BudgetInv'
  <2>1. UNCHANGED <<guesses, noted, resets, command, now, challenges, handler>>
    BY <1>7 DEF DeleteLink, ApplyConfig, tables, vars
  <2> QED
    BY <2>1, QuietBudget DEF Live, Revoking
<1>8. CASE PurgeExpiredChallenges
  <2>1. /\ UNCHANGED <<guesses, noted, resets, command, now, handler>>
        /\ \A i \in Identity : challenges'[i] = challenges[i] \/ challenges'[i] = Nil
    BY <1>8 DEF PurgeExpiredChallenges
  <2> QED
    BY <2>1, QuietBudget DEF Live, Revoking
<1>9. CASE Tick
  <2>1. /\ UNCHANGED <<guesses, noted, resets, command, challenges, handler>> /\ now' = now + 1
        /\ command.at = "idle"
    BY <1>9 DEF Tick, tables
  <2>2. \A i \in Identity : Live(i)' => Live(i)
    BY <1>0, <2>1, SMTT(30) DEF Live
  <2> QED
    BY <2>1, <2>2, QuietBudget DEF Revoking
<1> QED
  BY <1>1, <1>2, <1>3, <1>4, <1>5, <1>6, <1>7, <1>8, <1>9 DEF Next

\* The budget holds where no revocation is under way.
LEMMA BudgetHolds ==
  ASSUME CoreInv, BudgetInv
  PROVE  GuessesBounded
<1> SUFFICES ASSUME NEW i \in Identity, challenges[i] # Nil, ~(challenges[i].expires <= now),
                    Revoking(i) = {}
             PROVE  noted[i] < LINK_CODE_MAX_GUESSES * (resets[i] + 1)
  BY DEF GuessesBounded
<1> DEFINE M == LINK_CODE_MAX_GUESSES
<1>1. Live(i)
  BY SMTT(30) DEF Live, CoreInv, TableType, Challenge
<1>2. noted[i] <= M * Renewals(i) + Counted(i)
  BY <1>1 DEF BudgetInv
<1>3. /\ Counted(i) \in Nat /\ Counted(i) + 1 <= M /\ noted[i] \in Nat /\ M \in Nat /\ resets[i] \in Nat
  BY CountedBelow, Facts
<1>4. Renewals(i) = resets[i]
  BY <1>3, FS_EmptySet, SMTT(30) DEF Renewals
<1>5. /\ M * resets[i] \in Nat /\ M * (resets[i] + 1) \in Int
      /\ M * resets[i] + M <= M * (resets[i] + 1)
  BY <1>3, Product, SMTT(30)
<1> QED
  BY <1>2, <1>3, <1>4, <1>5, SMTT(30)

(* ------------------------- the log of admissions ------------------------ *)

\* The last entry of its message.
Latest(log, k) == \A j \in 1..Len(log) : j > k => log[j].msg # log[k].msg
Over(e, t) == t - e.at >= e.ttl

\* The dedup holds the latest record of every message whose ttl is running, and a handler
\* that found its message unseen holds it after its own connection's latest record is over.
LogGood(log, sn, hd, t) ==
  /\ t \in Nat /\ log \in Seq(Entry) /\ \A k \in 1..Len(log) : log[k].at <= t
  /\ DOMAIN sn \subseteq Message
  /\ \A m \in DOMAIN sn : \E k \in 1..Len(log) :
       Latest(log, k) /\ log[k].msg = m /\ sn[m].at = log[k].at /\ sn[m].ttl = log[k].ttl
  /\ \A k \in 1..Len(log) : Latest(log, k) => log[k].msg \in DOMAIN sn \/ Over(log[k], t)
  /\ \A k \in 1..Len(log), c \in Conn :
       Latest(log, k) /\ hd[c].at = "admit" /\ hd[c].msg = log[k].msg =>
         log[k].conn # c \/ Over(log[k], t)
  /\ \A j, k \in 1..Len(log) :
       /\ j < k /\ log[j].msg = log[k].msg /\ log[j].conn = log[k].conn
       /\ \A i \in (j + 1)..(k - 1) : log[i].msg # log[j].msg
       => Over(log[j], log[k].at)

LogInv == LogGood(admitted, seen, handler, now)

LEMMA EntryFields ==
  ASSUME NEW log \in Seq(Entry), NEW k \in 1..Len(log)
  PROVE  /\ log[k] \in Entry /\ log[k].msg \in Message /\ log[k].conn \in Conn
         /\ log[k].at \in Nat /\ log[k].ttl \in Nat
<1>1. log[k] \in Entry
  BY SMTT(30)
<1> QED
  BY <1>1 DEF Entry

\* Whether an entry was kept is of no concern to the log, nor is the progress of a
\* handler that is past the gates.
LEMMA SameLog ==
  ASSUME NEW log, NEW sn, NEW hd, NEW t, LogGood(log, sn, hd, t),
         NEW new \in Seq(Entry), Len(new) = Len(log), NEW hd2,
         \A k \in 1..Len(log) : /\ new[k].msg = log[k].msg /\ new[k].conn = log[k].conn
                                /\ new[k].at = log[k].at /\ new[k].ttl = log[k].ttl,
         \A c \in Conn : hd2[c].at = "admit" => hd2[c] = hd[c]
  PROVE  LogGood(new, sn, hd2, t)
<1>0. Len(log) \in Nat
  BY SMTT(30) DEF LogGood
<1>1. \A k \in 1..Len(log) : Latest(new, k) <=> Latest(log, k)
  BY DEF Latest
<1>2. \A k \in 1..Len(log) : \A u : Over(new[k], u) <=> Over(log[k], u)
  BY DEF Over
<1>3. \A m \in DOMAIN sn : \E k \in 1..Len(new) :
        Latest(new, k) /\ new[k].msg = m /\ sn[m].at = new[k].at /\ sn[m].ttl = new[k].ttl
  BY <1>1, SMTT(30) DEF LogGood
<1>4. \A k \in 1..Len(new) : Latest(new, k) => new[k].msg \in DOMAIN sn \/ Over(new[k], t)
  BY <1>1, <1>2 DEF LogGood
<1>5. \A k \in 1..Len(new), c \in Conn :
        Latest(new, k) /\ hd2[c].at = "admit" /\ hd2[c].msg = new[k].msg =>
          new[k].conn # c \/ Over(new[k], t)
  <2> SUFFICES ASSUME NEW k \in 1..Len(new), NEW c \in Conn,
                      Latest(new, k), hd2[c].at = "admit", hd2[c].msg = new[k].msg
               PROVE  new[k].conn # c \/ Over(new[k], t)
    OBVIOUS
  <2>1. Latest(log, k) /\ hd[c].at = "admit" /\ hd[c].msg = log[k].msg
    BY <1>1
  <2>2. log[k].conn # c \/ Over(log[k], t)
    BY <2>1 DEF LogGood
  <2> QED
    BY <1>2, <2>2
<1>6. ASSUME NEW j \in 1..Len(new), NEW k \in 1..Len(new),
             j < k, new[j].msg = new[k].msg, new[j].conn = new[k].conn,
             \A i \in (j + 1)..(k - 1) : new[i].msg # new[j].msg
      PROVE  Over(new[j], new[k].at)
  <2>1. \A i \in (j + 1)..(k - 1) : i \in 1..Len(log)
    BY <1>0, SMTT(30)
  <2>2. \A i \in (j + 1)..(k - 1) : log[i].msg # log[j].msg
    BY <1>6, <2>1
  <2>3. Over(log[j], log[k].at)
    BY <1>6, <2>2 DEF LogGood
  <2> QED
    BY <1>2, <2>3
<1>7. t \in Nat /\ DOMAIN sn \subseteq Message /\ \A k \in 1..Len(new) : new[k].at <= t
  BY DEF LogGood
<1> QED
  BY <1>3, <1>4, <1>5, <1>6, <1>7 DEF LogGood

\* What has been over stays over.
LEMMA LaterLog ==
  ASSUME NEW log, NEW sn, NEW hd, NEW t, LogGood(log, sn, hd, t)
  PROVE  LogGood(log, sn, hd, t + 1)
<1>1. \A k \in 1..Len(log) : /\ log[k].at \in Nat /\ log[k].ttl \in Nat
                             /\ Over(log[k], t) => Over(log[k], t + 1)
  BY EntryFields, SMTT(30) DEF LogGood, Over
<1>2. t + 1 \in Nat /\ \A k \in 1..Len(log) : log[k].at <= t + 1
  BY <1>1, SMTT(30) DEF LogGood
<1>3. \A k \in 1..Len(log) : Latest(log, k) => log[k].msg \in DOMAIN sn \/ Over(log[k], t + 1)
  BY <1>1 DEF LogGood
<1>4. \A k \in 1..Len(log), c \in Conn :
        Latest(log, k) /\ hd[c].at = "admit" /\ hd[c].msg = log[k].msg =>
          log[k].conn # c \/ Over(log[k], t + 1)
  BY <1>1 DEF LogGood
<1> QED
  BY <1>2, <1>3, <1>4 DEF LogGood

\* A message that a pruned dedup lacks has no record that is running.
LEMMA Unseen ==
  ASSUME NEW log, NEW sn, NEW hd, NEW t, LogGood(log, sn, hd, t),
         NEW k \in 1..Len(log), Latest(log, k), log[k].msg \notin DOMAIN PruneSeen(sn, t)
  PROVE  Over(log[k], t)
<1>1. CASE log[k].msg \notin DOMAIN sn
  BY <1>1 DEF LogGood
<1>2. CASE log[k].msg \in DOMAIN sn
  <2>1. PICK l \in 1..Len(log) : /\ Latest(log, l) /\ log[l].msg = log[k].msg
                                 /\ sn[log[k].msg].at = log[l].at /\ sn[log[k].msg].ttl = log[l].ttl
    BY <1>2 DEF LogGood
  <2>2. l = k
    BY <2>1, SMTT(30) DEF Latest
  <2>3. ~(t - sn[log[k].msg].at < sn[log[k].msg].ttl)
    BY <1>2 DEF PruneSeen
  <2>4. log[k].at \in Nat /\ log[k].ttl \in Nat /\ t \in Nat
    BY EntryFields DEF LogGood
  <2> QED
    BY <2>1, <2>2, <2>3, <2>4, SMTT(30) DEF Over
<1> QED
  BY <1>1, <1>2

\* is_duplicate: what it prunes is over, and what it passes on has no record running.
LEMMA PeekLog ==
  ASSUME NEW log, NEW sn, NEW hd, NEW t, LogGood(log, sn, hd, t), NEW hd2, NEW d \in Conn,
         \A c \in Conn : c # d => hd2[c] = hd[c],
         hd2[d] = hd[d] \/ hd2[d].msg \notin DOMAIN PruneSeen(sn, t)
  PROVE  LogGood(log, PruneSeen(sn, t), hd2, t)
<1>1. /\ DOMAIN PruneSeen(sn, t) \subseteq DOMAIN sn
      /\ \A m \in DOMAIN PruneSeen(sn, t) : PruneSeen(sn, t)[m] = sn[m]
  BY DEF PruneSeen
<1>2. \A m \in DOMAIN PruneSeen(sn, t) : \E k \in 1..Len(log) :
        /\ Latest(log, k) /\ log[k].msg = m
        /\ PruneSeen(sn, t)[m].at = log[k].at /\ PruneSeen(sn, t)[m].ttl = log[k].ttl
  BY <1>1, SMTT(30) DEF LogGood
<1>3. \A k \in 1..Len(log) : Latest(log, k) => log[k].msg \in DOMAIN PruneSeen(sn, t) \/ Over(log[k], t)
  BY Unseen
<1>4. ASSUME NEW k \in 1..Len(log), NEW c \in Conn,
             Latest(log, k), hd2[c].at = "admit", hd2[c].msg = log[k].msg
      PROVE  log[k].conn # c \/ Over(log[k], t)
  <2>1. CASE hd2[c] = hd[c]
    BY <1>4, <2>1, SMTT(30) DEF LogGood
  <2>2. CASE hd2[c] # hd[c]
    BY <1>3, <1>4, <2>2
  <2> QED
    BY <2>1, <2>2
<1>5. /\ t \in Nat /\ log \in Seq(Entry) /\ \A k \in 1..Len(log) : log[k].at <= t
      /\ DOMAIN PruneSeen(sn, t) \subseteq Message
      /\ \A j, k \in 1..Len(log) :
           /\ j < k /\ log[j].msg = log[k].msg /\ log[j].conn = log[k].conn
           /\ \A i \in (j + 1)..(k - 1) : log[i].msg # log[j].msg
           => Over(log[j], log[k].at)
  BY <1>1 DEF LogGood
<1> QED
  BY <1>2, <1>3, <1>4, <1>5 DEF LogGood

\* The record that follows an admission.
LEMMA AdmitLog ==
  ASSUME NEW log, NEW sn, NEW hd, NEW t, LogGood(log, sn, hd, t), NEW hd2, NEW d \in Conn,
         NEW m \in Message, NEW ttl \in Nat, hd[d].at = "admit", hd[d].msg = m, hd2[d].at # "admit",
         \A c \in Conn : c # d => hd2[c] = hd[c]
  PROVE  LogGood(Append(log, [msg |-> m, conn |-> d, at |-> t, ttl |-> ttl, kept |-> FALSE]),
                 Record(sn, m, ttl, t), hd2, t)
<1> DEFINE e == [msg |-> m, conn |-> d, at |-> t, ttl |-> ttl, kept |-> FALSE]
           new == Append(log, e)
           n == Len(log)
           s2 == Record(sn, m, ttl, t)
<1>0. t \in Nat /\ log \in Seq(Entry) /\ n \in Nat /\ e \in Entry /\ DOMAIN sn \subseteq Message
  BY SMTT(30) DEF LogGood, Entry
<1>1. /\ new \in Seq(Entry) /\ Len(new) = n + 1 /\ new[n + 1] = e /\ \A k \in 1..n : new[k] = log[k]
  BY <1>0, SMTT(30)
<1>2. /\ e.msg = m /\ e.conn = d /\ e.at = t /\ e.ttl = ttl
      /\ DOMAIN s2 = DOMAIN sn \cup {m} /\ s2[m].at = t /\ s2[m].ttl = ttl
      /\ \A x \in DOMAIN sn : x # m => s2[x] = sn[x]
  BY DEF Record
<1> HIDE DEF e, new, s2, n
<1>3. Latest(new, n + 1) /\ \A k \in 1..n : Latest(new, k) <=> Latest(log, k) /\ log[k].msg # m
  <2>1. Latest(new, n + 1)
    BY <1>0, <1>1, SMTT(30) DEF Latest
  <2>2. ASSUME NEW k \in 1..n, Latest(new, k) PROVE Latest(log, k) /\ log[k].msg # m
    BY <1>0, <1>1, <1>2, <2>2, SMTT(30) DEF Latest, n
  <2>3. ASSUME NEW k \in 1..n, Latest(log, k), log[k].msg # m PROVE Latest(new, k)
    <3> SUFFICES ASSUME NEW j \in 1..(n + 1), j > k PROVE new[j].msg # new[k].msg
      BY <1>1 DEF Latest
    <3>1. CASE j = n + 1
      BY <1>1, <1>2, <2>3, <3>1
    <3>2. CASE j \in 1..n
      BY <1>1, <2>3, <3>2 DEF Latest, n
    <3> QED
      BY <1>0, <3>1, <3>2, SMTT(30)
  <2> QED
    BY <2>1, <2>2, <2>3
<1>4. \A k \in 1..(n + 1) : k = n + 1 \/ k \in 1..n
  BY <1>0, SMTT(30)
<1>5. \A k \in 1..Len(new) : new[k].at <= t
  BY <1>0, <1>1, <1>2, <1>4, SMTT(30) DEF LogGood, n
<1>6. ASSUME NEW x \in DOMAIN s2
      PROVE  \E k \in 1..Len(new) :
               Latest(new, k) /\ new[k].msg = x /\ s2[x].at = new[k].at /\ s2[x].ttl = new[k].ttl
  <2>1. CASE x = m
    <3>1. n + 1 \in 1..Len(new)
      BY <1>0, <1>1, SMTT(30)
    <3> QED
      BY <1>1, <1>2, <1>3, <2>1, <3>1
  <2>2. CASE x # m
    <3>1. PICK k \in 1..n : Latest(log, k) /\ log[k].msg = x /\ sn[x].at = log[k].at /\ sn[x].ttl = log[k].ttl
      BY <1>2, <2>2 DEF LogGood, n
    <3>2. k \in 1..Len(new)
      BY <1>0, <1>1, SMTT(30)
    <3> QED
      BY <1>1, <1>2, <1>3, <2>2, <3>1, <3>2
  <2> QED
    BY <2>1, <2>2
<1>7. ASSUME NEW k \in 1..Len(new), Latest(new, k)
      PROVE  new[k].msg \in DOMAIN s2 \/ Over(new[k], t)
  <2>1. CASE k = n + 1
    BY <1>1, <1>2, <2>1
  <2>2. CASE k \in 1..n
    BY <1>1, <1>2, <1>3, <1>7, <2>2 DEF LogGood, n
  <2> QED
    BY <1>1, <1>4, <2>1, <2>2
<1>8. ASSUME NEW k \in 1..Len(new), NEW c \in Conn,
             Latest(new, k), hd2[c].at = "admit", hd2[c].msg = new[k].msg
      PROVE  new[k].conn # c \/ Over(new[k], t)
  <2>0. c # d /\ hd2[c] = hd[c]
    BY <1>8
  <2>1. CASE k = n + 1
    BY <1>1, <1>2, <2>0, <2>1
  <2>2. CASE k \in 1..n
    BY <1>1, <1>3, <1>8, <2>0, <2>2, SMTT(30) DEF LogGood, n
  <2> QED
    BY <1>1, <1>4, <2>1, <2>2
<1>9. ASSUME NEW j \in 1..Len(new), NEW k \in 1..Len(new),
             j < k, new[j].msg = new[k].msg, new[j].conn = new[k].conn,
             \A i \in (j + 1)..(k - 1) : new[i].msg # new[j].msg
      PROVE  Over(new[j], new[k].at)
  <2>1. j \in 1..n /\ new[j] = log[j] /\ \A i \in (j + 1)..(k - 1) : i \in 1..n /\ new[i] = log[i]
    BY <1>0, <1>1, <1>9, SMTT(30)
  <2>2. CASE k = n + 1
    <3>1. log[j].msg = m /\ log[j].conn = d /\ new[k].at = t
      BY <1>1, <1>2, <1>9, <2>1, <2>2
    <3>2. Latest(log, j)
      <4> SUFFICES ASSUME NEW i \in 1..n, i > j PROVE log[i].msg # log[j].msg
        BY DEF Latest, n
      <4>1. i \in (j + 1)..(k - 1)
        BY <1>0, <2>2, SMTT(30)
      <4> QED
        BY <1>9, <2>1, <4>1
    <3>3. Over(log[j], t)
      BY <2>1, <3>1, <3>2, SMTT(30) DEF LogGood, n
    <3> QED
      BY <2>1, <3>1, <3>3
  <2>3. CASE k \in 1..n
    <3>1. new[k] = log[k] /\ \A i \in (j + 1)..(k - 1) : log[i].msg # log[j].msg
      BY <1>1, <1>9, <2>1, <2>3
    <3> QED
      BY <1>9, <2>1, <2>3, <3>1 DEF LogGood, n
  <2> QED
    BY <1>1, <1>4, <2>2, <2>3
<1>10. LogGood(new, s2, hd2, t)
  <2>1. DOMAIN s2 \subseteq Message
    BY <1>0, <1>2
  <2> QED
    BY <1>0, <1>1, <1>5, <1>6, <1>7, <1>8, <1>9, <2>1 DEF LogGood
<1> QED
  BY <1>10 DEF new, e, s2

\* Routing marks at most one entry of the log as kept.
LEMMA RouteLog ==
  ASSUME NEW c, NEW m, NEW log \in Seq(Entry), RouteMessage(c, m, log)
  PROVE  /\ admitted' \in Seq(Entry) /\ Len(admitted') = Len(log)
         /\ \A k \in 1..Len(log) : /\ admitted'[k].msg = log[k].msg /\ admitted'[k].conn = log[k].conn
                                   /\ admitted'[k].at = log[k].at /\ admitted'[k].ttl = log[k].ttl
<1>1. CASE admitted' = log
  BY <1>1
<1>2. ASSUME NEW x, admitted' = [log EXCEPT ![x].kept = TRUE]
      PROVE  /\ admitted' \in Seq(Entry) /\ Len(admitted') = Len(log)
             /\ \A k \in 1..Len(log) : /\ admitted'[k].msg = log[k].msg /\ admitted'[k].conn = log[k].conn
                                       /\ admitted'[k].at = log[k].at /\ admitted'[k].ttl = log[k].ttl
  <2> DEFINE marked == [log[x] EXCEPT !.kept = TRUE]
  <2>0. admitted' = [log EXCEPT ![x] = marked]
    BY <1>2
  <2>1. x \in 1..Len(log) => /\ marked \in Entry
                             /\ marked.msg = log[x].msg /\ marked.conn = log[x].conn
                             /\ marked.at = log[x].at /\ marked.ttl = log[x].ttl
    <3>1. x \in 1..Len(log) => log[x] \in Entry
      BY SMTT(30)
    <3> QED
      BY <3>1 DEF Entry
  <2> HIDE DEF marked
  <2>2. admitted' \in Seq(Entry) /\ Len(admitted') = Len(log)
    <3>1. Len(log) \in Nat /\ log \in [1..Len(log) -> Entry]
      BY SMTT(30)
    <3>2. admitted' \in [1..Len(log) -> Entry]
      BY <2>0, <2>1, <3>1
    <3> QED
      BY <3>1, <3>2, SMTT(30)
  <2>3. \A k \in 1..Len(log) : admitted'[k] = IF k = x THEN marked ELSE log[k]
    BY <2>0, SMTT(30)
  <2> QED
    BY <2>1, <2>2, <2>3
<1> QED
  BY <1>1, <1>2 DEF RouteMessage

LEMMA LogStep ==
  ASSUME CoreInv, LogInv, [Next]_vars
  PROVE  LogInv'
<1>0. admitted \in Seq(Entry) /\ now \in Nat /\ cfg.ttl \in Nat
  BY Facts DEF LogInv, LogGood, CoreInv, TableType
<1>a. ASSUME admitted' \in Seq(Entry), Len(admitted') = Len(admitted),
             \A k \in 1..Len(admitted) :
               /\ admitted'[k].msg = admitted[k].msg /\ admitted'[k].conn = admitted[k].conn
               /\ admitted'[k].at = admitted[k].at /\ admitted'[k].ttl = admitted[k].ttl,
             \A c \in Conn : handler'[c].at = "admit" => handler'[c] = handler[c],
             UNCHANGED <<seen, now>>
      PROVE  LogInv'
  BY <1>a, SameLog DEF LogInv
<1>b. ASSUME NEW c \in Conn, UNCHANGED <<seen, now>>,
             Done(c) \/ \E p, m, f : p # "admit" /\ Goto(c, p, m, f),
             UNCHANGED admitted \/ \E m : RouteMessage(c, m, admitted)
      PROVE  LogInv'
  <2>1. \A d \in Conn : handler'[d].at = "admit" => handler'[d] = handler[d]
    <3>1. CASE Done(c)
      BY <3>1, DoneFacts DEF CoreInv
    <3>2. ASSUME NEW p, NEW m, NEW f, p # "admit", Goto(c, p, m, f)
          PROVE  handler'[c].at = p /\ \A d \in Conn : d # c => handler'[d] = handler[d]
      BY <3>2 DEF Goto, CoreInv, HandlerType
    <3> QED
      BY <1>b, <3>1, <3>2
  <2>2. CASE UNCHANGED admitted
    BY <1>0, <1>a, <1>b, <2>1, <2>2
  <2>3. ASSUME NEW m, RouteMessage(c, m, admitted) PROVE LogInv'
    BY <1>0, <1>a, <1>b, <2>1, <2>3, RouteLog
  <2> QED
    BY <1>b, <2>2, <2>3
<1>1. ASSUME NEW c \in Conn, NEW m \in Message, Peek(c, m) PROVE LogInv'
  <2>1. /\ UNCHANGED <<admitted, now>> /\ seen' = PruneSeen(seen, now)
        /\ \/ UNCHANGED handler
           \/ m \notin DOMAIN PruneSeen(seen, now) /\ Goto(c, "admit", m, Nil)
    BY <1>1 DEF Peek
  <2>2. /\ \A d \in Conn : d # c => handler'[d] = handler[d]
        /\ handler'[c] = handler[c] \/ handler'[c].msg \notin DOMAIN PruneSeen(seen, now)
    <3>1. CASE UNCHANGED handler
      BY <3>1
    <3>2. CASE m \notin DOMAIN PruneSeen(seen, now) /\ Goto(c, "admit", m, Nil)
      <4>1. "admit" \in At /\ HandlerType
        BY DEF CoreInv, At
      <4>2. handler'[c] = [at |-> "admit", msg |-> m, found |-> Nil]
            /\ \A d \in Conn : d # c => handler'[d] = handler[d]
        BY <3>2, <4>1, GotoFacts, SMTT(30)
      <4> QED
        BY <3>2, <4>2, SMTT(30)
    <3> QED
      BY <2>1, <3>1, <3>2
  <2>3. LogGood(admitted, PruneSeen(seen, now), handler', now)
    BY <2>2, PeekLog DEF LogInv
  <2> QED
    BY <2>1, <2>3 DEF LogInv
<1>2. ASSUME NEW c \in Conn, Admit(c) PROVE LogInv'
  <2> DEFINE m == handler[c].msg
             entry == [msg |-> m, conn |-> c, at |-> now, ttl |-> cfg.ttl, kept |-> FALSE]
             log == Append(admitted, entry)
  <2>0. handler[c].at = "admit" /\ m \in Message /\ now' = now
    BY <1>2 DEF Admit, CoreInv, HandlerType
  <2>1. \/ Done(c) /\ UNCHANGED <<seen, admitted>>
        \/ /\ seen' = Record(seen, m, cfg.ttl, now)
           /\ \/ Goto(c, "look", m, Nil) /\ admitted' = log
              \/ Done(c) /\ RouteMessage(c, m, log)
    BY <1>2 DEF Admit
  <2>2. CASE Done(c) /\ UNCHANGED <<seen, admitted>>
    BY <1>b, <2>0, <2>2
  <2>3. CASE /\ seen' = Record(seen, m, cfg.ttl, now)
             /\ \/ Goto(c, "look", m, Nil) /\ admitted' = log
                \/ Done(c) /\ RouteMessage(c, m, log)
    <3>1. handler'[c].at # "admit" /\ \A d \in Conn : d # c => handler'[d] = handler[d]
      <4>0. HandlerType /\ "look" \in At
        BY DEF CoreInv, At
      <4>1. CASE Done(c)
        BY <4>0, <4>1, DoneFacts
      <4>2. CASE Goto(c, "look", m, Nil)
        <5>1. /\ handler'[c] = [at |-> "look", msg |-> m, found |-> Nil]
              /\ \A d \in Conn : d # c => handler'[d] = handler[d]
          BY <2>0, <4>0, <4>2, GotoFacts, SMTT(30)
        <5> QED
          BY <5>1, SMTT(30)
      <4> QED
        BY <2>3, <4>1, <4>2
    <3>2. LogGood(log, seen', handler', now)
      BY <1>0, <2>0, <2>3, <3>1, AdmitLog DEF LogInv
    <3>3. log \in Seq(Entry)
      BY <3>2 DEF LogGood
    <3> HIDE DEF log, m
    <3>4. CASE admitted' = log
      BY <2>0, <3>2, <3>4 DEF LogInv
    <3>5. CASE RouteMessage(c, m, log)
      <4>1. LogGood(admitted', seen', handler', now)
        BY <3>2, <3>3, <3>5, RouteLog, SameLog
      <4> QED
        BY <2>0, <4>1 DEF LogInv
    <3> QED
      BY <2>3, <3>4, <3>5
  <2> QED
    BY <2>1, <2>2, <2>3
<1>3. ASSUME NEW c \in Conn, Look(c) \/ Confirm(c) PROVE LogInv'
  <2>1. /\ UNCHANGED <<seen, now, admitted>>
        /\ \/ Done(c) \/ Goto(c, "note", handler[c].msg, Nil)
           \/ \E ch : Goto(c, "confirm", handler[c].msg, ch)
    BY <1>3 DEF Look, Confirm, gates
  <2> QED
    BY <1>b, <2>1
<1>4. ASSUME NEW c \in Conn, Note(c) \/ Revoke(c) PROVE LogInv'
  <2>1. /\ UNCHANGED <<seen, now>>
        /\ \/ Done(c) /\ RouteMessage(c, handler[c].msg, admitted)
           \/ Goto(c, "revoke", handler[c].msg, Nil) /\ UNCHANGED admitted
    BY <1>4 DEF Note, Revoke
  <2> QED
    BY <1>b, <2>1
<1>5. ASSUME \/ \E q \in Requests : InitiateLink(q[1], q[2])
             \/ \E code \in Code : CreateChallenge(code)
             \/ \E l \in links : DeleteLink(l)
             \/ PurgeExpiredChallenges \/ \E s \in Settings : ApplyConfig(s)
             \/ UNCHANGED vars
      PROVE  LogInv'
  <2>1. UNCHANGED <<admitted, seen, handler, now>>
    BY <1>5 DEF InitiateLink, CreateChallenge, DeleteLink, PurgeExpiredChallenges, ApplyConfig, gates, vars
  <2> QED
    BY <2>1 DEF LogInv
<1>6. CASE Restart
  <2>1. admitted' = <<>> /\ seen' = <<>> /\ now' = now
    BY <1>6 DEF Restart
  <2> QED
    BY <1>0, <2>1, SMTT(30) DEF LogInv, LogGood
<1>7. CASE Tick
  <2>1. UNCHANGED <<admitted, seen, handler>> /\ now' = now + 1
    BY <1>7 DEF Tick, gates
  <2> QED
    BY <2>1, LaterLog DEF LogInv
<1> QED
  BY <1>1, <1>2, <1>3, <1>4, <1>5, <1>6, <1>7 DEF Next

(* ------------------------------ the theorems ---------------------------- *)

IngressInv == CoreInv /\ BudgetInv /\ LogInv

LEMMA IngressInvariant == Spec => []IngressInv
<1>1. Init => IngressInv
  <2> SUFFICES ASSUME Init PROVE IngressInv
    OBVIOUS
  <2> USE DEF Init
  <2>1. HandlerType /\ MatchInv
    BY DEF HandlerType, MatchInv, Idle, NoCommand, At
  <2>2. TableType /\ OneLinkPerIdentity
    BY DEF TableType, OneLinkPerIdentity
  <2>3. BudgetInv
    BY DEF BudgetInv, Live, NoCommand
  <2>4. LogInv
    BY SMTT(30) DEF LogInv, LogGood
  <2> QED
    BY <2>1, <2>2, <2>3, <2>4 DEF IngressInv, CoreInv
<1>2. IngressInv /\ [Next]_vars => IngressInv'
  BY CoreStep, BudgetStep, LogStep DEF IngressInv
<1> QED
  BY <1>1, <1>2, PTL DEF Spec

\* What ingress writes holds: between two stored copies of a message on one connection lies
\* the ttl of the first, no identity is in two links, and no live challenge has been guessed
\* at more often than its budget allows unless its revocation is under way.
THEOREM StoreIsSound == Spec => []StoreHolds
<1>1. IngressInv => StoreHolds
  <2> SUFFICES ASSUME IngressInv PROVE StoreHolds
    OBVIOUS
  <2>1. GuessesBounded /\ OneLinkPerIdentity
    BY BudgetHolds DEF IngressInv, CoreInv
  <2>2. ASSUME NEW j \in DOMAIN admitted, NEW k \in DOMAIN admitted, j < k,
               admitted[j].msg = admitted[k].msg, admitted[j].conn = admitted[k].conn,
               \A i \in j+1..k-1 : admitted[i].msg # admitted[j].msg
        PROVE  admitted[k].at - admitted[j].at >= admitted[j].ttl
    <3>1. admitted \in Seq(Entry) /\ DOMAIN admitted = 1..Len(admitted)
      BY SMTT(30) DEF IngressInv, LogInv, LogGood
    <3> QED
      BY <2>2, <3>1 DEF IngressInv, LogInv, LogGood, Over
  <2>3. StoredOnce
    BY <2>2 DEF StoredOnce
  <2> QED
    BY <2>1, <2>3 DEF StoreHolds
<1> QED
  BY <1>1, IngressInvariant, PTL

\* What a step of ingress takes effect by was earned: a copy is dropped only for one that
\* passed both gates and whose ttl is running, and a link is made only by a reply of its
\* target with the code of a challenge that has not expired.
THEOREM EffectsAreEarned == Spec => EffectsEarned
<1>1. IngressInv /\ [Next]_vars => [DuplicateWasAdmitted /\ ConfirmedByTarget]_vars
  <2> SUFFICES ASSUME IngressInv, Next PROVE DuplicateWasAdmitted /\ ConfirmedByTarget
    OBVIOUS
  <2>1. DuplicateWasAdmitted
    <3> SUFFICES ASSUME NEW m \in Message, sends' # sends, handler' = handler, m \in DOMAIN seen'
                 PROVE  \E k \in DOMAIN admitted :
                          admitted[k].msg = m /\ now - admitted[k].at < admitted[k].ttl
      BY DEF DuplicateWasAdmitted
    <3>1. PICK c \in Conn, x \in Message : Peek(c, x)
      BY DEF Next, Admit, Look, Confirm, Note, Revoke, InitiateLink, CreateChallenge, DeleteLink,
             PurgeExpiredChallenges, ApplyConfig, Restart, Tick
    <3>2. m \in DOMAIN seen /\ now - seen[m].at < seen[m].ttl
      BY <3>1 DEF Peek, PruneSeen
    <3>3. PICK k \in 1..Len(admitted) : /\ admitted[k].msg = m /\ seen[m].at = admitted[k].at
                                        /\ seen[m].ttl = admitted[k].ttl
      BY <3>2 DEF IngressInv, LogInv, LogGood
    <3>4. DOMAIN admitted = 1..Len(admitted)
      BY SMTT(30) DEF IngressInv, LogInv, LogGood
    <3> QED
      BY <3>2, <3>3, <3>4
  <2>2. ConfirmedByTarget
    <3> SUFFICES ASSUME NEW l \in links' \ links
                 PROVE  \E c \in Conn : /\ handler[c].at = "confirm" /\ handler'[c].at = "idle"
                                        /\ handler[c].msg.sender = l.a
                                        /\ handler[c].found.code = handler[c].msg.body
                                        /\ handler[c].found.expires > now
      BY DEF ConfirmedByTarget
    <3>1. PICK c \in Conn : Confirm(c)
      BY DEF Next, Peek, Admit, Look, Note, Revoke, InitiateLink, CreateChallenge, DeleteLink,
             PurgeExpiredChallenges, ApplyConfig, Restart, Tick, tables
    <3>2. handler[c].at = "confirm" /\ handler'[c].at = "idle"
      BY <3>1, DoneFacts DEF Confirm, IngressInv, CoreInv
    <3>3. l.a = handler[c].found.target
      BY <3>1, SMTT(30) DEF Confirm, Replace
    <3> QED
      BY <3>2, <3>3 DEF IngressInv, CoreInv, MatchInv
  <2> QED
    BY <2>1, <2>2
<1> QED
  BY <1>1, IngressInvariant, PTL DEF Spec, EffectsEarned
=============================================================================
