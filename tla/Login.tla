-------------------------------- MODULE Login --------------------------------
(***************************************************************************)
(* Social login: ProviderVerificationService, which checks what a client   *)
(* brings from a provider, and AuthService.socialLogin, which finds or     *)
(* makes the user behind it.                                               *)
(*                                                                         *)
(* The provider rotates its signing keys.  The service keeps the discovery *)
(* document and the key set it fetched for CacheTTL in two maps of its     *)
(* process, reads the identity in one statement and writes it in a later   *)
(* transaction.  A request is one action per await: a request to the       *)
(* provider, a statement or a transaction.                                 *)
(*                                                                         *)
(* Time is in ticks, and a tick is a stretch of time: what happens in a    *)
(* tick happens at some moment of it, and an entry that expires in a tick  *)
(* may in that tick still be used or have expired already.                 *)
(*                                                                         *)
(* The module is of one provider and of production, where env.validation   *)
(* refuses to start with the development bridge on.  A display name is     *)
(* kept by the rules of the email address and is left out; so are the      *)
(* times of the last login.                                                *)
(***************************************************************************)
EXTENDS Integers, FiniteSets

CONSTANTS
  Subjects,   \* users of the provider
  Users,      \* the user ids the database will produce
  Emails,     \* addresses a provider reports
  Kids,       \* the signing keys the provider will ever use
  Reqs,       \* request slots
  Payloads,   \* the provider payloads clients send
  Ops,        \* "deleteUser": user rows are removed outside the API
  CacheTTL,   \* one hour, in ticks
  FetchTime,  \* bound: the ticks an answer of the provider may be on its way. The code
              \* sets no timeout: fetch's own are 300 s to the headers and between chunks
  MaxTime,    \* bound: the last tick
  NoUser, NoEmail, NoKid, NoSubject

ASSUME LoginAssumption ==
  /\ CacheTTL \in Nat \ {0} /\ FetchTime \in Nat /\ MaxTime \in Nat
  /\ NoUser \notin Users /\ NoEmail \notin Emails
  /\ NoKid \notin Kids /\ NoSubject \notin Subjects

VARIABLES
  clock,
  published,  \* the keys in the provider's key set
  discovery,  \* discoveryCache: the tick in which the document's entry expires
  jwks,       \* jwksCache: the keys of the entry and the tick in which it expires
  identity,   \* rows of auth_identities, by subject
  user,       \* rows of users, by id
  req,        \* the logins in flight
  sessions    \* what createSession was called with: the user, and the subject

\* History: when a key was published and withdrawn, the users that existed.
VARIABLES publishedAt, withdrawnAt, born

vars == <<clock, published, discovery, jwks, identity, user, req, sessions,
          publishedAt, withdrawnAt, born>>

-----------------------------------------------------------------------------
Times == 0..MaxTime
Never == MaxTime + 1
NoEntry == -1    \* what an empty cache has for an entry's expiry

\* What the code tells apart in a provider payload: the fields that are there,
\* and what the id_token says or, for a Kakao access token, what Kakao answers.
\* exp is the first tick in which the token is no longer accepted.
Payload == [fields : SUBSET {"id_token", "access_token", "authorization_code"},
            kakao : BOOLEAN, rs256 : BOOLEAN, kid : Kids \cup {NoKid}, signed : BOOLEAN,
            ours : BOOLEAN, nonce : BOOLEAN, exp : Nat, sub : Subjects, email : Emails \cup {NoEmail}]

ASSUME PayloadsAssumption == Payloads \subseteq Payload

Identity == [user : Users, email : Emails \cup {NoEmail}]
NoIdentity == [user |-> NoUser, email |-> NoEmail]
User == [live : BOOLEAN, email : Emails \cup {NoEmail}]
NoRow == [live |-> FALSE, email |-> NoEmail]

FetchStages == {"discovery", "jwks", "fetched", "kakao"}
Stages == {"idle", "find", "update", "create", "session"} \cup FetchStages

\* A login in flight: its payload; the key set on its way and when the provider
\* sent it; the identity and the user's email it read; the user it ended with.
Blank == [pc |-> "idle", sub |-> NoSubject, email |-> NoEmail, kid |-> NoKid,
          signed |-> FALSE, exp |-> 0, claims |-> FALSE, keys |-> {}, since |-> 0,
          row |-> NoIdentity, seen |-> NoEmail, user |-> NoUser]
Request == [pc : Stages, sub : Subjects \cup {NoSubject}, email : Emails \cup {NoEmail},
            kid : Kids \cup {NoKid}, signed : BOOLEAN, exp : Nat, claims : BOOLEAN,
            keys : SUBSET Kids, since : Times,
            row : Identity \cup {NoIdentity}, seen : Emails \cup {NoEmail},
            user : Users \cup {NoUser}]

At(r, pc) == req[r].pc = pc
Goto(r, pc) == req' = [req EXCEPT ![r].pc = pc]
Refuse(r) == req' = [req EXCEPT ![r] = Blank]
Given(x, else) == IF x = NoEmail THEN else ELSE x    \* x ?? else

-----------------------------------------------------------------------------
(* verify: which branch a payload takes.  Everything else is refused before *)
(* any await: a code, and with the bridge off whatever is left.             *)
Route(p) ==
  IF "id_token" \in p.fields THEN "id_token"
  ELSE IF "access_token" \in p.fields /\ p.kakao THEN "kakao"
  ELSE "refused"

\* parseJwt: three parts, RS256 and a kid.
ParsesJwt(p) == p.rs256 /\ p.kid # NoKid

\* Fault: an entry is used whatever its age.
HitAnyAge(entry, now) == entry # NoEntry
(* getJsonWithCache: an entry that may not have expired yet, through the    *)
(* tick in which it does.                                                   *)
Hit(entry, now) == entry >= now

(* getJsonWithCache: there is no entry, or it may have expired already.     *)
Miss(entry, now) == entry <= now

\* Fault: entries are kept for twice the time.
ExpiresLate(now) == now + 2 * CacheTTL
(* getJsonWithCache: an entry made now, when the answer is here.            *)
Expires(now) == now + CacheTTL

(* getSigningKey and verifyJwtSignature: the key of the token's kid is in the *)
(* set, and the signature is that key's.                                    *)
SignedBy(r, keys) == req[r].kid \in keys /\ req[r].signed

(* validateJwtClaims, once the signature was checked: issuer, audience,     *)
(* expiry, and the nonce when the client sent one.                          *)
ClaimsHold(r) == req[r].claims /\ req[r].exp > clock

(* verifyOpenIdToken with the key set in hand: the login goes on or is      *)
(* refused.                                                                 *)
CheckToken(r, keys) ==
  IF SignedBy(r, keys) /\ ClaimsHold(r)
  THEN req' = [req EXCEPT ![r].pc = "find", ![r].keys = {}, ![r].since = 0]
  ELSE Refuse(r)

(* socialLogin up to the first await of verify.                             *)
Begin(r, p) ==
  /\ At(r, "idle")
  /\ \/ Route(p) = "id_token" /\ ParsesJwt(p)
     \/ Route(p) = "kakao"
  /\ req' = [req EXCEPT ![r] = [Blank EXCEPT
               !.pc = IF Route(p) = "kakao" THEN "kakao" ELSE "discovery",
               !.sub = p.sub, !.email = p.email,
               !.kid = IF Route(p) = "kakao" THEN NoKid ELSE p.kid,
               !.signed = p.signed, !.exp = p.exp, !.claims = p.ours /\ p.nonce]]
  /\ UNCHANGED <<clock, published, discovery, jwks, identity, user, sessions,
                 publishedAt, withdrawnAt, born>>

(* verifyKakaoAccessToken: Kakao says who the token is for, or refuses.     *)
KakaoAnswers(r) ==
  /\ At(r, "kakao")
  /\ Goto(r, "find") \/ Refuse(r)
  /\ UNCHANGED <<clock, published, discovery, jwks, identity, user, sessions,
                 publishedAt, withdrawnAt, born>>

(* getOpenIdConfiguration: from the cache, or fetched and cached, or a 503. *)
(* The document never changes, so only its entry is kept.                   *)
Discover(r) ==
  /\ At(r, "discovery")
  /\ \/ Hit(discovery, clock) /\ Goto(r, "jwks") /\ UNCHANGED discovery
     \/ Miss(discovery, clock) /\ Goto(r, "jwks") /\ discovery' = Expires(clock)
     \/ Miss(discovery, clock) /\ Refuse(r) /\ UNCHANGED discovery
  /\ UNCHANGED <<clock, published, jwks, identity, user, sessions,
                 publishedAt, withdrawnAt, born>>

(* getSigningKey with a cached key set: an unknown kid does not fetch it    *)
(* again.                                                                   *)
UseCachedKeys(r) ==
  /\ At(r, "jwks") /\ Hit(jwks.expires, clock)
  /\ CheckToken(r, jwks.keys)
  /\ UNCHANGED <<clock, published, discovery, jwks, identity, user, sessions,
                 publishedAt, withdrawnAt, born>>

(* The loader of getSigningKey: the provider sends its key set, or fails.   *)
FetchKeys(r) ==
  /\ At(r, "jwks") /\ Miss(jwks.expires, clock)
  /\ \/ req' = [req EXCEPT ![r].pc = "fetched", ![r].keys = published, ![r].since = clock]
     \/ Refuse(r)
  /\ UNCHANGED <<clock, published, discovery, jwks, identity, user, sessions,
                 publishedAt, withdrawnAt, born>>

(* The answer arrives and is cached, over whatever another login cached     *)
(* meanwhile.                                                               *)
CacheKeys(r) ==
  /\ At(r, "fetched")
  /\ jwks' = [keys |-> req[r].keys, expires |-> Expires(clock)]
  /\ CheckToken(r, req[r].keys)
  /\ UNCHANGED <<clock, published, discovery, identity, user, sessions,
                 publishedAt, withdrawnAt, born>>

-----------------------------------------------------------------------------
(* socialLogin: the identity of the subject with its user.                  *)
FindIdentity(r) ==
  /\ At(r, "find")
  /\ LET row == identity[req[r].sub] IN
       IF row = NoIdentity
       THEN Goto(r, "create")
       ELSE req' = [req EXCEPT ![r].pc = "update", ![r].row = row,
                                ![r].seen = user[row.user].email]
  /\ UNCHANGED <<clock, published, discovery, jwks, identity, user, sessions,
                 publishedAt, withdrawnAt, born>>

(* updateExistingIdentity: what the user's address becomes.                 *)
PrimaryEmail(seen, reported) == Given(seen, reported)

(* updateExistingIdentity: one transaction, by ids; a row that is gone is   *)
(* P2025.  What it writes was computed from the rows read before.           *)
UpdateIdentity(r) ==
  LET row == req[r].row IN
  /\ At(r, "update")
  /\ IF ~user[row.user].live
     THEN Refuse(r) /\ UNCHANGED <<identity, user>>
     ELSE /\ identity' = [identity EXCEPT ![req[r].sub].email = Given(req[r].email, row.email)]
          /\ user' = [user EXCEPT ![row.user].email = PrimaryEmail(req[r].seen, req[r].email)]
          /\ req' = [req EXCEPT ![r].pc = "session", ![r].user = row.user]
  /\ UNCHANGED <<clock, published, discovery, jwks, sessions, publishedAt, withdrawnAt, born>>

\* Faults: no unique key on (provider, provider_user_id), so that another
\* identity takes the place of the first in every later read; the user row is
\* created outside the transaction, and stays when the identity is refused.
IdentityFreeAlways(s) == TRUE
(* The unique key of auth_identities.                                       *)
IdentityFree(s) == identity[s] = NoIdentity

\* Fault: see above.
RolledBackUserStays(u) == [user EXCEPT ![u] = [live |-> TRUE, email |-> NoEmail]]
(* The users after a transaction that was rolled back.                      *)
RolledBackUser(u) == user

(* createFirstIdentity: one transaction for the user and the identity; the  *)
(* unique key refuses a second identity of the subject (P2002).             *)
CreateIdentity(r, u) ==
  /\ At(r, "create") /\ u \notin born
  /\ IF IdentityFree(req[r].sub)
     THEN /\ user' = [user EXCEPT ![u] = [live |-> TRUE, email |-> req[r].email]]
          /\ identity' = [identity EXCEPT ![req[r].sub] = [user |-> u, email |-> req[r].email]]
          /\ req' = [req EXCEPT ![r].pc = "session", ![r].user = u]
          /\ born' = born \cup {u}
     ELSE user' = RolledBackUser(u) /\ Refuse(r) /\ UNCHANGED <<identity, born>>
  /\ UNCHANGED <<clock, published, discovery, jwks, sessions, publishedAt, withdrawnAt>>

(* socialLogin: createSession (the module Sessions) for the user it found.  *)
CreateSession(r) ==
  /\ At(r, "session")
  /\ sessions' = sessions \cup {[user |-> req[r].user, sub |-> req[r].sub]}
  /\ Refuse(r)
  /\ UNCHANGED <<clock, published, discovery, jwks, identity, user,
                 publishedAt, withdrawnAt, born>>

-----------------------------------------------------------------------------
(* The provider: a key is published once and withdrawn once.                *)
Publish(k) ==
  /\ publishedAt[k] = Never
  /\ published' = published \cup {k}
  /\ publishedAt' = [publishedAt EXCEPT ![k] = clock]
  /\ UNCHANGED <<clock, discovery, jwks, identity, user, req, sessions, withdrawnAt, born>>

Withdraw(k) ==
  /\ k \in published
  /\ published' = published \ {k}
  /\ withdrawnAt' = [withdrawnAt EXCEPT ![k] = clock]
  /\ UNCHANGED <<clock, discovery, jwks, identity, user, req, sessions, publishedAt, born>>

(* A row of users removed outside the API; its identity goes with it        *)
(* (onDelete: Cascade).                                                     *)
DeleteUser(u) ==
  /\ "deleteUser" \in Ops /\ user[u].live
  /\ user' = [user EXCEPT ![u] = NoRow]
  /\ identity' = [s \in Subjects |-> IF identity[s].user = u THEN NoIdentity ELSE identity[s]]
  /\ UNCHANGED <<clock, published, discovery, jwks, req, sessions, publishedAt, withdrawnAt, born>>

(* Time passes, and no answer of the provider is on its way for more than   *)
(* FetchTime.                                                               *)
Tick ==
  /\ clock < MaxTime
  /\ \A r \in Reqs : At(r, "fetched") => clock < req[r].since + FetchTime
  /\ clock' = clock + 1
  /\ UNCHANGED <<published, discovery, jwks, identity, user, req, sessions,
                 publishedAt, withdrawnAt, born>>

Init ==
  /\ clock = 0
  /\ published = {} /\ discovery = NoEntry /\ jwks = [keys |-> {}, expires |-> NoEntry]
  /\ identity = [s \in Subjects |-> NoIdentity]
  /\ user = [u \in Users |-> NoRow]
  /\ req = [r \in Reqs |-> Blank]
  /\ sessions = {} /\ born = {}
  /\ publishedAt = [k \in Kids |-> Never] /\ withdrawnAt = [k \in Kids |-> Never]

Continue(r) ==
  \/ KakaoAnswers(r) \/ Discover(r) \/ UseCachedKeys(r) \/ FetchKeys(r) \/ CacheKeys(r)
  \/ FindIdentity(r) \/ UpdateIdentity(r) \/ CreateSession(r)
  \/ \E u \in Users : CreateIdentity(r, u)

Next ==
  \/ \E r \in Reqs : Continue(r) \/ \E p \in Payloads : Begin(r, p)
  \/ \E k \in Kids : Publish(k) \/ Withdraw(k)
  \/ \E u \in Users : DeleteUser(u)
  \/ Tick

Spec == Init /\ [][Next]_vars
-----------------------------------------------------------------------------
(* Types.                                                                   *)
TypeOK ==
  /\ clock \in Times
  /\ published \in SUBSET Kids
  /\ discovery \in Nat \cup {NoEntry}
  /\ jwks \in [keys : SUBSET Kids, expires : Nat \cup {NoEntry}]
  /\ identity \in [Subjects -> Identity \cup {NoIdentity}]
  /\ user \in [Users -> User]
  /\ req \in [Reqs -> Request]
  /\ sessions \in SUBSET [user : Users, sub : Subjects]
  /\ publishedAt \in [Kids -> Times \cup {Never}]
  /\ withdrawnAt \in [Kids -> Times \cup {Never}]
  /\ born \in SUBSET Users

(* A user of the API and a user of the provider are one person: first logins *)
(* that race leave one user and one identity, and no user that nobody can    *)
(* log in as (createFirstIdentity).                                          *)
UsersAreIdentities ==
  /\ \A u \in Users : user[u].live => \E s \in Subjects : identity[s].user = u
  /\ \A s \in Subjects : identity[s] # NoIdentity => user[identity[s].user].live
  /\ \A s, t \in Subjects :
       identity[s] # NoIdentity /\ identity[s].user = identity[t].user => s = t

(* A session is of the user the verified subject leads to, however much      *)
(* happened between the verification and createSession.                      *)
SessionsAreOfTheSubject ==
  \A x \in sessions : user[x.user].live => identity[x.sub].user = x.user

\* The token was checked against a key set, and accepted or refused.
Checked(r) == UseCachedKeys(r) \/ CacheKeys(r)
Accepted(r) == Checked(r) /\ req'[r].pc = "find"
Rejected(r) == Checked(r) /\ req'[r].pc = "idle"

(* A key the provider withdrew is accepted for an hour and one fetch at most, *)
(* whichever login's answer was cached last: the entry's hour begins when the *)
(* answer arrives, and the provider may withdraw the key as soon as it has    *)
(* sent it.                                                                   *)
WithdrawnKeyIsRefused ==
  [][\A r \in Reqs : Accepted(r) /\ req[r].kid \notin published
        => clock - withdrawnAt[req[r].kid] <= CacheTTL + FetchTime]_vars

(* A key the provider has had for longer than an hour and one fetch is found: *)
(* the cached set, which an unknown kid does not refresh, hides a new key no  *)
(* longer than that.                                                          *)
NewKeyIsFound ==
  [][\A r \in Reqs : Rejected(r) /\ req[r].signed /\ ClaimsHold(r) /\ req[r].kid \in published
        => clock - publishedAt[req[r].kid] <= CacheTTL + FetchTime]_vars
=============================================================================
