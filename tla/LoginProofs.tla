----------------------------- MODULE LoginProofs -----------------------------
(***************************************************************************)
(* Login, for any subjects, users, keys and payloads, any number of logins *)
(* and any times that an entry lives and an answer takes.                  *)
(*                                                                         *)
(* Identities: a user id is made once, so a user that a login has read and *)
(* that is still there is the one its subject leads to.  Keys: an answer   *)
(* is at most FetchTime old when its entry is made, so whatever the        *)
(* provider has changed since it was sent, it changed within CacheTTL and  *)
(* FetchTime before the entry expires.                                     *)
(***************************************************************************)
EXTENDS Login, TLAPS

\* The user is gone or the subject leads to it.
LeadsTo(s, u) == s \in Subjects /\ u \in born /\ (user[u].live => identity[s].user = u)

\* What the provider changed of keys since the time t, or a little before, it
\* changed at t at the earliest.
ChangedSince(keys, t) ==
  /\ \A k \in keys \ published : withdrawnAt[k] >= t
  /\ \A k \in published \ keys : publishedAt[k] >= t

RequestIsSound(r) ==
  /\ ~At(r, "idle") => req[r].sub \in Subjects
  /\ At(r, "update") => req[r].row \in Identity /\ LeadsTo(req[r].sub, req[r].row.user)
  /\ At(r, "session") => LeadsTo(req[r].sub, req[r].user)
  /\ At(r, "fetched") => /\ req[r].since <= clock /\ clock <= req[r].since + FetchTime
                         /\ ChangedSince(req[r].keys, req[r].since)

RequestsAreSound == \A r \in Reqs : RequestIsSound(r)

SessionsAreSound == \A x \in sessions : LeadsTo(x.sub, x.user)

LiveUsersWereBorn == \A u \in Users : user[u].live => u \in born

CacheIsRecent ==
  /\ jwks.expires <= clock + CacheTTL
  /\ ChangedSince(jwks.keys, jwks.expires - CacheTTL - FetchTime)

IInv ==
  /\ TypeOK /\ RequestsAreSound /\ SessionsAreSound /\ LiveUsersWereBorn
  /\ UsersAreIdentities /\ CacheIsRecent

LEMMA EmptyRecords ==
  /\ Blank \in Request /\ Blank.pc = "idle"
  /\ NoRow \in User /\ NoRow.live = FALSE
  /\ NoIdentity.user = NoUser /\ \A row \in Identity : row.user # NoUser /\ row # NoIdentity
<1>1. Blank \in Request /\ Blank.pc = "idle"
  BY LoginAssumption DEF Blank, Request, Stages, FetchStages, Times
<1>2. NoRow \in User /\ NoRow.live = FALSE
  BY DEF NoRow, User
<1>3. NoIdentity.user = NoUser /\ \A row \in Identity : row.user # NoUser /\ row # NoIdentity
  BY LoginAssumption DEF NoIdentity, Identity
<1> QED BY <1>1, <1>2, <1>3

(* A login reads, is refused, or writes the caches or a session.            *)
LEMMA RequestStep ==
  ASSUME IInv, NEW r \in Reqs, NEW next \in Request, req' = [req EXCEPT ![r] = next],
         UNCHANGED <<clock, published, publishedAt, withdrawnAt, identity, user, born>>,
         discovery' \in Nat \cup {NoEntry},
         jwks' \in [keys : SUBSET Kids, expires : Nat \cup {NoEntry}], CacheIsRecent',
         sessions' \in SUBSET [user : Users, sub : Subjects], SessionsAreSound',
         req'[r] = next => RequestIsSound(r)'
  PROVE  IInv'
<1>1. req' \in [Reqs -> Request] /\ req'[r] = next /\ \A q \in Reqs \ {r} : req'[q] = req[q]
  BY DEF IInv, TypeOK
<1>2. TypeOK'
  BY <1>1 DEF IInv, TypeOK
<1>3. ASSUME NEW q \in Reqs \ {r} PROVE RequestIsSound(q)'
  <2>1. RequestIsSound(q) /\ req'[q] = req[q]
    BY <1>1 DEF IInv, RequestsAreSound
  <2> QED BY <2>1 DEF RequestIsSound, At, LeadsTo, ChangedSince
<1>4. LiveUsersWereBorn' /\ UsersAreIdentities'
  BY DEF IInv, LiveUsersWereBorn, UsersAreIdentities
<1> QED BY <1>1, <1>2, <1>3, <1>4 DEF IInv, RequestsAreSound

(* The same, when it writes neither.                                        *)
LEMMA ReadStep ==
  ASSUME IInv, NEW r \in Reqs, NEW next \in Request, req' = [req EXCEPT ![r] = next],
         UNCHANGED <<clock, published, publishedAt, withdrawnAt, identity, user, born, jwks, sessions>>,
         discovery' \in Nat \cup {NoEntry}, req'[r] = next => RequestIsSound(r)'
  PROVE  IInv'
<1>1. CacheIsRecent' /\ SessionsAreSound'
  BY DEF IInv, CacheIsRecent, ChangedSince, SessionsAreSound, LeadsTo
<1>2. /\ jwks' \in [keys : SUBSET Kids, expires : Nat \cup {NoEntry}]
      /\ sessions' \in SUBSET [user : Users, sub : Subjects]
  BY DEF IInv, TypeOK
<1> QED BY <1>1, <1>2, RequestStep

LEMMA RefuseStep ==
  ASSUME IInv, NEW r \in Reqs, Refuse(r),
         UNCHANGED <<clock, published, publishedAt, withdrawnAt, identity, user, born, jwks, sessions>>,
         discovery' \in Nat \cup {NoEntry}
  PROVE  IInv'
<1>1. req'[r] = Blank => RequestIsSound(r)'
  BY EmptyRecords DEF RequestIsSound, At
<1> QED BY <1>1, EmptyRecords, ReadStep DEF Refuse

(* A login that goes on with what it holds, towards a stage that asks for   *)
(* nothing but its subject.                                                 *)
LEMMA GotoStep ==
  ASSUME IInv, NEW r \in Reqs, ~At(r, "idle"), NEW pc \in {"find", "jwks", "create"}, Goto(r, pc),
         UNCHANGED <<clock, published, publishedAt, withdrawnAt, identity, user, born, jwks, sessions>>,
         discovery' \in Nat \cup {NoEntry}
  PROVE  IInv'
<1> DEFINE next == [req[r] EXCEPT !.pc = pc]
<1>1. req[r] \in Request /\ req[r].sub \in Subjects
  BY DEF IInv, TypeOK, RequestsAreSound, RequestIsSound
<1>2. next \in Request /\ next.pc = pc /\ next.sub = req[r].sub
  BY <1>1 DEF Request, Stages, FetchStages
<1>3. req' = [req EXCEPT ![r] = next]
  BY DEF Goto
<1> HIDE DEF next
<1>4. req'[r] = next => RequestIsSound(r)'
  BY <1>1, <1>2 DEF RequestIsSound, At
<1> QED BY <1>2, <1>3, <1>4, ReadStep

(* The token is checked against keys: the login goes on or is refused.      *)
LEMMA CheckedRequest ==
  ASSUME IInv, NEW r \in Reqs, ~At(r, "idle"), NEW keys, CheckToken(r, keys)
  PROVE  \E next \in Request : /\ req' = [req EXCEPT ![r] = next]
                               /\ next.pc \in {"idle", "find"} /\ (next.pc = "find" => next.sub \in Subjects)
<1>1. req[r] \in Request /\ req[r].sub \in Subjects
  BY DEF IInv, TypeOK, RequestsAreSound, RequestIsSound
<1> DEFINE next == [req[r] EXCEPT !.pc = "find", !.keys = {}, !.since = 0]
<1>2. next \in Request /\ next.pc = "find" /\ next.sub = req[r].sub
  <2>1. 0 \in Times /\ {} \in SUBSET Kids /\ "find" \in Stages
    BY LoginAssumption DEF Times, Stages
  <2> QED BY <1>1, <2>1 DEF Request
<1>3. req' = [req EXCEPT ![r] = next] \/ req' = [req EXCEPT ![r] = Blank]
  BY DEF CheckToken, Refuse
<1> HIDE DEF next
<1> QED BY <1>1, <1>2, <1>3, EmptyRecords

LEMMA VerifySteps ==
  ASSUME IInv, NEW r \in Reqs,
         \/ \E p \in Payloads : Begin(r, p)
         \/ KakaoAnswers(r) \/ Discover(r) \/ UseCachedKeys(r) \/ FetchKeys(r) \/ CacheKeys(r)
  PROVE  IInv'
<1>t. TypeOK /\ RequestIsSound(r) /\ req[r] \in Request /\ CacheIsRecent
  BY DEF IInv, TypeOK, RequestsAreSound
<1>n. /\ discovery \in Nat \cup {NoEntry} /\ clock \in Times /\ clock \in Nat
      /\ Expires(clock) \in Nat /\ FetchTime \in Nat
  BY <1>t, LoginAssumption DEF TypeOK, Times, Expires
<1>1. ASSUME NEW p \in Payloads, Begin(r, p) PROVE IInv'
  <2> DEFINE pc == IF Route(p) = "kakao" THEN "kakao" ELSE "discovery"
             kid == IF Route(p) = "kakao" THEN NoKid ELSE p.kid
             claims == p.ours /\ p.nonce
             next == [Blank EXCEPT !.pc = pc, !.sub = p.sub, !.email = p.email, !.kid = kid,
                                   !.signed = p.signed, !.exp = p.exp, !.claims = claims]
  <2>1. p \in Payload
    BY PayloadsAssumption
  <2>2. p.sub \in Subjects /\ kid \in Kids \cup {NoKid} /\ claims \in BOOLEAN
        /\ p.email \in Emails \cup {NoEmail} /\ p.signed \in BOOLEAN /\ p.exp \in Nat
    BY <2>1 DEF Payload
  <2>3. pc \in {"kakao", "discovery"} /\ pc \in Stages
    BY DEF Stages, FetchStages
  <2>4. req' = [req EXCEPT ![r] = next]
    BY <1>1 DEF Begin
  <2> HIDE DEF pc, kid, claims
  <2>5. next \in Request /\ next.pc = pc /\ next.sub = p.sub
    BY <2>2, <2>3, EmptyRecords DEF Request
  <2> HIDE DEF next
  <2>6. req'[r] = next => RequestIsSound(r)'
    BY <2>2, <2>3, <2>5 DEF RequestIsSound, At
  <2> QED BY <1>1, <1>n, <2>4, <2>5, <2>6, ReadStep DEF Begin
<1>2. CASE KakaoAnswers(r)
  BY <1>2, <1>n, GotoStep, RefuseStep DEF KakaoAnswers, At
<1>3. CASE Discover(r)
  BY <1>3, <1>n, GotoStep, RefuseStep DEF Discover, At
<1>4. CASE UseCachedKeys(r)
  <2>1. PICK next \in Request :
          /\ req' = [req EXCEPT ![r] = next]
          /\ next.pc \in {"idle", "find"} /\ (next.pc = "find" => next.sub \in Subjects)
    BY <1>4, CheckedRequest DEF UseCachedKeys, At
  <2>2. req'[r] = next => RequestIsSound(r)'
    BY <2>1 DEF RequestIsSound, At
  <2> QED BY <1>4, <1>n, <2>1, <2>2, ReadStep DEF UseCachedKeys
<1>5. CASE FetchKeys(r)
  <2> DEFINE next == [req[r] EXCEPT !.pc = "fetched", !.keys = published, !.since = clock]
  <2>1. next \in Request /\ next.pc = "fetched" /\ next.keys = published /\ next.since = clock
        /\ next.sub = req[r].sub
    BY <1>t, <1>n DEF Request, Stages, FetchStages, TypeOK
  <2>2. \/ req' = [req EXCEPT ![r] = next]
        \/ Refuse(r)
    BY <1>5 DEF FetchKeys
  <2>3. req[r].sub \in Subjects
    BY <1>t, <1>5 DEF FetchKeys, RequestIsSound, At
  <2> HIDE DEF next
  <2>4. req'[r] = next => RequestIsSound(r)'
    BY <1>5, <1>n, <2>1, <2>3 DEF FetchKeys, RequestIsSound, At, ChangedSince
  <2> QED BY <1>5, <1>n, <2>1, <2>2, <2>4, ReadStep, RefuseStep DEF FetchKeys
<1>6. CASE CacheKeys(r)
  <2>1. PICK next \in Request :
          /\ req' = [req EXCEPT ![r] = next]
          /\ next.pc \in {"idle", "find"} /\ (next.pc = "find" => next.sub \in Subjects)
    BY <1>6, CheckedRequest DEF CacheKeys, At
  <2>2. req'[r] = next => RequestIsSound(r)'
    BY <2>1 DEF RequestIsSound, At
  <2> DEFINE keys == req[r].keys
             since == req[r].since
  <2>3. /\ keys \in SUBSET Kids /\ since \in Nat /\ since <= clock /\ clock <= since + FetchTime
        /\ ChangedSince(keys, since)
    BY <1>t, <1>6 DEF CacheKeys, Request, Times, RequestIsSound
  <2>4. jwks' = [keys |-> keys, expires |-> Expires(clock)]
        /\ UNCHANGED <<clock, published, publishedAt, withdrawnAt, identity, user, born, sessions, discovery>>
    BY <1>6 DEF CacheKeys
  <2> HIDE DEF keys, since
  <2>5. jwks'.keys = keys /\ jwks'.expires = Expires(clock)
        /\ jwks' \in [keys : SUBSET Kids, expires : Nat \cup {NoEntry}]
    BY <1>n, <2>3, <2>4
  <2>6. CacheIsRecent'
    <3>1. Expires(clock) = clock + CacheTTL /\ CacheTTL \in Nat /\ FetchTime \in Nat
      BY LoginAssumption DEF Expires
    <3>2. /\ \A k \in Kids : withdrawnAt[k] \in Nat /\ publishedAt[k] \in Nat
          /\ published \subseteq Kids
      BY <1>t, LoginAssumption DEF TypeOK, Times, Never
    <3>3. jwks'.expires - CacheTTL - FetchTime <= since
      BY <1>n, <2>3, <2>5, <3>1
    <3>4. jwks'.expires - CacheTTL - FetchTime \in Int
      BY <1>n, <2>5, <3>1
    <3> DEFINE then == jwks'.expires - CacheTTL - FetchTime
    <3> HIDE DEF then
    <3>5. /\ \A k \in keys \ published : withdrawnAt[k] >= then
          /\ \A k \in published \ keys : publishedAt[k] >= then
      BY <2>3, <3>2, <3>3, <3>4 DEF ChangedSince, then
    <3>6. jwks'.expires <= clock' + CacheTTL
      BY <1>n, <2>4, <2>5, <3>1
    <3> QED BY <2>4, <2>5, <3>5, <3>6 DEF CacheIsRecent, ChangedSince, then
  <2>7. /\ SessionsAreSound' /\ sessions' \in SUBSET [user : Users, sub : Subjects]
        /\ discovery' \in Nat \cup {NoEntry}
    BY <1>t, <2>4 DEF IInv, TypeOK, SessionsAreSound, LeadsTo
  <2> QED BY <2>1, <2>2, <2>4, <2>5, <2>6, <2>7, RequestStep
<1> QED BY <1>1, <1>2, <1>3, <1>4, <1>5, <1>6

(* A step that writes rows: whoever led to a user still does.               *)
LEMMA RowsStep ==
  ASSUME IInv, TypeOK', UsersAreIdentities', LiveUsersWereBorn',
         UNCHANGED <<clock, published, publishedAt, withdrawnAt, jwks, sessions>>,
         born \subseteq born',
         \A s \in Subjects, u \in born : LeadsTo(s, u) => LeadsTo(s, u)',
         \A q \in Reqs : req'[q] = req[q] \/ RequestIsSound(q)'
  PROVE  IInv'
<1>1. ASSUME NEW q \in Reqs, req'[q] = req[q] PROVE RequestIsSound(q)'
  <2>1. RequestIsSound(q)
    BY DEF IInv, RequestsAreSound
  <2>2. At(q, "update") => LeadsTo(req[q].sub, req[q].row.user)'
    <3> DEFINE s == req[q].sub
               u == req[q].row.user
    <3>1. At(q, "update") => LeadsTo(s, u) /\ s \in Subjects /\ u \in born
      BY <2>1 DEF RequestIsSound, LeadsTo
    <3> HIDE DEF s, u
    <3>2. At(q, "update") => \A x \in Subjects, v \in born : x = s /\ v = u => LeadsTo(x, v)'
      BY <3>1
    <3>3. At(q, "update") => s' \in Subjects
      BY <1>1, <3>1 DEF s
    <3> QED BY <1>1, <3>1, <3>2 DEF s, u, LeadsTo
  <2>3. At(q, "session") => LeadsTo(req[q].sub, req[q].user)'
    <3> DEFINE s == req[q].sub
               u == req[q].user
    <3>1. At(q, "session") => LeadsTo(s, u) /\ s \in Subjects /\ u \in born
      BY <2>1 DEF RequestIsSound, LeadsTo
    <3> HIDE DEF s, u
    <3>2. At(q, "session") => \A x \in Subjects, v \in born : x = s /\ v = u => LeadsTo(x, v)'
      BY <3>1
    <3> QED BY <1>1, <3>1, <3>2 DEF s, u, LeadsTo
  <2> QED BY <1>1, <2>1, <2>2, <2>3 DEF RequestIsSound, At, ChangedSince
<1>2. RequestsAreSound'
  BY <1>1 DEF RequestsAreSound
<1>3. SessionsAreSound'
  <2> SUFFICES ASSUME NEW x \in sessions PROVE LeadsTo(x.sub, x.user)'
    BY DEF SessionsAreSound
  <2>1. LeadsTo(x.sub, x.user) /\ x.sub \in Subjects /\ x.user \in born
    BY DEF IInv, SessionsAreSound, LeadsTo
  <2> QED BY <2>1 DEF LeadsTo
<1>4. CacheIsRecent'
  BY DEF IInv, CacheIsRecent, ChangedSince
<1> QED BY <1>2, <1>3, <1>4 DEF IInv

(* The identity is found, and written in a later transaction.               *)
LEMMA IdentitySteps ==
  ASSUME IInv, NEW r \in Reqs,
         FindIdentity(r) \/ UpdateIdentity(r) \/ CreateSession(r)
  PROVE  IInv'
<1>t. TypeOK /\ RequestIsSound(r) /\ req[r] \in Request /\ UsersAreIdentities /\ LiveUsersWereBorn
  BY DEF IInv, TypeOK, RequestsAreSound
<1>i. \A s \in Subjects : identity[s] \in Identity \cup {NoIdentity}
  BY <1>t DEF TypeOK
<1>1. CASE FindIdentity(r)
  <2> DEFINE row == identity[req[r].sub]
             next == [req[r] EXCEPT !.pc = "update", !.row = row, !.seen = user[row.user].email]
  <2>1. At(r, "find") /\ req[r].sub \in Subjects /\ discovery' \in Nat \cup {NoEntry}
    BY <1>t, <1>1 DEF FindIdentity, RequestIsSound, At, TypeOK
  <2>2. CASE row = NoIdentity
    BY <1>1, <2>1, <2>2, GotoStep DEF FindIdentity, At
  <2>3. CASE row # NoIdentity
    <3>1. row \in Identity
      BY <1>i, <2>1, <2>3
    <3>2. row.user \in Users /\ user[row.user].live /\ user[row.user] \in User
      BY <1>t, <2>1, <2>3, <3>1 DEF UsersAreIdentities, Identity, TypeOK
    <3>3. LeadsTo(req[r].sub, row.user)
      BY <1>t, <2>1, <3>2 DEF LeadsTo, LiveUsersWereBorn
    <3>4. req' = [req EXCEPT ![r] = next]
      BY <1>1, <2>3 DEF FindIdentity
    <3> HIDE DEF row
    <3>5. /\ next \in Request /\ next.pc = "update" /\ next.row = row /\ next.sub = req[r].sub
      BY <1>t, <3>1, <3>2 DEF Request, Stages, FetchStages, User
    <3> HIDE DEF next
    <3>6. req'[r] = next => RequestIsSound(r)'
      BY <1>1, <2>1, <3>1, <3>3, <3>5 DEF FindIdentity, RequestIsSound, At, LeadsTo
    <3> QED BY <1>1, <2>1, <3>4, <3>5, <3>6, ReadStep DEF FindIdentity
  <2> QED BY <2>2, <2>3
<1>2. CASE UpdateIdentity(r)
  <2> DEFINE row == req[r].row
             s == req[r].sub
             next == [req[r] EXCEPT !.pc = "session", !.user = row.user]
             first == [identity[s] EXCEPT !.email = Given(req[r].email, row.email)]
             second == [user[row.user] EXCEPT !.email = PrimaryEmail(req[r].seen, req[r].email)]
  <2>1. /\ row \in Identity /\ row.user \in Users /\ s \in Subjects /\ LeadsTo(s, row.user)
        /\ At(r, "update")
    BY <1>t, <1>2 DEF UpdateIdentity, RequestIsSound, LeadsTo, Identity
  <2>2. CASE ~user[row.user].live
    BY <1>t, <1>2, <2>2, RefuseStep DEF UpdateIdentity, TypeOK
  <2>3. CASE user[row.user].live
    <3>1. /\ identity' = [identity EXCEPT ![s].email = Given(req[r].email, row.email)]
          /\ user' = [user EXCEPT ![row.user].email = PrimaryEmail(req[r].seen, req[r].email)]
          /\ req' = [req EXCEPT ![r].pc = "session", ![r].user = row.user]
          /\ UNCHANGED <<clock, published, discovery, jwks, sessions, publishedAt, withdrawnAt, born>>
      BY <1>2, <2>3 DEF UpdateIdentity
    <3>2. identity[s].user = row.user
      BY <2>1, <2>3 DEF LeadsTo
    <3>3. identity[s] \in Identity
      BY <1>i, <2>1, <3>2, EmptyRecords
    <3>4. user[row.user] \in User
      BY <1>t, <2>1 DEF TypeOK
    <3>5. /\ Given(req[r].email, row.email) \in Emails \cup {NoEmail}
          /\ PrimaryEmail(req[r].seen, req[r].email) \in Emails \cup {NoEmail}
      BY <1>t, <2>1 DEF Given, PrimaryEmail, Identity, Request
    <3>6. first \in Identity /\ first.user = identity[s].user
      BY <3>3, <3>5 DEF Identity
    <3>7. second \in User /\ second.live = user[row.user].live
      BY <3>4, <3>5 DEF User
    <3>8. next \in Request /\ next.pc = "session" /\ next.sub = s /\ next.user = row.user
      BY <1>t, <2>1 DEF Request, Stages
    <3>9. identity' = [identity EXCEPT ![s] = first] /\ user' = [user EXCEPT ![row.user] = second]
          /\ req' = [req EXCEPT ![r] = next]
      BY <1>t, <2>1, <3>1 DEF TypeOK
    <3> HIDE DEF first, second, next, row, s
    <3>10. /\ identity' \in [Subjects -> Identity \cup {NoIdentity}]
           /\ user' \in [Users -> User] /\ req' \in [Reqs -> Request]
           /\ identity'[s] = first /\ \A x \in Subjects : identity'[x].user = identity[x].user
           /\ \A u \in Users : user'[u].live = user[u].live
           /\ req'[r] = next /\ \A q \in Reqs \ {r} : req'[q] = req[q]
      <4>1. /\ identity \in [Subjects -> Identity \cup {NoIdentity}] /\ user \in [Users -> User]
            /\ req \in [Reqs -> Request]
        BY <1>t DEF TypeOK
      <4>2. /\ identity' \in [Subjects -> Identity \cup {NoIdentity}]
            /\ identity'[s] = first /\ \A x \in Subjects : identity'[x].user = identity[x].user
        BY <2>1, <3>6, <3>9, <4>1
      <4>3. user' \in [Users -> User] /\ \A u \in Users : user'[u].live = user[u].live
        BY <2>1, <3>7, <3>9, <4>1
      <4>4. /\ req' \in [Reqs -> Request] /\ req'[r] = next
            /\ \A q \in Reqs \ {r} : req'[q] = req[q]
        BY <3>8, <3>9, <4>1
      <4> QED BY <4>2, <4>3, <4>4
    <3>11. \A x \in Subjects : identity'[x] = NoIdentity <=> identity[x] = NoIdentity
      <4>1. \A x \in Subjects \ {s} : identity'[x] = identity[x]
        BY <1>t, <3>9 DEF TypeOK
      <4> QED BY <3>3, <3>6, <3>10, <4>1, EmptyRecords
    <3>12. TypeOK'
      BY <1>t, <3>1, <3>10 DEF TypeOK
    <3>13. UsersAreIdentities'
      BY <1>t, <1>i, <3>10, <3>11 DEF UsersAreIdentities, Identity
    <3>14. LiveUsersWereBorn'
      BY <1>t, <3>1, <3>10 DEF LiveUsersWereBorn
    <3>15. \A x \in Subjects, u \in born : LeadsTo(x, u) => LeadsTo(x, u)'
      BY <1>t, <3>1, <3>10 DEF LeadsTo, TypeOK
    <3>16. RequestIsSound(r)'
      <4>1. row.user \in born' /\ identity'[s].user = row.user
        BY <2>1, <3>1, <3>2, <3>10 DEF LeadsTo
      <4>2. req'[r].pc = "session" /\ req'[r].sub = s /\ req'[r].user = row.user
        BY <3>8, <3>10
      <4> QED BY <2>1, <4>1, <4>2 DEF RequestIsSound, At, LeadsTo
    <3> QED BY <3>1, <3>10, <3>12, <3>13, <3>14, <3>15, <3>16, RowsStep
  <2> QED BY <2>2, <2>3
<1>3. CASE CreateSession(r)
  <2> DEFINE x == [user |-> req[r].user, sub |-> req[r].sub]
  <2>1. LeadsTo(req[r].sub, req[r].user) /\ sessions' = sessions \cup {x} /\ Refuse(r)
        /\ UNCHANGED <<clock, published, discovery, jwks, identity, user, publishedAt, withdrawnAt, born>>
    BY <1>t, <1>3 DEF CreateSession, RequestIsSound
  <2>2. x \in [user : Users, sub : Subjects]
    BY <1>t, <2>1 DEF LeadsTo, TypeOK
  <2>3. sessions' \in SUBSET [user : Users, sub : Subjects]
    BY <1>t, <2>1, <2>2 DEF TypeOK
  <2>4. SessionsAreSound'
    BY <2>1 DEF IInv, SessionsAreSound, LeadsTo
  <2>5. /\ CacheIsRecent' /\ discovery' \in Nat \cup {NoEntry}
        /\ jwks' \in [keys : SUBSET Kids, expires : Nat \cup {NoEntry}]
    BY <1>t, <2>1 DEF IInv, CacheIsRecent, ChangedSince, TypeOK
  <2>6. req'[r] = Blank => RequestIsSound(r)'
    BY EmptyRecords DEF RequestIsSound, At
  <2> QED BY <2>1, <2>3, <2>4, <2>5, <2>6, EmptyRecords, RequestStep DEF Refuse
<1> QED BY <1>1, <1>2, <1>3

(* The first login of a subject, and a user that goes.                      *)
LEMMA CreateStep ==
  ASSUME IInv, NEW r \in Reqs, NEW u \in Users, CreateIdentity(r, u)
  PROVE  IInv'
<1>t. TypeOK /\ RequestIsSound(r) /\ req[r] \in Request /\ UsersAreIdentities /\ LiveUsersWereBorn
  BY DEF IInv, TypeOK, RequestsAreSound
<1> DEFINE s == req[r].sub
           next == [req[r] EXCEPT !.pc = "session", !.user = u]
           first == [user |-> u, email |-> req[r].email]
           row == [live |-> TRUE, email |-> req[r].email]
<1>1. s \in Subjects /\ u \notin born /\ At(r, "create")
  BY <1>t DEF CreateIdentity, RequestIsSound, At
<1>2. CASE identity[s] # NoIdentity
  <2>1. Refuse(r) /\ UNCHANGED <<user, identity, born, clock, published, discovery, jwks, sessions,
                                 publishedAt, withdrawnAt>>
    BY <1>2 DEF CreateIdentity, IdentityFree, RolledBackUser
  <2> QED BY <1>t, <2>1, RefuseStep DEF TypeOK
<1>3. CASE identity[s] = NoIdentity
  <2>1. /\ identity' = [identity EXCEPT ![s] = first] /\ user' = [user EXCEPT ![u] = row]
        /\ req' = [req EXCEPT ![r].pc = "session", ![r].user = u] /\ born' = born \cup {u}
        /\ UNCHANGED <<clock, published, discovery, jwks, sessions, publishedAt, withdrawnAt>>
    BY <1>3 DEF CreateIdentity, IdentityFree
  <2>2. first \in Identity /\ first.user = u
    BY <1>t DEF Identity, Request
  <2>3. row \in User /\ row.live = TRUE
    BY <1>t DEF User, Request
  <2>4. next \in Request /\ next.pc = "session" /\ next.sub = s /\ next.user = u
    BY <1>t DEF Request, Stages
  <2>5. req' = [req EXCEPT ![r] = next]
    BY <1>t, <2>1 DEF TypeOK
  <2> HIDE DEF first, row, next, s
  <2>6. /\ identity' \in [Subjects -> Identity \cup {NoIdentity}] /\ identity'[s] = first
        /\ \A x \in Subjects \ {s} : identity'[x] = identity[x]
        /\ user' \in [Users -> User] /\ user'[u] = row
        /\ \A v \in Users \ {u} : user'[v] = user[v]
        /\ req' \in [Reqs -> Request] /\ req'[r] = next /\ \A q \in Reqs \ {r} : req'[q] = req[q]
    <3>1. /\ identity \in [Subjects -> Identity \cup {NoIdentity}] /\ user \in [Users -> User]
          /\ req \in [Reqs -> Request]
      BY <1>t DEF TypeOK
    <3>2. /\ identity' \in [Subjects -> Identity \cup {NoIdentity}] /\ identity'[s] = first
          /\ \A x \in Subjects \ {s} : identity'[x] = identity[x]
      BY <1>1, <2>1, <2>2, <3>1
    <3>3. /\ user' \in [Users -> User] /\ user'[u] = row
          /\ \A v \in Users \ {u} : user'[v] = user[v]
      BY <2>1, <2>3, <3>1
    <3>4. /\ req' \in [Reqs -> Request] /\ req'[r] = next
          /\ \A q \in Reqs \ {r} : req'[q] = req[q]
      BY <2>4, <2>5, <3>1
    <3> QED BY <3>2, <3>3, <3>4
  <2>7. TypeOK'
    BY <1>t, <2>1, <2>6 DEF TypeOK
  <2>8. ~user[u].live
    BY <1>t, <1>1 DEF LiveUsersWereBorn
  <2>9. \A x \in Subjects : identity[x].user # u
    <3>1. identity[s].user # u
      BY <1>3, EmptyRecords, LoginAssumption
    <3>2. \A x \in Subjects : identity[x] = NoIdentity => identity[x].user # u
      BY EmptyRecords, LoginAssumption
    <3> QED BY <1>t, <2>8, <3>2 DEF UsersAreIdentities
  <2>10. UsersAreIdentities'
    <3>1. \A v \in Users : user'[v].live => \E x \in Subjects : identity'[x].user = v
      <4> SUFFICES ASSUME NEW v \in Users, user'[v].live
                   PROVE  \E x \in Subjects : identity'[x].user = v
        OBVIOUS
      <4>1. CASE v = u
        BY <1>1, <2>2, <2>6, <4>1
      <4>2. CASE v # u
        <5>1. PICK x \in Subjects : identity[x].user = v
          BY <1>t, <2>6, <4>2 DEF UsersAreIdentities
        <5>2. x # s
          BY <1>3, <5>1, EmptyRecords, LoginAssumption
        <5> QED BY <2>6, <5>1, <5>2
      <4> QED BY <4>1, <4>2
    <3>2. \A x \in Subjects : identity'[x] # NoIdentity => user'[identity'[x].user].live
      <4> SUFFICES ASSUME NEW x \in Subjects, identity'[x] # NoIdentity
                   PROVE  user'[identity'[x].user].live
        OBVIOUS
      <4>1. CASE x = s
        BY <2>2, <2>3, <2>6, <4>1
      <4>2. CASE x # s
        <5>1. identity[x] \in Identity /\ identity'[x] = identity[x]
          BY <1>t, <2>6, <4>2 DEF TypeOK
        <5>2. identity[x].user \in Users \ {u} /\ user[identity[x].user].live
          BY <1>t, <2>9, <5>1, EmptyRecords DEF Identity, UsersAreIdentities
        <5> QED BY <2>6, <5>1, <5>2
      <4> QED BY <4>1, <4>2
    <3>3. \A x, y \in Subjects :
            identity'[x] # NoIdentity /\ identity'[x].user = identity'[y].user => x = y
      BY <1>t, <1>1, <2>2, <2>6, <2>9 DEF UsersAreIdentities
    <3> QED BY <3>1, <3>2, <3>3 DEF UsersAreIdentities
  <2>11. LiveUsersWereBorn'
    BY <1>t, <2>1, <2>6 DEF LiveUsersWereBorn
  <2>12. \A x \in Subjects, v \in born : LeadsTo(x, v) => LeadsTo(x, v)'
    <3> SUFFICES ASSUME NEW x \in Subjects, NEW v \in born, LeadsTo(x, v) PROVE LeadsTo(x, v)'
      OBVIOUS
    <3>1. v \in Users /\ v # u /\ user'[v] = user[v]
      BY <1>t, <1>1, <2>6 DEF TypeOK
    <3>2. user[v].live => x # s
      BY <1>3, <3>1, EmptyRecords, LoginAssumption DEF LeadsTo
    <3> QED BY <2>1, <2>6, <3>1, <3>2 DEF LeadsTo
  <2>13. RequestIsSound(r)'
    <3>1. u \in born' /\ identity'[s].user = u
      BY <2>1, <2>2, <2>6
    <3>2. req'[r].pc = "session" /\ req'[r].sub = s /\ req'[r].user = u
      BY <2>4, <2>6
    <3> QED BY <1>1, <3>1, <3>2 DEF RequestIsSound, At, LeadsTo
  <2>14. born \subseteq born'
    BY <2>1
  <2> QED BY <2>1, <2>6, <2>7, <2>10, <2>11, <2>12, <2>13, <2>14, RowsStep
<1> QED BY <1>2, <1>3

LEMMA DeleteStep ==
  ASSUME IInv, NEW u \in Users, DeleteUser(u)
  PROVE  IInv'
<1>t. TypeOK /\ UsersAreIdentities /\ LiveUsersWereBorn
  BY DEF IInv
<1>1. /\ user' = [user EXCEPT ![u] = NoRow]
      /\ identity' = [s \in Subjects |-> IF identity[s].user = u THEN NoIdentity ELSE identity[s]]
      /\ UNCHANGED <<clock, published, discovery, jwks, req, sessions, publishedAt, withdrawnAt, born>>
  BY DEF DeleteUser
<1>2. /\ user' \in [Users -> User] /\ ~user'[u].live
      /\ \A v \in Users \ {u} : user'[v] = user[v]
      /\ \A s \in Subjects : identity'[s] = IF identity[s].user = u THEN NoIdentity ELSE identity[s]
      /\ identity' \in [Subjects -> Identity \cup {NoIdentity}]
  BY <1>t, <1>1, EmptyRecords DEF TypeOK
<1>3. TypeOK'
  BY <1>t, <1>1, <1>2 DEF TypeOK
<1>4. UsersAreIdentities'
  <2>1. \A v \in Users : user'[v].live => \E x \in Subjects : identity'[x].user = v
    BY <1>t, <1>2 DEF UsersAreIdentities
  <2>2. ASSUME NEW x \in Subjects, identity'[x] # NoIdentity PROVE user'[identity'[x].user].live
    <3>1. identity'[x] = identity[x] /\ identity[x] \in Identity /\ identity[x].user # u
      BY <1>t, <1>2, <2>2 DEF TypeOK
    <3>2. identity[x].user \in Users /\ user[identity[x].user].live
      BY <1>t, <2>2, <3>1 DEF Identity, UsersAreIdentities
    <3> QED BY <1>2, <3>1, <3>2
  <2>3. ASSUME NEW x \in Subjects, NEW y \in Subjects, identity'[x] # NoIdentity,
               identity'[x].user = identity'[y].user
        PROVE  x = y
    <3>1. identity'[x] = identity[x] /\ identity[x] \in Identity
      BY <1>t, <1>2, <2>3 DEF TypeOK
    <3>2. identity'[y] = identity[y]
      BY <1>2, <2>3, <3>1, EmptyRecords
    <3> QED BY <1>t, <2>3, <3>1, <3>2 DEF UsersAreIdentities
  <2> QED BY <2>1, <2>2, <2>3 DEF UsersAreIdentities
<1>5. LiveUsersWereBorn'
  BY <1>t, <1>1, <1>2 DEF LiveUsersWereBorn
<1>6. \A x \in Subjects, v \in born : LeadsTo(x, v) => LeadsTo(x, v)'
  BY <1>t, <1>1, <1>2 DEF LeadsTo, TypeOK
<1> QED BY <1>1, <1>3, <1>4, <1>5, <1>6, RowsStep

(* The provider's keys, and time.                                           *)
LEMMA ProviderSteps ==
  ASSUME IInv, Tick \/ \E k \in Kids : Publish(k) \/ Withdraw(k)
  PROVE  IInv'
<1>t. TypeOK /\ RequestsAreSound /\ CacheIsRecent
  BY DEF IInv
<1>n. /\ clock \in Nat /\ jwks.expires \in Int /\ CacheTTL \in Nat /\ FetchTime \in Nat /\ clock \in Times
      /\ \A k \in Kids : withdrawnAt[k] \in Nat /\ publishedAt[k] \in Nat
      /\ published \subseteq Kids /\ jwks.keys \subseteq Kids
      /\ \A q \in Reqs : req[q].since \in Nat /\ req[q].keys \subseteq Kids
  BY <1>t, LoginAssumption DEF TypeOK, Times, Never, Request, NoEntry
<1>1. UNCHANGED <<identity, user, born, sessions, req, jwks, discovery>>
  BY DEF Tick, Publish, Withdraw
<1>2. /\ TypeOK'
      /\ \A q \in Reqs : At(q, "fetched") => req[q].since <= clock' /\ clock' <= req[q].since + FetchTime
      /\ jwks.expires <= clock' + CacheTTL
      /\ \A keys \in SUBSET Kids, t \in Int : t <= clock /\ ChangedSince(keys, t) => ChangedSince(keys, t)'
  <2>1. CASE Tick
    <3>1. clock' = clock + 1 /\ clock' \in Times /\ UNCHANGED <<published, publishedAt, withdrawnAt>>
      BY <1>n, <2>1, LoginAssumption DEF Tick, Times
    <3>2. \A q \in Reqs : At(q, "fetched") => clock < req[q].since + FetchTime
      BY <2>1 DEF Tick
    <3>3. TypeOK'
      BY <1>t, <1>1, <3>1 DEF TypeOK
    <3>4. \A q \in Reqs : At(q, "fetched") => req[q].since <= clock /\ req[q].since \in Nat
      BY <1>t, <1>n DEF RequestsAreSound, RequestIsSound
    <3>5. \A q \in Reqs : At(q, "fetched") =>
            req[q].since <= clock' /\ clock' <= req[q].since + FetchTime
      BY <1>n, <3>1, <3>2, <3>4
    <3>6. jwks.expires <= clock' + CacheTTL
      BY <1>t, <1>n, <3>1 DEF CacheIsRecent
    <3> QED BY <3>1, <3>3, <3>5, <3>6 DEF ChangedSince
  <2>2. ASSUME NEW k \in Kids, Publish(k) \/ Withdraw(k)
        PROVE  /\ TypeOK' /\ clock' = clock
               /\ \A keys \in SUBSET Kids, t \in Int :
                    t <= clock /\ ChangedSince(keys, t) => ChangedSince(keys, t)'
    <3>1. CASE Publish(k)
      <4>1. /\ published' = published \cup {k} /\ publishedAt' = [publishedAt EXCEPT ![k] = clock]
            /\ UNCHANGED <<clock, withdrawnAt>>
        BY <3>1 DEF Publish
      <4>2. publishedAt' \in [Kids -> Times \cup {Never}] /\ publishedAt'[k] = clock
            /\ \A j \in Kids \ {k} : publishedAt'[j] = publishedAt[j]
        BY <1>t, <1>n, <4>1 DEF TypeOK
      <4>3. TypeOK'
        BY <1>t, <1>1, <4>1, <4>2 DEF TypeOK
      <4> QED BY <1>n, <4>1, <4>2, <4>3 DEF ChangedSince
    <3>2. CASE Withdraw(k)
      <4>1. /\ published' = published \ {k} /\ withdrawnAt' = [withdrawnAt EXCEPT ![k] = clock]
            /\ UNCHANGED <<clock, publishedAt>>
        BY <3>2 DEF Withdraw
      <4>2. withdrawnAt' \in [Kids -> Times \cup {Never}] /\ withdrawnAt'[k] = clock
            /\ \A j \in Kids \ {k} : withdrawnAt'[j] = withdrawnAt[j]
        BY <1>t, <1>n, <4>1 DEF TypeOK
      <4>3. TypeOK'
        BY <1>t, <1>1, <4>1, <4>2 DEF TypeOK
      <4> QED BY <1>n, <4>1, <4>2, <4>3 DEF ChangedSince
    <3> QED BY <2>2, <3>1, <3>2
  <2>3. CASE \E k \in Kids : Publish(k) \/ Withdraw(k)
    BY <1>t, <2>2, <2>3 DEF RequestsAreSound, RequestIsSound, CacheIsRecent
  <2> QED BY <2>1, <2>3
<1>3. ASSUME NEW q \in Reqs PROVE RequestIsSound(q)'
  <2>1. RequestIsSound(q)
    BY <1>t DEF RequestsAreSound
  <2>2. At(q, "fetched") => ChangedSince(req[q].keys, req[q].since)'
    <3> DEFINE keys == req[q].keys
               since == req[q].since
    <3>1. At(q, "fetched") => ChangedSince(keys, since) /\ since <= clock
      BY <2>1 DEF RequestIsSound
    <3>2. keys \in SUBSET Kids /\ since \in Int /\ keys' = keys /\ since' = since
      BY <1>n, <1>1
    <3> HIDE DEF keys, since
    <3>3. At(q, "fetched") =>
            \A x \in SUBSET Kids, y \in Int : x = keys /\ y = since => ChangedSince(x, y)'
      BY <1>2, <3>1
    <3>4. At(q, "fetched") => ChangedSince(keys, since)'
      BY <3>2, <3>3 DEF ChangedSince
    <3> QED BY <3>4 DEF keys, since
  <2> QED BY <1>1, <1>2, <2>1, <2>2 DEF RequestIsSound, At, LeadsTo
<1>4. CacheIsRecent'
  <2> DEFINE t == jwks.expires - CacheTTL - FetchTime
  <2>1. t \in Int /\ t <= clock /\ ChangedSince(jwks.keys, t) /\ jwks.keys \in SUBSET Kids
    BY <1>t, <1>n DEF CacheIsRecent
  <2>2. \A x \in SUBSET Kids, y \in Int : x = jwks.keys /\ y = t => ChangedSince(x, y)'
    BY <1>2, <2>1
  <2>3. ChangedSince(jwks.keys, t)'
    BY <1>1, <2>1, <2>2 DEF ChangedSince
  <2> QED BY <1>1, <1>2, <2>3 DEF CacheIsRecent
<1>5. SessionsAreSound' /\ LiveUsersWereBorn' /\ UsersAreIdentities'
  BY <1>1 DEF IInv, SessionsAreSound, LeadsTo, LiveUsersWereBorn, UsersAreIdentities
<1> QED BY <1>2, <1>3, <1>4, <1>5 DEF IInv, RequestsAreSound

LEMMA InitHolds == Init => IInv
<1> SUFFICES ASSUME Init PROVE IInv
  OBVIOUS
<1>1. 0 \in Times /\ CacheTTL \in Nat /\ NoEntry = -1
  BY LoginAssumption DEF Times, NoEntry
<1>2. TypeOK
  BY <1>1, EmptyRecords DEF Init, TypeOK, Never
<1>3. RequestsAreSound /\ SessionsAreSound
  BY EmptyRecords DEF Init, RequestsAreSound, RequestIsSound, At, SessionsAreSound
<1>4. LiveUsersWereBorn /\ UsersAreIdentities
  BY EmptyRecords DEF Init, LiveUsersWereBorn, UsersAreIdentities
<1>5. CacheIsRecent
  BY <1>1 DEF Init, CacheIsRecent, ChangedSince
<1> QED BY <1>2, <1>3, <1>4, <1>5 DEF IInv

LEMMA StepHolds == IInv /\ [Next]_vars => IInv'
<1> SUFFICES ASSUME IInv, [Next]_vars PROVE IInv'
  OBVIOUS
<1>1. CASE UNCHANGED vars
  BY <1>1 DEF vars, IInv, TypeOK, RequestsAreSound, RequestIsSound, At, LeadsTo, ChangedSince,
              SessionsAreSound, LiveUsersWereBorn, UsersAreIdentities, CacheIsRecent
<1>2. ASSUME NEW r \in Reqs, Continue(r) \/ \E p \in Payloads : Begin(r, p) PROVE IInv'
  BY <1>2, VerifySteps, IdentitySteps, CreateStep DEF Continue
<1>3. CASE \E u \in Users : DeleteUser(u)
  BY <1>3, DeleteStep
<1>4. CASE Tick \/ \E k \in Kids : Publish(k) \/ Withdraw(k)
  BY <1>4, ProviderSteps
<1> QED BY <1>1, <1>2, <1>3, <1>4 DEF Next

LEMMA Invariance == Spec => []IInv
  BY InitHolds, StepHolds, PTL DEF Spec

(* The service's state has its types: every row that is not the blank one   *)
(* is whole, and no transaction writes a user the database did not make.    *)
THEOREM TypeCorrect == Spec => []TypeOK
<1>1. IInv => TypeOK
  BY DEF IInv
<1> QED BY <1>1, Invariance, PTL

(* However many first logins of one subject race, with users removed        *)
(* meanwhile, users and identities stay one to one and no user is left that *)
(* nobody can log in as.                                                    *)
THEOREM OneUserPerSubject == Spec => []UsersAreIdentities
<1>1. IInv => UsersAreIdentities
  BY DEF IInv
<1> QED BY <1>1, Invariance, PTL

(* The session a login ends with is of the user its subject leads to, even  *)
(* when the identity it read was removed and made anew before it wrote.     *)
THEOREM SessionOfTheSubject == Spec => []SessionsAreOfTheSubject
<1>1. IInv => SessionsAreOfTheSubject
  BY DEF IInv, SessionsAreSound, LeadsTo, SessionsAreOfTheSubject
<1> QED BY <1>1, Invariance, PTL

-----------------------------------------------------------------------------
(* A token is checked against keys that are at most an entry's life and one *)
(* fetch behind the provider's.                                             *)
LEMMA CheckedAgainstRecentKeys ==
  ASSUME IInv, NEW r \in Reqs, Checked(r)
  PROVE  \E keys \in SUBSET Kids :
           ChangedSince(keys, clock - CacheTTL - FetchTime) /\ CheckToken(r, keys)
<1>t. TypeOK /\ RequestIsSound(r) /\ req[r] \in Request /\ CacheIsRecent
  BY DEF IInv, TypeOK, RequestsAreSound
<1>n. /\ clock \in Nat /\ jwks.expires \in Int /\ CacheTTL \in Nat /\ FetchTime \in Nat
      /\ \A k \in Kids : withdrawnAt[k] \in Nat /\ publishedAt[k] \in Nat
      /\ published \subseteq Kids /\ jwks.keys \subseteq Kids
      /\ req[r].since \in Nat /\ req[r].keys \subseteq Kids
  BY <1>t, LoginAssumption DEF TypeOK, Times, Never, Request, NoEntry
<1>1. CASE UseCachedKeys(r)
  <2>1. ChangedSince(jwks.keys, jwks.expires - CacheTTL - FetchTime) /\ jwks.expires >= clock
    BY <1>t, <1>1 DEF CacheIsRecent, UseCachedKeys, Hit
  <2>2. ChangedSince(jwks.keys, clock - CacheTTL - FetchTime)
    BY <1>n, <2>1 DEF ChangedSince
  <2> QED BY <1>n, <1>1, <2>2 DEF UseCachedKeys
<1>2. CASE CacheKeys(r)
  <2>1. ChangedSince(req[r].keys, req[r].since) /\ clock <= req[r].since + FetchTime
    BY <1>t, <1>2 DEF CacheKeys, RequestIsSound
  <2>2. ChangedSince(req[r].keys, clock - CacheTTL - FetchTime)
    BY <1>n, <2>1 DEF ChangedSince
  <2> QED BY <1>n, <1>2, <2>2 DEF CacheKeys
<1> QED BY <1>1, <1>2 DEF Checked

(* Whatever the provider does with its keys and however the answers of      *)
(* concurrent logins overwrite each other, a withdrawn key is accepted for  *)
(* no more than an entry's life and the time its answer was on the way.     *)
THEOREM WithdrawnKeyRefused == Spec => WithdrawnKeyIsRefused
<1>1. ASSUME IInv, [Next]_vars, NEW r \in Reqs, Accepted(r), req[r].kid \notin published
      PROVE  clock - withdrawnAt[req[r].kid] <= CacheTTL + FetchTime
  <2>1. PICK keys \in SUBSET Kids :
          ChangedSince(keys, clock - CacheTTL - FetchTime) /\ CheckToken(r, keys)
    BY <1>1, CheckedAgainstRecentKeys DEF Accepted
  <2>2. req[r].kid \in keys
    BY <1>1, <2>1, EmptyRecords DEF Accepted, CheckToken, Refuse, SignedBy, IInv, TypeOK
  <2>3. withdrawnAt[req[r].kid] >= clock - CacheTTL - FetchTime
    BY <1>1, <2>1, <2>2 DEF ChangedSince
  <2>4. clock \in Nat /\ CacheTTL \in Nat /\ FetchTime \in Nat /\ withdrawnAt[req[r].kid] \in Nat
    BY <1>1, <2>2, LoginAssumption DEF IInv, TypeOK, Times, Never
  <2> QED BY <2>3, <2>4
<1>2. IInv /\ [Next]_vars =>
        [\A r \in Reqs : Accepted(r) /\ req[r].kid \notin published
            => clock - withdrawnAt[req[r].kid] <= CacheTTL + FetchTime]_vars
  BY <1>1
<1> QED BY <1>2, Invariance, PTL DEF Spec, WithdrawnKeyIsRefused

(* And a key the provider has published for longer than that is found by    *)
(* every login, though an unknown kid never makes the service fetch again.  *)
THEOREM NewKeyFound == Spec => NewKeyIsFound
<1>1. ASSUME IInv, [Next]_vars, NEW r \in Reqs, Rejected(r), req[r].signed, ClaimsHold(r),
             req[r].kid \in published
      PROVE  clock - publishedAt[req[r].kid] <= CacheTTL + FetchTime
  <2>1. PICK keys \in SUBSET Kids :
          ChangedSince(keys, clock - CacheTTL - FetchTime) /\ CheckToken(r, keys)
    BY <1>1, CheckedAgainstRecentKeys DEF Rejected
  <2>2. req[r].kid \notin keys
    <3> SUFFICES ASSUME req[r].kid \in keys PROVE FALSE
      OBVIOUS
    <3>1. req' = [req EXCEPT ![r].pc = "find", ![r].keys = {}, ![r].since = 0]
      BY <1>1, <2>1 DEF CheckToken, SignedBy
    <3>2. req \in [Reqs -> Request] /\ req[r] \in Request
      BY <1>1 DEF IInv, TypeOK
    <3>3. req'[r].pc = "find"
      BY <3>1, <3>2 DEF Request
    <3> QED BY <1>1, <3>3 DEF Rejected
  <2>3. publishedAt[req[r].kid] >= clock - CacheTTL - FetchTime
    BY <1>1, <2>1, <2>2 DEF ChangedSince
  <2>4. clock \in Nat /\ CacheTTL \in Nat /\ FetchTime \in Nat /\ publishedAt[req[r].kid] \in Nat
    BY <1>1, LoginAssumption DEF IInv, TypeOK, Times, Never
  <2> QED BY <2>3, <2>4
<1>2. IInv /\ [Next]_vars =>
        [\A r \in Reqs : Rejected(r) /\ req[r].signed /\ ClaimsHold(r) /\ req[r].kid \in published
            => clock - publishedAt[req[r].kid] <= CacheTTL + FetchTime]_vars
  BY <1>1
<1> QED BY <1>2, Invariance, PTL DEF Spec, NewKeyIsFound
=============================================================================
