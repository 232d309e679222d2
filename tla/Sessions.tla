------------------------------ MODULE Sessions ------------------------------
(***************************************************************************)
(* Login sessions of the API: SessionService over Redis, the AuthGuard     *)
(* that admits a request, AuthService's refresh and logout, and the        *)
(* nightly SessionCleanupWorker.                                           *)
(*                                                                         *)
(* Redis holds one key per session, auth:session:{sid}, with a TTL, and    *)
(* one set per user, auth:user-sessions:{uid}, with a TTL of its own, that *)
(* logout-all reads to find the sessions of a user.  Every Redis command   *)
(* is atomic; between two commands of one request, every other request     *)
(* runs, keys expire, and the request itself may die.  A request is        *)
(* therefore one action per awaited command.                               *)
(*                                                                         *)
(* A refresh token is a number: the n-th token issued.  The code stores    *)
(* the SHA-256 of 48 random bytes; two tokens are equal exactly when their *)
(* hashes are.  A refused request (401) writes nothing and is no step.     *)
(***************************************************************************)
EXTENDS Integers, FiniteSets

CONSTANTS
  Users,      \* the user rows that exist at the start
  Sids,       \* the session ids randomUUID will produce
  Devices,    \* device ids clients declare
  Reqs,       \* request slots: how many requests are in flight at once
  Ops,        \* the operations clients of this instance use
  TTL,        \* AUTH_REFRESH_TOKEN_TTL_SECONDS, in ticks
  MaxTokens,  \* bound: refresh tokens issued in a behaviour
  NoUser, NoSid, NoDevice

ASSUME SessionsAssumption ==
  /\ TTL \in Nat \ {0}
  /\ MaxTokens \in Nat
  /\ NoUser \notin Users
  /\ NoSid \notin Sids
  /\ NoDevice \notin Devices

VARIABLES
  session,    \* auth:session:{sid}; NoSession when the key does not exist
  index,      \* auth:user-sessions:{uid}; EmptyIndex when it does not exist
  users,      \* rows of the user table
  req,        \* the requests in flight
  issued,     \* how many refresh tokens have been issued
  known       \* the refresh tokens clients have received, by session

\* History: what the properties compare the store with, never read by a step
\* except to extend it.
VARIABLES
  owner,      \* the user a session id was created for
  exchanged,  \* <<old, new>>: a refresh answered with new in exchange for old
  ended,      \* sessions a completed logout was asked to end
  endedAll,   \* sessions a completed logout-all was asked to end
  disturbed,  \* sessions a logout overlapped, or whose store was cut short
  orphans     \* sessions of deleted users the last cleanup left behind

store == <<session, index>>
history == <<owner, exchanged, ended, endedAll, disturbed, orphans>>
vars == <<session, index, users, req, issued, known, history>>

-----------------------------------------------------------------------------
NoToken == 0
NoExpiry == -1          \* a Redis key without a TTL
Tokens == 1..MaxTokens

Session == [user : Users \cup {NoUser}, device : Devices \cup {NoDevice},
            token : 0..MaxTokens, ttl : 0..TTL]
NoSession == [user |-> NoUser, device |-> NoDevice, token |-> NoToken, ttl |-> 0]
Index == [ids : SUBSET Sids, ttl : {NoExpiry} \cup 1..TTL]
EmptyIndex == [ids |-> {}, ttl |-> NoExpiry]

StoreStages == {"set", "sadd", "expire"}
LogoutStages == {"read", "del", "srem"}
LogoutAllStages == {"smembers", "delAll", "delIndex"}
Stages == {"idle"} \cup StoreStages \cup LogoutStages \cup LogoutAllStages

Request == [pc : Stages, user : Users \cup {NoUser}, sid : Sids \cup {NoSid},
            device : Devices \cup {NoDevice}, token : 0..MaxTokens, old : 0..MaxTokens,
            asked : SUBSET Sids, ids : SUBSET Sids]
Idle == [pc |-> "idle", user |-> NoUser, sid |-> NoSid, device |-> NoDevice,
         token |-> NoToken, old |-> NoToken,
         asked |-> {}, ids |-> {}]

Live(s) == session[s].ttl > 0
OwnedBy(u) == {s \in Sids : owner[s] = u}
At(r, pc) == req[r].pc = pc
Goto(r, pc) == req' = [req EXCEPT ![r].pc = pc]
Done(r) == req' = [req EXCEPT ![r] = Idle]

-----------------------------------------------------------------------------
(* A seeded fault comes just before the definition it replaces.             *)

\* Fault: the session id is derived from the device, and so used again.
ReusedId(s) == ~Live(s)
(* randomUUID: an id no session has had.                                    *)
NewId(s) == owner[s] = NoUser

\* Fault: the hash is not compared.
AnyToken(s, t) == Live(s)
(* The comparison of rotateRefreshToken with the stored hash.               *)
TokenMatches(s, t) == t = session[s].token

\* Faults: milliseconds where EXPIRE takes seconds; EXPIRE ... NX; no EXPIRE.
AfterExpireMillis(u) == IF index[u].ids = {} THEN NoExpiry ELSE 1000 * TTL
AfterExpireNX(u) == IF index[u].ids = {} \/ index[u].ttl # NoExpiry
                    THEN index[u].ttl ELSE TTL
AfterNoExpire(u) == index[u].ttl
(* The TTL of the set of user u after EXPIRE, which does nothing on a       *)
(* missing key.                                                             *)
AfterExpire(u) == IF index[u].ids = {} THEN NoExpiry ELSE TTL

(* createSession: the record is built around a new id and a new token;      *)
(* storeSession follows.                                                    *)
Login(r, u, s, d) ==
  /\ "login" \in Ops /\ At(r, "idle")
  /\ u \in users /\ NewId(s) /\ issued < MaxTokens
  /\ issued' = issued + 1
  /\ req' = [req EXCEPT ![r] = [Idle EXCEPT !.pc = "set", !.user = u, !.sid = s,
                                            !.device = d, !.token = issued + 1]]
  /\ owner' = [owner EXCEPT ![s] = u]
  /\ disturbed' = IF \E q \in Reqs : req[q].pc \in LogoutAllStages /\ req[q].user = u
                  THEN disturbed \cup {s} ELSE disturbed
  /\ UNCHANGED <<session, index, users, known, exchanged, ended, endedAll, orphans>>

(* rotateRefreshToken up to the store: the session is read, the device, when *)
(* both sides name one, and the token are compared, and a new token issued.  *)
(* The record read here is what the request writes back.                     *)
RefreshRead(r, s, t, d) ==
  /\ "refresh" \in Ops /\ At(r, "idle")
  /\ t \in known[s]
  /\ Live(s)
  /\ d = NoDevice \/ d = session[s].device
  /\ TokenMatches(s, t)
  /\ issued < MaxTokens
  /\ issued' = issued + 1
  /\ req' = [req EXCEPT ![r] = [Idle EXCEPT !.pc = "set", !.sid = s,
                !.user = session[s].user, !.device = session[s].device,
                !.token = issued + 1, !.old = t]]
  /\ UNCHANGED <<store, users, known, history>>

(* storeSession, first command: SET key value EX ttl, whatever is there.    *)
StoreSet(r) ==
  /\ At(r, "set")
  /\ session' = [session EXCEPT ![req[r].sid] =
                   [user |-> req[r].user, device |-> req[r].device,
                    token |-> req[r].token, ttl |-> TTL]]
  /\ Goto(r, "sadd")
  /\ UNCHANGED <<index, users, issued, known, history>>

\* Fault: the key of the set does not name the user.
StoreSaddShared(r) ==
  /\ At(r, "sadd")
  /\ index' = [u \in Users |-> [index[u] EXCEPT !.ids = @ \cup {req[r].sid}]]
  /\ Goto(r, "expire")
  /\ UNCHANGED <<session, users, issued, known, history>>

(* storeSession, second command: SADD keeps the TTL of an existing set; a   *)
(* set it creates has none.                                                 *)
StoreSadd(r) ==
  /\ At(r, "sadd")
  /\ index' = [index EXCEPT ![req[r].user].ids = @ \cup {req[r].sid}]
  /\ Goto(r, "expire")
  /\ UNCHANGED <<session, users, issued, known, history>>

(* storeSession, third command, EXPIRE.  Then the tokens go to the client.  *)
StoreExpire(r) ==
  /\ At(r, "expire")
  /\ index' = [index EXCEPT ![req[r].user].ttl = AfterExpire(req[r].user)]
  /\ known' = [known EXCEPT ![req[r].sid] = @ \cup {req[r].token}]
  /\ exchanged' = IF req[r].old = NoToken THEN exchanged
                  ELSE exchanged \cup {<<req[r].old, req[r].token>>}
  /\ Done(r)
  /\ UNCHANGED <<session, users, issued, owner, ended, endedAll, disturbed, orphans>>

-----------------------------------------------------------------------------
(* AuthGuard.canActivate and validateAccessSession in front of a logout: the *)
(* access token names a session id and a user, and the session must exist    *)
(* and be that user's.  AuthService.logout picks the branch.  asked records  *)
(* the sessions whose login had been answered when the request came in.      *)
Admit(r, s) ==
  /\ At(r, "idle")
  /\ known[s] # {}
  /\ Live(s) /\ session[s].user = owner[s]
  /\ \/ /\ "logout" \in Ops
        /\ req' = [req EXCEPT ![r] = [Idle EXCEPT !.pc = "read", !.user = owner[s],
                                                  !.sid = s, !.asked = {s}]]
        /\ disturbed' = disturbed \cup {s}
     \/ /\ "logoutAll" \in Ops
        /\ req' = [req EXCEPT ![r] = [Idle EXCEPT !.pc = "smembers", !.user = owner[s],
                     !.asked = {x \in OwnedBy(owner[s]) : Live(x) /\ known[x] # {}}]]
        /\ disturbed' = disturbed \cup OwnedBy(owner[s])
  /\ UNCHANGED <<store, users, issued, known, owner, exchanged, ended, endedAll, orphans>>

(* revokeSession, GET: an absent session is a success; another user's        *)
(* session or a refresh token that is not the current one (when the client   *)
(* sends one) is refused.                                                    *)
RevokeRead(r, t) ==
  LET s == req[r].sid
      refused == session[s].user # req[r].user \/ t \notin {NoToken, session[s].token}
  IN /\ At(r, "read")
     /\ t \in known[s] \cup {NoToken}
     /\ \/ ~Live(s) /\ Done(r) /\ ended' = ended \cup {s}
        \/ Live(s) /\ refused /\ Done(r) /\ UNCHANGED ended
        \/ Live(s) /\ ~refused /\ Goto(r, "del") /\ UNCHANGED ended
     /\ UNCHANGED <<store, users, issued, known, owner, exchanged, endedAll, disturbed, orphans>>

(* revokeSession, DEL of the session key. *)
RevokeDel(r) ==
  /\ At(r, "del")
  /\ session' = [session EXCEPT ![req[r].sid] = NoSession]
  /\ Goto(r, "srem")
  /\ UNCHANGED <<index, users, issued, known, history>>

(* revokeSession, SREM; Redis deletes a set that becomes empty. *)
RevokeSrem(r) ==
  /\ At(r, "srem")
  /\ LET u == req[r].user
         rest == index[u].ids \ {req[r].sid}
     IN index' = [index EXCEPT ![u] = IF rest = {} THEN EmptyIndex
                                      ELSE [@ EXCEPT !.ids = rest]]
  /\ ended' = ended \cup {req[r].sid}
  /\ Done(r)
  /\ UNCHANGED <<session, users, issued, known, owner, exchanged, endedAll, disturbed, orphans>>

(* revokeAllSessions, SMEMBERS; an empty set ends the request at once. *)
RevokeAllRead(r) ==
  LET ids == index[req[r].user].ids
  IN /\ At(r, "smembers")
     /\ \/ ids # {} /\ req' = [req EXCEPT ![r] = [@ EXCEPT !.pc = "delAll", !.ids = ids]]
                    /\ UNCHANGED endedAll
        \/ ids = {} /\ Done(r) /\ endedAll' = endedAll \cup req[r].asked
     /\ UNCHANGED <<store, users, issued, known, owner, exchanged, ended, disturbed, orphans>>

(* revokeAllSessions, one DEL of every session key read. *)
RevokeAllDel(r) ==
  /\ At(r, "delAll")
  /\ session' = [s \in Sids |-> IF s \in req[r].ids THEN NoSession ELSE session[s]]
  /\ Goto(r, "delIndex")
  /\ UNCHANGED <<index, users, issued, known, history>>

(* revokeAllSessions, DEL of the set, whatever it holds by now. *)
RevokeAllDelIndex(r) ==
  /\ At(r, "delIndex")
  /\ index' = [index EXCEPT ![req[r].user] = EmptyIndex]
  /\ endedAll' = endedAll \cup req[r].asked
  /\ Done(r)
  /\ UNCHANGED <<session, users, issued, known, owner, exchanged, ended, disturbed, orphans>>

(* The process dies, or Redis fails, between two commands: nothing after the *)
(* last command that succeeded happens and the client gets no tokens.        *)
Abort(r) ==
  /\ "abort" \in Ops /\ ~At(r, "idle")
  /\ Done(r)
  /\ disturbed' = IF req[r].pc \in {"sadd", "expire"}
                  THEN disturbed \cup {req[r].sid} ELSE disturbed
  /\ UNCHANGED <<store, users, issued, known, owner, exchanged, ended, endedAll, orphans>>

-----------------------------------------------------------------------------
(* Redis expiry.  A set that expires between the SADD and the EXPIRE of a    *)
(* store cuts that store short.                                              *)
Tick ==
  /\ (\E s \in Sids : Live(s)) \/ (\E u \in Users : index[u].ttl # NoExpiry)
  /\ session' = [s \in Sids |->
                   IF session[s].ttl > 1 THEN [session[s] EXCEPT !.ttl = @ - 1]
                   ELSE NoSession]
  /\ index' = [u \in Users |->
                 IF index[u].ttl > 1 THEN [index[u] EXCEPT !.ttl = @ - 1]
                 ELSE IF index[u].ttl = 1 THEN EmptyIndex ELSE index[u]]
  /\ disturbed' = disturbed \cup
       {s \in Sids : \E r \in Reqs : /\ At(r, "expire") /\ req[r].sid = s
                                     /\ index[req[r].user].ttl = 1}
  /\ UNCHANGED <<users, req, issued, known, owner, exchanged, ended, endedAll, orphans>>

(* A user row disappears.  No endpoint does it; the cleanup worker is there  *)
(* for when it happens.                                                      *)
DeleteUser(u) ==
  /\ "deleteUser" \in Ops /\ u \in users
  /\ users' = users \ {u}
  /\ UNCHANGED <<store, req, issued, known, history>>

(* SessionCleanupWorker.handleJob.  SCAN returns the keys that match the     *)
(* pattern ScanPrefix*; a session key is SessionKeyPrefix followed by a UUID *)
(* and a set key starts with auth:user-sessions:, so session keys match      *)
(* exactly when the prefixes are equal.                                      *)
SessionKeyPrefix == "auth:session:"
ScanPrefix == "session:"
Scanned == {s \in Sids : Live(s) /\ ScanPrefix = SessionKeyPrefix}

CleanupSweep ==
  /\ session' = [s \in Sids |-> IF s \in Scanned /\ session[s].user \notin users
                                THEN NoSession ELSE session[s]]
  /\ orphans' = {s \in Sids : session'[s].ttl > 0 /\ session'[s].user \notin users}
  /\ UNCHANGED <<index, users, req, issued, known, owner, exchanged, ended, endedAll, disturbed>>

-----------------------------------------------------------------------------
Init ==
  /\ session = [s \in Sids |-> NoSession]
  /\ index = [u \in Users |-> EmptyIndex]
  /\ users = Users
  /\ req = [r \in Reqs |-> Idle]
  /\ issued = 0
  /\ known = [s \in Sids |-> {}]
  /\ owner = [s \in Sids |-> NoUser]
  /\ exchanged = {} /\ ended = {} /\ endedAll = {} /\ disturbed = {} /\ orphans = {}

\* The next command of a request already in flight.
Continue(r) ==
  \/ StoreSet(r) \/ StoreSadd(r) \/ StoreExpire(r)
  \/ \E t \in 0..MaxTokens : RevokeRead(r, t)
  \/ RevokeDel(r) \/ RevokeSrem(r)
  \/ RevokeAllRead(r) \/ RevokeAllDel(r) \/ RevokeAllDelIndex(r)

Next ==
  \/ \E r \in Reqs :
       \/ \E u \in Users, s \in Sids, d \in Devices : Login(r, u, s, d)
       \/ \E s \in Sids, t \in Tokens, d \in Devices \cup {NoDevice} : RefreshRead(r, s, t, d)
       \/ \E s \in Sids : Admit(r, s)
       \/ Continue(r)
       \/ Abort(r)
  \/ Tick
  \/ \E u \in Users : DeleteUser(u)
  \/ CleanupSweep

Spec == Init /\ [][Next]_vars

\* Redis answers every command and the event loop resumes every request; time
\* passes.
FairSpec == Spec /\ WF_vars(Tick) /\ \A r \in Reqs : WF_vars(Continue(r))

-----------------------------------------------------------------------------
(* Types; Redis has no empty sets. *)
TypeOK ==
  /\ session \in [Sids -> Session]
  /\ index \in [Users -> Index]
  /\ \A u \in Users : index[u].ids = {} => index[u] = EmptyIndex
  /\ users \subseteq Users
  /\ req \in [Reqs -> Request]
  /\ issued \in 0..MaxTokens
  /\ known \in [Sids -> SUBSET Tokens]
  /\ owner \in [Sids -> Users \cup {NoUser}]
  /\ exchanged \subseteq Tokens \X Tokens
  /\ ended \subseteq Sids /\ endedAll \subseteq Sids
  /\ disturbed \subseteq Sids /\ orphans \subseteq Sids

(* A token that is neither current, nor about to become current, nor held by *)
(* a refresh that has already compared it, can never again be any of these:  *)
(* whatever overlapping refreshes, logouts and crashes did to the session,   *)
(* an old refresh token buys no new one.  (rotateRefreshToken)               *)
Spent(t) ==
  /\ t <= issued
  /\ \A s \in Sids : session[s].token # t
  /\ \A r \in Reqs : req[r].old # t /\ ~(At(r, "set") /\ req[r].token = t)
SpentTokenStaysSpent == [][\A t \in Tokens : Spent(t) => Spent(t)']_vars

(* A session that has ended, by logout, logout-all, cleanup or expiry, comes *)
(* back only through a refresh that had read it while it was live: once no   *)
(* such refresh is in flight it has ended for good.  (readSession's null     *)
(* check in rotateRefreshToken, new ids in createSession)                    *)
Gone(s) ==
  /\ owner[s] # NoUser /\ ~Live(s)
  /\ \A r \in Reqs : ~(At(r, "set") /\ req[r].sid = s)
GoneSessionStaysGone == [][\A s \in Sids : Gone(s) => Gone(s)']_vars

(* A session that still has time to live ends only by a logout of its own    *)
(* user, or by the cleanup after that user was deleted: the sets that        *)
(* logout-all follows never lead to another user's session, whatever         *)
(* happened to them between the commands of other requests.                  *)
OnlyItsUserEndsASession ==
  [][\A s \in Sids :
       session[s].ttl > 1 /\ session'[s].ttl = 0 =>
         \/ owner[s] \notin users
         \/ \E r \in Reqs : req[r].user = owner[s] /\ req[r].pc \in {"del", "delAll"}]_vars

(* Logout-all finds every session it should: a live session whose store is   *)
(* not in progress, that no logout overlapped and whose store was not cut    *)
(* short, is in its user's set, and the set does not expire before it.       *)
(* (the order and the TTLs of storeSession's three commands)                 *)
Storing(s) == \E r \in Reqs : req[r].pc \in {"sadd", "expire"} /\ req[r].sid = s
UndisturbedSessionIsIndexed ==
  \A s \in Sids :
    Live(s) /\ s \notin disturbed /\ ~Storing(s) =>
      LET set == index[owner[s]]
      IN s \in set.ids /\ (set.ttl = NoExpiry \/ set.ttl >= session[s].ttl)

(* The set of a user does not stay in Redis for ever once its user's logins  *)
(* and refreshes stop: if no store is cut short, it is given a TTL and       *)
(* expires.  (storeSession's EXPIRE)                                         *)
IndexIsReclaimed ==
  \A u \in Users : index[u] # EmptyIndex ~> index[u] = EmptyIndex

-----------------------------------------------------------------------------
(* The inductive invariant behind the safety properties.                     *)

\* A request names a session id and the user it was created for; a logout-all
\* has only read ids of its own user.
RequestsAreWired ==
  \A r \in Reqs :
    /\ req[r].pc \in StoreStages => req[r].token \in Tokens
    /\ req[r].pc \in StoreStages \cup LogoutStages =>
         req[r].sid \in Sids /\ req[r].user \in Users /\ owner[req[r].sid] = req[r].user
    /\ req[r].pc \in LogoutAllStages =>
         req[r].user \in Users /\ req[r].ids \subseteq OwnedBy(req[r].user)

\* What Redis holds belongs to the user it was created for.
StoreIsOwned ==
  /\ \A s \in Sids : Live(s) => owner[s] \in Users /\ session[s].user = owner[s]
  /\ \A u \in Users : index[u].ids \subseteq OwnedBy(u)

\* Only disturbed sessions can lose their entry to a logout in flight, and a
\* store about to set the TTL has its entry in place.
LogoutsDisturb ==
  \A r \in Reqs :
    /\ req[r].pc \in LogoutStages => req[r].sid \in disturbed
    /\ req[r].pc \in LogoutAllStages => OwnedBy(req[r].user) \subseteq disturbed
    /\ At(r, "expire") /\ req[r].sid \notin disturbed =>
         req[r].sid \in index[req[r].user].ids

IInv == TypeOK /\ RequestsAreWired /\ StoreIsOwned
IndexInv == IInv /\ LogoutsDisturb /\ UndisturbedSessionIsIndexed

-----------------------------------------------------------------------------
(* What the documents say and the code does not keep.                        *)

(* A logout that was answered has ended its session, and a logout-all every  *)
(* session whose login had been answered before it was sent.                 *)
(* docs/technical-stack-decision.md:85, docs/api-contract.md:251.            *)
LogoutEndsTheSession == \A s \in ended \cup endedAll : ~Live(s)

(* A refresh token is rotated into one successor: presenting it a second     *)
(* time breaks the rotation rule.  src/main.ts:38.                           *)
TokenIsExchangedOnce == \A p, q \in exchanged : p[1] = q[1] => p = q

(* The nightly cleanup removes the sessions of users that no longer exist.   *)
(* session-cleanup.worker.ts:42 and :106.                                    *)
SweepLeavesNoOrphan == orphans = {}
=============================================================================
