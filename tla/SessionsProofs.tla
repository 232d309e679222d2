--------------------------- MODULE SessionsProofs ---------------------------
(* Theorems about Sessions, for every set of users, session ids, devices and *)
(* requests, every TTL and every bound on the tokens.                        *)
EXTENDS Sessions, TLAPS

USE SessionsAssumption

-----------------------------------------------------------------------------
(* Records of the right type. *)

LEMMA IdleIsRequest == Idle \in Request
  BY DEF Idle, Request, Stages, NoToken

LEMMA NoSessionIsSession == NoSession \in Session
  BY DEF NoSession, Session, NoToken

LEMMA EmptyIndexIsIndex == EmptyIndex \in Index
  BY DEF EmptyIndex, Index, NoExpiry

LEMMA GotoType ==
  ASSUME req \in [Reqs -> Request], NEW r \in Reqs, NEW pc \in Stages, Goto(r, pc)
  PROVE  req' \in [Reqs -> Request]
<1>1. [req[r] EXCEPT !.pc = pc] \in Request
  BY DEF Request
<1>2. QED
  BY <1>1 DEF Goto

LEMMA DoneType ==
  ASSUME req \in [Reqs -> Request], NEW r \in Reqs, Done(r)
  PROVE  req' \in [Reqs -> Request]
  BY IdleIsRequest DEF Done

\* What RequestsAreWired and the types say of one request.
LEMMA WiredRequest ==
  ASSUME TypeOK, RequestsAreWired, NEW r \in Reqs
  PROVE  /\ req[r] \in Request
         /\ req[r].device \in Devices \cup {NoDevice}
         /\ req[r].asked \subseteq Sids /\ req[r].ids \subseteq Sids
         /\ req[r].token \in 0..MaxTokens /\ req[r].old \in 0..MaxTokens
         /\ req[r].pc \in StoreStages => req[r].token \in Tokens
         /\ req[r].pc \in StoreStages \cup LogoutStages =>
              req[r].sid \in Sids /\ req[r].user \in Users
         /\ req[r].pc \in LogoutAllStages => req[r].user \in Users
  BY DEF TypeOK, RequestsAreWired, Request

-----------------------------------------------------------------------------
LEMMA InitIInv == Init => IInv
<1> SUFFICES ASSUME Init PROVE IInv
  OBVIOUS
<1>1. TypeOK
  BY IdleIsRequest, NoSessionIsSession, EmptyIndexIsIndex DEF Init, TypeOK
<1>2. RequestsAreWired /\ StoreIsOwned
  BY DEF Init, RequestsAreWired, StoreIsOwned, Idle, NoSession, EmptyIndex, Live,
         StoreStages, LogoutStages, LogoutAllStages
<1>3. QED
  BY <1>1, <1>2 DEF IInv

(* Every step keeps the types. *)
LEMMA TypeStep ==
  ASSUME TypeOK, RequestsAreWired, [Next]_vars
  PROVE  TypeOK'
<1> USE DEF At, store, history
<1>1. ASSUME NEW r \in Reqs, NEW u \in Users, NEW s \in Sids, NEW d \in Devices,
             Login(r, u, s, d)
      PROVE  TypeOK'
  <2>1. issued' \in 0..MaxTokens
    BY <1>1 DEF Login, TypeOK
  <2>2. [Idle EXCEPT !.pc = "set", !.user = u, !.sid = s, !.device = d,
                     !.token = issued + 1] \in Request
    BY <1>1, <2>1, IdleIsRequest DEF Login, Request, Stages, StoreStages
  <2>3. QED
    BY <1>1, <2>1, <2>2 DEF Login, TypeOK
<1>2. ASSUME NEW r \in Reqs, NEW s \in Sids, NEW t \in Tokens,
             NEW d \in Devices \cup {NoDevice}, RefreshRead(r, s, t, d)
      PROVE  TypeOK'
  <2>1. issued' \in 0..MaxTokens /\ t \in 0..MaxTokens
    BY <1>2 DEF RefreshRead, TypeOK, Tokens
  <2>2. /\ session[s].user \in Users \cup {NoUser}
        /\ session[s].device \in Devices \cup {NoDevice}
    BY DEF TypeOK, Session
  <2>3. [Idle EXCEPT !.pc = "set", !.sid = s, !.user = session[s].user,
           !.device = session[s].device, !.token = issued + 1, !.old = t] \in Request
    BY <1>2, <2>1, <2>2, IdleIsRequest DEF RefreshRead, Request, Stages, StoreStages
  <2>4. QED
    BY <1>2, <2>1, <2>3 DEF RefreshRead, TypeOK
<1>3. ASSUME NEW r \in Reqs, NEW s \in Sids, Admit(r, s)
      PROVE  TypeOK'
  <2>1. owner[s] \in Users \cup {NoUser} /\ OwnedBy(owner[s]) \subseteq Sids
    BY DEF TypeOK, OwnedBy
  <2>2. [Idle EXCEPT !.pc = "read", !.user = owner[s], !.sid = s, !.asked = {s}] \in Request
    BY <2>1, IdleIsRequest DEF Request, Stages, LogoutStages
  <2>3. ASSUME NEW a \in SUBSET Sids
        PROVE  [Idle EXCEPT !.pc = "smembers", !.user = owner[s], !.asked = a] \in Request
    BY <2>1, IdleIsRequest DEF Request, Stages, LogoutAllStages
  <2>4. {x \in OwnedBy(owner[s]) : Live(x) /\ known[x] # {}} \in SUBSET Sids
    BY <2>1
  <2>5. req' \in [Reqs -> Request]
    BY <1>3, <2>2, <2>3, <2>4 DEF Admit, TypeOK
  <2>6. disturbed' \subseteq Sids
    BY <1>3, <2>1 DEF Admit, TypeOK
  <2>7. QED
    BY <1>3, <2>5, <2>6 DEF Admit, TypeOK
<1>4. ASSUME NEW r \in Reqs, StoreSet(r)
      PROVE  TypeOK'
  <2>1. [user |-> req[r].user, device |-> req[r].device, token |-> req[r].token,
         ttl |-> TTL] \in Session
    BY <1>4, WiredRequest DEF StoreSet, StoreStages, Session
  <2>2. req' \in [Reqs -> Request]
    BY <1>4, GotoType DEF StoreSet, TypeOK, Stages, StoreStages
  <2>3. QED
    BY <1>4, <2>1, <2>2 DEF StoreSet, TypeOK
<1>5. ASSUME NEW r \in Reqs, StoreSadd(r)
      PROVE  TypeOK'
  <2>1. req[r].user \in Users /\ req[r].sid \in Sids
    BY <1>5, WiredRequest DEF StoreSadd, StoreStages
  <2>2. [index[req[r].user] EXCEPT !.ids = @ \cup {req[r].sid}] \in Index
    BY <2>1 DEF TypeOK, Index
  <2>3. index' \in [Users -> Index]
    BY <1>5, <2>1, <2>2 DEF StoreSadd, TypeOK
  <2>4. \A u \in Users : index'[u].ids = {} => index'[u] = EmptyIndex
    BY <1>5, <2>1 DEF StoreSadd, TypeOK, Index
  <2>5. req' \in [Reqs -> Request]
    BY <1>5, GotoType DEF StoreSadd, TypeOK, Stages, StoreStages
  <2>6. QED
    BY <1>5, <2>3, <2>4, <2>5 DEF StoreSadd, TypeOK
<1>6. ASSUME NEW r \in Reqs, StoreExpire(r)
      PROVE  TypeOK'
  <2>1. req[r].user \in Users /\ req[r].sid \in Sids /\ req[r].token \in Tokens
    BY <1>6, WiredRequest DEF StoreExpire, StoreStages
  <2>2. [index[req[r].user] EXCEPT !.ttl = AfterExpire(req[r].user)] \in Index
    BY <2>1 DEF TypeOK, Index, AfterExpire
  <2>3. index' \in [Users -> Index]
    BY <1>6, <2>1, <2>2 DEF StoreExpire, TypeOK
  <2>4. \A u \in Users : index'[u].ids = {} => index'[u] = EmptyIndex
    <3>1. ASSUME index[req[r].user].ids = {}
          PROVE  [index[req[r].user] EXCEPT !.ttl = AfterExpire(req[r].user)] = EmptyIndex
      <4>1. index[req[r].user] = EmptyIndex
        BY <2>1, <3>1 DEF TypeOK
      <4>2. AfterExpire(req[r].user) = NoExpiry
        BY <3>1 DEF AfterExpire
      <4>3. QED
        BY <4>1, <4>2 DEF EmptyIndex
    <3>2. [index[req[r].user] EXCEPT !.ttl = AfterExpire(req[r].user)].ids
            = index[req[r].user].ids
      BY <2>1 DEF TypeOK, Index
    <3>3. QED
      BY <1>6, <2>1, <3>1, <3>2 DEF StoreExpire, TypeOK
  <2>5. req' \in [Reqs -> Request]
    BY <1>6, DoneType DEF StoreExpire, TypeOK
  <2>6. exchanged' \subseteq Tokens \X Tokens
    BY <1>6, <2>1, WiredRequest DEF StoreExpire, TypeOK, Tokens, NoToken
  <2>7. known' \in [Sids -> SUBSET Tokens]
    BY <1>6, <2>1 DEF StoreExpire, TypeOK
  <2>8. QED
    BY <1>6, <2>3, <2>4, <2>5, <2>6, <2>7 DEF StoreExpire, TypeOK
<1>7. ASSUME NEW r \in Reqs, NEW t \in 0..MaxTokens, RevokeRead(r, t)
      PROVE  TypeOK'
  <2>1. req[r].sid \in Sids
    BY <1>7, WiredRequest DEF RevokeRead, LogoutStages
  <2>2. req' \in [Reqs -> Request]
    BY <1>7, GotoType, DoneType DEF RevokeRead, TypeOK, Stages, LogoutStages
  <2>3. ended' \subseteq Sids
    BY <1>7, <2>1 DEF RevokeRead, TypeOK
  <2>4. QED
    BY <1>7, <2>2, <2>3 DEF RevokeRead, TypeOK
<1>8. ASSUME NEW r \in Reqs, RevokeDel(r)
      PROVE  TypeOK'
  <2>1. req' \in [Reqs -> Request]
    BY <1>8, GotoType DEF RevokeDel, TypeOK, Stages, LogoutStages
  <2>2. QED
    BY <1>8, <2>1, NoSessionIsSession DEF RevokeDel, TypeOK
<1>9. ASSUME NEW r \in Reqs, RevokeSrem(r)
      PROVE  TypeOK'
  <2>1. req[r].user \in Users /\ req[r].sid \in Sids
    BY <1>9, WiredRequest DEF RevokeSrem, LogoutStages
  <2> DEFINE rest == index[req[r].user].ids \ {req[r].sid}
  <2>2. [index[req[r].user] EXCEPT !.ids = rest] \in Index
    BY <2>1 DEF TypeOK, Index
  <2>3. /\ index' \in [Users -> Index]
        /\ \A u \in Users : index'[u].ids = {} => index'[u] = EmptyIndex
    BY <1>9, <2>1, <2>2, EmptyIndexIsIndex DEF RevokeSrem, TypeOK, Index
  <2>4. req' \in [Reqs -> Request]
    BY <1>9, DoneType DEF RevokeSrem, TypeOK
  <2>5. QED
    BY <1>9, <2>1, <2>3, <2>4 DEF RevokeSrem, TypeOK
<1>10. ASSUME NEW r \in Reqs, RevokeAllRead(r)
       PROVE  TypeOK'
  <2>1. req[r].user \in Users
    BY <1>10, WiredRequest DEF RevokeAllRead, LogoutAllStages
  <2>2. [req[r] EXCEPT !.pc = "delAll", !.ids = index[req[r].user].ids] \in Request
    BY <2>1, WiredRequest DEF TypeOK, Index, Request, Stages, LogoutAllStages
  <2>3. req' \in [Reqs -> Request]
    BY <1>10, <2>2, DoneType DEF RevokeAllRead, TypeOK
  <2>4. endedAll' \subseteq Sids
    BY <1>10, WiredRequest DEF RevokeAllRead, TypeOK
  <2>5. QED
    BY <1>10, <2>3, <2>4 DEF RevokeAllRead, TypeOK
<1>11. ASSUME NEW r \in Reqs, RevokeAllDel(r)
       PROVE  TypeOK'
  <2>1. req' \in [Reqs -> Request]
    BY <1>11, GotoType DEF RevokeAllDel, TypeOK, Stages, LogoutAllStages
  <2>2. QED
    BY <1>11, <2>1, NoSessionIsSession DEF RevokeAllDel, TypeOK
<1>12. ASSUME NEW r \in Reqs, RevokeAllDelIndex(r)
       PROVE  TypeOK'
  <2>1. /\ index' \in [Users -> Index]
        /\ \A u \in Users : index'[u].ids = {} => index'[u] = EmptyIndex
    BY <1>12, EmptyIndexIsIndex DEF RevokeAllDelIndex, TypeOK
  <2>2. req' \in [Reqs -> Request]
    BY <1>12, DoneType DEF RevokeAllDelIndex, TypeOK
  <2>3. QED
    BY <1>12, <2>1, <2>2, WiredRequest DEF RevokeAllDelIndex, TypeOK
<1>13. ASSUME NEW r \in Reqs, Abort(r)
       PROVE  TypeOK'
  <2>1. req' \in [Reqs -> Request]
    BY <1>13, DoneType DEF Abort, TypeOK
  <2>2. disturbed' \subseteq Sids
    BY <1>13, WiredRequest DEF Abort, TypeOK, StoreStages
  <2>3. QED
    BY <1>13, <2>1, <2>2 DEF Abort, TypeOK
<1>14. CASE Tick
  <2>1. ASSUME NEW s \in Sids, session[s].ttl > 1
        PROVE  [session[s] EXCEPT !.ttl = @ - 1] \in Session
    BY <2>1 DEF TypeOK, Session
  <2>2. session' \in [Sids -> Session]
    BY <1>14, <2>1, NoSessionIsSession DEF Tick
  <2>3. ASSUME NEW u \in Users, index[u].ttl > 1
        PROVE  /\ [index[u] EXCEPT !.ttl = @ - 1] \in Index
               /\ [index[u] EXCEPT !.ttl = @ - 1].ids = index[u].ids
               /\ index[u].ids # {}
    BY <2>3 DEF TypeOK, Index, EmptyIndex, NoExpiry
  <2>4. /\ index' \in [Users -> Index]
        /\ \A u \in Users : index'[u].ids = {} => index'[u] = EmptyIndex
    BY <1>14, <2>3, EmptyIndexIsIndex DEF Tick, TypeOK
  <2>5. QED
    BY <1>14, <2>2, <2>4 DEF Tick, TypeOK
<1>15. ASSUME NEW u \in Users, DeleteUser(u)
       PROVE  TypeOK'
  BY <1>15 DEF DeleteUser, TypeOK
<1>16. CASE CleanupSweep
  BY <1>16, NoSessionIsSession DEF CleanupSweep, TypeOK
<1>17. CASE UNCHANGED vars
  BY <1>17 DEF vars, TypeOK
<1>18. QED
  BY <1>1, <1>2, <1>3, <1>4, <1>5, <1>6, <1>7, <1>8, <1>9, <1>10, <1>11, <1>12, <1>13,
     <1>14, <1>15, <1>16, <1>17 DEF Next, Continue

-----------------------------------------------------------------------------
\* A step that writes only one request gives the invariant of requests to the
\* others, when owners only grow.
LEMMA OwnersOnlyGrow ==
  ASSUME TypeOK, [Next]_vars
  PROVE  \A s \in Sids : owner[s] # NoUser => owner'[s] = owner[s]
<1> USE DEF history
<1>1. ASSUME NEW r \in Reqs, NEW u \in Users, NEW s \in Sids, NEW d \in Devices,
             Login(r, u, s, d)
      PROVE  \A x \in Sids : owner[x] # NoUser => owner'[x] = owner[x]
  BY <1>1 DEF Login, NewId, TypeOK
<1>2. ASSUME ~\E r \in Reqs, u \in Users, s \in Sids, d \in Devices : Login(r, u, s, d)
      PROVE  owner' = owner
  BY <1>2 DEF Next, vars, RefreshRead, Admit, Continue, StoreSet, StoreSadd, StoreExpire,
       RevokeRead, RevokeDel, RevokeSrem, RevokeAllRead, RevokeAllDel, RevokeAllDelIndex,
       Abort, Tick, DeleteUser, CleanupSweep
<1>3. QED
  BY <1>1, <1>2

(* Every step keeps requests wired to their own session and user. *)
LEMMA WiringStep ==
  ASSUME IInv, [Next]_vars
  PROVE  RequestsAreWired'
<1> USE DEF IInv, At, store, history
<1> DEFINE Wired(q, own) ==
      /\ q.pc \in StoreStages => q.token \in Tokens
      /\ q.pc \in StoreStages \cup LogoutStages =>
           q.sid \in Sids /\ q.user \in Users /\ own[q.sid] = q.user
      /\ q.pc \in LogoutAllStages =>
           q.user \in Users /\ q.ids \subseteq {s \in Sids : own[s] = q.user}
<1>1. RequestsAreWired <=> \A r \in Reqs : Wired(req[r], owner)
  BY DEF RequestsAreWired, OwnedBy
<1>2. RequestsAreWired' <=> \A r \in Reqs : Wired(req'[r], owner')
  BY DEF RequestsAreWired, OwnedBy
<1>3. \A r \in Reqs : Wired(req[r], owner')
  BY <1>1, OwnersOnlyGrow DEF TypeOK
<1>4. ASSUME NEW o PROVE Wired(Idle, o)
  BY DEF Idle, StoreStages, LogoutStages, LogoutAllStages
<1> HIDE DEF Wired
<1>5. ASSUME NEW r \in Reqs, NEW q, req' = [req EXCEPT ![r] = q], Wired(q, owner')
      PROVE  RequestsAreWired'
  BY <1>2, <1>3, <1>5 DEF TypeOK
<1>6. ASSUME UNCHANGED req PROVE RequestsAreWired'
  BY <1>2, <1>3, <1>6
<1>7. ASSUME NEW r \in Reqs, Done(r) PROVE RequestsAreWired'
  BY <1>4, <1>5, <1>7 DEF Done
<1>8. ASSUME NEW r \in Reqs, NEW pc, Goto(r, pc),
             \/ req[r].pc \in StoreStages /\ pc \in StoreStages
             \/ req[r].pc \in LogoutStages /\ pc \in LogoutStages
             \/ req[r].pc \in LogoutAllStages /\ pc \in LogoutAllStages
      PROVE  RequestsAreWired'
  <2>1. [req[r] EXCEPT !.pc = pc].pc = pc
    BY DEF TypeOK, Request
  <2>2. Wired([req[r] EXCEPT !.pc = pc], owner')
    BY <1>3, <1>8, <2>1 DEF Wired, TypeOK, Request, StoreStages, LogoutStages, LogoutAllStages
  <2>3. QED
    BY <1>5, <1>8, <2>2 DEF Goto
<1>9. ASSUME NEW r \in Reqs, NEW u \in Users, NEW s \in Sids, NEW d \in Devices,
             Login(r, u, s, d)
      PROVE  RequestsAreWired'
  <2> DEFINE q == [Idle EXCEPT !.pc = "set", !.user = u, !.sid = s, !.device = d,
                               !.token = issued + 1]
  <2>1. q.pc = "set" /\ q.user = u /\ q.sid = s /\ q.token = issued + 1
    BY DEF Idle
  <2>2. issued + 1 \in Tokens /\ owner'[s] = u
    BY <1>9 DEF Login, TypeOK, Tokens
  <2>3. Wired(q, owner')
    BY <2>1, <2>2 DEF Wired, StoreStages, LogoutStages, LogoutAllStages
  <2>4. QED
    BY <1>5, <1>9, <2>3 DEF Login
<1>10. ASSUME NEW r \in Reqs, NEW s \in Sids, NEW t \in Tokens,
              NEW d \in Devices \cup {NoDevice}, RefreshRead(r, s, t, d)
       PROVE  RequestsAreWired'
  <2> DEFINE q == [Idle EXCEPT !.pc = "set", !.sid = s, !.user = session[s].user,
                     !.device = session[s].device, !.token = issued + 1, !.old = t]
  <2>1. q.pc = "set" /\ q.user = session[s].user /\ q.sid = s /\ q.token = issued + 1
    BY DEF Idle
  <2>2. issued + 1 \in Tokens
    BY <1>10 DEF RefreshRead, TypeOK, Tokens
  <2>3. session[s].user \in Users /\ owner'[s] = session[s].user
    BY <1>10 DEF RefreshRead, StoreIsOwned
  <2>4. Wired(q, owner')
    BY <2>1, <2>2, <2>3 DEF Wired, StoreStages, LogoutStages, LogoutAllStages
  <2>5. QED
    BY <1>5, <1>10, <2>4 DEF RefreshRead
<1>11. ASSUME NEW r \in Reqs, NEW s \in Sids, Admit(r, s)
       PROVE  RequestsAreWired'
  <2>1. owner[s] \in Users /\ owner' = owner
    BY <1>11 DEF Admit, StoreIsOwned
  <2>2. Wired([Idle EXCEPT !.pc = "read", !.user = owner[s], !.sid = s, !.asked = {s}], owner')
    BY <2>1 DEF Wired, Idle, StoreStages, LogoutStages, LogoutAllStages
  <2>3. ASSUME NEW a
        PROVE  Wired([Idle EXCEPT !.pc = "smembers", !.user = owner[s], !.asked = a], owner')
    BY <2>1 DEF Wired, Idle, StoreStages, LogoutStages, LogoutAllStages
  <2>4. QED
    BY <1>5, <1>11, <2>2, <2>3 DEF Admit
<1>12. ASSUME NEW r \in Reqs, RevokeAllRead(r)
       PROVE  RequestsAreWired'
  <2> DEFINE q == [req[r] EXCEPT !.pc = "delAll", !.ids = index[req[r].user].ids]
  <2>1. req[r].user \in Users /\ owner' = owner
    BY <1>12, WiredRequest DEF RevokeAllRead, LogoutAllStages
  <2>2. q.pc = "delAll" /\ q.user = req[r].user /\ q.ids = index[req[r].user].ids
    BY DEF TypeOK, Request
  <2>3. q.ids \subseteq {s \in Sids : owner'[s] = q.user}
    BY <2>1, <2>2 DEF StoreIsOwned, OwnedBy
  <2>4. Wired(q, owner')
    BY <2>1, <2>2, <2>3 DEF Wired, StoreStages, LogoutStages, LogoutAllStages
  <2>5. QED
    BY <1>5, <1>7, <1>12, <2>4 DEF RevokeAllRead
<1>13. ASSUME NEW r \in Reqs, Continue(r) \/ Abort(r)
       PROVE  RequestsAreWired'
  BY <1>7, <1>8, <1>12, <1>13 DEF Continue, StoreSet, StoreSadd, StoreExpire, RevokeRead,
     RevokeDel, RevokeSrem, RevokeAllDel, RevokeAllDelIndex, Abort, StoreStages,
     LogoutStages, LogoutAllStages
<1>14. ASSUME Tick \/ (\E u \in Users : DeleteUser(u)) \/ CleanupSweep \/ UNCHANGED vars
       PROVE  RequestsAreWired'
  BY <1>6, <1>14 DEF Tick, DeleteUser, CleanupSweep, vars
<1>15. QED
  BY <1>9, <1>10, <1>11, <1>13, <1>14 DEF Next

(* Every step keeps sessions and sets with the user they were created for. *)
LEMMA OwnershipStep ==
  ASSUME IInv, [Next]_vars
  PROVE  StoreIsOwned'
<1> USE DEF IInv, At, store, history
<1>1. \A s \in Sids : owner[s] \in Users => owner'[s] = owner[s]
  BY OwnersOnlyGrow
<1>2. ASSUME \A s \in Sids : \/ session'[s] = session[s]
                             \/ session'[s] = NoSession
                             \/ /\ session'[s].user = owner'[s]
                                /\ owner'[s] \in Users
                             \/ /\ session'[s].user = session[s].user
                                /\ Live(s)
      PROVE  \A s \in Sids : Live(s)' => owner'[s] \in Users /\ session'[s].user = owner'[s]
  BY <1>1, <1>2 DEF StoreIsOwned, Live, NoSession
<1>3. ASSUME \A u \in Users : \/ index'[u].ids \subseteq index[u].ids
                              \/ index'[u].ids \subseteq index[u].ids \cup OwnedBy(u)'
      PROVE  \A u \in Users : index'[u].ids \subseteq OwnedBy(u)'
  BY <1>1, <1>3 DEF StoreIsOwned, OwnedBy
<1>4. SUFFICES
        /\ \A s \in Sids : \/ session'[s] = session[s]
                           \/ session'[s] = NoSession
                           \/ /\ session'[s].user = owner'[s]
                              /\ owner'[s] \in Users
                           \/ /\ session'[s].user = session[s].user
                              /\ Live(s)
        /\ \A u \in Users : \/ index'[u].ids \subseteq index[u].ids
                            \/ index'[u].ids \subseteq index[u].ids \cup OwnedBy(u)'
  BY <1>2, <1>3 DEF StoreIsOwned
<1>5. ASSUME UNCHANGED store
      PROVE  /\ \A s \in Sids : session'[s] = session[s]
             /\ \A u \in Users : index'[u].ids \subseteq index[u].ids
  BY <1>5
<1>6. ASSUME NEW r \in Reqs, StoreSet(r)
      PROVE  /\ \A s \in Sids : \/ session'[s] = session[s]
                                \/ session'[s].user = owner'[s] /\ owner'[s] \in Users
             /\ index' = index
  BY <1>6, WiredRequest DEF StoreSet, TypeOK, RequestsAreWired, StoreStages
<1>7. ASSUME NEW r \in Reqs, StoreSadd(r)
      PROVE  /\ session' = session
             /\ \A u \in Users : index'[u].ids \subseteq index[u].ids \cup OwnedBy(u)'
  BY <1>7, WiredRequest DEF StoreSadd, TypeOK, RequestsAreWired, StoreStages, Index, OwnedBy
<1>8. ASSUME NEW r \in Reqs, StoreExpire(r)
      PROVE  /\ session' = session
             /\ \A u \in Users : index'[u].ids \subseteq index[u].ids
  BY <1>8, WiredRequest DEF StoreExpire, TypeOK, StoreStages, Index
<1>9. ASSUME NEW r \in Reqs, RevokeSrem(r)
      PROVE  /\ session' = session
             /\ \A u \in Users : index'[u].ids \subseteq index[u].ids
  BY <1>9, WiredRequest DEF RevokeSrem, TypeOK, LogoutStages, Index, EmptyIndex
<1>10. ASSUME NEW r \in Reqs, RevokeAllDelIndex(r)
       PROVE  /\ session' = session
              /\ \A u \in Users : index'[u].ids \subseteq index[u].ids
  BY <1>10, WiredRequest DEF RevokeAllDelIndex, TypeOK, LogoutAllStages, EmptyIndex
<1>11. ASSUME NEW r \in Reqs, RevokeDel(r) \/ RevokeAllDel(r)
       PROVE  /\ \A s \in Sids : session'[s] \in {session[s], NoSession}
              /\ index' = index
  BY <1>11 DEF RevokeDel, RevokeAllDel, TypeOK
<1>12. CASE CleanupSweep
  BY <1>12 DEF CleanupSweep
<1>13. CASE Tick
  <2>1. ASSUME NEW s \in Sids
        PROVE  \/ session'[s] = NoSession
               \/ session'[s].user = session[s].user /\ Live(s)
    BY <1>13 DEF Tick, TypeOK, Session, Live
  <2>2. ASSUME NEW u \in Users
        PROVE  index'[u].ids \subseteq index[u].ids
    BY <1>13 DEF Tick, TypeOK, Index, EmptyIndex
  <2>3. QED
    BY <2>1, <2>2
<1>14. ASSUME NEW r \in Reqs, Continue(r)
       PROVE  \/ UNCHANGED store
              \/ StoreSet(r) \/ StoreSadd(r) \/ StoreExpire(r) \/ RevokeSrem(r)
              \/ RevokeDel(r) \/ RevokeAllDel(r) \/ RevokeAllDelIndex(r)
  BY <1>14 DEF Continue, RevokeRead, RevokeAllRead
<1>15. ASSUME \/ \E r \in Reqs : \/ \E u \in Users, s \in Sids, d \in Devices : Login(r, u, s, d)
                                 \/ \E s \in Sids, t \in Tokens, d \in Devices \cup {NoDevice} :
                                      RefreshRead(r, s, t, d)
                                 \/ \E s \in Sids : Admit(r, s)
                                 \/ Abort(r)
              \/ \E u \in Users : DeleteUser(u)
              \/ UNCHANGED vars
       PROVE  UNCHANGED store
  BY <1>15 DEF Login, RefreshRead, Admit, Abort, DeleteUser, vars
<1>16. QED
  BY <1>5, <1>6, <1>7, <1>8, <1>9, <1>10, <1>11, <1>12, <1>13, <1>14, <1>15 DEF Next

(* The types, the wiring of requests and the ownership of what is stored     *)
(* hold in every reachable state.                                            *)
THEOREM InductiveInvariant == Spec => []IInv
<1>1. Init => IInv
  BY InitIInv
<1>2. IInv /\ [Next]_vars => IInv'
  BY TypeStep, WiringStep, OwnershipStep DEF IInv
<1>3. QED
  BY <1>1, <1>2, PTL DEF Spec

THEOREM Typing == Spec => []TypeOK
<1>1. IInv => TypeOK
  BY DEF IInv
<1>2. QED
  BY <1>1, InductiveInvariant, PTL

-----------------------------------------------------------------------------
\* A step writes a session only from a request at "set", and brings a request
\* there only with a new token, for a new id or a live session, in exchange for
\* a current token.
LEMMA StoreSteps ==
  ASSUME IInv, [Next]_vars
  PROVE  /\ issued' \in {issued, issued + 1}
         /\ \A s \in Sids :
              \/ session'[s].token \in {session[s].token, NoToken} /\ (Live(s)' => Live(s))
              \/ \E r \in Reqs : At(r, "set") /\ req[r].sid = s
                                 /\ session'[s].token = req[r].token
         /\ \A r \in Reqs : At(r, "set")' =>
              \/ At(r, "set") /\ req'[r].token = req[r].token /\ req'[r].sid = req[r].sid
              \/ /\ req'[r].token = issued + 1
                 /\ req'[r].sid \in Sids
                 /\ owner[req'[r].sid] = NoUser \/ Live(req'[r].sid)
         /\ \A r \in Reqs : \/ req'[r].old \in {req[r].old, NoToken}
                            \/ \E s \in Sids : req'[r].old = session[s].token
<1> USE DEF IInv, At, store, history
<1>1. ASSUME NEW r \in Reqs, NEW u \in Users, NEW s \in Sids, NEW d \in Devices,
             Login(r, u, s, d)
      PROVE  /\ issued' = issued + 1 /\ session' = session
             /\ req'[r].token = issued + 1 /\ req'[r].sid = s /\ owner[s] = NoUser
             /\ req'[r].old = NoToken
             /\ \A q \in Reqs \ {r} : req'[q] = req[q]
  BY <1>1 DEF Login, NewId, TypeOK, Idle
<1>2. ASSUME NEW r \in Reqs, NEW s \in Sids, NEW t \in Tokens,
             NEW d \in Devices \cup {NoDevice}, RefreshRead(r, s, t, d)
      PROVE  /\ issued' = issued + 1 /\ session' = session
             /\ req'[r].token = issued + 1 /\ req'[r].sid = s /\ Live(s)
             /\ req'[r].old = session[s].token
             /\ \A q \in Reqs \ {r} : req'[q] = req[q]
  BY <1>2 DEF RefreshRead, TokenMatches, TypeOK, Idle
<1>3. ASSUME NEW r \in Reqs, StoreSet(r)
      PROVE  /\ issued' = issued
             /\ \A s \in Sids : \/ session'[s] = session[s]
                                \/ req[r].sid = s /\ session'[s].token = req[r].token
             /\ At(r, "set") /\ ~At(r, "set")' /\ req'[r].old = req[r].old
             /\ \A q \in Reqs \ {r} : req'[q] = req[q]
  BY <1>3, WiredRequest DEF StoreSet, Goto, TypeOK, Request, StoreStages
<1>4. ASSUME Tick \/ CleanupSweep \/ (\E u \in Users : DeleteUser(u)) \/ UNCHANGED vars
      PROVE  /\ issued' = issued /\ req' = req
             /\ \A s \in Sids : /\ session'[s].token \in {session[s].token, NoToken}
                                /\ Live(s)' => Live(s)
  BY <1>4 DEF Tick, CleanupSweep, DeleteUser, vars, TypeOK, Session, NoSession, Live
<1>5. ASSUME NEW r \in Reqs, NEW s \in Sids, Admit(r, s)
      PROVE  /\ issued' = issued /\ session' = session
             /\ ~At(r, "set")' /\ req'[r].old = NoToken
             /\ \A q \in Reqs \ {r} : req'[q] = req[q]
  <2>1. PICK q : /\ req' = [req EXCEPT ![r] = q]
                 /\ q.pc \in {"read", "smembers"} /\ q.old = NoToken
    <3>1. /\ [Idle EXCEPT !.pc = "read", !.user = owner[s], !.sid = s, !.asked = {s}].pc = "read"
          /\ [Idle EXCEPT !.pc = "read", !.user = owner[s], !.sid = s, !.asked = {s}].old = NoToken
      BY DEF Idle
    <3>2. ASSUME NEW a
          PROVE  /\ [Idle EXCEPT !.pc = "smembers", !.user = owner[s], !.asked = a].pc = "smembers"
                 /\ [Idle EXCEPT !.pc = "smembers", !.user = owner[s], !.asked = a].old = NoToken
      BY DEF Idle
    <3>3. QED
      BY <1>5, <3>1, <3>2 DEF Admit
  <2>2. QED
    BY <1>5, <2>1 DEF Admit, TypeOK
<1>6. ASSUME NEW r \in Reqs, Done(r)
      PROVE  /\ ~At(r, "set")' /\ req'[r].old = NoToken
             /\ \A q \in Reqs \ {r} : req'[q] = req[q]
  BY <1>6 DEF Done, TypeOK, Idle
<1>7. ASSUME NEW r \in Reqs, NEW pc \in Stages \ {"set"}, Goto(r, pc)
      PROVE  /\ ~At(r, "set")' /\ req'[r].old = req[r].old
             /\ \A q \in Reqs \ {r} : req'[q] = req[q]
  BY <1>7 DEF Goto, TypeOK, Request
<1>8. ASSUME NEW r \in Reqs, RevokeAllRead(r)
      PROVE  /\ ~At(r, "set")' /\ req'[r].old \in {req[r].old, NoToken}
             /\ \A q \in Reqs \ {r} : req'[q] = req[q]
  <2>1. CASE Done(r)
    BY <1>6, <2>1
  <2>2. CASE ~Done(r)
    <3> DEFINE q == [req[r] EXCEPT !.pc = "delAll", !.ids = index[req[r].user].ids]
    <3>1. q.pc = "delAll" /\ q.old = req[r].old
      BY DEF TypeOK, Request
    <3>2. req' = [req EXCEPT ![r] = q]
      BY <1>8, <2>2 DEF RevokeAllRead
    <3>3. QED
      BY <3>1, <3>2 DEF TypeOK
  <2>3. QED
    BY <2>1, <2>2
<1>9. ASSUME NEW r \in Reqs, Continue(r) \/ Abort(r), ~StoreSet(r)
      PROVE  /\ issued' = issued
             /\ \A s \in Sids : session'[s] \in {session[s], NoSession}
             /\ ~At(r, "set")' /\ req'[r].old \in {req[r].old, NoToken}
             /\ \A q \in Reqs \ {r} : req'[q] = req[q]
  <2>1. Done(r) \/ (\E pc \in Stages \ {"set"} : Goto(r, pc)) \/ RevokeAllRead(r)
    BY <1>9 DEF Continue, StoreSadd, StoreExpire, RevokeRead, RevokeDel, RevokeSrem,
       RevokeAllDel, RevokeAllDelIndex, Abort, Stages, StoreStages, LogoutStages,
       LogoutAllStages
  <2>2. /\ issued' = issued
        /\ \A s \in Sids : session'[s] \in {session[s], NoSession}
    BY <1>9 DEF Continue, StoreSadd, StoreExpire, RevokeRead, RevokeDel, RevokeSrem,
       RevokeAllRead, RevokeAllDel, RevokeAllDelIndex, Abort, TypeOK, NoSession
  <2>3. QED
    BY <1>6, <1>7, <1>8, <2>1, <2>2
<1>10. ASSUME NEW s \in Sids, session'[s] \in {session[s], NoSession}
       PROVE  session'[s].token \in {session[s].token, NoToken} /\ (Live(s)' => Live(s))
  BY <1>10 DEF NoSession, Live
<1>11. QED
  BY <1>1, <1>2, <1>3, <1>4, <1>5, <1>9, <1>10 DEF Next, Continue, Live

(* An old refresh token buys no new one, whatever overlaps. *)
THEOREM SpentTokens == Spec => SpentTokenStaysSpent
<1>1. ASSUME IInv, [Next]_vars, NEW t \in Tokens, Spent(t)
      PROVE  Spent(t)'
  <2>1. t <= issued' /\ t # issued + 1 /\ t # NoToken
    BY <1>1, StoreSteps DEF Spent, IInv, TypeOK, Tokens, NoToken
  <2>2. \A s \in Sids : session'[s].token # t
    BY <1>1, <2>1, StoreSteps DEF Spent
  <2>3. \A r \in Reqs : req'[r].old # t /\ ~(At(r, "set")' /\ req'[r].token = t)
    BY <1>1, <2>1, StoreSteps DEF Spent
  <2>4. QED
    BY <2>1, <2>2, <2>3 DEF Spent, At
<1>2. IInv /\ [Next]_vars => [\A t \in Tokens : Spent(t) => Spent(t)']_vars
  BY <1>1
<1>3. QED
  BY <1>2, InductiveInvariant, PTL DEF Spec, SpentTokenStaysSpent

(* A session that has ended and that no refresh in flight has read has ended *)
(* for good.                                                                 *)
THEOREM GoneSessions == Spec => GoneSessionStaysGone
<1>1. ASSUME IInv, [Next]_vars, NEW s \in Sids, Gone(s)
      PROVE  Gone(s)'
  BY <1>1, StoreSteps, OwnersOnlyGrow DEF Gone, At, IInv, TypeOK
<1>2. IInv /\ [Next]_vars => [\A s \in Sids : Gone(s) => Gone(s)']_vars
  BY <1>1
<1>3. QED
  BY <1>2, InductiveInvariant, PTL DEF Spec, GoneSessionStaysGone

-----------------------------------------------------------------------------
(* No user's logout, logout-all included, ends the session of another. *)
THEOREM OnlyItsUserEnds == Spec => OnlyItsUserEndsASession
<1> DEFINE Ends(s) == \/ owner[s] \notin users
                      \/ \E r \in Reqs : req[r].user = owner[s] /\ req[r].pc \in {"del", "delAll"}
<1>1. ASSUME IInv, [Next]_vars, NEW s \in Sids, session[s].ttl > 1, session'[s].ttl = 0
      PROVE  Ends(s)
  <2> USE DEF IInv, At, store, history
  <2>1. session' # session /\ session'[s] # session[s]
    BY <1>1
  <2>2. session[s].user = owner[s]
    BY <1>1 DEF StoreIsOwned, Live, TypeOK, Session
  <2>3. ASSUME NEW r \in Reqs, StoreSet(r)
        PROVE  Ends(s)
    BY <1>1, <2>3, WiredRequest DEF StoreSet, TypeOK, StoreStages
  <2>4. ASSUME NEW r \in Reqs, RevokeDel(r)
        PROVE  Ends(s)
    BY <1>1, <2>1, <2>4 DEF RevokeDel, TypeOK, RequestsAreWired, LogoutStages
  <2>5. ASSUME NEW r \in Reqs, RevokeAllDel(r)
        PROVE  Ends(s)
    <3>1. s \in req[r].ids /\ req[r].pc = "delAll"
      BY <2>1, <2>5 DEF RevokeAllDel, TypeOK
    <3>2. req[r].ids \subseteq OwnedBy(req[r].user)
      BY <1>1, <3>1 DEF RequestsAreWired, LogoutAllStages
    <3>3. QED
      BY <3>1, <3>2 DEF OwnedBy
  <2>6. CASE Tick
    BY <1>1, <2>6 DEF Tick, TypeOK, Session
  <2>7. CASE CleanupSweep
    BY <1>1, <2>1, <2>2, <2>7 DEF CleanupSweep, TypeOK
  <2>8. QED
    BY <1>1, <2>1, <2>3, <2>4, <2>5, <2>6, <2>7 DEF Next, vars, Login, RefreshRead, Admit,
       Continue, StoreSadd, StoreExpire, RevokeRead, RevokeSrem, RevokeAllRead,
       RevokeAllDelIndex, Abort, DeleteUser
<1>2. IInv /\ [Next]_vars =>
        [\A s \in Sids : session[s].ttl > 1 /\ session'[s].ttl = 0 => Ends(s)]_vars
  BY <1>1
<1>3. QED
  BY <1>2, InductiveInvariant, PTL DEF Spec, OnlyItsUserEndsASession

-----------------------------------------------------------------------------
(* Logouts in flight only touch the entries of disturbed sessions. *)
LEMMA DisturbStep ==
  ASSUME IInv, LogoutsDisturb, [Next]_vars
  PROVE  LogoutsDisturb'
<1> USE DEF IInv, At, store, history
<1> DEFINE Safe(q, own, dist, ind) ==
      /\ q.pc \in LogoutStages => q.sid \in dist
      /\ q.pc \in LogoutAllStages => {s \in Sids : own[s] = q.user} \subseteq dist
      /\ q.pc = "expire" /\ q.sid \notin dist => q.sid \in ind[q.user].ids
<1>1. LogoutsDisturb <=> \A r \in Reqs : Safe(req[r], owner, disturbed, index)
  BY DEF LogoutsDisturb, OwnedBy
<1>2. LogoutsDisturb' <=> \A r \in Reqs : Safe(req'[r], owner', disturbed', index')
  BY DEF LogoutsDisturb, OwnedBy
<1>3. ASSUME NEW o, NEW d, NEW i PROVE Safe(Idle, o, d, i)
  BY DEF Idle, LogoutStages, LogoutAllStages
<1>4. \A r \in Reqs : Safe(req[r], owner, disturbed, index)
  BY <1>1
\* More disturbed sessions and larger sets are safe for every request.
<1>5. ASSUME owner' = owner, disturbed \subseteq disturbed',
             \A u \in Users : index[u].ids \subseteq index'[u].ids
      PROVE  \A r \in Reqs : Safe(req[r], owner', disturbed', index')
  BY <1>4, <1>5, WiredRequest DEF StoreStages
<1>6. ASSUME NEW r \in Reqs, NEW q, req' = [req EXCEPT ![r] = q],
             Safe(q, owner', disturbed', index'),
             \A x \in Reqs \ {r} : Safe(req[x], owner', disturbed', index')
      PROVE  LogoutsDisturb'
  <2> HIDE DEF Safe
  <2>1. QED
    BY <1>2, <1>6 DEF TypeOK
<1>7. ASSUME req' = req, owner' = owner, disturbed \subseteq disturbed',
             \A u \in Users : index[u].ids \subseteq index'[u].ids
      PROVE  LogoutsDisturb'
  BY <1>2, <1>5, <1>7
\* A request that moves between stages without writing the sets.
<1>8. ASSUME NEW r \in Reqs, owner' = owner, disturbed \subseteq disturbed', index' = index,
             \/ Done(r)
             \/ /\ Goto(r, "sadd")
             \/ /\ req[r].pc \in LogoutStages
                /\ \E pc \in LogoutStages : Goto(r, pc)
             \/ /\ req[r].pc \in LogoutAllStages
                /\ \E pc \in LogoutAllStages : Goto(r, pc)
      PROVE  LogoutsDisturb'
  <2>1. \A x \in Reqs : Safe(req[x], owner', disturbed', index')
    BY <1>5, <1>8
  <2>2. ASSUME NEW pc
        PROVE  LET q == [req[r] EXCEPT !.pc = pc]
               IN q.pc = pc /\ q.sid = req[r].sid /\ q.user = req[r].user
    BY DEF TypeOK, Request
  <2>3. CASE Done(r)
    BY <1>3, <1>6, <2>1, <2>3 DEF Done
  <2>4. ASSUME NEW pc \in LogoutStages \cup LogoutAllStages \cup {"sadd"}, Goto(r, pc),
               \/ pc = "sadd"
               \/ pc \in LogoutStages /\ req[r].pc \in LogoutStages
               \/ pc \in LogoutAllStages /\ req[r].pc \in LogoutAllStages
        PROVE  LogoutsDisturb'
    <3>1. Safe([req[r] EXCEPT !.pc = pc], owner', disturbed', index')
      BY <2>1, <2>2, <2>4 DEF LogoutStages, LogoutAllStages
    <3>2. QED
      BY <1>6, <2>1, <2>4, <3>1 DEF Goto
  <2>5. QED
    BY <1>8, <2>3, <2>4
<1> HIDE DEF Safe
<1>9. ASSUME NEW r \in Reqs, NEW u \in Users, NEW s \in Sids, NEW d \in Devices,
             Login(r, u, s, d)
      PROVE  LogoutsDisturb'
  <2>1. Safe([Idle EXCEPT !.pc = "set", !.user = u, !.sid = s, !.device = d,
                          !.token = issued + 1], owner', disturbed', index')
    BY DEF Safe, Idle, LogoutStages, LogoutAllStages
  <2>2. disturbed \subseteq disturbed' /\ index' = index /\ owner' = [owner EXCEPT ![s] = u]
    BY <1>9 DEF Login
  <2>3. ASSUME NEW x \in Reqs
        PROVE  Safe(req[x], owner', disturbed', index')
    <3>1. ASSUME req[x].pc \in LogoutAllStages
          PROVE  {y \in Sids : owner'[y] = req[x].user} \subseteq disturbed'
      <4>1. {y \in Sids : owner[y] = req[x].user} \subseteq disturbed
        BY <1>4, <3>1 DEF Safe
      <4>2. u = req[x].user => s \in disturbed'
        BY <1>9, <3>1 DEF Login
      <4>3. QED
        BY <2>2, <4>1, <4>2 DEF TypeOK
    <3>2. QED
      BY <1>4, <2>2, <3>1 DEF Safe
  <2>4. QED
    BY <1>6, <1>9, <2>1, <2>3 DEF Login
<1>10. ASSUME NEW r \in Reqs, NEW s \in Sids, NEW t \in Tokens,
              NEW d \in Devices \cup {NoDevice}, RefreshRead(r, s, t, d)
       PROVE  LogoutsDisturb'
  <2>1. Safe([Idle EXCEPT !.pc = "set", !.sid = s, !.user = session[s].user,
                !.device = session[s].device, !.token = issued + 1, !.old = t],
             owner', disturbed', index')
    BY DEF Safe, Idle, LogoutStages, LogoutAllStages
  <2>2. QED
    BY <1>5, <1>6, <1>10, <2>1 DEF RefreshRead
<1>11. ASSUME NEW r \in Reqs, NEW s \in Sids, Admit(r, s)
       PROVE  LogoutsDisturb'
  <2>1. owner' = owner /\ index' = index /\ disturbed \subseteq disturbed'
    BY <1>11 DEF Admit
  <2>2. ASSUME s \in disturbed'
        PROVE  Safe([Idle EXCEPT !.pc = "read", !.user = owner[s], !.sid = s, !.asked = {s}],
                    owner', disturbed', index')
    BY <2>2 DEF Safe, Idle, LogoutStages, LogoutAllStages
  <2>3. ASSUME NEW a, OwnedBy(owner[s]) \subseteq disturbed'
        PROVE  Safe([Idle EXCEPT !.pc = "smembers", !.user = owner[s], !.asked = a],
                    owner', disturbed', index')
    BY <2>1, <2>3 DEF Safe, Idle, LogoutStages, LogoutAllStages, OwnedBy
  <2>4. QED
    BY <1>5, <1>6, <1>11, <2>1, <2>2, <2>3 DEF Admit
<1>12. ASSUME NEW r \in Reqs, StoreSadd(r)
       PROVE  LogoutsDisturb'
  <2>1. req[r].user \in Users /\ req[r].sid \in Sids
    BY <1>12, WiredRequest DEF StoreSadd, StoreStages
  <2>2. /\ \A u \in Users : index[u].ids \subseteq index'[u].ids
        /\ req[r].sid \in index'[req[r].user].ids
    BY <1>12, <2>1 DEF StoreSadd, TypeOK, Index
  <2>3. LET q == [req[r] EXCEPT !.pc = "expire"]
        IN q.pc = "expire" /\ q.sid = req[r].sid /\ q.user = req[r].user
    BY DEF TypeOK, Request
  <2>4. Safe([req[r] EXCEPT !.pc = "expire"], owner', disturbed', index')
    BY <2>2, <2>3 DEF Safe, LogoutStages, LogoutAllStages
  <2>5. QED
    BY <1>5, <1>6, <1>12, <2>2, <2>4 DEF StoreSadd, Goto
<1>13. ASSUME NEW r \in Reqs, StoreExpire(r)
       PROVE  LogoutsDisturb'
  <2>1. \A u \in Users : index[u].ids \subseteq index'[u].ids
    BY <1>13 DEF StoreExpire, TypeOK, Index
  <2>2. QED
    BY <1>3, <1>5, <1>6, <1>13, <2>1 DEF StoreExpire, Done
\* The entry a logout removes is not one a store in flight relies on.
<1>14. ASSUME NEW r \in Reqs, RevokeSrem(r)
       PROVE  LogoutsDisturb'
  <2>1. req[r].user \in Users /\ req[r].sid \in disturbed
    BY <1>4, <1>14, WiredRequest DEF RevokeSrem, LogoutStages, Safe
  <2>2. \A u \in Users : index[u].ids \ {req[r].sid} \subseteq index'[u].ids
    BY <1>14, <2>1 DEF RevokeSrem, TypeOK, Index
  <2>3. disturbed' = disturbed /\ owner' = owner
    BY <1>14 DEF RevokeSrem
  <2>4. ASSUME NEW x \in Reqs
        PROVE  Safe(req[x], owner', disturbed', index')
    BY <1>4, <2>1, <2>2, <2>3, WiredRequest DEF Safe, StoreStages
  <2>5. QED
    BY <1>3, <1>6, <1>14, <2>4 DEF RevokeSrem, Done
<1>15. ASSUME NEW r \in Reqs, RevokeAllDelIndex(r)
       PROVE  LogoutsDisturb'
  <2>1. req[r].user \in Users /\ OwnedBy(req[r].user) \subseteq disturbed
    BY <1>15, WiredRequest DEF RevokeAllDelIndex, LogoutAllStages, LogoutsDisturb
  <2>2. disturbed' = disturbed /\ owner' = owner
    BY <1>15 DEF RevokeAllDelIndex
  <2>3. ASSUME NEW x \in Reqs
        PROVE  Safe(req[x], owner', disturbed', index')
    <3>1. ASSUME req[x].pc = "expire", req[x].sid \notin disturbed
          PROVE  req[x].sid \in index'[req[x].user].ids
      <4>1. req[x].sid \in OwnedBy(req[x].user) /\ req[x].user \in Users
        BY <3>1 DEF RequestsAreWired, StoreStages, OwnedBy
      <4>2. req[x].user # req[r].user
        BY <2>1, <3>1, <4>1
      <4>3. QED
        BY <1>4, <1>15, <3>1, <4>1, <4>2 DEF Safe, RevokeAllDelIndex, TypeOK
    <3>2. QED
      BY <1>4, <2>2, <3>1 DEF Safe
  <2>4. QED
    BY <1>3, <1>6, <1>15, <2>3 DEF RevokeAllDelIndex, Done
<1>16. ASSUME NEW r \in Reqs, RevokeAllRead(r)
       PROVE  LogoutsDisturb'
  <2> DEFINE q == [req[r] EXCEPT !.pc = "delAll", !.ids = index[req[r].user].ids]
  <2>1. q.pc = "delAll" /\ q.user = req[r].user
    BY DEF TypeOK, Request
  <2>2. owner' = owner /\ disturbed' = disturbed /\ index' = index
    BY <1>16 DEF RevokeAllRead
  <2>3. Safe(q, owner', disturbed', index')
    BY <1>4, <1>16, <2>1, <2>2 DEF Safe, RevokeAllRead, LogoutStages, LogoutAllStages
  <2>4. QED
    BY <1>5, <1>6, <1>8, <1>16, <2>2, <2>3 DEF RevokeAllRead
<1>17. ASSUME NEW r \in Reqs,
              StoreSet(r) \/ (\E t \in 0..MaxTokens : RevokeRead(r, t)) \/ RevokeDel(r)
                \/ RevokeAllDel(r) \/ Abort(r)
       PROVE  LogoutsDisturb'
  <2>1. owner' = owner /\ disturbed \subseteq disturbed' /\ index' = index
    BY <1>17 DEF StoreSet, RevokeRead, RevokeDel, RevokeAllDel, Abort
  <2>2. \/ Done(r)
        \/ Goto(r, "sadd")
        \/ /\ req[r].pc \in LogoutStages
           /\ \E pc \in LogoutStages : Goto(r, pc)
        \/ /\ req[r].pc \in LogoutAllStages
           /\ \E pc \in LogoutAllStages : Goto(r, pc)
    BY <1>17 DEF StoreSet, RevokeRead, RevokeDel, RevokeAllDel, Abort, LogoutStages,
       LogoutAllStages
  <2>3. QED
    BY <1>8, <2>1, <2>2
\* A set that expires under a store in flight disturbs its session.
<1>18. CASE Tick
  <2>1. owner' = owner /\ req' = req /\ disturbed \subseteq disturbed'
    BY <1>18 DEF Tick
  <2>2. ASSUME NEW x \in Reqs
        PROVE  Safe(req[x], owner', disturbed', index')
    <3>1. ASSUME req[x].pc = "expire", req[x].sid \notin disturbed'
          PROVE  req[x].sid \in index'[req[x].user].ids
      <4>1. req[x].user \in Users /\ req[x].sid \in Sids
        BY <3>1, WiredRequest DEF StoreStages
      <4>2. index[req[x].user].ttl # 1
        BY <1>18, <3>1, <4>1 DEF Tick
      <4>3. index'[req[x].user].ids = index[req[x].user].ids
        BY <1>18, <4>1, <4>2 DEF Tick, TypeOK, Index
      <4>4. QED
        BY <1>4, <2>1, <3>1, <4>3 DEF Safe
    <3>2. QED
      BY <1>4, <2>1, <3>1 DEF Safe
  <2>3. QED
    BY <1>2, <2>1, <2>2
<1>19. ASSUME (\E u \in Users : DeleteUser(u)) \/ CleanupSweep \/ UNCHANGED vars
       PROVE  LogoutsDisturb'
  BY <1>7, <1>19 DEF DeleteUser, CleanupSweep, vars
<1>20. QED
  BY <1>9, <1>10, <1>11, <1>12, <1>13, <1>14, <1>15, <1>16, <1>17, <1>18, <1>19
     DEF Next, Continue

(* Every live session that nothing disturbed keeps its place in the set. *)
LEMMA IndexStep ==
  ASSUME IndexInv, [Next]_vars
  PROVE  UndisturbedSessionIsIndexed'
<1> USE DEF IInv, IndexInv, At, store, history
<1> DEFINE Covered(s, own, ses, ind) ==
      /\ s \in ind[own[s]].ids
      /\ ind[own[s]].ttl = NoExpiry \/ ind[own[s]].ttl >= ses[s].ttl
<1>1. SUFFICES ASSUME NEW s \in Sids, Live(s)', s \notin disturbed', ~Storing(s)'
               PROVE  Covered(s, owner', session', index')
  BY DEF UndisturbedSessionIsIndexed
\* Nothing that is covered is uncovered by a step that leaves the session and
\* its set as they are.
<1>2. ASSUME owner' = owner, session'[s] = session[s], index'[owner[s]] = index[owner[s]],
             s \notin disturbed, ~Storing(s)
      PROVE  Covered(s, owner', session', index')
  BY <1>1, <1>2 DEF UndisturbedSessionIsIndexed, Live
<1>3. ASSUME NEW r \in Reqs, At(r, "expire"), req[r].sid = s, s \notin disturbed
      PROVE  s \in index[owner[s]].ids /\ req[r].user = owner[s] /\ owner[s] \in Users
  BY <1>3 DEF LogoutsDisturb, RequestsAreWired, StoreStages
<1>4. ASSUME NEW r \in Reqs, NEW q, req' = [req EXCEPT ![r] = q],
             req[r].pc \in {"sadd", "expire"} => q.pc \in {"sadd", "expire"} /\ q.sid = req[r].sid
      PROVE  ~Storing(s)
  BY <1>1, <1>4 DEF Storing, TypeOK
<1>5. ASSUME NEW r \in Reqs, StoreExpire(r)
      PROVE  Covered(s, owner', session', index')
  <2>1. /\ req[r].user \in Users /\ owner' = owner /\ session' = session
        /\ disturbed' = disturbed /\ Live(s)
    BY <1>1, <1>5, WiredRequest DEF StoreExpire, StoreStages, Live
  <2>2. owner[s] \in Users
    BY <2>1 DEF StoreIsOwned
  <2>3. s \in index[owner[s]].ids
    <3>1. CASE req[r].sid = s
      BY <1>1, <1>3, <1>5, <2>1, <3>1 DEF StoreExpire
    <3>2. CASE req[r].sid # s
      <4>1. ~Storing(s)
        BY <1>1, <1>5, <3>2 DEF StoreExpire, Done, Storing, TypeOK
      <4>2. QED
        BY <1>1, <2>1, <4>1 DEF UndisturbedSessionIsIndexed
    <3>3. QED
      BY <3>1, <3>2
  <2>4. CASE owner[s] = req[r].user
    <3>1. index'[owner[s]].ids = index[owner[s]].ids /\ index'[owner[s]].ttl = TTL
      BY <1>5, <2>2, <2>3, <2>4 DEF StoreExpire, AfterExpire, TypeOK, Index
    <3>2. QED
      BY <2>1, <2>3, <3>1 DEF TypeOK, Session
  <2>5. CASE owner[s] # req[r].user
    <3>1. req[r].sid # s
      BY <1>1, <1>3, <1>5, <2>1, <2>5 DEF StoreExpire
    <3>2. ~Storing(s)
      BY <1>1, <1>5, <3>1 DEF StoreExpire, Done, Storing, TypeOK
    <3>3. QED
      BY <1>1, <1>2, <1>5, <2>1, <2>5, <3>2 DEF StoreExpire, TypeOK
  <2>6. QED
    BY <2>4, <2>5
<1>6. ASSUME NEW r \in Reqs, StoreSet(r)
      PROVE  Covered(s, owner', session', index')
  <2>1. req[r].sid # s
    BY <1>1, <1>6 DEF StoreSet, Goto, Storing, TypeOK, Request
  <2>2. ~Storing(s)
    BY <1>1, <1>6, <2>1 DEF StoreSet, Goto, Storing, TypeOK, Request
  <2>3. QED
    BY <1>1, <1>2, <1>6, <2>1, <2>2, WiredRequest DEF StoreSet, TypeOK, StoreStages
<1>7. ASSUME NEW r \in Reqs, StoreSadd(r)
      PROVE  Covered(s, owner', session', index')
  <2>1. /\ req[r].user \in Users /\ owner' = owner /\ session' = session
        /\ disturbed' = disturbed /\ Live(s)
    BY <1>1, <1>7, WiredRequest DEF StoreSadd, StoreStages, Live
  <2>2. ~Storing(s)
    BY <1>1, <1>7 DEF StoreSadd, Goto, Storing, TypeOK, Request
  <2>3. Covered(s, owner, session, index) /\ owner[s] \in Users
    BY <1>1, <2>1, <2>2 DEF UndisturbedSessionIsIndexed, StoreIsOwned
  <2>4. /\ index[owner[s]].ids \subseteq index'[owner[s]].ids
        /\ index'[owner[s]].ttl = index[owner[s]].ttl
    BY <1>7, <2>1, <2>3 DEF StoreSadd, TypeOK, Index
  <2>5. QED
    BY <2>1, <2>3, <2>4
\* A logout removes only disturbed sessions' entries.
<1>8. ASSUME NEW r \in Reqs, RevokeSrem(r)
      PROVE  Covered(s, owner', session', index')
  <2>1. /\ req[r].user \in Users /\ owner' = owner /\ session' = session
        /\ disturbed' = disturbed /\ Live(s)
    BY <1>1, <1>8, WiredRequest DEF RevokeSrem, LogoutStages, Live
  <2>2. req[r].sid # s
    BY <1>1, <1>8, <2>1 DEF RevokeSrem, LogoutsDisturb, LogoutStages
  <2>3. ~Storing(s)
    BY <1>1, <1>8 DEF RevokeSrem, Done, Storing, TypeOK
  <2>4. Covered(s, owner, session, index) /\ owner[s] \in Users
    BY <1>1, <2>1, <2>3 DEF UndisturbedSessionIsIndexed, StoreIsOwned
  <2>5. s \in index'[owner[s]].ids /\ index'[owner[s]].ttl = index[owner[s]].ttl
    BY <1>8, <2>1, <2>2, <2>4 DEF RevokeSrem, TypeOK, Index
  <2>6. QED
    BY <2>1, <2>4, <2>5
<1>9. ASSUME NEW r \in Reqs, RevokeAllDelIndex(r)
      PROVE  Covered(s, owner', session', index')
  <2>1. /\ req[r].user \in Users /\ owner' = owner /\ session' = session
        /\ disturbed' = disturbed
    BY <1>9, WiredRequest DEF RevokeAllDelIndex, LogoutAllStages
  <2>2. owner[s] # req[r].user
    BY <1>1, <1>9, <2>1 DEF RevokeAllDelIndex, LogoutsDisturb, LogoutAllStages, OwnedBy
  <2>3. ~Storing(s)
    BY <1>1, <1>9 DEF RevokeAllDelIndex, Done, Storing, TypeOK
  <2>4. QED
    BY <1>1, <1>2, <1>9, <2>1, <2>2, <2>3 DEF RevokeAllDelIndex, TypeOK
<1>10. ASSUME NEW r \in Reqs, RevokeDel(r) \/ RevokeAllDel(r)
       PROVE  Covered(s, owner', session', index')
  <2>1. session'[s] = session[s]
    BY <1>1, <1>10 DEF RevokeDel, RevokeAllDel, TypeOK, Live, NoSession
  <2>2. ~Storing(s)
    BY <1>1, <1>10 DEF RevokeDel, RevokeAllDel, Goto, Storing, TypeOK, Request
  <2>3. QED
    BY <1>1, <1>2, <1>10, <2>1, <2>2 DEF RevokeDel, RevokeAllDel
<1>11. CASE Tick
  <2>1. /\ owner' = owner /\ disturbed \subseteq disturbed' /\ req' = req
        /\ session[s].ttl > 1 /\ session'[s].ttl = session[s].ttl - 1
    BY <1>1, <1>11 DEF Tick, Live, NoSession, TypeOK, Session
  <2>2. Live(s) /\ ~Storing(s) /\ s \notin disturbed
    BY <1>1, <2>1 DEF Storing, Live, TypeOK, Session
  <2>3. Covered(s, owner, session, index) /\ owner[s] \in Users
    BY <2>2 DEF UndisturbedSessionIsIndexed, StoreIsOwned
  <2>4. index[owner[s]].ttl \in {NoExpiry} \cup 1..TTL
    BY <2>3 DEF TypeOK, Index
  <2>5. CASE index[owner[s]].ttl = NoExpiry
    BY <1>11, <2>1, <2>3, <2>5 DEF Tick, NoExpiry
  <2>6. CASE index[owner[s]].ttl # NoExpiry
    <3>1. index[owner[s]].ttl > 1
      BY <2>1, <2>3, <2>4, <2>6 DEF TypeOK, Session, NoExpiry
    <3>2. /\ index'[owner[s]].ids = index[owner[s]].ids
          /\ index'[owner[s]].ttl = index[owner[s]].ttl - 1
      BY <1>11, <2>3, <3>1 DEF Tick, TypeOK, Index
    <3>3. QED
      BY <2>1, <2>3, <2>4, <2>6, <3>2 DEF TypeOK, Session, NoExpiry
  <2>7. QED
    BY <2>5, <2>6
<1>12. CASE CleanupSweep
  <2>1. session'[s] = session[s] /\ ~Storing(s)
    BY <1>1, <1>12 DEF CleanupSweep, Live, NoSession, Storing
  <2>2. QED
    BY <1>1, <1>2, <1>12, <2>1 DEF CleanupSweep
<1>13. ASSUME NEW r \in Reqs, NEW u \in Users, NEW x \in Sids, NEW d \in Devices,
              Login(r, u, x, d)
       PROVE  Covered(s, owner', session', index')
  <2>1. Live(s) /\ session' = session /\ index' = index
    BY <1>1, <1>13 DEF Login, Live
  <2>2. owner[s] \in Users /\ x # s
    BY <1>13, <2>1 DEF StoreIsOwned, Login, NewId
  <2>3. ~Storing(s)
    BY <1>1, <1>13 DEF Login, Storing, TypeOK
  <2>4. s \notin disturbed /\ owner'[s] = owner[s]
    BY <1>1, <1>13, <2>2 DEF Login, TypeOK
  <2>5. QED
    BY <2>1, <2>3, <2>4 DEF UndisturbedSessionIsIndexed
<1>14. ASSUME NEW r \in Reqs, Abort(r)
       PROVE  Covered(s, owner', session', index')
  <2>1. s \notin disturbed /\ ~Storing(s)
    BY <1>1, <1>14 DEF Abort, Done, Storing, TypeOK
  <2>2. QED
    BY <1>1, <1>2, <1>14, <2>1 DEF Abort
\* The steps that only move a request that is not storing.
<1>15. ASSUME NEW r \in Reqs,
              \/ \E x \in Sids, t \in Tokens, d \in Devices \cup {NoDevice} : RefreshRead(r, x, t, d)
              \/ \E x \in Sids : Admit(r, x)
              \/ \E t \in 0..MaxTokens : RevokeRead(r, t)
              \/ RevokeAllRead(r)
       PROVE  Covered(s, owner', session', index')
  <2>1. UNCHANGED <<owner, session, index>> /\ disturbed \subseteq disturbed'
    BY <1>15 DEF RefreshRead, Admit, RevokeRead, RevokeAllRead
  <2>2. req[r].pc \notin {"sadd", "expire"} /\ \A q \in Reqs \ {r} : req'[q] = req[q]
    BY <1>15 DEF RefreshRead, Admit, RevokeRead, RevokeAllRead, Done, Goto, TypeOK
  <2>3. ~Storing(s)
    BY <1>1, <2>2 DEF Storing
  <2>4. QED
    BY <1>1, <1>2, <2>1, <2>3
<1>16. ASSUME (\E u \in Users : DeleteUser(u)) \/ UNCHANGED vars
       PROVE  Covered(s, owner', session', index')
  BY <1>1, <1>2, <1>16 DEF DeleteUser, vars, Storing
<1>17. QED
  BY <1>5, <1>6, <1>7, <1>8, <1>9, <1>10, <1>11, <1>12, <1>13, <1>14, <1>15, <1>16
     DEF Next, Continue

(* Logout-all finds every session that nothing disturbed, for as long as the *)
(* session lives.                                                            *)
THEOREM Indexing == Spec => []UndisturbedSessionIsIndexed
<1>1. Init => IndexInv
  BY InitIInv DEF Init, IndexInv, LogoutsDisturb, UndisturbedSessionIsIndexed, Live, At, Idle,
     NoSession, LogoutStages, LogoutAllStages
<1>2. IndexInv /\ [Next]_vars => IndexInv'
  BY TypeStep, WiringStep, OwnershipStep, DisturbStep, IndexStep DEF IndexInv, IInv
<1>3. IndexInv => UndisturbedSessionIsIndexed
  BY DEF IndexInv
<1>4. QED
  BY <1>1, <1>2, <1>3, PTL DEF Spec
=============================================================================
