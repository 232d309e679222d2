-------------------------- MODULE EngagementProofs --------------------------
(***************************************************************************)
(* Engagement, for any days, scores, reactions and number of requests;     *)
(* the patches and the pages, for any clients and lists; and the answers   *)
(* that are computed, for any input.                                       *)
(*                                                                         *)
(* What a Home decides rests on what it read, so the invariant says what   *)
(* that was: inactive days are counted from a time that is no earlier than *)
(* the last Home answered, and what a request found dismissed when it      *)
(* began is still within the cooldown, since no request outlives its day   *)
(* and feedback only gets later.                                           *)
(*                                                                         *)
(* Counting is proved by a smallest counterexample: a set of numbers has a *)
(* least member, and a set of finite sets a minimal one.                   *)
(***************************************************************************)
EXTENDS Engagement, Answers, Paging, Patches, FiniteSetTheorems, TLAPS

(* Least and greatest members.                                              *)
LEMMA NatMin ==
  ASSUME NEW A \in SUBSET Nat, A # {}
  PROVE  \E n \in A : \A m \in A : n <= m
<1>1. IsWellFoundedOn(OpToRel(<, Nat), Nat)
  BY NatLessThanWellFounded
<1>2. PICK n \in A : \A m \in A : ~(<<m, n>> \in OpToRel(<, Nat))
  BY <1>1, WFMin
<1>3. \A m \in A : ~(m < n)
  BY <1>2 DEF OpToRel
<1> QED BY <1>3

LEMMA FiniteMax ==
  ASSUME NEW K \in SUBSET Int, IsFiniteSet(K), K # {}
  PROVE  \E k \in K : \A m \in K : m <= k
<1> DEFINE HasMax(A) == \E k \in A : \A m \in A : m <= k
           F == {A \in SUBSET K : A # {} /\ ~HasMax(A)}
<1>1. SUFFICES ASSUME F # {} PROVE FALSE
  OBVIOUS
<1>2. F \subseteq FiniteSubsetsOf(K)
  BY FS_FiniteSubsetsOfFinite
<1>3. PICK A \in F : \A B \in F : ~(<<B, A>> \in StrictSubsetOrdering(K))
  BY <1>1, <1>2, FS_StrictSubsetOrderingWellFounded, WFMin
<1>4. PICK a \in A : TRUE
  OBVIOUS
<1>5. A \ {a} \notin F
  BY <1>3, <1>4 DEF StrictSubsetOrdering
<1>6. CASE A \ {a} = {}
  <2>1. A = {a} /\ a \in Int
    BY <1>4, <1>6
  <2> QED BY <2>1
<1>7. CASE A \ {a} # {}
  <2>1. PICK k \in A \ {a} : \A m \in A \ {a} : m <= k
    BY <1>5, <1>7
  <2>2. a \in Int /\ k \in Int /\ \A m \in A : m \in Int
    BY <1>4, <2>1
  <2>3. CASE a <= k
    BY <2>1, <2>2, <2>3
  <2>4. CASE k < a
    BY <2>1, <2>2, <2>4
  <2> QED BY <2>2, <2>3, <2>4
<1> QED BY <1>6, <1>7

LEMMA IntervalIsFinite ==
  ASSUME NEW a \in Int, NEW b \in Int, NEW A, A \subseteq a .. b
  PROVE  IsFiniteSet(A) /\ Cardinality(A) \in Nat
<1>1. IsFiniteSet(a .. b)
  BY FS_Interval
<1>2. A \in SUBSET (a .. b)
  OBVIOUS
<1> QED BY <1>1, <1>2, FS_Subset, FS_CardinalityType

-----------------------------------------------------------------------------
RequestIsSound(r) ==
  /\ At(r, "create") => req[r].key \in Keys
  /\ req[r].visited => req[r].inactive < 3
  /\ \A s \in req[r].dismissed : feedback[s]["DISMISSED"] >= now - 3
  /\ At(r, "idle") => req[r].dismissed = {}
  /\ At(r, "videos") \/ At(r, "answer") => req[r].state \notin req[r].dismissed

VisitsAreActivity == visited <= lastActive /\ lastActive <= now

IInv ==
  /\ TypeOK /\ OneCheckPerContext /\ VisitsAreActivity
  /\ \A r \in Reqs : RequestIsSound(r)

LEMMA Constants ==
  /\ Never \in Int /\ Never < 0 /\ 0 \in Days /\ Days \subseteq Nat
  /\ NoState \notin States /\ "DISMISSED" \in Actions
  /\ Blank \in Request /\ Blank.pc = "idle" /\ ~Blank.visited /\ Blank.dismissed = {}
<1>1. Never \in Int /\ Never < 0 /\ 0 \in Days /\ Days \subseteq Nat
  BY EngagementAssumption DEF Never, Days
<1>2. NoState \notin States /\ "DISMISSED" \in Actions
  BY EngagementAssumption DEF Actions
<1>3. Blank \in Request /\ Blank.pc = "idle" /\ ~Blank.visited /\ Blank.dismissed = {}
  BY <1>1 DEF Blank, Request
<1> QED BY <1>1, <1>2, <1>3

(* A request goes on, and nothing else changes but the cache.               *)
LEMMA RequestStep ==
  ASSUME IInv, NEW r \in Reqs, NEW next \in Request, Goes(r, next),
         UNCHANGED <<now, lastActive, checks, feedback, visited>>,
         cached' \in [States -> 0 .. MaxDay + YOUTUBE_CACHE_TTL],
         req'[r] = next => RequestIsSound(r)'
  PROVE  IInv'
<1>1. req' \in [Reqs -> Request] /\ req'[r] = next /\ \A q \in Reqs \ {r} : req'[q] = req[q]
  BY DEF IInv, TypeOK, Goes
<1>2. TypeOK'
  BY <1>1 DEF IInv, TypeOK
<1>3. ASSUME NEW q \in Reqs \ {r} PROVE RequestIsSound(q)'
  BY <1>1 DEF IInv, RequestIsSound, At
<1>4. OneCheckPerContext' /\ VisitsAreActivity'
  BY DEF IInv, OneCheckPerContext, VisitsAreActivity
<1> QED BY <1>1, <1>2, <1>3, <1>4 DEF IInv

(* A request that writes rows as it ends.                                   *)
LEMMA LastStep ==
  ASSUME IInv, NEW r \in Reqs, Goes(r, Blank), TypeOK', OneCheckPerContext', VisitsAreActivity',
         UNCHANGED <<now, feedback>>
  PROVE  IInv'
<1>1. req'[r] = Blank /\ \A q \in Reqs \ {r} : req'[q] = req[q]
  BY DEF IInv, TypeOK, Goes
<1>2. RequestIsSound(r)'
  BY <1>1, Constants DEF RequestIsSound, At
<1>3. ASSUME NEW q \in Reqs \ {r} PROVE RequestIsSound(q)'
  BY <1>1 DEF IInv, RequestIsSound, At
<1> QED BY <1>2, <1>3 DEF IInv

(* A check changes nothing but its own request and the rows of checks.      *)
LEMMA CheckSteps ==
  ASSUME IInv, NEW r \in Reqs,
         (\E key \in Keys : CheckFind(r, key)) \/ (\E score \in Scores : CheckCreate(r, score))
  PROVE  IInv'
<1>t. TypeOK /\ req[r] \in Request
  BY DEF IInv, TypeOK
<1>1. ASSUME NEW key \in Keys, CheckFind(r, key) PROVE IInv'
  <2> DEFINE next == [Blank EXCEPT !.pc = "create", !.key = key]
  <2>1. /\ next \in Request /\ next.pc = "create" /\ ~next.visited /\ next.dismissed = {}
    BY Constants DEF Blank, Request
  <2>k. next.key = key
    BY DEF Blank
  <2> HIDE DEF next
  <2>2. req'[r] = next => RequestIsSound(r)'
    BY <2>1, <2>k DEF RequestIsSound, At
  <2>3. Goes(r, next) /\ UNCHANGED <<now, lastActive, checks, feedback, cached, visited>>
    BY <1>1 DEF CheckFind, next
  <2> QED BY <1>t, <2>1, <2>2, <2>3, RequestStep DEF TypeOK
<1>2. ASSUME NEW score \in Scores, CheckCreate(r, score) PROVE IInv'
  <2> DEFINE row == [key |-> req[r].key, score |-> score, at |-> now]
  <2>1. Goes(r, Blank) /\ UNCHANGED <<now, lastActive, feedback, cached, visited>>
    BY <1>2 DEF CheckCreate
  <2>2. req' \in [Reqs -> Request] /\ VisitsAreActivity'
    BY <1>t, <2>1, Constants DEF Goes, TypeOK, IInv, VisitsAreActivity
  <2>3. CASE Taken(req[r].key)
    <3>1. checks' = checks
      BY <1>2, <2>3 DEF CheckCreate
    <3>2. TypeOK' /\ OneCheckPerContext'
      BY <1>t, <2>1, <2>2, <3>1 DEF IInv, TypeOK, OneCheckPerContext
    <3> QED BY <2>1, <2>2, <3>2, LastStep
  <2>4. CASE ~Taken(req[r].key)
    <3>1. checks' = <<row>> \o checks /\ At(r, "create")
      BY <1>2, <2>4 DEF CheckCreate
    <3>2. row \in Check /\ row.key = req[r].key
      BY <1>t, <3>1 DEF Check, IInv, RequestIsSound, TypeOK
    <3> HIDE DEF row
    <3>3. /\ checks' \in Seq(Check) /\ Len(checks') = Len(checks) + 1 /\ Len(checks) \in Nat
          /\ checks'[1] = row /\ \A i \in 1 .. Len(checks) : checks'[i + 1] = checks[i]
      BY <1>t, <3>1, <3>2 DEF TypeOK
    <3>4. OneCheckPerContext'
      <4>1. \A i \in 1 .. Len(checks) : checks[i].key # row.key
        BY <1>t, <2>4, <3>2 DEF Taken, TypeOK
      <4>2. ASSUME NEW i \in 1 .. Len(checks) + 1, NEW k \in 1 .. Len(checks) + 1,
                   checks'[i].key = checks'[k].key
            PROVE  i = k
        <5>1. i = 1 \/ (i - 1 \in 1 .. Len(checks) /\ checks'[i] = checks[i - 1])
          BY <3>3
        <5>2. k = 1 \/ (k - 1 \in 1 .. Len(checks) /\ checks'[k] = checks[k - 1])
          BY <3>3
        <5>3. \A x, y \in 1 .. Len(checks) : checks[x].key = checks[y].key => x = y
          BY <1>t DEF IInv, OneCheckPerContext, TypeOK
        <5> QED BY <3>3, <4>1, <4>2, <5>1, <5>2, <5>3
      <4>3. DOMAIN checks' = 1 .. Len(checks) + 1
        BY <3>3
      <4> QED BY <4>2, <4>3 DEF OneCheckPerContext
    <3>5. TypeOK'
      BY <1>t, <2>1, <2>2, <3>3 DEF TypeOK
    <3> QED BY <2>1, <2>2, <3>4, <3>5, LastStep
  <2> QED BY <2>3, <2>4
<1> QED BY <1>1, <1>2

(* What a Home learns at one await holds until it acts on it.               *)
LEMMA HomeSteps ==
  ASSUME IInv, NEW r \in Reqs,
         \/ HomeRead(r) \/ HomeChecks(r) \/ HomeFeedback(r) \/ HomeWithoutVideo(r) \/ HomeAnswer(r)
         \/ \E found \in BOOLEAN : HomeVideos(r, found)
  PROVE  IInv'
<1>t. TypeOK /\ RequestIsSound(r) /\ req[r] \in Request /\ VisitsAreActivity
  BY DEF IInv, TypeOK
<1>n. /\ now \in Nat /\ lastActive \in Nat /\ visited \in Int /\ MaxDay \in Nat
      /\ \A s \in States : feedback[s]["DISMISSED"] \in Int
      /\ cached \in [States -> 0 .. MaxDay + YOUTUBE_CACHE_TTL]
  <2>1. now \in Days /\ lastActive \in Days /\ visited \in Days \cup {Never}
        /\ cached \in [States -> 0 .. MaxDay + YOUTUBE_CACHE_TTL]
    BY <1>t DEF TypeOK
  <2>2. \A s \in States : feedback[s]["DISMISSED"] \in Days \cup {Never}
    BY <1>t, Constants DEF TypeOK
  <2>3. Days \cup {Never} \subseteq Int /\ Days \subseteq Nat /\ MaxDay \in Nat
    BY Constants, EngagementAssumption
  <2> QED BY <2>1, <2>2, <2>3
<1>d. req[r].dismissed \in SUBSET States /\ req[r].state \in States \cup {NoState}
  BY <1>t DEF Request
<1>1. CASE HomeRead(r)
  <2> DEFINE recent == now - visited < 3
             dismissed == {s \in States : feedback[s]["DISMISSED"] >= now - 3}
             next == [Blank EXCEPT !.pc = "checks", !.inactive = now - lastActive,
                                   !.visited = recent, !.dismissed = dismissed]
  <2>1. now - lastActive \in Days /\ recent \in BOOLEAN /\ dismissed \in SUBSET States
    BY <1>t, <1>n DEF TypeOK, Days, VisitsAreActivity
  <2>2. recent => now - lastActive < 3
    BY <1>t, <1>n DEF VisitsAreActivity
  <2>3. \A s \in dismissed : feedback[s]["DISMISSED"] >= now - 3
    OBVIOUS
  <2>4. Goes(r, next) /\ UNCHANGED <<now, lastActive, checks, feedback, cached, visited>>
    BY <1>1 DEF HomeRead
  <2> HIDE DEF recent, dismissed
  <2>5. /\ next \in Request /\ next.pc = "checks" /\ next.visited = recent
        /\ next.dismissed = dismissed /\ next.inactive = now - lastActive
    BY <2>1, Constants DEF Blank, Request
  <2> HIDE DEF next
  <2>6. req'[r] = next => RequestIsSound(r)'
    BY <2>2, <2>3, <2>4, <2>5 DEF RequestIsSound, At
  <2> QED BY <1>n, <2>4, <2>5, <2>6, RequestStep
<1>2. CASE HomeChecks(r)
  <2>1. PICK state \in States \cup {NoState}, notice \in BOOLEAN :
          Goes(r, [req[r] EXCEPT !.pc = IF state = NoState THEN "answer" ELSE "feedback",
                                 !.state = state, !.notice = notice])
    <3>1. \A rows, inactive : DetectState(rows, inactive) \in States \cup {NoState}
      BY DEF DetectState, States
    <3> QED BY <1>2, <3>1 DEF HomeChecks
  <2> DEFINE pc == IF state = NoState THEN "answer" ELSE "feedback"
             next == [req[r] EXCEPT !.pc = pc, !.state = state, !.notice = notice]
  <2>2. pc \in {"answer", "feedback"} /\ (pc = "answer" => state \notin States)
    BY Constants
  <2>3. Goes(r, next)
    BY <2>1
  <2> HIDE DEF pc
  <2>4. /\ next \in Request /\ next.pc = pc /\ next.state = state /\ next.visited = req[r].visited
        /\ next.dismissed = req[r].dismissed /\ next.inactive = req[r].inactive
    BY <1>t, <2>2 DEF Request
  <2> HIDE DEF next
  <2>5. req'[r] = next => RequestIsSound(r)'
    BY <1>t, <1>d, <1>2, <2>2, <2>4 DEF HomeChecks, RequestIsSound, At
  <2> QED BY <1>n, <1>2, <2>3, <2>4, <2>5, RequestStep DEF HomeChecks
<1>3. ASSUME Goes(r, [req[r] EXCEPT !.pc = "answer", !.state = NoState, !.notice = FALSE]),
             UNCHANGED <<now, lastActive, checks, feedback, cached, visited>>
      PROVE  IInv'
  <2> DEFINE next == [req[r] EXCEPT !.pc = "answer", !.state = NoState, !.notice = FALSE]
  <2>1. /\ next \in Request /\ next.pc = "answer" /\ next.state = NoState
        /\ next.visited = req[r].visited /\ next.dismissed = req[r].dismissed
        /\ next.inactive = req[r].inactive
    BY <1>t DEF Request
  <2>2. Goes(r, next)
    BY <1>3
  <2> HIDE DEF next
  <2>3. req'[r] = next => RequestIsSound(r)'
    BY <1>t, <1>d, <1>3, <2>1, Constants DEF RequestIsSound, At
  <2> QED BY <1>n, <1>3, <2>1, <2>2, <2>3, RequestStep
<1>4. CASE HomeWithoutVideo(r)
  BY <1>3, <1>4 DEF HomeWithoutVideo
<1>5. CASE HomeFeedback(r)
  <2>1. CASE Suppressed(req[r].state)
    BY <1>3, <1>5, <2>1 DEF HomeFeedback
  <2>2. CASE ~Suppressed(req[r].state)
    <3> DEFINE next == [req[r] EXCEPT !.pc = "videos"]
    <3>1. Goes(r, next) /\ UNCHANGED <<now, lastActive, checks, feedback, cached, visited>>
      BY <1>5, <2>2 DEF HomeFeedback
    <3>2. /\ next \in Request /\ next.pc = "videos" /\ next.state = req[r].state
          /\ next.visited = req[r].visited /\ next.dismissed = req[r].dismissed
          /\ next.inactive = req[r].inactive
      BY <1>t DEF Request
    <3>3. req[r].state \notin req[r].dismissed
      <4>1. ~(feedback[req[r].state]["DISMISSED"] >= now - 3)
        BY <2>2, Constants DEF Suppressed, Cooldown
      <4> QED BY <1>t, <4>1 DEF RequestIsSound
    <3> HIDE DEF next
    <3>4. req'[r] = next => RequestIsSound(r)'
      BY <1>t, <3>1, <3>2, <3>3 DEF RequestIsSound, At
    <3> QED BY <1>n, <3>1, <3>2, <3>4, RequestStep
  <2> QED BY <2>1, <2>2
<1>6. ASSUME NEW found \in BOOLEAN, HomeVideos(r, found) PROVE IInv'
  <2> DEFINE next == [req[r] EXCEPT !.pc = "answer"]
  <2>1. Goes(r, next) /\ UNCHANGED <<now, lastActive, checks, feedback, visited>> /\ At(r, "videos")
    BY <1>6 DEF HomeVideos
  <2>2. /\ next \in Request /\ next.pc = "answer" /\ next.state = req[r].state
        /\ next.visited = req[r].visited /\ next.dismissed = req[r].dismissed
        /\ next.inactive = req[r].inactive
    BY <1>t DEF Request
  <2>3. cached' \in [States -> 0 .. MaxDay + YOUTUBE_CACHE_TTL]
    <3>1. now + YOUTUBE_CACHE_TTL \in 0 .. MaxDay + YOUTUBE_CACHE_TTL
      BY <1>t, <1>n DEF TypeOK, Days, YOUTUBE_CACHE_TTL
    <3> QED BY <1>n, <1>6, <3>1 DEF HomeVideos
  <2> HIDE DEF next
  <2>4. req'[r] = next => RequestIsSound(r)'
    BY <1>t, <2>1, <2>2 DEF RequestIsSound, At
  <2> QED BY <2>1, <2>2, <2>3, <2>4, RequestStep
<1>7. CASE HomeAnswer(r)
  <2>1. Goes(r, Blank) /\ lastActive' = now /\ visited' = now
        /\ UNCHANGED <<now, checks, feedback, cached>>
    BY <1>7 DEF HomeAnswer, Active
  <2>2. TypeOK'
    BY <1>t, <2>1, Constants DEF TypeOK, Goes
  <2>3. OneCheckPerContext' /\ VisitsAreActivity'
    BY <1>n, <2>1 DEF IInv, OneCheckPerContext, VisitsAreActivity
  <2> QED BY <2>1, <2>2, <2>3, LastStep
<1> QED BY <1>1, <1>2, <1>4, <1>5, <1>6, <1>7

(* Feedback, other activity and the end of the day.                         *)
LEMMA OtherSteps ==
  ASSUME IInv, Tick \/ OtherActivity \/ \E reaction \in Reactions : RecordFeedback(reaction[1], reaction[2])
  PROVE  IInv'
<1>t. TypeOK /\ OneCheckPerContext /\ VisitsAreActivity /\ \A r \in Reqs : RequestIsSound(r)
  BY DEF IInv
<1>n. /\ now \in Days /\ now \in Nat /\ lastActive \in Nat /\ visited \in Int /\ MaxDay \in Nat
      /\ \A s \in States : feedback[s]["DISMISSED"] \in Int
      /\ \A r \in Reqs : req[r].dismissed \in SUBSET States
  <2>1. now \in Days /\ lastActive \in Days /\ visited \in Days \cup {Never}
    BY <1>t DEF TypeOK
  <2>2. \A s \in States : feedback[s]["DISMISSED"] \in Days \cup {Never}
    BY <1>t, Constants DEF TypeOK
  <2>3. Days \cup {Never} \subseteq Int /\ Days \subseteq Nat /\ MaxDay \in Nat
    BY Constants, EngagementAssumption
  <2>4. \A r \in Reqs : req[r].dismissed \in SUBSET States
    BY <1>t DEF TypeOK, Request
  <2> QED BY <2>1, <2>2, <2>3, <2>4
<1>1. CASE Tick
  <2>1. now' = now + 1 /\ now' \in Days /\ UNCHANGED <<lastActive, checks, feedback, cached, req, visited>>
    BY <1>n, <1>1 DEF Tick, Days
  <2>2. \A r \in Reqs : At(r, "idle") /\ req[r].dismissed = {}
    BY <1>t, <1>1 DEF Tick, RequestIsSound
  <2>3. \A r \in Reqs : RequestIsSound(r)'
    BY <1>t, <2>1, <2>2 DEF RequestIsSound, At
  <2>4. TypeOK' /\ OneCheckPerContext' /\ VisitsAreActivity'
    BY <1>t, <1>n, <2>1 DEF TypeOK, OneCheckPerContext, VisitsAreActivity
  <2> QED BY <2>3, <2>4 DEF IInv
<1>2. CASE OtherActivity
  <2>1. lastActive' = now /\ UNCHANGED <<now, checks, feedback, cached, req, visited>>
    BY <1>2 DEF OtherActivity
  <2> QED BY <1>t, <1>n, <2>1
      DEF IInv, TypeOK, OneCheckPerContext, VisitsAreActivity, RequestIsSound, At
<1>3. ASSUME NEW reaction \in Reactions, RecordFeedback(reaction[1], reaction[2]) PROVE IInv'
  <2> DEFINE t == reaction[1]
             action == reaction[2]
  <2>1. t \in States /\ action \in Actions
    BY EngagementAssumption
  <2>2. feedback' = [feedback EXCEPT ![t][action] = now]
        /\ UNCHANGED <<now, lastActive, checks, cached, req, visited>>
    BY <1>3 DEF RecordFeedback
  <2> HIDE DEF t, action
  <2>3. feedback' \in [States -> [Actions -> Days \cup {Never}]]
    BY <1>t, <1>n, <2>1, <2>2 DEF TypeOK
  <2>4. \A s \in States : feedback'[s]["DISMISSED"] = feedback[s]["DISMISSED"]
                          \/ feedback'[s]["DISMISSED"] = now
    BY <1>t, <2>1, <2>2, Constants DEF TypeOK
  <2>5. ASSUME NEW r \in Reqs PROVE RequestIsSound(r)'
    <3>1. RequestIsSound(r) /\ req'[r] = req[r] /\ now' = now
      BY <1>t, <2>2
    <3>2. \A s \in req[r].dismissed : feedback'[s]["DISMISSED"] >= now - 3
      BY <1>n, <2>4, <3>1 DEF RequestIsSound
    <3> QED BY <3>1, <3>2 DEF RequestIsSound, At
  <2>6. TypeOK' /\ OneCheckPerContext' /\ VisitsAreActivity'
    BY <1>t, <2>2, <2>3 DEF TypeOK, OneCheckPerContext, VisitsAreActivity
  <2> QED BY <2>5, <2>6 DEF IInv
<1> QED BY <1>1, <1>2, <1>3

LEMMA InitHolds == Init => IInv
<1> SUFFICES ASSUME Init PROVE IInv
  OBVIOUS
<1>1. TypeOK
  BY Constants, EngagementAssumption DEF Init, TypeOK, YOUTUBE_CACHE_TTL
<1>2. OneCheckPerContext /\ VisitsAreActivity
  BY Constants DEF Init, OneCheckPerContext, VisitsAreActivity
<1>3. \A r \in Reqs : RequestIsSound(r)
  BY Constants DEF Init, RequestIsSound, At
<1> QED BY <1>1, <1>2, <1>3 DEF IInv

LEMMA StepHolds == IInv /\ [Next]_vars => IInv'
<1> SUFFICES ASSUME IInv, [Next]_vars PROVE IInv'
  OBVIOUS
<1>1. CASE UNCHANGED vars
  BY <1>1 DEF vars, IInv, TypeOK, OneCheckPerContext, VisitsAreActivity, RequestIsSound, At
<1>2. CASE Next
  BY <1>2, CheckSteps, HomeSteps, OtherSteps DEF Next
<1> QED BY <1>1, <1>2

LEMMA Invariance == Spec => []IInv
  BY InitHolds, StepHolds, PTL DEF Spec

(* The rows, the cache and the requests have the shape the services give    *)
(* them, and inactive days are never negative.                              *)
THEOREM TypeCorrect == Spec => []TypeOK
<1>1. IInv => TypeOK
  BY DEF IInv
<1> QED BY <1>1, Invariance, PTL

(* However Home requests overlap, and whatever else is recorded as          *)
(* activity, a return is greeted only when no Home was answered within the  *)
(* three days before.                                                       *)
THEOREM GreetedOnce == Spec => []ReturnIsGreetedOnce
<1>1. ASSUME IInv, NEW r \in Reqs, Nudge(req[r].inactive, FALSE) = "RETURNING_AFTER_BREAK"
      PROVE  ~req[r].visited
  <2>1. Returns(req[r].inactive)
    BY <1>1 DEF Nudge
  <2>2. req[r].inactive \in Nat
    BY <1>1, Constants DEF IInv, TypeOK, Request
  <2> QED BY <1>1, <2>1, <2>2 DEF IInv, RequestIsSound, Returns
<1>2. IInv => ReturnIsGreetedOnce
  BY <1>1 DEF ReturnIsGreetedOnce
<1> QED BY <1>2, Invariance, PTL

(* No request suggests a video for a state whose dismissal was recorded     *)
(* before it began, however late it reads the feedback.                     *)
THEOREM DismissalRespected == Spec => []DismissalIsRespected
<1>1. IInv => DismissalIsRespected
  BY DEF IInv, RequestIsSound, DismissalIsRespected
<1> QED BY <1>1, Invariance, PTL

(* Two requests that both found no check of a date and context leave one    *)
(* row.                                                                     *)
THEOREM OneCheck == Spec => []OneCheckPerContext
<1>1. IInv => OneCheckPerContext
  BY DEF IInv
<1> QED BY <1>1, Invariance, PTL
-----------------------------------------------------------------------------
(* The checks are kept the latest first, so that those of a window come     *)
(* first, and a request that rests has no notice: the day a notice was      *)
(* found on is still the same when it is answered.                          *)
ChecksAreOrdered ==
  /\ \A i \in DOMAIN checks : checks[i].at <= now
  /\ \A i, k \in DOMAIN checks : i <= k => checks[k].at <= checks[i].at

LowFrom(i) ==
  \A k \in 1 .. 3 : Mood(checks[i + k]) <= LOW_MOOD_MAX_SCORE /\ now - checks[i + k].at <= 7

NoticeInv ==
  /\ ChecksAreOrdered
  /\ \A r \in Reqs :
       /\ At(r, "idle") => ~req[r].notice
       /\ req[r].notice => \E i \in 0 .. Len(checks) - 3 : LowFrom(i)

LEMMA CheckTimes ==
  ASSUME TypeOK
  PROVE  /\ Len(checks) \in Nat /\ DOMAIN checks = 1 .. Len(checks) /\ now \in Int
         /\ \A i \in 1 .. Len(checks) : checks[i] \in Check /\ checks[i].at \in Int
<1>1. checks \in Seq(Check) /\ now \in Days
  BY DEF TypeOK
<1>2. \A c \in Check : c.at \in Days
  BY DEF Check
<1>3. Days \subseteq Int
  BY Constants
<1>4. /\ Len(checks) \in Nat /\ DOMAIN checks = 1 .. Len(checks)
      /\ \A i \in 1 .. Len(checks) : checks[i] \in Check
  BY <1>1
<1> QED BY <1>1, <1>2, <1>3, <1>4

(* The rows of a window are the first ones.                                 *)
LEMMA WindowIsFirst ==
  ASSUME TypeOK, ChecksAreOrdered, NEW window \in Nat
  PROVE  /\ Since(window) \in Seq(Check) /\ Len(Since(window)) \in 0 .. Len(checks)
         /\ \A i \in 1 .. Len(Since(window)) :
              Since(window)[i] = checks[i] /\ checks[i].at >= now - window
<1> DEFINE W == {i \in DOMAIN checks : checks[i].at >= now - window}
           n == Cardinality(W)
<1>1. Len(checks) \in Nat /\ DOMAIN checks = 1 .. Len(checks) /\ checks \in Seq(Check)
      /\ now \in Int /\ \A i \in 1 .. Len(checks) : checks[i].at \in Int
  BY CheckTimes DEF TypeOK
<1>2. IsFiniteSet(1 .. Len(checks)) /\ Cardinality(1 .. Len(checks)) = Len(checks)
  <2>1. Len(checks) \in Nat /\ 1 \in Int /\ Len(checks) \in Int
    BY <1>1
  <2>2. IsFiniteSet(1 .. Len(checks))
        /\ Cardinality(1 .. Len(checks)) = IF 1 > Len(checks) THEN 0 ELSE Len(checks) - 1 + 1
    BY <2>1, FS_Interval
  <2> QED BY <2>1, <2>2
<1>3. W \in SUBSET (1 .. Len(checks))
  BY <1>1
<1>4. IsFiniteSet(W) /\ n \in Nat /\ n <= Len(checks)
  BY <1>2, <1>3, FS_Subset, FS_CardinalityType
<1>5. ASSUME NEW i \in 1 .. n, ~(checks[i].at >= now - window) PROVE FALSE
  <2>1. W \in SUBSET (1 .. i - 1)
    <3>1. ASSUME NEW k \in W, k >= i PROVE FALSE
      <4>1. checks[k].at <= checks[i].at
        BY <1>1, <1>3, <1>4, <3>1 DEF ChecksAreOrdered
      <4>2. checks[k].at \in Int /\ checks[i].at \in Int /\ checks[k].at >= now - window
        BY <1>1, <1>3, <1>4, <3>1
      <4> QED BY <1>1, <1>5, <4>1, <4>2
    <3> QED BY <1>1, <1>3, <1>4, <3>1
  <2>2. IsFiniteSet(1 .. i - 1) /\ Cardinality(1 .. i - 1) = i - 1
    <3>1. i - 1 \in Nat /\ 1 \in Int /\ i - 1 \in Int
      BY <1>4
    <3>2. IsFiniteSet(1 .. i - 1)
          /\ Cardinality(1 .. i - 1) = IF 1 > i - 1 THEN 0 ELSE (i - 1) - 1 + 1
      BY <3>1, FS_Interval
    <3> QED BY <3>1, <3>2
  <2>3. n <= i - 1
    BY <2>1, <2>2, FS_Subset
  <2> QED BY <1>4, <2>3
<1>6. Since(window) = SubSeq(checks, 1, n)
  BY DEF Since
<1> HIDE DEF W, n
<1>7. Since(window) \in Seq(Check) /\ Len(Since(window)) = n /\ \A i \in 1 .. n : Since(window)[i] = checks[i]
  BY <1>1, <1>4, <1>6
<1> QED BY <1>1, <1>4, <1>5, <1>7

(* A request goes on with the notice it had, or without one.                *)
LEMMA NoticeStep ==
  ASSUME IInv, NoticeInv, NEW r \in Reqs, NEW next, Goes(r, next), UNCHANGED <<now, checks>>,
         ~next.notice \/ (next.notice = req[r].notice /\ next.pc # "idle")
  PROVE  NoticeInv'
<1>1. req'[r] = next /\ \A q \in Reqs \ {r} : req'[q] = req[q]
  BY DEF IInv, TypeOK, Goes
<1>2. ChecksAreOrdered' /\ \A i : LowFrom(i)' <=> LowFrom(i)
  BY DEF NoticeInv, ChecksAreOrdered, LowFrom, Mood
<1> QED BY <1>1, <1>2 DEF NoticeInv, At

(* A new check comes first, so the rows a request saw low stay in a row.    *)
LEMMA NoticeCreated ==
  ASSUME IInv, NoticeInv, NEW r \in Reqs, NEW score \in Scores, CheckCreate(r, score)
  PROVE  NoticeInv'
<1>1. Goes(r, Blank) /\ now' = now /\ ~Blank.notice /\ TypeOK
  BY DEF CheckCreate, Blank, IInv
<1>2. CASE Taken(req[r].key)
  <2>1. checks' = checks
    BY <1>2 DEF CheckCreate
  <2> QED BY <1>1, <2>1, NoticeStep
<1>3. CASE ~Taken(req[r].key)
  <2> DEFINE row == [key |-> req[r].key, score |-> score, at |-> now]
  <2>1. checks' = <<row>> \o checks
    BY <1>3 DEF CheckCreate
  <2>2. row.at = now
    OBVIOUS
  <2> HIDE DEF row
  <2>3. /\ Len(checks') = Len(checks) + 1 /\ DOMAIN checks' = 1 .. Len(checks) + 1
        /\ checks'[1] = row /\ \A i \in 1 .. Len(checks) : checks'[i + 1] = checks[i]
    BY <1>1, <2>1 DEF TypeOK
  <2>4. \A i \in 2 .. Len(checks) + 1 : i - 1 \in 1 .. Len(checks) /\ checks'[i] = checks[i - 1]
    BY <1>1, <2>3, CheckTimes
  <2>5. ChecksAreOrdered'
    <3>1. /\ \A i \in 1 .. Len(checks) : checks[i].at <= now
          /\ \A i, k \in 1 .. Len(checks) : i <= k => checks[k].at <= checks[i].at
      BY <1>1, CheckTimes DEF NoticeInv, ChecksAreOrdered
    <3>2. \A i \in 1 .. Len(checks) + 1 : checks'[i].at <= now
      <4>1. ASSUME NEW i \in 1 .. Len(checks) + 1, i # 1 PROVE checks'[i].at <= now
        <5>1. i \in 2 .. Len(checks) + 1
          BY <1>1, <4>1, CheckTimes
        <5> QED BY <2>4, <3>1, <5>1
      <4> QED BY <1>1, <2>2, <2>3, <4>1, CheckTimes
    <3>3. ASSUME NEW i \in 1 .. Len(checks) + 1, NEW k \in 1 .. Len(checks) + 1, i <= k
          PROVE  checks'[k].at <= checks'[i].at
      <4>1. CASE i = 1
        BY <2>2, <2>3, <3>2, <4>1
      <4>2. CASE i > 1
        BY <1>1, <2>4, <3>1, <3>3, <4>2, CheckTimes
      <4> QED BY <4>1, <4>2
    <3> QED BY <1>1, <2>3, <3>2, <3>3 DEF ChecksAreOrdered
  <2>6. ASSUME NEW i \in 0 .. Len(checks) - 3, LowFrom(i)
        PROVE  i + 1 \in 0 .. Len(checks') - 3 /\ LowFrom(i + 1)'
    <3>1. \A k \in 1 .. 3 : checks'[i + 1 + k] = checks[i + k]
      <4>1. \A k \in 1 .. 3 : i + k \in 1 .. Len(checks) /\ i + 1 + k = (i + k) + 1
        BY <1>1, CheckTimes
      <4> QED BY <2>3, <4>1
    <3>2. i + 1 \in 0 .. Len(checks') - 3
      BY <1>1, <2>3, CheckTimes
    <3> QED BY <1>1, <2>6, <3>1, <3>2 DEF LowFrom, Mood
  <2>7. req'[r] = Blank /\ \A q \in Reqs \ {r} : req'[q] = req[q]
    BY <1>1 DEF TypeOK, Goes
  <2>8. ASSUME NEW q \in Reqs, req'[q].notice
        PROVE  \E i \in 0 .. Len(checks') - 3 : LowFrom(i)'
    <3>1. q # r /\ req[q].notice
      BY <1>1, <2>7, <2>8
    <3>2. PICK i \in 0 .. Len(checks) - 3 : LowFrom(i)
      BY <3>1 DEF NoticeInv
    <3> QED BY <2>6, <3>2
  <2>9. \A q \in Reqs : At(q, "idle")' => ~req'[q].notice
    BY <1>1, <2>7 DEF NoticeInv, At
  <2> QED BY <2>5, <2>8, <2>9 DEF NoticeInv
<1> QED BY <1>2, <1>3

(* The notice is found in three rows of the week with none between.         *)
LEMMA NoticeFound ==
  ASSUME IInv, NoticeInv, NEW r \in Reqs, HomeChecks(r)
  PROVE  NoticeInv'
<1> DEFINE week == Since(SUPPORT_CHECK_WINDOW)
           rows == SubSeq(week, 1, IF Len(week) > 5 THEN 5 ELSE Len(week))
           state == DetectState(rows, req[r].inactive)
           notice == state = "LOW_MOOD" /\ PersistentLowMood(rows)
           pc == IF state = NoState THEN "answer" ELSE "feedback"
           next == [req[r] EXCEPT !.pc = pc, !.state = state, !.notice = notice]
<1>1. Goes(r, next) /\ UNCHANGED <<now, checks>>
  BY DEF HomeChecks
<1>t. TypeOK /\ ChecksAreOrdered /\ SUPPORT_CHECK_WINDOW = 7 /\ req[r] \in Request
  BY DEF IInv, NoticeInv, SUPPORT_CHECK_WINDOW, TypeOK
<1>2. pc # "idle" /\ notice \in BOOLEAN
  OBVIOUS
<1>3. ASSUME PersistentLowMood(rows) PROVE \E i \in 0 .. Len(checks) - 3 : LowFrom(i)
  <2>1. Len(week) \in 0 .. Len(checks) /\ \A i \in 1 .. Len(week) : week[i] = checks[i] /\ checks[i].at >= now - 7
    BY <1>t, WindowIsFirst
  <2>2. week \in Seq(Check)
    BY <1>t, WindowIsFirst
  <2> HIDE DEF week
  <2>3. Len(rows) = (IF Len(week) > 5 THEN 5 ELSE Len(week))
        /\ \A i \in 1 .. Len(rows) : rows[i] = week[i]
    BY <1>t, <2>1, <2>2, CheckTimes
  <2> HIDE DEF rows
  <2>4. Len(rows) >= 3 /\ \A i \in 1 .. 3 : Mood(rows[i]) <= LOW_MOOD_MAX_SCORE
    BY <1>3 DEF PersistentLowMood, PERSISTENT_LOW_MOOD_CHECKS
  <2>5. Len(week) >= 3 /\ Len(checks) >= 3
    BY <1>t, <2>1, <2>3, <2>4, CheckTimes
  <2>6. \A i \in 1 .. 3 : rows[i] = checks[i] /\ checks[i].at >= now - 7 /\ checks[i].at \in Int
    BY <1>t, <2>1, <2>3, <2>4, <2>5, CheckTimes
  <2>7. LowFrom(0)
    BY <1>t, <2>4, <2>6, CheckTimes DEF LowFrom
  <2>8. 0 \in 0 .. Len(checks) - 3
    BY <1>t, <2>5, CheckTimes
  <2> QED BY <2>7, <2>8
<1> HIDE DEF pc, notice, state, rows, week
<1>4. next.pc = pc /\ next.notice = notice
  BY <1>t DEF Request
<1>5. notice => PersistentLowMood(rows)
  BY DEF notice
<1> HIDE DEF next
<1>6. req'[r] = next /\ \A q \in Reqs \ {r} : req'[q] = req[q]
  BY <1>1, <1>t DEF TypeOK, Goes
<1>7. ChecksAreOrdered' /\ Len(checks') = Len(checks) /\ \A i : LowFrom(i)' <=> LowFrom(i)
  BY <1>1, <1>t DEF ChecksAreOrdered, LowFrom, Mood
<1> QED BY <1>2, <1>3, <1>4, <1>5, <1>6, <1>7 DEF NoticeInv, At

(* Time passes only while no request is in flight.                          *)
LEMMA NoticeOther ==
  ASSUME IInv, NoticeInv, Tick \/ UNCHANGED <<now, checks, req>>
  PROVE  NoticeInv'
<1>1. CASE UNCHANGED <<now, checks, req>>
  BY <1>1 DEF NoticeInv, ChecksAreOrdered, LowFrom, Mood, At
<1>2. CASE Tick
  <2>1. now' = now + 1 /\ UNCHANGED <<checks, req>> /\ \A r \in Reqs : At(r, "idle")
    BY <1>2 DEF Tick
  <2>2. ChecksAreOrdered'
    BY <2>1, CheckTimes DEF IInv, NoticeInv, ChecksAreOrdered
  <2> QED BY <2>1, <2>2 DEF NoticeInv, At
<1> QED BY <1>1, <1>2

LEMMA NoticeHolds == IInv /\ NoticeInv /\ [Next]_vars => NoticeInv'
<1> SUFFICES ASSUME IInv, NoticeInv, [Next]_vars PROVE NoticeInv'
  OBVIOUS
<1>0. \A r \in Reqs : req[r] \in Request
  BY DEF IInv, TypeOK
<1>1. ASSUME NEW r \in Reqs, NEW key \in Keys, CheckFind(r, key) PROVE NoticeInv'
  <2> DEFINE next == [Blank EXCEPT !.pc = "create", !.key = key]
  <2>1. Goes(r, next) /\ UNCHANGED <<now, checks>> /\ ~next.notice
    BY <1>1 DEF CheckFind, Blank
  <2> HIDE DEF next
  <2> QED BY <2>1, NoticeStep
<1>2. ASSUME NEW r \in Reqs, HomeRead(r) PROVE NoticeInv'
  <2> DEFINE next == [Blank EXCEPT !.pc = "checks", !.inactive = now - lastActive,
                           !.visited = now - visited < 3,
                           !.dismissed = {s \in States : feedback[s]["DISMISSED"] >= now - 3}]
  <2>1. Goes(r, next) /\ UNCHANGED <<now, checks>>
    BY <1>2 DEF HomeRead
  <2>2. ~next.notice
    BY DEF Blank
  <2> HIDE DEF next
  <2> QED BY <2>1, <2>2, NoticeStep
<1>3. ASSUME NEW r \in Reqs, HomeWithoutVideo(r) \/ HomeFeedback(r) PROVE NoticeInv'
  <2> DEFINE ends == [req[r] EXCEPT !.pc = "answer", !.state = NoState, !.notice = FALSE]
             goes == [req[r] EXCEPT !.pc = "videos"]
  <2>1. (Goes(r, ends) \/ Goes(r, goes)) /\ UNCHANGED <<now, checks>>
    BY <1>3 DEF HomeWithoutVideo, HomeFeedback
  <2>2. ~ends.notice /\ goes.notice = req[r].notice /\ goes.pc = "videos"
    BY <1>0 DEF Request
  <2> HIDE DEF ends, goes
  <2> QED BY <2>1, <2>2, NoticeStep
<1>4. ASSUME NEW r \in Reqs, NEW found \in BOOLEAN, HomeVideos(r, found) PROVE NoticeInv'
  <2> DEFINE next == [req[r] EXCEPT !.pc = "answer"]
  <2>1. Goes(r, next) /\ UNCHANGED <<now, checks>>
    BY <1>4 DEF HomeVideos
  <2>2. next.notice = req[r].notice /\ next.pc = "answer"
    BY <1>0 DEF Request
  <2> HIDE DEF next
  <2> QED BY <2>1, <2>2, NoticeStep
<1>5. ASSUME NEW r \in Reqs, HomeAnswer(r) PROVE NoticeInv'
  <2>1. Goes(r, Blank) /\ UNCHANGED <<now, checks>> /\ ~Blank.notice
    BY <1>5 DEF HomeAnswer, Blank
  <2> QED BY <2>1, NoticeStep
<1>6. (\E reaction \in Reactions : RecordFeedback(reaction[1], reaction[2])) \/ OtherActivity \/ UNCHANGED vars
        => UNCHANGED <<now, checks, req>>
  BY DEF RecordFeedback, OtherActivity, vars
<1> QED BY <1>1, <1>2, <1>3, <1>4, <1>5, <1>6, NoticeCreated, NoticeFound, NoticeOther DEF Next

(* While further checks come in and other requests run, a support notice    *)
(* goes only to a user with three low checks in a row within the week.      *)
THEOREM NoticeIsEarned == Spec => []NoticeNeedsThreeLowChecks
<1>1. Init => NoticeInv
  BY DEF Init, NoticeInv, ChecksAreOrdered, Blank, At
<1>2. NoticeInv => NoticeNeedsThreeLowChecks
  BY DEF NoticeInv, LowFrom, NoticeNeedsThreeLowChecks
<1> QED BY <1>1, <1>2, NoticeHolds, Invariance, PTL DEF Spec

-----------------------------------------------------------------------------
(* Patches.                                                                 *)

UserRow == [locale : Locales, prefs : [Prefs -> PrefValues \cup {Unset}]]
GoalRow == [status : GoalStatus, start : Dates, completedAt : Nat \cup {NotCompleted}]

PreferencesRequest ==
  [op : {"preferences"}, input : PreferencesInput, seen : UserRow, at : Nat, raced : BOOLEAN]
GoalRequest ==
  [op : {"goal"}, input : GoalInput, seen : GoalRow, at : Nat, raced : BOOLEAN]

PatchTypes ==
  /\ clock \in Nat /\ user \in UserRow /\ goal \in GoalRow \cup {NoGoal}
  /\ DOMAIN patch = Clients

(* A request that was not overtaken holds the row as it is.                 *)
PatchIsSound(c) ==
  \/ patch[c] = Resting
  \/ patch[c] \in PreferencesRequest /\ (~patch[c].raced => patch[c].seen = user)
  \/ patch[c] \in GoalRequest /\ goal \in GoalRow /\ (~patch[c].raced => patch[c].seen = goal)

StatusTellsCompletion == goal.status = "COMPLETED" <=> goal.completedAt # NotCompleted

PatchesInv ==
  PatchTypes /\ StatusTellsCompletion /\ \A c \in Clients : PatchIsSound(c)

LEMMA RestingIsIdle == Resting.op = "idle"
  BY DEF Resting

LEMMA RestingIsNoRequest == Resting \notin PreferencesRequest /\ Resting \notin GoalRequest
  BY DEF Resting, PreferencesRequest, GoalRequest

LEMMA NoGoalIsNoRow == NoGoal \notin GoalRow /\ NoGoal.status # "COMPLETED" /\ NoGoal.completedAt = NotCompleted
<1>1. NoGoal.status = "none" /\ NoGoal.completedAt = NotCompleted
  BY DEF NoGoal
<1>2. \A row \in GoalRow : row.status # "none"
  BY DEF GoalRow, GoalStatus
<1> QED BY <1>1, <1>2

(* A read holds the row as it is.                                           *)
LEMMA ReadKeeps ==
  ASSUME PatchesInv, NEW c \in Clients,
         (\E given \in PreferencesInput : PreferencesRead(c, given))
           \/ (\E given \in GoalInput : GoalRead(c, given))
  PROVE  PatchesInv'
<1>1. PICK next : /\ patch' = [patch EXCEPT ![c] = next] /\ UNCHANGED <<clock, user, goal>>
                  /\ \/ next \in PreferencesRequest /\ next.seen = user
                     \/ next \in GoalRequest /\ next.seen = goal /\ goal \in GoalRow
  <2>1. ASSUME NEW given \in PreferencesInput, PreferencesRead(c, given)
        PROVE  \E next : /\ patch' = [patch EXCEPT ![c] = next] /\ UNCHANGED <<clock, user, goal>>
                         /\ next \in PreferencesRequest /\ next.seen = user
    <3> DEFINE next == [op |-> "preferences", input |-> given, seen |-> user, at |-> clock, raced |-> FALSE]
    <3>1. next \in PreferencesRequest /\ next.seen = user
      BY DEF PatchesInv, PatchTypes, PreferencesRequest
    <3>2. patch' = [patch EXCEPT ![c] = next] /\ UNCHANGED <<clock, user, goal>>
      BY <2>1 DEF PreferencesRead, Begins
    <3> QED BY <3>1, <3>2
  <2>2. ASSUME NEW given \in GoalInput, GoalRead(c, given)
        PROVE  \E next : /\ patch' = [patch EXCEPT ![c] = next] /\ UNCHANGED <<clock, user, goal>>
                         /\ next \in GoalRequest /\ next.seen = goal /\ goal \in GoalRow
    <3> DEFINE next == [op |-> "goal", input |-> given, seen |-> goal, at |-> clock, raced |-> FALSE]
    <3>0. goal \in GoalRow
      BY <2>2 DEF GoalRead, PatchesInv, PatchTypes
    <3>1. next \in GoalRequest /\ next.seen = goal
      BY <3>0 DEF PatchesInv, PatchTypes, GoalRequest
    <3>2. patch' = [patch EXCEPT ![c] = next] /\ UNCHANGED <<clock, user, goal>>
      BY <2>2 DEF GoalRead, Begins
    <3> QED BY <3>0, <3>1, <3>2
  <2> QED BY <2>1, <2>2
<1>2. DOMAIN patch' = Clients /\ patch'[c] = next /\ \A b \in Clients \ {c} : patch'[b] = patch[b]
  BY <1>1 DEF PatchesInv, PatchTypes
<1>3. PatchTypes' /\ StatusTellsCompletion'
  BY <1>1, <1>2 DEF PatchesInv, PatchTypes, StatusTellsCompletion
<1>4. \A b \in Clients : PatchIsSound(b)'
  BY <1>1, <1>2 DEF PatchesInv, PatchIsSound
<1> QED BY <1>3, <1>4 DEF PatchesInv

(* A write ends the request, and marks those that it overtook.              *)
LEMMA EndsMarks ==
  ASSUME PatchesInv, NEW c \in Clients, ~Asks(c, "idle"), Ends(c)
  PROVE  /\ DOMAIN patch' = Clients /\ patch'[c] = Resting
         /\ \A b \in Clients \ {c} :
              \/ patch[b] = Resting /\ patch'[b] = Resting
              \/ /\ patch[b] \in PreferencesRequest \cup GoalRequest
                 /\ patch'[b] = [patch[b] EXCEPT !.raced = @ \/ Asks(b, patch[c].op)]
<1>1. DOMAIN patch' = Clients /\ patch'[c] = Resting
  BY DEF Ends
<1>2. ASSUME NEW b \in Clients \ {c}
      PROVE  patch'[b] = [patch[b] EXCEPT !.raced = @ \/ Asks(b, patch[c].op)]
  BY DEF Ends
<1>3. ASSUME NEW b \in Clients \ {c}, patch[b] = Resting PROVE patch'[b] = Resting
  <2>1. ~Asks(b, patch[c].op)
    BY <1>3, RestingIsIdle DEF Asks
  <2>2. (Resting.raced \/ Asks(b, patch[c].op)) = FALSE
    BY <2>1 DEF Resting
  <2>3. patch'[b] = [Resting EXCEPT !.raced = Resting.raced \/ Asks(b, patch[c].op)]
    BY <1>2, <1>3
  <2>4. patch'[b] = [Resting EXCEPT !.raced = FALSE]
    BY <2>2, <2>3
  <2> QED BY <2>4 DEF Resting
<1>4. \A b \in Clients : patch[b] = Resting \/ patch[b] \in PreferencesRequest \cup GoalRequest
  BY DEF PatchesInv, PatchIsSound
<1> QED BY <1>1, <1>2, <1>3, <1>4

(* What the document of a PATCH leaves out keeps the value it was read      *)
(* with, which is the row's unless another write came between.              *)
LEMMA PreferencesWriteKeeps ==
  ASSUME PatchesInv, NEW c \in Clients, PreferencesWrite(c)
  PROVE  /\ PatchesInv'
         /\ patch[c].raced \/ \A p \in Prefs :
              patch[c].input.prefs = Keep \/ patch[c].input.prefs[p] = Keep
                => user'.prefs[p] = user.prefs[p]
<1> DEFINE given == patch[c].input
           seen == patch[c].seen
<1>1. patch[c] \in PreferencesRequest /\ (~patch[c].raced => seen = user) /\ ~Asks(c, "idle")
      /\ patch[c].op = "preferences"
  BY RestingIsIdle DEF PreferencesWrite, Asks, PatchesInv, PatchIsSound, GoalRequest
<1>2. given \in PreferencesInput /\ seen \in UserRow /\ user \in UserRow
  BY <1>1 DEF PreferencesRequest, PatchesInv, PatchTypes
<1>3. user' = [locale |-> Given(given.locale, user.locale),
               prefs |-> IF given.prefs = Keep THEN user.prefs ELSE Merged(seen.prefs, given.prefs)]
      /\ Ends(c) /\ UNCHANGED <<clock, goal>>
  BY DEF PreferencesWrite
<1> HIDE DEF given, seen
<1>4. /\ given.locale \in Locales \cup {Keep} /\ given.prefs \in {Keep} \cup [Prefs -> PrefValues \cup {Keep}]
      /\ seen.prefs \in [Prefs -> PrefValues \cup {Unset}] /\ user.prefs \in [Prefs -> PrefValues \cup {Unset}]
      /\ user.locale \in Locales
  BY <1>2 DEF PreferencesInput, UserRow
<1>5. user'.prefs \in [Prefs -> PrefValues \cup {Unset}]
  BY <1>3, <1>4 DEF Merged, Given
<1>6. user' \in UserRow
  BY <1>3, <1>4, <1>5 DEF UserRow, Given
<1>7. ASSUME NEW p \in Prefs, seen = user, given.prefs = Keep \/ given.prefs[p] = Keep
      PROVE  user'.prefs[p] = user.prefs[p]
  BY <1>3, <1>7 DEF Merged, Given
<1>8. ASSUME NEW b \in Clients PROVE PatchIsSound(b)'
  <2>1. CASE b = c
    BY <1>1, <1>3, <2>1, EndsMarks DEF PatchIsSound
  <2>2. CASE b # c /\ patch[b] = Resting
    BY <1>1, <1>3, <2>2, EndsMarks, RestingIsNoRequest DEF PatchIsSound
  <2>3. CASE b # c /\ patch[b] \in PreferencesRequest
    <3>0. patch'[b] = [patch[b] EXCEPT !.raced = @ \/ Asks(b, patch[c].op)]
      BY <1>1, <1>3, <2>3, EndsMarks, RestingIsNoRequest
    <3>a. (patch[b].raced \/ Asks(b, patch[c].op)) = TRUE
      BY <1>1, <2>3 DEF PreferencesRequest, Asks
    <3>1. patch'[b] = [patch[b] EXCEPT !.raced = TRUE]
      BY <3>0, <3>a
    <3>2. patch'[b] \in PreferencesRequest /\ patch'[b].raced
      BY <2>3, <3>1 DEF PreferencesRequest
    <3> QED BY <3>2 DEF PatchIsSound
  <2>4. CASE b # c /\ patch[b] \in GoalRequest
    <3>1. patch'[b] = [patch[b] EXCEPT !.raced = @ \/ FALSE]
      BY <1>1, <1>3, <2>4, EndsMarks DEF GoalRequest, Asks, Resting
    <3>2. patch'[b] = patch[b]
      BY <2>4, <3>1 DEF GoalRequest
    <3>3. goal \in GoalRow /\ (~patch[b].raced => patch[b].seen = goal)
      BY <2>4 DEF PatchesInv, PatchIsSound, PreferencesRequest, GoalRequest, Resting
    <3> QED BY <1>3, <2>4, <3>2, <3>3 DEF PatchIsSound
  <2> QED BY <2>1, <2>2, <2>3, <2>4 DEF PatchesInv, PatchIsSound
<1>9. PatchTypes' /\ StatusTellsCompletion'
  BY <1>1, <1>3, <1>6, EndsMarks DEF PatchesInv, PatchTypes, StatusTellsCompletion
<1>10. patch[c].raced \/ \A p \in Prefs : given.prefs = Keep \/ given.prefs[p] = Keep
                => user'.prefs[p] = user.prefs[p]
  BY <1>1, <1>7
<1> QED BY <1>8, <1>9, <1>10 DEF PatchesInv, given

(* The status that is written and its completion time agree, whichever      *)
(* status had been read.                                                    *)
LEMMA GoalWriteKeeps ==
  ASSUME PatchesInv, NEW c \in Clients, GoalWrite(c)
  PROVE  /\ PatchesInv'
         /\ patch[c].raced
            \/ /\ patch[c].input.start \in {Null, Keep} => goal'.start = goal.start
               /\ goal.status = goal'.status => goal'.completedAt = goal.completedAt
<1> DEFINE given == patch[c].input
           seen == patch[c].seen
           at == patch[c].at
           completedAt == IF given.status = Keep THEN goal.completedAt ELSE CompletedAt(given.status, seen, at)
<1>1. patch[c] \in GoalRequest /\ (~patch[c].raced => seen = goal) /\ ~Asks(c, "idle")
      /\ patch[c].op = "goal" /\ goal \in GoalRow
  BY RestingIsIdle DEF GoalWrite, Asks, PatchesInv, PatchIsSound, PreferencesRequest
<1>2. given \in GoalInput /\ seen \in GoalRow /\ at \in Nat
  BY <1>1 DEF GoalRequest
<1>3. goal' = [status |-> Given(given.status, goal.status),
               start |-> IF given.start = Null THEN seen.start ELSE Given(given.start, goal.start),
               completedAt |-> completedAt]
      /\ Ends(c) /\ UNCHANGED <<clock, user>>
  BY DEF GoalWrite
<1>c. completedAt = IF given.status = Keep THEN goal.completedAt ELSE CompletedAt(given.status, seen, at)
  OBVIOUS
<1> HIDE DEF given, seen, at, completedAt
<1>4. /\ given.status \in GoalStatus \cup {Keep} /\ given.start \in Dates \cup {Null, Keep}
      /\ seen.start \in Dates /\ seen.completedAt \in Nat \cup {NotCompleted}
      /\ goal.status \in GoalStatus /\ goal.start \in Dates /\ goal.completedAt \in Nat \cup {NotCompleted}
  BY <1>1, <1>2 DEF GoalInput, GoalRow
<1>5. StatusTellsCompletion /\ at # NotCompleted
  BY <1>2 DEF PatchesInv, NotCompleted
<1>6. completedAt \in Nat \cup {NotCompleted}
  BY <1>2, <1>4, <1>c DEF CompletedAt
<1>7. goal'.status = Given(given.status, goal.status) /\ goal'.completedAt = completedAt
      /\ goal'.start = IF given.start = Null THEN seen.start ELSE Given(given.start, goal.start)
  BY <1>3
<1>8. goal' \in GoalRow
  BY <1>3, <1>4, <1>6 DEF GoalRow, Given
<1>9. StatusTellsCompletion'
  BY <1>5, <1>7, <1>c DEF StatusTellsCompletion, CompletedAt, Given
<1>10. ASSUME seen = goal
       PROVE  /\ given.start \in {Null, Keep} => goal'.start = goal.start
              /\ goal.status = goal'.status => goal'.completedAt = goal.completedAt
  BY <1>5, <1>7, <1>10, <1>c DEF StatusTellsCompletion, CompletedAt, Given
<1>11. ASSUME NEW b \in Clients PROVE PatchIsSound(b)'
  <2>1. CASE b = c
    BY <1>1, <1>3, <2>1, EndsMarks DEF PatchIsSound
  <2>2. CASE b # c /\ patch[b] = Resting
    BY <1>1, <1>3, <2>2, EndsMarks, RestingIsNoRequest DEF PatchIsSound
  <2>3. CASE b # c /\ patch[b] \in GoalRequest
    <3>0. patch'[b] = [patch[b] EXCEPT !.raced = @ \/ Asks(b, patch[c].op)]
      BY <1>1, <1>3, <2>3, EndsMarks, RestingIsNoRequest
    <3>a. (patch[b].raced \/ Asks(b, patch[c].op)) = TRUE
      BY <1>1, <2>3 DEF GoalRequest, Asks
    <3>1. patch'[b] = [patch[b] EXCEPT !.raced = TRUE]
      BY <3>0, <3>a
    <3>2. patch'[b] \in GoalRequest /\ patch'[b].raced
      BY <2>3, <3>1 DEF GoalRequest
    <3> QED BY <1>8, <3>2 DEF PatchIsSound
  <2>4. CASE b # c /\ patch[b] \in PreferencesRequest
    <3>1. patch'[b] = [patch[b] EXCEPT !.raced = @ \/ FALSE]
      BY <1>1, <1>3, <2>4, EndsMarks DEF PreferencesRequest, Asks, Resting
    <3>2. patch'[b] = patch[b]
      BY <2>4, <3>1 DEF PreferencesRequest
    <3>3. ~patch[b].raced => patch[b].seen = user
      BY <2>4 DEF PatchesInv, PatchIsSound, PreferencesRequest, GoalRequest, Resting
    <3> QED BY <1>3, <2>4, <3>2, <3>3 DEF PatchIsSound
  <2> QED BY <2>1, <2>2, <2>3, <2>4 DEF PatchesInv, PatchIsSound
<1>12. PatchTypes'
  BY <1>1, <1>3, <1>8, EndsMarks DEF PatchesInv, PatchTypes
<1> QED BY <1>1, <1>9, <1>10, <1>11, <1>12 DEF PatchesInv, given, seen

LEMMA PatchesInitHolds == PatchesInit => PatchesInv
<1> SUFFICES ASSUME PatchesInit PROVE PatchesInv
  OBVIOUS
<1>1. user \in UserRow
  BY PatchesAssumption DEF PatchesInit, NewUser, UserRow
<1>2. PatchTypes /\ StatusTellsCompletion
  BY <1>1, NoGoalIsNoRow DEF PatchesInit, PatchTypes, StatusTellsCompletion
<1>3. \A c \in Clients : PatchIsSound(c)
  BY DEF PatchesInit, PatchIsSound
<1> QED BY <1>2, <1>3 DEF PatchesInv

LEMMA PatchesStepHolds == PatchesInv /\ [PatchesNext]_patchVars => PatchesInv'
<1> SUFFICES ASSUME PatchesInv, [PatchesNext]_patchVars PROVE PatchesInv'
  OBVIOUS
<1>1. CASE UNCHANGED patchVars
  BY <1>1 DEF patchVars, PatchesInv, PatchTypes, StatusTellsCompletion, PatchIsSound
<1>2. ASSUME NEW c \in Clients,
             \/ \E given \in PreferencesInput : PreferencesRead(c, given)
             \/ \E given \in GoalInput : GoalRead(c, given)
      PROVE  PatchesInv'
  BY <1>2, ReadKeeps
<1>3. ASSUME NEW c \in Clients, PreferencesWrite(c) \/ GoalWrite(c) PROVE PatchesInv'
  BY <1>3, PreferencesWriteKeeps, GoalWriteKeeps
<1>4. ASSUME NEW start \in Dates, CreateGoal(start) PROVE PatchesInv'
  <2>1. goal = NoGoal /\ UNCHANGED <<clock, user, patch>>
        /\ goal' = [status |-> "ACTIVE", start |-> start, completedAt |-> NotCompleted]
    BY <1>4 DEF CreateGoal
  <2>2. goal' \in GoalRow /\ goal'.status = "ACTIVE" /\ goal'.completedAt = NotCompleted
    BY <2>1 DEF GoalRow, GoalStatus
  <2>3. \A c \in Clients : patch[c] = Resting \/ (patch[c] \in PreferencesRequest
                                                  /\ (~patch[c].raced => patch[c].seen = user))
    BY <2>1, NoGoalIsNoRow DEF PatchesInv, PatchIsSound
  <2> QED BY <2>1, <2>2, <2>3 DEF PatchesInv, PatchTypes, StatusTellsCompletion, PatchIsSound
<1>5. CASE PatchTick
  <2>1. clock' \in Nat /\ UNCHANGED <<user, goal, patch>>
    BY <1>5 DEF PatchTick, PatchesInv, PatchTypes
  <2> QED BY <2>1 DEF PatchesInv, PatchTypes, StatusTellsCompletion, PatchIsSound
<1> QED BY <1>1, <1>2, <1>3, <1>4, <1>5 DEF PatchesNext

LEMMA PatchesInvariance == PatchesSpec => []PatchesInv
  BY PatchesInitHolds, PatchesStepHolds, PTL DEF PatchesSpec

(* The request that rests after a step and did not before is the one whose  *)
(* write the step is.                                                       *)
LEMMA OnlyWritesEnd ==
  ASSUME PatchesInv, PatchesNext, NEW c \in Clients, ~Asks(c, "idle"), patch'[c] = Resting
  PROVE  PreferencesWrite(c) \/ GoalWrite(c)
<1>1. ASSUME NEW b \in Clients, NEW op, NEW given, NEW row, Begins(b, op, given, row) PROVE FALSE
  <2>1. b # c
    BY <1>1 DEF Begins
  <2>2. patch'[c] = patch[c]
    BY <1>1, <2>1 DEF Begins, PatchesInv, PatchTypes
  <2> QED BY <2>2, RestingIsIdle DEF Asks
<1>2. ASSUME NEW b \in Clients \ {c}, Ends(b) PROVE FALSE
  <2>1. patch[c] \in PreferencesRequest \cup GoalRequest
    BY RestingIsIdle DEF PatchesInv, PatchIsSound, Asks
  <2>2. patch'[c] = [patch[c] EXCEPT !.raced = @ \/ Asks(c, patch[b].op)]
    BY <1>2 DEF Ends
  <2>3. patch'[c].op = patch[c].op
    BY <2>1, <2>2 DEF PreferencesRequest, GoalRequest
  <2> QED BY <2>3, RestingIsIdle DEF Asks
<1>3. UNCHANGED patch => FALSE
  BY RestingIsIdle DEF Asks
<1>4. ASSUME NEW b \in Clients,
             \/ \E given \in PreferencesInput : PreferencesRead(b, given)
             \/ \E given \in GoalInput : GoalRead(b, given)
      PROVE  FALSE
  BY <1>1, <1>4 DEF PreferencesRead, GoalRead
<1>5. ASSUME NEW b \in Clients, PreferencesWrite(b) \/ GoalWrite(b), b # c PROVE FALSE
  BY <1>2, <1>5 DEF PreferencesWrite, GoalWrite
<1>6. (\E start \in Dates : CreateGoal(start)) \/ PatchTick => UNCHANGED patch
  BY DEF CreateGoal, PatchTick
<1> QED BY <1>3, <1>4, <1>5, <1>6 DEF PatchesNext

(* However many PATCHes of one row overlap, one that was not overtaken      *)
(* between its read and its write leaves alone what it does not name, and   *)
(* no order of them lets a goal's status and completion time disagree.      *)
THEOREM PatchesAreExact == PatchesSpec => PatchesChangeWhatTheyName
<1>1. ASSUME PatchesInv, PatchesInv', [PatchesNext]_patchVars, NEW c \in Clients,
             ~Asks(c, "idle"), patch'[c] = Resting
      PROVE  LET given == patch[c].input IN
             /\ goal'.status = "COMPLETED" <=> goal'.completedAt # NotCompleted
             /\ patch[c].raced
                \/ /\ Asks(c, "preferences") => \A p \in Prefs :
                        given.prefs = Keep \/ given.prefs[p] = Keep
                          => user'.prefs[p] = user.prefs[p]
                   /\ Asks(c, "goal") =>
                        /\ given.start \in {Null, Keep} => goal'.start = goal.start
                        /\ goal.status = goal'.status => goal'.completedAt = goal.completedAt
  <2>1. PreferencesWrite(c) \/ GoalWrite(c)
    BY <1>1, OnlyWritesEnd, RestingIsIdle DEF Asks, patchVars
  <2>2. StatusTellsCompletion'
    BY <1>1 DEF PatchesInv
  <2>3. CASE PreferencesWrite(c)
    BY <1>1, <2>2, <2>3, PreferencesWriteKeeps DEF StatusTellsCompletion, PreferencesWrite, Asks
  <2>4. CASE GoalWrite(c)
    BY <1>1, <2>2, <2>4, GoalWriteKeeps DEF StatusTellsCompletion, GoalWrite, Asks
  <2> QED BY <2>1, <2>3, <2>4
<1>2. PatchesInv /\ PatchesInv' /\ [PatchesNext]_patchVars =>
        [\A c \in Clients : ~Asks(c, "idle") /\ patch'[c] = Resting =>
           LET given == patch[c].input IN
           /\ goal'.status = "COMPLETED" <=> goal'.completedAt # NotCompleted
           /\ patch[c].raced
              \/ /\ Asks(c, "preferences") => \A p \in Prefs :
                      given.prefs = Keep \/ given.prefs[p] = Keep
                        => user'.prefs[p] = user.prefs[p]
                 /\ Asks(c, "goal") =>
                      /\ given.start \in {Null, Keep} => goal'.start = goal.start
                      /\ goal.status = goal'.status => goal'.completedAt = goal.completedAt
        ]_patchVars
  BY <1>1
<1> QED BY <1>2, PatchesInvariance, PTL DEF PatchesSpec, PatchesChangeWhatTheyName

-----------------------------------------------------------------------------
(* Paging.                                                                  *)

Lists ==
  [kind : Kinds, limit : Limits, keys : [Rows -> Nat], present : SUBSET Rows,
   cursor : {NoCursor} \cup (Nat \X Rows), got : Seq(Rows), touched : SUBSET Rows,
   ended : {"no", "yes", "failed"}]

\* The lists that are read exactly, and which of their rows are still to come.
Exact ==
  \/ list.kind = "ideas"
  \/ list.kind = "ideasById" /\ list.touched = {}
  \/ list.kind = "tasks" /\ IdsFollow /\ list.touched = {}
  \/ list.kind = "backlog" /\ IdsFollow

Ahead(r) == list.cursor = NoCursor \/ After(list.kind, r, Decoded)

\* Row b comes after row a.
Follows(a, b) == After(list.kind, b, <<list.keys[a], a>>)

CursorIsSound ==
  list.cursor # NoCursor =>
    /\ list.kind = "ideas" => list.cursor[1] <= list.keys[list.cursor[2]]
    /\ list.kind = "ideasById" => list.cursor[1] = list.keys[list.cursor[2]]

(* What was given out is behind the cursor, and what did not change was     *)
(* given out or is ahead of it.                                             *)
ListIsSound ==
  /\ IsInjective(list.got) /\ CursorIsSound
  /\ Rows \ list.touched \subseteq list.present
  /\ list.ended = "yes" => Rows \ list.touched \subseteq ToSet(list.got)
  /\ list.ended = "no" =>
       /\ list.cursor = NoCursor => list.got = <<>>
       /\ \A r \in ToSet(list.got) : ~Ahead(r) \/ list.cursor = NoCursor
       /\ \A r \in Rows \ list.touched : r \in ToSet(list.got) \/ Ahead(r)

PagingInv == list = NoList \/ (list \in Lists /\ (Exact => ListIsSound))

LEMMA ListTypes ==
  ASSUME list \in Lists
  PROVE  /\ list.kind \in Kinds /\ list.limit \in Limits /\ list.keys \in [Rows -> Nat]
         /\ list.present \in SUBSET Rows /\ list.cursor \in {NoCursor} \cup (Nat \X Rows)
         /\ list.got \in Seq(Rows) /\ list.touched \in SUBSET Rows
         /\ list.ended \in {"no", "yes", "failed"}
         /\ list.limit \in Nat \ {0} /\ Rows \subseteq Nat
         /\ \A r \in Rows : list.keys[r] \in Nat
         /\ list.cursor # NoCursor => list.cursor[1] \in Nat /\ list.cursor[2] \in Rows
<1>1. /\ list.kind \in Kinds /\ list.limit \in Limits /\ list.keys \in [Rows -> Nat]
      /\ list.present \in SUBSET Rows /\ list.cursor \in {NoCursor} \cup (Nat \X Rows)
      /\ list.got \in Seq(Rows) /\ list.touched \in SUBSET Rows
      /\ list.ended \in {"no", "yes", "failed"}
  BY DEF Lists
<1>2. list.limit \in Nat \ {0} /\ Rows \subseteq Nat
  BY <1>1, PagingAssumption
<1>3. \A r \in Rows : list.keys[r] \in Nat
  BY <1>1
<1>4. list.cursor # NoCursor => list.cursor[1] \in Nat /\ list.cursor[2] \in Rows
  BY <1>1
<1> QED BY <1>1, <1>2, <1>3, <1>4

(* What comes after a cursor, by the kind of the list.                      *)
LEMMA AfterCases ==
  ASSUME NEW row, NEW key, NEW id
  PROVE  /\ list.kind \in {"ideas", "ideasById"} =>
              (After(list.kind, row, <<key, id>>)
                 <=> list.keys[row] < key \/ (list.keys[row] = key /\ row < id))
         /\ list.kind = "tasks" => (After(list.kind, row, <<key, id>>) <=> row < id)
         /\ list.kind = "backlog" => (After(list.kind, row, <<key, id>>) <=> row > id)
  BY DEF After

(* What a list is sorted by.                                                *)
LEMMA PrecedesCases ==
  ASSUME NEW a, NEW b
  PROVE  /\ list.kind \in {"ideas", "ideasById"} =>
              (Precedes(list.kind, a, b)
                 <=> list.keys[a] > list.keys[b] \/ (list.keys[a] = list.keys[b] /\ a > b))
         /\ list.kind = "tasks" => (Precedes(list.kind, a, b) <=> list.keys[a] < list.keys[b])
         /\ list.kind = "backlog" => (Precedes(list.kind, a, b) <=> list.keys[a] > list.keys[b])
  BY DEF Precedes

(* The rows of such a list are in a total order, which its cursors follow.  *)
LEMMA RowsAreOrdered ==
  ASSUME list \in Lists, Exact, NEW a \in Rows, NEW b \in Rows
  PROVE  /\ ~Follows(a, a) /\ (a = b \/ Follows(a, b) \/ Follows(b, a))
         /\ Precedes(list.kind, a, b) <=> Follows(a, b)
         /\ ~(Follows(a, b) /\ Follows(b, a))
<1>1. list.keys[a] \in Nat /\ list.keys[b] \in Nat /\ a \in Nat /\ b \in Nat
  BY ListTypes
<1>2. CASE list.kind \in {"ideas", "ideasById"}
  BY <1>1, <1>2, AfterCases, PrecedesCases DEF Follows
<1>3. CASE list.kind = "tasks"
  <2>1. /\ a > b => list.keys[a] < list.keys[b]
        /\ b > a => list.keys[b] < list.keys[a]
    BY <1>3 DEF Exact, IdsFollow, Precedes
  <2> QED BY <1>1, <1>3, <2>1 DEF Follows, After, Precedes
<1>4. CASE list.kind = "backlog"
  <2>1. /\ a < b => list.keys[a] > list.keys[b]
        /\ b < a => list.keys[b] > list.keys[a]
    BY <1>4 DEF Exact, IdsFollow, Precedes
  <2> QED BY <1>1, <1>4, <2>1 DEF Follows, After, Precedes
<1> QED BY <1>2, <1>3, <1>4, ListTypes DEF Kinds

(* What follows a row that is ahead of the cursor is ahead of it.           *)
LEMMA AheadIsClosed ==
  ASSUME list \in Lists, Exact, NEW a \in Rows, NEW b \in Rows, Ahead(a), Follows(a, b)
  PROVE  Ahead(b)
<1>1. list.keys[a] \in Nat /\ list.keys[b] \in Nat /\ a \in Nat /\ b \in Nat
  BY ListTypes
<1>2. CASE list.cursor = NoCursor
  BY <1>2 DEF Ahead
<1>3. CASE list.cursor # NoCursor
  <2> DEFINE k == Decoded[1]
             c == Decoded[2]
  <2>1. k \in Nat /\ c \in Nat
    BY <1>3, ListTypes DEF Decoded
  <2>d. Decoded = <<k, c>>
    BY <1>3, ListTypes DEF Decoded
  <2> HIDE DEF k, c
  <2>a. After(list.kind, a, <<k, c>>)
    BY <1>3, <2>d DEF Ahead
  <2>f. After(list.kind, b, <<list.keys[a], a>>)
    BY DEF Follows
  <2>g. After(list.kind, b, <<k, c>>) => Ahead(b)
    BY <2>d DEF Ahead
  <2>2. CASE list.kind \in {"ideas", "ideasById"}
    BY <1>1, <2>1, <2>2, <2>a, <2>f, <2>g, AfterCases
  <2>3. CASE list.kind \in {"tasks", "backlog"}
    BY <1>1, <2>1, <2>3, <2>a, <2>f, <2>g, AfterCases
  <2> QED BY <2>2, <2>3, ListTypes DEF Kinds
<1> QED BY <1>2, <1>3

(* What the database answers: every row once, each followed by the rest.    *)
LEMMA Answered ==
  ASSUME list \in Lists, NEW found \in Arrangements(Listed)
  PROVE  /\ found \in Seq(Rows) /\ Len(found) \in Nat /\ DOMAIN found = 1 .. Len(found)
         /\ \A i \in 1 .. Len(found) : found[i] \in Listed
         /\ \A r \in Listed : \E i \in 1 .. Len(found) : found[i] = r
         /\ \A i, k \in 1 .. Len(found) : i # k => found[i] # found[k]
         /\ Exact => \A i, k \in 1 .. Len(found) : i < k => Follows(found[i], found[k])
<1> DEFINE n == Cardinality(Listed)
<1>1. Listed \in SUBSET Rows /\ IsFiniteSet(Listed) /\ n \in Nat
  <2>1. Listed \in SUBSET Rows
    BY ListTypes DEF Listed
  <2> QED BY <2>1, PagingAssumption, FS_Subset, FS_CardinalityType
<1>2. found \in [1 .. n -> Listed] /\ \A i, k \in 1 .. n : i # k => found[i] # found[k]
  BY DEF Arrangements, SetToSeqs
<1>3. DOMAIN found = 1 .. n /\ \A i \in 1 .. n : found[i] \in Listed
  BY <1>2
<1>4. \A i, k \in 1 .. n : i < k => ~Precedes(list.kind, found[k], found[i])
  BY <1>3 DEF Arrangements
<1>5. \A r \in Listed : \E i \in 1 .. n : found[i] = r
  <2>1. found \in Injection(1 .. n, Listed)
    BY <1>2 DEF Injection, IsInjective
  <2>2. Cardinality(1 .. n) = n
    <3>1. n \in Int /\ 1 \in Int
      BY <1>1
    <3>2. Cardinality(1 .. n) = IF 1 > n THEN 0 ELSE n - 1 + 1
      BY <3>1, FS_Interval
    <3> QED BY <1>1, <3>2
  <2>3. found \in Surjection(1 .. n, Listed)
    BY <1>1, <2>1, <2>2, FS_Injection
  <2> QED BY <2>3 DEF Surjection
<1> HIDE DEF n
<1>6. found \in Seq(Rows) /\ Len(found) = n
  <2>1. found \in [1 .. n -> Rows]
    BY <1>1, <1>2
  <2> QED BY <1>1, <2>1
<1>7. ASSUME Exact, NEW i \in 1 .. n, NEW k \in 1 .. n, i < k PROVE Follows(found[i], found[k])
  <2>1. found[i] \in Rows /\ found[k] \in Rows /\ found[i] # found[k]
    BY <1>1, <1>2, <1>3, <1>7
  <2> QED BY <1>4, <1>7, <2>1, RowsAreOrdered
<1> QED BY <1>1, <1>2, <1>3, <1>5, <1>6, <1>7
(* What a list says of the rows depends on its rows, keys and cursor alone. *)
LEMMA ExactStays ==
  ASSUME list'.kind = list.kind, list'.keys = list.keys, list'.touched = list.touched
  PROVE  Exact' <=> Exact
  BY DEF Exact, IdsFollow, Precedes

(* A list begins with all its rows ahead.                                   *)
LEMMA Started ==
  ASSUME StartList
  PROVE  PagingInv'
<1>1. PICK kind \in Kinds, limit \in Limits, keys \in [Rows -> RowKeys] :
        list' = [kind |-> kind, limit |-> limit, keys |-> keys, present |-> Rows,
                 cursor |-> NoCursor, got |-> <<>>, touched |-> {}, ended |-> "no"]
  BY DEF StartList
<1>2. keys \in [Rows -> Nat] /\ <<>> \in Seq(Rows)
  <2>1. RowKeys \subseteq Nat
    BY PagingAssumption
  <2>2. <<>> \in Seq(Rows)
    OBVIOUS
  <2>3. keys \in [Rows -> Nat]
    BY <2>1
  <2> QED BY <2>2, <2>3
<1>3. list' \in Lists
  BY <1>1, <1>2 DEF Lists
<1>4. /\ list'.got = <<>> /\ list'.cursor = NoCursor /\ list'.present = Rows
      /\ list'.ended = "no" /\ list'.touched = {}
  BY <1>1
<1>5. IsInjective(<<>>) /\ ToSet(<<>>) = {}
  BY DEF IsInjective, ToSet
<1>6. ListIsSound'
  BY <1>4, <1>5 DEF ListIsSound, CursorIsSound, Ahead
<1> QED BY <1>3, <1>6 DEF PagingInv

LEMMA PageRead ==
  ASSUME list \in Lists, Exact => ListIsSound, ReadPage
  PROVE  PagingInv'
<1>1. PICK found \in Arrangements(Listed) :
        LET items == SubSeq(found, 1, IF Len(found) < list.limit THEN Len(found) ELSE list.limit)
            last == items[Len(items)]
        IN list' = [list EXCEPT
             !.got = @ \o items,
             !.ended = IF More(found, list.limit) THEN "no" ELSE "yes",
             !.cursor = IF More(found, list.limit) THEN <<list.keys[last], last>> ELSE @]
  BY DEF ReadPage
<1>e. list.ended = "no"
  BY DEF ReadPage
<1> DEFINE n == Len(found)
           size == IF n < list.limit THEN n ELSE list.limit
           items == SubSeq(found, 1, size)
           last == items[Len(items)]
           more == More(found, list.limit)
           cursor == IF more THEN <<list.keys[last], last>> ELSE list.cursor
           got == list.got \o items
           ended == IF more THEN "no" ELSE "yes"
<1>2. /\ found \in Seq(Rows) /\ n \in Nat /\ \A i \in 1 .. n : found[i] \in Listed
      /\ \A r \in Listed : \E i \in 1 .. n : found[i] = r
      /\ \A i, k \in 1 .. n : i # k => found[i] # found[k]
      /\ Exact => \A i, k \in 1 .. n : i < k => Follows(found[i], found[k])
  BY Answered
<1>3. size \in 0 .. n /\ (more => size = list.limit) /\ (~more => size = n) /\ (more => size \in 1 .. n)
  BY <1>2, ListTypes DEF More
<1>b. \A i \in 1 .. size : i \in 1 .. n
  BY <1>2, <1>3
<1>4. list' = [list EXCEPT !.got = got, !.ended = ended, !.cursor = cursor]
  BY <1>1
<1> HIDE DEF more, size, n
<1>5. items \in Seq(Rows) /\ Len(items) = size /\ \A i \in 1 .. size : items[i] = found[i]
  BY <1>2, <1>3 DEF n
<1>6. more => last = found[size] /\ last \in Listed
  BY <1>2, <1>3, <1>5
<1>7. Listed \subseteq Rows
  BY ListTypes DEF Listed
<1> HIDE DEF items, last
<1>8. more => cursor = <<list.keys[last], last>> /\ cursor \in Nat \X Rows /\ cursor # NoCursor
  <2>1. ASSUME more PROVE list.keys[last] \in Nat /\ last \in Rows
    BY <1>6, <1>7, <2>1, ListTypes
  <2>2. <<list.keys[last], last>> # NoCursor
    BY DEF NoCursor
  <2> QED BY <2>1, <2>2
<1>9. cursor \in {NoCursor} \cup (Nat \X Rows) /\ ended \in {"no", "yes", "failed"} /\ got \in Seq(Rows)
  BY <1>5, <1>8, ListTypes
<1>c. (~more => cursor = list.cursor) /\ (ended = "no" <=> more) /\ (ended = "yes" <=> ~more)
  OBVIOUS
<1>10. /\ Len(list.got) \in Nat /\ Len(got) = Len(list.got) + size
       /\ \A i \in 1 .. Len(list.got) : got[i] = list.got[i]
       /\ \A i \in Len(list.got) + 1 .. Len(got) :
            i - Len(list.got) \in 1 .. size /\ got[i] = found[i - Len(list.got)]
       /\ \A i \in 1 .. size : i + Len(list.got) \in 1 .. Len(got) /\ got[i + Len(list.got)] = found[i]
  <2>1. list.got \in Seq(Rows) /\ Len(list.got) \in Nat /\ size \in Nat
    BY <1>3, ListTypes
  <2>2. Len(got) = Len(list.got) + size
    BY <1>5, <2>1
  <2>3. \A i \in 1 .. Len(list.got) : got[i] = list.got[i]
    BY <1>5, <2>1
  <2>4. \A i \in 1 .. size : i + Len(list.got) \in 1 .. Len(got) /\ got[i + Len(list.got)] = items[i]
    BY <1>5, <2>1, <2>2
  <2> HIDE DEF got
  <2>5. ASSUME NEW i \in Len(list.got) + 1 .. Len(got)
        PROVE  i - Len(list.got) \in 1 .. size /\ got[i] = found[i - Len(list.got)]
    <3>1. i - Len(list.got) \in 1 .. size /\ i = (i - Len(list.got)) + Len(list.got)
      BY <2>1, <2>2
    <3> QED BY <1>5, <2>4, <3>1
  <2> QED BY <1>5, <2>1, <2>2, <2>3, <2>4, <2>5
<1> HIDE DEF cursor, ended, got
<1>11. /\ list' \in Lists /\ list'.kind = list.kind /\ list'.keys = list.keys
       /\ list'.present = list.present /\ list'.touched = list.touched
       /\ list'.got = got /\ list'.ended = ended /\ list'.cursor = cursor
  BY <1>4, <1>9 DEF Lists
<1>12. ASSUME Exact PROVE ListIsSound'
  <2>0. ListIsSound
    BY <1>12
  <2>d. DOMAIN got = 1 .. Len(got) /\ DOMAIN list.got = 1 .. Len(list.got)
    BY <1>9, ListTypes
  <2>1. \A r \in Listed : r \in list.present /\ Ahead(r)
    BY DEF Listed, Ahead
  <2>2. \A r \in Listed : r \notin ToSet(list.got)
    <3>1. ASSUME list.cursor = NoCursor PROVE ToSet(list.got) = {}
      BY <1>e, <2>0, <3>1 DEF ListIsSound, ToSet
    <3> QED BY <1>e, <2>0, <2>1, <3>1 DEF ListIsSound
  <2>3. \A r : r \in ToSet(got) <=> r \in ToSet(list.got) \/ \E i \in 1 .. size : found[i] = r
    <3>1. ASSUME NEW i \in 1 .. Len(got)
          PROVE  got[i] \in ToSet(list.got) \/ \E k \in 1 .. size : found[k] = got[i]
      <4>1. CASE i <= Len(list.got)
        BY <1>10, <2>d, <4>1 DEF ToSet
      <4>2. CASE i > Len(list.got)
        <5>1. i \in Len(list.got) + 1 .. Len(got)
          BY <1>10, <4>2
        <5> QED BY <1>10, <5>1
      <4> QED BY <1>10, <4>1, <4>2
    <3>2. ASSUME NEW i \in 1 .. Len(list.got) PROVE list.got[i] \in ToSet(got)
      <4>1. i \in 1 .. Len(got) /\ got[i] = list.got[i]
        BY <1>3, <1>10
      <4> QED BY <2>d, <4>1 DEF ToSet
    <3>3. ASSUME NEW i \in 1 .. size PROVE found[i] \in ToSet(got)
      BY <1>10, <2>d DEF ToSet
    <3> QED BY <2>d, <3>1, <3>2, <3>3 DEF ToSet
  <2>4. IsInjective(got)
    <3>1. ASSUME NEW i \in 1 .. Len(got), NEW k \in 1 .. Len(got), i < k PROVE got[i] # got[k]
      <4>1. CASE k <= Len(list.got)
        <5>1. i \in 1 .. Len(list.got) /\ k \in 1 .. Len(list.got)
          BY <1>3, <1>10, <3>1, <4>1
        <5>2. \A x, y \in 1 .. Len(list.got) : list.got[x] = list.got[y] => x = y
          BY <2>0, <2>d DEF ListIsSound, IsInjective
        <5> QED BY <1>10, <3>1, <5>1, <5>2
      <4>2. CASE k > Len(list.got) /\ i <= Len(list.got)
        <5>1. i \in 1 .. Len(list.got) /\ k \in Len(list.got) + 1 .. Len(got)
          BY <1>3, <1>10, <3>1, <4>2
        <5>2. got[k] \in Listed
          BY <1>2, <1>b, <1>10, <5>1
        <5>3. got[i] \in ToSet(list.got)
          BY <1>10, <2>d, <5>1 DEF ToSet
        <5> QED BY <2>2, <5>2, <5>3
      <4>3. CASE i > Len(list.got)
        <5>1. i \in Len(list.got) + 1 .. Len(got) /\ k \in Len(list.got) + 1 .. Len(got)
          BY <1>3, <1>10, <3>1, <4>3
        <5>2. /\ i - Len(list.got) \in 1 .. n /\ k - Len(list.got) \in 1 .. n
              /\ i - Len(list.got) # k - Len(list.got)
              /\ got[i] = found[i - Len(list.got)] /\ got[k] = found[k - Len(list.got)]
          BY <1>b, <1>10, <3>1, <5>1
        <5> QED BY <1>2, <5>2
      <4> QED BY <1>3, <1>10, <4>1, <4>2, <4>3
    <3>2. ASSUME NEW i \in 1 .. Len(got), NEW k \in 1 .. Len(got), got[i] = got[k] PROVE i = k
      BY <1>3, <1>10, <3>1, <3>2
    <3> QED BY <2>d, <3>2 DEF IsInjective
  <2>5. CursorIsSound'
    <3>1. CASE more
      <4>1. cursor[1] = list.keys[last] /\ cursor[2] = last /\ list.keys[last] \in Nat
        BY <1>6, <1>7, <1>8, <3>1, ListTypes
      <4> QED BY <1>11, <4>1 DEF CursorIsSound
    <3>2. CASE ~more
      BY <1>c, <1>11, <2>0, <3>2 DEF ListIsSound, CursorIsSound
    <3> QED BY <3>1, <3>2
  <2>6. ASSUME NEW r \in Rows \ list.touched PROVE r \in ToSet(list.got) \/ r \in Listed
    BY <1>e, <2>0, <2>6 DEF ListIsSound, Listed, Ahead
  <2>7. ASSUME ~more PROVE Rows \ list.touched \subseteq ToSet(got)
    BY <1>2, <1>3, <2>3, <2>6, <2>7
  <2>8. ASSUME more PROVE \A r : Ahead(r)' <=> Follows(last, r)
    <3>1. list'.cursor = <<list.keys[last], last>> /\ list'.cursor # NoCursor
      BY <1>8, <1>11, <2>8
    <3>2. Decoded' = <<list.keys[last], last>>
      BY <1>11, <3>1 DEF Decoded
    <3> QED BY <1>11, <3>1, <3>2 DEF Ahead, Follows, After
  <2>9. ASSUME more, NEW r \in ToSet(got) PROVE ~Follows(last, r)
    <3>0. last \in Listed /\ last \in Rows /\ last = found[size] /\ size \in 1 .. n
      BY <1>3, <1>6, <1>7, <2>9
    <3>1. CASE r \in ToSet(list.got)
      <4>1. list.cursor # NoCursor /\ ~Ahead(r)
        BY <1>e, <2>0, <3>1 DEF ListIsSound, ToSet
      <4>2. r \in Rows
        BY <2>d, <3>1, ListTypes DEF ToSet
      <4> QED BY <1>12, <2>1, <3>0, <4>1, <4>2, AheadIsClosed
    <3>2. ASSUME NEW i \in 1 .. size, found[i] = r PROVE ~Follows(last, r)
      <4>1. i \in 1 .. n /\ r \in Rows
        BY <1>2, <1>3, <1>7, <3>2
      <4>2. CASE i = size
        BY <1>12, <3>0, <3>2, <4>2, RowsAreOrdered
      <4>3. CASE i < size
        <5>1. Follows(r, last)
          BY <1>2, <1>12, <3>0, <3>2, <4>1, <4>3
        <5> QED BY <1>12, <3>0, <4>1, <5>1, RowsAreOrdered
      <4> QED BY <1>3, <4>2, <4>3
    <3> QED BY <2>3, <2>9, <3>1, <3>2
  <2>10. ASSUME more, NEW r \in Rows \ list.touched PROVE r \in ToSet(got) \/ Follows(last, r)
    <3>0. last = found[size] /\ size \in 1 .. n
      BY <1>3, <1>6, <2>10
    <3>1. CASE r \in ToSet(list.got)
      BY <2>3, <3>1
    <3>2. CASE r \in Listed
      <4>1. PICK i \in 1 .. n : found[i] = r
        BY <1>2, <3>2
      <4>2. CASE i <= size
        BY <1>3, <2>3, <4>1, <4>2
      <4>3. CASE i > size
        BY <1>2, <1>12, <3>0, <4>1, <4>3
      <4> QED BY <1>2, <1>3, <4>2, <4>3 DEF n
    <3> QED BY <2>6, <2>10, <3>1, <3>2
  <2> QED BY <1>c, <1>8, <1>11, <2>0, <2>4, <2>5, <2>7, <2>8, <2>9, <2>10 DEF ListIsSound
<1> QED BY <1>11, <1>12, ExactStays DEF PagingInv
(* A list whose cursor is refused was not read to its end.                  *)
LEMMA ReadFailed ==
  ASSUME list \in Lists, Exact => ListIsSound, ReadFails
  PROVE  PagingInv'
<1>1. list' = [list EXCEPT !.ended = "failed"]
  BY DEF ReadFails
<1>2. /\ list' \in Lists /\ list'.kind = list.kind /\ list'.keys = list.keys
      /\ list'.present = list.present /\ list'.touched = list.touched
      /\ list'.got = list.got /\ list'.ended = "failed" /\ list'.cursor = list.cursor
  BY <1>1 DEF Lists
<1>3. Exact => ListIsSound'
  BY <1>2 DEF ListIsSound, CursorIsSound
<1> QED BY <1>2, <1>3, ExactStays DEF PagingInv

(* A row that changes is no longer owed to the reader, and one that becomes *)
(* the latest stays behind the cursor if it was.                            *)
LEMMA Touched ==
  ASSUME list \in Lists, Exact => ListIsSound, Touch
  PROVE  PagingInv'
<1> DEFINE values == {list.keys[i] : i \in Rows}
           latest == CHOOSE k \in values : \A i \in Rows : k >= list.keys[i]
<1>1. PICK r \in list.present : \E key \in IF list.kind = "tasks" THEN RowKeys ELSE {1 + latest} :
        list' = [list EXCEPT !.keys[r] = key, !.touched = @ \cup {r}]
  BY DEF Touch
<1>2. PICK key : /\ list' = [list EXCEPT !.keys[r] = key, !.touched = @ \cup {r}]
                 /\ list.kind = "tasks" => key \in RowKeys
                 /\ list.kind # "tasks" => key = 1 + latest
  BY <1>1
<1>3. r \in Rows /\ list.ended = "no" /\ list.kind # "backlog"
  BY <1>1, ListTypes DEF Touch
<1>4. latest \in Nat /\ \A i \in Rows : latest >= list.keys[i]
  <2>1. values \in SUBSET Int /\ values # {} /\ \A k \in values : k \in Nat
    BY <1>3, ListTypes
  <2>2. IsFiniteSet(values)
    <3> DEFINE f == [i \in Rows |-> list.keys[i]]
    <3>1. f \in Surjection(Rows, values)
      BY DEF Surjection
    <3> QED BY <3>1, PagingAssumption, FS_Surjection
  <2>3. PICK k \in values : \A m \in values : m <= k
    BY <2>1, <2>2, FiniteMax
  <2>4. \A i \in Rows : k >= list.keys[i]
    BY <2>1, <2>3, ListTypes
  <2>5. latest \in values /\ \A i \in Rows : latest >= list.keys[i]
    BY <2>4
  <2> QED BY <2>1, <2>5
<1> HIDE DEF latest
<1>5. key \in Nat
  BY <1>2, <1>4, PagingAssumption
<1>6. /\ list' \in Lists /\ list'.kind = list.kind /\ list'.keys = [list.keys EXCEPT ![r] = key]
      /\ list'.present = list.present /\ list'.touched = list.touched \cup {r}
      /\ list'.got = list.got /\ list'.ended = "no" /\ list'.cursor = list.cursor
  <2>1. [list.keys EXCEPT ![r] = key] \in [Rows -> Nat] /\ list.touched \cup {r} \in SUBSET Rows
    BY <1>3, <1>5, ListTypes
  <2> QED BY <1>2, <1>3, <2>1 DEF Lists
<1>7. ASSUME Exact' PROVE Exact /\ ListIsSound'
  <2>1. list.kind = "ideas"
    BY <1>3, <1>6, <1>7 DEF Exact
  <2>2. ListIsSound /\ key = 1 + latest
    BY <1>2, <2>1 DEF Exact
  <2>3. \A i \in Rows : /\ list'.keys[i] \in Nat /\ list'.keys[i] >= list.keys[i]
                        /\ i # r => list'.keys[i] = list.keys[i]
    BY <1>3, <1>4, <1>6, <2>2, ListTypes
  <2>4. list'.keys[r] = 1 + latest
    BY <1>3, <1>6, <2>2, ListTypes
  <2>5. CursorIsSound'
    <3>1. ASSUME list.cursor # NoCursor PROVE list.cursor[1] <= list'.keys[list.cursor[2]]
      <4>1. list.cursor[1] \in Nat /\ list.cursor[2] \in Rows /\ list.cursor[1] <= list.keys[list.cursor[2]]
        BY <2>1, <2>2, <3>1, ListTypes DEF ListIsSound, CursorIsSound
      <4> QED BY <2>3, <4>1, ListTypes
    <3> QED BY <1>6, <2>1, <3>1 DEF CursorIsSound
  <2>6. ASSUME NEW i \in Rows, list.cursor # NoCursor
        PROVE  /\ Ahead(i)' => Ahead(i)
               /\ i # r => (Ahead(i)' <=> Ahead(i))
    <3> DEFINE k == list.cursor[1]
               c == list.cursor[2]
    <3>1. k \in Nat /\ c \in Rows /\ k <= list.keys[c] /\ k <= latest /\ list.cursor = <<k, c>>
      <4>1. list.cursor \in Nat \X Rows
        BY <2>6, ListTypes
      <4>2. k <= list.keys[c]
        BY <2>1, <2>2, <2>6 DEF ListIsSound, CursorIsSound
      <4>3. list.keys[c] \in Nat /\ list.keys[c] <= latest
        BY <1>4, <4>1, ListTypes
      <4>4. k \in Nat /\ c \in Rows /\ list.cursor = <<k, c>>
        BY <4>1
      <4> HIDE DEF k, c
      <4> QED BY <1>4, <4>2, <4>3, <4>4
    <3> HIDE DEF k, c
    <3>2. Ahead(i) <=> list.keys[i] < k \/ (list.keys[i] = k /\ i < c)
      BY <2>1, <2>6, <3>1, AfterCases DEF Ahead, Decoded
    <3>3. Ahead(i)' <=> list'.keys[i] < k \/ (list'.keys[i] = k /\ i < c)
      BY <1>6, <2>1, <2>6, <3>1, AfterCases DEF Ahead, Decoded, After
    <3>4. list.keys[i] \in Nat /\ list'.keys[i] \in Nat /\ list'.keys[i] >= list.keys[i]
      BY <2>3, ListTypes
    <3>5. CASE i = r
      BY <1>4, <2>4, <3>1, <3>3, <3>5
    <3>6. CASE i # r
      BY <2>3, <3>2, <3>3, <3>6
    <3> QED BY <3>5, <3>6
  <2>7. \A i \in ToSet(list.got) : i \in Rows
    BY ListTypes DEF ToSet
  <2>8. \A i \in ToSet(list.got) : ~Ahead(i)' \/ list.cursor = NoCursor
    BY <1>3, <2>2, <2>6, <2>7 DEF ListIsSound
  <2>9. ASSUME NEW i \in Rows \ (list.touched \cup {r}) PROVE i \in ToSet(list.got) \/ Ahead(i)'
    <3>1. CASE list.cursor = NoCursor
      BY <1>6, <3>1 DEF Ahead
    <3>2. CASE list.cursor # NoCursor
      BY <1>3, <2>2, <2>6, <2>9, <3>2 DEF ListIsSound
    <3> QED BY <3>1, <3>2
  <2>10. Rows \ (list.touched \cup {r}) \subseteq list.present
    BY <2>2 DEF ListIsSound
  <2> QED BY <1>3, <1>6, <2>1, <2>2, <2>5, <2>8, <2>9, <2>10 DEF ListIsSound, Exact
<1> QED BY <1>6, <1>7 DEF PagingInv

(* A row that leaves is no longer owed to the reader.                       *)
LEMMA Left ==
  ASSUME list \in Lists, Exact => ListIsSound, Leave
  PROVE  PagingInv'
<1>1. PICK r \in list.present : list' = [list EXCEPT !.present = @ \ {r}, !.touched = @ \cup {r}]
  BY DEF Leave
<1>2. /\ list' \in Lists /\ list'.kind = list.kind /\ list'.keys = list.keys
      /\ list'.present = list.present \ {r} /\ list'.touched = list.touched \cup {r}
      /\ list'.got = list.got /\ list'.ended = list.ended /\ list'.cursor = list.cursor
  <2>1. list.present \ {r} \in SUBSET Rows /\ list.touched \cup {r} \in SUBSET Rows
    BY ListTypes
  <2> QED BY <1>1, <2>1 DEF Lists
<1>3. Exact' => Exact
  BY <1>2 DEF Exact, IdsFollow, Precedes
<1>4. \A i : Ahead(i)' <=> Ahead(i)
  BY <1>2 DEF Ahead, Decoded, After
<1>5. ListIsSound => ListIsSound'
  BY <1>2, <1>4 DEF ListIsSound, CursorIsSound
<1> QED BY <1>2, <1>3, <1>5 DEF PagingInv

LEMMA PagingStepHolds == PagingInv /\ [PagingNext]_list => PagingInv'
<1> SUFFICES ASSUME PagingInv, [PagingNext]_list PROVE PagingInv'
  OBVIOUS
<1>1. CASE StartList
  BY <1>1, Started
<1>2. CASE ReadPage \/ ReadFails \/ Touch \/ Leave
  <2>1. list \in Lists /\ (Exact => ListIsSound)
    BY <1>2 DEF PagingInv, ReadPage, ReadFails, Touch, Leave
  <2> QED BY <1>2, <2>1, PageRead, ReadFailed, Touched, Left
<1>3. CASE UNCHANGED list
  <2>1. Exact' => Exact
    BY <1>3 DEF Exact, IdsFollow, Precedes
  <2>2. \A i : Ahead(i)' <=> Ahead(i)
    BY <1>3 DEF Ahead, Decoded, After
  <2>3. ListIsSound => ListIsSound'
    BY <1>3, <2>2 DEF ListIsSound, CursorIsSound
  <2> QED BY <1>3, <2>1, <2>3 DEF PagingInv
<1> QED BY <1>1, <1>2, <1>3 DEF PagingNext

(* However many rows there are and however large the pages, a list read to  *)
(* its end while its rows change holds every row that did not change, and   *)
(* none twice, in the cases that the property names.                        *)
THEOREM PagesAreExact == PagingSpec => []ListsAreExact
<1>1. PagingInit => PagingInv
  BY DEF PagingInit, PagingInv
<1>2. PagingInv => ListsAreExact
  BY DEF PagingInv, ListIsSound, ListsAreExact, Exact
<1> QED BY <1>1, <1>2, PagingStepHolds, PTL DEF PagingSpec

-----------------------------------------------------------------------------
(* Answers: what is asked.                                                  *)

\* The question sets and rows of the inputs.
Asked(questions, axis) == {q \in DOMAIN questions : questions[q].axis = axis}

IsQuestionSet(questions) ==
  /\ questions \in Seq(Question)
  /\ \A axis \in Axes : Cardinality(Asked(questions, axis)) <= MaxAsked

RoutineRow ==
  [active : BOOLEAN, daysOfWeek : SUBSET (0 .. 6), timesPerWeek : Nat, created : Nat]

AreDated(tasks) == DOMAIN tasks \subseteq Nat

(* What was asked, by its kind.                                             *)
InputIsGiven ==
  /\ input.kind = "finder" =>
       IsQuestionSet(input.questions) /\ input.answers \in [DOMAIN input.questions -> 1 .. 5]
  /\ input.kind = "routine" =>
       input.routine \in Routines /\ input.today \in Todays /\ AreDated(input.tasks)
  /\ input.kind = "goal" => input.goal \in GoalRows /\ input.now \in Todays /\ input.slip \in 0 .. 1
  /\ input.kind = "date" => input.zone \in Zones /\ input.instant \in Int

LEMMA AnswersInitHolds == AnswersInit => InputIsGiven
  BY DEF AnswersInit, NoInput, InputIsGiven

LEMMA AnswersStepHolds == InputIsGiven /\ [AnswersNext]_input => InputIsGiven'
<1> SUFFICES ASSUME InputIsGiven, [AnswersNext]_input PROVE InputIsGiven'
  OBVIOUS
<1>1. CASE AnswerFinder
  <2>1. PICK set \in QuestionSets : \E answers \in [DOMAIN set -> 1 .. 5] :
          input' = [kind |-> "finder", questions |-> set, answers |-> answers]
    BY <1>1 DEF AnswerFinder
  <2> PICK answers \in [DOMAIN set -> 1 .. 5] :
          input' = [kind |-> "finder", questions |-> set, answers |-> answers]
    BY <2>1
  <2>2. IsQuestionSet(set)
    BY AnswersAssumption DEF IsQuestionSet, Asked
  <2>3. input'.questions = set /\ input'.answers = answers /\ input'.kind = "finder"
    OBVIOUS
  <2> QED BY <2>2, <2>3 DEF InputIsGiven
<1>2. CASE AnswerRoutine
  <2>1. PICK routine \in Routines, done \in SUBSET DoneDays, today \in Todays :
          input' = [kind |-> "routine", routine |-> routine, today |-> today,
                    tasks |-> [d \in {e \in done \cup OpenDays : e <= today} |->
                                 (IF d \in done THEN {"DONE"} ELSE {})
                                 \cup (IF d \in OpenDays THEN {"PLANNED"} ELSE {})]]
    BY <1>2 DEF AnswerRoutine
  <2>2. DOMAIN input'.tasks = {e \in done \cup OpenDays : e <= today}
    BY <2>1
  <2>3. AreDated(input'.tasks)
    BY <2>2, AnswersAssumption DEF AreDated
  <2>4. input'.routine = routine /\ input'.today = today /\ input'.kind = "routine"
    BY <2>1
  <2> QED BY <2>3, <2>4 DEF InputIsGiven
<1>3. CASE AnswerGoal
  BY <1>3 DEF AnswerGoal, InputIsGiven
<1>4. CASE AnswerDate
  <2>1. PICK zone \in Zones : \E t \in zone.change - 30 .. zone.change + 30 :
          input' = [kind |-> "date", zone |-> zone, instant |-> t]
    BY <1>4 DEF AnswerDate
  <2>2. zone.change \in Int
    BY AnswersAssumption DEF Zone
  <2> QED BY <2>1, <2>2 DEF InputIsGiven
<1>5. CASE UNCHANGED input
  BY <1>5 DEF InputIsGiven
<1> QED BY <1>1, <1>2, <1>3, <1>4, <1>5 DEF AnswersNext

LEMMA AnswersInvariance == AnswersSpec => []InputIsGiven
  BY AnswersInitHolds, AnswersStepHolds, PTL DEF AnswersSpec

-----------------------------------------------------------------------------
(* Answers: the finder.                                                     *)

(* A set of subsets of a finite set that has every subset all of whose      *)
(* parts by one element less it has, has them all.                          *)
Grows(A, Good) ==
  \A s \in SUBSET A : (\A x \in s : s \ {x} \in Good) => s \in Good

LEMMA SubsetInduction ==
  ASSUME NEW A, IsFiniteSet(A), NEW Good, Grows(A, Good)
  PROVE  \A s \in SUBSET A : s \in Good
<1> DEFINE Wrong == {s \in SUBSET A : s \notin Good}
<1>1. SUFFICES ASSUME Wrong # {} PROVE FALSE
  OBVIOUS
<1>2. Wrong \subseteq FiniteSubsetsOf(A)
  BY FS_FiniteSubsetsOfFinite
<1>3. PICK s \in Wrong : \A b \in Wrong : ~(<<b, s>> \in StrictSubsetOrdering(A))
  BY <1>1, <1>2, FS_StrictSubsetOrderingWellFounded, WFMin
<1>4. ASSUME NEW x \in s PROVE s \ {x} \in Good
  <2>1. s \ {x} \in SUBSET A /\ s \ {x} # s /\ s \ {x} \subseteq s /\ s \in SUBSET A
    BY <1>4
  <2>2. <<s \ {x}, s>> \in StrictSubsetOrdering(A)
    BY <2>1 DEF StrictSubsetOrdering
  <2> QED BY <1>3, <2>1, <2>2
<1> QED BY <1>3, <1>4 DEF Grows

Picked(s) == CHOOSE x \in s : TRUE

IsSum(g, w, A) ==
  \A s \in SUBSET A : g[s] = IF s = {} THEN 0 ELSE w[Picked(s)] + g[s \ {Picked(s)}]

LEMMA SumIsUnique ==
  ASSUME NEW A, IsFiniteSet(A), NEW w, NEW g, NEW h, IsSum(g, w, A), IsSum(h, w, A)
  PROVE  g[A] = h[A]
<1> DEFINE Good == {s \in SUBSET A : g[s] = h[s]}
<1>1. ASSUME NEW s \in SUBSET A, \A x \in s : s \ {x} \in Good PROVE s \in Good
  <2>1. CASE s = {}
    BY <2>1 DEF IsSum
  <2>2. CASE s # {}
    <3>1. Picked(s) \in s
      BY <2>2 DEF Picked
    <3>2. g[s \ {Picked(s)}] = h[s \ {Picked(s)}]
      BY <1>1, <3>1
    <3> QED BY <2>2, <3>2 DEF IsSum
  <2> QED BY <2>1, <2>2
<1>2. Grows(A, Good)
  BY <1>1 DEF Grows
<1> QED BY <1>2, SubsetInduction

-----------------------------------------------------------------------------
(* A sum over the axes is the sum of its four terms.                        *)
Part(w, s, axis) == IF axis \in s THEN w[axis] ELSE 0
FourParts(w, s) == Part(w, s, "EI") + Part(w, s, "SN") + Part(w, s, "TF") + Part(w, s, "JP")

LEMMA FourPartsSum ==
  ASSUME NEW w \in [Axes -> Int], NEW s \in SUBSET Axes
  PROVE  FourParts(w, s) = IF s = {} THEN 0 ELSE w[Picked(s)] + FourParts(w, s \ {Picked(s)})
<1>1. \A axis \in Axes : w[axis] \in Int
  OBVIOUS
<1>2. \A axis \in Axes : \A r : Part(w, r, axis) \in Int
  BY <1>1 DEF Part
<1>3. CASE s = {}
  BY <1>3 DEF FourParts, Part
<1>4. CASE s # {}
  <2> DEFINE a == Picked(s)
             r == s \ {a}
  <2>1. a \in s /\ a \in Axes
    BY <1>4 DEF Picked
  <2> HIDE DEF a
  <2>2. \A axis \in Axes : axis # a => Part(w, s, axis) = Part(w, r, axis)
    BY DEF Part
  <2>3. Part(w, s, a) = w[a] /\ Part(w, r, a) = 0
    BY <2>1 DEF Part
  <2> HIDE DEF r
  <2>4. a = "EI" \/ a = "SN" \/ a = "TF" \/ a = "JP"
    BY <2>1 DEF Axes
  <2>5. "EI" \in Axes /\ "SN" \in Axes /\ "TF" \in Axes /\ "JP" \in Axes
    BY DEF Axes
  <2>6. FourParts(w, s) = w[a] + FourParts(w, r)
    <3>1. CASE a = "EI"
      BY <1>1, <1>2, <2>2, <2>3, <2>5, <3>1 DEF FourParts
    <3>2. CASE a = "SN"
      BY <1>1, <1>2, <2>2, <2>3, <2>5, <3>2 DEF FourParts
    <3>3. CASE a = "TF"
      BY <1>1, <1>2, <2>2, <2>3, <2>5, <3>3 DEF FourParts
    <3>4. CASE a = "JP"
      BY <1>1, <1>2, <2>2, <2>3, <2>5, <3>4 DEF FourParts
    <3> QED BY <2>4, <3>1, <3>2, <3>3, <3>4
  <2> QED BY <1>4, <2>6 DEF a, r
<1> QED BY <1>3, <1>4

LEMMA AxesAreFour == IsFiniteSet(Axes) /\ Axes = {"EI", "SN", "TF", "JP"}
<1>1. IsFiniteSet({"EI"} \cup {"SN"})
  BY FS_Singleton, FS_AddElement
<1>2. IsFiniteSet(({"EI"} \cup {"SN"}) \cup {"TF"})
  BY <1>1, FS_AddElement
<1>3. IsFiniteSet((({"EI"} \cup {"SN"}) \cup {"TF"}) \cup {"JP"})
  BY <1>2, FS_AddElement
<1>4. (({"EI"} \cup {"SN"}) \cup {"TF"}) \cup {"JP"} = Axes
  BY DEF Axes
<1> QED BY <1>3, <1>4 DEF Axes

LEMMA AxesSumExists ==
  ASSUME NEW w \in [Axes -> Int]
  PROVE  \E h : h = [s \in SUBSET Axes |-> h[s]] /\ IsSum(h, w, Axes)
<1> DEFINE h == [s \in SUBSET Axes |-> FourParts(w, s)]
<1>1. ASSUME NEW s \in SUBSET Axes
      PROVE  h[s] = IF s = {} THEN 0 ELSE w[Picked(s)] + h[s \ {Picked(s)}]
  <2>1. s \ {Picked(s)} \in SUBSET Axes
    OBVIOUS
  <2> QED BY <2>1, FourPartsSum
<1>2. h = [s \in SUBSET Axes |-> h[s]]
  OBVIOUS
<1> HIDE DEF h
<1> QED BY <1>1, <1>2 DEF IsSum

(* What satisfies the equation of the fold adds the four terms.             *)
LEMMA AxesSum ==
  ASSUME NEW w \in [Axes -> Int], NEW g, IsSum(g, w, Axes)
  PROVE  g[Axes] = w["EI"] + w["SN"] + w["TF"] + w["JP"]
<1> DEFINE h == [s \in SUBSET Axes |-> FourParts(w, s)]
<1>1. IsSum(h, w, Axes)
  <2>1. ASSUME NEW s \in SUBSET Axes
        PROVE  h[s] = IF s = {} THEN 0 ELSE w[Picked(s)] + h[s \ {Picked(s)}]
    <3>1. s \ {Picked(s)} \in SUBSET Axes
      OBVIOUS
    <3> QED BY <3>1, FourPartsSum
  <2> HIDE DEF h
  <2> QED BY <2>1 DEF IsSum
<1>2. g[Axes] = h[Axes]
  <2> HIDE DEF h
  <2> QED BY <1>1, AxesAreFour, SumIsUnique
<1>3. h[Axes] = FourParts(w, Axes)
  OBVIOUS
<1>4. FourParts(w, Axes) = w["EI"] + w["SN"] + w["TF"] + w["JP"]
  <2>1. "EI" \in Axes /\ "SN" \in Axes /\ "TF" \in Axes /\ "JP" \in Axes
    BY DEF Axes
  <2> QED BY <2>1 DEF FourParts, Part
<1> HIDE DEF h
<1> QED BY <1>2, <1>3, <1>4

(* The score of a type is a sum of four terms.                              *)
LEMMA ScoreIs ==
  ASSUME NEW type, NEW scores \in [Axes -> Int]
  PROVE  ScoreCandidate(type, scores)
           = Sign("EI", type) * scores["EI"] + Sign("SN", type) * scores["SN"]
             + Sign("TF", type) * scores["TF"] + Sign("JP", type) * scores["JP"]
<1> DEFINE w == [axis \in Axes |-> Sign(axis, type) * scores[axis]]
           Equation(g) == g = [s \in SUBSET Axes |->
             IF s = {} THEN 0
             ELSE Sign(CHOOSE x \in s : TRUE, type) * scores[CHOOSE x \in s : TRUE]
                  + g[s \ {CHOOSE x \in s : TRUE}]]
           f == CHOOSE g : Equation(g)
<1>1. ScoreCandidate(type, scores) = f[Axes]
  BY Zenon DEF ScoreCandidate, MapThenSumSet, MapThenFoldSet
<1>2. w \in [Axes -> Int]
  <2>1. \A axis \in Axes : Sign(axis, type) * scores[axis] \in Int
    BY DEF Sign
  <2> QED BY <2>1
<1>3. ASSUME NEW g, g = [s \in SUBSET Axes |-> g[s]], IsSum(g, w, Axes) PROVE Equation(g)
  <2>1. ASSUME NEW s \in SUBSET Axes, s # {}
        PROVE  w[Picked(s)] = Sign(CHOOSE x \in s : TRUE, type) * scores[CHOOSE x \in s : TRUE]
    <3>1. Picked(s) \in s /\ Picked(s) = CHOOSE x \in s : TRUE
      BY <2>1 DEF Picked
    <3>2. Picked(s) \in Axes
      BY <3>1
    <3> QED BY <3>1, <3>2
  <2>2. ASSUME NEW s \in SUBSET Axes
        PROVE  g[s] = IF s = {} THEN 0
                      ELSE Sign(CHOOSE x \in s : TRUE, type) * scores[CHOOSE x \in s : TRUE]
                           + g[s \ {CHOOSE x \in s : TRUE}]
    <3> HIDE DEF w
    <3> QED BY <1>3, <2>1 DEF IsSum, Picked
  <2> HIDE DEF w
  <2> QED BY <1>3, <2>2, Zenon
<1>4. ASSUME NEW g, Equation(g) PROVE IsSum(g, w, Axes)
  <2>1. ASSUME NEW s \in SUBSET Axes
        PROVE  g[s] = IF s = {} THEN 0 ELSE w[Picked(s)] + g[s \ {Picked(s)}]
    <3>1. g[s] = IF s = {} THEN 0
                 ELSE Sign(CHOOSE x \in s : TRUE, type) * scores[CHOOSE x \in s : TRUE]
                      + g[s \ {CHOOSE x \in s : TRUE}]
      BY <1>4
    <3>2. s # {} => Picked(s) \in Axes
      BY DEF Picked
    <3>3. Picked(s) = CHOOSE x \in s : TRUE
      BY DEF Picked
    <3>4. Picked(s) \in Axes => w[Picked(s)] = Sign(Picked(s), type) * scores[Picked(s)]
      OBVIOUS
    <3> HIDE DEF w, Equation
    <3> QED BY <3>1, <3>2, <3>3, <3>4
  <2> QED BY <2>1 DEF IsSum
<1> HIDE DEF Equation
<1>5. Equation(f)
  BY <1>2, <1>3, AxesSumExists
<1>6. f[Axes] = w["EI"] + w["SN"] + w["TF"] + w["JP"]
  <2> HIDE DEF f, w
  <2> QED BY <1>2, <1>4, <1>5, AxesSum
<1>7. "EI" \in Axes /\ "SN" \in Axes /\ "TF" \in Axes /\ "JP" \in Axes
  BY DEF Axes
<1> HIDE DEF f
<1> QED BY <1>1, <1>6, <1>7
(* The sum of magnitudes is a sum of four terms.                            *)
LEMMA MagnitudesAre ==
  ASSUME NEW scores \in [Axes -> Int]
  PROVE  MapThenSumSet(LAMBDA axis : Magnitude(scores[axis]), Axes)
           = Magnitude(scores["EI"]) + Magnitude(scores["SN"])
             + Magnitude(scores["TF"]) + Magnitude(scores["JP"])
<1> DEFINE w == [axis \in Axes |-> Magnitude(scores[axis])]
           Equation(g) == g = [s \in SUBSET Axes |->
             IF s = {} THEN 0
             ELSE Magnitude(scores[CHOOSE x \in s : TRUE])
                  + g[s \ {CHOOSE x \in s : TRUE}]]
           f == CHOOSE g : Equation(g)
<1>1. MapThenSumSet(LAMBDA axis : Magnitude(scores[axis]), Axes) = f[Axes]
  BY Zenon DEF MapThenSumSet, MapThenFoldSet
<1>2. w \in [Axes -> Int]
  <2>1. \A axis \in Axes : Magnitude(scores[axis]) \in Int
    BY DEF Magnitude
  <2> QED BY <2>1
<1>3. ASSUME NEW g, g = [s \in SUBSET Axes |-> g[s]], IsSum(g, w, Axes) PROVE Equation(g)
  <2>1. ASSUME NEW s \in SUBSET Axes, s # {}
        PROVE  w[Picked(s)] = Magnitude(scores[CHOOSE x \in s : TRUE])
    <3>1. Picked(s) \in s /\ Picked(s) = CHOOSE x \in s : TRUE
      BY <2>1 DEF Picked
    <3>2. Picked(s) \in Axes
      BY <3>1
    <3> QED BY <3>1, <3>2
  <2>2. ASSUME NEW s \in SUBSET Axes
        PROVE  g[s] = IF s = {} THEN 0
                      ELSE Magnitude(scores[CHOOSE x \in s : TRUE])
                           + g[s \ {CHOOSE x \in s : TRUE}]
    <3> HIDE DEF w
    <3> QED BY <1>3, <2>1 DEF IsSum, Picked
  <2> HIDE DEF w
  <2> QED BY <1>3, <2>2, Zenon
<1>4. ASSUME NEW g, Equation(g) PROVE IsSum(g, w, Axes)
  <2>1. ASSUME NEW s \in SUBSET Axes
        PROVE  g[s] = IF s = {} THEN 0 ELSE w[Picked(s)] + g[s \ {Picked(s)}]
    <3>1. g[s] = IF s = {} THEN 0
                 ELSE Magnitude(scores[CHOOSE x \in s : TRUE])
                      + g[s \ {CHOOSE x \in s : TRUE}]
      BY <1>4
    <3>2. s # {} => Picked(s) \in Axes
      BY DEF Picked
    <3>3. Picked(s) = CHOOSE x \in s : TRUE
      BY DEF Picked
    <3>4. Picked(s) \in Axes => w[Picked(s)] = Magnitude(scores[Picked(s)])
      OBVIOUS
    <3> HIDE DEF w, Equation
    <3> QED BY <3>1, <3>2, <3>3, <3>4
  <2> QED BY <2>1 DEF IsSum
<1> HIDE DEF Equation
<1>5. Equation(f)
  BY <1>2, <1>3, AxesSumExists
<1>6. f[Axes] = w["EI"] + w["SN"] + w["TF"] + w["JP"]
  <2> HIDE DEF f, w
  <2> QED BY <1>2, <1>4, <1>5, AxesSum
<1>7. "EI" \in Axes /\ "SN" \in Axes /\ "TF" \in Axes /\ "JP" \in Axes
  BY DEF Axes
<1> HIDE DEF f
<1> QED BY <1>1, <1>6, <1>7
-----------------------------------------------------------------------------
(* The points of a set of answered questions, as Leaning counts them.       *)
Strong(questions, answers, B, values) ==
  {point \in B \X values :
     LET q == point[1]  v == point[2] IN
     \/ v > 3 /\ Toward(questions[q], answers[q]) >= v
     \/ v < 3 /\ Toward(questions[q], answers[q]) <= v}

LeanOf(questions, answers, B) ==
  Cardinality(Strong(questions, answers, B, 4 .. 5)) - Cardinality(Strong(questions, answers, B, 1 .. 2))

LEMMA StrongIsFinite ==
  ASSUME NEW questions, NEW answers, NEW B, IsFiniteSet(B)
  PROVE  /\ IsFiniteSet(Strong(questions, answers, B, 4 .. 5))
         /\ IsFiniteSet(Strong(questions, answers, B, 1 .. 2))
<1>1. IsFiniteSet(4 .. 5) /\ IsFiniteSet(1 .. 2)
  <2>1. 1 \in Int /\ 2 \in Int /\ 4 \in Int /\ 5 \in Int
    OBVIOUS
  <2> QED BY <2>1, FS_Interval
<1>2. IsFiniteSet(B \X (4 .. 5)) /\ IsFiniteSet(B \X (1 .. 2))
  BY <1>1, FS_Product
<1>3. /\ Strong(questions, answers, B, 4 .. 5) \in SUBSET (B \X (4 .. 5))
      /\ Strong(questions, answers, B, 1 .. 2) \in SUBSET (B \X (1 .. 2))
  BY DEF Strong
<1> QED BY <1>2, <1>3, FS_Subset

(* One answer adds its points to the count of the marks that are reached.   *)
LEMMA LeanStep ==
  ASSUME NEW questions, NEW answers, NEW B, IsFiniteSet(B), NEW x \in B,
         Toward(questions[x], answers[x]) \in 1 .. 5
  PROVE  LeanOf(questions, answers, B)
           = (Toward(questions[x], answers[x]) - 3) + LeanOf(questions, answers, B \ {x})
<1> DEFINE t == Toward(questions[x], answers[x])
           R == B \ {x}
           High(A) == Strong(questions, answers, A, 4 .. 5)
           Low(A) == Strong(questions, answers, A, 1 .. 2)
<1>1. IsFiniteSet(R)
  BY FS_Subset
<1>2. /\ IsFiniteSet(High(R)) /\ Cardinality(High(R)) \in Nat
      /\ IsFiniteSet(Low(R)) /\ Cardinality(Low(R)) \in Nat
  BY <1>1, StrongIsFinite, FS_CardinalityType
<1>3. ASSUME NEW v \in 4 .. 5 PROVE <<x, v>> \notin High(R)
  BY DEF Strong
<1>4. ASSUME NEW v \in 1 .. 2 PROVE <<x, v>> \notin Low(R)
  BY DEF Strong
<1>5. High(B) = High(R) \cup {p \in {<<x, 4>>, <<x, 5>>} : p[2] <= t}
  <2>1. \A p : p \in B \X (4 .. 5) <=> p \in R \X (4 .. 5) \/ p \in {<<x, 4>>, <<x, 5>>}
    OBVIOUS
  <2>2. \A p \in {<<x, 4>>, <<x, 5>>} : p[1] = x /\ p[2] > 3 /\ p[2] \in Int
    OBVIOUS
  <2> QED BY <2>1, <2>2 DEF Strong
<1>6. Low(B) = Low(R) \cup {p \in {<<x, 1>>, <<x, 2>>} : p[2] >= t}
  <2>1. \A p : p \in B \X (1 .. 2) <=> p \in R \X (1 .. 2) \/ p \in {<<x, 1>>, <<x, 2>>}
    OBVIOUS
  <2>2. \A p \in {<<x, 1>>, <<x, 2>>} : p[1] = x /\ p[2] < 3 /\ p[2] \in Int
    OBVIOUS
  <2> QED BY <2>1, <2>2 DEF Strong
<1> HIDE DEF High, Low, R, t
<1>7. t \in 1 .. 5
  BY DEF t
<1>8. Cardinality(High(B)) = Cardinality(High(R)) + (IF t > 3 THEN t - 3 ELSE 0)
  <2>1. CASE t <= 3
    <3>1. {p \in {<<x, 4>>, <<x, 5>>} : p[2] <= t} = {}
      BY <1>7, <2>1
    <3>2. High(B) = High(R)
      BY <1>5, <3>1
    <3> QED BY <1>2, <1>7, <2>1, <3>2
  <2>2. CASE t = 4
    <3>1. {p \in {<<x, 4>>, <<x, 5>>} : p[2] <= t} = {<<x, 4>>}
      BY <2>2
    <3>2. High(B) = High(R) \cup {<<x, 4>>}
      BY <1>5, <3>1
    <3>3. <<x, 4>> \notin High(R)
      BY <1>3
    <3>4. Cardinality(High(R) \cup {<<x, 4>>}) = Cardinality(High(R)) + 1
      BY <1>2, <3>3, FS_AddElement
    <3> QED BY <1>2, <2>2, <3>2, <3>4
  <2>3. CASE t = 5
    <3>1. {p \in {<<x, 4>>, <<x, 5>>} : p[2] <= t} = {<<x, 4>>, <<x, 5>>}
      BY <2>3
    <3>2. High(B) = (High(R) \cup {<<x, 4>>}) \cup {<<x, 5>>}
      BY <1>5, <3>1
    <3>3. /\ IsFiniteSet(High(R) \cup {<<x, 4>>})
          /\ Cardinality(High(R) \cup {<<x, 4>>}) = Cardinality(High(R)) + 1
      BY <1>2, <1>3, FS_AddElement
    <3>4. <<x, 5>> \notin High(R) \cup {<<x, 4>>}
      BY <1>3
    <3>5. Cardinality((High(R) \cup {<<x, 4>>}) \cup {<<x, 5>>})
            = Cardinality(High(R) \cup {<<x, 4>>}) + 1
      BY <3>3, <3>4, FS_AddElement
    <3> QED BY <1>2, <2>3, <3>2, <3>3, <3>5
  <2> QED BY <1>7, <2>1, <2>2, <2>3
<1>9. Cardinality(Low(B)) = Cardinality(Low(R)) + (IF t < 3 THEN 3 - t ELSE 0)
  <2>1. CASE t >= 3
    <3>1. {p \in {<<x, 1>>, <<x, 2>>} : p[2] >= t} = {}
      BY <1>7, <2>1
    <3>2. Low(B) = Low(R)
      BY <1>6, <3>1
    <3> QED BY <1>2, <1>7, <2>1, <3>2
  <2>2. CASE t = 2
    <3>1. {p \in {<<x, 1>>, <<x, 2>>} : p[2] >= t} = {<<x, 2>>}
      BY <2>2
    <3>2. Low(B) = Low(R) \cup {<<x, 2>>}
      BY <1>6, <3>1
    <3>3. <<x, 2>> \notin Low(R)
      BY <1>4
    <3>4. Cardinality(Low(R) \cup {<<x, 2>>}) = Cardinality(Low(R)) + 1
      BY <1>2, <3>3, FS_AddElement
    <3> QED BY <1>2, <2>2, <3>2, <3>4
  <2>3. CASE t = 1
    <3>1. {p \in {<<x, 1>>, <<x, 2>>} : p[2] >= t} = {<<x, 1>>, <<x, 2>>}
      BY <2>3
    <3>2. Low(B) = (Low(R) \cup {<<x, 1>>}) \cup {<<x, 2>>}
      BY <1>6, <3>1
    <3>3. /\ IsFiniteSet(Low(R) \cup {<<x, 1>>})
          /\ Cardinality(Low(R) \cup {<<x, 1>>}) = Cardinality(Low(R)) + 1
      BY <1>2, <1>4, FS_AddElement
    <3>4. <<x, 2>> \notin Low(R) \cup {<<x, 1>>}
      BY <1>4
    <3>5. Cardinality((Low(R) \cup {<<x, 1>>}) \cup {<<x, 2>>})
            = Cardinality(Low(R) \cup {<<x, 1>>}) + 1
      BY <3>3, <3>4, FS_AddElement
    <3> QED BY <1>2, <2>3, <3>2, <3>3, <3>5
  <2> QED BY <1>7, <2>1, <2>2, <2>3
<1>10. Cardinality(High(B)) - Cardinality(Low(B)) = (t - 3) + (Cardinality(High(R)) - Cardinality(Low(R)))
  BY <1>2, <1>7, <1>8, <1>9
<1> QED BY <1>10 DEF LeanOf, High, Low, R, t

\* The set of answered questions A, and that its answers are on the scale.
OnScale(questions, answers, A) ==
  \A q \in A : /\ Toward(questions[q], answers[q]) \in 1 .. 5
               /\ Points(questions[q], answers[q]) = Toward(questions[q], answers[q]) - 3

LeanIsBounded(questions, answers, B) ==
  LET lean == LeanOf(questions, answers, B)
      size == Cardinality(B)
  IN /\ lean \in -2 * size .. 2 * size
     /\ lean = 2 * size <=> \A q \in B : Toward(questions[q], answers[q]) = 5
     /\ lean = -2 * size <=> \A q \in B : Toward(questions[q], answers[q]) = 1

LEMMA LeanOfNone ==
  ASSUME NEW questions, NEW answers
  PROVE  LeanOf(questions, answers, {}) = 0
<1>1. Strong(questions, answers, {}, 4 .. 5) = {} /\ Strong(questions, answers, {}, 1 .. 2) = {}
  BY DEF Strong
<1>2. Cardinality({}) = 0
  BY FS_EmptySet
<1> QED BY <1>1, <1>2 DEF LeanOf

(* A lean is at its bound exactly when every answer is full to that side.   *)
LEMMA LeanBounds ==
  ASSUME NEW questions, NEW answers, NEW A, IsFiniteSet(A), OnScale(questions, answers, A)
  PROVE  LeanIsBounded(questions, answers, A)
<1> DEFINE Good == {s \in SUBSET A : LeanIsBounded(questions, answers, s)}
<1>1. ASSUME NEW s \in SUBSET A, \A x \in s : s \ {x} \in Good PROVE s \in Good
  <2>1. CASE s = {}
    <3>1. LeanOf(questions, answers, s) = 0 /\ Cardinality(s) = 0
      BY <2>1, LeanOfNone, FS_EmptySet
    <3> QED BY <2>1, <3>1 DEF LeanIsBounded
  <2>2. CASE s # {}
    <3>1. PICK x \in s : TRUE
      BY <2>2
    <3> DEFINE r == s \ {x}
               lean == LeanOf(questions, answers, r)
               size == Cardinality(r)
               t == Toward(questions[x], answers[x])
    <3>2. IsFiniteSet(s) /\ IsFiniteSet(r) /\ size \in Nat /\ Cardinality(s) = size + 1
      <4>1. IsFiniteSet(s)
        BY FS_Subset
      <4>2. IsFiniteSet(r)
        BY <4>1, FS_Subset
      <4>3. s = r \cup {x} /\ x \notin r
        BY <3>1
      <4> HIDE DEF r
      <4>4. Cardinality(r \cup {x}) = Cardinality(r) + 1
        BY <4>2, <4>3, FS_AddElement
      <4> QED BY <4>1, <4>2, <4>3, <4>4, FS_CardinalityType
    <3>3. t \in 1 .. 5
      BY <3>1 DEF OnScale
    <3>4. LeanOf(questions, answers, s) = (t - 3) + lean
      BY <3>1, <3>2, <3>3, LeanStep
    <3>5. /\ lean \in -2 * size .. 2 * size
          /\ lean = 2 * size <=> \A q \in r : Toward(questions[q], answers[q]) = 5
          /\ lean = -2 * size <=> \A q \in r : Toward(questions[q], answers[q]) = 1
      BY <1>1, <3>1 DEF LeanIsBounded
    <3>6. /\ (\A q \in s : Toward(questions[q], answers[q]) = 5)
               <=> t = 5 /\ \A q \in r : Toward(questions[q], answers[q]) = 5
          /\ (\A q \in s : Toward(questions[q], answers[q]) = 1)
               <=> t = 1 /\ \A q \in r : Toward(questions[q], answers[q]) = 1
      BY <3>1
    <3> DEFINE Fives(B) == \A q \in B : Toward(questions[q], answers[q]) = 5
               Ones(B) == \A q \in B : Toward(questions[q], answers[q]) = 1
    <3> HIDE DEF r, lean, size, t
    <3>7. /\ (t - 3) + lean \in -2 * (size + 1) .. 2 * (size + 1)
          /\ (t - 3) + lean = 2 * (size + 1) <=> t = 5 /\ lean = 2 * size
          /\ (t - 3) + lean = -2 * (size + 1) <=> t = 1 /\ lean = -2 * size
      BY <3>2, <3>3, <3>5
    <3>8. LeanIsBounded(questions, answers, s)
      BY <3>2, <3>4, <3>5, <3>6, <3>7 DEF LeanIsBounded
    <3> QED BY <3>8
  <2> QED BY <2>1, <2>2
<1>2. Grows(A, Good)
  BY <1>1 DEF Grows
<1> QED BY <1>2, SubsetInduction

(* The points of the answers to an axis add up to their lean.               *)
LEMMA AxisScoreIs ==
  ASSUME NEW questions, NEW answers, NEW A, IsFiniteSet(A), OnScale(questions, answers, A)
  PROVE  MapThenSumSet(LAMBDA q : Points(questions[q], answers[q]), A) = LeanOf(questions, answers, A)
<1> DEFINE w == [q \in A |-> Points(questions[q], answers[q])]
           h == [s \in SUBSET A |-> LeanOf(questions, answers, s)]
           Equation(g) == g = [s \in SUBSET A |->
             IF s = {} THEN 0
             ELSE Points(questions[CHOOSE x \in s : TRUE], answers[CHOOSE x \in s : TRUE])
                  + g[s \ {CHOOSE x \in s : TRUE}]]
           f == CHOOSE g : Equation(g)
<1>1. MapThenSumSet(LAMBDA q : Points(questions[q], answers[q]), A) = f[A]
  BY Zenon DEF MapThenSumSet, MapThenFoldSet
<1>2. ASSUME NEW s \in SUBSET A, s # {}
      PROVE  /\ Picked(s) \in s /\ Picked(s) \in A /\ Picked(s) = CHOOSE x \in s : TRUE
             /\ w[Picked(s)] = Points(questions[Picked(s)], answers[Picked(s)])
  <2>1. Picked(s) \in s /\ Picked(s) = CHOOSE x \in s : TRUE
    BY <1>2 DEF Picked
  <2> QED BY <2>1
<1>3. ASSUME NEW s \in SUBSET A
      PROVE  h[s] = IF s = {} THEN 0
                    ELSE Points(questions[Picked(s)], answers[Picked(s)]) + h[s \ {Picked(s)}]
  <2>1. h[s] = LeanOf(questions, answers, s)
        /\ h[s \ {Picked(s)}] = LeanOf(questions, answers, s \ {Picked(s)})
    OBVIOUS
  <2> HIDE DEF h, w
  <2>2. CASE s = {}
    BY <2>1, <2>2, LeanOfNone
  <2>3. CASE s # {}
    <3>1. Picked(s) \in s /\ Picked(s) \in A
      BY <1>2, <2>3
    <3>2. IsFiniteSet(s)
      BY FS_Subset
    <3>3. /\ Toward(questions[Picked(s)], answers[Picked(s)]) \in 1 .. 5
          /\ Points(questions[Picked(s)], answers[Picked(s)]) = Toward(questions[Picked(s)], answers[Picked(s)]) - 3
      BY <3>1 DEF OnScale
    <3>4. LeanOf(questions, answers, s)
            = (Toward(questions[Picked(s)], answers[Picked(s)]) - 3) + LeanOf(questions, answers, s \ {Picked(s)})
      BY <3>1, <3>2, <3>3, LeanStep
    <3> QED BY <2>1, <2>3, <3>3, <3>4
  <2> QED BY <2>2, <2>3
<1>4. h = [s \in SUBSET A |-> h[s]] /\ h[A] = LeanOf(questions, answers, A)
  OBVIOUS
<1> HIDE DEF h
<1>5. ASSUME NEW g, g = [s \in SUBSET A |-> g[s]],
             \A s \in SUBSET A : g[s] = IF s = {} THEN 0
                ELSE Points(questions[Picked(s)], answers[Picked(s)]) + g[s \ {Picked(s)}]
      PROVE  Equation(g)
  BY <1>5, Zenon DEF Picked
<1>6. ASSUME NEW g, Equation(g) PROVE IsSum(g, w, A)
  <2>1. ASSUME NEW s \in SUBSET A
        PROVE  g[s] = IF s = {} THEN 0 ELSE w[Picked(s)] + g[s \ {Picked(s)}]
    <3>1. g[s] = IF s = {} THEN 0
                 ELSE Points(questions[CHOOSE x \in s : TRUE], answers[CHOOSE x \in s : TRUE])
                      + g[s \ {CHOOSE x \in s : TRUE}]
      BY <1>6
    <3> HIDE DEF w, Equation
    <3> QED BY <1>2, <3>1
  <2> QED BY <2>1 DEF IsSum
<1>7. Equation(h)
  <2> HIDE DEF Equation
  <2> QED BY <1>3, <1>4, <1>5
<1> HIDE DEF Equation
<1>8. Equation(f)
  BY <1>7
<1>9. f[A] = h[A]
  <2> HIDE DEF f, w
  <2> QED BY <1>6, <1>7, <1>8, SumIsUnique
<1> HIDE DEF f
<1> QED BY <1>1, <1>4, <1>9

-----------------------------------------------------------------------------
(* Up to eight questions the score of an axis is exact, so it is of the     *)
(* sign of the leaning, and full if that is.                                *)
LEMMA NormalizedRange ==
  ASSUME NEW c \in 1 .. 8, NEW l \in -2 * c .. 2 * c
  PROVE  /\ (l * Unit) \div (2 * c) \in -Unit .. Unit
         /\ (l * Unit) \div (2 * c) > 0 <=> l > 0
         /\ (l * Unit) \div (2 * c) < 0 <=> l < 0
         /\ (l * Unit) \div (2 * c) = Unit <=> l = 2 * c
         /\ (l * Unit) \div (2 * c) = -Unit <=> l = -2 * c
<1>1. CASE c = 1
  <2>1. (l * Unit) \div (2 * c) = l * 840
    BY <1>1 DEF Unit
  <2> QED BY <1>1, <2>1 DEF Unit
<1>2. CASE c = 2
  <2>1. (l * Unit) \div (2 * c) = l * 420
    BY <1>2 DEF Unit
  <2> QED BY <1>2, <2>1 DEF Unit
<1>3. CASE c = 3
  <2>1. (l * Unit) \div (2 * c) = l * 280
    BY <1>3 DEF Unit
  <2> QED BY <1>3, <2>1 DEF Unit
<1>4. CASE c = 4
  <2>1. (l * Unit) \div (2 * c) = l * 210
    BY <1>4 DEF Unit
  <2> QED BY <1>4, <2>1 DEF Unit
<1>5. CASE c = 5
  <2>1. (l * Unit) \div (2 * c) = l * 168
    BY <1>5 DEF Unit
  <2> QED BY <1>5, <2>1 DEF Unit
<1>6. CASE c = 6
  <2>1. (l * Unit) \div (2 * c) = l * 140
    BY <1>6 DEF Unit
  <2> QED BY <1>6, <2>1 DEF Unit
<1>7. CASE c = 7
  <2>1. (l * Unit) \div (2 * c) = l * 120
    BY <1>7 DEF Unit
  <2> QED BY <1>7, <2>1 DEF Unit
<1>8. CASE c = 8
  <2>1. (l * Unit) \div (2 * c) = l * 105
    BY <1>8 DEF Unit
  <2> QED BY <1>8, <2>1 DEF Unit
<1> QED BY <1>1, <1>2, <1>3, <1>4, <1>5, <1>6, <1>7, <1>8

(* The questions on an axis are finitely many, and their answers are on the *)
(* scale of five.                                                           *)
LEMMA AskedAreOnScale ==
  ASSUME NEW questions, IsQuestionSet(questions), NEW answers \in [DOMAIN questions -> 1 .. 5],
         NEW axis
  PROVE  /\ IsFiniteSet(Asked(questions, axis)) /\ Cardinality(Asked(questions, axis)) \in Nat
         /\ OnScale(questions, answers, Asked(questions, axis))
<1>1. questions \in Seq(Question) /\ Len(questions) \in Nat /\ DOMAIN questions = 1 .. Len(questions)
  BY DEF IsQuestionSet
<1>2. IsFiniteSet(1 .. Len(questions))
  BY <1>1, FS_Interval
<1>3. Asked(questions, axis) \in SUBSET (1 .. Len(questions))
  BY <1>1 DEF Asked
<1>4. ASSUME NEW q \in Asked(questions, axis)
      PROVE  /\ Toward(questions[q], answers[q]) \in 1 .. 5
             /\ Points(questions[q], answers[q]) = Toward(questions[q], answers[q]) - 3
  <2>1. q \in DOMAIN questions
    BY DEF Asked
  <2>2. questions[q] \in Question /\ answers[q] \in 1 .. 5
    BY <1>1, <2>1
  <2>3. questions[q].direction = 1 \/ questions[q].direction = -1
    BY <2>2 DEF Question
  <2>4. CASE questions[q].direction = 1
    BY <2>2, <2>4 DEF Toward, Points
  <2>5. CASE questions[q].direction = -1
    BY <2>2, <2>5 DEF Toward, Points
  <2> QED BY <2>3, <2>4, <2>5
<1> QED BY <1>2, <1>3, <1>4, FS_Subset, FS_CardinalityType DEF OnScale

LEMMA NormalizedIs ==
  ASSUME NEW questions, IsQuestionSet(questions), NEW answers \in [DOMAIN questions -> 1 .. 5],
         NEW axis \in Axes
  PROVE  LET score == Normalized(questions, answers, axis)
             leaning == Leaning(questions, answers, axis)
             asked == Asked(questions, axis)
         IN /\ score \in -Unit .. Unit
            /\ score > 0 <=> leaning > 0
            /\ score < 0 <=> leaning < 0
            /\ score = Unit <=> asked # {} /\ \A q \in asked : Toward(questions[q], answers[q]) = 5
            /\ score = -Unit <=> asked # {} /\ \A q \in asked : Toward(questions[q], answers[q]) = 1
<1> DEFINE A == Asked(questions, axis)
           c == Cardinality(A)
           l == LeanOf(questions, answers, A)
<1>1. IsFiniteSet(A) /\ c \in Nat /\ OnScale(questions, answers, A) /\ c <= 8
  BY AskedAreOnScale DEF IsQuestionSet, MaxAsked
<1>2. {q \in DOMAIN questions : questions[q].axis = axis /\ q \in DOMAIN answers} = A
  BY DEF Asked
<1>3. Leaning(questions, answers, axis) = l
  BY DEF Leaning, LeanOf, Strong, Asked
<1>4. LeanIsBounded(questions, answers, A)
  BY <1>1, LeanBounds
<1>5. MapThenSumSet(LAMBDA q : Points(questions[q], answers[q]), A) = l
  BY <1>1, AxisScoreIs
<1>6. Normalized(questions, answers, axis) = IF A = {} THEN 0 ELSE (l * Unit) \div (2 * c)
  BY <1>2, <1>5, Zenon DEF Normalized
<1>7. /\ l \in -2 * c .. 2 * c
      /\ l = 2 * c <=> \A q \in A : Toward(questions[q], answers[q]) = 5
      /\ l = -2 * c <=> \A q \in A : Toward(questions[q], answers[q]) = 1
  BY <1>4 DEF LeanIsBounded
<1>8. A = {} <=> c = 0
  BY <1>1, FS_EmptySet
<1> HIDE DEF A, c, l
<1>9. CASE A = {}
  <2>1. Normalized(questions, answers, axis) = 0 /\ l = 0
    BY <1>6, <1>7, <1>8, <1>9
  <2> QED BY <1>3, <1>9, <2>1 DEF A, Unit
<1>10. CASE A # {}
  <2>1. c \in 1 .. 8
    BY <1>1, <1>8, <1>10
  <2>2. /\ (l * Unit) \div (2 * c) \in -Unit .. Unit
        /\ (l * Unit) \div (2 * c) > 0 <=> l > 0
        /\ (l * Unit) \div (2 * c) < 0 <=> l < 0
        /\ (l * Unit) \div (2 * c) = Unit <=> l = 2 * c
        /\ (l * Unit) \div (2 * c) = -Unit <=> l = -2 * c
    BY <1>7, <2>1, NormalizedRange
  <2> DEFINE n == (l * Unit) \div (2 * c)
  <2>3. Normalized(questions, answers, axis) = n
    BY <1>6, <1>10
  <2> HIDE DEF n
  <2> QED BY <1>3, <1>7, <1>10, <2>2, <2>3 DEF A, n
<1> QED BY <1>9, <1>10

-----------------------------------------------------------------------------
(* The sixteen codes are the sixteen sets of axes, each once.               *)
Candidates == 1 .. 16

LEMMA CodesAre ==
  /\ Len(TypeCodes) = 16
  /\ \A i \in Candidates :
       /\ TypeCodes[i] \in AllTypes
       /\ "EI" \in TypeCodes[i] <=> i >= 9
       /\ "SN" \in TypeCodes[i] <=> i \in {1, 2, 5, 6, 9, 10, 13, 14}
       /\ "TF" \in TypeCodes[i] <=> i \in {1, 4, 5, 8, 9, 12, 13, 16}
       /\ "JP" \in TypeCodes[i] <=> i \in {1, 2, 3, 4, 13, 14, 15, 16}
<1>1. Len(TypeCodes) = 16
  BY DEF TypeCodes
<1>2. ASSUME NEW i \in Candidates
      PROVE  /\ TypeCodes[i] \in AllTypes
             /\ "EI" \in TypeCodes[i] <=> i >= 9
             /\ "SN" \in TypeCodes[i] <=> i \in {1, 2, 5, 6, 9, 10, 13, 14}
             /\ "TF" \in TypeCodes[i] <=> i \in {1, 4, 5, 8, 9, 12, 13, 16}
             /\ "JP" \in TypeCodes[i] <=> i \in {1, 2, 3, 4, 13, 14, 15, 16}
  <2>1. \/ i = 1 \/ i = 2 \/ i = 3 \/ i = 4 \/ i = 5 \/ i = 6 \/ i = 7 \/ i = 8
        \/ i = 9 \/ i = 10 \/ i = 11 \/ i = 12 \/ i = 13 \/ i = 14 \/ i = 15 \/ i = 16
    BY DEF Candidates
  <2>2. CASE i = 1
    BY <2>2 DEF TypeCodes, AllTypes, Axes, E, S, T, J
  <2>3. CASE i = 2
    BY <2>3 DEF TypeCodes, AllTypes, Axes, E, S, T, J
  <2>4. CASE i = 3
    BY <2>4 DEF TypeCodes, AllTypes, Axes, E, S, T, J
  <2>5. CASE i = 4
    BY <2>5 DEF TypeCodes, AllTypes, Axes, E, S, T, J
  <2>6. CASE i = 5
    BY <2>6 DEF TypeCodes, AllTypes, Axes, E, S, T, J
  <2>7. CASE i = 6
    BY <2>7 DEF TypeCodes, AllTypes, Axes, E, S, T, J
  <2>8. CASE i = 7
    BY <2>8 DEF TypeCodes, AllTypes, Axes, E, S, T, J
  <2>9. CASE i = 8
    BY <2>9 DEF TypeCodes, AllTypes, Axes, E, S, T, J
  <2>10. CASE i = 9
    BY <2>10 DEF TypeCodes, AllTypes, Axes, E, S, T, J
  <2>11. CASE i = 10
    BY <2>11 DEF TypeCodes, AllTypes, Axes, E, S, T, J
  <2>12. CASE i = 11
    BY <2>12 DEF TypeCodes, AllTypes, Axes, E, S, T, J
  <2>13. CASE i = 12
    BY <2>13 DEF TypeCodes, AllTypes, Axes, E, S, T, J
  <2>14. CASE i = 13
    BY <2>14 DEF TypeCodes, AllTypes, Axes, E, S, T, J
  <2>15. CASE i = 14
    BY <2>15 DEF TypeCodes, AllTypes, Axes, E, S, T, J
  <2>16. CASE i = 15
    BY <2>16 DEF TypeCodes, AllTypes, Axes, E, S, T, J
  <2>17. CASE i = 16
    BY <2>17 DEF TypeCodes, AllTypes, Axes, E, S, T, J
  <2> QED BY <2>1, <2>2, <2>3, <2>4, <2>5, <2>6, <2>7, <2>8, <2>9, <2>10, <2>11, <2>12, <2>13, <2>14, <2>15, <2>16, <2>17
<1> QED BY <1>1, <1>2

(* A type is its four letters.                                              *)
LEMMA SameType ==
  ASSUME NEW p \in AllTypes, NEW q \in AllTypes,
         "EI" \in p <=> "EI" \in q, "SN" \in p <=> "SN" \in q,
         "TF" \in p <=> "TF" \in q, "JP" \in p <=> "JP" \in q
  PROVE  p = q
<1>1. \A x \in p \cup q : x = "EI" \/ x = "SN" \/ x = "TF" \/ x = "JP"
  BY DEF AllTypes, Axes
<1>2. \A x : x \in p <=> x \in q
  BY <1>1
<1> QED BY <1>2

LEMMA CodesAreDistinct ==
  ASSUME NEW i \in Candidates, NEW k \in Candidates, i # k
  PROVE  TypeCodes[i] # TypeCodes[k]
BY CodesAre DEF Candidates

LEMMA CodesAreAll ==
  ASSUME NEW type \in AllTypes
  PROVE  \E i \in Candidates : TypeCodes[i] = type
<1>1. \E i \in Candidates :
        /\ "EI" \in type <=> i >= 9
        /\ "SN" \in type <=> i \in {1, 2, 5, 6, 9, 10, 13, 14}
        /\ "TF" \in type <=> i \in {1, 4, 5, 8, 9, 12, 13, 16}
        /\ "JP" \in type <=> i \in {1, 2, 3, 4, 13, 14, 15, 16}
  <2> DEFINE index ==
        IF "EI" \in type
        THEN IF "SN" \in type
             THEN IF "TF" \in type THEN (IF "JP" \in type THEN 13 ELSE 9)
                  ELSE (IF "JP" \in type THEN 14 ELSE 10)
             ELSE IF "TF" \in type THEN (IF "JP" \in type THEN 16 ELSE 12)
                  ELSE (IF "JP" \in type THEN 15 ELSE 11)
        ELSE IF "SN" \in type
             THEN IF "TF" \in type THEN (IF "JP" \in type THEN 1 ELSE 5)
                  ELSE (IF "JP" \in type THEN 2 ELSE 6)
             ELSE IF "TF" \in type THEN (IF "JP" \in type THEN 4 ELSE 8)
                  ELSE (IF "JP" \in type THEN 3 ELSE 7)
  <2>1. index \in Candidates
    BY DEF Candidates
  <2> QED BY <2>1
<1>2. PICK i \in Candidates :
        /\ "EI" \in type <=> i >= 9
        /\ "SN" \in type <=> i \in {1, 2, 5, 6, 9, 10, 13, 14}
        /\ "TF" \in type <=> i \in {1, 4, 5, 8, 9, 12, 13, 16}
        /\ "JP" \in type <=> i \in {1, 2, 3, 4, 13, 14, 15, 16}
  BY <1>1
<1>3. /\ TypeCodes[i] \in AllTypes
      /\ "EI" \in TypeCodes[i] <=> "EI" \in type
      /\ "SN" \in TypeCodes[i] <=> "SN" \in type
      /\ "TF" \in TypeCodes[i] <=> "TF" \in type
      /\ "JP" \in TypeCodes[i] <=> "JP" \in type
  BY <1>2, CodesAre
<1>4. TypeCodes[i] = type
  BY <1>3, SameType
<1> QED BY <1>4

-----------------------------------------------------------------------------
(* Of candidates ranked by score, and by place where scores are equal, the  *)
(* one with none, one or two before it is the first, second or third.       *)
IsBefore(score, k, i) == score[k] > score[i] \/ (score[k] = score[i] /\ k < i)
Preceding(score, i) == {k \in Candidates : IsBefore(score, k, i)}

(* Some candidate of a set comes before all others of it: by score, then by *)
(* place, which is one number.                                              *)
LEMMA FirstOf ==
  ASSUME NEW score \in [Candidates -> Int], NEW K \in SUBSET Candidates, K # {}
  PROVE  \E i \in K : \A k \in K : ~IsBefore(score, k, i)
<1> DEFINE Key(i) == 17 * score[i] - i
           Keys16 == {Key(i) : i \in K}
<1>1. \A i \in Candidates : i \in Int /\ i > 0 /\ i < 17 /\ score[i] \in Int
  BY DEF Candidates
<1>2. IsFiniteSet(K)
  <2>1. 1 \in Int /\ 16 \in Int
    OBVIOUS
  <2>2. IsFiniteSet(Candidates)
    BY <2>1, FS_Interval DEF Candidates
  <2> QED BY <2>2, FS_Subset
<1>3. Keys16 \in SUBSET Int /\ Keys16 # {}
  BY <1>1
<1>4. IsFiniteSet(Keys16)
  <2> DEFINE key == [i \in K |-> Key(i)]
  <2>1. key \in Surjection(K, Keys16)
    BY DEF Surjection
  <2> HIDE DEF key, Keys16
  <2> QED BY <1>2, <2>1, FS_Surjection
<1>5. PICK m \in Keys16 : \A n \in Keys16 : n <= m
  <2> HIDE DEF Keys16
  <2> QED BY <1>3, <1>4, FiniteMax
<1>6. PICK i \in K : m = Key(i)
  OBVIOUS
<1>7. ASSUME NEW k \in K PROVE ~IsBefore(score, k, i)
  <2>1. Key(k) <= Key(i)
    BY <1>5, <1>6
  <2>2. /\ i \in Int /\ i > 0 /\ i < 17 /\ score[i] \in Int
        /\ k \in Int /\ k > 0 /\ k < 17 /\ score[k] \in Int
    BY <1>1
  <2> QED BY <2>1, <2>2 DEF IsBefore
<1> QED BY <1>7

(* The three first candidates, and what comes before each.                  *)
LEMMA ThreeFirst ==
  ASSUME NEW score \in [Candidates -> Int]
  PROVE  \E a, b, c \in Candidates :
           /\ a # b /\ a # c /\ b # c
           /\ Preceding(score, a) = {} /\ Preceding(score, b) = {a} /\ Preceding(score, c) = {a, b}
           /\ \A i \in Candidates \ {a, b, c} : {a, b, c} \subseteq Preceding(score, i)
<1>1. \A i \in Candidates : i \in Int /\ score[i] \in Int
  BY DEF Candidates
<1>2. \A i, k \in Candidates : i # k => (IsBefore(score, i, k) <=> ~IsBefore(score, k, i))
  BY <1>1 DEF IsBefore
<1>3. \A i \in Candidates : ~IsBefore(score, i, i)
  BY <1>1 DEF IsBefore
<1>4. 1 \in Candidates /\ 2 \in Candidates /\ 3 \in Candidates
  BY DEF Candidates
<1>5. PICK a \in Candidates : \A k \in Candidates : ~IsBefore(score, k, a)
  BY <1>4, FirstOf
<1>6. PICK b \in Candidates \ {a} : \A k \in Candidates \ {a} : ~IsBefore(score, k, b)
  <2>1. Candidates \ {a} # {} /\ Candidates \ {a} \in SUBSET Candidates
    BY <1>4
  <2> QED BY <2>1, FirstOf
<1>7. PICK c \in Candidates \ {a, b} : \A k \in Candidates \ {a, b} : ~IsBefore(score, k, c)
  <2>1. Candidates \ {a, b} # {} /\ Candidates \ {a, b} \in SUBSET Candidates
    BY <1>4
  <2> QED BY <2>1, FirstOf
<1>8. Preceding(score, a) = {}
  BY <1>5 DEF Preceding
<1>9. Preceding(score, b) = {a}
  BY <1>2, <1>5, <1>6 DEF Preceding
<1>10. Preceding(score, c) = {a, b}
  BY <1>2, <1>5, <1>6, <1>7 DEF Preceding
<1>11. ASSUME NEW i \in Candidates \ {a, b, c} PROVE {a, b, c} \subseteq Preceding(score, i)
  BY <1>2, <1>5, <1>6, <1>7 DEF Preceding
<1> QED BY <1>6, <1>7, <1>8, <1>9, <1>10, <1>11

(* Ranked counts the candidates before each.                                *)
LEMMA RankedIs ==
  ASSUME NEW scores
  PROVE  LET score == [i \in Candidates |-> ScoreCandidate(TypeCodes[i], scores)]
         IN \A n : Ranked(scores, n)
                    = TypeCodes[CHOOSE i \in Candidates : Cardinality(Preceding(score, i)) = n]
<1> DEFINE score == [i \in Candidates |-> ScoreCandidate(TypeCodes[i], scores)]
<1>1. 1 .. Len(TypeCodes) = Candidates
  BY CodesAre DEF Candidates
<1>2. ASSUME NEW n
      PROVE  Ranked(scores, n)
               = TypeCodes[CHOOSE i \in Candidates : Cardinality(Preceding(score, i)) = n]
  BY <1>1, Zenon DEF Ranked, Preceding, IsBefore
<1> QED BY <1>2

(* The types of the first three ranks are distinct, the first scores        *)
(* highest, and no type left out scores more than the other two.            *)
LEMMA RankedAreFirst ==
  ASSUME NEW scores \in [Axes -> Int]
  PROVE  \E a, b, c \in Candidates :
           /\ a # b /\ a # c /\ b # c
           /\ Ranked(scores, 0) = TypeCodes[a] /\ Ranked(scores, 1) = TypeCodes[b]
           /\ Ranked(scores, 2) = TypeCodes[c]
           /\ \A type \in AllTypes : ScoreCandidate(type, scores) <= ScoreCandidate(TypeCodes[a], scores)
           /\ \A type \in AllTypes \ {TypeCodes[a], TypeCodes[b], TypeCodes[c]} :
                /\ ScoreCandidate(type, scores) <= ScoreCandidate(TypeCodes[b], scores)
                /\ ScoreCandidate(type, scores) <= ScoreCandidate(TypeCodes[c], scores)
<1> DEFINE score == [i \in Candidates |-> ScoreCandidate(TypeCodes[i], scores)]
           Size(i) == Cardinality(Preceding(score, i))
           Nth(n) == CHOOSE i \in Candidates : Size(i) = n
<1>1. score \in [Candidates -> Int] /\ \A i \in Candidates : score[i] = ScoreCandidate(TypeCodes[i], scores)
  <2>1. \A axis \in Axes : scores[axis] \in Int
    OBVIOUS
  <2>2. "EI" \in Axes /\ "SN" \in Axes /\ "TF" \in Axes /\ "JP" \in Axes
    BY DEF Axes
  <2>3. \A type : ScoreCandidate(type, scores) \in Int
    BY <2>1, <2>2, ScoreIs DEF Sign
  <2> QED BY <2>3
<1>2. \A n : Ranked(scores, n) = TypeCodes[Nth(n)]
  BY RankedIs
<1> HIDE DEF score
<1>3. PICK a, b, c \in Candidates :
        /\ a # b /\ a # c /\ b # c
        /\ Preceding(score, a) = {} /\ Preceding(score, b) = {a} /\ Preceding(score, c) = {a, b}
        /\ \A i \in Candidates \ {a, b, c} : {a, b, c} \subseteq Preceding(score, i)
  BY <1>1, ThreeFirst
<1>4. \A i \in Candidates : IsFiniteSet(Preceding(score, i)) /\ Size(i) \in Nat
  <2>1. 1 \in Int /\ 16 \in Int
    OBVIOUS
  <2>2. IsFiniteSet(Candidates)
    BY <2>1, FS_Interval DEF Candidates
  <2>3. \A i \in Candidates : Preceding(score, i) \in SUBSET Candidates
    BY DEF Preceding
  <2> QED BY <2>2, <2>3, FS_Subset, FS_CardinalityType
<1>5. /\ Cardinality({a}) = 1 /\ IsFiniteSet({a})
      /\ Cardinality({a, b}) = 2 /\ IsFiniteSet({a, b})
      /\ Cardinality({a, b, c}) = 3 /\ IsFiniteSet({a, b, c})
  <2>1. Cardinality({a}) = 1 /\ IsFiniteSet({a})
    BY FS_Singleton
  <2>2. IsFiniteSet({a} \cup {b}) /\ Cardinality({a} \cup {b}) = Cardinality({a}) + 1
    BY <1>3, <2>1, FS_AddElement
  <2>3. {a} \cup {b} = {a, b} /\ {a, b} \cup {c} = {a, b, c} /\ c \notin {a, b}
    BY <1>3
  <2>4. IsFiniteSet({a, b}) /\ Cardinality({a, b}) = 2
    BY <2>1, <2>2, <2>3
  <2>5. IsFiniteSet({a, b} \cup {c}) /\ Cardinality({a, b} \cup {c}) = Cardinality({a, b}) + 1
    BY <2>3, <2>4, FS_AddElement
  <2> QED BY <2>1, <2>3, <2>4, <2>5
<1>6. Size(a) = 0 /\ Size(b) = 1 /\ Size(c) = 2
  BY <1>3, <1>5, FS_EmptySet
<1>7. ASSUME NEW i \in Candidates \ {a, b, c} PROVE Size(i) >= 3
  <2>1. {a, b, c} \in SUBSET Preceding(score, i)
    BY <1>3
  <2>2. Cardinality({a, b, c}) <= Cardinality(Preceding(score, i))
    BY <1>4, <2>1, FS_Subset
  <2> QED BY <1>4, <1>5, <2>2
<1>8. \A i \in Candidates :
        /\ Size(i) = 0 <=> i = a
        /\ Size(i) = 1 <=> i = b
        /\ Size(i) = 2 <=> i = c
  <2>1. \A i \in Candidates : Size(i) \in Nat
    BY <1>4
  <2>2. \A i \in Candidates : i = a \/ i = b \/ i = c \/ Size(i) >= 3
    BY <1>7
  <2> HIDE DEF Size
  <2> QED BY <1>6, <2>1, <2>2
<1> HIDE DEF Size
<1>9. Nth(0) = a /\ Nth(1) = b /\ Nth(2) = c
  <2>1. Nth(0) \in Candidates /\ Size(Nth(0)) = 0
    BY <1>8, Zenon
  <2>2. Nth(1) \in Candidates /\ Size(Nth(1)) = 1
    BY <1>8, Zenon
  <2>3. Nth(2) \in Candidates /\ Size(Nth(2)) = 2
    BY <1>8, Zenon
  <2> HIDE DEF Nth
  <2> QED BY <1>8, <2>1, <2>2, <2>3
<1>10. ASSUME NEW i \in Candidates, NEW k \in Candidates, k \in Preceding(score, i)
       PROVE  ScoreCandidate(TypeCodes[i], scores) <= ScoreCandidate(TypeCodes[k], scores)
  <2>1. score[k] > score[i] \/ score[k] = score[i]
    BY <1>10 DEF Preceding, IsBefore
  <2> QED BY <1>1, <2>1
<1>11. \A i \in Candidates : ScoreCandidate(TypeCodes[i], scores) \in Int
  BY <1>1
<1>12. ASSUME NEW type \in AllTypes
       PROVE  ScoreCandidate(type, scores) <= ScoreCandidate(TypeCodes[a], scores)
  <2>1. PICK i \in Candidates : TypeCodes[i] = type
    BY CodesAreAll
  <2>2. i = a \/ a \in Preceding(score, i)
    BY <1>3
  <2> QED BY <1>10, <1>11, <2>1, <2>2
<1>13. ASSUME NEW type \in AllTypes \ {TypeCodes[a], TypeCodes[b], TypeCodes[c]}
       PROVE  /\ ScoreCandidate(type, scores) <= ScoreCandidate(TypeCodes[b], scores)
              /\ ScoreCandidate(type, scores) <= ScoreCandidate(TypeCodes[c], scores)
  <2>1. PICK i \in Candidates : TypeCodes[i] = type
    BY CodesAreAll
  <2>2. b \in Preceding(score, i) /\ c \in Preceding(score, i)
    BY <1>3, <1>13, <2>1
  <2> QED BY <1>10, <2>1, <2>2
<1>14. Ranked(scores, 0) = TypeCodes[a] /\ Ranked(scores, 1) = TypeCodes[b]
       /\ Ranked(scores, 2) = TypeCodes[c]
  BY <1>2, <1>9
<1> QED BY <1>3, <1>12, <1>13, <1>14

-----------------------------------------------------------------------------
(* A type gives up twice the score of an axis whose letter is the other one. *)
LEMMA FlippedAxis ==
  ASSUME NEW scores \in [Axes -> Int], NEW type \in AllTypes, NEW axis \in Axes,
         \A other \in AllTypes : ScoreCandidate(other, scores) <= ScoreCandidate(type, scores)
  PROVE  /\ scores[axis] > 0 => axis \in type
         /\ scores[axis] < 0 => axis \notin type
<1>1. "EI" \in Axes /\ "SN" \in Axes /\ "TF" \in Axes /\ "JP" \in Axes
  BY DEF Axes
<1>2. \A a \in Axes : scores[a] \in Int
  OBVIOUS
<1>3. axis = "EI" \/ axis = "SN" \/ axis = "TF" \/ axis = "JP"
  BY DEF Axes
<1>4. ASSUME NEW other \in AllTypes, \A a \in Axes : a # axis => (a \in other <=> a \in type),
             axis \in other <=> axis \notin type
      PROVE  Sign(axis, other) * scores[axis] <= Sign(axis, type) * scores[axis]
  <2>1. ScoreCandidate(other, scores) <= ScoreCandidate(type, scores)
    OBVIOUS
  <2>2. \A a \in Axes : a # axis => Sign(a, other) * scores[a] = Sign(a, type) * scores[a]
    BY <1>4 DEF Sign
  <2>3. \A a \in Axes : \A t : Sign(a, t) * scores[a] \in Int
    BY <1>2 DEF Sign
  <2> DEFINE P(a) == Sign(a, other) * scores[a]
             Q(a) == Sign(a, type) * scores[a]
  <2>4. P("EI") + P("SN") + P("TF") + P("JP") <= Q("EI") + Q("SN") + Q("TF") + Q("JP")
    BY <2>1, ScoreIs
  <2>5. \A a \in Axes : P(a) \in Int /\ Q(a) \in Int /\ (a # axis => P(a) = Q(a))
    BY <2>2, <2>3
  <2> HIDE DEF P, Q
  <2>6. P(axis) <= Q(axis)
    BY <1>1, <1>3, <2>4, <2>5
  <2> QED BY <2>6 DEF P, Q
<1>5. ASSUME scores[axis] > 0, axis \notin type PROVE FALSE
  <2>1. type \cup {axis} \in AllTypes
    BY DEF AllTypes
  <2>2. Sign(axis, type \cup {axis}) * scores[axis] <= Sign(axis, type) * scores[axis]
    BY <1>4, <1>5, <2>1
  <2>3. Sign(axis, type \cup {axis}) = 1 /\ Sign(axis, type) = -1
    BY <1>5 DEF Sign
  <2> QED BY <1>2, <1>5, <2>2, <2>3
<1>6. ASSUME scores[axis] < 0, axis \in type PROVE FALSE
  <2>1. type \ {axis} \in AllTypes
    BY DEF AllTypes
  <2>2. Sign(axis, type \ {axis}) * scores[axis] <= Sign(axis, type) * scores[axis]
    BY <1>4, <1>6, <2>1
  <2>3. Sign(axis, type \ {axis}) = -1 /\ Sign(axis, type) = 1
    BY <1>6 DEF Sign
  <2> QED BY <1>2, <1>6, <2>2, <2>3
<1> QED BY <1>5, <1>6

(* A confidence is within its bounds, and at the upper one only if each     *)
(* axis is.                                                                 *)
LEMMA ConfidenceIs ==
  ASSUME NEW scores \in [Axes -> -Unit .. Unit]
  PROVE  /\ Confidence(scores) \in Undecided .. Highest
         /\ Confidence(scores) = Highest <=> \A axis \in Axes : scores[axis] \in {Unit, -Unit}
<1> DEFINE sum == MapThenSumSet(LAMBDA axis : Magnitude(scores[axis]), Axes)
           rounded == Undecided + (4900 * sum + 2 * Unit) \div (4 * Unit)
<1>1. \A axis \in Axes :
        /\ Magnitude(scores[axis]) \in 0 .. Unit
        /\ Magnitude(scores[axis]) = Unit <=> scores[axis] \in {Unit, -Unit}
  <2>1. ASSUME NEW axis \in Axes
        PROVE  /\ Magnitude(scores[axis]) \in 0 .. Unit
               /\ Magnitude(scores[axis]) = Unit <=> scores[axis] \in {Unit, -Unit}
    <3> DEFINE n == scores[axis]
    <3>1. n \in -Unit .. Unit
      OBVIOUS
    <3> HIDE DEF n
    <3>2. /\ Magnitude(n) \in 0 .. Unit
          /\ Magnitude(n) = Unit <=> n = Unit \/ n = -Unit
      BY <3>1 DEF Magnitude, Unit
    <3> QED BY <3>2 DEF n
  <2> QED BY <2>1
<1>2. sum = Magnitude(scores["EI"]) + Magnitude(scores["SN"]) + Magnitude(scores["TF"])
            + Magnitude(scores["JP"])
  <2>1. -Unit .. Unit \subseteq Int
    OBVIOUS
  <2>2. scores \in [Axes -> Int]
    BY <2>1
  <2> QED BY <2>2, MagnitudesAre
<1>3. Axes = {"EI", "SN", "TF", "JP"}
  BY DEF Axes
<1>6. Confidence(scores) = Min({Highest, rounded})
  BY DEF Confidence
<1> HIDE DEF sum
<1>4. sum \in 0 .. 4 * Unit
      /\ (sum = 4 * Unit <=> \A axis \in Axes : Magnitude(scores[axis]) = Unit)
  <2> DEFINE M(axis) == Magnitude(scores[axis])
  <2>1. \A axis \in Axes : M(axis) \in 0 .. Unit
    BY <1>1
  <2>2. "EI" \in Axes /\ "SN" \in Axes /\ "TF" \in Axes /\ "JP" \in Axes
    BY <1>3
  <2>3. M("EI") \in 0 .. Unit /\ M("SN") \in 0 .. Unit /\ M("TF") \in 0 .. Unit /\ M("JP") \in 0 .. Unit
    BY <2>1, <2>2
  <2>4. (\A axis \in Axes : M(axis) = Unit)
          <=> M("EI") = Unit /\ M("SN") = Unit /\ M("TF") = Unit /\ M("JP") = Unit
    BY <1>3
  <2>5. sum = M("EI") + M("SN") + M("TF") + M("JP")
    BY <1>2
  <2> DEFINE e == M("EI")
             n == M("SN")
             f == M("TF")
             p == M("JP")
  <2> HIDE DEF M
  <2>6. sum \in 0 .. 4 * Unit
        /\ (sum = 4 * Unit <=> M("EI") = Unit /\ M("SN") = Unit /\ M("TF") = Unit /\ M("JP") = Unit)
    <3>1. e \in 0 .. Unit /\ n \in 0 .. Unit /\ f \in 0 .. Unit /\ p \in 0 .. Unit
          /\ sum = e + n + f + p
      BY <2>3, <2>5
    <3> HIDE DEF e, n, f, p
    <3>2. sum \in 0 .. 4 * Unit /\ (sum = 4 * Unit <=> e = Unit /\ n = Unit /\ f = Unit /\ p = Unit)
      BY <3>1 DEF Unit
    <3> QED BY <3>2 DEF e, n, f, p
  <2> QED BY <2>4, <2>6 DEF M
<1>5. rounded \in Undecided .. Highest /\ (rounded = Highest <=> sum = 4 * Unit)
  BY <1>4 DEF Unit, Undecided, Highest
<1> HIDE DEF rounded
<1>7. Min({Highest, rounded}) = rounded
  <2>1. rounded \in {Highest, rounded} /\ \A y \in {Highest, rounded} : rounded <= y
    BY <1>5 DEF Highest, Undecided
  <2>2. ASSUME NEW x \in {Highest, rounded}, \A y \in {Highest, rounded} : x <= y PROVE x = rounded
    <3>1. rounded \in Int /\ Highest \in Int /\ rounded <= Highest
      BY <1>5 DEF Highest, Undecided
    <3>2. x <= rounded /\ (x = Highest \/ x = rounded)
      BY <2>2
    <3> QED BY <3>1, <3>2
  <2> QED BY <2>1, <2>2 DEF Min
<1> QED BY <1>1, <1>4, <1>5, <1>6, <1>7

LEMMA AxisOfQuestion ==
  ASSUME NEW questions, IsQuestionSet(questions), NEW q \in DOMAIN questions
  PROVE  questions[q].axis \in Axes
<1>1. questions \in Seq(Question)
  BY DEF IsQuestionSet
<1>2. questions[q] \in Question
  BY <1>1
<1> QED BY <1>2 DEF Question

(* Every axis is at its bound exactly when all are asked about and all      *)
(* answers are full to the side of their axis.                              *)
LEMMA FullIffHighest ==
  ASSUME NEW questions, IsQuestionSet(questions), NEW answers \in [DOMAIN questions -> 1 .. 5]
  PROVE  (\A axis \in Axes : Normalized(questions, answers, axis) \in {Unit, -Unit})
         <=> /\ \A axis \in Axes : \E q \in DOMAIN questions : questions[q].axis = axis
             /\ \A q \in DOMAIN questions :
                  Toward(questions[q], answers[q])
                    = IF Leaning(questions, answers, questions[q].axis) > 0 THEN 5 ELSE 1
<1> DEFINE score(axis) == Normalized(questions, answers, axis)
           lean(axis) == Leaning(questions, answers, axis)
           toward(q) == Toward(questions[q], answers[q])
           asked(axis) == Asked(questions, axis)
<1>1. \A axis \in Axes :
        /\ score(axis) > 0 <=> lean(axis) > 0
        /\ score(axis) < 0 <=> lean(axis) < 0
        /\ score(axis) = Unit <=> asked(axis) # {} /\ \A q \in asked(axis) : toward(q) = 5
        /\ score(axis) = -Unit <=> asked(axis) # {} /\ \A q \in asked(axis) : toward(q) = 1
  BY NormalizedIs
<1>2. \A axis : \A q : q \in asked(axis) <=> q \in DOMAIN questions /\ questions[q].axis = axis
  BY DEF Asked
<1>3. \A q \in DOMAIN questions : questions[q].axis \in Axes
  BY AxisOfQuestion
<1> HIDE DEF score, lean, toward, asked
<1>4. ASSUME \A axis \in Axes : score(axis) \in {Unit, -Unit}
      PROVE  /\ \A axis \in Axes : \E q \in DOMAIN questions : questions[q].axis = axis
             /\ \A q \in DOMAIN questions :
                  toward(q) = IF lean(questions[q].axis) > 0 THEN 5 ELSE 1
  <2>1. ASSUME NEW axis \in Axes PROVE \E q \in DOMAIN questions : questions[q].axis = axis
    <3>1. asked(axis) # {}
      BY <1>1, <1>4
    <3> QED BY <1>2, <3>1
  <2>2. ASSUME NEW q \in DOMAIN questions
        PROVE  toward(q) = IF lean(questions[q].axis) > 0 THEN 5 ELSE 1
    <3>1. PICK axis \in Axes : axis = questions[q].axis
      BY <1>3
    <3>2. q \in asked(axis)
      BY <1>2, <3>1
    <3>3. CASE score(axis) = Unit
      <4>1. lean(axis) > 0
        BY <1>1, <3>3 DEF Unit
      <4>2. toward(q) = 5
        BY <1>1, <3>2, <3>3
      <4> QED BY <3>1, <4>1, <4>2
    <3>4. CASE score(axis) = -Unit
      <4>1. ~(lean(axis) > 0)
        <5>1. ~(score(axis) > 0)
          BY <3>4 DEF Unit
        <5> QED BY <1>1, <5>1
      <4>2. toward(q) = 1
        BY <1>1, <3>2, <3>4
      <4> QED BY <3>1, <4>1, <4>2
    <3> QED BY <1>4, <3>3, <3>4
  <2> QED BY <2>1, <2>2
<1>5. ASSUME \A axis \in Axes : \E q \in DOMAIN questions : questions[q].axis = axis,
             \A q \in DOMAIN questions :
               toward(q) = IF lean(questions[q].axis) > 0 THEN 5 ELSE 1,
             NEW axis \in Axes
      PROVE  score(axis) \in {Unit, -Unit}
  <2>1. asked(axis) # {}
    BY <1>2, <1>5
  <2>2. \A q \in asked(axis) : toward(q) = IF lean(axis) > 0 THEN 5 ELSE 1
    BY <1>2, <1>5
  <2>3. CASE lean(axis) > 0
    <3>1. score(axis) = Unit
      BY <1>1, <2>1, <2>2, <2>3
    <3> QED BY <3>1
  <2>4. CASE ~(lean(axis) > 0)
    <3>1. score(axis) = -Unit
      BY <1>1, <2>1, <2>2, <2>4
    <3> QED BY <3>1
  <2> QED BY <2>3, <2>4
<1>6. (\A axis \in Axes : score(axis) \in {Unit, -Unit})
      <=> /\ \A axis \in Axes : \E q \in DOMAIN questions : questions[q].axis = axis
          /\ \A q \in DOMAIN questions :
               toward(q) = IF lean(questions[q].axis) > 0 THEN 5 ELSE 1
  BY <1>4, <1>5
<1> QED BY <1>6 DEF score, lean, toward

FinderHolds(questions, answers) ==
  LET result == ScoreAttempt(questions, answers)
      leaning == [axis \in Axes |-> Leaning(questions, answers, axis)]
  IN /\ LettersFollow(result.predicted, leaning)
     /\ AlternativesAreNext(result, AxisScores(questions, answers))
     /\ result.confidence \in Undecided .. Highest
     /\ result.confidence = Highest <=> AnswersAreFull(questions, answers, leaning)

(* The result follows the answers.                                          *)
LEMMA FinderFollows ==
  ASSUME NEW questions, IsQuestionSet(questions), NEW answers \in [DOMAIN questions -> 1 .. 5]
  PROVE  FinderHolds(questions, answers)
<1> DEFINE result == ScoreAttempt(questions, answers)
           scores == AxisScores(questions, answers)
           leaning == [axis \in Axes |-> Leaning(questions, answers, axis)]
           others == AllTypes \ {result.predicted}
<1>1. /\ scores \in [Axes -> -Unit .. Unit] /\ scores \in [Axes -> Int]
      /\ \A axis \in Axes : scores[axis] = Normalized(questions, answers, axis)
  <2>1. \A axis \in Axes : Normalized(questions, answers, axis) \in -Unit .. Unit
    BY NormalizedIs
  <2>2. -Unit .. Unit \subseteq Int
    OBVIOUS
  <2>3. scores \in [Axes -> -Unit .. Unit]
    BY <2>1 DEF AxisScores
  <2> QED BY <2>2, <2>3 DEF AxisScores
<1>2. /\ result.predicted = Ranked(scores, 0)
      /\ result.alternatives = <<Ranked(scores, 1), Ranked(scores, 2)>>
      /\ result.confidence = Confidence(scores)
  BY DEF ScoreAttempt
<1> HIDE DEF scores, result
<1>3. PICK a, b, c \in Candidates :
        /\ a # b /\ a # c /\ b # c
        /\ Ranked(scores, 0) = TypeCodes[a] /\ Ranked(scores, 1) = TypeCodes[b]
        /\ Ranked(scores, 2) = TypeCodes[c]
        /\ \A type \in AllTypes : ScoreCandidate(type, scores) <= ScoreCandidate(TypeCodes[a], scores)
        /\ \A type \in AllTypes \ {TypeCodes[a], TypeCodes[b], TypeCodes[c]} :
             /\ ScoreCandidate(type, scores) <= ScoreCandidate(TypeCodes[b], scores)
             /\ ScoreCandidate(type, scores) <= ScoreCandidate(TypeCodes[c], scores)
  BY <1>1, RankedAreFirst
<1> DEFINE p == TypeCodes[a]
           q1 == TypeCodes[b]
           q2 == TypeCodes[c]
<1>4. p \in AllTypes /\ q1 \in AllTypes /\ q2 \in AllTypes /\ p # q1 /\ p # q2 /\ q1 # q2
  BY <1>3, CodesAre, CodesAreDistinct
<1>5. result.predicted = p /\ result.alternatives = <<q1, q2>> /\ others = AllTypes \ {p}
      /\ ToSet(result.alternatives) = {q1, q2}
  <2>1. ToSet(<<q1, q2>>) = {q1, q2}
    <3>1. DOMAIN <<q1, q2>> = {1, 2} /\ <<q1, q2>>[1] = q1 /\ <<q1, q2>>[2] = q2
      OBVIOUS
    <3> QED BY <3>1 DEF ToSet
  <2> QED BY <1>2, <1>3, <2>1
<1>6. \A type \in AllTypes : ScoreCandidate(type, scores) <= ScoreCandidate(p, scores)
  BY <1>3
<1>7. \A type \in AllTypes \ {p, q1, q2} :
        /\ ScoreCandidate(type, scores) <= ScoreCandidate(q1, scores)
        /\ ScoreCandidate(type, scores) <= ScoreCandidate(q2, scores)
  BY <1>3
<1> HIDE DEF p, q1, q2
<1>8. \A type : ScoreCandidate(type, scores) \in Int
  <2>1. \A axis \in Axes : scores[axis] \in Int
    BY <1>1
  <2>2. "EI" \in Axes /\ "SN" \in Axes /\ "TF" \in Axes /\ "JP" \in Axes
    BY DEF Axes
  <2> QED BY <1>1, <2>1, <2>2, ScoreIs DEF Sign
<1>9. ASSUME NEW axis \in Axes
      PROVE  /\ leaning[axis] > 0 => axis \in result.predicted
             /\ leaning[axis] < 0 => axis \notin result.predicted
  <2>1. /\ scores[axis] > 0 => axis \in p
        /\ scores[axis] < 0 => axis \notin p
    BY <1>1, <1>4, <1>6, FlippedAxis
  <2>2. /\ scores[axis] > 0 <=> leaning[axis] > 0
        /\ scores[axis] < 0 <=> leaning[axis] < 0
    BY <1>1, NormalizedIs
  <2> QED BY <1>5, <2>1, <2>2
<1>10. ASSUME NEW type \in others \ ToSet(result.alternatives), NEW k \in 1 .. 2
       PROVE  ScoreCandidate(type, scores) <= ScoreCandidate(result.alternatives[k], scores)
  <2>1. type \in AllTypes \ {p, q1, q2}
    BY <1>5
  <2> QED BY <1>5, <1>7, <2>1
<1>11. Cardinality(ToSet(result.alternatives) \cap others) = 2
  <2>1. ToSet(result.alternatives) \cap others = {q1} \cup {q2}
    BY <1>4, <1>5
  <2>2. Cardinality({q1}) = 1 /\ IsFiniteSet({q1})
    BY FS_Singleton
  <2>3. Cardinality({q1} \cup {q2}) = Cardinality({q1}) + 1
    BY <1>4, <2>2, FS_AddElement
  <2> QED BY <2>1, <2>2, <2>3
<1>12. result.confidence \in Undecided .. Highest
       /\ (result.confidence = Highest <=> \A axis \in Axes : scores[axis] \in {Unit, -Unit})
  BY <1>1, <1>2, ConfidenceIs
<1>13. (\A axis \in Axes : scores[axis] \in {Unit, -Unit})
         <=> /\ \A axis \in Axes : \E q \in DOMAIN questions : questions[q].axis = axis
             /\ \A q \in DOMAIN questions :
                  Toward(questions[q], answers[q])
                    = IF leaning[questions[q].axis] > 0 THEN 5 ELSE 1
  <2>1. \A q \in DOMAIN questions :
          leaning[questions[q].axis] = Leaning(questions, answers, questions[q].axis)
    BY AxisOfQuestion
  <2>2. (\A axis \in Axes : scores[axis] \in {Unit, -Unit})
          <=> \A axis \in Axes : Normalized(questions, answers, axis) \in {Unit, -Unit}
    BY <1>1
  <2> HIDE DEF leaning
  <2> QED BY <2>1, <2>2, FullIffHighest
<1>14. LettersFollow(result.predicted, leaning)
  <2> HIDE DEF leaning
  <2> QED BY <1>9 DEF LettersFollow
<1>15. AlternativesAreNext(result, scores)
  BY <1>10, <1>11 DEF AlternativesAreNext
<1>16. (\A axis \in Axes : scores[axis] \in {Unit, -Unit}) <=> AnswersAreFull(questions, answers, leaning)
  <2> HIDE DEF leaning
  <2> QED BY <1>13 DEF AnswersAreFull
<1>17. result.confidence \in Undecided .. Highest
       /\ (result.confidence = Highest <=> AnswersAreFull(questions, answers, leaning))
  <2> HIDE DEF leaning
  <2> QED BY <1>12, <1>16
<1> QED BY <1>14, <1>15, <1>17 DEF FinderHolds, result, scores

(* The finder follows the answers, for every question set of at most eight  *)
(* questions on an axis and all answers to it.                              *)
THEOREM FinderIsFaithful == AnswersSpec => []FinderFollowsTheAnswers
<1>1. ASSUME InputIsGiven, input.kind = "finder" PROVE FinderHolds(input.questions, input.answers)
  BY <1>1, FinderFollows DEF InputIsGiven
<1>2. InputIsGiven => FinderFollowsTheAnswers
  <2> SUFFICES ASSUME InputIsGiven PROVE FinderFollowsTheAnswers
    OBVIOUS
  <2>1. FinderFollowsTheAnswers <=> (input.kind = "finder" => FinderHolds(input.questions, input.answers))
    BY Zenon DEF FinderFollowsTheAnswers, FinderHolds
  <2> QED BY <1>1, <2>1
<1> QED BY <1>2, AnswersInvariance, PTL

-----------------------------------------------------------------------------
(* Answers: streaks.                                                        *)

-----------------------------------------------------------------------------
(* Steps of seven days from s down to a first day, within a set of days.    *)
Sevens(A, first, s) ==
  {m \in first .. s : (s - m) % 7 = 0 /\ \A n \in m .. s : (s - n) % 7 = 0 => n \in A}

IsRun(run, A, first) ==
  run = [s \in Int |-> IF s >= first /\ s \in A THEN 1 + run[s - 7] ELSE 0]

(* Weeks in a row, one week at a time.                                      *)
LEMMA SevensStep ==
  ASSUME NEW A, NEW first \in Int, NEW s \in Int
  PROVE  /\ Cardinality(Sevens(A, first, s)) \in Nat
         /\ Cardinality(Sevens(A, first, s))
              = IF s >= first /\ s \in A THEN 1 + Cardinality(Sevens(A, first, s - 7)) ELSE 0
<1>1. IsFiniteSet(Sevens(A, first, s)) /\ Cardinality(Sevens(A, first, s)) \in Nat
  BY IntervalIsFinite DEF Sevens
<1>2. CASE s >= first /\ s \in A
  <2> DEFINE before == Sevens(A, first, s - 7)
  <2>1. IsFiniteSet(before)
    <3>1. before \subseteq first .. s - 7 /\ s - 7 \in Int
      BY DEF Sevens
    <3> QED BY <3>1, IntervalIsFinite
  <2>2. s \notin before
    BY DEF Sevens
  <2>3. ASSUME NEW m \in before PROVE m \in Sevens(A, first, s)
    <3>1. m \in first .. s - 7 /\ (s - 7 - m) % 7 = 0
          /\ \A n \in m .. s - 7 : (s - 7 - n) % 7 = 0 => n \in A
      BY DEF Sevens
    <3>2. m \in first .. s /\ (s - m) % 7 = 0
      BY <3>1
    <3>3. ASSUME NEW n \in m .. s, (s - n) % 7 = 0 PROVE n \in A
      <4>1. n = s \/ (n <= s - 7 /\ (s - 7 - n) % 7 = 0)
        BY <3>2, <3>3
      <4> QED BY <1>2, <3>1, <3>2, <3>3, <4>1
    <3> QED BY <3>2, <3>3 DEF Sevens
  <2>4. s \in Sevens(A, first, s)
    <3>1. s \in first .. s /\ (s - s) % 7 = 0 /\ \A n \in s .. s : n = s
      BY <1>2
    <3> QED BY <1>2, <3>1 DEF Sevens
  <2>5. ASSUME NEW m \in Sevens(A, first, s), m # s PROVE m \in before
    <3>1. m \in first .. s /\ (s - m) % 7 = 0 /\ \A n \in m .. s : (s - n) % 7 = 0 => n \in A
      BY DEF Sevens
    <3>2. m \in first .. s - 7 /\ (s - 7 - m) % 7 = 0
      BY <2>5, <3>1
    <3>3. ASSUME NEW n \in m .. s - 7, (s - 7 - n) % 7 = 0 PROVE n \in A
      <4>1. n \in m .. s /\ (s - n) % 7 = 0
        BY <3>2, <3>3
      <4> QED BY <3>1, <4>1
    <3> QED BY <3>2, <3>3 DEF Sevens
  <2>6. Sevens(A, first, s) = before \cup {s}
    BY <2>3, <2>4, <2>5
  <2>7. Cardinality(before) \in Nat /\ Cardinality(before \cup {s}) = Cardinality(before) + 1
    BY <2>1, <2>2, FS_AddElement, FS_CardinalityType
  <2> QED BY <1>1, <1>2, <2>6, <2>7
<1>3. CASE ~(s >= first /\ s \in A)
  <2>1. ASSUME NEW m \in Sevens(A, first, s) PROVE FALSE
    <3>1. m \in first .. s /\ \A n \in m .. s : (s - n) % 7 = 0 => n \in A
      BY DEF Sevens
    <3>2. s \in m .. s /\ (s - s) % 7 = 0
      BY <3>1
    <3> QED BY <1>3, <3>1, <3>2
  <2>2. Sevens(A, first, s) = {}
    BY <2>1
  <2> QED BY <1>3, <2>2, FS_EmptySet
<1> QED BY <1>1, <1>2, <1>3

(* The recursion over weeks has a solution, the count of weeks in a row,    *)
(* ...                                                                      *)
LEMMA RunExists ==
  ASSUME NEW A, NEW first \in Int
  PROVE  \E run : IsRun(run, A, first)
<1> DEFINE run == [s \in Int |-> Cardinality(Sevens(A, first, s))]
<1>1. \A s \in Int : s - 7 \in Int
  OBVIOUS
<1>2. \A s \in Int : run[s] = IF s >= first /\ s \in A THEN 1 + run[s - 7] ELSE 0
  BY <1>1, SevensStep
<1>3. run = [s \in Int |-> run[s]]
  OBVIOUS
<1>4. IsRun(run, A, first)
  <2> HIDE DEF run
  <2> QED BY <1>2, <1>3 DEF IsRun
<1> QED BY <1>4

(* ... and every solution is that count, from the first week on by          *)
(* induction.                                                               *)
LEMMA RunCounts ==
  ASSUME NEW A, NEW first \in Int, NEW run, IsRun(run, A, first), NEW t \in Int
  PROVE  run[t] = Cardinality(Sevens(A, first, t))
<1>1. \A s \in Int : run[s] = IF s >= first /\ s \in A THEN 1 + run[s - 7] ELSE 0
  BY DEF IsRun
<1> DEFINE Wrong == {k \in Nat : run[first + k] # Cardinality(Sevens(A, first, first + k))}
<1>2. ASSUME NEW s \in Int, s < first PROVE run[s] = Cardinality(Sevens(A, first, s))
  BY <1>1, <1>2, SevensStep
<1>3. ASSUME Wrong # {} PROVE FALSE
  <2>1. PICK k \in Wrong : \A m \in Wrong : k <= m
    BY <1>3, NatMin
  <2> DEFINE s == first + k
  <2>2. s \in Int /\ s - 7 \in Int /\ k \in Nat
    OBVIOUS
  <2>3. run[s - 7] = Cardinality(Sevens(A, first, s - 7))
    <3>1. CASE k < 7
      BY <1>2, <2>2, <3>1
    <3>2. CASE k >= 7
      <4>1. k - 7 \in Nat /\ k - 7 \notin Wrong /\ s - 7 = first + (k - 7)
        BY <2>1, <2>2, <3>2
      <4> QED BY <4>1
    <3> QED BY <2>2, <3>1, <3>2
  <2>4. run[s] = Cardinality(Sevens(A, first, s))
    <3> HIDE DEF s
    <3> QED BY <1>1, <2>2, <2>3, SevensStep
  <2> QED BY <2>4
<1>4. CASE t < first
  BY <1>2, <1>4
<1>5. CASE t >= first
  <2>1. t - first \in Nat /\ t = first + (t - first)
    BY <1>5
  <2> QED BY <1>3, <2>1
<1> QED BY <1>4, <1>5
-----------------------------------------------------------------------------
(* The week of a date is the one that begins on the Monday before it.       *)
LEMMA MondayIsStart ==
  ASSUME NEW d \in Int
  PROVE  /\ Monday(d) = StartOfWeek(d) /\ Monday(d) \in d - 6 .. d /\ Monday(d) % 7 = 1
         /\ \A m \in Int : m % 7 = 1 => (Monday(d) = m <=> d \in m .. m + 6)
<1>1. StartOfWeek(d) \in d - 6 .. d /\ StartOfWeek(d) % 7 = 1
  BY DEF StartOfWeek, DayOfWeek
<1>2. \A m, n \in d - 6 .. d : m % 7 = 1 /\ n % 7 = 1 => m = n
  OBVIOUS
<1>3. Monday(d) \in d - 6 .. d /\ Monday(d) % 7 = 1
  BY <1>1 DEF Monday
<1>4. ASSUME NEW m \in Int, m % 7 = 1 PROVE Monday(d) = m <=> d \in m .. m + 6
  <2>1. d \in m .. m + 6 <=> m \in d - 6 .. d
    OBVIOUS
  <2> QED BY <1>2, <1>3, <1>4, <2>1
<1> QED BY <1>1, <1>2, <1>3, <1>4

(* What is counted of a week is what the reference counts.                  *)
LEMMA WeeksAgree ==
  ASSUME NEW tasks, DOMAIN tasks \subseteq Int, NEW m \in Int, m % 7 = 1
  PROVE  WeekDone(tasks, m) = CountWeek(tasks, m)
<1>1. \A d \in Int : Monday(d) = m <=> d \in m .. m + 6
  BY MondayIsStart
<1>2. {d \in DOMAIN tasks : Monday(d) = m /\ "DONE" \in tasks[d]} = {d \in m .. m + 6 : HasDone(tasks, d)}
  BY <1>1 DEF HasDone
<1> QED BY <1>2 DEF WeekDone, CountWeek

(* The weeks counted backward are those achieved in a row, with this week   *)
(* or without it.                                                           *)
LEMMA WeeklyStreak ==
  ASSUME NEW routine \in RoutineRow, NEW tasks, DOMAIN tasks \subseteq Int, NEW today \in Int
  PROVE  SummarizeWeeks(routine, tasks, today).streak
           = Cardinality(UnbrokenWeeks(routine, tasks, today))
<1> DEFINE thisWeek == StartOfWeek(today)
           firstWeek == StartOfWeek(routine.created)
           Achieved(start) == CountWeek(tasks, start) >= routine.timesPerWeek
           A == {start \in Int : Achieved(start)}
           Equation(run) == run = [start \in Int |->
                                IF start >= firstWeek /\ Achieved(start) THEN 1 + run[start - 7] ELSE 0]
           run == CHOOSE f : Equation(f)
           before == Sevens(A, firstWeek, thisWeek - 7)
           unbroken == UnbrokenWeeks(routine, tasks, today)
<1>1. SummarizeWeeks(routine, tasks, today).streak
        = (IF Achieved(thisWeek) THEN 1 ELSE 0) + run[thisWeek - 7]
  BY DEF SummarizeWeeks
<1>2. /\ thisWeek = Monday(today) /\ firstWeek = Monday(routine.created)
      /\ thisWeek \in Int /\ firstWeek \in Int /\ thisWeek % 7 = 1 /\ firstWeek % 7 = 1
      /\ thisWeek <= today /\ today <= thisWeek + 6
  <2>1. routine.created \in Int
    BY DEF RoutineRow
  <2>2. thisWeek = Monday(today) /\ Monday(today) \in today - 6 .. today /\ Monday(today) % 7 = 1
    BY MondayIsStart
  <2>3. /\ firstWeek = Monday(routine.created) /\ Monday(routine.created) % 7 = 1
        /\ Monday(routine.created) \in routine.created - 6 .. routine.created
    BY <2>1, MondayIsStart
  <2> HIDE DEF thisWeek, firstWeek
  <2> QED BY <2>1, <2>2, <2>3
<1>3. \A f : Equation(f) <=> IsRun(f, A, firstWeek)
  <2>1. ASSUME NEW f
        PROVE  [start \in Int |-> IF start >= firstWeek /\ Achieved(start) THEN 1 + f[start - 7] ELSE 0]
                 = [start \in Int |-> IF start >= firstWeek /\ start \in A THEN 1 + f[start - 7] ELSE 0]
    OBVIOUS
  <2> QED BY <2>1 DEF IsRun
<1> HIDE DEF Equation, thisWeek, firstWeek
<1>4. IsRun(run, A, firstWeek)
  BY <1>2, <1>3, RunExists
<1>5. run[thisWeek - 7] = Cardinality(before)
  <2> HIDE DEF run
  <2> QED BY <1>2, <1>4, RunCounts
<1>6. ASSUME NEW m \in Int, m % 7 = 1 PROVE WeekDone(tasks, m) >= routine.timesPerWeek <=> m \in A
  BY <1>6, WeeksAgree
<1> HIDE DEF run, A, Achieved
<1>7. \A m \in unbroken : m \in Int
  BY <1>2 DEF UnbrokenWeeks, RoutineRow
<1>8. ASSUME NEW m \in Int, m # thisWeek PROVE m \in unbroken <=> m \in before
  <2>1. ASSUME m \in unbroken PROVE m \in before
    <3>1. /\ m \in firstWeek .. today /\ m % 7 = 1 /\ m \in A
          /\ \A n \in m .. thisWeek - 1 : n % 7 = 1 => WeekDone(tasks, n) >= routine.timesPerWeek
      BY <1>2, <1>6, <1>8, <2>1 DEF UnbrokenWeeks
    <3>2. m \in firstWeek .. thisWeek - 7 /\ (thisWeek - 7 - m) % 7 = 0
      BY <1>2, <1>8, <3>1
    <3>3. ASSUME NEW n \in m .. thisWeek - 7, (thisWeek - 7 - n) % 7 = 0 PROVE n \in A
      <4>1. n \in Int /\ n \in m .. thisWeek - 1 /\ n % 7 = 1
        BY <1>2, <3>2, <3>3
      <4> QED BY <1>6, <3>1, <4>1
    <3> QED BY <3>2, <3>3 DEF Sevens
  <2>2. ASSUME m \in before PROVE m \in unbroken
    <3>1. /\ m \in firstWeek .. thisWeek - 7 /\ (thisWeek - 7 - m) % 7 = 0
          /\ \A n \in m .. thisWeek - 7 : (thisWeek - 7 - n) % 7 = 0 => n \in A
      BY <2>2 DEF Sevens
    <3>2. m % 7 = 1 /\ m \in firstWeek .. today /\ m \in m .. thisWeek - 7
      BY <1>2, <3>1
    <3>3. m \in A
      BY <3>1, <3>2
    <3>4. ASSUME NEW n \in m .. thisWeek - 1, n % 7 = 1 PROVE WeekDone(tasks, n) >= routine.timesPerWeek
      <4>1. n \in Int /\ n \in m .. thisWeek - 7 /\ (thisWeek - 7 - n) % 7 = 0
        BY <1>2, <3>1, <3>4
      <4> QED BY <1>6, <3>1, <3>4, <4>1
    <3> QED BY <1>2, <1>6, <3>2, <3>3, <3>4 DEF UnbrokenWeeks
  <2> QED BY <2>1, <2>2
<1>9. thisWeek \in unbroken <=> thisWeek \in A
  <2>1. \A n \in thisWeek .. thisWeek - 1 : FALSE
    BY <1>2
  <2> QED BY <1>2, <1>6, <2>1 DEF UnbrokenWeeks
<1>10. thisWeek \notin before /\ IsFiniteSet(before) /\ Cardinality(before) \in Nat
  <2>1. before \subseteq firstWeek .. thisWeek - 7 /\ thisWeek - 7 \in Int
    BY <1>2 DEF Sevens
  <2>2. thisWeek \notin firstWeek .. thisWeek - 7
    BY <1>2
  <2> QED BY <1>2, <2>1, <2>2, IntervalIsFinite
<1>11. \A m \in before : m \in Int
  BY <1>2 DEF Sevens
<1> HIDE DEF before, unbroken
<1>12. thisWeek \in A <=> Achieved(thisWeek)
  BY <1>2 DEF A
<1>13. CASE Achieved(thisWeek)
  <2>1. unbroken = before \cup {thisWeek}
    BY <1>2, <1>7, <1>8, <1>9, <1>11, <1>12, <1>13
  <2>2. Cardinality(unbroken) = Cardinality(before) + 1
    BY <1>10, <2>1, FS_AddElement
  <2> QED BY <1>1, <1>5, <1>10, <1>13, <2>2 DEF unbroken
<1>14. CASE ~Achieved(thisWeek)
  <2>1. unbroken = before
    BY <1>7, <1>8, <1>9, <1>10, <1>11, <1>12, <1>14
  <2> QED BY <1>1, <1>5, <1>10, <1>14, <2>1 DEF unbroken
<1> QED BY <1>13, <1>14
-----------------------------------------------------------------------------
(* Before any date a routine is due on one within a week of it, or on none. *)
LEMMA PreviousDueDateIs ==
  ASSUME NEW routine, NEW c \in Int
  PROVE  \/ PreviousDueDate(routine, c) = {} /\ \A d \in Int : d <= c => ~IsDueOn(routine, d)
         \/ \E d \in Int : /\ PreviousDueDate(routine, c) = {d} /\ d <= c /\ IsDueOn(routine, d)
                           /\ \A later \in d + 1 .. c : ~IsDueOn(routine, later)
<1> DEFINE X == {x \in c - Lookback + 1 .. c : IsDueOn(routine, x)}
<1>1. CASE X = {}
  <2>1. ASSUME NEW d \in Int, d <= c, IsDueOn(routine, d) PROVE FALSE
    <3> DEFINE x == c - ((c - d) % 7)
    <3>1. x \in c - Lookback + 1 .. c /\ x % 7 = d % 7
      BY <2>1 DEF Lookback
    <3>2. IsDueOn(routine, x)
      BY <2>1, <3>1 DEF IsDueOn, DayOfWeek
    <3> QED BY <1>1, <3>1, <3>2
  <2>2. PreviousDueDate(routine, c) = {}
    BY <1>1 DEF PreviousDueDate
  <2> QED BY <2>1, <2>2
<1>2. CASE X # {}
  <2>1. Lookback \in Int /\ c - Lookback + 1 \in Int
    BY DEF Lookback
  <2>2. X \subseteq c - Lookback + 1 .. c /\ X \in SUBSET Int
    BY <2>1
  <2>3. IsFiniteSet(X)
    BY <2>1, <2>2, IntervalIsFinite
  <2>4. PICK d \in X : \A x \in X : x <= d
    BY <1>2, <2>2, <2>3, FiniteMax
  <2>5. d \in Int /\ d \in c - Lookback + 1 .. c /\ IsDueOn(routine, d)
    BY <2>1, <2>4
  <2>6. \A later \in d + 1 .. c : ~IsDueOn(routine, later)
    BY <2>1, <2>4, <2>5
  <2>7. ASSUME NEW x \in PreviousDueDate(routine, c) PROVE x = d
    <3>1. x \in X /\ \A later \in x + 1 .. c : ~IsDueOn(routine, later)
      BY <2>7 DEF PreviousDueDate
    <3>2. x <= d /\ x \in Int
      BY <2>1, <2>4, <3>1
    <3>3. x < d => d \in x + 1 .. c
      BY <2>1, <2>5, <3>2
    <3> QED BY <2>5, <3>1, <3>2, <3>3
  <2>8. d \in PreviousDueDate(routine, c)
    BY <2>5, <2>6 DEF PreviousDueDate
  <2>9. PreviousDueDate(routine, c) = {d}
    BY <2>7, <2>8
  <2> QED BY <2>1, <2>5, <2>6, <2>9
<1> QED BY <1>1, <1>2

\* The due dates up to c that were done, with none missed since but today.
UpTo(routine, tasks, today, c) ==
  {d \in DOMAIN tasks :
     /\ d <= c /\ IsDueOn(routine, d) /\ HasDone(tasks, d)
     /\ \A e \in d .. c : IsDueOn(routine, e) => HasDone(tasks, e) \/ e = today}

StreakValue(f, routine, tasks, today, c) ==
  LET due == PreviousDueDate(routine, c)
      d == CHOOSE x \in due : TRUE
  IN IF due = {} THEN 0
     ELSE IF HasDone(tasks, d) THEN 1 + f[d - 1]
     ELSE IF Forgives(d, today) THEN f[d - 1] ELSE 0

LEMMA StreakCases ==
  ASSUME NEW f, NEW routine, NEW tasks, NEW today, NEW c
  PROVE  /\ PreviousDueDate(routine, c) = {} => StreakValue(f, routine, tasks, today, c) = 0
         /\ \A d : PreviousDueDate(routine, c) = {d} =>
              StreakValue(f, routine, tasks, today, c)
                = IF HasDone(tasks, d) THEN 1 + f[d - 1]
                  ELSE IF d = today THEN f[d - 1] ELSE 0
<1>1. ASSUME PreviousDueDate(routine, c) = {} PROVE StreakValue(f, routine, tasks, today, c) = 0
  BY <1>1 DEF StreakValue
<1>2. ASSUME NEW d, PreviousDueDate(routine, c) = {d}
      PROVE  StreakValue(f, routine, tasks, today, c)
               = IF HasDone(tasks, d) THEN 1 + f[d - 1]
                 ELSE IF d = today THEN f[d - 1] ELSE 0
  <2> DEFINE due == PreviousDueDate(routine, c)
             e == CHOOSE x \in due : TRUE
  <2>1. e = d /\ due # {}
    BY <1>2
  <2>2. StreakValue(f, routine, tasks, today, c)
          = IF HasDone(tasks, e) THEN 1 + f[e - 1]
            ELSE IF Forgives(e, today) THEN f[e - 1] ELSE 0
    BY <2>1 DEF StreakValue
  <2> HIDE DEF due, e
  <2> QED BY <2>1, <2>2 DEF Forgives
<1> QED BY <1>1, <1>2

(* Due dates done in a row up to a cursor, one due date at a time.          *)
LEMMA UpToCases ==
  ASSUME NEW routine, NEW tasks, AreDated(tasks), NEW today \in Int, NEW c \in Int
  PROVE  /\ Cardinality(UpTo(routine, tasks, today, c)) \in Nat
         /\ PreviousDueDate(routine, c) = {} => Cardinality(UpTo(routine, tasks, today, c)) = 0
         /\ c < 0 => Cardinality(UpTo(routine, tasks, today, c)) = 0
         /\ \A d \in Int : PreviousDueDate(routine, c) = {d} =>
              Cardinality(UpTo(routine, tasks, today, c))
                = IF HasDone(tasks, d) THEN 1 + Cardinality(UpTo(routine, tasks, today, d - 1))
                     ELSE IF d = today THEN Cardinality(UpTo(routine, tasks, today, d - 1)) ELSE 0
<1> DEFINE A(x) == UpTo(routine, tasks, today, x)
<1>1. \A x \in Int : IsFiniteSet(A(x)) /\ Cardinality(A(x)) \in Nat /\ A(x) \subseteq 0 .. x
  <2>1. ASSUME NEW x \in Int PROVE A(x) \subseteq 0 .. x
    BY <2>1 DEF UpTo, AreDated
  <2> QED BY <2>1, IntervalIsFinite
<1>2. Cardinality({}) = 0
  BY FS_EmptySet
<1>3. c < 0 => A(c) = {}
  BY <1>1
<1>4. ASSUME PreviousDueDate(routine, c) = {} PROVE A(c) = {}
  <2>1. \A d \in Int : d <= c => ~IsDueOn(routine, d)
    BY <1>4, PreviousDueDateIs
  <2>2. \A d \in A(c) : d \in Int /\ d <= c
    BY <1>1
  <2>3. \A d \in A(c) : IsDueOn(routine, d)
    BY DEF UpTo
  <2> HIDE DEF A
  <2> QED BY <2>1, <2>2, <2>3
<1>5. ASSUME NEW d \in Int, PreviousDueDate(routine, c) = {d}
      PROVE  Cardinality(A(c)) = IF HasDone(tasks, d) THEN 1 + Cardinality(A(d - 1))
                                 ELSE IF d = today THEN Cardinality(A(d - 1)) ELSE 0
  <2>1. d <= c /\ IsDueOn(routine, d) /\ \A later \in d + 1 .. c : ~IsDueOn(routine, later)
    BY <1>5, PreviousDueDateIs
  <2>2. \A x \in Int : x <= c /\ IsDueOn(routine, x) => x <= d
    BY <2>1
  <2>3. ASSUME HasDone(tasks, d) \/ d = today, NEW x \in Int, x # d PROVE x \in A(c) <=> x \in A(d - 1)
    <3>1. ASSUME x \in A(c) PROVE x \in A(d - 1)
      <4>1. /\ x \in DOMAIN tasks /\ x <= c /\ IsDueOn(routine, x) /\ HasDone(tasks, x)
            /\ \A e \in x .. c : IsDueOn(routine, e) => HasDone(tasks, e) \/ e = today
        BY <3>1 DEF UpTo
      <4>2. x <= d - 1
        BY <2>2, <2>3, <4>1
      <4>3. \A e \in x .. d - 1 : e \in x .. c
        BY <2>1
      <4> QED BY <4>1, <4>2, <4>3 DEF UpTo
    <3>2. ASSUME x \in A(d - 1) PROVE x \in A(c)
      <4>1. /\ x \in DOMAIN tasks /\ x <= d - 1 /\ IsDueOn(routine, x) /\ HasDone(tasks, x)
            /\ \A e \in x .. d - 1 : IsDueOn(routine, e) => HasDone(tasks, e) \/ e = today
        BY <3>2 DEF UpTo
      <4>2. ASSUME NEW e \in x .. c, IsDueOn(routine, e) PROVE HasDone(tasks, e) \/ e = today
        <5>1. e \in Int /\ (e = d \/ e \in x .. d - 1)
          BY <2>2, <4>2
        <5> QED BY <2>3, <4>1, <4>2, <5>1
      <4> QED BY <2>1, <4>1, <4>2 DEF UpTo
    <3> QED BY <3>1, <3>2
  <2>4. \A x \in Int : \A y \in A(x) : y \in Int /\ y <= x /\ HasDone(tasks, y)
    <3>1. \A x \in Int : \A y \in A(x) : HasDone(tasks, y)
      BY DEF UpTo
    <3> HIDE DEF A
    <3>2. \A x \in Int : \A y \in A(x) : y \in 0 .. x
      BY <1>1
    <3> QED BY <3>1, <3>2
  <2>5. d \notin A(d - 1) /\ d - 1 \in Int
    BY <2>4
  <2>6. CASE HasDone(tasks, d)
    <3>1. d \in A(c)
      <4>1. \A e \in d .. c : IsDueOn(routine, e) => e = d
        BY <2>1
      <4>2. d \in DOMAIN tasks
        BY <2>6 DEF HasDone
      <4> QED BY <2>1, <2>6, <4>1, <4>2 DEF UpTo
    <3>2. A(c) = A(d - 1) \cup {d}
      <4> HIDE DEF A
      <4> QED BY <2>3, <2>4, <2>5, <2>6, <3>1
    <3>3. Cardinality(A(c)) = Cardinality(A(d - 1)) + 1
      <4>1. IsFiniteSet(A(d - 1))
        BY <1>1, <2>5
      <4> HIDE DEF A
      <4> QED BY <2>5, <3>2, <4>1, FS_AddElement
    <3> QED BY <1>1, <2>5, <2>6, <3>3
  <2>7. CASE ~HasDone(tasks, d) /\ d = today
    <3>1. A(c) = A(d - 1)
      <4>1. d \notin A(c)
        BY <2>4, <2>7
      <4> HIDE DEF A
      <4> QED BY <2>3, <2>4, <2>5, <2>7, <4>1
    <3> QED BY <2>7, <3>1
  <2>8. CASE ~HasDone(tasks, d) /\ d # today
    <3>1. ASSUME NEW x \in A(c) PROVE FALSE
      <4>1. x \in Int /\ x <= c /\ IsDueOn(routine, x)
            /\ \A e \in x .. c : IsDueOn(routine, e) => HasDone(tasks, e) \/ e = today
        BY <2>4, <3>1 DEF UpTo
      <4>2. d \in x .. c
        BY <2>1, <2>2, <4>1
      <4> QED BY <2>1, <2>8, <4>1, <4>2
    <3>2. A(c) = {}
      BY <3>1
    <3> QED BY <1>2, <2>8, <3>2
  <2> QED BY <2>6, <2>7, <2>8
<1>6. c < 0 => Cardinality(A(c)) = 0
  BY <1>2, <1>3
<1>7. PreviousDueDate(routine, c) = {} => Cardinality(A(c)) = 0
  BY <1>2, <1>4
<1>8. Cardinality(A(c)) \in Nat
  BY <1>1
<1> HIDE DEF A
<1> QED BY <1>5, <1>6, <1>7, <1>8 DEF A

LEMMA UpToNone ==
  ASSUME NEW routine, NEW tasks, AreDated(tasks), NEW today \in Int, NEW c \in Int,
         PreviousDueDate(routine, c) = {} \/ c < 0
  PROVE  Cardinality(UpTo(routine, tasks, today, c)) = 0
BY UpToCases

LEMMA UpToDue ==
  ASSUME NEW routine, NEW tasks, AreDated(tasks), NEW today \in Int, NEW c \in Int,
         NEW d \in Int, PreviousDueDate(routine, c) = {d}
  PROVE  Cardinality(UpTo(routine, tasks, today, c))
           = IF HasDone(tasks, d) THEN 1 + Cardinality(UpTo(routine, tasks, today, d - 1))
             ELSE IF d = today THEN Cardinality(UpTo(routine, tasks, today, d - 1)) ELSE 0
BY UpToCases

IsStreak(f, routine, tasks, today) ==
  f = [c \in Int |-> StreakValue(f, routine, tasks, today, c)]

(* The recursion over due dates has a solution.                             *)
LEMMA StreakExists ==
  ASSUME NEW routine, NEW tasks, AreDated(tasks), NEW today \in Int
  PROVE  \E f : IsStreak(f, routine, tasks, today)
<1> DEFINE f == [c \in Int |-> Cardinality(UpTo(routine, tasks, today, c))]
<1>1. ASSUME NEW c \in Int PROVE f[c] = StreakValue(f, routine, tasks, today, c)
  <2>1. f[c] = Cardinality(UpTo(routine, tasks, today, c))
    OBVIOUS
  <2>2. \A d \in Int : d - 1 \in Int /\ f[d - 1] = Cardinality(UpTo(routine, tasks, today, d - 1))
    OBVIOUS
  <2> HIDE DEF f
  <2>3. CASE PreviousDueDate(routine, c) = {}
    BY <2>1, <2>3, StreakCases, UpToNone
  <2>4. ASSUME NEW d \in Int, PreviousDueDate(routine, c) = {d}
        PROVE  f[c] = StreakValue(f, routine, tasks, today, c)
    <3>1. StreakValue(f, routine, tasks, today, c)
            = IF HasDone(tasks, d) THEN 1 + f[d - 1] ELSE IF d = today THEN f[d - 1] ELSE 0
      BY <2>4, StreakCases
    <3>2. f[c] = IF HasDone(tasks, d) THEN 1 + f[d - 1] ELSE IF d = today THEN f[d - 1] ELSE 0
      BY <2>1, <2>2, <2>4, UpToDue
    <3> QED BY <3>1, <3>2
  <2> QED BY <2>3, <2>4, PreviousDueDateIs
<1>2. f = [c \in Int |-> f[c]]
  OBVIOUS
<1> HIDE DEF f
<1> QED BY <1>1, <1>2 DEF IsStreak

(* Every solution of the recursion over due dates is that count, by         *)
(* induction over the cursor.                                               *)
LEMMA StreakCounts ==
  ASSUME NEW routine, NEW tasks, AreDated(tasks), NEW today \in Nat, NEW f,
         IsStreak(f, routine, tasks, today), NEW t \in Int
  PROVE  f[t] = Cardinality(UpTo(routine, tasks, today, t))
<1> DEFINE Size(c) == Cardinality(UpTo(routine, tasks, today, c))
           Wrong == {k \in Nat : f[k] # Size(k)}
<1>1. \A c \in Int : f[c] = StreakValue(f, routine, tasks, today, c)
  BY DEF IsStreak
<1>2. ASSUME NEW c \in Int, c < 0 PROVE f[c] = Size(c)
  <2>1. Size(c) = 0
    BY <1>2, UpToNone
  <2>2. CASE PreviousDueDate(routine, c) = {}
    BY <1>1, <2>1, <2>2, StreakCases
  <2>3. ASSUME NEW d \in Int, PreviousDueDate(routine, c) = {d}, d <= c PROVE f[c] = 0
    <3>1. ~HasDone(tasks, d) /\ d # today
      BY <1>2, <2>3 DEF HasDone, AreDated
    <3> QED BY <1>1, <2>3, <3>1, StreakCases
  <2> QED BY <2>1, <2>2, <2>3, PreviousDueDateIs
<1> HIDE DEF Size
<1>3. ASSUME NEW c \in Int, \A b \in Int : b < c => f[b] = Size(b) PROVE f[c] = Size(c)
  <2>1. CASE PreviousDueDate(routine, c) = {}
    BY <1>1, <2>1, StreakCases, UpToNone DEF Size
  <2>2. ASSUME NEW d \in Int, PreviousDueDate(routine, c) = {d}, d <= c PROVE f[c] = Size(c)
    <3>1. d - 1 \in Int /\ f[d - 1] = Size(d - 1)
      BY <1>3, <2>2
    <3>2. f[c] = IF HasDone(tasks, d) THEN 1 + f[d - 1] ELSE IF d = today THEN f[d - 1] ELSE 0
      BY <1>1, <2>2, StreakCases
    <3>3. Size(c) = IF HasDone(tasks, d) THEN 1 + Size(d - 1) ELSE IF d = today THEN Size(d - 1) ELSE 0
      <4>1. Cardinality(UpTo(routine, tasks, today, c))
              = IF HasDone(tasks, d) THEN 1 + Cardinality(UpTo(routine, tasks, today, d - 1))
                ELSE IF d = today THEN Cardinality(UpTo(routine, tasks, today, d - 1)) ELSE 0
        <5>1. today \in Int
          OBVIOUS
        <5> QED BY <2>2, <5>1, UpToDue
      <4> QED BY <4>1 DEF Size
    <3> QED BY <3>1, <3>2, <3>3
  <2> QED BY <2>1, <2>2, PreviousDueDateIs
<1>4. ASSUME Wrong # {} PROVE FALSE
  <2>1. PICK k \in Wrong : \A m \in Wrong : k <= m
    BY <1>4, NatMin
  <2>2. \A b \in Int : b < k => f[b] = Size(b)
    BY <1>2, <2>1
  <2> QED BY <1>3, <2>1, <2>2
<1>5. f[t] = Size(t)
  BY <1>2, <1>4
<1> QED BY <1>5 DEF Size

(* The due dates counted backward are those done with none missed since.    *)
LEMMA DailyStreak ==
  ASSUME NEW routine, NEW tasks, AreDated(tasks), NEW today \in Nat
  PROVE  CalculateStreak(routine, tasks, today) = Cardinality(UnbrokenDates(routine, tasks, today))
<1> DEFINE f == CHOOSE g : IsStreak(g, routine, tasks, today)
<1>1. CalculateStreak(routine, tasks, today) = f[today]
  BY DEF CalculateStreak, IsStreak, StreakValue
<1>3. IsStreak(f, routine, tasks, today)
  BY StreakExists
<1> HIDE DEF f
<1>4. f[today] = Cardinality(UpTo(routine, tasks, today, today))
  BY <1>3, StreakCounts
<1>5. UpTo(routine, tasks, today, today) = UnbrokenDates(routine, tasks, today)
  <2>1. \A d \in Nat : \A e \in d .. today : e = today \/ e \in d .. today - 1
    OBVIOUS
  <2>2. \A d \in Nat : \A e \in d .. today - 1 : e \in d .. today /\ e # today
    OBVIOUS
  <2> QED BY <2>1, <2>2 DEF UpTo, UnbrokenDates, AreDated
<1> QED BY <1>1, <1>4, <1>5

-----------------------------------------------------------------------------
(* The streak of a routine is the number of its due dates, or of its weeks, *)
(* done with none missed since, whatever the routine, the date asked about  *)
(* and the tasks there are.                                                 *)
THEOREM StreaksAreCounted == AnswersSpec => []StreakIsUnbroken
<1>1. ASSUME InputIsGiven, input.kind = "routine"
      PROVE  RoutineResponse(input.routine, input.tasks, input.today).streak
               = Cardinality(IF CountedPerWeek(input.routine)
                             THEN UnbrokenWeeks(input.routine, input.tasks, input.today)
                             ELSE UnbrokenDates(input.routine, input.tasks, input.today))
  <2> DEFINE routine == input.routine
             tasks == input.tasks
             today == input.today
  <2>1. routine \in RoutineRow /\ today \in Nat /\ today \in Int /\ AreDated(tasks)
    <3>1. Routines \subseteq RoutineRow
      BY AnswersAssumption DEF RoutineRow
    <3>2. Todays \subseteq Nat
      BY AnswersAssumption
    <3>3. input.routine \in Routines /\ input.today \in Todays /\ AreDated(input.tasks)
      BY <1>1, Zenon DEF InputIsGiven
    <3> DEFINE r == input.routine
               d == input.today
    <3>4. r \in Routines /\ d \in Todays
      BY <3>3
    <3> HIDE DEF r, d
    <3>5. r \in RoutineRow /\ d \in Nat /\ d \in Int
      BY <3>1, <3>2, <3>4
    <3> QED BY <3>3, <3>5, Zenon DEF r, d
  <2>2. RoutineResponse(routine, tasks, today).streak
          = IF CountedPerWeek(routine) THEN SummarizeWeeks(routine, tasks, today).streak
            ELSE CalculateStreak(routine, tasks, today)
    BY DEF RoutineResponse
  <2> HIDE DEF routine, tasks, today
  <2>3. DOMAIN tasks \subseteq Int
    BY <2>1 DEF AreDated
  <2>4. SummarizeWeeks(routine, tasks, today).streak = Cardinality(UnbrokenWeeks(routine, tasks, today))
    BY <2>1, <2>3, WeeklyStreak
  <2>5. CalculateStreak(routine, tasks, today) = Cardinality(UnbrokenDates(routine, tasks, today))
    BY <2>1, DailyStreak
  <2>6. RoutineResponse(routine, tasks, today).streak
          = Cardinality(IF CountedPerWeek(routine) THEN UnbrokenWeeks(routine, tasks, today)
                        ELSE UnbrokenDates(routine, tasks, today))
    BY <2>2, <2>4, <2>5
  <2> QED BY <2>6 DEF routine, tasks, today
<1>2. InputIsGiven => StreakIsUnbroken
  BY <1>1 DEF StreakIsUnbroken
<1> QED BY <1>2, AnswersInvariance, PTL

-----------------------------------------------------------------------------
(* Answers: dates and pace.                                                 *)

(* A midnight is found whichever side of the change its first guess is on:  *)
(* with the offset before the change for the dates up to that of the change *)
(* and with the one after it from then on.                                  *)
LEMMA MidnightIsFound ==
  ASSUME NEW zone \in Zone, MidnightsAreClear(zone), NEW d \in Int
  PROVE  ZonedToUtc(zone, d) =
           IF d <= (zone.change + zone.before) \div 24 THEN d * 24 - zone.before ELSE d * 24 - zone.after
<1> DEFINE D == (zone.change + zone.before) \div 24
<1>1. zone.before \in Int /\ zone.after \in Int /\ zone.change \in Int
  BY DEF Zone
<1>2. /\ D \in Int /\ 24 * D < zone.change + zone.before /\ zone.change + zone.before < 24 * D + 24
      /\ 24 * D < zone.change + zone.after /\ zone.change + zone.after < 24 * D + 24
  BY <1>1 DEF MidnightsAreClear, Hours
<1> HIDE DEF D
<1>3. CASE d <= D
  BY <1>1, <1>2, <1>3 DEF ZonedToUtc, OffsetAt, Hours
<1>4. CASE d > D
  BY <1>1, <1>2, <1>4 DEF ZonedToUtc, OffsetAt, Hours
<1> QED BY <1>2, <1>3, <1>4 DEF D

(* On either side of the clock change, and across it, the range of a date   *)
(* is where the clock shows it.                                             *)
LEMMA DateIsShown ==
  ASSUME NEW zone \in Zone, MidnightsAreClear(zone), NEW d \in Int, NEW t \in Int
  PROVE  Shown(DayRange(zone, d), t, t + 1) <=> d = LocalDate(zone, t)
<1> DEFINE D == (zone.change + zone.before) \div 24
           date == LocalDate(zone, t)
           from == ZonedToUtc(zone, d)
           to == ZonedToUtc(zone, d + 1)
<1>1. zone.before \in Int /\ zone.after \in Int /\ zone.change \in Int
  BY DEF Zone
<1>2. /\ D \in Int /\ 24 * D < zone.change + zone.before /\ zone.change + zone.before < 24 * D + 24
      /\ 24 * D < zone.change + zone.after /\ zone.change + zone.after < 24 * D + 24
  BY <1>1 DEF MidnightsAreClear, Hours
<1>3. /\ from = IF d <= D THEN d * 24 - zone.before ELSE d * 24 - zone.after
      /\ to = IF d + 1 <= D THEN (d + 1) * 24 - zone.before ELSE (d + 1) * 24 - zone.after
  BY MidnightIsFound
<1>4. /\ date \in Int
      /\ t < zone.change => 24 * date <= t + zone.before /\ t + zone.before < 24 * date + 24
      /\ t >= zone.change => 24 * date <= t + zone.after /\ t + zone.after < 24 * date + 24
  BY <1>1 DEF LocalDate, OffsetAt, Hours
<1>5. Shown(DayRange(zone, d), t, t + 1) <=> from < to /\ t + 1 > from /\ t < to
  BY DEF Shown, Between, DayRange
<1> HIDE DEF D, date, from, to
<1>6. from < to
  BY <1>1, <1>2, <1>3
<1>7. CASE t < zone.change
  <2>1. date <= D
    BY <1>1, <1>2, <1>4, <1>7
  <2>2. from < t + 1 /\ t < to <=> d = date
    BY <1>1, <1>2, <1>3, <1>4, <1>7, <2>1
  <2> QED BY <1>5, <1>6, <2>2, <1>1, <1>3 DEF date
<1>8. CASE t >= zone.change
  <2>1. date >= D
    BY <1>1, <1>2, <1>4, <1>8
  <2>2. from < t + 1 /\ t < to <=> d = date
    BY <1>1, <1>2, <1>3, <1>4, <1>8, <2>1
  <2> QED BY <1>5, <1>6, <2>2, <1>1, <1>3 DEF date
<1> QED BY <1>1, <1>7, <1>8

(* Whatever the offsets of a zone and the hour of its change, an event of   *)
(* an hour is on the local date that its clock shows and on no other.       *)
THEOREM DatesPartitionTime == AnswersSpec => []DaysPartitionTime
<1>1. ASSUME InputIsGiven, input.kind = "date", MidnightsAreClear(input.zone),
             NEW d \in LocalDate(input.zone, input.instant) - 2 .. LocalDate(input.zone, input.instant) + 2
      PROVE  Shown(DayRange(input.zone, d), input.instant, input.instant + 1)
               <=> d = LocalDate(input.zone, input.instant)
  <2>1. input.zone \in Zone /\ input.instant \in Int
    BY <1>1, AnswersAssumption DEF InputIsGiven
  <2>2. d \in Int
    <3>1. LocalDate(input.zone, input.instant) \in Int
      BY <2>1 DEF LocalDate, OffsetAt, Hours, Zone
    <3> QED BY <3>1
  <2> QED BY <1>1, <2>1, <2>2, DateIsShown
<1>2. InputIsGiven => DaysPartitionTime
  BY <1>1 DEF DaysPartitionTime
<1> QED BY <1>2, AnswersInvariance, PTL

-----------------------------------------------------------------------------
(* Division with remainder.                                                 *)
LEMMA Division ==
  ASSUME NEW a \in Nat, NEW b \in Nat \ {0}
  PROVE  a \div b \in Int /\ a % b \in 0 .. b - 1 /\ a = b * (a \div b) + (a % b)
  OBVIOUS

(* Division rounded up.                                                     *)
LEMMA DivUpBounds ==
  ASSUME NEW a \in Nat, NEW b \in Nat \ {0}
  PROVE  /\ DivUp(a, b) \in Nat /\ b * DivUp(a, b) >= a /\ b * DivUp(a, b) < a + b
         /\ a % b = 0 => b * DivUp(a, b) = a
<1> DEFINE q == (a + b - 1) \div b
           r == (a + b - 1) % b
<1>1. q \in Int /\ r \in 0 .. b - 1 /\ a + b - 1 = b * q + r
  BY Division
<1>2. q \in Nat
  <2>1. CASE q < 0
    <3>1. b * q <= -b
      BY <2>1, <1>1
    <3> QED BY <3>1, <1>1
  <2> QED BY <1>1, <2>1
<1>3. ASSUME a % b = 0 PROVE b * q = a
  <2> DEFINE k == a \div b
  <2>1. k \in Int /\ a = b * k
    BY <1>3, Division
  <2> HIDE DEF k, q
  <2>2. b * (q - k) < b /\ b * (q - k) > -b
    BY <1>1, <2>1
  <2>3. q = k
    BY <1>1, <2>1, <2>2
  <2> QED BY <2>1, <2>3
<1> QED BY <1>1, <1>2, <1>3 DEF DivUp

(* The pace of a aim that has begun: the projected date is the first on    *)
(* which the rate reaches the target, or the day after it.                  *)
LEMMA ProjectedIsOfTheRate ==
  ASSUME NEW current \in Nat \ {0}, NEW days \in Nat, NEW slip \in 0 .. 1, NEW n \in Int,
         n = DivUp(days, current) + (IF days % current = 0 THEN slip ELSE 0)
  PROVE  /\ n \in Nat /\ current * n >= days
         /\ \A m \in Int : m + 2 <= n => current * m < days
<1> DEFINE q == DivUp(days, current)
<1>1. /\ q \in Nat /\ current * q >= days /\ current * q < days + current
      /\ days % current = 0 => current * q = days
  BY DivUpBounds
<1> HIDE DEF q
<1>2. n \in Nat /\ (n = q \/ (n = q + 1 /\ days % current = 0))
  BY <1>1 DEF q
<1>3. current * n >= days
  BY <1>1, <1>2
<1>4. ASSUME NEW m \in Int, m + 2 <= n PROVE current * m < days
  <2>1. CASE n = q
    <3>1. current * m <= current * (q - 2)
      BY <1>1, <1>4, <2>1
    <3> QED BY <1>1, <3>1
  <2>2. CASE n = q + 1 /\ days % current = 0
    <3>1. current * m <= current * (q - 1)
      BY <1>1, <1>4, <2>2
    <3> QED BY <1>1, <2>2, <3>1
  <2> QED BY <1>2, <2>1, <2>2
<1> QED BY <1>2, <1>3, <1>4

(* At most half a percent is left of a target that is shown as reached.     *)
LEMMA RoundedPercent ==
  ASSUME NEW done \in Nat, NEW target \in Nat \ {0}, DivRound(100 * done, target) = 100
  PROVE  200 * (target - done) <= target
<1>1. (2 * (100 * done) + target) \div (2 * target) = 100
  BY DEF DivRound
<1>2. 2 * (100 * done) + target >= 2 * target * 100
  BY <1>1, Division
<1> QED BY <1>2

PaceHolds(aim, day, slip) ==
  LET progress == Progress(aim, day, slip)
      pace == progress.pace
      days == IF day > aim.start THEN day - aim.start ELSE 1
      Reached(n) == aim.current * (aim.due + n - aim.start) >= aim.target * days
  IN /\ pace = "BEHIND" => ~Reached(1)
     /\ pace = "AHEAD" => Reached(-3)
     /\ pace = "ON_TRACK" => Reached(2) /\ ~Reached(-4)
     /\ progress.percent = 100 => 200 * progress.remaining <= aim.target

(* Each answer about the pace, multiplied out.                              *)
LEMMA PaceFollows ==
  ASSUME NEW row \in GoalRows, NEW day \in Todays, NEW slip \in 0 .. 1
  PROVE  PaceHolds(row, day, slip)
<1> DEFINE target == AtLeast(row.target, 1)
           aim == [row EXCEPT !.target = AtLeast(@, 1), !.current = AtLeast(@, 0)]
           days == IF day > row.start THEN day - row.start ELSE 1
           work == target * days
           projected == Projected(aim, day, slip)
           progress == Progress(row, day, slip)
           n == DivUp(work, row.current) + (IF work % row.current = 0 THEN slip ELSE 0)
<1>1. /\ row.target \in Nat /\ row.current \in Nat /\ row.start \in Nat /\ row.due \in Nat \cup {NoDate}
      /\ day \in Nat /\ NoDate = -1
  BY AnswersAssumption DEF NoDate
<1>2. /\ aim.target = target /\ aim.current = row.current /\ aim.start = row.start /\ aim.due = row.due
      /\ target \in Nat \ {0} /\ (row.target > 0 => target = row.target) /\ (row.target = 0 => target = 1)
  BY <1>1, AnswersAssumption DEF AtLeast
<1>3. Elapsed(row.start, day) = days /\ days \in Nat \ {0} /\ work \in Nat
  <2>1. Elapsed(row.start, day) = days /\ days \in Nat \ {0}
    BY <1>1 DEF Elapsed, AtLeast
  <2> HIDE DEF days, target
  <2>2. target * days \in Nat
    BY <1>2, <2>1
  <2> QED BY <2>1, <2>2
<1>4. /\ progress.pace = PaceStatus(aim, projected)
      /\ progress.percent = DivRound(100 * AtMost(aim.current, aim.target), aim.target)
      /\ progress.remaining = AtLeast(aim.target - aim.current, 0)
  BY DEF Progress
<1> HIDE DEF target, aim, days, progress
<1>5. projected = IF row.current <= 0 THEN NoDate ELSE row.start + n
  <2>1. aim.target * Elapsed(aim.start, day) = work
    BY <1>2, <1>3
  <2> HIDE DEF work
  <2>2. projected = IF aim.current <= 0 THEN NoDate
                    ELSE aim.start + DivUp(work, aim.current)
                         + (IF work % aim.current = 0 THEN slip ELSE 0)
    BY <2>1 DEF Projected
  <2>3. ASSUME row.current # 0 PROVE DivUp(work, row.current) \in Int
    <3>1. row.current \in Nat \ {0} /\ work \in Nat
      BY <1>1, <1>3, <2>3
    <3> QED BY <3>1, DivUpBounds
  <2>4. (IF work % row.current = 0 THEN slip ELSE 0) \in Int
    OBVIOUS
  <2> QED BY <1>1, <1>2, <2>2, <2>3, <2>4
<1>w. work = target * days /\ n = DivUp(work, row.current) + (IF work % row.current = 0 THEN slip ELSE 0)
  OBVIOUS
<1> HIDE DEF work, projected, n
<1>6. ASSUME progress.pace \in {"BEHIND", "AHEAD", "ON_TRACK"}
      PROVE  /\ row.current > 0 /\ row.current < target /\ row.due # NoDate
             /\ progress.pace = "BEHIND" => projected - row.due >= 3
             /\ progress.pace = "AHEAD" => projected - row.due <= -3
             /\ progress.pace = "ON_TRACK" => projected - row.due < 3 /\ projected - row.due > -3
  BY <1>1, <1>2, <1>4, <1>5, <1>6 DEF PaceStatus, Delta
<1>7. progress.percent = 100 => 200 * progress.remaining <= row.target
  <2>1. SUFFICES ASSUME progress.percent = 100 PROVE 200 * progress.remaining <= row.target
    OBVIOUS
  <2> DEFINE done == AtMost(row.current, target)
  <2>2. done \in Nat /\ AtLeast(target - row.current, 0) = target - done
    BY <1>1, <1>2 DEF AtMost, AtLeast
  <2>3. DivRound(100 * done, target) = 100 /\ progress.remaining = target - done
    BY <1>2, <1>4, <2>1, <2>2
  <2> HIDE DEF done
  <2>4. 200 * (target - done) <= target
    BY <1>2, <2>2, <2>3, RoundedPercent
  <2> QED BY <1>1, <1>2, <2>2, <2>3, <2>4 DEF target, done, AtLeast, AtMost
<1>8. ASSUME progress.pace \in {"BEHIND", "AHEAD", "ON_TRACK"}
      PROVE  /\ target = row.target /\ work = row.target * days /\ row.current \in Nat \ {0}
             /\ n \in Nat /\ row.current * n >= work /\ projected = row.start + n /\ row.due \in Nat
             /\ \A m \in Int : m + 2 <= n => row.current * m < work
  <2>1. target = row.target /\ work = row.target * days /\ row.current \in Nat \ {0} /\ row.due \in Nat
        /\ projected = row.start + n
    BY <1>1, <1>2, <1>5, <1>6, <1>8, <1>w
  <2>2. n \in Int
    BY <1>3, <1>w, <2>1, DivUpBounds
  <2>3. /\ n \in Nat /\ row.current * n >= work
        /\ \A m \in Int : m + 2 <= n => row.current * m < work
    BY <1>3, <1>w, <2>1, <2>2, ProjectedIsOfTheRate
  <2> QED BY <2>1, <2>3
<1> DEFINE Reached(k) == row.current * (row.due + k - row.start) >= row.target * days
<1>9. ASSUME progress.pace = "BEHIND" PROVE ~Reached(1)
  <2> DEFINE m == row.due + 1 - row.start
  <2>1. m \in Int /\ m + 2 <= n
    BY <1>1, <1>6, <1>8, <1>9
  <2>2. row.current * m < row.target * days
    <3> HIDE DEF m
    <3> QED BY <1>8, <1>9, <2>1
  <2> QED BY <1>1, <1>3, <1>8, <1>9, <2>1, <2>2
<1>10. ASSUME progress.pace = "AHEAD" PROVE Reached(-3)
  <2>1. row.due + (-3) - row.start >= n
    BY <1>1, <1>6, <1>8, <1>10
  <2>2. row.current * (row.due + (-3) - row.start) >= row.current * n
    BY <1>1, <1>8, <1>10, <2>1
  <2> QED BY <1>1, <1>3, <1>8, <1>10, <2>2
<1>11. ASSUME progress.pace = "ON_TRACK" PROVE Reached(2) /\ ~Reached(-4)
  <2> DEFINE m == row.due + (-4) - row.start
  <2>1. row.due + 2 - row.start >= n /\ m \in Int /\ m + 2 <= n
    BY <1>1, <1>6, <1>8, <1>11
  <2>2. row.current * (row.due + 2 - row.start) >= row.current * n
    BY <1>1, <1>8, <1>11, <2>1
  <2>3. row.current * m < row.target * days
    <3> HIDE DEF m
    <3> QED BY <1>8, <1>11, <2>1
  <2>4. Reached(2)
    BY <1>1, <1>3, <1>8, <1>11, <2>2
  <2>5. ~Reached(-4)
    BY <1>1, <1>3, <1>8, <1>11, <2>1, <2>3
  <2> QED BY <2>4, <2>5
<1> QED BY <1>7, <1>9, <1>10, <1>11 DEF PaceHolds, progress, days

(* Whatever the values and dates of a aim, its pace is what its rate says, *)
(* but for the tolerance and the day that a division may add.               *)
THEOREM PaceFollowsTheRate == AnswersSpec => []PaceIsOfTheRate
<1>1. ASSUME InputIsGiven, input.kind = "goal" PROVE PaceHolds(input.goal, input.now, input.slip)
  BY <1>1, PaceFollows DEF InputIsGiven
<1>2. InputIsGiven => PaceIsOfTheRate
  BY <1>1 DEF PaceIsOfTheRate, PaceHolds
<1> QED BY <1>2, AnswersInvariance, PTL
=============================================================================
