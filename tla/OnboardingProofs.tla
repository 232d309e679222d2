--------------------------- MODULE OnboardingProofs ---------------------------
(***************************************************************************)
(* Onboarding, for every catalog, question set and scoring and any number  *)
(* of attempts and requests.                                               *)
(*                                                                         *)
(* The requests write what they read before, so the invariant is about what *)
(* they hold: a request on its way past the choice of a type has seen a    *)
(* profile, and no step takes one away; answers read to be scored are those *)
(* of the attempt, or the attempt is known to be overtaken.                *)
(***************************************************************************)
EXTENDS Onboarding, FiniteSetTheorems, TLAPS

Advanced(s) == s \in {"CALENDAR_PENDING", "COMPLETED"}

\* The confidence of p, if any, is of its type.
Fits(p) ==
  p.basis # Nothing => p.source = "FINDER_RESULT" /\ p.type = Predict(p.basis)

Scoring(r) == req[r].pc \in {"complete", "finish"}

\* What request r holds is still worth writing.
RequestIsSound(r) ==
  /\ req[r].pc \in {"select", "finish", "confirm", "connect", "skip"} => req[r].status \in Statuses
  /\ req[r].pc \in {"select", "confirm"} => req[r].type \in Types
  /\ At(r, "confirm") => Fits(req[r].seen)
  /\ req[r].pc \in {"connect", "skip"} => Advanced(req[r].status) /\ profile # NoProfile
  /\ At(r, "submit") => req[r].row.status = "IN_PROGRESS"
  /\ At(r, "submit") \/ Scoring(r) =>
       req[r].attempt \in Attempts /\ attempt[req[r].attempt].status # "unborn"
  /\ At(r, "complete") /\ req[r].row = Unborn => req[r].status \in Statuses
  /\ At(r, "complete") => req[r].row = Unborn \/ req[r].row.status # "unborn"
  /\ At(r, "finish") => req[r].row.status # "unborn"
  /\ At(r, "finish") /\ req[r].row.status = "IN_PROGRESS" => Full(req[r].row.answers)
  /\ Scoring(r) /\ req[r].row.status = "IN_PROGRESS" =>
       \/ req[r].attempt \in overtaken
       \/ req[r].row.answers = attempt[req[r].attempt].answers

RequestsAreSound == \A r \in Reqs : RequestIsSound(r)

StatusHasProfile == Advanced(status) => profile # NoProfile

\* Unless two starts crossed, a start that found no attempt still finds none.
OneAttempt ==
  \/ doubled
  \/ /\ \A a, b \in InProgress : a = b
     /\ \A r \in Reqs : At(r, "start") => InProgress = {}

IInv ==
  /\ TypeOK /\ RequestsAreSound /\ StatusHasProfile /\ Fits(profile)
  /\ PredictionIsOfTheAnswers /\ OneAttempt

(* The records that stand for nothing.                                      *)
LEMMA EmptyRecords ==
  /\ NoAnswers \in Answers
  /\ Unborn \in Attempt /\ Unborn.status = "unborn"
  /\ Blank \in Request /\ Blank.pc = "idle" /\ Blank.row = Unborn
  /\ Fits(NoProfile)
  /\ \A p \in Profile : p # NoProfile
<1>1. NoAnswers \in Answers
  BY DEF NoAnswers, Answers
<1>2. Unborn \in Attempt /\ Unborn.status = "unborn"
  BY <1>1 DEF Unborn, Attempt
<1>3. Blank \in Request /\ Blank.pc = "idle" /\ Blank.row = Unborn
  BY <1>1, <1>2 DEF Blank, Request, Stages, Sources
<1>4. Fits(NoProfile)
  BY DEF Fits, NoProfile
<1>5. \A p \in Profile : p # NoProfile
  BY OnboardingAssumption DEF Profile, NoProfile
<1> QED BY <1>1, <1>2, <1>3, <1>4, <1>5

(* A step of request r keeps types and what the others hold, if it takes no *)
(* profile away, lets no attempt vanish and notes whose answers it changed. *)
LEMMA RequestsStaySound ==
  ASSUME IInv, NEW r \in Reqs,
         req' = [req EXCEPT ![r] = req'[r]], req'[r] \in Request, RequestIsSound(r)',
         status' \in Statuses, profile' \in Profile \cup {NoProfile},
         attempt' \in [Attempts -> Attempt], overtaken' \in SUBSET Attempts, doubled' \in BOOLEAN,
         overtaken \subseteq overtaken',
         profile # NoProfile => profile' # NoProfile,
         \A a \in Attempts : attempt[a].status # "unborn" => attempt'[a].status # "unborn",
         \A q \in Reqs \ {r} :
           Scoring(q) /\ req[q].row.status = "IN_PROGRESS" =>
             LET a == req[q].attempt
             IN a \in overtaken' \/ attempt'[a].answers = attempt[a].answers
  PROVE  TypeOK' /\ RequestsAreSound'
<1> USE DEF IInv
<1>1. req \in [Reqs -> Request]
  BY DEF TypeOK
<1>2. req' \in [Reqs -> Request] /\ \A q \in Reqs \ {r} : req'[q] = req[q]
  BY <1>1
<1>3. TypeOK'
  BY <1>2 DEF TypeOK
<1>4. ASSUME NEW q \in Reqs \ {r} PROVE RequestIsSound(q)'
  <2>1. RequestIsSound(q) /\ req'[q] = req[q]
    BY <1>2 DEF RequestsAreSound
  <2> DEFINE x == req[q]
  <2>2. x.pc \in {"connect", "skip"} => profile' # NoProfile
    BY <2>1 DEF RequestIsSound
  <2>3. x.pc = "submit" \/ x.pc \in {"complete", "finish"} =>
          x.attempt \in Attempts /\ attempt'[x.attempt].status # "unborn"
    BY <2>1 DEF RequestIsSound, At, Scoring
  <2>4. x.pc \in {"complete", "finish"} /\ x.row.status = "IN_PROGRESS" =>
          x.attempt \in overtaken' \/ x.row.answers = attempt'[x.attempt].answers
    BY <2>1 DEF RequestIsSound, Scoring
  <2> HIDE DEF x
  <2>5. x = req'[q]
    BY <2>1 DEF x
  <2> QED
    BY <2>1, <2>2, <2>3, <2>4, <2>5 DEF RequestIsSound, At, Scoring, x
<1> QED BY <1>3, <1>4 DEF RequestsAreSound

(* A request that begins, or goes on without writing.                       *)
LEMMA ReadStep ==
  ASSUME IInv, NEW r \in Reqs,
         req' = [req EXCEPT ![r] = req'[r]], req'[r] \in Request, RequestIsSound(r)',
         UNCHANGED <<status, profile, attempt, overtaken, doubled>>,
         req'[r].pc = "start" => InProgress = {}
  PROVE  IInv'
<1> USE DEF IInv
<1>1. TypeOK' /\ RequestsAreSound'
  BY RequestsStaySound DEF TypeOK
<1>2. StatusHasProfile' /\ Fits(profile)' /\ PredictionIsOfTheAnswers'
  BY DEF StatusHasProfile, PredictionIsOfTheAnswers, Fits
<1>3. OneAttempt'
  <2>1. \A q \in Reqs \ {r} : req'[q] = req[q]
    BY DEF TypeOK
  <2>2. InProgress' = InProgress
    BY DEF InProgress
  <2> QED BY <2>1, <2>2 DEF OneAttempt, At
<1> QED BY <1>1, <1>2, <1>3

(* A request that writes and ends, without touching the attempts.           *)
LEMMA WriteStep ==
  ASSUME IInv, NEW r \in Reqs, Done(r),
         UNCHANGED <<attempt, overtaken, doubled>>,
         status' \in Statuses, profile' \in Profile \cup {NoProfile},
         profile # NoProfile => profile' # NoProfile,
         Advanced(status') => profile' # NoProfile,
         Fits(profile')
  PROVE  IInv'
<1> USE DEF IInv
<1>1. req' = [req EXCEPT ![r] = req'[r]] /\ req'[r] = Blank
  BY DEF Done, TypeOK
<1>2. RequestIsSound(r)'
  BY <1>1, EmptyRecords DEF RequestIsSound, At, Scoring
<1>3. TypeOK' /\ RequestsAreSound'
  BY <1>1, <1>2, EmptyRecords, RequestsStaySound DEF TypeOK
<1>4. StatusHasProfile' /\ Fits(profile)'
  BY DEF StatusHasProfile, Fits
<1>5. PredictionIsOfTheAnswers'
  BY DEF PredictionIsOfTheAnswers
<1>6. OneAttempt'
  <2>1. \A q \in Reqs \ {r} : req'[q] = req[q]
    BY <1>1 DEF TypeOK
  <2>2. InProgress' = InProgress
    BY DEF InProgress
  <2> QED BY <1>1, <2>1, <2>2, EmptyRecords DEF OneAttempt, At
<1> QED BY <1>3, <1>4, <1>5, <1>6

LEMMA InitHolds == Init => IInv
<1> SUFFICES ASSUME Init PROVE IInv
  OBVIOUS
<1> USE DEF Init
<1>1. TypeOK
  BY EmptyRecords DEF TypeOK, Statuses
<1>2. RequestsAreSound
  BY EmptyRecords DEF RequestsAreSound, RequestIsSound, At, Scoring
<1>3. StatusHasProfile /\ Fits(profile)
  BY EmptyRecords DEF StatusHasProfile, Advanced
<1>4. PredictionIsOfTheAnswers /\ OneAttempt
  BY EmptyRecords DEF PredictionIsOfTheAnswers, OneAttempt, InProgress, At
<1> QED BY <1>1, <1>2, <1>3, <1>4 DEF IInv

(* The steps of choosing and confirming.                                    *)
LEMMA ProfileSteps ==
  ASSUME IInv, NEW r \in Reqs,
         \/ \E t \in Types : SelectRead(r, t) \/ \E source \in Sources : ConfirmRead(r, t, source)
         \/ SelectWrite(r) \/ ConfirmWrite(r)
  PROVE  IInv'
<1> USE DEF IInv
<1>t. status \in Statuses /\ profile \in Profile \cup {NoProfile} /\ req[r] \in Request
      /\ req \in [Reqs -> Request] /\ RequestIsSound(r)
  BY DEF TypeOK, RequestsAreSound
<1>1. ASSUME NEW t \in Types, SelectRead(r, t) PROVE IInv'
  <2> DEFINE next == [Blank EXCEPT !.pc = "select", !.status = status, !.type = t]
  <2>1. next \in Request /\ next.pc = "select" /\ next.status = status /\ next.type = t
    BY <1>t, EmptyRecords DEF Request, Stages
  <2> HIDE DEF next
  <2>2. req' = [req EXCEPT ![r] = next]
    BY <1>1 DEF SelectRead, next
  <2>3. req'[r] = next /\ req' = [req EXCEPT ![r] = req'[r]]
    BY <1>t, <2>2
  <2>4. RequestIsSound(r)'
    BY <1>t, <2>1, <2>3 DEF RequestIsSound, At, Scoring
  <2> QED BY <1>1, <2>1, <2>3, <2>4, ReadStep DEF SelectRead
<1>2. ASSUME NEW t \in Types, NEW source \in Sources, ConfirmRead(r, t, source) PROVE IInv'
  <2> DEFINE next == [Blank EXCEPT !.pc = "confirm", !.status = status, !.seen = profile,
                                   !.type = t, !.source = source]
  <2>1. next \in Request /\ next.pc = "confirm" /\ next.status = status /\ next.type = t
        /\ next.seen = profile
    BY <1>t, EmptyRecords DEF Request, Stages
  <2> HIDE DEF next
  <2>2. req' = [req EXCEPT ![r] = next]
    BY <1>2 DEF ConfirmRead, next
  <2>3. req'[r] = next /\ req' = [req EXCEPT ![r] = req'[r]]
    BY <1>t, <2>2
  <2>4. RequestIsSound(r)'
    BY <1>t, <2>1, <2>3 DEF RequestIsSound, At, Scoring, Fits
  <2> QED BY <1>2, <2>1, <2>3, <2>4, ReadStep DEF ConfirmRead
<1>3. CASE SelectWrite(r)
  <2>1. req[r].status \in Statuses /\ req[r].type \in Types
    BY <1>t, <1>3 DEF SelectWrite, RequestIsSound, At
  <2>2. profile' = [type |-> req[r].type, source |-> "SELF_SELECTED", basis |-> Nothing]
    BY <1>3 DEF SelectWrite
  <2>3. profile' \in Profile /\ Fits(profile') /\ profile' # NoProfile
    BY <2>1, <2>2, EmptyRecords DEF Profile, Sources, Fits
  <2>4. status' \in Statuses
    BY <1>3, <2>1 DEF SelectWrite, AfterChoice, Statuses
  <2> QED BY <1>3, <2>3, <2>4, WriteStep DEF SelectWrite
<1>4. CASE ConfirmWrite(r)
  <2>1. req[r].status \in Statuses /\ req[r].type \in Types /\ Fits(req[r].seen)
    BY <1>t, <1>4 DEF ConfirmWrite, RequestIsSound, At
  <2>2. profile' = Confirmed(r)
    BY <1>4 DEF ConfirmWrite
  <2>3. req[r].source \in Sources /\ req[r].seen \in Profile \cup {NoProfile}
    BY <1>t DEF Request
  <2>4. ASSUME ReusesResult(r) PROVE profile' \in Profile /\ Fits(profile')
    <3> DEFINE seen == req[r].seen
    <3>1. seen \in Profile /\ req[r].source = "FINDER_RESULT" /\ seen.type = req[r].type
      BY <2>3, <2>4 DEF ReusesResult
    <3>2. profile' = [type |-> seen.type, source |-> "FINDER_RESULT", basis |-> seen.basis]
      BY <2>2, <2>4, <3>1 DEF Confirmed
    <3>3. seen.type \in Types /\ seen.basis \in Answers \cup {Nothing}
      BY <3>1 DEF Profile
    <3>4. seen.basis # Nothing => seen.type = Predict(seen.basis)
      BY <2>1 DEF Fits
    <3> HIDE DEF seen
    <3>5. profile' \in Profile
      BY <3>2, <3>3 DEF Profile, Sources
    <3>6. profile'.type = seen.type /\ profile'.source = "FINDER_RESULT"
          /\ profile'.basis = seen.basis
      BY <3>2
    <3> QED BY <3>4, <3>5, <3>6 DEF Fits
  <2>5. ASSUME ~ReusesResult(r) PROVE profile' \in Profile /\ Fits(profile')
    <3>1. profile' = [type |-> req[r].type, source |-> req[r].source, basis |-> Nothing]
      BY <2>2, <2>5 DEF Confirmed
    <3> QED BY <3>1, <2>1, <2>3 DEF Profile, Fits
  <2>6. profile' \in Profile /\ Fits(profile')
    BY <2>2, <2>4, <2>5
  <2>7. status' \in Statuses
    BY <1>4, <2>1 DEF ConfirmWrite, AfterConfirm, Statuses
  <2> QED BY <1>4, <2>6, <2>7, EmptyRecords, WriteStep DEF ConfirmWrite
<1> QED BY <1>1, <1>2, <1>3, <1>4

(* The steps of starting the finder.                                        *)
LEMMA StartSteps ==
  ASSUME IInv, NEW r \in Reqs, StartFind(r) \/ \E a \in Attempts : StartCreate(r, a)
  PROVE  IInv'
<1> USE DEF IInv
<1>t. req \in [Reqs -> Request] /\ attempt \in [Attempts -> Attempt] /\ RequestsAreSound
  BY DEF TypeOK
<1>1. CASE StartFind(r)
  <2> DEFINE next == [Blank EXCEPT !.pc = "start"]
  <2>1. next \in Request /\ next.pc = "start"
    BY EmptyRecords DEF Request, Stages
  <2> HIDE DEF next
  <2>2. req' = [req EXCEPT ![r] = next]
    BY <1>1 DEF StartFind, next
  <2>3. req'[r] = next /\ req' = [req EXCEPT ![r] = req'[r]]
    BY <1>t, <2>2
  <2>4. RequestIsSound(r)'
    BY <2>1, <2>3 DEF RequestIsSound, At, Scoring
  <2> QED BY <1>1, <2>1, <2>3, <2>4, ReadStep DEF StartFind, Resumable
<1>2. ASSUME NEW a \in Attempts, StartCreate(r, a) PROVE IInv'
  <2> DEFINE new == [Unborn EXCEPT !.status = "IN_PROGRESS"]
  <2>1. new \in Attempt /\ new.status = "IN_PROGRESS"
    BY EmptyRecords DEF Attempt
  <2> HIDE DEF new
  <2>2. /\ attempt' = [attempt EXCEPT ![a] = new]
        /\ attempt[a].status = "unborn" /\ At(r, "start") /\ req' = [req EXCEPT ![r] = Blank]
        /\ doubled' = (doubled \/ \E q \in Reqs \ {r} : At(q, "start"))
        /\ UNCHANGED <<status, profile, overtaken>>
    BY <1>2 DEF StartCreate, Done, new
  <2>3. /\ attempt' \in [Attempts -> Attempt] /\ attempt'[a] = new
        /\ \A b \in Attempts \ {a} : attempt'[b] = attempt[b]
    BY <1>t, <2>1, <2>2
  <2>4. req'[r] = Blank /\ req' = [req EXCEPT ![r] = req'[r]]
        /\ \A q \in Reqs \ {r} : req'[q] = req[q]
    BY <1>t, <2>2
  <2>5. RequestIsSound(r)'
    BY <2>4, EmptyRecords DEF RequestIsSound, At, Scoring
  <2>6. ASSUME NEW q \in Reqs \ {r}, Scoring(q)
        PROVE  attempt'[req[q].attempt].answers = attempt[req[q].attempt].answers
    <3>1. req[q].attempt \in Attempts /\ attempt[req[q].attempt].status # "unborn"
      BY <1>t, <2>6 DEF RequestsAreSound, RequestIsSound
    <3> QED BY <2>2, <2>3, <3>1
  <2>7. \A b \in Attempts : attempt[b].status # "unborn" => attempt'[b].status # "unborn"
    BY <2>1, <2>3
  <2>8. doubled' \in BOOLEAN
    BY <2>2 DEF TypeOK
  <2>9. TypeOK' /\ RequestsAreSound'
    BY <2>2, <2>3, <2>4, <2>5, <2>6, <2>7, <2>8, EmptyRecords, RequestsStaySound DEF TypeOK
  <2>10. StatusHasProfile' /\ Fits(profile)'
    BY <2>2 DEF StatusHasProfile, Fits
  <2>11. PredictionIsOfTheAnswers'
    BY <2>1, <2>2, <2>3 DEF PredictionIsOfTheAnswers
  <2>12. OneAttempt'
    <3> SUFFICES ASSUME ~doubled' PROVE OneAttempt'
      BY DEF OneAttempt
    <3>1. ~doubled /\ \A q \in Reqs \ {r} : ~At(q, "start")
      BY <2>2 DEF TypeOK
    <3>2. InProgress = {}
      BY <2>2, <3>1 DEF OneAttempt
    <3>3. \A b \in InProgress' : b = a
      BY <2>3, <3>2 DEF InProgress
    <3>4. \A q \in Reqs : ~At(q, "start")'
      BY <2>4, <3>1, EmptyRecords DEF At
    <3> QED BY <3>3, <3>4 DEF OneAttempt
  <2> QED BY <2>9, <2>10, <2>11, <2>12
<1> QED BY <1>1, <1>2

(* The steps of submitting answers.                                         *)
LEMMA SubmitSteps ==
  ASSUME IInv, NEW r \in Reqs,
         \/ \E a \in Attempts, input \in Inputs : SubmitRead(r, a, input)
         \/ SubmitWrite(r)
  PROVE  IInv'
<1> USE DEF IInv
<1>t. /\ req \in [Reqs -> Request] /\ attempt \in [Attempts -> Attempt]
      /\ RequestsAreSound /\ RequestIsSound(r)
  BY DEF TypeOK, RequestsAreSound
<1>1. ASSUME NEW a \in Attempts, NEW input \in Inputs, SubmitRead(r, a, input) PROVE IInv'
  <2> DEFINE row == [Unborn EXCEPT !.status = attempt[a].status]
             next == [Blank EXCEPT !.pc = "submit", !.attempt = a, !.row = row, !.input = input]
  <2>0. attempt[a].status = "IN_PROGRESS"
    BY <1>1 DEF SubmitRead, TakesAnswers
  <2>1. row \in Attempt /\ row.status = "IN_PROGRESS"
    BY <2>0, EmptyRecords DEF Attempt
  <2> HIDE DEF row
  <2>2. input \in Answers
    BY OnboardingAssumption
  <2>3. next \in Request /\ next.pc = "submit" /\ next.attempt = a /\ next.row = row
    BY <2>1, <2>2, EmptyRecords DEF Request, Stages
  <2> HIDE DEF next
  <2>4. req' = [req EXCEPT ![r] = next]
    BY <1>1 DEF SubmitRead, next, row
  <2>5. req'[r] = next /\ req' = [req EXCEPT ![r] = req'[r]]
    BY <1>t, <2>4
  <2>6. attempt' = attempt
    BY <1>1 DEF SubmitRead
  <2>7. RequestIsSound(r)'
    BY <2>0, <2>1, <2>3, <2>5, <2>6 DEF RequestIsSound, At, Scoring
  <2> QED BY <1>1, <2>3, <2>5, <2>7, ReadStep DEF SubmitRead
<1>2. CASE SubmitWrite(r)
  <2> DEFINE a == req[r].attempt
             merged == Merge(attempt[a].answers, req[r].input)
  <2>1. a \in Attempts /\ attempt[a].status # "unborn" /\ req[r].row.status = "IN_PROGRESS"
        /\ At(r, "submit")
    BY <1>t, <1>2 DEF SubmitWrite, RequestIsSound
  <2>2. merged \in Answers
    <3>1. attempt[a].answers \in Answers /\ req[r].input \in Answers
      BY <1>t, <2>1 DEF Attempt, Request
    <3> QED BY <3>1 DEF Merge, Answers
  <2>3. /\ attempt' = [attempt EXCEPT ![a].answers = merged]
        /\ req' = [req EXCEPT ![r] = Blank] /\ UNCHANGED <<status, profile, doubled>>
        /\ overtaken' = IF \/ Completing(a)
                           \/ attempt[a].status = "COMPLETED" /\ req[r].row.status = "IN_PROGRESS"
                        THEN overtaken \cup {a} ELSE overtaken
    BY <1>2 DEF SubmitWrite, Done
  <2> HIDE DEF merged
  <2>4. overtaken \subseteq overtaken' /\ overtaken' \in SUBSET Attempts
    BY <2>1, <2>3 DEF TypeOK
  <2>5. /\ attempt' \in [Attempts -> Attempt] /\ attempt'[a].status = attempt[a].status
        /\ \A b \in Attempts \ {a} : attempt'[b] = attempt[b]
    BY <1>t, <2>1, <2>2, <2>3 DEF Attempt
  <2>6. req'[r] = Blank /\ req' = [req EXCEPT ![r] = req'[r]]
        /\ \A q \in Reqs \ {r} : req'[q] = req[q]
    BY <1>t, <2>3
  <2>7. RequestIsSound(r)'
    BY <2>6, EmptyRecords DEF RequestIsSound, At, Scoring
  <2>8. ASSUME NEW q \in Reqs \ {r}, Scoring(q), req[q].row.status = "IN_PROGRESS"
        PROVE  \/ req[q].attempt \in overtaken'
               \/ attempt'[req[q].attempt].answers = attempt[req[q].attempt].answers
    <3>1. req[q].attempt \in Attempts
      BY <1>t, <2>8 DEF RequestsAreSound, RequestIsSound
    <3>2. CASE req[q].attempt = a
      BY <2>3, <2>8, <3>2 DEF Completing, Scoring
    <3>3. CASE req[q].attempt # a
      BY <2>5, <3>1, <3>3
    <3> QED BY <3>2, <3>3
  <2>9. \A b \in Attempts : attempt[b].status # "unborn" => attempt'[b].status # "unborn"
    BY <2>1, <2>5
  <2> HIDE DEF a
  <2>10. TypeOK' /\ RequestsAreSound'
    BY <2>3, <2>4, <2>5, <2>6, <2>7, <2>8, <2>9, EmptyRecords, RequestsStaySound DEF TypeOK
  <2>11. StatusHasProfile' /\ Fits(profile)'
    BY <2>3 DEF StatusHasProfile, Fits
  <2>12. PredictionIsOfTheAnswers'
    <3> SUFFICES ASSUME NEW b \in Attempts, attempt'[b].status = "COMPLETED", b \notin overtaken'
                 PROVE  Full(attempt'[b].answers) /\ attempt'[b].type = Predict(attempt'[b].answers)
      BY DEF PredictionIsOfTheAnswers
    <3>1. b # a
      BY <2>1, <2>3, <2>5
    <3> QED BY <2>4, <2>5, <3>1 DEF PredictionIsOfTheAnswers
  <2>13. OneAttempt'
    <3>1. InProgress' = InProgress
      BY <2>1, <2>5 DEF InProgress
    <3> QED BY <2>3, <2>6, <3>1, EmptyRecords DEF OneAttempt, At
  <2> QED BY <2>10, <2>11, <2>12, <2>13
<1> QED BY <1>1, <1>2

(* The steps of completing an attempt.                                      *)
LEMMA CompleteReadStep ==
  ASSUME IInv, NEW r \in Reqs, NEW a \in Attempts, CompleteRead(r, a)
  PROVE  IInv'
<1> USE DEF IInv
<1>t. /\ req \in [Reqs -> Request] /\ attempt[a] \in Attempt /\ status \in Statuses
      /\ attempt[a].status # "unborn"
  BY DEF TypeOK, CompleteRead
<1> DEFINE first == [Blank EXCEPT !.pc = "complete", !.attempt = a, !.status = status]
           second == [Blank EXCEPT !.pc = "complete", !.attempt = a, !.row = attempt[a]]
<1>1. first \in Request /\ first.pc = "complete" /\ first.attempt = a /\ first.row = Unborn
      /\ first.status = status
  BY <1>t, EmptyRecords DEF Request, Stages
<1>2. second \in Request /\ second.pc = "complete" /\ second.attempt = a
      /\ second.row = attempt[a]
  BY <1>t, EmptyRecords DEF Request, Stages
<1> HIDE DEF first, second
<1>3. PICK next \in {first, second} : req' = [req EXCEPT ![r] = next]
  BY DEF CompleteRead, first, second
<1>4. req'[r] = next /\ req' = [req EXCEPT ![r] = req'[r]]
  BY <1>t, <1>3
<1>5. attempt' = attempt
  BY DEF CompleteRead
<1>6. RequestIsSound(r)'
  BY <1>t, <1>1, <1>2, <1>3, <1>4, <1>5, EmptyRecords DEF RequestIsSound, At, Scoring
<1> QED BY <1>1, <1>2, <1>3, <1>4, <1>6, ReadStep DEF CompleteRead

LEMMA CompleteCheckStep ==
  ASSUME IInv, NEW r \in Reqs, CompleteCheck(r)
  PROVE  IInv'
<1> USE DEF IInv
<1>t. /\ req \in [Reqs -> Request] /\ req[r] \in Request /\ attempt \in [Attempts -> Attempt]
      /\ status \in Statuses /\ RequestIsSound(r)
  BY DEF TypeOK, RequestsAreSound
<1> DEFINE a == req[r].attempt
           row == IF req[r].row = Unborn THEN attempt[a] ELSE req[r].row
           s == IF req[r].row = Unborn THEN req[r].status ELSE status
           next == [req[r] EXCEPT !.pc = "finish", !.row = row, !.status = s]
<1>1. /\ At(r, "complete") /\ UNCHANGED <<status, profile, attempt, overtaken, doubled>>
      /\ IF row.status = "IN_PROGRESS" /\ ~Full(row.answers)
         THEN req' = [req EXCEPT ![r] = Blank]
         ELSE req' = [req EXCEPT ![r].pc = "finish", ![r].row = row, ![r].status = s]
  BY DEF CompleteCheck, Done
<1>2. a \in Attempts /\ attempt[a].status # "unborn"
  BY <1>t, <1>1 DEF RequestIsSound, Scoring, At
<1>3. row \in Attempt /\ row.status # "unborn" /\ s \in Statuses
  BY <1>t, <1>1, <1>2 DEF RequestIsSound, Request
<1>4. row.status = "IN_PROGRESS" => a \in overtaken \/ row.answers = attempt[a].answers
  BY <1>t, <1>1 DEF RequestIsSound, Scoring, At
<1> HIDE DEF row, s
<1>5. next \in Request /\ next.pc = "finish" /\ next.attempt = a /\ next.row = row /\ next.status = s
  BY <1>t, <1>3 DEF Request, Stages
<1>6. \/ req' = [req EXCEPT ![r] = Blank]
      \/ req' = [req EXCEPT ![r] = next] /\ (row.status = "IN_PROGRESS" => Full(row.answers))
  BY <1>t, <1>1
<1> HIDE DEF next, a
<1>7. ASSUME req' = [req EXCEPT ![r] = Blank] PROVE IInv'
  BY <1>7, <1>1, EmptyRecords, WriteStep DEF Done, TypeOK, StatusHasProfile
<1>8. ASSUME req' = [req EXCEPT ![r] = next], row.status = "IN_PROGRESS" => Full(row.answers)
      PROVE  IInv'
  <2>1. req'[r] = next /\ req' = [req EXCEPT ![r] = req'[r]]
    BY <1>t, <1>8
  <2>2. RequestIsSound(r)'
    BY <1>1, <1>2, <1>3, <1>4, <1>5, <1>8, <2>1 DEF RequestIsSound, At, Scoring
  <2> QED BY <1>1, <1>5, <2>1, <2>2, ReadStep
<1> QED BY <1>6, <1>7, <1>8

LEMMA CompleteStep ==
  ASSUME IInv, NEW r \in Reqs, Complete(r)
  PROVE  IInv'
<1> USE DEF IInv
<1>t. /\ req \in [Reqs -> Request] /\ req[r] \in Request /\ attempt \in [Attempts -> Attempt]
      /\ RequestIsSound(r) /\ RequestsAreSound /\ At(r, "finish") /\ req' = [req EXCEPT ![r] = Blank]
      /\ UNCHANGED <<overtaken, doubled>>
  BY DEF TypeOK, RequestsAreSound, Complete, Done
<1>1. ASSUME req[r].row.status # "IN_PROGRESS" PROVE IInv'
  BY <1>1, WriteStep DEF Complete, TypeOK, StatusHasProfile
<1>2. ASSUME req[r].row.status = "IN_PROGRESS" PROVE IInv'
  <2> DEFINE a == req[r].attempt
             answers == req[r].row.answers
             type == Predict(answers)
  <2>1. /\ a \in Attempts /\ answers \in Answers /\ Full(answers) /\ req[r].status \in Statuses
        /\ a \in overtaken \/ answers = attempt[a].answers
    BY <1>t, <1>2 DEF RequestIsSound, At, Scoring, Request, Attempt
  <2>2. type \in Types
    BY <2>1, OnboardingAssumption
  <2>3. /\ attempt' = [attempt EXCEPT ![a].status = "COMPLETED", ![a].type = type]
        /\ profile' = [type |-> type, source |-> "FINDER_RESULT", basis |-> answers]
        /\ status' = AfterChoice(req[r].status)
    BY <1>2 DEF Complete, Scored
  <2>4. profile' \in Profile /\ profile' # NoProfile /\ Fits(profile')
    <3>1. profile'.type = type /\ profile'.source = "FINDER_RESULT" /\ profile'.basis = answers
      BY <2>3
    <3>2. profile' \in Profile
      BY <2>1, <2>2, <2>3 DEF Profile, Sources
    <3> QED BY <3>1, <3>2, EmptyRecords DEF Fits
  <2>5. status' \in Statuses
    BY <2>1, <2>3 DEF AfterChoice, Statuses
  <2>6. attempt'[a] = [attempt[a] EXCEPT !.status = "COMPLETED", !.type = type]
        /\ \A b \in Attempts \ {a} : attempt'[b] = attempt[b]
    BY <1>t, <2>1, <2>3
  <2>7. /\ attempt'[a] \in Attempt /\ attempt'[a].status = "COMPLETED"
        /\ attempt'[a].type = type /\ attempt'[a].answers = attempt[a].answers
    <3>1. attempt[a] \in Attempt
      BY <1>t, <2>1
    <3> HIDE DEF type, a
    <3> QED BY <2>2, <2>6, <3>1 DEF Attempt
  <2>8. attempt' \in [Attempts -> Attempt]
    BY <1>t, <2>1, <2>3, <2>6, <2>7
  <2>9. req'[r] = Blank /\ req' = [req EXCEPT ![r] = req'[r]]
        /\ \A q \in Reqs \ {r} : req'[q] = req[q]
    BY <1>t
  <2>10. RequestIsSound(r)'
    BY <2>9, EmptyRecords DEF RequestIsSound, At, Scoring
  <2> HIDE DEF a, answers, type
  <2>11. ASSUME NEW q \in Reqs \ {r}, Scoring(q)
         PROVE  attempt'[req[q].attempt].answers = attempt[req[q].attempt].answers
    <3>1. req[q].attempt \in Attempts
      BY <1>t, <2>11 DEF RequestsAreSound, RequestIsSound
    <3> QED BY <2>6, <2>7, <3>1
  <2>12. \A b \in Attempts : attempt[b].status # "unborn" => attempt'[b].status # "unborn"
    BY <2>6, <2>7
  <2>13. TypeOK' /\ RequestsAreSound'
    BY <1>t, <2>4, <2>5, <2>8, <2>9, <2>10, <2>11, <2>12, EmptyRecords, RequestsStaySound DEF TypeOK
  <2>14. StatusHasProfile' /\ Fits(profile)'
    BY <2>4 DEF StatusHasProfile, Fits
  <2>15. PredictionIsOfTheAnswers'
    BY <1>t, <2>1, <2>6, <2>7 DEF PredictionIsOfTheAnswers, type
  <2>16. OneAttempt'
    <3>1. InProgress' \subseteq InProgress
      BY <2>6, <2>7 DEF InProgress
    <3> QED BY <1>t, <2>9, <3>1, EmptyRecords DEF OneAttempt, At
  <2> QED BY <2>13, <2>14, <2>15, <2>16
<1> QED BY <1>1, <1>2

(* The steps of the calendar, and a request that dies.                      *)
LEMMA CalendarSteps ==
  ASSUME IInv, NEW r \in Reqs,
         ConnectRead(r) \/ SkipRead(r) \/ ConnectWrite(r) \/ SkipWrite(r) \/ Abort(r)
  PROVE  IInv'
<1> USE DEF IInv
<1>t. /\ req \in [Reqs -> Request] /\ status \in Statuses /\ profile \in Profile \cup {NoProfile}
      /\ RequestIsSound(r) /\ StatusHasProfile
  BY DEF TypeOK, RequestsAreSound
<1>1. ASSUME NEW pc \in {"connect", "skip"}, CalendarReady(status),
             req' = [req EXCEPT ![r] = [Blank EXCEPT !.pc = pc, !.status = status]],
             UNCHANGED <<status, profile, attempt, overtaken, doubled>>
      PROVE  IInv'
  <2> DEFINE next == [Blank EXCEPT !.pc = pc, !.status = status]
  <2>1. next \in Request /\ next.pc = pc /\ next.status = status
    BY <1>t, EmptyRecords DEF Request, Stages
  <2> HIDE DEF next
  <2>2. req'[r] = next /\ req' = [req EXCEPT ![r] = req'[r]]
    BY <1>t, <1>1 DEF next
  <2>3. Advanced(status) /\ profile # NoProfile
    BY <1>t, <1>1 DEF CalendarReady, Advanced, Statuses, StatusHasProfile
  <2>4. RequestIsSound(r)'
    BY <1>t, <1>1, <2>1, <2>2, <2>3 DEF RequestIsSound, At, Scoring, Advanced
  <2> QED BY <1>1, <2>1, <2>2, <2>4, ReadStep
<1>2. ASSUME req[r].pc \in {"connect", "skip"}, Done(r), status' \in Statuses,
             UNCHANGED <<profile, attempt, overtaken, doubled>>
      PROVE  IInv'
  <2>1. profile # NoProfile
    BY <1>t, <1>2 DEF RequestIsSound
  <2> QED BY <1>t, <1>2, <2>1, WriteStep
<1>3. CASE ConnectRead(r)
  BY <1>1, <1>3 DEF ConnectRead
<1>4. CASE SkipRead(r)
  BY <1>1, <1>4 DEF SkipRead
<1>5. CASE ConnectWrite(r)
  <2>1. req[r].pc = "connect" /\ req[r].status \in Statuses
    BY <1>t, <1>5 DEF ConnectWrite, At, RequestIsSound
  <2> QED BY <1>2, <1>5, <2>1 DEF ConnectWrite, AfterConnect, Statuses
<1>6. CASE SkipWrite(r)
  BY <1>2, <1>6 DEF SkipWrite, At, Statuses
<1>7. CASE Abort(r)
  BY <1>t, <1>7, WriteStep DEF Abort, StatusHasProfile
<1> QED BY <1>3, <1>4, <1>5, <1>6, <1>7

(* The invariant is inductive.                                              *)
LEMMA StepHolds == IInv /\ [Next]_vars => IInv'
<1> SUFFICES ASSUME IInv, [Next]_vars PROVE IInv'
  OBVIOUS
<1>1. ASSUME NEW r \in Reqs, Begin(r) PROVE IInv'
  BY <1>1, ProfileSteps, StartSteps, SubmitSteps, CompleteReadStep, CalendarSteps DEF Begin
<1>2. ASSUME NEW r \in Reqs, Continue(r) PROVE IInv'
  BY <1>2, ProfileSteps, StartSteps, SubmitSteps, CompleteCheckStep, CompleteStep, CalendarSteps
     DEF Continue
<1>3. CASE UNCHANGED vars
  BY <1>3 DEF vars, IInv, TypeOK, RequestsAreSound, RequestIsSound, At, Scoring, StatusHasProfile,
     Fits, PredictionIsOfTheAnswers, OneAttempt, InProgress
<1> QED BY <1>1, <1>2, <1>3, CalendarSteps DEF Next

LEMMA Invariance == Spec => []IInv
<1> QED BY InitHolds, StepHolds, PTL DEF Spec

(* Every variable keeps its type.                                           *)
THEOREM TypeCorrect == Spec => []TypeOK
<1>1. IInv => TypeOK
  BY DEF IInv
<1> QED BY Invariance, <1>1, PTL

(* Whoever is sent past the choice of a type has a type, however many       *)
(* requests write the status and the profile from what they read before.    *)
THEOREM ProfileBeforeTheStep == Spec => []StepsHaveTheirProfile
<1>1. IInv => StepsHaveTheirProfile
  <2> SUFFICES ASSUME IInv, Bootstrap.step \in {"CALENDAR_CONNECT", "HOME"}
               PROVE  Bootstrap.profile
    BY DEF StepsHaveTheirProfile
  <2>1. status \in Statuses /\ Bootstrap.step = NextStep(status)
    BY DEF IInv, TypeOK, Bootstrap
  <2>2. Advanced(status)
    BY <2>1 DEF NextStep, Advanced, Statuses
  <2> QED BY <2>2 DEF IInv, StatusHasProfile, Bootstrap
<1> QED BY Invariance, <1>1, PTL

(* The confidence that is shown was computed for the type it is shown with.  *)
THEOREM ConfidenceFits == Spec => []ConfidenceIsOfTheType
<1>1. IInv => ConfidenceIsOfTheType
  BY DEF IInv, Fits, ConfidenceIsOfTheType
<1> QED BY Invariance, <1>1, PTL

(* A completed attempt predicts what its answers say, unless it was         *)
(* overtaken.                                                               *)
THEOREM PredictionFits == Spec => []PredictionIsOfTheAnswers
<1>1. IInv => PredictionIsOfTheAnswers
  BY DEF IInv
<1> QED BY Invariance, <1>1, PTL

(* Only starts that cross leave two attempts in progress.                   *)
THEOREM OneAttemptAtATime == Spec => []OneAttemptUnlessDoubled
<1>1. IInv => OneAttemptUnlessDoubled
  <2> SUFFICES ASSUME IInv, ~doubled PROVE Cardinality(InProgress) <= 1
    BY DEF OneAttemptUnlessDoubled
  <2>1. \A a, b \in InProgress : a = b
    BY DEF IInv, OneAttempt
  <2>2. CASE InProgress = {}
    BY <2>2, FS_EmptySet
  <2>3. CASE InProgress # {}
    <3>1. PICK a \in InProgress : InProgress = {a}
      BY <2>1, <2>3
    <3>2. Cardinality({a}) = 1
      BY FS_Singleton
    <3> QED BY <3>1, <3>2
  <2> QED BY <2>2, <2>3
<1> QED BY Invariance, <1>1, PTL

(* The statuses are ordered, and no operation writes less than it read.     *)
LEMMA OperationsAdvance ==
  ASSUME NEW s \in Statuses
  PROVE  /\ Rank(s) \in 0 .. 3
         /\ Rank(AfterChoice(s)) >= Rank(s) /\ Rank(AfterConfirm(s)) >= Rank(s)
         /\ Rank(AfterConnect(s)) >= Rank(s) /\ Rank("COMPLETED") >= Rank(s)
<1>1. Rank("AUTH_ONLY") = 0 /\ Rank("MBTI_PENDING") = 1
      /\ Rank("CALENDAR_PENDING") = 2 /\ Rank("COMPLETED") = 3
  BY DEF Rank
<1> QED BY <1>1 DEF Statuses, AfterChoice, AfterConfirm, AfterConnect

(* Onboarding goes back only when a request writes what it read before the   *)
(* user got further.                                                         *)
THEOREM BackOnlyStale == Spec => OnboardingGoesBackOnlyStale
<1> DEFINE Fresh == \A r \in Reqs : req[r].status = Nothing \/ Rank(req[r].status) >= Rank(status)
<1>1. IInv /\ [Next]_vars => [Fresh => Rank(status') >= Rank(status)]_vars
  <2> SUFFICES ASSUME IInv, Next, Fresh PROVE Rank(status') >= Rank(status)
    BY DEF vars
  <2>t. status \in Statuses /\ Rank(status) \in 0 .. 3
    BY OperationsAdvance DEF IInv, TypeOK
  <2>1. CASE status' = status
    BY <2>1, <2>t
  <2>2. ASSUME NEW r \in Reqs, NEW s \in Statuses, req[r].status = s,
               status' \in {AfterChoice(s), AfterConfirm(s), AfterConnect(s), "COMPLETED"}
        PROVE  Rank(status') >= Rank(status)
    <3>1. Nothing \notin Statuses
      BY OnboardingAssumption
    <3>2. Rank(s) >= Rank(status)
      BY <2>2, <3>1
    <3>3. Rank(s) \in 0 .. 3 /\ status' \in Statuses /\ Rank(status') >= Rank(s)
      BY <2>2, OperationsAdvance DEF AfterChoice, AfterConfirm, AfterConnect, Statuses
    <3>4. Rank(status') \in 0 .. 3
      BY <3>3, OperationsAdvance
    <3> QED BY <2>t, <3>2, <3>3, <3>4
  <2>3. ASSUME NEW r \in Reqs, status' # status
        PROVE  /\ Continue(r) => req[r].status \in Statuses
               /\ Continue(r) => status' \in {AfterChoice(req[r].status), AfterConfirm(req[r].status),
                                              AfterConnect(req[r].status), "COMPLETED"}
    <3>1. RequestIsSound(r)
      BY DEF IInv, RequestsAreSound
    <3> QED BY <2>3, <3>1 DEF Continue, SelectWrite, SubmitWrite, CompleteCheck, Complete, ConfirmWrite,
               ConnectWrite, SkipWrite, StartCreate, RequestIsSound, At
  <2>4. \A r \in Reqs : Begin(r) \/ Abort(r) => status' = status
    BY DEF Begin, Abort, SelectRead, ConfirmRead, StartFind, ConnectRead, SkipRead, CompleteRead,
       SubmitRead
  <2> QED BY <2>1, <2>2, <2>3, <2>4 DEF Next
<1> QED BY Invariance, <1>1, PTL DEF Spec, OnboardingGoesBackOnlyStale
=============================================================================
