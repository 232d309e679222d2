------------------------------ MODULE Onboarding ------------------------------
(***************************************************************************)
(* Onboarding of one user: MbtiService, which keeps the user's type and    *)
(* the attempts at the in-app finder, the two operations of the calendar   *)
(* that advance the onboarding status, and what AppService tells a client  *)
(* that starts.                                                            *)
(*                                                                         *)
(* Every operation reads the status first and writes, in a transaction of  *)
(* its own, what it computed from it.  A request is one action per read    *)
(* and one per transaction.  An attempt's answers are a partial function;  *)
(* the scoring is the constant Predict here and is defined in Finder.      *)
(* Confidence and finder version of a profile come from one scoring and    *)
(* are kept as the answers it was computed from; isUserConfirmed, which    *)
(* only the client reads, is left out.  One question set: an attempt of    *)
(* another version never meets these.                                      *)
(***************************************************************************)
EXTENDS Integers, FiniteSets

CONSTANTS
  Types,      \* the types of the catalog
  Questions,  \* of the question set
  Values,     \* of an answer
  Predict(_), \* scoreAttempt: the predicted type of a full set of answers
  Inputs,     \* the answers clients submit together
  Attempts,   \* the attempt ids the database will produce
  Reqs,       \* request slots
  NoType, NoAttempt, NoValue, Nothing

Answers == [Questions -> Values \cup {NoValue}]
Statuses == {"AUTH_ONLY", "MBTI_PENDING", "CALENDAR_PENDING", "COMPLETED"}

ASSUME OnboardingAssumption ==
  /\ NoType \notin Types /\ NoAttempt \notin Attempts
  /\ NoValue \notin Values /\ Nothing \notin Answers \cup Statuses
  /\ Inputs \subseteq Answers
  /\ \A answers \in Answers : Predict(answers) \in Types

VARIABLES
  status,     \* users.onboarding_status
  profile,    \* the row of mbti_profiles, or NoProfile
  attempt,    \* rows of mbti_finder_attempts with their answers
  req         \* the requests in flight

\* History: attempts whose answers changed while they were being completed or
\* after that; whether two requests started attempts at once.
VARIABLES overtaken, doubled

vars == <<status, profile, attempt, req, overtaken, doubled>>

-----------------------------------------------------------------------------
Rank(s) == CASE s = "AUTH_ONLY" -> 0 [] s = "MBTI_PENDING" -> 1
             [] s = "CALENDAR_PENDING" -> 2 [] s = "COMPLETED" -> 3
Sources == {"SELF_SELECTED", "FINDER_RESULT"}

NoAnswers == [q \in Questions |-> NoValue]
Full(answers) == \A q \in Questions : answers[q] # NoValue

Profile == [type : Types, source : Sources, basis : Answers \cup {Nothing}]
NoProfile == [type |-> NoType, source |-> "SELF_SELECTED", basis |-> Nothing]
Attempt == [status : {"unborn", "IN_PROGRESS", "COMPLETED"}, answers : Answers, type : Types \cup {NoType}]
Unborn == [status |-> "unborn", answers |-> NoAnswers, type |-> NoType]

Stages == {"idle", "select", "start", "submit", "complete", "finish", "confirm",
           "connect", "skip"}
\* A request in flight: the status, profile and attempt it read, and its input.
Blank == [pc |-> "idle", status |-> Nothing, seen |-> NoProfile, type |-> NoType,
          source |-> "SELF_SELECTED", attempt |-> NoAttempt, row |-> Unborn,
          input |-> NoAnswers]
Request == [pc : Stages, status : Statuses \cup {Nothing}, seen : Profile \cup {NoProfile},
            type : Types \cup {NoType}, source : Sources,
            attempt : Attempts \cup {NoAttempt}, row : Attempt, input : Answers]

At(r, pc) == req[r].pc = pc
Done(r) == req' = [req EXCEPT ![r] = Blank]

-----------------------------------------------------------------------------
(* toOnboardingState: the next step a client is sent to.                    *)
NextStep(s) == CASE s \in {"AUTH_ONLY", "MBTI_PENDING"} -> "MBTI_ENTRY"
                 [] s = "CALENDAR_PENDING" -> "CALENDAR_CONNECT"
                 [] s = "COMPLETED" -> "HOME"

(* getBootstrap: the step and whether a profile comes with it.              *)
Bootstrap == [step |-> NextStep(status), profile |-> profile # NoProfile]

(* selfSelectProfile and completeFinderAttempt: the status after a choice   *)
(* that is still to be confirmed.                                           *)
AfterChoice(s) == IF s = "AUTH_ONLY" THEN "MBTI_PENDING" ELSE s

\* Fault: a confirmation by a user who has long finished starts over.
AfterConfirmAlways(s) == "CALENDAR_PENDING"
(* confirmProfile: the status after a confirmation.                         *)
AfterConfirm(s) == IF s = "COMPLETED" THEN "COMPLETED" ELSE "CALENDAR_PENDING"

(* completeOAuthConnection: the status saved with a connection.             *)
AfterConnect(s) == IF s = "CALENDAR_PENDING" THEN "COMPLETED" ELSE s

-----------------------------------------------------------------------------
(* selfSelectProfile.                                                       *)
SelectRead(r, t) ==
  /\ At(r, "idle")
  /\ req' = [req EXCEPT ![r] = [Blank EXCEPT !.pc = "select", !.status = status, !.type = t]]
  /\ UNCHANGED <<status, profile, attempt, overtaken, doubled>>

SelectWrite(r) ==
  /\ At(r, "select")
  /\ profile' = [type |-> req[r].type, source |-> "SELF_SELECTED", basis |-> Nothing]
  /\ status' = AfterChoice(req[r].status)
  /\ Done(r)
  /\ UNCHANGED <<attempt, overtaken, doubled>>

-----------------------------------------------------------------------------
InProgress == {a \in Attempts : attempt[a].status = "IN_PROGRESS"}

\* Fault: every start creates an attempt.
ResumableNever == {}
(* startFinderAttempt: the attempts a start finds.                          *)
Resumable == InProgress

(* startFinderAttempt: an attempt in progress is resumed, which changes     *)
(* nothing here; otherwise the request goes on to create one.               *)
StartFind(r) ==
  /\ At(r, "idle") /\ Resumable = {}
  /\ req' = [req EXCEPT ![r] = [Blank EXCEPT !.pc = "start"]]
  /\ UNCHANGED <<status, profile, attempt, overtaken, doubled>>

StartCreate(r, a) ==
  /\ At(r, "start") /\ attempt[a].status = "unborn"
  /\ attempt' = [attempt EXCEPT ![a] = [Unborn EXCEPT !.status = "IN_PROGRESS"]]
  /\ Done(r)
  /\ doubled' = (doubled \/ \E q \in Reqs \ {r} : At(q, "start"))
  /\ UNCHANGED <<status, profile, overtaken>>

\* Fault: any attempt takes answers.
TakesAnswersAlways(a) == attempt[a].status # "unborn"
(* submitFinderAnswers: only an attempt in progress takes answers.          *)
TakesAnswers(a) == attempt[a].status = "IN_PROGRESS"

(* submitFinderAnswers: the attempt and the refusals; unknown or repeated   *)
(* questions cannot be written down here.                                   *)
SubmitRead(r, a, input) ==
  /\ At(r, "idle") /\ TakesAnswers(a)
  /\ req' = [req EXCEPT ![r] = [Blank EXCEPT !.pc = "submit", !.attempt = a,
               !.row = [Unborn EXCEPT !.status = attempt[a].status], !.input = input]]
  /\ UNCHANGED <<status, profile, attempt, overtaken, doubled>>

\* The answers after an upsert per submitted question.
Merge(answers, input) ==
  [q \in Questions |-> IF input[q] # NoValue THEN input[q] ELSE answers[q]]

\* Some request has read the answers of a to complete it.
Completing(a) == \E r \in Reqs : /\ req[r].pc \in {"complete", "finish"}
                                 /\ req[r].attempt = a /\ req[r].row.status = "IN_PROGRESS"

(* The transaction of submitFinderAnswers, by attempt id.                   *)
SubmitWrite(r) ==
  LET a == req[r].attempt IN
  /\ At(r, "submit")
  /\ attempt' = [attempt EXCEPT ![a].answers = Merge(attempt[a].answers, req[r].input)]
  /\ overtaken' = IF \/ Completing(a)
                     \/ attempt[a].status = "COMPLETED" /\ req[r].row.status = "IN_PROGRESS"
                  THEN overtaken \cup {a} ELSE overtaken
  /\ Done(r)
  /\ UNCHANGED <<status, profile, doubled>>

-----------------------------------------------------------------------------
(* completeFinderAttempt: the user and the attempt are read by two          *)
(* statements sent at once; either may be the first.                        *)
CompleteRead(r, a) ==
  /\ At(r, "idle") /\ attempt[a].status # "unborn"
  /\ \/ req' = [req EXCEPT ![r] = [Blank EXCEPT !.pc = "complete", !.attempt = a,
                                                !.status = status]]
     \/ req' = [req EXCEPT ![r] = [Blank EXCEPT !.pc = "complete", !.attempt = a,
                                                !.row = attempt[a]]]
  /\ UNCHANGED <<status, profile, attempt, overtaken, doubled>>

(* The other of the two is there: unless all is answered, or the attempt    *)
(* was completed before, the request is refused.                            *)
CompleteCheck(r) ==
  LET row == IF req[r].row = Unborn THEN attempt[req[r].attempt] ELSE req[r].row
      s == IF req[r].row = Unborn THEN req[r].status ELSE status
  IN /\ At(r, "complete")
     /\ IF row.status = "IN_PROGRESS" /\ ~Full(row.answers)
        THEN Done(r)
        ELSE req' = [req EXCEPT ![r].pc = "finish", ![r].row = row, ![r].status = s]
     /\ UNCHANGED <<status, profile, attempt, overtaken, doubled>>

(* scoreAttempt is given the answers as they were read.                     *)
Scored(r) == req[r].row.answers

(* completeFinderAttempt: the attempt, the profile and the status in one    *)
(* transaction; an attempt that was completed before is only scored again.  *)
Complete(r) ==
  /\ At(r, "finish")
  /\ IF req[r].row.status = "IN_PROGRESS"
     THEN LET type == Predict(Scored(r)) IN
       /\ attempt' = [attempt EXCEPT ![req[r].attempt].status = "COMPLETED",
                                     ![req[r].attempt].type = type]
       /\ profile' = [type |-> type, source |-> "FINDER_RESULT", basis |-> Scored(r)]
       /\ status' = AfterChoice(req[r].status)
     ELSE UNCHANGED <<attempt, profile, status>>
  /\ Done(r)
  /\ UNCHANGED <<overtaken, doubled>>

-----------------------------------------------------------------------------
(* confirmProfile.                                                          *)
ConfirmRead(r, t, source) ==
  /\ At(r, "idle")
  /\ req' = [req EXCEPT ![r] = [Blank EXCEPT !.pc = "confirm", !.status = status,
                               !.seen = profile, !.type = t, !.source = source]]
  /\ UNCHANGED <<status, profile, attempt, overtaken, doubled>>

\* Fault: the type is not compared.
ReusesAnyResult(r) ==
  req[r].source = "FINDER_RESULT" /\ req[r].seen # NoProfile /\ req[r].seen.source = "FINDER_RESULT"
(* confirmProfile: the confirmation is of the finder result that was read.  *)
ReusesResult(r) ==
  /\ req[r].source = "FINDER_RESULT"
  /\ req[r].seen # NoProfile /\ req[r].seen.source = "FINDER_RESULT"
  /\ req[r].seen.type = req[r].type

(* The profile that a confirmation stores.                                  *)
Confirmed(r) ==
  [type |-> req[r].type, source |-> req[r].source,
   basis |-> IF ReusesResult(r) THEN req[r].seen.basis ELSE Nothing]

ConfirmWrite(r) ==
  /\ At(r, "confirm")
  /\ profile' = Confirmed(r)
  /\ status' = AfterConfirm(req[r].status)
  /\ Done(r)
  /\ UNCHANGED <<attempt, overtaken, doubled>>

-----------------------------------------------------------------------------
\* Fault: the calendar may be skipped by a user who has no type yet.
CalendarReadyAlways(s) == TRUE
(* completeOAuthConnection and skipCalendarOnboarding: refused before the   *)
(* type is confirmed.                                                       *)
CalendarReady(s) == s \notin {"AUTH_ONLY", "MBTI_PENDING"}

(* The callback of the calendar's OAuth flow (the module Calendar): the     *)
(* status is read before the code is exchanged and written with the         *)
(* connection.                                                              *)
ConnectRead(r) ==
  /\ At(r, "idle") /\ CalendarReady(status)
  /\ req' = [req EXCEPT ![r] = [Blank EXCEPT !.pc = "connect", !.status = status]]
  /\ UNCHANGED <<status, profile, attempt, overtaken, doubled>>

ConnectWrite(r) ==
  /\ At(r, "connect")
  /\ status' = AfterConnect(req[r].status)
  /\ Done(r)
  /\ UNCHANGED <<profile, attempt, overtaken, doubled>>

(* skipCalendarOnboarding.                                                  *)
SkipRead(r) ==
  /\ At(r, "idle") /\ CalendarReady(status)
  /\ req' = [req EXCEPT ![r] = [Blank EXCEPT !.pc = "skip", !.status = status]]
  /\ UNCHANGED <<status, profile, attempt, overtaken, doubled>>

SkipWrite(r) ==
  /\ At(r, "skip")
  /\ status' = "COMPLETED"
  /\ Done(r)
  /\ UNCHANGED <<profile, attempt, overtaken, doubled>>

(* The process of a request dies, or its transaction is rolled back.        *)
Abort(r) ==
  /\ ~At(r, "idle") /\ Done(r)
  /\ UNCHANGED <<status, profile, attempt, overtaken, doubled>>

Init ==
  /\ status \in {"AUTH_ONLY", "MBTI_PENDING"}
  /\ profile = NoProfile
  /\ attempt = [a \in Attempts |-> Unborn]
  /\ req = [r \in Reqs |-> Blank]
  /\ overtaken = {} /\ doubled = FALSE

Begin(r) ==
  \/ \E t \in Types : SelectRead(r, t) \/ \E source \in Sources : ConfirmRead(r, t, source)
  \/ StartFind(r) \/ ConnectRead(r) \/ SkipRead(r)
  \/ \E a \in Attempts : CompleteRead(r, a) \/ \E input \in Inputs : SubmitRead(r, a, input)

Continue(r) ==
  \/ SelectWrite(r) \/ SubmitWrite(r) \/ CompleteCheck(r) \/ Complete(r)
  \/ ConfirmWrite(r) \/ ConnectWrite(r) \/ SkipWrite(r)
  \/ \E a \in Attempts : StartCreate(r, a)

Next == \E r \in Reqs : Begin(r) \/ Continue(r) \/ Abort(r)

Spec == Init /\ [][Next]_vars

-----------------------------------------------------------------------------
(* Types.                                                                   *)
TypeOK ==
  /\ status \in Statuses
  /\ profile \in Profile \cup {NoProfile}
  /\ attempt \in [Attempts -> Attempt]
  /\ req \in [Reqs -> Request]
  /\ overtaken \in SUBSET Attempts
  /\ doubled \in BOOLEAN

(* Whoever is sent past the choice of a type has a type: the status never   *)
(* runs ahead of the profile, though five operations write one or both from  *)
(* stale reads.                                                              *)
StepsHaveTheirProfile ==
  Bootstrap.step \in {"CALENDAR_CONNECT", "HOME"} => Bootstrap.profile

(* The confidence shown with a type was computed for that type, also when a  *)
(* confirmation and another attempt or choice overlap.                       *)
ConfidenceIsOfTheType ==
  profile.basis # Nothing => profile.source = "FINDER_RESULT" /\ profile.type = Predict(profile.basis)

(* A completed attempt predicts what its answers say, unless answers came    *)
(* in while it was being completed or from a request that read it before.    *)
PredictionIsOfTheAnswers ==
  \A a \in Attempts : attempt[a].status = "COMPLETED" /\ a \notin overtaken
                        => Full(attempt[a].answers) /\ attempt[a].type = Predict(attempt[a].answers)

(* A user works on one attempt at a time, unless two starts crossed: the     *)
(* find and the create of a start are two statements and no key forbids a    *)
(* second row.                                                               *)
OneAttemptUnlessDoubled == doubled \/ Cardinality(InProgress) <= 1

(* Onboarding goes back only when a request writes what it read before the   *)
(* user got further; with no such request in flight it never does.           *)
OnboardingGoesBackOnlyStale ==
  [][(\A r \in Reqs : req[r].status = Nothing \/ Rank(req[r].status) >= Rank(status))
        => Rank(status') >= Rank(status)]_vars
=============================================================================
