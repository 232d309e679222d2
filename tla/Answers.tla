------------------------------- MODULE Answers -------------------------------
(***************************************************************************)
(* What the services compute without changing anything, over bounded       *)
(* inputs: the type of the finder, the streaks of a routine, the pace of a *)
(* goal, and the hours of a local date.  Each input is chosen once.        *)
(***************************************************************************)
EXTENDS Finder, RoutineStats, Goals, LocalDates, SequencesExt

CONSTANTS QuestionSets, \* sequences of questions
          Routines,     \* the routines of the bounded inputs
          DoneDays,     \* days on which a routine may have been done
          OpenDays,     \* days with an open task of it
          Todays,
          GoalRows, Zones

ASSUME AnswersAssumption ==
  /\ \A set \in QuestionSets :
       /\ set \in Seq(Question)
       /\ \A axis \in Axes : Cardinality({q \in DOMAIN set : set[q].axis = axis}) <= MaxAsked
  /\ Zones \subseteq Zone /\ Todays \subseteq Nat
  /\ GoalRows \subseteq [status : {"ACTIVE", "COMPLETED", "ARCHIVED"}, target : Nat, current : Nat,
                         start : Nat, due : Nat \cup {NoDate}]
  /\ Routines \subseteq [active : BOOLEAN, daysOfWeek : SUBSET (0 .. 6), timesPerWeek : Nat,
                         created : Nat]
  /\ DoneDays \subseteq Nat /\ OpenDays \subseteq Nat

NoInput == [kind |-> "none"]

VARIABLE input

AnswersInit == input = NoInput

AnswerFinder ==
  \E set \in QuestionSets : \E answers \in [DOMAIN set -> 1 .. 5] :
    input' = [kind |-> "finder", questions |-> set, answers |-> answers]

AnswerRoutine ==
  \E routine \in Routines, done \in SUBSET DoneDays, today \in Todays :
    input' = [kind |-> "routine", routine |-> routine, today |-> today,
              tasks |-> [d \in {e \in done \cup OpenDays : e <= today} |->
                           (IF d \in done THEN {"DONE"} ELSE {})
                           \cup (IF d \in OpenDays THEN {"PLANNED"} ELSE {})]]

AnswerGoal ==
  \E goal \in GoalRows, now \in Todays, slip \in 0 .. 1 :
    input' = [kind |-> "goal", goal |-> goal, now |-> now, slip |-> slip]

AnswerDate ==
  \E zone \in Zones : \E t \in zone.change - 30 .. zone.change + 30 :
    input' = [kind |-> "date", zone |-> zone, instant |-> t]

AnswersNext ==
  /\ input = NoInput
  /\ AnswerFinder \/ AnswerRoutine \/ AnswerGoal \/ AnswerDate

AnswersSpec == AnswersInit /\ [][AnswersNext]_input

-----------------------------------------------------------------------------
LettersFollow(type, leaning) ==
  \A axis \in Axes :
    /\ leaning[axis] > 0 => axis \in type
    /\ leaning[axis] < 0 => axis \notin type

AlternativesAreNext(result, scores) ==
  LET others == AllTypes \ {result.predicted}
      shown == ToSet(result.alternatives)
  IN /\ Cardinality(shown \cap others) = 2
     /\ \A type \in others \ shown : \A k \in 1 .. 2 :
          ScoreCandidate(type, scores) <= ScoreCandidate(result.alternatives[k], scores)

AnswersAreFull(questions, answers, leaning) ==
  /\ \A axis \in Axes : \E q \in DOMAIN questions : questions[q].axis = axis
  /\ \A q \in DOMAIN questions :
       Toward(questions[q], answers[q]) = IF leaning[questions[q].axis] > 0 THEN 5 ELSE 1

(* The predicted type has the letter the answers lean to on every axis that *)
(* they lean on; the alternatives are the types that give up the least of   *)
(* that leaning; and the confidence, never above 99%, is highest only if    *)
(* every axis is asked about and every answer is a full one to the same     *)
(* side of its axis.                                                        *)
FinderFollowsTheAnswers ==
  input.kind = "finder" =>
    LET result == ScoreAttempt(input.questions, input.answers)
        leaning == [axis \in Axes |-> Leaning(input.questions, input.answers, axis)]
    IN /\ LettersFollow(result.predicted, leaning)
       /\ AlternativesAreNext(result, AxisScores(input.questions, input.answers))
       /\ result.confidence \in Undecided .. Highest
       /\ result.confidence = Highest <=> AnswersAreFull(input.questions, input.answers, leaning)

(* The streak of a routine on days of the week is the number of its due     *)
(* dates done since the last one that was missed, where today is not missed *)
(* while it lasts; that of a routine counted per week is the number of its  *)
(* weeks, from Monday to Sunday and from the one it was created in (or the  *)
(* one asked about, if that is earlier), that reached the number since the  *)
(* last one that did not, where this week does not break it.                *)
StreakIsUnbroken ==
  input.kind = "routine" =>
    RoutineResponse(input.routine, input.tasks, input.today).streak
      = Cardinality(IF CountedPerWeek(input.routine)
                    THEN UnbrokenWeeks(input.routine, input.tasks, input.today)
                    ELSE UnbrokenDates(input.routine, input.tasks, input.today))

(* A goal is behind only if at its rate it is short of the target on the    *)
(* day after its date, ahead only if at its rate it is reached three days   *)
(* before it, and on track only if neither is so by more than the tolerance *)
(* and the day that floating point may add; and 100 percent are shown only  *)
(* when at most half a percent is left.                                     *)
PaceIsOfTheRate ==
  input.kind = "goal" =>
    LET goal == input.goal
        progress == Progress(goal, input.now, input.slip)
        pace == progress.pace
        days == IF input.now > goal.start THEN input.now - goal.start ELSE 1
        \* The target is reached by the day that is n after the goal's date.
        Reached(n) == goal.current * (goal.due + n - goal.start) >= goal.target * days
    IN /\ pace = "BEHIND" => ~Reached(1)
       /\ pace = "AHEAD" => Reached(-3)
       /\ pace = "ON_TRACK" => Reached(2) /\ ~Reached(-4)
       /\ progress.percent = 100 => 200 * progress.remaining <= goal.target

(* Where no midnight is skipped or repeated, an event of an hour is shown on *)
(* exactly the local date that the clock shows then: no event of a day of   *)
(* the clock change is lost or shown on two days.                           *)
DaysPartitionTime ==
  input.kind = "date" /\ MidnightsAreClear(input.zone) =>
    \A d \in LocalDate(input.zone, input.instant) - 2 .. LocalDate(input.zone, input.instant) + 2 :
      Shown(DayRange(input.zone, d), input.instant, input.instant + 1)
        <=> d = LocalDate(input.zone, input.instant)
=============================================================================
