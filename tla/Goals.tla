-------------------------------- MODULE Goals --------------------------------
(***************************************************************************)
(* GoalsService: the progress and the pace of a goal.                      *)
(*                                                                         *)
(* Values are in hundredths (Decimal with two digits), dates are day       *)
(* numbers.  The projected date comes from two divisions in floating       *)
(* point, so where the exact quotient is a whole number of days the result *)
(* may be rounded up to the next one: slip is 1 when it is.                *)
(***************************************************************************)
EXTENDS Integers

NoDate == -1

AtLeast(n, bound) == IF n < bound THEN bound ELSE n
AtMost(n, bound) == IF n > bound THEN bound ELSE n
DivUp(a, b) == (a + b - 1) \div b
DivRound(a, b) == (2 * a + b) \div (2 * b)

(* calculateProgress: elapsedDays.                                          *)
Elapsed(start, now) == AtLeast(now - start, 1)

(* calculateProgress: projectedCompletionDate.                              *)
Projected(goal, now, slip) ==
  LET days == goal.target * Elapsed(goal.start, now)
  IN IF goal.current <= 0 THEN NoDate
     ELSE goal.start + DivUp(days, goal.current)
          + (IF days % goal.current = 0 THEN slip ELSE 0)

\* Fault: the two dates of the difference are swapped.
DeltaSwapped(goal, projected) == goal.due - projected
(* targetDeltaDays.                                                         *)
Delta(goal, projected) == projected - goal.due

(* resolvePaceStatus.                                                       *)
PaceStatus(goal, projected) ==
  IF goal.status = "COMPLETED" \/ goal.current >= goal.target THEN "COMPLETED"
  ELSE IF projected = NoDate THEN "NOT_STARTED"
  ELSE IF goal.due = NoDate THEN "NO_TARGET_DATE"
  ELSE IF Delta(goal, projected) <= -3 THEN "AHEAD"
  ELSE IF Delta(goal, projected) >= 3 THEN "BEHIND"
  ELSE "ON_TRACK"

(* calculateProgress.                                                       *)
Progress(row, now, slip) ==
  LET goal == [row EXCEPT !.target = AtLeast(@, 1), !.current = AtLeast(@, 0)]
      projected == Projected(goal, now, slip)
  IN [percent |-> DivRound(100 * AtMost(goal.current, goal.target), goal.target),
      remaining |-> AtLeast(goal.target - goal.current, 0),
      elapsed |-> Elapsed(goal.start, now), projected |-> projected,
      pace |-> PaceStatus(goal, projected)]
=============================================================================
