---------------------------- MODULE RoutineStats ----------------------------
(***************************************************************************)
(* What RoutinesService answers about a routine: its streak, the weeks of  *)
(* one that is counted per week, and today's state.                        *)
(*                                                                         *)
(* A local date is the number of its day; day 0 is a Sunday.  The tasks of *)
(* a routine are functions from a date to the statuses of its tasks.       *)
(***************************************************************************)
EXTENDS Integers, FiniteSets

\* The days previousDueDateOnOrBefore looks back.
Lookback == 370

\* getUTCDay: 0 is Sunday.
DayOfWeek(d) == d % 7

(* isRoutineDueOn.                                                          *)
IsDueOn(routine, d) == routine.active /\ DayOfWeek(d) \in routine.daysOfWeek

(* timesPerWeekOf.                                                          *)
CountedPerWeek(routine) == routine.timesPerWeek > 0

HasDone(tasks, d) == d \in DOMAIN tasks /\ "DONE" \in tasks[d]

(* startOfWeek: weeks begin on Mondays.                                     *)
StartOfWeek(d) == d - ((DayOfWeek(d) + 6) % 7)

(* summarizeWeeks: countWeek.                                               *)
CountWeek(tasks, start) == Cardinality({d \in start .. start + 6 : HasDone(tasks, d)})

(* summarizeWeeks: this week and the weeks achieved in a row before it.     *)
SummarizeWeeks(routine, tasks, today) ==
  LET thisWeek == StartOfWeek(today)
      firstWeek == StartOfWeek(routine.created)
      Achieved(start) == CountWeek(tasks, start) >= routine.timesPerWeek
      run[start \in Int] ==
        IF start >= firstWeek /\ Achieved(start) THEN 1 + run[start - 7] ELSE 0
  IN [doneCount |-> CountWeek(tasks, thisWeek), achieved |-> Achieved(thisWeek),
      streak |-> (IF Achieved(thisWeek) THEN 1 ELSE 0) + run[thisWeek - 7]]

(* previousDueDateOnOrBefore: that date alone, or none.                     *)
PreviousDueDate(routine, d) ==
  {c \in d - Lookback + 1 .. d :
     IsDueOn(routine, c) /\ \A later \in c + 1 .. d : ~IsDueOn(routine, later)}

\* Fault: today counts as missed while it is open.
ForgivesNever(d, today) == FALSE
Forgives(d, today) == d = today

(* calculateStreak: due dates done in a row up to today, which may still be *)
(* open.  Each round looks at the due date on or before its cursor.         *)
CalculateStreak(routine, tasks, today) ==
  LET streak[cursor \in Int] ==
        LET due == PreviousDueDate(routine, cursor)
            d == CHOOSE c \in due : TRUE
        IN IF due = {} THEN 0
           ELSE IF HasDone(tasks, d) THEN 1 + streak[d - 1]
           ELSE IF Forgives(d, today) THEN streak[d - 1] ELSE 0
  IN streak[today]

(* toRoutineResponse, of what it computes.                                  *)
RoutineResponse(routine, tasks, today) ==
  LET weekly == SummarizeWeeks(routine, tasks, today)
  IN [streak |-> IF CountedPerWeek(routine) THEN weekly.streak
                 ELSE CalculateStreak(routine, tasks, today),
      weekDone |-> IF CountedPerWeek(routine) THEN weekly.doneCount ELSE 0,
      dueToday |-> IsDueOn(routine, today), generated |-> today \in DOMAIN tasks]

-----------------------------------------------------------------------------
\* References: the due dates done with none missed since, today apart; and the
\* weeks achieved with none missed since, from that of the routine's creation
\* on (or from the week asked about, if that is earlier).
UnbrokenDates(routine, tasks, today) ==
  {d \in DOMAIN tasks :
     /\ d <= today /\ IsDueOn(routine, d) /\ HasDone(tasks, d)
     /\ \A e \in d .. today - 1 : IsDueOn(routine, e) => HasDone(tasks, e)}

Monday(d) == CHOOSE m \in d - 6 .. d : m % 7 = 1
WeekDone(tasks, m) == Cardinality({d \in DOMAIN tasks : Monday(d) = m /\ "DONE" \in tasks[d]})
UnbrokenWeeks(routine, tasks, today) ==
  {m \in {Monday(today)} \cup (Monday(routine.created) .. today) :
     /\ m % 7 = 1 /\ WeekDone(tasks, m) >= routine.timesPerWeek
     /\ \A n \in m .. Monday(today) - 1 : n % 7 = 1 => WeekDone(tasks, n) >= routine.timesPerWeek}
=============================================================================
