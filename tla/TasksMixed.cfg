SPECIFICATION Spec
CONSTANTS
  Tasks = {t1, t2}
  Titles = {"run"}
  Days = {"mon"}
  Routines = {"run", "gym"}
  Cadence <- MCCadence
  Creates <- MCCreates
  Updates <- MCUpdates
  Reqs = {r1, r2}
  NoTask = NoTask
  NoTitle = NoTitle
  NoDay = NoDay
  NoRoutine = NoRoutine
  Keep = Keep
SYMMETRY Symmetry
INVARIANT DoneIffCompleted
INVARIANT OneTaskPerRoutineDay
PROPERTY FinishedIsNotScheduled
PROPERTY DoneIsNotSkipped
CHECK_DEADLOCK FALSE
