SPECIFICATION Spec
CONSTANTS
  Tasks = {"a", "b"}
  Workers = {w1, w2}
  TTL = 1
  MaxTime = 2
  MaxEdits = 2
  MaxCrashes = 1
INVARIANT SentOnceUnlessExcused
PROPERTY DueReminderIsSent
CHECK_DEADLOCK FALSE
