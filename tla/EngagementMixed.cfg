SPECIFICATION MCSpec
CONSTANTS
  Keys = {k1, k2, k3}
  Scores <- MCScores
  Reactions <- MCReactions
  Curated = {"OVERAROUSED", "LOW_MOOD"}
  HasKey = TRUE
  Reqs = {r1, r2}
  MaxDay = 3
  MaxChecks = 3
  NoState = NoState
  NoKey = NoKey
  QuestionSets <- MCQuestionSets
  Routines <- MCRoutines
  DoneDays <- MCDoneDays
  OpenDays <- MCOpenDays
  Todays <- MCTodays
  GoalRows <- MCGoalRows
  Zones <- MCZones
  Rows = {1, 2, 3}
  RowKeys = {1, 2, 3}
  Limits = {1, 2}
  MaxTouches = 1
  Prefs = {"enabled", "quiet_hours"}
  PrefValues = {"on"}
  Locales = {"ko-KR"}
  KoKR = "ko-KR"
  Dates = {d1, d2}
  Clients = {r1, r2}
  MaxClock = 1
  Keep = Keep
SYMMETRY Symmetry
INVARIANT ReturnIsGreetedOnce
INVARIANT DismissalIsRespected
INVARIANT NoticeNeedsThreeLowChecks
INVARIANT FinderFollowsTheAnswers
INVARIANT StreakIsUnbroken
INVARIANT PaceIsOfTheRate
INVARIANT DaysPartitionTime
INVARIANT ListsAreExact
PROPERTY PatchesChangeWhatTheyName
CHECK_DEADLOCK FALSE
