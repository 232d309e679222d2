SPECIFICATION Spec
CONSTANTS
  intj = intj
  esfp = esfp
  q1 = q1
  q2 = q2
  no = no
  yes = yes
  Types = {intj, esfp}
  Questions = {q1, q2}
  Values = {no, yes}
  Predict <- MCPredict
  Inputs <- MCInputs
  Attempts = {a1, a2}
  Reqs = {r1, r2}
  NoType = NoType
  NoAttempt = NoAttempt
  NoValue = NoValue
  Nothing = Nothing
SYMMETRY Symmetry
INVARIANT StepsHaveTheirProfile
INVARIANT ConfidenceIsOfTheType
INVARIANT PredictionIsOfTheAnswers
INVARIANT OneAttemptUnlessDoubled
PROPERTY OnboardingGoesBackOnlyStale
CHECK_DEADLOCK FALSE
