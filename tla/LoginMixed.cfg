SPECIFICATION Spec
CONSTANTS
  s1 = s1
  s2 = s2
  e1 = e1
  k1 = k1
  Subjects = {s1, s2}
  Users = {u1, u2}
  Emails = {e1}
  Kids = {k1}
  Reqs = {r1, r2}
  Payloads <- MCPayloads
  Ops = {"deleteUser"}
  CacheTTL = 1
  FetchTime = 1
  MaxTime = 3
  NoUser = NoUser
  NoEmail = NoEmail
  NoKid = NoKid
  NoSubject = NoSubject
SYMMETRY Symmetry
INVARIANT UsersAreIdentities
INVARIANT SessionsAreOfTheSubject
PROPERTY WithdrawnKeyIsRefused
PROPERTY NewKeyIsFound
CHECK_DEADLOCK FALSE
