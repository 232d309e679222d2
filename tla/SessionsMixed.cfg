CONSTANTS
  Users = {u1, u2}
  Sids = {s1, s2}
  Devices = {d1}
  Reqs = {r1, r2}
  Ops = {"login", "refresh", "logout", "logoutAll", "abort"}
  TTL = 2
  MaxTokens = 3
  NoUser = NoUser
  NoSid = NoSid
  NoDevice = NoDevice
SPECIFICATION Spec
SYMMETRY Symmetry
INVARIANTS
  UndisturbedSessionIsIndexed
PROPERTIES
  OnlyItsUserEndsASession
  SpentTokenStaysSpent
  GoneSessionStaysGone
