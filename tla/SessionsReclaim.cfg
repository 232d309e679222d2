CONSTANTS
  Users = {u1}
  Sids = {s1, s2}
  Devices = {d1}
  Reqs = {r1, r2}
  Ops = {"login", "refresh", "logout", "logoutAll", "deleteUser"}
  TTL = 2
  MaxTokens = 2
  NoUser = NoUser
  NoSid = NoSid
  NoDevice = NoDevice
SPECIFICATION FairSpec
PROPERTIES
  IndexIsReclaimed
