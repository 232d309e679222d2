CONSTANTS
  Users = {u1}
  Sids = {s1}
  Devices = {d1}
  Reqs = {r1}
  Ops = {"login", "deleteUser"}
  TTL = 2
  MaxTokens = 1
  NoUser = NoUser
  NoSid = NoSid
  NoDevice = NoDevice
SPECIFICATION Spec
SYMMETRY Symmetry
INVARIANTS
  SweepLeavesNoOrphan
