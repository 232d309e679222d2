SPECIFICATION FairSpec
CONSTANTS
  IdeaIds = {i1, i2}
  Tasks = {t1, t2, t3, t4}
  a = a
  b = b
  Contents = {a, b}
  Patches <- NoPatches
  Reqs = {r1, r2, r3}
  Ops = {"convert"}
  MaxTime = 1
  NoIdea = NoIdea
  NoTask = NoTask
  NoContent = NoContent
  Keep = Keep
PROPERTY ConversionSucceeds
CHECK_DEADLOCK FALSE
