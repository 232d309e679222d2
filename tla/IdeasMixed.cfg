SPECIFICATION Spec
CONSTANTS
  IdeaIds = {i1}
  Tasks = {t1, t2}
  a = a
  b = b
  Contents = {a, b}
  Patches <- MCPatches
  Reqs = {r1, r2}
  Ops = {"patch", "convert", "delete", "abort"}
  MaxTime = 3
  NoIdea = NoIdea
  NoTask = NoTask
  NoContent = NoContent
  Keep = Keep
SYMMETRY Symmetry
INVARIANT RowsAreConsistent
INVARIANT OneTaskPerIdea
INVARIANT TasksMatchUnlessClashed
PROPERTY ImplementsLifecycle
CHECK_DEADLOCK FALSE
