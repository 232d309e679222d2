SPECIFICATION FairSpec
CONSTANTS
  Conns = {c1}
  Flows = {f1}
  Reqs = {r1}
  Workers = {w1, w2}
  Jobs = {j1, j2}
  MaxGrants = 1
  MaxEdits = 1
  Ops = {"faults"}
  NoConn = NoConn
  NoFlow = NoFlow
  NoJob = NoJob
PROPERTIES
  SyncEnds
  EventsGoBackOnlyByOverlap
CHECK_DEADLOCK FALSE
