SPECIFICATION Spec
CONSTANTS
  Conns = {c1}
  Flows = {f1}
  Reqs = {r1, r2}
  Workers = {w1, w2}
  Jobs = {j1, j2}
  MaxGrants = 2
  MaxEdits = 0
  Ops = {"faults", "onboarding"}
  NoConn = NoConn
  NoFlow = NoFlow
  NoJob = NoJob
SYMMETRY Symmetry
INVARIANT SyncingIsPending
INVARIANT FlowIsSpent
INVARIANT CredentialsAreTheLastSaved
PROPERTY ImplementsLifecycle
CHECK_DEADLOCK FALSE
