SPECIFICATION Spec
CONSTANTS
  Jobs = {j1}
  Workers = {w1, w2}
  Clients = {c1}
  NoJob = NoJob
  Reposts = {}
  MaxRuns = 2
  Operations <- Everything
  Crashes = TRUE
INVARIANTS TypeOK ScoredHasScore OneActiveRun
SYMMETRY Symmetric
CHECK_DEADLOCK FALSE
