SPECIFICATION Spec
CONSTANTS
  Jobs = {j1, j2}
  Workers = {w1, w2}
  Clients = {c1}
  NoJob = NoJob
  Reposts = {j1, j2}
  MaxRuns = 1
  Operations <- Curating
  Crashes = FALSE
INVARIANTS RepostsAreFlagged
CHECK_DEADLOCK FALSE
