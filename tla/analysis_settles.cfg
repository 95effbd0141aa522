SPECIFICATION FairSpec
CONSTANTS
  Jobs = {j1}
  Workers = {w1}
  Clients = {c1}
  NoJob = NoJob
  Reposts = {}
  MaxRuns = 3
  Operations <- Curating
  Crashes = FALSE
PROPERTIES JobsAreAnalysed
CHECK_DEADLOCK FALSE
