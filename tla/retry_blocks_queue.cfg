SPECIFICATION FairSpec
CONSTANTS
  Jobs = {j1, j2}
  Workers = {w1}
  Clients = {c1}
  NoJob = NoJob
  Reposts = {}
  MaxRuns = 2
  Operations <- Retrying
  Crashes = FALSE
PROPERTIES JobsAreAnalysed
CHECK_DEADLOCK FALSE
