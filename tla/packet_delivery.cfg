SPECIFICATION FairSpec
CONSTANTS
  Jobs = {j1, j2}
  Workers = {w1, w2}
  Clients = {c1}
  NoJob = NoJob
  Concurrency = 2
  RetryLimit = 2
  MaxAttempts = 2
  Operations <- Delivering
  LeaseOutlivesWork = TRUE
INVARIANTS OneGenerator AttemptsBounded
PROPERTIES ImplementsLifecycle TasksSettle
CHECK_DEADLOCK FALSE
