SPECIFICATION Spec
CONSTANTS
  Jobs = {j1}
  Workers = {w1, w2}
  Clients = {c1, c2}
  NoJob = NoJob
  Concurrency = 2
  RetryLimit = 2
  MaxAttempts = 2
  Operations <- Contending
  LeaseOutlivesWork = FALSE
SYMMETRY Symmetric
INVARIANTS TypeOK TaskAndJobAgree ReadyHasPacket AttemptsAreOwned
PROPERTIES VerdictsStand
CHECK_DEADLOCK FALSE
