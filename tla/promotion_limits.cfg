SPECIFICATION Spec
CONSTANTS
  Jobs <- ThreeJobs
  Threads = {t1, t2}
  CreatedAt <- OldestFirst
  Scores <- LowAndHigh
  FirstScore <- TwoHigh
  Capacity = 1
  Budget = 1
  AutoThreshold = 82
  ReviewThreshold = 70
  MaxEdits = 1
  MaxExpired = 2
SYMMETRY AnyThread
INVARIANTS CapacityHolds BudgetHolds EligibilityAgrees
CHECK_DEADLOCK FALSE
