SPECIFICATION FairSpec
CONSTANTS
  Jobs <- TwoJobs
  Threads = {t1, t2}
  CreatedAt <- OldestFirst
  Scores <- LowAndHigh
  FirstScore <- BothHigh
  Capacity = 1
  Budget = 1
  AutoThreshold = 82
  ReviewThreshold = 70
  MaxEdits = 1
  MaxExpired = 1
PROPERTIES EligibleIsPromoted
CHECK_DEADLOCK FALSE
