SPECIFICATION FairSpec
CONSTANTS
  Processes = {"single", "all"}
  Together <- OneOfEach
  Runners = {"a", "b", "c", "d"}
  Loop <- Loops
  Forever = {"single"}
  Types = {"q1", "q2", "regeneration"}
  TypeOf <- Serves
  Poll = 1
  MaxBackoff = 2
  Offline = 2
  MaxFailures = 1
  Grace = 1
  LongestWork = 1
  MaxAge = 4
  MaxQueued = 1
INVARIANTS TypeOK SilenceIsBounded OneLateUnit StopIsPrompt
PROPERTIES StopIsHonoured UnservedIsReported EveryRunnerPolls
CHECK_DEADLOCK FALSE
