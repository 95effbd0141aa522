SPECIFICATION FairSpec
CONSTANTS
  Workers = {w1}
  Clients = {}
  MaxAttempts = 2
  MaxReviews = 1
  MaxResolutions = 2
  MaxPackets = 1
  LeaseOutlivesWork = TRUE
PROPERTIES ImplementsRegeneration RegenerationSettles
CHECK_DEADLOCK FALSE
