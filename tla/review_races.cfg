SPECIFICATION Spec
CONSTANTS
  Workers = {w1, w2}
  Clients = {c1}
  MaxAttempts = 2
  MaxReviews = 1
  MaxResolutions = 1
  MaxPackets = 1
  LeaseOutlivesWork = FALSE
SYMMETRY Symmetric
INVARIANTS TypeOK StatusesAgree OneReviewedPacket CompleteIsLinked
PROPERTIES ReadyIsPreserved
CHECK_DEADLOCK FALSE
