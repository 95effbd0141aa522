SPECIFICATION Spec
CONSTANTS
  Unit = 1000
  RetryCount = 1
  NoBlock = NoBlock
  Bank <- RegistryBank
  Base <- RegistryBase
  Rules <- RegistryRules
  Pages <- SomePages
  Signals <- SomeSignals
  Answers <- SomeAnswers
  Facts <- SomeFacts
  Clients <- SomeClients
  Mentions <- SomeMentions
  Responses <- SomeResponses
  Readings <- SomeReadings
INVARIANTS QualityIsMonotone BlockedIsNotPromoted
  ClearMatchIsOfFamily FusionKeepsRules TailoredFilesAgree NoProjectTwice
  DoubtIsReviewed AcceptedIsValid
