SPECIFICATION FairSpec
CONSTANTS
  MaxJobs = 3
  MaxLoads = 2
  MaxMounts = 2
  MaxMoves = 2
  MaxRetries = 2
  MaxResumes = 1
INVARIANTS
  OneUnansweredPurchase
  RetryingIsAwaited
PROPERTIES
  LateAnswersOnlyNavigate
  ShowsTheEnd
CHECK_DEADLOCK FALSE
