SPECIFICATION FairSpec
CONSTANTS
  HttpErrors = {304, 400, 401, 402, 422, 429, 500}
  MaxRestarts = 1
  MaxAttempts = 3
INVARIANTS
  RefusedIsFree
  StallIsEarned
PROPERTIES
  TrackingEnds
  PaidJobKeepsContract
CHECK_DEADLOCK FALSE
