SPECIFICATION FairSpec
CONSTANTS
  Keys = {k1}
  Minted = Minted
  MaxAttempts = 2
  Unreadable = FALSE
  MaxJobs = 2
  MaxTasks = 2
  MaxCrashes = 1
  MaxDbFaults = 1
  MaxIntruders = 0
INVARIANT
  OneGenerationPerKey
PROPERTY
  EveryJobSettles
CHECK_DEADLOCK FALSE
