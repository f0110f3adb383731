SPECIFICATION Spec
CONSTANTS
  Keys = {}
  Minted = Minted
  MaxAttempts = 2
  Unreadable = FALSE
  MaxJobs = 1
  MaxTasks = 1
  MaxCrashes = 0
  MaxDbFaults = 0
  MaxIntruders = 1
INVARIANT
  RecoversOnlyInterrupted
CHECK_DEADLOCK FALSE
