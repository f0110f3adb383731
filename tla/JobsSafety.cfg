SPECIFICATION Spec
CONSTANTS
  Keys = {}
  Minted = Minted
  MaxAttempts = 2
  Unreadable = TRUE
  MaxJobs = 2
  MaxTasks = 2
  MaxCrashes = 1
  MaxDbFaults = 1
  MaxIntruders = 1
INVARIANTS
  OwnTask
  VerdictIsTheProviders
  OrphansAreExplained
  SubmittingIsAwaited
PROPERTIES
  ClosedStaysClosed
  KeepsContract
CHECK_DEADLOCK FALSE
