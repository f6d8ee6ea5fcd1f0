SPECIFICATION FairSpec
CONSTANTS
  a1 = a1
  a2 = a2
  Actions <- MCActions
  None = None
  Factory = Factory
  Broken = Broken
  QueueLength = 8
  Rollback = FALSE
  Faults <- MCNoFaults
  MaxPosts = 1
  MaxCrashes = 0
  MaxBacklog = 1
PROPERTIES
  InstalledReported
CHECK_DEADLOCK FALSE
