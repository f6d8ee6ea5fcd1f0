\* Any fault, in any combination, and one crash.
SPECIFICATION FairSpec
CONSTANTS
  a1 = a1
  a2 = a2
  Actions <- MCActions
  None = None
  Factory = Factory
  Broken = Broken
  QueueLength = 8
  Rollback = TRUE
  Faults <- MCAllFaults
  MaxPosts = 2
  MaxCrashes = 1
  MaxBacklog = 1
INVARIANTS
  TypeOK
  BootIntact
  
  PollPending
PROPERTIES
  
  ImplementsUpdater
CHECK_DEADLOCK FALSE
