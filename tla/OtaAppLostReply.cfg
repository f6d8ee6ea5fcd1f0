SPECIFICATION Spec
CONSTANTS
  a1 = a1
  a2 = a2
  Actions <- MCActions
  None = None
  Factory = Factory
  Broken = Broken
  QueueLength = 8
  Rollback = FALSE
  Faults <- MCLostReply
  MaxPosts = 1
  MaxCrashes = 0
  MaxBacklog = 1
INVARIANTS
  VerdictFits
CHECK_DEADLOCK FALSE
