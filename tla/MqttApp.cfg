\* A link that fails once, a client that fails once, one saved configuration.
SPECIFICATION FairSpec
CONSTANTS
  m1 = m1
  m2 = m2
  Clients <- MCClients
  Null = Null
  QueueLength = 8
  MaxPosts = 2
  MaxFailures = 1
  MaxSaves = 1
  MaxBacklog = 1
INVARIANTS
  TypeOK
  LossNeverForgotten
  OneClient
  RetryPending
  ConfigReachesClient
PROPERTIES
  ImplementsSession
  AttemptEnds
CHECK_DEADLOCK FALSE
