\* One INIT_REQ, then any order of link events and shutdowns.
SPECIFICATION FairSpec
CONSTANTS
  s1 = s1
  s2 = s2
  s3 = s3
  Sockets <- MCSockets
  NoSocket = NoSocket
  QueueLength = 8
  MaxPosts = 6
  Requests <- MCShutdown
INVARIANTS
  TypeOK
  SocketsOwned
  NeverStalls
  LossNeverForgotten
  QueueLoad
PROPERTIES
  ImplementsListener
  KeepsPromises
CHECK_DEADLOCK FALSE
