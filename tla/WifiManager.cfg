SPECIFICATION Spec
CONSTANTS
  n1 = n1
  Networks <- MCNetworks
  NoNet = NoNet
  QueueLength = 3
  MaxRetries = 1
  MaxRequests = 2
  MaxFailures = 3
  MaxJoins = 1
INVARIANTS
  TypeOK
  NeverGivesUp
  ScanNeverStuck
  DriverAccepts
  StorageFree
CHECK_DEADLOCK FALSE
