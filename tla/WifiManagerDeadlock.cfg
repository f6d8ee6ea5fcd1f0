SPECIFICATION FairSpec
CONSTANTS
  n1 = n1
  Networks <- MCNetworks
  NoNet = NoNet
  QueueLength = 3
  MaxRetries = 1
  MaxRequests = 4
  MaxFailures = 1
  MaxJoins = 1
PROPERTY RequestProcessed
CHECK_DEADLOCK FALSE
