SPECIFICATION Spec
CONSTANTS
  n1 = n1
  Networks <- MCNetworks
  NoNet = NoNet
  QueueLength = 3
  MaxRetries = 1
  MaxRequests = 1
  MaxFailures = 1
  MaxJoins = 0
INVARIANT LostIsRetried
CHECK_DEADLOCK FALSE
