\* Three requests, two values set, one failing access, one failure of the power.
SPECIFICATION Spec
CONSTANTS
  v0 = v0
  v1 = v1
  u1 = u1
  Values <- MCValues
  Default = v0
  Units <- MCUnits
  Zero = Zero
  None = None
  CertSize = 3
  BlockSize = 2
  SetKeys <- MCSetKeys
  MaxRequests = 3
  MaxTokens = 2
  MaxFaults = 1
  MaxCrashes = 1
INVARIANTS
  TypeOK
  RestartKeeps
  
CHECK_DEADLOCK FALSE
