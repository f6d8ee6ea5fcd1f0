\* The real queue length against a link that keeps failing.
SPECIFICATION Spec
CONSTANTS
  s1 = s1
  s2 = s2
  s3 = s3
  Sockets <- MCSockets
  NoSocket = NoSocket
  QueueLength = 8
  MaxPosts = 11
  Requests <- MCNone
SYMMETRY MCSymmetry
INVARIANT PostFitsInAccept
CHECK_DEADLOCK FALSE
