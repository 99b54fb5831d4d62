SPECIFICATION Spec
CONSTANTS
  Fd = {1, 2}
  ListenFd = 9
  Buckets = 1
  AcceptMax = 2
  MaxSid = 2
  MaxData = 1
INVARIANT AllClosed
\* the caller ends with uninit
CHECK_DEADLOCK FALSE
