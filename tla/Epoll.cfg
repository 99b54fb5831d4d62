SPECIFICATION MCSpec
CONSTANTS
  Fd = {1, 2}
  ListenFd = 9
  Buckets = 4
  AcceptMax = 2
  MaxSid = 3
  MaxData = 1
  MaxBytes = 2
INVARIANTS NoStaleDispatch Agreement AllClosed SafeOnceStarted ClientAgrees
PROPERTIES ClosedStaysClosed GoneIsClosed GoneIsLeft StartReturns
\* the caller ends with uninit
CHECK_DEADLOCK FALSE
