SPECIFICATION FairSpec
CONSTANTS
  t1 = t1
  t2 = t2
  debug = debug
  info = info
  Thread <- MCThread
  Level <- MCLevel
  InfoLevel = info
  SizeMax = 1
  Recursive = FALSE
  MaxCalls = 2
PROPERTY CallReturns
\* the threads have made their calls
CHECK_DEADLOCK FALSE
