SPECIFICATION UvSpec
CONSTANTS
  MaxConn = 2
  MaxFrames = 3
  AnswerRoom = 2
INVARIANT ClosedOnce
\* the caller ends with uninit
CHECK_DEADLOCK FALSE
