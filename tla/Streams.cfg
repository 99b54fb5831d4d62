SPECIFICATION MCSpec
CONSTANTS
  Client = Client
  Server = Server
  Requests = 3
  PayloadLen <- MCPayloadLen
  HeaderLen = 2
  EchoLen = 1
  WriteCap = 6
  ReadCap = 6
  PipeCap = 6
  MaxConn = 2
  MaxFrames = 3
  AnswerRoom = 2
INVARIANTS NoLostWakeup StreamIntact InOrder AllDecodedUncut
INVARIANTS SessionsAccounted AnswersExact
PROPERTIES EventuallyTaken BrokenIsClosed StopEnds
\* all requests are answered; the caller of the server ends with uninit
CHECK_DEADLOCK FALSE
