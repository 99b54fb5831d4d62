SPECIFICATION CodecSpec
CONSTANTS
  Client = Client
  Server = Server
  Requests = 3
  PayloadLen <- MCPayloadLen
  HeaderLen = 2
  EchoLen = 1
  WriteCap = 6
  ReadCap = 6
  PipeCap = 6
INVARIANT AllDecoded
\* all requests sent and answered is the end
CHECK_DEADLOCK FALSE
