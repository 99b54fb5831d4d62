SPECIFICATION MCSpec
CONSTANTS
  k1 = k1
  k2 = k2
  k3 = k3
  k4 = k4
  v1 = v1
  v2 = v2
  Null = Null
  Key <- MCKey
  Value <- MCValue
  Hash <- MCHash
  BucketCapacity = 2
  InitCapacity = 2
  HillCapacity = 16
  HillAdd = 5
  MaxCapacity = 60
  b1 = b1
  b2 = b2
  b3 = b3
  b4 = b4
  NoBlock = NoBlock
  NoItem = NoItem
  Block <- MCBlock
  InitElems = 1
  AdjustElems = 2
  p1 = p1
  p2 = p2
  p3 = p3
  Type <- MCType
  ChainHead = ChainHead
  NoNode = NoNode
  x = x
  y = y
  Byte <- MCByte
  BufferSize = 4
  MaxChunk = 3
  SourceLen = 5
  Char <- MCChar
  Source <- MCSource
  Pattern <- TablePatterns
  Fresh <- MCFresh
  MaxLen = 2
  MaxTable = 5
INVARIANTS TypeOK Placement SizeExact IterationSound ListSound ChainExact StringsExact
PROPERTIES AddReturns ImplementsMap ImplementsAllocator ImplementsQueue Returns
\* a broken memory access ends the run, and so does the end of a call; every
\* address of a block may be lost
CHECK_DEADLOCK FALSE
