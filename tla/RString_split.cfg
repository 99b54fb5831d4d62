SPECIFICATION StringsSpec
CONSTANTS
  SourceLen = 4
  Char <- MCChar
  Source <- MCSource
  Pattern <- AllPatterns
  Fresh <- MCFresh
  MaxLen = 2
  MaxTable = 5
PROPERTY SplitRoundTrip
CHECK_DEADLOCK FALSE
