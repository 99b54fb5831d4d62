SPECIFICATION MCSpec
CONSTANTS
  s1 = s1
  s2 = s2
  s3 = s3
  Null = Null
  System <- MCSystem
  Elem <- MCSystem
  InitCapacity = 2
  MaxSize = 3
  Stopped <- MCStopped
  MaxNested = 2
  e1 = e1
  e2 = e2
  e3 = e3
  c1 = c1
  Entity <- MCEntity
  Component <- MCComponent
  NoObject = NoObject
  SidMin = 1
  SidMax = 2
INVARIANTS CallsInOrder MissedByRemovalOnly Registered
PROPERTIES RunEnds ImplementsSeq NewEnds StaleOnlyIfReused
