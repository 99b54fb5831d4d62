SPECIFICATION Spec
CONSTANTS
  k1 = k1
  k2 = k2
  k3 = k3
  k4 = k4
  v1 = v1
  v2 = v2
  Null = Null
  Key <- MCKey
  Value <- MCValue1
  Hash <- MCHash
  BucketCapacity = 2
  InitCapacity = 2
  HillCapacity = 16
  HillAdd = 5
  MaxCapacity = 60
INVARIANT ScanStaysInTable
\* a broken memory access ends the run: nothing is claimed of what follows it
CHECK_DEADLOCK FALSE
