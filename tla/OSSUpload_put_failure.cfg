SPECIFICATION Spec
CONSTANTS
  b1 = b1
  b2 = b2
  b3 = b3
  s1 = s1
  Batches = {b1, b2, b3}
  Singles = {}
  Size <- SerialSize
  MaxRetry = 1
  KeyStep = 1
  MaxRandom = 0
  MaxClock = 2
  Overlapping = FALSE
  NotValue = NotValue
  NoBatch = NoBatch
INVARIANT
  SuccessMeansStored
CHECK_DEADLOCK FALSE
