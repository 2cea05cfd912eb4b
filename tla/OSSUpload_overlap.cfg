SPECIFICATION Spec
CONSTANTS
  b1 = b1
  b2 = b2
  b3 = b3
  s1 = s1
  Batches = {b1, b2}
  Singles = {s1}
  Size <- EqualSize
  MaxRetry = 0
  KeyStep = 1
  MaxRandom = 0
  MaxClock = 1
  Overlapping = TRUE
  NotValue = NotValue
  NoBatch = NoBatch
INVARIANTS
  NoCrash
  SlotsAligned
  QuietIsReported
  
CHECK_DEADLOCK FALSE
