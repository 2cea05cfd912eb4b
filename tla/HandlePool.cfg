SPECIFICATION Spec
CONSTANTS
  Threads = {a, b, c}
  NoThread = NoThread
  MaxDepth = 2
  MaxHandles = 2
  MaxWriters = 1
  Types = {Normal, Task}
  Waiting = {Normal}
  MaxCalls = 4
INVARIANTS TypeOK HandleIsOwn NoLeak HandlesBounded OwnerIsAlone FollowInv PartsInv
PROPERTY CallsEnd
CHECK_DEADLOCK FALSE
