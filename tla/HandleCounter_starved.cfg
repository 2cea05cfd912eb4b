SPECIFICATION CounterSpec
CONSTANTS
  Threads = {a, b, c, d}
  MaxHandles = 2
  MaxWriters = 1
PROPERTY WaitsForHandles
