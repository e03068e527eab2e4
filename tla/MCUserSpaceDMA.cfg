CONSTANTS
  Threads = {t1, t2}
  Buffers = {b1, b2}
  None = None
  Lens = {1, 3}
  Calls = 1
  Failures = 1
SPECIFICATION DmaSpec
INVARIANTS
  WriteBuffersKept
  ReadsOwnData
PROPERTIES
  ReturnsComplete
  
