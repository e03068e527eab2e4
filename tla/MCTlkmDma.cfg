SPECIFICATION PartSpec
CONSTANTS
  w1 = w1
  w2 = w2
  r1 = r1
  r2 = r2
  Nothing = Nothing
  Writers = {w1, w2}
  Readers = {r1, r2}
  Chunks <- MCChunks
  Misaligned = {}
  Ring = 2
  MaxFails = 1
  Procs = {p1, p2}
  Mem = {m1, m2, m3}
  NumBuffers = 2
  MaxGp = 2
  Shared = FALSE
  Free = Free
  Threads = {t1, t2}
  Addrs = {a1, a2, a3}
  PoolSize = 2
  Reuse = FALSE
  None = None
INVARIANTS TransfersDeliver InFlightUntouched   
PROPERTY DmaCallsReturn
CHECK_DEADLOCK FALSE
