CONSTANTS
  Files = {f1, f2, f3}
  Callers = {f1, f2}
  Entries = {e1, e2, e3}
  None = None
  SizeMax = 7
  Devices = {d1, d2, d3}
  NoDevice = NoDevice
  ListHead = ListHead
SPECIFICATION AccessSpec
INVARIANTS
  CountsMatch
  Exclusion
  
  BusAgrees
PROPERTIES
  KeepsPromise
  DeviceFreed
