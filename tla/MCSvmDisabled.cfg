SPECIFICATION Spec
CONSTANTS
  d1 = d1
  d2 = d2
  c1 = c1
  None = None
  RAM = RAM
  Empty = Empty
  Devices = {d1, d2}
  Pages = {1, 2}
  Frames = {0, 1}
  HostPage <- MCHostPage
  Networked = {}
  WithBar = {d2}
  MaxPages = 2
  BufferPages = 2
  PollLimit = 2
  CmdLimit = 1
  Cpus = {c1}
  MaxFaults = 2
  MaxRange = 2
  MaxAccesses = 1
  Launched = {d1, d2}
  UserRanges <- MCUserRanges
  MaxEvents = 4
  Rare = {"refuse"}
INVARIANT DisabledStaysOff
CHECK_DEADLOCK FALSE
