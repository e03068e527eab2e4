SPECIFICATION Spec
CONSTANTS
  d1 = d1
  d2 = d2
  c1 = c1
  None = None
  RAM = RAM
  Empty = Empty
  Devices = {d1, d2}
  Pages = {1, 2}
  Frames = {0, 1}
  HostPage <- MCHostPage
  Networked = {d1, d2}
  WithBar = {d2}
  MaxPages = 2
  BufferPages = 2
  PollLimit = 2
  CmdLimit = 1
  Cpus = {c1}
  MaxFaults = 2
  MaxRange = 2
  MaxAccesses = 1
  Launched = {d1}
  UserRanges <- MCUserRanges
  MaxEvents = 3
  Rare = {"dma_error"}
PROPERTY FaultsServed
CHECK_DEADLOCK FALSE
