CONSTANTS
  Clients = {j1, j2}
  PEs = {p1}
  Regions = {r1, r2}
  None = None
  ParamLists <- MCParamLists
  Starts = 2
  DmaErrors = 1
SPECIFICATION FairSpec
INVARIANTS
  ResourcesTracked
  OwnResults

  
