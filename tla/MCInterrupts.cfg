CONSTANTS
  Procs = {p1, p2}
  None = None
  Controllers = 2
  PerController = 2
  Direct = 1
  Shifted = FALSE
  PEs = {e1, e2}
  MaxJobs = 2
  Unsafe = TRUE
SPECIFICATION PartSpec
SYMMETRY Symmetry
INVARIANTS
  
  SimInterruptsCounted
