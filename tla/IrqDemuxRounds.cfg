CONSTANTS
  Procs = {p1}
  None = None
  Controllers = 1
  PerController = 3
  Direct = 0
  Shifted = TRUE
SPECIFICATION IrqSpec
INVARIANT
  RegisteredDelivered
