CONSTANTS
  Classes = {"zynq", "pcie", "versal", "aws", "sim"}
  NumIntcs = 3
SPECIFICATION SetupSpec
INVARIANTS
  SetupReleased
  QdmaReleased
