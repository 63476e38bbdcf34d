SPECIFICATION Spec
CONSTANTS
  FaultKinds = {"power"}
  MaxFaults = 1
  MaxWrites = 1
INVARIANTS Grown
