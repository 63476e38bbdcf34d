SPECIFICATION Spec
CONSTANTS
  Damaged = Damaged
  Writers <- MCWriters
  MaxGen = 6
  MaxFaults = 4
  MaxOps = 5
INVARIANTS OneShot RecoveryKept
PROPERTY SameSelection
