SPECIFICATION Spec
CONSTANTS
  Damaged = Damaged
  Partial = Partial
  factory = factory
  newer = newer
  sick = sick
  Factory = factory
  Writers <- MCWriters
  Images <- MCImages
  Healthy <- MCHealthy
  MaxGen = 200
  MaxFaults = 0
  MaxOps = 3
  FaultKinds = {}
  LateDisarm = FALSE
  Quiet = FALSE
CHECK_DEADLOCK FALSE
INVARIANTS CommittedIsDurable
