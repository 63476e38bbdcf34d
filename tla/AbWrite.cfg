SPECIFICATION FairSpec
CONSTANTS
  Damaged = Damaged
  Partial = Partial
  factory = factory
  newer = newer
  sick = sick
  Factory = factory
  Writers <- MCWriters
  Images <- MCImages
  Healthy <- MCHealthy
  MaxGen = 200
  MaxFaults = 2
  MaxOps = 1
  FaultKinds = {"power", "write"}
  LateDisarm = FALSE
  Quiet = TRUE
CHECK_DEADLOCK FALSE
INVARIANTS OneShot CommittedIsDurable
PROPERTIES BlindBoardStops
