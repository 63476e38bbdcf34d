SPECIFICATION Spec
CONSTANTS
  Damaged = Damaged
  Partial = Partial
  factory = factory
  newer = newer
  sick = sick
  Factory = factory
  Writers <- MCWriters
  Images <- MCImages
  Healthy <- MCHealthy
  MaxGen = 200
  MaxFaults = 2
  MaxOps = 2
  FaultKinds = {"power", "load", "edl", "image", "media"}
  LateDisarm = TRUE
  Quiet = TRUE
CHECK_DEADLOCK FALSE
INVARIANTS KnownGoodDefault OneShot
