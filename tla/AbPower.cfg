SPECIFICATION FairSpec
CONSTANTS
  Damaged = Damaged
  Partial = Partial
  factory = factory
  newer = newer
  sick = sick
  Factory = factory
  Writers <- MCWriters
  Images <- MCImages
  Healthy <- MCHealthy
  MaxGen = 200
  MaxFaults = 1
  MaxOps = 3
  FaultKinds = {"power", "image"}
  LateDisarm = FALSE
  Quiet = TRUE
CHECK_DEADLOCK FALSE
INVARIANTS TypeOK TrialVerified BootRestoresCopies
PROPERTIES ImplementsAbUpdate RestNears Settles TrialsDecided
