SPECIFICATION FairSpec
CONSTANTS
  OpenTimeout = 9
  Timeout = 6
  StartDeadline = 6
  HealthDeadline = 24
  StopDeadline = 2
  Poll = 2
CHECK_DEADLOCK FALSE
INVARIANTS ResetInTime DisarmedWhenRecorded DecidedIsSafe
PROPERTIES BootDecides
