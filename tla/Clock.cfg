SPECIFICATION Spec
CONSTANTS
  Builds = {1, 2}
  Lifetime = 7
  Hardware = {0}
  Wrong = {1}
  Threshold = 0
  MaxSlew = 1
  GpsAge = 1
  Current = 2
  Poll = 1
  Retry = 2
  SavePeriod = 1
  QueryLimit = 0
  Hold = 1
  Start = 1
  Horizon = 8
INVARIANT LossBounded
PROPERTIES ImplementsForwardClock CleanStop NtsAccuracy NtsPreferred
