SPECIFICATION FairSpec
CONSTANTS
  FaultKinds = {"power", "expand", "storage"}
  MaxFaults = 3
  MaxWrites = 3
INVARIANTS DataKept Nested LayoutComplete GrownUnlessInterrupted
PROPERTIES Restartable
