SPECIFICATION Spec
CONSTANTS
  Size = 5
  Persist = 3
  Base <- BaseImage
  Openpilot <- OpenpilotImage
  Procs = {p1, p2}
  Ids = {i1, i2}
  MaxFaults = 2
  MaxOps = 5
INVARIANTS SameIdentity ReadyMeansProvisioned OneIdentity FlashComplete
PROPERTY BootReadies
