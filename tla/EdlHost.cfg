SPECIFICATION Spec
CONSTANTS
  Boards = {d1, d2}
  Parts <- PartNames
  MaxFaults = 2
  MaxGen = 3
SYMMETRY BoardSymmetry
INVARIANTS BackupKept RecordsKept ChecksHold
PROPERTY NoLateWrite
