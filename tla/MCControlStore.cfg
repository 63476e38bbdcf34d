SPECIFICATION StoreSpec
CONSTANTS
  Damaged = Damaged
  Writers = {w1, w2}
  MaxGen = 3
SYMMETRY WriterSymmetry
INVARIANTS StoreInv
PROPERTIES AtomicRecord
