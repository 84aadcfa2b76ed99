CONSTANTS
  c1 = c1
  c2 = c2
  c3 = c3
  c4 = c4
  Null = Null
  Chunks = {c1, c2, c3, c4}
  ChunkSize = 3
  Sizes = {1, 2, 4}
  DeleteBatch = 2
  MaxTs = 8
  InsertFails = FALSE
SYMMETRY Symmetry
SPECIFICATION Spec
CHECK_DEADLOCK FALSE
INVARIANTS
  EntriesAlive
  FreesOnce
  NoneLeaked
