CONSTANTS
  t1 = t1
  t2 = t2
  Null = Null
  Threads = {t1, t2}
  Blocks = {0}
  BlockSize = 7
  Elt = 2
  MaxRestore = 2
SYMMETRY Symmetry
SPECIFICATION Spec
CHECK_DEADLOCK FALSE
INVARIANTS
  OnlyDoubleFreesConflict
  ListsProper
  Restorable
