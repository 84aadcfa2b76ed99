CONSTANTS
  t1 = t1
  t2 = t2
  x = x
  y = y
  NoThread = NoThread
  Threads = {t1, t2}
  Words = {x, y}
  MaxTs = 3
  InvalidTs = 7
  PausedCommits = TRUE
CHECK_DEADLOCK FALSE
SYMMETRY Symmetry
SPECIFICATION Spec
INVARIANTS
  TypeOK
  FirstCommitterWins
  AbortJustified
PROPERTIES
  SnapshotStable
