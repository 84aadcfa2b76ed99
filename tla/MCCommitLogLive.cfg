CONSTANTS
  t1 = t1
  t2 = t2
  x = x
  NoThread = NoThread
  Threads = {t1, t2}
  Words = {x}
  MaxTs = 3
  InvalidTs = 7
  PausedCommits = FALSE
SPECIFICATION FairSpec
PROPERTIES
  CommitReturns
  ImplementsSnapshotIsolation
INVARIANTS
  TicketsOwned
