\* Checkpoints of three levels of tables: built, shared, failing, collected.
CONSTANTS
  InoLevels = 2
  FoffsetLevels = 2
  Fan = 2
  MaxPages = 12
  Addrs <- MCAddrs
  MaxWrites = 2
  MaxTs = 2
  MaxFailures = 1
  InvalidTs = 7
  Direct <- MCDirect
SPECIFICATION Spec
INVARIANTS ReadsLog LifetimesHold AllFreed MakerSurvives
CHECK_DEADLOCK FALSE
