CONSTANTS
  t1 = t1
  Tasks = {t1}
  Crews <- MCCrews
  MaxTs = 2
  MaxLag = 1
  MaxFailures = 1
  InvalidTs = 9
  Pauses = FALSE
SPECIFICATION FairSpec
CHECK_DEADLOCK FALSE

  
PROPERTIES
  WriterReturns
  
  StopsAll
