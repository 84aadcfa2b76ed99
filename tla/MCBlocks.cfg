CONSTANTS
  t1 = t1
  t2 = t2
  t3 = t3
  None = None
  Threads = {t1, t2, t3}
  NPages = 3
  Sizes = {1}
  MaxTs = 4
  Wild = 99
  InvalidTs = 9
  Setups <- MCSetups
  Prompt = TRUE
SYMMETRY Symmetry
SPECIFICATION Spec
CHECK_DEADLOCK FALSE
INVARIANTS
  Tiled
  Listed
  LiveKept
  Accounted
 
