\* A checkout whose store is still buffered when it is validated.
CONSTANTS
  Threads = {t1}
  NoThread = NoThread
  Pages = {p}
  Inode = Inode
  Crews = {{"pages"}}
  MaxTs = 2
  InvalidTs = 7
  None = None
  Fenced = FALSE
  Failures = FALSE
  WindowBegins = FALSE
  DirectAccess = {}
SPECIFICATION Spec
INVARIANTS CheckedOutAlive
CHECK_DEADLOCK FALSE
