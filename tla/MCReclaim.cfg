\* Each collector against publication, checkout and faults; beside the log
\* collector the threads also ask for direct access.
CONSTANTS
  Threads = {t1}
  NoThread = NoThread
  Pages = {p}
  Inode = Inode
  Crews = {{"pages"}, {"log"}}
  MaxTs = 2
  InvalidTs = 7
  None = None
  Fenced = TRUE
  Failures = TRUE
  WindowBegins = FALSE
  DirectAccess = {{"log"}}
SPECIFICATION Spec
INVARIANTS CheckedOutAlive MappedAlive MappedCurrent  LogHeld
CHECK_DEADLOCK FALSE
