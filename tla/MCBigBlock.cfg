CONSTANTS
  N = 2
  W = 9
SPECIFICATION Spec
INVARIANTS
  Bracketed
