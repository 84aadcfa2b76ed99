CONSTANTS
  p1 = p1
  p2 = p2
  Own = Own
  InvalidTs = InvalidTs
  Pages = {p1, p2}
  Locs <- MCLocs
  MaxTs = 3
  MaxWrites = 1
  Truncates = FALSE
  LossyReclaim = FALSE
  Handlers = FALSE
SPECIFICATION Spec
INVARIANTS
  ReadsSnapshot
  WritesServed
  
