CONSTANTS
  t1 = t1
  t2 = t2
  i1 = i1
  i2 = i2
  Unreferenced = Unreferenced
  Absent = Absent
  Tasks = {t1, t2}
  Inos = {i1, i2}
  MaxRefcount = 2
  Batches = 2
  MaxSize = 2
  MaxFailures = 1
  Snoops = FALSE
  KeepsFiles = FALSE
  Foreign = FALSE
  Recycles = FALSE
SYMMETRY Symmetry
SPECIFICATION Spec
INVARIANTS
  Counted
  
  LookupsStay
  
PROPERTY SizeNeedsZeros
