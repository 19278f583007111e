CONSTANTS
  p1 = p1  p2 = p2  p3 = p3
  b1 = b1  b2 = b2  b3 = b3
  v1 = v1  v2 = v2
  Procs = {p1, p2, p3}
  Blocks = {b1, b2, b3}
  Values = {v1, v2}
  NoProc = NoProc
  NoBlock = NoBlock
  NBUF = 2
  MaxPins = 1
SPECIFICATION Spec
INVARIANT BuffersExact
PROPERTY IsStore
SYMMETRY Symmetry
CHECK_DEADLOCK FALSE
