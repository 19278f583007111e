CONSTANTS
  p1 = p1  p2 = p2  p3 = p3
  b1 = b1  b2 = b2
  v1 = v1  v2 = v2
  Procs = {p1, p2}
  Blocks = {b1, b2}
  Values = {v1, v2}
  Handler = Handler
  Nobody = Nobody
  NoBuf = NoBuf
  NoReq = NoReq
  Writes = {TRUE, FALSE}
  NUM = 6
  RING = 2
  Wrap = 4
SPECIFICATION Spec
INVARIANTS DriverSound CompletionsSeen
PROPERTY IsDisk
SYMMETRY Symmetry
CHECK_DEADLOCK FALSE
