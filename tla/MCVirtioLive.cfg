CONSTANTS
  p1 = p1  p2 = p2  p3 = p3 p4 = p4
  b1 = b1  b2 = b2
  v1 = v1  v2 = v2
  Procs = {p1, p2, p3, p4}
  Blocks = {b1}
  Values = {v1}
  Handler = Handler
  Nobody = Nobody
  NoBuf = NoBuf
  NoReq = NoReq
  Writes = {FALSE}
  NUM = 5
  RING = 2
  Wrap = 4
SPECIFICATION FairSpec
INVARIANT NoDescJustified
PROPERTY RequestReturns
CHECK_DEADLOCK FALSE
