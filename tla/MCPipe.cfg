CONSTANTS
  p1 = p1  p2 = p2  p3 = p3
  b1 = b1  b2 = b2
  Procs = {p1, p2, p3}
  Creator = p1
  NoProc = NoProc
  Bytes = {b1, b2}
  PIPESIZE = 2
  Wrap = 4
  MaxN = 2
  Killable = {p2}
SPECIFICATION Spec
INVARIANTS PipeSound WakeupsArrive
PROPERTY IsQueue
CHECK_DEADLOCK FALSE
SYMMETRY Symmetry
