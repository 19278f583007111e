CONSTANTS
  Procs = {p1, p2}
  Blocks = {b1, b2, b3}
  Values = {v0, v1}
  Zero = v0
  NoBuf = NoBuf
  MAXOPBLOCKS = 2
  OpWrites = 1
  LOGSIZE = 4
  nlog = 4
SPECIFICATION FairSpec
INVARIANTS TypeOK CommitExcludesOps DirtyIsPinned NoStrandedSleeper NoPanic
PROPERTIES WriteAhead CrashAtomic LogProgress
