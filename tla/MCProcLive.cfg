CONSTANTS
  CPUs = {c1, c2}
  NoCpu = NoCpu
  NPROC = 3
  MaxPid = 3
  Calls = {"fork", "wait", "exit"}
SPECIFICATION FairSpec
PROPERTY OrphansReaped
