CONSTANTS
  CPUs = {c1, c2}
  NoCpu = NoCpu
  NPROC = 3
  MaxPid = 4
  Calls = {"fork", "wait", "exit", "kill", "fault"}
SPECIFICATION Spec
SYMMETRY Symmetry
INVARIANTS SchedulerSound NoLostWakeup FamilySound
