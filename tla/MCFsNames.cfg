CONSTANTS
    p1 = p1
    p2 = p2
    NoProc = NoProc
    Procs = {p1, p2}
    Init_ = p1
    Names = {"d", "f"}
    NINODES = 3
    NFILE = 2
    NOFILE = 2
    MaxCalls = 4
    MaxAgain = 2
    MaxLink = 2
    Calls <- CallsTree
SPECIFICATION Spec
INVARIANTS NoPanic LocksAcyclic CountsExact Reclaimed
CHECK_DEADLOCK FALSE
