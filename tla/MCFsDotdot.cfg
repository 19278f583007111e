CONSTANTS
    p1 = p1
    p2 = p2
    NoProc = NoProc
    Procs = {p1}
    Init_ = p1
    Names = {"d", "e"}
    NINODES = 4
    NFILE = 1
    NOFILE = 1
    MaxCalls = 6
    MaxAgain = 6
    MaxLink = 2
    Calls <- CallsDeep
SPECIFICATION Spec
INVARIANT NoPanic
CHECK_DEADLOCK FALSE
