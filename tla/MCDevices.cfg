CONSTANTS
    CPUs = {"c0", "c1"}
    Boot = "c0"
    Procs = {"p1", "p2"}
    NoProc = "nobody"
    Calls <- MCCalls
    Killable = {"p1"}
    Typed = {"a", "cr", "^D", "^U", "^H"}
    SIZE = 2
    TXSIZE = 1
    Wrap = 4
    FIFO = 2
    MaxN = 2
    Since = 3
    MaxEvents = 3
SPECIFICATION FairSpec
INVARIANTS InterruptSafe SleepExact
PROPERTIES IsTerminal OutputDrains
CHECK_DEADLOCK FALSE
