CONSTANTS
    MAXARGS = 3
    NSLOT = 6
    Lines <- MCLines
    Tops = {2, 6, 11}
    Rooms = {1, 3, 7}
    NFiles = {1, 5, 14}
    STAGES = 7
    CAP = 2
    NALLOC = 4
    HEAP = 2
    LIMIT = 15
    Requests = {2, 3, 5}
    BUF_SIZE = 4
    LINE = 4
    NOFILE = 8
    DIRSIZ = 2
    INTBITS = 8
    Calls <- MCCalls
SPECIFICATION Spec
INVARIANTS
    RunsRight
    SievesRight
    HeapExact
    CallsRight
PROPERTY
    ProgramsFinish
CHECK_DEADLOCK FALSE
