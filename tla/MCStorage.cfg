CONSTANTS
    Procs = {p1, p2}
    Init_ = p1
    NPAGES = 18
    USERSTACK = 2
    PGSIZE = 2
    LEVELS = 2
    FAN = 5
    Programs <- MCPrograms
    Argcs <- MCArgcs
    Grow <- MCGrow
    Copies <- MCCopies
    Fetches <- MCFetches
    OpenFiles = {10, 12}
    InodeOf <- MCInodeOf
    UserFiles <- MCUserFiles
    NDIRECT = 1
    BSIZE = 2
    NMETA = 1
    FSSIZE = 9
    BPB = 1
    MAXOPBLOCKS = 6
    Sizes = {1, 3}
SPECIFICATION Spec
INVARIANTS
    MemoryRight
    UserCopiesRight
    FilesRight
    WriteFitsTransaction
VIEW View
