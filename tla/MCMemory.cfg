\* Pages of two bytes, tables of two pages, three tables below the kernel.
CONSTANTS
    NPROC = 3
    NCPU = 2
    NLOW = 5
    NFRAME = 16
    PGSIZE = 2
    NPTENTRIES = 2
    KERNBASE = 12
    NKTAB = 1
    MaxCalls = 3
    Programs <- MCPrograms
    Grow <- MCGrow
SPECIFICATION Spec
CHECK_DEADLOCK FALSE
PROPERTIES FailedKeeps CallsEnd
INVARIANTS PagesInv
