\* LOGSIZE = 3 * MAXOPBLOCKS and a log of LOGSIZE blocks, as in param.h and mkfs.c;
\* a chunk has two blocks.
CONSTANTS
    Proc = {p1, p2}
    First = p1
    Ino = {i1, i2}
    NBLOCK = 6
    NDIRECT = 1
    NINDIRECT = 2
    BSIZE = 2
    NFILE = 2
    NOFILE = 2
    MAXOPBLOCKS = 3
    LOGSIZE = 9
    NLOG = 9
    Sizes = {5}
    MaxWrites = 2
    MaxOps = 2
SPECIFICATION Spec
INVARIANTS LogNeverFull
CHECK_DEADLOCK FALSE
