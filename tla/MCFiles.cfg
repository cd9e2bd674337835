\* A file has one direct block and two more behind the indirect one; a write of
\* five bytes takes two chunks, fills all three blocks, and a second one fails.
CONSTANTS
    Proc = {p1, p2}
    First = p1
    Ino = {i1, i2}
    NBLOCK = 5
    NDIRECT = 1
    NINDIRECT = 2
    BSIZE = 2
    NFILE = 2
    NOFILE = 2
    MAXOPBLOCKS = 3
    LOGSIZE = 8
    NLOG = 9
    Sizes = {5}
    MaxWrites = 2
    MaxOps = 3
SPECIFICATION LiveSpec
CHECK_DEADLOCK FALSE
PROPERTIES CallsEnd
INVARIANTS AccountsInv FilesHold
