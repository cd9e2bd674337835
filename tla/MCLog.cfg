\* The repository's geometry at its smallest: three calls fit in the log at a
\* time (LOGSIZE = 3 * MAXOPBLOCKS, param.h:11), and the log area, its header
\* included, has LOGSIZE blocks (mkfs.c:25) and is followed by the inode blocks.
CONSTANTS
    p1 = p1
    p2 = p2
    p3 = p3
    Proc = {p1, p2, p3}
    Blocks = {1, 2, 3}
    Val = {v0, v1}
    Zero = v0
    NoBuf = NoBuf
    InodeStart = 1
    MAXOPBLOCKS = 1
    LOGSIZE = 3
    NLOG = 3
SPECIFICATION LiveSpec
CONSTRAINT UnderLoad
PROPERTIES AtomicSpec WorkEnds
INVARIANTS Capacity SafeToRecycle QuietDurable NoStrandedSleeper
