\* The same log; the calls keep to the MAXOPBLOCKS blocks of their shares.
CONSTANTS
    p1 = p1
    p2 = p2
    p3 = p3
    Proc = {p1, p2, p3}
    Blocks = {1, 2, 3}
    Val = {v0, v1}
    Zero = v0
    NoBuf = NoBuf
    InodeStart = 1
    MAXOPBLOCKS = 1
    LOGSIZE = 3
    NLOG = 3
SPECIFICATION LiveSpec
CONSTRAINT WithinShares
PROPERTIES AlwaysAtomic
