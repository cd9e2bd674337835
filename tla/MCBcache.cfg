\* Fewer buffers than blocks, a pin leaves one buffer to recycle, reads may fail.
CONSTANTS
    Proc = {p1, p2}
    Buf = {x1, x2}
    Blocks = {b1, b2, b3}
    Written = {b1, b2}
    Val = {v0, v1}
    Zero = v0
    None = None
    LOGSIZE = 1
    DiskErrors = TRUE
SPECIFICATION LiveSpec
CHECK_DEADLOCK FALSE
PROPERTIES WaitsEnd
INVARIANTS CacheInv ReadsLatest
