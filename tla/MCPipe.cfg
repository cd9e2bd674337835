\* Counters wrap around after two rounds of the buffer; a write may be longer
\* than the pipe.
CONSTANTS
    Proc = {p1, p2, p3}
    First = p1
    Killable = {p2}
    PIPESIZE = 2
    UINT = 4
    WriteSizes = {1, 3}
    ReadSizes = {2}
    MaxBytes = 4
SPECIFICATION LiveSpec
CHECK_DEADLOCK FALSE
PROPERTIES ClosingReaches
INVARIANTS PipeInv NoneStranded
